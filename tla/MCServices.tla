----------------------------- MODULE MCServices -----------------------------
(***************************************************************************)
(* The services around the library for model checking, side by side.  A    *)
(* behaviour is one of a single component; the others stay in an initial   *)
(* state of theirs.  The properties are those of the components.           *)
(***************************************************************************)
EXTENDS Services, TLC

CONSTANTS mb, dz   \* the two providers

\* A search finds nothing, or two releases, one of them twice; one release may
\* be in the cache at first.
TwoAnswers == {<<>>, <<1, 2, 1>>}
OneKept    == {<<mb, 1>>}

\* The work units of an import are alike.
GroupsAlike == Permutations(Groups)

VARIABLE part   \* the component that runs

servicesVars == <<part, vars, importsVars, retrievalVars, gateway, enrichmentVars,
                  credentialsVars, preferencesVars>>

\* A component that does not run stands in one initial state of those it has.
NothingCached == ~refresh /\ \A c \in Candidates : releases[c] = NoRow
NoEntries     == ~detached /\ \A op \in Ops : cached[op] = NoEntry
Covers        == kind = "cover"
NoToken       == setting = NoSetting
Unpinned      == pinned = {} /\ base = [f \in Fields |-> IF f = "strong" THEN 0 ELSE 1]

ServicesInit ==
    /\ part \in {"maintenance", "imports", "retrieval", "gateway", "enrichment", "credentials",
                 "preferences"}
    /\ Init /\ ImportsInit
    /\ RetrievalInit   /\ (part # "retrieval" => NothingCached)
    /\ GatewayInit     /\ (part # "gateway" => NoEntries)
    /\ EnrichmentInit  /\ (part # "enrichment" => Covers)
    /\ CredentialsInit /\ (part # "credentials" => NoToken)
    /\ PreferencesInit /\ (part # "preferences" => Unpinned)

Others(component) ==
    /\ part = component /\ UNCHANGED part
    /\ component # "maintenance" => UNCHANGED vars
    /\ component # "imports"     => UNCHANGED importsVars
    /\ component # "retrieval"   => UNCHANGED retrievalVars
    /\ component # "gateway"     => UNCHANGED gateway
    /\ component # "enrichment"  => UNCHANGED enrichmentVars
    /\ component # "credentials" => UNCHANGED credentialsVars
    /\ component # "preferences" => UNCHANGED preferencesVars

ServicesNext ==
    \/ Others("maintenance") /\ Next
    \/ Others("imports")     /\ ImportsNext
    \/ Others("retrieval")   /\ RetrievalNext
    \/ Others("gateway")     /\ GatewayNext
    \/ Others("enrichment")  /\ EnrichmentNext
    \/ Others("credentials") /\ CredentialsNext
    \/ Others("preferences") /\ PreferencesNext

ServicesSpec == ServicesInit /\ [][ServicesNext]_servicesVars
=============================================================================
