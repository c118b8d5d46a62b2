---------------------------- MODULE Preferences ----------------------------
(***************************************************************************)
(* The settings a user overrides (services/settings.py, config/schema.py)  *)
(* and the configuration handlers read (pipeline/effective_settings.py):   *)
(* the process's base configuration, the row of the database over it, and  *)
(* the environment, which is part of the base and wins field by field.     *)
(*                                                                         *)
(* Two fields of the matching settings stand for the ones a validator      *)
(* relates: strong must stay below reject.                                 *)
(***************************************************************************)
EXTENDS Naturals, Functions

CONSTANT MaxValue   \* bound: values of a threshold

VARIABLES
    base,    \* the configuration the process has loaded
    pinned,  \* fields set by the environment
    stored,  \* the row of the settings table
    settled  \* base and pinned are as they were at the last write

preferencesVars == <<base, pinned, stored, settled>>

Fields   == {"strong", "reject"}
Values   == 0 .. MaxValue
Partial  == UNION {[S -> Values] : S \in SUBSET Fields}
NothingStored    == [f \in {} |-> 0]

\* MatchingConfig._validate_thresholds
Valid(config) == config["strong"] < config["reject"]

Over(upper, lower) ==
    [f \in DOMAIN lower \cup DOMAIN upper |->
        IF f \in DOMAIN upper THEN upper[f] ELSE lower[f]]

\* effective_matching_config: model_copy applies the row without validation.
Effective == Over(Restrict(stored, DOMAIN stored \ pinned), base)

\* update_matching_settings validates the base, the row and the update merged.
Merged(updates) == Over(updates, Over(stored, base))

Update(updates) ==
    /\ Valid(Merged(updates))
    /\ stored' = Over(updates, stored)
    /\ settled' = (settled \/ stored = NothingStored)
    /\ UNCHANGED <<base, pinned>>

\* reset_matching_settings deletes the row.
Reset ==
    /\ stored' = NothingStored
    /\ settled' = TRUE
    /\ UNCHANGED <<base, pinned>>

\* A restart with another file or environment; load_config validates the base.
Restart ==
    /\ base' \in {c \in [Fields -> Values] : Valid(c)}
    /\ pinned' \in SUBSET Fields
    /\ settled' = (settled /\ <<base', pinned'>> = <<base, pinned>>)
    /\ UNCHANGED stored

PreferencesInit ==
    /\ base \in {c \in [Fields -> Values] : Valid(c)}
    /\ pinned \in SUBSET Fields
    /\ stored = NothingStored
    /\ settled = TRUE

PreferencesNext == (\E updates \in Partial : Update(updates)) \/ Reset \/ Restart

PreferencesSpec == PreferencesInit /\ [][PreferencesNext]_preferencesVars

-----------------------------------------------------------------------------
PreferencesTypeOK ==
    /\ base \in [Fields -> Values] /\ pinned \subseteq Fields
    /\ stored \in Partial /\ settled \in BOOLEAN

\* However the fields are written, one at a time or together, the thresholds
\* the engine works with are ordered, as long as no environment variable pins a
\* field and the base is the one the row was written over.
WritesStayOrdered == settled /\ pinned = {} => Valid(Effective)

\* effective_settings.py: "Corrupt stored values fall back to base".
EffectiveIsValid == Valid(Effective)
=============================================================================
