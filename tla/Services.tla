------------------------------ MODULE Services ------------------------------
(***************************************************************************)
(* The services around the library: resets, import sessions, the retrieval *)
(* of candidates, the cache of providers, the enrichment of reviews,       *)
(* credentials and preferences.  They share no state that these modules    *)
(* hold, so what is said here of several of them is said of each.  The     *)
(* parts of a property are stated and explained in their modules.          *)
(***************************************************************************)
EXTENDS Maintenance, Imports, Retrieval, Gateway, Enrichment, Credentials, Preferences

\* Every variable keeps its type; the shortlist of a retrieval keeps its bound
\* (the components' own type invariants).
TypesOK ==
    /\ TypeOK /\ ImportsTypeOK /\ RetrievalTypeOK /\ GatewayTypeOK /\ EnrichmentTypeOK
    /\ CredentialsTypeOK /\ PreferencesTypeOK

\* What an import matched is in a review; a session under review went through
\* all its stages, and has them all done unless two jobs worked on it at once
\* (services/imports.py, jobs/handlers/import_session.py); no section of a review
\* waits for a job that is over, and the lyrics handler does not hold the writer
\* while it waits (jobs/handlers/enrich_lyrics.py).
WorkIsSettled ==
    ProposedIsVisible /\ ReviewingIsComplete /\ AttemptsSettle /\ LyricsReservationIsShort

\* A completed stage of an import is undone, over cancellations, failures, retries
\* and crashes, only by a job that read it before it was done, while two worked at
\* once; a section is "not found" when no provider failed; a late section leaves the
\* proposal of a discarded review alone, and reopens the review only when it read
\* it before the discard (jobs/handlers/enrich_art.py, pipeline/reviews.py).
OutcomesStand ==
    [][KeepsDone /\ ReportsFailure /\ KeepsRejection]_<<importsVars, enrichmentVars>>

\* A provider that failed is not shown as one without results, and each one that
\* found something is heard (matching/candidates.py, providers/cache.py).
FailuresAreTold == FailureIsNotZero /\ EachProviderHeard /\ FailureIsNotAbsence

\* A row names no credential that is lost; nothing in plain text is left; the
\* clients that are open are those in use, and so is the status shown
\* (services/settings.py, providers/runtime.py); and however the fields are
\* written, the thresholds in effect are ordered (pipeline/effective_settings.py).
SettingsAreKept ==
    /\ ReferenceHasSecret /\ PlaintextIsGone /\ OpenIsHeld /\ QuietStatusIsCurrent
    /\ WritesStayOrdered
=============================================================================
