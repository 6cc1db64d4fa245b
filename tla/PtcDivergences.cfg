\* Statements of the code that its programs do not keep, one at a time.  As
\* written: a denied program in which an earlier call ran.  RunsAreAudited
\* and NotRepeated take BadNames = TRUE; NeverRepeated is violated with
\* Forms = {"plan"} too, by a plan that outlasts the turn's own timeout.
SPECIFICATION Spec
CONSTANTS
    Signatures = {w, r, q}
    Reads = {r, q}
    Asking = {w}
    Searches = {q}
    MaxSearches = 1
    MaxCalls = 2
    MaxMembers = 2
    MaxPrograms = 2
    MaxSignals = 1
    Forms = {"plan", "steps"}
    BadNames = FALSE
INVARIANT DeniedRanNothing
\* INVARIANT RowsSettle
\* INVARIANT EntryForEachRun
\* INVARIANT RunsAreAudited
\* INVARIANT SearchesAdmitted
\* INVARIANT NotRepeated
\* INVARIANT NeverRepeated
CHECK_DEADLOCK FALSE
