-------------------------------- MODULE Ptc --------------------------------
(* Programs of tool calls inside one turn (ptc.rs, execute_ptc of           *)
(* harness.rs): a plan, whose statements are calls and groups of parallel   *)
(* reads, or the older flat list of steps.  The branches and loops of a     *)
(* plan depend on results, so its next statement is a choice; expressions   *)
(* and variables are left out, but for the binding that is refused.  The    *)
(* turn waits for the program in a select of its own, and may drop it.      *)
EXTENDS Naturals, Sequences, FiniteSets

CONSTANTS
    Signatures,     \* tool and arguments of a call
    Reads,          \* those that concurrent_read lets into a group
    Asking,         \* those that need an approval
    Searches,       \* those charged to the turn
    MaxSearches,    \* max_searches of the turn's budget
    MaxCalls,       \* MAX_CALLS
    MaxMembers,     \* members of a group, 4 in the code
    MaxPrograms,    \* bound on the programs of the turn
    MaxSignals,     \* bound on the sends on the shared cancel watch
    Forms,          \* of {"plan", "steps"}, those the model uses
    BadNames        \* a result may be bound to a name that is refused

VARIABLES
    at,             \* where the program is
    form,
    log,            \* every call attempted in the turn, with its audit row
    hand,           \* those of the statement in hand
    blocked,        \* turn_blocked of this run
    spent,          \* searches_used
    flag,           \* the watch: whether it holds true, and whose Stop set it
    bump,           \* the program's receiver has an unseen send
    wake,           \* so has the turn's
    late,           \* the plan is past its deadline; the call past its timeout
    programs, signals,
    answer          \* what the last program reported

vars == <<at, form, log, hand, blocked, spent, flag, bump, wake, late, programs, signals, answer>>

watch == <<flag, bump, wake, late, signals>>
turn == <<form, programs>>

Waiting == {"approval", "running", "group"}

Init ==
    /\ at = "idle" /\ form = "plan" /\ log = <<>> /\ hand = {} /\ blocked = {} /\ spent = 0
    /\ flag = "no" /\ bump = FALSE /\ wake = FALSE /\ late = "no"
    /\ programs = 0 /\ signals = 0 /\ answer = "none"

Attempted == Cardinality({i \in DOMAIN log : log[i].program = programs})
Attempts(calls) ==
    log \o [i \in DOMAIN calls |->
        [program |-> programs, form |-> form, statement |-> Len(log) + 1, sig |-> calls[i], ran |-> FALSE,
         row |-> "none", result |-> "none", entry |-> FALSE]]
Last == Len(log)
Sig == log[Last].sig

(* The program returns: `status`, and with it the certainty it claims. *)
Reports(status) == at' = "idle" /\ hand' = {} /\ answer' = status
GoesOn(place) == at' = place /\ UNCHANGED <<hand, answer>>

(* An audit row of the call in hand, settled with its result. *)
Settled(l, i, result, entry) ==
    [l EXCEPT ![i].row = "complete", ![i].result = result, ![i].entry = entry]

Begin ==
    /\ at = "idle" /\ flag # "mine" /\ programs < MaxPrograms
    /\ \E f \in Forms : form' = f
    /\ \E w \in {wake, FALSE} : wake' = w
    /\ programs' = programs + 1 /\ bump' = FALSE /\ late' = "no"
    /\ at' = "next" /\ answer' = "none"
    /\ UNCHANGED <<log, hand, blocked, spent, flag, signals>>

-----------------------------------------------------------------------------
(* Between statements *)

Halted == form = "plan" /\ (flag # "no" \/ late # "no")

(* guard, and a statement that is malformed or whose expression fails. *)
Abandons ==
    /\ at = "next"
    /\ Reports(IF Halted /\ flag # "no" THEN "cancelled" ELSE "error")
    /\ UNCHANGED <<log, blocked, spent, watch, turn>>

Ends ==
    /\ at = "next" /\ Reports("ok")
    /\ UNCHANGED <<log, blocked, spent, watch, turn>>

(* dispatch_call up to the approval: no step of it waits. *)
Starts(s) == at = "next" /\ ~Halted /\ Attempted < MaxCalls /\ UNCHANGED <<spent, watch, turn>>

(* The tool is not offered, its arguments are refused or its capability    *)
(* is off: a plan gives up, a list of steps notes it and goes on.          *)
CallRefused(s) ==
    /\ Starts(s)
    /\ log' = Attempts(<<s>>)
    /\ IF form = "plan" THEN \E status \in {"error", "denied"} : Reports(status) ELSE GoesOn("next")
    /\ UNCHANGED blocked

(* The signature ended badly before in this turn. *)
CallBlocked(s) ==
    /\ Starts(s) /\ form = "plan" /\ s \in blocked
    /\ log' = Settled(Attempts(<<s>>), Last + 1, "denied", TRUE)
    /\ Reports("denied")
    /\ UNCHANGED blocked

(* A slip: the registry of the turn is not asked. *)
Unasked(s) == FALSE

Refuses(s) == form = "plan" /\ s \in blocked

CallPasses(s) ==
    /\ Starts(s) /\ ~Refuses(s)
    /\ log' = Attempts(<<s>>)
    /\ at' = IF s \in Asking THEN "approval" ELSE "admit"
    /\ hand' = {Last + 1}
    /\ UNCHANGED <<blocked, answer>>

-----------------------------------------------------------------------------
(* One call *)

(* A denial aborts a plan and keeps the signature from coming again; it    *)
(* only breaks off a list of steps.                                        *)
Decide ==
    /\ at = "approval"
    /\ \/ GoesOn("admit") /\ UNCHANGED <<log, blocked>>
       \/ /\ log' = Settled(log, Last, "denied", TRUE)
          /\ IF form = "plan" THEN Reports("denied") /\ blocked' = blocked \cup {Sig}
                              ELSE Reports("ok") /\ UNCHANGED blocked
    /\ UNCHANGED <<spent, watch, turn>>

(* A stop, the deadline of a plan, ten minutes, or the dialog withdrawn. *)
ApprovalFails ==
    /\ at = "approval"
    /\ \/ form = "plan" /\ bump /\ Reports("cancelled")
       \/ Reports("error")
    /\ UNCHANGED <<log, blocked, spent, watch, turn>>

(* What cuts a call of a plan short: a send it has not seen, the deadline. *)
Causes ==
    IF form = "steps" THEN {}
    ELSE IF at = "admit" /\ flag # "no" THEN {"cancelled"}
    ELSE (IF bump THEN {"cancelled"} ELSE {}) \cup (IF late # "no" THEN {"timeout"} ELSE {})

(* The budget is charged with the row open; without a unit the call ends. *)
Affordable(s) == s \in Searches => spent < MaxSearches
Charged(s) == IF s \in Searches THEN spent + 1 ELSE spent

OverBudget ==
    /\ at = "admit" /\ form = "plan" /\ ~Affordable(Sig)
    /\ log' = Settled(log, Last, "denied", TRUE)
    /\ Reports("denied")
    /\ UNCHANGED <<blocked, spent, watch, turn>>

(* await_bounded looks at the stored flag before it polls the call; a send *)
(* that is only unseen, or the deadline, may lose the race to the call.    *)
Dispatch ==
    /\ at = "admit" /\ (form = "plan" => Affordable(Sig) /\ flag = "no")
    /\ log' = [log EXCEPT ![Last].ran = TRUE, ![Last].row = "streaming"]
    /\ spent' = IF form = "plan" THEN Charged(Sig) ELSE spent
    /\ GoesOn("running")
    /\ UNCHANGED <<blocked, watch, turn>>

(* A slip: only calls that ran to their end are kept from coming again. *)
NothingBlocked(s) == {}

Unrepeatable(s) == {s}

(* An interrupted call: its row is settled, its signature blocked, and it  *)
(* has no entry in the report.                                             *)
Interrupt ==
    /\ at \in {"admit", "running"}
    /\ at = "admit" => Affordable(Sig)
    /\ spent' = IF at = "admit" THEN Charged(Sig) ELSE spent
    /\ \E cause \in Causes :
         /\ log' = Settled(log, Last, cause, FALSE)
         /\ Reports(IF cause = "cancelled" THEN "cancelled" ELSE "error")
    /\ blocked' = blocked \cup Unrepeatable(Sig)
    /\ UNCHANGED <<watch, turn>>

(* It returns; a failure and a timeout of its own are told alike. *)
Returns(result) ==
    /\ at = "running"
    /\ log' = Settled(log, Last, result, TRUE)
    /\ blocked' = IF form = "plan" /\ result # "ok" THEN blocked \cup {Sig} ELSE blocked
    /\ \/ form = "plan" /\ (BadNames \/ result # "ok") /\ Reports("error")
       \/ (form = "plan" => result = "ok") /\ at' = "next" /\ hand' = {} /\ UNCHANGED answer
    /\ UNCHANGED <<spent, watch, turn>>

-----------------------------------------------------------------------------
(* A group of parallel reads *)

Groups == UNION {[1..n -> Signatures] : n \in 2..MaxMembers}

GroupRefused ==
    /\ at = "next" /\ form = "plan" /\ ~Halted
    /\ \E g \in Groups : Attempted + Len(g) > MaxCalls \/ \E i \in DOMAIN g : g[i] \notin Reads
    /\ Reports("error")
    /\ UNCHANGED <<log, blocked, spent, watch, turn>>

StartGroup(g) ==
    /\ at = "next" /\ form = "plan" /\ ~Halted
    /\ Attempted + Len(g) <= MaxCalls /\ \A i \in DOMAIN g : g[i] \in Reads
    /\ log' = Attempts(g)
    /\ hand' = Last + 1..Last + Len(g) /\ at' = "group"
    /\ UNCHANGED <<blocked, spent, watch, turn, answer>>

First(is) == CHOOSE i \in is : \A j \in is : i <= j
Open == {i \in hand : log[i].result = "none"}
Unpolled == {i \in Open : ~log[i].ran}
Member(i, result, ran) == log' = [log EXCEPT ![i].result = result, ![i].ran = ran]

(* A member's first poll: it is charged before its signature is looked up, *)
(* and what refuses it counts as a failure of the call.                    *)
Poll ==
    /\ at = "group" /\ Unpolled # {}
    /\ LET i == First(Unpolled)
           s == log[i].sig
       IN \/ (flag # "no" \/ bump) /\ Member(i, "cancelled", FALSE) /\ UNCHANGED spent
          \/ flag = "no" /\ Member(i, "failed", FALSE)
             /\ spent' \in {spent, IF Affordable(s) THEN Charged(s) ELSE spent}
          \/ flag = "no" /\ Affordable(s) /\ ~Refuses(s)
             /\ Member(i, "none", TRUE) /\ spent' = Charged(s)
    /\ UNCHANGED <<at, hand, blocked, watch, turn, answer>>

(* Members watch the cancel alone; the deadline of the plan is not theirs. *)
MemberEnds ==
    /\ at = "group"
    /\ \E i \in Open \ Unpolled, result \in {"ok", "failed", "cancelled"} :
         (result = "cancelled" => bump) /\ Member(i, result, TRUE)
    /\ UNCHANGED <<at, hand, blocked, spent, watch, turn, answer>>

(* After the join every member gets its row and its entry, in order.  A    *)
(* name that is refused ends the walk at its member.                       *)
Accounted(last) ==
    [i \in DOMAIN log |-> IF i \in hand /\ i <= last THEN Settled(log, i, log[i].result, TRUE)[i]
                          ELSE log[i]]

Join ==
    /\ at = "group" /\ Open = {}
    /\ \E last \in IF BadNames THEN hand ELSE {Last} :
         LET bad == {i \in hand : i <= last /\ log[i].result # "ok"}
         IN /\ log' = Accounted(last)
            /\ blocked' = blocked \cup {log[i].sig : i \in bad}
            /\ \/ last = Last /\ bad # {} /\ Reports(IF log[First(bad)].result = "cancelled"
                                                   THEN "cancelled" ELSE "error")
               \/ last = Last /\ bad = {} /\ at' = "next" /\ hand' = {} /\ UNCHANGED answer
               \/ BadNames /\ Reports("error")
    /\ UNCHANGED <<spent, watch, turn>>

-----------------------------------------------------------------------------
(* Around the program *)

(* A Stop of this turn or of another, and the reset of a turn that begins. *)
Signal ==
    /\ signals < MaxSignals
    /\ \E f \in {"mine", "other", "no"} : flag' = f
    /\ signals' = signals + 1 /\ bump' = TRUE /\ wake' = TRUE
    /\ UNCHANGED <<at, hand, log, blocked, spent, late, turn, answer>>

(* The deadline of the plan; the timeout of the turn's own call is reached *)
(* by what the deadline does not bound.                                    *)
Tick ==
    /\ at # "idle"
    /\ \/ late = "no" /\ late' = "late"
       \/ late = "late" /\ (at = "group" \/ form = "steps") /\ late' = "over"
    /\ UNCHANGED <<at, hand, log, blocked, spent, flag, bump, wake, signals, turn, answer>>

(* The turn's select takes its own branch and drops the program: a send    *)
(* ends the turn, a timeout answers the model and the turn goes on.        *)
Drop ==
    /\ at \in Waiting
    /\ \/ wake /\ at' = "gone" /\ wake' = FALSE
       \/ late = "over" /\ at' = "idle" /\ UNCHANGED wake
    /\ log' = [i \in DOMAIN log |-> IF i \in hand THEN [log[i] EXCEPT !.result = "lost"] ELSE log[i]]
    /\ hand' = {} /\ answer' = "error"
    /\ UNCHANGED <<blocked, spent, flag, bump, late, signals, turn>>

CallStep(s) == CallRefused(s) \/ CallBlocked(s) \/ CallPasses(s)
ProgramStep ==
    \/ Abandons \/ Ends \/ \E s \in Signatures : CallStep(s)
    \/ ApprovalFails \/ OverBudget \/ Dispatch \/ Interrupt
    \/ \E result \in {"ok", "failed"} : Returns(result)
    \/ GroupRefused \/ (\E g \in Groups : StartGroup(g)) \/ Poll \/ MemberEnds \/ Join

Next == Begin \/ Decide \/ ProgramStep \/ Signal \/ Tick \/ Drop

Spec == Init /\ [][Next]_vars

-----------------------------------------------------------------------------
(* What ended badly, was cut off or was denied in a plan runs no more in   *)
(* this turn, whatever plan asks for it: "a second plan cannot bypass it"  *)
(* (dispatch_call).  The members of one group start together, and a plan   *)
(* that the turn dropped has blocked nothing.                              *)
NotRepeated ==
    \A i, j \in DOMAIN log :
        /\ i < j /\ log[i].sig = log[j].sig /\ log[j].ran
        /\ log[i].form = "plan" /\ log[j].form = "plan"
        => log[i].result \in {"none", "ok", "lost"} \/ log[i].statement = log[j].statement

(* NotRepeated with no exemption: "replay protection holds for every       *)
(* dispatch path" (turn_blocked).                                          *)
NeverRepeated ==
    \A i, j \in DOMAIN log :
        i < j /\ log[i].sig = log[j].sig /\ log[j].ran =>
            log[i].result \in {"none", "ok"} \/ log[i].statement = log[j].statement

(* "Every member that dispatched gets its call record and durable audit    *)
(* row": once a statement is over, what it ran has its row with its        *)
(* result, unless the whole program was dropped.                           *)
RunsAreAudited ==
    \A i \in DOMAIN log \ hand :
        log[i].ran => log[i].result = "lost" \/ (log[i].row = "complete" /\ log[i].result # "none")

(* What ran is accounted for: in the audit, and in what may run again.      *)
RunsAccounted == NotRepeated /\ RunsAreAudited

(* "An interrupt mid-call must settle it to the typed outcome, never leave *)
(* it 'streaming' forever" (await_bounded): a drop leaves it so.           *)
RowsSettle == \A i \in DOMAIN log \ hand : log[i].row # "streaming"

(* A denied program reports that nothing changed, "except a denial, which  *)
(* never dispatched": earlier calls of it may have run.                    *)
DeniedRanNothing ==
    answer = "denied" => \A i \in DOMAIN log : log[i].program = programs => ~log[i].ran

(* "One [audit entry] per attempted tool call": an interrupted one has none. *)
EntryForEachRun == \A i \in DOMAIN log \ hand : log[i].ran /\ log[i].result # "lost" => log[i].entry

(* "One admission boundary for direct and nested calls": the steps of the  *)
(* older form are not charged.                                             *)
SearchesAdmitted == Cardinality({i \in DOMAIN log : log[i].ran /\ log[i].sig \in Searches}) <= MaxSearches
=============================================================================
