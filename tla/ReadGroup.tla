------------------------------ MODULE ReadGroup ------------------------------
(***************************************************************************)
(* One response with tool calls in chat.rs: consecutive reads that need no *)
(* approval are dispatched together, at most MAX_READ_GROUP of them, and   *)
(* their outcomes are consumed one by one, in call order, by the same tail *)
(* that dispatches every other call; a loop that leaves early settles the  *)
(* members it has not consumed.                                            *)
(*                                                                         *)
(* A call is what its gates tell apart: whether concurrent_read lets it    *)
(* into a group, what the permission rules say of it, and its name and     *)
(* arguments as one key.  Results, events and the ledger are left out.     *)
(***************************************************************************)
EXTENDS Naturals, Sequences, FiniteSets

CONSTANTS
    Size,         \* bound on the calls of the response
    MaxReadGroup, \* MAX_READ_GROUP, 4 in the code
    Keys,         \* the names and arguments of calls
    Polls,        \* those that may be repeated: process_poll, check_report
    RuledReads,   \* permission rules may cover reads
    Hooks         \* pre_tool_use hooks may block a call

ASSUME ReadGroupAssumption ==
    /\ Size \in Nat \ {0} /\ MaxReadGroup \in Nat \ {0}
    /\ Polls \subseteq Keys /\ RuledReads \in BOOLEAN /\ Hooks \in BOOLEAN

VARIABLES
    batch,      \* `calls`
    recent,     \* the last two of recent_calls
    blocked,    \* blocked_calls: what is not to be repeated in this turn
    index,      \* the call in hand, `call_index` after its increment
    pc,         \* where the loop over the calls is
    prefetched, \* the members of `prefetched`, and where each is
    rows,       \* the tool rows that are complete: call and label, in order
    open,       \* the calls whose row is still streaming
    denied,     \* tool_use_denied
    control,    \* RunControl and the watch channel, as this turn sees them
    \* history, read by no action
    ran,        \* how often each call was physically dispatched
    came        \* the outcome each dispatch had

vars == <<batch, recent, blocked, index, pc, prefetched, rows, open, denied, control, ran, came>>

Calls == 1..Size
Call == [read : BOOLEAN, rule : {"auto", "ask", "deny"}, key : Keys]

(* A plain error is a value here; a timeout is uncertain. *)
Results == {"value", "uncertain"}
Outcomes == Results \cup {"interrupted", "blocked", "refused"}
Labels == Outcomes \cup {"denied", "repeated"}

Places == {"next", "group", "tail", "approval", "sent", "tool",
           "stopped", "paused", "cancelled", "gone", "done"}
Ended == {"stopped", "paused", "cancelled", "gone", "done"}

TypeOK ==
    /\ batch \in [Calls -> Call]
    /\ recent \in Seq(Keys) /\ Len(recent) <= 2 /\ blocked \subseteq Keys
    /\ index \in 0..Size /\ pc \in Places
    /\ prefetched \in [Calls -> {"none", "queued", "flying"} \cup Outcomes]
    /\ rows \in Seq([call : Calls, label : Labels]) /\ open \in SUBSET Calls
    /\ denied \in BOOLEAN
    /\ control \in [cancel : BOOLEAN, wake : BOOLEAN, pause : BOOLEAN]
    /\ ran \in [Calls -> 0..2] /\ came \in [Calls -> {"none", "flying"} \cup Outcomes]

(* A read that needs no approval of its own is automatic in the access     *)
(* modes that form groups; a rule may still cover it.                      *)
Batches ==
    {b \in [Calls -> Call] : \A c \in Calls : b[c].read /\ ~RuledReads => b[c].rule = "auto"}

Init ==
    /\ batch \in Batches
    /\ recent \in {<<>>} \cup {<<k, k>> : k \in Keys}
    /\ blocked = {} /\ index = 0 /\ pc = "next"
    /\ prefetched = [c \in Calls |-> "none"]
    /\ rows = <<>> /\ open = {} /\ denied = FALSE
    /\ control = [cancel |-> FALSE, wake |-> FALSE, pause |-> FALSE]
    /\ ran = [c \in Calls |-> 0] /\ came = [c \in Calls |-> "none"]

(* check_repetition: the last two recorded calls are the same as this one. *)
Repeats(history, key) ==
    key \notin Polls /\ Len(history) = 2 /\ \A i \in 1..2 : history[i] = key

LastTwo(history) ==
    IF Len(history) <= 2 THEN history ELSE SubSeq(history, Len(history) - 1, Len(history))
Recorded(history, key) == LastTwo(Append(history, key))

(* concurrent_read_ok, which asks no permission rule. *)
ConcurrentReadOk(c) ==
    ~denied /\ ~control.pause /\ batch[c].read /\ batch[c].key \notin blocked

(* The history as it will be when c is checked, if all from `first` to c   *)
(* run.                                                                    *)
Simulated(first, c) ==
    LastTwo(recent \o [i \in 1..(c - first) |-> batch[first + i - 1].key])

(* A slip: reads are picked across the calls between them. *)
ReadGroupAcross(first) ==
    {c \in first..Size : /\ ConcurrentReadOk(c)
                         /\ Cardinality({d \in first..c : ConcurrentReadOk(d)}) <= MaxReadGroup}

(* read_group_end: the members of the group that starts at `first`. *)
ReadGroup(first) ==
    {c \in first..Size :
        /\ c < first + MaxReadGroup
        /\ \A d \in first..c :
             ConcurrentReadOk(d) /\ ~Repeats(Simulated(first, d), batch[d].key)}

Stopping == control.cancel

-----------------------------------------------------------------------------
(* The group. *)

GroupAt(c) == IF prefetched[c] # "none" \/ Stopping THEN {} ELSE ReadGroup(c)

(* The next call: a group is formed if two or more reads stand in a row.   *)
(* With a native protocol the first member's row is reserved.              *)
NextCall ==
    /\ pc = "next" /\ index < Size
    /\ index' = index + 1
    /\ LET group == GroupAt(index + 1) IN
       IF Cardinality(group) > 1
       THEN /\ pc' = "group"
            /\ prefetched' = [c \in Calls |-> IF c \in group THEN "queued" ELSE prefetched[c]]
            /\ open' \in {open, open \cup {index + 1}}
       ELSE /\ pc' = "tail"
            /\ UNCHANGED <<prefetched, open>>
    /\ UNCHANGED <<batch, recent, blocked, rows, denied, control, ran, came>>

Send(c) == ran' = [ran EXCEPT ![c] = @ + 1] /\ came' = [came EXCEPT ![c] = "flying"]

(* A member's future: the watch value, the turn's budget, the hook, then   *)
(* the dispatch.                                                           *)
MemberStarts(c) ==
    /\ prefetched[c] = "queued" /\ ~control.cancel
    /\ prefetched' = [prefetched EXCEPT ![c] = "flying"]
    /\ Send(c)
    /\ UNCHANGED <<batch, recent, blocked, index, pc, rows, open, denied, control>>

MemberBlocked(c) ==
    /\ prefetched[c] = "queued" /\ Hooks
    /\ prefetched' = [prefetched EXCEPT ![c] = "blocked"]
    /\ UNCHANGED <<batch, recent, blocked, index, pc, rows, open, denied, control, ran, came>>

MemberRefused(c) ==
    /\ prefetched[c] = "queued"
    /\ prefetched' = [prefetched EXCEPT ![c] = "refused"]
    /\ UNCHANGED <<batch, recent, blocked, index, pc, rows, open, denied, control, ran, came>>

MemberReturns(c) ==
    /\ prefetched[c] = "flying"
    /\ \E result \in Results :
         /\ prefetched' = [prefetched EXCEPT ![c] = result]
         /\ came' = [came EXCEPT ![c] = result]
    /\ UNCHANGED <<batch, recent, blocked, index, pc, rows, open, denied, control, ran>>

MemberInterrupted(c) ==
    /\ prefetched[c] \in {"queued", "flying"} /\ control.wake
    /\ prefetched' = [prefetched EXCEPT ![c] = "interrupted"]
    /\ came' = [came EXCEPT ![c] = IF @ = "flying" THEN "interrupted" ELSE @]
    /\ UNCHANGED <<batch, recent, blocked, index, pc, rows, open, denied, control, ran>>

(* join_all. *)
GroupReturns ==
    /\ pc = "group"
    /\ \A c \in Calls : prefetched[c] \notin {"queued", "flying"}
    /\ pc' = "tail"
    /\ UNCHANGED <<batch, recent, blocked, index, prefetched, rows, open, denied, control, ran, came>>

-----------------------------------------------------------------------------
(* The tail: every call in its order. *)

Unconsumed == {c \in Calls : prefetched[c] # "none"}

Listed(S) ==
    [i \in 1..Cardinality(S) |-> CHOOSE c \in S : Cardinality({d \in S : d <= c}) = i]

(* A slip: the members after the call in hand are not settled. *)
SettledBefore(log, entries) ==
    LET left == Listed({c \in 1..index : entries[c] # "none"})
    IN log \o [i \in DOMAIN left |-> [call |-> left[i], label |-> entries[left[i]]]]

(* settle_unconsumed_reads: a row for each member that was dispatched and  *)
(* not consumed, in call order.                                            *)
Settled(log, entries) ==
    LET left == Listed({c \in Calls : entries[c] # "none"})
    IN log \o [i \in DOMAIN left |-> [call |-> left[i], label |-> entries[left[i]]]]

LeaveSettled(reason, log) ==
    /\ pc' = reason
    /\ rows' = Settled(log, prefetched)
    /\ prefetched' = [c \in Calls |-> "none"]

StopAtCall ==
    /\ pc = "tail" /\ Stopping
    /\ LeaveSettled("stopped", rows) /\ open' = open \ Unconsumed
    /\ UNCHANGED <<batch, recent, blocked, index, denied, control, ran, came>>

PauseAtCall ==
    /\ pc = "tail" /\ ~Stopping /\ control.pause
    /\ LeaveSettled("paused", rows) /\ open' = open \ Unconsumed
    /\ UNCHANGED <<batch, recent, blocked, index, denied, control, ran, came>>

(* A call on the blocklist is refused, unless it has run already. *)
Goes ==
    /\ pc = "tail" /\ ~Stopping /\ ~control.pause
    /\ batch[index].key \in blocked => prefetched[index] # "none"

(* What continuation_after_tool says of a result: an uncertain outcome and *)
(* a denial are not retried in this turn.                                  *)
Finish(label) ==
    /\ pc' = "next"
    /\ rows' = Append(rows, [call |-> index, label |-> label])
    /\ open' = open \ {index}
    /\ blocked' = IF label \in {"uncertain", "denied"} THEN blocked \cup {batch[index].key}
                  ELSE blocked

(* An unavailable tool, a capability switched off, a plan not yet          *)
(* approved, invalid arguments, an uncertain outcome not repeated, a used  *)
(* up budget: gates a member has passed at its dispatch.                   *)
Refuse ==
    /\ pc \in {"tail", "sent"} /\ prefetched[index] = "none"
    /\ Finish("refused")
    /\ UNCHANGED <<batch, recent, index, prefetched, denied, control, ran, came>>

(* A rule denies the call: a row of its own, and nothing else runs.  The   *)
(* member's entry and a row reserved for it stay as they are.              *)
RuleDenies ==
    /\ Goes /\ batch[index].rule = "deny"
    /\ pc' = "next" /\ rows' = Append(rows, [call |-> index, label |-> "denied"])
    /\ denied' = TRUE
    /\ UNCHANGED <<batch, recent, blocked, index, prefetched, open, control, ran, came>>

(* An automatic call, with nothing denied before it: its row is streaming. *)
Admit ==
    /\ Goes /\ batch[index].rule = "auto" /\ ~denied
    /\ pc' = "sent" /\ open' = open \cup {index}
    /\ UNCHANGED <<batch, recent, blocked, index, prefetched, rows, denied, control, ran, came>>

(* After a denial every call is answered as denied.  The entry of a member *)
(* stays in `prefetched`.                                                  *)
AnswerDenied ==
    /\ Goes /\ batch[index].rule # "deny" /\ denied
    /\ Finish("denied")
    /\ UNCHANGED <<batch, recent, index, prefetched, denied, control, ran, came>>

Ask ==
    /\ Goes /\ batch[index].rule = "ask" /\ ~denied
    /\ pc' = "approval"
    /\ UNCHANGED <<batch, recent, blocked, index, prefetched, rows, open, denied, control, ran, came>>

UserAllows ==
    /\ pc = "approval"
    /\ pc' = "sent" /\ open' = open \cup {index}
    /\ UNCHANGED <<batch, recent, blocked, index, prefetched, rows, denied, control, ran, came>>

UserDenies ==
    /\ pc = "approval"
    /\ Finish("denied")
    /\ denied' = TRUE
    /\ UNCHANGED <<batch, recent, index, prefetched, control, ran, came>>

ApprovalInterrupted ==
    /\ pc = "approval" /\ control.wake
    /\ LeaveSettled("stopped", rows) /\ open' = open \ Unconsumed
    /\ UNCHANGED <<batch, recent, blocked, index, denied, control, ran, came>>

(* An event that cannot be sent ends the turn with an error on the spot. *)
InterfaceGone ==
    /\ pc \in {"approval", "sent"}
    /\ pc' = "gone"
    /\ UNCHANGED <<batch, recent, blocked, index, prefetched, rows, open, denied, control, ran, came>>

HookBlocks ==
    /\ pc = "sent" /\ Hooks
    /\ Finish("blocked")
    /\ UNCHANGED <<batch, recent, index, prefetched, denied, control, ran, came>>

(* The guard against repetition; the call counts as recorded. *)
Repetition ==
    /\ pc = "sent" /\ Repeats(recent, batch[index].key)
    /\ Finish("repeated")
    /\ recent' = Recorded(recent, batch[index].key)
    /\ UNCHANGED <<batch, index, prefetched, denied, control, ran, came>>

Runs == pc = "sent" /\ ~Repeats(recent, batch[index].key)

(* A member's outcome is taken; an interrupted one ends the turn. *)
Consume ==
    /\ Runs /\ prefetched[index] # "none"
    /\ recent' = Recorded(recent, batch[index].key)
    /\ IF prefetched[index] # "interrupted"
       THEN Finish(prefetched[index]) /\ prefetched' = [prefetched EXCEPT ![index] = "none"]
       ELSE /\ rows' = Settled(Append(rows, [call |-> index, label |-> "interrupted"]),
                               [prefetched EXCEPT ![index] = "none"])
            /\ pc' = "cancelled"
            /\ prefetched' = [c \in Calls |-> "none"]
            /\ open' = open \ Unconsumed
            /\ UNCHANGED blocked
    /\ UNCHANGED <<batch, index, denied, control, ran, came>>

(* Any other call is dispatched here. *)
Dispatch ==
    /\ Runs /\ prefetched[index] = "none"
    /\ recent' = Recorded(recent, batch[index].key)
    /\ pc' = "tool" /\ Send(index)
    /\ UNCHANGED <<batch, blocked, index, prefetched, rows, open, denied, control>>

ToolReturns ==
    /\ pc = "tool"
    /\ \E result \in Results : Finish(result) /\ came' = [came EXCEPT ![index] = result]
    /\ UNCHANGED <<batch, recent, index, prefetched, denied, control, ran>>

ToolInterrupted ==
    /\ pc = "tool" /\ control.wake
    /\ LeaveSettled("cancelled", Append(rows, [call |-> index, label |-> "interrupted"]))
    /\ open' = open \ (Unconsumed \cup {index})
    /\ came' = [came EXCEPT ![index] = "interrupted"]
    /\ UNCHANGED <<batch, recent, blocked, index, denied, control, ran>>

BatchDone ==
    /\ pc = "next" /\ index = Size
    /\ pc' = "done"
    /\ UNCHANGED <<batch, recent, blocked, index, prefetched, rows, open, denied, control, ran, came>>

-----------------------------------------------------------------------------
(* The user and the other conversations. *)

UserPauses ==
    /\ pc \notin Ended
    /\ control' = [control EXCEPT !.pause = TRUE]
    /\ UNCHANGED <<batch, recent, blocked, index, pc, prefetched, rows, open, denied, ran, came>>

UserStops ==
    /\ pc \notin Ended
    /\ control' = [control EXCEPT !.cancel = TRUE, !.wake = TRUE]
    /\ UNCHANGED <<batch, recent, blocked, index, pc, prefetched, rows, open, denied, ran, came>>

(* begin_generation of another conversation. *)
OtherTurnBegins ==
    /\ pc \notin Ended
    /\ control' = [cancel |-> FALSE, wake |-> TRUE, pause |-> FALSE]
    /\ UNCHANGED <<batch, recent, blocked, index, pc, prefetched, rows, open, denied, ran, came>>

Next ==
    \/ NextCall
    \/ \E c \in Calls : \/ MemberStarts(c) \/ MemberRefused(c) \/ MemberBlocked(c)
                        \/ MemberReturns(c) \/ MemberInterrupted(c)
    \/ GroupReturns
    \/ StopAtCall \/ PauseAtCall \/ Refuse \/ RuleDenies \/ Admit \/ AnswerDenied \/ Ask
    \/ UserAllows \/ UserDenies \/ ApprovalInterrupted \/ InterfaceGone
    \/ HookBlocks \/ Repetition \/ Consume \/ Dispatch \/ ToolReturns \/ ToolInterrupted
    \/ BatchDone
    \/ UserPauses \/ UserStops \/ OtherTurnBegins

Spec == Init /\ [][Next]_vars

-----------------------------------------------------------------------------
Answered(c) == \E i \in DOMAIN rows : rows[i].call = c

(* "Nothing is replayed" (settle_unconsumed_reads): a call is dispatched   *)
(* at most once, by its group or by the tail, whatever ends the loop.      *)
NothingReplayed == \A c \in Calls : ran[c] <= 1

(* A hook blocked the call or one before it in the tail, which leaves the  *)
(* prefetched entry where it is and records no call.                       *)
Hooked(c) == \E i \in DOMAIN rows : rows[i].call <= c /\ rows[i].label = "blocked"

(* The rows stand in the order of the calls, one for each, whenever the    *)
(* members of a group returned and wherever the loop left, but for hooks.  *)
InCallOrder ==
    \A i, j \in DOMAIN rows :
        i < j => rows[i].call < rows[j].call \/ Hooked(rows[j].call)

(* A call that ran has its outcome in its row, and no other: never a       *)
(* denial, a repetition or an outcome it did not have, but for hooks.      *)
RealOutcomes ==
    \A i \in DOMAIN rows :
        came[rows[i].call] # "none" =>
            rows[i].label = came[rows[i].call] \/ Hooked(rows[i].call)

(* No call runs twice, and however the loop ends, but for an interface     *)
(* that is gone, every call that ran has its row, no row is left streaming *)
(* and no outcome waits (settle_unconsumed_reads).                         *)
SettledOnce ==
    /\ NothingReplayed
    /\ pc \in Ended \ {"gone"} =>
          /\ open = {} /\ \A c \in Calls : ran[c] > 0 => Answered(c)
          /\ \A c \in Calls : prefetched[c] = "none" \/ Hooked(c)

(* Every call but a grouped read is a barrier: it is dispatched after all  *)
(* calls before it are answered, and a read only overlaps reads.           *)
BarriersHold ==
    \A c \in Calls : ran'[c] # ran[c] =>
        \A d \in 1..(c - 1) : Answered(d) \/ (batch[c].read /\ batch[d].read)

(* "Uncertain outcome, not repeated": a call whose like ran with an         *)
(* uncertain outcome is not dispatched, unless they are reads of one group *)
(* and the outcome has not been taken yet, or a hook hid it.               *)
UncertainNotRepeated ==
    \A c, d \in Calls :
        ran'[c] # ran[c] /\ came[d] = "uncertain" /\ batch[d].key = batch[c].key =>
            Hooked(d) \/ (~Answered(d) /\ batch[c].read /\ batch[d].read)

(* Dispatching ahead changes neither the order nor the gates of the calls  *)
(* (read_group_end, prefetch_read_group).                                  *)
DispatchHolds == [][BarriersHold /\ UncertainNotRepeated]_vars

-----------------------------------------------------------------------------
(* What the documentation says and the code does not do. *)

(* "The call is refused, even under Full access." (docs/PERMISSIONS.md): a *)
(* call that a deny rule covers is not dispatched.                         *)
RuledCallsStay == \A c \in Calls : batch[c].rule = "deny" => ran[c] = 0

(* "Replay has one result per call" (chat.rs, reserve_native_read_round),  *)
(* with no exemption for hooks.                                            *)
OneRowPerCall == \A i, j \in DOMAIN rows : rows[i].call = rows[j].call => i = j

=============================================================================
