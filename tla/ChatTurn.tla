------------------------------- MODULE ChatTurn -------------------------------
(***************************************************************************)
(* Model turns of several conversations under the shared run control of    *)
(* src-tauri/src/agent_run.rs and the turn loop of chat.rs:                *)
(* `send_message_inner` prepares a turn, `TurnRounds::run` alternates      *)
(* model rounds and tool calls, and the settlement writes the message and  *)
(* the run.  Stop, Pause, Resume, approvals, exclusive operations and a    *)
(* crash with the recovery of the next start interleave with it.           *)
(*                                                                         *)
(* One action is one piece of code between two awaits or two durable       *)
(* writes.  The model's words, a tool's arguments and the transcript are   *)
(* abstracted to the choices they lead to.                                 *)
(***************************************************************************)
EXTENDS Naturals, FiniteSets, RunStates

CONSTANTS
    Conversations,   \* conversations that may run at once
    Calls,           \* tool-call signatures (continuation.rs, tool_signature)
    MaxRounds,       \* Budgets.max_rounds
    MaxCalls,        \* bound on the calls of one model response
    MaxRecoveries,   \* OUTPUT_RECOVERY_LIMIT
    MaxGenerations,  \* bound on the turns begun and resumed
    User,            \* the user's Stop button, among the senders of a cancel
    NoCall,          \* no tool call in hand
    NoRun            \* no run record yet

ASSUME BoundsAssumption ==
    /\ MaxRounds \in Nat \ {0} /\ MaxCalls \in Nat \ {0}
    /\ MaxRecoveries \in Nat /\ MaxGenerations \in Nat

ASSUME DistinctAssumption ==
    User \notin Conversations /\ NoCall \notin Calls /\ NoRun \notin RunStates

VARIABLES
    \* AppState: shared by all turns
    control,      \* RunControl
    cancelValue,  \* the value of the AppState.cancel watch channel
    unseen,       \* turns whose watch receiver has a change it has not seen
    halfway,      \* senders between request_cancel and send_replace(true)
    exclusive,    \* an exclusive operation holds the OperationGate
    turn,         \* the conversation's turn: TurnRounds and the locals of run()
    saved,        \* SQLite: its run, assistant message and latest tool row
    \* history, read by no action
    userPause,    \* the user's Pause is the latest word on pausing
    targets,      \* turns a Stop asked for: it named their generation
    stray,        \* turns another conversation's controls reached: a wake-up
                  \* that was not about them, a pause taken back under them
    recovered     \* turns a crash ended

shared == <<control, cancelValue, unseen, halfway, exclusive>>
history == <<userPause, targets, stray, recovered>>
vars == <<shared, turn, saved, history>>

(* Where a turn is: preparing (assemble, context, saverun, snapshot), at   *)
(* the top of a round (top), waiting for the model (model), between calls  *)
(* (calls), deciding a call (permit, approval, admit, mark), running it    *)
(* (dispatch, tool, record), and settling (settle, close).                 *)
Places == {"idle", "assemble", "context", "saverun", "snapshot",
           "top", "model", "calls", "permit", "approval", "admit", "mark",
           "dispatch", "tool", "record", "settle", "close"}

Turn == [pc : Places,
         gen : 0..MaxGenerations,      \* run_generation
         round : 0..MaxRounds,         \* rounds begun, Budgets.rounds_used
         left : 0..MaxCalls,           \* calls of this response not yet handled
         solo : BOOLEAN,               \* the response had one call only
         call : Calls \cup {NoCall},   \* the call in hand
         denied : BOOLEAN,             \* tool_use_denied
         blocked : SUBSET Calls,       \* blocked_calls
         spent : BOOLEAN,              \* the search or the fetch budget is used up
         fallback : BOOLEAN,           \* research_fallback is set
         retried : BOOLEAN,            \* finalization_retried
         finalizing : BOOLEAN,         \* this round must answer, not call
         recoveries : 0..MaxRecoveries,\* output_recoveries
         finished : BOOLEAN,           \* explicit_finish
         outcome : {"none", "ok", "failed", "uncertain", "denied", "finish"},
         result : {"none", "done", "stopped", "error"},
         approval : {"none", "waiting", "allow", "deny"},
         mem : RunStates \cup {NoRun}, \* RunRecord.status
         final : RunStates \cup {NoRun}]

Saved == [run : RunStates \cup {NoRun},
          msg : {"none", "streaming", "complete", "paused", "interrupted", "error"},
          row : {"none", "streaming", "complete", "interrupted"}]

SharedTypeOK ==
    /\ control \in [active : 0..MaxGenerations, cancel : 0..MaxGenerations,
                    pause : BOOLEAN, byModel : BOOLEAN]
    /\ cancelValue \in BOOLEAN
    /\ unseen \in SUBSET Conversations
    /\ halfway \in SUBSET (Conversations \cup {User})
    /\ exclusive \in BOOLEAN
    /\ userPause \in BOOLEAN
    /\ targets \in SUBSET Conversations
    /\ stray \in SUBSET Conversations
    /\ recovered \in SUBSET Conversations

TypeOK ==
    /\ SharedTypeOK
    /\ turn \in [Conversations -> Turn]
    /\ saved \in [Conversations -> Saved]

NoTurn ==
    [pc |-> "idle", gen |-> 0, round |-> 0, left |-> 0, solo |-> FALSE,
     call |-> NoCall, denied |-> FALSE, blocked |-> {}, spent |-> FALSE,
     fallback |-> FALSE, retried |-> FALSE, finalizing |-> FALSE, recoveries |-> 0,
     finished |-> FALSE, outcome |-> "none", result |-> "none",
     approval |-> "none", mem |-> NoRun, final |-> NoRun]

NoControl == [active |-> 0, cancel |-> 0, pause |-> FALSE, byModel |-> FALSE]

Init ==
    /\ control = NoControl
    /\ cancelValue = FALSE /\ unseen = {} /\ halfway = {} /\ exclusive = FALSE
    /\ turn = [c \in Conversations |-> NoTurn]
    /\ saved = [c \in Conversations |-> [run |-> NoRun, msg |-> "none", row |-> "none"]]
    /\ userPause = FALSE /\ targets = {} /\ stray = {} /\ recovered = {}

At(c, place) == turn[c].pc = place
Live == {c \in Conversations : turn[c].pc # "idle"}

(* cancel_matches, and cancel_applies for a turn's own generation. *)
CancelMatches(cancelled, generation) == cancelled # 0 /\ cancelled = generation
CancelApplies(c) == cancelValue /\ CancelMatches(control.cancel, turn[c].gen)

-----------------------------------------------------------------------------
(* Preparation: send_message_inner up to the round loop. *)

(* The shared lease, the conversation's turn lock and begin_generation: a  *)
(* new generation, no pause, and a watch value sent to every receiver.     *)
BeginTurn(c) ==
    /\ At(c, "idle") /\ ~exclusive
    /\ control.active < MaxGenerations
    /\ LET generation == control.active + 1 IN
       /\ control' = [control EXCEPT !.active = generation, !.pause = FALSE, !.byModel = FALSE]
       /\ turn' = [turn EXCEPT ![c] = [NoTurn EXCEPT !.pc = "assemble", !.gen = generation]]
    /\ cancelValue' = FALSE
    /\ unseen' = (unseen \cup Live) \ {c}
    /\ userPause' = FALSE
    /\ targets' = targets \ {c}
    /\ stray' = (stray \cup Live) \ {c}
    /\ UNCHANGED <<halfway, exclusive, saved, recovered>>

(* An error return before the round loop: the guards are dropped and what  *)
(* was saved stays as it is.                                               *)
LeaveEarly(c) ==
    /\ turn' = [turn EXCEPT ![c] = NoTurn]
    /\ unseen' = unseen \ {c}
    /\ UNCHANGED <<control, cancelValue, halfway, exclusive, saved, history>>

(* An invalid message, a missing workspace or a failed assembly; an        *)
(* over-long context.                                                      *)
PreparationFails(c) == (At(c, "assemble") \/ At(c, "context")) /\ LeaveEarly(c)

(* "Message cancelled before generation; it was not saved.": either        *)
(* preparation select sees the watch channel change.                       *)
CancelledBeforeSave(c) ==
    /\ At(c, "assemble") \/ At(c, "context")
    /\ c \in unseen
    /\ LeaveEarly(c)

(* assemble_turn answers; the select is biased to the watch channel. *)
Assemble(c) ==
    /\ At(c, "assemble") /\ c \notin unseen
    /\ turn' = [turn EXCEPT ![c].pc = "context"]
    /\ UNCHANGED <<shared, saved, history>>

(* prepare_context answers, and begin_turn_with_model_content saves the    *)
(* user's message and a streaming assistant message in one transaction.    *)
SaveMessages(c) ==
    /\ At(c, "context") /\ c \notin unseen
    /\ turn' = [turn EXCEPT ![c].pc = "saverun"]
    /\ saved' = [saved EXCEPT ![c] = [@ EXCEPT !.msg = "streaming", !.row = "none"]]
    /\ recovered' = recovered \ {c}
    /\ UNCHANGED <<shared, userPause, targets, stray>>

(* save_run: the run record of this turn becomes the latest one. *)
SaveRun(c) ==
    /\ At(c, "saverun")
    /\ turn' = [turn EXCEPT ![c] = [@ EXCEPT !.pc = "snapshot", !.mem = "preparing"]]
    /\ saved' = [saved EXCEPT ![c].run = "preparing"]
    /\ UNCHANGED <<shared, history>>

(* snapshot_for_conversation, whose error `?` returns past the settlement. *)
SnapshotFails(c) == At(c, "snapshot") /\ LeaveEarly(c)

SnapshotTaken(c) ==
    /\ At(c, "snapshot")
    /\ turn' = [turn EXCEPT ![c].pc = "top"]
    /\ UNCHANGED <<shared, saved, history>>

-----------------------------------------------------------------------------
(* The model rounds of TurnRounds::run. *)

Leave(c, outcome) == turn' = [turn EXCEPT ![c] = [@ EXCEPT !.pc = "settle",
                                                           !.result = outcome]]

(* transition_to and update_run_status, with the loop going to place p. *)
MoveRun(c, state, p) ==
    /\ turn' = [turn EXCEPT ![c] = [@ EXCEPT !.pc = p, !.mem = Moved(turn[c].mem, state)]]
    /\ saved' = [saved EXCEPT ![c].run = Moved(turn[c].mem, state)]

(* Budgets::exhausted and reserve_final_response with r rounds used. *)
Exhausted(c, r) == turn[c].spent \/ r >= MaxRounds
Reserve(c, r) == Exhausted(c, r) \/ r + 1 >= MaxRounds

(* The first two checks of a round, and the end of the rounds: "Tool round *)
(* limit reached."                                                         *)
RoundStopped(c) ==
    /\ At(c, "top")
    /\ turn[c].round = MaxRounds \/ CancelApplies(c) \/ control.pause
    /\ Leave(c, IF turn[c].round = MaxRounds THEN "error" ELSE "stopped")
    /\ UNCHANGED <<shared, saved, history>>

BeginRound(c) ==
    /\ At(c, "top") /\ turn[c].round < MaxRounds
    /\ ~CancelApplies(c) /\ ~control.pause
    /\ LET reserve == Reserve(c, turn[c].round) IN
       turn' = [turn EXCEPT ![c] = [@ EXCEPT
                  !.pc = "model", !.round = turn[c].round + 1,
                  !.finalizing = turn[c].fallback \/ turn[c].retried \/ reserve,
                  !.fallback = turn[c].fallback \/ reserve,
                  !.mem = Moved(turn[c].mem, "generating")]]
    /\ saved' = [saved EXCEPT ![c].run = Moved(turn[c].mem, "generating")]
    /\ UNCHANGED <<shared, history>>

(* The selects on context preparation, on the response and on the stream   *)
(* return at any change of the watch channel.                              *)
ModelInterrupted(c) ==
    /\ At(c, "model") /\ c \in unseen
    /\ unseen' = unseen \ {c}
    /\ Leave(c, "stopped")
    /\ UNCHANGED <<control, cancelValue, halfway, exclusive, saved, history>>

(* A transport, stream, parse or storage error, a timeout, a gone          *)
(* interface, a repair that failed, an empty answer.                       *)
ModelFails(c) ==
    /\ At(c, "model")
    /\ Leave(c, "error")
    /\ UNCHANGED <<shared, saved, history>>

(* The output limit: a fresh round unless this was the answering round, a  *)
(* tool was denied or the recoveries are used up.                          *)
OutputLimit(c) ==
    /\ At(c, "model")
    /\ IF turn[c].finalizing \/ turn[c].denied \/ turn[c].recoveries >= MaxRecoveries
       THEN Leave(c, "error") /\ UNCHANGED saved
       ELSE /\ turn' = [turn EXCEPT ![c] = [@ EXCEPT
                          !.pc = "top", !.recoveries = turn[c].recoveries + 1,
                          !.mem = Moved(turn[c].mem, "preparing_next_round")]]
            /\ saved' = [saved EXCEPT ![c].run = Moved(turn[c].mem, "preparing_next_round")]
    /\ UNCHANGED <<shared, history>>

(* One corrective round: a malformed text call is repaired, a missing web  *)
(* lookup is asked for, an unverified write is nudged.  Never in the       *)
(* answering round; each kind once, which the rounds bound here.           *)
CorrectiveRound(c) ==
    /\ At(c, "model") /\ ~turn[c].finalizing
    /\ MoveRun(c, "preparing_next_round", "top")
    /\ UNCHANGED <<shared, history>>

(* finalization_action for a round without a visible answer: one retry,    *)
(* then the stored fallback, then an error.                                *)
RetryAnswer(c) ==
    /\ At(c, "model")
    /\ ~turn[c].retried /\ ~Exhausted(c, turn[c].round)
    /\ turn' = [turn EXCEPT ![c] = [@ EXCEPT !.pc = "top", !.retried = TRUE,
                                             !.mem = Moved(turn[c].mem, "preparing_next_round")]]
    /\ saved' = [saved EXCEPT ![c].run = Moved(turn[c].mem, "preparing_next_round")]
    /\ UNCHANGED <<shared, history>>

FallbackAnswer(c) ==
    /\ At(c, "model")
    /\ turn[c].retried \/ Exhausted(c, turn[c].round)
    /\ Leave(c, IF turn[c].fallback THEN "done" ELSE "error")
    /\ UNCHANGED <<shared, saved, history>>

(* A `finish` call in the answering round: run_finish_call. *)
FinishInAnswer(c) ==
    /\ At(c, "model") /\ turn[c].finalizing
    /\ Leave(c, "done")
    /\ UNCHANGED <<shared, saved, history>>

(* A final answer without calls. *)
FinalAnswer(c) ==
    /\ At(c, "model")
    /\ turn' = [turn EXCEPT ![c] = [@ EXCEPT !.pc = "settle", !.result = "done",
                                             !.mem = Moved(turn[c].mem, "completed")]]
    /\ saved' = [saved EXCEPT ![c].run = Moved(turn[c].mem, "completed")]
    /\ UNCHANGED <<shared, history>>

(* A response with tool calls: an error after a denial, suppressed in the  *)
(* answering round (RetryAnswer, FallbackAnswer), else handled in order.   *)
ToolCalls(c) ==
    /\ At(c, "model") /\ ~turn[c].finalizing
    /\ IF turn[c].denied
       THEN Leave(c, "error")
       ELSE \E n \in 1..MaxCalls :
              turn' = [turn EXCEPT ![c] = [@ EXCEPT !.pc = "calls", !.left = n,
                                                    !.solo = (n = 1)]]
    /\ UNCHANGED <<shared, saved, history>>

-----------------------------------------------------------------------------
(* One tool call after the other. *)

(* A call answered without a decision: an unavailable or disabled tool,    *)
(* plan mode, the verification nudge, invalid arguments, or a signature    *)
(* whose earlier attempt had an uncertain outcome.                         *)
SkipCall(c) ==
    /\ At(c, "calls") /\ turn[c].left > 0
    /\ turn' = [turn EXCEPT ![c].left = @ - 1]
    /\ UNCHANGED <<shared, saved, history>>

StopAtCall(c) ==
    /\ At(c, "calls") /\ turn[c].left > 0
    /\ CancelApplies(c) \/ control.pause
    /\ Leave(c, "stopped")
    /\ UNCHANGED <<shared, saved, history>>

(* A slip: the replay protection is not consulted. *)
TakeCallAgain(c, s) ==
    /\ At(c, "calls") /\ turn[c].left > 0
    /\ ~CancelApplies(c) /\ ~control.pause
    /\ turn' = [turn EXCEPT ![c] = [@ EXCEPT !.pc = "permit", !.call = s]]
    /\ UNCHANGED <<shared, saved, history>>

(* The call passes the cancel, pause and replay checks. *)
TakeCall(c, s) ==
    /\ At(c, "calls") /\ turn[c].left > 0
    /\ ~CancelApplies(c) /\ ~control.pause
    /\ s \notin turn[c].blocked
    /\ turn' = [turn EXCEPT ![c] = [@ EXCEPT !.pc = "permit", !.call = s]]
    /\ UNCHANGED <<shared, saved, history>>

(* A permission rule denies. *)
RuleDenies(c) ==
    /\ At(c, "permit")
    /\ turn' = [turn EXCEPT ![c] = [@ EXCEPT !.pc = "calls", !.denied = TRUE,
                                             !.call = NoCall, !.left = turn[c].left - 1]]
    /\ UNCHANGED <<shared, saved, history>>

(* After a denial every later call is denied; else a rule or the access    *)
(* mode may allow without asking.                                          *)
Decide(c) ==
    /\ At(c, "permit")
    /\ turn' = [turn EXCEPT ![c] = [@ EXCEPT
                  !.pc = "admit", !.approval = IF turn[c].denied THEN "deny" ELSE "allow"]]
    /\ UNCHANGED <<shared, saved, history>>

(* Approvals::request and the approval card. *)
Ask(c) ==
    /\ At(c, "permit") /\ ~turn[c].denied
    /\ turn' = [turn EXCEPT ![c] = [@ EXCEPT !.pc = "approval", !.approval = "waiting",
                                             !.mem = Moved(turn[c].mem, "awaiting_approval")]]
    /\ saved' = [saved EXCEPT ![c].run = Moved(turn[c].mem, "awaiting_approval")]
    /\ UNCHANGED <<shared, history>>

(* Approvals::resolve: the entry is removed, so it answers once. *)
Resolve(c, answer) ==
    /\ turn[c].approval = "waiting"
    /\ turn' = [turn EXCEPT ![c].approval = answer]
    /\ UNCHANGED <<shared, saved, history>>

(* The select of the approval: its answer, ten minutes without one, or a   *)
(* change of the watch channel.                                            *)
DecisionTaken(c) ==
    /\ At(c, "approval") /\ turn[c].approval \in {"allow", "deny"}
    /\ turn' = [turn EXCEPT ![c].pc = "admit"]
    /\ UNCHANGED <<shared, saved, history>>

(* A slip: the wait for the user has no timeout. *)
ApprovalWaitsForever(c) ==
    /\ At(c, "approval") /\ turn[c].approval = "deny"
    /\ turn' = [turn EXCEPT ![c].pc = "admit"]
    /\ UNCHANGED <<shared, saved, history>>

ApprovalTimesOut(c) ==
    /\ At(c, "approval") /\ turn[c].approval = "waiting"
    /\ turn' = [turn EXCEPT ![c] = [@ EXCEPT !.pc = "admit", !.approval = "deny"]]
    /\ UNCHANGED <<shared, saved, history>>

ApprovalInterrupted(c) ==
    /\ At(c, "approval") /\ c \in unseen
    /\ unseen' = unseen \ {c}
    /\ turn' = [turn EXCEPT ![c] = [@ EXCEPT !.pc = "settle", !.result = "stopped",
                                             !.approval = "none"]]
    /\ UNCHANGED <<control, cancelValue, halfway, exclusive, saved, history>>

(* The approval card or a progress event cannot be delivered. *)
InterfaceGone(c) ==
    /\ At(c, "approval") \/ At(c, "mark") \/ At(c, "dispatch")
    /\ turn' = [turn EXCEPT ![c] = [@ EXCEPT !.pc = "settle", !.result = "error",
                                             !.approval = "none"]]
    /\ UNCHANGED <<shared, saved, history>>

(* After a decision the call's audit row is saved before anything runs: a  *)
(* denied call, a call over the turn's budgets, and a call that will run.  *)
AdmitDenied(c) ==
    /\ At(c, "admit") /\ turn[c].approval = "deny"
    /\ turn' = [turn EXCEPT ![c] = [@ EXCEPT !.pc = "mark", !.denied = TRUE,
                                             !.outcome = "denied"]]
    /\ saved' = [saved EXCEPT ![c].row = "complete"]
    /\ UNCHANGED <<shared, history>>

AdmitOver(c) ==
    /\ At(c, "admit") /\ turn[c].approval = "allow"
    /\ turn' = [turn EXCEPT ![c] = [@ EXCEPT !.pc = "mark", !.outcome = "failed"]]
    /\ saved' = [saved EXCEPT ![c].row = "complete"]
    /\ UNCHANGED <<shared, history>>

(* A slip: the row of a call that will run is left for its result. *)
AdmitUnsaved(c) ==
    /\ At(c, "admit") /\ turn[c].approval = "allow"
    /\ turn' = [turn EXCEPT ![c] = [@ EXCEPT !.pc = "mark"]]
    /\ UNCHANGED <<shared, saved, history>>

(* admit_tool charges the search or fetch budget, maybe its last unit. *)
AdmitWithin(c) ==
    /\ At(c, "admit") /\ turn[c].approval = "allow"
    /\ \E spent \in {turn[c].spent, TRUE} :
         turn' = [turn EXCEPT ![c] = [@ EXCEPT !.pc = "mark", !.spent = spent]]
    /\ saved' = [saved EXCEPT ![c].row = "streaming"]
    /\ UNCHANGED <<shared, history>>

MarkExecuting(c) ==
    /\ At(c, "mark")
    /\ MoveRun(c, "executing_tools", IF turn[c].outcome = "none" THEN "dispatch" ELSE "record")
    /\ UNCHANGED <<shared, history>>

(* A hook blocks the call, or it repeats the two before it. *)
DispatchRefused(c) ==
    /\ At(c, "dispatch")
    /\ turn' = [turn EXCEPT ![c] = [@ EXCEPT !.pc = "record", !.outcome = "failed"]]
    /\ UNCHANGED <<shared, saved, history>>

Dispatch(c) ==
    /\ At(c, "dispatch")
    /\ turn' = [turn EXCEPT ![c].pc = "tool"]
    /\ UNCHANGED <<shared, saved, history>>

(* The tool ends: a value, an error, an outcome nobody knows (a timeout),  *)
(* or `finish` when it was the only call.                                  *)
ToolReturns(c) ==
    /\ At(c, "tool") /\ c \notin halfway
    /\ \E outcome \in IF turn[c].outcome # "none" THEN {turn[c].outcome}
                       ELSE {"ok", "failed", "uncertain", "denied"}
                            \cup (IF turn[c].solo THEN {"finish"} ELSE {}) :
         turn' = [turn EXCEPT ![c] = [@ EXCEPT !.pc = "record", !.outcome = outcome]]
    /\ UNCHANGED <<shared, saved, history>>

(* The watch channel changes while the tool runs: the call is dropped, its *)
(* outcome unknown, and the run is cancelled at once.                      *)
ToolInterrupted(c) ==
    /\ At(c, "tool") /\ c \notin halfway /\ c \in unseen
    /\ unseen' = unseen \ {c}
    /\ turn' = [turn EXCEPT ![c] = [@ EXCEPT !.pc = "settle", !.result = "stopped",
                                             !.approval = "none",
                                             !.mem = Moved(turn[c].mem, "cancelled")]]
    /\ saved' = [saved EXCEPT ![c] = [@ EXCEPT !.run = Moved(turn[c].mem, "cancelled"),
                                              !.row = "interrupted"]]
    /\ UNCHANGED <<control, cancelValue, halfway, exclusive, history>>

(* The result is recorded, and continuation_after_tool decides whether the *)
(* signature may be repeated and whether the next round must answer.       *)
Record(c) ==
    /\ At(c, "record")
    /\ LET stop == turn[c].outcome \in {"uncertain", "denied"} IN
       \E partial \in IF stop THEN {FALSE}
                      ELSE IF Reserve(c, turn[c].round) THEN {TRUE} ELSE BOOLEAN :
         turn' = [turn EXCEPT ![c] = [@ EXCEPT
             !.pc = "calls", !.left = turn[c].left - 1, !.call = NoCall,
             !.outcome = "none", !.approval = "none",
             !.blocked = IF stop THEN turn[c].blocked \cup {turn[c].call} ELSE turn[c].blocked,
             !.denied = turn[c].denied \/ turn[c].outcome = "denied",
             !.fallback = turn[c].fallback \/ partial,
             !.retried = turn[c].retried /\ ~partial,
             !.finished = turn[c].outcome = "finish"]]
    /\ saved' = [saved EXCEPT ![c].row = "complete"]
    /\ UNCHANGED <<shared, history>>

(* After the last call: a finish answers, else the next round, which must  *)
(* answer when research has stalled.                                       *)
EndCalls(c) ==
    /\ At(c, "calls") /\ turn[c].left = 0
    /\ IF turn[c].finished
       THEN Leave(c, "done") /\ UNCHANGED saved
       ELSE /\ \E stalled \in IF turn[c].denied THEN {FALSE} ELSE BOOLEAN :
                 turn' = [turn EXCEPT ![c] = [@ EXCEPT
                            !.pc = "top", !.fallback = turn[c].fallback \/ stalled,
                            !.mem = Moved(turn[c].mem, "preparing_next_round")]]
            /\ saved' = [saved EXCEPT ![c].run = Moved(turn[c].mem, "preparing_next_round")]
    /\ UNCHANGED <<shared, history>>

-----------------------------------------------------------------------------
(* Settlement. *)

(* A slip: a pause settles like a Stop. *)
SettledForgetsPause(result, pause, cancelled) ==
    CASE result = "done" -> "completed"
      [] result = "stopped" -> "cancelled"
      [] result = "error" -> "failed"

(* settled_state *)
SettledState(result, pause, cancelled) ==
    CASE result = "done" -> "completed"
      [] result = "stopped" /\ pause /\ ~cancelled -> "paused"
      [] result = "stopped" /\ ~(pause /\ ~cancelled) -> "cancelled"
      [] result = "error" -> "failed"

MessageStatus(result, state) ==
    IF state = "paused" THEN "paused"
    ELSE CASE result = "done" -> "complete"
           [] result = "stopped" -> "interrupted"
           [] result = "error" -> "error"

(* The final state is computed once, and finish_message saves the answer. *)
Settle(c) ==
    /\ At(c, "settle")
    /\ LET state == SettledState(turn[c].result, control.pause, CancelApplies(c)) IN
       /\ turn' = [turn EXCEPT ![c] = [@ EXCEPT !.pc = "close", !.final = state]]
       /\ saved' = [saved EXCEPT ![c].msg = MessageStatus(turn[c].result, state)]
    /\ UNCHANGED <<shared, history>>

(* The run follows, unless it was already terminal; the guards drop. *)
Close(c) ==
    /\ At(c, "close")
    /\ saved' = [saved EXCEPT ![c].run = Moved(turn[c].mem, turn[c].final)]
    /\ turn' = [turn EXCEPT ![c] = NoTurn]
    /\ unseen' = unseen \ {c}
    /\ UNCHANGED <<control, cancelValue, halfway, exclusive, history>>

-----------------------------------------------------------------------------
(* The controls. *)

(* cancel_generation, and research_cancel in a running tool: the control   *)
(* is locked and released before the watch channel is written.             *)
RequestCancel(x) ==
    /\ x \notin halfway
    /\ IF x = User THEN UNCHANGED turn
       ELSE /\ At(x, "tool") /\ turn[x].outcome = "none" /\ ~IsTerminal(saved[x].run)
            /\ turn' = [turn EXCEPT ![x].outcome = "ok"]
    /\ control' = [control EXCEPT !.cancel = control.active]
    /\ halfway' = halfway \cup {x}
    /\ targets' = targets \cup {c \in Live : turn[c].gen = control.active}
    /\ UNCHANGED <<cancelValue, unseen, exclusive, saved, userPause, stray, recovered>>

SendCancel(x) ==
    /\ x \in halfway
    /\ cancelValue' = TRUE
    /\ unseen' = unseen \cup Live
    /\ halfway' = halfway \ {x}
    /\ stray' = stray \cup {c \in Live : turn[c].gen # control.cancel}
    /\ UNCHANGED <<control, exclusive, turn, saved, userPause, targets, recovered>>

(* pause_generation: apply_pause. *)
UserPauses ==
    /\ control' = [control EXCEPT !.pause = TRUE, !.byModel = FALSE]
    /\ userPause' = TRUE
    /\ UNCHANGED <<cancelValue, unseen, halfway, exclusive, turn, saved, targets, stray, recovered>>

(* A slip: a model's pause takes over the user's. *)
ModelPausesOver(c) ==
    /\ At(c, "tool") /\ turn[c].outcome = "none" /\ ~IsTerminal(saved[c].run)
    /\ control' = [control EXCEPT !.pause = TRUE, !.byModel = TRUE]
    /\ turn' = [turn EXCEPT ![c].outcome = "ok"]
    /\ UNCHANGED <<cancelValue, unseen, halfway, exclusive, saved, history>>

(* research_pause in a running tool: apply_model_pause. *)
ModelPauses(c) ==
    /\ At(c, "tool") /\ turn[c].outcome = "none" /\ ~IsTerminal(saved[c].run)
    /\ control' = IF control.pause THEN control
                  ELSE [control EXCEPT !.pause = TRUE, !.byModel = TRUE]
    /\ turn' = [turn EXCEPT ![c].outcome = "ok"]
    /\ UNCHANGED <<cancelValue, unseen, halfway, exclusive, saved, history>>

(* research_resume in a running tool: release_model_pause. *)
ModelResumes(c) ==
    /\ At(c, "tool") /\ turn[c].outcome = "none" /\ ~IsTerminal(saved[c].run)
    /\ control' = IF control.pause /\ control.byModel
                  THEN [control EXCEPT !.pause = FALSE, !.byModel = FALSE]
                  ELSE control
    /\ turn' = [turn EXCEPT ![c].outcome = "ok"]
    /\ stray' = IF control' = control THEN stray ELSE stray \cup (Live \ {c})
    /\ UNCHANGED <<cancelValue, unseen, halfway, exclusive, saved, userPause, targets, recovered>>

(* resume_generation, once a paused checkpoint is staged: it needs the     *)
(* exclusive lease, so no turn is in flight.                               *)
UserResumes ==
    /\ ~exclusive /\ Live = {} /\ control.active < MaxGenerations
    /\ control' = [control EXCEPT !.active = @ + 1, !.pause = FALSE, !.byModel = FALSE]
    /\ cancelValue' = FALSE
    /\ userPause' = FALSE
    /\ UNCHANGED <<unseen, halfway, exclusive, turn, saved, targets, stray, recovered>>

(* Another exclusive operation: a provider edit, a model install ... *)
TakeExclusive ==
    /\ ~exclusive /\ Live = {}
    /\ exclusive' = TRUE
    /\ UNCHANGED <<control, cancelValue, unseen, halfway, turn, saved, history>>

ReleaseExclusive ==
    /\ exclusive
    /\ exclusive' = FALSE
    /\ UNCHANGED <<control, cancelValue, unseen, halfway, turn, saved, history>>

(* recover_interrupted on one conversation's rows. *)
Recovered(s) ==
    [run |-> IF s.run \in ActiveRunStates THEN "cancelled" ELSE s.run,
     msg |-> IF s.msg = "streaming" THEN "interrupted" ELSE s.msg,
     row |-> IF s.row = "streaming" THEN "interrupted" ELSE s.row]

(* The process ends at any point; the next start recovers the database     *)
(* before the window opens, with a fresh AppState.                         *)
CrashAndRestart ==
    /\ control' = NoControl /\ cancelValue' = FALSE
    /\ unseen' = {} /\ halfway' = {} /\ exclusive' = FALSE
    /\ turn' = [c \in Conversations |-> NoTurn]
    /\ saved' = [c \in Conversations |-> Recovered(saved[c])]
    /\ userPause' = FALSE /\ targets' = {} /\ stray' = {}
    /\ recovered' = recovered \cup Live
                 \cup {c \in Conversations : Recovered(saved[c]) # saved[c]}

-----------------------------------------------------------------------------
Prepare(c) ==
    \/ CancelledBeforeSave(c) \/ Assemble(c)
    \/ SaveMessages(c) \/ SaveRun(c) \/ SnapshotTaken(c)

ModelRound(c) ==
    \/ RoundStopped(c) \/ BeginRound(c) \/ ModelInterrupted(c)
    \/ ModelFails(c) \/ OutputLimit(c) \/ CorrectiveRound(c)
    \/ RetryAnswer(c) \/ FallbackAnswer(c) \/ FinishInAnswer(c) \/ FinalAnswer(c)
    \/ ToolCalls(c)

ToolCall(c) ==
    \/ SkipCall(c) \/ StopAtCall(c) \/ (\E s \in Calls : TakeCall(c, s))
    \/ RuleDenies(c) \/ Decide(c) \/ Ask(c)
    \/ DecisionTaken(c) \/ ApprovalTimesOut(c) \/ ApprovalInterrupted(c)
    \/ AdmitDenied(c) \/ AdmitOver(c) \/ AdmitWithin(c)
    \/ MarkExecuting(c) \/ DispatchRefused(c) \/ Dispatch(c) \/ ToolReturns(c)
    \/ ToolInterrupted(c) \/ Record(c) \/ EndCalls(c)

Finish(c) == Settle(c) \/ Close(c)

(* What may go wrong around a turn and nothing forces to. *)
Mishap(c) == PreparationFails(c) \/ SnapshotFails(c) \/ InterfaceGone(c)

(* What the turn's own task does. *)
TurnStep(c) == Prepare(c) \/ ModelRound(c) \/ ToolCall(c) \/ Finish(c)

Lifecycle(c) == ModelPauses(c) \/ ModelResumes(c) \/ RequestCancel(c)

Next ==
    \/ \E c \in Conversations :
         \/ BeginTurn(c) \/ TurnStep(c) \/ Mishap(c) \/ Lifecycle(c)
         \/ \E answer \in {"allow", "deny"} : Resolve(c, answer)
    \/ RequestCancel(User)
    \/ \E x \in Conversations \cup {User} : SendCancel(x)
    \/ UserPauses \/ UserResumes \/ TakeExclusive \/ ReleaseExclusive
    \/ CrashAndRestart

Spec == Init /\ [][Next]_vars

(* Every wait of a turn has a timeout and the runtime polls every task; a  *)
(* sender between its two statements is synchronous code.                  *)
Fairness ==
    /\ \A c \in Conversations : WF_vars(TurnStep(c))
    /\ \A x \in Conversations \cup {User} : WF_vars(SendCancel(x))

FairSpec == Spec /\ Fairness

-----------------------------------------------------------------------------
(* Properties *)

(* The ignored results of transition_to never hide a refused transition:   *)
(* wherever the loop is, the record it holds and the saved run say so.     *)
RunTracksLoop ==
    \A c \in Conversations : LET p == turn[c].pc IN
        /\ p = "snapshot" => turn[c].mem = "preparing"
        /\ p = "top" => turn[c].mem \in {"preparing", "preparing_next_round"}
        /\ p = "model" => turn[c].mem = "generating"
        /\ p = "approval" => turn[c].mem = "awaiting_approval"
        /\ p \in {"dispatch", "tool", "record"} => turn[c].mem = "executing_tools"
        /\ p \notin {"idle", "assemble", "context", "saverun"} => saved[c].run = turn[c].mem

(* The step that closes a turn, and not a crash. *)
Closed(c) == turn[c].pc = "close" /\ turn'[c].pc = "idle" /\ c \notin recovered'

(* A turn that ends leaves its message and its run agreeing: a complete    *)
(* answer with a completed run, an error with a failed run, a pause that   *)
(* can be resumed with a paused run.  Only a turn that the controls of     *)
(* another conversation reached may end paused with its run cancelled.     *)
MessageAndRunAgree ==
    [][\A c \in Conversations : Closed(c) =>
         /\ IsTerminal(saved'[c].run)
         /\ saved'[c].msg = "complete" <=> saved'[c].run = "completed"
         /\ saved'[c].msg = "error" <=> saved'[c].run = "failed"
         /\ saved'[c].msg = "paused" /\ c \notin stray => saved'[c].run = "paused"]_vars

(* A turn ends cancelled only if a Stop named its generation, or the       *)
(* controls of another conversation reached it (agent_run.rs:112).         *)
CancelledWasAskedFor ==
    [][\A c \in Conversations :
         Closed(c) /\ saved'[c].run = "cancelled" => c \in targets \cup stray]_vars

(* CancelledWasAskedFor with no exemption: "Cancel applies only to the      *)
(* generation that was active when it was requested" (agent_run.rs:112).   *)
CancelAppliesToItsGeneration ==
    [][\A c \in Conversations :
         Closed(c) /\ saved'[c].run = "cancelled" => c \in targets]_vars

(* Once a tool was denied in a turn, by the user, a rule or a timeout, no  *)
(* further tool of that turn starts.                                       *)
DenialStopsTools ==
    \A c \in Conversations : turn[c].denied => turn[c].pc \notin {"dispatch", "tool"}

(* A tool runs only with its audit row saved as streaming, so a crash or   *)
(* an interruption finds it and never reports it as done.                  *)
AuditedBeforeRunning ==
    \A c \in Conversations :
        turn[c].pc \in {"dispatch", "tool"} =>
            saved[c].row = "streaming" /\ turn[c].approval = "allow"

(* "A model pause cannot take ownership of a pending user pause, and a     *)
(* model resume cannot release it" (docs/TOOL_RESULTS.md:13).              *)
UserPauseHolds == userPause => control.pause /\ ~control.byModel

(* A call whose outcome was uncertain, or that was denied, is not started  *)
(* again in the same turn.                                                 *)
NoUncertainReplay ==
    \A c \in Conversations :
        turn[c].pc \in {"permit", "approval", "dispatch", "tool"} =>
            turn[c].call \notin turn[c].blocked

(* Generations name turns: two live turns never share one, and an          *)
(* exclusive operation never overlaps a turn.                              *)
GenerationsNameTurns ==
    /\ \A c, d \in Live : turn[c].gen = turn[d].gen => c = d
    /\ \A c \in Live : turn[c].gen \in 1..control.active
    /\ exclusive => Live = {}

(* "The last round is reserved for a partial answer" (continuation.rs:87): *)
(* no turn runs off the end of its rounds.                                 *)
LastRoundAnswers ==
    \A c \in Conversations : turn[c].pc = "top" => turn[c].round < MaxRounds

(* "pause_starts_no_new_tool" (agent_run.rs:395): a pause that is pending  *)
(* when an approval is answered keeps the tool from starting.              *)
PauseHoldsAtApproval ==
    [][\A c \in Conversations :
         turn[c].pc = "approval" /\ turn'[c].pc = "admit" /\ control.pause
            => turn'[c].approval = "deny"]_vars

(* "A Stop/Pause during assembly belongs to this generation" (chat.rs):    *)
(* a pause of the user holds until the turns that were live have ended.    *)
PauseBelongsToItsTurns ==
    [][userPause /\ (\E c \in Conversations : turn[c].gen # 0 /\ turn'[c].gen = turn[c].gen)
         => control'.pause]_vars

(* Every turn ends, whatever is stopped, paused or started meanwhile.      *)
EveryTurnEnds ==
    \A c \in Conversations : turn[c].pc # "idle" ~> turn[c].pc = "idle"

-----------------------------------------------------------------------------
(* The inductive strengthening of the invariants above: what a turn's      *)
(* place says of its locals and of its rows.                               *)
InCall == {"permit", "approval", "admit", "mark", "dispatch", "tool", "record"}

PlaceRounds(t) ==
    /\ t.pc \in {"assemble", "context", "saverun", "snapshot"} => t.round = 0
    /\ t.pc \in {"top", "calls"} \cup InCall => t.round < MaxRounds
    /\ t.pc = "model" /\ t.round = MaxRounds => t.finalizing
    /\ t.pc \in InCall => t.left > 0

PlaceDecision(t) ==
    /\ t.approval = "waiting" => t.pc = "approval"
    /\ t.pc = "admit" => t.approval \in {"allow", "deny"}
    /\ t.outcome # "none" => t.pc \in {"mark", "tool", "record", "settle", "close"}
    /\ t.denied => /\ t.pc \notin {"approval", "dispatch", "tool"}
                   /\ t.pc = "admit" => t.approval = "deny"
                   /\ t.pc = "mark" => t.outcome # "none"
    /\ t.pc \in InCall => t.call \in Calls \ t.blocked

PlaceEnd(t) ==
    /\ t.pc = "settle" => t.result # "none"
    /\ t.pc = "close" => t.final \in TerminalRunStates

PlaceRow(t, s) ==
    t.pc \in {"dispatch", "tool"} \/ (t.pc = "mark" /\ t.outcome = "none")
        => t.approval = "allow" /\ s.row = "streaming"

PlaceRun(t, s) ==
    /\ t.pc = "snapshot" => t.mem = "preparing"
    /\ t.pc = "top" => t.mem \in {"preparing", "preparing_next_round"}
    /\ t.pc = "model" => t.mem = "generating"
    /\ t.pc = "calls" => t.mem \in {"generating", "executing_tools"}
    /\ t.pc \in {"permit", "admit", "mark"} =>
           t.mem \in {"generating", "awaiting_approval", "executing_tools"}
    /\ t.pc = "permit" => t.mem # "awaiting_approval"
    /\ t.pc = "approval" => t.mem = "awaiting_approval"
    /\ t.pc \in {"dispatch", "tool", "record"} => t.mem = "executing_tools"
    /\ t.pc \notin {"idle", "assemble", "context", "saverun"} => s.run = t.mem

TurnInv(t, s) ==
    /\ PlaceRounds(t) /\ PlaceDecision(t) /\ PlaceEnd(t)
    /\ PlaceRow(t, s) /\ PlaceRun(t, s)

IInv ==
    /\ TypeOK
    /\ UserPauseHolds
    /\ GenerationsNameTurns
    /\ \A c \in Conversations : TurnInv(turn[c], saved[c])
=============================================================================
