---------------------------- MODULE ResearchLedger ----------------------------
(***************************************************************************)
(* The durable task ledger of one conversation: research_tasks.rs, its     *)
(* table in store.rs, and the ledger calls of the turn loop in chat.rs.    *)
(* Every turn creates a task, keeps a copy of it in memory and saves that  *)
(* copy; lifecycle tools, the catalog dispatch, Resume and the recovery of *)
(* a restart read and write the table under the copy.                      *)
(*                                                                         *)
(* A task's question, results and pending work are left out.  Its          *)
(* updated_at is kept as the order of the tasks, the latest touched first: *)
(* no two touches share a millisecond.  The other conversations of the     *)
(* process are the steps of OtherTurnBegins.                               *)
(***************************************************************************)
EXTENDS Naturals, Sequences, SequencesExt

CONSTANTS
    TextCalls,      \* the model writes its calls as text (tool_calls.rs)
    LongQuestions,  \* a question may be too long for a task
    MaxTurns,       \* bound on the turns of the conversation
    MaxRounds,      \* bound on the responses with calls of a turn
    MaxCalls,       \* bound on the calls of a response
    RecoverLimit,   \* running_research_task_ids: LIMIT 50
    ListLimit,      \* recoverable_research_tasks: LIMIT 20
    TaskRounds      \* TaskBudgets.max_rounds

ASSUME LedgerAssumption ==
    /\ TextCalls \in BOOLEAN /\ LongQuestions \in BOOLEAN
    /\ MaxTurns \in Nat \ {0} /\ MaxRounds \in Nat \ {0} /\ MaxCalls \in Nat \ {0}
    /\ RecoverLimit \in Nat \ {0} /\ ListLimit \in Nat \ {0}
    /\ TaskRounds \in Nat \ {0}

VARIABLES
    disk,      \* research_tasks: the task of each turn
    recency,   \* the tasks of the table by updated_at, the latest first
    staged,    \* the pending_resume setting: the task it speaks of, or 0
    run,       \* the status of the conversation's latest run
    turn,      \* the number of turns saved so far
    mem,       \* `ledger`, the copy the turn loop owns
    loop,      \* where the turn is
    control,   \* RunControl and the watch channel, as this turn sees them
    \* history, read by no action
    fate,      \* what really happened to the call of each operation
    stray,     \* another conversation's turn began during this one
    crashed    \* a crash ended this turn

vars == <<disk, recency, staged, run, turn, mem, loop, control, fate, stray, crashed>>
history == <<fate, stray, crashed>>

Turns == 1..MaxTurns
TaskStatuses == {"running", "paused", "cancelled"}
OpStatuses == {"running", "completed", "unknown"}
AnId == 0   \* the random identifier of checkpoint_operation

Op == [id : Nat, status : OpStatuses]
Task == [status : TaskStatuses \cup {"none"}, ops : Seq(Op)]
NoTask == [status |-> "none", ops |-> <<>>]
NewTask == [status |-> "running", ops |-> <<>>]

Places == {"idle", "prepare", "context", "top", "model", "calls", "taken",
           "catalog", "plain", "record", "settle"}
Loop == [pc : Places,
         carried : 0..MaxTurns,            \* the checkpoint taken for this turn
         round : 0..MaxRounds,             \* responses with calls
         made : 0..MaxCalls,               \* calls of this response handled
         total : Nat,                      \* calls of this turn handled
         lifecycle : BOOLEAN,              \* the call was research_pause, ...
         did : {"none", "ok", "failed", "unsure", "denied"},
         result : {"none", "done", "stopped", "cancelled", "error"}]
NoLoop == [pc |-> "idle", carried |-> 0, round |-> 0, made |-> 0, total |-> 0,
           lifecycle |-> FALSE, did |-> "none", result |-> "none"]

Control == [pause : {"no", "user", "model"}, \* pause and pause_by_model
            cancel : BOOLEAN,    \* cancel_applies to this turn
            wake : BOOLEAN,      \* its watch receiver has a change
            overtaken : BOOLEAN] \* a later turn has the active generation
NoControl == [pause |-> "no", cancel |-> FALSE, wake |-> FALSE, overtaken |-> FALSE]

Fates == {"open", "ok", "failed", "unsure", "denied", "unstarted"}

TypeOK ==
    /\ disk \in [Turns -> Task] /\ mem \in Task
    /\ recency \in Seq(Turns)
    /\ staged \in 0..MaxTurns /\ turn \in 0..MaxTurns
    /\ run \in {"none", "live", "paused", "cancelled", "completed", "failed"}
    /\ loop \in Loop /\ control \in Control
    /\ fate \in [Turns -> Seq(Fates)]
    /\ stray \in BOOLEAN /\ crashed \in BOOLEAN

Init ==
    /\ disk = [t \in Turns |-> NoTask] /\ mem = NoTask
    /\ recency = <<>> /\ staged = 0 /\ run = "none" /\ turn = 0
    /\ loop = NoLoop /\ control = NoControl
    /\ fate = [t \in Turns |-> <<>>] /\ stray = FALSE /\ crashed = FALSE

At(place) == loop.pc = place
HasLedger == mem.status # "none"

(* updated_at = now() of a saved task. *)
Touched(t) == <<t>> \o Remove(recency, t)

(* The call in hand: text calls are numbered from 0 in each response,      *)
(* native calls carry an identifier of their own.                          *)
CallId == (IF TextCalls THEN loop.made ELSE loop.total) + 1

(* The row `op-<call id>`, the first of that identifier. *)
HasRow(task, id) == \E i \in DOMAIN task.ops : task.ops[i].id = id
RowOf(task, id) == SelectInSeq(task.ops, LAMBDA op : op.id = id)

Opened(task, id) == [task EXCEPT !.ops = Append(@, [id |-> id, status |-> "running"])]

(* settle_catalog_op with a result that is no error. *)
Settled(task, id) ==
    IF HasRow(task, id)
    THEN [task EXCEPT !.ops[RowOf(task, id)].status = "completed"] ELSE task

(* checkpoint_operation(name, Completed, ..). *)
Checkpointed(task) ==
    [task EXCEPT !.ops = Append(@, [id |-> AnId, status |-> "completed"])]

Paused(task) == [task EXCEPT !.status = IF @ = "running" THEN "paused" ELSE @]

Resumed(task) == [task EXCEPT !.status = "running"]

InFlightUnknown(task) ==
    [task EXCEPT !.ops = [i \in DOMAIN task.ops |->
        IF task.ops[i].status = "running"
        THEN [task.ops[i] EXCEPT !.status = "unknown"] ELSE task.ops[i]]]

(* ResearchTask::cancel. *)
CancelledTask(task) == [InFlightUnknown(task) EXCEPT !.status = "cancelled"]

(* restart_from_ledger with restart_operations. *)
RestartedTask(task) == Paused(InFlightUnknown(task))

-----------------------------------------------------------------------------
(* A turn: preparation, rounds, settlement. *)

BeginTurn ==
    /\ At("idle") /\ turn < MaxTurns
    /\ loop' = [NoLoop EXCEPT !.pc = "prepare"]
    /\ control' = NoControl
    /\ UNCHANGED <<disk, recency, staged, run, turn, mem, history>>

(* take_staged_checkpoint: onto the messages, and out of the settings. *)
TakeCheckpoint ==
    /\ At("prepare") /\ ~control.wake
    /\ loop' = [loop EXCEPT !.pc = "context", !.carried = staged]
    /\ staged' = 0
    /\ UNCHANGED <<disk, recency, run, turn, mem, control, history>>

(* "Message cancelled before generation; it was not saved.", a failed      *)
(* assembly, an over-long context.                                         *)
PrepareFails ==
    /\ At("prepare") \/ At("context")
    /\ loop' = NoLoop
    /\ UNCHANGED <<disk, recency, staged, run, turn, mem, control, history>>

(* The messages and the run are saved and the task is created; a question  *)
(* over 8000 bytes leaves the turn without one.                            *)
StartRounds ==
    /\ At("context") /\ ~control.wake
    /\ turn' = turn + 1 /\ run' = "live"
    /\ loop' = [loop EXCEPT !.pc = "top", !.carried = 0]
    /\ \/ /\ mem' = NewTask
          /\ disk' = [disk EXCEPT ![turn + 1] = NewTask]
          /\ recency' = Touched(turn + 1)
       \/ /\ LongQuestions
          /\ mem' = NoTask
          /\ UNCHANGED <<disk, recency>>
    /\ stray' = FALSE /\ crashed' = FALSE
    /\ UNCHANGED <<staged, control, fate>>

Leave(result) == loop' = [loop EXCEPT !.pc = "settle", !.result = result]

StopAtTop ==
    /\ At("top") /\ control.cancel
    /\ Leave("stopped")
    /\ UNCHANGED <<disk, recency, staged, run, turn, mem, control, history>>

(* A pause at the top of a round checkpoints a task that still runs. *)
PauseAtTop ==
    /\ At("top") /\ ~control.cancel /\ control.pause # "no"
    /\ Leave("stopped")
    /\ IF mem.status = "running"
       THEN /\ mem' = Paused(mem)
            /\ disk' = [disk EXCEPT ![turn] = Paused(mem)]
            /\ recency' = Touched(turn)
       ELSE UNCHANGED <<mem, disk, recency>>
    /\ UNCHANGED <<staged, run, turn, control, history>>

BeginRound ==
    /\ At("top") /\ ~control.cancel /\ control.pause = "no"
    /\ loop' = [loop EXCEPT !.pc = "model"]
    /\ UNCHANGED <<disk, recency, staged, run, turn, mem, control, history>>

(* An answer or an error ends the turn; a response with calls goes on. *)
ModelEnds ==
    /\ At("model")
    /\ Leave("done") \/ Leave("error")
    /\ UNCHANGED <<disk, recency, staged, run, turn, mem, control, history>>

ModelCalls ==
    /\ At("model") /\ loop.round < MaxRounds
    /\ loop' = [loop EXCEPT !.pc = "calls", !.round = @ + 1, !.made = 0]
    /\ UNCHANGED <<disk, recency, staged, run, turn, mem, control, history>>

(* A change of the watch channel ends the turn wherever a select waits:    *)
(* the model, an approval, a tool.  An interrupted tool may have acted.    *)
Interrupt ==
    /\ At("model") \/ At("taken") \/ At("catalog") \/ At("plain")
    /\ control.wake
    /\ Leave(IF At("catalog") \/ At("plain") THEN "cancelled" ELSE "stopped")
    /\ fate' = IF At("catalog") /\ HasRow(mem, CallId)
               THEN [fate EXCEPT ![turn][RowOf(mem, CallId)] = "unsure"] ELSE fate
    /\ UNCHANGED <<disk, recency, staged, run, turn, mem, control, stray, crashed>>

(* settled_state and the run's final status. *)
Settle ==
    /\ At("settle")
    /\ run' = CASE loop.result = "done" -> "completed"
                [] loop.result = "error" -> "failed"
                [] loop.result = "cancelled" -> "cancelled"
                [] OTHER -> IF control.pause # "no" /\ ~control.cancel
                            THEN "paused" ELSE "cancelled"
    /\ loop' = NoLoop /\ mem' = NoTask
    /\ UNCHANGED <<disk, recency, staged, turn, control, history>>

-----------------------------------------------------------------------------
(* The calls of a response, one after the other. *)

StopAtCall ==
    /\ At("calls") /\ loop.made < MaxCalls /\ control.cancel
    /\ Leave("stopped")
    /\ UNCHANGED <<disk, recency, staged, run, turn, mem, control, history>>

(* A slip: the paused task is not saved. *)
PauseAtCallUnsaved ==
    /\ At("calls") /\ loop.made < MaxCalls
    /\ ~control.cancel /\ control.pause # "no"
    /\ Leave("stopped")
    /\ mem' = IF HasLedger THEN Paused(Opened(mem, CallId)) ELSE mem
    /\ UNCHANGED <<disk, recency, staged, run, turn, control, history>>

(* pause_before_new_tool: the call is recorded and not started; a task     *)
(* that is no longer running keeps its status and its stamp.               *)
PauseAtCall ==
    /\ At("calls") /\ loop.made < MaxCalls
    /\ ~control.cancel /\ control.pause # "no"
    /\ Leave("stopped")
    /\ IF HasLedger
       THEN LET task == Paused(Opened(mem, CallId)) IN
            /\ mem' = task
            /\ disk' = [disk EXCEPT ![turn] = task]
            /\ recency' = IF mem.status = "running" THEN Touched(turn) ELSE recency
            /\ fate' = [fate EXCEPT ![turn] = Append(@, "unstarted")]
       ELSE UNCHANGED <<mem, disk, recency, fate>>
    /\ UNCHANGED <<staged, run, turn, control, stray, crashed>>

(* The call passes both checks; its permission is decided next. *)
TakeCall ==
    /\ At("calls") /\ loop.made < MaxCalls
    /\ ~control.cancel /\ control.pause = "no"
    /\ loop' = [loop EXCEPT !.pc = "taken"]
    /\ UNCHANGED <<disk, recency, staged, run, turn, mem, control, history>>

NextCall == loop' = [loop EXCEPT !.pc = "calls", !.made = @ + 1, !.total = @ + 1,
                                 !.lifecycle = FALSE, !.did = "none"]

(* An unavailable tool, invalid arguments, an uncertain outcome that is    *)
(* not repeated: no operation.                                             *)
SkipCall ==
    /\ At("taken")
    /\ NextCall
    /\ UNCHANGED <<disk, recency, staged, run, turn, mem, control, history>>

(* A rule or the user denies the call. *)
DenyCall ==
    /\ At("taken")
    /\ loop' = [loop EXCEPT !.pc = "record", !.did = "denied"]
    /\ UNCHANGED <<disk, recency, staged, run, turn, mem, control, history>>

(* begin_catalog_op, then the dispatch: run_code, file_write, file_read. *)
StartCatalog ==
    /\ At("taken")
    /\ loop' = [loop EXCEPT !.pc = "catalog"]
    /\ IF ~HasLedger THEN UNCHANGED <<mem, disk, fate>>
       ELSE IF HasRow(mem, CallId)
       THEN /\ fate' = [fate EXCEPT ![turn][RowOf(mem, CallId)] = "open"]
            /\ UNCHANGED <<mem, disk>>
       ELSE /\ mem' = Opened(mem, CallId)
            /\ disk' = [disk EXCEPT ![turn] = mem']
            /\ fate' = [fate EXCEPT ![turn] = Append(@, "open")]
    /\ UNCHANGED <<recency, staged, run, turn, control, stray, crashed>>

(* A slip: the loop's copy is not read again. *)
CatalogSucceedsStale ==
    /\ At("catalog")
    /\ NextCall
    /\ disk' = IF HasLedger THEN [disk EXCEPT ![turn] = Settled(@, CallId)] ELSE disk
    /\ UNCHANGED <<recency, staged, run, turn, mem, control, history>>

(* run_catalog_and_record with a result: the row is settled on the table   *)
(* and the loop's copy is read again.                                      *)
CatalogSucceeds ==
    /\ At("catalog")
    /\ NextCall
    /\ IF HasLedger
       THEN /\ disk' = [disk EXCEPT ![turn] = Settled(@, CallId)]
            /\ mem' = disk'[turn]
            /\ fate' = IF HasRow(mem, CallId)
                       THEN [fate EXCEPT ![turn][RowOf(mem, CallId)] = "ok"] ELSE fate
       ELSE UNCHANGED <<disk, mem, fate>>
    /\ UNCHANGED <<recency, staged, run, turn, control, stray, crashed>>

(* A slip: the row is settled whatever the outcome. *)
CatalogFailsSettled(did) ==
    /\ At("catalog")
    /\ NextCall
    /\ IF HasLedger
       THEN /\ disk' = [disk EXCEPT ![turn] = Settled(@, CallId)]
            /\ mem' = disk'[turn]
            /\ fate' = [fate EXCEPT ![turn][RowOf(mem, CallId)] = did]
       ELSE UNCHANGED <<disk, mem, fate>>
    /\ UNCHANGED <<recency, staged, run, turn, control, stray, crashed>>

(* An error result, a dispatch error or a timeout: the row stays running. *)
CatalogFails(did) ==
    /\ At("catalog")
    /\ NextCall
    /\ fate' = IF HasLedger /\ HasRow(mem, CallId)
               THEN [fate EXCEPT ![turn][RowOf(mem, CallId)] = did] ELSE fate
    /\ UNCHANGED <<disk, recency, staged, run, turn, mem, control, stray, crashed>>

StartPlain ==
    /\ At("taken")
    /\ loop' = [loop EXCEPT !.pc = "plain"]
    /\ UNCHANGED <<disk, recency, staged, run, turn, mem, control, history>>

(* Any other tool: a result, an error, or a timeout that leaves open what  *)
(* the call has done.                                                      *)
PlainEnds(did) ==
    /\ At("plain")
    /\ loop' = [loop EXCEPT !.pc = "record", !.did = did]
    /\ UNCHANGED <<disk, recency, staged, run, turn, mem, control, history>>

(* A lifecycle tool writes the conversation's latest task, with stamp. *)
Latest == disk[Head(recency)]
Steer(guard, task) ==
    IF recency # <<>> /\ Latest.status \in guard
    THEN disk' = [disk EXCEPT ![Head(recency)] = task]
    ELSE UNCHANGED disk

LifecycleEnds ==
    /\ loop' = [loop EXCEPT !.pc = "record", !.lifecycle = TRUE, !.did = "ok"]
    /\ UNCHANGED <<recency, staged, run, turn, mem, history>>

(* research_pause: a pending pause of the user stays the user's. *)
ModelPause ==
    /\ At("plain")
    /\ control' = [control EXCEPT !.pause = IF @ = "no" THEN "model" ELSE @]
    /\ Steer({"running"}, Paused(Latest))
    /\ LifecycleEnds

(* research_resume: only the model's own pending pause; refused otherwise. *)
ModelResume ==
    /\ At("plain")
    /\ IF control.pause = "model"
       THEN /\ control' = [control EXCEPT !.pause = "no"]
            /\ Steer({"paused"}, Resumed(Latest))
       ELSE UNCHANGED <<control, disk>>
    /\ LifecycleEnds

(* research_cancel: request_cancel names the active generation. *)
ModelCancel ==
    /\ At("plain")
    /\ control' = [control EXCEPT !.cancel = ~control.overtaken, !.wake = TRUE]
    /\ Steer({"running", "paused"}, CancelledTask(Latest))
    /\ LifecycleEnds

(* A slip: the loop's copy is saved over what a lifecycle tool wrote. *)
MergedNever(task, durable) == task

(* A slip: the durable status is kept, the durable unknowns are not. *)
MergedStatus(task, durable) ==
    IF loop.lifecycle \/ durable.status \in {"paused", "cancelled"}
    THEN [task EXCEPT !.status = durable.status] ELSE task

(* The merge of persist_completed_tool: after a lifecycle tool, and while  *)
(* the durable task is paused or cancelled, its status and its unknown     *)
(* operations win over the loop's copy.                                    *)
Merged(task, durable) ==
    LET Lost(i) == /\ task.ops[i].status = "running"
                   /\ RowOf(task, task.ops[i].id) = i
                   /\ \E j \in DOMAIN durable.ops :
                        durable.ops[j] = [task.ops[i] EXCEPT !.status = "unknown"]
    IN IF loop.lifecycle \/ durable.status \in {"paused", "cancelled"}
       THEN [status |-> durable.status,
             ops |-> [i \in DOMAIN task.ops |->
                        IF Lost(i) THEN [task.ops[i] EXCEPT !.status = "unknown"]
                        ELSE task.ops[i]]]
       ELSE task

(* persist_completed_tool, for every call that is no permitted catalog     *)
(* call: denied, failed and timed-out ones included.                       *)
Record ==
    /\ At("record")
    /\ NextCall
    /\ IF HasLedger
       THEN /\ mem' = Checkpointed(Merged(mem, disk[turn]))
            /\ disk' = [disk EXCEPT ![turn] = mem']
            /\ recency' = Touched(turn)
            /\ fate' = [fate EXCEPT ![turn] = Append(@, loop.did)]
       ELSE UNCHANGED <<mem, disk, recency, fate>>
    /\ UNCHANGED <<staged, run, turn, control, stray, crashed>>

(* The batch is done: another round, or an accepted `finish`. *)
EndCalls ==
    /\ At("calls") /\ loop.made > 0
    /\ loop' = [loop EXCEPT !.pc = "top"] \/ Leave("done")
    /\ UNCHANGED <<disk, recency, staged, run, turn, mem, control, history>>

-----------------------------------------------------------------------------
(* The user, the other conversations, a restart. *)

UserPauses ==
    /\ ~At("idle")
    /\ control' = [control EXCEPT !.pause = "user"]
    /\ UNCHANGED <<disk, recency, staged, run, turn, mem, loop, history>>

(* Stop names the active generation and wakes every turn. *)
UserStops ==
    /\ ~At("idle")
    /\ control' = [control EXCEPT !.cancel = ~control.overtaken, !.wake = TRUE]
    /\ UNCHANGED <<disk, recency, staged, run, turn, mem, loop, history>>

(* begin_generation of another conversation: no pause, a watch value of    *)
(* false that every receiver sees as a change.                             *)
OtherTurnBegins ==
    /\ ~At("idle")
    /\ control' = [pause |-> "no", cancel |-> FALSE, wake |-> TRUE, overtaken |-> TRUE]
    /\ stray' = TRUE
    /\ UNCHANGED <<disk, recency, staged, run, turn, mem, loop, fate, crashed>>

(* recoverable_research_tasks, the latest touched first. *)
Unfinished(limit) ==
    LET listed == SelectSeq(recency, LAMBDA t : disk[t].status \in {"running", "paused"})
    IN SubSeq(listed, 1, IF Len(listed) < limit THEN Len(listed) ELSE limit)

(* The user's Resume on a paused run: stage_paused_resume takes the first  *)
(* paused task of the list.                                                *)
Resume ==
    /\ At("idle") /\ run = "paused"
    /\ LET listed == Unfinished(ListLimit) IN
       \E i \in DOMAIN listed, t \in Turns :
          /\ t = listed[i] /\ disk[t].status = "paused"
          /\ \A j \in 1..(i - 1) : disk[listed[j]].status # "paused"
          /\ disk' = [disk EXCEPT ![t] = Resumed(@)]
          /\ recency' = Touched(t)
          /\ staged' = t
    /\ control' = NoControl
    /\ UNCHANGED <<run, turn, mem, loop, history>>

(* The tasks recover_interrupted works through, in its order. *)
ToRecover(limit) == Unfinished(limit)

(* The process ends at any point and starts again: the live run becomes    *)
(* cancelled, and recover_interrupted saves each task of its list with a   *)
(* new stamp, the latest touched first.                                    *)
Restart ==
    /\ LET list == ToRecover(RecoverLimit)
           saved == {list[i] : i \in DOMAIN list}
       IN /\ disk' = [t \in Turns |-> IF t \in saved THEN RestartedTask(disk[t]) ELSE disk[t]]
          /\ recency' = Reverse(list) \o SelectSeq(recency, LAMBDA t : t \notin saved)
    /\ run' = IF run = "live" THEN "cancelled" ELSE run
    /\ loop' = NoLoop /\ mem' = NoTask /\ control' = NoControl
    /\ fate' = [t \in Turns |-> [i \in DOMAIN fate[t] |->
                  IF fate[t][i] = "open" THEN "unsure" ELSE fate[t][i]]]
    /\ crashed' = (crashed \/ run = "live")
    /\ UNCHANGED <<staged, turn, stray>>

TurnStep ==
    \/ BeginTurn \/ TakeCheckpoint \/ PrepareFails \/ StartRounds
    \/ StopAtTop \/ PauseAtTop \/ BeginRound \/ ModelEnds \/ ModelCalls
    \/ Interrupt \/ Settle
    \/ StopAtCall \/ PauseAtCall \/ TakeCall \/ SkipCall \/ DenyCall
    \/ StartCatalog \/ CatalogSucceeds
    \/ \E did \in {"failed", "unsure"} : CatalogFails(did)
    \/ StartPlain \/ \E did \in {"ok", "failed", "unsure"} : PlainEnds(did)
    \/ ModelPause \/ ModelResume \/ ModelCancel
    \/ Record \/ EndCalls

Environment == UserPauses \/ UserStops \/ OtherTurnBegins \/ Resume \/ Restart

Next == TurnStep \/ Environment

Spec == Init /\ [][Next]_vars

-----------------------------------------------------------------------------
(* What the ledger promises. *)

(* No save of an older copy takes back a completed operation, and no save  *)
(* drops a row: research_tasks.rs promises that completed work stays.      *)
CompletedStays ==
    [][\A t \in Turns : \A i \in DOMAIN disk[t].ops :
         /\ i \in DOMAIN disk'[t].ops
         /\ disk[t].ops[i].status = "completed" => disk'[t].ops[i].status = "completed"]_vars

(* An operation whose outcome became unknown is never reported as running  *)
(* or completed again.                                                     *)
UnknownStays ==
    [][\A t \in Turns : \A i \in DOMAIN disk[t].ops :
         disk[t].ops[i].status = "unknown" => disk'[t].ops[i].status = "unknown"]_vars

(* What a lifecycle tool or a pause has written stands until the user      *)
(* resumes or the model takes its own pause back; a cancel is final.       *)
LifecycleStands ==
    [][\A t \in Turns :
         /\ disk[t].status = "cancelled" => disk'[t].status = "cancelled"
         /\ disk[t].status = "paused" /\ disk'[t].status = "running" =>
              staged' = t \/ (At("plain") /\ control.pause = "model" /\ control'.pause = "no")]_vars

(* A catalog call that is in flight, or whose end nobody saw, is running   *)
(* or unknown in the table, never completed.                               *)
UncertainNotCompleted ==
    \A t \in Turns : \A i \in DOMAIN disk[t].ops :
        disk[t].ops[i].id # AnId /\ fate[t][i] \in {"open", "unsure"} =>
            disk[t].ops[i].status \in {"running", "unknown"}

(* A run that settles as paused under its own conversation's controls has  *)
(* saved its task as paused, so that Resume finds it.                      *)
PausedRunIsCheckpointed ==
    [][run # "paused" /\ run' = "paused" /\ HasLedger /\ ~stray =>
         disk[turn].status = "paused"]_vars

-----------------------------------------------------------------------------
(* What the documentation says and the code does not do. *)

(* "Only expose Resume when its durable task checkpoint still exists."     *)
(* (store.rs): a paused run, which the interface offers to resume, has a   *)
(* paused task.                                                            *)
PausedRunCanResume ==
    [][run # "paused" /\ run' = "paused" => disk[turn].status = "paused"]_vars

(* "Load the paused ledger" (chat.rs): Resume on a paused run whose own    *)
(* task, the conversation's latest, is paused stages that task.            *)
ResumeStagesPausedTurn ==
    [][staged' \notin {staged, 0} /\ disk[turn].status = "paused" => staged' = turn]_vars

(* "the checkpoint the next user turn must include" (chat.rs): a staged    *)
(* checkpoint taken off the settings reaches a saved turn.                 *)
CheckpointReachesTurn ==
    [][loop.carried # 0 /\ loop'.carried = 0 => turn' = turn + 1]_vars

(* "Interrupted operations with uncertain outcomes are marked `unknown`    *)
(* explicitly." (research_tasks.rs): no operation, catalog or not, whose   *)
(* end nobody saw is completed.                                            *)
TimeoutNotCompleted ==
    \A t \in Turns : \A i \in DOMAIN disk[t].ops :
        fate[t][i] \in {"open", "unsure"} => disk[t].ops[i].status # "completed"

(* "task moves to `budget_exhausted` with partial results"                 *)
(* (research_tasks.rs): a task whose checkpoints alone use up its budget   *)
(* of operations no longer runs.                                           *)
BudgetEndsTask ==
    \A t \in Turns :
        Len(SelectSeq(disk[t].ops, LAMBDA op : op.id = AnId)) >= TaskRounds =>
            disk[t].status # "running"

=============================================================================
