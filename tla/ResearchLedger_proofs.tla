------------------------- MODULE ResearchLedger_proofs -------------------------
(***************************************************************************)
(* Proofs about ResearchLedger: for any number of turns, rounds and calls, *)
(* with native or text calls, no save takes back a completed operation, a  *)
(* paused or cancelled task stays what it is until someone entitled to it  *)
(* changes it, and a run that settles as paused has its checkpoint.        *)
(***************************************************************************)
EXTENDS ResearchLedger, SequenceTheorems, TLAPS

(* The row-by-row promise of a save: no row is dropped, no completed row   *)
(* changes.                                                                *)
Grown(old, new) ==
    /\ DOMAIN old.ops \subseteq DOMAIN new.ops
    /\ \A i \in DOMAIN old.ops :
         old.ops[i].status = "completed" => new.ops[i].status = "completed"

(* The loop's copy after a lifecycle tool has written under it. *)
Behind(copy, durable) ==
    /\ DOMAIN copy.ops = DOMAIN durable.ops
    /\ \A i \in DOMAIN copy.ops :
         copy.ops[i].status = "completed" <=> durable.ops[i].status = "completed"

DataOK ==
    /\ disk \in [Turns -> Task] /\ mem \in Task /\ turn \in 0..MaxTurns
    /\ staged \in 0..MaxTurns
    /\ loop \in Loop /\ control \in Control /\ stray \in BOOLEAN

(* Turns that have not begun have no task, one more may begin, and the     *)
(* call in hand is one of the response.                                    *)
Fresh ==
    /\ loop.pc \in {"prepare", "context"} => turn < MaxTurns
    /\ loop.pc \in {"taken", "catalog", "plain", "record"} => loop.made < MaxCalls
    /\ \A t \in Turns : t > turn => disk[t].status = "none" /\ DOMAIN disk[t].ops = {}

(* The loop owns a copy between the start of its rounds and its settling,  *)
(* and it is the durable task except while a lifecycle call is recorded.   *)
Copy ==
    /\ loop.lifecycle => loop.pc = "record"
    /\ HasLedger =>
         /\ turn \in Turns
         /\ loop.pc \notin {"idle", "prepare", "context"}
         /\ disk[turn].status # "none"
         /\ IF loop.lifecycle THEN Behind(mem, disk[turn]) ELSE mem = disk[turn]

(* Without another conversation's turn, a wake-up and a cancelled task are *)
(* this turn's own cancel, and a turn that stopped without one has its     *)
(* task paused.                                                            *)
OwnStop ==
    /\ control.overtaken => control.wake
    /\ loop.pc \notin {"idle", "prepare", "context"} /\ ~stray =>
         /\ ~control.overtaken /\ (control.wake => control.cancel)
         /\ HasLedger /\ disk[turn].status = "cancelled" => control.cancel
         /\ HasLedger /\ loop.pc = "settle"
                /\ loop.result \notin {"done", "cancelled", "error"} =>
              control.cancel \/ disk[turn].status = "paused"

Inv == DataOK /\ Fresh /\ Copy /\ OwnStop

(* What one step must not do: the bodies of CompletedStays,                *)
(* LifecycleStands and PausedRunIsCheckpointed.                            *)
Promise ==
    /\ \A t \in Turns : Grown(disk[t], disk'[t])
    /\ \A t \in Turns :
         /\ disk[t].status = "cancelled" => disk'[t].status = "cancelled"
         /\ disk[t].status = "paused" /\ disk'[t].status = "running" =>
              staged' = t \/ (At("plain") /\ control.pause = "model" /\ control'.pause = "no")
    /\ run # "paused" /\ run' = "paused" /\ HasLedger /\ ~stray =>
         disk[turn].status = "paused"

-----------------------------------------------------------------------------
(* What the operations on a task keep. *)

(* A function on 1..n is a sequence. *)
LEMMA FunctionIsSeq ==
    ASSUME NEW S, NEW n \in Nat, NEW f \in [1..n -> S]
    PROVE  f \in Seq(S)
BY SeqDef, Zenon

(* Every operation on a task yields a task and keeps its completed rows;   *)
(* this is the arithmetic of sequences behind research_tasks.rs.           *)
LEMMA OpenedTask ==
    ASSUME NEW task \in Task, NEW id \in Nat
    PROVE  /\ Opened(task, id) \in Task /\ Grown(task, Opened(task, id))
           /\ Opened(task, id).status = task.status
<1> DEFINE row == [id |-> id, status |-> "running"]
<1>1. row \in Op
  BY DEF Op, OpStatuses
<1>2. task.ops \in Seq(Op)
  BY DEF Task
<1>3. Append(task.ops, row) \in Seq(Op)
  BY <1>1, <1>2
<1>4. DOMAIN task.ops = 1..Len(task.ops) /\ DOMAIN Append(task.ops, row) = 1..(Len(task.ops) + 1)
  BY <1>1, <1>2
<1>5. \A i \in 1..Len(task.ops) : Append(task.ops, row)[i] = task.ops[i]
  BY <1>1, <1>2
<1>6. Len(task.ops) \in Nat
  BY <1>2
<1>7. Opened(task, id) = [task EXCEPT !.ops = Append(task.ops, row)]
  BY DEF Opened, Task
<1>8. Opened(task, id) \in Task
  BY <1>3, <1>7 DEF Task
<1>9. Opened(task, id).ops = Append(task.ops, row) /\ Opened(task, id).status = task.status
  BY <1>7 DEF Task
<1> QED
  BY <1>4, <1>5, <1>6, <1>8, <1>9 DEF Grown

(* The same for the row a recorded call appends. *)
LEMMA CheckpointedTask ==
    ASSUME NEW task \in Task
    PROVE  /\ Checkpointed(task) \in Task /\ Grown(task, Checkpointed(task))
           /\ Checkpointed(task).status = task.status
<1> DEFINE row == [id |-> AnId, status |-> "completed"]
<1>1. row \in Op
  BY DEF Op, OpStatuses, AnId
<1>2. task.ops \in Seq(Op)
  BY DEF Task
<1>3. Append(task.ops, row) \in Seq(Op)
  BY <1>1, <1>2
<1>4. DOMAIN task.ops = 1..Len(task.ops) /\ DOMAIN Append(task.ops, row) = 1..(Len(task.ops) + 1)
  BY <1>1, <1>2
<1>5. \A i \in 1..Len(task.ops) : Append(task.ops, row)[i] = task.ops[i]
  BY <1>1, <1>2
<1>6. Len(task.ops) \in Nat
  BY <1>2
<1>7. Checkpointed(task) = [task EXCEPT !.ops = Append(task.ops, row)]
  BY DEF Checkpointed, Task
<1>8. Checkpointed(task) \in Task
  BY <1>3, <1>7 DEF Task
<1>9. Checkpointed(task).ops = Append(task.ops, row) /\ Checkpointed(task).status = task.status
  BY <1>7 DEF Task
<1> QED
  BY <1>4, <1>5, <1>6, <1>8, <1>9 DEF Grown

(* Settling completes at most one row. *)
LEMMA SettledTask ==
    ASSUME NEW task \in Task, NEW id \in Nat
    PROVE  /\ Settled(task, id) \in Task /\ Grown(task, Settled(task, id))
           /\ Settled(task, id).status = task.status
<1> DEFINE r == RowOf(task, id)
           ops == [task.ops EXCEPT ![r] = [task.ops[r] EXCEPT !.status = "completed"]]
<1>1. task.ops \in Seq(Op) /\ DOMAIN task.ops = 1..Len(task.ops) /\ Len(task.ops) \in Nat
  BY DEF Task
<1>2. CASE HasRow(task, id)
  <2>1. Settled(task, id) = [task EXCEPT !.ops = ops]
    BY <1>2 DEF Settled, Task
  <2>2. DOMAIN ops = DOMAIN task.ops
    OBVIOUS
  <2>3. \A i \in DOMAIN task.ops : ops[i] \in Op
    <3> SUFFICES ASSUME NEW i \in DOMAIN task.ops PROVE ops[i] \in Op
      OBVIOUS
    <3>1. task.ops[i] \in Op
      BY <1>1
    <3>2. CASE i = r
      BY <3>1, <3>2 DEF Op, OpStatuses
    <3>3. CASE i # r
      BY <3>1, <3>3
    <3> QED
      BY <3>2, <3>3
  <2>4. \A i \in DOMAIN task.ops : task.ops[i].status = "completed" => ops[i].status = "completed"
    <3> SUFFICES ASSUME NEW i \in DOMAIN task.ops, task.ops[i].status = "completed"
                 PROVE ops[i].status = "completed"
      OBVIOUS
    <3>1. task.ops[i] \in Op
      BY <1>1
    <3>2. CASE i = r
      BY <3>1, <3>2 DEF Op
    <3>3. CASE i # r
      BY <3>3
    <3> QED
      BY <3>2, <3>3
  <2> HIDE DEF ops
  <2>5. ops \in Seq(Op)
    <3>1. ops = [i \in 1..Len(task.ops) |-> ops[i]]
      BY <1>1, <2>2 DEF ops
    <3>2. [i \in 1..Len(task.ops) |-> ops[i]] \in [1..Len(task.ops) -> Op]
      BY <1>1, <2>3
    <3>3. ops \in [1..Len(task.ops) -> Op]
      BY <3>1, <3>2
    <3> QED
      BY <1>1, <3>3, FunctionIsSeq
  <2>6. QED
    BY <1>1, <2>1, <2>2, <2>4, <2>5 DEF Grown, Task
<1>3. CASE ~HasRow(task, id)
  BY <1>3 DEF Settled, Grown
<1> QED
  BY <1>2, <1>3

(* Pausing leaves the rows alone. *)
LEMMA PausedTask ==
    ASSUME NEW task \in Task
    PROVE  /\ Paused(task) \in Task /\ Grown(task, Paused(task))
           /\ Paused(task).ops = task.ops
           /\ Paused(task).status = IF task.status = "running" THEN "paused" ELSE task.status
<1>1. Paused(task) = [task EXCEPT !.status = IF task.status = "running" THEN "paused" ELSE task.status]
  BY DEF Paused, Task
<1>2. (IF task.status = "running" THEN "paused" ELSE task.status) \in TaskStatuses \cup {"none"}
  BY DEF Task, TaskStatuses
<1> QED
  BY <1>1, <1>2 DEF Grown, Task

(* A restart's marking keeps the rows and touches only the running ones. *)
LEMMA UnknownTask ==
    ASSUME NEW task \in Task
    PROVE  /\ InFlightUnknown(task) \in Task /\ Grown(task, InFlightUnknown(task))
           /\ InFlightUnknown(task).status = task.status
           /\ Behind(task, InFlightUnknown(task))
<1> DEFINE mark(op) == IF op.status = "running" THEN [op EXCEPT !.status = "unknown"] ELSE op
           ops == [i \in DOMAIN task.ops |-> mark(task.ops[i])]
<1>1. task.ops \in Seq(Op) /\ DOMAIN task.ops = 1..Len(task.ops) /\ Len(task.ops) \in Nat
  BY DEF Task
<1>2. \A op \in Op : mark(op) \in Op /\ (mark(op).status = "completed" <=> op.status = "completed")
  BY DEF Op, OpStatuses
<1>3. \A i \in DOMAIN task.ops : task.ops[i] \in Op
  BY <1>1
<1>4. InFlightUnknown(task) = [task EXCEPT !.ops = ops]
  BY DEF InFlightUnknown
<1> HIDE DEF mark
<1>5. ops \in [1..Len(task.ops) -> Op]
  BY <1>1, <1>2, <1>3
<1>6. ops \in Seq(Op)
  BY <1>1, <1>5, FunctionIsSeq
<1>7. DOMAIN ops = DOMAIN task.ops
  OBVIOUS
<1>8. \A i \in DOMAIN task.ops : ops[i].status = "completed" <=> task.ops[i].status = "completed"
  BY <1>2, <1>3
<1> HIDE DEF ops
<1>9. InFlightUnknown(task).ops = ops /\ InFlightUnknown(task).status = task.status
  BY <1>4 DEF Task
<1>10. InFlightUnknown(task) \in Task
  BY <1>4, <1>6 DEF Task
<1> QED
  BY <1>7, <1>8, <1>9, <1>10 DEF Grown, Behind

(* research_cancel on a task. *)
LEMMA CancelledTaskKeeps ==
    ASSUME NEW task \in Task
    PROVE  /\ CancelledTask(task) \in Task /\ Grown(task, CancelledTask(task))
           /\ CancelledTask(task).status = "cancelled"
           /\ Behind(task, CancelledTask(task))
<1> DEFINE u == InFlightUnknown(task)
<1>1. u \in Task /\ Grown(task, u) /\ Behind(task, u)
  BY UnknownTask
<1>2. CancelledTask(task) = [u EXCEPT !.status = "cancelled"]
  BY DEF CancelledTask
<1> HIDE DEF u
<1>3. CancelledTask(task) \in Task /\ CancelledTask(task).ops = u.ops
         /\ CancelledTask(task).status = "cancelled"
  BY <1>1, <1>2 DEF Task, TaskStatuses
<1> QED
  BY <1>1, <1>3 DEF Grown, Behind

(* The restart of a task. *)
LEMMA RestartedTaskKeeps ==
    ASSUME NEW task \in Task
    PROVE  /\ RestartedTask(task) \in Task /\ Grown(task, RestartedTask(task))
           /\ RestartedTask(task).status =
                IF task.status = "running" THEN "paused" ELSE task.status
           /\ DOMAIN RestartedTask(task).ops = DOMAIN task.ops
<1> DEFINE u == InFlightUnknown(task)
<1>1. u \in Task /\ Grown(task, u) /\ u.status = task.status /\ Behind(task, u)
  BY UnknownTask
<1>2. RestartedTask(task) = Paused(u)
  BY DEF RestartedTask
<1> HIDE DEF u
<1>3. Paused(u) \in Task /\ Paused(u).ops = u.ops
         /\ Paused(u).status = IF u.status = "running" THEN "paused" ELSE u.status
  BY <1>1, PausedTask
<1> QED
  BY <1>1, <1>2, <1>3 DEF Grown, Behind

(* The merge of persist_completed_tool keeps the durable task's completed  *)
(* rows and takes its status.                                              *)
LEMMA MergedTask ==
    ASSUME NEW task \in Task, NEW durable \in Task, Behind(task, durable),
           loop.lifecycle \/ task = durable
    PROVE  /\ Merged(task, durable) \in Task /\ Grown(durable, Merged(task, durable))
           /\ Merged(task, durable).status = durable.status
<1> DEFINE Lost(i) == /\ task.ops[i].status = "running"
                      /\ RowOf(task, task.ops[i].id) = i
                      /\ \E j \in DOMAIN durable.ops :
                           durable.ops[j] = [task.ops[i] EXCEPT !.status = "unknown"]
           row(i) == IF Lost(i) THEN [task.ops[i] EXCEPT !.status = "unknown"] ELSE task.ops[i]
           ops == [i \in DOMAIN task.ops |-> row(i)]
<1>1. task.ops \in Seq(Op) /\ DOMAIN task.ops = 1..Len(task.ops) /\ Len(task.ops) \in Nat
  BY DEF Task
<1>2. CASE loop.lifecycle \/ durable.status \in {"paused", "cancelled"}
  <2>1. Merged(task, durable) = [status |-> durable.status, ops |-> ops]
    BY <1>2 DEF Merged
  <2>2. \A i \in DOMAIN task.ops : task.ops[i] \in Op
    BY <1>1
  <2> HIDE DEF Lost
  <2>3. \A i \in DOMAIN task.ops : row(i) \in Op
    BY <2>2 DEF Op, OpStatuses
  <2>4. \A i \in DOMAIN task.ops :
          task.ops[i].status = "completed" => row(i).status = "completed"
    BY <2>2 DEF Op, Lost
  <2> HIDE DEF row
  <2>5. ops \in [1..Len(task.ops) -> Op]
    BY <1>1, <2>3
  <2>6. ops \in Seq(Op)
    BY <1>1, <2>5, FunctionIsSeq
  <2>7. DOMAIN ops = DOMAIN task.ops /\ \A i \in DOMAIN task.ops : ops[i] = row(i)
    OBVIOUS
  <2> HIDE DEF ops
  <2>8. Merged(task, durable) \in Task /\ Merged(task, durable).ops = ops
          /\ Merged(task, durable).status = durable.status
    BY <2>1, <2>6 DEF Task
  <2> QED
    BY <2>4, <2>7, <2>8 DEF Grown, Behind
<1>3. CASE ~(loop.lifecycle \/ durable.status \in {"paused", "cancelled"})
  <2>1. Merged(task, durable) = task /\ task = durable
    BY <1>3 DEF Merged
  <2> QED
    BY <2>1 DEF Grown
<1> QED
  BY <1>2, <1>3

-----------------------------------------------------------------------------
(* What each action keeps. *)

(* The records a step starts from or returns to. *)
LEMMA Constants ==
    /\ NoTask \in Task /\ NewTask \in Task /\ NoLoop \in Loop /\ NoControl \in Control
    /\ MaxTurns \in Nat /\ MaxRounds \in Nat /\ MaxCalls \in Nat
    /\ DOMAIN NoTask.ops = {} /\ DOMAIN NewTask.ops = {}
<1>1. <<>> \in Seq(Op) /\ DOMAIN <<>> = {}
  OBVIOUS
<1>2. MaxTurns \in Nat /\ MaxRounds \in Nat /\ MaxCalls \in Nat
  BY LedgerAssumption
<1>3. NoLoop \in Loop /\ NoControl \in Control
  BY <1>2 DEF NoLoop, Loop, Places, NoControl, Control
<1> QED
  BY <1>1, <1>2, <1>3 DEF NoTask, NewTask, Task, TaskStatuses

(* request_cancel leaves controls. *)
LEMMA CancelTyped ==
    ASSUME control \in Control,
           control' = [control EXCEPT !.cancel = ~control.overtaken, !.wake = TRUE]
    PROVE  control' \in Control
<1>1. CASE control.overtaken
  <2>1. control' = [control EXCEPT !.cancel = FALSE, !.wake = TRUE]
    BY <1>1
  <2> QED
    BY <2>1 DEF Control
<1>2. CASE ~control.overtaken
  <2>1. control' = [control EXCEPT !.cancel = TRUE, !.wake = TRUE]
    BY <1>2
  <2> QED
    BY <2>1 DEF Control
<1> QED
  BY <1>1, <1>2

(* The initial state. *)
LEMMA InitInv == Init => Inv
<1> SUFFICES ASSUME Init PROVE Inv
  OBVIOUS
<1>1. DataOK
  <2>1. disk \in [Turns -> Task] /\ mem \in Task
    BY Constants DEF Init
  <2>2. turn \in 0..MaxTurns /\ staged \in 0..MaxTurns
    BY Constants DEF Init
  <2>3. loop \in Loop /\ control \in Control /\ stray \in BOOLEAN
    BY Constants DEF Init
  <2> QED
    BY <2>1, <2>2, <2>3 DEF DataOK
<1>2. Fresh
  BY Constants DEF Init, Fresh, NoTask, NoLoop
<1>3. Copy /\ OwnStop
  BY DEF Init, Copy, OwnStop, NoLoop, NoTask, NoControl, HasLedger
<1> QED
  BY <1>1, <1>2, <1>3 DEF Inv

(* A step that leaves the table and the run alone breaks no promise. *)
LEMMA SameTable ==
    ASSUME DataOK, disk' = disk, run' = run
    PROVE  Promise
<1>1. \A t \in Turns : disk[t] \in Task
  BY DEF DataOK
<1> QED
  BY <1>1 DEF Promise, Grown

(* A step that saves one task. *)
LEMMA OneSaved ==
    ASSUME DataOK, NEW s, NEW task, s \in Turns => task \in Task /\ Grown(disk[s], task),
           disk' = [disk EXCEPT ![s] = task],
           s \in Turns /\ disk[s].status = "cancelled" => task.status = "cancelled",
           s \in Turns /\ disk[s].status = "paused" /\ task.status = "running" =>
             staged' = s \/ (At("plain") /\ control.pause = "model" /\ control'.pause = "no"),
           run' = run
    PROVE  Promise /\ disk' \in [Turns -> Task]
<1>1. \A t \in Turns : disk[t] \in Task
  BY DEF DataOK
<1>2. disk' \in [Turns -> Task]
  BY DEF DataOK
<1>3. \A t \in Turns : disk'[t] = IF t = s THEN task ELSE disk[t]
  BY DEF DataOK
<1>4. \A t \in Turns : Grown(disk[t], disk'[t])
  BY <1>3 DEF Grown
<1>5. \A t \in Turns :
         /\ disk[t].status = "cancelled" => disk'[t].status = "cancelled"
         /\ disk[t].status = "paused" /\ disk'[t].status = "running" =>
              staged' = t \/ (At("plain") /\ control.pause = "model" /\ control'.pause = "no")
  BY <1>3
<1> QED
  BY <1>2, <1>4, <1>5 DEF Promise

(* The steps that touch neither the table, the copy nor the run: they move *)
(* the loop, or change its controls.                                       *)
LEMMA QuietKeeps ==
    ASSUME Inv,
           \/ BeginTurn \/ TakeCheckpoint \/ PrepareFails \/ StopAtTop \/ BeginRound
           \/ ModelEnds \/ ModelCalls \/ Interrupt \/ StopAtCall \/ TakeCall
           \/ SkipCall \/ DenyCall \/ StartPlain \/ EndCalls
           \/ (\E did \in {"failed", "unsure"} : CatalogFails(did))
           \/ (\E did \in {"ok", "failed", "unsure"} : PlainEnds(did))
           \/ UserPauses \/ UserStops \/ OtherTurnBegins
    PROVE  Inv' /\ Promise
<1> USE Constants DEF At, Inv, DataOK, Loop, Control, NoLoop, NoControl, history
<1>0. disk' = disk /\ mem' = mem /\ run' = run /\ turn' = turn
  BY DEF BeginTurn, TakeCheckpoint, PrepareFails, StopAtTop, BeginRound, ModelEnds,
         ModelCalls, Interrupt, StopAtCall, TakeCall, SkipCall, DenyCall, StartPlain,
         EndCalls, CatalogFails, PlainEnds, UserPauses, UserStops, OtherTurnBegins, history
<1>1. Promise
  BY <1>0, SameTable DEF Inv
<1>a. loop.round < MaxRounds => loop.round + 1 \in 0..MaxRounds
  BY DEF Inv, DataOK, Loop
<1>b. loop.pc \in {"taken", "catalog", "plain", "record"} => loop.made + 1 \in 0..MaxCalls
  BY DEF Inv, DataOK, Loop, Fresh
<1>c. loop.total + 1 \in Nat
  BY DEF Inv, DataOK, Loop
<1>2. loop' \in Loop /\ control' \in Control /\ stray' \in BOOLEAN
  <2>1. CASE BeginTurn
    BY <2>1, ZenonT(60) DEF Fresh, Places, BeginTurn
  <2>2. CASE TakeCheckpoint
    BY <2>2 DEF Fresh, Places, TakeCheckpoint
  <2>3. CASE PrepareFails
    BY <2>3 DEF Fresh, Places, PrepareFails
  <2>4. CASE StopAtTop
    BY <2>4, ZenonT(60) DEF Fresh, Places, StopAtTop, Leave
  <2>5. CASE BeginRound
    BY <2>5 DEF Fresh, Places, BeginRound
  <2>6. CASE ModelEnds
    BY <2>6, ZenonT(60) DEF Fresh, Places, ModelEnds, Leave
  <2>7. CASE ModelCalls
    BY <2>7, <1>a, <1>b, <1>c DEF Fresh, Places, ModelCalls
  <2>8. CASE Interrupt
    BY <2>8, ZenonT(60) DEF Fresh, Places, Interrupt, Leave
  <2>9. CASE StopAtCall
    BY <2>9, ZenonT(60) DEF Fresh, Places, StopAtCall, Leave
  <2>10. CASE TakeCall
    BY <2>10 DEF Fresh, Places, TakeCall
  <2>11. CASE SkipCall
    BY <2>11, <1>a, <1>b, <1>c, ZenonT(60) DEF Fresh, Places, SkipCall, NextCall
  <2>12. CASE DenyCall
    BY <2>12, ZenonT(60) DEF Fresh, Places, DenyCall
  <2>13. CASE StartPlain
    BY <2>13 DEF Fresh, Places, StartPlain
  <2>14. CASE EndCalls
    BY <2>14, ZenonT(180) DEF Fresh, Places, EndCalls, Leave
  <2>15. CASE \E did \in {"failed", "unsure"} : CatalogFails(did)
    BY <2>15, <1>a, <1>b, <1>c, ZenonT(180) DEF Fresh, Places, CatalogFails, NextCall
  <2>16. CASE \E did \in {"ok", "failed", "unsure"} : PlainEnds(did)
    <3>1. loop \in Loop /\ control \in Control /\ stray \in BOOLEAN
      OBVIOUS
    <3> HIDE DEF Inv, DataOK
    <3>2. PICK did \in {"ok", "failed", "unsure"} :
            /\ loop' = [loop EXCEPT !.pc = "record", !.did = did]
            /\ control' = control /\ stray' = stray
      BY <2>16 DEF PlainEnds
    <3>3. QED
      BY <3>1, <3>2, ZenonT(60) DEF Places
  <2>17. CASE UserPauses
    BY <2>17 DEF Fresh, Places, UserPauses
  <2>18. CASE UserStops
    BY <2>18, CancelTyped DEF UserStops
  <2>19. CASE OtherTurnBegins
    BY <2>19 DEF Fresh, Places, OtherTurnBegins
  <2> QED
    BY <2>1, <2>2, <2>3, <2>4, <2>5, <2>6, <2>7, <2>8, <2>9, <2>10,
       <2>11, <2>12, <2>13, <2>14, <2>15, <2>16, <2>17, <2>18, <2>19
<1>3. Fresh'
  <2>1. CASE BeginTurn
    BY <2>1 DEF Fresh, BeginTurn
  <2>2. CASE TakeCheckpoint
    BY <2>2 DEF Fresh, TakeCheckpoint
  <2>3. CASE PrepareFails
    BY <2>3 DEF Fresh, PrepareFails
  <2>4. CASE StopAtTop
    BY <2>4 DEF Fresh, StopAtTop, Leave
  <2>5. CASE BeginRound
    BY <2>5 DEF Fresh, BeginRound
  <2>6. CASE ModelEnds
    <3>1. loop'.pc = "settle"
      BY <2>6 DEF ModelEnds, Leave
    <3>2. QED
      BY <1>0, <3>1 DEF Fresh
  <2>7. CASE ModelCalls
    BY <2>7 DEF Fresh, ModelCalls
  <2>8. CASE Interrupt
    BY <2>8 DEF Fresh, Interrupt, Leave
  <2>9. CASE StopAtCall
    BY <2>9 DEF Fresh, StopAtCall, Leave
  <2>10. CASE TakeCall
    BY <2>10 DEF Fresh, TakeCall
  <2>11. CASE SkipCall
    BY <2>11 DEF Fresh, SkipCall, NextCall
  <2>12. CASE DenyCall
    BY <2>12 DEF Fresh, DenyCall
  <2>13. CASE StartPlain
    BY <2>13 DEF Fresh, StartPlain
  <2>14. CASE EndCalls
    BY <2>14, ZenonT(60) DEF Fresh, EndCalls, Leave
  <2>15. CASE \E did \in {"failed", "unsure"} : CatalogFails(did)
    BY <2>15 DEF Fresh, CatalogFails, NextCall
  <2>16. CASE \E did \in {"ok", "failed", "unsure"} : PlainEnds(did)
    BY <2>16 DEF Fresh, PlainEnds
  <2>17. CASE UserPauses
    BY <2>17 DEF Fresh, UserPauses
  <2>18. CASE UserStops
    BY <2>18 DEF Fresh, UserStops
  <2>19. CASE OtherTurnBegins
    BY <2>19 DEF Fresh, OtherTurnBegins
  <2> QED
    BY <2>1, <2>2, <2>3, <2>4, <2>5, <2>6, <2>7, <2>8, <2>9, <2>10,
       <2>11, <2>12, <2>13, <2>14, <2>15, <2>16, <2>17, <2>18, <2>19
<1>4. Copy'
  <2>1. CASE BeginTurn
    BY <2>1 DEF Copy, HasLedger, BeginTurn
  <2>2. CASE TakeCheckpoint
    BY <2>2 DEF Copy, HasLedger, TakeCheckpoint
  <2>3. CASE PrepareFails
    BY <2>3 DEF Copy, HasLedger, PrepareFails
  <2>4. CASE StopAtTop
    BY <2>4 DEF Copy, HasLedger, StopAtTop, Leave
  <2>5. CASE BeginRound
    BY <2>5 DEF Copy, HasLedger, BeginRound
  <2>6. CASE ModelEnds
    BY <2>6, ZenonT(60) DEF Copy, HasLedger, ModelEnds, Leave
  <2>7. CASE ModelCalls
    BY <2>7 DEF Copy, HasLedger, ModelCalls
  <2>8. CASE Interrupt
    BY <2>8 DEF Copy, HasLedger, Interrupt, Leave
  <2>9. CASE StopAtCall
    BY <2>9 DEF Copy, HasLedger, StopAtCall, Leave
  <2>10. CASE TakeCall
    BY <2>10 DEF Copy, HasLedger, TakeCall
  <2>11. CASE SkipCall
    BY <2>11 DEF Copy, HasLedger, SkipCall, NextCall
  <2>12. CASE DenyCall
    BY <2>12 DEF Copy, HasLedger, DenyCall
  <2>13. CASE StartPlain
    BY <2>13 DEF Copy, HasLedger, StartPlain
  <2>14. CASE EndCalls
    BY <2>14, ZenonT(60) DEF Copy, HasLedger, EndCalls, Leave
  <2>15. CASE \E did \in {"failed", "unsure"} : CatalogFails(did)
    BY <2>15 DEF Copy, HasLedger, CatalogFails, NextCall
  <2>16. CASE \E did \in {"ok", "failed", "unsure"} : PlainEnds(did)
    BY <2>16 DEF Copy, HasLedger, PlainEnds
  <2>17. CASE UserPauses
    BY <2>17 DEF Copy, HasLedger, UserPauses
  <2>18. CASE UserStops
    BY <2>18 DEF Copy, HasLedger, UserStops
  <2>19. CASE OtherTurnBegins
    BY <2>19 DEF Copy, HasLedger, OtherTurnBegins
  <2> QED
    BY <2>1, <2>2, <2>3, <2>4, <2>5, <2>6, <2>7, <2>8, <2>9, <2>10,
       <2>11, <2>12, <2>13, <2>14, <2>15, <2>16, <2>17, <2>18, <2>19
<1>5. OwnStop'
  <2>1. CASE BeginTurn
    BY <2>1 DEF OwnStop, HasLedger, BeginTurn
  <2>2. CASE TakeCheckpoint
    BY <2>2 DEF OwnStop, HasLedger, TakeCheckpoint
  <2>3. CASE PrepareFails
    BY <2>3 DEF OwnStop, HasLedger, PrepareFails
  <2>4. CASE StopAtTop
    BY <2>4 DEF OwnStop, HasLedger, StopAtTop, Leave
  <2>5. CASE BeginRound
    BY <2>5 DEF OwnStop, HasLedger, BeginRound
  <2>6. CASE ModelEnds
    BY <2>6 DEF OwnStop, HasLedger, ModelEnds, Leave
  <2>7. CASE ModelCalls
    BY <2>7 DEF OwnStop, HasLedger, ModelCalls
  <2>8. CASE Interrupt
    BY <2>8 DEF OwnStop, HasLedger, Interrupt, Leave
  <2>9. CASE StopAtCall
    BY <2>9 DEF OwnStop, HasLedger, StopAtCall, Leave
  <2>10. CASE TakeCall
    BY <2>10 DEF OwnStop, HasLedger, TakeCall
  <2>11. CASE SkipCall
    BY <2>11 DEF OwnStop, HasLedger, SkipCall, NextCall
  <2>12. CASE DenyCall
    BY <2>12 DEF OwnStop, HasLedger, DenyCall
  <2>13. CASE StartPlain
    BY <2>13 DEF OwnStop, HasLedger, StartPlain
  <2>14. CASE EndCalls
    BY <2>14 DEF OwnStop, HasLedger, EndCalls, Leave
  <2>15. CASE \E did \in {"failed", "unsure"} : CatalogFails(did)
    BY <2>15 DEF OwnStop, HasLedger, CatalogFails, NextCall
  <2>16. CASE \E did \in {"ok", "failed", "unsure"} : PlainEnds(did)
    BY <2>16 DEF OwnStop, HasLedger, PlainEnds
  <2>17. CASE UserPauses
    BY <2>17 DEF OwnStop, HasLedger, UserPauses
  <2>18. CASE UserStops
    BY <2>18 DEF OwnStop, HasLedger, UserStops
  <2>19. CASE OtherTurnBegins
    BY <2>19 DEF OwnStop, HasLedger, OtherTurnBegins
  <2> QED
    BY <2>1, <2>2, <2>3, <2>4, <2>5, <2>6, <2>7, <2>8, <2>9, <2>10,
       <2>11, <2>12, <2>13, <2>14, <2>15, <2>16, <2>17, <2>18, <2>19
<1>6. staged' \in 0..MaxTurns
  <2>1. staged' = staged \/ staged' = 0
    BY DEF BeginTurn, TakeCheckpoint, PrepareFails, StopAtTop, BeginRound, ModelEnds,
           ModelCalls, Interrupt, StopAtCall, TakeCall, SkipCall, DenyCall, StartPlain,
           EndCalls, CatalogFails, PlainEnds, UserPauses, UserStops, OtherTurnBegins, history
  <2> QED
    BY <2>1 DEF Inv, DataOK
<1> QED
  BY <1>0, <1>1, <1>2, <1>3, <1>4, <1>5, <1>6 DEF Inv, DataOK

(* The turn is saved and its task created. *)
LEMMA StartRoundsKeeps ==
    ASSUME Inv, StartRounds
    PROVE  Inv' /\ Promise
<1>0. loop \in Loop /\ ~loop.lifecycle
      /\ loop' = [loop EXCEPT !.pc = "top", !.carried = 0]
  BY DEF StartRounds, Inv, DataOK, Copy, At
<1>1. loop' \in Loop /\ loop'.pc = "top" /\ ~loop'.lifecycle
  <2>1. 0 \in 0..MaxTurns
    BY Constants
  <2> QED
    BY <1>0, <2>1 DEF Loop, Places
<1>2. turn' = turn + 1 /\ turn' \in Turns /\ run' = "live" /\ control' = control
      /\ staged' = staged /\ stray' = FALSE /\ ~control.wake /\ ~control.overtaken
  BY Constants DEF StartRounds, Inv, DataOK, Fresh, OwnStop, Turns, At
<1>3. turn' \in 0..MaxTurns /\ staged' \in 0..MaxTurns /\ control' \in Control
      /\ stray' \in BOOLEAN
  <2>1. turn' \in 0..MaxTurns /\ staged' \in 0..MaxTurns
    BY <1>2, Constants DEF Inv, DataOK, Turns
  <2>2. control' \in Control /\ stray' \in BOOLEAN
    BY <1>2 DEF Inv, DataOK
  <2> QED
    BY <2>1, <2>2
<1>4. disk \in [Turns -> Task] /\ turn \in Nat
      /\ \A t \in Turns : t > turn => disk[t].status = "none" /\ DOMAIN disk[t].ops = {}
  BY Constants DEF Inv, DataOK, Fresh
<1>5. disk[turn'].status = "none" /\ DOMAIN disk[turn'].ops = {}
  BY <1>2, <1>4 DEF Turns
<1>6. CASE mem' = NewTask /\ disk' = [disk EXCEPT ![turn + 1] = NewTask]
  <2>1. disk' \in [Turns -> Task] /\ mem' \in Task /\ disk'[turn'] = NewTask
    BY <1>2, <1>4, <1>6, Constants
  <2>2. \A t \in Turns : t # turn' => disk'[t] = disk[t]
    BY <1>2, <1>4, <1>6
  <2>3. Promise
    BY <1>2, <1>5, <2>1, <2>2, Constants DEF Promise, Grown, NewTask
  <2>4. Fresh'
    BY <1>1, <1>2, <1>4, <2>2, Constants DEF Fresh, Turns
  <2>5. Copy' /\ OwnStop'
    BY <1>1, <1>2, <1>6, <2>1 DEF Copy, OwnStop, HasLedger, NewTask
  <2> QED
    BY <1>1, <1>3, <2>1, <2>3, <2>4, <2>5 DEF Inv, DataOK
<1>7. CASE mem' = NoTask /\ disk' = disk
  <2>1. Promise
    BY <1>2, <1>7 DEF Promise, Grown
  <2>2. Fresh'
    BY <1>1, <1>2, <1>4, <1>7 DEF Fresh, Turns
  <2>3. Copy' /\ OwnStop'
    BY <1>1, <1>2, <1>7 DEF Copy, OwnStop, HasLedger, NoTask
  <2> QED
    BY <1>1, <1>3, <1>4, <1>7, <2>1, <2>2, <2>3, Constants DEF Inv, DataOK
<1> QED
  BY <1>6, <1>7 DEF StartRounds

(* A step at which the loop saves its copy: the table gets it, grown from  *)
(* what it held and with a status entitled to it.                          *)
LEMMA CopySaved ==
    ASSUME Inv, HasLedger, NEW task \in Task, Grown(disk[turn], task),
           task.status = disk[turn].status
             \/ (disk[turn].status = "running" /\ task.status = "paused"),
           mem' = task, disk' = [disk EXCEPT ![turn] = task],
           loop' \in Loop, ~loop'.lifecycle,
           loop'.pc \notin {"idle", "prepare", "context"},
           loop'.pc \in {"taken", "catalog", "plain", "record"} => loop'.made < MaxCalls,
           ~stray /\ loop'.pc = "settle"
             /\ loop'.result \notin {"done", "cancelled", "error"} =>
               control.cancel \/ task.status = "paused",
           UNCHANGED <<staged, run, turn, control, stray>>
    PROVE  Inv' /\ Promise
<1>1. turn \in Turns /\ disk[turn].status # "none"
      /\ loop.pc \notin {"idle", "prepare", "context"}
  BY DEF Inv, Copy
<1>2. Promise /\ disk' \in [Turns -> Task]
  BY OneSaved DEF Inv
<1>3. disk'[turn] = task /\ \A t \in Turns \ {turn} : disk'[t] = disk[t]
  BY <1>1 DEF Inv, DataOK
<1>4. DataOK'
  BY <1>2 DEF Inv, DataOK
<1>5. Fresh'
  BY <1>1, <1>3, Constants DEF Inv, DataOK, Fresh, Turns
<1>6. Copy'
  BY <1>1, <1>3 DEF Copy, HasLedger
<1>7. OwnStop'
  BY <1>1, <1>3 DEF Inv, OwnStop, HasLedger
<1> QED
  BY <1>2, <1>4, <1>5, <1>6, <1>7 DEF Inv

(* A pause at the top of a round. *)
LEMMA PauseAtTopKeeps ==
    ASSUME Inv, PauseAtTop
    PROVE  Inv' /\ Promise
<1>1. loop' \in Loop /\ loop'.pc = "settle" /\ loop'.result = "stopped" /\ ~loop'.lifecycle
      /\ UNCHANGED <<staged, run, turn, control, stray>>
  BY DEF PauseAtTop, Leave, At, history, Inv, DataOK, Copy, Loop, Places
<1>2. HasLedger => mem = disk[turn] /\ mem \in Task
  BY DEF PauseAtTop, At, Inv, DataOK, Copy
<1>3. CASE mem.status = "running"
  <2>1. Paused(mem) \in Task /\ Grown(mem, Paused(mem)) /\ Paused(mem).status = "paused"
    BY <1>2, <1>3, PausedTask DEF HasLedger
  <2>2. HasLedger /\ mem' = Paused(mem) /\ disk' = [disk EXCEPT ![turn] = Paused(mem)]
    BY <1>3 DEF PauseAtTop, HasLedger
  <2> QED
    BY <1>1, <1>2, <1>3, <2>1, <2>2, CopySaved
<1>4. CASE mem.status # "running"
  <2>1. mem' = mem /\ disk' = disk
    BY <1>4 DEF PauseAtTop
  <2>2. Promise
    BY <1>1, <2>1, SameTable DEF Inv
  <2>3. HasLedger => disk[turn].status \in {"paused", "cancelled"}
    BY <1>2, <1>4 DEF HasLedger, Task, TaskStatuses
  <2>4. DataOK' /\ Fresh' /\ Copy'
    BY <1>1, <2>1 DEF Inv, DataOK, Fresh, Copy, HasLedger, PauseAtTop, At
  <2>5. OwnStop'
    BY <1>1, <2>1, <2>3 DEF Inv, OwnStop, HasLedger, PauseAtTop, At
  <2> QED
    BY <2>2, <2>4, <2>5 DEF Inv
<1> QED
  BY <1>3, <1>4

(* A pause before a call: the call is opened and the task paused. *)
LEMMA PauseAtCallKeeps ==
    ASSUME Inv, PauseAtCall
    PROVE  Inv' /\ Promise
<1>1. loop' \in Loop /\ loop'.pc = "settle" /\ loop'.result = "stopped" /\ ~loop'.lifecycle
      /\ UNCHANGED <<staged, run, turn, control, stray>>
  BY DEF PauseAtCall, Leave, At, history, Inv, DataOK, Copy, Loop, Places
<1>2. CASE HasLedger
  <2> DEFINE opened == Opened(mem, CallId)
             task == Paused(opened)
  <2>1. mem = disk[turn] /\ mem \in Task /\ CallId \in Nat
    BY <1>2 DEF PauseAtCall, At, Inv, DataOK, Copy, CallId, Loop
  <2>2. opened \in Task /\ Grown(mem, opened) /\ opened.status = mem.status
    BY <2>1, OpenedTask
  <2> HIDE DEF opened
  <2>3. task \in Task /\ Grown(opened, task)
        /\ task.status = IF opened.status = "running" THEN "paused" ELSE opened.status
    BY <2>2, PausedTask
  <2>4. mem' = task /\ disk' = [disk EXCEPT ![turn] = task]
    BY <1>2 DEF PauseAtCall, opened
  <2> HIDE DEF task
  <2>5. Grown(mem, task)
    BY <2>2, <2>3 DEF Grown
  <2>6. task.status \in {"paused", "cancelled"}
    BY <1>2, <2>1, <2>2, <2>3 DEF Task, TaskStatuses, HasLedger
  <2>7. ~stray /\ task.status = "cancelled" => control.cancel
    BY <1>2, <2>1, <2>2, <2>3 DEF Inv, OwnStop, PauseAtCall, At
  <2>8. task.status = disk[turn].status
          \/ (disk[turn].status = "running" /\ task.status = "paused")
    BY <2>1, <2>2, <2>3
  <2>9. ~stray => control.cancel \/ task.status = "paused"
    BY <2>6, <2>7
  <2>10. Grown(disk[turn], task)
    BY <2>1, <2>5
  <2> QED
    BY <1>1, <1>2, <2>3, <2>4, <2>8, <2>9, <2>10, CopySaved
<1>3. CASE ~HasLedger
  <2>1. mem' = mem /\ disk' = disk
    BY <1>3 DEF PauseAtCall
  <2>2. Promise
    BY <1>1, <2>1, SameTable DEF Inv
  <2>3. DataOK' /\ Fresh' /\ Copy' /\ OwnStop'
    BY <1>1, <1>3, <2>1 DEF Inv, DataOK, Fresh, Copy, OwnStop, HasLedger, PauseAtCall, At
  <2> QED
    BY <2>2, <2>3 DEF Inv
<1> QED
  BY <1>2, <1>3

(* A step of the loop that leaves the table, the copy and the controls as  *)
(* they are and ends neither the turn nor a lifecycle call.                *)
LEMMA LoopMoves ==
    ASSUME Inv, UNCHANGED <<disk, mem, staged, run, turn, control, stray>>,
           loop.pc \notin {"idle", "prepare", "context"}, ~HasLedger \/ ~loop.lifecycle,
           loop' \in Loop, loop'.pc \in {"calls", "catalog"}, ~loop'.lifecycle,
           loop'.pc = "catalog" => loop'.made < MaxCalls
    PROVE  Inv' /\ Promise
<1>1. Promise
  BY SameTable DEF Inv
<1>2. DataOK' /\ Fresh' /\ Copy' /\ OwnStop'
  BY DEF Inv, DataOK, Fresh, Copy, OwnStop, HasLedger
<1> QED
  BY <1>1, <1>2 DEF Inv

(* begin_catalog_op opens a row. *)
LEMMA StartCatalogKeeps ==
    ASSUME Inv, StartCatalog
    PROVE  Inv' /\ Promise
<1>1. loop' \in Loop /\ loop'.pc = "catalog" /\ ~loop'.lifecycle /\ ~loop.lifecycle
      /\ loop'.made < MaxCalls /\ loop.pc = "taken"
      /\ UNCHANGED <<staged, run, turn, control, stray>>
  BY DEF StartCatalog, At, Inv, DataOK, Fresh, Copy, Loop, Places
<1>2. CASE HasLedger /\ ~HasRow(mem, CallId)
  <2>1. mem = disk[turn] /\ mem \in Task /\ CallId \in Nat
    BY <1>1, <1>2 DEF Inv, DataOK, Copy, CallId, Loop
  <2>2. Opened(mem, CallId) \in Task /\ Grown(mem, Opened(mem, CallId))
        /\ Opened(mem, CallId).status = mem.status
    BY <2>1, OpenedTask
  <2>3. mem' = Opened(mem, CallId) /\ disk' = [disk EXCEPT ![turn] = Opened(mem, CallId)]
    BY <1>2 DEF StartCatalog
  <2> QED
    BY <1>1, <1>2, <2>1, <2>2, <2>3, CopySaved
<1>3. CASE ~HasLedger \/ HasRow(mem, CallId)
  <2>1. UNCHANGED <<disk, mem>>
    BY <1>3 DEF StartCatalog
  <2> QED
    BY <1>1, <2>1, LoopMoves
<1> QED
  BY <1>2, <1>3

(* The end of a call. *)
LEMMA NextCallTyped ==
    ASSUME Inv, loop.pc \in {"taken", "catalog", "plain", "record"}, NextCall
    PROVE  loop' \in Loop /\ loop'.pc = "calls" /\ ~loop'.lifecycle
<1>1. loop.made + 1 \in 0..MaxCalls /\ loop.total + 1 \in Nat
  BY Constants DEF Inv, DataOK, Fresh, Loop
<1> QED
  BY <1>1 DEF NextCall, Inv, DataOK, Loop, Places

(* settle_catalog_op, and the copy read again. *)
LEMMA CatalogSucceedsKeeps ==
    ASSUME Inv, CatalogSucceeds
    PROVE  Inv' /\ Promise
<1>1. loop' \in Loop /\ loop'.pc = "calls" /\ ~loop'.lifecycle /\ ~loop.lifecycle
      /\ loop.pc = "catalog" /\ UNCHANGED <<staged, run, turn, control, stray>>
  BY NextCallTyped DEF CatalogSucceeds, At, Inv, Copy
<1>2. CASE HasLedger
  <2> DEFINE task == Settled(disk[turn], CallId)
  <2>1. turn \in Turns /\ disk[turn] \in Task /\ CallId \in Nat
    BY <1>1, <1>2 DEF Inv, DataOK, Copy, CallId, Loop
  <2>2. task \in Task /\ Grown(disk[turn], task) /\ task.status = disk[turn].status
    BY <2>1, SettledTask
  <2>3. disk' = [disk EXCEPT ![turn] = task] /\ mem' = disk'[turn]
    BY <1>2 DEF CatalogSucceeds
  <2> HIDE DEF task
  <2>4. mem' = task
    BY <2>1, <2>3 DEF Inv, DataOK
  <2> QED
    BY <1>1, <1>2, <2>2, <2>3, <2>4, CopySaved
<1>3. CASE ~HasLedger
  <2>1. UNCHANGED <<disk, mem>>
    BY <1>3 DEF CatalogSucceeds
  <2> QED
    BY <1>1, <1>3, <2>1, LoopMoves
<1> QED
  BY <1>2, <1>3

(* persist_completed_tool. *)
LEMMA RecordKeeps ==
    ASSUME Inv, Record
    PROVE  Inv' /\ Promise
<1>1. loop' \in Loop /\ loop'.pc = "calls" /\ ~loop'.lifecycle /\ loop.pc = "record"
      /\ UNCHANGED <<staged, run, turn, control, stray>>
  BY NextCallTyped DEF Record, At
<1>2. CASE HasLedger
  <2> DEFINE merged == Merged(mem, disk[turn])
             task == Checkpointed(merged)
  <2>1. disk[turn] \in Task /\ mem \in Task /\ Behind(mem, disk[turn])
        /\ (loop.lifecycle \/ mem = disk[turn])
    BY <1>2 DEF Inv, DataOK, Copy, Behind
  <2>2. merged \in Task /\ Grown(disk[turn], merged) /\ merged.status = disk[turn].status
    BY <2>1, MergedTask
  <2> HIDE DEF merged
  <2>3. task \in Task /\ Grown(merged, task) /\ task.status = merged.status
    BY <2>2, CheckpointedTask
  <2>4. mem' = task /\ disk' = [disk EXCEPT ![turn] = task]
    BY <1>2 DEF Record, merged
  <2> HIDE DEF task
  <2>5. Grown(disk[turn], task)
    BY <2>2, <2>3 DEF Grown
  <2> QED
    BY <1>1, <1>2, <2>2, <2>3, <2>4, <2>5, CopySaved
<1>3. CASE ~HasLedger
  <2>1. UNCHANGED <<disk, mem>>
    BY <1>3 DEF Record
  <2> QED
    BY <1>1, <1>3, <2>1, LoopMoves
<1> QED
  BY <1>2, <1>3

(* A lifecycle tool changes at most the conversation's latest task, which  *)
(* may be this turn's: its copy falls behind, by status and unknowns only. *)
LEMMA SteeredKeeps ==
    ASSUME Inv, At("plain"), LifecycleEnds, control' \in Control,
           disk' \in [Turns -> Task],
           \A t \in Turns : Behind(disk[t], disk'[t]),
           \A t \in Turns : disk[t].status = "none" <=> disk'[t].status = "none",
           control'.overtaken = control.overtaken, control.wake => control'.wake,
           ~control.overtaken /\ control.cancel => control'.cancel,
           control'.wake => control.wake \/ control'.cancel \/ control.overtaken,
           control.cancel \/ control'.cancel \/ control.overtaken
             \/ \A t \in Turns : disk'[t].status = "cancelled" => disk[t].status = "cancelled"
    PROVE  Inv'
<1>1. mem' = mem /\ turn' = turn /\ staged' = staged /\ stray' = stray
      /\ loop' \in Loop /\ loop'.pc = "record" /\ loop'.lifecycle /\ loop'.made = loop.made
  BY DEF LifecycleEnds, history, Inv, DataOK, Loop, Places
<1>2. DataOK'
  BY <1>1 DEF Inv, DataOK
<1>3. Fresh'
  BY <1>1 DEF Inv, Fresh, Behind, At
<1>4. Copy'
  BY <1>1 DEF Inv, Copy, HasLedger, At
<1>5. OwnStop'
  BY <1>1 DEF Inv, Copy, OwnStop, HasLedger, At
<1> QED
  BY <1>2, <1>3, <1>4, <1>5 DEF Inv

(* A step that leaves the table alone or rewrites the entry of h. *)
LEMMA SteerWrites ==
    ASSUME Inv, NEW h, NEW task,
           disk' = disk \/ disk' = [disk EXCEPT ![h] = task],
           disk' # disk /\ h \in Turns =>
             task \in Task /\ Behind(disk[h], task) /\ Grown(disk[h], task)
    PROVE  /\ disk' \in [Turns -> Task]
           /\ \A t \in Turns : Behind(disk[t], disk'[t]) /\ Grown(disk[t], disk'[t])
           /\ \A t \in Turns : disk'[t] = disk[t] \/ (t = h /\ disk' # disk /\ disk'[t] = task)
<1>1. disk \in [Turns -> Task] /\ \A t \in Turns : disk[t] \in Task
  BY DEF Inv, DataOK
<1>2. \A t \in Turns : Behind(disk[t], disk[t]) /\ Grown(disk[t], disk[t])
  BY DEF Behind, Grown
<1>3. CASE disk' = disk
  BY <1>1, <1>2, <1>3
<1>4. CASE disk' # disk
  BY <1>1, <1>2, <1>4
<1> QED
  BY <1>3, <1>4

(* research_pause, research_resume and research_cancel. *)
LEMMA ModelPauseKeeps ==
    ASSUME Inv, ModelPause
    PROVE  Inv' /\ Promise
<1>1. control' \in Control /\ control'.overtaken = control.overtaken
      /\ control'.wake = control.wake /\ control'.cancel = control.cancel
  BY DEF ModelPause, Inv, DataOK, Control
<1>2. \A task \in Task : task.status \in {"running"} =>
        Paused(task) \in Task /\ Behind(task, Paused(task)) /\ Grown(task, Paused(task))
        /\ Paused(task).status = "paused"
  BY PausedTask DEF Behind
<1>3. /\ disk' \in [Turns -> Task]
      /\ \A t \in Turns : Behind(disk[t], disk'[t]) /\ Grown(disk[t], disk'[t])
      /\ \A t \in Turns : disk'[t] = disk[t]
           \/ (disk[t].status \in {"running"} /\ disk'[t] = Paused(disk[t]))
  <2> DEFINE h == Head(recency)
  <2>1. disk' # disk => disk[h].status \in {"running"}
    BY DEF ModelPause, Steer, Latest
  <2>2. disk' = disk \/ disk' = [disk EXCEPT ![h] = Paused(disk[h])]
    BY DEF ModelPause, Steer, Latest
  <2>3. h \in Turns => disk[h] \in Task
    BY DEF Inv, DataOK
  <2> HIDE DEF h
  <2> QED
    BY <1>2, <2>1, <2>2, <2>3, SteerWrites
<1>4. \A t \in Turns : disk'[t].status = disk[t].status
         \/ (disk[t].status = "running" /\ disk'[t].status = "paused")
  BY <1>2, <1>3 DEF Inv, DataOK
<1>5. Promise
  BY <1>3, <1>4 DEF Promise, ModelPause, LifecycleEnds
<1>6. Inv'
  BY <1>1, <1>3, <1>4, SteeredKeeps DEF ModelPause
<1> QED
  BY <1>5, <1>6

LEMMA ModelResumeKeeps ==
    ASSUME Inv, ModelResume
    PROVE  Inv' /\ Promise
<1>1. control' \in Control /\ control'.overtaken = control.overtaken
      /\ control'.wake = control.wake /\ control'.cancel = control.cancel
  BY DEF ModelResume, Inv, DataOK, Control
<1>2. \A task \in Task : task.status \in {"paused"} =>
        Resumed(task) \in Task /\ Behind(task, Resumed(task)) /\ Grown(task, Resumed(task))
        /\ Resumed(task).status = "running"
  BY DEF Resumed, Behind, Grown, Task, TaskStatuses
<1>3. CASE control.pause = "model"
  <2>1. /\ disk' \in [Turns -> Task]
        /\ \A t \in Turns : Behind(disk[t], disk'[t]) /\ Grown(disk[t], disk'[t])
        /\ \A t \in Turns : disk'[t] = disk[t]
             \/ (disk[t].status \in {"paused"} /\ disk'[t] = Resumed(disk[t]))
    <3> DEFINE h == Head(recency)
    <3>1. disk' # disk => disk[h].status \in {"paused"}
      BY <1>3 DEF ModelResume, Steer, Latest
    <3>2. disk' = disk \/ disk' = [disk EXCEPT ![h] = Resumed(disk[h])]
      BY <1>3 DEF ModelResume, Steer, Latest
    <3>3. h \in Turns => disk[h] \in Task
      BY DEF Inv, DataOK
    <3> HIDE DEF h
    <3> QED
      BY <1>2, <3>1, <3>2, <3>3, SteerWrites
  <2>2. \A t \in Turns : disk'[t].status = disk[t].status
           \/ (disk[t].status = "paused" /\ disk'[t].status = "running")
    BY <1>2, <2>1 DEF Inv, DataOK
  <2>3. control'.pause = "no"
    BY <1>3 DEF ModelResume, Inv, DataOK, Control
  <2>4. Promise
    BY <1>3, <2>1, <2>2, <2>3 DEF Promise, ModelResume, LifecycleEnds
  <2>5. Inv'
    BY <1>1, <2>1, <2>2, SteeredKeeps DEF ModelResume
  <2> QED
    BY <2>4, <2>5
<1>4. CASE control.pause # "model"
  <2>1. disk' = disk /\ control' = control /\ run' = run
    BY <1>4 DEF ModelResume, LifecycleEnds
  <2>2. \A t \in Turns : Behind(disk[t], disk'[t])
    BY <2>1 DEF Behind
  <2>3. Inv'
    BY <1>1, <2>1, <2>2, SteeredKeeps DEF ModelResume, Inv, DataOK
  <2> QED
    BY <2>1, <2>3, SameTable DEF Inv
<1> QED
  BY <1>3, <1>4

LEMMA ModelCancelKeeps ==
    ASSUME Inv, ModelCancel
    PROVE  Inv' /\ Promise
<1>1. control' \in Control
  BY CancelTyped DEF ModelCancel, Inv, DataOK
<1>2. control'.overtaken = control.overtaken /\ control'.wake
      /\ (control'.cancel <=> ~control.overtaken)
  BY DEF ModelCancel, Inv, DataOK, Control
<1>3. \A task \in Task : task.status \in {"running", "paused"} =>
        CancelledTask(task) \in Task /\ Behind(task, CancelledTask(task))
        /\ Grown(task, CancelledTask(task)) /\ CancelledTask(task).status = "cancelled"
  BY CancelledTaskKeeps
<1>4. /\ disk' \in [Turns -> Task]
      /\ \A t \in Turns : Behind(disk[t], disk'[t]) /\ Grown(disk[t], disk'[t])
      /\ \A t \in Turns : disk'[t] = disk[t]
           \/ (disk[t].status \in {"running", "paused"} /\ disk'[t] = CancelledTask(disk[t]))
  <2> DEFINE h == Head(recency)
  <2>1. disk' # disk => disk[h].status \in {"running", "paused"}
    BY DEF ModelCancel, Steer, Latest
  <2>2. disk' = disk \/ disk' = [disk EXCEPT ![h] = CancelledTask(disk[h])]
    BY DEF ModelCancel, Steer, Latest
  <2>3. h \in Turns => disk[h] \in Task
    BY DEF Inv, DataOK
  <2> HIDE DEF h
  <2> QED
    BY <1>3, <2>1, <2>2, <2>3, SteerWrites
<1>5. \A t \in Turns : disk'[t].status = disk[t].status
         \/ (disk[t].status \in {"running", "paused"} /\ disk'[t].status = "cancelled")
  BY <1>3, <1>4 DEF Inv, DataOK
<1>6. Promise
  BY <1>4, <1>5 DEF Promise, ModelCancel, LifecycleEnds
<1>7. Inv'
  BY <1>1, <1>2, <1>4, <1>5, SteeredKeeps DEF ModelCancel
<1> QED
  BY <1>6, <1>7

(* The run's final status. *)
LEMMA SettleKeeps ==
    ASSUME Inv, Settle
    PROVE  Inv' /\ Promise
<1>1. loop.pc = "settle" /\ disk' = disk /\ turn' = turn /\ staged' = staged
      /\ control' = control /\ stray' = stray /\ loop' = NoLoop /\ mem' = NoTask
  BY DEF Settle, At, history
<1>2. DataOK'
  BY <1>1, Constants DEF Inv, DataOK
<1>3. Fresh' /\ Copy' /\ OwnStop'
  BY <1>1 DEF Inv, Fresh, Copy, OwnStop, HasLedger, NoLoop, NoTask
<1>4. run' = "paused" => /\ loop.result \notin {"done", "cancelled", "error"}
                         /\ ~control.cancel
  BY DEF Settle
<1>5. run' = "paused" /\ HasLedger /\ ~stray => disk[turn].status = "paused"
  BY <1>1, <1>4 DEF Inv, OwnStop
<1>6. Promise
  BY <1>1, <1>5 DEF Promise, Grown
<1> QED
  BY <1>2, <1>3, <1>6 DEF Inv

(* The user's Resume. *)
LEMMA ResumeKeeps ==
    ASSUME Inv, Resume
    PROVE  Inv' /\ Promise
<1>1. PICK t \in Turns : disk[t].status = "paused" /\ staged' = t
                         /\ disk' = [disk EXCEPT ![t] = Resumed(disk[t])]
  BY DEF Resume
<1>2. loop.pc = "idle" /\ control' = NoControl
      /\ UNCHANGED <<run, turn, mem, loop, stray>>
  BY DEF Resume, At, history
<1>3. disk[t] \in Task /\ Resumed(disk[t]) \in Task /\ Grown(disk[t], Resumed(disk[t]))
      /\ Resumed(disk[t]).ops = disk[t].ops /\ Resumed(disk[t]).status = "running"
  BY <1>1 DEF Inv, DataOK, Resumed, Grown, Task, TaskStatuses
<1>4. Promise /\ disk' \in [Turns -> Task]
  BY <1>1, <1>2, <1>3, OneSaved DEF Inv
<1>5. disk'[t] = Resumed(disk[t]) /\ \A u \in Turns : u # t => disk'[u] = disk[u]
  BY <1>1 DEF Inv, DataOK
<1>6. staged' \in 0..MaxTurns
  BY <1>1, Constants DEF Turns
<1>7. DataOK'
  BY <1>2, <1>4, <1>6, Constants DEF Inv, DataOK
<1>8. Fresh'
  BY <1>1, <1>2, <1>3, <1>5 DEF Inv, Fresh
<1>9. Copy' /\ OwnStop'
  BY <1>2 DEF Inv, Copy, OwnStop, HasLedger, NoControl
<1> QED
  BY <1>4, <1>7, <1>8, <1>9 DEF Inv

(* The recovery of a restart, for any limit on the tasks it lists. *)
LEMMA RestartKeeps ==
    ASSUME Inv, Restart
    PROVE  Inv' /\ Promise
<1>1. PICK saved : disk' = [t \in Turns |-> IF t \in saved THEN RestartedTask(disk[t])
                                            ELSE disk[t]]
  BY DEF Restart
<1>2. (run' = run \/ run' = "cancelled") /\ loop' = NoLoop /\ mem' = NoTask
      /\ control' = NoControl /\ UNCHANGED <<staged, turn, stray>>
  BY DEF Restart
<1>3. \A t \in Turns : disk[t] \in Task
  BY DEF Inv, DataOK
<1>4. \A t \in Turns :
         /\ RestartedTask(disk[t]) \in Task /\ Grown(disk[t], RestartedTask(disk[t]))
         /\ RestartedTask(disk[t]).status =
              IF disk[t].status = "running" THEN "paused" ELSE disk[t].status
         /\ DOMAIN RestartedTask(disk[t]).ops = DOMAIN disk[t].ops
  BY <1>3, RestartedTaskKeeps
<1>5. \A t \in Turns :
         /\ disk'[t] \in Task /\ Grown(disk[t], disk'[t])
         /\ disk'[t].status = disk[t].status
              \/ (disk[t].status = "running" /\ disk'[t].status = "paused")
         /\ DOMAIN disk'[t].ops = DOMAIN disk[t].ops
  <2> SUFFICES ASSUME NEW t \in Turns
               PROVE  /\ disk'[t] \in Task /\ Grown(disk[t], disk'[t])
                      /\ disk'[t].status = disk[t].status
                           \/ (disk[t].status = "running" /\ disk'[t].status = "paused")
                      /\ DOMAIN disk'[t].ops = DOMAIN disk[t].ops
    OBVIOUS
  <2>1. CASE t \in saved
    <3>1. disk'[t] = RestartedTask(disk[t])
      BY <1>1, <2>1
    <3> QED
      BY <1>4, <3>1
  <2>2. CASE t \notin saved
    <3>1. disk'[t] = disk[t]
      BY <1>1, <2>2
    <3> QED
      BY <1>3, <3>1 DEF Grown
  <2> QED
    BY <2>1, <2>2
<1>6. disk' \in [Turns -> Task]
  BY <1>1, <1>5
<1>7. Promise
  BY <1>2, <1>5 DEF Promise
<1>8. DataOK'
  BY <1>2, <1>6, Constants DEF Inv, DataOK
<1>9. Fresh' /\ Copy' /\ OwnStop'
  BY <1>2, <1>5 DEF Inv, Fresh, Copy, OwnStop, HasLedger, NoLoop, NoTask, NoControl
<1> QED
  BY <1>7, <1>8, <1>9 DEF Inv

-----------------------------------------------------------------------------
(* Inv is inductive, and no step breaks a promise. *)
LEMMA NextKeeps ==
    ASSUME Inv, [Next]_vars
    PROVE  Inv' /\ Promise
<1>1. CASE TurnStep
  BY <1>1, QuietKeeps, StartRoundsKeeps, PauseAtTopKeeps, SettleKeeps, PauseAtCallKeeps,
     StartCatalogKeeps, CatalogSucceedsKeeps, ModelPauseKeeps, ModelResumeKeeps,
     ModelCancelKeeps, RecordKeeps DEF TurnStep
<1>2. CASE Environment
  BY <1>2, QuietKeeps, ResumeKeeps, RestartKeeps DEF Environment
<1>3. CASE UNCHANGED vars
  <2>1. Promise
    BY <1>3, SameTable DEF Inv, vars
  <2>2. Inv'
    BY <1>3 DEF vars, history, Inv, DataOK, Fresh, Copy, OwnStop, HasLedger
  <2> QED
    BY <2>1, <2>2
<1> QED
  BY <1>1, <1>2, <1>3 DEF Next

LEMMA Invariance == Spec => []Inv
<1>1. Inv /\ [Next]_vars => Inv'
  BY NextKeeps
<1> QED
  BY InitInv, <1>1, PTL DEF Spec

(* Every step keeps the promise. *)
LEMMA Kept == Spec => [][Promise]_vars
<1>1. Inv /\ [Next]_vars => [Promise]_vars
  BY NextKeeps
<1> QED
  BY Invariance, <1>1, PTL DEF Spec

(* No save of an older copy takes back a completed operation, and none     *)
(* drops a row (store.rs::save_research_task over chat.rs's own copy).     *)
THEOREM CompletedWorkStays == Spec => CompletedStays
<1>1. Promise => \A t \in Turns : \A i \in DOMAIN disk[t].ops :
         /\ i \in DOMAIN disk'[t].ops
         /\ disk[t].ops[i].status = "completed" => disk'[t].ops[i].status = "completed"
  BY DEF Promise, Grown
<1> QED
  BY Kept, <1>1, PTL DEF CompletedStays

(* A cancelled task stays cancelled, and a paused one runs again only by   *)
(* the user's Resume or by the model taking back a pause of its own.       *)
THEOREM LifecycleCommandsStand == Spec => LifecycleStands
<1>1. Promise => \A t \in Turns :
         /\ disk[t].status = "cancelled" => disk'[t].status = "cancelled"
         /\ disk[t].status = "paused" /\ disk'[t].status = "running" =>
              staged' = t \/ (At("plain") /\ control.pause = "model" /\ control'.pause = "no")
  BY DEF Promise
<1> QED
  BY Kept, <1>1, PTL DEF LifecycleStands

(* When no other conversation's turn intervenes, a run that settles as     *)
(* paused left its task paused in the table.                               *)
THEOREM PausedHasCheckpoint == Spec => PausedRunIsCheckpointed
<1>1. Promise =>
        (run # "paused" /\ run' = "paused" /\ HasLedger /\ ~stray =>
           disk[turn].status = "paused")
  BY DEF Promise
<1> QED
  BY Kept, <1>1, PTL DEF PausedRunIsCheckpointed

=============================================================================
