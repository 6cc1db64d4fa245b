----------------------------- MODULE Subagents -----------------------------
(* Sub-agents of one turn (subagents.rs, the orchestration tools of         *)
(* harness.rs, the shared budget of continuation.rs).  A child is either    *)
(* inline, a future inside the tool call of its host, or background, a task *)
(* of its own that outlives the turn.  Hosts are the turn and its children. *)
(* A future is dropped, wherever it stands, when the call around it is      *)
(* interrupted or times out; a task is not.                                 *)
EXTENDS Naturals, FiniteSets

CONSTANTS
    Children,       \* identifiers of child runs, never used twice
    Turn,           \* the run of the turn
    MaxDepth,       \* subagents.max_depth
    MaxRounds,      \* rounds of a child
    MaxCalls,       \* bound: calls of a response
    MaxStages,      \* children of a sequential workflow or a Ralph loop
    MaxSearches,    \* max_searches of the turn's budget
    MaxBackground,  \* bound: background children
    MaxTurns        \* bound: turns

ASSUME SubagentsAssumption ==
    /\ Turn \notin Children
    /\ {MaxDepth, MaxRounds, MaxCalls, MaxStages, MaxSearches, MaxBackground,
      MaxTurns} \subseteq Nat

VARIABLES
    turn,           \* the turn: where it is, the children its call waits for, stages left
    kid,            \* each child: place, kind, host, round, calls left, outcome, and as history
                    \*   the calls it began after it was interrupted
    row,            \* subagent_runs.status
    run,            \* runs.status
    live,           \* the registry's flags: children that can be reached
    stop,           \* interrupt flag and cancel watch of a child
    registered,     \* runs bound to the turn's budget and its set of blocked calls
    used,           \* searches charged to the budget
    blocked,        \* the call is in the turn's set of blocked signatures
    cancel,         \* the app-wide cancel watch
    woken,          \* the turn has not seen the watch's last change
    issued,         \* history: searches sent in this turn
    uncertain       \* history: a search of this turn had an uncertain outcome

registry == <<live, stop>>
budget == <<registered, used, blocked>>
watch == <<cancel, woken>>
history == <<issued, uncertain>>
vars == <<turn, kid, row, run, registry, budget, watch, history>>

Hosts == Children \cup {Turn}
Unused == {c \in Children : kid[c].at = "unused"}
Lives(c) == kid[c].at \notin {"unused", "gone"}
Inline(c) == kid[c].kind = "inline"
Background == {c \in Children : ~Inline(c)}
At(c, place) == kid[c].at = place

(* A slip: the app-wide cancel reaches background children too. *)
IsSetByAny(c) == stop[c] \/ cancel

(* ChildCancel::is_set: its own interrupt and, inline, the app-wide one. *)
IsSet(c) == stop[c] \/ (Inline(c) /\ cancel)

(* The live futures inside the calls of a host: whoever such a call waits  *)
(* for, and whoever a call of theirs waits for.                             *)
Holds(S, h) == \A c \in Children : Lives(c) /\ Inline(c) /\ kid[c].host \in S \cup {h} => c \in S
Below(h) == {c \in Children : \A S \in SUBSET Children : Holds(S, h) => c \in S}

(* A child between its outcome and its end runs without an await, so it is *)
(* not dropped there.                                                      *)
Settling == {"retire", "save"}
Droppable(h) == \A c \in Below(h) : kid[c].at \notin Settling

(* Of a child that is gone, what is read later. *)
Gone(k, out) == [k EXCEPT !.at = "gone", !.out = out, !.host = Turn, !.depth = 0,
                          !.round = 0, !.left = 0, !.late = 0]

(* Dropped futures take their budget binding with them and nothing else.   *)
Dropped(kids, S) == [c \in Children |-> IF c \in S THEN Gone(kids[c], "dropped") ELSE kids[c]]

TypeOK ==
    /\ turn \in [at : {"idle", "loop", "search", "child", "branches", "down"},
                 kids : SUBSET Children, left : 0..MaxStages, num : 0..MaxTurns]
    /\ kid \in [Children ->
         [at : {"unused", "start", "top", "model", "calls", "approval", "dispatch", "tool",
                "search", "child", "gone"} \cup Settling,
          kind : {"inline", "background"}, host : Hosts, depth : 0..MaxDepth,
          round : 0..MaxRounds, left : 0..MaxCalls,
          out : {"none", "completed", "failed", "interrupted", "dropped", "lost"}, late : 0..MaxCalls]]
    /\ row \in [Children -> {"none", "running", "completed", "failed", "interrupted"}]
    /\ run \in [Children -> {"none", "preparing", "completed", "failed", "cancelled"}]
    /\ live \subseteq Children /\ stop \in [Children -> BOOLEAN]
    /\ registered \subseteq Hosts /\ used \in 0..MaxSearches /\ blocked \in BOOLEAN
    /\ cancel \in BOOLEAN /\ woken \in BOOLEAN

Init ==
    /\ turn = [at |-> "idle", kids |-> {}, left |-> 0, num |-> 0]
    /\ kid = [c \in Children |-> [at |-> "unused", kind |-> "inline", host |-> Turn,
                                  depth |-> 0, round |-> 0, left |-> 0, out |-> "none", late |-> 0]]
    /\ row = [c \in Children |-> "none"] /\ run = [c \in Children |-> "none"]
    /\ live = {} /\ stop = [c \in Children |-> FALSE]
    /\ registered = {} /\ used = 0 /\ blocked = FALSE
    /\ cancel = FALSE /\ woken = FALSE
    /\ issued = 0 /\ uncertain = FALSE

-----------------------------------------------------------------------------
(* Spawning. *)

Depth(h) == IF h = Turn THEN 0 ELSE kid[h].depth

Born(kind, h) == [at |-> "start", kind |-> kind, host |-> h, depth |-> Depth(h) + 1,
                  round |-> 0, left |-> 0, out |-> "none", late |-> 0]

(* Both rows are saved and the child is registered before anything waits.  *)
Spawned(S) ==
    /\ row' = [c \in Children |-> IF c \in S THEN "running" ELSE row[c]]
    /\ run' = [c \in Children |-> IF c \in S THEN "preparing" ELSE run[c]]
    /\ live' = live \cup S
    /\ UNCHANGED stop

(* A slip: only the turn itself has the cells. *)
NotBound(c, h) == registered

(* bind_child_to_parent: the cells of the parent, if it has any. *)
Bound(c, h) == IF h \in registered THEN registered \cup {c} ELSE registered

(* execute_subagent with background = true, from the turn or from a child. *)
TurnSpawnsBackground ==
    /\ turn.at = "loop" /\ Depth(Turn) < MaxDepth
    /\ \E c \in Unused :
         /\ Cardinality(Background) < MaxBackground
         /\ kid' = [kid EXCEPT ![c] = Born("background", Turn)]
         /\ Spawned({c})
    /\ UNCHANGED <<turn, budget, watch, history>>

(* A call that runs one child, or one after the other until one fails: the *)
(* tool subagent, a sequential workflow, a Ralph loop.                     *)
TurnCallsChild ==
    /\ turn.at = "loop" /\ Depth(Turn) < MaxDepth
    /\ \E c \in Unused, stages \in 0..(MaxStages - 1) :
         /\ kid' = [kid EXCEPT ![c] = Born("inline", Turn)]
         /\ turn' = [turn EXCEPT !.at = "child", !.kids = {c}, !.left = stages]
         /\ registered' = Bound(c, Turn)
         /\ Spawned({c})
    /\ UNCHANGED <<used, blocked, watch, history>>

(* A parallel workflow. *)
TurnCallsBranches ==
    /\ turn.at = "loop"
    /\ \E S \in SUBSET Unused \ {{}} :
         /\ Cardinality(Background \cup S) <= MaxBackground
         /\ kid' = [c \in Children |-> IF c \in S THEN Born("background", Turn) ELSE kid[c]]
         /\ turn' = [turn EXCEPT !.at = "branches", !.kids = S]
         /\ Spawned(S)
    /\ UNCHANGED <<budget, watch, history>>

-----------------------------------------------------------------------------
(* The turn. *)

BeginTurn ==
    /\ turn.at = "idle" /\ turn.num < MaxTurns
    /\ turn' = [turn EXCEPT !.at = "loop", !.num = @ + 1]
    /\ registered' = registered \cup {Turn}
    /\ cancel' = FALSE
    /\ UNCHANGED <<kid, row, run, registry, used, blocked, woken, history>>

(* The turn drops its cells and its receiver of the watch. *)
TurnEnds ==
    /\ turn' = [turn EXCEPT !.at = "idle", !.kids = {}, !.left = 0]
    /\ used' = 0 /\ blocked' = FALSE /\ issued' = 0 /\ uncertain' = FALSE
    /\ woken' = FALSE

EndTurn ==
    /\ turn.at = "loop" /\ TurnEnds
    /\ registered' = registered \ {Turn}
    /\ UNCHANGED <<kid, row, run, registry, cancel>>

(* A search of the turn itself, behind the same budget and the same set. *)
TurnSearches ==
    /\ turn.at = "loop" /\ ~blocked /\ used < MaxSearches
    /\ turn' = [turn EXCEPT !.at = "search"]
    /\ used' = used + 1 /\ issued' = issued + 1
    /\ UNCHANGED <<kid, row, run, registry, registered, blocked, watch, uncertain>>

SearchReturns ==
    /\ turn.at = "search"
    /\ turn' = [turn EXCEPT !.at = "loop"]
    /\ \E unsure \in BOOLEAN :
         /\ blocked' = (blocked \/ unsure)
         /\ uncertain' = (uncertain \/ unsure)
    /\ UNCHANGED <<kid, row, run, registry, registered, used, watch, issued>>

(* The call returns, or goes on with its next child: a workflow stops at    *)
(* the first stage that fails, a Ralph loop also when its child says so.    *)
CallReturns ==
    /\ turn.at = "child" /\ \A c \in turn.kids : At(c, "gone")
    /\ turn' = [turn EXCEPT !.at = "loop", !.kids = {}, !.left = 0]
    /\ UNCHANGED <<kid, row, run, registry, budget, watch, history>>

NextStage ==
    /\ turn.at = "child" /\ turn.left > 0
    /\ \A c \in turn.kids : At(c, "gone") /\ kid[c].out = "completed"
    /\ \E c \in Unused :
         /\ kid' = [kid EXCEPT ![c] = Born("inline", Turn)]
         /\ turn' = [turn EXCEPT !.kids = {c}, !.left = @ - 1]
         /\ registered' = Bound(c, Turn)
         /\ Spawned({c})
    /\ UNCHANGED <<used, blocked, watch, history>>

(* The loop of a parallel workflow reads the rows, and at its head the     *)
(* app-wide cancel.                                                        *)
BranchesReturn ==
    /\ turn.at = "branches" /\ ~cancel /\ \A c \in turn.kids : row[c] # "running"
    /\ turn' = [turn EXCEPT !.at = "loop", !.kids = {}]
    /\ UNCHANGED <<kid, row, run, registry, budget, watch, history>>

BranchesCancelled ==
    /\ turn.at = "branches" /\ cancel
    /\ stop' = [c \in Children |-> stop[c] \/ c \in turn.kids \cap live]
    /\ turn' = [turn EXCEPT !.at = "loop", !.kids = {}]
    /\ UNCHANGED <<kid, row, run, live, budget, watch, history>>

(* The select around every call of the turn: any change of the watch ends  *)
(* it, and the turn with it; so does the call's own timeout, without it.   *)
InCall == turn.at \in {"search", "child", "branches"}

TurnInterrupted ==
    /\ InCall /\ woken /\ Droppable(Turn)
    /\ kid' = Dropped(kid, Below(Turn))
    /\ registered' = registered \ (Below(Turn) \cup {Turn})
    /\ TurnEnds
    /\ UNCHANGED <<row, run, registry, cancel>>

CallTimesOut ==
    /\ InCall /\ Droppable(Turn)
    /\ kid' = Dropped(kid, Below(Turn))
    /\ registered' = registered \ Below(Turn)
    /\ turn' = [turn EXCEPT !.at = "loop", !.kids = {}, !.left = 0]
    /\ blocked' = (blocked \/ turn.at = "search")
    /\ uncertain' = (uncertain \/ turn.at = "search")
    /\ UNCHANGED <<row, run, registry, used, watch, issued>>

(* The user stops the generation; a turn of another conversation begins    *)
(* and resets the one watch.                                               *)
Stop ==
    /\ turn.at # "idle" /\ ~cancel
    /\ cancel' = TRUE /\ woken' = TRUE
    /\ UNCHANGED <<turn, kid, row, run, registry, budget, history>>

OtherTurnBegins ==
    /\ cancel
    /\ cancel' = FALSE /\ woken' = (turn.at # "idle")
    /\ UNCHANGED <<turn, kid, row, run, registry, budget, history>>

-----------------------------------------------------------------------------
(* interrupt_agent and interrupt_subagent: no effect on a child not live.  *)
Interrupt(c) ==
    /\ c \in live /\ ~stop[c]
    /\ stop' = [stop EXCEPT ![c] = TRUE]
    /\ UNCHANGED <<turn, kid, row, run, live, budget, watch, history>>

-----------------------------------------------------------------------------
(* A child. *)

Ended(c, out) == [kid[c] EXCEPT !.at = IF Inline(c) THEN "retire" ELSE "save",
                                !.out = out, !.round = 0, !.left = 0, !.late = 0]

Goes(c, place) == kid' = [kid EXCEPT ![c].at = place]
Ends(c, out) == kid' = [kid EXCEPT ![c] = Ended(c, out)]
CallDone(c) == kid' = [kid EXCEPT ![c].at = "calls", ![c].left = @ - 1]

Rest == <<turn, row, registry, budget, watch, history>>

(* run_background_core gives up before its loop: store or backend will not *)
(* open, and the outcome is dropped.                                       *)
CoreFails(c) ==
    /\ At(c, "start") /\ ~Inline(c)
    /\ kid' = [kid EXCEPT ![c].at = "retire", ![c].out = "lost"]
    /\ UNCHANGED <<run, Rest>>

Starts(c) ==
    /\ At(c, "start")
    /\ IF IsSet(c) THEN Ends(c, "interrupted") ELSE Goes(c, "top")
    /\ UNCHANGED <<run, Rest>>

(* The head of a round: the interrupt, then the request. *)
BeginsRound(c) ==
    /\ At(c, "top")
    /\ IF IsSet(c)
       THEN /\ Ends(c, "interrupted")
            /\ run' = [run EXCEPT ![c] = "cancelled"]
       ELSE Goes(c, "model") /\ UNCHANGED run
    /\ UNCHANGED Rest

(* The response: an error, a time out or a cut answer; no calls; calls. In *)
(* the last round they fail the child, unless finish is among them.        *)
Answers(c) ==
    /\ At(c, "model")
    /\ \/ Ends(c, "failed")
       \/ Ends(c, "completed")
       \/ \E n \in 1..MaxCalls : kid' = [kid EXCEPT ![c].at = "calls", ![c].left = n]
    /\ UNCHANGED <<run, Rest>>

(* A future at one of these awaits is selected against the interrupt.      *)
Waits(c) == kid[c].at \in {"model", "approval", "dispatch", "tool", "search", "child"}

(* Its own calls are dropped with it.  cancelled_tool_call only records.   *)
Interrupted(c) ==
    /\ Waits(c) /\ IsSet(c) /\ Droppable(c)
    /\ kid' = [Dropped(kid, Below(c)) EXCEPT ![c] = Ended(c, "interrupted")]
    /\ registered' = registered \ Below(c)
    /\ UNCHANGED <<turn, row, run, registry, used, blocked, watch, history>>

(* A slip: it is read at the head of a round only. *)
CallHeadUnread(c) == CallDone(c) \/ Goes(c, "dispatch") \/ (Inline(c) /\ Goes(c, "approval"))

(* The interrupt is read before each call. *)
CallHead(c) == IF IsSet(c) THEN Ends(c, "interrupted")
               ELSE \/ CallDone(c)
                    \/ Goes(c, "dispatch")
                    \/ Inline(c) /\ Goes(c, "approval")

(* A call is unavailable, switched off, invalid or denied; allowed; or, in *)
(* a child that has a chat to ask in, waits for the user.                  *)
TakesCall(c) ==
    /\ At(c, "calls") /\ kid[c].left > 0
    /\ CallHead(c)
    /\ UNCHANGED <<run, Rest>>

NextRound(c) ==
    /\ At(c, "calls") /\ kid[c].left = 0
    /\ IF kid[c].round + 1 < MaxRounds
       THEN kid' = [kid EXCEPT ![c].at = "top", ![c].round = @ + 1]
       ELSE Ends(c, "completed")
    /\ UNCHANGED <<run, Rest>>

(* A slip: the wait for an approval has no timeout. *)
ApprovalStands(c) == FALSE /\ At(c, "approval")

Approved(c) == At(c, "approval") /\ Goes(c, "dispatch") /\ UNCHANGED <<run, Rest>>
Denied(c) == At(c, "approval") /\ CallDone(c) /\ UNCHANGED <<run, Rest>>
ApprovalTimesOut(c) == At(c, "approval") /\ CallDone(c) /\ UNCHANGED <<run, Rest>>

(* The select polls its arms in any order: a call may begin after the      *)
(* interrupt.                                                              *)
Late(c) == kid[c].late + (IF stop[c] THEN 1 ELSE 0)
Begins(c, place) == kid' = [kid EXCEPT ![c].at = place, ![c].late = Late(c)]

BeginsLocalTool(c) ==
    /\ At(c, "dispatch") /\ Begins(c, "tool")
    /\ UNCHANGED <<run, Rest>>

(* admit_tool under the id of the host, then the set of blocked calls. The *)
(* charge stands when the call is refused.  A background child has none.   *)
Searches(c) ==
    /\ At(c, "dispatch") /\ Inline(c)
    /\ LET bound == kid[c].host \in registered
           full == bound /\ used >= MaxSearches
           refused == full \/ (bound /\ blocked)
       IN  /\ used' = IF bound /\ ~full THEN used + 1 ELSE used
           /\ IF refused THEN CallDone(c) /\ UNCHANGED issued
              ELSE Begins(c, "search") /\ issued' = issued + 1
    /\ UNCHANGED <<turn, row, run, registry, registered, blocked, watch, uncertain>>

BeginsChild(c) ==
    /\ At(c, "dispatch") /\ Inline(c) /\ Depth(c) < MaxDepth
    /\ \E d \in Unused :
         /\ kid' = [kid EXCEPT ![c].at = "child", ![c].late = Late(c), ![d] = Born("inline", c)]
         /\ registered' = Bound(d, c)
         /\ Spawned({d})
    /\ UNCHANGED <<turn, used, blocked, watch, history>>

BeginsBackground(c) ==
    /\ At(c, "dispatch") /\ Inline(c) /\ Depth(c) < MaxDepth
    /\ Cardinality(Background) < MaxBackground
    /\ \E d \in Unused :
         /\ kid' = [kid EXCEPT ![c].at = "calls", ![c].left = @ - 1, ![c].late = Late(c),
                            ![d] = Born("background", c)]
         /\ Spawned({d})
    /\ UNCHANGED <<turn, budget, watch, history>>

ToolReturns(c) ==
    /\ At(c, "tool")
    /\ CallDone(c) \/ Ends(c, "completed") \/ Ends(c, "failed")
    /\ UNCHANGED <<run, Rest>>

(* A search without an answer is uncertain, and not added to the set.      *)
SearchAnswers(c) ==
    /\ At(c, "search") /\ CallDone(c)
    /\ \E unsure \in BOOLEAN : uncertain' = (uncertain \/ unsure)
    /\ UNCHANGED <<turn, row, run, registry, budget, watch, issued>>

(* The child below has ended, or the time of the call has.                 *)
ChildReturns(c) ==
    /\ At(c, "child") /\ Droppable(c)
    /\ kid' = [Dropped(kid, Below(c)) EXCEPT ![c] = [kid[c] EXCEPT !.at = "calls", !.left = @ - 1]]
    /\ registered' = registered \ Below(c)
    /\ UNCHANGED <<turn, row, run, registry, used, blocked, watch, history>>

-----------------------------------------------------------------------------
(* The end of a child, in the order of its kind.  The two statuses are     *)
(* saved under one lock; a background child also leaves a notice.          *)

Retires(c) ==
    /\ At(c, "retire")
    /\ IF Inline(c) THEN Goes(c, "save") ELSE kid' = [kid EXCEPT ![c] = Gone(@, @.out)]
    /\ live' = live \ {c} /\ stop' = [stop EXCEPT ![c] = FALSE]
    /\ UNCHANGED <<turn, row, run, budget, watch, history>>

Settles(c) ==
    /\ At(c, "save")
    /\ IF Inline(c) THEN kid' = [kid EXCEPT ![c] = Gone(@, @.out)] ELSE Goes(c, "retire")
    /\ row' = [row EXCEPT ![c] = kid[c].out]
    /\ run' = [run EXCEPT ![c] = IF kid[c].out = "interrupted" THEN "cancelled" ELSE kid[c].out]
    /\ registered' = registered \ {c}
    /\ UNCHANGED <<turn, registry, used, blocked, watch, history>>

(* The program dies and starts again: recover_interrupted settles runs.    *)
Crash ==
    /\ turn.at # "down"
    /\ turn' = [turn EXCEPT !.at = "down", !.kids = {}, !.left = 0]
    /\ kid' = Dropped(kid, Children \ Unused)
    /\ run' = [c \in Children |-> IF run[c] = "preparing" THEN "cancelled" ELSE run[c]]
    /\ live' = {} /\ registered' = {}
    /\ cancel' = FALSE /\ woken' = FALSE
    /\ stop' = [c \in Children |-> FALSE]
    /\ used' = 0 /\ blocked' = FALSE /\ issued' = 0 /\ uncertain' = FALSE
    /\ UNCHANGED row

-----------------------------------------------------------------------------
TurnStep ==
    \/ BeginTurn \/ EndTurn \/ TurnSpawnsBackground \/ TurnCallsChild \/ TurnCallsBranches
    \/ TurnSearches \/ SearchReturns \/ CallReturns \/ NextStage
    \/ BranchesReturn \/ BranchesCancelled \/ TurnInterrupted \/ CallTimesOut

UserStep == Stop \/ OtherTurnBegins \/ \E c \in Children : Interrupt(c) \/ Approved(c) \/ Denied(c)

ChildStep(c) ==
    \/ CoreFails(c) \/ Starts(c) \/ BeginsRound(c) \/ Answers(c) \/ Interrupted(c)
    \/ TakesCall(c) \/ NextRound(c) \/ ApprovalTimesOut(c)
    \/ BeginsLocalTool(c) \/ Searches(c) \/ BeginsChild(c) \/ BeginsBackground(c)
    \/ ToolReturns(c) \/ SearchAnswers(c) \/ ChildReturns(c)
    \/ Retires(c) \/ Settles(c)

Next == TurnStep \/ UserStep \/ Crash \/ \E c \in Children : ChildStep(c)

Spec == Init /\ [][Next]_vars

(* Futures run on: the model, a tool and an approval answer or time out.   *)
(* The turn and the user may stop at any time.  A child has finitely many  *)
(* steps, so it is enough that some child goes on while any can.           *)
FairSpec == Spec /\ WF_vars(\E c \in Children : ChildStep(c))

-----------------------------------------------------------------------------
(* A turn and all inline children below it send no more searches than the  *)
(* budget of the turn allows (continuation.rs admit_tool, the binding of a *)
(* child to the cells of its parent).                                      *)
FamilyBudget == issued <= MaxSearches

(* An interrupted child begins at most the one call that its select        *)
(* polled first (drive_child, drive_detached).                             *)
InterruptStopsChild == \A c \in Children : kid[c].late <= 1

(* A background child ends as interrupted only if it was asked to by name; *)
(* the Stop of a turn alone never ends it (spawn_background).              *)
BackgroundOnlyByName ==
    [][\A c \in Background : row[c] = "running" /\ row'[c] = "interrupted" => stop[c]]_vars

(* Every child ends, whatever the user, the turn and its calls do or leave *)
(* undone (the timeouts of drive_child and drive_detached).                *)
EveryChildEnds == []<>(\A c \in Children : ~Lives(c))

(* A call whose outcome was uncertain is not sent again in its turn, by a  *)
(* child neither (run_child_inline: "obey the same 'never repeat a call    *)
(* with an uncertain outcome' rule").                                      *)
UncertainNotRepeated == [][uncertain => issued' <= issued]_vars

(* As long as the program runs, every child that has ended has a settled   *)
(* row (spawn_background: "Settles durably; the parent is notified").      *)
ChildrenSettle == \A c \in Children : turn.at # "down" /\ At(c, "gone") => row[c] # "running"

(* Nor is a row left running when the program has started again.           *)
RowsRecovered == turn.at = "down" => \A c \in Children : row[c] # "running"

(* The Stop of a turn reaches the branches its workflow waits for.         *)
StopReachesBranches ==
    [][\A c \in turn.kids : turn.at = "branches" /\ cancel /\ turn'.at # "branches" /\ c \in live
         => stop'[c]]_vars
=============================================================================
