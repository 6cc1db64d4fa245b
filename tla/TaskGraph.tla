----------------------------- MODULE TaskGraph ------------------------------
(* The task graph of one conversation (tasks.rs over store.rs).  A tool's  *)
(* call keeps the store's lock, so calls do not mix; but each statement    *)
(* commits on its own, and the program may die between two of them.  The   *)
(* depth-first search takes a step for each node and each child it looks   *)
(* at: nobody else moves meanwhile.                                        *)
EXTENDS Naturals, Sequences

CONSTANTS Tasks     \* the ids that are ever given out

VARIABLES
    state,      \* tasks.state of each task, "none" when there is no row
    deps,       \* task_dependencies: what each task waits for
    search      \* find_cycle, for the update in hand

vars == <<state, deps, search>>

States == {"pending", "in_progress", "completed", "blocked", "cancelled"}

NoSearch == [at |-> "no", graph |-> [t \in Tasks |-> {}], task |-> CHOOSE t \in Tasks : TRUE,
             stack |-> <<>>, done |-> {}]

Init ==
    /\ state = [t \in Tasks |-> "none"]
    /\ deps = [t \in Tasks |-> {}]
    /\ search = NoSearch

Stored == {t \in Tasks : state[t] # "none"}
Finished(t) == state[t] \in {"completed", "cancelled"}

(* The graph as it would be (dependency_graph and the asked-for change).   *)
With(t, D) == [deps EXCEPT ![t] = D]

-----------------------------------------------------------------------------
(* find_cycle and walk: each frame of the stack has the children it has    *)
(* still to look at.                                                       *)
Frame(n) == [node |-> n, left |-> search.graph[n]]
Top == search.stack[Len(search.stack)]
OnStack == {search.stack[i].node : i \in 1..Len(search.stack)}
Looked(c) == [search.stack EXCEPT ![Len(search.stack)].left = @ \ {c}]

(* A slip: one set of the nodes that were met serves for both. *)
Visited(c) == c \in search.done \cup OnStack
Done(c) == c \notin OnStack /\ c \in search.done

(* An update that gives dependencies; the graph it asks for is searched.   *)
Search(t, D) ==
    /\ search.at = "no"
    /\ t \in Stored /\ D \subseteq Stored \ {t}
    /\ LET graph == With(t, D)
       IN search' = [at |-> "walk", graph |-> graph, task |-> t,
                     stack |-> <<[node |-> t, left |-> graph[t]]>>, done |-> {}]
    /\ UNCHANGED <<state, deps>>

Look ==
    /\ search.at = "walk" /\ search.stack # <<>>
    /\ \E c \in Top.left :
         \/ Done(c) /\ search' = [search EXCEPT !.stack = Looked(c)]
         \/ ~Done(c) /\ c \in OnStack /\ search' = [search EXCEPT !.at = "cycle"]
         \/ ~Done(c) /\ c \notin OnStack /\ search' = [search EXCEPT !.stack = Append(Looked(c), Frame(c))]
    /\ UNCHANGED <<state, deps>>

Leave ==
    /\ search.at = "walk" /\ search.stack # <<>> /\ Top.left = {}
    /\ search' = [search EXCEPT !.done = @ \cup {Top.node},
                                !.stack = SubSeq(search.stack, 1, Len(search.stack) - 1)]
    /\ UNCHANGED <<state, deps>>

(* The call is refused for the cycle, or the program dies.                 *)
SearchEnds ==
    /\ search.at # "no"
    /\ search' = NoSearch
    /\ UNCHANGED <<state, deps>>

(* No cycle: the dependencies are replaced, by deleting all and inserting  *)
(* them one by one; death in between leaves some of them.                  *)
SetDependencies ==
    /\ search.at = "walk" /\ search.stack = <<>>
    /\ \E written \in SUBSET search.graph[search.task] : deps' = With(search.task, written)
    /\ search' = NoSearch
    /\ UNCHANGED state

-----------------------------------------------------------------------------
(* A new task: its row, then what it waits for, one row at a time.         *)
Create(t, D) ==
    /\ search.at = "no"
    /\ state[t] = "none" /\ D \subseteq Stored
    /\ state' = [state EXCEPT ![t] = "pending"]
    /\ \E written \in SUBSET D : deps' = With(t, written)
    /\ UNCHANGED search

CanStart(t) == \A d \in deps[t] : Finished(d)

(* The state; a call that gives dependencies too is refused here with them *)
(* in place.                                                               *)
UpdateState(t, s) ==
    /\ search.at = "no"
    /\ t \in Stored
    /\ s = "in_progress" => CanStart(t)
    /\ state' = [state EXCEPT ![t] = s]
    /\ UNCHANGED <<deps, search>>

(* The row, and with it every dependency that names it (a cascade).        *)
Delete(t) ==
    /\ search.at = "no"
    /\ t \in Stored
    /\ state' = [state EXCEPT ![t] = "none"]
    /\ deps' = [u \in Tasks |-> IF u = t THEN {} ELSE deps[u] \ {t}]
    /\ UNCHANGED search

Next ==
    \/ \E t \in Tasks :
         \/ \E D \in SUBSET Tasks : Create(t, D) \/ Search(t, D)
         \/ \E s \in States : UpdateState(t, s)
         \/ Delete(t)
    \/ Look \/ Leave \/ SearchEnds \/ SetDependencies

Spec == Init /\ [][Next]_vars

-----------------------------------------------------------------------------
(* Tasks wait for each other in a ring when each of some set waits for one *)
(* of the set.                                                             *)
Ring(graph, S) == S # {} /\ \A t \in S : graph[t] \cap S # {}

(* No tasks ever wait for each other: a change that the depth-first search *)
(* lets pass closes no ring, after any calls, deletions and deaths.        *)
Acyclic == \A S \in SUBSET Tasks : ~Ring(deps, S)

(* And none is refused for a ring that is not there: the search is exact.  *)
RefusedForRings == search.at = "cycle" => \E S \in SUBSET Tasks : Ring(search.graph, S)

TasksHold == Acyclic /\ RefusedForRings
=============================================================================
