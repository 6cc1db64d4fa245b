----------------------------- MODULE Processes -----------------------------
(* The owned processes of one conversation (process_tools.rs, the sampling *)
(* guard of performance_tools.rs): the registry, a supervisor per process, *)
(* and the tool calls that start, feed and stop processes.  A call is a    *)
(* future that may be dropped wherever it waits.                           *)
EXTENDS Naturals, FiniteSets, Sequences

CONSTANTS
    Processes,      \* process numbers 1..n, in the order of their start
    Calls,          \* tool calls 1..n, in the order they are made
    Nobody,         \* the asker of a request_stop, which waits for no reply
    MaxActive,      \* MAX_ACTIVE_PER_OWNER
    MaxProcesses,   \* MAX_PROCESSES
    QueueSize       \* capacity of a control channel

VARIABLES
    call,           \* each call: kind, place, process, the phase it returned
    listed,         \* ProcessRegistry.processes
    phase,          \* Output.phase of each process
    child,          \* "none", "alive" or "gone": ended, or its tree was sent the kill
    supervisor,     \* "none", "watching", "feeding", "sealing" or "done"
    verdict,        \* the phase the supervisor will set
    queue,          \* control messages: what is asked and by which call
    feeder          \* the call whose input the supervisor is writing

process == <<phase, child, supervisor, verdict, queue, feeder>>
vars == <<call, listed, process>>

Launching == {"process_start", "shell_run", "benchmark_run"}

Init ==
    /\ call = [c \in Calls |-> [kind |-> "none", at |-> "new", id |-> 0, told |-> "none"]]
    /\ listed = {}
    /\ phase = [i \in Processes |-> "running"]
    /\ child = [i \in Processes |-> "none"]
    /\ supervisor = [i \in Processes |-> "none"]
    /\ verdict = [i \in Processes |-> "none"]
    /\ queue = [i \in Processes |-> <<>>]
    /\ feeder = [i \in Processes |-> Nobody]

Goes(c, place) == call' = [call EXCEPT ![c].at = place]
Returns(c) == call' = [call EXCEPT ![c].at = "returned", ![c].told = phase[call[c].id]]
At(c, place) == call[c].at = place
New(c) == At(c, "new") /\ \A d \in Calls : d < c => ~At(d, "new")
Kind(c, kind) == call[c].kind = kind
Id(c) == call[c].id

Completed == {i \in listed : phase[i] # "running"}
Oldest(ids) == {i \in ids : \A j \in ids : i <= j}

(* The completed records a full registry gives up: the oldest one. *)
Evicted == IF Cardinality(listed) < MaxProcesses THEN {} ELSE Oldest(Completed)

Room(i) == Len(queue[i]) < QueueSize /\ supervisor[i] # "done"
Asks(i, what, who) == queue' = [queue EXCEPT ![i] = Append(@, [what |-> what, who |-> who])]

-----------------------------------------------------------------------------
(* start_observed: the checks, the spawn and the insertion under the lock, *)
(* and the first input sent before the call waits.                         *)
Launch(c) ==
    /\ New(c)
    /\ Cardinality(listed \ Completed) < MaxActive
    /\ Cardinality(listed \ Evicted) < MaxProcesses
    /\ \E i \in Oldest({j \in Processes : child[j] = "none"}), kind \in Launching :
         /\ listed' = (listed \ Evicted) \cup {i}
         /\ child' = [child EXCEPT ![i] = "alive"]
         /\ supervisor' = [supervisor EXCEPT ![i] = "watching"]
         /\ \/ /\ Asks(i, "write", c)
               /\ call' = [call EXCEPT ![c].kind = kind, ![c].id = i, ![c].at = "feeding"]
            \/ /\ kind = "process_start"
               /\ call' = [call EXCEPT ![c].kind = kind, ![c].id = i, ![c].at = "yielding"]
               /\ UNCHANGED queue
    /\ UNCHANGED <<phase, verdict, feeder>>

(* A slip: a dropped start leaves the process it spawned in the registry. *)
GiveUpNothing(c) == UNCHANGED listed

(* PendingStart::drop. *)
GiveUp(c) == listed' = listed \ {Id(c)}

(* The input set up, the start waits a moment and reports the process.     *)
Fed(c) ==
    /\ At(c, "fed")
    /\ Goes(c, "yielding")
    /\ UNCHANGED <<listed, process>>

FeedFails(c) ==
    /\ call[c].at \in {"feeding", "fed"}
    /\ Goes(c, "failed") /\ GiveUp(c)
    /\ UNCHANGED process

(* The snapshot of a start: process_start returns with it, the other two   *)
(* go on with the process.                                                 *)
Started(c) ==
    /\ At(c, "yielding")
    /\ \/ /\ Id(c) \in listed /\ UNCHANGED listed
          /\ IF Kind(c, "process_start") THEN Returns(c) ELSE Goes(c, "running")
       \/ /\ Id(c) \notin listed
          /\ Goes(c, "failed") /\ GiveUp(c)
    /\ UNCHANGED process

(* shell_run polls until the process ends or its own wait does. *)
ShellReturns(c) ==
    /\ At(c, "running") /\ Kind(c, "shell_run")
    /\ IF Id(c) \in listed THEN Returns(c) ELSE Goes(c, "failed")
    /\ UNCHANGED <<listed, process>>

-----------------------------------------------------------------------------
(* ProcessRegistry::stop on a listed process. *)
StopAsked(c, i, kind) ==
    \/ /\ phase[i] = "running" /\ Room(i)
       /\ Asks(i, "stop", c)
       /\ call' = [call EXCEPT ![c].kind = kind, ![c].at = "stopping", ![c].id = i]
    \/ /\ phase[i] # "running"
       /\ call' = [call EXCEPT ![c].kind = kind, ![c].at = "returned", ![c].id = i,
                               ![c].told = phase[i]]
       /\ UNCHANGED queue

(* request_stop: a request that cannot be queued is told on the process. *)
StopRequested(i) ==
    \/ i \in listed /\ Room(i) /\ Asks(i, "stop", Nobody) /\ UNCHANGED phase
    \/ i \in listed /\ ~Room(i) /\ phase' = [phase EXCEPT ![i] = "unknown"] /\ UNCHANGED queue
    \/ i \notin listed /\ UNCHANGED <<phase, queue>>

(* benchmark_run watches its sample and stops it at its deadline.          *)
Sampled(c) ==
    /\ At(c, "running") /\ Kind(c, "benchmark_run")
    /\ Id(c) \in listed /\ phase[Id(c)] # "running"
    /\ Returns(c)
    /\ UNCHANGED <<listed, process>>

SampleStopped(c) ==
    /\ At(c, "running") /\ Kind(c, "benchmark_run")
    /\ Id(c) \in listed
    /\ StopAsked(c, Id(c), "benchmark_run")
    /\ UNCHANGED <<listed, phase, child, supervisor, verdict, feeder>>

(* An error of the sample, or its call dropped: Running::drop.             *)
SampleEnds(c) ==
    /\ Kind(c, "benchmark_run") /\ call[c].at \in {"running", "stopping", "stopped"}
    /\ Goes(c, "failed")
    /\ StopRequested(Id(c))
    /\ UNCHANGED <<listed, child, supervisor, verdict, feeder>>

Known == {i \in listed : \E c \in Calls : /\ Id(c) = i /\ At(c, "returned")
                                          /\ call[c].kind \in {"process_start", "shell_run"}}

Write(c) ==
    /\ New(c)
    /\ \E i \in Known :
         /\ Room(i) /\ Asks(i, "write", c)
         /\ call' = [call EXCEPT ![c].kind = "process_write", ![c].at = "writing", ![c].id = i]
    /\ UNCHANGED <<listed, phase, child, supervisor, verdict, feeder>>

Written(c) ==
    /\ Kind(c, "process_write") /\ call[c].at \in {"writing", "written"}
    /\ IF At(c, "written") THEN Returns(c) ELSE Goes(c, "failed")
    /\ UNCHANGED <<listed, process>>

Stop(c) ==
    /\ New(c)
    /\ \E i \in Known : StopAsked(c, i, "process_stop")
    /\ UNCHANGED <<listed, phase, child, supervisor, verdict, feeder>>

(* The acknowledgement, then the snapshot, a step of its own.  No          *)
(* acknowledgement in five seconds, a supervisor that ended without one or *)
(* a record gone meanwhile is an error.                                    *)
Stopped(c) ==
    /\ At(c, "stopped") /\ Id(c) \in listed
    /\ Returns(c)
    /\ UNCHANGED <<listed, process>>

StopFails(c) ==
    /\ Kind(c, "process_stop") /\ call[c].at \in {"stopping", "stopped"}
    /\ Goes(c, "failed")
    /\ UNCHANGED <<listed, process>>

(* A future dropped: a start gives its process up, the others just go.     *)
Dropped(c) ==
    /\ \/ call[c].at \in {"feeding", "fed", "yielding"} /\ GiveUp(c)
       \/ /\ call[c].at \in {"running", "writing", "written", "stopping", "stopped"}
          /\ ~Kind(c, "benchmark_run") /\ UNCHANGED listed
    /\ Goes(c, "failed")
    /\ UNCHANGED process

(* stop_owned of a deleted conversation, stop_all. *)
StopOwned ==
    /\ listed # {} /\ listed' = {}
    /\ UNCHANGED <<call, process>>

-----------------------------------------------------------------------------
(* supervise.  A call that waits for a reply holds the channel open.       *)
Held(i) == \E c \in Calls :
    Id(c) = i /\ call[c].at \in {"feeding", "fed", "writing", "written", "stopping", "stopped"}

(* A slip: only a message or a deadline ends the loop. *)
NeverClosed(i) == FALSE

(* receiver.is_closed: every sender is gone. *)
Closed(i) == i \notin listed /\ ~Held(i)

ChildExits(i) ==
    /\ child[i] = "alive"
    /\ child' = [child EXCEPT ![i] = "gone"]
    /\ UNCHANGED <<call, listed, phase, supervisor, verdict, queue, feeder>>

(* terminate, and the drop of the child: the kill is sent; whether the     *)
(* tree ended is confirmed or "unknown".                                   *)
Terminates(i, why) ==
    /\ child' = [child EXCEPT ![i] = "gone"]
    /\ supervisor' = [supervisor EXCEPT ![i] = "sealing"]
    /\ \E v \in {why, "unknown"} : verdict' = [verdict EXCEPT ![i] = v]

SeesExit(i) ==
    /\ supervisor[i] = "watching" /\ child[i] = "gone"
    /\ supervisor' = [supervisor EXCEPT ![i] = "sealing"]
    /\ \E v \in {"exited", "failed"} : verdict' = [verdict EXCEPT ![i] = v]
    /\ UNCHANGED <<call, listed, phase, child, queue, feeder>>

SeesClosed(i) ==
    /\ supervisor[i] = "watching" /\ Closed(i)
    /\ Terminates(i, "stopped")
    /\ UNCHANGED <<call, listed, phase, queue, feeder>>

SeesDeadline(i) ==
    /\ supervisor[i] = "watching"
    /\ Terminates(i, "timed_out")
    /\ UNCHANGED <<call, listed, phase, queue, feeder>>

(* A reply reaches the call if it still waits for it. *)
Replies(c, to) ==
    IF c # Nobody /\ call[c].at = to.from THEN Goes(c, to.place) ELSE UNCHANGED call

TakesInput(i) ==
    /\ supervisor[i] = "watching" /\ queue[i] # <<>> /\ Head(queue[i]).what = "write"
    /\ queue' = [queue EXCEPT ![i] = Tail(@)]
    /\ supervisor' = [supervisor EXCEPT ![i] = "feeding"]
    /\ feeder' = [feeder EXCEPT ![i] = Head(queue[i]).who]
    /\ UNCHANGED <<call, listed, phase, child, verdict>>

(* Written, or given up after two seconds, and told to the call. *)
InputEnds(i) ==
    /\ supervisor[i] = "feeding"
    /\ supervisor' = [supervisor EXCEPT ![i] = "watching"]
    /\ LET c == feeder[i]
       IN Replies(c, IF Kind(c, "process_write") THEN [from |-> "writing", place |-> "written"]
                                                 ELSE [from |-> "feeding", place |-> "fed"])
    /\ feeder' = [feeder EXCEPT ![i] = Nobody]
    /\ UNCHANGED <<listed, phase, child, verdict, queue>>

(* A stop is acknowledged as soon as the tree is killed. *)
TakesStop(i) ==
    /\ supervisor[i] = "watching" /\ queue[i] # <<>> /\ Head(queue[i]).what = "stop"
    /\ queue' = [queue EXCEPT ![i] = Tail(@)]
    /\ Terminates(i, "stopped")
    /\ Replies(Head(queue[i]).who, [from |-> "stopping", place |-> "stopped"])
    /\ UNCHANGED <<listed, phase, feeder>>

(* The observation is sealed and the output drained: the phase is final.   *)
Seals(i) ==
    /\ supervisor[i] = "sealing"
    /\ supervisor' = [supervisor EXCEPT ![i] = "done"]
    /\ phase' = [phase EXCEPT ![i] = verdict[i]]
    /\ queue' = [queue EXCEPT ![i] = <<>>]
    /\ verdict' = [verdict EXCEPT ![i] = "none"]
    /\ UNCHANGED <<call, listed, child, feeder>>

-----------------------------------------------------------------------------
CallStep(c) ==
    \/ Fed(c) \/ FeedFails(c) \/ Started(c) \/ ShellReturns(c) \/ Sampled(c)
    \/ Written(c) \/ Stopped(c) \/ StopFails(c)

Supervise(i) ==
    \/ SeesExit(i) \/ SeesClosed(i) \/ TakesInput(i) \/ InputEnds(i) \/ TakesStop(i) \/ Seals(i)

Next ==
    \/ \E c \in Calls : \/ CallStep(c) \/ Launch(c) \/ Write(c) \/ Stop(c)
                        \/ SampleStopped(c) \/ SampleEnds(c) \/ Dropped(c)
    \/ \E i \in Processes : Supervise(i) \/ ChildExits(i) \/ SeesDeadline(i)
    \/ StopOwned

Spec == Init /\ [][Next]_vars

(* Supervisors and calls run on; neither the exit of a process nor its     *)
(* deadline, minutes away, is counted on.                                  *)
FairSpec ==
    /\ Spec
    /\ \A c \in Calls : WF_vars(CallStep(c))
    /\ \A i \in Processes : WF_vars(Supervise(i))

-----------------------------------------------------------------------------
Undelivered(i, kinds) ==
    \E c \in Calls : Id(c) = i /\ call[c].kind \in kinds /\ At(c, "failed")

(* A process nobody can name any more is killed: its record was removed,   *)
(* or the start or the sample that launched it ended without returning it  *)
(* ("a cancelled start must not leave a process whose ID was never         *)
(* delivered"; stop_owned; request_stop).                                  *)
LostIsReaped ==
    \A i \in Processes :
      child[i] = "alive" /\ (i \notin listed \/ Undelivered(i, {"process_start", "benchmark_run"}))
        ~> child[i] = "gone"

(* The same for the process of a shell_run. *)
ShellLostIsReaped ==
    \A i \in Processes : child[i] = "alive" /\ Undelivered(i, {"shell_run"}) ~> child[i] = "gone"

(* process_stop returns the final state of its process ("then return its   *)
(* final state and bounded output"; the tests expect "stopped").           *)
StopReturnsFinalState ==
    \A c \in Calls : Kind(c, "process_stop") /\ At(c, "returned") => call[c].told # "running"

(* The state a supervisor settled on stands (request_stop: only "when that *)
(* queue is full the request cannot be delivered").                        *)
FinalStateStands ==
    [][\A i \in Processes : supervisor[i] = "done" => phase'[i] = phase[i]]_vars
=============================================================================
