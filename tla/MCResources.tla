---------------------------- MODULE MCResources ----------------------------
(* What the app owns outside the conversation, side by side in one model:   *)
(* processes and their output, snapshots of files, downloads, the local     *)
(* model and the databases of a rehearsal.  One of them runs while the      *)
(* others rest, for they share no state.                                    *)
EXTENDS Naturals

CONSTANTS
    OutputBytes, FrameSizes, PageSizes, ShellPage, MaxFrames,
    Processes, Calls, Nobody, MaxActive, MaxProcesses, QueueSize,
    Files, Contents, Absent, Odd, Roots, MaxSnapshots, MaxEdits,
    Size, MaxRetries, MaxFetches,
    Models, NoModel, Configs, Initial, Ports, MaxLoads, MaxSaves, MaxTurns, Overlap,
    Engines, LateRoles, LateDatabases, Outsiders, MaxCleanups

ASSUME ResourcesAssumption ==
    /\ NoModel \notin Models \cup Configs \cup {Initial}
    /\ Roots # {} /\ Contents # {}
    /\ Engines \subseteq {"postgres", "mysql"}

VARIABLES
    service,        \* the one that runs
    frames, next, incomplete, state, reader,
    call, listed, phase, child, supervisor, verdict, queue, feeder,
    disk, root, blobs, rows, staged, tracked, op, round, found, spoiled, changed, edits,
    dest, part, fetch, have, hash, failures, highWater, links, fetches,
    files, selected, config, profiles, server, status, operation, saving, turn, delegate,
    loads, saves, turns, wanted, mixed, answered,
    engine, at, ledger, seen, remote, late, cleanups

Output == INSTANCE ProcessOutput
Owned == INSTANCE Processes
Snapshot == INSTANCE Snapshots
Transfer == INSTANCE Download
Local == INSTANCE Runtime WITH op <- operation, child <- delegate
Scratch == INSTANCE Rehearsal

output == <<frames, next, incomplete, state, reader>>
processes == <<call, listed, phase, child, supervisor, verdict, queue, feeder>>
snapshots == <<disk, root, blobs, rows, staged, tracked, op, round, found, spoiled, changed, edits>>
download == <<dest, part, fetch, have, hash, failures, highWater, links, fetches>>
local == <<files, selected, config, profiles, server, status, operation, saving, turn, delegate,
           loads, saves, turns, wanted, mixed, answered>>
rehearsal == <<engine, at, ledger, seen, remote, late, cleanups>>

vars == <<service, output, processes, snapshots, download, local, rehearsal>>

(* A service at rest is in one of its initial states. *)
Init ==
    /\ service \in {"output", "processes", "snapshots", "download", "local", "rehearsal"}
    /\ Output!Init /\ (service = "output" \/ reader.who = "process_poll")
    /\ Owned!Init
    /\ Snapshot!Init /\ (service = "snapshots" \/ \A f \in Files : disk[root][f] = Absent)
    /\ Transfer!Init /\ (service = "download" \/ (dest = "none" /\ links /\ part = Transfer!NoPart))
    /\ Local!Init
    /\ Scratch!Init /\ (service = "rehearsal" \/ engine = CHOOSE e \in Engines : TRUE)

NotOutput == UNCHANGED <<service, processes, snapshots, download, local, rehearsal>>
NotProcesses == UNCHANGED <<service, output, snapshots, download, local, rehearsal>>
NotSnapshots == UNCHANGED <<service, output, processes, download, local, rehearsal>>
NotDownload == UNCHANGED <<service, output, processes, snapshots, local, rehearsal>>
NotLocal == UNCHANGED <<service, output, processes, snapshots, download, rehearsal>>
NotRehearsal == UNCHANGED <<service, output, processes, snapshots, download, local>>

OutputStep == service = "output" /\ Output!Next /\ NotOutput
CallStep(c) == service = "processes" /\ Owned!CallStep(c) /\ NotProcesses
Supervise(i) == service = "processes" /\ Owned!Supervise(i) /\ NotProcesses
ProcessStep == service = "processes" /\ Owned!Next /\ NotProcesses
SnapshotStep == service = "snapshots" /\ Snapshot!Next /\ NotSnapshots
FetchStep == service = "download" /\ Transfer!FetchStep /\ NotDownload
TransferStep == service = "download" /\ Transfer!Next /\ NotDownload
LocalStep == service = "local" /\ Local!Next /\ NotLocal
RehearsalStep == service = "rehearsal" /\ Scratch!Next /\ NotRehearsal

Next ==
    \/ OutputStep \/ ProcessStep \/ SnapshotStep
    \/ TransferStep \/ LocalStep \/ RehearsalStep

Spec == Init /\ [][Next]_vars

(* The fairness of each service, as its module states it. *)
FairSpec ==
    /\ Spec
    /\ \A c \in Calls : WF_vars(CallStep(c))
    /\ \A i \in Processes : WF_vars(Supervise(i))
    /\ WF_vars(FetchStep)

-----------------------------------------------------------------------------
(* A reader of a process's output is told of every gap (Output::push).     *)
NoSilentGap == Output!NoSilentGap

(* A process nobody can name any more is killed (PendingStart, supervise). *)
LostIsReaped == Owned!LostIsReaped

(* A committed revert goes away only when every file is as captured.       *)
RevertDone == Snapshot!RevertDone

(* A download publishes the pinned bytes only and replaces nothing.        *)
DestinationKept == Transfer!DestinationKept

(* Every fetch ends (fetch_with_policy).                                   *)
FetchEnds == Transfer!FetchEnds

(* Nobody stops or replaces the model a turn talks to (OperationGate).     *)
NoSwapUnderTurn == Local!NoSwapUnderTurn

(* A model that is up has its own settings, unless it was selected beside  *)
(* those of another (use_installed_model, save_preferences).               *)
SettingsFollowTheModel == Local!SettingsFollowTheModel

(* What a rehearsal left at the server can be cleaned up (cleanup).        *)
Reclaimable == Scratch!Reclaimable

(* A cleanup drops nothing that is not the program's (owned_resources).    *)
ForeignKept == Scratch!ForeignKept
=============================================================================
