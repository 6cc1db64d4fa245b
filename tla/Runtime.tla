------------------------------ MODULE Runtime ------------------------------
(* The local model: one llama-server that the app owns (runtime.rs), the    *)
(* commands that load, switch, unload and delete models (commands.rs,       *)
(* model_library.rs) behind the exclusive lease of the OperationGate        *)
(* (lib.rs), the settings the user saves beside them, and the turns that    *)
(* hold a shared lease while they talk to the server.  A child in the       *)
(* background goes on after its turn, with no lease.                        *)
EXTENDS Naturals, FiniteSets

CONSTANTS
    Models, NoModel,
    Configs,        \* settings the user may save
    Initial,        \* initial_config, of a model used for the first time
    Ports,
    MaxLoads,       \* bound on the starts of the server
    MaxSaves,       \* bound on the settings and selections saved
    MaxTurns,       \* bound on the turns
    Overlap         \* whether settings may be saved while a model operation runs

VARIABLES
    files,          \* the models on disk
    selected,       \* preferences.model_path
    config,         \* the runtime settings in the store
    profiles,       \* model-profiles/*.json
    server,         \* the process and the endpoint it listens on
    status,         \* what Runtime believes: phase and model
    op,             \* the exclusive operation in flight
    saving,         \* save_runtime_config between its two writes
    turn, child,    \* the endpoint each was given, or NoModel
    loads, saves, turns,
    wanted,         \* what the user last chose for each model
    mixed,          \* history: models selected beside settings that are not theirs
    answered        \* whether a model answered that was not the one asked

vars == <<files, selected, config, profiles, server, status, op, saving, turn, child,
          loads, saves, turns, wanted, mixed, answered>>

settings == <<selected, config, profiles, wanted, mixed>>
talk == <<turn, child, turns, answered>>
user == <<saving, saves>>

NoServer == [model |-> NoModel, key |-> 0, port |-> NoModel, config |-> NoModel]
Stopped == [phase |-> "stopped", model |-> NoModel]
Idle == [kind |-> "none", at |-> "idle", model |-> NoModel, config |-> NoModel]

Init ==
    /\ files = Models /\ selected = NoModel /\ config = Initial
    /\ profiles = [m \in Models |-> NoModel]
    /\ server = NoServer /\ status = Stopped /\ op = Idle /\ saving = NoModel
    /\ turn = NoModel /\ child = NoModel
    /\ loads = 0 /\ saves = 0 /\ turns = 0
    /\ wanted = [m \in Models |-> Initial] /\ mixed = {} /\ answered = FALSE

-----------------------------------------------------------------------------
(* OperationGate: one exclusive operation, or any number of turns.          *)
Ungated == op = Idle
Exclusive == op = Idle /\ turn = NoModel
Shared == op = Idle

Quiet == Overlap \/ saving = NoModel
Done == op' = Idle
To(place) == op' = [op EXCEPT !.at = place]

LoadModel ==
    /\ Exclusive /\ Quiet /\ loads < MaxLoads
    /\ op' = [Idle EXCEPT !.kind = "load", !.at = "read"]
    /\ UNCHANGED <<files, settings, server, status, user, talk, loads>>

(* use_installed_model: the settings of the outgoing model are kept, those  *)
(* of the incoming one restored, under the lock of the store.               *)
FirstUse(m, ps) == Initial
Restored(m, ps) == IF ps[m] = NoModel THEN Initial ELSE ps[m]

UseModel(m) ==
    /\ Exclusive /\ Quiet /\ loads < MaxLoads /\ m \in files
    /\ LET kept == IF selected = NoModel THEN profiles ELSE [profiles EXCEPT ![selected] = config]
           new == IF selected = m THEN config ELSE Restored(m, kept)
       IN config' = new /\ profiles' = [kept EXCEPT ![m] = new]
    /\ selected' = m
    /\ op' = [Idle EXCEPT !.kind = "load", !.at = "read"]
    /\ UNCHANGED <<files, wanted, mixed, server, status, user, talk, loads>>

(* load_selected_model reads the settings and writes them back.             *)
ReadSettings ==
    /\ op.kind = "load" /\ op.at = "read"
    /\ op' = [op EXCEPT !.at = "write", !.model = selected, !.config = config]
    /\ UNCHANGED <<files, settings, server, status, user, talk, loads>>
WriteSettings ==
    /\ op.kind = "load" /\ op.at = "write"
    /\ selected' = op.model /\ config' = op.config
    /\ To("profile")
    /\ UNCHANGED <<files, profiles, wanted, mixed, server, status, user, talk, loads>>
(* save_active_profile: of the model selected by now. *)
Profiled(c) == IF selected = NoModel THEN profiles ELSE [profiles EXCEPT ![selected] = c]
WriteProfile ==
    /\ op.kind = "load" /\ op.at = "profile"
    /\ profiles' = Profiled(op.config)
    /\ To("launch")
    /\ UNCHANGED <<files, selected, config, wanted, mixed, server, status, user, talk, loads>>

(* Runtime::load: what is refused, is refused before the old one stops.     *)
Invalid ==
    /\ op.kind = "load" /\ op.at = "launch"
    /\ Done
    /\ UNCHANGED <<files, settings, server, status, user, talk, loads>>
SameKey == 1
FreshKey == loads + 1
Launch(port) ==
    /\ op.kind = "load" /\ op.at = "launch" /\ op.model \in files /\ loads < MaxLoads
    /\ loads' = loads + 1
    /\ server' = [model |-> op.model, key |-> FreshKey, port |-> port, config |-> op.config]
    /\ status' = [phase |-> "loading", model |-> op.model]
    /\ To("starting")
    /\ UNCHANGED <<files, settings, user, talk>>
NotSpawned ==
    /\ op.kind = "load" /\ op.at = "launch" /\ op.model \in files
    /\ server' = NoServer /\ status' = Stopped /\ Done
    /\ UNCHANGED <<files, settings, user, talk, loads>>
Ready ==
    /\ op.kind = "load" /\ op.at = "starting" /\ server # NoServer
    /\ status' = [status EXCEPT !.phase = "ready"] /\ Done
    /\ UNCHANGED <<files, settings, server, user, talk, loads>>
(* It exited, or did not come up in time and is stopped. *)
NotReady ==
    /\ op.kind = "load" /\ op.at = "starting"
    /\ server' = NoServer /\ status' = [phase |-> "error", model |-> NoModel] /\ Done
    /\ UNCHANGED <<files, settings, user, talk, loads>>

UnloadModel ==
    /\ Exclusive /\ server # NoServer
    /\ op' = [Idle EXCEPT !.kind = "unload", !.at = "stop"]
    /\ UNCHANGED <<files, settings, server, status, user, talk, loads>>
Stop ==
    /\ op.kind = "unload"
    /\ server' = NoServer /\ status' = Stopped /\ Done
    /\ UNCHANGED <<files, settings, user, talk, loads>>

(* delete_installed_model. *)
DeleteModel(m) ==
    /\ Exclusive /\ Quiet /\ m \in files
    /\ op' = [Idle EXCEPT !.kind = "delete", !.at = "stop", !.model = m]
    /\ UNCHANGED <<files, settings, server, status, user, talk, loads>>
StopDeleted ==
    /\ op.kind = "delete" /\ op.at = "stop"
    /\ IF status.model = op.model
       THEN server' = NoServer /\ status' = Stopped
       ELSE UNCHANGED <<server, status>>
    /\ op' = [op EXCEPT !.at = "remove", !.config = selected]
    /\ UNCHANGED <<files, settings, user, talk, loads>>
RemoveFile ==
    /\ op.kind = "delete" /\ op.at = "remove"
    /\ files' = files \ {op.model}
    /\ profiles' = [profiles EXCEPT ![op.model] = NoModel]
    /\ To("clear")
    /\ UNCHANGED <<selected, config, wanted, mixed, server, status, user, talk, loads>>
RemoveFails ==
    /\ op.kind = "delete" /\ op.at = "remove"
    /\ Done
    /\ UNCHANGED <<files, settings, server, status, user, talk, loads>>
Keeps(s) == selected
Clears(s) == IF s = op.model THEN NoModel ELSE selected
ClearSelection ==
    /\ op.kind = "delete" /\ op.at = "clear"
    /\ selected' = Clears(op.config)
    /\ wanted' = [wanted EXCEPT ![op.model] = Initial] /\ mixed' = mixed \ {op.model}
    /\ Done
    /\ UNCHANGED <<files, config, profiles, server, status, user, talk, loads>>

-----------------------------------------------------------------------------
(* save_runtime_config: the store first, then the active profile.           *)
SaveConfig(c) ==
    /\ saving = NoModel /\ saves < MaxSaves /\ (Overlap \/ Ungated)
    /\ config' = c /\ saving' = c /\ saves' = saves + 1
    /\ wanted' = IF selected = NoModel THEN wanted ELSE [wanted EXCEPT ![selected] = c]
    /\ mixed' = mixed \ {selected}
    /\ UNCHANGED <<files, selected, profiles, server, status, op, talk, loads>>
SaveProfile ==
    /\ saving # NoModel
    /\ profiles' = Profiled(saving) /\ saving' = NoModel
    /\ UNCHANGED <<files, selected, config, wanted, mixed, server, status, op, saves, talk, loads>>

(* save_preferences: the Models page saves the path of a model, even of one *)
(* that is gone, and leaves the settings in the store.  It asks no gate.    *)
SavePreferences(m) ==
    /\ saving = NoModel /\ saves < MaxSaves /\ (Overlap \/ Ungated)
    /\ m # selected /\ selected' = m /\ saves' = saves + 1
    /\ mixed' = IF config = wanted[m] THEN mixed ELSE mixed \cup {m}
    /\ UNCHANGED <<files, config, profiles, wanted, server, status, op, saving, talk, loads>>

(* The server exits by itself; inspect finds out. *)
Exits ==
    /\ server # NoServer
    /\ server' = NoServer
    /\ UNCHANGED <<files, settings, status, op, user, talk, loads>>
Inspect ==
    /\ server = NoServer /\ status.phase = "ready"
    /\ status' = [phase |-> "error", model |-> NoModel]
    /\ UNCHANGED <<files, settings, server, op, user, talk, loads>>

(* A turn takes the endpoint of a server that is ready. *)
Begin ==
    /\ Shared /\ turn = NoModel /\ turns < MaxTurns
    /\ status.phase = "ready" /\ server # NoServer
    /\ turn' = server /\ turns' = turns + 1
    /\ UNCHANGED <<files, settings, server, status, op, user, child, answered, loads>>
(* Its child goes on in the background, with the same endpoint. *)
Delegates ==
    /\ turn # NoModel /\ child = NoModel /\ child' = turn
    /\ UNCHANGED <<files, settings, server, status, op, user, turn, turns, answered, loads>>
Ends ==
    /\ turn # NoModel /\ turn' = NoModel
    /\ UNCHANGED <<files, settings, server, status, op, user, child, turns, answered, loads>>
ChildEnds ==
    /\ child # NoModel /\ child' = NoModel
    /\ UNCHANGED <<files, settings, server, status, op, user, turn, turns, answered, loads>>
(* A request reaches whoever listens on the port, and is let in by the key. *)
Asks(who) ==
    /\ who # NoModel /\ server # NoServer
    /\ who.port = server.port /\ who.key = server.key
    /\ answered' = (answered \/ who.model # server.model)
    /\ UNCHANGED <<files, settings, server, status, op, user, turn, child, turns, loads>>

Operation ==
    \/ LoadModel \/ ReadSettings \/ WriteSettings \/ WriteProfile
    \/ Invalid \/ \E p \in Ports : Launch(p)
    \/ NotSpawned \/ Ready \/ NotReady
    \/ UnloadModel \/ Stop
    \/ StopDeleted \/ RemoveFile \/ RemoveFails \/ ClearSelection

Next ==
    \/ Operation
    \/ \E m \in Models : UseModel(m) \/ DeleteModel(m) \/ SavePreferences(m)
    \/ \E c \in Configs : SaveConfig(c)
    \/ SaveProfile
    \/ Exits \/ Inspect
    \/ Begin \/ Delegates \/ Ends \/ ChildEnds
    \/ Asks(turn) \/ Asks(child)

Spec == Init /\ [][Next]_vars

-----------------------------------------------------------------------------
(* While a turn runs, nobody stops or replaces the server it talks to: it   *)
(* can only exit by itself (OperationGate, load_model, unload_model).       *)
NoSwapUnderTurn ==
    [][turn # NoModel /\ turn' = turn /\ server # NoServer => server' = server \/ Exits]_vars

(* Nobody's request is answered by another model than the one it was made   *)
(* for, even from a child that outlived its turn and a port that came back  *)
(* (Runtime::load: a key of its own for every start).                       *)
OwnModelAnswers == ~answered

(* A model that is up runs with the settings the user last chose for it,    *)
(* through every switch and deletion (use_installed_model, write_profile).  *)
(* One that save_preferences selected beside other settings runs with those *)
(* until the user saves settings for it: nobody else's are touched.         *)
SettingsFollowTheModel ==
    status.phase = "loading" /\ server # NoServer /\ saving = NoModel /\ server.model \notin mixed =>
        server.config = wanted[server.model]

(* The same without that exemption: whatever is up has the settings the     *)
(* user chose for it.  The code does not keep this: save_preferences.       *)
SettingsOfItsOwn ==
    status.phase = "loading" /\ server # NoServer /\ saving = NoModel =>
        server.config = wanted[server.model]
=============================================================================
