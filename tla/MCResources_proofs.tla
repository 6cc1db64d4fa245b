------------------------- MODULE MCResources_proofs -------------------------
(* Proofs about the resources outside the conversation: the local model and *)
(* its settings, what a download may do to its destination, when a staged   *)
(* revert may go, what becomes of the databases of a rehearsal, and what a  *)
(* reader gets of the output of a process.                                  *)
EXTENDS MCResources, Sequences, SequenceTheorems, FiniteSetTheorems, WellFoundedInduction, TLAPS

-----------------------------------------------------------------------------
(* The local model *)

Settings == Configs \cup {Initial}

OpPlaces == {"idle", "read", "write", "profile", "launch", "starting", "stop", "remove", "clear"}

LocalType ==
    /\ files \subseteq Models /\ selected \in Models \cup {NoModel}
    /\ config \in Settings
    /\ profiles \in [Models -> Settings \cup {NoModel}]
    /\ wanted \in [Models -> Settings] /\ mixed \subseteq Models
    /\ operation \in [kind : {"none", "load", "unload", "delete"}, at : OpPlaces, model : Models \cup {NoModel},
                      config : Settings \cup Models \cup {NoModel}]
    /\ saving \in Settings \cup {NoModel}

(* An exclusive operation and a turn are never there together. *)
GateHolds == operation = Local!Idle \/ turn = NoModel

Loading == operation.kind = "load"
Deleting == operation.kind = "delete"
Clearing(m) == Deleting /\ operation.at = "clear" /\ operation.model = m

(* The settings in the store are those wanted of the selected model, and so *)
(* are those on their way to its profile.                                   *)
SelectedWanted ==
    selected # NoModel =>
        /\ selected \notin mixed => config = wanted[selected]
        /\ saving # NoModel => selected \notin mixed /\ saving = wanted[selected]

(* Every model finds its own in its profile, but for one whose settings are *)
(* on their way.                                                            *)
OthersWanted ==
    \A m \in Models \ mixed :
        (m # selected \/ saving = NoModel) /\ ~Clearing(m) => Local!Restored(m, profiles) = wanted[m]

(* What an operation has read still stands. *)
ReadsStand ==
    /\ Loading /\ operation.at \in {"write", "profile", "launch"} =>
          operation.model = selected /\ operation.config = config
    /\ Deleting => operation.model \in Models
    /\ Deleting /\ operation.at \in {"remove", "clear"} => operation.config = selected
    /\ Deleting /\ operation.at = "clear" => profiles[operation.model] = NoModel
    /\ Loading \/ Deleting => saving = NoModel

(* Only a load in its last step is loading, with the settings it read. *)
LoadingWanted ==
    /\ status.phase = "loading" => Loading /\ operation.at = "starting"
    /\ status.phase = "loading" /\ server # Local!NoServer =>
          /\ server.model \in Models
          /\ server.model \notin mixed => server.config = wanted[server.model]

SettingsInv == LocalType /\ SelectedWanted /\ OthersWanted /\ ReadsStand /\ LoadingWanted

LEMMA InitSettings == Init => SettingsInv
<1> SUFFICES ASSUME Local!Init PROVE SettingsInv
  BY DEF Init
<1> USE ResourcesAssumption DEF Local!Init, Settings, Loading, Deleting, Clearing, Local!Idle,
        Local!Stopped, Local!NoServer
<1>1. LocalType
  BY DEF LocalType, OpPlaces
<1>2. SelectedWanted /\ OthersWanted
  BY DEF SelectedWanted, OthersWanted, Local!Restored
<1>3. ReadsStand /\ LoadingWanted
  BY DEF ReadsStand, LoadingWanted
<1> QED BY <1>1, <1>2, <1>3 DEF SettingsInv

(* Every step of an operation, of the user and of the server keeps it, as  *)
(* long as settings are not saved while an operation runs.                 *)
LEMMA LocalSettings == ASSUME ~Overlap, SettingsInv, Local!Next PROVE SettingsInv'
<1> USE ResourcesAssumption DEF SettingsInv, Settings, Loading, Deleting, Clearing, Local!Idle,
        Local!Stopped, Local!NoServer, Local!settings, Local!talk, Local!user, Local!Done,
        Local!To, Local!Quiet, Local!Exclusive
<1>1. ASSUME Local!LoadModel PROVE SettingsInv'
  <2> USE <1>1 DEF Local!LoadModel
  <2>1. LocalType'
    BY DEF LocalType, OpPlaces
  <2>2. SelectedWanted'
    BY DEF LocalType, SelectedWanted, ReadsStand
  <2>3. OthersWanted'
    BY DEF LocalType, OpPlaces, OthersWanted, SelectedWanted, ReadsStand, Local!Restored
  <2>4. ReadsStand'
    BY DEF LocalType, ReadsStand
  <2>5. LoadingWanted'
    BY DEF LocalType, LoadingWanted, SelectedWanted, ReadsStand
  <2> QED BY <2>1, <2>2, <2>3, <2>4, <2>5 DEF SettingsInv
<1>2. ASSUME Local!ReadSettings PROVE SettingsInv'
  <2> USE <1>2 DEF Local!ReadSettings
  <2>1. LocalType'
    BY DEF LocalType, OpPlaces
  <2>2. SelectedWanted'
    BY DEF LocalType, SelectedWanted, ReadsStand
  <2>3. OthersWanted'
    BY DEF LocalType, OpPlaces, OthersWanted, SelectedWanted, ReadsStand, Local!Restored
  <2>4. ReadsStand'
    BY DEF LocalType, ReadsStand
  <2>5. LoadingWanted'
    BY DEF LocalType, LoadingWanted, SelectedWanted, ReadsStand
  <2> QED BY <2>1, <2>2, <2>3, <2>4, <2>5 DEF SettingsInv
<1>3. ASSUME Local!WriteSettings PROVE SettingsInv'
  <2> USE <1>3 DEF Local!WriteSettings
  <2>1. LocalType'
    BY DEF LocalType, OpPlaces, ReadsStand
  <2>2. SelectedWanted'
    BY DEF LocalType, SelectedWanted, ReadsStand
  <2>3. OthersWanted'
    BY DEF LocalType, OpPlaces, OthersWanted, SelectedWanted, ReadsStand, Local!Restored
  <2>4. ReadsStand'
    BY DEF LocalType, ReadsStand
  <2>5. LoadingWanted'
    BY DEF LocalType, LoadingWanted, SelectedWanted, ReadsStand
  <2> QED BY <2>1, <2>2, <2>3, <2>4, <2>5 DEF SettingsInv
<1>4. ASSUME Local!WriteProfile PROVE SettingsInv'
  <2> USE <1>4 DEF Local!WriteProfile, Local!Profiled
  <2>1. LocalType'
    BY DEF LocalType, OpPlaces, ReadsStand
  <2>2. SelectedWanted'
    BY DEF LocalType, SelectedWanted, ReadsStand
  <2>3. OthersWanted'
    BY DEF LocalType, OpPlaces, OthersWanted, SelectedWanted, ReadsStand, Local!Restored
  <2>4. ReadsStand'
    BY DEF LocalType, ReadsStand
  <2>5. LoadingWanted'
    BY DEF LocalType, LoadingWanted, SelectedWanted, ReadsStand
  <2> QED BY <2>1, <2>2, <2>3, <2>4, <2>5 DEF SettingsInv
<1>5. ASSUME Local!Invalid PROVE SettingsInv'
  <2> USE <1>5 DEF Local!Invalid
  <2>1. LocalType'
    BY DEF LocalType, OpPlaces
  <2>2. SelectedWanted'
    BY DEF LocalType, SelectedWanted, ReadsStand
  <2>3. OthersWanted'
    BY DEF LocalType, OpPlaces, OthersWanted, SelectedWanted, ReadsStand, Local!Restored
  <2>4. ReadsStand'
    BY DEF LocalType, ReadsStand
  <2>5. LoadingWanted'
    BY DEF LocalType, LoadingWanted, SelectedWanted, ReadsStand
  <2> QED BY <2>1, <2>2, <2>3, <2>4, <2>5 DEF SettingsInv
<1>6. ASSUME NEW p \in Ports, Local!Launch(p) PROVE SettingsInv'
  <2> USE <1>6 DEF Local!Launch
  <2>1. LocalType'
    BY DEF LocalType, OpPlaces
  <2>2. SelectedWanted'
    BY DEF LocalType, SelectedWanted, ReadsStand
  <2>3. OthersWanted'
    BY DEF LocalType, OpPlaces, OthersWanted, SelectedWanted, ReadsStand, Local!Restored
  <2>4. ReadsStand'
    BY DEF LocalType, ReadsStand
  <2>5. LoadingWanted'
    BY DEF LocalType, LoadingWanted, SelectedWanted, ReadsStand
  <2> QED BY <2>1, <2>2, <2>3, <2>4, <2>5 DEF SettingsInv
<1>7. ASSUME Local!NotSpawned PROVE SettingsInv'
  <2> USE <1>7 DEF Local!NotSpawned
  <2>1. LocalType'
    BY DEF LocalType, OpPlaces
  <2>2. SelectedWanted'
    BY DEF LocalType, SelectedWanted, ReadsStand
  <2>3. OthersWanted'
    BY DEF LocalType, OpPlaces, OthersWanted, SelectedWanted, ReadsStand, Local!Restored
  <2>4. ReadsStand'
    BY DEF LocalType, ReadsStand
  <2>5. LoadingWanted'
    BY DEF LocalType, LoadingWanted, SelectedWanted, ReadsStand
  <2> QED BY <2>1, <2>2, <2>3, <2>4, <2>5 DEF SettingsInv
<1>8. ASSUME Local!Ready PROVE SettingsInv'
  <2> USE <1>8 DEF Local!Ready
  <2>1. LocalType'
    BY DEF LocalType, OpPlaces
  <2>2. SelectedWanted'
    BY DEF LocalType, SelectedWanted, ReadsStand
  <2>3. OthersWanted'
    BY DEF LocalType, OpPlaces, OthersWanted, SelectedWanted, ReadsStand, Local!Restored
  <2>4. ReadsStand'
    BY DEF LocalType, ReadsStand
  <2>5. LoadingWanted'
    BY DEF LocalType, LoadingWanted, SelectedWanted, ReadsStand
  <2> QED BY <2>1, <2>2, <2>3, <2>4, <2>5 DEF SettingsInv
<1>9. ASSUME Local!NotReady PROVE SettingsInv'
  <2> USE <1>9 DEF Local!NotReady
  <2>1. LocalType'
    BY DEF LocalType, OpPlaces
  <2>2. SelectedWanted'
    BY DEF LocalType, SelectedWanted, ReadsStand
  <2>3. OthersWanted'
    BY DEF LocalType, OpPlaces, OthersWanted, SelectedWanted, ReadsStand, Local!Restored
  <2>4. ReadsStand'
    BY DEF LocalType, ReadsStand
  <2>5. LoadingWanted'
    BY DEF LocalType, LoadingWanted, SelectedWanted, ReadsStand
  <2> QED BY <2>1, <2>2, <2>3, <2>4, <2>5 DEF SettingsInv
<1>10. ASSUME Local!UnloadModel PROVE SettingsInv'
  <2> USE <1>10 DEF Local!UnloadModel
  <2>1. LocalType'
    BY DEF LocalType, OpPlaces
  <2>2. SelectedWanted'
    BY DEF LocalType, SelectedWanted, ReadsStand
  <2>3. OthersWanted'
    BY DEF LocalType, OpPlaces, OthersWanted, SelectedWanted, ReadsStand, Local!Restored
  <2>4. ReadsStand'
    BY DEF LocalType, ReadsStand
  <2>5. LoadingWanted'
    BY DEF LocalType, LoadingWanted, SelectedWanted, ReadsStand
  <2> QED BY <2>1, <2>2, <2>3, <2>4, <2>5 DEF SettingsInv
<1>11. ASSUME Local!Stop PROVE SettingsInv'
  <2> USE <1>11 DEF Local!Stop
  <2>1. LocalType'
    BY DEF LocalType, OpPlaces
  <2>2. SelectedWanted'
    BY DEF LocalType, SelectedWanted, ReadsStand
  <2>3. OthersWanted'
    BY DEF LocalType, OpPlaces, OthersWanted, SelectedWanted, ReadsStand, Local!Restored
  <2>4. ReadsStand'
    BY DEF LocalType, ReadsStand
  <2>5. LoadingWanted'
    BY DEF LocalType, LoadingWanted, SelectedWanted, ReadsStand
  <2> QED BY <2>1, <2>2, <2>3, <2>4, <2>5 DEF SettingsInv
<1>12. ASSUME Local!StopDeleted PROVE SettingsInv'
  <2> USE <1>12 DEF Local!StopDeleted
  <2>1. LocalType'
    BY DEF LocalType, OpPlaces
  <2>2. SelectedWanted'
    BY DEF LocalType, SelectedWanted, ReadsStand
  <2>3. OthersWanted'
    BY DEF LocalType, OpPlaces, OthersWanted, SelectedWanted, ReadsStand, Local!Restored
  <2>4. ReadsStand'
    BY DEF LocalType, ReadsStand
  <2>5. LoadingWanted'
    BY DEF LocalType, LoadingWanted, SelectedWanted, ReadsStand
  <2> QED BY <2>1, <2>2, <2>3, <2>4, <2>5 DEF SettingsInv
<1>13. ASSUME Local!RemoveFile PROVE SettingsInv'
  <2> USE <1>13 DEF Local!RemoveFile
  <2>1. LocalType'
    BY DEF LocalType, OpPlaces
  <2>2. SelectedWanted'
    BY DEF LocalType, SelectedWanted, ReadsStand
  <2>3. OthersWanted'
    BY DEF LocalType, OpPlaces, OthersWanted, SelectedWanted, ReadsStand, Local!Restored
  <2>4. ReadsStand'
    BY DEF LocalType, ReadsStand
  <2>5. LoadingWanted'
    BY DEF LocalType, LoadingWanted, SelectedWanted, ReadsStand
  <2> QED BY <2>1, <2>2, <2>3, <2>4, <2>5 DEF SettingsInv
<1>14. ASSUME Local!RemoveFails PROVE SettingsInv'
  <2> USE <1>14 DEF Local!RemoveFails
  <2>1. LocalType'
    BY DEF LocalType, OpPlaces
  <2>2. SelectedWanted'
    BY DEF LocalType, SelectedWanted, ReadsStand
  <2>3. OthersWanted'
    BY DEF LocalType, OpPlaces, OthersWanted, SelectedWanted, ReadsStand, Local!Restored
  <2>4. ReadsStand'
    BY DEF LocalType, ReadsStand
  <2>5. LoadingWanted'
    BY DEF LocalType, LoadingWanted, SelectedWanted, ReadsStand
  <2> QED BY <2>1, <2>2, <2>3, <2>4, <2>5 DEF SettingsInv
<1>15. ASSUME Local!ClearSelection PROVE SettingsInv'
  <2> USE <1>15 DEF Local!ClearSelection, Local!Clears
  <2>1. LocalType'
    BY DEF LocalType, OpPlaces
  <2>2. SelectedWanted'
    BY DEF LocalType, SelectedWanted, ReadsStand
  <2>3. OthersWanted'
    BY DEF LocalType, OpPlaces, OthersWanted, SelectedWanted, ReadsStand, Local!Restored
  <2>4. ReadsStand'
    BY DEF LocalType, ReadsStand
  <2>5. LoadingWanted'
    BY DEF LocalType, LoadingWanted, SelectedWanted, ReadsStand
  <2> QED BY <2>1, <2>2, <2>3, <2>4, <2>5 DEF SettingsInv
<1>16. ASSUME NEW m \in Models, Local!UseModel(m) PROVE SettingsInv'
  <2> DEFINE kept == IF selected = NoModel THEN profiles
                     ELSE [profiles EXCEPT ![selected] = config]
             new == IF selected = m THEN config ELSE Local!Restored(m, kept)
  <2>1. /\ config' = new /\ profiles' = [kept EXCEPT ![m] = new]
        /\ selected' = m /\ operation' = [Local!Idle EXCEPT !.kind = "load", !.at = "read"]
        /\ operation = Local!Idle /\ saving = NoModel
        /\ UNCHANGED <<files, wanted, mixed, server, status, saving>>
    BY <1>16 DEF Local!UseModel
  <2>2. kept \in [Models -> Settings \cup {NoModel}]
    BY DEF LocalType
  <2>3. new \in Settings /\ (m \notin mixed => new = wanted[m])
    <3>1. CASE selected = m
      BY <3>1 DEF LocalType, SelectedWanted
    <3>2. CASE selected # m
      <4>1. kept[m] = profiles[m]
        BY <3>2 DEF LocalType
      <4>2. m \notin mixed => Local!Restored(m, profiles) = wanted[m]
        BY <2>1, <3>2 DEF OthersWanted
      <4> QED BY <2>2, <3>2, <4>1, <4>2 DEF LocalType, Local!Restored
    <3> QED BY <3>1, <3>2
  <2> HIDE DEF kept, new
  <2>4. LocalType'
    BY <2>1, <2>2, <2>3 DEF LocalType, OpPlaces
  <2>5. SelectedWanted'
    BY <2>1, <2>3 DEF SelectedWanted
  <2>6. ASSUME NEW n \in Models \ mixed, n # m PROVE Local!Restored(n, kept) = wanted[n]
    BY <2>1, <2>6 DEF LocalType, OthersWanted, SelectedWanted, Local!Restored, kept
  <2>7. OthersWanted'
    BY <2>1, <2>2, <2>3, <2>6 DEF OthersWanted, Local!Restored
  <2>8. ReadsStand' /\ LoadingWanted'
    BY <2>1 DEF ReadsStand, LoadingWanted
  <2> QED BY <2>4, <2>5, <2>7, <2>8
<1>17. ASSUME NEW m \in Models, Local!DeleteModel(m) PROVE SettingsInv'
  <2> USE <1>17 DEF Local!DeleteModel
  <2>1. LocalType'
    BY DEF LocalType, OpPlaces
  <2>2. SelectedWanted'
    BY DEF LocalType, SelectedWanted, ReadsStand
  <2>3. OthersWanted'
    BY DEF LocalType, OpPlaces, OthersWanted, SelectedWanted, ReadsStand, Local!Restored
  <2>4. ReadsStand'
    BY DEF LocalType, ReadsStand
  <2>5. LoadingWanted'
    BY DEF LocalType, LoadingWanted, SelectedWanted, ReadsStand
  <2> QED BY <2>1, <2>2, <2>3, <2>4, <2>5 DEF SettingsInv
<1>18. ASSUME NEW c \in Configs, Local!SaveConfig(c) PROVE SettingsInv'
  <2> USE <1>18 DEF Local!SaveConfig, Local!Ungated
  <2>1. LocalType'
    BY DEF LocalType, OpPlaces
  <2>2. SelectedWanted'
    BY DEF LocalType, SelectedWanted, ReadsStand
  <2>3. OthersWanted'
    BY DEF LocalType, OpPlaces, OthersWanted, SelectedWanted, ReadsStand, Local!Restored
  <2>4. ReadsStand'
    BY DEF LocalType, ReadsStand
  <2>5. LoadingWanted'
    BY DEF LocalType, LoadingWanted, SelectedWanted, ReadsStand
  <2> QED BY <2>1, <2>2, <2>3, <2>4, <2>5 DEF SettingsInv
<1>19. ASSUME Local!SaveProfile PROVE SettingsInv'
  <2> USE <1>19 DEF Local!SaveProfile, Local!Profiled
  <2>1. LocalType'
    BY DEF LocalType, OpPlaces
  <2>2. SelectedWanted'
    BY DEF LocalType, SelectedWanted, ReadsStand
  <2>3. OthersWanted'
    BY DEF LocalType, OpPlaces, OthersWanted, SelectedWanted, ReadsStand, Local!Restored
  <2>4. ReadsStand'
    BY DEF LocalType, ReadsStand
  <2>5. LoadingWanted'
    BY DEF LocalType, LoadingWanted, SelectedWanted, ReadsStand
  <2> QED BY <2>1, <2>2, <2>3, <2>4, <2>5 DEF SettingsInv
<1>25. ASSUME NEW m \in Models, Local!SavePreferences(m) PROVE SettingsInv'
  <2> USE <1>25 DEF Local!SavePreferences, Local!Ungated
  <2>1. LocalType'
    BY DEF LocalType, OpPlaces
  <2>2. SelectedWanted'
    BY DEF LocalType, SelectedWanted, ReadsStand
  <2>3. OthersWanted'
    BY DEF LocalType, OpPlaces, OthersWanted, SelectedWanted, ReadsStand, Local!Restored
  <2>4. ReadsStand'
    BY DEF LocalType, ReadsStand
  <2>5. LoadingWanted'
    BY DEF LocalType, LoadingWanted, SelectedWanted, ReadsStand
  <2> QED BY <2>1, <2>2, <2>3, <2>4, <2>5 DEF SettingsInv
<1>20. ASSUME Local!Exits PROVE SettingsInv'
  <2> USE <1>20 DEF Local!Exits
  <2>1. LocalType'
    BY DEF LocalType, OpPlaces
  <2>2. SelectedWanted'
    BY DEF LocalType, SelectedWanted, ReadsStand
  <2>3. OthersWanted'
    BY DEF LocalType, OpPlaces, OthersWanted, SelectedWanted, ReadsStand, Local!Restored
  <2>4. ReadsStand'
    BY DEF LocalType, ReadsStand
  <2>5. LoadingWanted'
    BY DEF LocalType, LoadingWanted, SelectedWanted, ReadsStand
  <2> QED BY <2>1, <2>2, <2>3, <2>4, <2>5 DEF SettingsInv
<1>21. ASSUME Local!Inspect PROVE SettingsInv'
  <2> USE <1>21 DEF Local!Inspect
  <2>1. LocalType'
    BY DEF LocalType, OpPlaces
  <2>2. SelectedWanted'
    BY DEF LocalType, SelectedWanted, ReadsStand
  <2>3. OthersWanted'
    BY DEF LocalType, OpPlaces, OthersWanted, SelectedWanted, ReadsStand, Local!Restored
  <2>4. ReadsStand'
    BY DEF LocalType, ReadsStand
  <2>5. LoadingWanted'
    BY DEF LocalType, LoadingWanted, SelectedWanted, ReadsStand
  <2> QED BY <2>1, <2>2, <2>3, <2>4, <2>5 DEF SettingsInv
<1>22. ASSUME UNCHANGED <<files, selected, config, profiles, wanted, mixed, status, server, operation,
                          saving>>
       PROVE  SettingsInv'
  BY <1>22 DEF LocalType, SelectedWanted, OthersWanted, Local!Restored, ReadsStand, LoadingWanted
<1>23. CASE Local!Operation
  BY <1>1, <1>2, <1>3, <1>4, <1>5, <1>6, <1>7, <1>8, <1>9, <1>10, <1>11, <1>12, <1>13, <1>14,
     <1>15, <1>23 DEF Local!Operation
<1>24. CASE Local!Begin \/ Local!Delegates \/ Local!Ends \/ Local!ChildEnds \/ Local!Asks(turn)
            \/ Local!Asks(delegate)
  BY <1>22, <1>24 DEF Local!Begin, Local!Delegates, Local!Ends, Local!ChildEnds, Local!Asks
<1> QED
  BY <1>16, <1>17, <1>18, <1>19, <1>20, <1>21, <1>23, <1>24, <1>25 DEF Local!Next

(* Steps of the other services leave the local model alone. *)
LEMMA LocalOrNot == ASSUME [Next]_vars PROVE Local!Next \/ UNCHANGED local
BY DEF Next, vars, OutputStep, ProcessStep, SnapshotStep, TransferStep, LocalStep, RehearsalStep,
   NotOutput, NotProcesses, NotSnapshots, NotDownload, NotRehearsal

(* A model that is up has the settings the user last chose for it, through  *)
(* every load, switch, save, selection and deletion (use_installed_model,   *)
(* write_profile), unless save_preferences selected it beside settings that *)
(* are not its own; for any number of models, settings and loads, as long   *)
(* as nothing is saved while an operation runs.                             *)
THEOREM SettingsFollow == ASSUME ~Overlap PROVE Spec => []SettingsFollowTheModel
<1>1. SettingsInv /\ [Next]_vars => SettingsInv'
  <2> SUFFICES ASSUME SettingsInv, [Next]_vars PROVE SettingsInv'
    OBVIOUS
  <2>1. CASE Local!Next
    BY <2>1, LocalSettings
  <2>2. CASE UNCHANGED local
    BY <2>2 DEF local, SettingsInv, LocalType, SelectedWanted, OthersWanted, Local!Restored,
       ReadsStand, LoadingWanted, Loading, Deleting, Clearing
  <2> QED BY <2>1, <2>2, LocalOrNot
<1>2. SettingsInv => SettingsFollowTheModel
  BY DEF SettingsInv, LoadingWanted, SettingsFollowTheModel, Local!SettingsFollowTheModel
<1> QED BY <1>1, <1>2, InitSettings, PTL DEF Spec

(* The gate: an operation begins without a turn, a turn without one. *)
LEMMA GateStep == ASSUME GateHolds, [Next]_vars PROVE GateHolds'
<1> USE DEF GateHolds, Local!Idle
<1>1. CASE Local!Operation
  BY <1>1 DEF Local!Operation, Local!LoadModel, Local!ReadSettings, Local!WriteSettings,
     Local!WriteProfile, Local!Invalid, Local!Launch, Local!NotSpawned, Local!Ready,
     Local!NotReady, Local!UnloadModel, Local!Stop, Local!StopDeleted, Local!RemoveFile,
     Local!RemoveFails, Local!ClearSelection, Local!Done, Local!To, Local!Exclusive, Local!talk
<1>2. ASSUME NEW m \in Models, Local!UseModel(m) \/ Local!DeleteModel(m) \/ Local!SavePreferences(m)
      PROVE  GateHolds'
  BY <1>2 DEF Local!UseModel, Local!DeleteModel, Local!SavePreferences, Local!Exclusive, Local!talk
<1>3. ASSUME NEW c \in Configs, Local!SaveConfig(c) PROVE GateHolds'
  BY <1>3 DEF Local!SaveConfig, Local!talk
<1>4. CASE Local!SaveProfile \/ Local!Exits \/ Local!Inspect \/ Local!Asks(turn)
           \/ Local!Asks(delegate)
  BY <1>4 DEF Local!SaveProfile, Local!Exits, Local!Inspect, Local!Asks, Local!talk
<1>5. CASE Local!Begin \/ Local!Delegates \/ Local!Ends \/ Local!ChildEnds
  BY <1>5 DEF Local!Begin, Local!Delegates, Local!Ends, Local!ChildEnds, Local!Shared
<1>6. CASE UNCHANGED local
  BY <1>6 DEF local
<1> QED BY <1>1, <1>2, <1>3, <1>4, <1>5, <1>6, LocalOrNot DEF Local!Next

(* While a turn runs, nobody stops or replaces the server it talks to: only *)
(* the server itself can exit (OperationGate), for any number of models and *)
(* turns, with or without settings that are saved meanwhile.                *)
THEOREM NoSwap == Spec => NoSwapUnderTurn
<1> DEFINE Kept == turn # NoModel /\ turn' = turn /\ server # Local!NoServer =>
                     server' = server \/ Local!Exits
<1>1. Init => GateHolds
  BY DEF Init, Local!Init, GateHolds
<1>2. GateHolds /\ [Next]_vars => GateHolds'
  BY GateStep
<1>3. GateHolds /\ [Next]_vars => [Kept]_Local!vars
  <2> SUFFICES ASSUME GateHolds, [Next]_vars PROVE Kept \/ UNCHANGED Local!vars
    OBVIOUS
  <2>1. CASE Local!Operation
    BY <2>1 DEF GateHolds, Local!Idle, Local!Operation, Local!LoadModel, Local!ReadSettings,
       Local!WriteSettings, Local!WriteProfile, Local!Invalid, Local!Launch, Local!NotSpawned,
       Local!Ready, Local!NotReady, Local!UnloadModel, Local!Stop, Local!StopDeleted,
       Local!RemoveFile, Local!RemoveFails, Local!ClearSelection, Local!Exclusive
  <2>2. ASSUME NEW m \in Models, Local!UseModel(m) \/ Local!DeleteModel(m) \/ Local!SavePreferences(m)
        PROVE  Kept
    BY <2>2 DEF Local!UseModel, Local!DeleteModel, Local!SavePreferences
  <2>3. ASSUME NEW c \in Configs, Local!SaveConfig(c) PROVE Kept
    BY <2>3 DEF Local!SaveConfig
  <2>4. CASE Local!SaveProfile \/ Local!Exits \/ Local!Inspect \/ Local!Asks(turn)
             \/ Local!Asks(delegate)
    BY <2>4 DEF Local!SaveProfile, Local!Inspect, Local!Asks
  <2>5. CASE Local!Begin \/ Local!Delegates \/ Local!Ends \/ Local!ChildEnds
    BY <2>5 DEF Local!Begin, Local!Delegates, Local!Ends, Local!ChildEnds
  <2>6. CASE UNCHANGED local
    BY <2>6 DEF local
  <2> QED BY <2>1, <2>2, <2>3, <2>4, <2>5, <2>6, LocalOrNot DEF Local!Next
<1> QED BY <1>1, <1>2, <1>3, PTL DEF Spec, NoSwapUnderTurn, Local!NoSwapUnderTurn

(* Keys are never given twice: whoever has the key of the server that is up *)
(* was given it for that server's model.                                    *)
KeysOwn ==
    /\ loads \in Nat /\ ~answered
    /\ server # Local!NoServer => server.key <= loads
    /\ server # Local!NoServer => server.key \in Nat
    /\ \A who \in {turn, delegate} \ {NoModel} :
          /\ who.key \in Nat /\ who.key <= loads
          /\ server # Local!NoServer /\ who.key = server.key => who.model = server.model

(* Nobody's request is answered by another model than the one it was made   *)
(* for, even from a child that outlived its turn and on a port that another *)
(* server has taken over (Runtime::load: a key of its own for every start). *)
THEOREM OwnModelOnly == Spec => []Local!OwnModelAnswers
<1>1. Init => KeysOwn
  BY DEF Init, Local!Init, KeysOwn
<1>2. KeysOwn /\ [Next]_vars => KeysOwn'
  <2> SUFFICES ASSUME KeysOwn, [Next]_vars PROVE KeysOwn'
    OBVIOUS
  <2> USE DEF KeysOwn
  <2>1. ASSUME NEW p \in Ports, Local!Launch(p) PROVE KeysOwn'
    BY <2>1 DEF Local!Launch, Local!FreshKey, Local!talk
  <2>2. CASE \/ Local!LoadModel \/ Local!ReadSettings \/ Local!WriteSettings
             \/ Local!WriteProfile \/ Local!Invalid \/ Local!NotSpawned \/ Local!Ready
             \/ Local!NotReady \/ Local!UnloadModel \/ Local!Stop \/ Local!StopDeleted
             \/ Local!RemoveFile \/ Local!RemoveFails \/ Local!ClearSelection
    BY <2>2 DEF Local!LoadModel, Local!ReadSettings, Local!WriteSettings,
       Local!WriteProfile, Local!Invalid, Local!NotSpawned, Local!Ready, Local!NotReady,
       Local!UnloadModel, Local!Stop, Local!StopDeleted, Local!RemoveFile,
       Local!RemoveFails, Local!ClearSelection, Local!talk
  <2>3. ASSUME NEW m \in Models, Local!UseModel(m) \/ Local!DeleteModel(m) \/ Local!SavePreferences(m)
        PROVE  KeysOwn'
    BY <2>3 DEF Local!UseModel, Local!DeleteModel, Local!SavePreferences, Local!talk
  <2>4. ASSUME NEW c \in Configs, Local!SaveConfig(c) PROVE KeysOwn'
    BY <2>4 DEF Local!SaveConfig, Local!talk
  <2>5. CASE Local!SaveProfile \/ Local!Exits \/ Local!Inspect
    BY <2>5 DEF Local!SaveProfile, Local!Exits, Local!Inspect, Local!talk
  <2>6. CASE Local!Begin \/ Local!Delegates \/ Local!Ends \/ Local!ChildEnds
    BY <2>6 DEF Local!Begin, Local!Delegates, Local!Ends, Local!ChildEnds
  <2>7. CASE Local!Asks(turn) \/ Local!Asks(delegate)
    BY <2>7 DEF Local!Asks
  <2>8. CASE UNCHANGED local
    BY <2>8 DEF local
  <2> QED
    BY <2>1, <2>2, <2>3, <2>4, <2>5, <2>6, <2>7, <2>8, LocalOrNot DEF Local!Next, Local!Operation
<1> QED BY <1>1, <1>2, PTL DEF Spec, KeysOwn, Local!OwnModelAnswers

-----------------------------------------------------------------------------
(* The download *)

(* While bytes arrive, a right hash means that the saved bytes are right,   *)
(* and so is what passed the check; only without links is a file renamed.   *)
HashIsPart ==
    /\ fetch \in {"request", "stream", "check"} => (hash => part.right)
    /\ fetch \in {"install", "rename"} => part.right
    /\ fetch = "rename" => ~links
    /\ dest # "bad"

(* Steps of the other services leave the download alone. *)
LEMMA TransferOrNot == ASSUME [Next]_vars PROVE Transfer!Next \/ UNCHANGED download
BY DEF Next, vars, OutputStep, ProcessStep, SnapshotStep, TransferStep, LocalStep, RehearsalStep,
   NotOutput, NotProcesses, NotSnapshots, NotLocal, NotRehearsal

LEMMA InitHash == Init => HashIsPart
<1> SUFFICES ASSUME Transfer!Init PROVE HashIsPart
  BY DEF Init
<1> QED BY DEF Transfer!Init, HashIsPart

LEMMA HashStep == ASSUME HashIsPart, Transfer!Next PROVE HashIsPart'
<1> USE DEF HashIsPart, Transfer!Units, Transfer!NoPart, Transfer!Idle, Transfer!Saved,
        Transfer!Fails, Transfer!transfer
<1>1. CASE Transfer!Begin
  BY <1>1 DEF Transfer!Begin
<1>2. CASE Transfer!Rehash
  BY <1>2 DEF Transfer!Rehash
<1>3. ASSUME fetch \in {"request", "stream"}, Transfer!Transient PROVE HashIsPart'
  BY <1>3 DEF Transfer!Transient
<1>4. CASE Transfer!NoAnswer \/ Transfer!StreamEnds
  BY <1>3, <1>4 DEF Transfer!NoAnswer, Transfer!StreamEnds
<1>5. CASE Transfer!Resumes \/ Transfer!StartsOver
  BY <1>5 DEF Transfer!Resumes, Transfer!StartsOver
<1>6. CASE Transfer!Refused \/ Transfer!WriteFails \/ Transfer!Cancel
           \/ Transfer!DestinationTaken
  BY <1>6 DEF Transfer!Refused, Transfer!WriteFails, Transfer!Cancel, Transfer!DestinationTaken
<1>7. CASE Transfer!Chunk
  BY <1>7 DEF Transfer!Chunk
<1>8. CASE Transfer!Check
  BY <1>8 DEF Transfer!Check, Transfer!Verified
<1>9. CASE Transfer!Link \/ Transfer!Unlink \/ Transfer!LooksFree
  BY <1>9 DEF Transfer!Link, Transfer!Unlink, Transfer!LooksFree, Transfer!Published
<1>10. CASE Transfer!Rename
  BY <1>10 DEF Transfer!Rename, Transfer!Published
<1>11. CASE Transfer!Foreign
  BY <1>11 DEF Transfer!Foreign
<1>12. CASE Transfer!Crash
  BY <1>12 DEF Transfer!Crash
<1> QED
  BY <1>1, <1>2, <1>4, <1>5, <1>6, <1>7, <1>8, <1>9, <1>10, <1>11, <1>12
  DEF Transfer!Next, Transfer!FetchStep

(* Only the pinned bytes are ever published, and a file that is there is    *)
(* not replaced on a volume with hard links, for any size, any number of    *)
(* retries, resumes and crashes, and whatever the service answers           *)
(* (fetch_with_policy, install_verified).                                   *)
THEOREM OnlyPinnedPublished == Spec => DestinationKept
<1> DEFINE Kept == dest' # "bad" /\ (dest = "foreign" /\ links => dest' = "foreign")
<1>1. HashIsPart /\ [Next]_vars => HashIsPart'
  <2> SUFFICES ASSUME HashIsPart, [Next]_vars PROVE HashIsPart'
    OBVIOUS
  <2>1. CASE UNCHANGED download
    BY <2>1 DEF download, HashIsPart
  <2> QED BY <2>1, TransferOrNot, HashStep
<1>2. HashIsPart /\ HashIsPart' /\ [Next]_vars => [Kept]_Transfer!vars
  <2> SUFFICES ASSUME HashIsPart, HashIsPart', [Next]_vars
               PROVE  Kept \/ UNCHANGED Transfer!vars
    OBVIOUS
  <2>1. CASE UNCHANGED download
    BY <2>1 DEF download, Transfer!vars, Transfer!transfer
  <2>2. CASE Transfer!Next
    <3>1. CASE Transfer!Link \/ Transfer!Rename \/ Transfer!Foreign
      BY <3>1 DEF HashIsPart, Transfer!Link, Transfer!Rename, Transfer!Foreign
    <3>2. CASE UNCHANGED dest
      BY <3>2 DEF HashIsPart
    <3>3. Transfer!Link \/ Transfer!Rename \/ Transfer!Foreign \/ UNCHANGED dest
      BY <2>2 DEF Transfer!Next, Transfer!FetchStep, Transfer!Begin, Transfer!Rehash,
         Transfer!Resumes, Transfer!StartsOver, Transfer!NoAnswer, Transfer!Refused,
         Transfer!Chunk, Transfer!StreamEnds, Transfer!WriteFails, Transfer!Check,
         Transfer!Unlink, Transfer!DestinationTaken, Transfer!LooksFree, Transfer!Cancel,
         Transfer!Crash, Transfer!Transient, Transfer!Fails
    <3> QED BY <3>1, <3>2, <3>3
  <2> QED BY <2>1, <2>2, TransferOrNot
<1> QED BY <1>1, <1>2, InitHash, PTL DEF Spec, DestinationKept, Transfer!DestinationKept

-----------------------------------------------------------------------------
(* Snapshots *)

Captures == Files \X (Contents \cup {Absent})

SnapshotType ==
    /\ disk \in [Roots -> [Files -> Contents \cup {Absent, Odd}]]
    /\ root \in Roots /\ tracked \subseteq Files
    /\ rows \in Seq([files : SUBSET Captures, root : Roots])
    /\ staged = 0 \/ staged \in DOMAIN rows
    /\ op \in [kind : {"none", "capture", "commit"}, todo : SUBSET (Files \cup Captures),
               got : SUBSET Captures, failed : SUBSET Files]

(* A snapshot knows a file once. *)
OneEach(captures) == \A a, b \in captures : a[1] = b[1] => a = b

CapturesOnce ==
    /\ \A k \in DOMAIN rows : OneEach(rows[k].files)
    /\ op.kind = "capture" =>
          op.todo \subseteq Files /\ OneEach(op.got) /\ \A a \in op.got : a[1] \notin op.todo

(* What a commit is past is restored, failed, or was changed since. *)
Restoring ==
    op.kind = "commit" =>
        /\ staged \in DOMAIN rows /\ op.todo \subseteq rows[staged].files
        /\ \A file \in rows[staged].files :
              \/ file \in op.todo \/ file[1] \in op.failed
              \/ disk[root][file[1]] = file[2] \/ file[1] \in changed

RevertInv == SnapshotType /\ CapturesOnce /\ Restoring

(* Steps of the other services leave the snapshots alone. *)
LEMMA SnapshotOrNot == ASSUME [Next]_vars PROVE Snapshot!Next \/ UNCHANGED snapshots
BY DEF Next, vars, OutputStep, ProcessStep, SnapshotStep, TransferStep, LocalStep, RehearsalStep,
   NotOutput, NotProcesses, NotDownload, NotLocal, NotRehearsal

LEMMA InitRevert == Init => RevertInv
<1> SUFFICES ASSUME Snapshot!Init PROVE RevertInv
  BY DEF Init
<1>1. root \in Roots
  BY ResourcesAssumption DEF Snapshot!Init
<1>2. disk \in [Roots -> [Files -> Contents \cup {Absent, Odd}]]
  <2> PICK project \in [Files -> {Absent, Odd, CHOOSE v \in Contents : TRUE}] :
        disk = [r \in Roots |-> IF r = root THEN project ELSE [f \in Files |-> Absent]]
    BY DEF Snapshot!Init
  <2>1. (CHOOSE v \in Contents : TRUE) \in Contents
    BY ResourcesAssumption
  <2> QED BY <2>1
<1>3. SnapshotType
  BY <1>1, <1>2 DEF Snapshot!Init, SnapshotType, Snapshot!Free
<1>4. CapturesOnce /\ Restoring
  BY DEF Snapshot!Init, CapturesOnce, Restoring, Snapshot!Free
<1> QED BY <1>3, <1>4 DEF RevertInv

LEMMA RevertStep == ASSUME RevertInv, Snapshot!Next PROVE RevertInv'
<1> USE DEF RevertInv, Snapshot!store, Snapshot!history, Snapshot!Here, Snapshot!Free
<1>1. CASE Snapshot!ToolReads
  BY <1>1 DEF Snapshot!ToolReads, SnapshotType, CapturesOnce, Restoring
<1>2. ASSUME NEW f \in Files, NEW what \in Contents \cup {Absent, Odd}, Snapshot!Change(f, what),
             UNCHANGED <<root, rows, staged, op>>, tracked' \subseteq Files
      PROVE  RevertInv'
  <2>1. SnapshotType'
    BY <1>2 DEF Snapshot!Change, SnapshotType
  <2>2. CapturesOnce'
    BY <1>2 DEF CapturesOnce
  <2>3. Restoring'
    BY <1>2 DEF Snapshot!Change, SnapshotType, Restoring
  <2> QED BY <2>1, <2>2, <2>3
<1>3. CASE Snapshot!ToolWrites \/ Snapshot!UserEdits
  BY <1>2, <1>3 DEF Snapshot!ToolWrites, Snapshot!UserEdits, SnapshotType
<1>4. CASE Snapshot!Refile \/ Snapshot!EndRound \/ Snapshot!Stage \/ Snapshot!Discard
  BY <1>4 DEF Snapshot!Refile, Snapshot!EndRound, Snapshot!Stage, Snapshot!Discard,
     SnapshotType, CapturesOnce, Restoring
<1>5. CASE Snapshot!BeginRound
  BY <1>5 DEF Snapshot!BeginRound, SnapshotType, CapturesOnce, Restoring, OneEach
<1>6. CASE Snapshot!CaptureFile
  <2> PICK f \in op.todo : \/ op' = [kind |-> "none", todo |-> {}, got |-> {}, failed |-> {}]
                           \/ \E what \in Contents \cup {Absent} : op' = Snapshot!Captured(f, what)
    BY <1>6 DEF Snapshot!CaptureFile, Snapshot!BlobFails
  <2>1. op.kind = "capture" /\ UNCHANGED <<disk, root, rows, staged, tracked, changed>>
    BY <1>6 DEF Snapshot!CaptureFile
  <2>2. CASE op' = [kind |-> "none", todo |-> {}, got |-> {}, failed |-> {}]
    BY <2>1, <2>2 DEF SnapshotType, CapturesOnce, Restoring
  <2>3. ASSUME NEW what \in Contents \cup {Absent}, op' = Snapshot!Captured(f, what)
        PROVE  RevertInv'
    <3>1. op' = [op EXCEPT !.todo = @ \ {f}, !.got = @ \cup {<<f, what>>}] /\ f \in Files
      BY <2>1, <2>3 DEF Snapshot!Captured, CapturesOnce
    <3>2. op'.kind = "capture" /\ op'.todo = op.todo \ {f} /\ op'.got = op.got \cup {<<f, what>>}
      BY <2>1, <3>1 DEF SnapshotType
    <3>3. SnapshotType'
      <4>1. <<f, what>> \in Captures
        BY <3>1 DEF Captures
      <4> QED BY <2>1, <3>1, <4>1 DEF SnapshotType
    <3>4. CapturesOnce'
      BY <2>1, <3>2 DEF CapturesOnce, OneEach
    <3> QED BY <3>2, <3>3, <3>4 DEF Restoring
  <2> QED BY <2>2, <2>3
<1>7. CASE Snapshot!Persist
  <2>1. op.kind = "capture" /\ UNCHANGED <<disk, root, staged, tracked>> /\ op'.kind = "none"
        /\ rows' = Append(rows, [files |-> op.got, root |-> root])
    BY <1>7 DEF Snapshot!Persist
  <2>2. op.got \in SUBSET Captures /\ OneEach(op.got)
    BY <2>1 DEF SnapshotType, CapturesOnce
  <2>3. rows' \in Seq([files : SUBSET Captures, root : Roots]) /\ DOMAIN rows' = 1..Len(rows) + 1
    BY <2>1, <2>2 DEF SnapshotType
  <2>4. SnapshotType'
    BY <1>7, <2>1, <2>3 DEF Snapshot!Persist, SnapshotType
  <2>5. \A k \in DOMAIN rows' : rows'[k].files \in {op.got} \/ (k \in DOMAIN rows /\ rows'[k] = rows[k])
    BY <2>1, <2>2, <2>3 DEF SnapshotType
  <2>6. CapturesOnce'
    BY <2>1, <2>2, <2>5 DEF CapturesOnce
  <2> QED BY <2>1, <2>4, <2>6 DEF Restoring
<1>0. ASSUME NEW k \in DOMAIN rows PROVE rows[k].files \in SUBSET Captures
  <2> DEFINE Rows == [files : SUBSET Captures, root : Roots]
  <2>1. rows \in Seq(Rows)
    BY DEF SnapshotType
  <2>2. rows[k] \in Rows
    <3> HIDE DEF Rows
    <3> QED BY <1>0, <2>1
  <2> QED BY <2>2
<1>8. CASE Snapshot!BeginCommit
  <2>1. /\ staged \in DOMAIN rows /\ UNCHANGED <<disk, root, rows, staged, tracked>>
        /\ op' = [kind |-> "commit", todo |-> rows[staged].files, got |-> {}, failed |-> {}]
    BY <1>8 DEF Snapshot!BeginCommit, SnapshotType
  <2>2. SnapshotType'
    BY <1>0, <2>1 DEF SnapshotType
  <2> QED BY <2>1, <2>2 DEF CapturesOnce, Restoring
<1>9. CASE Snapshot!RestoreFile
  <2>1. op.kind = "commit" /\ UNCHANGED <<root, rows, staged, tracked>>
    BY <1>9 DEF Snapshot!RestoreFile
  <2>2. op.todo \subseteq rows[staged].files /\ rows[staged].files \subseteq Captures
        /\ OneEach(rows[staged].files)
    BY <1>0, <2>1 DEF Restoring, CapturesOnce
  <2>3. ASSUME NEW file \in op.todo, file[2] \in blobs \cup {Absent},
               disk' = [disk EXCEPT ![root][file[1]] = file[2]],
               op' = [op EXCEPT !.todo = @ \ {file}], changed' = changed \ {file[1]}
        PROVE  RevertInv'
    <3>1. file[1] \in Files /\ file[2] \in Contents \cup {Absent}
      BY <2>2 DEF Captures
    <3>2. SnapshotType'
      BY <2>1, <2>3, <3>1 DEF SnapshotType
    <3>3. /\ disk'[root][file[1]] = file[2]
          /\ \A f \in Files \ {file[1]} : disk'[root][f] = disk[root][f]
          /\ op'.kind = "commit" /\ op'.todo = op.todo \ {file} /\ op'.failed = op.failed
      BY <2>1, <2>3, <3>1 DEF SnapshotType
    <3>4. ASSUME NEW other \in rows[staged].files, other # file
          PROVE  other[1] \in Files \ {file[1]}
      BY <2>2, <2>3, <3>4 DEF OneEach, Captures
    <3>5. Restoring'
      BY <2>1, <2>2, <2>3, <3>3, <3>4 DEF Restoring
    <3> QED BY <2>1, <3>2, <3>3, <3>5 DEF CapturesOnce
  <2>4. ASSUME NEW file \in op.todo, UNCHANGED <<disk, changed>>,
               op' = [op EXCEPT !.todo = @ \ {file}, !.failed = @ \cup {file[1]}]
        PROVE  RevertInv'
    <3>1. file[1] \in Files
      BY <2>2 DEF Captures
    <3> QED BY <2>1, <2>2, <2>4, <3>1 DEF SnapshotType, CapturesOnce, Restoring
  <2> QED BY <1>9, <2>3, <2>4 DEF Snapshot!RestoreFile
<1>10. CASE Snapshot!EndCommit \/ Snapshot!Crash
  BY <1>10 DEF Snapshot!EndCommit, Snapshot!Crash, SnapshotType, CapturesOnce, Restoring
<1> QED
  BY <1>1, <1>3, <1>4, <1>5, <1>6, <1>7, <1>8, <1>9, <1>10 DEF Snapshot!Next

(* A committed revert goes away only when every file is as captured, or was *)
(* changed since its restore; after a failure or a crash it is still there  *)
(* to be committed again (commit), for any files, snapshots and edits.      *)
THEOREM RevertsEndWhole == Spec => RevertDone
<1> DEFINE Whole == op.kind = "commit" /\ staged # 0 /\ staged' = 0 =>
                      \A file \in rows[staged].files :
                        Snapshot!Here[file[1]] = file[2] \/ file[1] \in changed
<1>1. RevertInv /\ [Next]_vars => RevertInv'
  <2> SUFFICES ASSUME RevertInv, [Next]_vars PROVE RevertInv'
    OBVIOUS
  <2>1. CASE UNCHANGED snapshots
    BY <2>1 DEF snapshots, RevertInv, SnapshotType, CapturesOnce, Restoring
  <2> QED BY <2>1, SnapshotOrNot, RevertStep
<1>2. RevertInv /\ [Next]_vars => [Whole]_Snapshot!vars
  <2> SUFFICES ASSUME RevertInv, [Next]_vars, op.kind = "commit", staged # 0, staged' = 0
               PROVE  Whole
    BY SnapshotOrNot DEF snapshots, Snapshot!vars, Snapshot!store, Snapshot!history
  <2>1. Snapshot!EndCommit
    <3>1. staged # staged'
      OBVIOUS
    <3>2. op # Snapshot!Free
      BY DEF Snapshot!Free
    <3> QED
      BY <3>1, <3>2, SnapshotOrNot DEF snapshots, Snapshot!store, Snapshot!Next, Snapshot!ToolReads,
         Snapshot!ToolWrites, Snapshot!UserEdits, Snapshot!Refile, Snapshot!BeginRound,
         Snapshot!EndRound, Snapshot!CaptureFile, Snapshot!Persist, Snapshot!Stage,
         Snapshot!Discard, Snapshot!BeginCommit, Snapshot!RestoreFile, Snapshot!Crash
  <2>2. op.todo = {} /\ op.failed = {}
    BY <2>1 DEF Snapshot!EndCommit, Snapshot!Done
  <2> QED BY <2>2 DEF RevertInv, Restoring, Snapshot!Here
<1> QED BY <1>1, <1>2, InitRevert, PTL DEF Spec, RevertDone, Snapshot!RevertDone

-----------------------------------------------------------------------------
(* The databases of a rehearsal *)

(* A statement the program has given up does not create a role, nor, in     *)
(* MySQL, a database; and nobody else takes a generated name in MySQL.      *)
Prompt ==
    /\ LateRoles = {}
    /\ "mysql" \notin LateDatabases \cup Outsiders

ScratchType ==
    /\ engine \in {"postgres", "mysql"}
    /\ at \in {"idle"} \cup Scratch!Creating \cup Scratch!Cleaning
    /\ ledger \in [status : {"none", "prepared", "restored", "cleaned"}, absent : BOOLEAN,
                   may : SUBSET {"role", "database"}, made : SUBSET {"role", "database"}]
    /\ seen \subseteq {"role", "database"}
    /\ remote \in [{"role", "database"} -> {"none", "ours", "foreign"}]
    /\ late \subseteq {"role", "database", "drop role", "drop database"}

(* How far the creation has come. *)
Created ==
    /\ ledger.status = "none" =>
          at = "idle" /\ remote.role = "none" /\ remote.database = "none" /\ late = {}
    /\ at \in Scratch!Creating => late = {} /\ ledger.status = "prepared"
    /\ at \in {"check", "intend role", "role"} => remote.role # "ours"
    /\ at \in Scratch!Creating \ {"restore"} => remote.database # "ours"
    /\ at \in {"intend database", "database", "restore"} => remote.role = "ours"
    /\ at \in Scratch!Creating \ {"check"} => ledger.absent
    /\ at = "role" => "role" \in ledger.may
    /\ at = "database" => "database" \in ledger.may

(* The record knows what exists, and what may still come to exist. *)
Recorded ==
    /\ \A k \in {"role", "database"} :
          remote[k] = "ours" =>
              k \in ledger.may \cup ledger.made /\ ledger.absent /\ ledger.status # "cleaned"
    /\ remote.database = "ours" => remote.role = "ours" /\ "database" \notin late
    /\ "role" \notin late
    /\ "database" \in late =>
          engine = "postgres" /\ ("database" \in ledger.may \/ remote.role # "ours")

(* How far a cleanup has come. *)
Dropped ==
    /\ at = "drop database" => "role" \in seen /\ "database" \notin late
    /\ at = "drop role" \/ "drop role" \in late => (engine = "mysql" => remote.database # "ours")
    /\ at = "finish" => remote.role # "ours" /\ remote.database # "ours"

(* Where others have taken a name, no drop is on its way. *)
Untouched ==
    \A k \in {"role", "database"} : remote[k] = "foreign" =>
        /\ engine = "postgres"
        /\ at \notin Scratch!Drops \cup {"finish"} /\ late \cap Scratch!Drops = {}

ScratchInv == ScratchType /\ Created /\ Recorded /\ Dropped /\ Untouched

(* The constant tables, spelled out. *)
LEMMA Tables ==
    /\ Scratch!Kinds = {"role", "database"}
    /\ Scratch!Drops = {"drop role", "drop database"}
    /\ Scratch!Statements = {"role", "database", "drop role", "drop database"}
    /\ Scratch!Kind("role") = "role" /\ Scratch!Kind("database") = "database"
    /\ Scratch!Kind("drop role") = "role" /\ Scratch!Kind("drop database") = "database"
    /\ Scratch!Creating = {"check", "intend role", "role", "intend database", "database", "restore"}
    /\ Scratch!Cleaning = {"cleanup", "finish", "drop role", "drop database"}
<1>1. Scratch!Kinds = {"role", "database"}
  BY DEF Scratch!Kinds
<1>2. Scratch!Drop["role"] = "drop role" /\ Scratch!Drop["database"] = "drop database"
  BY DEF Scratch!Drop
<1>3. Scratch!Drops = {"drop role", "drop database"}
  BY <1>1, <1>2 DEF Scratch!Drops
<1>4. Scratch!Statements = {"role", "database", "drop role", "drop database"}
  BY <1>1, <1>3 DEF Scratch!Statements
<1>5. Scratch!Kind("role") = "role" /\ Scratch!Kind("database") = "database"
  BY <1>1 DEF Scratch!Kind
<1>6. Scratch!Kind("drop role") = "role" /\ Scratch!Kind("drop database") = "database"
  BY <1>1, <1>2 DEF Scratch!Kind
<1>7. Scratch!Creating = {"check", "intend role", "role", "intend database", "database", "restore"}
  BY <1>1 DEF Scratch!Creating
<1>8. Scratch!Cleaning = {"cleanup", "finish", "drop role", "drop database"}
  BY <1>3 DEF Scratch!Cleaning
<1> QED BY <1>1, <1>3, <1>4, <1>5, <1>6, <1>7, <1>8

(* Steps of the other services leave the rehearsal alone. *)
LEMMA ScratchOrNot == ASSUME [Next]_vars PROVE Scratch!Next \/ UNCHANGED rehearsal
BY DEF Next, vars, OutputStep, ProcessStep, SnapshotStep, TransferStep, LocalStep, RehearsalStep,
   NotOutput, NotProcesses, NotSnapshots, NotDownload, NotLocal

LEMMA InitScratch == Init => ScratchInv
<1> SUFFICES ASSUME Scratch!Init PROVE ScratchInv
  BY DEF Init
<1> QED
  BY Tables, ResourcesAssumption DEF Scratch!Init, ScratchInv, ScratchType, Created, Recorded,
     Dropped, Untouched

(* What a statement does that is applied: a creation only where the name is *)
(* free, and in PostgreSQL a database only for its role.                    *)
LEMMA ScratchApplied ==
    ASSUME ScratchInv, NEW s \in Scratch!Statements, Scratch!Possible(s),
           remote' = Scratch!Applied(s)
    PROVE  /\ remote' \in [{"role", "database"} -> {"none", "ours", "foreign"}]
           /\ s = "role" => remote.role = "none" /\ remote'.role = "ours"
                            /\ remote'.database = remote.database
           /\ s = "database" => /\ remote.database = "none" /\ remote'.database = "ours"
                                /\ remote'.role = remote.role
                                /\ engine = "postgres" => remote.role = "ours"
           /\ s = "drop role" => /\ remote'.role = "none" /\ remote'.database = remote.database
                                 /\ engine = "postgres" => remote.database # "ours"
           /\ s = "drop database" => remote'.database = "none" /\ remote'.role = remote.role
<1>1. remote \in [{"role", "database"} -> {"none", "ours", "foreign"}]
  BY DEF ScratchInv, ScratchType
<1>2. CASE s = "role"
  BY <1>1, <1>2, Tables DEF Scratch!Possible, Scratch!Applied
<1>3. CASE s = "database"
  BY <1>1, <1>3, Tables DEF Scratch!Possible, Scratch!Applied
<1>4. CASE s = "drop role"
  BY <1>1, <1>4, Tables DEF Scratch!Possible, Scratch!Applied
<1>5. CASE s = "drop database"
  BY <1>1, <1>5, Tables DEF Scratch!Possible, Scratch!Applied
<1> QED BY <1>2, <1>3, <1>4, <1>5, Tables

(* What may have become of a statement without acknowledgement, once the    *)
(* program is on to its cleanup or idle.                                    *)
LEMMA ScratchGivenUp ==
    ASSUME Prompt, ScratchInv, at # "idle", at' \in {"cleanup", "idle"},
           UNCHANGED <<engine, ledger, seen, cleanups>>,
           IF at \in Scratch!Statements THEN Scratch!Unacknowledged(at)
           ELSE UNCHANGED <<remote, late>>
    PROVE  ScratchInv'
<1> USE Tables DEF ScratchInv, ScratchType, Created, Recorded, Dropped, Untouched
<1>1. CASE UNCHANGED <<remote, late>>
  BY <1>1
<1>2. ASSUME at \in Scratch!Statements, Scratch!Possible(at), remote' = Scratch!Applied(at),
             UNCHANGED late
      PROVE  ScratchInv'
  <2>0. /\ remote' \in [{"role", "database"} -> {"none", "ours", "foreign"}]
        /\ at = "role" => remote'.role = "ours" /\ remote'.database = remote.database
        /\ at = "database" => remote'.database = "ours" /\ remote'.role = remote.role
        /\ at = "drop role" => /\ remote'.role = "none" /\ remote'.database = remote.database
                               /\ engine = "postgres" => remote.database # "ours"
        /\ at = "drop database" => remote'.database = "none" /\ remote'.role = remote.role
    BY <1>2, ScratchApplied
  <2>1. ScratchType' /\ Created'
    BY <1>2, <2>0
  <2>2. Recorded'
    BY <1>2, <2>0
  <2>3. Dropped' /\ Untouched'
    BY <1>2, <2>0
  <2> QED BY <2>1, <2>2, <2>3
<1>3. ASSUME at \in Scratch!Statements, Scratch!Lateable(at), late' = late \cup {at},
             UNCHANGED remote
      PROVE  ScratchInv'
  <2>0. at # "role" /\ (at = "database" => engine = "postgres")
    BY <1>3 DEF Prompt, Scratch!Lateable
  <2>1. ScratchType' /\ Created'
    BY <1>3, <2>0
  <2>2. Recorded'
    BY <1>3, <2>0
  <2>3. Dropped' /\ Untouched'
    BY <1>3, <2>0
  <2> QED BY <2>1, <2>2, <2>3
<1> QED BY <1>1, <1>2, <1>3 DEF Scratch!Unacknowledged

LEMMA ScratchStep == ASSUME Prompt, ScratchInv, Scratch!Next PROVE ScratchInv'
<1> USE Tables
<1>1. CASE Scratch!Prepare \/ Scratch!Check \/ Scratch!Restore \/ Scratch!CleanupTool
  BY <1>1 DEF ScratchInv, ScratchType, Created, Recorded, Dropped, Untouched,
     Scratch!Prepare, Scratch!Check, Scratch!Restore, Scratch!CleanupTool
<1>2. ASSUME NEW k \in Scratch!Kinds, Scratch!Intend(k) PROVE ScratchInv'
  <2> USE DEF ScratchInv, ScratchType, Created, Recorded, Dropped, Untouched,
          Scratch!Intend, Scratch!Intention, Scratch!Intended
  <2>1. CASE k = "role"
    BY <1>2, <2>1
  <2>2. CASE k = "database"
    BY <1>2, <2>2
  <2> QED BY <2>1, <2>2
<1>3. ASSUME NEW s \in Scratch!Statements, Scratch!Acknowledged(s) PROVE ScratchInv'
  <2>0. /\ at = s /\ UNCHANGED <<engine, seen, late>> /\ at' = Scratch!After(s)
        /\ ledger' = IF s \in Scratch!Kinds THEN [ledger EXCEPT !.made = @ \cup {s}]
                     ELSE [ledger EXCEPT !.may = @ \ {Scratch!Kind(s)}, !.made = @ \ {Scratch!Kind(s)}]
    BY <1>3 DEF Scratch!Acknowledged
  <2>1. /\ remote' \in [{"role", "database"} -> {"none", "ours", "foreign"}]
        /\ s = "role" => remote'.role = "ours" /\ remote'.database = remote.database
        /\ s = "database" => remote'.database = "ours" /\ remote'.role = remote.role
        /\ s = "drop role" => /\ remote'.role = "none" /\ remote'.database = remote.database
                              /\ engine = "postgres" => remote.database # "ours"
        /\ s = "drop database" => remote'.database = "none" /\ remote'.role = remote.role
    BY <1>3, ScratchApplied DEF Scratch!Acknowledged
  <2> USE DEF ScratchInv, ScratchType, Created, Recorded, Dropped, Untouched, Scratch!After
  <2>2. CASE s = "role"
    BY <2>0, <2>1, <2>2
  <2>3. CASE s = "database"
    BY <2>0, <2>1, <2>3
  <2>4. CASE s = "drop role"
    BY <2>0, <2>1, <2>4
  <2>5. CASE s = "drop database"
    BY <2>0, <2>1, <2>5
  <2> QED BY <2>2, <2>3, <2>4, <2>5
<1>4. CASE Scratch!Fails \/ Scratch!Stops
  BY <1>4, ScratchGivenUp DEF Scratch!Fails, Scratch!Stops
<1>5. CASE Scratch!Inspect
  BY <1>5 DEF ScratchInv, ScratchType, Created, Recorded, Dropped, Untouched,
     Scratch!Inspect, Scratch!Refused, Scratch!Existing
<1>6. CASE Scratch!Finish
  BY <1>6 DEF ScratchInv, ScratchType, Created, Recorded, Dropped, Untouched, Scratch!Finish
<1>7. CASE Scratch!LateRuns
  <2>0. PICK s \in late : late' = late \ {s} /\
             remote' = IF Scratch!Possible(s) THEN Scratch!Applied(s) ELSE remote
    BY <1>7 DEF Scratch!LateRuns
  <2>1. UNCHANGED <<engine, at, ledger, seen>> /\ s \in Scratch!Statements \ {"role"}
    BY <1>7 DEF Scratch!LateRuns, ScratchInv, ScratchType, Recorded
  <2> USE DEF ScratchInv, ScratchType, Created, Recorded, Dropped, Untouched
  <2>2. CASE UNCHANGED remote
    BY <2>0, <2>1, <2>2
  <2>3. ASSUME Scratch!Possible(s), remote' = Scratch!Applied(s) PROVE ScratchInv'
    <3>0. /\ remote' \in [{"role", "database"} -> {"none", "ours", "foreign"}]
          /\ s = "database" => /\ remote'.database = "ours" /\ remote'.role = remote.role
                               /\ engine = "postgres" => remote.role = "ours"
          /\ s = "drop role" => /\ remote'.role = "none" /\ remote'.database = remote.database
                                /\ engine = "postgres" => remote.database # "ours"
          /\ s = "drop database" => remote'.database = "none" /\ remote'.role = remote.role
      BY <2>1, <2>3, ScratchApplied
    <3>1. ScratchType' /\ Created'
      BY <2>0, <2>1, <3>0
    <3>2. Recorded'
      BY <2>0, <2>1, <3>0
    <3>3. Dropped' /\ Untouched'
      BY <2>0, <2>1, <3>0
    <3> QED BY <3>1, <3>2, <3>3
  <2> QED BY <2>0, <2>2, <2>3
<1>8. CASE Scratch!Taken
  <2>0. PICK k \in {"role", "database"} :
          remote[k] = "none" /\ remote' = [remote EXCEPT ![k] = "foreign"]
    BY <1>8 DEF Scratch!Taken
  <2>1. /\ engine # "mysql" /\ UNCHANGED <<engine, at, ledger, seen, late>>
        /\ at \in {"check", "intend role", "intend database", "role", "database"}
    BY <1>8 DEF Scratch!Taken, Prompt
  <2> QED
    BY <2>0, <2>1 DEF ScratchInv, ScratchType, Created, Recorded, Dropped, Untouched
<1> QED
  BY <1>1, <1>2, <1>3, <1>4, <1>5, <1>6, <1>7, <1>8 DEF Scratch!Next

LEMMA ScratchAlways == ASSUME Prompt PROVE Spec => []ScratchInv
<1>1. ScratchInv /\ [Next]_vars => ScratchInv'
  <2> SUFFICES ASSUME ScratchInv, [Next]_vars PROVE ScratchInv'
    OBVIOUS
  <2>1. CASE UNCHANGED rehearsal
    BY <2>1 DEF rehearsal, ScratchInv, ScratchType, Created, Recorded, Dropped, Untouched
  <2> QED BY <2>1, ScratchOrNot, ScratchStep
<1> QED BY <1>1, InitScratch, PTL DEF Spec

(* Whatever a rehearsal has at the server, its record is open and names it, *)
(* and a cleanup that looks is not refused, wherever an acknowledgement was *)
(* lost or the program stopped, as long as the statements it gives up do    *)
(* not create later what only the record knew (cleanup, owned_resources).   *)
THEOREM LeftIsReclaimable == ASSUME Prompt PROVE Spec => []Reclaimable
<1>1. ScratchInv => Reclaimable
  <2> SUFFICES ASSUME ScratchInv, NEW k \in Scratch!Kinds, remote[k] = "ours"
               PROVE  /\ ledger.status # "cleaned"
                      /\ Scratch!Refused => "foreign" \in {remote[j] : j \in Scratch!Kinds}
    BY DEF Reclaimable, Scratch!Reclaimable
  <2> QED
    BY Tables DEF ScratchInv, ScratchType, Recorded, Scratch!Refused, Scratch!Existing
<1> QED BY <1>1, ScratchAlways, PTL

(* What others created under the generated names is never dropped nor       *)
(* replaced, under the same condition (owned_resources, cleanup).           *)
THEOREM OthersKeepTheirs == ASSUME Prompt PROVE Spec => ForeignKept
<1> DEFINE Kept == \A k \in Scratch!Kinds : remote[k] = "foreign" => remote'[k] = "foreign"
<1>1. ScratchInv /\ [Next]_vars => [Kept]_Scratch!vars
  <2> SUFFICES ASSUME ScratchInv, [Next]_vars, NEW k \in Scratch!Kinds, remote[k] = "foreign"
               PROVE  remote'[k] = "foreign"
    BY DEF Scratch!vars
  <2>0. /\ remote \in [{"role", "database"} -> {"none", "ours", "foreign"}] /\ k \in {"role", "database"}
        /\ at \notin {"drop role", "drop database"}
        /\ "drop role" \notin late /\ "drop database" \notin late
    BY Tables DEF ScratchInv, ScratchType, Untouched
  <2>1. ASSUME NEW s \in {"role", "database"}, Scratch!Possible(s), remote' = Scratch!Applied(s)
        PROVE  remote'[k] = "foreign"
    BY <2>0, <2>1, Tables, ScratchApplied
  <2>2. CASE UNCHANGED remote
    BY <2>2
  <2>3. CASE Scratch!LateRuns
    BY <2>0, <2>1, <2>3, Tables DEF Scratch!LateRuns, ScratchInv, ScratchType
  <2>4. ASSUME NEW s \in Scratch!Statements, Scratch!Acknowledged(s) PROVE remote'[k] = "foreign"
    BY <2>0, <2>1, <2>4, Tables DEF Scratch!Acknowledged
  <2>5. CASE Scratch!Fails \/ Scratch!Stops
    BY <2>0, <2>1, <2>5, Tables DEF Scratch!Fails, Scratch!Stops, Scratch!Unacknowledged
  <2>6. CASE Scratch!Taken
    BY <2>0, <2>6, Tables DEF Scratch!Taken
  <2>7. CASE Scratch!Next
    <3>1. CASE \/ Scratch!Prepare \/ Scratch!Check \/ Scratch!Restore \/ Scratch!CleanupTool
               \/ Scratch!Inspect \/ Scratch!Finish \/ \E j \in Scratch!Kinds : Scratch!Intend(j)
      BY <2>2, <3>1 DEF Scratch!Prepare, Scratch!Check, Scratch!Restore, Scratch!Intend,
         Scratch!CleanupTool, Scratch!Inspect, Scratch!Finish
    <3> QED BY <2>3, <2>4, <2>5, <2>6, <2>7, <3>1 DEF Scratch!Next
  <2> QED BY <2>2, <2>7, ScratchOrNot DEF rehearsal
<1> QED BY <1>1, ScratchAlways, PTL DEF Spec, ForeignKept, Scratch!ForeignKept
-----------------------------------------------------------------------------
(* Output of a process *)

(* A set of naturals has a least member. *)
LEMMA LeastNumber ==
    ASSUME NEW S \in SUBSET Nat, S # {}
    PROVE  \E k \in S : \A l \in S : k <= l
<1> DEFINE R == StrictSubsetOrdering(Nat)
           T == {0 .. k : k \in S}
<1>1. IsWellFoundedOn(R, FiniteSubsetsOf(Nat))
  BY FS_StrictSubsetOrderingWellFounded
<1>2. T \in SUBSET FiniteSubsetsOf(Nat)
  <2>1. ASSUME NEW k \in S PROVE IsFiniteSet(0 .. k)
    BY FS_Interval, k \in Int, 0 \in Int
  <2> QED BY <2>1 DEF FiniteSubsetsOf
<1>3. T # {}
  OBVIOUS
<1> HIDE DEF T, R
<1>4. PICK t \in T : \A u \in T : ~(<<u, t>> \in R)
  BY <1>1, <1>2, <1>3, WFMin
<1>5. PICK k \in S : t = 0 .. k
  BY DEF T
<1>6. ASSUME NEW l \in S, ~(k <= l) PROVE FALSE
  <2>1. 0 .. l \in T
    BY DEF T
  <2>2. 0 .. l \subseteq 0 .. k /\ 0 .. l # 0 .. k
    <3>1. k \in 0 .. k /\ k \notin 0 .. l
      BY <1>6
    <3>2. 0 .. l \subseteq 0 .. k
      BY <1>6
    <3> QED BY <3>1, <3>2
  <2>3. <<0 .. l, 0 .. k>> \in R
    BY <2>2 DEF R, StrictSubsetOrdering
  <2> QED BY <1>4, <1>5, <2>1, <2>3
<1> QED BY <1>6


LEMMA MinOfSome == ASSUME NEW S \in SUBSET Nat, S # {} PROVE Output!Min(S) \in S
<1>1. \E k \in S : \A l \in S : k <= l
  BY LeastNumber
<1> QED BY <1>1 DEF Output!Min

Frame == [cursor : Nat, size : FrameSizes]
Numbered(fs, from) == \A k \in 1 .. Len(fs) : fs[k].cursor = from + k - 1

OutputType ==
    /\ frames \in Seq(Frame) /\ next \in Nat /\ incomplete \in BOOLEAN
    /\ reader \in [who : {"process_poll", "shell_run"}, cursor : Nat, given : Seq(Frame),
                   told : BOOLEAN, at : {"reading", "handle", "returned"}]

(* The retained frames are the last ones written, without a hole. *)
Retained == Len(frames) <= next /\ Numbered(frames, next - Len(frames))

(* A reader has been given frames before his cursor, each once and in       *)
(* order, and all of them unless he was told.                               *)
Given(fs, cursor, told) ==
    /\ \A k \in 1 .. Len(fs) : fs[k].cursor < cursor
    /\ \A j, k \in 1 .. Len(fs) : j < k => fs[j].cursor < fs[k].cursor
    /\ ~told => Len(fs) = cursor /\ Numbered(fs, 0)

OutputInv ==
    /\ OutputType /\ Retained /\ reader.cursor <= next
    /\ Given(reader.given, reader.cursor, reader.told)

LEMMA InitOutput == ASSUME Output!Init PROVE OutputInv
<1>1. /\ frames = <<>> /\ next = 0 /\ incomplete = FALSE /\ reader.cursor = 0 /\ reader.given = <<>>
      /\ reader \in [who : {"process_poll", "shell_run"}, cursor : Nat, given : Seq(Frame),
                     told : BOOLEAN, at : {"reading", "handle", "returned"}]
  <2>1. /\ frames = <<>> /\ next = 0 /\ incomplete = FALSE
        /\ reader \in [who : {"process_poll", "shell_run"}, cursor : {0}, given : {<<>>},
                       told : {FALSE}, at : {"reading"}]
    BY DEF Output!Init
  <2>2. <<>> \in Seq(Frame)
    OBVIOUS
  <2>3. /\ reader = [who |-> reader.who, cursor |-> reader.cursor, given |-> reader.given,
                     told |-> reader.told, at |-> reader.at]
        /\ reader.who \in {"process_poll", "shell_run"} /\ reader.cursor = 0 /\ reader.given = <<>>
        /\ reader.told = FALSE /\ reader.at = "reading"
    BY <2>1
  <2>4. 0 \in Nat /\ reader.told \in BOOLEAN /\ reader.given \in Seq(Frame)
    BY <2>2, <2>3
  <2> HIDE DEF Frame
  <2> QED BY <2>1, <2>3, <2>4
<1>2. OutputType
  BY <1>1 DEF OutputType
<1> QED BY <1>1, <1>2 DEF OutputInv, Retained, Numbered, Given

(* What is cut out of numbered frames is numbered. *)
LEMMA CutOut ==
    ASSUME NEW fs \in Seq(Frame), NEW from \in Int, Numbered(fs, from),
           NEW m \in 1 .. Len(fs) + 1, NEW n \in m - 1 .. Len(fs)
    PROVE  /\ SubSeq(fs, m, n) \in Seq(Frame) /\ Len(SubSeq(fs, m, n)) = n - m + 1
           /\ Numbered(SubSeq(fs, m, n), from + m - 1)
<1>1. Len(fs) \in Nat /\ m \in Int /\ n \in Int /\ \A i \in m .. n : fs[i] \in Frame
  OBVIOUS
<1>2. /\ SubSeq(fs, m, n) \in Seq(Frame)
      /\ Len(SubSeq(fs, m, n)) = IF m <= n THEN n - m + 1 ELSE 0
      /\ \A i \in 1 .. n - m + 1 : SubSeq(fs, m, n)[i] = fs[m + i - 1]
  BY <1>1, SubSeqProperties
<1>3. Len(SubSeq(fs, m, n)) = n - m + 1
  BY <1>1, <1>2
<1>4. ASSUME NEW i \in 1 .. n - m + 1 PROVE SubSeq(fs, m, n)[i].cursor = from + m - 1 + i - 1
  <2>1. m + i - 1 \in 1 .. Len(fs)
    BY <1>1
  <2>2. fs[m + i - 1].cursor = from + (m + i - 1) - 1
    BY <2>1 DEF Numbered
  <2> QED BY <1>1, <1>2, <2>2
<1> QED BY <1>2, <1>3, <1>4 DEF Numbered

(* Eviction keeps a tail of the frames. *)
LEMMA Evicted ==
    ASSUME NEW fs \in Seq(Frame)
    PROVE  \E m \in 1 .. Len(fs) + 1 : Output!Fitting(fs) = SubSeq(fs, m, Len(fs))
<1> DEFINE Ms == {k \in 1 .. Len(fs) + 1 : k > Len(fs) \/ Output!Bytes(SubSeq(fs, k, Len(fs))) <= OutputBytes}
<1>1. Ms \subseteq 1 .. Len(fs) + 1 /\ Len(fs) + 1 \in Ms /\ Ms \in SUBSET Nat
  OBVIOUS
<1>2. Output!Fitting(fs) = SubSeq(fs, Output!Min(Ms), Len(fs))
  BY DEF Output!Fitting
<1> HIDE DEF Ms
<1>3. Output!Min(Ms) \in Ms
  BY <1>1, MinOfSome
<1> QED BY <1>1, <1>2, <1>3

LEMMA OutputPushed == ASSUME OutputInv, Output!Push PROVE OutputInv'
<1>1. PICK size \in FrameSizes : frames' = Output!Fitting(Append(frames, [cursor |-> next, size |-> size]))
  BY DEF Output!Push
<1> DEFINE new == [cursor |-> next, size |-> size]
           all == Append(frames, new)
<1>2. frames \in Seq(Frame) /\ Len(frames) \in Nat /\ next \in Nat /\ new \in Frame /\ new.cursor = next
  BY DEF OutputInv, OutputType, Frame
<1>3. next' = next + 1 /\ UNCHANGED <<incomplete, reader>>
  BY DEF Output!Push
<1> HIDE DEF new
<1>4. /\ all \in Seq(Frame) /\ Len(all) = Len(frames) + 1
      /\ \A k \in 1 .. Len(frames) : all[k] = frames[k]
      /\ all[Len(frames) + 1] = new
  BY <1>2
<1>5. Numbered(all, next - Len(frames))
  BY <1>2, <1>4 DEF OutputInv, Retained, Numbered
<1>6. frames' = Output!Fitting(all)
  BY <1>1 DEF new
<1> HIDE DEF all
<1>7. PICK m \in 1 .. Len(all) + 1 : frames' = SubSeq(all, m, Len(all))
  BY <1>4, <1>6, Evicted
<1>8. next - Len(frames) \in Int /\ Len(all) \in m - 1 .. Len(all)
  BY <1>2, <1>4
<1>9. frames' \in Seq(Frame) /\ Len(frames') = Len(all) - m + 1 /\ Numbered(frames', next - Len(frames) + m - 1)
  BY <1>4, <1>5, <1>7, <1>8, CutOut
<1>10. Len(frames') <= next' /\ next' - Len(frames') = next - Len(frames) + m - 1
  BY <1>2, <1>3, <1>4, <1>9 DEF OutputInv, Retained
<1>11. OutputType' /\ reader'.cursor <= next'
  BY <1>2, <1>3, <1>9 DEF OutputInv, OutputType
<1> QED BY <1>3, <1>9, <1>10, <1>11 DEF OutputInv, Retained

(* A page has the frames from the cursor, or from the oldest one, on.       *)
LEMMA PageOf ==
    ASSUME OutputInv, NEW limit
    PROVE  LET page == Output!Page(reader.cursor, limit)
               from == IF reader.cursor > Output!Base THEN reader.cursor ELSE Output!Base
           IN /\ page.frames \in Seq(Frame) /\ Numbered(page.frames, from)
              /\ page.cursor = from + Len(page.frames) /\ page.cursor <= next
              /\ from \in Nat /\ reader.cursor <= from
              /\ ~Output!Truncated(reader.cursor) => from = reader.cursor
<1> DEFINE from == IF reader.cursor > Output!Base THEN reader.cursor ELSE Output!Base
           Firsts == {k \in 1 .. Len(frames) + 1 : k > Len(frames) \/ frames[k].cursor >= from}
           first == Output!Min(Firsts)
           rest == SubSeq(frames, first, Len(frames))
           Lengths == {k \in 0 .. Len(rest) : k = Len(rest) \/ Output!Bytes(SubSeq(rest, 1, k + 1)) > limit}
           n == Output!Min(Lengths)
<1>1. Output!Page(reader.cursor, limit) = [frames |-> SubSeq(rest, 1, n), cursor |-> from + n]
  BY DEF Output!Page
<1>2. /\ frames \in Seq(Frame) /\ Len(frames) \in Nat /\ next \in Nat /\ reader.cursor \in Nat
      /\ Len(frames) <= next /\ reader.cursor <= next
      /\ Numbered(frames, next - Len(frames))
  BY DEF OutputInv, OutputType, Retained
<1>3. Output!Base = next - Len(frames)
  BY <1>2 DEF Output!Base, Numbered
<1>4. /\ from \in Nat /\ reader.cursor <= from /\ from <= next /\ next - Len(frames) <= from
      /\ ~Output!Truncated(reader.cursor) => from = reader.cursor
  BY <1>2, <1>3 DEF Output!Truncated
<1> HIDE DEF from
<1>5. first \in Firsts /\ \A k \in Firsts : first <= k
  <2>1. Len(frames) + 1 \in Firsts /\ Firsts \in SUBSET Nat
    BY <1>2
  <2>2. \E k \in Firsts : \A l \in Firsts : k <= l
    BY <2>1, LeastNumber
  <2> HIDE DEF Firsts
  <2> QED BY <2>2 DEF Output!Min
<1>6. first = from - (next - Len(frames)) + 1
  <2> DEFINE k == from - (next - Len(frames)) + 1
  <2>1. k \in 1 .. Len(frames) + 1
    BY <1>2, <1>4
  <2>2. k > Len(frames) \/ frames[k].cursor >= from
    BY <1>2, <1>4, <2>1 DEF Numbered
  <2>3. k \in Firsts
    BY <2>1, <2>2
  <2>4. first \in 1 .. Len(frames) + 1 /\ first <= k
    BY <1>5, <2>3
  <2>5. first > Len(frames) => first = k
    BY <1>2, <2>1, <2>4
  <2>6. first \in 1 .. Len(frames) => frames[first].cursor = next - Len(frames) + first - 1 /\ frames[first].cursor >= from
    BY <1>2, <1>5 DEF Numbered
  <2>7. first \in 1 .. Len(frames) => first >= k
    BY <1>2, <1>4, <2>6
  <2> HIDE DEF k, first
  <2> QED BY <1>2, <2>1, <2>4, <2>5, <2>7 DEF k
<1>7. first \in 1 .. Len(frames) + 1
  BY <1>5
<1> HIDE DEF first
<1>8. rest \in Seq(Frame) /\ Numbered(rest, from) /\ from + Len(rest) = next
  <2>1. next - Len(frames) \in Int /\ Len(frames) \in first - 1 .. Len(frames)
    BY <1>2, <1>7
  <2>2. /\ rest \in Seq(Frame) /\ Len(rest) = Len(frames) - first + 1
        /\ Numbered(rest, next - Len(frames) + first - 1)
    BY <1>2, <1>7, <2>1, CutOut
  <2>3. next - Len(frames) + first - 1 = from
    BY <1>2, <1>4, <1>6
  <2> QED BY <1>2, <1>4, <1>6, <2>2, <2>3
<1> HIDE DEF rest
<1>9. n \in 0 .. Len(rest)
  <2>1. Len(rest) \in Lengths /\ Lengths \in SUBSET Nat /\ Lengths \subseteq 0 .. Len(rest)
    BY <1>8
  <2> HIDE DEF Lengths
  <2> QED BY <2>1, MinOfSome
<1> HIDE DEF n
<1>10. SubSeq(rest, 1, n) \in Seq(Frame) /\ Len(SubSeq(rest, 1, n)) = n /\ Numbered(SubSeq(rest, 1, n), from)
  <2>1. from \in Int /\ 1 \in 1 .. Len(rest) + 1 /\ n \in 1 - 1 .. Len(rest) /\ n - 1 + 1 = n /\ from + 1 - 1 = from
    BY <1>4, <1>8, <1>9
  <2> QED BY <1>8, <2>1, CutOut
<1>11. from + n <= next
  BY <1>4, <1>8, <1>9
<1> QED BY <1>1, <1>4, <1>10, <1>11 DEF from

LEMMA Joined ==
    ASSUME NEW s \in Seq(Frame), NEW t \in Seq(Frame)
    PROVE  /\ s \o t \in Seq(Frame) /\ Len(s \o t) = Len(s) + Len(t)
           /\ \A k \in 1 .. Len(s) : (s \o t)[k] = s[k]
           /\ \A k \in 1 .. Len(s \o t) : k > Len(s) => (s \o t)[k] = t[k - Len(s)]
<1>1. /\ s \o t \in Seq(Frame) /\ Len(s \o t) = Len(s) + Len(t)
      /\ \A k \in 1 .. Len(s) + Len(t) : (s \o t)[k] = IF k <= Len(s) THEN s[k] ELSE t[k - Len(s)]
  BY ConcatProperties
<1>2. Len(s) \in Nat /\ Len(t) \in Nat
  OBVIOUS
<1> QED BY <1>1, <1>2

(* A reader is given the page, or the part of it for which he has room.     *)
LEMMA ReadKeeps ==
    ASSUME OutputInv, NEW limit, NEW room
    PROVE  LET r == Output!Read(limit, room)
           IN /\ r.cursor \in Nat /\ r.cursor <= next /\ r.given \in Seq(Frame) /\ r.told \in BOOLEAN
              /\ r.who = reader.who /\ r.at = reader.at
              /\ r = [who |-> r.who, cursor |-> r.cursor, given |-> r.given, told |-> r.told, at |-> r.at]
              /\ Given(r.given, r.cursor, r.told)
<1> DEFINE page == Output!Page(reader.cursor, limit)
           from == IF reader.cursor > Output!Base THEN reader.cursor ELSE Output!Base
           Counts == {k \in 0 .. Len(page.frames) : k = Len(page.frames) \/ Output!Bytes(SubSeq(page.frames, 1, k)) >= room}
           kept == Output!Min(Counts)
           got == SubSeq(page.frames, 1, kept)
           told == reader.told \/ Output!Truncated(reader.cursor) \/ kept < Len(page.frames)
           r == Output!Read(limit, room)
<1>1. /\ page.frames \in Seq(Frame) /\ Numbered(page.frames, from)
      /\ page.cursor = from + Len(page.frames) /\ page.cursor <= next
      /\ from \in Nat /\ reader.cursor <= from
      /\ ~Output!Truncated(reader.cursor) => from = reader.cursor
  BY PageOf
<1>2. r = [reader EXCEPT !.cursor = page.cursor, !.given = reader.given \o got, !.told = told]
  BY DEF Output!Read
<1> HIDE DEF page, from
<1>3. kept \in 0 .. Len(page.frames)
  <2>1. Len(page.frames) \in Counts /\ Counts \in SUBSET Nat /\ Counts \subseteq 0 .. Len(page.frames)
    BY <1>1
  <2> HIDE DEF Counts
  <2> QED BY <2>1, MinOfSome
<1> HIDE DEF kept
<1>4. got \in Seq(Frame) /\ Len(got) = kept /\ Numbered(got, from)
  <2>1. /\ from \in Int /\ 1 \in 1 .. Len(page.frames) + 1 /\ kept \in 1 - 1 .. Len(page.frames)
        /\ kept - 1 + 1 = kept /\ from + 1 - 1 = from
    BY <1>1, <1>3
  <2> QED BY <1>1, <2>1, CutOut
<1>5. /\ reader.given \in Seq(Frame) /\ reader.told \in BOOLEAN /\ reader.cursor \in Nat /\ next \in Nat
      /\ reader \in [who : {"process_poll", "shell_run"}, cursor : Nat, given : Seq(Frame),
                     told : BOOLEAN, at : {"reading", "handle", "returned"}]
      /\ Given(reader.given, reader.cursor, reader.told)
  BY DEF OutputInv, OutputType
<1> DEFINE given == reader.given \o got
<1> HIDE DEF got, r
<1>6. /\ given \in Seq(Frame) /\ Len(given) = Len(reader.given) + kept
      /\ \A k \in 1 .. Len(reader.given) : given[k] = reader.given[k]
      /\ \A k \in 1 .. Len(given) : k > Len(reader.given) => given[k] = got[k - Len(reader.given)]
  BY <1>4, <1>5, Joined
<1>7. /\ r.cursor = page.cursor /\ r.given = given /\ r.told = told /\ r.who = reader.who /\ r.at = reader.at
      /\ r = [who |-> r.who, cursor |-> r.cursor, given |-> r.given, told |-> r.told, at |-> r.at]
  BY <1>2, <1>5
<1> HIDE DEF given
<1>8. told \in BOOLEAN
  BY <1>5
<1>9. /\ Len(reader.given) \in Nat /\ Len(got) \in Nat /\ kept \in Nat /\ Len(given) \in Nat
      /\ page.cursor \in Nat /\ from + kept <= page.cursor
  BY <1>1, <1>3, <1>4, <1>5, <1>6
<1>10. \A k \in 1 .. Len(given) :
          IF k <= Len(reader.given) THEN given[k].cursor = reader.given[k].cursor /\ given[k].cursor < reader.cursor
          ELSE given[k].cursor = from + (k - Len(reader.given)) - 1
  <2> SUFFICES ASSUME NEW k \in 1 .. Len(given)
               PROVE  IF k <= Len(reader.given)
                      THEN given[k].cursor = reader.given[k].cursor /\ given[k].cursor < reader.cursor
                      ELSE given[k].cursor = from + (k - Len(reader.given)) - 1
    OBVIOUS
  <2>1. CASE k <= Len(reader.given)
    BY <1>5, <1>6, <1>9, <2>1 DEF Given
  <2>2. CASE ~(k <= Len(reader.given))
    <3>1. k - Len(reader.given) \in 1 .. Len(got)
      BY <1>4, <1>6, <1>9, <2>2
    <3>2. got[k - Len(reader.given)].cursor = from + (k - Len(reader.given)) - 1
      BY <1>4, <3>1 DEF Numbered
    <3>3. k > Len(reader.given)
      BY <1>9, <2>2
    <3>4. given[k] = got[k - Len(reader.given)]
      BY <1>6, <3>3
    <3> QED BY <2>2, <3>2, <3>4
  <2> QED BY <2>1, <2>2
<1>11. \A k \in 1 .. Len(reader.given) : reader.given[k].cursor \in Nat
  <2>1. \A k \in 1 .. Len(reader.given) : reader.given[k] \in Frame
    BY <1>5
  <2> QED BY <2>1 DEF Frame
<1>12. \A k \in 1 .. Len(given) : given[k].cursor < page.cursor
  <2> SUFFICES ASSUME NEW k \in 1 .. Len(given) PROVE given[k].cursor < page.cursor
    OBVIOUS
  <2>1. CASE k <= Len(reader.given)
    <3>1. k \in 1 .. Len(reader.given)
      BY <1>9, <2>1
    <3>2. given[k].cursor \in Nat /\ given[k].cursor < reader.cursor
      BY <1>10, <1>11, <2>1, <3>1
    <3> QED BY <1>1, <1>5, <1>9, <3>2
  <2>2. CASE ~(k <= Len(reader.given))
    <3>1. given[k].cursor = from + (k - Len(reader.given)) - 1
      BY <1>10, <2>2
    <3>2. k \in Int /\ from \in Int /\ k <= Len(reader.given) + kept
      BY <1>1, <1>6, <1>9
    <3>3. \A f, l, c, n \in Int : f + n <= c /\ k <= l + n => f + (k - l) - 1 < c
      BY <3>2
    <3>4. Len(reader.given) \in Int /\ page.cursor \in Int /\ kept \in Int /\ from + kept <= page.cursor
      BY <1>9
    <3>5. from + (k - Len(reader.given)) - 1 < page.cursor
      BY ONLY <3>2, <3>3, <3>4
    <3> QED BY <3>1, <3>5
  <2> QED BY <2>1, <2>2
<1>13. \A j, k \in 1 .. Len(given) : j < k => given[j].cursor < given[k].cursor
  <2> SUFFICES ASSUME NEW j \in 1 .. Len(given), NEW k \in 1 .. Len(given), j < k
               PROVE  given[j].cursor < given[k].cursor
    OBVIOUS
  <2>1. CASE k <= Len(reader.given)
    BY <1>5, <1>9, <1>10, <2>1 DEF Given
  <2>2. CASE ~(k <= Len(reader.given))
    <3>1. given[k].cursor = from + (k - Len(reader.given)) - 1
      BY <1>10, <2>2
    <3>2. CASE j <= Len(reader.given)
      <4>1. j \in 1 .. Len(reader.given)
        BY <1>9, <3>2
      <4>2. given[j].cursor \in Nat /\ given[j].cursor < reader.cursor
        BY <1>10, <1>11, <3>2, <4>1
      <4>3. \A f, l, c, m, u \in Int : u < c /\ c <= f /\ ~(m <= l) => u < f + (m - l) - 1
        OBVIOUS
      <4>4. /\ from \in Int /\ Len(reader.given) \in Int /\ reader.cursor \in Int /\ k \in Int
            /\ given[j].cursor \in Int /\ reader.cursor <= from
        BY <1>1, <1>5, <1>9, <4>2
      <4>5. given[j].cursor < from + (k - Len(reader.given)) - 1
        BY ONLY <2>2, <4>2, <4>3, <4>4
      <4> QED BY <3>1, <4>5
    <3>3. CASE ~(j <= Len(reader.given))
      <4>1. given[j].cursor = from + (j - Len(reader.given)) - 1
        BY <1>10, <3>3
      <4>2. \A f, l, i, m \in Int : i < m => f + (i - l) - 1 < f + (m - l) - 1
        OBVIOUS
      <4>3. from \in Int /\ Len(reader.given) \in Int /\ j \in Int /\ k \in Int /\ j < k
        BY <1>1, <1>9
      <4>4. from + (j - Len(reader.given)) - 1 < from + (k - Len(reader.given)) - 1
        BY ONLY <4>2, <4>3
      <4> QED BY <3>1, <4>1, <4>4
    <3> QED BY <3>2, <3>3
  <2> QED BY <2>1, <2>2
<1>14. ~told => Len(given) = page.cursor /\ Numbered(given, 0)
  <2> SUFFICES ASSUME ~told PROVE Len(given) = page.cursor /\ Numbered(given, 0)
    OBVIOUS
  <2>1. /\ from = reader.cursor /\ kept = Len(page.frames) /\ Len(reader.given) = reader.cursor
        /\ Numbered(reader.given, 0)
    BY <1>1, <1>3, <1>5 DEF Given
  <2>2. Len(given) = page.cursor
    BY <1>1, <1>6, <2>1
  <2>3. \A k \in 1 .. Len(given) : given[k].cursor = 0 + k - 1
    <3> SUFFICES ASSUME NEW k \in 1 .. Len(given) PROVE given[k].cursor = 0 + k - 1
      OBVIOUS
    <3>1. CASE k <= Len(reader.given)
      <4>1. k \in 1 .. Len(reader.given)
        BY <1>9, <3>1
      <4> QED BY <1>10, <2>1, <3>1, <4>1 DEF Numbered
    <3>2. CASE ~(k <= Len(reader.given))
      <4>1. given[k].cursor = from + (k - Len(reader.given)) - 1
        BY <1>10, <3>2
      <4> QED BY <1>9, <2>1, <4>1
    <3> QED BY <3>1, <3>2
  <2> QED BY <2>2, <2>3 DEF Numbered
<1> HIDE DEF told
<1>15. Given(given, page.cursor, told)
  BY <1>12, <1>13, <1>14 DEF Given
<1> QED BY <1>1, <1>6, <1>7, <1>8, <1>9, <1>15 DEF r

LEMMA OutputRead ==
    ASSUME OutputInv, UNCHANGED <<frames, next, incomplete>>, NEW limit, NEW room,
           NEW spot \in {"reading", "handle", "returned"},
           reader' = Output!Read(limit, room) \/ reader' = [Output!Read(limit, room) EXCEPT !.at = spot]
    PROVE  OutputInv'
<1> DEFINE r == Output!Read(limit, room)
<1>1. /\ r.cursor \in Nat /\ r.cursor <= next /\ r.given \in Seq(Frame) /\ r.told \in BOOLEAN
      /\ r.who = reader.who /\ r.at = reader.at
      /\ r = [who |-> r.who, cursor |-> r.cursor, given |-> r.given, told |-> r.told, at |-> r.at]
      /\ Given(r.given, r.cursor, r.told)
  BY ReadKeeps
<1> HIDE DEF r
<1>2. reader.who \in {"process_poll", "shell_run"} /\ reader.at \in {"reading", "handle", "returned"}
  BY DEF OutputInv, OutputType
<1>3. /\ reader' = [who |-> r.who, cursor |-> r.cursor, given |-> r.given, told |-> r.told, at |-> reader'.at]
      /\ reader'.at \in {"reading", "handle", "returned"}
  <2>1. CASE reader' = r
    BY <1>1, <1>2, <2>1
  <2>2. CASE reader' = [r EXCEPT !.at = spot]
    BY <1>1, <2>2
  <2> QED BY <2>1, <2>2 DEF r
<1>4. /\ reader' \in [who : {"process_poll", "shell_run"}, cursor : Nat, given : Seq(Frame),
                      told : BOOLEAN, at : {"reading", "handle", "returned"}]
      /\ reader'.cursor = r.cursor /\ reader'.given = r.given /\ reader'.told = r.told
  BY <1>1, <1>2, <1>3
<1>5. OutputType' /\ Retained'
  BY <1>4 DEF OutputInv, OutputType, Retained, Numbered
<1> QED BY <1>1, <1>4, <1>5 DEF OutputInv

LEMMA OutputNext == ASSUME OutputInv, Output!Next PROVE OutputInv'
<1>1. CASE Output!Push
  BY <1>1, OutputPushed
<1>2. CASE Output!ReadFails \/ Output!Ends
  BY <1>2 DEF Output!ReadFails, Output!Ends, OutputInv, OutputType, Retained, Numbered, Given
<1>3. CASE Output!Poll
  BY <1>3, OutputRead DEF Output!Poll
<1>4. CASE Output!ShellReads
  <2>1. PICK room : reader' = [Output!Read(ShellPage, room) EXCEPT !.at = IF state = "running" THEN @ ELSE "returned"]
    BY <1>4 DEF Output!ShellReads
  <2>2. Output!Read(ShellPage, room).at = "reading"
    BY <1>4, ReadKeeps DEF Output!ShellReads
  <2>3. UNCHANGED <<frames, next, incomplete>>
    BY <1>4 DEF Output!ShellReads
  <2>4. \E spot \in {"reading", "handle", "returned"} : reader' = [Output!Read(ShellPage, room) EXCEPT !.at = spot]
    BY <2>1, <2>2
  <2> QED BY <2>3, <2>4, OutputRead
<1>5. CASE Output!ShellTimesOut
  <2>1. UNCHANGED <<frames, next, incomplete>> /\ reader' = [reader EXCEPT !.at = "handle"]
    BY <1>5 DEF Output!ShellTimesOut
  <2>2. /\ OutputType' /\ reader'.cursor = reader.cursor /\ reader'.given = reader.given
        /\ reader'.told = reader.told
    BY <2>1 DEF OutputInv, OutputType
  <2> QED BY <2>1, <2>2 DEF OutputInv, Retained, Numbered, Given
<1> QED BY <1>1, <1>2, <1>3, <1>4, <1>5 DEF Output!Next

LEMMA OutputOrNot == ASSUME [Next]_vars PROVE Output!Next \/ UNCHANGED output
BY DEF Next, vars, OutputStep, ProcessStep, SnapshotStep, TransferStep, LocalStep, RehearsalStep,
       NotOutput, NotProcesses, NotSnapshots, NotDownload, NotLocal, NotRehearsal

(* A reader that passes on the cursor it was given gets every frame once,   *)
(* in order, unless it is told of a gap, whatever is evicted while it reads *)
(* and however small its pages are (Output::push, Output::poll).            *)
THEOREM EveryFrameOnce == Spec => []NoSilentGap
<1>1. Init => OutputInv
  BY InitOutput DEF Init
<1>2. OutputInv /\ [Next]_vars => OutputInv'
  <2>1. OutputInv /\ UNCHANGED output => OutputInv'
    BY DEF output, OutputInv, OutputType, Retained, Numbered, Given
  <2> QED BY <2>1, OutputNext, OutputOrNot
<1>3. OutputInv => NoSilentGap
  <2> SUFFICES ASSUME OutputInv PROVE Output!NoSilentGap
    BY DEF NoSilentGap
  <2>1. reader.given \in Seq(Frame) /\ DOMAIN reader.given = 1 .. Len(reader.given) /\ reader.cursor \in Nat
    BY DEF OutputInv, OutputType
  <2>2. Given(reader.given, reader.cursor, reader.told)
    BY DEF OutputInv
  <2> QED BY <2>1, <2>2 DEF Output!NoSilentGap, Given, Numbered
<1> QED BY <1>1, <1>2, <1>3, PTL DEF Spec

=============================================================================
