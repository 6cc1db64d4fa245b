-------------------------- MODULE MCHelpers_proofs --------------------------
(* Proofs about what a round goes through and what stands around the turn:  *)
(* installations, the window, the debugger, programs of calls, permission   *)
(* rules, the task graph, the decoder of event streams, and the compaction  *)
(* of a context.                                                            *)
EXTENDS MCHelpers, Sequences, SequenceTheorems, FiniteSetTheorems, WellFoundedInduction, TLAPS

(* One service runs: a step is one of it, or leaves its variables alone.    *)
LEMMA OneAtATime ==
    ASSUME [Next]_vars
    PROVE  /\ Setup!Next \/ UNCHANGED setup
           /\ Screen!Next \/ UNCHANGED screen
           /\ Probe!Next \/ UNCHANGED probe
           /\ Plans!Next \/ UNCHANGED plans
           /\ Rules!Next \/ UNCHANGED rules
           /\ Graph!Next \/ UNCHANGED graph
           /\ Decoder!Next \/ UNCHANGED decoder
           /\ Context!Next \/ UNCHANGED context
BY DEF Next, vars, DecoderStep, ContextStep, RulesStep, PlanStep, GraphStep,
       ScreenStep, SetupStep, ProbeStep, NotDecoder, NotContext, NotRules, NotPlans, NotGraph,
       NotScreen, NotSetup, NotProbe

(* A set of naturals has a least member. *)
LEMMA LeastNumber ==
    ASSUME NEW S \in SUBSET Nat, S # {}
    PROVE  \E k \in S : \A l \in S : k <= l
<1> DEFINE R == StrictSubsetOrdering(Nat)
           T == {0 .. k : k \in S}
<1>1. IsWellFoundedOn(R, FiniteSubsetsOf(Nat))
  BY FS_StrictSubsetOrderingWellFounded
<1>2. T \in SUBSET FiniteSubsetsOf(Nat)
  <2>1. ASSUME NEW k \in S PROVE IsFiniteSet(0 .. k)
    BY FS_Interval, k \in Int, 0 \in Int
  <2> QED BY <2>1 DEF FiniteSubsetsOf
<1>3. T # {}
  OBVIOUS
<1> HIDE DEF T, R
<1>4. PICK t \in T : \A u \in T : ~(<<u, t>> \in R)
  BY <1>1, <1>2, <1>3, WFMin
<1>5. PICK k \in S : t = 0 .. k
  BY DEF T
<1>6. ASSUME NEW l \in S, ~(k <= l) PROVE FALSE
  <2>1. 0 .. l \in T
    BY DEF T
  <2>2. 0 .. l \subseteq 0 .. k /\ 0 .. l # 0 .. k
    <3>1. k \in 0 .. k /\ k \notin 0 .. l
      BY <1>6
    <3>2. 0 .. l \subseteq 0 .. k
      BY <1>6
    <3> QED BY <3>1, <3>2
  <2>3. <<0 .. l, 0 .. k>> \in R
    BY <2>2 DEF R, StrictSubsetOrdering
  <2> QED BY <1>4, <1>5, <2>1, <2>3
<1> QED BY <1>6

-----------------------------------------------------------------------------
(* Installations *)

(* How far the running installation has come: the files of the archives     *)
(* before the one at hand are whole, and none is torn between two archives. *)
Progress ==
    /\ Setup!At("no") <=> install.kind = "none"
    /\ install.kind = "model" => install.at \in {"verify", "get"}
    /\ install.at \in {"verify", "get"} => install.kind = "model"
    /\ install.kind = "runtime" =>
          /\ runs \in Setup!Runs
          /\ install.at \in {"check", "fetch", "fetching", "publish"} => Setup!Own.torn = {}
          /\ install.at \in {"fetch", "fetching", "extract"} =>
                /\ install.asset \in Setup!Assets
                /\ \A f \in Setup!Files : f[1] < install.asset => f \in Setup!Own.whole
          /\ install.at = "publish" => Setup!Own.whole = Setup!Files
          /\ install.at = "drop" => install.end # "none"

(* A directory has an installation that is over only if its removal failed  *)
(* or the collector has still to look at it.                                *)
Accounted ==
    /\ \A n \in Setup!Runs : n > runs => staging[n] = Setup!Absent
    /\ collector.at = "looks" =>
          /\ install = Setup!Nothing
          /\ \A n \in Setup!Runs : staging[n].there => n \in collector.left \cup spared
          /\ \A n \in collector.left : staging[n].there
    /\ collector.at = "done" =>
          \A n \in Setup!Runs : staging[n].there => n \in spared \/ (n = runs /\ install.kind = "runtime")

Dirs == [there : BOOLEAN, parts : SUBSET Setup!Assets, archives : SUBSET Setup!Assets,
         bundle : BOOLEAN, whole : SUBSET Setup!Files, torn : SUBSET Setup!Files]

Places == {"no", "check", "fetch", "fetching", "extract", "publish", "drop", "verify", "get"}
Ends == {"none", "ready", "failed", "cancelled"}
Installs == [kind : Setup!Kinds \cup {"none"}, asset : 0 .. MaxAssets, end : Ends, at : Places]

SetupInv == Setup!TypeOK /\ Setup!PublishedWhole /\ Progress /\ Accounted

(* The installation moves to another place, with another result or archive. *)
LEMMA Moved ==
    ASSUME NEW inst \in Installs, NEW spot \in Places, NEW end \in Ends, NEW asset \in 0 .. MaxAssets
    PROVE  /\ [inst EXCEPT !.at = spot] \in Installs
           /\ [inst EXCEPT !.at = spot, !.end = end] \in Installs
           /\ [inst EXCEPT !.at = spot, !.asset = asset] \in Installs
BY DEF Installs

LEMMA FirstPlaces ==
    ASSUME NEW kind \in Setup!Kinds, NEW spot \in Places
    PROVE  /\ Setup!Nothing \in Installs
           /\ [Setup!Nothing EXCEPT !.kind = kind, !.at = spot] \in Installs
<1>1. 0 \in 0 .. MaxAssets
  BY SetupAssumption
<1> QED BY <1>1 DEF Setup!Nothing, Installs, Ends, Places, Setup!Kinds

LEMMA InitSetup == ASSUME Setup!Init PROVE SetupInv
<1> USE SetupAssumption DEF Setup!Init, Setup!Nothing, Setup!Absent, Setup!Runs, Setup!Assets, Setup!Files,
        Setup!Kinds, Setup!Working
<1>1. Setup!TypeOK
  <2>1. install \in Installs
    BY FirstPlaces DEF Installs, Places, Ends
  <2>2. staging \in [Setup!Runs -> Dirs]
    BY DEF Dirs
  <2>3. status \in [Setup!Kinds -> Setup!Working \cup {"idle", "ready", "failed", "cancelled", "interrupted"}]
    OBVIOUS
  <2>4. collector \in [at : {"done", "looks", "stopped"}, left : SUBSET Setup!Runs]
    OBVIOUS
  <2>5. bundles = {} /\ wanted = FALSE /\ runs = 0 /\ faults = 0 /\ spared = {}
    OBVIOUS
  <2> HIDE DEF Setup!Init, Setup!Nothing, Setup!Absent, Setup!Runs, Setup!Assets, Setup!Files, Setup!Kinds, Setup!Working
  <2>6. 0 \in 0 .. MaxRuns /\ 0 \in 0 .. MaxFaults
    BY SetupAssumption
  <2> QED BY ONLY <2>1, <2>2, <2>3, <2>4, <2>5, <2>6 DEF Setup!TypeOK, Dirs, Installs, Places, Ends
<1>2. Setup!PublishedWhole
  BY DEF Setup!PublishedWhole
<1>3. Progress
  BY DEF Progress, Setup!At
<1>4. Accounted
  BY DEF Accounted
<1> QED BY <1>1, <1>2, <1>3, <1>4 DEF SetupInv

(* A step that puts a directory in the place of the running installation's. *)
LEMMA Staged ==
    ASSUME Setup!TypeOK, runs \in Setup!Runs, NEW dir \in Dirs, Setup!Stage(dir), runs' = runs
    PROVE  /\ staging' \in [Setup!Runs -> Dirs]
           /\ Setup!Own \in Dirs /\ (Setup!Own)' = dir
           /\ \A n \in Setup!Runs : n # runs => staging'[n] = staging[n]
BY DEF Setup!TypeOK, Setup!Stage, Setup!Own, Dirs

LEMMA AbsentIsDir == Setup!Absent \in Dirs
BY DEF Setup!Absent, Dirs

(* The files are those of the archives. *)
LEMMA FileOfAsset == \A f \in Setup!Files : f[1] \in 1 .. MaxAssets
BY SetupAssumption DEF Setup!Files, Setup!Assets

(* What a removal leaves half-way is part of what was there. *)
LEMMA LeftIsDir ==
    ASSUME NEW dir \in Dirs, NEW rest \in Setup!Left(dir)
    PROVE  rest \in Dirs /\ rest.there = dir.there
BY DEF Dirs, Setup!Left, Setup!Remains

LEMMA SetupInstallRuntime == ASSUME SetupInv, Setup!InstallRuntime PROVE SetupInv'
<1> USE SetupAssumption DEF Setup!InstallRuntime, Setup!At, Setup!Kinds, Setup!Working, Setup!Nothing
<1>5. runs + 1 \in 0 .. MaxRuns /\ runs + 1 \in Setup!Runs /\ install.kind = "none"
  BY DEF SetupInv, Progress, Setup!TypeOK, Setup!Runs
<1>6. Setup!TypeOK'
  <2>1. install' \in Installs
    BY FirstPlaces DEF Places
  <2> QED BY <1>5, <2>1 DEF SetupInv, Setup!TypeOK, Installs, Places, Ends
<1>7. Progress'
  <2>1. (Setup!Own)' = Setup!Absent
    BY <1>5 DEF SetupInv, Accounted, Setup!TypeOK, Setup!Own
  <2>2. install'.kind = "runtime" /\ install'.at = "check"
    OBVIOUS
  <2> HIDE DEF Setup!InstallRuntime
  <2>3. runs' \in Setup!Runs
    BY <1>5 DEF Setup!InstallRuntime
  <2> QED BY <2>1, <2>2, <2>3 DEF Progress, Setup!Absent
<1>8. Accounted'
  BY DEF SetupInv, Progress, Accounted, Setup!TypeOK, Setup!Runs
<1>9. Setup!PublishedWhole'
  BY DEF SetupInv, Setup!PublishedWhole
<1> QED BY <1>6, <1>7, <1>8, <1>9 DEF SetupInv

LEMMA SetupInstallModel == ASSUME SetupInv, Setup!InstallModel PROVE SetupInv'
<1> USE SetupAssumption DEF Setup!InstallModel, Setup!At, Setup!Kinds, Setup!Working, Setup!Nothing
<1>6. Setup!TypeOK'
  <2>1. install' \in Installs
    BY FirstPlaces DEF Places
  <2>2. status' \in [Setup!Kinds -> Setup!Working \cup {"idle", "ready", "failed", "cancelled", "interrupted"}]
    BY DEF SetupInv, Setup!TypeOK
  <2>3. wanted' = FALSE /\ UNCHANGED <<runs, staging, bundles, collector, faults, spared>>
    OBVIOUS
  <2> HIDE DEF Setup!InstallModel, Setup!Nothing, Setup!Kinds, Setup!Working
  <2> QED BY <2>1, <2>2, <2>3 DEF SetupInv, Setup!TypeOK, Installs, Places, Ends
<1>7. Progress'
  BY DEF SetupInv, Progress, Accounted, Setup!TypeOK, Setup!Own
<1>8. Accounted'
  BY DEF SetupInv, Progress, Accounted, Setup!TypeOK, Setup!Runs
<1>9. Setup!PublishedWhole'
  BY DEF SetupInv, Setup!PublishedWhole
<1> QED BY <1>6, <1>7, <1>8, <1>9 DEF SetupInv

LEMMA SetupCancel == ASSUME SetupInv, Setup!Cancel PROVE SetupInv'
<1> USE SetupAssumption DEF Setup!Cancel, Setup!At, Setup!Kinds, Setup!Working, Setup!Nothing
<1>6. Setup!TypeOK'
  BY DEF SetupInv, Progress, Setup!TypeOK, Setup!Runs
<1>7. Progress'
  BY DEF SetupInv, Progress, Accounted, Setup!TypeOK, Setup!Own
<1>8. Accounted'
  BY DEF SetupInv, Progress, Accounted, Setup!TypeOK, Setup!Runs
<1>9. Setup!PublishedWhole'
  BY DEF SetupInv, Setup!PublishedWhole
<1> QED BY <1>6, <1>7, <1>8, <1>9 DEF SetupInv

LEMMA SetupModelEnds == ASSUME SetupInv, Setup!ModelEnds PROVE SetupInv'
<1> USE SetupAssumption DEF Setup!ModelEnds, Setup!At, Setup!Kinds, Setup!Working, Setup!Nothing
<1>6. Setup!TypeOK'
  BY DEF SetupInv, Progress, Setup!TypeOK, Setup!Runs
<1>7. Progress'
  BY DEF SetupInv, Progress, Accounted, Setup!TypeOK, Setup!Own
<1>8. Accounted'
  BY DEF SetupInv, Progress, Accounted, Setup!TypeOK, Setup!Runs
<1>9. Setup!PublishedWhole'
  BY DEF SetupInv, Setup!PublishedWhole
<1> QED BY <1>6, <1>7, <1>8, <1>9 DEF SetupInv

LEMMA SetupFails == ASSUME SetupInv, Setup!Fails PROVE SetupInv'
<1> USE SetupAssumption DEF Setup!Fails, Setup!At, Setup!Kinds, Setup!Working, Setup!Nothing
<1>6. Setup!TypeOK'
  BY DEF SetupInv, Progress, Setup!TypeOK, Setup!Runs
<1>7. Progress'
  BY DEF SetupInv, Progress, Accounted, Setup!TypeOK, Setup!Own
<1>8. Accounted'
  BY DEF SetupInv, Progress, Accounted, Setup!TypeOK, Setup!Runs
<1>9. Setup!PublishedWhole'
  BY DEF SetupInv, Setup!PublishedWhole
<1> QED BY <1>6, <1>7, <1>8, <1>9 DEF SetupInv

LEMMA SetupMakeStaging == ASSUME SetupInv, Setup!MakeStaging PROVE SetupInv'
<1> USE SetupAssumption DEF Setup!MakeStaging, Setup!At, Setup!Kinds, Setup!Working, Setup!Nothing
<1> DEFINE dir == [Setup!Absent EXCEPT !.there = TRUE]
<1>1. runs \in Setup!Runs /\ install.kind = "runtime" /\ collector.at # "looks"
  BY DEF SetupInv, Progress, Accounted, Setup!TypeOK
<1>2. Setup!Own \in Dirs
  BY <1>1 DEF SetupInv, Setup!TypeOK, Setup!Own, Dirs
<1>3. dir \in Dirs
  BY <1>1, <1>2 DEF Dirs, SetupInv, Progress, Setup!Absent
<1>4. Setup!Stage(dir) /\ runs' = runs
  OBVIOUS
<1>5. /\ staging' \in [Setup!Runs -> Dirs]
      /\ (Setup!Own)' = dir
      /\ \A n \in Setup!Runs : n # runs => staging'[n] = staging[n]
  BY <1>1, <1>3, <1>4, Staged DEF SetupInv
<1>6. Setup!TypeOK'
  BY <1>1, <1>5 DEF SetupInv, Progress, Setup!TypeOK, Dirs
<1>7. Progress'
  <2>1. runs' \in Setup!Runs /\ install' = install /\ install.at = "check" /\ dir.torn = {}
    BY <1>1 DEF Setup!Absent
  <2> HIDE DEF dir
  <2> QED BY <1>1, <1>5, <2>1 DEF SetupInv, Progress
<1>8. Accounted'
  BY <1>1, <1>4, <1>5 DEF SetupInv, Progress, Accounted, Setup!TypeOK, Setup!Runs
<1>9. Setup!PublishedWhole'
  BY <1>1 DEF SetupInv, Progress, Setup!PublishedWhole
<1> QED BY <1>6, <1>7, <1>8, <1>9 DEF SetupInv

LEMMA SetupMakeBundle == ASSUME SetupInv, Setup!MakeBundle PROVE SetupInv'
<1> USE SetupAssumption DEF Setup!MakeBundle, Setup!At, Setup!Kinds, Setup!Working, Setup!Nothing
<1> DEFINE dir == [Setup!Own EXCEPT !.bundle = TRUE]
<1>1. runs \in Setup!Runs /\ install.kind = "runtime" /\ collector.at # "looks"
  BY DEF SetupInv, Progress, Accounted, Setup!TypeOK
<1>2. Setup!Own \in Dirs
  BY <1>1 DEF SetupInv, Setup!TypeOK, Setup!Own, Dirs
<1>3. dir \in Dirs
  BY <1>1, <1>2 DEF Dirs, SetupInv, Progress, Setup!Absent
<1>4. Setup!Stage(dir) /\ runs' = runs
  OBVIOUS
<1>5. /\ staging' \in [Setup!Runs -> Dirs]
      /\ (Setup!Own)' = dir
      /\ \A n \in Setup!Runs : n # runs => staging'[n] = staging[n]
  BY <1>1, <1>3, <1>4, Staged DEF SetupInv
<1>6. Setup!TypeOK'
  <2>1. install' \in Installs
    <3>1. install \in Installs
      BY DEF SetupInv, Setup!TypeOK, Installs, Places, Ends
    <3>2. install' = [install EXCEPT !.at = "fetch", !.asset = 1] /\ 1 \in 0 .. MaxAssets
      OBVIOUS
    <3> QED BY <3>1, <3>2 DEF Installs, Places
  <2> HIDE DEF dir, Setup!Kinds, Setup!Working, Setup!Nothing
  <2>2. UNCHANGED <<wanted, status, runs, bundles, collector, faults, spared>>
    OBVIOUS
  <2> HIDE DEF Setup!MakeBundle
  <2> QED BY <1>1, <1>5, <2>1, <2>2 DEF SetupInv, Setup!TypeOK, Dirs, Installs, Places, Ends
<1>7. Progress'
  <2>1. \A f \in Setup!Files : ~(f[1] < 1)
    BY FileOfAsset
  <2>2. /\ install'.kind = "runtime" /\ install'.at = "fetch" /\ install'.asset = 1
        /\ dir.torn = {} /\ runs' = runs
    BY <1>1, <1>2 DEF SetupInv, Progress, Setup!TypeOK, Dirs
  <2>3. 1 \in Setup!Assets
    BY DEF Setup!Assets
  <2> HIDE DEF dir, Setup!MakeBundle
  <2> QED BY <1>1, <1>5, <2>1, <2>2, <2>3 DEF Progress
<1>8. Accounted'
  BY <1>1, <1>4, <1>5 DEF SetupInv, Progress, Accounted, Setup!TypeOK, Setup!Runs
<1>9. Setup!PublishedWhole'
  BY <1>1 DEF SetupInv, Progress, Setup!PublishedWhole
<1> QED BY <1>6, <1>7, <1>8, <1>9 DEF SetupInv

LEMMA SetupFetch == ASSUME SetupInv, Setup!Fetch PROVE SetupInv'
<1> USE SetupAssumption DEF Setup!Fetch, Setup!At, Setup!Kinds, Setup!Working, Setup!Nothing
<1> DEFINE dir == [Setup!Own EXCEPT !.parts = @ \cup {install.asset}]
<1>1. runs \in Setup!Runs /\ install.kind = "runtime" /\ collector.at # "looks"
  BY DEF SetupInv, Progress, Accounted, Setup!TypeOK
<1>2. Setup!Own \in Dirs
  BY <1>1 DEF SetupInv, Setup!TypeOK, Setup!Own, Dirs
<1>3. dir \in Dirs
  BY <1>1, <1>2 DEF Dirs, SetupInv, Progress, Setup!Absent
<1>4. Setup!Stage(dir) /\ runs' = runs
  OBVIOUS
<1>5. /\ staging' \in [Setup!Runs -> Dirs]
      /\ (Setup!Own)' = dir
      /\ \A n \in Setup!Runs : n # runs => staging'[n] = staging[n]
  BY <1>1, <1>3, <1>4, Staged DEF SetupInv
<1>6. Setup!TypeOK'
  BY <1>1, <1>5 DEF SetupInv, Progress, Setup!TypeOK, Dirs
<1>7. Progress'
  BY <1>1, <1>2, <1>5 DEF SetupInv, Progress, Setup!TypeOK, Dirs
<1>8. Accounted'
  BY <1>1, <1>4, <1>5 DEF SetupInv, Progress, Accounted, Setup!TypeOK, Setup!Runs
<1>9. Setup!PublishedWhole'
  BY <1>1 DEF SetupInv, Progress, Setup!PublishedWhole
<1> QED BY <1>6, <1>7, <1>8, <1>9 DEF SetupInv

LEMMA SetupFetched == ASSUME SetupInv, Setup!Fetched PROVE SetupInv'
<1> USE SetupAssumption DEF Setup!Fetched, Setup!At, Setup!Kinds, Setup!Working, Setup!Nothing
<1> DEFINE dir == [Setup!Own EXCEPT !.parts = @ \ {install.asset}, !.archives = @ \cup {install.asset}]
<1>1. runs \in Setup!Runs /\ install.kind = "runtime" /\ collector.at # "looks"
  BY DEF SetupInv, Progress, Accounted, Setup!TypeOK
<1>2. Setup!Own \in Dirs
  BY <1>1 DEF SetupInv, Setup!TypeOK, Setup!Own, Dirs
<1>3. dir \in Dirs
  BY <1>1, <1>2 DEF Dirs, SetupInv, Progress, Setup!Absent
<1>4. Setup!Stage(dir) /\ runs' = runs
  OBVIOUS
<1>5. /\ staging' \in [Setup!Runs -> Dirs]
      /\ (Setup!Own)' = dir
      /\ \A n \in Setup!Runs : n # runs => staging'[n] = staging[n]
  BY <1>1, <1>3, <1>4, Staged DEF SetupInv
<1>6. Setup!TypeOK'
  BY <1>1, <1>5 DEF SetupInv, Progress, Setup!TypeOK, Dirs
<1>7. Progress'
  BY <1>1, <1>2, <1>5 DEF SetupInv, Progress, Setup!TypeOK, Dirs
<1>8. Accounted'
  BY <1>1, <1>4, <1>5 DEF SetupInv, Progress, Accounted, Setup!TypeOK, Setup!Runs
<1>9. Setup!PublishedWhole'
  BY <1>1 DEF SetupInv, Progress, Setup!PublishedWhole
<1> QED BY <1>6, <1>7, <1>8, <1>9 DEF SetupInv

LEMMA SetupExtractFile == ASSUME SetupInv, NEW f \in Setup!Files, Setup!ExtractFile(f) PROVE SetupInv'
<1> USE SetupAssumption DEF Setup!ExtractFile, Setup!At, Setup!Kinds, Setup!Working, Setup!Nothing
<1> DEFINE dir == [Setup!Own EXCEPT !.torn = {f}]
<1>1. runs \in Setup!Runs /\ install.kind = "runtime" /\ collector.at # "looks"
  BY DEF SetupInv, Progress, Accounted, Setup!TypeOK
<1>2. Setup!Own \in Dirs
  BY <1>1 DEF SetupInv, Setup!TypeOK, Setup!Own, Dirs
<1>3. dir \in Dirs
  BY <1>1, <1>2 DEF Dirs, SetupInv, Progress, Setup!Absent
<1>4. Setup!Stage(dir) /\ runs' = runs
  OBVIOUS
<1>5. /\ staging' \in [Setup!Runs -> Dirs]
      /\ (Setup!Own)' = dir
      /\ \A n \in Setup!Runs : n # runs => staging'[n] = staging[n]
  BY <1>1, <1>3, <1>4, Staged DEF SetupInv
<1>6. Setup!TypeOK'
  BY <1>1, <1>5 DEF SetupInv, Progress, Setup!TypeOK, Dirs
<1>7. Progress'
  BY <1>1, <1>2, <1>5 DEF SetupInv, Progress, Setup!TypeOK, Dirs
<1>8. Accounted'
  BY <1>1, <1>4, <1>5 DEF SetupInv, Progress, Accounted, Setup!TypeOK, Setup!Runs
<1>9. Setup!PublishedWhole'
  BY <1>1 DEF SetupInv, Progress, Setup!PublishedWhole
<1> QED BY <1>6, <1>7, <1>8, <1>9 DEF SetupInv

LEMMA SetupFileWritten == ASSUME SetupInv, Setup!FileWritten PROVE SetupInv'
<1> USE SetupAssumption DEF Setup!FileWritten, Setup!At, Setup!Kinds, Setup!Working, Setup!Nothing
<1> DEFINE dir == [Setup!Own EXCEPT !.torn = {}, !.whole = @ \cup Setup!Own.torn]
<1>1. runs \in Setup!Runs /\ install.kind = "runtime" /\ collector.at # "looks"
  BY DEF SetupInv, Progress, Accounted, Setup!TypeOK
<1>2. Setup!Own \in Dirs
  BY <1>1 DEF SetupInv, Setup!TypeOK, Setup!Own, Dirs
<1>3. dir \in Dirs
  BY <1>1, <1>2 DEF Dirs, SetupInv, Progress, Setup!Absent
<1>4. Setup!Stage(dir) /\ runs' = runs
  OBVIOUS
<1>5. /\ staging' \in [Setup!Runs -> Dirs]
      /\ (Setup!Own)' = dir
      /\ \A n \in Setup!Runs : n # runs => staging'[n] = staging[n]
  BY <1>1, <1>3, <1>4, Staged DEF SetupInv
<1>6. Setup!TypeOK'
  BY <1>1, <1>5 DEF SetupInv, Progress, Setup!TypeOK, Dirs
<1>7. Progress'
  BY <1>1, <1>2, <1>5 DEF SetupInv, Progress, Setup!TypeOK, Dirs
<1>8. Accounted'
  BY <1>1, <1>4, <1>5 DEF SetupInv, Progress, Accounted, Setup!TypeOK, Setup!Runs
<1>9. Setup!PublishedWhole'
  BY <1>1 DEF SetupInv, Progress, Setup!PublishedWhole
<1> QED BY <1>6, <1>7, <1>8, <1>9 DEF SetupInv

LEMMA SetupExtracted == ASSUME SetupInv, Setup!Extracted PROVE SetupInv'
<1> USE SetupAssumption DEF Setup!Extracted, Setup!At, Setup!Kinds, Setup!Working, Setup!Nothing
<1>1. /\ runs \in Setup!Runs /\ install.kind = "runtime" /\ install.asset \in 1 .. MaxAssets
      /\ UNCHANGED <<wanted, status, runs, staging, bundles, collector, faults, spared>>
  BY DEF SetupInv, Progress, Setup!TypeOK, Setup!Assets
<1>2. Setup!Own \in Dirs
  BY <1>1 DEF SetupInv, Setup!TypeOK, Setup!Own, Dirs
<1>6. Setup!TypeOK'
  <2>1. install' \in Installs
    <3>1. CASE install.asset = MaxAssets
      BY <3>1 DEF SetupInv, Setup!TypeOK, Installs, Places, Ends
    <3>2. CASE install.asset # MaxAssets
      <4>1. install.asset + 1 \in 0 .. MaxAssets /\ install' = [install EXCEPT !.at = "fetch", !.asset = @ + 1]
        BY <1>1, <3>2
      <4> QED BY <4>1 DEF SetupInv, Setup!TypeOK, Installs, Places, Ends
    <3> QED BY <3>1, <3>2
  <2> HIDE DEF Setup!Extracted, Setup!Kinds, Setup!Working, Setup!Nothing
  <2> QED BY <1>1, <2>1 DEF SetupInv, Setup!TypeOK, Dirs, Installs, Places, Ends
<1>7. Progress'
  <2>1. (Setup!Own)' = Setup!Own /\ runs' = runs /\ Setup!Own.torn = {}
    BY <1>1 DEF Setup!Own
  <2>2. \A f \in Setup!Files : f[1] <= install.asset => f \in Setup!Own.whole
    BY <1>1, FileOfAsset DEF SetupInv, Progress
  <2>3. CASE install.asset = MaxAssets
    <3>1. Setup!Own.whole = Setup!Files
      BY <1>2, <2>2, <2>3, FileOfAsset DEF Dirs
    <3>2. install'.kind = "runtime" /\ install'.at = "publish"
      BY <1>1, <2>3 DEF SetupInv, Setup!TypeOK
    <3> HIDE DEF Setup!Extracted
    <3> QED BY <1>1, <2>1, <3>1, <3>2 DEF Progress
  <2>4. CASE install.asset # MaxAssets
    <3>1. install'.kind = "runtime" /\ install'.at = "fetch" /\ install'.asset = install.asset + 1
      BY <1>1, <2>4 DEF SetupInv, Setup!TypeOK
    <3>2. install'.asset \in Setup!Assets
      BY <1>1, <2>4, <3>1 DEF Setup!Assets
    <3>3. \A f \in Setup!Files : f[1] < install'.asset => f \in Setup!Own.whole
      BY <1>1, <2>2, <3>1, FileOfAsset
    <3> HIDE DEF Setup!Extracted
    <3> QED BY <1>1, <2>1, <3>1, <3>2, <3>3 DEF Progress
  <2> QED BY <2>3, <2>4
<1>8. Accounted'
  BY DEF SetupInv, Progress, Accounted, Setup!TypeOK, Setup!Runs
<1>9. Setup!PublishedWhole'
  BY DEF SetupInv, Setup!PublishedWhole
<1> QED BY <1>6, <1>7, <1>8, <1>9 DEF SetupInv

LEMMA SetupPublish == ASSUME SetupInv, Setup!Publish PROVE SetupInv'
<1> USE SetupAssumption DEF Setup!Publish, Setup!At, Setup!Kinds, Setup!Working, Setup!Nothing
<1> DEFINE dir == [Setup!Own EXCEPT !.bundle = FALSE, !.whole = {}, !.torn = {}]
<1>1. runs \in Setup!Runs /\ install.kind = "runtime" /\ collector.at # "looks"
  BY DEF SetupInv, Progress, Accounted, Setup!TypeOK
<1>2. Setup!Own \in Dirs
  BY <1>1 DEF SetupInv, Setup!TypeOK, Setup!Own, Dirs
<1>3. dir \in Dirs
  BY <1>1, <1>2 DEF Dirs, SetupInv, Progress, Setup!Absent
<1>4. Setup!Stage(dir) /\ runs' = runs
  OBVIOUS
<1>5. /\ staging' \in [Setup!Runs -> Dirs]
      /\ (Setup!Own)' = dir
      /\ \A n \in Setup!Runs : n # runs => staging'[n] = staging[n]
  BY <1>1, <1>3, <1>4, Staged DEF SetupInv
<1>6. Setup!TypeOK'
  <2>1. install' \in Installs
    BY DEF SetupInv, Setup!TypeOK, Installs, Places, Ends
  <2>2. bundles' \subseteq [whole : SUBSET Setup!Files, torn : SUBSET Setup!Files]
    BY <1>2 DEF SetupInv, Setup!TypeOK, Dirs
  <2>3. UNCHANGED <<wanted, status, runs, collector, faults, spared>>
    OBVIOUS
  <2> HIDE DEF dir, Setup!Publish, Setup!Kinds, Setup!Working, Setup!Nothing
  <2> QED BY <1>5, <2>1, <2>2, <2>3 DEF SetupInv, Setup!TypeOK, Dirs, Installs, Places, Ends
<1>7. Progress'
  BY <1>1, <1>2, <1>5 DEF SetupInv, Progress, Setup!TypeOK, Dirs
<1>8. Accounted'
  BY <1>1, <1>4, <1>5 DEF SetupInv, Progress, Accounted, Setup!TypeOK, Setup!Runs
<1>9. Setup!PublishedWhole'
  BY <1>1 DEF SetupInv, Progress, Setup!PublishedWhole
<1> QED BY <1>6, <1>7, <1>8, <1>9 DEF SetupInv

LEMMA SetupDropped == ASSUME SetupInv, Setup!Dropped PROVE SetupInv'
<1> USE SetupAssumption DEF Setup!Dropped, Setup!At, Setup!Kinds, Setup!Working, Setup!Nothing
<1>0. install.at = "drop"
  OBVIOUS
<1>1. runs \in Setup!Runs /\ install.kind = "runtime" /\ collector.at # "looks"
  BY DEF SetupInv, Progress, Accounted, Setup!TypeOK
<1>2. Setup!Own \in Dirs
  BY <1>1 DEF SetupInv, Setup!TypeOK, Setup!Own, Dirs
<1>3. PICK dir \in Dirs : /\ Setup!Stage(dir)
                          /\ dir.there => spared' = spared \cup {runs}
                          /\ spared' \subseteq spared \cup {runs} /\ spared \subseteq spared'
  BY <1>2, AbsentIsDir, LeftIsDir DEF Setup!Absent
<1>4. /\ install' = Setup!Nothing /\ runs' = runs
      /\ status' = [status EXCEPT !["runtime"] = install.end]
      /\ UNCHANGED <<wanted, bundles, collector>>
      /\ faults' \in 0 .. MaxFaults
  BY DEF SetupInv, Setup!TypeOK
<1> HIDE DEF Setup!Dropped, Setup!Kinds, Setup!Working, Setup!Nothing
<1>5. /\ staging' \in [Setup!Runs -> Dirs]
      /\ (Setup!Own)' = dir
      /\ \A n \in Setup!Runs : n # runs => staging'[n] = staging[n]
  BY <1>1, <1>3, <1>4, Staged DEF SetupInv
<1>6. Setup!TypeOK'
  <2>1. install' \in Installs
    BY <1>4, FirstPlaces, "runtime" \in Setup!Kinds, "no" \in Places DEF Setup!Kinds, Places
  <2>2. status' \in [Setup!Kinds -> Setup!Working \cup {"idle", "ready", "failed", "cancelled", "interrupted"}]
    <3>1. install.end \in {"ready", "failed", "cancelled"}
      BY <1>0, <1>1 DEF SetupInv, Progress, Setup!TypeOK
    <3> QED BY <1>4, <3>1 DEF SetupInv, Setup!TypeOK
  <2> QED BY <1>1, <1>3, <1>4, <1>5, <2>1, <2>2 DEF SetupInv, Setup!TypeOK, Dirs, Installs, Places, Ends
<1>7. Progress'
  BY <1>4 DEF Progress, Setup!Nothing
<1>8. Accounted'
  <2>1. (Setup!Own)' = staging'[runs]
    BY <1>4 DEF Setup!Own
  <2> QED BY <1>1, <1>3, <1>4, <1>5, <2>1 DEF SetupInv, Progress, Accounted, Setup!TypeOK, Setup!Runs
<1>9. Setup!PublishedWhole'
  BY <1>4 DEF SetupInv, Setup!PublishedWhole
<1> QED BY <1>6, <1>7, <1>8, <1>9 DEF SetupInv

LEMMA SetupCrash == ASSUME SetupInv, Setup!CrashAndRestart PROVE SetupInv'
<1> USE DEF Setup!CrashAndRestart
<1>1. /\ install' = Setup!Nothing /\ wanted' = FALSE /\ spared' = {}
      /\ status' = [k \in Setup!Kinds |-> "idle"]
      /\ collector' = [at |-> "looks", left |-> {n \in Setup!Runs : staging[n].there}]
      /\ UNCHANGED <<runs, staging, bundles>> /\ faults' \in 0 .. MaxFaults
  BY SetupAssumption DEF SetupInv, Setup!TypeOK
<1> HIDE DEF Setup!CrashAndRestart
<1>2. install' \in Installs
  BY <1>1, FirstPlaces, "runtime" \in Setup!Kinds, "no" \in Places DEF Setup!Kinds, Places
<1>3. collector' \in [at : {"done", "looks", "stopped"}, left : SUBSET Setup!Runs]
  BY <1>1
<1>6. Setup!TypeOK'
  BY <1>1, <1>2, <1>3 DEF SetupInv, Setup!TypeOK, Dirs, Installs, Places, Ends
<1>7. Progress'
  BY <1>1 DEF Progress, Setup!Nothing, Setup!At
<1>8. Accounted'
  BY <1>1 DEF SetupInv, Accounted
<1>9. Setup!PublishedWhole'
  BY <1>1 DEF SetupInv, Setup!PublishedWhole
<1> QED BY <1>6, <1>7, <1>8, <1>9 DEF SetupInv

(* What a step of the collector at one directory has to keep. *)
LEMMA Looked ==
    ASSUME SetupInv, collector.at = "looks", NEW n \in Setup!Runs, NEW dir \in Dirs,
           staging' = [staging EXCEPT ![n] = dir], staging[n].there,
           collector' \in [at : {"looks", "stopped"}, left : SUBSET Setup!Runs],
           collector'.at = "looks" => ~dir.there /\ collector'.left = collector.left \ {n},
           spared \subseteq spared', spared' \subseteq Setup!Runs, faults' \in 0 .. MaxFaults,
           UNCHANGED <<install, wanted, status, runs, bundles>>
    PROVE  SetupInv'
<1>1. /\ staging' \in [Setup!Runs -> Dirs] /\ staging'[n] = dir
      /\ \A m \in Setup!Runs : m # n => staging'[m] = staging[m]
  BY DEF SetupInv, Setup!TypeOK, Dirs
<1>2. install = Setup!Nothing
  BY DEF SetupInv, Accounted
<1>3. ~(n > runs)
  BY DEF SetupInv, Accounted, Setup!Absent
<1>6. Setup!TypeOK'
  BY <1>1 DEF SetupInv, Setup!TypeOK, Dirs
<1>7. Progress'
  BY <1>2 DEF Progress, Setup!Nothing, Setup!At
<1>8. Accounted'
  BY <1>1, <1>2, <1>3 DEF SetupInv, Accounted
<1>9. Setup!PublishedWhole'
  BY DEF SetupInv, Setup!PublishedWhole
<1> QED BY <1>6, <1>7, <1>8, <1>9 DEF SetupInv

LEMMA SetupCollect == ASSUME SetupInv, NEW n \in Setup!Runs, Setup!Collect(n) PROVE SetupInv'
<1> USE DEF Setup!Collect
<1>1. collector' = [at |-> "looks", left |-> collector.left \ {n}]
  BY DEF SetupInv, Setup!TypeOK
<1>2. staging[n].there
  BY DEF SetupInv, Accounted
<1>3. collector' \in [at : {"looks", "stopped"}, left : SUBSET Setup!Runs]
  BY <1>1 DEF SetupInv, Setup!TypeOK
<1> QED BY <1>1, <1>2, <1>3, Looked, AbsentIsDir DEF SetupInv, Setup!TypeOK, Setup!Absent

LEMMA SetupCollectorStops == ASSUME SetupInv, NEW n \in Setup!Runs, Setup!CollectorStops(n) PROVE SetupInv'
<1> USE DEF Setup!CollectorStops
<1>1. staging[n].there /\ staging[n] \in Dirs
  BY DEF SetupInv, Accounted, Setup!TypeOK, Dirs
<1>2. collector' \in [at : {"looks", "stopped"}, left : SUBSET Setup!Runs] /\ collector'.at = "stopped"
  OBVIOUS
<1>3. PICK dir \in Dirs : staging' = [staging EXCEPT ![n] = dir]
  <2>1. CASE staging' = staging
    <3>1. staging' = [staging EXCEPT ![n] = staging[n]]
      BY <2>1 DEF SetupInv, Setup!TypeOK
    <3> QED BY <1>1, <3>1
  <2>2. CASE \E rest \in Setup!Left(staging[n]) : staging' = [staging EXCEPT ![n] = rest]
    BY <1>1, <2>2, LeftIsDir
  <2> QED BY <2>1, <2>2
<1>4. spared \subseteq spared' /\ spared' \subseteq Setup!Runs /\ faults' \in 0 .. MaxFaults
  BY SetupAssumption DEF SetupInv, Setup!TypeOK
<1>5. collector.at = "looks" /\ UNCHANGED <<install, wanted, status, runs, bundles>>
  OBVIOUS
<1> HIDE DEF Setup!CollectorStops
<1> QED BY <1>1, <1>2, <1>3, <1>4, <1>5, Looked

LEMMA SetupCollectorEnds == ASSUME SetupInv, Setup!CollectorEnds PROVE SetupInv'
<1> USE DEF Setup!CollectorEnds
<1>1. collector' = [at |-> "done", left |-> {}] /\ collector' \in [at : {"done", "looks", "stopped"}, left : SUBSET Setup!Runs]
  BY DEF SetupInv, Setup!TypeOK
<1>2. install = Setup!Nothing
  BY DEF SetupInv, Accounted
<1>6. Setup!TypeOK'
  BY <1>1 DEF SetupInv, Setup!TypeOK
<1>7. Progress'
  BY <1>2 DEF Progress, Setup!Nothing, Setup!At
<1>8. Accounted'
  BY <1>1 DEF SetupInv, Accounted
<1>9. Setup!PublishedWhole'
  BY DEF SetupInv, Setup!PublishedWhole
<1> QED BY <1>6, <1>7, <1>8, <1>9 DEF SetupInv

LEMMA SetupStays == ASSUME SetupInv, UNCHANGED setup PROVE SetupInv'
BY DEF SetupInv, setup, Setup!TypeOK, Setup!PublishedWhole, Progress, Accounted, Setup!At, Setup!Own

LEMMA SetupNext == ASSUME SetupInv, Setup!Next PROVE SetupInv'
BY SetupInstallRuntime, SetupInstallModel, SetupCancel, SetupModelEnds, SetupFails, SetupMakeStaging,
   SetupMakeBundle, SetupFetch, SetupFetched, SetupExtractFile, SetupFileWritten, SetupExtracted,
   SetupPublish, SetupDropped, SetupCrash, SetupCollect, SetupCollectorStops, SetupCollectorEnds
   DEF Setup!Next

(* A runtime is published whole or not at all, and what an installation     *)
(* left behind is gone after the next start, but for what could not be      *)
(* removed (install of runtime_install.rs, clean of install_recovery.rs).   *)
THEOREM InstalledWhole == Spec => []WholeOrAbsent
<1>1. Init => SetupInv
  BY InitSetup DEF Init
<1>2. SetupInv /\ [Next]_vars => SetupInv'
  BY SetupNext, SetupStays, OneAtATime
<1>3. SetupInv => WholeOrAbsent
  BY DEF SetupInv, Accounted, WholeOrAbsent, Setup!WholeOrAbsent, Setup!LeftoversGone, Progress, Setup!At
<1> QED BY <1>1, <1>2, <1>3, PTL DEF Spec

-----------------------------------------------------------------------------
(* The window *)

(* Only the newest selection is heard, and it is under way for the          *)
(* conversation that is active, with nothing on screen.                     *)
Newest ==
    \A l \in loads :
        /\ l.version <= version
        /\ l.version = version => loading /\ active = l.chat /\ shown = {}

(* What the window names exists, and nothing is written for a conversation  *)
(* that does not.                                                           *)
Existing ==
    /\ active <= made /\ draftKey <= made
    /\ forking.at = "boot" => forking.chat \in 1 .. made
    /\ \A l \in loads : l.chat <= made
    /\ \A k \in Screen!DraftKeys : drafts[k] <= typed /\ (k > made => drafts[k] = 0)

(* Only prompts that were typed are saved.                                  *)
Written == \A p \in Screen!Prompts : Screen!Taken(p) => p <= typed

(* Nothing that changes the active conversation waits while a send is on    *)
(* its way, but for a fork that knows it, and nothing at all while one is   *)
(* about to be resumed.                                                     *)
Undisturbed ==
    /\ sending.at # "no" =>
          /\ ~opening /\ ~loading /\ removing.left = {}
          /\ forking.at # "no" => forking.busy
    /\ resuming # Screen!Home =>
          /\ resuming = active /\ sending.at = "no" /\ forking.at = "no"
          /\ ~opening /\ ~loading /\ removing.left = {}

(* A send goes to the active conversation.  The prompt it carries, if any,  *)
(* is no draft, and is known to be saved, to be in doubt, or not to be.     *)
Carried ==
    sending.at # "no" =>
        /\ sending.chat = active
        /\ sending.at = "create" => sending.chat = Screen!Home /\ sending.prompt # 0
        /\ sending.at \notin {"create", "refresh"} => sending.chat # Screen!Home
        /\ sending.at \in {"create", "meta", "tools", "turn", "check"} => ~sending.threw
        /\ sending.prompt # 0 =>
              /\ sending.prompt \in 1 .. typed
              /\ meant[sending.prompt] = draftKey /\ ~Screen!Draft(sending.prompt)
              /\ sending.at \in {"create", "meta", "tools", "turn"} => ~Screen!Taken(sending.prompt)
              /\ sending.at = "check" =>
                    \A c \in Screen!Chats : <<c, sending.prompt>> \in accepted => c = sending.chat
              /\ sending.at \in {"refresh", "last"} =>
                    IF sending.threw THEN ~Screen!Taken(sending.prompt)
                    ELSE Screen!Taken(sending.prompt) \/ sending.prompt \in told

ScreenInv ==
    /\ Screen!TypeOK /\ Screen!ShownIsActive /\ Screen!PromptKept
    /\ Newest /\ Existing /\ Undisturbed /\ Carried /\ Written

(* The states of a fork, as far as they are written. *)
Forks == [at : {"no", "fork", "boot"}, chat : Screen!DraftKeys, busy : BOOLEAN, current : BOOLEAN]

LEMMA ForkStates ==
    /\ Screen!NoFork \in Forks
    /\ \A f \in Forks, c \in Screen!DraftKeys : [f EXCEPT !.at = "boot", !.chat = c, !.current = FALSE] \in Forks
BY DEF Forks, Screen!NoFork, Screen!Home, Screen!DraftKeys

(* A fork that is no longer heard is one all the same. *)
SameFork ==
    /\ forking' \in Forks /\ forking'.at = forking.at
    /\ forking'.chat = forking.chat /\ forking'.busy = forking.busy

LEMMA RetracedFork == ASSUME ScreenInv, Screen!Retraced PROVE SameFork
BY DEF ScreenInv, Screen!TypeOK, Screen!Retraced, SameFork, Forks

LEMMA InitScreen == ASSUME Screen!Init PROVE ScreenInv
<1>1. Screen!TypeOK
  <2>1. /\ made \in 0 .. MaxChats /\ active \in Screen!DraftKeys /\ draftKey \in Screen!DraftKeys
        /\ drafts \in [Screen!DraftKeys -> 0 .. MaxDrafts] /\ typed \in 0 .. MaxDrafts
        /\ resuming \in Screen!DraftKeys /\ meant \in [Screen!Prompts -> Screen!DraftKeys]
    BY ScreenAssumption DEF Screen!Init, Screen!Home, Screen!Chats, Screen!DraftKeys
  <2>2. forking \in [at : {"no", "fork", "boot"}, chat : Screen!DraftKeys, busy : BOOLEAN, current : BOOLEAN]
    BY ForkStates DEF Screen!Init, Forks
  <2>3. removing \in [left : SUBSET Screen!Chats, all : SUBSET Screen!Chats, active : Screen!DraftKeys]
    BY DEF Screen!Init, Screen!NoRemoval, Screen!DraftKeys, Screen!Home
  <2>4. sending \in [at : {"no", "create", "meta", "tools", "turn", "check", "refresh", "last"},
                     chat : Screen!DraftKeys, prompt : 0 .. MaxDrafts, cancelled : BOOLEAN, threw : BOOLEAN]
    BY ScreenAssumption DEF Screen!Init, Screen!NoSend, Screen!DraftKeys, Screen!Home
  <2>5. /\ listed \subseteq 1 .. made /\ shown \subseteq Screen!Chats /\ loading \in BOOLEAN /\ version \in Nat
        /\ loads = {} /\ opening \in BOOLEAN /\ accepted = {} /\ told = {} /\ covered = {}
    BY DEF Screen!Init
  <2> QED BY <2>1, <2>2, <2>3, <2>4, <2>5 DEF Screen!TypeOK
<1>2. Screen!ShownIsActive /\ Screen!PromptKept
  BY DEF Screen!Init, Screen!ShownIsActive, Screen!PromptKept, Screen!DraftKeys
<1>3. Newest /\ Undisturbed /\ Carried /\ Written
  BY DEF Screen!Init, Newest, Undisturbed, Carried, Written, Screen!Taken, Screen!NoSend
<1>4. Existing
  BY ScreenAssumption
  DEF Screen!Init, Existing, Screen!NoFork, Screen!Home, Screen!Chats, Screen!DraftKeys
<1> QED BY <1>1, <1>2, <1>3, <1>4 DEF ScreenInv

(* What changes the view and no prompt keeps the prompts. *)
LEMMA ViewKeepsPrompts ==
    ASSUME ScreenInv, UNCHANGED <<drafts, sending, typed, accepted, told, covered, meant>>,
           sending.at = "no" \/ UNCHANGED <<active, draftKey>>
    PROVE  Screen!PromptKept' /\ Carried' /\ Written'
BY DEF ScreenInv, Screen!PromptKept, Carried, Written, Screen!Draft, Screen!Taken

(* What changes prompts and not the view keeps the selections. *)
LEMMA PromptsKeepView ==
    ASSUME ScreenInv, UNCHANGED <<made, listed, active, shown, loading, version, loads, opening, removing, forking, resuming>>
    PROVE  Screen!ShownIsActive' /\ Newest'
BY DEF ScreenInv, Screen!ShownIsActive, Newest

(* Another conversation is opened while no prompt is on its way. *)
LEMMA ScreenOpens ==
    ASSUME ScreenInv, sending.at = "no", resuming = Screen!Home, NEW c \in 1 .. made, Screen!Opens(c),
           UNCHANGED <<made, listed, opening, removing, resuming,
                       drafts, sending, typed, accepted, told, covered, meant>>,
           SameFork \/ forking' = Screen!NoFork
    PROVE  ScreenInv'
<1>1. c \in Screen!Chats
  BY ScreenAssumption DEF ScreenInv, Screen!TypeOK, Screen!Chats
<1>2. Screen!TypeOK'
  <2>1. forking' \in Forks
    BY ForkStates DEF SameFork
  <2>2. loads' \subseteq [chat : Screen!Chats, version : Nat]
    BY <1>1 DEF ScreenInv, Screen!TypeOK, Screen!Opens
  <2>3. c \in Screen!DraftKeys /\ version' \in Nat
    BY <1>1 DEF ScreenInv, Screen!TypeOK, Screen!Opens, Screen!DraftKeys
  <2> QED BY <2>1, <2>2, <2>3 DEF ScreenInv, Screen!TypeOK, Screen!Opens, Forks
<1>3. Screen!ShownIsActive'
  BY DEF Screen!Opens, Screen!ShownIsActive
<1>4. Newest'
  BY DEF ScreenInv, Newest, Screen!Opens, Screen!TypeOK
<1>5. Existing'
  BY DEF ScreenInv, Existing, Screen!Opens, Screen!NoFork, Screen!TypeOK, SameFork
<1>6. Undisturbed'
  BY DEF Undisturbed
<1>7. Screen!PromptKept' /\ Carried' /\ Written'
  BY ViewKeepsPrompts
<1> QED BY <1>2, <1>3, <1>4, <1>5, <1>6, <1>7 DEF ScreenInv

LEMMA ScreenSelect == ASSUME ScreenInv, OverResume = {}, NEW c \in Screen!Chats, Screen!Select(c) PROVE ScreenInv'
<1>1. c \in 1 .. made /\ sending.at = "no" /\ resuming = Screen!Home
  BY DEF ScreenInv, Screen!TypeOK, Screen!Select, Screen!Busy, Screen!MayStart
<1>2. SameFork
  BY RetracedFork DEF Screen!Select
<1> QED BY <1>1, <1>2, ScreenOpens DEF Screen!Select, Screen!outcome

LEMMA ScreenForkOpens == ASSUME ScreenInv, Screen!ForkOpens PROVE ScreenInv'
<1>1. CASE ~forking.busy /\ Screen!Opens(forking.chat)
  <2>1. forking.chat \in 1 .. made /\ sending.at = "no" /\ resuming = Screen!Home
    BY <1>1 DEF ScreenInv, Existing, Undisturbed, Screen!ForkOpens
  <2> QED BY <1>1, <2>1, ScreenOpens DEF Screen!ForkOpens, Screen!outcome
<1>2. CASE UNCHANGED <<version, loads, draftKey, active, loading, shown>>
  <2>1. Screen!PromptKept' /\ Carried' /\ Written'
    BY <1>2, ViewKeepsPrompts DEF Screen!ForkOpens, Screen!outcome
  <2>2. Screen!TypeOK' /\ Screen!ShownIsActive' /\ Newest' /\ Existing' /\ Undisturbed'
    BY <1>2 DEF ScreenInv, Screen!ForkOpens, Screen!outcome, Screen!TypeOK, Screen!ShownIsActive, Newest, Existing,
                Undisturbed, Screen!NoFork, Screen!DraftKeys, Screen!Home
  <2> QED BY <2>1, <2>2 DEF ScreenInv
<1> QED BY <1>1, <1>2 DEF Screen!ForkOpens

LEMMA ScreenSelectAnswered == ASSUME ScreenInv, NEW l \in loads, Screen!SelectAnswered(l) PROVE ScreenInv'
<1>1. CASE l.version # version
  <2>1. loads' = loads \ {l} /\ UNCHANGED <<made, listed, active, shown, loading, version, opening, removing, forking, resuming,
           draftKey, drafts, sending, typed, accepted, told, covered, meant>>
    BY <1>1 DEF Screen!SelectAnswered, Screen!Retraced, Screen!outcome
  <2>2. Screen!PromptKept' /\ Carried' /\ Written'
    BY <2>1, ViewKeepsPrompts
  <2>3. Screen!TypeOK' /\ Screen!ShownIsActive' /\ Newest' /\ Existing' /\ Undisturbed'
    BY <2>1 DEF ScreenInv, Screen!TypeOK, Screen!ShownIsActive, Newest, Existing, Undisturbed
  <2> QED BY <2>2, <2>3 DEF ScreenInv
<1>2. CASE l.version = version
  <2>1. /\ loads' = loads \ {l} /\ loading' = FALSE
        /\ \/ shown' = {l.chat} /\ UNCHANGED <<active, draftKey>>
           \/ active' = Screen!Home /\ draftKey' = Screen!Home /\ UNCHANGED shown
        /\ UNCHANGED <<made, listed, version, opening, removing, resuming,
                       drafts, sending, typed, accepted, told, covered, meant>>
    BY <1>2 DEF Screen!SelectAnswered, Screen!outcome
  <2>2. SameFork
    BY RetracedFork DEF Screen!SelectAnswered
  <2>9. /\ loading /\ active = l.chat /\ shown = {} /\ sending.at = "no" /\ resuming = Screen!Home
        /\ l.chat \in Screen!Chats
    BY <1>2 DEF ScreenInv, Newest, Undisturbed, Screen!TypeOK
  <2>3. \A m \in loads : m.version = version => m = l
    BY <1>2, <2>9 DEF ScreenInv, Newest, Screen!TypeOK
  <2>4. Screen!PromptKept' /\ Carried' /\ Written'
    BY <2>1, <2>9, ViewKeepsPrompts
  <2>5. Screen!TypeOK' /\ Undisturbed'
    BY <2>1, <2>2, <2>9 DEF ScreenInv, SameFork, Forks, Screen!TypeOK, Undisturbed, Screen!DraftKeys, Screen!Home
  <2>8. Existing'
    BY <2>1, <2>2, <2>9, ScreenAssumption DEF ScreenInv, SameFork, Screen!TypeOK, Existing, Screen!Home
  <2>6. Screen!ShownIsActive'
    BY <2>1, <2>9 DEF Screen!ShownIsActive, Screen!Home, Screen!Chats
  <2>7. Newest'
    BY <2>1, <2>3 DEF ScreenInv, Newest
  <2> QED BY <2>4, <2>5, <2>6, <2>7, <2>8 DEF ScreenInv
<1> QED BY <1>1, <1>2

(* The view leaves for a new chat, while no prompt is on its way. *)
LEMMA ScreenLeaves ==
    ASSUME ScreenInv, sending.at = "no", resuming = Screen!Home, SameFork, version' = version + 1, active' = Screen!Home, shown' = {},
           draftKey' \in {draftKey, Screen!Home}, opening' \in BOOLEAN,
           listed' \subseteq listed, removing' \in {removing, Screen!NoRemoval},
           UNCHANGED <<made, loading, loads, resuming, drafts, sending, typed, accepted, told, covered, meant>>
    PROVE  ScreenInv'
<1>1. Screen!PromptKept' /\ Carried' /\ Written'
  BY ViewKeepsPrompts
<1>2. Screen!TypeOK'
  BY DEF ScreenInv, Screen!TypeOK, Screen!NoRemoval, Screen!DraftKeys, Screen!Home, SameFork, Forks
<1>3. Screen!ShownIsActive' /\ Newest' /\ Undisturbed'
  BY DEF ScreenInv, Screen!TypeOK, Screen!ShownIsActive, Newest, Undisturbed
<1>4. Existing'
  BY DEF ScreenInv, Screen!TypeOK, Existing, Screen!Home, SameFork
<1> QED BY <1>1, <1>2, <1>3, <1>4 DEF ScreenInv

LEMMA ScreenGoHome == ASSUME ScreenInv, OverResume = {}, Screen!GoHome PROVE ScreenInv'
<1>1. /\ sending.at = "no" /\ resuming = Screen!Home /\ SameFork /\ opening \in BOOLEAN
  BY RetracedFork DEF ScreenInv, Screen!TypeOK, Screen!GoHome, Screen!Busy, Screen!MayStart
<1> QED BY <1>1, ScreenLeaves DEF Screen!GoHome, Screen!ToHome, Screen!outcome

(* What waits changes, and the view does not, while no prompt is on its way *)
(* or a fork that knows of it begins.                                       *)
LEMMA ScreenWaits ==
    ASSUME ScreenInv, Screen!TypeOK', Existing', Undisturbed',
           UNCHANGED <<active, shown, loading, version, loads, draftKey,
                       drafts, sending, typed, accepted, told, covered, meant>>
    PROVE  ScreenInv'
<1>1. Screen!PromptKept' /\ Carried' /\ Written'
  BY ViewKeepsPrompts
<1>2. Screen!ShownIsActive' /\ Newest'
  BY DEF ScreenInv, Screen!ShownIsActive, Newest
<1> QED BY <1>1, <1>2 DEF ScreenInv

LEMMA ScreenNew == ASSUME ScreenInv, Screen!New \/ Screen!NewOpens PROVE ScreenInv'
<1>1. CASE Screen!New
  <2>1. Screen!TypeOK' /\ Existing' /\ Undisturbed'
    BY <1>1 DEF ScreenInv, Screen!New, Screen!Busy, Screen!Waiting, Screen!outcome, Screen!composer, Screen!TypeOK, Existing, Undisturbed
  <2> QED BY <1>1, <2>1, ScreenWaits DEF Screen!New, Screen!outcome, Screen!composer
<1>2. CASE Screen!NewOpens
  <2>1. sending.at = "no" /\ resuming = Screen!Home /\ SameFork
    BY <1>2, RetracedFork DEF ScreenInv, Undisturbed, Screen!NewOpens
  <2>2. CASE UNCHANGED <<draftKey, version, active, shown>>
    <3>1. Screen!TypeOK' /\ Existing' /\ Undisturbed'
      BY <1>2, <2>1, <2>2 DEF ScreenInv, Screen!NewOpens, Screen!Retraced, Screen!outcome, Screen!TypeOK, Existing, Undisturbed
    <3> QED BY <1>2, <2>2, <3>1, ScreenWaits DEF Screen!NewOpens, Screen!outcome
  <2>3. CASE Screen!ToHome
    BY <1>2, <2>1, <2>3, ScreenLeaves DEF Screen!NewOpens, Screen!ToHome, Screen!outcome
  <2> QED BY <1>2, <2>2, <2>3 DEF Screen!NewOpens
<1> QED BY <1>1, <1>2

LEMMA ScreenRemove ==
    ASSUME ScreenInv, Screen!RemovalFails \/ \E chats \in SUBSET Screen!Chats : Screen!Remove(chats)
    PROVE  ScreenInv'
<1>1. /\ sending.at = "no" /\ resuming' = Screen!Home /\ Screen!TypeOK' /\ Existing'
      /\ UNCHANGED <<active, shown, loading, version, loads, draftKey,
                     drafts, sending, typed, accepted, told, covered, meant>>
  <2>1. CASE Screen!RemovalFails
    BY <2>1 DEF ScreenInv, Screen!RemovalFails, Screen!NoRemoval, Screen!Home, Screen!DraftKeys, Screen!outcome,
                Screen!composer, Screen!TypeOK, Existing, Undisturbed
  <2>2. ASSUME NEW chats \in SUBSET Screen!Chats, Screen!Remove(chats)
        PROVE  /\ sending.at = "no" /\ resuming' = Screen!Home /\ Screen!TypeOK' /\ Existing'
               /\ UNCHANGED <<active, shown, loading, version, loads, draftKey,
                              drafts, sending, typed, accepted, told, covered, meant>>
    BY <2>2 DEF ScreenInv, Screen!Remove, Screen!Busy, Screen!Waiting, Screen!outcome, Screen!composer, Screen!TypeOK, Existing
  <2> QED BY <2>1, <2>2
<1>2. Undisturbed'
  BY <1>1 DEF Undisturbed
<1> QED BY <1>1, <1>2, ScreenWaits

LEMMA ScreenRemoved == ASSUME ScreenInv, NEW c \in Screen!Chats, Screen!Removed(c) PROVE ScreenInv'
<1>1. /\ sending.at = "no" /\ resuming = Screen!Home /\ listed' = listed \ {c}
      /\ UNCHANGED <<made, loading, loads, resuming, draftKey, drafts, sending, typed, accepted, told, covered, meant>>
  BY DEF ScreenInv, Undisturbed, Screen!Removed, Screen!composer, Screen!outcome
<1>2. SameFork
  BY RetracedFork DEF Screen!Removed
<1>3. CASE version' = version + 1 /\ active' = Screen!Home /\ shown' = {} /\ opening' = TRUE /\ removing' = Screen!NoRemoval
  BY <1>1, <1>2, <1>3, ScreenLeaves
<1>4. CASE UNCHANGED <<version, active, shown, opening>>
  <2>1. removing' = [removing EXCEPT !.left = @ \ {c}] \/ removing' = Screen!NoRemoval
    BY DEF Screen!Removed
  <2>2. Screen!TypeOK' /\ Existing' /\ Undisturbed'
    BY <1>1, <1>2, <1>4, <2>1
    DEF ScreenInv, SameFork, Forks, Screen!NoRemoval, Screen!Home, Screen!DraftKeys, Screen!TypeOK, Existing, Undisturbed
  <2> QED BY <1>1, <1>2, <1>4, <2>2, ScreenWaits
<1> QED BY <1>3, <1>4 DEF Screen!Removed

LEMMA ScreenFork == ASSUME ScreenInv, Screen!Fork \/ Screen!Forked PROVE ScreenInv'
<1>1. UNCHANGED <<active, shown, loading, version, loads, opening, removing, resuming, draftKey,
                  drafts, sending, typed, accepted, told, covered, meant>>
  BY DEF Screen!Fork, Screen!Forked, Screen!composer, Screen!outcome
<1>2. CASE Screen!Fork
  <2>1. /\ forking' = [at |-> "fork", chat |-> Screen!Home, busy |-> Screen!Busy, current |-> TRUE]
        /\ Screen!Busy \in BOOLEAN /\ (sending.at # "no" => Screen!Busy)
        /\ resuming = Screen!Home /\ UNCHANGED <<made, listed>>
    BY <1>2 DEF ScreenInv, Screen!Fork, Screen!Busy, Screen!Waiting, Screen!TypeOK
  <2>2. Screen!TypeOK' /\ Existing' /\ Undisturbed'
    BY <1>1, <2>1 DEF ScreenInv, Screen!TypeOK, Existing, Undisturbed, Screen!Home, Screen!DraftKeys
  <2> QED BY <1>1, <2>2, ScreenWaits
<1>3. CASE Screen!Forked
  <2>1. \/ /\ made < MaxChats /\ made' = made + 1 /\ listed' = listed \cup {made + 1}
           /\ forking' \in {Screen!NoFork, [forking EXCEPT !.at = "boot", !.chat = made + 1, !.current = FALSE]}
        \/ forking' = Screen!NoFork /\ UNCHANGED <<made, listed>>
    BY <1>3 DEF Screen!Forked
  <2>2. forking.at # "no"
    BY <1>3 DEF Screen!Forked
  <2> DEFINE booted == [forking EXCEPT !.at = "boot", !.chat = made + 1, !.current = FALSE]
  <2>6. forking \in Forks /\ forking' \in {Screen!NoFork, booted}
    BY <2>1 DEF ScreenInv, Screen!TypeOK, Forks
  <2>7. booted.chat = made + 1 /\ booted.busy = forking.busy /\ Screen!NoFork.at = "no"
    BY <2>6 DEF Forks, Screen!NoFork
  <2>8. made < MaxChats => made + 1 \in Screen!DraftKeys /\ booted \in Forks
    <3>1. made < MaxChats => made + 1 \in Screen!DraftKeys
      BY ScreenAssumption DEF ScreenInv, Screen!TypeOK, Screen!DraftKeys, Screen!Chats
    <3> QED BY <2>6, <3>1, ForkStates
  <2>9. made' \in 0 .. MaxChats /\ made <= made' /\ (forking' = booted => made' = made + 1 \/ forking' = Screen!NoFork)
    BY <2>1, ScreenAssumption DEF ScreenInv, Screen!TypeOK
  <2> HIDE DEF booted
  <2>3. Screen!TypeOK'
    <3>1. forking' \in Forks
      BY <2>1, <2>6, <2>8, ForkStates
    <3>2. listed' \subseteq 1 .. made'
      BY <2>1, ScreenAssumption DEF ScreenInv, Screen!TypeOK
    <3> QED BY <1>1, <2>9, <3>1, <3>2 DEF ScreenInv, Screen!TypeOK, Forks
  <2>4. Existing'
    <3>1. forking'.at = "boot" => forking'.chat \in 1 .. made'
      BY <2>6, <2>7, <2>9, ScreenAssumption DEF ScreenInv, Screen!TypeOK
    <3>2. active <= made' /\ draftKey <= made' /\ \A l \in loads : l.chat <= made'
      BY <2>9, ScreenAssumption DEF ScreenInv, Screen!TypeOK, Existing, Screen!DraftKeys, Screen!Chats, Screen!Home
    <3>3. \A k \in Screen!DraftKeys : drafts[k] <= typed /\ (k > made' => drafts[k] = 0)
      BY <2>9, ScreenAssumption DEF ScreenInv, Screen!TypeOK, Existing, Screen!DraftKeys, Screen!Chats, Screen!Home
    <3> QED BY <1>1, <3>1, <3>2, <3>3 DEF Existing
  <2>5. Undisturbed'
    BY <1>1, <2>2, <2>6, <2>7 DEF ScreenInv, Undisturbed
  <2> QED BY <1>1, <2>3, <2>4, <2>5, ScreenWaits
<1> QED BY <1>2, <1>3

(* A prompt on its way may be anywhere the call of send waits. *)
SendStates == {"no", "create", "meta", "tools", "turn", "check", "refresh", "last"}
Sends == [at : SendStates, chat : Screen!DraftKeys, prompt : 0 .. MaxDrafts, cancelled : BOOLEAN, threw : BOOLEAN]

LEMMA SendsOn ==
    ASSUME NEW s \in Sends
    PROVE  /\ \A spot \in SendStates : [s EXCEPT !.at = spot] \in Sends
           /\ \A spot \in SendStates, threw \in BOOLEAN : [s EXCEPT !.at = spot, !.threw = threw] \in Sends
           /\ \A spot \in SendStates, c \in Screen!DraftKeys :
                 [s EXCEPT !.chat = c, !.at = spot] \in Sends /\ [s EXCEPT !.at = spot, !.chat = c] \in Sends
           /\ [s EXCEPT !.cancelled = TRUE] \in Sends
BY DEF Sends

(* The call of send goes on without touching the view or a draft.           *)
LEMMA SendMoves ==
    ASSUME ScreenInv, sending.at # "no", sending' \in Sends, sending'.prompt = sending.prompt,
           sending'.chat = sending.chat, sending'.at # "no", Carried',
           told' \subseteq Screen!Prompts, told \subseteq told',
           UNCHANGED <<made, listed, active, loading, version, loads, opening, removing, forking, resuming,
                       draftKey, drafts, typed, accepted, covered, meant>>,
           shown' \in {shown, shown \cup {sending.chat}, {sending.chat}},
           shown' # shown => sending.chat # Screen!Home
    PROVE  ScreenInv'
<1>1. sending.chat = active /\ ~loading
  BY DEF ScreenInv, Carried, Undisturbed
<1>2. Screen!TypeOK'
  BY <1>1 DEF ScreenInv, Screen!TypeOK, Sends, SendStates, Screen!DraftKeys, Screen!Home
<1>3. Screen!ShownIsActive' /\ Newest' /\ Existing' /\ Undisturbed'
  BY <1>1 DEF ScreenInv, Screen!ShownIsActive, Newest, Existing, Undisturbed
<1>4. Screen!PromptKept' /\ Written'
  BY DEF ScreenInv, Screen!PromptKept, Screen!Draft, Screen!Taken, Written
<1> QED BY <1>2, <1>3, <1>4 DEF ScreenInv

LEMMA ScreenCreationFails == ASSUME ScreenInv, Screen!CreationFails PROVE ScreenInv'
<1> DEFINE next == [sending EXCEPT !.at = "refresh", !.threw = TRUE]
<1>1. sending \in Sends /\ sending' = next /\ sending.at = "create"
  BY DEF ScreenInv, Screen!TypeOK, Screen!CreationFails, Sends, SendStates
<1>2. next \in Sends
  BY <1>1, SendsOn DEF SendStates
<1>3. next.at = "refresh" /\ next.threw = TRUE /\ next.prompt = sending.prompt /\ next.chat = sending.chat
  BY <1>1 DEF Sends
<1> HIDE DEF next
<1>4. UNCHANGED <<made, listed, active, shown, loading, version, loads, opening, removing, forking, resuming,
                  draftKey, drafts, typed, accepted, told, covered, meant>>
  BY DEF Screen!CreationFails, Screen!view, Screen!outcome
<1>5. Carried'
  BY <1>1, <1>3, <1>4 DEF ScreenInv, Carried, Screen!Draft, Screen!Taken
<1> QED BY <1>1, <1>2, <1>3, <1>4, <1>5, SendMoves DEF ScreenInv, Screen!TypeOK

LEMMA ScreenCancel == ASSUME ScreenInv, Screen!Cancel PROVE ScreenInv'
<1> DEFINE next == [sending EXCEPT !.cancelled = TRUE]
<1>1. sending \in Sends /\ sending' = next /\ sending.at # "no"
  BY DEF ScreenInv, Screen!TypeOK, Screen!Cancel, Sends, SendStates
<1>2. next \in Sends
  BY <1>1, SendsOn
<1>3. /\ next.at = sending.at /\ next.threw = sending.threw
      /\ next.prompt = sending.prompt /\ next.chat = sending.chat
  BY <1>1 DEF Sends
<1> HIDE DEF next
<1>4. UNCHANGED <<made, listed, active, shown, loading, version, loads, opening, removing, forking, resuming,
                  draftKey, drafts, typed, accepted, told, covered, meant>>
  BY DEF Screen!Cancel, Screen!view, Screen!outcome
<1>5. Carried'
  BY <1>1, <1>3, <1>4 DEF ScreenInv, Carried, Screen!Draft, Screen!Taken
<1> QED BY <1>1, <1>2, <1>3, <1>4, <1>5, SendMoves DEF ScreenInv, Screen!TypeOK

(* Task data and preset, then the tools, then the turn.                     *)
LEMMA ScreenPrepares == ASSUME ScreenInv, Screen!MetaSaved \/ Screen!ToolsSaved PROVE ScreenInv'
<1>1. PICK spot \in {"tools", "check", "turn"} :
         /\ sending.at \in {"meta", "tools"} /\ sending' = [sending EXCEPT !.at = spot]
         /\ shown' \in {shown, shown \cup {sending.chat}}
         /\ UNCHANGED <<made, listed, active, loading, version, loads, opening, removing, forking, resuming,
                        draftKey, drafts, typed, accepted, told, covered, meant>>
  BY DEF Screen!MetaSaved, Screen!ToolsSaved, Screen!view, Screen!outcome
<1> DEFINE next == [sending EXCEPT !.at = spot]
<1>2. sending \in Sends /\ sending' = next
  BY <1>1 DEF ScreenInv, Screen!TypeOK, Sends, SendStates
<1>3. next \in Sends
  BY <1>2, SendsOn DEF SendStates
<1>4. next.at = spot /\ next.threw = sending.threw /\ next.prompt = sending.prompt /\ next.chat = sending.chat
  BY <1>2 DEF Sends
<1> HIDE DEF next
<1>5. Carried'
  BY <1>1, <1>2, <1>4 DEF ScreenInv, Carried, Screen!Draft, Screen!Taken
<1>6. sending.chat # Screen!Home
  BY <1>1 DEF ScreenInv, Carried
<1> QED BY <1>1, <1>2, <1>3, <1>4, <1>5, <1>6, SendMoves DEF ScreenInv, Screen!TypeOK

LEMMA ScreenTurnStreams == ASSUME ScreenInv, Screen!TurnStreams PROVE ScreenInv'
<1>1. /\ sending.at = "turn" /\ shown' = shown \cup {sending.chat}
      /\ UNCHANGED <<made, listed, active, loading, version, loads, opening, removing, forking, resuming,
                     draftKey, drafts, sending, typed, accepted, told, covered, meant>>
  BY DEF Screen!TurnStreams, Screen!composer, Screen!outcome
<1>2. sending \in Sends
  BY DEF ScreenInv, Screen!TypeOK, Sends, SendStates
<1>3. Carried' /\ sending.chat # Screen!Home
  BY <1>1 DEF ScreenInv, Carried, Screen!Draft, Screen!Taken
<1> QED BY <1>1, <1>2, <1>3, SendMoves DEF ScreenInv, Screen!TypeOK

(* The saved messages are read, or cannot be; the lists are read.           *)
LEMMA ScreenChecks ==
    ASSUME ScreenInv, Screen!Checked \/ Screen!CheckFails \/ Screen!Refreshed
    PROVE  ScreenInv'
<1>1. PICK spot \in {"refresh", "last"}, threw \in BOOLEAN :
         /\ sending' = [sending EXCEPT !.at = spot, !.threw = threw]
         /\ shown' \in {shown, {sending.chat}} /\ sending.chat # Screen!Home
         /\ \/ /\ sending.at = "check" /\ told' = told
               /\ threw = (<<sending.chat, sending.prompt>> \notin accepted)
            \/ sending.at = "check" /\ told' = told \cup Screen!Carries /\ threw = FALSE
            \/ sending.at = "refresh" /\ told' = told /\ threw = sending.threw
         /\ UNCHANGED <<made, listed, active, loading, version, loads, opening, removing, forking, resuming,
                        draftKey, drafts, typed, accepted, covered, meant>>
  <2>1. sending \in Sends
    BY DEF ScreenInv, Screen!TypeOK, Sends, SendStates
  <2>2. CASE Screen!Checked
    <3>1. (<<sending.chat, sending.prompt>> \notin accepted) \in BOOLEAN
      OBVIOUS
    <3> QED BY <2>2, <3>1 DEF ScreenInv, Carried, Screen!Checked, Screen!outcome
  <2>3. CASE Screen!CheckFails
    <3>1. sending.threw = FALSE /\ sending.chat # Screen!Home
      BY <2>1, <2>3 DEF ScreenInv, Carried, Screen!CheckFails, Sends
    <3>2. sending' = [sending EXCEPT !.at = "refresh", !.threw = FALSE]
      BY <2>1, <2>3, <3>1 DEF Screen!CheckFails, Sends
    <3> QED BY <2>3, <3>1, <3>2 DEF Screen!CheckFails, Screen!view
  <2>4. CASE Screen!Refreshed
    <3>1. sending' = [sending EXCEPT !.at = "last", !.threw = sending.threw]
      BY <2>1, <2>4 DEF Screen!Refreshed, Sends
    <3> QED BY <2>1, <2>4, <3>1 DEF Screen!Refreshed, Screen!outcome, Sends
  <2> QED BY <2>2, <2>3, <2>4
<1> DEFINE next == [sending EXCEPT !.at = spot, !.threw = threw]
<1>2. sending \in Sends /\ sending' = next
  BY <1>1 DEF ScreenInv, Screen!TypeOK, Sends, SendStates
<1>3. next \in Sends
  BY <1>2, SendsOn DEF SendStates
<1>4. next.at = spot /\ next.threw = threw /\ next.prompt = sending.prompt /\ next.chat = sending.chat
  BY <1>2 DEF Sends
<1> HIDE DEF next
<1>5. /\ sending.chat \in Screen!Chats /\ Screen!Carries \subseteq Screen!Prompts
      /\ sending.prompt # 0 => Screen!Carries = {sending.prompt}
  BY <1>1, ScreenAssumption
  DEF ScreenInv, Carried, Screen!TypeOK, Screen!Carries, Screen!Prompts, Screen!DraftKeys, Screen!Home
<1>6. Carried'
  <2>1. CASE sending.at = "check"
    <3>1. threw /\ sending.prompt # 0 => ~Screen!Taken(sending.prompt)
      BY <1>1, <2>1 DEF ScreenInv, Carried, Screen!Taken
    <3>2. ~threw /\ sending.prompt # 0 => Screen!Taken(sending.prompt) \/ sending.prompt \in told'
      BY <1>1, <1>5, <2>1 DEF Screen!Taken
    <3> QED BY <1>1, <1>2, <1>4, <2>1, <3>1, <3>2 DEF ScreenInv, Carried, Screen!Draft, Screen!Taken
  <2>2. CASE sending.at = "refresh"
    BY <1>1, <1>2, <1>4, <2>2 DEF ScreenInv, Carried, Screen!Draft, Screen!Taken
  <2> QED BY <1>1, <2>1, <2>2
<1> QED BY <1>1, <1>2, <1>3, <1>4, <1>5, <1>6, SendMoves DEF ScreenInv, Screen!TypeOK

LEMMA ScreenTurnEnds == ASSUME ScreenInv, Screen!TurnEnds PROVE ScreenInv'
<1>1. sending.at = "turn" /\ sending \in Sends
  BY DEF Screen!TurnEnds, ScreenInv, Screen!TypeOK, Sends, SendStates
<1>2. /\ sending.chat # Screen!Home /\ sending.chat = active /\ ~loading /\ ~sending.threw
      /\ sending.chat \in Screen!Chats
      /\ sending.prompt # 0 =>
            /\ ~Screen!Draft(sending.prompt) /\ ~Screen!Taken(sending.prompt)
            /\ sending.prompt \in Screen!Prompts
  BY <1>1, ScreenAssumption
  DEF ScreenInv, Carried, Undisturbed, Screen!TypeOK, Screen!Prompts, Screen!DraftKeys, Screen!Home
<1>3. PICK spot \in {"refresh", "check"} :
         /\ sending' = [sending EXCEPT !.at = spot]
         /\ \/ sending.prompt # 0 /\ accepted' = accepted \cup {<<sending.chat, sending.prompt>>}
            \/ (spot = "check" \/ sending.prompt = 0) /\ accepted' = accepted
         /\ UNCHANGED <<made, listed, active, shown, loading, version, loads, opening, removing, forking, resuming,
                        draftKey, drafts, typed, told, covered, meant>>
  <2>1. /\ sending.prompt # 0 => {sending.chat} \X Screen!Carries = {<<sending.chat, sending.prompt>>}
        /\ sending.prompt = 0 => {sending.chat} \X Screen!Carries = {}
    BY DEF Screen!Carries
  <2> QED BY <2>1 DEF Screen!TurnEnds, Screen!view
<1> DEFINE next == [sending EXCEPT !.at = spot]
<1>4. next \in Sends
  BY <1>1, SendsOn DEF SendStates
<1>5. next.at = spot /\ next.threw = sending.threw /\ next.prompt = sending.prompt /\ next.chat = sending.chat
  BY <1>1 DEF Sends
<1>6. sending' = next
  BY <1>3
<1> HIDE DEF next
<1>7. accepted' \subseteq Screen!Chats \X Screen!Prompts
  BY <1>2, <1>3 DEF ScreenInv, Screen!TypeOK
<1>8. Screen!TypeOK'
  BY <1>3, <1>4, <1>6, <1>7 DEF ScreenInv, Screen!TypeOK, Sends, SendStates
<1>9. Screen!ShownIsActive' /\ Newest' /\ Existing' /\ Undisturbed'
  BY <1>1, <1>3, <1>5, <1>6 DEF ScreenInv, Screen!ShownIsActive, Newest, Existing, Undisturbed
<1>10. Screen!PromptKept'
  <2>1. accepted \subseteq accepted'
    BY <1>3
  <2>2. \A p : p # sending.prompt \/ sending.prompt = 0 => \A c : <<c, p>> \in accepted' => <<c, p>> \in accepted
    BY <1>3
  <2>3. ASSUME NEW p \in 1 .. typed
        PROVE  \/ Screen!Draft(p) \/ (\E c \in Screen!Chats : <<c, p>> \in accepted') \/ p \in told \cup covered
               \/ p = sending.prompt
    BY <2>1 DEF ScreenInv, Screen!PromptKept, Screen!Taken
  <2>4. ASSUME NEW k \in Screen!DraftKeys, drafts[k] # 0
        PROVE  meant[drafts[k]] = k /\ ~ \E c \in Screen!Chats : <<c, drafts[k]>> \in accepted'
    <3>1. drafts[k] # sending.prompt \/ sending.prompt = 0
      BY <1>2 DEF Screen!Draft
    <3> QED BY <2>2, <2>4, <3>1 DEF ScreenInv, Screen!PromptKept, Screen!Taken
  <2> QED BY <1>3, <1>5, <1>6, <2>3, <2>4 DEF Screen!PromptKept, Screen!Draft, Screen!Taken
<1>11. Carried'
  <2>1. sending.prompt # 0 => \A c \in Screen!Chats : <<c, sending.prompt>> \in accepted' => c = sending.chat
    BY <1>2, <1>3 DEF Screen!Taken
  <2>2. spot = "refresh" /\ sending.prompt # 0 => \E c \in Screen!Chats : <<c, sending.prompt>> \in accepted'
    BY <1>2, <1>3
  <2>3. sending.prompt # 0 => ~(\E k \in Screen!DraftKeys : drafts'[k] = sending.prompt)
    BY <1>2, <1>3 DEF Screen!Draft
  <2> QED BY <1>1, <1>2, <1>3, <1>5, <1>6, <2>1, <2>2, <2>3 DEF ScreenInv, Carried, Screen!Draft, Screen!Taken
<1>12. Written'
  BY <1>1, <1>3 DEF ScreenInv, Carried, Written, Screen!Taken
<1> QED BY <1>8, <1>9, <1>10, <1>11, <1>12 DEF ScreenInv

(* The next prompt is written.                                              *)
LEMMA ScreenType == ASSUME ScreenInv, Screen!Type PROVE ScreenInv'
<1>1. /\ typed < MaxDrafts /\ drafts[draftKey] = 0 /\ typed' = typed + 1
      /\ drafts' = [drafts EXCEPT ![draftKey] = typed + 1]
      /\ meant' = [meant EXCEPT ![typed + 1] = draftKey]
      /\ UNCHANGED <<made, listed, active, shown, loading, version, loads, opening, removing, forking, resuming,
                     draftKey, sending, accepted, told, covered>>
  BY DEF Screen!Type, Screen!view
<1>2. /\ typed \in Nat /\ draftKey \in Screen!DraftKeys /\ typed + 1 \in Screen!Prompts
      /\ drafts \in [Screen!DraftKeys -> 0 .. MaxDrafts] /\ meant \in [Screen!Prompts -> Screen!DraftKeys]
      /\ accepted \subseteq Screen!Chats \X Screen!Prompts
  BY <1>1, ScreenAssumption DEF ScreenInv, Screen!TypeOK, Screen!Prompts
<1>3. /\ \A k \in Screen!DraftKeys : drafts'[k] = IF k = draftKey THEN typed + 1 ELSE drafts[k]
      /\ \A p \in Screen!Prompts : meant'[p] = IF p = typed + 1 THEN draftKey ELSE meant[p]
  BY <1>1, <1>2
<1>4. Screen!TypeOK'
  <2>1. typed' \in 0 .. MaxDrafts /\ typed + 1 \in 0 .. MaxDrafts
    BY <1>1, <1>2, ScreenAssumption
  <2>2. drafts' \in [Screen!DraftKeys -> 0 .. MaxDrafts] /\ meant' \in [Screen!Prompts -> Screen!DraftKeys]
    BY <1>1, <1>2, <2>1
  <2> QED BY <1>1, <2>1, <2>2 DEF ScreenInv, Screen!TypeOK
<1>5. Screen!ShownIsActive' /\ Newest'
  BY <1>1, PromptsKeepView
<1>6. Existing' /\ Undisturbed'
  BY <1>1, <1>2, <1>3, ScreenAssumption DEF ScreenInv, Existing, Undisturbed, Screen!DraftKeys, Screen!Chats, Screen!Home, Screen!TypeOK
<1>7. \A k \in Screen!DraftKeys : drafts[k] <= typed /\ drafts[k] \in Nat
  BY <1>2, ScreenAssumption DEF ScreenInv, Existing
<1>8. \A k \in Screen!DraftKeys : drafts[k] # 0 => drafts[k] \in Screen!Prompts /\ drafts[k] # typed + 1
  BY <1>2, <1>7 DEF Screen!Prompts
<1>9. ~Screen!Taken(typed + 1) /\ 1 .. typed \subseteq Screen!Prompts
  BY <1>2, ScreenAssumption DEF ScreenInv, Written, Screen!Prompts
<1>10. \A p : Screen!Taken(p)' <=> Screen!Taken(p)
  BY <1>1 DEF Screen!Taken
<1>11. \A p : Screen!Draft(p) /\ p # 0 => \E k \in Screen!DraftKeys : drafts'[k] = p
  BY <1>1, <1>3 DEF Screen!Draft
<1>12. Screen!PromptKept'
  <2>1. ASSUME NEW p \in 1 .. typed'
        PROVE  \/ Screen!Draft(p)' \/ Screen!Taken(p)' \/ p \in told' \cup covered'
               \/ sending'.at # "no" /\ sending'.prompt = p
    <3>1. CASE p = typed + 1
      BY <1>2, <1>3, <3>1 DEF Screen!Draft
    <3>2. CASE p \in 1 .. typed
      BY <1>1, <1>10, <1>11, <3>2 DEF ScreenInv, Screen!PromptKept, Screen!Draft
    <3> QED BY <1>1, <1>2, <3>1, <3>2
  <2>2. ASSUME NEW k \in Screen!DraftKeys, drafts'[k] # 0
        PROVE  meant'[drafts'[k]] = k /\ ~Screen!Taken(drafts'[k])
    BY <1>2, <1>3, <1>8, <1>9, <2>2 DEF ScreenInv, Screen!PromptKept
  <2> QED BY <1>10, <2>1, <2>2 DEF Screen!PromptKept
<1>13. Carried'
  <2> SUFFICES ASSUME sending.at # "no" PROVE Carried'
    BY <1>1 DEF Carried
  <2>1. sending.prompt # 0 => sending.prompt \in 1 .. typed /\ meant'[sending.prompt] = draftKey
    BY <1>1, <1>2, <1>3, <1>9 DEF ScreenInv, Carried
  <2>2. sending.prompt # 0 => ~Screen!Draft(sending.prompt)'
    BY <1>1, <1>2, <1>3, <2>1 DEF ScreenInv, Carried, Screen!Draft
  <2>3. CASE sending.prompt = 0
    BY <1>1, <2>3 DEF ScreenInv, Carried
  <2>4. CASE sending.prompt # 0
    <3>1. sending.prompt \in 1 .. typed'
      BY <1>1, <1>2, <2>1, <2>4
    <3>2. Screen!Taken(sending.prompt)' <=> Screen!Taken(sending.prompt)
      BY <1>1 DEF Screen!Taken
    <3> QED BY <1>1, <2>1, <2>2, <2>4, <3>1, <3>2 DEF ScreenInv, Carried
  <2> QED BY <2>3, <2>4
<1>14. Written'
  BY <1>1, <1>2, <1>10 DEF ScreenInv, Written, Screen!Prompts
<1> QED BY <1>4, <1>5, <1>6, <1>12, <1>13, <1>14 DEF ScreenInv

(* Return in the composer: the prompt leaves its draft.                     *)
LEMMA ScreenSubmit ==
    ASSUME ScreenInv, Overtaken \subseteq {"select", "home"}, OverResume = {}, Screen!Submit
    PROVE  ScreenInv'
<1> DEFINE next == [Screen!NoSend EXCEPT !.at = IF active = Screen!Home THEN "create" ELSE "tools",
                                         !.chat = active, !.prompt = drafts[draftKey]]
<1>1. /\ sending.at = "no" /\ ~loading /\ ~opening /\ removing.left = {} /\ forking.at = "no"
      /\ resuming = Screen!Home /\ drafts[draftKey] # 0 /\ sending' = next /\ drafts' = [drafts EXCEPT ![draftKey] = 0]
      /\ UNCHANGED <<made, listed, active, shown, loading, version, loads, opening, removing, forking, resuming,
                     draftKey, typed, accepted, told, covered, meant>>
  BY DEF Screen!Submit, Screen!Busy, Screen!MayStart, Screen!Leaving, Screen!view, Screen!outcome
<1>2. /\ typed \in Nat /\ draftKey \in Screen!DraftKeys /\ active \in Screen!DraftKeys
      /\ drafts \in [Screen!DraftKeys -> 0 .. MaxDrafts] /\ drafts[draftKey] \in 1 .. typed
  BY <1>1, ScreenAssumption DEF ScreenInv, Screen!TypeOK, Existing
<1>3. /\ next \in Sends /\ next.chat = active /\ next.prompt = drafts[draftKey] /\ next.threw = FALSE
      /\ next.at = IF active = Screen!Home THEN "create" ELSE "tools"
  BY <1>2, ScreenAssumption DEF Screen!NoSend, Sends, SendStates
<1> HIDE DEF next
<1>4. \A k \in Screen!DraftKeys : drafts'[k] = IF k = draftKey THEN 0 ELSE drafts[k]
  BY <1>1, <1>2
<1>5. Screen!TypeOK'
  BY <1>1, <1>2, <1>3, ScreenAssumption DEF ScreenInv, Screen!TypeOK, Sends, SendStates
<1>6. Screen!ShownIsActive' /\ Newest'
  BY <1>1, PromptsKeepView
<1>7. Existing'
  BY <1>1, <1>2, <1>4 DEF ScreenInv, Existing
<1>8. Undisturbed'
  BY <1>1 DEF Undisturbed
<1>9. \A k \in Screen!DraftKeys : drafts[k] # 0 => meant[drafts[k]] = k /\ ~Screen!Taken(drafts[k])
  BY DEF ScreenInv, Screen!PromptKept
<1>10. next.at # "no"
  BY <1>3
<1>11. Screen!PromptKept'
  <2>1. \A p \in 1 .. typed : Screen!Draft(p) => p = drafts[draftKey] \/ \E k \in Screen!DraftKeys : drafts'[k] = p
    BY <1>4 DEF Screen!Draft
  <2>2. \A p \in 1 .. typed : Screen!Draft(p) \/ Screen!Taken(p) \/ p \in told \cup covered
    BY <1>1 DEF ScreenInv, Screen!PromptKept
  <2> QED BY <1>1, <1>2, <1>3, <1>4, <1>9, <1>10, <2>1, <2>2 DEF Screen!PromptKept, Screen!Draft, Screen!Taken
<1>12. Carried'
  <2>1. \A k \in Screen!DraftKeys : drafts'[k] # drafts[draftKey]
    BY <1>1, <1>2, <1>4, <1>9
  <2>2. meant[drafts[draftKey]] = draftKey /\ ~Screen!Taken(drafts[draftKey])
    BY <1>1, <1>2, <1>9
  <2> QED BY <1>1, <1>2, <1>3, <1>10, <2>1, <2>2 DEF Carried, Screen!Draft, Screen!Taken
<1>13. Written'
  BY <1>1 DEF ScreenInv, Written, Screen!Taken
<1> QED BY <1>5, <1>6, <1>7, <1>8, <1>11, <1>12, <1>13 DEF ScreenInv

(* A turn that was paused is sent for again, with no prompt.                *)
LEMMA ScreenResume == ASSUME ScreenInv, Screen!Resume \/ Screen!ResumeAnswered PROVE ScreenInv'
<1> USE DEF Screen!outcome, Screen!composer
<1>1. CASE Screen!Resume
  <2>1. Screen!TypeOK' /\ Existing' /\ Undisturbed'
    BY <1>1 DEF ScreenInv, Screen!Resume, Screen!Busy, Screen!Waiting, Screen!Leaving, Screen!TypeOK, Existing,
                Undisturbed
  <2> QED BY <1>1, <2>1, ScreenWaits DEF Screen!Resume
<1>2. ASSUME Screen!ResumeAnswered
      PROVE  /\ resuming = active /\ active # Screen!Home /\ resuming' = Screen!Home /\ sending.at = "no"
             /\ ~opening /\ ~loading /\ removing.left = {} /\ forking.at = "no"
             /\ UNCHANGED <<made, listed, active, shown, loading, version, loads, opening, removing, forking,
                            draftKey, drafts, typed, accepted, told, covered, meant>>
  BY <1>2 DEF ScreenInv, Undisturbed, Screen!ResumeAnswered
<1>3. CASE Screen!ResumeAnswered /\ UNCHANGED sending
  <2>1. Screen!TypeOK'
    BY <1>2, <1>3 DEF ScreenInv, Screen!TypeOK, Screen!DraftKeys, Screen!Home
  <2>2. Existing' /\ Undisturbed'
    BY <1>2, <1>3 DEF ScreenInv, Existing, Undisturbed
  <2> QED BY <1>2, <1>3, <2>1, <2>2, ScreenWaits
<1> DEFINE next == [Screen!NoSend EXCEPT !.at = "tools", !.chat = resuming]
<1>4. CASE Screen!ResumeAnswered /\ sending' = next
  <2>1. next \in Sends /\ next.at = "tools" /\ next.chat = active /\ next.prompt = 0 /\ next.threw = FALSE
    <3>1. resuming \in Screen!DraftKeys
      BY DEF ScreenInv, Screen!TypeOK
    <3>2. resuming = active
      BY <1>2, <1>4
    <3>3. Screen!NoSend \in Sends /\ Screen!NoSend.prompt = 0 /\ Screen!NoSend.threw = FALSE
      BY ScreenAssumption DEF Screen!NoSend, Sends, SendStates, Screen!DraftKeys, Screen!Home
    <3>4. next \in Sends
      BY <3>1, <3>3, SendsOn DEF SendStates
    <3> QED BY <3>1, <3>2, <3>3, <3>4 DEF Sends
  <2> HIDE DEF next
  <2>2. Screen!TypeOK'
    BY <1>2, <1>4, <2>1 DEF ScreenInv, Screen!TypeOK, Sends, SendStates, Screen!DraftKeys, Screen!Home
  <2>3. Screen!ShownIsActive' /\ Newest' /\ Existing'
    BY <1>2, <1>4 DEF ScreenInv, Screen!ShownIsActive, Newest, Existing
  <2>4. Undisturbed' /\ Carried'
    BY <1>2, <1>4, <2>1 DEF Undisturbed, Carried
  <2>5. Screen!PromptKept' /\ Written'
    BY <1>2, <1>4 DEF ScreenInv, Screen!PromptKept, Screen!Draft, Screen!Taken, Written
  <2> QED BY <2>2, <2>3, <2>4, <2>5 DEF ScreenInv
<1> QED BY <1>1, <1>3, <1>4 DEF Screen!ResumeAnswered

(* The conversation of the first prompt exists.                             *)
LEMMA ScreenCreated == ASSUME ScreenInv, Screen!Created PROVE ScreenInv'
<1> DEFINE c == made + 1
           spot == IF sending.cancelled THEN "check" ELSE "meta"
           next == [sending EXCEPT !.chat = c, !.at = spot]
<1>1. /\ sending.at = "create" /\ made < MaxChats /\ made' = c /\ listed' = listed \cup {c}
      /\ active' = c /\ draftKey' = c
      /\ drafts' = [drafts EXCEPT ![c] = drafts[Screen!Home], ![Screen!Home] = 0]
      /\ meant' = [p \in Screen!Prompts |-> IF p \in {sending.prompt, drafts[Screen!Home]} THEN c ELSE meant[p]]
      /\ sending' = next
      /\ UNCHANGED <<shown, loading, version, loads, opening, removing, resuming, typed, accepted, told, covered>>
  BY DEF Screen!Created
<1>16. SameFork
  BY RetracedFork DEF Screen!Created
<1>2. /\ made \in Nat /\ c \in Screen!Chats /\ c \in Screen!DraftKeys /\ Screen!Home \in Screen!DraftKeys /\ c # Screen!Home
      /\ drafts \in [Screen!DraftKeys -> 0 .. MaxDrafts] /\ meant \in [Screen!Prompts -> Screen!DraftKeys]
      /\ sending \in Sends /\ drafts[c] = 0 /\ typed \in Nat /\ Screen!DraftKeys \subseteq 0 .. MaxChats
  BY <1>1, ScreenAssumption
  DEF ScreenInv, Existing, Screen!TypeOK, Screen!Chats, Screen!DraftKeys, Screen!Home, Sends, SendStates
<1>3. /\ next \in Sends /\ next.chat = c /\ next.prompt = sending.prompt /\ next.threw = sending.threw
      /\ next.at \in {"check", "meta"}
  <2>1. spot \in {"check", "meta"} /\ spot \in SendStates
    BY DEF SendStates
  <2> HIDE DEF spot
  <2>2. next \in Sends
    BY <1>2, <2>1, SendsOn
  <2> QED BY <1>2, <2>1, <2>2 DEF Sends
<1>4. /\ sending.prompt \in 1 .. typed /\ sending.prompt \in Screen!Prompts /\ active = Screen!Home
      /\ ~sending.threw /\ ~Screen!Taken(sending.prompt) /\ ~Screen!Draft(sending.prompt)
      /\ ~opening /\ ~loading /\ removing.left = {} /\ (forking.at # "no" => forking.busy)
      /\ resuming = Screen!Home
  BY <1>1, ScreenAssumption DEF ScreenInv, Carried, Undisturbed, Screen!TypeOK, Screen!Prompts
<1> HIDE DEF next, spot
<1>5. \A k \in Screen!DraftKeys :
         drafts'[k] = IF k = Screen!Home THEN 0 ELSE IF k = c THEN drafts[Screen!Home] ELSE drafts[k]
  BY <1>1, <1>2
<1>6. \A p \in Screen!Prompts : meant'[p] = IF p \in {sending.prompt, drafts[Screen!Home]} THEN c ELSE meant[p]
  BY <1>1
<1>7. Screen!TypeOK'
  <2>1. made' \in 0 .. MaxChats /\ listed' \subseteq 1 .. made'
    BY <1>1, <1>2, ScreenAssumption DEF ScreenInv, Screen!TypeOK, Screen!Chats
  <2>2. drafts' \in [Screen!DraftKeys -> 0 .. MaxDrafts] /\ meant' \in [Screen!Prompts -> Screen!DraftKeys]
    BY <1>1, <1>2, ScreenAssumption
  <2> QED BY <1>1, <1>2, <1>3, <1>16, <2>1, <2>2 DEF ScreenInv, Screen!TypeOK, Sends, SendStates, SameFork, Forks
<1>8. Screen!ShownIsActive' /\ Newest' /\ Undisturbed'
  BY <1>1, <1>4, <1>16, ScreenAssumption DEF ScreenInv, SameFork, Screen!ShownIsActive, Newest, Undisturbed
<1>9. Existing'
  <2>1. active' <= made' /\ draftKey' <= made'
    BY <1>1, <1>2
  <2>2. forking'.at = "boot" => forking'.chat \in 1 .. made'
    BY <1>1, <1>2, <1>16 DEF ScreenInv, Existing, SameFork
  <2>3. \A l \in loads' : l.chat <= made'
    BY <1>1, <1>2 DEF ScreenInv, Existing, Screen!TypeOK, Screen!Chats
  <2>4. \A k \in Screen!DraftKeys : drafts'[k] <= typed' /\ (k > made' => drafts'[k] = 0)
    BY <1>1, <1>2, <1>5 DEF ScreenInv, Existing
  <2> QED BY <2>1, <2>2, <2>3, <2>4 DEF Existing
<1>10. \A k \in Screen!DraftKeys : drafts[k] # 0 =>
          /\ drafts[k] \in Screen!Prompts /\ drafts[k] # sending.prompt
          /\ meant[drafts[k]] = k /\ ~Screen!Taken(drafts[k])
  BY <1>2, <1>4 DEF ScreenInv, Screen!PromptKept, Screen!Draft, Screen!Prompts
<1>11. \A p : p # 0 => (Screen!Draft(p)' <=> Screen!Draft(p))
  <2>1. ASSUME NEW p, p # 0, NEW k \in Screen!DraftKeys, drafts[k] = p PROVE \E n \in Screen!DraftKeys : drafts'[n] = p
    <3>1. CASE k = Screen!Home
      BY <1>2, <1>5, <2>1, <3>1
    <3>2. CASE k # Screen!Home
      BY <1>2, <1>5, <2>1, <3>2
    <3> QED BY <3>1, <3>2
  <2>2. ASSUME NEW p, p # 0, NEW k \in Screen!DraftKeys, drafts'[k] = p PROVE \E n \in Screen!DraftKeys : drafts[n] = p
    BY <1>2, <1>5, <2>2
  <2> QED BY <2>1, <2>2 DEF Screen!Draft
<1>12. \A p : Screen!Taken(p)' <=> Screen!Taken(p)
  BY <1>1 DEF Screen!Taken
<1>13. Screen!PromptKept'
  <2>1. ASSUME NEW p \in 1 .. typed'
        PROVE  \/ Screen!Draft(p)' \/ Screen!Taken(p)' \/ p \in told' \cup covered'
               \/ sending'.at # "no" /\ sending'.prompt = p
    BY <1>1, <1>3, <1>11, <1>12 DEF ScreenInv, Screen!PromptKept
  <2>2. ASSUME NEW k \in Screen!DraftKeys, drafts'[k] # 0
        PROVE  meant'[drafts'[k]] = k /\ ~Screen!Taken(drafts'[k])
    <3>1. CASE k = c
      BY <1>2, <1>5, <1>6, <1>10, <2>2, <3>1
    <3>2. CASE k # c
      <4>1. k # Screen!Home /\ drafts'[k] = drafts[k]
        BY <1>5, <2>2, <3>2
      <4>2. drafts[k] # drafts[Screen!Home]
        BY <1>2, <1>10, <2>2, <4>1
      <4> QED BY <1>6, <1>10, <2>2, <4>1, <4>2
    <3> QED BY <3>1, <3>2
  <2> QED BY <1>12, <2>1, <2>2 DEF Screen!PromptKept
<1>14. Carried'
  <2>1. meant'[sending.prompt] = c
    BY <1>4, <1>6
  <2>2. ~Screen!Draft(sending.prompt)' /\ ~Screen!Taken(sending.prompt)'
    <3>1. sending.prompt # 0
      BY <1>2, <1>4
    <3>2. ~\E k \in Screen!DraftKeys : drafts'[k] = sending.prompt
      BY <1>4, <1>5, <1>2, <3>1 DEF Screen!Draft
    <3>3. ~\E k \in Screen!Chats : <<k, sending.prompt>> \in accepted'
      BY <1>1, <1>4 DEF Screen!Taken
    <3>4. sending'.prompt = sending.prompt
      BY <1>1, <1>3
    <3> QED BY <3>2, <3>3, <3>4 DEF Screen!Draft, Screen!Taken
  <2>3. /\ sending'.at \in {"check", "meta"} /\ sending'.chat = c /\ sending'.prompt = sending.prompt
        /\ sending'.threw = FALSE
    BY <1>1, <1>2, <1>3, <1>4 DEF Sends
  <2>4. /\ ~\E k \in Screen!DraftKeys : drafts'[k] = sending'.prompt
        /\ ~\E k \in Screen!Chats : <<k, sending'.prompt>> \in accepted'
    BY <2>2, <2>3 DEF Screen!Draft, Screen!Taken
  <2> QED BY <1>1, <1>2, <1>4, <2>1, <2>3, <2>4 DEF Carried, Screen!Draft, Screen!Taken
<1>15. Written'
  BY <1>1, <1>12 DEF ScreenInv, Written
<1> QED BY <1>7, <1>8, <1>9, <1>13, <1>14, <1>15 DEF ScreenInv

(* The call of send is over, and a prompt that was not taken returns.       *)
LEMMA ScreenSendEnds == ASSUME ScreenInv, Screen!SendEnds PROVE ScreenInv'
<1>1. /\ sending.at \in {"refresh", "last"} /\ sending' = Screen!NoSend
      /\ UNCHANGED <<made, listed, active, shown, loading, version, loads, opening, removing, forking, resuming,
                     draftKey, typed, accepted, told, meant>>
  BY DEF Screen!SendEnds, Screen!view
<1>2. /\ typed \in Nat /\ draftKey \in Screen!DraftKeys /\ 1 .. typed \subseteq Screen!Prompts
      /\ drafts \in [Screen!DraftKeys -> 0 .. MaxDrafts] /\ covered \subseteq Screen!Prompts
      /\ sending.prompt # 0 =>
            /\ sending.prompt \in 1 .. typed /\ meant[sending.prompt] = draftKey /\ ~Screen!Draft(sending.prompt)
            /\ sending.threw => ~Screen!Taken(sending.prompt)
            /\ ~sending.threw => Screen!Taken(sending.prompt) \/ sending.prompt \in told
  BY <1>1, ScreenAssumption DEF ScreenInv, Carried, Screen!TypeOK, Screen!Prompts
<1>3. sending' \in Sends /\ sending'.at = "no"
  BY <1>1, ScreenAssumption DEF Screen!NoSend, Sends, SendStates, Screen!DraftKeys
<1>4. Screen!ShownIsActive' /\ Newest'
  BY <1>1, PromptsKeepView
<1>5. Undisturbed' /\ Carried' /\ Written'
  BY <1>1, <1>3 DEF ScreenInv, Undisturbed, Carried, Written, Screen!Taken
<1>6. CASE drafts' = drafts
  <2>1. /\ \/ covered' = covered
           \/ sending.prompt # 0 /\ covered' = covered \cup {sending.prompt}
        /\ sending.threw /\ sending.prompt # 0 => sending.prompt \in covered'
    <3>1. Screen!Carries = {} <=> sending.prompt = 0
      BY DEF Screen!Carries
    <3>2. sending.threw /\ sending.prompt # 0 => drafts[draftKey] # 0 \/ drafts'[draftKey] # drafts[draftKey]
      BY <1>2, <3>1 DEF Screen!SendEnds
    <3> QED BY <1>6, <3>1, <3>2 DEF Screen!SendEnds
  <2>2. Screen!TypeOK'
    BY <1>1, <1>2, <1>3, <1>6, <2>1 DEF ScreenInv, Screen!TypeOK, Sends, SendStates
  <2>3. Existing'
    BY <1>1, <1>6 DEF ScreenInv, Existing
  <2>4. Screen!PromptKept'
    BY <1>1, <1>2, <1>3, <1>6, <2>1 DEF ScreenInv, Screen!PromptKept, Screen!Draft, Screen!Taken
  <2> QED BY <1>4, <1>5, <2>2, <2>3, <2>4 DEF ScreenInv
<1>7. CASE /\ sending.threw /\ sending.prompt # 0 /\ drafts[draftKey] = 0 /\ UNCHANGED covered
           /\ drafts' = [drafts EXCEPT ![draftKey] = sending.prompt]
  <2>1. \A k \in Screen!DraftKeys : drafts'[k] = IF k = draftKey THEN sending.prompt ELSE drafts[k]
    BY <1>2, <1>7
  <2>2. Screen!TypeOK'
    <3>1. drafts' \in [Screen!DraftKeys -> 0 .. MaxDrafts]
      BY <1>2, <1>7, ScreenAssumption DEF Screen!Prompts
    <3> QED BY <1>1, <1>3, <1>7, <3>1 DEF ScreenInv, Screen!TypeOK, Sends, SendStates
  <2>3. Existing'
    BY <1>1, <1>2, <2>1, ScreenAssumption DEF ScreenInv, Existing, Screen!TypeOK, Screen!DraftKeys, Screen!Chats, Screen!Home
  <2>4. Screen!PromptKept'
    <3>1. ASSUME NEW p \in 1 .. typed, Screen!Draft(p) PROVE \E k \in Screen!DraftKeys : drafts'[k] = p
      BY <1>7, <2>1, <3>1, <1>2 DEF Screen!Draft
    <3>2. \E k \in Screen!DraftKeys : drafts'[k] = sending.prompt
      BY <1>2, <2>1
    <3>3. \A k \in Screen!DraftKeys : drafts'[k] # 0 => meant[drafts'[k]] = k /\ ~Screen!Taken(drafts'[k])
      BY <1>2, <1>7, <2>1 DEF ScreenInv, Screen!PromptKept
    <3> QED BY <1>1, <1>3, <1>7, <3>1, <3>2, <3>3 DEF ScreenInv, Screen!PromptKept, Screen!Draft, Screen!Taken
  <2> QED BY <1>4, <1>5, <2>2, <2>3, <2>4 DEF ScreenInv
<1> QED BY <1>6, <1>7 DEF Screen!SendEnds, Screen!Carries

LEMMA ScreenStays == ASSUME ScreenInv, UNCHANGED screen PROVE ScreenInv'
<1>1. UNCHANGED <<made, listed, active, shown, loading, version, loads, opening, removing, forking, resuming,
                  draftKey, drafts, sending, typed, accepted, told, covered, meant>>
  BY DEF screen
<1>2. Screen!PromptKept' /\ Carried' /\ Written'
  BY <1>1, ViewKeepsPrompts
<1>3. Screen!ShownIsActive' /\ Newest'
  BY <1>1, PromptsKeepView
<1>4. Screen!TypeOK'
  BY <1>1 DEF ScreenInv, Screen!TypeOK
<1>5. Existing' /\ Undisturbed'
  BY <1>1 DEF ScreenInv, Existing, Undisturbed
<1> QED BY <1>2, <1>3, <1>4, <1>5 DEF ScreenInv

LEMMA ScreenNext ==
    ASSUME ScreenInv, Overtaken \subseteq {"select", "home"}, OverResume = {}, Screen!Next
    PROVE  ScreenInv'
BY ScreenSelect, ScreenGoHome, ScreenRemoved, ScreenSelectAnswered, ScreenNew, ScreenRemove, ScreenFork,
   ScreenForkOpens, ScreenType, ScreenSubmit, ScreenResume, ScreenCreated, ScreenCreationFails, ScreenPrepares,
   ScreenCancel, ScreenTurnStreams, ScreenTurnEnds, ScreenChecks, ScreenSendEnds DEF Screen!Next

(* What is on screen is of the active conversation, and no prompt is lost,  *)
(* moved or sent twice, however late the backend answers, unless a prompt   *)
(* is sent while a new chat, a removal or a fork waits, or the user goes on *)
(* while a resume does (App.tsx).                                           *)
THEOREM WindowStays ==
    ASSUME Overtaken \subseteq {"select", "home"}, OverResume = {}
    PROVE  Spec => []WindowHolds
<1>1. Init => ScreenInv
  BY InitScreen DEF Init
<1>2. ScreenInv /\ [Next]_vars => ScreenInv'
  BY ScreenNext, ScreenStays, OneAtATime
<1>3. ScreenInv => WindowHolds
  BY DEF ScreenInv, WindowHolds, Screen!WindowHolds
<1> QED BY <1>1, <1>2, <1>3, PTL DEF Spec

-----------------------------------------------------------------------------
(* The debugger *)

Message == [kind : Probe!Notices \cup {"initialized", "launched", "refused", "terminated", "answer", "error"},
            stop : Nat]
Name == [generation : Nat, stop : Nat]
SessionStates == [at : {"no", "starts", "open", "leased", "closed"}, generation : Nat, launch : BOOLEAN,
                  phase : {"initializing", "configuring", "running", "stopped", "terminated"}]

ProbeType ==
    /\ debuggee \in [state : {"new", "runs", "stopped", "ended"}, stops : Nat]
    /\ mail \in Seq(Message) /\ names \in Seq(Name) /\ session \in SessionStates

(* What was said before the last stop is followed by a notice that is not   *)
(* read yet: the adapter is read in order.                                  *)
Followed ==
    \A i \in DOMAIN mail : mail[i].stop # debuggee.stops =>
        \E j \in DOMAIN mail : i <= j /\ mail[j].kind \in Probe!Notices

(* A name that resolves is of this stop, or a notice is on its way that     *)
(* makes it stale.                                                          *)
Fresh ==
    \A i \in DOMAIN names :
        /\ names[i].generation <= session.generation
        /\ names[i].generation = session.generation => names[i].stop = debuggee.stops \/ Probe!Unread

(* Only a call that leases the session has a request.                       *)
Leased == request.at # "no" => session.at = "leased"

(* Before it is open a session has asked nothing and is answered nothing.   *)
Quiet ==
    session.at \in {"no", "starts"} =>
        asked = Probe!Unasked /\ \A i \in DOMAIN mail : mail[i].kind \notin {"answer", "error"}

ProbeInv == ProbeType /\ Leased /\ Quiet /\ (session.at # "closed" => Followed /\ Fresh)

(* What Append and Tail do to a sequence. *)
LEMMA Appends ==
    ASSUME NEW S, NEW s \in Seq(S), NEW m \in S
    PROVE  /\ Append(s, m) \in Seq(S) /\ DOMAIN s = 1 .. Len(s) /\ Len(s) \in Nat
           /\ DOMAIN Append(s, m) = 1 .. Len(s) + 1
           /\ \A i \in 1 .. Len(s) : Append(s, m)[i] = s[i]
           /\ Append(s, m)[Len(s) + 1] = m
OBVIOUS

LEMMA Tails ==
    ASSUME NEW S, NEW s \in Seq(S), s # <<>>
    PROVE  /\ Tail(s) \in Seq(S) /\ DOMAIN s = 1 .. Len(s) /\ Len(s) \in Nat \ {0}
           /\ DOMAIN Tail(s) = 1 .. Len(s) - 1
           /\ \A i \in 1 .. Len(s) - 1 : Tail(s)[i] = s[i + 1]
           /\ Head(s) = s[1]
OBVIOUS

LEMMA NamesTyped == ASSUME ProbeType PROVE \A i \in DOMAIN names : names[i] \in Name /\ names[i].generation \in Nat
<1>1. \A i \in 1 .. Len(names) : names[i] \in Name
  BY DEF ProbeType
<1>2. DOMAIN names = 1 .. Len(names)
  BY DEF ProbeType
<1> QED BY <1>1, <1>2 DEF Name

LEMMA InitProbe == ASSUME Probe!Init PROVE ProbeInv
<1>1. mail = <<>> /\ names = <<>> /\ request.at = "no"
  BY DEF Probe!Init, Probe!NoRequest
<1>2. ProbeType
  BY DEF Probe!Init, ProbeType, SessionStates
<1>3. Quiet
  BY DEF Probe!Init, Quiet
<1> QED BY <1>1, <1>2, <1>3 DEF ProbeInv, Leased, Followed, Fresh

(* The adapter says something: of this stop, or that it stopped again.      *)
LEMMA ProbeSays ==
    ASSUME ProbeInv, NEW kind \in Probe!Notices \cup {"initialized", "launched", "refused", "terminated", "answer", "error"},
           mail' = Append(mail, [kind |-> kind, stop |-> debuggee.stops]),
           debuggee' \in [state : {"new", "runs", "stopped", "ended"}, stops : Nat],
           debuggee'.stops # debuggee.stops => kind \in Probe!Notices,
           session.at \in {"no", "starts"} => kind \notin {"answer", "error"} /\ asked' = asked,
           UNCHANGED <<session, names, request>>
    PROVE  ProbeInv'
<1> DEFINE message == [kind |-> kind, stop |-> debuggee.stops]
<1>1. mail \in Seq(Message) /\ message \in Message
  BY DEF ProbeInv, ProbeType, Message
<1>2. message.kind = kind /\ message.stop = debuggee.stops
  OBVIOUS
<1> HIDE DEF message
<1>3. /\ mail' \in Seq(Message) /\ DOMAIN mail = 1 .. Len(mail) /\ Len(mail) \in Nat
      /\ DOMAIN mail' = 1 .. Len(mail) + 1
      /\ \A i \in 1 .. Len(mail) : mail'[i] = mail[i]
      /\ mail'[Len(mail) + 1] = message
  BY <1>1, Appends DEF message
<1>4. ProbeType' /\ Leased'
  BY <1>3 DEF ProbeInv, ProbeType, Leased
<1>5. ASSUME Followed PROVE Followed'
  <2> SUFFICES ASSUME NEW i \in 1 .. Len(mail) + 1, mail'[i].stop # debuggee'.stops
               PROVE  \E j \in 1 .. Len(mail) + 1 : i <= j /\ mail'[j].kind \in Probe!Notices
    BY <1>3 DEF Followed
  <2>1. CASE debuggee'.stops # debuggee.stops
    BY <1>2, <1>3, <2>1
  <2>2. CASE debuggee'.stops = debuggee.stops
    <3>1. i \in 1 .. Len(mail)
      BY <1>2, <1>3, <2>2
    <3>2. PICK j \in DOMAIN mail : i <= j /\ mail[j].kind \in Probe!Notices
      BY <1>3, <1>5, <2>2, <3>1 DEF Followed
    <3> QED BY <1>3, <3>2
  <2> QED BY <2>1, <2>2
<1>6. ASSUME Fresh PROVE Fresh'
  <2>1. Probe!Unread => Probe!Unread'
    BY <1>3 DEF Probe!Unread
  <2>2. debuggee'.stops # debuggee.stops => Probe!Unread'
    BY <1>2, <1>3 DEF Probe!Unread
  <2> QED BY <1>6, <2>1, <2>2 DEF Fresh
<1>7. Quiet'
  BY <1>2, <1>3 DEF ProbeInv, Quiet
<1> QED BY <1>4, <1>5, <1>6, <1>7 DEF ProbeInv

(* Nothing is said or read.                                                 *)
LEMMA ProbeWaits ==
    ASSUME ProbeInv, UNCHANGED <<mail, names>>, debuggee' \in [state : {"new", "runs", "stopped", "ended"}, stops : Nat],
           debuggee'.stops = debuggee.stops, session' \in SessionStates, session.generation <= session'.generation,
           session'.at # "closed" => session.at # "closed",
           session'.at \in {"no", "starts"} => session.at \in {"no", "starts"} /\ asked' = asked, Leased'
    PROVE  ProbeInv'
<1>1. ProbeType'
  BY DEF ProbeInv, ProbeType
<1>2. ASSUME Followed PROVE Followed'
  BY <1>2 DEF Followed
<1>3. ASSUME Fresh PROVE Fresh'
  <2>1. session.generation \in Nat /\ session'.generation \in Nat /\ \A i \in DOMAIN names : names[i].generation \in Nat
    BY NamesTyped DEF ProbeInv, ProbeType, SessionStates
  <2> QED BY <1>3, <2>1 DEF Fresh, Probe!Unread
<1>4. Quiet'
  BY DEF ProbeInv, Quiet
<1> QED BY <1>1, <1>2, <1>3, <1>4 DEF ProbeInv

(* The first of the mail is read; a notice makes every name stale.          *)
LEMMA ProbeReads ==
    ASSUME ProbeInv, mail # <<>>, mail' = Tail(mail), session.at # "closed", session' \in SessionStates,
           session.generation <= session'.generation,
           Head(mail).kind \in Probe!Notices => session.generation < session'.generation,
           session'.at \in {"no", "starts"} => session.at \in {"no", "starts"} /\ asked' = asked,
           UNCHANGED <<debuggee, names>>, Leased'
    PROVE  ProbeInv'
<1>1. /\ mail' \in Seq(Message) /\ DOMAIN mail = 1 .. Len(mail) /\ Len(mail) \in Nat \ {0}
      /\ DOMAIN mail' = 1 .. Len(mail) - 1
      /\ \A i \in 1 .. Len(mail) - 1 : mail'[i] = mail[i + 1]
      /\ Head(mail) = mail[1]
  BY Tails DEF ProbeInv, ProbeType
<1>2. ProbeType'
  BY <1>1 DEF ProbeInv, ProbeType
<1>3. Followed'
  <2> SUFFICES ASSUME NEW i \in 1 .. Len(mail) - 1, mail'[i].stop # debuggee.stops
               PROVE  \E j \in 1 .. Len(mail) - 1 : i <= j /\ mail'[j].kind \in Probe!Notices
    BY <1>1 DEF Followed
  <2>1. i + 1 \in DOMAIN mail /\ mail[i + 1].stop # debuggee.stops
    BY <1>1
  <2>2. PICK j \in DOMAIN mail : i + 1 <= j /\ mail[j].kind \in Probe!Notices
    BY <2>1 DEF ProbeInv, Followed
  <2>3. j - 1 \in 1 .. Len(mail) - 1 /\ i <= j - 1 /\ mail'[j - 1] = mail[j]
    BY <1>1, <2>2
  <2> QED BY <2>2, <2>3
<1>4. Fresh'
  <2>1. session.generation \in Nat /\ session'.generation \in Nat /\ \A i \in DOMAIN names : names[i].generation \in Nat
    BY NamesTyped DEF ProbeInv, ProbeType, SessionStates
  <2>2. CASE Head(mail).kind \in Probe!Notices
    BY <2>1, <2>2 DEF ProbeInv, Fresh
  <2>3. CASE Head(mail).kind \notin Probe!Notices
    <3>1. ASSUME NEW j \in DOMAIN mail, mail[j].kind \in Probe!Notices
          PROVE  j - 1 \in DOMAIN mail' /\ mail'[j - 1].kind \in Probe!Notices
      BY <1>1, <2>3, <3>1
    <3>2. Probe!Unread => Probe!Unread'
      BY <3>1 DEF Probe!Unread
    <3> QED BY <2>1, <3>2 DEF ProbeInv, Fresh
  <2> QED BY <2>2, <2>3
<1>5. Quiet'
  <2>1. \A i \in DOMAIN mail' : i + 1 \in DOMAIN mail /\ mail'[i] = mail[i + 1]
    BY <1>1
  <2> QED BY <2>1 DEF ProbeInv, Quiet
<1> QED BY <1>2, <1>3, <1>4, <1>5 DEF ProbeInv

(* The session is dropped, and its adapter with it.                         *)
LEMMA ProbeCloses == ASSUME ProbeInv, Probe!Closed, UNCHANGED <<debuggee, names>> PROVE ProbeInv'
<1>1. session' \in SessionStates /\ session'.at = "closed" /\ mail' = <<>> /\ request'.at = "no"
  BY DEF ProbeInv, ProbeType, SessionStates, Probe!Closed, Probe!NoRequest
<1>2. ProbeType'
  BY <1>1 DEF ProbeInv, ProbeType
<1> QED BY <1>1, <1>2 DEF ProbeInv, Leased, Quiet

LEMMA ProbeSpeaks ==
    ASSUME ProbeInv,
           Probe!Initialized \/ Probe!Launched \/ Probe!Stops \/ Probe!Resumes \/ Probe!Ends \/ Probe!Answers
    PROVE  ProbeInv'
<1>1. debuggee \in [state : {"new", "runs", "stopped", "ended"}, stops : Nat]
  BY DEF ProbeInv, ProbeType
<1>2. CASE Probe!Initialized
  BY <1>1, <1>2, ProbeSays DEF Probe!Initialized, Probe!Say
<1>3. CASE Probe!Launched
  BY <1>1, <1>3, ProbeSays DEF Probe!Launched, Probe!Say
<1>4. CASE Probe!Stops
  BY <1>1, <1>4, ProbeSays DEF Probe!Stops, Probe!Say, Probe!Notices
<1>5. CASE Probe!Resumes
  BY <1>1, <1>5, ProbeSays DEF Probe!Resumes, Probe!Say, Probe!Notices
<1>6. CASE Probe!Ends
  BY <1>1, <1>6, ProbeSays DEF Probe!Ends, Probe!Say
<1>7. CASE Probe!Answers
  <2>4. session.at \notin {"no", "starts"}
    BY <1>7 DEF ProbeInv, Quiet, Probe!Answers
  <2>1. /\ debuggee' \in [state : {"new", "runs", "stopped", "ended"}, stops : Nat]
        /\ debuggee'.stops = debuggee.stops
    BY <1>1, <1>7 DEF Probe!Answers
  <2>2. PICK kind \in {"answer", "error"} : mail' = Append(mail, [kind |-> kind, stop |-> debuggee.stops])
    BY <1>7 DEF Probe!Answers, Probe!Say
  <2>3. UNCHANGED <<session, names, request>>
    BY <1>7 DEF Probe!Answers
  <2> QED BY <2>1, <2>2, <2>3, <2>4, ProbeSays
<1> QED BY <1>2, <1>3, <1>4, <1>5, <1>6, <1>7

(* What a session hears, and what makes its names stale.                    *)
LEMMA HeardStates ==
    ASSUME session \in SessionStates
    PROVE  /\ Probe!Invalidated(session) \in SessionStates
           /\ Probe!Invalidated(session).generation = session.generation + 1
           /\ Probe!Invalidated(session).at = session.at
           /\ \A kind \in {"stopped", "continued", "terminated", "launched", "initialized"} :
                 /\ Probe!Heard(kind) \in SessionStates /\ Probe!Heard(kind).at = session.at
                 /\ Probe!Heard(kind).generation =
                       IF kind \in Probe!Notices THEN session.generation + 1 ELSE session.generation
<1>1. Probe!Invalidated(session) = [session EXCEPT !.generation = session.generation + 1]
  BY DEF Probe!Invalidated
<1>2. /\ Probe!Heard("stopped") = [session EXCEPT !.generation = session.generation + 1, !.phase = "stopped"]
      /\ Probe!Heard("continued") = [session EXCEPT !.generation = session.generation + 1, !.phase = "running"]
  BY <1>1 DEF Probe!Heard, SessionStates
<1>3. /\ Probe!Heard("terminated") = [session EXCEPT !.phase = "terminated"]
      /\ Probe!Heard("launched") = [session EXCEPT !.launch = FALSE]
      /\ Probe!Heard("initialized") = session
  BY DEF Probe!Heard
<1>4. session.generation + 1 \in Nat
  BY DEF SessionStates
<1>5. /\ [session EXCEPT !.generation = session.generation + 1] \in SessionStates
      /\ [session EXCEPT !.generation = session.generation + 1].generation = session.generation + 1
      /\ [session EXCEPT !.generation = session.generation + 1].at = session.at
  BY <1>4 DEF SessionStates
<1>6. \A now \in {"initializing", "configuring", "running", "stopped", "terminated"} :
         LET next == [session EXCEPT !.generation = session.generation + 1, !.phase = now] IN
         next \in SessionStates /\ next.at = session.at /\ next.generation = session.generation + 1
  BY <1>4 DEF SessionStates
<1>7. /\ [session EXCEPT !.phase = "terminated"] \in SessionStates /\ [session EXCEPT !.launch = FALSE] \in SessionStates
      /\ [session EXCEPT !.phase = "terminated"].at = session.at /\ [session EXCEPT !.launch = FALSE].at = session.at
      /\ [session EXCEPT !.phase = "terminated"].generation = session.generation
      /\ [session EXCEPT !.launch = FALSE].generation = session.generation
  BY DEF SessionStates
<1> QED BY <1>1, <1>2, <1>3, <1>5, <1>6, <1>7 DEF Probe!Notices

LEMMA ProbeStarts == ASSUME ProbeInv, Probe!Start \/ Probe!StartReads \/ Probe!GivesUp PROVE ProbeInv'
<1>1. session \in SessionStates /\ session.generation \in Nat
  BY DEF ProbeInv, ProbeType, SessionStates
<1>2. CASE Probe!Start
  <2>1. session' \in SessionStates /\ session'.generation = session.generation /\ session.at = "no"
    BY <1>1, <1>2 DEF Probe!Start, SessionStates
  <2>2. Leased'
    BY <1>2, <2>1 DEF ProbeInv, Leased, Probe!Start
  <2> QED BY <1>1, <1>2, <2>1, <2>2, ProbeWaits DEF Probe!Start, ProbeInv, ProbeType
<1>3. CASE Probe!StartReads
  <2>1. /\ session.at = "starts" /\ mail # <<>> /\ Head(mail).kind # "refused" /\ mail' = Tail(mail)
        /\ UNCHANGED <<debuggee, asked, names, request, leases>>
    BY <1>3 DEF Probe!StartReads
  <2>2. request.at = "no"
    BY <2>1 DEF ProbeInv, Leased
  <2>3. CASE Head(mail).kind = "initialized"
    <3>1. session' \in SessionStates /\ session'.generation = session.generation
      BY <1>1, <1>3, <2>3 DEF Probe!StartReads, SessionStates
    <3> QED BY <1>1, <2>1, <2>2, <2>3, <3>1, ProbeReads DEF Probe!Notices, Leased
  <2>4. CASE Head(mail).kind \in {"stopped", "continued", "terminated", "launched"}
    <3>1. session' = Probe!Heard(Head(mail).kind)
      BY <1>3, <2>4 DEF Probe!StartReads
    <3> QED BY <1>1, <2>1, <2>2, <2>4, <3>1, HeardStates, ProbeReads DEF Probe!Notices, Leased
  <2>5. Head(mail) = mail[1] /\ 1 \in DOMAIN mail /\ mail[1] \in Message
    BY <2>1, Tails DEF ProbeInv, ProbeType
  <2>6. Head(mail).kind \notin {"answer", "error"}
    BY <2>1, <2>5 DEF ProbeInv, Quiet
  <2> QED BY <2>1, <2>3, <2>4, <2>5, <2>6 DEF Message, Probe!Notices
<1>4. CASE Probe!GivesUp
  BY <1>4, ProbeCloses DEF Probe!GivesUp
<1> QED BY <1>2, <1>3, <1>4

LEMMA ProbeLeases ==
    ASSUME ProbeInv,
           (\E command \in Probe!Commands, ref \in 0 .. Len(names) + 1 : Probe!Lease(command, ref)) \/ Probe!Returns
    PROVE  ProbeInv'
<1>1. session \in SessionStates /\ session.generation \in Nat /\ debuggee \in [state : {"new", "runs", "stopped", "ended"}, stops : Nat]
  BY DEF ProbeInv, ProbeType, SessionStates
<1>2. /\ session.at \in {"open", "leased"} /\ session' \in SessionStates /\ session'.generation = session.generation
      /\ session'.at \in {"open", "leased"} /\ (session'.at = "open" => request'.at = "no")
      /\ UNCHANGED <<debuggee, mail, names>>
  <2>1. ASSUME NEW command \in Probe!Commands, NEW ref \in 0 .. Len(names) + 1, Probe!Lease(command, ref)
        PROVE  /\ session.at \in {"open", "leased"} /\ session' \in SessionStates
               /\ session'.generation = session.generation
               /\ session'.at = "leased" /\ UNCHANGED <<debuggee, mail, names>>
    BY <1>1, <2>1 DEF Probe!Lease, SessionStates
  <2>2. CASE Probe!Returns
    <3>1. session.at = "leased"
      BY <2>2 DEF ProbeInv, Leased, Probe!Returns
    <3>2. request'.at = "no" /\ UNCHANGED <<debuggee, mail, names>>
      BY <2>2 DEF Probe!Returns, Probe!Releases, Probe!NoRequest
    <3>3. session' \in SessionStates /\ session'.generation = session.generation /\ session'.at = "open"
      BY <1>1, <2>2 DEF Probe!Returns, Probe!Releases, SessionStates
    <3> QED BY <3>1, <3>2, <3>3
  <2> QED BY <2>1, <2>2
<1> QED BY <1>1, <1>2, ProbeWaits DEF Leased

LEMMA ProbeHears == ASSUME ProbeInv, Probe!Hears PROVE ProbeInv'
<1>1. /\ session.at = "leased" /\ mail # <<>> /\ Head(mail).kind \notin {"answer", "error"}
      /\ UNCHANGED <<debuggee, names, leases>>
  BY DEF Probe!Hears
<1>2. CASE Head(mail).kind = "refused"
  BY <1>1, <1>2, ProbeCloses DEF Probe!Hears
<1>3. CASE Head(mail).kind # "refused"
  <2>1. session' = Probe!Heard(Head(mail).kind) /\ mail' = Tail(mail) /\ UNCHANGED <<asked, request>>
    BY <1>3 DEF Probe!Hears
  <2>2. Head(mail) = mail[1] /\ mail[1] \in Message
    BY <1>1, Tails DEF ProbeInv, ProbeType
  <2>3. Head(mail).kind \in {"stopped", "continued", "terminated", "launched", "initialized"}
    BY <1>1, <1>3, <2>2 DEF Message, Probe!Notices
  <2>4. session \in SessionStates /\ session.generation \in Nat
    BY DEF ProbeInv, ProbeType, SessionStates
  <2>5. /\ session' \in SessionStates /\ session'.at = "leased"
        /\ session'.generation = IF Head(mail).kind \in Probe!Notices THEN session.generation + 1 ELSE session.generation
    BY <1>1, <2>1, <2>3, <2>4, HeardStates
  <2>6. session.generation <= session'.generation /\ (Head(mail).kind \in Probe!Notices => session.generation < session'.generation)
    BY <2>4, <2>5
  <2> QED BY <1>1, <2>1, <2>5, <2>6, ProbeReads DEF Leased
<1> QED BY <1>2, <1>3

LEMMA ProbeSends == ASSUME ProbeInv, Probe!Sends PROVE ProbeInv'
<1>1. /\ request.at = "drain" /\ UNCHANGED <<debuggee, mail, names>>
      /\ session' \in {session, [Probe!Invalidated(session) EXCEPT !.phase = "running"]}
  BY DEF Probe!Sends
<1>2. session.at = "leased" /\ session \in SessionStates
  BY <1>1 DEF ProbeInv, Leased, ProbeType
<1>3. debuggee \in [state : {"new", "runs", "stopped", "ended"}, stops : Nat]
  BY DEF ProbeInv, ProbeType
<1> DEFINE next == [Probe!Invalidated(session) EXCEPT !.phase = "running"]
<1>4. next \in SessionStates /\ next.generation = session.generation + 1 /\ next.at = "leased" /\ session.generation \in Nat
  BY <1>2, HeardStates DEF SessionStates
<1> HIDE DEF next
<1>5. session' \in {session, next}
  BY <1>1 DEF next
<1>6. session' \in SessionStates /\ session'.at = "leased" /\ session.generation <= session'.generation
  BY <1>2, <1>4, <1>5
<1> QED BY <1>1, <1>2, <1>3, <1>6, ProbeWaits DEF Leased

(* What the answer names is of the stop it was given in.                    *)
LEMMA ProbeAnswered == ASSUME ProbeInv, Probe!Answered PROVE ProbeInv'
<1>1. request.at = "wait" /\ mail # <<>> /\ Head(mail).kind \in {"answer", "error"} /\ session.at = "leased"
  BY DEF ProbeInv, Leased, Probe!Answered
<1>2. CASE Head(mail).kind = "error"
  BY <1>2, ProbeCloses DEF Probe!Answered
<1>3. CASE Head(mail).kind # "error"
  <2>1. /\ session' = [session EXCEPT !.at = "open"] /\ request' = Probe!NoRequest /\ mail' = Tail(mail)
        /\ UNCHANGED <<debuggee, asked, leases>>
        /\ \/ names' = names
           \/ names' = Append(names, [generation |-> session.generation, stop |-> Head(mail).stop])
    BY <1>3 DEF Probe!Answered, Probe!Releases
  <2>2. session \in SessionStates /\ session.generation \in Nat
    BY DEF ProbeInv, ProbeType, SessionStates
  <2>3. session' \in SessionStates /\ session'.at = "open" /\ session'.generation = session.generation /\ request'.at = "no"
    BY <2>1, <2>2 DEF SessionStates, Probe!NoRequest
  <2>4. Head(mail).kind \notin Probe!Notices
    BY <1>1 DEF Probe!Notices
  <2>5. CASE names' = names
    BY <1>1, <2>1, <2>2, <2>3, <2>4, <2>5, ProbeReads DEF Leased
  <2>6. CASE names' = Append(names, [generation |-> session.generation, stop |-> Head(mail).stop])
    <3>1. /\ mail' \in Seq(Message) /\ DOMAIN mail = 1 .. Len(mail) /\ Len(mail) \in Nat \ {0}
          /\ DOMAIN mail' = 1 .. Len(mail) - 1
          /\ \A i \in 1 .. Len(mail) - 1 : mail'[i] = mail[i + 1]
          /\ Head(mail) = mail[1] /\ mail[1] \in Message
      BY <1>1, <2>1, Tails DEF ProbeInv, ProbeType
    <3> DEFINE name == [generation |-> session.generation, stop |-> Head(mail).stop]
    <3>2. name \in Name /\ name.generation = session.generation /\ name.stop = mail[1].stop
      BY <2>2, <3>1 DEF Name, Message
    <3> HIDE DEF name
    <3>3. /\ names' \in Seq(Name) /\ DOMAIN names = 1 .. Len(names) /\ Len(names) \in Nat
          /\ DOMAIN names' = 1 .. Len(names) + 1
          /\ \A i \in 1 .. Len(names) : names'[i] = names[i]
          /\ names'[Len(names) + 1] = name
      BY <2>6, <3>2, Appends DEF ProbeInv, ProbeType, name
    <3>4. ProbeType' /\ Leased' /\ Quiet'
      BY <2>1, <2>3, <3>1, <3>3 DEF ProbeInv, ProbeType, Leased, Quiet
    <3>5. Followed'
      <4> SUFFICES ASSUME NEW i \in 1 .. Len(mail) - 1, mail'[i].stop # debuggee.stops
                   PROVE  \E j \in 1 .. Len(mail) - 1 : i <= j /\ mail'[j].kind \in Probe!Notices
        BY <2>1, <3>1 DEF Followed
      <4>1. i + 1 \in DOMAIN mail /\ mail[i + 1].stop # debuggee.stops
        BY <3>1
      <4>2. PICK j \in DOMAIN mail : i + 1 <= j /\ mail[j].kind \in Probe!Notices
        BY <1>1, <4>1 DEF ProbeInv, Followed
      <4>3. j - 1 \in 1 .. Len(mail) - 1 /\ i <= j - 1 /\ mail'[j - 1] = mail[j]
        BY <3>1, <4>2
      <4> QED BY <4>2, <4>3
    <3>6. ASSUME NEW j \in DOMAIN mail, mail[j].kind \in Probe!Notices PROVE Probe!Unread'
      <4>1. j - 1 \in DOMAIN mail' /\ mail'[j - 1].kind \in Probe!Notices
        BY <2>4, <3>1, <3>6
      <4> QED BY <4>1 DEF Probe!Unread
    <3>7. name.stop = debuggee.stops \/ Probe!Unread'
      <4>1. mail[1].stop # debuggee.stops => \E j \in DOMAIN mail : mail[j].kind \in Probe!Notices
        BY <1>1, <3>1 DEF ProbeInv, Followed
      <4> QED BY <3>2, <3>6, <4>1
    <3>8. Probe!Unread => Probe!Unread'
      BY <3>6 DEF Probe!Unread
    <3>9. Fresh'
      BY <1>1, <2>1, <2>2, <2>3, <3>2, <3>3, <3>7, <3>8 DEF ProbeInv, Fresh
    <3> QED BY <3>4, <3>5, <3>9 DEF ProbeInv
  <2> QED BY <2>1, <2>5, <2>6
<1> QED BY <1>2, <1>3

LEMMA ProbeDrops == ASSUME ProbeInv, Probe!Refuses \/ Probe!Disconnects PROVE ProbeInv'
BY ProbeCloses DEF Probe!Refuses, Probe!Disconnects

LEMMA ProbeStays == ASSUME ProbeInv, UNCHANGED probe PROVE ProbeInv'
BY DEF probe, ProbeInv, ProbeType, Leased, Quiet, Followed, Fresh, Probe!Unread

LEMMA ProbeNext == ASSUME ProbeInv, Probe!Next PROVE ProbeInv'
BY ProbeSpeaks, ProbeStarts, ProbeLeases, ProbeHears, ProbeSends, ProbeAnswered, ProbeDrops DEF Probe!Next

(* Once its notices are read a session takes no reference to an object of   *)
(* an earlier stop, whoever resumed the debuggee and whatever crossed on    *)
(* the wire (References, Session::message).                                 *)
THEOREM NoStaleReference == Spec => []ReferencesAreCurrent
<1>1. Init => ProbeInv
  BY InitProbe DEF Init
<1>2. ProbeInv /\ [Next]_vars => ProbeInv'
  BY ProbeNext, ProbeStays, OneAtATime
<1>3. ProbeInv => ReferencesAreCurrent
  <2>1. ProbeType => DOMAIN names = 1 .. Len(names)
    BY DEF ProbeType
  <2> QED BY <2>1 DEF ProbeInv, Fresh, ReferencesAreCurrent, Probe!ReferencesAreCurrent, Probe!Resolves, Probe!Named
<1> QED BY <1>1, <1>2, <1>3, PTL DEF Spec

-----------------------------------------------------------------------------
(* Programs of calls *)

Results == {"none", "ok", "failed", "denied", "cancelled", "timeout", "lost"}
Entry == [program : Nat, form : Forms \cup {"plan"}, statement : Nat, sig : Signatures, ran : BOOLEAN,
          row : {"none", "streaming", "complete"}, result : Results, entry : BOOLEAN]

PlanType ==
    /\ log \in Seq(Entry) /\ hand \subseteq DOMAIN log /\ spent \in Nat /\ programs \in Nat
    /\ form \in Forms \cup {"plan"}
    /\ program \in {"idle", "next", "approval", "admit", "running", "group", "gone"}

(* The statement in hand is the last of the log: one call, which has run    *)
(* only where it is said to, or the members of a group.                     *)
InHand ==
    /\ program \in {"idle", "next", "gone"} => hand = {}
    /\ program \in {"approval", "admit", "running"} =>
          /\ log # <<>> /\ hand = {Len(log)} /\ log[Len(log)].result = "none"
          /\ log[Len(log)].ran <=> program = "running"
    /\ program = "group" => form = "plan"
    /\ \A i \in hand :
          /\ log[i].form = form
          /\ \A j \in DOMAIN log : i <= j => j \in hand
          /\ \A j \in hand : log[i].statement = log[j].statement

(* A call that has still to start was not refused when it was taken up.     *)
NotRefused == program \in {"approval", "admit"} /\ form = "plan" => log[Len(log)].sig \notin blocked

Exhausted(sig) == sig \in Searches /\ MaxSearches <= spent

(* What a plan saw end badly is blocked, or no search is left to repeat it. *)
Remembered ==
    \A i \in DOMAIN log \ hand :
        log[i].form = "plan" /\ log[i].result \notin {"none", "ok", "lost"} =>
            log[i].sig \in blocked \/ Exhausted(log[i].sig)

PlanInv ==
    PlanType /\ InHand /\ NotRefused /\ Remembered /\ Plans!NotRepeated /\ Plans!RunsAreAudited

LEMMA InitPlans == ASSUME Plans!Init PROVE PlanInv
<1>1. log = <<>> /\ hand = {} /\ DOMAIN log = {} /\ program = "idle"
  BY DEF Plans!Init
<1>2. PlanType
  BY <1>1 DEF Plans!Init, PlanType
<1> QED BY <1>1, <1>2 DEF PlanInv, InHand, NotRefused, Remembered, Plans!NotRepeated, Plans!RunsAreAudited

LEMMA LogEntries ==
    ASSUME PlanType
    PROVE  DOMAIN log = 1 .. Len(log) /\ Len(log) \in Nat /\ \A i \in DOMAIN log : log[i] \in Entry
<1>1. log \in Seq(Entry)
  BY DEF PlanType
<1> QED BY <1>1

(* A function on the indices of the log is a log. *)
LEMMA LogOf ==
    ASSUME PlanType, NEW l, DOMAIN l = DOMAIN log, l = [i \in DOMAIN l |-> l[i]], \A i \in DOMAIN l : l[i] \in Entry
    PROVE  l \in Seq(Entry) /\ Len(l) = Len(log)
<1>1. DOMAIN log = 1 .. Len(log) /\ Len(log) \in Nat
  BY LogEntries
<1>2. l \in [1 .. Len(log) -> Entry]
  BY <1>1
<1> QED BY <1>1, <1>2

(* Whether i and j obey NotRepeated in the log l. *)
Apart(l, i, j) ==
    /\ i < j /\ l[i].sig = l[j].sig /\ l[j].ran
    /\ l[i].form = "plan" /\ l[j].form = "plan"
    => l[i].result \in {"none", "ok", "lost"} \/ l[i].statement = l[j].statement

(* The statement in hand is over: what ran has its row, and what ended      *)
(* badly in a plan is remembered.                                           *)
LEMMA StatementEnds ==
    ASSUME PlanInv, program' \in {"idle", "next", "gone"}, hand' = {},
           DOMAIN log' = DOMAIN log, log' = [i \in DOMAIN log' |-> log'[i]],
           \A i \in DOMAIN log \ hand : log'[i] = log[i],
           \A i \in hand :
              /\ log'[i] \in Entry
              /\ log'[i].sig = log[i].sig /\ log'[i].form = log[i].form
              /\ log'[i].statement = log[i].statement /\ log'[i].ran = log[i].ran
              /\ log[i].ran => log'[i].result = "lost" \/ (log'[i].row = "complete" /\ log'[i].result # "none")
              /\ log[i].form = "plan" /\ log'[i].result \notin {"none", "ok", "lost"} =>
                    log[i].sig \in blocked' \/ Exhausted(log[i].sig),
           blocked \subseteq blocked', spent' \in Nat, spent <= spent', programs' \in Nat,
           form' \in Forms \cup {"plan"}
    PROVE  PlanInv'
<1>1. DOMAIN log = 1 .. Len(log) /\ Len(log) \in Nat /\ \A i \in DOMAIN log : log[i] \in Entry
  BY LogEntries DEF PlanInv
<1>2. \A i \in DOMAIN log' :
         /\ log'[i] \in Entry /\ log'[i].sig = log[i].sig /\ log'[i].form = log[i].form
         /\ log'[i].statement = log[i].statement /\ log'[i].ran = log[i].ran
  BY <1>1
<1>3. log' \in Seq(Entry) /\ Len(log') = Len(log)
  BY <1>2, LogOf DEF PlanInv
<1>4. PlanType' /\ InHand' /\ NotRefused'
  BY <1>3 DEF PlanInv, PlanType, InHand, NotRefused
<1>5. \A sig : Exhausted(sig) => Exhausted(sig)'
  BY SearchesAssumption DEF Exhausted, PlanInv, PlanType
<1>6. Remembered'
  <2> SUFFICES ASSUME NEW i \in DOMAIN log, log'[i].form = "plan", log'[i].result \notin {"none", "ok", "lost"}
               PROVE  log[i].sig \in blocked' \/ Exhausted(log[i].sig)'
    BY <1>2 DEF Remembered, Exhausted
  <2>1. CASE i \in hand
    BY <1>2, <1>5, <2>1
  <2>2. CASE i \notin hand
    BY <1>5, <2>2 DEF PlanInv, Remembered
  <2> QED BY <2>1, <2>2
<1>7. Plans!NotRepeated'
  <2> SUFFICES ASSUME NEW i \in DOMAIN log, NEW j \in DOMAIN log PROVE Apart(log', i, j)
    BY DEF Plans!NotRepeated, Apart
  <2>1. CASE i \notin hand
    BY <1>2, <2>1 DEF PlanInv, Plans!NotRepeated, Apart
  <2>2. CASE i \in hand /\ i < j
    <3>1. j \in hand /\ log[i].statement = log[j].statement
      BY <1>1, <2>2 DEF PlanInv, InHand
    <3> QED BY <1>2, <3>1 DEF Apart
  <2> QED BY <2>1, <2>2 DEF Apart
<1>8. Plans!RunsAreAudited'
  BY <1>2 DEF PlanInv, Plans!RunsAreAudited
<1> QED BY <1>4, <1>6, <1>7, <1>8 DEF PlanInv

(* A call of the statement in hand runs, unless it is refused, or returns.  *)
LEMMA HandMoves ==
    ASSUME PlanInv, hand' = hand, form' = form, blocked' = blocked, spent' \in Nat, spent <= spent', programs' = programs,
           DOMAIN log' = DOMAIN log, log' = [i \in DOMAIN log' |-> log'[i]],
           \A i \in DOMAIN log \ hand : log'[i] = log[i],
           \A i \in hand :
              /\ log'[i] \in Entry
              /\ log'[i].sig = log[i].sig /\ log'[i].form = log[i].form /\ log'[i].statement = log[i].statement
              /\ log'[i].ran => log[i].ran \/ (form = "plan" => log[i].sig \notin blocked /\ ~Exhausted(log[i].sig)),
           program' \in {"idle", "next", "approval", "admit", "running", "group", "gone"},
           program' \in {"idle", "next", "gone"} => hand = {},
           program' = "group" => form = "plan",
           program' \in {"approval", "admit", "running"} =>
              /\ program \in {"approval", "admit", "running"}
              /\ log'[Len(log)].result = "none" /\ (log'[Len(log)].ran <=> program' = "running"),
           program' \in {"approval", "admit"} => program \in {"approval", "admit"}
    PROVE  PlanInv'
<1>1. DOMAIN log = 1 .. Len(log) /\ Len(log) \in Nat /\ \A i \in DOMAIN log : log[i] \in Entry
  BY LogEntries DEF PlanInv
<1>2. \A i \in DOMAIN log' :
         /\ log'[i] \in Entry /\ log'[i].sig = log[i].sig /\ log'[i].form = log[i].form
         /\ log'[i].statement = log[i].statement
  BY <1>1
<1>3. log' \in Seq(Entry) /\ Len(log') = Len(log)
  BY <1>2, LogOf DEF PlanInv
<1>4. PlanType'
  BY <1>3 DEF PlanInv, PlanType
<1>5. InHand'
  <2>1. program' \in {"approval", "admit", "running"} => log' # <<>> /\ hand' = {Len(log')}
    BY <1>1, <1>3 DEF PlanInv, InHand
  <2>2. \A i \in hand' :
          /\ log'[i].form = form'
          /\ \A j \in DOMAIN log' : i <= j => j \in hand'
          /\ \A j \in hand' : log'[i].statement = log'[j].statement
    BY <1>2 DEF PlanInv, PlanType, InHand
  <2> QED BY <1>3, <2>1, <2>2 DEF InHand
<1>6. NotRefused'
  <2> SUFFICES ASSUME program' \in {"approval", "admit"}, form = "plan" PROVE log'[Len(log)].sig \notin blocked
    BY <1>3 DEF NotRefused
  <2>1. Len(log) \in DOMAIN log
    BY DEF PlanInv, PlanType, InHand
  <2> QED BY <1>2, <2>1 DEF PlanInv, NotRefused
<1>7. \A sig : Exhausted(sig) => Exhausted(sig)'
  BY SearchesAssumption DEF Exhausted, PlanInv, PlanType
<1>8. Remembered'
  <2> SUFFICES ASSUME NEW i \in DOMAIN log \ hand, log'[i].form = "plan", log'[i].result \notin {"none", "ok", "lost"}
               PROVE  log'[i].sig \in blocked \/ Exhausted(log[i].sig)'
    BY <1>2 DEF Remembered, Exhausted
  <2> QED BY <1>7 DEF PlanInv, Remembered
<1>9. Plans!NotRepeated'
  <2> SUFFICES ASSUME NEW i \in DOMAIN log, NEW j \in DOMAIN log PROVE Apart(log', i, j)
    BY DEF Plans!NotRepeated, Apart
  <2>1. CASE i \in hand /\ i < j
    <3>1. j \in hand /\ log[i].statement = log[j].statement
      BY <1>1, <2>1 DEF PlanInv, InHand
    <3> QED BY <1>2, <3>1 DEF Apart
  <2>2. CASE i \notin hand /\ (log'[j].ran => log[j].ran)
    BY <1>2, <2>2 DEF PlanInv, Plans!NotRepeated, Apart
  <2>3. CASE i \notin hand /\ log'[j].ran /\ ~log[j].ran
    <3>1. j \in hand /\ log[j].form = form /\ (form = "plan" => log[j].sig \notin blocked /\ ~Exhausted(log[j].sig))
      BY <2>3 DEF PlanInv, InHand
    <3> QED BY <1>2, <2>3, <3>1 DEF PlanInv, Remembered, Apart
  <2> QED BY <2>1, <2>2, <2>3 DEF Apart
<1>10. Plans!RunsAreAudited'
  BY <1>2 DEF PlanInv, Plans!RunsAreAudited
<1> QED BY <1>4, <1>5, <1>6, <1>8, <1>9, <1>10 DEF PlanInv

(* Calls are attempted: entries that have not run follow the log.           *)
Attempt(s) ==
    [program |-> programs, form |-> form, statement |-> Len(log) + 1, sig |-> s, ran |-> FALSE,
     row |-> "none", result |-> "none", entry |-> FALSE]

LEMMA AttemptIsEntry == ASSUME PlanInv, NEW s \in Signatures PROVE Attempt(s) \in Entry
<1>1. Len(log) + 1 \in Nat
  BY LogEntries DEF PlanInv
<1> QED BY <1>1 DEF PlanInv, PlanType, Attempt, Entry, Results

LEMMA Attempting ==
    ASSUME PlanInv, NEW n \in Nat, NEW g \in [1 .. n -> Signatures]
    PROVE  /\ Plans!Attempts(g) \in Seq(Entry)
           /\ DOMAIN Plans!Attempts(g) = 1 .. Len(log) + n
           /\ \A i \in 1 .. Len(log) : Plans!Attempts(g)[i] = log[i]
           /\ \A i \in 1 .. n : Plans!Attempts(g)[Len(log) + i] = Attempt(g[i])
<1> DEFINE new == [i \in 1 .. n |-> Attempt(g[i])]
<1>1. new \in Seq(Entry) /\ Len(new) = n /\ \A i \in 1 .. n : new[i] = Attempt(g[i])
  <2>1. \A i \in 1 .. n : Attempt(g[i]) \in Entry
    BY AttemptIsEntry
  <2> HIDE DEF PlanInv
  <2> QED BY <2>1
<1>2. Plans!Attempts(g) = log \o new
  BY DEF Plans!Attempts, Attempt
<1> HIDE DEF new
<1>3. log \in Seq(Entry) /\ Len(log) \in Nat
  BY LogEntries DEF PlanInv, PlanType
<1>4. /\ log \o new \in Seq(Entry) /\ Len(log \o new) = Len(log) + n
      /\ \A i \in 1 .. Len(log) + n : (log \o new)[i] = IF i <= Len(log) THEN log[i] ELSE new[i - Len(log)]
  BY <1>1, <1>3, ConcatProperties
<1>5. DOMAIN (log \o new) = 1 .. Len(log) + n
  BY <1>4
<1>6. \A i \in 1 .. n : (log \o new)[Len(log) + i] = new[i]
  <2> SUFFICES ASSUME NEW i \in 1 .. n PROVE (log \o new)[Len(log) + i] = new[i]
    OBVIOUS
  <2>1. Len(log) + i \in 1 .. Len(log) + n /\ ~(Len(log) + i <= Len(log)) /\ Len(log) + i - Len(log) = i
    BY <1>3
  <2> QED BY <1>4, <2>1
<1>7. \A i \in 1 .. Len(log) : (log \o new)[i] = log[i]
  BY <1>3, <1>4
<1> QED BY <1>1, <1>2, <1>4, <1>5, <1>6, <1>7

LEMMA StatementBegins ==
    ASSUME PlanInv, program = "next", NEW n \in Nat,
           log' \in Seq(Entry), DOMAIN log' = 1 .. Len(log) + n, hand' \in {{}, Len(log) + 1 .. Len(log) + n},
           \A i \in 1 .. Len(log) : log'[i] = log[i],
           \A i \in Len(log) + 1 .. Len(log) + n :
              /\ ~log'[i].ran /\ log'[i].form = form /\ log'[i].statement = Len(log) + 1
              /\ log'[i].result = "none" \/ (hand' = {} /\ log'[i].sig \in blocked),
           UNCHANGED <<form, programs, blocked, spent>>,
           \/ program' \in {"idle", "next"} /\ hand' = {}
           \/ /\ program' \in {"approval", "admit"} /\ n = 1 /\ hand' = Len(log) + 1 .. Len(log) + n
              /\ form = "plan" => log'[Len(log) + 1].sig \notin blocked
              /\ log'[Len(log) + 1].result = "none"
           \/ program' = "group" /\ form = "plan"
    PROVE  PlanInv'
<1>1. DOMAIN log = 1 .. Len(log) /\ Len(log) \in Nat /\ \A i \in DOMAIN log : log[i] \in Entry
  BY LogEntries DEF PlanInv
<1>2. hand = {} /\ Len(log') = Len(log) + n
  BY <1>1 DEF PlanInv, InHand
<1>3. PlanType'
  BY <1>1 DEF PlanInv, PlanType
<1>4. InHand'
  <2>1. program' \in {"approval", "admit", "running"} =>
          /\ log' # <<>> /\ hand' = {Len(log')} /\ log'[Len(log')].result = "none"
          /\ log'[Len(log')].ran <=> program' = "running"
    <3> SUFFICES ASSUME program' \in {"approval", "admit"}, n = 1
                 PROVE  /\ log' # <<>> /\ hand' = {Len(log')} /\ log'[Len(log')].result = "none"
                        /\ ~log'[Len(log')].ran
      BY <1>3 DEF PlanType
    <3>1. hand' = {Len(log) + 1} /\ Len(log') = Len(log) + 1 /\ Len(log) + 1 \in Len(log) + 1 .. Len(log) + n
      BY <1>1, <1>2
    <3> QED BY <1>1, <3>1
  <2>2. \A i \in hand' : i \in Len(log) + 1 .. Len(log) + n
    OBVIOUS
  <2>3. \A i \in hand' : \A j \in DOMAIN log' : i <= j => j \in hand'
    BY <1>1
  <2> QED BY <2>1, <2>2, <2>3 DEF InHand
<1>5. NotRefused'
  BY <1>1, <1>2 DEF NotRefused
<1>6. Remembered'
  <2> SUFFICES ASSUME NEW i \in 1 .. Len(log) + n, i \notin hand', log'[i].form = "plan",
                      log'[i].result \notin {"none", "ok", "lost"}
               PROVE  log'[i].sig \in blocked \/ Exhausted(log'[i].sig)
    BY DEF Remembered, Exhausted
  <2>1. CASE i \in 1 .. Len(log)
    BY <1>1, <1>2, <2>1 DEF PlanInv, Remembered
  <2>2. CASE i \in Len(log) + 1 .. Len(log) + n
    BY <2>2
  <2> QED BY <1>1, <2>1, <2>2
<1>7. Plans!NotRepeated'
  <2> SUFFICES ASSUME NEW i \in 1 .. Len(log) + n, NEW j \in 1 .. Len(log) + n PROVE Apart(log', i, j)
    BY DEF Plans!NotRepeated, Apart
  <2>1. CASE j \in 1 .. Len(log) /\ i < j
    <3>1. i \in 1 .. Len(log)
      BY <1>1, <2>1
    <3> QED BY <1>1, <2>1, <3>1 DEF PlanInv, Plans!NotRepeated, Apart
  <2>2. CASE j \in Len(log) + 1 .. Len(log) + n
    BY <2>2 DEF Apart
  <2> QED BY <1>1, <2>1, <2>2 DEF Apart
<1>8. Plans!RunsAreAudited'
  <2> SUFFICES ASSUME NEW i \in 1 .. Len(log) + n, log'[i].ran
               PROVE  log'[i].result = "lost" \/ (log'[i].row = "complete" /\ log'[i].result # "none")
    BY DEF Plans!RunsAreAudited
  <2>1. i \in 1 .. Len(log)
    BY <1>1
  <2> QED BY <1>1, <1>2, <2>1 DEF PlanInv, Plans!RunsAreAudited
<1> QED BY <1>3, <1>4, <1>5, <1>6, <1>7, <1>8 DEF PlanInv

(* A row is settled: of one entry, nothing but its row, result and mark in  *)
(* the report.                                                              *)
LEMMA SettledEntry ==
    ASSUME NEW l \in Seq(Entry), NEW i \in DOMAIN l, NEW result \in Results, NEW reported \in BOOLEAN
    PROVE  LET settled == Plans!Settled(l, i, result, reported)
           IN /\ DOMAIN settled = DOMAIN l /\ settled = [k \in DOMAIN settled |-> settled[k]]
              /\ \A k \in DOMAIN l \ {i} : settled[k] = l[k]
              /\ settled[i] \in Entry /\ settled[i].sig = l[i].sig /\ settled[i].form = l[i].form
              /\ settled[i].statement = l[i].statement /\ settled[i].ran = l[i].ran
              /\ settled[i].row = "complete" /\ settled[i].result = result
<1> DEFINE entry == [l[i] EXCEPT !.row = "complete", !.result = result, !.entry = reported]
<1>1. DOMAIN l = 1 .. Len(l) /\ l[i] \in Entry /\ l = [k \in DOMAIN l |-> l[k]]
  OBVIOUS
<1>2. /\ entry \in Entry /\ entry.sig = l[i].sig /\ entry.form = l[i].form
      /\ entry.statement = l[i].statement /\ entry.ran = l[i].ran
      /\ entry.row = "complete" /\ entry.result = result
  BY <1>1 DEF Entry
<1>3. Plans!Settled(l, i, result, reported) = [l EXCEPT ![i] = entry]
  BY <1>1 DEF Plans!Settled
<1> HIDE DEF entry
<1> QED BY <1>1, <1>2, <1>3

(* One call in hand is settled, and with it its statement is over.          *)
LEMMA CallSettles ==
    ASSUME PlanInv, program \in {"approval", "admit", "running"}, program' \in {"idle", "next"}, hand' = {},
           NEW result \in Results \ {"none"}, NEW reported \in BOOLEAN,
           log' = Plans!Settled(log, Len(log), result, reported),
           log[Len(log)].form = "plan" /\ result # "ok" =>
              log[Len(log)].sig \in blocked' \/ Exhausted(log[Len(log)].sig),
           blocked \subseteq blocked', spent' \in Nat, spent <= spent', UNCHANGED <<form, programs>>
    PROVE  PlanInv'
<1>1. log \in Seq(Entry) /\ hand = {Len(log)} /\ Len(log) \in DOMAIN log /\ programs' \in Nat /\ form' \in Forms \cup {"plan"}
  BY DEF PlanInv, PlanType, InHand
<1>2. result \in Results
  OBVIOUS
<1>3. /\ DOMAIN log' = DOMAIN log /\ log' = [i \in DOMAIN log' |-> log'[i]]
      /\ \A i \in DOMAIN log \ {Len(log)} : log'[i] = log[i]
      /\ log'[Len(log)] \in Entry /\ log'[Len(log)].sig = log[Len(log)].sig /\ log'[Len(log)].form = log[Len(log)].form
      /\ log'[Len(log)].statement = log[Len(log)].statement /\ log'[Len(log)].ran = log[Len(log)].ran
      /\ log'[Len(log)].row = "complete" /\ log'[Len(log)].result = result
  BY <1>1, <1>2, SettledEntry
<1> QED BY <1>1, <1>3, StatementEnds

(* The statement in hand is given up without having run.                    *)
LEMMA NothingRan ==
    ASSUME PlanInv, program \in {"idle", "next", "approval"}, program' \in {"idle", "next"}, hand' = {},
           log' = log, UNCHANGED <<blocked, spent>>, programs' \in Nat, form' \in Forms \cup {"plan"}
    PROVE  PlanInv'
<1>1. \A i \in DOMAIN log : log[i] \in Entry
  BY LogEntries DEF PlanInv
<1>2. log = [i \in DOMAIN log |-> log[i]] /\ spent \in Nat
  BY DEF PlanInv, PlanType
<1>3. \A i \in hand : i \in DOMAIN log /\ ~log[i].ran /\ log[i].result = "none"
  BY DEF PlanInv, PlanType, InHand
<1> QED BY <1>1, <1>2, <1>3, StatementEnds

LEMMA PlanBegins ==
    ASSUME PlanInv, Plans!Begin \/ Plans!Abandons \/ Plans!Ends \/ Plans!GroupRefused \/ Plans!ApprovalFails
    PROVE  PlanInv'
<1>1. /\ program \in {"idle", "next", "approval"} /\ program' \in {"idle", "next"} /\ log' = log /\ UNCHANGED <<blocked, spent>>
  BY DEF Plans!Begin, Plans!Abandons, Plans!Ends, Plans!GroupRefused, Plans!ApprovalFails, Plans!Reports
<1>2. hand' = {}
  BY DEF PlanInv, InHand, Plans!Begin, Plans!Abandons, Plans!Ends, Plans!GroupRefused, Plans!ApprovalFails, Plans!Reports
<1>3. programs \in Nat /\ form \in Forms \cup {"plan"}
  BY DEF PlanInv, PlanType
<1>4. programs' \in Nat /\ form' \in Forms \cup {"plan"}
  <2>1. CASE Plans!Begin
    BY <1>3, <2>1 DEF Plans!Begin
  <2>2. CASE UNCHANGED Plans!turn
    BY <1>3, <2>2 DEF Plans!turn
  <2> QED BY <2>1, <2>2 DEF Plans!Abandons, Plans!Ends, Plans!GroupRefused, Plans!ApprovalFails
<1> QED BY <1>1, <1>2, <1>4, NothingRan

LEMMA PlanCalls == ASSUME PlanInv, NEW s \in Signatures, Plans!CallStep(s) PROVE PlanInv'
<1> DEFINE tried == Plans!Attempts(<<s>>)
<1>1. /\ program = "next" /\ UNCHANGED <<form, programs, blocked, spent>>
  BY DEF Plans!CallStep, Plans!CallRefused, Plans!CallBlocked, Plans!CallPasses, Plans!Starts, Plans!turn
<1>2. hand = {} /\ Len(log) \in Nat
  BY <1>1, LogEntries DEF PlanInv, InHand
<1>3. /\ tried \in Seq(Entry) /\ DOMAIN tried = 1 .. Len(log) + 1
      /\ \A i \in 1 .. Len(log) : tried[i] = log[i]
      /\ tried[Len(log) + 1] = Attempt(s)
  <2>1. 1 \in Nat /\ <<s>> \in [1 .. 1 -> Signatures] /\ <<s>>[1] = s /\ 1 \in 1 .. 1
    OBVIOUS
  <2> QED BY <2>1, Attempting
<1>4. /\ ~Attempt(s).ran /\ Attempt(s).form = form /\ Attempt(s).statement = Len(log) + 1
      /\ Attempt(s).result = "none" /\ Attempt(s).sig = s
  BY DEF Attempt
<1>5. Len(log) + 1 .. Len(log) + 1 = {Len(log) + 1}
  BY <1>2
<1> HIDE DEF tried
<1>6. CASE Plans!CallRefused(s)
  <2>1. log' = tried /\ hand' = {} /\ program' \in {"idle", "next"}
    BY <1>2, <1>6 DEF Plans!CallRefused, Plans!Reports, Plans!GoesOn, tried
  <2> QED BY <1>1, <1>3, <1>4, <1>5, <2>1, StatementBegins
<1>7. CASE Plans!CallBlocked(s)
  <2>1. /\ log' = Plans!Settled(tried, Len(log) + 1, "denied", TRUE) /\ hand' = {} /\ program' = "idle"
        /\ s \in blocked
    BY <1>7 DEF Plans!CallBlocked, Plans!Reports, Plans!Last, tried
  <2>2. Len(log) + 1 \in DOMAIN tried /\ "denied" \in Results
    BY <1>2, <1>3 DEF Results
  <2>3. /\ DOMAIN log' = DOMAIN tried /\ log' = [i \in DOMAIN log' |-> log'[i]]
        /\ \A i \in DOMAIN tried \ {Len(log) + 1} : log'[i] = tried[i]
        /\ log'[Len(log) + 1] \in Entry /\ log'[Len(log) + 1].sig = s /\ log'[Len(log) + 1].form = form
        /\ log'[Len(log) + 1].statement = Len(log) + 1 /\ ~log'[Len(log) + 1].ran
    <3> DEFINE settled == Plans!Settled(tried, Len(log) + 1, "denied", TRUE)
    <3> DEFINE reported == TRUE
    <3>1. settled = Plans!Settled(tried, Len(log) + 1, "denied", reported) /\ reported \in BOOLEAN
      OBVIOUS
    <3> HIDE DEF settled, reported
    <3>2. /\ DOMAIN settled = DOMAIN tried /\ settled = [k \in DOMAIN settled |-> settled[k]]
          /\ \A k \in DOMAIN tried \ {Len(log) + 1} : settled[k] = tried[k]
          /\ settled[Len(log) + 1] \in Entry /\ settled[Len(log) + 1].sig = tried[Len(log) + 1].sig
          /\ settled[Len(log) + 1].form = tried[Len(log) + 1].form
          /\ settled[Len(log) + 1].statement = tried[Len(log) + 1].statement
          /\ settled[Len(log) + 1].ran = tried[Len(log) + 1].ran
      <4>1. tried \in Seq(Entry) /\ Len(log) + 1 \in DOMAIN tried
        BY <1>3, <2>2
      <4> QED BY <2>2, <3>1, <4>1, SettledEntry
    <3>3. log' = settled
      BY <2>1 DEF settled
    <3> QED BY <1>3, <1>4, <3>2, <3>3
  <2>4. \A i \in 1 .. Len(log) + 1 : log'[i] \in Entry
    <3>1. \A i \in 1 .. Len(log) + 1 : tried[i] \in Entry
      BY <1>3
    <3> QED BY <1>3, <2>3, <3>1
  <2>5. log' \in Seq(Entry) /\ \A i \in 1 .. Len(log) : log'[i] = log[i]
    <3>1. log' \in [1 .. Len(log) + 1 -> Entry]
      BY <1>3, <2>3, <2>4
    <3>2. \A i \in 1 .. Len(log) : i \in DOMAIN tried \ {Len(log) + 1}
      BY <1>2, <1>3
    <3> QED BY <1>2, <1>3, <2>3, <3>1, <3>2
  <2> QED BY <1>1, <1>3, <1>5, <2>1, <2>3, <2>5, StatementBegins
<1>8. CASE Plans!CallPasses(s)
  <2>1. log' = tried /\ hand' = {Len(log) + 1} /\ program' \in {"approval", "admit"} /\ (form = "plan" => s \notin blocked)
    BY <1>8 DEF Plans!CallPasses, Plans!Refuses, Plans!Last, tried
  <2> QED BY <1>1, <1>3, <1>4, <1>5, <2>1, StatementBegins
<1> QED BY <1>6, <1>7, <1>8 DEF Plans!CallStep

LEMMA PlanGroups == ASSUME PlanInv, NEW g \in Plans!Groups, Plans!StartGroup(g) PROVE PlanInv'
<1>1. PICK n \in 2 .. MaxMembers : g \in [1 .. n -> Signatures]
  BY DEF Plans!Groups
<1>2. n \in Nat /\ Len(g) = n
  BY <1>1, SearchesAssumption
<1> DEFINE tried == Plans!Attempts(g)
<1>3. /\ program = "next" /\ form = "plan" /\ log' = tried /\ program' = "group"
      /\ hand' = Len(log) + 1 .. Len(log) + n /\ UNCHANGED <<form, programs, blocked, spent>>
  BY <1>2 DEF Plans!StartGroup, Plans!Last, Plans!turn
<1>4. /\ tried \in Seq(Entry) /\ DOMAIN tried = 1 .. Len(log) + n
      /\ \A i \in 1 .. Len(log) : tried[i] = log[i]
      /\ \A i \in 1 .. n : tried[Len(log) + i] = Attempt(g[i])
  BY <1>1, <1>2, Attempting
<1> HIDE DEF tried
<1>5. \A i \in Len(log) + 1 .. Len(log) + n : i - Len(log) \in 1 .. n /\ tried[i] = Attempt(g[i - Len(log)])
  <2> SUFFICES ASSUME NEW i \in Len(log) + 1 .. Len(log) + n
               PROVE  i - Len(log) \in 1 .. n /\ tried[i] = Attempt(g[i - Len(log)])
    OBVIOUS
  <2>1. Len(log) \in Nat
    BY LogEntries DEF PlanInv
  <2>2. i - Len(log) \in 1 .. n /\ Len(log) + (i - Len(log)) = i
    BY <1>2, <2>1
  <2> QED BY <1>4, <2>2
<1>6. \A s : /\ ~Attempt(s).ran /\ Attempt(s).form = form /\ Attempt(s).statement = Len(log) + 1
             /\ Attempt(s).result = "none"
  BY DEF Attempt
<1> QED BY <1>2, <1>3, <1>4, <1>5, <1>6, StatementBegins

(* Nothing of the log moves: the user allows a call, the watch is set, time *)
(* passes.                                                                  *)
LEMMA LogRests ==
    ASSUME PlanInv, log' = log, UNCHANGED <<hand, form, blocked, spent, programs>>,
           \/ program' = program
           \/ program = "approval" /\ program' = "admit"
    PROVE  PlanInv'
<1>1. \A i \in DOMAIN log : log[i] \in Entry
  BY LogEntries DEF PlanInv
<1>2. /\ log = [i \in DOMAIN log |-> log[i]] /\ spent \in Nat /\ hand \subseteq DOMAIN log
      /\ program' \in {"idle", "next", "approval", "admit", "running", "group", "gone"}
  BY DEF PlanInv, PlanType
<1>3. /\ program' \in {"idle", "next", "gone"} => hand = {}
      /\ program' = "group" => form = "plan"
      /\ program' \in {"approval", "admit", "running"} =>
            /\ program \in {"approval", "admit", "running"}
            /\ log[Len(log)].result = "none" /\ (log[Len(log)].ran <=> program' = "running")
  BY DEF PlanInv, InHand
<1> QED BY <1>1, <1>2, <1>3, HandMoves

LEMMA PlanTurns == ASSUME PlanInv, Plans!Signal \/ Plans!Tick PROVE PlanInv'
BY LogRests DEF Plans!Signal, Plans!Tick, Plans!turn

(* The call in hand is one of the log, and has not been settled.            *)
LEMMA CallInHand ==
    ASSUME PlanInv, program \in {"approval", "admit", "running"}
    PROVE  /\ hand = {Len(log)} /\ Len(log) \in DOMAIN log /\ log \in Seq(Entry)
           /\ log[Len(log)] \in Entry /\ log[Len(log)].form = form /\ log[Len(log)].result = "none"
           /\ log[Len(log)].ran <=> program = "running"
           /\ Plans!Last = Len(log) /\ Plans!Sig = log[Len(log)].sig
           /\ spent \in Nat /\ programs \in Nat /\ form \in Forms \cup {"plan"}
BY DEF PlanInv, PlanType, InHand, Plans!Last, Plans!Sig

LEMMA PlanDecides == ASSUME PlanInv, Plans!Decide PROVE PlanInv'
<1>1. /\ program = "approval" /\ UNCHANGED <<spent, form, programs>>
  BY DEF Plans!Decide, Plans!turn
<1>2. CASE Plans!GoesOn("admit") /\ UNCHANGED <<log, blocked>>
  BY <1>1, <1>2, LogRests DEF Plans!GoesOn
<1>3. CASE /\ log' = Plans!Settled(log, Plans!Last, "denied", TRUE)
           /\ IF form = "plan" THEN Plans!Reports("denied") /\ blocked' = blocked \cup {Plans!Sig}
                               ELSE Plans!Reports("ok") /\ UNCHANGED blocked
  <2>1. /\ program' \in {"idle", "next"} /\ hand' = {} /\ blocked \subseteq blocked'
        /\ form = "plan" => log[Len(log)].sig \in blocked'
    BY <1>1, <1>3, CallInHand DEF Plans!Reports
  <2>2. "denied" \in Results \ {"none"} /\ log' = Plans!Settled(log, Len(log), "denied", TRUE)
    BY <1>1, <1>3, CallInHand DEF Results
  <2>3. spent' \in Nat /\ spent <= spent' /\ log[Len(log)].form = form
    BY <1>1, CallInHand
  <2> QED BY <1>1, <2>1, <2>2, <2>3, CallSettles
<1> QED BY <1>2, <1>3 DEF Plans!Decide

(* A call that cannot be charged is out of searches.                        *)
LEMMA Unaffordable ==
    ASSUME NEW s, spent \in Nat
    PROVE  /\ Plans!Affordable(s) <=> ~Exhausted(s)
           /\ Plans!Charged(s) \in Nat /\ spent <= Plans!Charged(s)
BY SearchesAssumption DEF Plans!Affordable, Plans!Charged, Exhausted

LEMMA PlanOverBudget == ASSUME PlanInv, Plans!OverBudget PROVE PlanInv'
<1>1. /\ program = "admit" /\ ~Plans!Affordable(Plans!Sig) /\ UNCHANGED <<blocked, spent, form, programs>>
      /\ log' = Plans!Settled(log, Plans!Last, "denied", TRUE) /\ program' = "idle" /\ hand' = {}
  BY DEF Plans!OverBudget, Plans!Reports, Plans!turn
<1>2. "denied" \in Results \ {"none"} /\ log' = Plans!Settled(log, Len(log), "denied", TRUE)
  BY <1>1, CallInHand DEF Results
<1>3. spent' \in Nat /\ spent <= spent' /\ Exhausted(log[Len(log)].sig)
  BY <1>1, CallInHand, Unaffordable
<1> QED BY <1>1, <1>2, <1>3, CallSettles

LEMMA PlanDispatches == ASSUME PlanInv, Plans!Dispatch PROVE PlanInv'
<1> DEFINE run == [log[Len(log)] EXCEPT !.ran = TRUE, !.row = "streaming"]
<1>1. /\ program = "admit" /\ (form = "plan" => Plans!Affordable(Plans!Sig))
      /\ log' = [log EXCEPT ![Plans!Last].ran = TRUE, ![Plans!Last].row = "streaming"]
      /\ spent' = IF form = "plan" THEN Plans!Charged(Plans!Sig) ELSE spent
      /\ program' = "running" /\ UNCHANGED <<hand, blocked, form, programs>>
  BY DEF Plans!Dispatch, Plans!GoesOn, Plans!turn
<1>2. /\ hand = {Len(log)} /\ Len(log) \in DOMAIN log /\ log \in Seq(Entry) /\ log[Len(log)] \in Entry
      /\ log[Len(log)].result = "none" /\ log[Len(log)].form = form
  BY <1>1, CallInHand
<1>3. log' = [log EXCEPT ![Len(log)] = run]
  BY <1>1, <1>2 DEF Plans!Last
<1>4. /\ run \in Entry /\ run.sig = log[Len(log)].sig /\ run.form = log[Len(log)].form
      /\ run.statement = log[Len(log)].statement /\ run.ran /\ run.result = "none"
  BY <1>2 DEF Entry
<1>5. spent' \in Nat /\ spent <= spent' /\ (form = "plan" => ~Exhausted(log[Len(log)].sig))
  BY <1>1, CallInHand, Unaffordable
<1>6. form = "plan" => log[Len(log)].sig \notin blocked
  BY <1>1 DEF PlanInv, NotRefused
<1> HIDE DEF run
<1>7. /\ DOMAIN log' = DOMAIN log /\ log' = [i \in DOMAIN log' |-> log'[i]]
      /\ \A i \in DOMAIN log \ hand : log'[i] = log[i]
      /\ log'[Len(log)] = run
  BY <1>2, <1>3
<1> QED BY <1>1, <1>2, <1>4, <1>5, <1>6, <1>7, HandMoves

LEMMA PlanInterrupted == ASSUME PlanInv, Plans!Interrupt PROVE PlanInv'
<1>1. /\ program \in {"admit", "running"} /\ program' = "idle" /\ hand' = {} /\ UNCHANGED <<form, programs>>
      /\ spent' = (IF program = "admit" THEN Plans!Charged(Plans!Sig) ELSE spent)
      /\ blocked' = blocked \cup {Plans!Sig}
  BY DEF Plans!Interrupt, Plans!Reports, Plans!Unrepeatable, Plans!turn
<1>2. PICK cause \in Plans!Causes : log' = Plans!Settled(log, Plans!Last, cause, FALSE)
  BY DEF Plans!Interrupt
<1>3. cause \in Results \ {"none"}
  BY <1>2 DEF Plans!Causes, Results
<1>4. spent' \in Nat /\ spent <= spent'
  BY <1>1, CallInHand, Unaffordable
<1>5. blocked \subseteq blocked' /\ log[Len(log)].sig \in blocked' /\ log' = Plans!Settled(log, Len(log), cause, FALSE)
  BY <1>1, <1>2, CallInHand
<1> QED BY <1>1, <1>3, <1>4, <1>5, CallSettles

LEMMA PlanReturns == ASSUME PlanInv, NEW result \in {"ok", "failed"}, Plans!Returns(result) PROVE PlanInv'
<1>1. /\ program = "running" /\ program' \in {"idle", "next"} /\ hand' = {} /\ UNCHANGED <<spent, form, programs>>
      /\ log' = Plans!Settled(log, Plans!Last, result, TRUE)
      /\ blocked' = IF form = "plan" /\ result # "ok" THEN blocked \cup {Plans!Sig} ELSE blocked
  BY DEF Plans!Returns, Plans!Reports, Plans!turn
<1>2. result \in Results \ {"none"}
  BY DEF Results
<1>3. /\ spent' \in Nat /\ spent <= spent' /\ log' = Plans!Settled(log, Len(log), result, TRUE)
      /\ log[Len(log)].form = form /\ Plans!Sig = log[Len(log)].sig
  <2>1. spent \in Nat /\ Plans!Last = Len(log) /\ log[Len(log)].form = form /\ Plans!Sig = log[Len(log)].sig
    BY <1>1, CallInHand
  <2>2. spent <= spent
    BY <2>1
  <2> QED BY <1>1, <2>1, <2>2
<1>4. blocked \subseteq blocked' /\ (form = "plan" /\ result # "ok" => log[Len(log)].sig \in blocked')
  BY <1>1, <1>3
<1> QED BY <1>1, <1>2, <1>3, <1>4, CallSettles

(* A member of a group changes its result, and whether it ran.              *)
LEMMA MemberMoves ==
    ASSUME PlanInv, program = "group", NEW i \in hand, NEW result \in Results, NEW ran \in BOOLEAN,
           Plans!Member(i, result, ran), UNCHANGED <<program, hand, blocked, form, programs>>,
           ran => log[i].ran \/ (log[i].sig \notin blocked /\ ~Exhausted(log[i].sig)),
           spent' \in Nat, spent <= spent'
    PROVE  PlanInv'
<1> DEFINE moved == [log[i] EXCEPT !.result = result, !.ran = ran]
<1>1. i \in DOMAIN log /\ log \in Seq(Entry) /\ log[i] \in Entry /\ form = "plan"
  <2>1. \A k \in DOMAIN log : log[k] \in Entry
    BY LogEntries DEF PlanInv
  <2> QED BY <2>1 DEF PlanInv, PlanType, InHand
<1>2. log' = [log EXCEPT ![i] = moved]
  BY <1>1 DEF Plans!Member
<1>3. /\ moved \in Entry /\ moved.sig = log[i].sig /\ moved.form = log[i].form
      /\ moved.statement = log[i].statement /\ moved.ran = ran
  BY <1>1 DEF Entry
<1> HIDE DEF moved
<1>4. /\ DOMAIN log' = DOMAIN log /\ log' = [k \in DOMAIN log' |-> log'[k]]
      /\ \A k \in DOMAIN log \ {i} : log'[k] = log[k]
      /\ log'[i] = moved
  BY <1>1, <1>2
<1>5. \A k \in hand : k \in DOMAIN log /\ log[k] \in Entry
  BY LogEntries DEF PlanInv, PlanType
<1>6. \A k \in hand :
        /\ log'[k] \in Entry
        /\ log'[k].sig = log[k].sig /\ log'[k].form = log[k].form /\ log'[k].statement = log[k].statement
        /\ log'[k].ran => log[k].ran \/ (form = "plan" => log[k].sig \notin blocked /\ ~Exhausted(log[k].sig))
  BY <1>3, <1>4, <1>5
<1> QED BY <1>1, <1>4, <1>6, HandMoves

LEMMA PlanPolls == ASSUME PlanInv, Plans!Poll PROVE PlanInv'
<1> DEFINE i == Plans!First(Plans!Unpolled)
<1>1. /\ program = "group" /\ Plans!Unpolled # {} /\ UNCHANGED <<program, hand, blocked, form, programs>>
  BY DEF Plans!Poll, Plans!turn
<1>2. Plans!Unpolled \subseteq hand /\ hand \subseteq Nat
  BY LogEntries DEF PlanInv, PlanType, Plans!Unpolled, Plans!Open
<1>3. i \in hand
  <2>1. \E k \in Plans!Unpolled : \A l \in Plans!Unpolled : k <= l
    BY <1>1, <1>2, LeastNumber
  <2> QED BY <1>2, <2>1 DEF Plans!First
<1>4. spent \in Nat /\ FALSE \in BOOLEAN /\ {"cancelled", "failed", "none"} \subseteq Results
  BY DEF PlanInv, PlanType, Results
<1>5. \/ Plans!Member(i, "cancelled", FALSE) /\ UNCHANGED spent
      \/ /\ Plans!Member(i, "failed", FALSE)
         /\ spent' \in {spent, IF Plans!Affordable(log[i].sig) THEN Plans!Charged(log[i].sig) ELSE spent}
      \/ /\ Plans!Affordable(log[i].sig) /\ ~Plans!Refuses(log[i].sig)
         /\ Plans!Member(i, "none", TRUE) /\ spent' = Plans!Charged(log[i].sig)
  BY DEF Plans!Poll
<1> HIDE DEF i
<1>6. spent' \in Nat /\ spent <= spent'
  <2>1. spent' \in {spent, Plans!Charged(log[i].sig)}
    BY <1>5
  <2>2. spent <= spent /\ Plans!Charged(log[i].sig) \in Nat /\ spent <= Plans!Charged(log[i].sig)
    BY <1>4, Unaffordable
  <2> QED BY <1>4, <2>1, <2>2
<1>7. CASE Plans!Member(i, "cancelled", FALSE)
  BY <1>1, <1>3, <1>4, <1>6, <1>7, MemberMoves
<1>8. CASE Plans!Member(i, "failed", FALSE)
  BY <1>1, <1>3, <1>4, <1>6, <1>8, MemberMoves
<1>9. CASE Plans!Affordable(log[i].sig) /\ ~Plans!Refuses(log[i].sig) /\ Plans!Member(i, "none", TRUE)
  <2>1. ~Exhausted(log[i].sig) /\ log[i].sig \notin blocked
    BY <1>1, <1>4, <1>9, Unaffordable DEF PlanInv, InHand, Plans!Refuses
  <2> QED BY <1>1, <1>3, <1>4, <1>6, <1>9, <2>1, MemberMoves
<1> QED BY <1>5, <1>7, <1>8, <1>9

LEMMA PlanMemberEnds == ASSUME PlanInv, Plans!MemberEnds PROVE PlanInv'
<1>1. /\ program = "group" /\ UNCHANGED <<program, hand, blocked, spent, form, programs>>
  BY DEF Plans!MemberEnds, Plans!turn
<1>2. PICK i \in Plans!Open \ Plans!Unpolled, result \in {"ok", "failed", "cancelled"} : Plans!Member(i, result, TRUE)
  BY DEF Plans!MemberEnds
<1>3. i \in hand /\ log[i].ran /\ result \in Results
  BY <1>2 DEF Plans!Open, Plans!Unpolled, Results
<1>4. spent' \in Nat /\ spent <= spent'
  BY <1>1 DEF PlanInv, PlanType
<1> QED BY <1>1, <1>2, <1>3, <1>4, MemberMoves

(* The members of a group are accounted for, to the last of them where no   *)
(* name is refused.                                                         *)
LEMMA PlanJoins == ASSUME BadNames = FALSE, PlanInv, Plans!Join PROVE PlanInv'
<1> DEFINE bad == {i \in hand : i <= Len(log) /\ log[i].result # "ok"}
<1>1. /\ program = "group" /\ program' \in {"idle", "next"} /\ hand' = {} /\ UNCHANGED <<spent, form, programs>>
      /\ Plans!Open = {} /\ log' = Plans!Accounted(Len(log)) /\ blocked' = blocked \cup {log[i].sig : i \in bad}
  BY DEF Plans!Join, Plans!Reports, Plans!Last, Plans!turn
<1>2. DOMAIN log = 1 .. Len(log) /\ Len(log) \in Nat /\ hand \subseteq DOMAIN log /\ log \in Seq(Entry)
  BY LogEntries DEF PlanInv, PlanType
<1>3. /\ DOMAIN log' = DOMAIN log /\ log' = [i \in DOMAIN log' |-> log'[i]]
      /\ \A i \in DOMAIN log \ hand : log'[i] = log[i]
      /\ \A i \in hand : log'[i] = Plans!Settled(log, i, log[i].result, TRUE)[i]
  <2>1. log' = [i \in DOMAIN log |-> IF i \in hand /\ i <= Len(log)
                                     THEN Plans!Settled(log, i, log[i].result, TRUE)[i] ELSE log[i]]
    BY <1>1 DEF Plans!Accounted
  <2>2. \A i \in hand : i \in DOMAIN log /\ i <= Len(log)
    BY <1>2
  <2>3. DOMAIN log' = DOMAIN log /\ log' = [i \in DOMAIN log' |-> log'[i]]
    BY <2>1, Zenon
  <2> QED BY <2>1, <2>2, <2>3, Zenon
<1>4. \A i \in hand :
        /\ log'[i] \in Entry /\ log'[i].sig = log[i].sig /\ log'[i].form = log[i].form
        /\ log'[i].statement = log[i].statement /\ log'[i].ran = log[i].ran
        /\ log'[i].row = "complete" /\ log'[i].result = log[i].result /\ log[i].result # "none"
  <2> SUFFICES ASSUME NEW i \in hand
               PROVE  /\ log'[i] \in Entry /\ log'[i].sig = log[i].sig /\ log'[i].form = log[i].form
                      /\ log'[i].statement = log[i].statement /\ log'[i].ran = log[i].ran
                      /\ log'[i].row = "complete" /\ log'[i].result = log[i].result /\ log[i].result # "none"
    OBVIOUS
  <2>1. i \in DOMAIN log /\ log[i].result \in Results /\ log[i].result # "none"
    <3>1. i \in DOMAIN log /\ log[i] \in Entry /\ i \notin Plans!Open
      BY <1>1, <1>2
    <3> QED BY <3>1 DEF Entry, Plans!Open
  <2> DEFINE settled == Plans!Settled(log, i, log[i].result, TRUE)
  <2> DEFINE reported == TRUE
  <2>2. settled = Plans!Settled(log, i, log[i].result, reported) /\ reported \in BOOLEAN
    OBVIOUS
  <2> HIDE DEF settled, reported
  <2>3. /\ settled[i] \in Entry /\ settled[i].sig = log[i].sig /\ settled[i].form = log[i].form
        /\ settled[i].statement = log[i].statement /\ settled[i].ran = log[i].ran
        /\ settled[i].row = "complete" /\ settled[i].result = log[i].result
    BY <1>2, <2>1, <2>2, SettledEntry
  <2>4. log'[i] = settled[i]
    BY <1>3 DEF settled
  <2> QED BY <2>1, <2>3, <2>4
<1>5. \A i \in hand : log'[i].result \notin {"none", "ok", "lost"} => log[i].sig \in blocked'
  <2>1. \A i \in hand : log[i].result # "ok" => i \in bad
    BY <1>2
  <2> QED BY <1>1, <1>4, <2>1
<1>6. spent' \in Nat /\ spent <= spent' /\ programs' \in Nat /\ form' \in Forms \cup {"plan"} /\ blocked \subseteq blocked'
  BY <1>1 DEF PlanInv, PlanType
<1> HIDE DEF bad
<1> QED BY <1>1, <1>3, <1>4, <1>5, <1>6, StatementEnds

LEMMA PlanDropped == ASSUME PlanInv, Plans!Drop PROVE PlanInv'
<1>1. /\ program' \in {"idle", "gone"} /\ hand' = {} /\ UNCHANGED <<blocked, spent, form, programs>>
      /\ log' = [i \in DOMAIN log |-> IF i \in hand THEN [log[i] EXCEPT !.result = "lost"] ELSE log[i]]
  BY DEF Plans!Drop, Plans!turn
<1>2. \A i \in DOMAIN log : log[i] \in Entry
  BY LogEntries DEF PlanInv
<1>3. hand \subseteq DOMAIN log /\ spent' \in Nat /\ spent <= spent' /\ programs' \in Nat /\ form' \in Forms \cup {"plan"}
  BY <1>1 DEF PlanInv, PlanType
<1>4. \A e \in Entry :
        LET lost == [e EXCEPT !.result = "lost"]
        IN /\ lost \in Entry /\ lost.sig = e.sig /\ lost.form = e.form
           /\ lost.statement = e.statement /\ lost.ran = e.ran /\ lost.result = "lost"
  BY DEF Entry, Results
<1>5. /\ DOMAIN log' = DOMAIN log /\ log' = [i \in DOMAIN log' |-> log'[i]]
      /\ \A i \in DOMAIN log \ hand : log'[i] = log[i]
      /\ \A i \in hand : log'[i] = [log[i] EXCEPT !.result = "lost"]
  BY <1>1, <1>3
<1>6. \A i \in hand :
        /\ log'[i] \in Entry /\ log'[i].sig = log[i].sig /\ log'[i].form = log[i].form
        /\ log'[i].statement = log[i].statement /\ log'[i].ran = log[i].ran /\ log'[i].result = "lost"
  <2> SUFFICES ASSUME NEW i \in hand
               PROVE  /\ log'[i] \in Entry /\ log'[i].sig = log[i].sig /\ log'[i].form = log[i].form
                      /\ log'[i].statement = log[i].statement /\ log'[i].ran = log[i].ran
                      /\ log'[i].result = "lost"
    OBVIOUS
  <2> DEFINE lost == [log[i] EXCEPT !.result = "lost"]
  <2>1. log[i] \in Entry
    BY <1>2, <1>3
  <2>2. /\ lost \in Entry /\ lost.sig = log[i].sig /\ lost.form = log[i].form
        /\ lost.statement = log[i].statement /\ lost.ran = log[i].ran /\ lost.result = "lost"
    BY <1>4, <2>1
  <2>3. log'[i] = lost
    BY <1>5
  <2> HIDE DEF lost
  <2> QED BY <2>2, <2>3
<1> QED BY <1>1, <1>3, <1>5, <1>6, StatementEnds

LEMMA PlanStays == ASSUME PlanInv, UNCHANGED plans PROVE PlanInv'
BY DEF plans, PlanInv, PlanType, InHand, NotRefused, Remembered, Exhausted, Plans!NotRepeated, Plans!RunsAreAudited

LEMMA PlanNext == ASSUME BadNames = FALSE, PlanInv, Plans!Next PROVE PlanInv'
BY PlanBegins, PlanCalls, PlanGroups, PlanTurns, PlanDecides, PlanOverBudget, PlanDispatches, PlanInterrupted,
   PlanReturns, PlanPolls, PlanMemberEnds, PlanJoins, PlanDropped DEF Plans!Next, Plans!ProgramStep

(* Where no result is bound to a name that is refused, what ended badly in  *)
(* a plan runs no more in its turn, and what a program ran has its audit    *)
(* row (dispatch_call, await_bounded, dispatch_parallel).                   *)
THEOREM RunsAreAccounted == ASSUME BadNames = FALSE PROVE Spec => []RunsAccounted
<1>1. Init => PlanInv
  BY InitPlans DEF Init
<1>2. PlanInv /\ [Next]_vars => PlanInv'
  BY PlanNext, PlanStays, OneAtATime
<1>3. PlanInv => RunsAccounted
  BY DEF PlanInv, RunsAccounted, Plans!RunsAccounted
<1> QED BY <1>1, <1>2, <1>3, PTL DEF Spec

-----------------------------------------------------------------------------
(* Permission rules *)

Chars == Letters \cup {"/"}
Glob == [pattern : Seq(Rules!Tokens), string : Seq(Chars)]
Spots(p, s) == (1 .. Len(p) + 1) \X (1 .. Len(s) + 1)

(* How covering goes on from token i and character j, by what Cov says of   *)
(* the tokens and characters behind them.                                   *)
Goes(p, s, Cov(_, _), i, j) ==
    IF i > Len(p) THEN j > Len(s)
    ELSE IF p[i] \in Rules!Stars
         THEN Cov(i + 1, j) \/ (j <= Len(s) /\ (p[i] = "**" \/ s[j] # "/") /\ Cov(i, j + 1))
         ELSE j <= Len(s) /\ Cov(i + 1, j + 1) /\ (p[i] = s[j] \/ (p[i] = "?" /\ s[j] # "/"))

(* The equation of CoversFrom has a solution: the least set of places that  *)
(* is closed under its steps.                                               *)
LEMMA CoversFromSolves ==
    ASSUME NEW p \in Seq(Rules!Tokens), NEW s \in Seq(Chars)
    PROVE  \A i \in 1 .. Len(p) + 1, j \in 1 .. Len(s) + 1 :
             LET Cov(k, l) == Rules!CoversFrom(p, s)[<<k, l>>]
             IN Cov(i, j) <=> Goes(p, s, Cov, i, j)
<1> DEFINE Steps(X) == {f \in Spots(p, s) : LET In(k, l) == <<k, l>> \in X IN Goes(p, s, In, f[1], f[2])}
           Closed == {X \in SUBSET Spots(p, s) : Steps(X) \subseteq X}
           Least == {f \in Spots(p, s) : \A X \in Closed : f \in X}
<1>1. ASSUME NEW X \in SUBSET Spots(p, s), NEW Y \in SUBSET Spots(p, s), X \subseteq Y
      PROVE  Steps(X) \subseteq Steps(Y)
  BY <1>1 DEF Goes
<1>2. Steps(Least) \subseteq Least
  <2>1. ASSUME NEW X \in Closed PROVE Steps(Least) \subseteq X
    <3>1. Least \subseteq X /\ X \in SUBSET Spots(p, s) /\ Steps(X) \subseteq X /\ Least \in SUBSET Spots(p, s)
      OBVIOUS
    <3> HIDE DEF Least, Steps, Closed
    <3> QED BY <1>1, <3>1
  <2>2. Steps(Least) \subseteq Spots(p, s)
    OBVIOUS
  <2> HIDE DEF Steps, Closed
  <2> QED BY <2>1, <2>2
<1>3. Least \subseteq Steps(Least)
  <2>1. Least \in SUBSET Spots(p, s) /\ Steps(Least) \in SUBSET Spots(p, s)
    OBVIOUS
  <2>2. Steps(Steps(Least)) \subseteq Steps(Least)
    <3> HIDE DEF Steps, Least
    <3> QED BY <1>1, <1>2, <2>1
  <2>3. Steps(Least) \in Closed
    <3> HIDE DEF Steps, Least
    <3> QED BY <2>1, <2>2
  <2> HIDE DEF Closed, Steps
  <2> QED BY <2>3
<1> DEFINE Cov == [f \in Spots(p, s) |-> f \in Least]
<1>4. Least = Steps(Least)
  BY <1>2, <1>3
<1> HIDE DEF Least
<1>5. Cov = [f \in Spots(p, s) |->
               IF f[1] > Len(p) THEN f[2] > Len(s)
               ELSE IF p[f[1]] \in Rules!Stars
                    THEN Cov[<<f[1] + 1, f[2]>>]
                         \/ (f[2] <= Len(s) /\ (p[f[1]] = "**" \/ s[f[2]] # "/") /\ Cov[<<f[1], f[2] + 1>>])
                    ELSE f[2] <= Len(s) /\ Cov[<<f[1] + 1, f[2] + 1>>]
                         /\ (p[f[1]] = s[f[2]] \/ (p[f[1]] = "?" /\ s[f[2]] # "/"))]
  <2>1. ASSUME NEW f \in Spots(p, s)
        PROVE  f \in Least <=>
               IF f[1] > Len(p) THEN f[2] > Len(s)
               ELSE IF p[f[1]] \in Rules!Stars
                    THEN <<f[1] + 1, f[2]>> \in Least
                         \/ (f[2] <= Len(s) /\ (p[f[1]] = "**" \/ s[f[2]] # "/") /\ <<f[1], f[2] + 1>> \in Least)
                    ELSE f[2] <= Len(s) /\ <<f[1] + 1, f[2] + 1>> \in Least
                         /\ (p[f[1]] = s[f[2]] \/ (p[f[1]] = "?" /\ s[f[2]] # "/"))
    BY <1>4 DEF Goes
  <2>2. ASSUME NEW f \in Spots(p, s)
        PROVE  /\ f[1] \in Nat /\ f[2] \in Nat
               /\ ~(f[1] > Len(p)) => <<f[1] + 1, f[2]>> \in Spots(p, s)
               /\ f[2] <= Len(s) => <<f[1], f[2] + 1>> \in Spots(p, s)
               /\ ~(f[1] > Len(p)) /\ f[2] <= Len(s) => <<f[1] + 1, f[2] + 1>> \in Spots(p, s)
    BY DEF Spots
  <2>3. ASSUME NEW g \in Spots(p, s) PROVE Cov[g] = (g \in Least)
    OBVIOUS
  <2> HIDE DEF Cov
  <2>4. ASSUME NEW f \in Spots(p, s)
        PROVE  f \in Least <=>
               IF f[1] > Len(p) THEN f[2] > Len(s)
               ELSE IF p[f[1]] \in Rules!Stars
                    THEN Cov[<<f[1] + 1, f[2]>>]
                         \/ (f[2] <= Len(s) /\ (p[f[1]] = "**" \/ s[f[2]] # "/") /\ Cov[<<f[1], f[2] + 1>>])
                    ELSE f[2] <= Len(s) /\ Cov[<<f[1] + 1, f[2] + 1>>]
                         /\ (p[f[1]] = s[f[2]] \/ (p[f[1]] = "?" /\ s[f[2]] # "/"))
    <3>1. CASE f[1] > Len(p)
      BY <2>1, <3>1
    <3>2. CASE ~(f[1] > Len(p)) /\ p[f[1]] \in Rules!Stars
      <4>1. Cov[<<f[1] + 1, f[2]>>] = (<<f[1] + 1, f[2]>> \in Least)
        BY <2>2, <2>3, <3>2
      <4>2. f[2] <= Len(s) => Cov[<<f[1], f[2] + 1>>] = (<<f[1], f[2] + 1>> \in Least)
        BY <2>2, <2>3
      <4> QED BY <2>1, <3>2, <4>1, <4>2
    <3>3. CASE ~(f[1] > Len(p)) /\ p[f[1]] \notin Rules!Stars
      <4>1. f[2] <= Len(s) => Cov[<<f[1] + 1, f[2] + 1>>] = (<<f[1] + 1, f[2] + 1>> \in Least)
        BY <2>2, <2>3, <3>3
      <4> QED BY <2>1, <3>3, <4>1
    <3> QED BY <3>1, <3>2, <3>3
  <2>5. ASSUME NEW f \in Spots(p, s)
        PROVE  (f \in Least) =
               IF f[1] > Len(p) THEN f[2] > Len(s)
               ELSE IF p[f[1]] \in Rules!Stars
                    THEN Cov[<<f[1] + 1, f[2]>>]
                         \/ (f[2] <= Len(s) /\ (p[f[1]] = "**" \/ s[f[2]] # "/") /\ Cov[<<f[1], f[2] + 1>>])
                    ELSE f[2] <= Len(s) /\ Cov[<<f[1] + 1, f[2] + 1>>]
                         /\ (p[f[1]] = s[f[2]] \/ (p[f[1]] = "?" /\ s[f[2]] # "/"))
    <3> DEFINE rest == IF f[1] > Len(p) THEN f[2] > Len(s)
                       ELSE IF p[f[1]] \in Rules!Stars
                            THEN Cov[<<f[1] + 1, f[2]>>]
                                 \/ (f[2] <= Len(s) /\ (p[f[1]] = "**" \/ s[f[2]] # "/") /\ Cov[<<f[1], f[2] + 1>>])
                            ELSE f[2] <= Len(s) /\ Cov[<<f[1] + 1, f[2] + 1>>]
                                 /\ (p[f[1]] = s[f[2]] \/ (p[f[1]] = "?" /\ s[f[2]] # "/"))
    <3>1. rest \in BOOLEAN
      <4>1. CASE f[1] > Len(p)
        <5>1. (f[2] > Len(s)) \in BOOLEAN
          OBVIOUS
        <5> QED BY <4>1, <5>1, Zenon
      <4>2. CASE ~(f[1] > Len(p)) /\ p[f[1]] \in Rules!Stars
        BY <4>2, Zenon
      <4>3. CASE ~(f[1] > Len(p)) /\ p[f[1]] \notin Rules!Stars
        BY <4>3, Zenon
      <4> HIDE DEF rest
      <4> QED BY <4>1, <4>2, <4>3
    <3>2. f \in Least <=> rest
      BY <2>4
    <3> DEFINE had == f \in Least
    <3>3. ASSUME NEW x \in BOOLEAN, NEW y \in BOOLEAN, x <=> y PROVE x = y
      BY <3>3
    <3>4. had \in BOOLEAN /\ (had <=> rest)
      BY <3>2
    <3> HIDE DEF rest, had
    <3>5. had = rest
      BY <3>1, <3>3, <3>4
    <3> QED BY <3>5 DEF had, rest
  <2> QED BY <2>5 DEF Cov
<1> DEFINE Code == Rules!CoversFrom(p, s)
<1>6. Code = [f \in Spots(p, s) |->
               IF f[1] > Len(p) THEN f[2] > Len(s)
               ELSE IF p[f[1]] \in Rules!Stars
                    THEN Code[<<f[1] + 1, f[2]>>]
                         \/ (f[2] <= Len(s) /\ (p[f[1]] = "**" \/ s[f[2]] # "/") /\ Code[<<f[1], f[2] + 1>>])
                    ELSE f[2] <= Len(s) /\ Code[<<f[1] + 1, f[2] + 1>>]
                         /\ (p[f[1]] = s[f[2]] \/ (p[f[1]] = "?" /\ s[f[2]] # "/"))]
  <2> HIDE DEF Cov
  <2> QED BY <1>5, Zenon DEF Rules!CoversFrom, Rules!Separator, Spots
<1> HIDE DEF Code
<1>7. ASSUME NEW i \in 1 .. Len(p) + 1, NEW j \in 1 .. Len(s) + 1
      PROVE  LET C(k, l) == Code[<<k, l>>] IN C(i, j) <=> Goes(p, s, C, i, j)
  <2>1. <<i, j>> \in Spots(p, s) /\ <<i, j>>[1] = i /\ <<i, j>>[2] = j
    BY DEF Spots
  <2>2. Code[<<i, j>>] =
               IF i > Len(p) THEN j > Len(s)
               ELSE IF p[i] \in Rules!Stars
                    THEN Code[<<i + 1, j>>]
                         \/ (j <= Len(s) /\ (p[i] = "**" \/ s[j] # "/") /\ Code[<<i, j + 1>>])
                    ELSE j <= Len(s) /\ Code[<<i + 1, j + 1>>]
                         /\ (p[i] = s[j] \/ (p[i] = "?" /\ s[j] # "/"))
    BY <1>6, <2>1
  <2> QED BY <2>2 DEF Goes
<1> QED BY <1>7 DEF Code

(* At the end of a string only stars cover what is left: nothing. *)
LEMMA StarsCoverNothing ==
    ASSUME NEW p \in Seq(Rules!Tokens), NEW s \in Seq(Chars), NEW i \in 1 .. Len(p) + 1
    PROVE  Rules!CoversFrom(p, s)[<<i, Len(s) + 1>>] <=> \A t \in i .. Len(p) : p[t] \in Rules!Stars
<1> DEFINE C(k) == Rules!CoversFrom(p, s)[<<k, Len(s) + 1>>]
           Left(k) == \A t \in k .. Len(p) : p[t] \in Rules!Stars
           Wrong == {n \in Nat : n <= Len(p) /\ ~(C(Len(p) + 1 - n) <=> Left(Len(p) + 1 - n))}
<1>1. \A k \in 1 .. Len(p) + 1 : C(k) <=> k > Len(p) \/ (p[k] \in Rules!Stars /\ C(k + 1))
  <2>1. Len(s) + 1 \in 1 .. Len(s) + 1 /\ Len(s) + 1 > Len(s) /\ ~(Len(s) + 1 <= Len(s))
    OBVIOUS
  <2> QED BY <2>1, CoversFromSolves DEF Goes
<1>2. \A k \in 1 .. Len(p) + 1 : Left(k) <=> k > Len(p) \/ (p[k] \in Rules!Stars /\ Left(k + 1))
  <2> TAKE k \in 1 .. Len(p) + 1
  <2>1. CASE k > Len(p)
    BY <2>1
  <2>2. CASE k <= Len(p)
    <3>1. k .. Len(p) = {k} \cup (k + 1 .. Len(p))
      BY <2>2
    <3> QED BY <2>2, <3>1
  <2> QED BY <2>1, <2>2
<1> HIDE DEF C, Left
<1>3. Wrong = {}
  <2> SUFFICES ASSUME Wrong # {} PROVE FALSE
    OBVIOUS
  <2>1. PICK n \in Wrong : \A m \in Wrong : n <= m
    BY LeastNumber
  <2> DEFINE k == Len(p) + 1 - n
  <2>2. k \in 1 .. Len(p) + 1 /\ n \in Nat /\ n <= Len(p) /\ ~(C(k) <=> Left(k))
    BY <2>1
  <2>3. ~(k > Len(p))
    BY <1>1, <1>2, <2>2
  <2>4. n - 1 \in Nat /\ n - 1 <= Len(p) /\ Len(p) + 1 - (n - 1) = k + 1
    BY <2>2, <2>3
  <2>5. n - 1 \notin Wrong
    BY <2>1, <2>2, <2>4
  <2>6. C(k + 1) <=> Left(k + 1)
    BY <2>4, <2>5
  <2> HIDE DEF k
  <2> QED BY <1>1, <1>2, <2>2, <2>3, <2>6
<1>4. Len(p) + 1 - i \in Nat /\ Len(p) + 1 - i <= Len(p) /\ Len(p) + 1 - (Len(p) + 1 - i) = i
  OBVIOUS
<1>5. C(i) <=> Left(i)
  BY <1>3, <1>4
<1> QED BY <1>5 DEF C, Left

(* Some of the globs covers its string. *)
Some(gs) == \E k \in 1 .. Len(gs) : Rules!Covers(gs[k].pattern, gs[k].string)

LEMMA SomeJoined ==
    ASSUME NEW S, NEW s \in Seq(S), NEW t \in Seq(S)
    PROVE  Some(s \o t) <=> Some(s) \/ Some(t)
<1> DEFINE Good(g) == Rules!Covers(g.pattern, g.string)
<1>1. /\ s \o t \in Seq(S) /\ Len(s \o t) = Len(s) + Len(t)
      /\ \A k \in 1 .. Len(s) + Len(t) : (s \o t)[k] = IF k <= Len(s) THEN s[k] ELSE t[k - Len(s)]
  BY ConcatProperties
<1>2. Len(s) \in Nat /\ Len(t) \in Nat
  OBVIOUS
<1> DEFINE st == s \o t
<1> HIDE DEF st, Good
<1>3. ASSUME NEW k \in 1 .. Len(st), Good(st[k]) PROVE (\E l \in 1 .. Len(s) : Good(s[l])) \/ \E l \in 1 .. Len(t) : Good(t[l])
  <2>1. CASE k <= Len(s)
    <3>1. k \in 1 .. Len(s) /\ st[k] = s[k]
      BY <1>1, <1>2, <2>1 DEF st
    <3> QED BY <1>3, <3>1
  <2>2. CASE ~(k <= Len(s))
    <3>1. k - Len(s) \in 1 .. Len(t) /\ st[k] = t[k - Len(s)]
      BY <1>1, <1>2, <2>2 DEF st
    <3> QED BY <1>3, <3>1
  <2> QED BY <2>1, <2>2
<1>4. ASSUME NEW k \in 1 .. Len(s), Good(s[k]) PROVE \E l \in 1 .. Len(st) : Good(st[l])
  <2>1. k \in 1 .. Len(st) /\ st[k] = s[k]
    BY <1>1, <1>2 DEF st
  <2> QED BY <1>4, <2>1
<1>5. ASSUME NEW k \in 1 .. Len(t), Good(t[k]) PROVE \E l \in 1 .. Len(st) : Good(st[l])
  <2>1. k + Len(s) \in 1 .. Len(st) /\ st[k + Len(s)] = t[k]
    BY <1>1, <1>2 DEF st
  <2> QED BY <1>5, <2>1
<1> QED BY <1>3, <1>4, <1>5 DEF Some, Good, st

LEMMA TailIsString ==
    ASSUME NEW S, NEW s \in Seq(S), NEW i \in 1 .. Len(s) + 1
    PROVE  Rules!From(s, i) \in Seq(S)
<1>1. \A k \in i .. Len(s) : s[k] \in S
  OBVIOUS
<1>2. i \in Int /\ Len(s) \in Int
  OBVIOUS
<1> QED BY <1>1, <1>2, SubSeqProperties DEF Rules!From

(* path_glob_matches *)
GlobMatches(p, s) ==
    \/ Rules!Covers(p, s)
    \/ Rules!UnderDirectory(p) /\ Rules!Covers(SubSeq(p, 1, Len(p) - 2), s)

LEMMA GlobsCover ==
    ASSUME NEW p \in Seq(Rules!Tokens), NEW s \in Seq(Chars)
    PROVE  /\ Rules!Globs(p, s) \in Seq(Glob) /\ Len(Rules!Globs(p, s)) >= 1
           /\ Some(Rules!Globs(p, s)) <=> GlobMatches(p, s)
<1> DEFINE one == [pattern |-> p, string |-> s]
           short == SubSeq(p, 1, Len(p) - 2)
           two == [pattern |-> short, string |-> s]
<1>1. one \in Glob
  BY DEF Glob
<1>2. ASSUME Rules!UnderDirectory(p) PROVE two \in Glob
  <2>1. Len(p) - 2 \in Nat /\ Len(p) - 2 <= Len(p)
    BY <1>2 DEF Rules!UnderDirectory
  <2>2. \A k \in 1 .. Len(p) - 2 : p[k] \in Rules!Tokens
    BY <2>1
  <2>3. short \in Seq(Rules!Tokens)
    BY <2>1, <2>2, SubSeqProperties
  <2> HIDE DEF short
  <2> QED BY <2>3 DEF Glob
<1>3. Some(<<one>>) <=> Rules!Covers(p, s)
  BY DEF Some
<1>4. Some(<<two>>) <=> Rules!Covers(short, s)
  <2> HIDE DEF short
  <2> QED BY DEF Some
<1>5. ~Some(<<>>)
  BY DEF Some
<1>6. Rules!Globs(p, s) = <<one>> \o IF Rules!UnderDirectory(p) THEN <<two>> ELSE <<>>
  BY DEF Rules!Globs
<1> HIDE DEF one, two
<1>7. CASE Rules!UnderDirectory(p)
  <2>1. <<one>> \in Seq(Glob) /\ <<two>> \in Seq(Glob) /\ Len(<<one>>) = 1 /\ Len(<<two>>) = 1
    BY <1>1, <1>2, <1>7
  <2>2. <<one>> \o <<two>> \in Seq(Glob) /\ Len(<<one>> \o <<two>>) = 2
    BY <2>1
  <2>3. Some(<<one>> \o <<two>>) <=> Some(<<one>>) \/ Some(<<two>>)
    BY <2>1, SomeJoined
  <2>4. Rules!Globs(p, s) = <<one>> \o <<two>>
    BY <1>6, <1>7
  <2>5. GlobMatches(p, s) <=> Rules!Covers(p, s) \/ Rules!Covers(short, s)
    BY <1>7 DEF GlobMatches
  <2> HIDE DEF short
  <2> QED BY <1>3, <1>4, <2>2, <2>3, <2>4, <2>5
<1>8. CASE ~Rules!UnderDirectory(p)
  <2>1. <<one>> \in Seq(Glob) /\ <<>> \in Seq(Glob) /\ Len(<<one>>) = 1
    BY <1>1
  <2>2. <<one>> \o <<>> \in Seq(Glob) /\ Len(<<one>> \o <<>>) = 1
    BY <2>1
  <2>3. Some(<<one>> \o <<>>) <=> Some(<<one>>) \/ Some(<<>>)
    BY <2>1, SomeJoined
  <2> QED BY <1>3, <1>5, <1>6, <1>8, <2>2, <2>3 DEF GlobMatches
<1> QED BY <1>7, <1>8

(* What Behind tries from character i of a path on. *)
LEMMA BehindCovers ==
    ASSUME NEW p \in Seq(Rules!Tokens), NEW path \in Seq(Chars)
    PROVE  /\ Rules!Behind(p, path) \in Seq(Glob)
           /\ Some(Rules!Behind(p, path))
                <=> \E l \in 1 .. Len(path) : path[l] = "/" /\ GlobMatches(p, Rules!From(path, l + 1))
<1> DEFINE N == Len(path)
           here(i) == IF path[i] = "/" THEN Rules!Globs(p, Rules!From(path, i + 1)) ELSE <<>>
           Solves(b, i) == b = [k \in i .. N + 1 |-> IF k > N THEN <<>> ELSE here(k) \o b[k + 1]]
           Wrong == {n \in Nat : n <= N /\ ~\E b : Solves(b, N + 1 - n)}
<1>1. N \in Nat
  OBVIOUS
<1>2. ASSUME NEW i \in 1 .. N
      PROVE  here(i) \in Seq(Glob) /\ (Some(here(i)) <=> path[i] = "/" /\ GlobMatches(p, Rules!From(path, i + 1)))
  <2>1. Rules!From(path, i + 1) \in Seq(Chars)
    BY <1>2, i + 1 \in 1 .. Len(path) + 1, TailIsString
  <2>2. /\ Rules!Globs(p, Rules!From(path, i + 1)) \in Seq(Glob)
        /\ Some(Rules!Globs(p, Rules!From(path, i + 1))) <=> GlobMatches(p, Rules!From(path, i + 1))
    BY <2>1, GlobsCover
  <2>3. <<>> \in Seq(Glob) /\ ~Some(<<>>)
    BY DEF Some
  <2> QED BY <2>2, <2>3
<1>3. Wrong = {}
  <2> SUFFICES ASSUME Wrong # {} PROVE FALSE
    OBVIOUS
  <2>1. PICK n \in Wrong : \A m \in Wrong : n <= m
    <3>1. Wrong \in SUBSET Nat
      OBVIOUS
    <3> HIDE DEF Wrong
    <3> QED BY <3>1, LeastNumber
  <2> DEFINE i == N + 1 - n
  <2> HIDE DEF here, Solves
  <2>2. i \in 1 .. N + 1 /\ n \in Nat /\ n <= N /\ ~\E b : Solves(b, i)
    BY <1>1, <2>1
  <2>3. i # N + 1
    <3> SUFFICES ASSUME i = N + 1 PROVE FALSE
      OBVIOUS
    <3>1. i .. N + 1 = {N + 1} /\ N + 1 > N
      BY <1>1
    <3>2. Solves([k \in i .. N + 1 |-> <<>>], i)
      BY <3>1 DEF Solves
    <3> QED BY <2>2, <3>2
  <2>4. n - 1 \in Nat /\ n - 1 <= N /\ N + 1 - (n - 1) = i + 1 /\ i \in 1 .. N
    BY <1>1, <2>2, <2>3
  <2>5. n - 1 \notin Wrong
    BY <2>1, <2>2, <2>4
  <2>6. PICK b : Solves(b, i + 1)
    BY <2>4, <2>5
  <2> HIDE DEF i, Wrong, N
  <2> USE DEF Solves
  <2> DEFINE c == [k \in i .. N + 1 |-> IF k = i THEN here(i) \o b[i + 1] ELSE b[k]]
  <2>7. ASSUME NEW k \in i .. N + 1 PROVE c[k] = IF k > N THEN <<>> ELSE here(k) \o c[k + 1]
    <3>1. CASE k = i
      <4>1. ~(k > N) /\ k + 1 \in i .. N + 1 /\ k + 1 # i
        BY <1>1, <2>4, <3>1
      <4>2. c[k] = here(k) \o b[k + 1] /\ c[k + 1] = b[k + 1]
        BY <3>1, <4>1
      <4> HIDE DEF c
      <4> QED BY <4>1, <4>2
    <3>2. CASE k # i
      <4>1. k \in i + 1 .. N + 1
        BY <1>1, <2>4, <3>2
      <4>2. b[k] = IF k > N THEN <<>> ELSE here(k) \o b[k + 1]
        BY <2>6, <4>1
      <4>3. c[k] = b[k]
        BY <3>2
      <4>4. ~(k > N) => k + 1 \in i .. N + 1 /\ k + 1 # i
        BY <1>1, <2>4, <4>1
      <4>5. ~(k > N) => c[k + 1] = b[k + 1]
        BY <4>4
      <4> HIDE DEF c
      <4> QED BY <4>2, <4>3, <4>5
    <3> QED BY <3>1, <3>2
  <2>8. DOMAIN c = i .. N + 1 /\ c = [k \in i .. N + 1 |-> c[k]]
    OBVIOUS
  <2> HIDE DEF c
  <2>9. c = [k \in i .. N + 1 |-> IF k > N THEN <<>> ELSE here(k) \o c[k + 1]]
    BY <2>7, <2>8
  <2>10. Solves(c, i)
    BY <2>9
  <2> QED BY <2>2, <2>10
<1>4. PICK b : Solves(b, 1)
  <2>1. N \in Nat /\ N <= N /\ N + 1 - N = 1
    BY <1>1
  <2>2. N \notin Wrong
    BY <1>3
  <2> QED BY <2>1, <2>2
<1> DEFINE B == CHOOSE g : g = [k \in 1 .. N + 1 |-> IF k > N THEN <<>> ELSE here(k) \o g[k + 1]]
<1>5. Rules!Behind(p, path) = B[1]
  BY DEF Rules!Behind, Rules!Separator
<1>6. B = [k \in 1 .. N + 1 |-> IF k > N THEN <<>> ELSE here(k) \o B[k + 1]]
  <2> HIDE DEF here, N
  <2> QED BY <1>4
<1> HIDE DEF here, B, N
<1>7. \A k \in 1 .. N + 1 : B[k] = IF k > N THEN <<>> ELSE here(k) \o B[k + 1]
  BY <1>6
<1> DEFINE Means(i) == /\ B[i] \in Seq(Glob)
                       /\ Some(B[i]) <=> \E l \in i .. N : path[l] = "/" /\ GlobMatches(p, Rules!From(path, l + 1))
           Off == {n \in Nat : n <= N /\ ~Means(N + 1 - n)}
<1>8. Off = {}
  <2> SUFFICES ASSUME Off # {} PROVE FALSE
    OBVIOUS
  <2>1. PICK n \in Off : \A m \in Off : n <= m
    <3>1. Off \in SUBSET Nat
      OBVIOUS
    <3> HIDE DEF Off
    <3> QED BY <3>1, LeastNumber
  <2> DEFINE i == N + 1 - n
  <2>2. i \in 1 .. N + 1 /\ n \in Nat /\ n <= N /\ ~Means(i)
    BY <1>1, <2>1
  <2>3. i # N + 1
    <3> SUFFICES ASSUME i = N + 1 PROVE FALSE
      OBVIOUS
    <3>1. B[i] = <<>> /\ i .. N = {}
      BY <1>1, <1>7
    <3>2. <<>> \in Seq(Glob) /\ ~Some(<<>>)
      BY DEF Some
    <3> QED BY <2>2, <3>1, <3>2
  <2>4. n - 1 \in Nat /\ n - 1 <= N /\ N + 1 - (n - 1) = i + 1 /\ i \in 1 .. N
    BY <1>1, <2>2, <2>3
  <2>5. n - 1 \notin Off
    BY <2>1, <2>2, <2>4
  <2>6. Means(i + 1)
    BY <2>4, <2>5
  <2> HIDE DEF i, Off
  <2>7. B[i] = here(i) \o B[i + 1]
    <3>1. i \in 1 .. N + 1 /\ ~(i > N)
      BY <1>1, <2>4
    <3> QED BY <1>7, <3>1
  <2>8. here(i) \in Seq(Glob) /\ (Some(here(i)) <=> path[i] = "/" /\ GlobMatches(p, Rules!From(path, i + 1)))
    BY <1>2, <2>4
  <2>9. B[i] \in Seq(Glob) /\ (Some(B[i]) <=> Some(here(i)) \/ Some(B[i + 1]))
    BY <2>6, <2>7, <2>8, SomeJoined, ConcatProperties
  <2>10. i .. N = {i} \cup (i + 1 .. N)
    BY <1>1, <2>4
  <2>11. Some(B[i]) <=> \E l \in i .. N : path[l] = "/" /\ GlobMatches(p, Rules!From(path, l + 1))
    BY <2>6, <2>8, <2>9, <2>10
  <2> QED BY <2>2, <2>9, <2>11
<1>9. Means(1)
  <2>1. N \in Nat /\ N <= N /\ N + 1 - N = 1
    BY <1>1
  <2>2. N \notin Off
    BY <1>8
  <2> QED BY <2>1, <2>2
<1> QED BY <1>5, <1>9 DEF N

(* path_matches tries what a pattern means. *)
LEMMA AttemptsCover ==
    ASSUME NEW p \in Seq(Rules!Tokens), Len(p) >= 1, NEW path \in Seq(Chars)
    PROVE  /\ Rules!Attempts(p, path) \in Seq(Glob) /\ Len(Rules!Attempts(p, path)) >= 1
           /\ Some(Rules!Attempts(p, path)) <=> Rules!PathMatches(p, path)
<1> DEFINE first == Rules!Globs(p, path)
           more == IF Rules!Relative(p) THEN Rules!Behind(p, path)
                   ELSE IF Rules!AnyDirectory(p) THEN Rules!Globs(Rules!From(p, 3), path) ELSE <<>>
<1>1. first \in Seq(Glob) /\ Len(first) >= 1 /\ (Some(first) <=> GlobMatches(p, path))
  BY GlobsCover
<1>2. /\ Rules!Behind(p, path) \in Seq(Glob)
      /\ Some(Rules!Behind(p, path))
           <=> \E l \in 1 .. Len(path) : path[l] = "/" /\ GlobMatches(p, Rules!From(path, l + 1))
  BY BehindCovers
<1>3. Rules!AnyDirectory(p) =>
        /\ Rules!Globs(Rules!From(p, 3), path) \in Seq(Glob)
        /\ Some(Rules!Globs(Rules!From(p, 3), path)) <=> GlobMatches(Rules!From(p, 3), path)
  <2> SUFFICES ASSUME Rules!AnyDirectory(p)
               PROVE  /\ Rules!Globs(Rules!From(p, 3), path) \in Seq(Glob)
                      /\ Some(Rules!Globs(Rules!From(p, 3), path)) <=> GlobMatches(Rules!From(p, 3), path)
    OBVIOUS
  <2>1. 3 \in 1 .. Len(p) + 1
    BY DEF Rules!AnyDirectory
  <2>2. Rules!From(p, 3) \in Seq(Rules!Tokens)
    BY <2>1, TailIsString
  <2> QED BY <2>2, GlobsCover
<1>4. Rules!Relative(p) => ~Rules!AnyDirectory(p)
  <2> SUFFICES ASSUME Rules!Relative(p), Rules!AnyDirectory(p) PROVE FALSE
    OBVIOUS
  <2>1. Len(p) >= 2 /\ SubSeq(p, 1, 2) = <<"**", "/">>
    BY DEF Rules!AnyDirectory, Rules!Separator
  <2>2. p[1] = "**"
    <3>1. \A k \in 1 .. 2 : p[k] \in Rules!Tokens
      BY <2>1
    <3>2. 1 \in Int /\ 2 \in Int
      OBVIOUS
    <3>3. \A i \in 1 .. 2 - 1 + 1 : SubSeq(p, 1, 2)[i] = p[1 + i - 1]
      BY <3>1, <3>2, SubSeqProperties
    <3>4. 1 \in 1 .. 2 - 1 + 1 /\ 1 + 1 - 1 = 1
      OBVIOUS
    <3>5. SubSeq(p, 1, 2)[1] = p[1]
      <4>1. SubSeq(p, 1, 2)[1] = p[1 + 1 - 1]
        BY <3>3, <3>4, Zenon
      <4> QED BY <4>1
    <3>6. <<"**", "/">>[1] = "**"
      OBVIOUS
    <3> QED BY <2>1, <3>5, <3>6
  <2> QED BY <2>2 DEF Rules!Relative, Rules!Stars
<1>5. Rules!From(path, 1) = path
  BY DEF Rules!From
<1>6. Rules!PathMatches(p, path) <=>
        \E i \in Rules!Beginnings(p, path), q \in {p} \cup (IF Rules!AnyDirectory(p) THEN {Rules!From(p, 3)} ELSE {}) :
          GlobMatches(q, Rules!From(path, i))
  BY DEF Rules!PathMatches, GlobMatches
<1>7. DOMAIN path = 1 .. Len(path)
  OBVIOUS
<1>8. Rules!Beginnings(p, path) =
        {1} \cup IF Rules!Relative(p) THEN {l + 1 : l \in {j \in 1 .. Len(path) : path[j] = "/"}} ELSE {}
  BY <1>7 DEF Rules!Beginnings, Rules!Separator
<1>9. Rules!PathMatches(p, path) <=>
        \/ GlobMatches(p, path)
        \/ Rules!AnyDirectory(p) /\ GlobMatches(Rules!From(p, 3), path)
        \/ Rules!Relative(p) /\ \E l \in 1 .. Len(path) : path[l] = "/" /\ GlobMatches(p, Rules!From(path, l + 1))
  <2>1. CASE Rules!Relative(p)
    <3>1. Rules!PathMatches(p, path) <=> \E i \in Rules!Beginnings(p, path) : GlobMatches(p, Rules!From(path, i))
      BY <1>4, <1>6, <2>1
    <3>2. ASSUME NEW i PROVE i \in Rules!Beginnings(p, path) <=> i = 1 \/ \E l \in 1 .. Len(path) : path[l] = "/" /\ i = l + 1
      BY <1>8, <2>1
    <3> QED BY <1>4, <1>5, <2>1, <3>1, <3>2
  <2>2. CASE ~Rules!Relative(p)
    <3>1. Rules!Beginnings(p, path) = {1}
      BY <1>8, <2>2
    <3> QED BY <1>5, <1>6, <2>2, <3>1
  <2> QED BY <2>1, <2>2
<1>10. <<>> \in Seq(Glob) /\ ~Some(<<>>)
  BY DEF Some
<1>11. more \in Seq(Glob) /\ (Some(more) <=>
         \/ Rules!AnyDirectory(p) /\ GlobMatches(Rules!From(p, 3), path)
         \/ Rules!Relative(p) /\ \E l \in 1 .. Len(path) : path[l] = "/" /\ GlobMatches(p, Rules!From(path, l + 1)))
  BY <1>2, <1>3, <1>4, <1>10
<1>12. Rules!Attempts(p, path) = first \o more
  BY DEF Rules!Attempts
<1> HIDE DEF first, more
<1>13. /\ first \o more \in Seq(Glob) /\ Len(first \o more) = Len(first) + Len(more)
       /\ Some(first \o more) <=> Some(first) \/ Some(more)
  BY <1>1, <1>11, SomeJoined, ConcatProperties
<1>14. Len(first) \in Nat /\ Len(more) \in Nat
  BY <1>1, <1>11
<1> QED BY <1>1, <1>9, <1>11, <1>12, <1>13, <1>14

(* A star that ends there may take one more character. *)
Passable(p, s, f) == f[2] <= Len(s) /\ (p[f[1]] = "**" \/ s[f[2]] # "/")

(* The open stars stand at stars of the pattern. *)
Opened(p, s, st) ==
    /\ st \in Seq(Nat \X Nat)
    /\ \A k \in 1 .. Len(st) : st[k] = <<st[k][1], st[k][2]>>
    /\ \A k \in 1 .. Len(st) : st[k][1] \in 1 .. Len(p) /\ p[st[k][1]] \in Rules!Stars /\ st[k][2] \in 1 .. Len(s) + 1

(* The search can still succeed: from where it is, or after an open star    *)
(* has taken one more character.                                            *)
Hopeful(p, s, f, st) ==
    \/ Rules!CoversFrom(p, s)[f]
    \/ \E k \in 1 .. Len(st) : Passable(p, s, st[k]) /\ Rules!CoversFrom(p, s)[<<st[k][1], st[k][2] + 1>>]

LEMMA AdvanceHopes ==
    ASSUME NEW p \in Seq(Rules!Tokens), NEW s \in Seq(Chars), NEW i \in 1 .. Len(p), NEW j \in 1 .. Len(s), NEW st,
           p[i] \notin Rules!Stars, p[i] = s[j] \/ (p[i] = "?" /\ s[j] # "/")
    PROVE  Hopeful(p, s, <<i, j>>, st) <=> Hopeful(p, s, <<i + 1, j + 1>>, st)
<1>1. i \in 1 .. Len(p) + 1 /\ j \in 1 .. Len(s) + 1 /\ ~(i > Len(p)) /\ j <= Len(s)
  OBVIOUS
<1>2. Rules!CoversFrom(p, s)[<<i, j>>] <=> Rules!CoversFrom(p, s)[<<i + 1, j + 1>>]
  BY <1>1, CoversFromSolves DEF Goes
<1> QED BY <1>2 DEF Hopeful

LEMMA OpenStarHopes ==
    ASSUME NEW p \in Seq(Rules!Tokens), NEW s \in Seq(Chars), NEW i \in 1 .. Len(p), NEW j \in 1 .. Len(s),
           NEW st, Opened(p, s, st), p[i] \in Rules!Stars
    PROVE  /\ Opened(p, s, Append(st, <<i, j>>))
           /\ Hopeful(p, s, <<i, j>>, st) <=> Hopeful(p, s, <<i + 1, j>>, Append(st, <<i, j>>))
<1> DEFINE new == Append(st, <<i, j>>)
           C(k, l) == Rules!CoversFrom(p, s)[<<k, l>>]
<1>1. i \in 1 .. Len(p) + 1 /\ j \in 1 .. Len(s) + 1 /\ ~(i > Len(p)) /\ j <= Len(s) /\ <<i, j>> \in Nat \X Nat
  OBVIOUS
<1>2. C(i, j) <=> C(i + 1, j) \/ ((p[i] = "**" \/ s[j] # "/") /\ C(i, j + 1))
  BY <1>1, CoversFromSolves DEF Goes
<1>3. st \in Seq(Nat \X Nat) /\ Len(st) \in Nat
  BY DEF Opened
<1>4. /\ new \in Seq(Nat \X Nat) /\ Len(new) = Len(st) + 1
      /\ \A k \in 1 .. Len(st) : new[k] = st[k]
      /\ new[Len(st) + 1] = <<i, j>>
  BY <1>1, <1>3
<1> HIDE DEF new, C
<1>5. \A k \in 1 .. Len(new) : k \in 1 .. Len(st) \/ k = Len(st) + 1
  BY <1>3, <1>4
<1>6. <<i, j>>[1] = i /\ <<i, j>>[2] = j
  OBVIOUS
<1>7. Opened(p, s, new)
  BY <1>1, <1>4, <1>5, <1>6 DEF Opened
<1>8. (\E k \in 1 .. Len(new) : Passable(p, s, new[k]) /\ C(new[k][1], new[k][2] + 1))
        <=> \/ \E k \in 1 .. Len(st) : Passable(p, s, st[k]) /\ C(st[k][1], st[k][2] + 1)
            \/ (p[i] = "**" \/ s[j] # "/") /\ C(i, j + 1)
  <2>1. Passable(p, s, <<i, j>>) <=> (p[i] = "**" \/ s[j] # "/")
    BY <1>1, <1>6 DEF Passable
  <2>2. 1 .. Len(st) \subseteq 1 .. Len(new) /\ Len(st) + 1 \in 1 .. Len(new)
    BY <1>3, <1>4
  <2> QED BY <1>4, <1>5, <1>6, <2>1, <2>2
<1>9. Hopeful(p, s, <<i, j>>, st) <=> Hopeful(p, s, <<i + 1, j>>, new)
  BY <1>2, <1>8 DEF Hopeful, C
<1> QED BY <1>7, <1>9 DEF new

LEMMA WidenHopes ==
    ASSUME NEW p \in Seq(Rules!Tokens), NEW s \in Seq(Chars), NEW f, NEW st, Opened(p, s, st),
           ~Rules!CoversFrom(p, s)[f],
           NEW k \in 1 .. Len(st), Passable(p, s, st[k]), \A l \in 1 .. Len(st) : Passable(p, s, st[l]) => l <= k
    PROVE  LET new == Append(SubSeq(st, 1, k - 1), <<st[k][1], st[k][2] + 1>>)
               to == <<st[k][1] + 1, st[k][2] + 1>>
           IN Opened(p, s, new) /\ to \in Spots(p, s) /\ (Hopeful(p, s, f, st) <=> Hopeful(p, s, to, new))
<1> DEFINE i == st[k][1]
           j == st[k][2] + 1
           kept == SubSeq(st, 1, k - 1)
           new == Append(kept, <<i, j>>)
           C(m, l) == Rules!CoversFrom(p, s)[<<m, l>>]
<1>1. /\ st \in Seq(Nat \X Nat) /\ Len(st) \in Nat /\ k \in Nat
      /\ st[k][1] \in 1 .. Len(p) /\ p[st[k][1]] \in Rules!Stars /\ st[k][2] \in 1 .. Len(s) + 1
      /\ Len(s) \in Nat /\ Len(p) \in Nat
  BY DEF Opened
<1>2. i \in 1 .. Len(p) /\ p[i] \in Rules!Stars /\ j \in 1 .. Len(s) + 1
  BY <1>1 DEF Passable
<1>3. kept \in Seq(Nat \X Nat) /\ Len(kept) = k - 1 /\ \A m \in 1 .. k - 1 : kept[m] = st[m]
  <2>1. 1 \in Int /\ k - 1 \in Int /\ \A m \in 1 .. k - 1 : st[m] \in Nat \X Nat
    BY <1>1
  <2>2. /\ kept \in Seq(Nat \X Nat) /\ Len(kept) = IF 1 <= k - 1 THEN k - 1 - 1 + 1 ELSE 0
        /\ \A m \in 1 .. k - 1 - 1 + 1 : kept[m] = st[1 + m - 1]
    BY <2>1, SubSeqProperties
  <2>3. \A m \in 1 .. k - 1 : m \in 1 .. k - 1 - 1 + 1 /\ 1 + m - 1 = m
    BY <1>1
  <2>4. Len(kept) = k - 1
    BY <1>1, <2>2
  <2> QED BY <2>2, <2>3, <2>4
<1> HIDE DEF i, j, kept
<1>4. /\ new \in Seq(Nat \X Nat) /\ Len(new) = k /\ \A m \in 1 .. k - 1 : new[m] = st[m]
      /\ new[k] = <<i, j>>
  <2>1. <<i, j>> \in Nat \X Nat
    BY <1>2
  <2>2. /\ new \in Seq(Nat \X Nat) /\ Len(new) = Len(kept) + 1
        /\ \A m \in 1 .. Len(kept) : new[m] = kept[m]
        /\ new[Len(kept) + 1] = <<i, j>>
    BY <1>3, <2>1, AppendProperties
  <2>3. Len(kept) + 1 = k
    BY <1>1, <1>3
  <2> HIDE DEF new
  <2> QED BY <1>3, <2>2, <2>3
<1> HIDE DEF new, C
<1>5. <<i, j>>[1] = i /\ <<i, j>>[2] = j
  OBVIOUS
<1>6. \A m \in 1 .. Len(new) : m = k \/ (m \in 1 .. k - 1 /\ m \in 1 .. Len(st))
  BY <1>1, <1>4
<1>7. Opened(p, s, new)
  <2>1. ASSUME NEW m \in 1 .. Len(new)
        PROVE  /\ new[m] = <<new[m][1], new[m][2]>>
               /\ new[m][1] \in 1 .. Len(p) /\ p[new[m][1]] \in Rules!Stars /\ new[m][2] \in 1 .. Len(s) + 1
    <3>1. CASE m = k
      BY <1>2, <1>4, <1>5, <3>1
    <3>2. CASE m \in 1 .. k - 1 /\ m \in 1 .. Len(st)
      BY <1>4, <3>2 DEF Opened
    <3> QED BY <1>6, <2>1, <3>1, <3>2
  <2> QED BY <1>4, <2>1 DEF Opened
<1>8. <<i + 1, j>> \in Spots(p, s)
  BY <1>1, <1>2 DEF Spots
<1>9. C(i, j) <=> C(i + 1, j) \/ (Passable(p, s, <<i, j>>) /\ C(i, j + 1))
  <2>1. i \in 1 .. Len(p) + 1 /\ ~(i > Len(p))
    BY <1>1, <1>2
  <2> QED BY <1>2, <1>5, <2>1, CoversFromSolves DEF Goes, Passable, C
<1>10. (\E l \in 1 .. Len(st) : Passable(p, s, st[l]) /\ C(st[l][1], st[l][2] + 1))
         <=> C(i, j) \/ \E l \in 1 .. k - 1 : Passable(p, s, st[l]) /\ C(st[l][1], st[l][2] + 1)
  <2>1. \A l \in 1 .. Len(st) : Passable(p, s, st[l]) => l = k \/ l \in 1 .. k - 1
    <3>1. \A l \in 1 .. Len(st) : l <= k => l = k \/ l \in 1 .. k - 1
      BY <1>1
    <3> QED BY <3>1
  <2>2. 1 .. k - 1 \subseteq 1 .. Len(st)
    BY <1>1
  <2> QED BY <2>1, <2>2 DEF i, j
<1>11. (\E l \in 1 .. Len(new) : Passable(p, s, new[l]) /\ C(new[l][1], new[l][2] + 1))
         <=> \/ Passable(p, s, <<i, j>>) /\ C(i, j + 1)
             \/ \E l \in 1 .. k - 1 : Passable(p, s, st[l]) /\ C(st[l][1], st[l][2] + 1)
  <2>1. k \in 1 .. Len(new) /\ 1 .. k - 1 \subseteq 1 .. Len(new)
    BY <1>1, <1>4
  <2> QED BY <1>4, <1>5, <1>6, <2>1
<1>12. Hopeful(p, s, f, st) <=> Hopeful(p, s, <<i + 1, j>>, new)
  BY <1>9, <1>10, <1>11 DEF Hopeful, C
<1> QED BY <1>7, <1>8, <1>12 DEF i, j, kept, new

JudgeInv ==
    /\ ruled.action \in {"path", "tool"} /\ ruled.path \in Seq(Chars)
    /\ judging # "match" => effect = expected
    /\ judging = "match" =>
         /\ tries \in Seq(Glob) /\ Len(tries) >= 1
         /\ place \in Spots(Rules!Pattern, Rules!String)
         /\ Opened(Rules!Pattern, Rules!String, stars)
         /\ expected = IF Hopeful(Rules!Pattern, Rules!String, place, stars) \/ Some(Tail(tries))
                       THEN rule.effect ELSE effect

LEMMA InitJudge == ASSUME Rules!Init PROVE JudgeInv
<1>1. judging = "rules" /\ effect = "none" /\ expected = "none" /\ ruled \in Rules!Calls
  BY DEF Rules!Init
<1>2. ASSUME NEW c \in Rules!Calls PROVE c.action \in {"path", "tool"} /\ c.path \in Seq(Chars)
  <2>1. CASE c \in [action : {"tool"}, path : {<<>>}]
    <3>1. c.action = "tool" /\ c.path = <<>>
      BY <2>1
    <3> QED BY <3>1
  <2>2. CASE c \in [action : {"path"}, path : Rules!Strings(Letters \cup {Rules!Separator}, MaxPath)]
    BY <2>2 DEF Rules!Strings, Rules!Separator, Chars
  <2> QED BY <2>1, <2>2 DEF Rules!Calls
<1> QED BY <1>1, <1>2 DEF JudgeInv

(* Some glob of a list covers when the first does or some of the others.    *)
LEMMA SomeSplit ==
    ASSUME NEW gs \in Seq(Glob), Len(gs) >= 1
    PROVE  /\ Head(gs) = gs[1] /\ Head(gs) \in Glob
           /\ Tail(gs) \in Seq(Glob) /\ Len(Tail(gs)) = Len(gs) - 1
           /\ Some(gs) <=> Rules!Covers(Head(gs).pattern, Head(gs).string) \/ Some(Tail(gs))
<1> DEFINE Good(g) == Rules!Covers(g.pattern, g.string)
           t == Tail(gs)
<1>1. /\ Head(gs) = gs[1] /\ gs[1] \in Glob /\ t \in Seq(Glob) /\ Len(t) = Len(gs) - 1
      /\ \A k \in 1 .. Len(t) : t[k] = gs[k + 1]
      /\ Len(gs) \in Nat
  OBVIOUS
<1> HIDE DEF Good, t
<1>2. ASSUME NEW k \in 1 .. Len(gs), Good(gs[k]) PROVE Good(gs[1]) \/ \E l \in 1 .. Len(t) : Good(t[l])
  <2>1. CASE k = 1
    BY <1>2, <2>1
  <2>2. CASE k # 1
    <3>1. k - 1 \in 1 .. Len(t) /\ k - 1 + 1 = k
      BY <1>1, <2>2
    <3>2. t[k - 1] = gs[k]
      BY <1>1, <3>1
    <3> QED BY <1>2, <3>1, <3>2
  <2> QED BY <2>1, <2>2
<1>3. 1 \in 1 .. Len(gs) /\ \A l \in 1 .. Len(t) : l + 1 \in 1 .. Len(gs) /\ t[l] = gs[l + 1]
  BY <1>1
<1>4. (\E k \in 1 .. Len(gs) : Good(gs[k])) <=> Good(gs[1]) \/ \E l \in 1 .. Len(t) : Good(t[l])
  BY <1>2, <1>3
<1> QED BY <1>1, <1>4 DEF Some, Good, t

(* The search begins with hope when the glob covers. *)
LEMMA BeginsHopeful ==
    ASSUME NEW g \in Glob
    PROVE  /\ Rules!Start \in Spots(g.pattern, g.string) /\ Opened(g.pattern, g.string, <<>>)
           /\ Hopeful(g.pattern, g.string, Rules!Start, <<>>) <=> Rules!Covers(g.pattern, g.string)
<1>1. g.pattern \in Seq(Rules!Tokens) /\ g.string \in Seq(Chars)
  BY DEF Glob
<1>2. Rules!Start \in Spots(g.pattern, g.string)
  BY <1>1 DEF Rules!Start, Spots
<1>3. Opened(g.pattern, g.string, <<>>)
  BY DEF Opened
<1> QED BY <1>2, <1>3 DEF Hopeful, Rules!Covers

LEMMA PatternsAreSequences ==
    ASSUME NEW p \in Rules!Patterns PROVE p \in Seq(Rules!Tokens) /\ Len(p) >= 1
<1>1. p \in UNION {[1 .. k -> Rules!Tokens] : k \in 0 .. MaxPattern} /\ p # <<>>
  BY DEF Rules!Patterns, Rules!Strings
<1>2. PICK k \in 0 .. MaxPattern : p \in [1 .. k -> Rules!Tokens]
  BY <1>1
<1>3. p \in Seq(Rules!Tokens)
  BY <1>2
<1>4. Len(p) \in Nat /\ Len(p) # 0
  BY <1>1, <1>3, EmptySeq
<1> QED BY <1>3, <1>4

LEMMA JudgeConsider == ASSUME JudgeInv, Rules!Consider PROVE JudgeInv'
<1>1. PICK action \in {"path", "tool"}, e \in Rules!Effects :
      \E p \in IF action = "path" THEN Rules!Patterns ELSE {<<>>} :
         LET r == [action |-> action, pattern |-> p, effect |-> e]
         IN /\ expected' = IF Rules!Matches(r) THEN e ELSE expected
            /\ IF action = "path" /\ ruled.action = "path"
               THEN /\ judging' = "match" /\ rule' = r /\ tries' = Rules!Attempts(p, ruled.path)
                    /\ place' = Rules!Start /\ stars' = <<>> /\ UNCHANGED effect
               ELSE /\ effect' = IF action = ruled.action THEN e ELSE effect
                    /\ UNCHANGED judging
  BY DEF Rules!Consider
<1>2. PICK p \in IF action = "path" THEN Rules!Patterns ELSE {<<>>} :
         LET r == [action |-> action, pattern |-> p, effect |-> e]
         IN /\ expected' = IF Rules!Matches(r) THEN e ELSE expected
            /\ IF action = "path" /\ ruled.action = "path"
               THEN /\ judging' = "match" /\ rule' = r /\ tries' = Rules!Attempts(p, ruled.path)
                    /\ place' = Rules!Start /\ stars' = <<>> /\ UNCHANGED effect
               ELSE /\ effect' = IF action = ruled.action THEN e ELSE effect
                    /\ UNCHANGED judging
  BY <1>1
<1> DEFINE r == [action |-> action, pattern |-> p, effect |-> e]
<1>3. judging = "rules" /\ UNCHANGED ruled /\ effect = expected
  BY DEF Rules!Consider, JudgeInv
<1>4. ruled.action \in {"path", "tool"} /\ ruled.path \in Seq(Chars)
  BY DEF JudgeInv
<1>5. CASE action = "path" /\ ruled.action = "path"
  <2>1. p \in Seq(Rules!Tokens) /\ Len(p) >= 1
    BY <1>5, PatternsAreSequences
  <2>2. judging' = "match" /\ rule'.effect = e /\ tries' = Rules!Attempts(p, ruled.path)
        /\ place' = Rules!Start /\ stars' = <<>> /\ UNCHANGED effect
        /\ expected' = IF Rules!Matches(r) THEN e ELSE expected
    BY <1>2, <1>5
  <2>3. Rules!Matches(r) <=> Rules!PathMatches(p, ruled.path)
    BY <1>5 DEF Rules!Matches
  <2>4. tries' \in Seq(Glob) /\ Len(tries') >= 1 /\ (Some(tries') <=> Rules!Matches(r))
    BY <1>4, <2>1, <2>2, <2>3, AttemptsCover
  <2>5. /\ Head(tries') \in Glob
        /\ Some(tries') <=> Rules!Covers(Head(tries').pattern, Head(tries').string) \/ Some(Tail(tries'))
    BY <2>4, SomeSplit
  <2> DEFINE P == Head(tries').pattern
             S == Head(tries').string
  <2>6. /\ Rules!Start \in Spots(P, S) /\ Opened(P, S, <<>>)
        /\ Hopeful(P, S, Rules!Start, <<>>) <=> Rules!Covers(P, S)
    BY <2>5, BeginsHopeful
  <2>7. Rules!Pattern' = P /\ Rules!String' = S
    BY DEF Rules!Pattern, Rules!String
  <2> HIDE DEF P, S, r
  <2>8. /\ place' \in Spots(P, S) /\ Opened(P, S, stars')
        /\ expected' = IF Hopeful(P, S, place', stars') \/ Some(Tail(tries')) THEN rule'.effect ELSE effect'
    BY <1>3, <2>2, <2>4, <2>5, <2>6 DEF P, S
  <2> QED BY <1>3, <1>4, <2>2, <2>4, <2>7, <2>8 DEF JudgeInv, Some
<1>6. CASE ~(action = "path" /\ ruled.action = "path")
  <2>1. Rules!Matches(r) <=> action = ruled.action
    BY <1>4, <1>6 DEF Rules!Matches
  <2> QED BY <1>2, <1>3, <1>4, <1>6, <2>1 DEF JudgeInv
<1> QED BY <1>5, <1>6

(* Where the search is. *)
LEMMA Searching ==
    ASSUME JudgeInv, judging = "match"
    PROVE  /\ Rules!Pattern \in Seq(Rules!Tokens) /\ Rules!String \in Seq(Chars)
           /\ place[1] \in 1 .. Len(Rules!Pattern) + 1 /\ place[2] \in 1 .. Len(Rules!String) + 1
           /\ place = <<place[1], place[2]>>
<1>1. tries \in Seq(Glob) /\ Len(tries) >= 1 /\ place \in Spots(Rules!Pattern, Rules!String)
  BY DEF JudgeInv
<1>2. Head(tries) \in Glob
  BY <1>1, SomeSplit
<1> QED BY <1>1, <1>2 DEF Rules!Pattern, Rules!String, Glob, Spots

(* A step within one glob that keeps the hope. *)
LEMMA SameGlob ==
    ASSUME JudgeInv, judging = "match", UNCHANGED <<ruled, judging, rule, tries, effect, expected>>,
           place' \in Spots(Rules!Pattern, Rules!String), Opened(Rules!Pattern, Rules!String, stars'),
           Hopeful(Rules!Pattern, Rules!String, place, stars) <=> Hopeful(Rules!Pattern, Rules!String, place', stars')
    PROVE  JudgeInv'
<1>1. Rules!Pattern' = Rules!Pattern /\ Rules!String' = Rules!String
  BY DEF Rules!Pattern, Rules!String
<1> QED BY <1>1 DEF JudgeInv, Some

LEMMA JudgeAdvance == ASSUME JudgeInv, Rules!Advance PROVE JudgeInv'
<1> DEFINE P == Rules!Pattern
           S == Rules!String
           i == place[1]
           j == place[2]
<1>1. /\ judging = "match" /\ Rules!Literal /\ UNCHANGED <<ruled, judging, rule, tries, stars, effect, expected>>
      /\ place' = <<i + 1, j + 1>>
  BY DEF Rules!Advance, Rules!Judging
<1>2. P \in Seq(Rules!Tokens) /\ S \in Seq(Chars) /\ i \in 1 .. Len(P) + 1 /\ j \in 1 .. Len(S) + 1 /\ place = <<i, j>>
  BY <1>1, Searching
<1>3. Rules!Token = IF i > Len(P) THEN "end" ELSE P[i]
  BY DEF Rules!Token
<1>4. ~(j > Len(S)) /\ (Rules!Token = S[j] \/ (Rules!Token = "?" /\ S[j] # "/"))
  BY <1>1 DEF Rules!Literal, Rules!AtEnd, Rules!Separator
<1>5. Opened(P, S, stars)
  BY <1>1 DEF JudgeInv
<1> HIDE DEF P, S, i, j
<1>6. j \in 1 .. Len(S) /\ S[j] \in Chars
  BY <1>2, <1>4
<1>7. S[j] # "end" /\ S[j] \notin Rules!Stars
  BY <1>6, RulesAssumption DEF Chars, Rules!Stars
<1>8. i \in 1 .. Len(P) /\ Rules!Token = P[i]
  BY <1>2, <1>3, <1>4, <1>7
<1>9. P[i] \notin Rules!Stars
  BY <1>4, <1>7, <1>8 DEF Rules!Stars
<1>10. Hopeful(P, S, <<i, j>>, stars) <=> Hopeful(P, S, <<i + 1, j + 1>>, stars)
  BY <1>2, <1>4, <1>6, <1>8, <1>9, AdvanceHopes
<1>11. <<i + 1, j + 1>> \in Spots(P, S)
  BY <1>2, <1>6, <1>8 DEF Spots
<1> QED BY <1>1, <1>2, <1>5, <1>10, <1>11, SameGlob DEF P, S

LEMMA JudgeOpenStar == ASSUME JudgeInv, Rules!OpenStar PROVE JudgeInv'
<1> DEFINE P == Rules!Pattern
           S == Rules!String
           i == place[1]
           j == place[2]
<1>1. /\ judging = "match" /\ ~Rules!AtEnd /\ Rules!Token \in Rules!Stars
      /\ UNCHANGED <<ruled, judging, rule, tries, effect, expected>>
      /\ stars' = Append(stars, place) /\ place' = <<i + 1, j>>
  BY DEF Rules!OpenStar, Rules!Judging
<1>2. P \in Seq(Rules!Tokens) /\ S \in Seq(Chars) /\ i \in 1 .. Len(P) + 1 /\ j \in 1 .. Len(S) + 1 /\ place = <<i, j>>
  BY <1>1, Searching
<1>3. Rules!Token = IF i > Len(P) THEN "end" ELSE P[i]
  BY DEF Rules!Token
<1>4. ~(j > Len(S))
  BY <1>1 DEF Rules!AtEnd
<1>5. Opened(P, S, stars)
  BY <1>1 DEF JudgeInv
<1> HIDE DEF P, S, i, j
<1>6. j \in 1 .. Len(S)
  BY <1>2, <1>4
<1>7. i \in 1 .. Len(P) /\ P[i] \in Rules!Stars
  BY <1>1, <1>2, <1>3 DEF Rules!Stars
<1>8. /\ Opened(P, S, Append(stars, <<i, j>>))
      /\ Hopeful(P, S, <<i, j>>, stars) <=> Hopeful(P, S, <<i + 1, j>>, Append(stars, <<i, j>>))
  BY <1>2, <1>5, <1>6, <1>7, OpenStarHopes
<1>9. <<i + 1, j>> \in Spots(P, S)
  BY <1>2, <1>7 DEF Spots
<1> QED BY <1>1, <1>2, <1>8, <1>9, SameGlob DEF P, S

(* Stuck: the pattern does not cover the rest from here. *)
LEMMA StuckFails ==
    ASSUME JudgeInv, judging = "match", Rules!Stuck
    PROVE  ~Rules!CoversFrom(Rules!Pattern, Rules!String)[place]
<1> DEFINE P == Rules!Pattern
           S == Rules!String
           i == place[1]
           j == place[2]
<1>1. P \in Seq(Rules!Tokens) /\ S \in Seq(Chars) /\ i \in 1 .. Len(P) + 1 /\ j \in 1 .. Len(S) + 1 /\ place = <<i, j>>
  BY Searching
<1>2. Rules!AtEnd <=> j > Len(S)
  BY DEF Rules!AtEnd
<1>3. Rules!Token = IF i > Len(P) THEN "end" ELSE P[i]
  BY DEF Rules!Token
<1>4. Rules!OnlyStarsLeft <=> \A t \in i .. Len(P) : P[t] \in Rules!Stars
  BY DEF Rules!OnlyStarsLeft
<1>5. Rules!Literal <=> ~(j > Len(S)) /\ (Rules!Token = S[j] \/ (Rules!Token = "?" /\ S[j] # "/"))
  BY <1>2 DEF Rules!Literal, Rules!Separator
<1> HIDE DEF P, S, i, j
<1>6. CASE Rules!AtEnd
  <2>1. j = Len(S) + 1
    BY <1>1, <1>2, <1>6
  <2>2. ~\A t \in i .. Len(P) : P[t] \in Rules!Stars
    BY <1>4, <1>6 DEF Rules!Stuck
  <2>3. ~Rules!CoversFrom(P, S)[<<i, j>>]
    BY <1>1, <2>1, <2>2, StarsCoverNothing
  <2> QED BY <1>1, <2>3 DEF P, S
<1>7. CASE ~Rules!AtEnd
  <2>1. ~Rules!Literal /\ Rules!Token \notin Rules!Stars
    BY <1>7 DEF Rules!Stuck
  <2>2. Rules!CoversFrom(P, S)[<<i, j>>] <=>
          IF i > Len(P) THEN j > Len(S)
          ELSE IF P[i] \in Rules!Stars
               THEN \/ Rules!CoversFrom(P, S)[<<i + 1, j>>]
                    \/ j <= Len(S) /\ (P[i] = "**" \/ S[j] # "/") /\ Rules!CoversFrom(P, S)[<<i, j + 1>>]
               ELSE /\ j <= Len(S) /\ Rules!CoversFrom(P, S)[<<i + 1, j + 1>>]
                    /\ (P[i] = S[j] \/ (P[i] = "?" /\ S[j] # "/"))
    BY <1>1, CoversFromSolves DEF Goes
  <2>3. ~Rules!CoversFrom(P, S)[<<i, j>>]
    BY <1>2, <1>3, <1>5, <1>7, <2>1, <2>2
  <2> QED BY <1>1, <2>3 DEF P, S
<1> QED BY <1>6, <1>7

LEMMA WidensIsPassable ==
    ASSUME NEW k PROVE Rules!CanWiden(k) <=> Passable(Rules!Pattern, Rules!String, stars[k])
BY DEF Rules!CanWiden, Passable, Rules!Separator

LEMMA JudgeWiden == ASSUME JudgeInv, Rules!Widen PROVE JudgeInv'
<1> DEFINE P == Rules!Pattern
           S == Rules!String
           k == CHOOSE n \in Rules!Open : \A l \in Rules!Open : l <= n
<1>1. /\ judging = "match" /\ Rules!Stuck /\ Rules!Open # {}
      /\ UNCHANGED <<ruled, judging, rule, tries, effect, expected>>
      /\ stars' = Append(SubSeq(stars, 1, k - 1), <<stars[k][1], stars[k][2] + 1>>)
      /\ place' = <<stars[k][1] + 1, stars[k][2] + 1>>
  BY DEF Rules!Widen, Rules!Judging
<1>2. P \in Seq(Rules!Tokens) /\ S \in Seq(Chars)
  BY <1>1, Searching
<1>3. Opened(P, S, stars) /\ stars \in Seq(Nat \X Nat)
  BY <1>1 DEF JudgeInv, Opened
<1>4. Rules!Open = {l \in 1 .. Len(stars) : Passable(P, S, stars[l])}
  BY <1>3, WidensIsPassable DEF Rules!Open
<1>5. \E n \in Rules!Open : \A l \in Rules!Open : l <= n
  <2> DEFINE Gaps == {Len(stars) - l : l \in Rules!Open}
  <2>1. Rules!Open \subseteq 1 .. Len(stars) /\ Len(stars) \in Nat
    BY <1>3, <1>4
  <2>2. Gaps \in SUBSET Nat /\ Gaps # {}
    <3>1. \A l \in Rules!Open : Len(stars) - l \in Nat
      BY <2>1
    <3>2. PICK l \in Rules!Open : TRUE
      BY <1>1
    <3> QED BY <3>1, <3>2
  <2>3. PICK g \in Gaps : \A h \in Gaps : g <= h
    <3> HIDE DEF Gaps
    <3> QED BY <2>2, LeastNumber
  <2>4. PICK n \in Rules!Open : g = Len(stars) - n
    OBVIOUS
  <2>5. ASSUME NEW l \in Rules!Open PROVE l <= n
    <3>1. Len(stars) - n <= Len(stars) - l
      BY <2>3, <2>4
    <3>2. l \in Int /\ n \in Int
      BY <2>1, <2>4
    <3> QED BY <2>1, <3>1, <3>2
  <2> QED BY <2>5
<1>6. k \in Rules!Open /\ \A l \in Rules!Open : l <= k
  BY <1>5
<1> HIDE DEF k, P, S
<1>7. k \in 1 .. Len(stars) /\ Passable(P, S, stars[k])
      /\ \A l \in 1 .. Len(stars) : Passable(P, S, stars[l]) => l <= k
  BY <1>4, <1>6
<1>8. ~Rules!CoversFrom(P, S)[place]
  BY <1>1, StuckFails DEF P, S
<1>9. /\ Opened(P, S, stars') /\ place' \in Spots(P, S)
      /\ Hopeful(P, S, place, stars) <=> Hopeful(P, S, place', stars')
  BY <1>1, <1>2, <1>3, <1>7, <1>8, WidenHopes
<1> QED BY <1>1, <1>9, SameGlob DEF P, S

LEMMA JudgeFound == ASSUME JudgeInv, Rules!Found PROVE JudgeInv'
<1> DEFINE P == Rules!Pattern
           S == Rules!String
           i == place[1]
           j == place[2]
<1>1. /\ judging = "match" /\ Rules!AtEnd /\ Rules!OnlyStarsLeft /\ UNCHANGED <<ruled, expected>>
      /\ effect' = rule.effect /\ judging' = "rules"
  BY DEF Rules!Found, Rules!Judging
<1>2. P \in Seq(Rules!Tokens) /\ S \in Seq(Chars) /\ i \in 1 .. Len(P) + 1 /\ j \in 1 .. Len(S) + 1 /\ place = <<i, j>>
  BY <1>1, Searching
<1>3. j > Len(S) /\ \A t \in i .. Len(P) : P[t] \in Rules!Stars
  BY <1>1 DEF Rules!AtEnd, Rules!OnlyStarsLeft
<1> HIDE DEF P, S, i, j
<1>4. j = Len(S) + 1
  BY <1>2, <1>3
<1>5. Rules!CoversFrom(P, S)[<<i, j>>]
  BY <1>2, <1>3, <1>4, StarsCoverNothing
<1>6. Hopeful(P, S, place, stars)
  BY <1>2, <1>5 DEF Hopeful
<1> QED BY <1>1, <1>6 DEF JudgeInv, P, S

LEMMA JudgeFails == ASSUME JudgeInv, Rules!Fails PROVE JudgeInv'
<1> DEFINE P == Rules!Pattern
           S == Rules!String
<1>1. /\ judging = "match" /\ Rules!Stuck /\ Rules!Open = {} /\ UNCHANGED <<ruled, expected, effect>>
      /\ tries' = Tail(tries) /\ place' = Rules!Start /\ stars' = <<>>
      /\ IF Len(tries) > 1 THEN UNCHANGED <<judging, rule>> ELSE judging' = "rules"
  BY DEF Rules!Fails, Rules!Judging
<1>2. /\ tries \in Seq(Glob) /\ Len(tries) >= 1 /\ stars \in Seq(Nat \X Nat)
      /\ expected = IF Hopeful(P, S, place, stars) \/ Some(Tail(tries)) THEN rule.effect ELSE effect
  BY <1>1 DEF JudgeInv, Opened
<1>3. ~Hopeful(P, S, place, stars)
  <2>1. ~Rules!CoversFrom(P, S)[place]
    BY <1>1, StuckFails
  <2>2. \A k \in 1 .. Len(stars) : ~Passable(P, S, stars[k])
    BY <1>1, <1>2, WidensIsPassable DEF Rules!Open
  <2> QED BY <2>1, <2>2 DEF Hopeful
<1>4. Tail(tries) \in Seq(Glob) /\ Len(Tail(tries)) = Len(tries) - 1 /\ Len(tries) \in Nat
  BY <1>2, SomeSplit
<1>5. CASE Len(tries) > 1
  <2> DEFINE ts == Tail(tries)
             Q == Head(ts).pattern
             T == Head(ts).string
  <2>1. ts \in Seq(Glob) /\ Len(ts) >= 1
    BY <1>4, <1>5
  <2>2. Head(ts) \in Glob /\ (Some(ts) <=> Rules!Covers(Q, T) \/ Some(Tail(ts)))
    <3> HIDE DEF ts
    <3> QED BY <2>1, SomeSplit
  <2>3. /\ Rules!Start \in Spots(Q, T) /\ Opened(Q, T, <<>>)
        /\ Hopeful(Q, T, Rules!Start, <<>>) <=> Rules!Covers(Q, T)
    <3> HIDE DEF ts
    <3> QED BY <2>2, BeginsHopeful
  <2>4. tries' = ts /\ Rules!Pattern' = Q /\ Rules!String' = T
    BY <1>1 DEF Rules!Pattern, Rules!String
  <2>5. expected = IF Some(ts) THEN rule.effect ELSE effect
    BY <1>2, <1>3
  <2> HIDE DEF ts, Q, T
  <2>6. expected = IF Hopeful(Q, T, Rules!Start, <<>>) \/ Some(Tail(ts)) THEN rule.effect ELSE effect
    BY <2>2, <2>3, <2>5
  <2>7. /\ ruled' = ruled /\ judging' = "match" /\ rule' = rule /\ expected' = expected /\ effect' = effect
        /\ place' = Rules!Start /\ stars' = <<>>
    BY <1>1, <1>5
  <2> QED BY <2>1, <2>3, <2>4, <2>6, <2>7 DEF JudgeInv, Some
<1>6. CASE ~(Len(tries) > 1)
  <2>1. ~Some(Tail(tries))
    BY <1>4, <1>6, <1>2 DEF Some
  <2> QED BY <1>1, <1>2, <1>3, <1>6, <2>1 DEF JudgeInv
<1> QED BY <1>5, <1>6

LEMMA JudgeNext == ASSUME JudgeInv, Rules!Next PROVE JudgeInv'
<1>1. CASE Rules!Decide
  BY <1>1 DEF Rules!Decide, JudgeInv
<1> QED BY <1>1, JudgeConsider, JudgeAdvance, JudgeOpenStar, JudgeFound, JudgeWiden, JudgeFails DEF Rules!Next

LEMMA JudgeStays == ASSUME JudgeInv, UNCHANGED rules PROVE JudgeInv'
BY DEF JudgeInv, rules, Rules!Pattern, Rules!String, Hopeful, Opened, Some

(* The effect so far is that of the last rule whose pattern means the path: *)
(* however long the rules, the patterns and the path are, the widening and  *)
(* giving up of stars misses no way to cover it and finds no other          *)
(* (evaluate, path_matches, glob_matches, widen_star).                      *)
THEOREM LastMatch == Spec => []LastMatchDecides
<1>1. Init => JudgeInv
  BY InitJudge DEF Init
<1>2. JudgeInv /\ [Next]_vars => JudgeInv'
  BY JudgeNext, JudgeStays, OneAtATime
<1>3. JudgeInv => LastMatchDecides
  BY DEF JudgeInv, LastMatchDecides, Rules!LastMatchDecides
<1> QED BY <1>1, <1>2, <1>3, PTL DEF Spec

-----------------------------------------------------------------------------
(* The task graph *)

Frames == [node : Tasks, left : SUBSET Tasks]
Walks == [at : {"no", "walk", "cycle"}, graph : [Tasks -> SUBSET Tasks], task : Tasks \cup {Graph!NoSearch.task},
             stack : Seq(Frames), done : SUBSET Tasks]

GraphType ==
    /\ task \in [Tasks -> Graph!States \cup {"none"}]
    /\ deps \in [Tasks -> SUBSET Tasks]
    /\ search \in Walks

(* Nobody waits for a task that is gone. *)
Known == \A u \in Tasks : deps[u] \subseteq Graph!Stored

(* The graph searched is the one stored but for the task of the call. *)
Wanted ==
    search.at # "no" =>
       /\ search.task \in Tasks
       /\ \A u \in Tasks : search.graph[u] \subseteq Graph!Stored /\ (u # search.task => search.graph[u] = deps[u])

(* What the search is done with leads nowhere else, and to no ring. *)
DoneIsClosed ==
    /\ \A n \in search.done : search.graph[n] \subseteq search.done
    /\ \A S \in SUBSET search.done : ~Graph!Ring(search.graph, S)

(* The stack is a path from the task of the call; what a node waits for is  *)
(* done, is the next of the path, or is still to be looked at.              *)
OnPath ==
    LET st == search.stack
        node(i) == st[i].node
    IN /\ \A i \in 1..Len(st) : /\ node(i) \notin search.done
                                /\ st[i].left \subseteq search.graph[node(i)]
                                /\ \A j \in 1..Len(st) : node(i) = node(j) => i = j
                                /\ i = Len(st) => search.graph[node(i)] \subseteq st[i].left \cup search.done
                                /\ i # Len(st) =>
                                      /\ node(i + 1) \in search.graph[node(i)]
                                      /\ search.graph[node(i)] \subseteq st[i].left \cup search.done \cup {node(i + 1)}
       /\ search.at # "no" =>
             IF st = <<>> THEN search.task \in search.done ELSE node(1) = search.task

GraphInv == GraphType /\ Known /\ Graph!TasksHold /\ Wanted /\ DoneIsClosed /\ OnPath

(* Fewer dependencies close no more rings. *)
LEMMA RingOfMore ==
    ASSUME NEW g \in [Tasks -> SUBSET Tasks], NEW h \in [Tasks -> SUBSET Tasks], NEW S \in SUBSET Tasks,
           \A u \in S : g[u] \subseteq h[u], Graph!Ring(g, S)
    PROVE  Graph!Ring(h, S)
BY DEF Graph!Ring

(* A ring that meets a closed set has one inside it. *)
LEMMA RingInside ==
    ASSUME NEW g \in [Tasks -> SUBSET Tasks], NEW S \in SUBSET Tasks, NEW D \in SUBSET Tasks,
           \A n \in D : g[n] \subseteq D, Graph!Ring(g, S), S \cap D # {}
    PROVE  Graph!Ring(g, S \cap D)
<1>1. ASSUME NEW t \in S \cap D PROVE g[t] \cap (S \cap D) # {}
  <2>1. g[t] \cap S # {} /\ g[t] \subseteq D
    BY DEF Graph!Ring
  <2> QED BY <2>1
<1> QED BY <1>1 DEF Graph!Ring

(* Without a search there is nothing to say of it. *)
LEMMA AtRest ==
    ASSUME search' = Graph!NoSearch, task' \in [Tasks -> Graph!States \cup {"none"}],
           deps' \in [Tasks -> SUBSET Tasks], Known', Graph!Acyclic'
    PROVE  GraphInv'
<1>1. Graph!NoSearch \in Walks
  BY DEF Graph!NoSearch, Walks
<1>2. GraphType' /\ Wanted' /\ DoneIsClosed' /\ OnPath' /\ Graph!RefusedForRings'
  BY <1>1 DEF GraphType, Wanted, DoneIsClosed, OnPath, Graph!RefusedForRings, Graph!NoSearch, Graph!Ring
<1> QED BY <1>2 DEF GraphInv, Graph!TasksHold

LEMMA InitGraph == ASSUME Graph!Init PROVE GraphInv
<1>1. Graph!NoSearch \in Walks
  BY DEF Graph!NoSearch, Walks
<1>2. GraphType /\ Known /\ Wanted /\ DoneIsClosed /\ OnPath /\ Graph!RefusedForRings
  BY <1>1 DEF Graph!Init, GraphType, Known, Wanted, DoneIsClosed, OnPath, Graph!RefusedForRings, Graph!NoSearch, Graph!Ring
<1>3. Graph!Acyclic
  BY DEF Graph!Init, Graph!Acyclic, Graph!Ring
<1> QED BY <1>2, <1>3 DEF GraphInv, Graph!TasksHold

(* While nothing is searched the search keeps its resting state. *)
LEMMA NoSearchStays ==
    ASSUME GraphInv, search.at = "no", search' = search, task' \in [Tasks -> Graph!States \cup {"none"}],
           deps' \in [Tasks -> SUBSET Tasks], Known', Graph!Acyclic'
    PROVE  GraphInv'
<1>1. GraphType' /\ Wanted' /\ DoneIsClosed' /\ OnPath' /\ Graph!RefusedForRings'
  BY DEF GraphInv, GraphType, Wanted, DoneIsClosed, OnPath, Graph!RefusedForRings, Graph!Ring
<1> QED BY <1>1 DEF GraphInv, Graph!TasksHold

LEMMA GraphCreate == ASSUME GraphInv, NEW t \in Tasks, NEW D \in SUBSET Tasks, Graph!Create(t, D) PROVE GraphInv'
<1>1. PICK written \in SUBSET D : deps' = [deps EXCEPT ![t] = written]
  BY DEF Graph!Create, Graph!With
<1>2. /\ search.at = "no" /\ search' = search /\ task[t] = "none" /\ D \subseteq Graph!Stored
      /\ task' = [task EXCEPT ![t] = "pending"]
  BY DEF Graph!Create
<1>3. task' \in [Tasks -> Graph!States \cup {"none"}] /\ deps' \in [Tasks -> SUBSET Tasks]
  BY <1>1, <1>2 DEF GraphInv, GraphType, Graph!States
<1>4. Graph!Stored \subseteq Graph!Stored' /\ t \notin Graph!Stored
  BY <1>2 DEF Graph!Stored, GraphInv, GraphType
<1>5. Known'
  BY <1>1, <1>2, <1>4 DEF Known, GraphInv, GraphType
<1>6. ASSUME NEW S \in SUBSET Tasks, Graph!Ring(deps', S) PROVE FALSE
  <2>1. \A u \in S : deps'[u] \subseteq Graph!Stored
    BY <1>1, <1>2 DEF GraphInv, GraphType, Known
  <2>2. Graph!Ring(deps', S \cap Graph!Stored)
    <3>1. ASSUME NEW u \in S \cap Graph!Stored PROVE deps'[u] \cap (S \cap Graph!Stored) # {}
      BY <1>6, <2>1 DEF Graph!Ring
    <3>2. S \cap Graph!Stored # {}
      BY <1>6, <2>1 DEF Graph!Ring
    <3> QED BY <3>1, <3>2 DEF Graph!Ring
  <2>3. Graph!Ring(deps, S \cap Graph!Stored)
    BY <1>1, <1>4, <2>2 DEF Graph!Ring, GraphInv, GraphType
  <2> QED BY <2>3 DEF GraphInv, Graph!TasksHold, Graph!Acyclic
<1>7. Graph!Acyclic'
  BY <1>6 DEF Graph!Acyclic, Graph!Ring
<1> QED BY <1>2, <1>3, <1>5, <1>7, NoSearchStays

LEMMA GraphUpdateState ==
    ASSUME GraphInv, NEW t \in Tasks, NEW s \in Graph!States, Graph!UpdateState(t, s) PROVE GraphInv'
<1>1. /\ search.at = "no" /\ search' = search /\ deps' = deps /\ t \in Graph!Stored
      /\ task' = [task EXCEPT ![t] = s]
  BY DEF Graph!UpdateState
<1>2. task' \in [Tasks -> Graph!States \cup {"none"}] /\ deps' \in [Tasks -> SUBSET Tasks]
  BY <1>1 DEF GraphInv, GraphType
<1>3. Graph!Stored' = Graph!Stored
  BY <1>1 DEF Graph!Stored, Graph!States, GraphInv, GraphType
<1>4. Known' /\ Graph!Acyclic'
  BY <1>1, <1>3 DEF Known, Graph!Acyclic, Graph!Ring, GraphInv, Graph!TasksHold
<1> QED BY <1>1, <1>2, <1>4, NoSearchStays

LEMMA GraphDelete == ASSUME GraphInv, NEW t \in Tasks, Graph!Delete(t) PROVE GraphInv'
<1>1. /\ search.at = "no" /\ search' = search /\ task' = [task EXCEPT ![t] = "none"]
      /\ deps' = [u \in Tasks |-> IF u = t THEN {} ELSE deps[u] \ {t}]
  BY DEF Graph!Delete
<1>2. task' \in [Tasks -> Graph!States \cup {"none"}] /\ deps' \in [Tasks -> SUBSET Tasks]
  BY <1>1 DEF GraphInv, GraphType
<1>3. Known'
  BY <1>1 DEF Known, Graph!Stored, GraphInv, GraphType
<1>4. ASSUME NEW S \in SUBSET Tasks, Graph!Ring(deps', S) PROVE FALSE
  <2>1. \A u \in S : deps'[u] \subseteq deps[u]
    BY <1>1
  <2>2. Graph!Ring(deps, S)
    BY <1>2, <1>4, <2>1, RingOfMore DEF GraphInv, GraphType
  <2> QED BY <2>2 DEF GraphInv, Graph!TasksHold, Graph!Acyclic
<1>5. Graph!Acyclic'
  BY <1>4 DEF Graph!Acyclic, Graph!Ring
<1> QED BY <1>1, <1>2, <1>3, <1>5, NoSearchStays

LEMMA GraphSearch == ASSUME GraphInv, NEW t \in Tasks, NEW D \in SUBSET Tasks, Graph!Search(t, D) PROVE GraphInv'
<1> DEFINE g == [deps EXCEPT ![t] = D]
<1>1. /\ D \subseteq Graph!Stored /\ UNCHANGED <<task, deps>>
      /\ search' = [at |-> "walk", graph |-> g, task |-> t, stack |-> <<[node |-> t, left |-> g[t]]>>, done |-> {}]
  BY DEF Graph!Search, Graph!With
<1>2. g \in [Tasks -> SUBSET Tasks]
  BY DEF GraphInv, GraphType
<1>3. <<[node |-> t, left |-> g[t]]>> \in Seq(Frames)
  BY <1>2 DEF Frames
<1>4. GraphType'
  BY <1>1, <1>2, <1>3 DEF GraphInv, GraphType, Walks
<1>5. Known' /\ Wanted'
  BY <1>1 DEF GraphInv, GraphType, Known, Wanted, Graph!Stored
<1>6. DoneIsClosed'
  BY <1>1 DEF DoneIsClosed, Graph!Ring
<1>7. OnPath'
  BY <1>1, <1>2, <1>3 DEF OnPath
<1>8. Graph!TasksHold'
  BY <1>1 DEF GraphInv, Graph!TasksHold, Graph!Acyclic, Graph!Ring, Graph!RefusedForRings
<1> QED BY <1>4, <1>5, <1>6, <1>7, <1>8 DEF GraphInv

LEMMA GraphSearchEnds == ASSUME GraphInv, Graph!SearchEnds PROVE GraphInv'
<1>1. search' = Graph!NoSearch /\ UNCHANGED <<task, deps>>
  BY DEF Graph!SearchEnds
<1>2. Known' /\ Graph!Acyclic'
  BY <1>1 DEF GraphInv, Known, Graph!Stored, Graph!TasksHold, Graph!Acyclic, Graph!Ring
<1> QED BY <1>1, <1>2, AtRest DEF GraphInv, GraphType

(* A ring of the new graph either meets what the search is done with, where *)
(* there is none, or leaves out the task of the call and was there before.  *)
LEMMA GraphSetDependencies == ASSUME GraphInv, Graph!SetDependencies PROVE GraphInv'
<1> DEFINE t == search.task
           g == search.graph
<1>1. PICK written \in SUBSET g[t] : deps' = [deps EXCEPT ![t] = written]
  BY DEF Graph!SetDependencies, Graph!With
<1>2. search.at = "walk" /\ search.stack = <<>> /\ search' = Graph!NoSearch /\ task' = task
  BY DEF Graph!SetDependencies
<1>3. /\ t \in Tasks /\ g \in [Tasks -> SUBSET Tasks] /\ t \in search.done /\ search.done \in SUBSET Tasks
      /\ \A u \in Tasks : g[u] \subseteq Graph!Stored /\ (u # t => g[u] = deps[u])
  BY <1>2 DEF GraphInv, GraphType, Walks, Wanted, OnPath
<1>4. deps' \in [Tasks -> SUBSET Tasks]
  BY <1>1, <1>3 DEF GraphInv, GraphType
<1>5. \A u \in Tasks : deps'[u] \subseteq g[u]
  BY <1>1, <1>3 DEF GraphInv, GraphType
<1>6. Known'
  BY <1>2, <1>3, <1>5 DEF Known, Graph!Stored
<1>7. ASSUME NEW S \in SUBSET Tasks, Graph!Ring(deps', S) PROVE FALSE
  <2>1. Graph!Ring(g, S)
    BY <1>3, <1>4, <1>5, <1>7, RingOfMore
  <2>2. CASE S \cap search.done # {}
    <3>1. Graph!Ring(g, S \cap search.done)
      BY <1>3, <2>1, <2>2, RingInside DEF GraphInv, DoneIsClosed
    <3> QED BY <3>1 DEF GraphInv, DoneIsClosed
  <2>3. CASE S \cap search.done = {}
    <3>1. Graph!Ring(deps, S)
      BY <1>3, <2>1, <2>3 DEF Graph!Ring
    <3> QED BY <3>1 DEF GraphInv, Graph!TasksHold, Graph!Acyclic
  <2> QED BY <2>2, <2>3
<1>8. Graph!Acyclic'
  BY <1>7 DEF Graph!Acyclic, Graph!Ring
<1> QED BY <1>2, <1>4, <1>6, <1>8, AtRest DEF GraphInv, GraphType

(* What the search of the call in hand knows of its stack. *)
LEMMA StackFacts ==
    ASSUME GraphInv, search.at = "walk", search.stack # <<>>
    PROVE  /\ Len(search.stack) \in Nat \ {0} /\ search.stack \in Seq(Frames)
           /\ \A i \in 1..Len(search.stack) : search.stack[i] \in Frames
           /\ search.graph \in [Tasks -> SUBSET Tasks] /\ search.task \in Tasks /\ search.done \in SUBSET Tasks
           /\ Graph!Top = search.stack[Len(search.stack)]
<1>1. search.stack \in Seq(Frames) /\ search.graph \in [Tasks -> SUBSET Tasks] /\ search.done \in SUBSET Tasks
  BY DEF GraphInv, GraphType, Walks
<1>2. Len(search.stack) \in Nat \ {0}
  BY <1>1
<1> QED BY <1>1, <1>2 DEF GraphInv, Wanted, Graph!Top

LEMMA GraphLook == ASSUME GraphInv, Graph!Look PROVE GraphInv'
<1> DEFINE st == search.stack
           n == Len(st)
           g == search.graph
<1>1. search.at = "walk" /\ st # <<>> /\ UNCHANGED <<task, deps>>
  BY DEF Graph!Look
<1>2. /\ n \in Nat \ {0} /\ st \in Seq(Frames) /\ \A i \in 1..n : st[i] \in Frames
      /\ g \in [Tasks -> SUBSET Tasks] /\ search.task \in Tasks /\ search.done \in SUBSET Tasks
      /\ Graph!Top = st[n]
  BY <1>1, StackFacts
<1>3. PICK c \in st[n].left :
         \/ c \in search.done /\ search' = [search EXCEPT !.stack = Graph!Looked(c)]
         \/ c \in Graph!OnStack /\ search' = [search EXCEPT !.at = "cycle"]
         \/ /\ c \notin Graph!OnStack /\ c \notin search.done
            /\ search' = [search EXCEPT !.stack = Append(Graph!Looked(c), Graph!Frame(c))]
  BY <1>2 DEF Graph!Look, Graph!Done
<1>4. search \in Walks /\ c \in Tasks /\ c \in g[st[n].node] /\ st[n].left \subseteq g[st[n].node]
  BY <1>2, <1>3 DEF GraphInv, GraphType, OnPath, Frames
<1> DEFINE looked == [st EXCEPT ![n].left = @ \ {c}]
<1>5. /\ looked \in Seq(Frames) /\ Len(looked) = n /\ looked = Graph!Looked(c)
      /\ \A i \in 1..n : /\ looked[i].node = st[i].node
                         /\ looked[i].left = IF i = n THEN st[i].left \ {c} ELSE st[i].left
  <2>1. looked = Graph!Looked(c)
    BY DEF Graph!Looked
  <2>2. n \in 1..n /\ [st[n] EXCEPT !.left = @ \ {c}] \in Frames
    BY <1>2 DEF Frames
  <2>3. looked = [st EXCEPT ![n] = [st[n] EXCEPT !.left = @ \ {c}]]
    BY <1>2
  <2>4. looked \in Seq(Frames) /\ Len(looked) = n
    BY <1>2, <2>2, <2>3
  <2>5. \A i \in 1..n : looked[i] = IF i = n THEN [st[n] EXCEPT !.left = @ \ {c}] ELSE st[i]
    BY <1>2, <2>3
  <2>6. st[n] \in Frames
    BY <1>2, <2>2
  <2>7. /\ [st[n] EXCEPT !.left = @ \ {c}].node = st[n].node
        /\ [st[n] EXCEPT !.left = @ \ {c}].left = st[n].left \ {c}
    BY <2>6 DEF Frames
  <2>8. \A i \in 1..n : /\ looked[i].node = st[i].node
                       /\ looked[i].left = IF i = n THEN st[i].left \ {c} ELSE st[i].left
    <3> HIDE DEF looked
    <3> QED BY <2>5, <2>7
  <2> QED BY <2>1, <2>4, <2>8
<1>6. Known'
  BY <1>1 DEF GraphInv, Known, Graph!Stored
<1>7. Graph!Acyclic'
  BY <1>1 DEF GraphInv, Graph!TasksHold, Graph!Acyclic, Graph!Ring
<1> DEFINE Same == /\ search'.task = search.task /\ search'.graph = g /\ search'.done = search.done
<1>8. Same => Wanted' /\ DoneIsClosed'
  BY <1>1 DEF GraphInv, Wanted, DoneIsClosed, Graph!Stored, Graph!Ring
<1> HIDE DEF looked
<1>9. CASE c \in search.done /\ search' = [search EXCEPT !.stack = looked]
  <2>1. Same /\ search'.at = "walk" /\ search'.stack = looked /\ search' \in Walks
    BY <1>1, <1>4, <1>5, <1>9 DEF Walks
  <2>2. GraphType'
    BY <1>1, <2>1 DEF GraphInv, GraphType
  <2>3. OnPath'
    <3>1. ASSUME NEW i \in 1..n
          PROVE  /\ looked[i].node \notin search.done
                 /\ looked[i].left \subseteq g[looked[i].node]
                 /\ \A j \in 1..n : looked[i].node = looked[j].node => i = j
                 /\ i = n => g[looked[i].node] \subseteq looked[i].left \cup search.done
                 /\ i # n =>
                       /\ looked[i + 1].node \in g[looked[i].node]
                       /\ g[looked[i].node] \subseteq looked[i].left \cup search.done \cup {looked[i + 1].node}
      <4>1. /\ st[i].node \notin search.done /\ st[i].left \subseteq g[st[i].node]
            /\ \A j \in 1..n : st[i].node = st[j].node => i = j
            /\ i = n => g[st[i].node] \subseteq st[i].left \cup search.done
            /\ i # n => /\ st[i + 1].node \in g[st[i].node]
                       /\ g[st[i].node] \subseteq st[i].left \cup search.done \cup {st[i + 1].node}
        BY DEF GraphInv, OnPath
      <4>2. \A j \in 1..n : looked[i].node = looked[j].node => i = j
        BY <1>5, <4>1
      <4>3. i # n => i + 1 \in 1..n
        BY <1>2
      <4>4. looked[i].node = st[i].node /\ (i # n => looked[i].left = st[i].left /\ looked[i + 1].node = st[i + 1].node)
        BY <1>5, <4>3
      <4>5. i = n => looked[i].left = st[i].left \ {c}
        BY <1>5
      <4> QED BY <1>9, <4>1, <4>2, <4>4, <4>5
    <3>2. looked # <<>> /\ looked[1].node = search.task
      <4>1. st[1].node = search.task
        BY <1>1 DEF GraphInv, OnPath
      <4>2. 1 \in 1..n
        BY <1>2
      <4>3. n # 0
        BY <1>2
      <4> QED BY <1>5, <4>1, <4>2, <4>3
    <3> QED BY <1>5, <2>1, <3>1, <3>2 DEF OnPath
  <2>4. Graph!RefusedForRings'
    BY <2>1 DEF Graph!RefusedForRings
  <2> QED BY <1>6, <1>7, <1>8, <2>1, <2>2, <2>3, <2>4 DEF GraphInv, Graph!TasksHold
<1>10. CASE c \in Graph!OnStack /\ search' = [search EXCEPT !.at = "cycle"]
  <2>1. Same /\ search'.at = "cycle" /\ search'.stack = st /\ search' \in Walks
    BY <1>1, <1>4, <1>10 DEF Walks
  <2>2. GraphType'
    BY <1>1, <2>1 DEF GraphInv, GraphType
  <2>3. OnPath'
    BY <1>1, <2>1 DEF GraphInv, OnPath
  <2>4. PICK k \in 1..n : c = st[k].node
    BY <1>10 DEF Graph!OnStack
  <2> DEFINE S == {st[i].node : i \in k..n}
  <2>5. S \in SUBSET Tasks /\ S # {}
    <3>1. \A i \in 1..n : st[i].node \in Tasks
      BY <1>2 DEF Frames
    <3>2. k \in k..n /\ \A i \in k..n : i \in 1..n
      BY <1>2, <2>4
    <3> QED BY <3>1, <3>2
  <2>6. ASSUME NEW i \in k..n PROVE g[st[i].node] \cap S # {}
    <3>1. CASE i = n
      BY <1>2, <1>4, <2>4, <3>1
    <3>2. CASE i # n
      <4>1. i \in 1..n /\ i + 1 \in k..n
        BY <1>2, <2>4, <2>6, <3>2
      <4>2. st[i + 1].node \in g[st[i].node]
        BY <3>2, <4>1 DEF GraphInv, OnPath
      <4> QED BY <4>1, <4>2
    <3> QED BY <3>1, <3>2
  <2>7. Graph!Ring(g, S)
    BY <2>5, <2>6 DEF Graph!Ring
  <2>8. Graph!RefusedForRings'
    BY <2>1, <2>5, <2>7 DEF Graph!RefusedForRings, Graph!Ring
  <2> QED BY <1>6, <1>7, <1>8, <2>1, <2>2, <2>3, <2>8 DEF GraphInv, Graph!TasksHold
<1>11. CASE /\ c \notin Graph!OnStack /\ c \notin search.done
            /\ search' = [search EXCEPT !.stack = Append(looked, Graph!Frame(c))]
  <2> DEFINE new == Append(looked, Graph!Frame(c))
  <2>1. Graph!Frame(c) \in Frames /\ Graph!Frame(c).node = c /\ Graph!Frame(c).left = g[c]
    BY <1>2, <1>4 DEF Graph!Frame, Frames
  <2>2. /\ new \in Seq(Frames) /\ Len(new) = n + 1 /\ new[n + 1] = Graph!Frame(c)
        /\ \A i \in 1..n : new[i] = looked[i]
    BY <1>2, <1>5, <2>1
  <2> HIDE DEF new
  <2>3. Same /\ search'.at = "walk" /\ search'.stack = new /\ search' \in Walks
    BY <1>1, <1>4, <1>11, <2>2 DEF Walks, new
  <2>4. GraphType'
    BY <1>1, <2>3 DEF GraphInv, GraphType
  <2>5. \A i \in 1..n : st[i].node # c
    BY <1>11 DEF Graph!OnStack
  <2>6. ASSUME NEW i \in 1..n + 1
        PROVE  /\ new[i].node \notin search.done
               /\ new[i].left \subseteq g[new[i].node]
               /\ \A j \in 1..n + 1 : new[i].node = new[j].node => i = j
               /\ i = n + 1 => g[new[i].node] \subseteq new[i].left \cup search.done
               /\ i # n + 1 =>
                     /\ new[i + 1].node \in g[new[i].node]
                     /\ g[new[i].node] \subseteq new[i].left \cup search.done \cup {new[i + 1].node}
    <3> DEFINE k == n
    <3>0. /\ k \in Nat \ {0} /\ \A j \in 1..k : new[j].node = st[j].node
          /\ new[k + 1].node = c /\ new[k + 1].left = g[c]
          /\ \A j \in 1..k : new[j].left = IF j = k THEN st[j].left \ {c} ELSE st[j].left
          /\ \A j \in 1..k : st[j].node # c
      BY <1>2, <1>5, <2>1, <2>2, <2>5
    <3>a. \A j \in 1..k : /\ st[j].node \notin search.done /\ st[j].left \subseteq g[st[j].node]
                          /\ \A l \in 1..k : st[j].node = st[l].node => j = l
                          /\ j = k => g[st[j].node] \subseteq st[j].left \cup search.done
                          /\ j # k => /\ st[j + 1].node \in g[st[j].node]
                                     /\ g[st[j].node] \subseteq st[j].left \cup search.done \cup {st[j + 1].node}
      BY DEF GraphInv, OnPath
    <3>b. i \in 1..k + 1
      OBVIOUS
    <3> HIDE DEF k
    <3>4. ASSUME NEW j \in 1..k + 1, new[i].node = new[j].node PROVE i = j
      BY <3>0, <3>a, <3>b, <3>4
    <3>1. CASE i = k + 1
      BY <1>11, <3>0, <3>4, <3>1 DEF k
    <3>2. CASE i = k
      <4>1. i \in 1..k /\ i # k + 1
        BY <3>0, <3>2
      <4>2. new[i].left = st[i].left \ {c} /\ new[i].node = st[i].node /\ new[i + 1].node = c
        BY <3>0, <3>2, <4>1
      <4>3. c \in g[st[i].node]
        BY <1>4, <3>2 DEF k
      <4> QED BY <3>0, <3>2, <3>4, <3>a, <4>1, <4>2, <4>3 DEF k
    <3>3. CASE i < k
      <4>1. i \in 1..k /\ i + 1 \in 1..k /\ i # k /\ i # k + 1
        BY <3>0, <3>3, <3>b
      <4>2. new[i].node = st[i].node /\ new[i].left = st[i].left /\ new[i + 1].node = st[i + 1].node
        BY <3>0, <4>1
      <4> QED BY <3>4, <3>a, <4>1, <4>2 DEF k
    <3>5. \/ i = k + 1 \/ i = k \/ i < k
      BY <3>0, <3>b
    <3> QED BY <3>1, <3>2, <3>3, <3>5 DEF k
  <2>7. new # <<>> /\ new[1].node = search.task
    <3>1. st[1].node = search.task
      BY <1>1 DEF GraphInv, OnPath
    <3>2. 1 \in 1..n
      BY <1>2
    <3>3. new[1].node = st[1].node
      BY <1>5, <2>2, <3>2
    <3>4. n + 1 # 0
      BY <1>2
    <3> QED BY <2>2, <3>1, <3>3, <3>4
  <2>8. OnPath'
    BY <2>2, <2>3, <2>6, <2>7 DEF OnPath
  <2>9. Graph!RefusedForRings'
    BY <2>3 DEF Graph!RefusedForRings
  <2> QED BY <1>6, <1>7, <1>8, <2>3, <2>4, <2>8, <2>9 DEF GraphInv, Graph!TasksHold
<1> QED BY <1>3, <1>5, <1>9, <1>10, <1>11

LEMMA GraphLeave == ASSUME GraphInv, Graph!Leave PROVE GraphInv'
<1> DEFINE st == search.stack
           n == Len(st)
           g == search.graph
           top == st[n].node
           rest == SubSeq(st, 1, n - 1)
<1>1. search.at = "walk" /\ st # <<>> /\ Graph!Top.left = {} /\ UNCHANGED <<task, deps>>
  BY DEF Graph!Leave
<1>2. /\ n \in Nat \ {0} /\ st \in Seq(Frames) /\ \A i \in 1..n : st[i] \in Frames
      /\ g \in [Tasks -> SUBSET Tasks] /\ search.task \in Tasks /\ search.done \in SUBSET Tasks
      /\ Graph!Top = st[n]
  BY <1>1, StackFacts
<1>3. search' = [search EXCEPT !.done = search.done \cup {top}, !.stack = rest] /\ search \in Walks
  BY <1>2 DEF Graph!Leave, GraphInv, GraphType
<1>4. /\ rest \in Seq(Frames) /\ Len(rest) = n - 1 /\ \A i \in 1..n - 1 : rest[i] = st[i]
  BY <1>2
<1>5. /\ top \in Tasks /\ top \notin search.done /\ g[top] \subseteq search.done
      /\ \A j \in 1..n : st[j].node = top => j = n
  BY <1>1, <1>2 DEF GraphInv, OnPath, Frames
<1> HIDE DEF rest, top
<1>6. /\ search'.at = "walk" /\ search'.graph = g /\ search'.task = search.task
      /\ search'.stack = rest /\ search'.done = search.done \cup {top} /\ search' \in Walks
  BY <1>1, <1>2, <1>3, <1>4, <1>5 DEF Walks
<1>7. GraphType' /\ Known' /\ Wanted'
  BY <1>1, <1>6 DEF GraphInv, GraphType, Known, Wanted, Graph!Stored
<1>8. Graph!TasksHold'
  BY <1>1, <1>6 DEF GraphInv, Graph!TasksHold, Graph!Acyclic, Graph!RefusedForRings, Graph!Ring
<1>9. DoneIsClosed'
  <2>1. \A m \in search.done \cup {top} : g[m] \subseteq search.done \cup {top}
    BY <1>5 DEF GraphInv, DoneIsClosed
  <2>2. ASSUME NEW S \in SUBSET (search.done \cup {top}), Graph!Ring(g, S) PROVE FALSE
    <3>1. CASE S \cap search.done # {}
      <4>1. Graph!Ring(g, S \cap search.done)
        BY <1>2, <1>5, <2>2, <3>1, RingInside DEF GraphInv, DoneIsClosed
      <4> QED BY <4>1 DEF GraphInv, DoneIsClosed
    <3>2. CASE S \cap search.done = {}
      BY <1>5, <2>2, <3>2 DEF Graph!Ring
    <3> QED BY <3>1, <3>2
  <2> QED BY <1>6, <2>1, <2>2 DEF DoneIsClosed, Graph!Ring
<1>10. ASSUME NEW i \in 1..n - 1
       PROVE  /\ rest[i].node \notin search.done \cup {top}
              /\ rest[i].left \subseteq g[rest[i].node]
              /\ \A j \in 1..n - 1 : rest[i].node = rest[j].node => i = j
              /\ i = n - 1 => g[rest[i].node] \subseteq rest[i].left \cup (search.done \cup {top})
              /\ i # n - 1 =>
                    /\ rest[i + 1].node \in g[rest[i].node]
                    /\ g[rest[i].node] \subseteq rest[i].left \cup (search.done \cup {top}) \cup {rest[i + 1].node}
  <2>1. i \in 1..n /\ i # n /\ rest[i] = st[i]
    BY <1>2, <1>4
  <2>2. /\ st[i].node \notin search.done /\ st[i].left \subseteq g[st[i].node]
        /\ \A j \in 1..n : st[i].node = st[j].node => i = j
        /\ st[i + 1].node \in g[st[i].node]
        /\ g[st[i].node] \subseteq st[i].left \cup search.done \cup {st[i + 1].node}
    BY <2>1 DEF GraphInv, OnPath
  <2>3. st[i].node # top
    BY <1>5, <2>1
  <2>4. \A j \in 1..n - 1 : rest[i].node = rest[j].node => i = j
    <3>1. \A j \in 1..n - 1 : j \in 1..n /\ rest[j] = st[j]
      BY <1>2, <1>4
    <3> QED BY <2>1, <2>2, <3>1
  <2>5. i # n - 1 => rest[i + 1] = st[i + 1]
    BY <1>2, <1>4
  <2>6. i = n - 1 => st[i + 1].node = top
    BY <1>2 DEF top
  <2> QED BY <2>1, <2>2, <2>3, <2>4, <2>5, <2>6
<1>11. IF rest = <<>> THEN search.task \in search.done \cup {top} ELSE rest[1].node = search.task
  <2>1. st[1].node = search.task
    BY <1>1 DEF GraphInv, OnPath
  <2>2. CASE n = 1
    BY <1>4, <2>1, <2>2 DEF top
  <2>3. CASE n # 1
    <3>1. 1 \in 1..n - 1 /\ n - 1 # 0
      <4>1. \A m \in Nat \ {0} : m # 1 => 1 \in 1..m - 1 /\ m - 1 # 0
        OBVIOUS
      <4> QED BY <1>2, <2>3, <4>1
    <3>2. rest # <<>> /\ rest[1] = st[1]
      BY <1>4, <3>1
    <3> QED BY <2>1, <3>2
  <2> QED BY <2>2, <2>3
<1>12. OnPath'
  BY <1>4, <1>6, <1>10, <1>11 DEF OnPath
<1> QED BY <1>7, <1>8, <1>9, <1>12 DEF GraphInv

LEMMA GraphStays == ASSUME GraphInv, UNCHANGED graph PROVE GraphInv'
BY DEF GraphInv, graph, GraphType, Known, Graph!Stored, Graph!TasksHold, Graph!Acyclic, Graph!RefusedForRings,
   Graph!Ring, Wanted, DoneIsClosed, OnPath

LEMMA GraphNext == ASSUME GraphInv, Graph!Next PROVE GraphInv'
BY GraphCreate, GraphSearch, GraphUpdateState, GraphDelete, GraphLook, GraphLeave, GraphSearchEnds,
   GraphSetDependencies DEF Graph!Next

(* However many tasks there are, the search lets no ring pass and refuses   *)
(* none that is not there, and no calls, deletions or deaths close one      *)
(* (find_cycle and walk of tasks.rs).                                       *)
THEOREM NoRings == Spec => []TasksHold
<1>1. Init => GraphInv
  BY InitGraph DEF Init
<1>2. GraphInv /\ [Next]_vars => GraphInv'
  BY GraphNext, GraphStays, OneAtATime
<1>3. GraphInv => TasksHold
  BY DEF GraphInv, TasksHold
<1> QED BY <1>1, <1>2, <1>3, PTL DEF Spec

-----------------------------------------------------------------------------
(* The decoder of event streams *)

LEMMA DecoderCardinality == \A S : Decoder!Cardinality(S) = Cardinality(S)
BY DEF Decoder!Cardinality, Cardinality

(* Every member of the set has its number. *)
Listed(S) ==
    /\ S \subseteq Nat /\ IsFiniteSet(S)
    /\ \A n \in 1..Cardinality(S) : Decoder!Nth(S, n) \in S

(* A member behind the others is the last, and the others keep their numbers. *)
LEMMA NthOfMore ==
    ASSUME NEW S, Listed(S), NEW k \in Nat, \A i \in S : i < k
    PROVE  /\ Cardinality(S) \in Nat /\ Cardinality(S \cup {k}) = Cardinality(S) + 1
           /\ \A n \in 1..Cardinality(S) : Decoder!Nth(S \cup {k}, n) = Decoder!Nth(S, n)
           /\ Decoder!Nth(S \cup {k}, Cardinality(S) + 1) = k
           /\ Listed(S \cup {k})
<1> DEFINE T == S \cup {k}
<1>1. /\ S \subseteq Nat /\ IsFiniteSet(S) /\ k \notin S
  BY DEF Listed
<1>2. Cardinality(S) \in Nat /\ IsFiniteSet(T) /\ Cardinality(T) = Cardinality(S) + 1
  BY <1>1, FS_AddElement, FS_CardinalityType
<1>3. \A i \in S : Decoder!UpTo(T, i) = Decoder!UpTo(S, i)
  BY <1>1 DEF Decoder!UpTo
<1>4. Decoder!UpTo(T, k) = T
  <2>1. \A i \in T : i <= k
    BY <1>1
  <2> QED BY <2>1 DEF Decoder!UpTo
<1>5. ASSUME NEW i \in S PROVE Cardinality(Decoder!UpTo(S, i)) \in Nat /\ Cardinality(Decoder!UpTo(S, i)) <= Cardinality(S)
  <2>1. Decoder!UpTo(S, i) \subseteq S
    BY DEF Decoder!UpTo
  <2> QED BY <1>1, <2>1, FS_Subset, FS_CardinalityType
<1> HIDE DEF T
<1>6. ASSUME NEW n \in 1..Cardinality(S) PROVE Decoder!Nth(T, n) = Decoder!Nth(S, n)
  <2>1. T = S \cup {k} /\ Cardinality(T) # n
    BY <1>2 DEF T
  <2>2. {j \in T : Cardinality(Decoder!UpTo(T, j)) = n} = {j \in S : Cardinality(Decoder!UpTo(S, j)) = n}
    BY <1>3, <1>4, <2>1
  <2> QED BY <2>2, DecoderCardinality DEF Decoder!Nth
<1>7. Decoder!Nth(T, Cardinality(S) + 1) = k
  <2>1. T = S \cup {k}
    BY DEF T
  <2>2. \A j \in S : Cardinality(Decoder!UpTo(T, j)) # Cardinality(S) + 1
    BY <1>2, <1>3, <1>5
  <2>3. {j \in T : Cardinality(Decoder!UpTo(T, j)) = Cardinality(S) + 1} = {k}
    BY <1>2, <1>4, <2>1, <2>2
  <2>4. Decoder!Nth(T, Cardinality(S) + 1) = CHOOSE i \in {k} : TRUE
    BY <2>3, DecoderCardinality DEF Decoder!Nth
  <2> QED BY <2>4
<1>8. Listed(T)
  <2>1. ASSUME NEW n \in 1..Cardinality(T) PROVE Decoder!Nth(T, n) \in T
    <3>1. n \in 1..Cardinality(S) \/ n = Cardinality(S) + 1
      BY <1>2
    <3>2. T = S \cup {k}
      BY DEF T
    <3> QED BY <1>6, <1>7, <3>1, <3>2 DEF Listed
  <2>2. T \subseteq Nat
    BY <1>1 DEF T
  <2> QED BY <1>2, <2>1, <2>2 DEF Listed
<1> QED BY <1>2, <1>6, <1>7, <1>8 DEF T

NumbersKept(S, T) == \A n \in 1..Cardinality(S) : Decoder!Nth(T, n) = Decoder!Nth(S, n)

LEMMA ByPosition ==
    ASSUME NEW F, NEW N \in Nat, Listed(F), F \subseteq 1..N
    PROVE  /\ Cardinality(F) \in Nat /\ Cardinality(F \cup {N + 1}) = Cardinality(F) + 1
           /\ Listed(F \cup {N + 1})
           /\ NumbersKept(F, F \cup {N + 1})
           /\ Decoder!Nth(F \cup {N + 1}, Cardinality(F) + 1) = N + 1
<1> PICK k \in Nat : k = N + 1
  OBVIOUS
<1>1. \A i \in F : i < k
  OBVIOUS
<1>2. /\ Cardinality(F) \in Nat /\ Cardinality(F \cup {k}) = Cardinality(F) + 1
      /\ \A n \in 1..Cardinality(F) : Decoder!Nth(F \cup {k}, n) = Decoder!Nth(F, n)
      /\ Decoder!Nth(F \cup {k}, Cardinality(F) + 1) = k
      /\ Listed(F \cup {k})
  BY <1>1, NthOfMore, Zenon
<1> QED BY <1>2 DEF NumbersKept

LEMMA NoneListed == Listed({}) /\ Cardinality({}) = 0
BY FS_EmptySet DEF Listed

DecoderType ==
    /\ wire \in Seq(Bytes) /\ lineBytes \in Seq(Bytes) /\ data \in Seq(Seq(Bytes))
    /\ events \in Seq(Seq(Seq(Bytes))) /\ delivered \in Seq(Seq(Seq(Bytes)))
    /\ skipLf \in BOOLEAN /\ started \in BOOLEAN

Begun == Len(wire) + 1 - Len(lineBytes)

(* The bytes in hand are the line that is not over yet. *)
LineInHand ==
    /\ Decoder!BeginsAt(Len(wire) + 1, Begun)
    /\ \A j \in 1..Len(lineBytes) : lineBytes[j] = wire[(Begun + j) - 1]
    /\ started <=> Begun # 1
    /\ skipLf <=> Len(wire) > 0 /\ wire[Len(wire)] = "cr"

(* Lines, fields and blocks can be found. *)
Found ==
    /\ \A i \in 1..Len(wire) + 1 : Decoder!BeginsAt(i, Decoder!LineStart(i)) /\ Listed(Decoder!Fields(i))
    /\ Listed(Decoder!Blocks)

(* The data in hand is the block that is not over yet, and the events are   *)
(* the blocks that are.                                                     *)
ReadSoFar ==
    /\ data = Decoder!Block(Len(wire) + 1)
    /\ delivered \o events = Decoder!Meaning
    /\ chunk = "between" => events = <<>>

DecoderInv == DecoderType /\ (chunk # "refused" => LineInHand /\ Found /\ ReadSoFar)

(* A line begins at one place only. *)
LEMMA OneStart ==
    ASSUME wire \in Seq(Bytes), NEW i \in Nat, i <= Len(wire) + 1, NEW s, NEW t,
           Decoder!BeginsAt(i, s), Decoder!BeginsAt(i, t)
    PROVE  s = t
<1>1. s \in 1..i /\ t \in 1..i
  BY DEF Decoder!BeginsAt
<1>2. ASSUME NEW u \in 1..i, NEW v \in 1..i, Decoder!BeginsAt(i, u), Decoder!BeginsAt(i, v), u < v PROVE FALSE
  <2>1. v > 1 /\ v - 1 \in u..i - 1
    BY <1>2
  <2> QED BY <1>2, <2>1 DEF Decoder!BeginsAt
<1> QED BY <1>1, <1>2

LEMMA StartIsFound ==
    ASSUME wire \in Seq(Bytes), NEW i \in Nat, i <= Len(wire) + 1, NEW s, Decoder!BeginsAt(i, s)
    PROVE  Decoder!LineStart(i) = s
<1>1. s \in {t \in 1..i : Decoder!BeginsAt(i, t)}
  BY DEF Decoder!BeginsAt
<1>2. Decoder!LineStart(i) \in {t \in 1..i : Decoder!BeginsAt(i, t)}
  BY <1>1 DEF Decoder!LineStart
<1> QED BY <1>2, OneStart

(* One more byte changes nothing of what lies before it. *)
LEMMA OneMore ==
    ASSUME wire \in Seq(Bytes), Found, NEW b \in Bytes, wire' = Append(wire, b)
    PROVE  /\ wire' \in Seq(Bytes) /\ Len(wire') = Len(wire) + 1 /\ Len(wire) \in Nat
           /\ wire'[Len(wire) + 1] = b /\ \A i \in 1..Len(wire) : wire'[i] = wire[i]
           /\ Decoder!Breaks \subseteq 1..Len(wire) /\ Decoder!Breaks' \subseteq 1..Len(wire) + 1
           /\ \A i \in 1..Len(wire) : /\ i \in Decoder!Breaks' <=> i \in Decoder!Breaks
                                      /\ i \in Decoder!Blanks' <=> i \in Decoder!Blanks
                                      /\ i \in Decoder!Blocks' <=> i \in Decoder!Blocks
           /\ \A i \in 1..Len(wire) + 1 : /\ \A s : Decoder!BeginsAt(i, s)' <=> Decoder!BeginsAt(i, s)
                                          /\ Decoder!LineStart(i)' = Decoder!LineStart(i)
                                          /\ Decoder!WholeLine(i)' = Decoder!WholeLine(i)
                                          /\ Decoder!Fields(i)' = Decoder!Fields(i)
                                          /\ Decoder!Block(i)' = Decoder!Block(i)
<1> DEFINE N == Len(wire)
<1>1. /\ N \in Nat /\ wire' \in Seq(Bytes) /\ Len(wire') = N + 1 /\ wire'[N + 1] = b
      /\ DOMAIN wire = 1..N /\ DOMAIN wire' = 1..N + 1
  OBVIOUS
<1>2. \A i \in 1..N : wire'[i] = wire[i]
  OBVIOUS
<1> HIDE DEF N
<1>3. Decoder!Breaks \subseteq 1..N /\ Decoder!Breaks' \subseteq 1..N + 1
  BY <1>1 DEF Decoder!Breaks
<1>4. ASSUME NEW i \in 1..N PROVE i \in Decoder!Breaks' <=> i \in Decoder!Breaks
  <2>1. wire'[i] = wire[i] /\ (i > 1 => wire'[i - 1] = wire[i - 1]) /\ i \in DOMAIN wire /\ i \in DOMAIN wire'
    BY <1>1, <1>2
  <2> QED BY <2>1 DEF Decoder!Breaks
<1>5. ASSUME NEW i \in 1..N + 1 PROVE \A s : Decoder!BeginsAt(i, s)' <=> Decoder!BeginsAt(i, s)
  <2>1. ASSUME NEW s \in 1..i PROVE Decoder!BeginsAt(i, s)' <=> Decoder!BeginsAt(i, s)
    <3>1. s > 1 => wire'[s - 1] = wire[s - 1]
      BY <1>1, <1>2
    <3>2. \A j \in s..i - 1 : wire'[j] = wire[j]
      BY <1>1, <1>2
    <3> QED BY <3>1, <3>2 DEF Decoder!BeginsAt, Decoder!Ends
  <2>2. ASSUME NEW s, s \notin 1..i PROVE Decoder!BeginsAt(i, s)' <=> Decoder!BeginsAt(i, s)
    BY <2>2 DEF Decoder!BeginsAt
  <2> QED BY <2>1, <2>2
<1>6. ASSUME NEW i \in 1..N + 1 PROVE Decoder!LineStart(i)' = Decoder!LineStart(i)
  <2>1. {t \in 1..i : Decoder!BeginsAt(i, t)'} = {t \in 1..i : Decoder!BeginsAt(i, t)}
    BY <1>5
  <2> QED BY <2>1 DEF Decoder!LineStart
<1>7. ASSUME NEW i \in 1..N + 1 PROVE Decoder!WholeLine(i)' = Decoder!WholeLine(i)
  <2> DEFINE s == Decoder!LineStart(i)
  <2>1. s \in 1..i
    BY DEF Found, N, Decoder!BeginsAt
  <2> HIDE DEF s
  <2>2. SubSeq(wire', s, i - 1) = SubSeq(wire, s, i - 1)
    <3>1. \A j \in s..i - 1 : wire'[j] = wire[j]
      BY <1>1, <1>2, <2>1
    <3>2. \A j \in 1..(i - 1) - s + 1 : wire'[j + s - 1] = wire[j + s - 1]
      BY <1>1, <2>1, <3>1
    <3> QED BY <1>1, <2>1, <3>2
  <2> QED BY <1>6, <2>2 DEF Decoder!WholeLine, Decoder!Without, s
<1>8. ASSUME NEW i \in 1..N PROVE i \in Decoder!Blanks' <=> i \in Decoder!Blanks
  BY <1>1, <1>4, <1>7 DEF Decoder!Blanks
<1>9. ASSUME NEW i \in 1..N + 1 PROVE Decoder!Fields(i)' = Decoder!Fields(i)
  <2>1. ASSUME NEW j \in 1..N, j < i
        PROVE  /\ j \in Decoder!Breaks' <=> j \in Decoder!Breaks
               /\ Decoder!WholeLine(j)' = Decoder!WholeLine(j)
    BY <1>1, <1>4, <1>7
  <2>5. /\ \A j \in 1..N + 1 : j < i => j \in 1..N
        /\ \A j \in 1..N : j \in 1..N + 1
    BY <1>1
  <2>6. Decoder!Blanks \subseteq Decoder!Breaks /\ Decoder!Blanks' \subseteq Decoder!Breaks'
    BY DEF Decoder!Blanks
  <2>2. \A j : j \in Decoder!Blanks' /\ j < i <=> j \in Decoder!Blanks /\ j < i
    <3>1. ASSUME NEW j, j < i PROVE j \in Decoder!Blanks' <=> j \in Decoder!Blanks
      <4>1. CASE j \in 1..N
        BY <1>8, <4>1
      <4>2. CASE j \notin 1..N
        BY <1>3, <2>5, <2>6, <3>1, <4>2
      <4> QED BY <4>1, <4>2
    <3> QED BY <3>1
  <2>3. \A j : j \in Decoder!Breaks' /\ j < i <=> j \in Decoder!Breaks /\ j < i
    <3>1. ASSUME NEW j, j < i PROVE j \in Decoder!Breaks' <=> j \in Decoder!Breaks
      <4>1. CASE j \in 1..N
        BY <1>4, <4>1
      <4>2. CASE j \notin 1..N
        BY <1>3, <2>5, <3>1, <4>2
      <4> QED BY <4>1, <4>2
    <3> QED BY <3>1
  <2>4. \A j \in Decoder!Breaks : j < i => Decoder!IsData(Decoder!WholeLine(j))' = Decoder!IsData(Decoder!WholeLine(j))
    BY <1>1, <1>3, <2>1 DEF Decoder!IsData
  <2> QED BY <2>2, <2>3, <2>4 DEF Decoder!Fields
<1>10. ASSUME NEW i \in 1..N + 1 PROVE Decoder!Block(i)' = Decoder!Block(i)
  <2> DEFINE F == Decoder!Fields(i)
  <2>1. F \subseteq Decoder!Breaks /\ Listed(F)
    BY DEF Found, Decoder!Fields, N
  <2>2. \A n \in 1..Cardinality(F) : Decoder!Nth(F, n) \in 1..N + 1
    BY <1>1, <1>3, <2>1 DEF Listed
  <2>3. \A n \in 1..Cardinality(F) : Decoder!WholeLine(Decoder!Nth(F, n))' = Decoder!WholeLine(Decoder!Nth(F, n))
    BY <1>7, <1>9, <2>2
  <2> QED BY <1>9, <2>3, DecoderCardinality DEF Decoder!Block, Decoder!Value, Decoder!Without
<1>11. ASSUME NEW i \in 1..N PROVE i \in Decoder!Blocks' <=> i \in Decoder!Blocks
  BY <1>1, <1>8, <1>9 DEF Decoder!Blocks
<1> QED BY <1>1, <1>2, <1>3, <1>4, <1>5, <1>6, <1>7, <1>8, <1>9, <1>10, <1>11 DEF N

(* The bytes in hand are the line that ends with the next end of a line. *)
LEMMA LineIsWhole ==
    ASSUME DecoderType, LineInHand
    PROVE  /\ Decoder!WholeLine(Len(wire) + 1) = Decoder!Line
           /\ Decoder!Line \in Seq(Bytes)
<1> DEFINE N == Len(wire)
<1>1. /\ N \in Nat /\ Begun \in 1..N + 1 /\ Len(lineBytes) = N + 1 - Begun /\ Len(lineBytes) \in Nat
      /\ wire \in Seq(Bytes) /\ lineBytes \in Seq(Bytes)
  BY DEF DecoderType, LineInHand, Decoder!BeginsAt, Begun
<1>2. Decoder!LineStart(N + 1) = Begun
  BY <1>1, StartIsFound DEF LineInHand
<1>3. SubSeq(wire, Begun, N) = lineBytes
  <2> DEFINE a == Begun
  <2>1. a \in 1..N + 1 /\ Len(lineBytes) = N + 1 - a
    BY <1>1
  <2>2. \A j \in 1..Len(lineBytes) : lineBytes[j] = wire[(a + j) - 1]
    BY DEF LineInHand
  <2> HIDE DEF a
  <2>3. SubSeq(wire, a, N) \in Seq(Bytes) /\ Len(SubSeq(wire, a, N)) = N - a + 1
    BY <1>1, <2>1
  <2>4. \A j \in 1..N - a + 1 : SubSeq(wire, a, N)[j] = wire[(a + j) - 1]
    BY <1>1, <2>1
  <2> DEFINE t == SubSeq(wire, a, N)
  <2>5. t \in Seq(Bytes) /\ Len(t) = Len(lineBytes) /\ 1..Len(lineBytes) = 1..N - a + 1
    BY <1>1, <2>1, <2>3
  <2> HIDE DEF t
  <2>7. \A j \in 1..Len(lineBytes) : t[j] = lineBytes[j]
    BY <2>2, <2>4, <2>5 DEF t
  <2>6. t = lineBytes
    BY <1>1, <2>5, <2>7, SeqEqual
  <2> QED BY <2>6 DEF a, t
<1>4. \A line \in Seq(Bytes) : Decoder!Without("bom", line) \in Seq(Bytes)
  BY DEF Decoder!Without
<1>5. (N + 1) - 1 = N
  BY <1>1
<1>6. Decoder!WholeLine(N + 1) = IF Begun = 1 THEN Decoder!Without("bom", lineBytes) ELSE lineBytes
  <2>1. SubSeq(wire, Decoder!LineStart(N + 1), (N + 1) - 1) = lineBytes
    BY <1>2, <1>3, <1>5
  <2> QED BY <1>2, <2>1 DEF Decoder!WholeLine
<1>7. started <=> Begun # 1
  BY DEF LineInHand
<1> QED BY <1>1, <1>4, <1>6, <1>7 DEF Decoder!Line

(* The lines of a longer stream can be found once its last one can. *)
LEMMA StillFound ==
    ASSUME wire \in Seq(Bytes), Found, NEW b \in Bytes, wire' = Append(wire, b),
           NEW N \in Nat, N = Len(wire),
           NEW s, Decoder!BeginsAt(N + 2, s)', Listed(Decoder!Fields(N + 2)'), Listed(Decoder!Blocks')
    PROVE  Found'
<1>1. Len(wire') = N + 1
  BY OneMore
<1>2. \A i \in 1..N + 1 : Decoder!BeginsAt(i, Decoder!LineStart(i)) /\ Listed(Decoder!Fields(i))
  BY DEF Found
<1>3. \A i \in 1..N + 1 : Decoder!BeginsAt(i, Decoder!LineStart(i))' /\ Listed(Decoder!Fields(i)')
  BY <1>2, OneMore
<1>4. Decoder!BeginsAt(N + 2, Decoder!LineStart(N + 2))'
  <2>1. s \in 1..N + 2
    BY DEF Decoder!BeginsAt
  <2>2. s \in {t \in 1..N + 2 : Decoder!BeginsAt(N + 2, t)'}
    BY <2>1
  <2>3. Decoder!LineStart(N + 2)' \in {t \in 1..N + 2 : Decoder!BeginsAt(N + 2, t)'}
    BY <2>2 DEF Decoder!LineStart
  <2> QED BY <2>3
<1>5. \A i \in 1..Len(wire') + 1 : i \in 1..N + 1 \/ i = N + 2
  BY <1>1
<1>6. \A i \in 1..Len(wire') + 1 : Decoder!BeginsAt(i, Decoder!LineStart(i))' /\ Listed(Decoder!Fields(i)')
  BY <1>3, <1>4, <1>5
<1> QED BY <1>6 DEF Found, Listed

(* A byte that ends no line: no line, field or block is added. *)
LEMMA SameLines ==
    ASSUME wire \in Seq(Bytes), Found, NEW b \in Bytes, wire' = Append(wire, b),
           NEW N \in Nat, N = Len(wire), N + 1 \notin Decoder!Breaks'
    PROVE  /\ Decoder!Blocks' = Decoder!Blocks
           /\ Decoder!Fields(N + 2)' = Decoder!Fields(N + 1)
           /\ Decoder!Blanks' = Decoder!Blanks
<1>1. Decoder!Breaks' = Decoder!Breaks
  <2>1. \A i \in 1..N + 1 : i # N + 1 => i \in 1..N
    OBVIOUS
  <2> QED BY <2>1, OneMore
<1>2. Decoder!Blanks' = Decoder!Blanks
  <2>1. Decoder!Blanks \subseteq Decoder!Breaks /\ Decoder!Blanks' \subseteq Decoder!Breaks'
    BY DEF Decoder!Blanks
  <2> QED BY <1>1, <2>1, OneMore
<1>3. Decoder!Blocks' = Decoder!Blocks
  <2>1. Decoder!Blocks \subseteq Decoder!Blanks /\ Decoder!Blocks' \subseteq Decoder!Blanks' /\ Decoder!Blanks \subseteq Decoder!Breaks
    BY DEF Decoder!Blocks, Decoder!Blanks
  <2> QED BY <1>2, <2>1, OneMore
<1>4. \A j \in Decoder!Breaks : j \in 1..N /\ j < N + 1 /\ j < N + 2 /\ Decoder!WholeLine(j)' = Decoder!WholeLine(j)
  BY OneMore
<1>5. \A j \in Decoder!Breaks : Decoder!IsData(Decoder!WholeLine(j))' <=> Decoder!IsData(Decoder!WholeLine(j))
  BY <1>4 DEF Decoder!IsData
<1>6. Decoder!Blanks \subseteq Decoder!Breaks
  BY DEF Decoder!Blanks
<1>7. Decoder!Fields(N + 1) = {j \in Decoder!Breaks : Decoder!IsData(Decoder!WholeLine(j)) /\ \A c \in Decoder!Blanks : c < j}
  BY <1>4, <1>6 DEF Decoder!Fields
<1>8. Decoder!Fields(N + 2)' = {j \in Decoder!Breaks : Decoder!IsData(Decoder!WholeLine(j))' /\ \A c \in Decoder!Blanks : c < j}
  BY <1>1, <1>2, <1>4, <1>6 DEF Decoder!Fields
<1> QED BY <1>2, <1>3, <1>5, <1>7, <1>8

(* What the last line adds to the data in hand. *)
LEMMA OneLine ==
    ASSUME wire \in Seq(Bytes), Found, NEW b \in Bytes, wire' = Append(wire, b),
           NEW N \in Nat, N = Len(wire), N + 1 \in Decoder!Breaks', Decoder!WholeLine(N + 1) # <<>>
    PROVE  /\ Decoder!Blocks' = Decoder!Blocks
           /\ Decoder!Blanks' = Decoder!Blanks
           /\ Decoder!Fields(N + 2)' = IF Decoder!IsData(Decoder!WholeLine(N + 1)) THEN Decoder!Fields(N + 1) \cup {N + 1}
                                       ELSE Decoder!Fields(N + 1)
<1>1. Decoder!Breaks' = Decoder!Breaks \cup {N + 1}
  <2>1. \A i \in 1..N + 1 : i \in 1..N \/ i = N + 1
    OBVIOUS
  <2> QED BY <2>1, OneMore
<1>9. Decoder!WholeLine(N + 1)' = Decoder!WholeLine(N + 1)
  BY OneMore
<1>2. Decoder!Blanks' = Decoder!Blanks
  <2>1. Decoder!Blanks \subseteq Decoder!Breaks /\ Decoder!Blanks' \subseteq Decoder!Breaks'
    BY DEF Decoder!Blanks
  <2>2. N + 1 \notin Decoder!Blanks' /\ N + 1 \notin Decoder!Blanks
    BY <1>9 DEF Decoder!Blanks
  <2> QED BY <1>1, <2>1, <2>2, OneMore
<1>3. Decoder!Blocks' = Decoder!Blocks
  <2>1. Decoder!Blocks \subseteq Decoder!Blanks /\ Decoder!Blocks' \subseteq Decoder!Blanks' /\ Decoder!Blanks \subseteq Decoder!Breaks
    BY DEF Decoder!Blocks, Decoder!Blanks
  <2> QED BY <1>2, <2>1, OneMore
<1>4. \A j \in Decoder!Breaks : j \in 1..N /\ j < N + 1 /\ j < N + 2 /\ Decoder!WholeLine(j)' = Decoder!WholeLine(j)
  BY OneMore
<1>5. \A j \in Decoder!Breaks' : Decoder!IsData(Decoder!WholeLine(j))' <=> Decoder!IsData(Decoder!WholeLine(j))
  BY <1>1, <1>4, <1>9 DEF Decoder!IsData
<1>6. Decoder!Blanks \subseteq Decoder!Breaks
  BY DEF Decoder!Blanks
<1>7. Decoder!Fields(N + 1) = {j \in Decoder!Breaks : Decoder!IsData(Decoder!WholeLine(j)) /\ \A c \in Decoder!Blanks : c < j}
  BY <1>4, <1>6 DEF Decoder!Fields
<1>8. Decoder!Fields(N + 2)' = {j \in Decoder!Breaks' : Decoder!IsData(Decoder!WholeLine(j))' /\ \A c \in Decoder!Blanks : c < j}
  <2>1. \A j \in Decoder!Breaks' : j < N + 2
    BY <1>1, <1>4
  <2> QED BY <1>2, <1>4, <1>6, <2>1 DEF Decoder!Fields
<1>10. \A c \in Decoder!Blanks : c < N + 1
  BY <1>4, <1>6
<1>11. Decoder!Fields(N + 2)' = {j \in Decoder!Breaks \cup {N + 1} :
                                   Decoder!IsData(Decoder!WholeLine(j)) /\ \A c \in Decoder!Blanks : c < j}
  BY <1>1, <1>5, <1>8
<1> QED BY <1>2, <1>3, <1>7, <1>10, <1>11

(* A blank line ends the block in hand. *)
LEMMA OneBlank ==
    ASSUME wire \in Seq(Bytes), Found, NEW b \in Bytes, wire' = Append(wire, b),
           NEW N \in Nat, N = Len(wire), N + 1 \in Decoder!Breaks', Decoder!WholeLine(N + 1) = <<>>
    PROVE  /\ Decoder!Blocks' = IF Decoder!Fields(N + 1) # {} THEN Decoder!Blocks \cup {N + 1} ELSE Decoder!Blocks
           /\ Decoder!Fields(N + 2)' = {}
<1>1. Decoder!Breaks' = Decoder!Breaks \cup {N + 1}
  <2>1. \A i \in 1..N + 1 : i \in 1..N \/ i = N + 1
    OBVIOUS
  <2> QED BY <2>1, OneMore
<1>9. Decoder!WholeLine(N + 1)' = <<>>
  BY OneMore
<1>4. \A j \in Decoder!Breaks : j \in 1..N /\ j < N + 1
  BY OneMore
<1>2. Decoder!Blanks' = Decoder!Blanks \cup {N + 1}
  <2>1. Decoder!Blanks \subseteq Decoder!Breaks /\ Decoder!Blanks' \subseteq Decoder!Breaks'
    BY DEF Decoder!Blanks
  <2>2. N + 1 \in Decoder!Blanks'
    BY <1>9 DEF Decoder!Blanks
  <2> QED BY <1>1, <1>4, <2>1, <2>2, OneMore
<1>3. Decoder!Blocks' = IF Decoder!Fields(N + 1) # {} THEN Decoder!Blocks \cup {N + 1} ELSE Decoder!Blocks
  <2>1. Decoder!Blocks \subseteq Decoder!Blanks /\ Decoder!Blocks' \subseteq Decoder!Blanks' /\ Decoder!Blanks \subseteq Decoder!Breaks
    BY DEF Decoder!Blocks, Decoder!Blanks
  <2>2. N + 1 \in Decoder!Blocks' <=> Decoder!Fields(N + 1)' # {}
    BY <1>2 DEF Decoder!Blocks
  <2>3. Decoder!Fields(N + 1)' = Decoder!Fields(N + 1)
    BY OneMore
  <2>4. \A i \in Decoder!Blanks : i \in Decoder!Blocks' <=> i \in Decoder!Blocks
    BY <1>4, <2>1, OneMore
  <2>5. N + 1 \notin Decoder!Blocks
    BY <1>4, <2>1
  <2>6. CASE Decoder!Fields(N + 1) # {}
    BY <1>2, <2>1, <2>2, <2>3, <2>4, <2>5, <2>6
  <2>7. CASE Decoder!Fields(N + 1) = {}
    <3>1. N + 1 \notin Decoder!Blocks'
      BY <2>2, <2>3, <2>7
    <3>2. \A i : i \in Decoder!Blocks' <=> i \in Decoder!Blocks
      BY <1>2, <2>1, <2>4, <3>1
    <3> QED BY <2>7, <3>2
  <2> QED BY <2>6, <2>7
<1>5. ASSUME NEW j \in Decoder!Fields(N + 2)' PROVE FALSE
  <2>1. N + 1 < j /\ j \in Decoder!Breaks'
    BY <1>2 DEF Decoder!Fields
  <2> QED BY <1>1, <1>4, <2>1
<1> QED BY <1>3, <1>5

LEMMA AppendIs ==
    ASSUME NEW X, NEW s \in Seq(X), NEW e \in X, NEW m \in Nat, Len(s) = m,
           NEW f \in [1..m + 1 -> X], \A n \in 1..m : f[n] = s[n], f[m + 1] = e
    PROVE  f = Append(s, e)
<1>1. \A n \in 1..m + 1 : n \in 1..m \/ n = m + 1
  OBVIOUS
<1>3. f \in Seq(X) /\ Len(f) = m + 1
  BY IsASeq
<1>4. Append(s, e) \in Seq(X) /\ Len(Append(s, e)) = m + 1 /\ Append(s, e)[m + 1] = e
      /\ \A n \in 1..m : Append(s, e)[n] = s[n]
  BY AppendProperties
<1>5. \A n \in 1..m + 1 : f[n] = Append(s, e)[n]
  BY <1>1, <1>4
<1> QED BY <1>3, <1>4, <1>5, SeqEqual

LEMMA CountIs ==
    ASSUME NEW X, NEW s \in Seq(X), NEW m \in Nat, DOMAIN s = 1..m
    PROVE  Len(s) = m
<1>1. DOMAIN s = 1..m /\ DOMAIN s = 1..Len(s) /\ Len(s) \in Nat
  OBVIOUS
<1>2. \A a \in Nat, c \in Nat : 1..a = 1..c => a = c
  <2>1. ASSUME NEW a \in Nat, NEW c \in Nat, 1..a = 1..c, a < c PROVE FALSE
    <3>1. c \in 1..c /\ c \notin 1..a
      BY <2>1
    <3> QED BY <2>1, <3>1
  <2>2. \A a \in Nat, c \in Nat : a < c \/ a = c \/ c < a
    OBVIOUS
  <2> QED BY <2>1, <2>2
<1> QED BY <1>1, <1>2

(* The block in hand after a byte, from the fields it now has. *)
LEMMA SameBlock ==
    ASSUME wire \in Seq(Bytes), Found, NEW b \in Bytes, wire' = Append(wire, b),
           NEW N \in Nat, N = Len(wire), Decoder!Fields(N + 2)' = Decoder!Fields(N + 1)
    PROVE  Decoder!Block(N + 2)' = Decoder!Block(N + 1) /\ Listed(Decoder!Fields(N + 2)')
<1> PICK F : F = Decoder!Fields(N + 1)
  OBVIOUS
<1>1. Listed(F) /\ F \subseteq 1..N
  <2>1. Decoder!Fields(N + 1) \subseteq Decoder!Breaks /\ N + 1 \in 1..N + 1
    BY DEF Decoder!Fields
  <2> QED BY <2>1, OneMore DEF Found
<1>2. \A n \in 1..Cardinality(F) : Decoder!Nth(F, n) \in 1..N + 1
  BY <1>1 DEF Listed
<1>3. \A n \in 1..Cardinality(F) : Decoder!WholeLine(Decoder!Nth(F, n))' = Decoder!WholeLine(Decoder!Nth(F, n))
  <2>1. \A i \in 1..N + 1 : Decoder!WholeLine(i)' = Decoder!WholeLine(i)
    BY OneMore
  <2> QED BY <1>2, <2>1
<1>4. Decoder!Block(N + 1) = [n \in 1..Cardinality(F) |-> Decoder!Value(Decoder!WholeLine(Decoder!Nth(F, n)))]
  BY DecoderCardinality DEF Decoder!Block
<1>5. Decoder!Block(N + 2)' = [n \in 1..Cardinality(F) |-> Decoder!Value(Decoder!WholeLine(Decoder!Nth(F, n))')]
  BY DecoderCardinality DEF Decoder!Block, Decoder!Value, Decoder!Without
<1>6. Decoder!Fields(N + 2)' = F
  OBVIOUS
<1> QED BY <1>1, <1>3, <1>4, <1>5, <1>6

LEMMA MoreOfBlock ==
    ASSUME DecoderType, Found, NEW b \in Bytes, wire' = Append(wire, b),
           NEW N \in Nat, N = Len(wire), Decoder!Fields(N + 2)' = Decoder!Fields(N + 1) \cup {N + 1},
           data = Decoder!Block(N + 1), Decoder!Value(Decoder!WholeLine(N + 1)) \in Seq(Bytes)
    PROVE  /\ Decoder!Block(N + 2)' = Append(data, Decoder!Value(Decoder!WholeLine(N + 1)))
           /\ Listed(Decoder!Fields(N + 2)')
<1> PICK F : F = Decoder!Fields(N + 1)
  OBVIOUS
<1> DEFINE G == F \cup {N + 1}  m == Cardinality(F)
<1>1. Listed(F) /\ F \subseteq 1..N /\ \A i \in F : i < N + 1
  <2>1. Decoder!Fields(N + 1) \subseteq Decoder!Breaks /\ N + 1 \in 1..N + 1
    BY DEF Decoder!Fields
  <2> QED BY <2>1, OneMore DEF Found, DecoderType
<1>2. /\ m \in Nat /\ Cardinality(G) = m + 1 /\ Listed(G)
      /\ NumbersKept(F, G) /\ Decoder!Nth(G, m + 1) = N + 1
  <2>1. Listed(F) /\ F \subseteq 1..N
    BY <1>1
  <2>2. m \in Nat /\ Cardinality(G) = m + 1 /\ Listed(G)
    BY <2>1, ByPosition
  <2>3. NumbersKept(F, G)
    BY <2>1, ByPosition
  <2>4. Decoder!Nth(G, m + 1) = N + 1
    BY <2>1, ByPosition
  <2> QED BY <2>2, <2>3, <2>4
<1>20. \A n \in 1..m : Decoder!Nth(G, n) = Decoder!Nth(F, n)
  BY <1>2 DEF NumbersKept
<1> HIDE DEF m, G
<1>3. \A n \in 1..m : Decoder!Nth(F, n) \in 1..N + 1
  BY <1>1 DEF Listed, m
<1>4. \A i \in 1..N + 1 : Decoder!Value(Decoder!WholeLine(i))' = Decoder!Value(Decoder!WholeLine(i))
  <2>1. \A i \in 1..N + 1 : Decoder!WholeLine(i)' = Decoder!WholeLine(i)
    BY OneMore DEF DecoderType
  <2> QED BY <2>1 DEF Decoder!Value, Decoder!Without
<1>5. data = [n \in 1..m |-> Decoder!Value(Decoder!WholeLine(Decoder!Nth(F, n)))]
  BY DecoderCardinality DEF Decoder!Block, m
<1>6. Decoder!Block(N + 2)' = [n \in 1..m + 1 |-> Decoder!Value(Decoder!WholeLine(Decoder!Nth(G, n)))']
  BY <1>2, DecoderCardinality DEF Decoder!Block, G
<1> PICK f : f = Decoder!Block(N + 2)'
  OBVIOUS
<1>7. f = [n \in 1..m + 1 |-> f[n]]
  BY <1>6
<1>8. \A n \in 1..m : f[n] = data[n]
  <2>1. \A n \in 1..m : n \in 1..m + 1
    BY <1>2
  <2>2. \A n \in 1..m : f[n] = Decoder!Value(Decoder!WholeLine(Decoder!Nth(F, n)))
    BY <1>3, <1>4, <1>6, <1>20, <2>1
  <2> QED BY <1>5, <2>2
<1>9. f[m + 1] = Decoder!Value(Decoder!WholeLine(N + 1))
  <2>1. m + 1 \in 1..m + 1 /\ N + 1 \in 1..N + 1
    BY <1>2
  <2> QED BY <1>2, <1>4, <1>6, <2>1
<1>10. data \in Seq(Seq(Bytes)) /\ Len(data) = m
  BY <1>2, <1>5, CountIs DEF DecoderType
<1>12. f \in [1..m + 1 -> Seq(Bytes)]
  <2>1. \A n \in 1..m : data[n] \in Seq(Bytes)
    BY <1>10
  <2>2. \A n \in 1..m + 1 : n \in 1..m \/ n = m + 1
    BY <1>2
  <2> QED BY <1>7, <1>8, <1>9, <2>1, <2>2
<1>11. f = Append(data, Decoder!Value(Decoder!WholeLine(N + 1)))
  BY <1>2, <1>8, <1>9, <1>10, <1>12, AppendIs
<1> QED BY <1>2, <1>11 DEF G

(* The events after a byte, from the blocks there are. *)
LEMMA SameMeaning ==
    ASSUME wire \in Seq(Bytes), Found, NEW b \in Bytes, wire' = Append(wire, b), Decoder!Blocks' = Decoder!Blocks
    PROVE  Decoder!Meaning' = Decoder!Meaning /\ Listed(Decoder!Blocks')
<1> PICK N \in Nat : N = Len(wire)
  BY OneMore
<1> PICK F : F = Decoder!Blocks
  OBVIOUS
<1>1. Listed(F) /\ F \subseteq 1..N /\ \A i \in 1..N : i \in 1..N + 1
  <2>1. Decoder!Blocks \subseteq Decoder!Breaks
    BY DEF Decoder!Blocks, Decoder!Blanks
  <2> QED BY <2>1, OneMore DEF Found
<1>2. \A n \in 1..Cardinality(F) : Decoder!Nth(F, n) \in 1..N + 1
  BY <1>1 DEF Listed
<1>3. \A n \in 1..Cardinality(F) : Decoder!Block(Decoder!Nth(F, n))' = Decoder!Block(Decoder!Nth(F, n))
  <2>1. \A i \in 1..N + 1 : Decoder!Block(i)' = Decoder!Block(i)
    BY OneMore
  <2> QED BY <1>2, <2>1
<1>4. Decoder!Meaning = [n \in 1..Cardinality(F) |-> Decoder!Block(Decoder!Nth(F, n))]
  BY DecoderCardinality DEF Decoder!Meaning
<1>5. Decoder!Blocks' = F
  OBVIOUS
<1>6. Decoder!Meaning' = [n \in 1..Cardinality(F) |-> Decoder!Block(Decoder!Nth(F, n))']
  BY <1>5, DecoderCardinality DEF Decoder!Meaning
<1> QED BY <1>1, <1>3, <1>4, <1>5, <1>6

LEMMA OneEventMore ==
    ASSUME DecoderType, Found, NEW b \in Bytes, wire' = Append(wire, b),
           NEW N \in Nat, N = Len(wire), Decoder!Blocks' = Decoder!Blocks \cup {N + 1},
           Decoder!Meaning \in Seq(Seq(Seq(Bytes))), Decoder!Block(N + 1) \in Seq(Seq(Bytes))
    PROVE  /\ Decoder!Meaning' = Append(Decoder!Meaning, Decoder!Block(N + 1))
           /\ Listed(Decoder!Blocks')
<1> PICK F : F = Decoder!Blocks
  OBVIOUS
<1> DEFINE G == F \cup {N + 1}  m == Cardinality(F)
<1>1. Listed(F) /\ F \subseteq 1..N /\ \A i \in F : i < N + 1 /\ i \in 1..N + 1
  <2>1. Decoder!Blocks \subseteq Decoder!Breaks
    BY DEF Decoder!Blocks, Decoder!Blanks
  <2> QED BY <2>1, OneMore DEF Found, DecoderType
<1>2. /\ m \in Nat /\ Cardinality(G) = m + 1 /\ Listed(G)
      /\ NumbersKept(F, G) /\ Decoder!Nth(G, m + 1) = N + 1
  <2>1. Listed(F) /\ F \subseteq 1..N
    BY <1>1
  <2>2. m \in Nat /\ Cardinality(G) = m + 1 /\ Listed(G)
    BY <2>1, ByPosition
  <2>3. NumbersKept(F, G)
    BY <2>1, ByPosition
  <2>4. Decoder!Nth(G, m + 1) = N + 1
    BY <2>1, ByPosition
  <2> QED BY <2>2, <2>3, <2>4
<1>20. \A n \in 1..m : Decoder!Nth(G, n) = Decoder!Nth(F, n)
  BY <1>2 DEF NumbersKept
<1> HIDE DEF m, G
<1>3. \A n \in 1..m : Decoder!Nth(F, n) \in 1..N + 1
  BY <1>1 DEF Listed, m
<1>4. \A i \in 1..N + 1 : Decoder!Block(i)' = Decoder!Block(i)
  BY OneMore DEF DecoderType
<1>5. Decoder!Meaning = [n \in 1..m |-> Decoder!Block(Decoder!Nth(F, n))]
  BY DecoderCardinality DEF Decoder!Meaning, m
<1>6. Decoder!Meaning' = [n \in 1..m + 1 |-> Decoder!Block(Decoder!Nth(G, n))']
  <2>1. Decoder!Blocks' = G
    BY DEF G
  <2> QED BY <1>2, <2>1, DecoderCardinality DEF Decoder!Meaning
<1> PICK f : f = Decoder!Meaning'
  OBVIOUS
<1>7. f = [n \in 1..m + 1 |-> f[n]]
  BY <1>6
<1>8. \A n \in 1..m : f[n] = Decoder!Meaning[n]
  <2>1. \A n \in 1..m : n \in 1..m + 1
    BY <1>2
  <2>2. \A n \in 1..m : f[n] = Decoder!Block(Decoder!Nth(F, n))
    BY <1>3, <1>4, <1>6, <1>20, <2>1
  <2> QED BY <1>5, <2>2
<1>9. f[m + 1] = Decoder!Block(N + 1)
  <2>1. m + 1 \in 1..m + 1 /\ N + 1 \in 1..N + 1
    BY <1>2
  <2> QED BY <1>2, <1>4, <1>6, <2>1
<1>10. Len(Decoder!Meaning) = m
  BY <1>2, <1>5, CountIs
<1>12. f \in [1..m + 1 -> Seq(Seq(Bytes))]
  <2>1. \A n \in 1..m : Decoder!Meaning[n] \in Seq(Seq(Bytes))
    BY <1>10
  <2>2. \A n \in 1..m + 1 : n \in 1..m \/ n = m + 1
    BY <1>2
  <2> QED BY <1>7, <1>8, <1>9, <2>1, <2>2
<1>11. f = Append(Decoder!Meaning, Decoder!Block(N + 1))
  BY <1>2, <1>8, <1>9, <1>10, <1>12, AppendIs
<1> QED BY <1>2, <1>11 DEF G

(* The bytes in hand after a byte of the line, and after the end of one. *)
LEMMA LineGoesOn ==
    ASSUME DecoderType, LineInHand, Found, NEW b \in Bytes, wire' = Append(wire, b), NEW N \in Nat, N = Len(wire),
           b \notin {"cr", "lf"}, lineBytes' = Append(lineBytes, b), started' = started, ~skipLf',
           NEW s, s = Begun
    PROVE  LineInHand' /\ Decoder!BeginsAt(N + 2, s)'
<1>1. /\ s \in 1..N + 1 /\ Len(lineBytes) = N + 1 - s /\ Len(lineBytes) \in Nat /\ lineBytes \in Seq(Bytes)
  BY DEF DecoderType, LineInHand, Decoder!BeginsAt, Begun
<1>2. /\ Len(wire') = N + 1 /\ wire'[N + 1] = b /\ \A i \in 1..N : wire'[i] = wire[i]
      /\ Decoder!BeginsAt(N + 1, s)' <=> Decoder!BeginsAt(N + 1, s)
  <2>1. Len(wire') = N + 1 /\ wire'[N + 1] = b /\ \A i \in 1..N : wire'[i] = wire[i]
    BY OneMore DEF DecoderType
  <2>2. \A i \in 1..N + 1 : \A t : Decoder!BeginsAt(i, t)' <=> Decoder!BeginsAt(i, t)
    BY OneMore DEF DecoderType
  <2>3. N + 1 \in 1..N + 1
    OBVIOUS
  <2> QED BY <2>1, <2>2, <2>3
<1>3. Len(lineBytes') = N + 2 - s /\ Begun' = s
  BY <1>1, <1>2 DEF Begun
<1>4. Decoder!BeginsAt(N + 2, s)'
  <2>1. Decoder!BeginsAt(N + 1, s)'
    BY <1>2 DEF LineInHand
  <2>2. s \in 1..N + 2 /\ \A j \in s..(N + 2) - 1 : j \in s..(N + 1) - 1 \/ j = N + 1
    BY <1>1
  <2> QED BY <1>2, <2>1, <2>2 DEF Decoder!BeginsAt, Decoder!Ends
<1>5. \A j \in 1..Len(lineBytes') : lineBytes'[j] = wire'[(s + j) - 1]
  <2> SUFFICES ASSUME NEW j \in 1..Len(lineBytes') PROVE lineBytes'[j] = wire'[(s + j) - 1]
    OBVIOUS
  <2>1. CASE j \in 1..Len(lineBytes)
    <3>1. lineBytes'[j] = lineBytes[j]
      BY <1>1, <2>1
    <3>2. lineBytes[j] = wire[(s + j) - 1]
      BY <2>1 DEF LineInHand
    <3>3. (s + j) - 1 \in 1..N
      BY <1>1, <2>1
    <3> QED BY <1>2, <3>1, <3>2, <3>3
  <2>2. CASE j = Len(lineBytes) + 1
    <3>1. lineBytes'[j] = b
      <4>1. Append(lineBytes, b)[Len(lineBytes) + 1] = b
        BY <1>1, AppendProperties
      <4> QED BY <2>2, <4>1
    <3>2. (s + j) - 1 = N + 1
      BY <1>1, <2>2
    <3> QED BY <1>2, <3>1, <3>2
  <2> QED BY <1>1, <1>3, <2>1, <2>2
<1>6. ~(Len(wire') > 0 /\ wire'[Len(wire')] = "cr")
  BY <1>2
<1>7. Decoder!BeginsAt(Len(wire) + 1, Begun)'
  BY <1>2, <1>3, <1>4 DEF Decoder!BeginsAt
<1>8. started' <=> s # 1
  BY DEF LineInHand
<1> QED BY <1>3, <1>4, <1>5, <1>6, <1>7, <1>8 DEF LineInHand

LEMMA LineBegins ==
    ASSUME DecoderType, Found, NEW b \in Bytes, wire' = Append(wire, b), NEW N \in Nat, N = Len(wire),
           b \in {"cr", "lf"}, lineBytes' = <<>>, started', skipLf' <=> b = "cr"
    PROVE  LineInHand' /\ Decoder!BeginsAt(N + 2, N + 2)'
<1>2. /\ Len(wire') = N + 1 /\ wire'[N + 1] = b
  BY OneMore DEF DecoderType
<1>3. Len(lineBytes') = 0 /\ Begun' = N + 2
  BY <1>2 DEF Begun
<1>4. Decoder!BeginsAt(N + 2, N + 2)'
  <2>1. (N + 2) - 1 = N + 1 /\ N + 2 \in 1..N + 2 /\ (N + 2)..(N + 2) - 1 = {}
    OBVIOUS
  <2> QED BY <1>2, <2>1 DEF Decoder!BeginsAt, Decoder!Ends
<1>5. skipLf' <=> Len(wire') > 0 /\ wire'[Len(wire')] = "cr"
  BY <1>2
<1>7. Decoder!BeginsAt(Len(wire) + 1, Begun)'
  BY <1>2, <1>3, <1>4 DEF Decoder!BeginsAt
<1>8. started' <=> N + 2 # 1
  OBVIOUS
<1>9. \A j \in 1..Len(lineBytes') : lineBytes'[j] = wire'[(Begun' + j) - 1]
  BY <1>3
<1> QED BY <1>3, <1>4, <1>5, <1>7, <1>8, <1>9 DEF LineInHand

(* A byte that is pushed. *)
LEMMA PushIsDecoded ==
    ASSUME DecoderInv, NEW b \in Bytes, Decoder!Push(b)
    PROVE  DecoderInv'
<1>1. /\ DecoderType /\ LineInHand /\ Found /\ ReadSoFar
      /\ wire' = Append(wire, b) /\ delivered' = delivered /\ wire \in Seq(Bytes)
  BY DEF DecoderInv, DecoderType, Decoder!Push
<1> PICK N \in Nat : N = Len(wire)
  BY <1>1, OneMore
<1> PICK l : l = Decoder!WholeLine(N + 1)
  OBVIOUS
<1>2. l = Decoder!Line /\ l \in Seq(Bytes)
  BY <1>1, LineIsWhole
<1>3. Decoder!Value(l) \in Seq(Bytes)
  BY <1>2 DEF Decoder!Value, Decoder!Without
<1>4. /\ data = Decoder!Block(N + 1) /\ Decoder!Meaning = delivered \o events
      /\ data \in Seq(Seq(Bytes)) /\ Decoder!Meaning \in Seq(Seq(Seq(Bytes)))
      /\ delivered \in Seq(Seq(Seq(Bytes))) /\ events \in Seq(Seq(Seq(Bytes)))
  <2>1. data = Decoder!Block(N + 1) /\ Decoder!Meaning = delivered \o events
    BY <1>1 DEF ReadSoFar
  <2>2. data \in Seq(Seq(Bytes)) /\ delivered \in Seq(Seq(Seq(Bytes))) /\ events \in Seq(Seq(Seq(Bytes)))
    BY <1>1 DEF DecoderType
  <2>3. delivered \o events \in Seq(Seq(Seq(Bytes)))
    BY <2>2, ConcatProperties
  <2> QED BY <2>1, <2>2, <2>3
<1>5. wire' \in Seq(Bytes) /\ Len(wire') = N + 1 /\ wire'[N + 1] = b /\ DOMAIN wire' = 1..N + 1 /\ \A i \in 1..N : wire'[i] = wire[i]
  BY <1>1, OneMore
<1>6. N + 1 \in Decoder!Breaks' <=> b = "cr" \/ (b = "lf" /\ ~skipLf)
  <2>1. skipLf <=> N + 1 > 1 /\ wire'[(N + 1) - 1] = "cr"
    <3>1. N > 0 => wire'[(N + 1) - 1] = wire[N]
      BY <1>5
    <3> QED BY <1>1, <3>1 DEF LineInHand
  <2> QED BY <1>5, <2>1 DEF Decoder!Breaks
<1>7. data # <<>> <=> Decoder!Fields(N + 1) # {}
  <2> PICK F : F = Decoder!Fields(N + 1)
    OBVIOUS
  <2>1. IsFiniteSet(F) /\ Cardinality(F) \in Nat
    BY <1>1, FS_CardinalityType DEF Found, Listed
  <2>2. DOMAIN data = 1..Cardinality(F)
    BY <1>4, DecoderCardinality DEF Decoder!Block
  <2>3. Len(data) = Cardinality(F)
    BY <1>4, <2>1, <2>2, CountIs
  <2>4. Cardinality(F) = 0 <=> F = {}
    BY <2>1, FS_EmptySet
  <2> QED BY <1>4, <2>3, <2>4
<1>8. CASE skipLf /\ b = "lf" /\ chunk' = "inside" /\ skipLf' = FALSE /\ UNCHANGED <<lineBytes, data, eventSize, started, events>>
  <2>1. lineBytes = <<>> /\ started
    <3>1. Begun \in 1..N + 1 /\ N > 0 /\ wire[N] = "cr" /\ \A j \in Begun..(N + 1) - 1 : wire[j] \notin {"cr", "lf"}
      BY <1>1, <1>8 DEF LineInHand, Decoder!BeginsAt, Decoder!Ends
    <3>2. Begun = N + 1
      BY <3>1
    <3>3. Len(lineBytes) = 0
      BY <1>1, <3>2 DEF Begun, DecoderType
    <3> QED BY <1>1, <3>1, <3>2, <3>3 DEF LineInHand, DecoderType
  <2>2. LineInHand' /\ Decoder!BeginsAt(N + 2, N + 2)'
    BY <1>1, <1>8, <2>1, LineBegins
  <2>3. N + 1 \notin Decoder!Breaks'
    BY <1>6, <1>8
  <2>4. /\ Decoder!Blocks' = Decoder!Blocks
        /\ Decoder!Fields(N + 2)' = Decoder!Fields(N + 1)
    BY <1>1, <2>3, SameLines
  <2>5. Decoder!Block(N + 2)' = data /\ Listed(Decoder!Fields(N + 2)')
    BY <1>1, <1>4, <2>4, SameBlock
  <2>6. Decoder!Meaning' = Decoder!Meaning /\ Listed(Decoder!Blocks')
    BY <1>1, <2>4, SameMeaning
  <2>7. Found'
    BY <1>1, <2>2, <2>5, <2>6, StillFound
  <2>8. ReadSoFar'
    BY <1>1, <1>4, <1>5, <1>8, <2>5, <2>6 DEF ReadSoFar
  <2>9. DecoderType'
    <3>1. lineBytes' = lineBytes /\ data' = data /\ started' = started /\ events' = events /\ skipLf' = FALSE /\ delivered' = delivered
      BY <1>1, <1>8 DEF DecoderType, Decoder!Push
    <3> QED BY <1>1, <1>5, <3>1 DEF DecoderType
  <2> QED BY <2>2, <2>7, <2>8, <2>9 DEF DecoderInv
<1>9. CASE b \notin {"cr", "lf"} /\ chunk' = "inside" /\ Decoder!Content(b)
  <2>1. lineBytes' = Append(lineBytes, b) /\ ~skipLf' /\ data' = data /\ started' = started /\ events' = events
    BY <1>9 DEF Decoder!Content
  <2> PICK s : s = Begun
    OBVIOUS
  <2>2. LineInHand' /\ Decoder!BeginsAt(N + 2, s)'
    BY <1>1, <1>9, <2>1, LineGoesOn
  <2>3. N + 1 \notin Decoder!Breaks'
    BY <1>6, <1>9
  <2>4. /\ Decoder!Blocks' = Decoder!Blocks
        /\ Decoder!Fields(N + 2)' = Decoder!Fields(N + 1)
    BY <1>1, <2>3, SameLines
  <2>5. Decoder!Block(N + 2)' = data /\ Listed(Decoder!Fields(N + 2)')
    BY <1>1, <1>4, <2>4, SameBlock
  <2>6. Decoder!Meaning' = Decoder!Meaning /\ Listed(Decoder!Blocks')
    BY <1>1, <2>4, SameMeaning
  <2>7. Found'
    BY <1>1, <2>2, <2>5, <2>6, StillFound
  <2>8. ReadSoFar'
    BY <1>1, <1>4, <1>5, <1>9, <2>1, <2>5, <2>6 DEF ReadSoFar
  <2>9. DecoderType'
    <3>1. skipLf' = FALSE
      BY <1>9 DEF Decoder!Content
    <3>2. Append(lineBytes, b) \in Seq(Bytes)
      BY <1>1, AppendProperties DEF DecoderType
    <3> QED BY <1>1, <1>5, <2>1, <3>1, <3>2 DEF DecoderType
  <2> QED BY <2>2, <2>7, <2>8, <2>9 DEF DecoderInv
<1>10. CASE ~(skipLf /\ b = "lf") /\ chunk' = "inside" /\ Decoder!LineEnds(b)
  <2>1. b \in {"cr", "lf"} /\ lineBytes' = <<>> /\ started' = TRUE /\ skipLf' = (b = "cr")
    BY <1>10 DEF Decoder!LineEnds
  <2>2. LineInHand' /\ Decoder!BeginsAt(N + 2, N + 2)'
    BY <1>1, <2>1, LineBegins
  <2>3. N + 1 \in Decoder!Breaks'
    BY <1>6, <1>10, <2>1
  <2>4. CASE l = <<>>
    <3>1. data' = <<>> /\ events' = IF data # <<>> THEN Append(events, data) ELSE events
      <4>1. ~Decoder!IsData(l)
        BY <2>4 DEF Decoder!IsData
      <4> QED BY <1>2, <1>10, <2>4, <4>1 DEF Decoder!LineEnds
    <3>2. /\ Decoder!Blocks' = IF Decoder!Fields(N + 1) # {} THEN Decoder!Blocks \cup {N + 1} ELSE Decoder!Blocks
          /\ Decoder!Fields(N + 2)' = {}
      BY <1>1, <2>3, <2>4, OneBlank
    <3>3. Decoder!Block(N + 2)' = <<>> /\ Listed(Decoder!Fields(N + 2)')
      <4>1. Decoder!Block(N + 2)' = [n \in 1..0 |-> Decoder!Value(Decoder!WholeLine(Decoder!Nth({}, n)))']
        BY <3>2, NoneListed, DecoderCardinality DEF Decoder!Block
      <4>2. \A f : f = [n \in 1..0 |-> f[n]] => f = <<>>
        OBVIOUS
      <4> QED BY <3>2, <4>1, <4>2, NoneListed
    <3>4. Decoder!Meaning' = delivered' \o events' /\ Listed(Decoder!Blocks') /\ events' \in Seq(Seq(Seq(Bytes)))
      <4>1. CASE data # <<>>
        <5>1. Decoder!Blocks' = Decoder!Blocks \cup {N + 1}
          BY <1>7, <3>2, <4>1
        <5>2. Decoder!Meaning' = Append(Decoder!Meaning, data) /\ Listed(Decoder!Blocks')
          BY <1>1, <1>4, <5>1, OneEventMore
        <5>3. events' = Append(events, data)
          BY <3>1, <4>1
        <5>4. Append(delivered \o events, data) = delivered \o Append(events, data) /\ Append(events, data) \in Seq(Seq(Seq(Bytes)))
          <6> DEFINE X == Seq(Seq(Bytes))
          <6>1. delivered \in Seq(X) /\ events \in Seq(X) /\ data \in X
            BY <1>4
          <6> HIDE DEF X
          <6>2. Append(events, data) \in Seq(X) /\ delivered \o events \in Seq(X) /\ <<data>> \in Seq(X)
            BY <6>1
          <6>3. Append(delivered \o events, data) = (delivered \o events) \o <<data>> /\ Append(events, data) = events \o <<data>>
            BY <6>1, <6>2, AppendIsConcat
          <6>4. (delivered \o events) \o <<data>> = delivered \o (events \o <<data>>)
            BY <6>1, <6>2, ConcatAssociative
          <6> QED BY <6>2, <6>3, <6>4 DEF X
        <5> QED BY <1>1, <1>4, <5>2, <5>3, <5>4
      <4>2. CASE data = <<>>
        <5>1. Decoder!Blocks' = Decoder!Blocks
          BY <1>7, <3>2, <4>2
        <5> QED BY <1>1, <1>4, <3>1, <4>2, <5>1, SameMeaning
      <4> QED BY <4>1, <4>2
    <3>7. Found'
      BY <1>1, <2>2, <3>3, <3>4, StillFound
    <3>8. ReadSoFar'
      BY <1>5, <1>10, <3>1, <3>3, <3>4 DEF ReadSoFar
    <3>9. DecoderType'
      BY <1>1, <1>5, <2>1, <3>1, <3>4 DEF DecoderType
    <3> QED BY <2>2, <3>7, <3>8, <3>9 DEF DecoderInv
  <2>5. CASE l # <<>> /\ Decoder!IsData(l)
    <3>1. data' = Append(data, Decoder!Value(l)) /\ events' = events
      BY <1>2, <1>10, <2>5 DEF Decoder!LineEnds
    <3>2. Decoder!Blocks' = Decoder!Blocks /\ Decoder!Fields(N + 2)' = Decoder!Fields(N + 1) \cup {N + 1}
      BY <1>1, <2>3, <2>5, OneLine
    <3>3. Decoder!Block(N + 2)' = Append(data, Decoder!Value(l)) /\ Listed(Decoder!Fields(N + 2)')
      BY <1>1, <1>3, <1>4, <3>2, MoreOfBlock
    <3>6. Decoder!Meaning' = Decoder!Meaning /\ Listed(Decoder!Blocks')
      BY <1>1, <3>2, SameMeaning
    <3>7. Found'
      BY <1>1, <2>2, <3>3, <3>6, StillFound
    <3>8. ReadSoFar'
      BY <1>1, <1>4, <1>5, <1>10, <3>1, <3>3, <3>6 DEF ReadSoFar
    <3>10. Append(data, Decoder!Value(l)) \in Seq(Seq(Bytes))
      BY <1>3, <1>4
    <3>9. DecoderType'
      BY <1>1, <1>5, <2>1, <3>1, <3>10 DEF DecoderType
    <3> QED BY <2>2, <3>7, <3>8, <3>9 DEF DecoderInv
  <2>6. CASE l # <<>> /\ ~Decoder!IsData(l)
    <3>1. data' = data /\ events' = events
      BY <1>2, <1>10, <2>6 DEF Decoder!LineEnds
    <3>2. Decoder!Blocks' = Decoder!Blocks /\ Decoder!Fields(N + 2)' = Decoder!Fields(N + 1)
      BY <1>1, <2>3, <2>6, OneLine
    <3>3. Decoder!Block(N + 2)' = data /\ Listed(Decoder!Fields(N + 2)')
      BY <1>1, <1>4, <3>2, SameBlock
    <3>6. Decoder!Meaning' = Decoder!Meaning /\ Listed(Decoder!Blocks')
      BY <1>1, <3>2, SameMeaning
    <3>7. Found'
      BY <1>1, <2>2, <3>3, <3>6, StillFound
    <3>8. ReadSoFar'
      BY <1>1, <1>4, <1>5, <1>10, <3>1, <3>3, <3>6 DEF ReadSoFar
    <3>9. DecoderType'
      BY <1>1, <1>5, <2>1, <3>1 DEF DecoderType
    <3> QED BY <2>2, <3>7, <3>8, <3>9 DEF DecoderInv
  <2> QED BY <2>4, <2>5, <2>6
<1>11. CASE chunk' = "refused" /\ events' = <<>> /\ UNCHANGED <<lineBytes, data, eventSize, skipLf, started>>
  BY <1>1, <1>5, <1>11 DEF DecoderInv, DecoderType
<1> QED BY <1>8, <1>9, <1>10, <1>11 DEF Decoder!Push, Decoder!Content

(* A stream that grows no longer means what it meant. *)
LEMMA SameStream ==
    ASSUME wire' = wire
    PROVE  Found' = Found /\ Decoder!Meaning' = Decoder!Meaning /\ \A i : Decoder!Block(i)' = Decoder!Block(i)
<1>1. Decoder!Breaks' = Decoder!Breaks /\ \A i, s : Decoder!BeginsAt(i, s)' <=> Decoder!BeginsAt(i, s)
  BY DEF Decoder!Breaks, Decoder!BeginsAt, Decoder!Ends
<1>2. \A i : Decoder!LineStart(i)' = Decoder!LineStart(i)
  BY <1>1 DEF Decoder!LineStart
<1>3. \A i : Decoder!WholeLine(i)' = Decoder!WholeLine(i)
  BY <1>2 DEF Decoder!WholeLine, Decoder!Without
<1>4. Decoder!Blanks' = Decoder!Blanks
  BY <1>1, <1>3 DEF Decoder!Blanks
<1>5. \A i : Decoder!Fields(i)' = Decoder!Fields(i)
  BY <1>1, <1>3, <1>4 DEF Decoder!Fields, Decoder!IsData
<1>6. \A i : Decoder!Block(i)' = Decoder!Block(i)
  BY <1>3, <1>5, DecoderCardinality DEF Decoder!Block, Decoder!Value, Decoder!Without
<1>7. Decoder!Blocks' = Decoder!Blocks
  BY <1>4, <1>5 DEF Decoder!Blocks
<1>8. Decoder!Meaning' = Decoder!Meaning
  BY <1>6, <1>7, DecoderCardinality DEF Decoder!Meaning
<1> QED BY <1>1, <1>2, <1>5, <1>6, <1>7, <1>8 DEF Found

LEMMA InitDecoder == ASSUME Decoder!Init PROVE DecoderInv
<1>1. /\ wire = <<>> /\ lineBytes = <<>> /\ data = <<>> /\ ~skipLf /\ started = FALSE /\ events = <<>> /\ delivered = <<>>
      /\ Len(wire) = 0 /\ Len(lineBytes) = 0
  BY DEF Decoder!Init
<1>2. DecoderType
  <2>1. skipLf = FALSE /\ \A S : <<>> \in Seq(S)
    BY EmptySeq DEF Decoder!Init
  <2> QED BY <1>1, <2>1 DEF DecoderType
<1>3. Decoder!Breaks = {}
  BY <1>1 DEF Decoder!Breaks
<1>4. Decoder!Blocks = {} /\ \A i : Decoder!Fields(i) = {}
  BY <1>3 DEF Decoder!Blocks, Decoder!Blanks, Decoder!Fields
<1>5. Decoder!Meaning = <<>> /\ Decoder!Block(1) = <<>>
  <2>1. \A f : f = [n \in 1..0 |-> f[n]] => f = <<>>
    OBVIOUS
  <2>2. Decoder!Meaning = [n \in 1..0 |-> Decoder!Block(Decoder!Nth({}, n))]
    BY <1>4, NoneListed, DecoderCardinality DEF Decoder!Meaning
  <2>3. Decoder!Block(1) = [n \in 1..0 |-> Decoder!Value(Decoder!WholeLine(Decoder!Nth({}, n)))]
    BY <1>4, NoneListed, DecoderCardinality DEF Decoder!Block
  <2> QED BY <2>1, <2>2, <2>3
<1>6. Decoder!BeginsAt(1, 1)
  BY DEF Decoder!BeginsAt
<1>7. LineInHand
  <2>1. Begun = 1 /\ Len(wire) + 1 = 1
    BY <1>1 DEF Begun
  <2> QED BY <1>1, <1>6, <2>1 DEF LineInHand
<1>8. Found
  <2>1. Decoder!LineStart(1) \in {t \in 1..1 : Decoder!BeginsAt(1, t)}
    BY <1>6 DEF Decoder!LineStart
  <2>2. \A i \in 1..Len(wire) + 1 : i = 1
    BY <1>1
  <2> QED BY <1>4, <2>1, <2>2, NoneListed DEF Found
<1>9. ReadSoFar
  <2>1. Len(wire) + 1 = 1 /\ delivered \o events = <<>>
    BY <1>1
  <2> QED BY <1>1, <1>5, <2>1 DEF ReadSoFar
<1> QED BY <1>2, <1>7, <1>8, <1>9 DEF DecoderInv

LEMMA ChunkIsDelivered == ASSUME DecoderInv, Decoder!ChunkEnds PROVE DecoderInv'
<1>1. /\ DecoderType /\ LineInHand /\ Found /\ ReadSoFar
      /\ wire' = wire /\ lineBytes' = lineBytes /\ data' = data /\ started' = started /\ skipLf' = skipLf
      /\ delivered' = delivered \o events /\ events' = <<>>
  BY DEF DecoderInv, Decoder!ChunkEnds, Decoder!SkipAcrossChunks
<1> DEFINE X == Seq(Seq(Bytes))
<1>2. delivered \in Seq(X) /\ events \in Seq(X)
  BY <1>1 DEF DecoderType
<1> HIDE DEF X
<1>3. delivered' \in Seq(X) /\ events' \in Seq(X) /\ delivered' \o events' = delivered'
  BY <1>1, <1>2, ConcatProperties, ConcatEmptySeq
<1>4. DecoderType'
  BY <1>1, <1>3 DEF DecoderType, X
<1>5. LineInHand'
  BY <1>1 DEF LineInHand, Begun, Decoder!BeginsAt, Decoder!Ends
<1>6. ReadSoFar'
  BY <1>1, <1>3, SameStream DEF ReadSoFar
<1> QED BY <1>1, <1>4, <1>5, <1>6, SameStream DEF DecoderInv

LEMMA StreamCloses == ASSUME DecoderInv, Decoder!Closes PROVE DecoderInv'
BY DEF DecoderInv, DecoderType, Decoder!Closes, Decoder!lines

LEMMA DecoderStays == ASSUME DecoderInv, UNCHANGED decoder PROVE DecoderInv'
<1>1. wire' = wire /\ chunk' = chunk /\ lineBytes' = lineBytes /\ data' = data /\ started' = started /\ skipLf' = skipLf
      /\ delivered' = delivered /\ events' = events
  BY DEF decoder
<1>2. DecoderType' <=> DecoderType
  BY <1>1 DEF DecoderType
<1>3. LineInHand' <=> LineInHand
  BY <1>1 DEF LineInHand, Begun, Decoder!BeginsAt, Decoder!Ends
<1>4. ReadSoFar' <=> ReadSoFar
  BY <1>1, SameStream DEF ReadSoFar
<1> QED BY <1>1, <1>2, <1>3, <1>4, SameStream DEF DecoderInv

LEMMA DecoderNext == ASSUME DecoderInv, Decoder!Next PROVE DecoderInv'
BY PushIsDecoded, ChunkIsDelivered, StreamCloses DEF Decoder!Next

(* Wherever the network cuts a stream of any length, the events delivered   *)
(* between two chunks are those its bytes make when they are read in one    *)
(* piece (push of sse.rs).                                                  *)
THEOREM CutsDoNotMatter == Spec => []ChunksDoNotMatter
<1>1. Init => DecoderInv
  BY InitDecoder DEF Init
<1>2. DecoderInv /\ [Next]_vars => DecoderInv'
  BY DecoderNext, DecoderStays, OneAtATime
<1>3. DecoderInv => ChunksDoNotMatter
  <2>1. delivered \in Seq(Seq(Seq(Bytes))) => delivered \o <<>> = delivered
    BY ConcatEmptySeq
  <2> QED BY <2>1 DEF DecoderInv, DecoderType, ReadSoFar, ChunksDoNotMatter, Decoder!ChunksDoNotMatter
<1> QED BY <1>1, <1>2, <1>3, PTL DEF Spec

-----------------------------------------------------------------------------
(* Compaction *)

LEMMA ContextCardinality == \A S : Context!Cardinality(S) = Cardinality(S)
BY DEF Context!Cardinality, Cardinality

From(S, p) == {q \in S : q >= p}

(* Each number up to the size of a set has one member with so many of the   *)
(* set at or behind it.                                                     *)
LEMMA FromLastIs ==
    ASSUME NEW N \in Nat, NEW S \in SUBSET (0..N), NEW n \in 1..Cardinality(S)
    PROVE  /\ IsFiniteSet(S) /\ Context!FromLast(S, n) \in S
           /\ Cardinality(From(S, Context!FromLast(S, n))) = n
           /\ \A p \in S : Cardinality(From(S, p)) = n => p = Context!FromLast(S, n)
<1>1. IsFiniteSet(S) /\ Cardinality(S) \in Nat
  <2>1. IsFiniteSet(0..N)
    BY FS_Interval, 0 \in Int, N \in Int
  <2> QED BY <2>1, FS_Subset, FS_CardinalityType
<1>2. \A p : IsFiniteSet(From(S, p)) /\ Cardinality(From(S, p)) \in Nat
  <2> TAKE p
  <2>1. From(S, p) \subseteq S
    BY DEF From
  <2> QED BY <1>1, <2>1, FS_Subset, FS_CardinalityType
<1>0. \A p \in S : p \in Nat /\ p <= N /\ N - p \in Nat
  OBVIOUS
<1>3. ASSUME NEW p \in S, NEW q \in S, p < q
      PROVE  Cardinality(From(S, q)) < Cardinality(From(S, p))
  <2>1. From(S, q) \subseteq From(S, p) /\ p \in From(S, p) /\ p \notin From(S, q)
    <3>1. p \in Nat /\ q \in Nat /\ p < q
      BY <1>0, <1>3
    <3>2. \A r \in S : r >= q => r >= p
      BY <1>0, <3>1
    <3>3. p >= p /\ ~(p >= q)
      BY <3>1
    <3> QED BY <3>2, <3>3 DEF From
  <2>2. Cardinality(From(S, q)) <= Cardinality(From(S, p)) /\ Cardinality(From(S, q)) # Cardinality(From(S, p))
    BY <1>2, <2>1, FS_Subset
  <2> QED BY <1>2, <2>2
<1>4. \E p \in S : Cardinality(From(S, p)) = n
  <2> DEFINE Enough == {p \in S : Cardinality(From(S, p)) >= n}
             Back == {N - p : p \in Enough}
  <2>1. ASSUME NEW P \in SUBSET S, P # {} PROVE \E p \in P : \A q \in P : p <= q
    <3>1. P \in SUBSET Nat
      OBVIOUS
    <3> QED BY <2>1, <3>1, LeastNumber
  <2>2. Enough # {}
    <3>1. S # {}
      BY <1>1, FS_EmptySet
    <3>2. PICK p \in S : \A q \in S : p <= q
      BY <2>1, <3>1
    <3>3. From(S, p) = S
      BY <3>2 DEF From
    <3> QED BY <1>1, <3>2, <3>3
  <2>3. \E p \in Enough : \A q \in Enough : q <= p
    <3>1. Back \in SUBSET Nat /\ Back # {}
      BY <1>0, <2>2
    <3> HIDE DEF Back
    <3>2. PICK k \in Back : \A l \in Back : k <= l
      BY <3>1, LeastNumber
    <3>3. PICK p \in Enough : k = N - p
      BY <3>2 DEF Back
    <3>4. \A q \in Enough : N - p <= N - q
      BY <3>2, <3>3 DEF Back
    <3>5. \A q \in Enough : q <= p
      BY <1>0, <3>4
    <3> QED BY <3>5
  <2>4. PICK p \in Enough : \A q \in Enough : q <= p
    BY <2>3
  <2> SUFFICES ASSUME Cardinality(From(S, p)) # n PROVE FALSE
    BY <2>4
  <2>5. Cardinality(From(S, p)) > n
    BY <1>2, <2>4
  <2> DEFINE P == From(S, p) \ {p}
  <2>6. P \subseteq S /\ Cardinality(P) = Cardinality(From(S, p)) - 1
    <3>1. p \in From(S, p) /\ From(S, p) \subseteq S
      BY <2>4 DEF From
    <3> QED BY <1>2, <3>1, FS_RemoveElement
  <2>7. P # {}
    <3>1. Cardinality(P) >= 1
      BY <1>2, <2>5, <2>6
    <3> QED BY <3>1, FS_EmptySet
  <2>8. PICK q \in P : \A r \in P : q <= r
    <3> HIDE DEF P
    <3> QED BY <2>1, <2>6, <2>7
  <2>9. From(S, q) = P
    <3>1. q \in S /\ p < q
      BY <1>0, <2>4, <2>8 DEF From
    <3>2. \A r \in S : r >= q => r \in P
      BY <1>0, <2>4, <3>1 DEF From
    <3>3. \A r \in P : r \in S /\ r >= q
      BY <1>0, <2>6, <2>8, <3>1
    <3> HIDE DEF P
    <3> QED BY <3>2, <3>3 DEF From
  <2>10. q \in Enough /\ ~(q <= p)
    BY <1>2, <2>4, <2>5, <2>6, <2>8, <2>9 DEF From
  <2> QED BY <2>4, <2>10
<1>5. PICK p \in S : Cardinality(From(S, p)) = n
  BY <1>4
<1>6. \A q \in S : Cardinality(From(S, q)) = n => q = p
  BY <1>2, <1>3, <1>5
<1>7. {q \in S : Cardinality(From(S, q)) = n} = {p}
  BY <1>5, <1>6
<1>8. Context!FromLast(S, n) = CHOOSE q \in {q \in S : Cardinality(From(S, q)) = n} : TRUE
  BY ContextCardinality DEF Context!FromLast, From
<1>9. Context!FromLast(S, n) = p
  BY <1>7, <1>8
<1> QED BY <1>1, <1>5, <1>6, <1>9

LEMMA BehindIsMore ==
    ASSUME NEW N \in Nat, NEW S \in SUBSET (0..N), NEW p \in S, NEW q \in S, p < q
    PROVE  Cardinality(From(S, q)) < Cardinality(From(S, p))
<1>1. IsFiniteSet(0..N)
  BY FS_Interval, 0 \in Int, N \in Int
<1>0. \A r \in S : r \in Nat
  OBVIOUS
<1>2. From(S, q) \subseteq From(S, p) /\ p \in From(S, p) /\ p \notin From(S, q) /\ From(S, p) \subseteq S
  <2>1. p \in Nat /\ q \in Nat /\ p < q
    BY <1>0
  <2>2. \A r \in S : r >= q => r >= p
    BY <1>0, <2>1
  <2>3. p >= p /\ ~(p >= q)
    BY <2>1
  <2> QED BY <2>2, <2>3 DEF From
<1>3. IsFiniteSet(From(S, p)) /\ IsFiniteSet(From(S, q))
  BY <1>1, <1>2, FS_Subset
<1>4. /\ Cardinality(From(S, q)) <= Cardinality(From(S, p)) /\ Cardinality(From(S, q)) # Cardinality(From(S, p))
      /\ Cardinality(From(S, p)) \in Nat /\ Cardinality(From(S, q)) \in Nat
  BY <1>2, <1>3, FS_Subset, FS_CardinalityType
<1> QED BY <1>4

-----------------------------------------------------------------------------
Sequence(s) == s \in Seq({s[i] : i \in DOMAIN s})
Row == [item : {"user", "answer", "tool"} \X Nat \X Nat, stamp : Nat \ {0}, done : BOOLEAN]

ContextType ==
    /\ messages \in Seq(Row) /\ clock \in Nat \ {0}
    /\ checkpoint \in [cutoff : Nat, art : Nat, by : {"none", "tool", "button", "live"}]
    /\ Sequence(archives) /\ Sequence(cache.items) /\ Sequence(buffer) /\ Sequence(original)
    /\ turn \in Nat /\ tools \in Nat
    /\ phase \in {"idle", "count", "window", "fit", "round", "compact", "answered"}

(* Rows stand in the order of their instants and of their turns, and a      *)
(* turn begins with the user's message.                                     *)
Ordered(r, n) ==
    /\ \A i, j \in DOMAIN r : i < j => r[i].stamp <= r[j].stamp /\ r[i].item[2] <= r[j].item[2]
    /\ \A i, j \in DOMAIN r : i < j /\ r[i].item[2] = r[j].item[2] => r[j].item[1] # "user"
    /\ \A i \in DOMAIN r : r[i].item[2] <= n /\ \E j \in DOMAIN r : r[j].item = Context!User(r[i].item[2])

InOrder == Ordered(messages, turn) /\ (phase \in {"round", "compact", "answered"} => Context!DraftStored)

(* A cutoff leaves a row, and what it hides is archived. *)
HiddenIsArchived ==
    /\ checkpoint.cutoff = 0 \/ \E i \in DOMAIN messages : messages[i].stamp > checkpoint.cutoff
    /\ checkpoint.by \in {"tool", "button"} => checkpoint.art \in DOMAIN archives
    /\ Context!PrefixArchived

(* The draft is the last of the user's messages, and the newest call ends   *)
(* the buffer.                                                              *)
Work(b, n, k) ==
    /\ \E d \in DOMAIN b : b[d] = Context!User(n) /\ \A j \in DOMAIN b : Context!AsUser(b[j]) => j <= d
    /\ k > 0 => b[Len(b)] = Context!Tool(n, k)

WorkIn(b) == Work(b, turn, tools)

WorkInHand ==
    /\ phase # "idle" => WorkIn(buffer)
    /\ phase = "window" => WorkIn(original) /\ window \in 1..Len(Context!Windows)

ContextInv == ContextType /\ InOrder /\ HiddenIsArchived /\ WorkInHand

LEMMA RowsTyped ==
    ASSUME NEW r \in Seq(Row)
    PROVE  /\ DOMAIN r = 1..Len(r) /\ Len(r) \in Nat
           /\ \A i \in DOMAIN r :
                 /\ r[i] \in Row /\ r[i].stamp \in Nat \ {0} /\ r[i].done \in BOOLEAN
                 /\ r[i].item \in {"user", "answer", "tool"} \X Nat \X Nat
<1>1. DOMAIN r = 1..Len(r) /\ Len(r) \in Nat /\ \A i \in DOMAIN r : r[i] \in Row
  OBVIOUS
<1>2. \A x \in Row : x.stamp \in Nat \ {0} /\ x.done \in BOOLEAN /\ x.item \in {"user", "answer", "tool"} \X Nat \X Nat
  BY DEF Row
<1> QED BY <1>1, <1>2

(* In the order of the rows they are read. *)
LEMMA StoredInOrder ==
    ASSUME messages \in Seq(Row), Ordered(messages, turn)
    PROVE  /\ DOMAIN messages = 1..Len(messages) /\ Len(messages) \in Nat
           /\ Context!Stored = [p \in 1..Len(messages) |-> p]
           /\ Len(Context!Stored) = Len(messages)
<1>1. /\ DOMAIN messages = 1..Len(messages) /\ Len(messages) \in Nat
      /\ \A i \in 1..Len(messages) : messages[i].stamp \in Nat
  BY RowsTyped
<1>2. ASSUME NEW i \in DOMAIN messages PROVE Context!EarlierThan(i) = 1..(i - 1)
  <2>1. \A j \in 1..Len(messages) : Context!Earlier(j, i) <=> j < i
    <3>1. \A j \in DOMAIN messages :
             /\ j < i => messages[j].stamp <= messages[i].stamp
             /\ i < j => messages[i].stamp <= messages[j].stamp
      BY <1>2 DEF Ordered
    <3> TAKE j \in 1..Len(messages)
    <3>2. i \in Nat /\ j \in Nat /\ messages[j].stamp \in Nat /\ messages[i].stamp \in Nat
      BY <1>1, <1>2
    <3>3. /\ j < i => messages[j].stamp <= messages[i].stamp
          /\ i < j => messages[i].stamp <= messages[j].stamp
      BY <1>1, <3>1
    <3> QED BY <3>2, <3>3 DEF Context!Earlier
  <2>2. 1..(i - 1) = {j \in 1..Len(messages) : j < i}
    BY <1>1, <1>2
  <2> QED BY <1>1, <2>1, <2>2 DEF Context!EarlierThan
<1>3. ASSUME NEW i \in DOMAIN messages PROVE Cardinality(Context!EarlierThan(i)) = i - 1
  <2>1. i \in Nat \ {0} /\ i - 1 \in Int
    BY <1>1, <1>3
  <2>2. Cardinality(1..(i - 1)) = IF 1 > i - 1 THEN 0 ELSE ((i - 1) - 1) + 1
    BY <2>1, 1 \in Int, FS_Interval
  <2> QED BY <1>2, <1>3, <2>1, <2>2
<1>4. ASSUME NEW p \in DOMAIN messages PROVE Context!Stored[p] = p
  <2>1. {j \in DOMAIN messages : Cardinality(Context!EarlierThan(j)) = p - 1} = {p}
    <3>1. \A j \in DOMAIN messages : j \in Nat /\ p \in Nat /\ Cardinality(Context!EarlierThan(j)) = j - 1
      BY <1>1, <1>3, <1>4
    <3> QED BY <3>1
  <2>2. Context!Stored[p] = CHOOSE i \in {j \in DOMAIN messages : Cardinality(Context!EarlierThan(j)) = p - 1} : TRUE
    BY ContextCardinality DEF Context!Stored
  <2> QED BY <2>1, <2>2
<1>5. Context!Stored = [p \in 1..Len(messages) |-> p]
  <2>1. Context!Stored = [p \in DOMAIN messages |-> Context!Stored[p]]
    BY DEF Context!Stored
  <2> QED BY <1>1, <1>4, <2>1
<1>6. [p \in 1..Len(messages) |-> p] \in Seq(Nat) /\ Len([p \in 1..Len(messages) |-> p]) = Len(messages)
  <2>1. [p \in 1..Len(messages) |-> p] \in [1..Len(messages) -> Nat]
    OBVIOUS
  <2> QED BY <1>1, <2>1, SeqDef
<1> QED BY <1>1, <1>5, <1>6

Starts == {p \in DOMAIN messages : Context!Role(messages[p].item) = "user"}

(* The window leaves so many turns, and something before them. *)
LEMMA WhereKept ==
    ASSUME messages \in Seq(Row), Ordered(messages, turn), NEW keep \in Nat \ {0},
           Context!HasBoundary(Context!Stored, keep)
    PROVE  LET b == Context!Boundary(Context!Stored, keep)
           IN /\ b \in 2..Len(messages) /\ b \in Starts
              /\ Cardinality(From(Starts, b)) = keep
              /\ Context!Cutoff(Context!Stored, b) = messages[b - 1].stamp
<1>1. /\ DOMAIN messages = 1..Len(messages) /\ Len(messages) \in Nat
      /\ Context!Stored = [p \in 1..Len(messages) |-> p]
  BY StoredInOrder
<1>2. Context!TurnStarts(Context!Stored) = Starts
  BY <1>1 DEF Context!TurnStarts, Starts
<1>3. Starts \in SUBSET (0..Len(messages)) /\ Cardinality(Starts) > keep
  <2>1. Starts \in SUBSET (0..Len(messages))
    BY <1>1 DEF Starts
  <2> QED BY <1>2, <2>1, ContextCardinality DEF Context!HasBoundary
<1> DEFINE b == Context!FromLast(Starts, keep)
<1>4. IsFiniteSet(Starts) /\ Cardinality(Starts) \in Nat
  <2>1. IsFiniteSet(0..Len(messages))
    BY <1>1, FS_Interval, 0 \in Int, Len(messages) \in Int
  <2> QED BY <1>3, <2>1, FS_Subset, FS_CardinalityType
<1>5. b \in Starts /\ Cardinality(From(Starts, b)) = keep
  <2>1. keep \in 1..Cardinality(Starts)
    BY <1>3, <1>4
  <2> QED BY <1>1, <1>3, <2>1, FromLastIs
<1> HIDE DEF b
<1>6. b # 1
  <2> SUFFICES ASSUME b = 1 PROVE FALSE
    OBVIOUS
  <2>1. From(Starts, b) = Starts
    BY <1>1 DEF From, Starts
  <2> QED BY <1>3, <1>5, <2>1
<1>7. b \in 2..Len(messages)
  BY <1>1, <1>5, <1>6 DEF Starts
<1>8. Context!Stored[b - 1] = b - 1
  BY <1>1, <1>7
<1> QED BY <1>2, <1>5, <1>7, <1>8 DEF Context!Boundary, Context!Cutoff, b

(* Each of the new instants is behind the cutoff and the one before it.     *)
LEMMA NewStampsRise ==
    ASSUME NEW s, Len(s) \in Nat, NEW b \in 1..Len(s), Context!Cutoff(s, b) \in Nat,
           \A p \in b..Len(s) : messages[s[p]].stamp \in Nat
    PROVE  \A p \in b..Len(s) : /\ Context!NewStamps(s, b)[p] \in Nat
                                /\ Context!NewStamps(s, b)[p] > Context!Cutoff(s, b)
                                /\ Context!NewStamps(s, b)[p] >= messages[s[p]].stamp
                                /\ \A q \in b..p - 1 : Context!NewStamps(s, b)[q] < Context!NewStamps(s, b)[p]
<1> DEFINE N == Len(s)
           cut == Context!Cutoff(s, b)
           given(p) == messages[s[p]].stamp
           least(f, p) == 1 + IF p = b THEN cut ELSE f[p - 1]
           Solves(f, e) == f = [p \in b..e |-> IF given(p) < least(f, p) THEN least(f, p) ELSE given(p)]
           Wrong == {e \in Nat : b <= e /\ e <= N /\ ~\E f : Solves(f, e)}
<1>1. N \in Nat /\ b \in Nat /\ b <= N /\ cut \in Nat /\ \A p \in b..N : given(p) \in Nat
  OBVIOUS
<1>2. Wrong = {}
  <2> SUFFICES ASSUME Wrong # {} PROVE FALSE
    OBVIOUS
  <2>1. PICK e \in Wrong : \A m \in Wrong : e <= m
    <3>1. Wrong \in SUBSET Nat
      OBVIOUS
    <3> HIDE DEF Wrong
    <3> QED BY <3>1, LeastNumber
  <2>2. e \in Nat /\ b <= e /\ e <= N /\ ~\E f : Solves(f, e)
    BY <2>1
  <2> HIDE DEF N, cut, given
  <2>3. e # b
    <3> SUFFICES ASSUME e = b PROVE FALSE
      OBVIOUS
    <3> DEFINE c == [p \in b..e |-> IF given(p) < 1 + cut THEN 1 + cut ELSE given(p)]
    <3>1. b..e = {b}
      BY <1>1
    <3>2. \A p \in b..e : least(c, p) = 1 + cut
      BY <3>1
    <3>3. Solves(c, e)
      BY <3>2
    <3> QED BY <2>2, <3>3
  <2>4. e - 1 \in Nat /\ b <= e - 1 /\ e - 1 <= N /\ ~(e <= e - 1)
    BY <1>1, <2>2, <2>3
  <2>5. e - 1 \notin Wrong
    BY <2>1, <2>4
  <2>6. PICK f : Solves(f, e - 1)
    BY <2>4, <2>5
  <2> DEFINE c == [p \in b..e |-> IF p = e THEN IF given(e) < 1 + f[e - 1] THEN 1 + f[e - 1] ELSE given(e) ELSE f[p]]
  <2>7. ASSUME NEW p \in b..e PROVE c[p] = IF given(p) < least(c, p) THEN least(c, p) ELSE given(p)
    <3>1. CASE p = e
      <4>1. p # b /\ e - 1 \in b..e /\ e - 1 # e
        BY <1>1, <2>2, <2>3, <2>4, <3>1
      <4>2. c[e - 1] = f[e - 1] /\ c[p] = IF given(e) < 1 + f[e - 1] THEN 1 + f[e - 1] ELSE given(e)
        BY <3>1, <4>1
      <4>3. least(c, p) = 1 + c[e - 1]
        BY <3>1, <4>1
      <4> HIDE DEF c, least
      <4> QED BY <3>1, <4>2, <4>3
    <3>2. CASE p # e
      <4>1. p \in b..e - 1 /\ (p # b => p - 1 \in b..e /\ p - 1 # e)
        BY <1>1, <2>2, <3>2
      <4>2. f[p] = IF given(p) < least(f, p) THEN least(f, p) ELSE given(p)
        <5> HIDE DEF least
        <5> QED BY <2>6, <4>1
      <4>3. c[p] = f[p] /\ (p # b => c[p - 1] = f[p - 1])
        BY <3>2, <4>1
      <4>4. least(c, p) = least(f, p)
        <5> HIDE DEF c
        <5> QED BY <4>3
      <4> HIDE DEF c, least
      <4> QED BY <4>2, <4>3, <4>4
    <3> QED BY <3>1, <3>2
  <2>8. c = [p \in b..e |-> c[p]]
    OBVIOUS
  <2> HIDE DEF c, least
  <2>9. Solves(c, e)
    BY <2>7, <2>8
  <2> QED BY <2>2, <2>9
<1> DEFINE F == CHOOSE f : f = [p \in b..N |-> IF given(p) < least(f, p) THEN least(f, p) ELSE given(p)]
<1>3. Context!NewStamps(s, b) = F
  BY DEF Context!NewStamps
<1>4. F = [p \in b..N |-> IF given(p) < least(F, p) THEN least(F, p) ELSE given(p)]
  <2>1. \E f : Solves(f, N)
    <3>1. N \notin Wrong
      BY <1>2
    <3>2. N \in Nat /\ b <= N /\ N <= N
      BY <1>1
    <3> HIDE DEF N, Solves
    <3> QED BY <3>1, <3>2
  <2> HIDE DEF N, cut, given, least
  <2> QED BY <2>1
<1> HIDE DEF F, given, cut, N
<1>5. \A p \in b..N : F[p] = IF given(p) < least(F, p) THEN least(F, p) ELSE given(p)
  <2> HIDE DEF least
  <2> QED BY <1>4
<1> DEFINE Rises(p) == F[p] \in Nat /\ F[p] > cut /\ F[p] >= given(p) /\ \A q \in b..p - 1 : F[q] < F[p]
           Off == {p \in Nat : b <= p /\ p <= N /\ ~Rises(p)}
<1>6. Off = {}
  <2> SUFFICES ASSUME Off # {} PROVE FALSE
    OBVIOUS
  <2>1. PICK p \in Off : \A m \in Off : p <= m
    <3>1. Off \in SUBSET Nat
      OBVIOUS
    <3> HIDE DEF Off
    <3> QED BY <3>1, LeastNumber
  <2>2. p \in Nat /\ p \in b..N /\ b <= p /\ p <= N /\ ~Rises(p) /\ given(p) \in Nat
    BY <1>1, <2>1
  <2>3. CASE p = b
    <3>1. F[p] = IF given(p) < 1 + cut THEN 1 + cut ELSE given(p)
      BY <1>5, <2>2, <2>3
    <3>2. \A q \in b..p - 1 : FALSE
      BY <1>1, <2>3
    <3> QED BY <1>1, <2>2, <3>1, <3>2
  <2>4. CASE p # b
    <3>1. p - 1 \in Nat /\ b <= p - 1 /\ p - 1 <= N /\ ~(p <= p - 1)
      BY <1>1, <2>2, <2>4
    <3>2. Rises(p - 1)
      BY <2>1, <3>1
    <3>3. F[p] = IF given(p) < 1 + F[p - 1] THEN 1 + F[p - 1] ELSE given(p)
      BY <1>5, <2>2, <2>4
    <3>4. F[p] \in Nat /\ F[p] > F[p - 1] /\ F[p] > cut /\ F[p] >= given(p)
      BY <1>1, <2>2, <3>2, <3>3
    <3>5. ASSUME NEW q \in b..p - 1 PROVE F[q] < F[p]
      <4>1. q = p - 1 \/ q \in b..(p - 1) - 1
        BY <2>2, <3>1, <3>5
      <4>2. CASE q \in b..(p - 1) - 1
        <5>1. F[q] < F[p - 1]
          BY <3>2, <4>2
        <5>2. Rises(q)
          <6>1. q \in Nat /\ b <= q /\ q <= N /\ ~(p <= q)
            BY <1>1, <2>2, <3>1, <4>2
          <6> QED BY <2>1, <6>1
        <5> QED BY <3>2, <3>4, <5>1, <5>2
      <4> QED BY <3>4, <4>1, <4>2
    <3> QED BY <2>2, <3>4, <3>5
  <2> QED BY <2>3, <2>4
<1>7. \A p \in b..N : Rises(p)
  BY <1>1, <1>6
<1> QED BY <1>3, <1>7 DEF given, cut, N

(* Restamped rows keep their order: those before the boundary stay, and the *)
(* kept ones get instants behind the cutoff.                                *)
Restamps(r, b) ==
    /\ r \in Seq(Row) /\ Len(r) = Len(messages)
    /\ \A i \in DOMAIN messages :
         /\ r[i].item = messages[i].item /\ r[i].done = messages[i].done
         /\ r[i].stamp >= messages[i].stamp
         /\ IF i < b THEN r[i].stamp = messages[i].stamp ELSE r[i].stamp > messages[b - 1].stamp
    /\ \A i, j \in DOMAIN messages : i < j => r[i].stamp <= r[j].stamp
    /\ messages[b].stamp > messages[b - 1].stamp => r = messages

LEMMA RestampedRows ==
    ASSUME messages \in Seq(Row), Ordered(messages, turn), NEW b \in 2..Len(messages)
    PROVE  Restamps(Context!Restamped(Context!Stored, b, Len(Context!Stored)), b)
<1> DEFINE s == Context!Stored
           r == Context!Restamped(s, b, Len(s))
           F == Context!NewStamps(s, b)
<1>1. /\ DOMAIN messages = 1..Len(messages) /\ Len(messages) \in Nat
      /\ s = [p \in 1..Len(messages) |-> p] /\ Len(s) = Len(messages)
  BY StoredInOrder
<1>2. \A i \in 1..Len(messages) : /\ messages[i].stamp \in Nat \ {0} /\ messages[i] \in Row
                                  /\ messages[i].done \in BOOLEAN
                                  /\ messages[i].item \in {"user", "answer", "tool"} \X Nat \X Nat
  BY <1>1, RowsTyped
<1>3. \A i, j \in 1..Len(messages) : i < j => messages[i].stamp <= messages[j].stamp
  BY <1>1 DEF Ordered
<1>4. b \in Nat /\ b - 1 \in 1..Len(messages) /\ b \in 1..Len(messages) /\ Context!Cutoff(s, b) = messages[b - 1].stamp
  BY <1>1 DEF Context!Cutoff
<1>5. CASE messages[b].stamp > messages[b - 1].stamp
  <2>1. r = messages
    BY <1>1, <1>4, <1>5 DEF Context!Restamped
  <2>2. \A i \in 1..Len(messages) : ~(i < b) => messages[i].stamp > messages[b - 1].stamp
    <3> TAKE i \in 1..Len(messages)
    <3>1. i \in Nat /\ messages[i].stamp \in Nat /\ messages[b].stamp \in Nat /\ messages[b - 1].stamp \in Nat
      BY <1>2, <1>4
    <3>2. b < i => messages[b].stamp <= messages[i].stamp
      BY <1>3, <1>4
    <3> QED BY <1>4, <1>5, <3>1, <3>2
  <2>3. \A i \in 1..Len(messages) : messages[i].stamp >= messages[i].stamp
    BY <1>2
  <2> HIDE DEF r
  <2> QED BY <1>1, <1>3, <1>5, <2>1, <2>2, <2>3 DEF Restamps, r, s
<1>6. CASE ~(messages[b].stamp > messages[b - 1].stamp)
  <2>1. \A p \in b..Len(messages) : /\ F[p] \in Nat /\ F[p] > messages[b - 1].stamp /\ F[p] >= messages[p].stamp
                                    /\ \A q \in b..p - 1 : F[q] < F[p]
    <3>1. \A p \in b..Len(s) : s[p] = p /\ messages[s[p]].stamp \in Nat
      BY <1>1, <1>2, <1>4
    <3>2. Len(s) \in Nat /\ b \in 1..Len(s) /\ Context!Cutoff(s, b) \in Nat
      BY <1>1, <1>2, <1>4
    <3> HIDE DEF s
    <3>3. \A p \in b..Len(s) : /\ F[p] \in Nat /\ F[p] > Context!Cutoff(s, b) /\ F[p] >= messages[s[p]].stamp
                               /\ \A q \in b..p - 1 : F[q] < F[p]
      BY <3>1, <3>2, NewStampsRise
    <3> HIDE DEF F
    <3> QED BY <1>1, <1>4, <3>1, <3>3
  <2>2. r = [i \in DOMAIN messages |->
               IF \E p \in b..Len(s) : s[p] = i
                 THEN [messages[i] EXCEPT !.stamp = F[CHOOSE p \in b..Len(s) : s[p] = i]]
                 ELSE messages[i]]
    BY <1>1, <1>4, <1>6 DEF Context!Restamped
  <2>3. ASSUME NEW i \in 1..Len(messages)
        PROVE  r[i] = IF i < b THEN messages[i] ELSE [messages[i] EXCEPT !.stamp = F[i]]
    <3> HIDE DEF F, s, r
    <3>1. \A p \in b..Len(s) : s[p] = p
      BY <1>1, <1>4
    <3>2. CASE i < b
      <4>1. ~\E p \in b..Len(s) : s[p] = i
        BY <1>4, <3>1, <3>2
      <4> QED BY <1>1, <2>2, <3>2, <4>1
    <3>3. CASE ~(i < b)
      <4>1. i \in b..Len(s) /\ s[i] = i
        BY <1>1, <1>4, <3>1, <3>3
      <4>2. (CHOOSE p \in b..Len(s) : s[p] = i) = i
        BY <3>1, <4>1
      <4> QED BY <1>1, <2>2, <3>3, <4>1, <4>2
    <3> QED BY <3>2, <3>3
  <2>4. ASSUME NEW i \in 1..Len(messages)
        PROVE  /\ r[i] \in Row /\ r[i].item = messages[i].item /\ r[i].done = messages[i].done
               /\ r[i].stamp = IF i < b THEN messages[i].stamp ELSE F[i]
    <3> HIDE DEF F, r
    <3>1. ~(i < b) => F[i] \in Nat \ {0}
      BY <1>2, <1>4, <2>1
    <3> QED BY <1>2, <2>3, <3>1 DEF Row
  <2>5. r \in Seq(Row) /\ Len(r) = Len(messages)
    <3>1. r = [i \in 1..Len(messages) |-> r[i]]
      BY <1>1, <2>2
    <3> HIDE DEF r
    <3>2. r \in [1..Len(messages) -> Row]
      BY <2>4, <3>1
    <3> QED BY <1>1, <3>2, SeqDef
  <2> HIDE DEF r, F, s
  <2>6. ASSUME NEW i \in 1..Len(messages)
        PROVE  /\ r[i].stamp >= messages[i].stamp
               /\ IF i < b THEN r[i].stamp = messages[i].stamp ELSE r[i].stamp > messages[b - 1].stamp
    BY <1>2, <1>4, <2>1, <2>4
  <2>7. ASSUME NEW i \in 1..Len(messages), NEW j \in 1..Len(messages), i < j PROVE r[i].stamp <= r[j].stamp
    <3>1. CASE i < b
      <4>1. r[i].stamp = messages[i].stamp /\ messages[i].stamp <= messages[j].stamp /\ r[j].stamp >= messages[j].stamp
        BY <1>3, <2>6, <2>7, <3>1
      <4>2. r[j].stamp \in Nat /\ messages[i].stamp \in Nat /\ messages[j].stamp \in Nat
        BY <1>2, <2>4 DEF Row
      <4> QED BY <4>1, <4>2
    <3>2. CASE ~(i < b)
      <4>1. i \in b..j - 1 /\ j \in b..Len(messages) /\ ~(j < b)
        BY <1>4, <2>7, <3>2
      <4>2. F[i] < F[j] /\ F[i] \in Nat /\ F[j] \in Nat
        BY <1>4, <2>1, <3>2, <4>1
      <4> QED BY <2>4, <3>2, <4>1, <4>2
    <3> QED BY <3>1, <3>2
  <2> QED BY <1>1, <1>6, <2>4, <2>5, <2>6, <2>7 DEF Restamps, r, s
<1> QED BY <1>5, <1>6

(* What a compaction does to the rows.                                      *)
LEMMA RowsRestamped ==
    ASSUME ContextInv, NEW b \in 2..Len(messages), b \in Starts, Restamps(messages', b), UNCHANGED turn
    PROVE  /\ messages' \in Seq(Row) /\ DOMAIN messages' = DOMAIN messages
           /\ Ordered(messages', turn') /\ (Context!DraftStored => Context!DraftStored')
           /\ \A i \in DOMAIN messages :
                /\ messages'[i].item = messages[i].item
                /\ messages[i].stamp \in Nat \ {0} /\ messages'[i].stamp \in Nat \ {0}
                /\ messages'[i].stamp >= messages[i].stamp
                /\ messages'[i].stamp <= messages[b - 1].stamp <=> i < b
           /\ b \in DOMAIN messages /\ b - 1 \in DOMAIN messages /\ messages'[b].stamp > messages[b - 1].stamp
<1> DEFINE r == messages'
<1>1. /\ DOMAIN messages = 1..Len(messages) /\ Len(messages) \in Nat
      /\ messages \in Seq(Row) /\ Ordered(messages, turn) /\ turn' = turn
      /\ \A i \in DOMAIN messages : messages[i].stamp \in Nat \ {0}
  BY RowsTyped DEF ContextInv, ContextType, InOrder
<1>2. /\ r \in Seq(Row) /\ DOMAIN r = DOMAIN messages /\ b \in DOMAIN messages /\ b - 1 \in DOMAIN messages /\ b \in Nat
      /\ \A i \in DOMAIN messages : r[i].stamp \in Nat \ {0}
  BY <1>1, RowsTyped DEF Restamps
<1> HIDE DEF r
<1>3. \A i \in DOMAIN messages : r[i].item = messages[i].item /\ r[i].stamp >= messages[i].stamp
  BY DEF Restamps, r
<1>4. \A i, j \in DOMAIN messages : i < j => r[i].stamp <= r[j].stamp
  BY DEF Restamps, r
<1>5. Ordered(r, turn)
  BY <1>1, <1>2, <1>3, <1>4 DEF Ordered
<1>6. Context!DraftStored => Context!DraftStored'
  BY <1>1, <1>2, <1>3 DEF Context!DraftStored, Context!User, r
<1>7. ASSUME NEW i \in DOMAIN messages PROVE r[i].stamp <= messages[b - 1].stamp <=> i < b
  <2>1. IF i < b THEN r[i].stamp = messages[i].stamp ELSE r[i].stamp > messages[b - 1].stamp
    BY <1>7 DEF Restamps, r
  <2>2. i < b => messages[i].stamp <= messages[b - 1].stamp
    <3>1. i \in Nat /\ (i < b => i < b - 1 \/ i = b - 1)
      BY <1>1, <1>2, <1>7
    <3>2. i < b - 1 => messages[i].stamp <= messages[b - 1].stamp
      BY <1>1, <1>2, <1>7 DEF Ordered
    <3> QED BY <1>1, <1>2, <3>1, <3>2
  <2>3. r[i].stamp \in Nat /\ messages[i].stamp \in Nat /\ messages[b - 1].stamp \in Nat
    BY <1>1, <1>2, <1>7
  <2> QED BY <2>1, <2>2, <2>3
<1>8. r[b].stamp > messages[b - 1].stamp
  <2>1. ~(r[b].stamp <= messages[b - 1].stamp)
    BY <1>2, <1>7
  <2> QED BY <1>1, <1>2, <2>1
<1>9. /\ \A i \in DOMAIN messages : messages'[i].stamp <= messages[b - 1].stamp <=> i < b
      /\ Ordered(messages', turn') /\ messages'[b].stamp > messages[b - 1].stamp
  BY <1>1, <1>5, <1>7, <1>8 DEF r
<1>10. /\ messages' \in Seq(Row) /\ DOMAIN messages' = DOMAIN messages
       /\ \A i \in DOMAIN messages : messages'[i].stamp \in Nat \ {0}
       /\ \A i \in DOMAIN messages : messages'[i].item = messages[i].item /\ messages'[i].stamp >= messages[i].stamp
  BY <1>2, <1>3 DEF r
<1> QED BY <1>1, <1>2, <1>6, <1>9, <1>10

LEMMA Grows ==
    ASSUME NEW s, Sequence(s), NEW x
    PROVE  /\ Sequence(Append(s, x)) /\ Len(s) \in Nat /\ DOMAIN s = 1..Len(s)
           /\ Len(Append(s, x)) = Len(s) + 1
           /\ \A i \in DOMAIN s : Append(s, x)[i] = s[i]
           /\ Append(s, x)[Len(s) + 1] = x
<1> DEFINE S == {s[i] : i \in DOMAIN s}
<1>1. s \in Seq(S)
  BY DEF Sequence
<1> HIDE DEF S
<1>2. /\ Len(s) \in Nat /\ DOMAIN s = 1..Len(s)
      /\ Append(s, x) \in Seq(S \cup {x}) /\ Len(Append(s, x)) = Len(s) + 1
      /\ \A i \in DOMAIN s : Append(s, x)[i] = s[i]
      /\ Append(s, x)[Len(s) + 1] = x
  <2>1. s \in Seq(S \cup {x}) /\ x \in S \cup {x}
    BY <1>1
  <2> QED BY <2>1
<1> DEFINE t == Append(s, x)
<1>3. t \in Seq(S \cup {x}) /\ DOMAIN t = 1..Len(t) /\ Len(t) \in Nat
  BY <1>2
<1> HIDE DEF t
<1>4. t \in [1..Len(t) -> {t[i] : i \in DOMAIN t}]
  BY <1>3
<1>5. t \in Seq({t[i] : i \in DOMAIN t})
  BY <1>3, <1>4, SeqDef
<1> QED BY <1>2, <1>5 DEF Sequence, t

(* The state of a conversation after a compaction. *)
Compacted ==
    /\ messages' \in Seq(Row) /\ Sequence(archives')
    /\ checkpoint' \in [cutoff : Nat, art : Nat, by : {"none", "tool", "button", "live"}]
    /\ Ordered(messages', turn') /\ (Context!DraftStored => Context!DraftStored')
    /\ HiddenIsArchived'

(* compact_now archives what its cutoff hides.                              *)
LEMMA CompactsNow ==
    ASSUME ContextInv, NEW keep \in Nat \ {0}, NEW by \in {"tool", "button"},
           Context!CompactNow(keep, by), UNCHANGED turn
    PROVE  Compacted
<1> DEFINE s == Context!Stored
           b == Context!Boundary(s, keep)
<1>1. /\ messages \in Seq(Row) /\ Ordered(messages, turn) /\ Sequence(archives)
      /\ checkpoint \in [cutoff : Nat, art : Nat, by : {"none", "tool", "button", "live"}]
      /\ checkpoint.cutoff \in Nat
  BY DEF ContextInv, ContextType, InOrder
<1>2. CASE ~Context!HasBoundary(s, keep)
  <2>1. UNCHANGED <<messages, checkpoint, archives>>
    BY <1>2 DEF Context!CompactNow, Context!saved
  <2> QED BY <1>1, <2>1 DEF Compacted, ContextInv, HiddenIsArchived, Context!PrefixArchived, Context!DraftStored, Context!User
<1>3. CASE Context!HasBoundary(s, keep)
  <2>1. /\ b \in 2..Len(messages) /\ b \in Starts /\ Context!Cutoff(s, b) = messages[b - 1].stamp
    BY <1>1, <1>3, WhereKept
  <2>2. /\ s = [p \in 1..Len(messages) |-> p] /\ DOMAIN messages = 1..Len(messages) /\ Len(messages) \in Nat
    BY <1>1, StoredInOrder
  <2>3. messages' = Context!Restamped(s, b, Len(s))
    BY <1>3 DEF Context!CompactNow
  <2>4. Restamps(messages', b)
    <3> HIDE DEF b
    <3> QED BY <1>1, <2>1, <2>3, RestampedRows
  <2> HIDE DEF b
  <2>5. /\ messages' \in Seq(Row) /\ DOMAIN messages' = DOMAIN messages
        /\ Ordered(messages', turn') /\ (Context!DraftStored => Context!DraftStored')
        /\ \A i \in DOMAIN messages :
             /\ messages'[i].item = messages[i].item
             /\ messages[i].stamp \in Nat \ {0} /\ messages'[i].stamp \in Nat \ {0}
             /\ messages'[i].stamp >= messages[i].stamp
             /\ messages'[i].stamp <= messages[b - 1].stamp <=> i < b
        /\ b \in DOMAIN messages /\ b - 1 \in DOMAIN messages /\ messages'[b].stamp > messages[b - 1].stamp
    BY <2>1, <2>4, RowsRestamped
  <2>6. CASE Context!MovesOn(s, b)
    <3> DEFINE hidden == {messages[s[p]].item : p \in 1..b - 1}
    <3>1. /\ archives' = Append(archives, hidden)
          /\ checkpoint' = Context!Checkpoint(s, b, Len(archives'), by)
      BY <1>3, <2>6 DEF Context!CompactNow, b
    <3> HIDE DEF s
    <3>2. checkpoint' = [cutoff |-> messages[b - 1].stamp, art |-> Len(archives'), by |-> by]
      BY <2>1, <3>1 DEF Context!Checkpoint
    <3>3. \A i \in 1..b - 1 : messages[i].item \in hidden
      BY <2>1, <2>2
    <3> HIDE DEF hidden
    <3>4. /\ Sequence(archives') /\ Len(archives') \in Nat /\ DOMAIN archives' = 1..Len(archives')
          /\ Len(archives') \in DOMAIN archives' /\ archives'[Len(archives')] = hidden
      <4>1. /\ Sequence(Append(archives, hidden)) /\ Len(archives) \in Nat
            /\ Len(Append(archives, hidden)) = Len(archives) + 1
            /\ Append(archives, hidden)[Len(archives) + 1] = hidden
        BY <1>1, Grows
      <4>2. DOMAIN Append(archives, hidden) = 1..Len(Append(archives, hidden))
        BY <4>1, Grows
      <4> QED BY <3>1, <4>1, <4>2
    <3>5. ASSUME NEW i \in DOMAIN messages', messages'[i].stamp <= checkpoint'.cutoff
          PROVE  messages'[i].item \in archives'[checkpoint'.art]
      <4>1. i \in DOMAIN messages /\ messages'[i].item = messages[i].item /\ i < b
        BY <2>5, <3>2, <3>5
      <4>2. i \in 1..b - 1
        BY <2>1, <2>2, <4>1
      <4> QED BY <3>2, <3>3, <3>4, <4>1, <4>2
    <3>6. messages[b - 1].stamp \in Nat
      BY <2>5
    <3> QED BY <2>5, <3>2, <3>4, <3>5, <3>6 DEF Compacted, HiddenIsArchived, Context!PrefixArchived
  <2>7. CASE ~Context!MovesOn(s, b)
    <3>1. UNCHANGED <<checkpoint, archives>>
      BY <1>3, <2>7 DEF Context!CompactNow, Context!saved, b
    <3>2. \A i \in DOMAIN messages : /\ messages'[i].stamp <= checkpoint.cutoff => messages[i].stamp <= checkpoint.cutoff
                                     /\ messages[i].stamp > checkpoint.cutoff => messages'[i].stamp > checkpoint.cutoff
      BY <1>1, <2>5
    <3> QED BY <1>1, <2>5, <3>1, <3>2 DEF Compacted, ContextInv, HiddenIsArchived, Context!PrefixArchived
  <2> QED BY <2>6, <2>7
<1> QED BY <1>2, <1>3

(* persist_live_cutoff claims no archive for what it hides.                 *)
LEMMA PersistsLive ==
    ASSUME ContextInv, NEW keep \in Nat \ {0}, NEW dropped, archives' = Append(archives, dropped),
           Context!PersistLiveCutoff(keep, Len(archives) + 1), UNCHANGED turn
    PROVE  Compacted
<1> DEFINE s == Context!Stored
           b == Context!Boundary(s, keep)
<1>1. /\ messages \in Seq(Row) /\ Ordered(messages, turn) /\ Sequence(archives)
      /\ checkpoint \in [cutoff : Nat, art : Nat, by : {"none", "tool", "button", "live"}]
      /\ checkpoint.cutoff \in Nat
  BY DEF ContextInv, ContextType, InOrder
<1>2. /\ Sequence(archives') /\ Len(archives) + 1 \in Nat
      /\ \A a \in DOMAIN archives : a \in DOMAIN archives' /\ archives'[a] = archives[a]
  <2>1. /\ Sequence(Append(archives, dropped)) /\ Len(archives) \in Nat /\ DOMAIN archives = 1..Len(archives)
        /\ Len(Append(archives, dropped)) = Len(archives) + 1
        /\ \A i \in DOMAIN archives : Append(archives, dropped)[i] = archives[i]
    BY <1>1, Grows
  <2>2. DOMAIN Append(archives, dropped) = 1..Len(Append(archives, dropped))
    BY <2>1, Grows
  <2> QED BY <2>1, <2>2
<1>3. CASE ~Context!HasBoundary(s, keep)
  <2>1. UNCHANGED <<messages, checkpoint>>
    BY <1>3 DEF Context!PersistLiveCutoff
  <2> QED BY <1>1, <1>2, <2>1 DEF Compacted, ContextInv, HiddenIsArchived, Context!PrefixArchived, Context!DraftStored, Context!User
<1>4. CASE Context!HasBoundary(s, keep)
  <2>1. /\ b \in 2..Len(messages) /\ b \in Starts /\ Context!Cutoff(s, b) = messages[b - 1].stamp
    BY <1>1, <1>4, WhereKept
  <2>2. /\ messages' = Context!Restamped(s, b, Len(s))
        /\ checkpoint' = IF Context!MovesOn(s, b) THEN Context!Checkpoint(s, b, Len(archives) + 1, "live") ELSE checkpoint
    BY <1>4 DEF Context!PersistLiveCutoff
  <2>3. Restamps(messages', b)
    <3> HIDE DEF b
    <3> QED BY <1>1, <2>1, <2>2, RestampedRows
  <2> HIDE DEF b
  <2>4. /\ messages' \in Seq(Row) /\ DOMAIN messages' = DOMAIN messages
        /\ Ordered(messages', turn') /\ (Context!DraftStored => Context!DraftStored')
        /\ \A i \in DOMAIN messages :
             /\ messages'[i].item = messages[i].item
             /\ messages[i].stamp \in Nat \ {0} /\ messages'[i].stamp \in Nat \ {0}
             /\ messages'[i].stamp >= messages[i].stamp
        /\ b \in DOMAIN messages /\ b - 1 \in DOMAIN messages /\ messages'[b].stamp > messages[b - 1].stamp
    BY <2>1, <2>3, RowsRestamped
  <2> HIDE DEF s
  <2>5. CASE Context!MovesOn(s, b)
    <3>1. checkpoint' = [cutoff |-> messages[b - 1].stamp, art |-> Len(archives) + 1, by |-> "live"]
      BY <2>1, <2>2, <2>5 DEF Context!Checkpoint
    <3>2. messages[b - 1].stamp \in Nat
      BY <2>4
    <3> QED BY <1>2, <2>4, <3>1, <3>2 DEF Compacted, HiddenIsArchived, Context!PrefixArchived
  <2>6. CASE ~Context!MovesOn(s, b)
    <3>1. UNCHANGED checkpoint
      BY <2>2, <2>6
    <3>2. \A i \in DOMAIN messages : /\ messages'[i].stamp <= checkpoint.cutoff => messages[i].stamp <= checkpoint.cutoff
                                     /\ messages[i].stamp > checkpoint.cutoff => messages'[i].stamp > checkpoint.cutoff
      BY <1>1, <2>4
    <3> QED BY <1>1, <1>2, <2>4, <3>1, <3>2 DEF Compacted, ContextInv, HiddenIsArchived, Context!PrefixArchived
  <2> QED BY <2>5, <2>6
<1> QED BY <1>3, <1>4

(* What is selected keeps its order. *)
LEMMA SelectedInOrder ==
    ASSUME NEW b, Sequence(b), NEW S \in SUBSET DOMAIN b
    PROVE  /\ Sequence(Context!Selected(b, S)) /\ Len(Context!Selected(b, S)) \in Nat
           /\ \E at \in [1..Len(Context!Selected(b, S)) -> S] :
                /\ \A k \in 1..Len(Context!Selected(b, S)) : Context!Selected(b, S)[k] = b[at[k]]
                /\ \A k, l \in 1..Len(Context!Selected(b, S)) : k < l => at[k] < at[l]
                /\ \A p \in S : \E k \in 1..Len(Context!Selected(b, S)) : at[k] = p
<1> DEFINE n == Cardinality(S)
           N == Len(b)
           t == Context!Selected(b, S)
           at == [k \in 1..n |-> Context!FromLast(S, (n + 1) - k)]
<1>1. N \in Nat /\ S \in SUBSET (0..N)
  <2>1. N \in Nat /\ DOMAIN b = 1..N
    BY DEF Sequence
  <2> QED BY <2>1
<1>2. IsFiniteSet(S) /\ n \in Nat
  <2>1. IsFiniteSet(0..N)
    BY <1>1, FS_Interval, 0 \in Int, N \in Int
  <2> QED BY <1>1, <2>1, FS_Subset, FS_CardinalityType
<1>3. t = [k \in 1..n |-> b[Context!FromLast(S, (n + 1) - k)]]
  BY ContextCardinality DEF Context!Selected
<1> HIDE DEF n, N, t
<1>4. \A m \in 1..n : Context!FromLast(S, m) \in S /\ Cardinality(From(S, Context!FromLast(S, m))) = m
  BY <1>1, FromLastIs DEF n
<1>5. \A k \in 1..n : (n + 1) - k \in 1..n
  BY <1>2
<1>6. at \in [1..n -> S] /\ \A k \in 1..n : Cardinality(From(S, at[k])) = (n + 1) - k
  BY <1>4, <1>5
<1>7. t = [k \in 1..n |-> b[at[k]]]
  BY <1>3
<1> HIDE DEF at
<1>8. Sequence(t) /\ Len(t) = n
  <2>1. DOMAIN t = 1..n /\ t \in [1..n -> {t[i] : i \in DOMAIN t}]
    BY <1>7
  <2> QED BY <1>2, <2>1, SeqDef DEF Sequence
<1>9. ASSUME NEW k \in 1..n, NEW l \in 1..n, k < l PROVE at[k] < at[l]
  <2>1. at[k] \in S /\ at[l] \in S /\ at[k] \in Nat /\ at[l] \in Nat
    BY <1>1, <1>6
  <2>2. (n + 1) - l < (n + 1) - k
    BY <1>2, <1>9
  <2>3. at[k] # at[l]
    BY <1>2, <1>6, <2>2
  <2>4. ~(at[l] < at[k])
    <3> SUFFICES ASSUME at[l] < at[k] PROVE FALSE
      OBVIOUS
    <3>1. Cardinality(From(S, at[k])) < Cardinality(From(S, at[l]))
      BY <1>1, <2>1, BehindIsMore
    <3> QED BY <1>2, <1>6, <2>2, <3>1
  <2> QED BY <2>1, <2>3, <2>4
<1>10. ASSUME NEW p \in S PROVE \E k \in 1..n : at[k] = p
  <2> DEFINE m == Cardinality(From(S, p))
  <2>1. p \in From(S, p) /\ From(S, p) \subseteq S
    <3>1. p \in Nat
      BY <1>1
    <3> QED BY <3>1 DEF From
  <2>2. m \in 1..n
    <3>1. IsFiniteSet(From(S, p)) /\ m \in Nat /\ m <= n
      BY <1>2, <2>1, FS_Subset, FS_CardinalityType DEF n
    <3>2. m # 0
      BY <2>1, <3>1, FS_EmptySet
    <3> QED BY <1>2, <3>1, <3>2
  <2>3. p = Context!FromLast(S, m)
    <3>1. \A q \in S : Cardinality(From(S, q)) = m => q = Context!FromLast(S, m)
      BY <1>1, <2>2, FromLastIs DEF n
    <3> QED BY <3>1
  <2> HIDE DEF m
  <2>4. (n + 1) - m \in 1..n /\ (n + 1) - ((n + 1) - m) = m
    BY <1>2, <2>2
  <2>5. at[(n + 1) - m] = p
    BY <2>3, <2>4 DEF at
  <2> QED BY <2>4, <2>5
<1>11. \E f \in [1..n -> S] : /\ \A k \in 1..n : t[k] = b[f[k]]
                              /\ \A k, l \in 1..n : k < l => f[k] < f[l]
                              /\ \A p \in S : \E k \in 1..n : f[k] = p
  <2>1. \A k \in 1..n : t[k] = b[at[k]]
    BY <1>7
  <2> QED BY <1>6, <1>9, <1>10, <2>1
<1> QED BY <1>2, <1>8, <1>11 DEF t

LEMMA Prefixed ==
    ASSUME NEW s, Sequence(s), NEW x
    PROVE  /\ Sequence(<<x>> \o s) /\ Len(<<x>> \o s) = Len(s) + 1 /\ Len(s) \in Nat
           /\ DOMAIN (<<x>> \o s) = 1..Len(s) + 1 /\ DOMAIN s = 1..Len(s)
           /\ (<<x>> \o s)[1] = x
           /\ \A k \in 1..Len(s) : (<<x>> \o s)[k + 1] = s[k]
<1> DEFINE S == {s[i] : i \in DOMAIN s}
<1>1. s \in Seq(S)
  BY DEF Sequence
<1> HIDE DEF S
<1>2. s \in Seq(S \cup {x}) /\ <<x>> \in Seq(S \cup {x}) /\ Len(<<x>>) = 1 /\ <<x>>[1] = x
  BY <1>1
<1> DEFINE t == <<x>> \o s
<1>3. /\ t \in Seq(S \cup {x}) /\ Len(t) = Len(s) + 1 /\ Len(s) \in Nat
      /\ DOMAIN t = 1..Len(s) + 1 /\ DOMAIN s = 1..Len(s)
      /\ t[1] = x
      /\ \A k \in 1..Len(s) : t[k + 1] = s[k]
  BY <1>2
<1> HIDE DEF t
<1>4. t \in [1..Len(t) -> {t[i] : i \in DOMAIN t}]
  BY <1>3
<1>5. Len(t) \in Nat
  BY <1>3
<1>6. t \in Seq({t[i] : i \in DOMAIN t})
  BY <1>4, <1>5, SeqDef
<1> QED BY <1>3, <1>6 DEF t, Sequence

(* The draft is where the code looks for it. *)
LEMMA DraftIs ==
    ASSUME NEW b, Sequence(b), WorkIn(b)
    PROVE  /\ Len(b) \in Nat /\ DOMAIN b = 1..Len(b)
           /\ Context!Draft(b) \in 1..Len(b) /\ b[Context!Draft(b)] = Context!User(turn)
           /\ \A j \in DOMAIN b : Context!AsUser(b[j]) => j <= Context!Draft(b)
<1>1. Len(b) \in Nat /\ DOMAIN b = 1..Len(b)
  BY DEF Sequence
<1>2. PICK d \in DOMAIN b : b[d] = Context!User(turn) /\ \A j \in DOMAIN b : Context!AsUser(b[j]) => j <= d
  BY DEF WorkIn, Work
<1>3. Context!AsUser(b[d])
  BY <1>2 DEF Context!AsUser, Context!Role, Context!User
<1>4. Context!Draft(b) = d
  <2>1. \A i \in DOMAIN b : (Context!AsUser(b[i]) /\ \A j \in DOMAIN b : Context!AsUser(b[j]) => j <= i) => i = d
    BY <1>1, <1>2, <1>3
  <2> HIDE DEF Context!AsUser
  <2> QED BY <1>2, <1>3, <2>1 DEF Context!Draft
<1> QED BY <1>1, <1>2, <1>4

(* All but the first of c are the messages of b at the places S, in order.  *)
BehindFirst(c, b, S) ==
    \E at \in [1..Len(c) - 1 -> S] :
      /\ \A k \in 1..Len(c) - 1 : c[k + 1] = b[at[k]]
      /\ \A k, l \in 1..Len(c) - 1 : k < l => at[k] < at[l]
      /\ \A p \in S : \E k \in 1..Len(c) - 1 : at[k] = p

(* What a plan keeps of a buffer begins with the notice, and then is the    *)
(* buffer at growing places up to its end, the draft's among them.          *)
LEMMA KeptOf ==
    ASSUME NEW b, Sequence(b), WorkIn(b), NEW keep, NEW art
    PROVE  LET c == Context!Kept(b, keep, art)
               d == Context!Draft(b)
               S == {i \in DOMAIN b : Context!Stays(b, keep, i)}
           IN /\ Sequence(c) /\ DOMAIN c = 1..Len(c) /\ Len(c) - 1 \in Nat
              /\ c[1] = Context!Notice(art)
              /\ d \in S /\ Len(b) \in S
              /\ BehindFirst(c, b, S)
<1> DEFINE d == Context!Draft(b)
           S == {i \in DOMAIN b : Context!Stays(b, keep, i)}
           t == Context!Selected(b, S)
           c == Context!Kept(b, keep, art)
<1>1. Len(b) \in Nat /\ DOMAIN b = 1..Len(b) /\ d \in 1..Len(b)
  BY DraftIs
<1> HIDE DEF d
<1>2. d \in S /\ Len(b) \in S
  <2>1. Context!Stays(b, keep, d)
    BY DEF Context!Stays, d
  <2>2. Context!Stays(b, keep, Len(b))
    <3>1. CASE d < Len(b)
      <4>1. Context!NewestExchange(b) = Len(b)
        BY <3>1 DEF Context!NewestExchange, d
      <4> QED BY <1>1, <4>1 DEF Context!Stays
    <3>2. CASE ~(d < Len(b))
      <4>1. Len(b) \in Int /\ d \in Int /\ d <= Len(b)
        BY <1>1
      <4>2. Len(b) = d
        BY <3>2, <4>1
      <4> QED BY <2>1, <4>2
    <3> QED BY <3>1, <3>2
  <2>3. Len(b) \in 1..Len(b)
    BY <1>1
  <2> QED BY <1>1, <2>1, <2>2, <2>3
<1>3. c = <<Context!Notice(art)>> \o t
  BY DEF Context!Kept
<1> HIDE DEF S, c
<1>4. S \in SUBSET DOMAIN b
  BY DEF S
<1>5. /\ Sequence(t) /\ Len(t) \in Nat
      /\ \E at \in [1..Len(t) -> S] :
           /\ \A k \in 1..Len(t) : t[k] = b[at[k]]
           /\ \A k, l \in 1..Len(t) : k < l => at[k] < at[l]
           /\ \A p \in S : \E k \in 1..Len(t) : at[k] = p
  BY <1>4, SelectedInOrder
<1> HIDE DEF t
<1>6. /\ Sequence(c) /\ Len(c) = Len(t) + 1 /\ DOMAIN c = 1..Len(t) + 1
      /\ c[1] = Context!Notice(art)
      /\ \A k \in 1..Len(t) : c[k + 1] = t[k]
  BY <1>3, <1>5, Prefixed
<1>7. Len(c) - 1 = Len(t) /\ DOMAIN c = 1..Len(c) /\ Len(c) - 1 \in Nat
  BY <1>5, <1>6
<1>8. BehindFirst(c, b, S)
  <2>1. PICK at \in [1..Len(t) -> S] :
           /\ \A k \in 1..Len(t) : t[k] = b[at[k]]
           /\ \A k, l \in 1..Len(t) : k < l => at[k] < at[l]
           /\ \A p \in S : \E k \in 1..Len(t) : at[k] = p
    BY <1>5
  <2>2. \A k \in 1..Len(t) : c[k + 1] = b[at[k]]
    BY <1>6, <2>1
  <2> DEFINE n == Len(t)
  <2>3. Len(c) - 1 = n
    BY <1>7
  <2>4. /\ at \in [1..n -> S]
        /\ \A k \in 1..n : c[k + 1] = b[at[k]]
        /\ \A k, l \in 1..n : k < l => at[k] < at[l]
        /\ \A p \in S : \E k \in 1..n : at[k] = p
    BY <2>1, <2>2
  <2> HIDE DEF n
  <2> QED BY <2>3, <2>4, Zenon DEF BehindFirst
<1> QED BY <1>2, <1>6, <1>7, <1>8 DEF c, d, S

(* A plan keeps the draft and the newest call. *)
LEMMA KeptWork ==
    ASSUME NEW b, Sequence(b), WorkIn(b), NEW keep, NEW art
    PROVE  Sequence(Context!Kept(b, keep, art)) /\ WorkIn(Context!Kept(b, keep, art))
<1> DEFINE c == Context!Kept(b, keep, art)
           d == Context!Draft(b)
           S == {i \in DOMAIN b : Context!Stays(b, keep, i)}
<1>1. /\ Sequence(c) /\ DOMAIN c = 1..Len(c) /\ Len(c) - 1 \in Nat
      /\ c[1] = Context!Notice(art)
      /\ d \in S /\ Len(b) \in S
      /\ BehindFirst(c, b, S)
  BY KeptOf
<1>2. /\ Len(b) \in Nat /\ DOMAIN b = 1..Len(b) /\ b[d] = Context!User(turn)
      /\ \A j \in DOMAIN b : Context!AsUser(b[j]) => j <= d
  BY DraftIs
<1>3. S \subseteq 1..Len(b)
  BY <1>2
<1> HIDE DEF c, d, S
<1>4. PICK at \in [1..Len(c) - 1 -> S] :
           /\ \A k \in 1..Len(c) - 1 : c[k + 1] = b[at[k]]
           /\ \A k, l \in 1..Len(c) - 1 : k < l => at[k] < at[l]
           /\ \A p \in S : \E k \in 1..Len(c) - 1 : at[k] = p
  BY <1>1 DEF BehindFirst
<1> DEFINE n == Len(c) - 1
<1>5. n \in Nat /\ DOMAIN c = 1..n + 1 /\ Len(c) = n + 1
  <2>1. Len(c) \in Nat
    BY <1>1 DEF Sequence
  <2> QED BY <1>1, <2>1
<1> HIDE DEF n
<1>6. /\ at \in [1..n -> S]
      /\ \A k \in 1..n : c[k + 1] = b[at[k]] /\ at[k] \in 1..Len(b)
      /\ \A k, l \in 1..n : k < l => at[k] < at[l]
      /\ \A p \in S : \E k \in 1..n : at[k] = p
  BY <1>3, <1>4 DEF n
<1>7. PICK e \in 1..n : at[e] = d
  BY <1>1, <1>6
<1>8. c[e + 1] = Context!User(turn) /\ e + 1 \in DOMAIN c
  BY <1>2, <1>5, <1>6, <1>7
<1>9. ASSUME NEW j \in DOMAIN c, Context!AsUser(c[j]) PROVE j <= e + 1
  <2>1. j # 1
    <3> SUFFICES ASSUME j = 1 PROVE FALSE
      OBVIOUS
    <3> QED BY <1>1, <1>9 DEF Context!AsUser, Context!Role, Context!Notice
  <2>2. j - 1 \in 1..n /\ (j - 1) + 1 = j
    BY <1>5, <1>9, <2>1
  <2>3. c[j] = b[at[j - 1]] /\ at[j - 1] \in DOMAIN b
    BY <1>2, <1>6, <2>2
  <2>4. at[j - 1] <= at[e]
    BY <1>2, <1>7, <1>9, <2>3
  <2>5. ~(e < j - 1)
    <3> SUFFICES ASSUME e < j - 1 PROVE FALSE
      OBVIOUS
    <3>1. at[e] < at[j - 1] /\ at[e] \in Nat /\ at[j - 1] \in Nat
      BY <1>2, <1>6, <2>2
    <3> QED BY <2>4, <3>1
  <2> QED BY <1>5, <1>9, <2>2, <2>5
<1>10. c[Len(c)] = b[Len(b)]
  <2>1. PICK k \in 1..n : at[k] = Len(b)
    BY <1>1, <1>6
  <2>2. k = n
    <3> SUFFICES ASSUME k # n PROVE FALSE
      OBVIOUS
    <3>1. k < n /\ n \in 1..n
      BY <1>5, <2>1
    <3>2. at[k] < at[n] /\ at[n] \in 1..Len(b)
      BY <1>6, <3>1
    <3> QED BY <1>2, <2>1, <3>2
  <2> QED BY <1>5, <1>6, <2>1, <2>2
<1> QED BY <1>1, <1>5, <1>8, <1>9, <1>10 DEF WorkIn, Work, c

(* Once nothing but the draft and the newest call is left, a plan drops no  *)
(* more than notices.                                                       *)
LEMMA NoMoreToDrop ==
    ASSUME NEW b, Sequence(b), WorkIn(b), NEW art
    PROVE  ~Context!Plans(Context!Kept(b, 0, art), 0)
<1> DEFINE c == Context!Kept(b, 0, art)
           d == Context!Draft(b)
           f == Context!Draft(c)
           S == {i \in DOMAIN b : Context!Stays(b, 0, i)}
<1>1. /\ Sequence(c) /\ DOMAIN c = 1..Len(c) /\ Len(c) - 1 \in Nat
      /\ c[1] = Context!Notice(art)
      /\ d \in S /\ Len(b) \in S
      /\ BehindFirst(c, b, S)
  BY KeptOf
<1>2. /\ Len(b) \in Nat /\ DOMAIN b = 1..Len(b) /\ d \in 1..Len(b) /\ b[d] = Context!User(turn)
      /\ \A j \in DOMAIN b : Context!AsUser(b[j]) => j <= d
  BY DraftIs
<1>3. Sequence(c) /\ WorkIn(c)
  BY KeptWork
<1> HIDE DEF c
<1>4. /\ Len(c) \in Nat /\ f \in 1..Len(c) /\ c[f] = Context!User(turn)
      /\ \A j \in DOMAIN c : Context!AsUser(c[j]) => j <= f
  BY <1>3, DraftIs
<1> HIDE DEF d, f
<1>5. \A i \in S : i = d \/ i = Len(b)
  <2> TAKE i \in S
  <2>1. i \in 1..Len(b) /\ (i = d \/ i >= Context!NewestExchange(b))
    BY <1>2 DEF S, d, Context!Stays, Context!InWindow
  <2>2. Context!NewestExchange(b) = IF d < Len(b) THEN Len(b) ELSE Len(b) + 1
    BY DEF Context!NewestExchange, d
  <2> QED BY <1>2, <2>1, <2>2
<1>6. S \subseteq 1..Len(b)
  BY <1>2 DEF S
<1> HIDE DEF S
<1>7. PICK at \in [1..Len(c) - 1 -> S] :
           /\ \A k \in 1..Len(c) - 1 : c[k + 1] = b[at[k]]
           /\ \A k, l \in 1..Len(c) - 1 : k < l => at[k] < at[l]
           /\ \A p \in S : \E k \in 1..Len(c) - 1 : at[k] = p
  BY <1>1 DEF BehindFirst
<1> DEFINE n == Len(c) - 1
<1>8. n \in Nat /\ DOMAIN c = 1..n + 1 /\ Len(c) = n + 1
  BY <1>1, <1>4
<1> HIDE DEF n
<1>9. /\ at \in [1..n -> S]
      /\ \A k \in 1..n : c[k + 1] = b[at[k]] /\ at[k] \in 1..Len(b)
      /\ \A k, l \in 1..n : k < l => at[k] < at[l]
      /\ \A p \in S : \E k \in 1..n : at[k] = p
  BY <1>6, <1>7 DEF n
<1>10. PICK e \in 1..n : at[e] = d
  BY <1>1, <1>9
<1>11. f = e + 1
  <2>1. Context!AsUser(c[e + 1]) /\ e + 1 \in DOMAIN c
    BY <1>2, <1>8, <1>9, <1>10 DEF Context!AsUser, Context!Role, Context!User
  <2>2. e + 1 <= f
    BY <1>4, <2>1
  <2>3. f - 1 \in 1..n /\ (f - 1) + 1 = f
    BY <1>4, <1>8, <2>2
  <2>4. Context!AsUser(b[at[f - 1]])
    <3>1. c[f] = b[at[f - 1]]
      BY <1>9, <2>3
    <3> QED BY <1>4, <3>1 DEF Context!AsUser, Context!Role, Context!User
  <2>5. at[f - 1] <= at[e]
    BY <1>2, <1>9, <1>10, <2>3, <2>4
  <2>6. ~(e < f - 1)
    <3> SUFFICES ASSUME e < f - 1 PROVE FALSE
      OBVIOUS
    <3>1. at[e] < at[f - 1] /\ at[e] \in Nat /\ at[f - 1] \in Nat
      <4>1. at[e] < at[f - 1] /\ at[e] \in 1..Len(b) /\ at[f - 1] \in 1..Len(b)
        BY <1>9, <2>3
      <4> QED BY <1>2, <4>1
    <3> QED BY <2>5, <3>1
  <2> QED BY <1>4, <2>2, <2>6
<1>12. ASSUME NEW p \in DOMAIN c, p # 1 PROVE Context!Stays(c, 0, p)
  <2>1. p - 1 \in 1..n /\ (p - 1) + 1 = p /\ p \in Nat
    BY <1>8, <1>12
  <2>2. at[p - 1] = d \/ at[p - 1] = Len(b)
    BY <1>5, <1>9, <2>1
  <2>3. CASE p = f
    BY <2>3 DEF Context!Stays, f
  <2>4. CASE p # f
    <3>1. p - 1 # e
      BY <1>11, <2>1, <2>4
    <3>2. at[p - 1] # at[e]
      <4>1. p - 1 < e \/ e < p - 1
        BY <2>1, <3>1
      <4>2. at[p - 1] < at[e] \/ at[e] < at[p - 1]
        BY <1>9, <2>1, <4>1
      <4>3. at[e] \in Nat /\ at[p - 1] \in Nat
        BY <1>2, <1>9, <2>1
      <4> QED BY <4>2, <4>3
    <3>3. at[p - 1] = Len(b) /\ at[p - 1] # d
      BY <1>10, <2>2, <3>2
    <3>4. p - 1 = n
      <4> SUFFICES ASSUME p - 1 # n PROVE FALSE
        OBVIOUS
      <4>1. p - 1 < n /\ n \in 1..n
        BY <1>8, <2>1
      <4>2. at[p - 1] < at[n] /\ at[n] \in 1..Len(b)
        BY <1>9, <2>1, <4>1
      <4>3. Len(b) \in Nat
        BY <1>2
      <4> QED BY <3>3, <4>2, <4>3
    <3>5. f < Len(c) /\ p = Len(c)
      BY <1>8, <1>10, <1>11, <2>1, <3>1, <3>4
    <3>6. Context!NewestExchange(c) = Len(c)
      BY <3>5 DEF Context!NewestExchange, f
    <3> QED BY <1>4, <3>5, <3>6 DEF Context!Stays
  <2> QED BY <2>3, <2>4
<1>13. ASSUME NEW item \in Context!Dropped(c, 0) PROVE Context!Role(item) = "notice"
  <2>1. PICK p \in DOMAIN c : item = c[p] /\ ~Context!Stays(c, 0, p)
    BY <1>13 DEF Context!Dropped
  <2>2. p = 1
    BY <1>12, <2>1
  <2> QED BY <1>1, <2>1, <2>2 DEF Context!Role, Context!Notice
<1> QED BY <1>13 DEF Context!Plans, c

(* The windows are numbers of turns. *)
LEMMA WindowsAreNumbers ==
    /\ Len(Context!Windows) \in Nat \ {0} /\ Context!Windows[1] = Keep
    /\ \A w \in 1..Len(Context!Windows) : Context!Windows[w] \in Nat /\ (w > 1 => Context!Windows[w] \in Smaller)
<1> DEFINE N == Context!Narrower
           n == Cardinality(N)
           t == [k \in 1..n |-> Context!FromLast(N, k)]
<1>1. Keep \in Nat /\ Smaller \in SUBSET Nat
  BY WindowsAssumption
<1>2. N \in SUBSET (0..Keep) /\ N \subseteq Smaller
  <2>1. \A w \in N : w \in Smaller /\ w < Keep
    BY DEF Context!Narrower
  <2>2. \A w \in N : w \in 0..Keep
    <3> HIDE DEF N
    <3> TAKE w \in N
    <3>1. w \in Smaller /\ w < Keep
      BY <2>1
    <3>2. w \in Nat
      BY <1>1, <3>1
    <3> QED BY <1>1, <3>1, <3>2
  <2> QED BY <2>1, <2>2
<1>3. n \in Nat
  <2>1. IsFiniteSet(0..Keep)
    BY <1>1, FS_Interval, 0 \in Int, Keep \in Int
  <2> QED BY <1>2, <2>1, FS_Subset, FS_CardinalityType
<1>4. Context!Windows = <<Keep>> \o t
  BY ContextCardinality DEF Context!Windows
<1> HIDE DEF N, n
<1>5. \A k \in 1..n : Context!FromLast(N, k) \in N
  BY <1>1, <1>2, FromLastIs DEF n
<1>6. \A k \in 1..n : t[k] \in N
  BY <1>5
<1>7. Sequence(t) /\ Len(t) = n
  <2>1. DOMAIN t = 1..n /\ t \in [1..n -> {t[i] : i \in DOMAIN t}]
    OBVIOUS
  <2> HIDE DEF t
  <2> QED BY <1>3, <2>1, SeqDef DEF Sequence
<1> HIDE DEF t
<1>8. /\ Len(<<Keep>> \o t) = Len(t) + 1 /\ (<<Keep>> \o t)[1] = Keep
      /\ \A k \in 1..Len(t) : (<<Keep>> \o t)[k + 1] = t[k]
  BY <1>7, Prefixed
<1> DEFINE W == Context!Windows
<1>9. Len(W) = n + 1 /\ W[1] = Keep /\ \A k \in 1..n : W[k + 1] \in N
  BY <1>4, <1>6, <1>7, <1>8
<1> HIDE DEF W
<1>10. ASSUME NEW w \in 1..Len(W) PROVE W[w] \in Nat /\ (w > 1 => W[w] \in Smaller)
  <2>1. CASE w = 1
    BY <1>1, <1>9, <2>1
  <2>2. CASE w # 1
    <3>1. w - 1 \in 1..n /\ (w - 1) + 1 = w
      BY <1>3, <1>9, <1>10, <2>2
    <3>2. W[w] \in N
      BY <1>9, <3>1
    <3> QED BY <1>1, <1>2, <3>2
  <2> QED BY <2>1, <2>2
<1> QED BY <1>3, <1>9, <1>10 DEF W


LEMMA Numbered ==
    ASSUME NEW n \in Nat, NEW f, f = [k \in 1..n |-> f[k]]
    PROVE  Sequence(f) /\ Len(f) = n
<1>1. DOMAIN f = 1..n /\ f \in [1..n -> {f[i] : i \in DOMAIN f}]
  OBVIOUS
<1> QED BY <1>1, SeqDef DEF Sequence

(* What is replayed is a sequence of messages. *)
LEMMA HistoryIsSequence == ASSUME ContextInv PROVE Sequence(Context!History)
<1> DEFINE s == Context!Stored
           role(p) == Context!Role(messages[s[p]].item)
           after == {p \in DOMAIN s : messages[s[p]].stamp > checkpoint.cutoff}
           shownAt == {p \in after : role(p) = "answer" => messages[s[p]].done}
           overtakes(p, q) == q < p /\ role(q) = "answer" /\ \A r \in q + 1..p : role(r) = "tool"
           before(p, q) == overtakes(p, q) \/ (p < q /\ ~overtakes(q, p))
           nth(n) == CHOOSE p \in shownAt : Context!Cardinality({q \in shownAt : before(q, p)}) = n - 1
           head == IF after # DOMAIN s THEN <<Context!CheckpointNotice(checkpoint.art)>> ELSE <<>>
           t == [n \in 1..Context!Cardinality(shownAt) |-> messages[s[nth(n)]].item]
<1>1. Context!Replay = head \o t
  BY DEF Context!Replay
<1>2. Context!Cardinality(shownAt) \in Nat
  <2>1. DOMAIN s = 1..Len(messages) /\ Len(messages) \in Nat
    BY StoredInOrder DEF ContextInv, ContextType, InOrder
  <2>2. IsFiniteSet(1..Len(messages))
    BY <2>1, FS_Interval, 1 \in Int, Len(messages) \in Int
  <2>3. shownAt \subseteq 1..Len(messages)
    BY <2>1
  <2> HIDE DEF shownAt
  <2> QED BY <2>2, <2>3, FS_Subset, FS_CardinalityType, ContextCardinality
<1> HIDE DEF shownAt, s, nth
<1>3. t = [n \in 1..Context!Cardinality(shownAt) |-> t[n]]
  OBVIOUS
<1> HIDE DEF t
<1>4. Sequence(t)
  BY <1>2, <1>3, Numbered
<1>5. Sequence(head \o t)
  <2>1. CASE after # DOMAIN s
    <3>1. head \o t = <<Context!CheckpointNotice(checkpoint.art)>> \o t
      BY <2>1
    <3> QED BY <1>4, <3>1, Prefixed
  <2>2. CASE after = DOMAIN s
    <3>1. head = <<>>
      BY <2>2
    <3>2. t \in Seq({t[i] : i \in DOMAIN t})
      BY <1>4 DEF Sequence
    <3>3. head \o t = t
      BY <3>1, <3>2, ConcatEmptySeq
    <3> QED BY <1>4, <3>3
  <2> QED BY <2>1, <2>2
<1>6. Sequence(Context!Replay)
  BY <1>1, <1>5
<1> QED BY <1>6 DEF Context!History, ContextInv, ContextType

LEMMA NothingIsSequence == Sequence(<<>>)
<1>1. DOMAIN <<>> = {} /\ <<>> \in Seq({})
  OBVIOUS
<1> QED BY <1>1 DEF Sequence

(* The first state, and the steps that touch no rows.                       *)
LEMMA InitContext == ASSUME Context!Init PROVE ContextInv
<1>1. /\ messages = <<>> /\ clock = 1 /\ checkpoint = [cutoff |-> 0, art |-> 0, by |-> "none"]
      /\ archives = <<>> /\ cache.items = <<>> /\ buffer = <<>> /\ original = <<>>
      /\ turn = 0 /\ tools = 0 /\ phase = "idle"
  BY DEF Context!Init, Context!NoCheckpoint, Context!NoCache
<1>2. messages \in Seq(Row) /\ DOMAIN messages = {}
  BY <1>1
<1>3. ContextType
  BY <1>1, <1>2, NothingIsSequence DEF ContextType
<1>4. InOrder
  BY <1>1, <1>2 DEF InOrder, Ordered
<1>5. HiddenIsArchived
  BY <1>1, <1>2 DEF HiddenIsArchived, Context!PrefixArchived
<1>6. WorkInHand
  BY <1>1 DEF WorkInHand
<1> QED BY <1>3, <1>4, <1>5, <1>6 DEF ContextInv

LEMMA RowsUntouched ==
    ASSUME ContextInv, UNCHANGED <<messages, checkpoint, archives, turn>>
    PROVE  Compacted
BY DEF ContextInv, ContextType, InOrder, HiddenIsArchived, Context!PrefixArchived, Compacted,
       Context!DraftStored, Context!User

(* A step of the turn, with what it does to the rows put aside.             *)
LEMMA TurnMoves ==
    ASSUME ContextInv, Compacted, clock' \in Nat \ {0}, turn' \in Nat, tools' \in Nat,
           Sequence(cache'.items), Sequence(buffer'), Sequence(original'),
           phase' \in {"idle", "count", "window", "fit", "round", "compact", "answered"},
           phase' \in {"round", "compact", "answered"} =>
               Context!DraftStored \/ phase \in {"round", "compact", "answered"},
           WorkInHand'
    PROVE  ContextInv'
BY DEF ContextInv, ContextType, InOrder, Compacted

LEMMA AtRestWithout ==
    ASSUME Context!Idle
    PROVE  phase' = "idle" /\ WorkInHand' /\ Sequence(buffer') /\ Sequence(original')
BY NothingIsSequence DEF Context!Idle, WorkInHand

LEMMA ContextBegin == ASSUME ContextInv, Context!Begin PROVE ContextInv'
<1>1. /\ UNCHANGED <<messages, clock, checkpoint, archives, cache, original>>
      /\ turn' = turn + 1 /\ tools' = 0 /\ phase' = "count"
      /\ buffer' = Append(Context!History, Context!User(turn'))
  BY DEF Context!Begin, Context!table, Context!saved
<1>2. turn \in Nat /\ tools' \in Nat /\ turn' \in Nat
  BY <1>1 DEF ContextInv, ContextType
<1> DEFINE h == Context!History
           c == Append(h, Context!User(turn'))
<1>3. Sequence(h)
  BY HistoryIsSequence
<1> HIDE DEF h
<1>4. /\ Sequence(c) /\ Len(h) \in Nat /\ Len(c) = Len(h) + 1 /\ c[Len(h) + 1] = Context!User(turn')
  BY <1>3, Grows
<1> HIDE DEF c
<1>5. DOMAIN c = 1..Len(h) + 1
  BY <1>4, Grows
<1>6. Work(c, turn', tools')
  BY <1>1, <1>4, <1>5 DEF Work
<1>7. buffer' = c
  BY <1>1 DEF c, h
<1>8. WorkInHand'
  BY <1>1, <1>6, <1>7 DEF WorkInHand, WorkIn
<1>9. Ordered(messages', turn')
  <2>1. messages \in Seq(Row) /\ Ordered(messages, turn) /\ messages' = messages
    BY <1>1 DEF ContextInv, ContextType, InOrder
  <2>2. \A i \in DOMAIN messages : messages[i].item[2] <= turn => messages[i].item[2] <= turn'
    <3> TAKE i \in DOMAIN messages
    <3>1. messages[i].item \in {"user", "answer", "tool"} \X Nat \X Nat
      BY <2>1, RowsTyped
    <3>2. messages[i].item[2] \in Nat
      BY <3>1
    <3> QED BY <1>1, <1>2, <3>2
  <2> QED BY <2>1, <2>2 DEF Ordered
<1>10. HiddenIsArchived'
  BY <1>1 DEF ContextInv, HiddenIsArchived, Context!PrefixArchived
<1> QED BY <1>1, <1>2, <1>4, <1>7, <1>8, <1>9, <1>10 DEF ContextInv, ContextType, InOrder

LEMMA ContextCount == ASSUME ContextInv, Context!Count PROVE ContextInv'
<1>1. /\ UNCHANGED <<messages, clock, checkpoint, archives, cache, turn, tools, buffer>>
      /\ phase = "count" /\ original' = buffer
      /\ (phase' = "window" /\ window' = 1) \/ phase' = "fit"
  BY DEF Context!Count, Context!table, Context!saved
<1>2. Compacted
  BY <1>1, RowsUntouched
<1>3. WorkIn(buffer) /\ turn \in Nat /\ tools \in Nat
  BY <1>1 DEF ContextInv, ContextType, WorkInHand
<1>4. 1 \in 1..Len(Context!Windows)
  BY WindowsAreNumbers
<1>5. WorkInHand'
  BY <1>1, <1>3, <1>4 DEF WorkInHand, WorkIn
<1> QED BY <1>1, <1>2, <1>5, TurnMoves DEF ContextInv, ContextType

LEMMA ContextWindowUseless == ASSUME ContextInv, Context!WindowUseless PROVE ContextInv'
<1>1. /\ UNCHANGED <<messages, clock, checkpoint, archives, cache, turn, tools, buffer, original>>
      /\ phase = "window" /\ Context!NextWindow
  BY DEF Context!WindowUseless, Context!table, Context!saved
<1>2. Compacted
  BY <1>1, RowsUntouched
<1>3. WorkIn(buffer) /\ WorkIn(original) /\ window \in 1..Len(Context!Windows)
  BY <1>1 DEF ContextInv, WorkInHand
<1>4. phase' = "fit" \/ (phase' = "window" /\ window' \in 1..Len(Context!Windows))
  BY <1>1, <1>3, WindowsAreNumbers DEF Context!NextWindow
<1>5. WorkInHand'
  BY <1>1, <1>3, <1>4 DEF WorkInHand, WorkIn
<1> QED BY <1>1, <1>2, <1>4, <1>5, TurnMoves DEF ContextInv, ContextType

(* Only a window that leaves turns has its cutoff persisted. *)
LEMMA LiveWindow ==
    ASSUME ContextInv, Context!WindowAccepted
    PROVE  \/ UNCHANGED <<messages, checkpoint, archives>>
           \/ /\ Context!Keeping \in Nat \ {0} /\ window \in 1..Len(Context!Windows)
              /\ \E dropped : archives' = Append(archives, dropped)
              /\ Context!PersistLiveCutoff(Context!Keeping, Len(archives) + 1)
<1> DEFINE first == Context!Kept(original, Context!Keeping, 0)
           art == Len(archives) + 1
           second == Context!Kept(first, Context!Keeping, art)
<1>1. /\ phase = "window"
      /\ IF Context!Plans(first, Context!Keeping) /\ Len(second) < Len(first)
           THEN /\ archives' = Append(archives, Context!Dropped(first, Context!Keeping))
                /\ Context!PersistLiveCutoff(Context!Keeping, art)
           ELSE UNCHANGED <<messages, checkpoint, archives>>
  BY DEF Context!WindowAccepted, Context!saved
<1>2. WorkIn(original) /\ window \in 1..Len(Context!Windows) /\ Sequence(original)
  BY <1>1 DEF ContextInv, ContextType, WorkInHand
<1>3. Context!Keeping \in Nat
  BY <1>2, WindowsAreNumbers DEF Context!Keeping
<1>4. Context!Plans(first, Context!Keeping) => Context!Keeping # 0
  <2> SUFFICES ASSUME Context!Keeping = 0 PROVE ~Context!Plans(first, Context!Keeping)
    OBVIOUS
  <2>1. ~Context!Plans(Context!Kept(original, 0, 0), 0)
    BY <1>2, NoMoreToDrop
  <2> QED BY <2>1
<1> HIDE DEF first, second
<1> QED BY <1>1, <1>2, <1>3, <1>4

LEMMA ContextWindowAccepted == ASSUME ContextInv, Context!WindowAccepted PROVE ContextInv'
<1> DEFINE first == Context!Kept(original, Context!Keeping, 0)
           second == Context!Kept(first, Context!Keeping, Len(archives) + 1)
<1>1. /\ UNCHANGED <<clock, cache, turn, tools, original>> /\ phase = "window"
      /\ buffer' = second \/ buffer' = first
      /\ Context!NextWindow \/ phase' = "fit"
  BY DEF Context!WindowAccepted
<1>2. /\ WorkIn(original) /\ window \in 1..Len(Context!Windows)
      /\ Sequence(original) /\ turn \in Nat /\ tools \in Nat
  BY <1>1 DEF ContextInv, ContextType, WorkInHand
<1>3. Sequence(first) /\ WorkIn(first)
  BY <1>2, KeptWork
<1> HIDE DEF first
<1>4. Sequence(second) /\ WorkIn(second)
  BY <1>3, KeptWork
<1> HIDE DEF second
<1>5. Compacted
  <2>1. CASE UNCHANGED <<messages, checkpoint, archives>>
    BY <1>1, <2>1, RowsUntouched
  <2>2. CASE ~UNCHANGED <<messages, checkpoint, archives>>
    BY <1>1, <2>2, LiveWindow, PersistsLive
  <2> QED BY <2>1, <2>2
<1>6. Sequence(buffer') /\ Work(buffer', turn, tools)
  BY <1>1, <1>3, <1>4 DEF WorkIn
<1>7. phase' = "fit" \/ (phase' = "window" /\ window' \in 1..Len(Context!Windows))
  BY <1>1, <1>2, WindowsAreNumbers DEF Context!NextWindow
<1>8. WorkInHand'
  BY <1>1, <1>2, <1>6, <1>7 DEF WorkInHand, WorkIn
<1> QED BY <1>1, <1>5, <1>6, <1>7, <1>8, TurnMoves DEF ContextInv, ContextType

LEMMA ContextCompactTool == ASSUME ContextInv, Context!CompactTool PROVE ContextInv'
<1>1. /\ UNCHANGED <<clock, cache, turn, tools, buffer, original>> /\ phase = "compact" /\ phase' = "count"
      /\ Context!CompactNow(ToolKeep, "tool")
  BY DEF Context!CompactTool, Context!request
<1>2. Compacted
  <2>1. ToolKeep \in Nat \ {0}
    BY WindowsAssumption
  <2> QED BY <1>1, <2>1, CompactsNow
<1>3. WorkInHand'
  BY <1>1 DEF ContextInv, WorkInHand, WorkIn
<1> QED BY <1>1, <1>2, <1>3, TurnMoves DEF ContextInv, ContextType

LEMMA ContextPress == ASSUME ContextInv, Context!Press PROVE ContextInv'
<1>1. /\ UNCHANGED <<clock, cache, phase, turn, tools, buffer, original, window>>
      /\ Context!CompactNow(Keep, "button")
  BY DEF Context!Press, Context!request
<1>2. Compacted
  <2>1. Keep \in Nat \ {0}
    BY WindowsAssumption
  <2> QED BY <1>1, <2>1, CompactsNow
<1>3. WorkInHand'
  BY <1>1 DEF ContextInv, WorkInHand, WorkIn
<1> QED BY <1>1, <1>2, <1>3, TurnMoves DEF ContextInv, ContextType

LEMMA ContextSettles == ASSUME ContextInv, Context!SaveHistory \/ Context!Stopped PROVE ContextInv'
<1>1. UNCHANGED <<messages, clock, checkpoint, archives, turn, tools>> /\ Context!Idle
  BY DEF Context!SaveHistory, Context!Stopped, Context!table, Context!saved
<1>2. Compacted
  BY <1>1, RowsUntouched
<1>3. Sequence(cache'.items)
  <2>1. CASE Context!SaveHistory
    <3>1. cache'.items = Append(buffer, Context!Answer(turn))
      BY <2>1 DEF Context!SaveHistory
    <3> QED BY <3>1, Grows DEF ContextInv, ContextType
  <2>2. CASE Context!Stopped
    <3>1. cache'.items = <<>> \/ cache' = cache
      BY <2>2 DEF Context!Stopped, Context!NoCache
    <3> QED BY <3>1, NothingIsSequence DEF ContextInv, ContextType
  <2> QED BY <2>1, <2>2
<1>4. phase' = "idle" /\ WorkInHand' /\ Sequence(buffer') /\ Sequence(original')
  BY <1>1, AtRestWithout
<1> QED BY <1>1, <1>2, <1>3, <1>4, TurnMoves DEF ContextInv, ContextType

LEMMA ContextCrash == ASSUME ContextInv, ~MidwayCrashes, Context!Crash PROVE ContextInv'
<1>1. UNCHANGED <<messages, clock, checkpoint, archives, cache, turn, tools>> /\ Context!Idle
  BY DEF Context!Crash, Context!saved, Context!HalfRestamped
<1>2. Compacted
  BY <1>1, RowsUntouched
<1>3. phase' = "idle" /\ WorkInHand' /\ Sequence(buffer') /\ Sequence(original')
  BY <1>1, AtRestWithout
<1> QED BY <1>1, <1>2, <1>3, TurnMoves DEF ContextInv, ContextType

LEMMA ContextRests == ASSUME ContextInv, UNCHANGED context PROVE ContextInv'
<1>1. UNCHANGED <<messages, clock, checkpoint, archives, cache, phase, turn, tools, buffer, original, window>>
  BY DEF context
<1>2. Compacted
  BY <1>1, RowsUntouched
<1>3. WorkInHand'
  BY <1>1 DEF ContextInv, WorkInHand, WorkIn
<1> QED BY <1>1, <1>2, <1>3, TurnMoves DEF ContextInv, ContextType, InOrder

(* A row of the turn behind the others: the draft, when it is not stored,   *)
(* or an answer or a call, when it is.                                      *)
LEMMA OneRow ==
    ASSUME NEW r \in Seq(Row), NEW n \in Nat, Ordered(r, n), NEW x \in Row, x.item[2] = n,
           \A i \in DOMAIN r : r[i].stamp <= x.stamp,
           \/ x.item = Context!User(n) /\ \A i \in DOMAIN r : r[i].item # Context!User(n)
           \/ x.item[1] # "user" /\ \E i \in DOMAIN r : r[i].item = Context!User(n)
    PROVE  /\ Append(r, x) \in Seq(Row) /\ Ordered(Append(r, x), n)
           /\ DOMAIN Append(r, x) = 1..Len(r) + 1 /\ DOMAIN r = 1..Len(r) /\ Len(r) \in Nat
           /\ \A i \in DOMAIN r : Append(r, x)[i] = r[i]
           /\ Append(r, x)[Len(r) + 1] = x
           /\ \E i \in DOMAIN Append(r, x) : Append(r, x)[i].item = Context!User(n)
<1> DEFINE t == Append(r, x)
           m == Len(r) + 1
<1>1. /\ t \in Seq(Row) /\ DOMAIN t = 1..m /\ DOMAIN r = 1..Len(r) /\ Len(r) \in Nat
      /\ \A i \in DOMAIN r : t[i] = r[i]
      /\ t[m] = x
  OBVIOUS
<1>2. \A i \in DOMAIN r : i \in DOMAIN t /\ i < m
  BY <1>1
<1>3. m \in DOMAIN t /\ \A i \in DOMAIN t : i = m \/ i \in DOMAIN r
  BY <1>1
<1> HIDE DEF t, m
<1>4. \E i \in DOMAIN t : t[i].item = Context!User(n)
  BY <1>1, <1>2, <1>3
<1>5. ASSUME NEW i \in DOMAIN r
      PROVE  /\ r[i].item[2] \in Nat /\ r[i].item[2] <= n
             /\ \E j \in DOMAIN r : r[j].item = Context!User(r[i].item[2])
  <2>1. r[i].item \in {"user", "answer", "tool"} \X Nat \X Nat
    BY RowsTyped
  <2> QED BY <2>1 DEF Ordered
<1>6. ASSUME NEW i \in DOMAIN t
      PROVE  t[i].item[2] <= n /\ \E j \in DOMAIN t : t[j].item = Context!User(t[i].item[2])
  <2>1. CASE i = m
    BY <1>1, <1>4, <2>1
  <2>2. CASE i \in DOMAIN r
    BY <1>1, <1>2, <1>5, <2>2
  <2> QED BY <1>3, <2>1, <2>2
<1>7. ASSUME NEW i \in DOMAIN t, NEW j \in DOMAIN t, i < j
      PROVE  /\ t[i].stamp <= t[j].stamp /\ t[i].item[2] <= t[j].item[2]
             /\ t[i].item[2] = t[j].item[2] => t[j].item[1] # "user"
  <2>1. i \in DOMAIN r
    BY <1>1, <1>3, <1>7
  <2>2. CASE j = m
    <3>1. t[i] = r[i] /\ t[j] = x /\ r[i].stamp <= x.stamp
      BY <1>1, <2>1, <2>2
    <3>2. r[i].item[2] <= x.item[2]
      BY <1>5, <2>1
    <3>3. r[i].item[2] = n => \E k \in DOMAIN r : r[k].item = Context!User(n)
      BY <1>5, <2>1
    <3>4. r[i].item[2] = n => x.item[1] # "user"
      BY <3>3
    <3> QED BY <3>1, <3>2, <3>4
  <2>3. CASE j \in DOMAIN r
    <3>1. t[i] = r[i] /\ t[j] = r[j]
      BY <1>1, <2>1, <2>3
    <3> QED BY <1>7, <2>1, <2>3, <3>1 DEF Ordered
  <2> QED BY <1>3, <2>2, <2>3
<1>8. Ordered(t, n)
  BY <1>6, <1>7 DEF Ordered
<1> QED BY <1>1, <1>4, <1>8 DEF t, m

(* Rows are added at an instant of the clock, behind the cutoff.            *)
RowsAdded(now) ==
    /\ Context!Instant(now) /\ messages' \in Seq(Row) /\ Ordered(messages', turn)
    /\ DOMAIN messages \subseteq DOMAIN messages' /\ \E i \in DOMAIN messages' : i \notin DOMAIN messages
    /\ \A i \in DOMAIN messages' : IF i \in DOMAIN messages THEN messages'[i] = messages[i] ELSE messages'[i].stamp = now
    /\ \E i \in DOMAIN messages' : messages'[i].item = Context!User(turn)

LEMMA BehindCutoff ==
    ASSUME ContextInv, ClockPasses, NEW now \in clock..MaxTime, Context!Instant(now)
    PROVE  /\ clock' = now /\ now \in Nat \ {0} /\ now > checkpoint.cutoff
           /\ \A i \in DOMAIN messages : messages[i].stamp <= now
<1>1. /\ messages \in Seq(Row) /\ clock \in Nat \ {0}
      /\ checkpoint.cutoff \in Nat /\ HiddenIsArchived
  BY DEF ContextInv, ContextType
<1>2. clock' = now /\ now \in Nat \ {0} /\ \A i \in DOMAIN messages : messages[i].stamp <= now
  BY <1>1, WindowsAssumption DEF Context!Instant
<1>3. \A i \in DOMAIN messages : messages[i].stamp \in Nat
  BY <1>1, RowsTyped
<1>4. now > checkpoint.cutoff
  <2>1. CASE checkpoint.cutoff = 0
    BY <1>2, <2>1
  <2>2. CASE checkpoint.cutoff # 0
    <3>1. PICK i \in DOMAIN messages : messages[i].stamp > checkpoint.cutoff
      BY <1>1, <2>2 DEF HiddenIsArchived
    <3> QED BY <1>1, <1>2, <1>3, <3>1
  <2> QED BY <2>1, <2>2
<1> QED BY <1>2, <1>4

LEMMA RowAdded ==
    ASSUME ContextInv, ClockPasses, NEW now \in clock..MaxTime, RowsAdded(now), UNCHANGED <<checkpoint, archives, turn>>
    PROVE  Compacted /\ clock' \in Nat \ {0} /\ Context!DraftStored'
<1>1. /\ Sequence(archives) /\ HiddenIsArchived /\ checkpoint.cutoff \in Nat
      /\ checkpoint \in [cutoff : Nat, art : Nat, by : {"none", "tool", "button", "live"}]
  BY DEF ContextInv, ContextType
<1>2. clock' = now /\ now \in Nat \ {0} /\ now > checkpoint.cutoff
  BY BehindCutoff DEF RowsAdded
<1>3. /\ messages' \in Seq(Row) /\ Ordered(messages', turn)
      /\ DOMAIN messages \subseteq DOMAIN messages' /\ \E i \in DOMAIN messages' : i \notin DOMAIN messages
      /\ \A i \in DOMAIN messages' : IF i \in DOMAIN messages THEN messages'[i] = messages[i] ELSE messages'[i].stamp = now
      /\ \E i \in DOMAIN messages' : messages'[i].item = Context!User(turn)
  BY DEF RowsAdded
<1>5. ~(now <= checkpoint.cutoff)
  BY <1>1, <1>2
<1>6. HiddenIsArchived'
  <2>1. \E i \in DOMAIN messages' : messages'[i].stamp > checkpoint'.cutoff
    BY <1>2, <1>3
  <2>2. checkpoint'.by \in {"tool", "button"} => checkpoint'.art \in DOMAIN archives'
    BY <1>1 DEF HiddenIsArchived
  <2>3. ASSUME checkpoint'.by \in {"tool", "button"}, NEW i \in DOMAIN messages', messages'[i].stamp <= checkpoint'.cutoff
        PROVE  messages'[i].item \in archives'[checkpoint'.art]
    <3>1. i \in DOMAIN messages
      BY <1>3, <1>5, <2>3
    <3>2. messages'[i] = messages[i]
      BY <1>3, <3>1
    <3> QED BY <1>1, <2>3, <3>1, <3>2 DEF HiddenIsArchived, Context!PrefixArchived
  <2> QED BY <2>1, <2>2, <2>3 DEF HiddenIsArchived, Context!PrefixArchived
<1>7. Context!DraftStored'
  BY <1>3 DEF Context!DraftStored, Context!User
<1> QED BY <1>1, <1>2, <1>3, <1>6, <1>7 DEF Compacted

LEMMA FirstOnes ==
    ASSUME NEW a, NEW b
    PROVE  /\ DOMAIN <<a, b>> = 1..2 /\ <<a, b>>[1] = a /\ <<a, b>>[2] = b
           /\ DOMAIN <<a>> = 1..1 /\ <<a>>[1] = a
           /\ \A f : f = [i \in 1..2 |-> f[i]] /\ f[1] = a /\ f[2] = b => f = <<a, b>>
           /\ \A f : f = [i \in 1..1 |-> f[i]] /\ f[1] = a => f = <<a>>
<1>1. /\ DOMAIN <<a, b>> = 1..2 /\ <<a, b>>[1] = a /\ <<a, b>>[2] = b
      /\ DOMAIN <<a>> = 1..1 /\ <<a>>[1] = a
  OBVIOUS
<1>2. <<a, b>> = [i \in 1..2 |-> <<a, b>>[i]] /\ <<a>> = [i \in 1..1 |-> <<a>>[i]]
  OBVIOUS
<1>3. \A i \in 1..2 : i = 1 \/ i = 2
  OBVIOUS
<1>4. \A i \in 1..1 : i = 1
  OBVIOUS
<1>5. ASSUME NEW f, f = [i \in 1..2 |-> f[i]], f[1] = a, f[2] = b PROVE f = <<a, b>>
  <2>1. \A i \in 1..2 : f[i] = <<a, b>>[i]
    BY <1>1, <1>3, <1>5
  <2> QED BY <1>2, <1>5, <2>1
<1>6. ASSUME NEW f, f = [i \in 1..1 |-> f[i]], f[1] = a PROVE f = <<a>>
  <2>1. \A i \in 1..1 : f[i] = <<a>>[i]
    BY <1>1, <1>4, <1>6
  <2> QED BY <1>2, <1>6, <2>1
<1> QED BY <1>1, <1>5, <1>6

LEMMA DraftIsAdded ==
    ASSUME ContextInv, ClockPasses, Context!Generate, ~Context!DraftStored
    PROVE  \E now \in clock..MaxTime : RowsAdded(now)
<1>0. messages \in Seq(Row) /\ Ordered(messages, turn) /\ turn \in Nat /\ clock \in Nat \ {0}
  BY DEF ContextInv, ContextType, InOrder
<1>1. PICK now \in clock..MaxTime :
         Context!Instant(now) /\ messages' = Context!Appended(messages, now, <<Context!User(turn), Context!Answer(turn)>>)
  BY DEF Context!Generate
<1> DEFINE x == [item |-> Context!User(turn), stamp |-> now, done |-> FALSE]
           y == [item |-> Context!Answer(turn), stamp |-> now, done |-> FALSE]
           r == Append(messages, x)
           t == Append(r, y)
<1>2. now \in Nat \ {0} /\ \A i \in DOMAIN messages : messages[i].stamp <= now
  BY <1>0, WindowsAssumption, <1>1 DEF Context!Instant
<1>3. x \in Row /\ x.item[2] = turn /\ x.item = Context!User(turn) /\ x.stamp = now
  BY <1>0, <1>2 DEF Row, Context!User
<1>4. y \in Row /\ y.item[2] = turn /\ y.item[1] # "user" /\ y.stamp = now
  BY <1>0, <1>2 DEF Row, Context!Answer
<1>5. messages' = t
  <2>1. [i \in DOMAIN <<Context!User(turn), Context!Answer(turn)>> |->
           [item |-> <<Context!User(turn), Context!Answer(turn)>>[i], stamp |-> now, done |-> FALSE]] = <<x, y>>
    <3> DEFINE s == <<Context!User(turn), Context!Answer(turn)>>
               f == [i \in DOMAIN s |-> [item |-> s[i], stamp |-> now, done |-> FALSE]]
    <3>1. DOMAIN s = 1..2 /\ s[1] = Context!User(turn) /\ s[2] = Context!Answer(turn)
      BY FirstOnes
    <3> HIDE DEF s
    <3>2. f = [i \in 1..2 |-> f[i]]
      BY <3>1
    <3>4. 1 \in 1..2 /\ 2 \in 1..2
      OBVIOUS
    <3>5. f[1] = x /\ f[2] = y
      BY <3>1, <3>4
    <3> HIDE DEF f, x, y
    <3>3. f = <<x, y>>
      BY <3>2, <3>5, FirstOnes
    <3> QED BY <3>3 DEF f, s
  <2>2. messages' = messages \o <<x, y>>
    BY <1>1, <2>1 DEF Context!Appended
  <2> HIDE DEF x, y
  <2>3. messages \o <<x, y>> = Append(Append(messages, x), y)
    BY <1>0, <1>3, <1>4
  <2> QED BY <2>2, <2>3
<1> HIDE DEF x, y
<1>6. \A i \in DOMAIN messages : messages[i].item # Context!User(turn)
  BY DEF Context!DraftStored
<1>7. /\ r \in Seq(Row) /\ Ordered(r, turn)
      /\ DOMAIN r = 1..Len(messages) + 1 /\ DOMAIN messages = 1..Len(messages) /\ Len(messages) \in Nat
      /\ \A i \in DOMAIN messages : r[i] = messages[i]
      /\ r[Len(messages) + 1] = x
      /\ \E i \in DOMAIN r : r[i].item = Context!User(turn)
  BY <1>0, <1>2, <1>3, <1>6, OneRow
<1> HIDE DEF r
<1>8. \A i \in DOMAIN r : r[i].stamp <= y.stamp
  <2> TAKE i \in DOMAIN r
  <2>1. i \in DOMAIN messages \/ i = Len(messages) + 1
    BY <1>7
  <2> QED BY <1>2, <1>3, <1>4, <1>7, <2>1
<1>9. /\ t \in Seq(Row) /\ Ordered(t, turn)
      /\ DOMAIN t = 1..Len(r) + 1 /\ DOMAIN r = 1..Len(r) /\ Len(r) \in Nat
      /\ \A i \in DOMAIN r : t[i] = r[i]
      /\ t[Len(r) + 1] = y
      /\ \E i \in DOMAIN t : t[i].item = Context!User(turn)
  <2>1. /\ r \in Seq(Row) /\ Ordered(r, turn) /\ turn \in Nat /\ y \in Row /\ y.item[2] = turn
        /\ y.item[1] # "user" /\ \E i \in DOMAIN r : r[i].item = Context!User(turn)
    BY <1>0, <1>4, <1>7
  <2> QED BY <1>8, <2>1, OneRow
<1> HIDE DEF t
<1>10. Len(r) = Len(messages) + 1
  BY <1>7, <1>9
<1>11. DOMAIN messages \subseteq DOMAIN t /\ Len(r) + 1 \in DOMAIN t /\ Len(r) + 1 \notin DOMAIN messages
  BY <1>7, <1>9, <1>10
<1>12. \A i \in DOMAIN t : IF i \in DOMAIN messages THEN t[i] = messages[i] ELSE t[i].stamp = now
  <2> TAKE i \in DOMAIN t
  <2>1. i \in DOMAIN messages \/ i = Len(messages) + 1 \/ i = Len(r) + 1
    BY <1>7, <1>9, <1>10
  <2>2. i \in DOMAIN messages => t[i] = messages[i]
    BY <1>7, <1>9, <1>10
  <2>3. i = Len(messages) + 1 => t[i].stamp = now
    BY <1>3, <1>7, <1>9, <1>10
  <2>4. i = Len(r) + 1 => t[i].stamp = now
    BY <1>4, <1>9
  <2> QED BY <2>1, <2>2, <2>3, <2>4
<1> QED BY <1>1, <1>5, <1>9, <1>11, <1>12 DEF RowsAdded

LEMMA ContextGenerate == ASSUME ContextInv, ClockPasses, Context!Generate PROVE ContextInv'
<1>1. /\ UNCHANGED <<checkpoint, archives, cache, turn, tools, buffer, original, window>>
      /\ phase = "fit" /\ phase' = "round"
  BY DEF Context!Generate, Context!saved, Context!request
<1>2. messages \in Seq(Row) /\ Ordered(messages, turn) /\ turn \in Nat /\ clock \in Nat \ {0}
  BY DEF ContextInv, ContextType, InOrder
<1>3. Compacted /\ clock' \in Nat \ {0} /\ Context!DraftStored'
  <2>1. CASE Context!DraftStored
    <3>1. UNCHANGED <<messages, clock>>
      BY <2>1 DEF Context!Generate, Context!table
    <3>2. Compacted
      BY <1>1, <3>1, RowsUntouched
    <3> QED BY <1>2, <2>1, <3>1, <3>2 DEF Compacted
  <2>2. CASE ~Context!DraftStored
    BY <1>1, <2>2, DraftIsAdded, RowAdded
  <2> QED BY <2>1, <2>2
<1>4. WorkInHand'
  BY <1>1 DEF ContextInv, WorkInHand, WorkIn
<1> QED BY <1>1, <1>3, <1>4, TurnMoves DEF ContextInv, ContextType, Compacted, InOrder

LEMMA CallIsAdded ==
    ASSUME ContextInv, ClockPasses, Context!CallTool
    PROVE  \E now \in clock..MaxTime : RowsAdded(now)
<1>0. /\ messages \in Seq(Row) /\ Ordered(messages, turn) /\ turn \in Nat /\ clock \in Nat \ {0} /\ tools' \in Nat
      /\ Context!DraftStored
  BY DEF ContextInv, ContextType, InOrder, Context!CallTool
<1>1. PICK now \in clock..MaxTime :
         Context!Instant(now) /\ messages' = Context!Appended(messages, now, <<Context!Tool(turn, tools')>>)
  BY DEF Context!CallTool
<1> DEFINE x == [item |-> Context!Tool(turn, tools'), stamp |-> now, done |-> FALSE]
           t == Append(messages, x)
<1>2. now \in Nat \ {0} /\ \A i \in DOMAIN messages : messages[i].stamp <= now
  BY <1>0, WindowsAssumption, <1>1 DEF Context!Instant
<1>3. x \in Row /\ x.item[2] = turn /\ x.item[1] # "user" /\ x.stamp = now
  BY <1>0, <1>2 DEF Row, Context!Tool
<1>4. messages' = t
  <2>1. [i \in DOMAIN <<Context!Tool(turn, tools')>> |->
           [item |-> <<Context!Tool(turn, tools')>>[i], stamp |-> now, done |-> FALSE]] = <<x>>
    <3> DEFINE s == <<Context!Tool(turn, tools')>>
               f == [i \in DOMAIN s |-> [item |-> s[i], stamp |-> now, done |-> FALSE]]
    <3>1. DOMAIN s = 1..1 /\ s[1] = Context!Tool(turn, tools')
      BY FirstOnes
    <3> HIDE DEF s
    <3>2. f = [i \in 1..1 |-> f[i]]
      BY <3>1
    <3>4. 1 \in 1..1
      OBVIOUS
    <3>5. f[1] = x
      BY <3>1, <3>4
    <3> HIDE DEF f, x
    <3>3. f = <<x>>
      BY <3>2, <3>5, FirstOnes
    <3> QED BY <3>3 DEF f, s
  <2>2. messages' = messages \o <<x>>
    BY <1>1, <2>1 DEF Context!Appended
  <2> HIDE DEF x
  <2>3. messages \o <<x>> = Append(messages, x)
    BY <1>0, <1>3
  <2> QED BY <2>2, <2>3
<1> HIDE DEF x
<1>5. \E i \in DOMAIN messages : messages[i].item = Context!User(turn)
  BY <1>0 DEF Context!DraftStored
<1>6. /\ t \in Seq(Row) /\ Ordered(t, turn)
      /\ DOMAIN t = 1..Len(messages) + 1 /\ DOMAIN messages = 1..Len(messages) /\ Len(messages) \in Nat
      /\ \A i \in DOMAIN messages : t[i] = messages[i]
      /\ t[Len(messages) + 1] = x
      /\ \E i \in DOMAIN t : t[i].item = Context!User(turn)
  BY <1>0, <1>2, <1>3, <1>5, OneRow
<1> HIDE DEF t
<1>7. DOMAIN messages \subseteq DOMAIN t /\ Len(messages) + 1 \in DOMAIN t /\ Len(messages) + 1 \notin DOMAIN messages
  BY <1>6
<1>8. \A i \in DOMAIN t : IF i \in DOMAIN messages THEN t[i] = messages[i] ELSE t[i].stamp = now
  BY <1>3, <1>6
<1> QED BY <1>1, <1>4, <1>6, <1>7, <1>8 DEF RowsAdded

LEMMA ContextCallTool == ASSUME ContextInv, ClockPasses, Context!CallTool PROVE ContextInv'
<1>1. /\ UNCHANGED <<checkpoint, archives, cache, turn, original, window>>
      /\ phase = "round" /\ phase' \in {"count", "compact"} /\ tools' = tools + 1
      /\ buffer' = Append(buffer, Context!Tool(turn, tools'))
  BY DEF Context!CallTool, Context!saved
<1>2. /\ messages \in Seq(Row) /\ Ordered(messages, turn) /\ turn \in Nat /\ clock \in Nat \ {0} /\ tools' \in Nat
      /\ Sequence(buffer) /\ WorkIn(buffer) /\ Context!DraftStored
  BY <1>1 DEF ContextInv, ContextType, InOrder, WorkInHand
<1>3. Compacted /\ clock' \in Nat \ {0} /\ Context!DraftStored'
  BY <1>1, CallIsAdded, RowAdded
<1>4. Sequence(buffer') /\ WorkInHand'
  <2> DEFINE c == Append(buffer, Context!Tool(turn, tools'))
  <2>1. /\ Sequence(c) /\ Len(buffer) \in Nat /\ DOMAIN buffer = 1..Len(buffer) /\ Len(c) = Len(buffer) + 1
        /\ \A i \in DOMAIN buffer : c[i] = buffer[i]
        /\ c[Len(buffer) + 1] = Context!Tool(turn, tools')
    BY <1>2, Grows
  <2> HIDE DEF c
  <2>2. DOMAIN c = 1..Len(buffer) + 1
    BY <2>1, Grows
  <2>3. ~Context!AsUser(Context!Tool(turn, tools'))
    BY DEF Context!AsUser, Context!Role, Context!Tool
  <2>4. PICK d \in DOMAIN buffer : /\ buffer[d] = Context!User(turn)
                                   /\ \A j \in DOMAIN buffer : Context!AsUser(buffer[j]) => j <= d
    BY <1>2 DEF WorkIn, Work
  <2>5. d \in DOMAIN c /\ c[d] = Context!User(turn) /\ \A j \in DOMAIN c : Context!AsUser(c[j]) => j <= d
    <3>1. \A j \in DOMAIN c : j \in DOMAIN buffer \/ j = Len(buffer) + 1
      BY <2>1, <2>2
    <3> QED BY <2>1, <2>2, <2>3, <2>4, <3>1
  <2>6. Work(c, turn, tools')
    BY <2>1, <2>5 DEF Work
  <2>7. buffer' = c /\ turn' = turn /\ phase' # "window"
    BY <1>1 DEF c
  <2> QED BY <2>1, <2>6, <2>7 DEF WorkInHand, WorkIn
<1> QED BY <1>1, <1>2, <1>3, <1>4, TurnMoves DEF ContextInv, ContextType

LEMMA ContextAnswerGiven == ASSUME ContextInv, Context!AnswerGiven PROVE ContextInv'
<1>1. /\ UNCHANGED <<clock, checkpoint, archives, turn, tools, buffer, original, window>>
      /\ phase = "round" /\ phase' = "answered" /\ cache'.items = <<>>
      /\ messages' = [i \in DOMAIN messages |->
                        IF messages[i].item = Context!Answer(turn) THEN [messages[i] EXCEPT !.done = TRUE] ELSE messages[i]]
  BY DEF Context!AnswerGiven, Context!saved, Context!request, Context!NoCache
<1>2. /\ messages \in Seq(Row) /\ Ordered(messages, turn) /\ HiddenIsArchived /\ Sequence(archives)
      /\ checkpoint \in [cutoff : Nat, art : Nat, by : {"none", "tool", "button", "live"}]
      /\ DOMAIN messages = 1..Len(messages) /\ Len(messages) \in Nat
      /\ \A i \in DOMAIN messages : messages[i] \in Row
  BY RowsTyped DEF ContextInv, ContextType, InOrder
<1>3. ASSUME NEW i \in DOMAIN messages
      PROVE  /\ messages'[i] \in Row
             /\ messages'[i].item = messages[i].item /\ messages'[i].stamp = messages[i].stamp
  <2>1. messages'[i] = messages[i] \/ messages'[i] = [messages[i] EXCEPT !.done = TRUE]
    BY <1>1, <1>3
  <2>2. messages[i] \in Row
    BY <1>2, <1>3
  <2> QED BY <2>1, <2>2 DEF Row
<1>4. DOMAIN messages' = DOMAIN messages /\ messages' \in Seq(Row)
  <2>1. messages' = [i \in DOMAIN messages |-> messages'[i]]
    BY <1>1
  <2>2. messages' \in [1..Len(messages) -> Row]
    BY <1>2, <1>3, <2>1
  <2> QED BY <1>2, <2>2, SeqDef
<1>5. Ordered(messages', turn')
  BY <1>1, <1>2, <1>3, <1>4 DEF Ordered
<1>6. HiddenIsArchived'
  BY <1>1, <1>2, <1>3, <1>4 DEF HiddenIsArchived, Context!PrefixArchived
<1>7. Context!DraftStored => Context!DraftStored'
  BY <1>1, <1>3, <1>4 DEF Context!DraftStored, Context!User
<1>8. Compacted
  BY <1>1, <1>2, <1>4, <1>5, <1>6, <1>7 DEF Compacted
<1>9. WorkInHand'
  BY <1>1 DEF ContextInv, WorkInHand, WorkIn
<1> QED BY <1>1, <1>8, <1>9, NothingIsSequence, TurnMoves DEF ContextInv, ContextType

LEMMA ContextNext ==
    ASSUME ContextInv, ClockPasses, ~MidwayCrashes, Context!Next
    PROVE  ContextInv'
BY ContextBegin, ContextCount, ContextWindowUseless, ContextWindowAccepted, ContextGenerate, ContextCallTool,
   ContextCompactTool, ContextAnswerGiven, ContextSettles, ContextPress, ContextCrash
   DEF Context!Next, Context!TurnStep

(* The tool and the setting leave the same turns, and a narrower window     *)
(* leaves none: every cutoff is then made the same way.                     *)
OneWindow == ToolKeep = Keep /\ Smaller \subseteq {0}

(* A cutoff stands before a turn, with so many turns behind it.             *)
CutBefore(c) ==
    /\ c \in Starts
    /\ \A i \in DOMAIN messages : messages[i].stamp <= checkpoint.cutoff <=> i < c
    /\ Cardinality(From(Starts, c)) >= Keep

CutAtTurn ==
    \/ \A i \in DOMAIN messages : messages[i].stamp > checkpoint.cutoff
    \/ \E c \in DOMAIN messages : CutBefore(c)

LEMMA CutPartsNoTurn == ASSUME ContextInv, CutAtTurn PROVE Context!TurnsNotSplit
<1>1. /\ messages \in Seq(Row) /\ Ordered(messages, turn) /\ checkpoint.cutoff \in Nat
      /\ DOMAIN messages = 1..Len(messages) /\ Len(messages) \in Nat
      /\ \A i \in DOMAIN messages : messages[i].stamp \in Nat
  BY RowsTyped DEF ContextInv, ContextType, InOrder
<1>2. CASE \A i \in DOMAIN messages : messages[i].stamp > checkpoint.cutoff
  <2>1. \A i \in DOMAIN messages : ~(messages[i].stamp <= checkpoint.cutoff)
    BY <1>1, <1>2
  <2> QED BY <2>1 DEF Context!TurnsNotSplit
<1>3. ASSUME NEW c \in DOMAIN messages, CutBefore(c) PROVE Context!TurnsNotSplit
  <2>1. /\ messages[c].item[1] = "user"
        /\ \A i \in DOMAIN messages : messages[i].stamp <= checkpoint.cutoff <=> i < c
    BY <1>3 DEF CutBefore, Starts, Context!Role
  <2>2. ASSUME NEW i \in DOMAIN messages, NEW j \in DOMAIN messages, messages[i].item[2] = messages[j].item[2],
               i < c, ~(j < c)
        PROVE  FALSE
    <3>1. messages[i].item[2] <= messages[c].item[2]
      BY <1>1, <1>3, <2>2 DEF Ordered
    <3>2. c = j \/ messages[c].item[2] <= messages[j].item[2]
      <4>1. c = j \/ c < j
        BY <1>1, <1>3, <2>2
      <4> QED BY <1>1, <1>3, <2>2, <4>1 DEF Ordered
    <3>3. messages[i].item[2] \in Nat /\ messages[c].item[2] \in Nat /\ messages[j].item[2] \in Nat
      <4>1. \A k \in DOMAIN messages : messages[k].item \in {"user", "answer", "tool"} \X Nat \X Nat
        BY <1>1, RowsTyped
      <4> QED BY <1>3, <2>2, <4>1
    <3>4. messages[i].item[2] = messages[c].item[2]
      BY <2>2, <3>1, <3>2, <3>3
    <3>5. messages[c].item[1] # "user"
      BY <1>1, <1>3, <2>2, <3>4 DEF Ordered
    <3> QED BY <2>1, <3>5
  <2> QED BY <2>1, <2>2 DEF Context!TurnsNotSplit
<1> QED BY <1>2, <1>3 DEF CutAtTurn

LEMMA CutRests == ASSUME CutAtTurn, UNCHANGED <<messages, checkpoint>> PROVE CutAtTurn'
BY DEF CutAtTurn, CutBefore, Starts, Context!Role

(* The items and the instants alone matter.                                 *)
LEMMA CutUntouched ==
    ASSUME CutAtTurn, UNCHANGED checkpoint, DOMAIN messages' = DOMAIN messages,
           \A i \in DOMAIN messages : messages'[i].item = messages[i].item /\ messages'[i].stamp = messages[i].stamp
    PROVE  CutAtTurn'
<1>1. Starts' = Starts
  BY DEF Starts, Context!Role
<1> QED BY <1>1 DEF CutAtTurn, CutBefore

(* A compaction puts the cutoff before the first turn it keeps, or leaves   *)
(* it where it is.                                                          *)
LEMMA CutMoves ==
    ASSUME ContextInv, CutAtTurn, UNCHANGED turn, Context!HasBoundary(Context!Stored, Keep), NEW b,
           b = Context!Boundary(Context!Stored, Keep),
           messages' = Context!Restamped(Context!Stored, b, Len(Context!Stored)),
           IF Context!MovesOn(Context!Stored, b)
             THEN checkpoint'.cutoff = Context!Cutoff(Context!Stored, b)
             ELSE UNCHANGED checkpoint
    PROVE  CutAtTurn'
<1>1. /\ messages \in Seq(Row) /\ Ordered(messages, turn) /\ checkpoint.cutoff \in Nat
      /\ DOMAIN messages = 1..Len(messages) /\ Len(messages) \in Nat
      /\ \A i \in DOMAIN messages : messages[i].stamp \in Nat
  BY RowsTyped DEF ContextInv, ContextType, InOrder
<1>2. Keep \in Nat \ {0}
  BY WindowsAssumption
<1>3. /\ b \in 2..Len(messages) /\ b \in Starts /\ Cardinality(From(Starts, b)) = Keep
      /\ Context!Cutoff(Context!Stored, b) = messages[b - 1].stamp
  BY <1>1, <1>2, WhereKept
<1>4. Restamps(messages', b)
  BY <1>1, <1>3, RestampedRows
<1>5. /\ DOMAIN messages' = DOMAIN messages
      /\ \A i \in DOMAIN messages :
           /\ messages'[i].item = messages[i].item
           /\ messages'[i].stamp <= messages[b - 1].stamp <=> i < b
      /\ b \in DOMAIN messages /\ b - 1 \in DOMAIN messages
  BY <1>3, <1>4, RowsRestamped
<1>6. Starts' = Starts
  BY <1>5 DEF Starts, Context!Role
<1>7. CASE Context!MovesOn(Context!Stored, b)
  <2>1. checkpoint'.cutoff = messages[b - 1].stamp
    BY <1>3, <1>7
  <2>2. Cardinality(From(Starts, b)) >= Keep
    BY <1>2, <1>3
  <2>3. CutBefore(b)'
    BY <1>3, <1>5, <1>6, <2>1, <2>2 DEF CutBefore
  <2> QED BY <1>5, <2>3 DEF CutAtTurn
<1>8. CASE ~Context!MovesOn(Context!Stored, b)
  <2>1. messages[b - 1].stamp <= checkpoint.cutoff /\ messages[b - 1].stamp \in Nat /\ UNCHANGED checkpoint
    BY <1>1, <1>3, <1>5, <1>8 DEF Context!MovesOn
  <2>2. PICK c \in DOMAIN messages : CutBefore(c)
    <3>1. ~(messages[b - 1].stamp > checkpoint.cutoff)
      BY <1>1, <2>1
    <3> QED BY <1>5, <3>1 DEF CutAtTurn
  <2>3. /\ c \in Starts /\ Cardinality(From(Starts, c)) >= Keep
        /\ \A i \in DOMAIN messages : messages[i].stamp <= checkpoint.cutoff <=> i < c
    BY <2>2 DEF CutBefore
  <2>4. b <= c
    <3>1. b - 1 < c
      BY <1>5, <2>1, <2>3
    <3> QED BY <1>1, <1>3, <2>2, <3>1
  <2>5. ~(b < c)
    <3> SUFFICES ASSUME b < c PROVE FALSE
      OBVIOUS
    <3>1. Starts \in SUBSET (0..Len(messages))
      BY <1>1 DEF Starts
    <3>2. Cardinality(From(Starts, c)) < Cardinality(From(Starts, b))
      BY <1>1, <1>3, <2>3, <3>1, BehindIsMore
    <3>3. Cardinality(From(Starts, c)) \in Nat
      <4>1. IsFiniteSet(0..Len(messages))
        BY <1>1, FS_Interval, 0 \in Int, Len(messages) \in Int
      <4>2. From(Starts, c) \subseteq 0..Len(messages)
        BY <3>1 DEF From
      <4> QED BY <4>1, <4>2, FS_Subset, FS_CardinalityType
    <3> QED BY <1>2, <1>3, <2>3, <3>2, <3>3
  <2>6. b = c
    BY <1>1, <1>3, <2>2, <2>4, <2>5
  <2>7. messages[b].stamp > messages[b - 1].stamp
    <3>1. ~(messages[b].stamp <= checkpoint.cutoff) /\ messages[b].stamp \in Nat
      <4>1. ~(b < b)
        BY <1>3
      <4> QED BY <1>1, <1>5, <2>3, <2>6, <4>1
    <3> QED BY <1>1, <2>1, <3>1
  <2>8. messages' = messages
    BY <1>4, <2>7 DEF Restamps
  <2> QED BY <2>1, <2>8, CutRests
<1> QED BY <1>7, <1>8

(* Rows that are added come behind the cutoff.                              *)
LEMMA CutBehind ==
    ASSUME ContextInv, CutAtTurn, ClockPasses, NEW now \in clock..MaxTime, RowsAdded(now), UNCHANGED checkpoint
    PROVE  CutAtTurn'
<1>1. /\ messages \in Seq(Row) /\ checkpoint.cutoff \in Nat
      /\ DOMAIN messages = 1..Len(messages) /\ Len(messages) \in Nat
  BY RowsTyped DEF ContextInv, ContextType
<1>2. now \in Nat \ {0} /\ now > checkpoint.cutoff /\ ~(now <= checkpoint.cutoff)
  <2>1. now \in Nat \ {0} /\ now > checkpoint.cutoff
    BY BehindCutoff DEF RowsAdded
  <2> QED BY <1>1, <2>1
<1>3. /\ messages' \in Seq(Row) /\ DOMAIN messages \subseteq DOMAIN messages'
      /\ \A i \in DOMAIN messages : messages'[i] = messages[i]
      /\ \A i \in DOMAIN messages' : i \notin DOMAIN messages => messages'[i].stamp = now
  BY DEF RowsAdded
<1>4. DOMAIN messages' = 1..Len(messages') /\ Len(messages') \in Nat
  BY <1>3
<1>5. CASE \A i \in DOMAIN messages : messages[i].stamp > checkpoint.cutoff
  <2>1. \A i \in DOMAIN messages' : messages'[i].stamp > checkpoint.cutoff
    BY <1>2, <1>3, <1>5
  <2> QED BY <2>1 DEF CutAtTurn
<1>6. ASSUME NEW c \in DOMAIN messages, CutBefore(c) PROVE CutAtTurn'
  <2>1. /\ c \in Starts /\ Cardinality(From(Starts, c)) >= Keep
        /\ \A i \in DOMAIN messages : messages[i].stamp <= checkpoint.cutoff <=> i < c
    BY <1>6 DEF CutBefore
  <2>2. ASSUME NEW i \in DOMAIN messages' PROVE messages'[i].stamp <= checkpoint'.cutoff <=> i < c
    <3>1. CASE i \in DOMAIN messages
      BY <1>3, <2>1, <3>1
    <3>2. CASE i \notin DOMAIN messages
      <4>1. ~(i < c)
        BY <1>1, <1>4, <1>6, <2>2, <3>2
      <4> QED BY <1>2, <1>3, <2>2, <3>2, <4>1
    <3> QED BY <3>1, <3>2
  <2>3. c \in Starts' /\ From(Starts, c) \subseteq From(Starts', c) /\ From(Starts', c) \subseteq 1..Len(messages')
    BY <1>3, <1>4, <2>1 DEF Starts, From
  <2>4. Cardinality(From(Starts', c)) >= Keep
    <3>1. IsFiniteSet(1..Len(messages'))
      BY <1>4, FS_Interval, 1 \in Int, Len(messages') \in Int
    <3>2. IsFiniteSet(From(Starts', c))
      BY <2>3, <3>1, FS_Subset
    <3>3. /\ Cardinality(From(Starts, c)) <= Cardinality(From(Starts', c))
          /\ Cardinality(From(Starts, c)) \in Nat /\ Cardinality(From(Starts', c)) \in Nat
      BY <2>3, <3>2, FS_Subset, FS_CardinalityType
    <3> QED BY <2>1, <3>3, WindowsAssumption
  <2>5. CutBefore(c)'
    BY <2>2, <2>3, <2>4 DEF CutBefore
  <2> QED BY <1>3, <2>5 DEF CutAtTurn
<1> QED BY <1>5, <1>6 DEF CutAtTurn

LEMMA CutByTool ==
    ASSUME ContextInv, CutAtTurn, UNCHANGED turn, NEW by, Context!CompactNow(Keep, by)
    PROVE  CutAtTurn'
<1> DEFINE s == Context!Stored
           b == Context!Boundary(s, Keep)
<1>1. CASE ~Context!HasBoundary(s, Keep)
  <2>1. UNCHANGED <<messages, checkpoint>>
    BY <1>1 DEF Context!CompactNow, Context!saved
  <2> QED BY <2>1, CutRests
<1>2. CASE Context!HasBoundary(s, Keep)
  <2>1. messages' = Context!Restamped(s, b, Len(s))
    BY <1>2 DEF Context!CompactNow
  <2>2. IF Context!MovesOn(s, b) THEN checkpoint'.cutoff = Context!Cutoff(s, b) ELSE UNCHANGED checkpoint
    BY <1>2 DEF Context!CompactNow, Context!Checkpoint, Context!saved
  <2> HIDE DEF b
  <2>3. b = Context!Boundary(s, Keep)
    BY DEF b
  <2> QED BY <1>2, <2>1, <2>2, <2>3, CutMoves
<1> QED BY <1>1, <1>2

LEMMA CutByWindow ==
    ASSUME ContextInv, CutAtTurn, UNCHANGED turn, NEW art, Context!PersistLiveCutoff(Keep, art)
    PROVE  CutAtTurn'
<1> DEFINE s == Context!Stored
           b == Context!Boundary(s, Keep)
<1>1. CASE ~Context!HasBoundary(s, Keep)
  <2>1. UNCHANGED <<messages, checkpoint>>
    BY <1>1 DEF Context!PersistLiveCutoff
  <2> QED BY <2>1, CutRests
<1>2. CASE Context!HasBoundary(s, Keep)
  <2>1. messages' = Context!Restamped(s, b, Len(s))
    BY <1>2 DEF Context!PersistLiveCutoff
  <2>2. IF Context!MovesOn(s, b) THEN checkpoint'.cutoff = Context!Cutoff(s, b) ELSE UNCHANGED checkpoint
    BY <1>2 DEF Context!PersistLiveCutoff, Context!Checkpoint
  <2> HIDE DEF b
  <2>3. b = Context!Boundary(s, Keep)
    BY DEF b
  <2> QED BY <1>2, <2>1, <2>2, <2>3, CutMoves
<1> QED BY <1>1, <1>2

LEMMA CutNext ==
    ASSUME ContextInv, CutAtTurn, ClockPasses, ~MidwayCrashes, OneWindow, Context!Next
    PROVE  CutAtTurn'
<1>1. ASSUME Context!Begin \/ Context!Count \/ Context!WindowUseless \/ Context!SaveHistory \/ Context!Stopped \/ Context!Crash
      PROVE  CutAtTurn'
  <2>1. UNCHANGED <<messages, checkpoint>>
    BY <1>1 DEF Context!Begin, Context!Count, Context!WindowUseless, Context!SaveHistory, Context!Stopped, Context!Crash,
                Context!table, Context!saved, Context!HalfRestamped
  <2> QED BY <2>1, CutRests
<1>2. ASSUME Context!WindowAccepted PROVE CutAtTurn'
  <2>1. UNCHANGED turn
    BY <1>2 DEF Context!WindowAccepted
  <2>2. CASE UNCHANGED <<messages, checkpoint, archives>>
    BY <2>2, CutRests
  <2>3. CASE ~UNCHANGED <<messages, checkpoint, archives>>
    <3>1. /\ Context!Keeping \in Nat \ {0} /\ window \in 1..Len(Context!Windows)
          /\ Context!PersistLiveCutoff(Context!Keeping, Len(archives) + 1)
      BY <1>2, <2>3, LiveWindow
    <3>2. Context!Keeping = Context!Windows[window]
      BY DEF Context!Keeping
    <3>3. window = 1
      <4>1. window \in Nat /\ (window > 1 => Context!Windows[window] \in {0})
        BY <3>1, WindowsAreNumbers DEF OneWindow
      <4> QED BY <3>1, <3>2, <4>1
    <3>4. Context!Keeping = Keep
      BY <3>2, <3>3, WindowsAreNumbers
    <3> QED BY <2>1, <3>1, <3>4, CutByWindow
  <2> QED BY <2>2, <2>3
<1>3. ASSUME Context!Generate PROVE CutAtTurn'
  <2>1. UNCHANGED checkpoint
    BY <1>3 DEF Context!Generate, Context!saved
  <2>2. CASE Context!DraftStored
    <3>1. UNCHANGED messages
      BY <1>3, <2>2 DEF Context!Generate, Context!table
    <3> QED BY <2>1, <3>1, CutRests
  <2>3. CASE ~Context!DraftStored
    BY <1>3, <2>1, <2>3, DraftIsAdded, CutBehind
  <2> QED BY <2>2, <2>3
<1>4. ASSUME Context!CallTool PROVE CutAtTurn'
  <2>1. UNCHANGED checkpoint
    BY <1>4 DEF Context!CallTool, Context!saved
  <2> QED BY <1>4, <2>1, CallIsAdded, CutBehind
<1>5. ASSUME Context!CompactTool \/ Context!Press PROVE CutAtTurn'
  <2>1. UNCHANGED turn /\ \E by : Context!CompactNow(Keep, by)
    BY <1>5 DEF Context!CompactTool, Context!Press, OneWindow
  <2> QED BY <2>1, CutByTool
<1>6. ASSUME Context!AnswerGiven PROVE CutAtTurn'
  <2>1. /\ UNCHANGED checkpoint
        /\ messages' = [i \in DOMAIN messages |->
                          IF messages[i].item = Context!Answer(turn) THEN [messages[i] EXCEPT !.done = TRUE] ELSE messages[i]]
    BY <1>6 DEF Context!AnswerGiven, Context!saved
  <2>2. \A i \in DOMAIN messages : messages[i] \in Row
    BY RowsTyped DEF ContextInv, ContextType
  <2>3. ASSUME NEW i \in DOMAIN messages
        PROVE  messages'[i].item = messages[i].item /\ messages'[i].stamp = messages[i].stamp
    <3>1. messages'[i] = messages[i] \/ messages'[i] = [messages[i] EXCEPT !.done = TRUE]
      BY <2>1, <2>3
    <3>2. messages[i] \in Row
      BY <2>2, <2>3
    <3> QED BY <3>1, <3>2 DEF Row
  <2>4. DOMAIN messages' = DOMAIN messages
    BY <2>1
  <2> QED BY <2>1, <2>3, <2>4, CutUntouched
<1> QED BY <1>1, <1>2, <1>3, <1>4, <1>5, <1>6 DEF Context!Next, Context!TurnStep

LEMMA WorkStays == ASSUME ContextInv PROVE Context!CurrentWorkStays
<1> SUFFICES ASSUME phase \in {"fit", "round"}
             PROVE  /\ \E i \in DOMAIN buffer : buffer[i] = Context!User(turn)
                    /\ tools > 0 => \E i \in DOMAIN buffer : buffer[i] = Context!Tool(turn, tools)
  BY DEF Context!CurrentWorkStays
<1>1. WorkIn(buffer) /\ Sequence(buffer)
  BY DEF ContextInv, ContextType, WorkInHand
<1>2. PICK d \in DOMAIN buffer : buffer[d] = Context!User(turn)
  BY <1>1 DEF WorkIn, Work
<1>3. Len(buffer) \in DOMAIN buffer
  <2>1. DOMAIN buffer = 1..Len(buffer) /\ Len(buffer) \in Nat
    BY <1>1 DEF Sequence
  <2> QED BY <1>2, <2>1
<1>4. tools > 0 => buffer[Len(buffer)] = Context!Tool(turn, tools)
  BY <1>1 DEF WorkIn, Work
<1> QED BY <1>2, <1>3, <1>4

(* A compaction archives what it hides, and leaves the draft and the newest *)
(* call in the buffer, whatever the windows.                                *)
THEOREM HiddenIsKept ==
    ASSUME ClockPasses, ~MidwayCrashes
    PROVE  Spec => [](Context!PrefixArchived /\ Context!CurrentWorkStays)
<1>1. Init => ContextInv
  BY InitContext DEF Init
<1>2. ContextInv /\ [Next]_vars => ContextInv'
  BY ContextNext, ContextRests, OneAtATime
<1>3. ContextInv => Context!PrefixArchived /\ Context!CurrentWorkStays
  BY WorkStays DEF ContextInv, HiddenIsArchived
<1> QED BY <1>1, <1>2, <1>3, PTL DEF Spec

(* With one window its cutoffs part no turn either (compact_now,            *)
(* persist_live_cutoff, kept_boundary).                                     *)
THEOREM ContextStays ==
    ASSUME ClockPasses, ~MidwayCrashes, OneWindow
    PROVE  Spec => []ContextHolds
<1> DEFINE Inv == ContextInv /\ CutAtTurn
<1>1. Init => Inv
  <2>1. Init => messages = <<>>
    BY DEF Init, Context!Init
  <2>2. Init => CutAtTurn
    BY <2>1 DEF CutAtTurn
  <2> QED BY <2>2, InitContext DEF Init
<1>2. Inv /\ [Next]_vars => Inv'
  <2>1. UNCHANGED context => UNCHANGED <<messages, checkpoint>>
    BY DEF context
  <2> QED BY <2>1, ContextNext, ContextRests, CutNext, CutRests, OneAtATime
<1>3. Inv => ContextHolds
  BY WorkStays, CutPartsNoTurn DEF ContextInv, HiddenIsArchived, ContextHolds, Context!ContextHolds
<1> HIDE DEF Inv
<1> QED BY <1>1, <1>2, <1>3, PTL DEF Spec

=============================================================================
