----------------------------- MODULE Installer -----------------------------
(* The installers of the local runtime and of a model (runtime_install.rs,  *)
(* runtime_archive.rs, runtime_install_commands.rs, model_install.rs) and   *)
(* the collector that looks at what they left when the program starts       *)
(* (install_recovery.rs).  A runtime is fetched and unpacked in a staging   *)
(* directory of its own and published by one rename.                        *)
EXTENDS Naturals

CONSTANTS
    MaxAssets,      \* archives of a runtime
    MaxFiles,       \* files in each archive
    MaxRuns,        \* bound: runtime installations, numbered from 1
    MaxFaults       \* bound: crashes and failed removals

VARIABLES
    install,        \* the installation that holds installation_operation, and its place
    wanted,         \* what the cancel channel of the installation carries
    status,         \* the phase each installer shows; busy or not
    runs,           \* runtime installations begun
    staging,        \* the staging directory of each
    bundles,        \* published runtimes: what each holds
    collector,      \* the startup collector: what it has still to look at
    faults,         \* crashes and failed removals so far
    spared          \* history: runs whose staging a removal failed for

vars == <<install, wanted, status, runs, staging, bundles, collector, faults, spared>>

Runs == 1 .. MaxRuns
Assets == 1 .. MaxAssets
Files == Assets \X (1 .. MaxFiles)
Kinds == {"model", "runtime"}
Working == {"preparing", "downloading", "verifying", "extracting"}

(* A directory: the archives under their partial and their own names, and   *)
(* the bundle, with the files written whole and those begun.                *)
Absent == [there |-> FALSE, parts |-> {}, archives |-> {}, bundle |-> FALSE, whole |-> {}, torn |-> {}]
Nothing == [kind |-> "none", at |-> "no", asset |-> 0, end |-> "none"]

TypeOK ==
    /\ install \in [kind : Kinds \cup {"none"}, asset : 0 .. MaxAssets,
                    end : {"none", "ready", "failed", "cancelled"},
                    at : {"no", "check", "fetch", "fetching", "extract", "publish", "drop", "verify", "get"}]
    /\ wanted \in BOOLEAN /\ runs \in 0 .. MaxRuns
    /\ status \in [Kinds -> Working \cup {"idle", "ready", "failed", "cancelled", "interrupted"}]
    /\ staging \in [Runs -> [there : BOOLEAN, parts : SUBSET Assets, archives : SUBSET Assets,
                             bundle : BOOLEAN, whole : SUBSET Files, torn : SUBSET Files]]
    /\ bundles \subseteq [whole : SUBSET Files, torn : SUBSET Files]
    /\ collector \in [at : {"done", "looks", "stopped"}, left : SUBSET Runs]
    /\ faults \in 0 .. MaxFaults /\ spared \subseteq Runs

Init ==
    /\ install = Nothing /\ wanted = FALSE /\ status = [k \in Kinds |-> "idle"] /\ runs = 0
    /\ staging = [n \in Runs |-> Absent] /\ bundles = {}
    /\ collector = [at |-> "done", left |-> {}] /\ faults = 0 /\ spared = {}

-----------------------------------------------------------------------------
At(place) == install.at = place
Own == staging[runs]
Stage(dir) == staging' = [staging EXCEPT ![runs] = dir]

(* Commands are served once the collector is through.  One lock keeps the   *)
(* installers apart; each run has a new cancel channel.                     *)
InstallRuntime ==
    /\ At("no") /\ collector.at # "looks" /\ runs < MaxRuns
    /\ install' = [Nothing EXCEPT !.kind = "runtime", !.at = "check"]
    /\ wanted' = FALSE /\ status' = [status EXCEPT !["runtime"] = "preparing"] /\ runs' = runs + 1
    /\ UNCHANGED <<staging, bundles, collector, faults, spared>>

InstallModel ==
    /\ At("no") /\ collector.at # "looks"
    /\ \E found \in BOOLEAN :
          /\ install' = [Nothing EXCEPT !.kind = "model", !.at = IF found THEN "verify" ELSE "get"]
          /\ status' = [status EXCEPT !["model"] = IF found THEN "verifying" ELSE "downloading"]
    /\ wanted' = FALSE
    /\ UNCHANGED <<runs, staging, bundles, collector, faults, spared>>

Cancel ==
    /\ ~At("no") /\ ~wanted /\ wanted' = TRUE
    /\ UNCHANGED <<install, status, runs, staging, bundles, collector, faults, spared>>

(* Download.tla has the model's own bytes.                                  *)
ModelEnds ==
    /\ At("verify") \/ At("get")
    /\ install' = Nothing
    /\ \E end \in {"ready", "failed", "cancelled"} :
          (end = "cancelled" => wanted) /\ status' = [status EXCEPT !["model"] = end]
    /\ UNCHANGED <<wanted, runs, staging, bundles, collector, faults, spared>>

(* Any error leads to the drop of the staging directory.                    *)
Fails ==
    /\ install.kind = "runtime" /\ install.at \notin {"no", "drop"}
    /\ \E end \in {"failed", "cancelled"} :
          (end = "cancelled" => wanted) /\ install' = [install EXCEPT !.at = "drop", !.end = end]
    /\ UNCHANGED <<wanted, status, runs, staging, bundles, collector, faults, spared>>

(* Enough space and no cancel: the directory, then the bundle's inside it.  *)
MakeStaging ==
    /\ At("check") /\ ~Own.there /\ ~wanted
    /\ Stage([Absent EXCEPT !.there = TRUE])
    /\ UNCHANGED <<install, wanted, status, runs, bundles, collector, faults, spared>>

MakeBundle ==
    /\ At("check") /\ Own.there
    /\ Stage([Own EXCEPT !.bundle = TRUE])
    /\ install' = [install EXCEPT !.at = "fetch", !.asset = 1]
    /\ UNCHANGED <<wanted, status, runs, bundles, collector, faults, spared>>

Fetch ==
    /\ At("fetch") /\ ~wanted
    /\ Stage([Own EXCEPT !.parts = @ \cup {install.asset}])
    /\ install' = [install EXCEPT !.at = "fetching"]
    /\ status' = [status EXCEPT !["runtime"] = "downloading"]
    /\ UNCHANGED <<wanted, runs, bundles, collector, faults, spared>>

Fetched ==
    /\ At("fetching")
    /\ Stage([Own EXCEPT !.parts = @ \ {install.asset}, !.archives = @ \cup {install.asset}])
    /\ install' = [install EXCEPT !.at = "extract"]
    /\ status' = [status EXCEPT !["runtime"] = "extracting"]
    /\ UNCHANGED <<wanted, runs, bundles, collector, faults, spared>>

(* The archive is hashed again before an entry is written; entries follow   *)
(* each other, and each is complete before the next.                        *)
ExtractFile(f) ==
    /\ At("extract") /\ ~wanted /\ f[1] = install.asset
    /\ f \notin Own.whole /\ Own.torn = {}
    /\ Stage([Own EXCEPT !.torn = {f}])
    /\ UNCHANGED <<install, wanted, status, runs, bundles, collector, faults, spared>>

FileWritten ==
    /\ At("extract") /\ Own.torn # {} /\ ~wanted
    /\ Stage([Own EXCEPT !.torn = {}, !.whole = @ \cup Own.torn])
    /\ UNCHANGED <<install, wanted, status, runs, bundles, collector, faults, spared>>

(* A slip: an entry that ended early is not noticed.                        *)
ExtractedShort ==
    /\ At("extract")
    /\ \A f \in Files : f[1] = install.asset => f \in Own.whole \cup Own.torn
    /\ install' = IF install.asset = MaxAssets THEN [install EXCEPT !.at = "publish"]
                  ELSE [install EXCEPT !.at = "fetch", !.asset = @ + 1]
    /\ UNCHANGED <<wanted, status, runs, staging, bundles, collector, faults, spared>>

Extracted ==
    /\ At("extract") /\ Own.torn = {}
    /\ \A f \in Files : f[1] = install.asset => f \in Own.whole
    /\ install' = IF install.asset = MaxAssets THEN [install EXCEPT !.at = "publish"]
                  ELSE [install EXCEPT !.at = "fetch", !.asset = @ + 1]
    /\ UNCHANGED <<wanted, status, runs, staging, bundles, collector, faults, spared>>

(* The rename; the archives stay behind for the drop.                       *)
Publish ==
    /\ At("publish") /\ ~wanted
    /\ bundles' = bundles \cup {[whole |-> Own.whole, torn |-> Own.torn]}
    /\ Stage([Own EXCEPT !.bundle = FALSE, !.whole = {}, !.torn = {}])
    /\ install' = [install EXCEPT !.at = "drop", !.end = "ready"]
    /\ UNCHANGED <<wanted, status, runs, collector, faults, spared>>

(* What may be left of a directory whose removal stops half-way.            *)
Remains(dir) ==
    [there : {dir.there}, parts : SUBSET dir.parts, archives : SUBSET dir.archives,
     bundle : {FALSE, dir.bundle}, whole : SUBSET dir.whole, torn : SUBSET dir.torn]

(* What is in the bundle goes before its directory.                         *)
Left(dir) == {rest \in Remains(dir) : rest.bundle \/ rest.whole \cup rest.torn = {}}

(* TempDir's drop ignores a failure; then the command answers.              *)
Dropped ==
    /\ At("drop") /\ install' = Nothing /\ status' = [status EXCEPT !["runtime"] = install.end]
    /\ \/ Stage(Absent) /\ UNCHANGED <<faults, spared>>
       \/ /\ Own.there /\ faults < MaxFaults /\ faults' = faults + 1
          /\ \E rest \in Left(Own) : Stage(rest)
          /\ spared' = spared \cup {runs}
    /\ UNCHANGED <<wanted, runs, bundles, collector>>

-----------------------------------------------------------------------------
(* The next start looks at every staging directory before it serves.        *)
CrashAndRestart ==
    /\ faults < MaxFaults /\ faults' = faults + 1
    /\ install' = Nothing /\ wanted' = FALSE /\ status' = [k \in Kinds |-> "idle"]
    /\ collector' = [at |-> "looks", left |-> {n \in Runs : staging[n].there}]
    /\ spared' = {}
    /\ UNCHANGED <<runs, staging, bundles>>

(* Archives, the bundle and the random names of earlier versions' downloads *)
(* are known; the downloader's <archive>.part is not.                       *)
Known(dir) == dir.parts = {}

Collect(n) ==
    /\ collector.at = "looks" /\ n \in collector.left /\ Known(staging[n])
    /\ staging' = [staging EXCEPT ![n] = Absent]
    /\ collector' = [collector EXCEPT !.left = @ \ {n}]
    /\ UNCHANGED <<install, wanted, status, runs, bundles, faults, spared>>

(* Unknown content, or a removal that fails, ends the whole pass.           *)
CollectorStops(n) ==
    /\ collector.at = "looks" /\ n \in collector.left
    /\ collector' = [at |-> "stopped", left |-> {}]
    /\ \/ ~Known(staging[n]) /\ UNCHANGED <<staging, faults, spared>>
       \/ /\ Known(staging[n]) /\ faults < MaxFaults /\ faults' = faults + 1
          /\ \E rest \in Left(staging[n]) : staging' = [staging EXCEPT ![n] = rest]
          /\ spared' = spared \cup {n}
    /\ UNCHANGED <<install, wanted, status, runs, bundles>>

CollectorEnds ==
    /\ collector.at = "looks" /\ collector.left = {}
    /\ collector' = [collector EXCEPT !.at = "done"]
    /\ UNCHANGED <<install, wanted, status, runs, staging, bundles, faults, spared>>

Next ==
    \/ InstallRuntime \/ InstallModel \/ Cancel \/ ModelEnds \/ Fails
    \/ MakeStaging \/ MakeBundle \/ Fetch \/ Fetched
    \/ (\E f \in Files : ExtractFile(f)) \/ FileWritten \/ Extracted \/ Publish \/ Dropped
    \/ CrashAndRestart \/ (\E n \in Runs : Collect(n) \/ CollectorStops(n)) \/ CollectorEnds

Spec == Init /\ [][Next]_vars

-----------------------------------------------------------------------------
(* A published runtime holds every file of every archive, whole.            *)
PublishedWhole == \A b \in bundles : b.whole = Files /\ b.torn = {}

(* After a start whose collector was not stopped, a staging directory is    *)
(* that of the running installation, or of one whose removal failed since.  *)
LeftoversGone ==
    collector.at = "done" =>
        \A n \in Runs : staging[n].there => n \in spared \/ (n = runs /\ ~At("no"))

(* An installation is whole or absent, whatever was interrupted             *)
(* (runtime_install::install, install_recovery::clean).                     *)
WholeOrAbsent == PublishedWhole /\ LeftoversGone

(* Checked by hand: install_recovery.rs, "The startup collector must        *)
(* recognise those names", so that only a removal that failed stops it.     *)
(* A crash while an archive is fetched leaves a name it does not know.      *)
InterruptedAreCollected == collector.at = "stopped" => spared # {}
=============================================================================
