------------------------ MODULE WorkspacePatch_proofs ------------------------
(***************************************************************************)
(* Proofs about WorkspacePatch, for any number of entries, any kinds of    *)
(* change and any number of writes of other applications.                  *)
(*                                                                         *)
(* Inv says what each step of the call knows of the files: which entries   *)
(* are patched and which original while the change goes forward, which are *)
(* back while it is undone, and that every entry no one else wrote can be  *)
(* undone as long as the manifest is prepared.                             *)
(***************************************************************************)
EXTENDS WorkspacePatch, TLAPS

Kept == Entries \ foreign
AllOriginal == \A i \in Kept : Original(i)
AllPatched == \A i \in Kept : Patched(i)

Preparing == {"ready", "stage", "unstage", "journal"}
Changing == {"commit", "swap", "park", "link"}
Undoing == {"fresh", "undo", "unlink", "relink", "unpark"}
Rolling == {"roll"} \cup Undoing

(* What is left of the entry suffices to undo it. *)
Recoverable(i) ==
    /\ old[i] = Before(i) \/ (old[i] = "absent" /\ file[i] = Before(i))
    /\ IF Renames(i)
       THEN \/ Original(i)
            \/ file[i] = "absent" /\ park[i] = Before(i) /\ dest[i] \in {"absent", After(i)}
       ELSE file[i] \in {Before(i), After(i)} /\ dest[i] = "absent"

(* The manifest and the place of the call. *)
Journaled ==
    /\ pc \in Preparing => manifest = "none"
    /\ pc \in Changing \cup {"validate"} \cup Rolling => manifest = "prepared"
    /\ pc = "clean" => manifest # "none"
    /\ pc \in Undoing \cup {"swap", "park", "link"} => at \in Entries
    /\ pc = "unstage" => status \in {"failed", "not_started"}
    /\ pc = "roll" => at \in 0..N
    /\ pc \in {"stage", "commit", "clean"} => at \in 1..(N + 1)

(* The manifest and the files. *)
Filed ==
    /\ manifest = "none" /\ pc # "idle" => AllOriginal
    /\ manifest = "none" => AllOriginal \/ AllPatched
    /\ manifest = "prepared" => \A i \in Kept : Recoverable(i)
    /\ manifest = "prepared" /\ pc = "clean" => AllOriginal
    /\ manifest = "committed" => AllPatched

(* The stages. *)
Staged ==
    /\ \A i \in Entries : old[i] \in {"absent", Before(i)}
    /\ pc = "stage" => \A i \in Entries : i < at => old[i] = Before(i) /\ new[i] = After(i)
    /\ pc \in {"journal"} \cup Changing => \A i \in Entries : old[i] = Before(i)
    /\ pc = "journal" => \A i \in Entries : new[i] = After(i)
    /\ pc \in Changing => \A i \in Entries : i >= at => new[i] = After(i)

(* How far the change has come. *)
Forward ==
    /\ pc \in Changing => \A i \in Kept : /\ i < at => Patched(i)
                                          /\ i > at => Original(i)
    /\ pc \in {"commit", "swap", "park"} /\ at \in Kept => Original(at)
    /\ pc \in {"park", "link"} => Renames(at)
    /\ pc = "link" /\ at \in Kept => file[at] = "absent" /\ dest[at] = "absent"

(* How far it has been undone. *)
Backward ==
    /\ pc \in Rolling => \A i \in Kept \ conflicts : i > at => Original(i)
    /\ pc \in {"fresh", "undo"} =>
         /\ ~Renames(at)
         /\ old[at] # "absent" => restore[at] = old[at]
         /\ at \in Kept => file[at] = After(at)
    /\ pc = "fresh" => old[at] # "absent"
    /\ pc \in {"unlink", "relink", "unpark"} => Renames(at)
    /\ pc \in {"unlink", "relink"} /\ at \in Kept => file[at] = "absent" /\ park[at] = Before(at)
    /\ pc = "unlink" /\ at \in Kept => dest[at] # "absent"
    /\ pc = "relink" /\ at \in Kept => dest[at] = "absent"
    /\ pc = "unpark" /\ at \in Kept => Original(at)

(* No conflict without a foreign file or a failure. *)
Undisputed == pc \in Rolling /\ ~trouble /\ foreign = {} => conflicts = {}

(* No write of another application has come since the last check. *)
Unraced ==
    at \in Entries \ raced =>
        /\ pc = "swap" /\ plan[at] \in {"edit", "delete"} => file[at] = Before(at)
        /\ pc = "park" => file[at] = Before(at)
        /\ pc = "undo" /\ (old[at] = "absent" \/ After(at) # "absent") => file[at] = After(at)
        /\ pc = "unlink" => dest[at] = After(at)

Inv == /\ TypeOK /\ Journaled /\ Filed /\ Staged /\ Forward /\ Backward
       /\ Undisputed /\ ReportsTrue /\ RecoverySucceeds /\ Unraced

-----------------------------------------------------------------------------
USE WorkspacePatchAssumption
    DEF Kept, AllOriginal, AllPatched, Preparing, Changing, Undoing, Rolling, AllKinds,
        stages, targets, outside, Go, Report, Untouched, Rolled, Conflict, Changed,
        Unrecoverable, Outcome, Original, Patched, Recoverable, Renames, Before, After,
        Journaled, Filed, Staged, Forward, Backward, Undisputed, Inv

LEMMA NoConflictOfItsOwn ==
    ASSUME Inv, RollFile \/ Fresh \/ UndoFile \/ RollRename \/ UnlinkDestination \/ Relink
    PROVE  conflicts' \in SUBSET Entries /\ Undisputed'
<1>1. at \in Entries /\ pc \in Rolling
  BY DEF RollFile, Fresh, UndoFile, RollRename, UnlinkDestination, Relink, Entries
<1>2. conflicts' = conflicts \/ (conflicts' = conflicts \cup {at} /\ at \in foreign)
  <2>1. CASE RollFile
    BY <1>1, <2>1 DEF RollFile
  <2>2. CASE Fresh
    BY <1>1, <2>2 DEF Fresh
  <2>3. CASE UndoFile
    BY <1>1, <2>3 DEF UndoFile
  <2>4. CASE RollRename
    BY <1>1, <2>4 DEF RollRename
  <2>5. CASE UnlinkDestination
    BY <1>1, <2>5 DEF UnlinkDestination
  <2>6. CASE Relink
    BY <1>1, <2>6 DEF Relink
  <2>7. QED
    BY <2>1, <2>2, <2>3, <2>4, <2>5, <2>6
<1>3. foreign' = foreign /\ trouble' = trouble
  BY DEF RollFile, Fresh, UndoFile, RollRename, UnlinkDestination, Relink
<1>4. Undisputed'
  <2>1. SUFFICES ASSUME pc' \in Rolling, ~trouble', foreign' = {} PROVE conflicts' = {}
    OBVIOUS
  <2>2. conflicts = {}
    BY <1>1, <1>3, <2>1
  <2>3. QED
    BY <1>2, <1>3, <2>1, <2>2
<1>5. conflicts' \in SUBSET Entries
  <2>1. conflicts \in SUBSET Entries
    BY SMTT(60) DEF TypeOK
  <2>2. QED
    BY <1>1, <1>2, <2>1
<1>6. QED
  BY <1>4, <1>5

LEMMA PrepareKeeps == ASSUME Inv, Prepare PROVE Inv'
<1>1. CASE Preflight
  BY <1>1, SMTT(60) DEF Preflight, Entries, TypeOK, Contents, Places, Reports, ReportsTrue,
            RecoverySucceeds, Unraced
<1>2. CASE Stage
  BY <1>2, SMTT(60) DEF Stage, Entries, TypeOK, Contents, Places, Reports, ReportsTrue,
            RecoverySucceeds, Unraced
<1>3. CASE StageFails
  BY <1>3, SMTT(60) DEF StageFails, Entries, TypeOK, Contents, Places, Reports, ReportsTrue,
            RecoverySucceeds, Unraced
<1>4. CASE CheckStaged
  BY <1>4, SMTT(60) DEF CheckStaged, Entries, TypeOK, Contents, Places, Reports, ReportsTrue,
            RecoverySucceeds, Unraced
<1>5. CASE Unstage
  BY <1>5, SMTT(60) DEF Unstage, Entries, TypeOK, Contents, Places, Reports, ReportsTrue,
            RecoverySucceeds, Unraced
<1>6. CASE UnstageFails
  BY <1>6, SMTT(60) DEF UnstageFails, Entries, TypeOK, Contents, Places, Reports, ReportsTrue,
            RecoverySucceeds, Unraced
<1>7. CASE Journal
  BY <1>7, SMTT(60) DEF Journal, Entries, TypeOK, Contents, Places, Reports, ReportsTrue,
            RecoverySucceeds, Unraced
<1>8. CASE JournalFails
  <2>1. trouble' \in BOOLEAN
    BY <1>8, Zenon DEF JournalFails, TypeOK
  <2>2. QED
    BY <1>8, <2>1, SMTT(60)
       DEF JournalFails, Entries, TypeOK, Contents, Places, Reports, ReportsTrue,
            RecoverySucceeds, Unraced
<1>9. QED
  BY <1>1, <1>2, <1>3, <1>4, <1>5, <1>6, <1>7, <1>8 DEF Prepare

LEMMA ChangeKeeps == ASSUME Inv, Change PROVE Inv'
<1>1. CASE Check
  BY <1>1, SMTT(60) DEF Check, Entries, TypeOK, Contents, Places, Reports, ReportsTrue,
            RecoverySucceeds, Unraced
<1>2. CASE CommitFails
  BY <1>2, SMTT(60) DEF CommitFails, Entries, TypeOK, Contents, Places, Reports, ReportsTrue,
            RecoverySucceeds, Unraced
<1>3. CASE ReplaceFile
  BY <1>3, SMTT(60) DEF ReplaceFile, Entries, TypeOK, Contents, Places, Reports, ReportsTrue,
            RecoverySucceeds, Unraced
<1>4. CASE CreateFile
  BY <1>4, SMTT(60) DEF CreateFile, Entries, TypeOK, Contents, Places, Reports, ReportsTrue,
            RecoverySucceeds, Unraced
<1>5. CASE DeleteFile
  BY <1>5, SMTT(60) DEF DeleteFile, Entries, TypeOK, Contents, Places, Reports, ReportsTrue,
            RecoverySucceeds, Unraced
<1>6. CASE Recheck
  BY <1>6, SMTT(60) DEF Recheck, Entries, TypeOK, Contents, Places, Reports, ReportsTrue,
            RecoverySucceeds, Unraced
<1>7. CASE ParkFile
  BY <1>7, SMTT(60) DEF ParkFile, Entries, TypeOK, Contents, Places, Reports, ReportsTrue,
            RecoverySucceeds, Unraced
<1>8. CASE LinkDestination
  BY <1>8, SMTT(60) DEF LinkDestination, Entries, TypeOK, Contents, Places, Reports, ReportsTrue,
            RecoverySucceeds, Unraced
<1>9. CASE Confirm
  BY <1>9, SMTT(60) DEF Confirm, Entries, TypeOK, Contents, Places, Reports, ReportsTrue,
            RecoverySucceeds, Unraced
<1>10. CASE ConfirmFails
  BY <1>10, SMTT(60) DEF ConfirmFails, Entries, TypeOK, Contents, Places, Reports, ReportsTrue,
            RecoverySucceeds, Unraced
<1>11. QED
  BY <1>1, <1>2, <1>3, <1>4, <1>5, <1>6, <1>7, <1>8, <1>9, <1>10 DEF Change

LEMMA RollbackKeeps == ASSUME Inv, Rollback PROVE Inv'
<1>1. CASE Validate
  <2>1. conflicts' \in SUBSET Entries
    BY <1>1 DEF Validate, TypeOK
  <2>2. QED
    BY <1>1, <2>1, SMTT(60) DEF Validate, Entries, TypeOK, Contents, Places, Reports, ReportsTrue,
            RecoverySucceeds, Unraced
<1>2. CASE ValidateFails
  BY <1>2, SMTT(60) DEF ValidateFails, Entries, TypeOK, Contents, Places, Reports, ReportsTrue,
            RecoverySucceeds, Unraced
<1>3. CASE RollFile
  <2>1. conflicts' \in SUBSET Entries /\ Undisputed'
    BY <1>3, NoConflictOfItsOwn
  <2>2. TypeOK'
    BY <1>3, <2>1, SMTT(60) DEF RollFile, Entries, TypeOK, Contents, Places, Reports
  <2>3. Journaled' /\ Staged' /\ Forward' /\ Unraced'
    BY <1>3, SMTT(60) DEF RollFile, Entries, TypeOK, Unraced
  <2>4. Filed'
    BY <1>3, SMTT(60) DEF RollFile, Entries, TypeOK
  <2>5. Backward'
    BY <1>3, SMTT(60) DEF RollFile, Entries, TypeOK
  <2>6. ReportsTrue' /\ RecoverySucceeds'
    BY <1>3 DEF RollFile, ReportsTrue, RecoverySucceeds
  <2>7. QED
    BY <2>1, <2>2, <2>3, <2>4, <2>5, <2>6, Zenon DEF Inv
<1>4. CASE Fresh
  <2>1. conflicts' \in SUBSET Entries /\ Undisputed'
    BY <1>4, NoConflictOfItsOwn
  <2>2. TypeOK'
    BY <1>4, <2>1, SMTT(60) DEF Fresh, Entries, TypeOK, Contents, Places, Reports
  <2>3. Journaled' /\ Staged' /\ Forward' /\ Unraced'
    BY <1>4, SMTT(60) DEF Fresh, Entries, TypeOK, Unraced
  <2>4. Filed'
    BY <1>4, SMTT(60) DEF Fresh, Entries, TypeOK
  <2>5. Backward'
    BY <1>4, SMTT(60) DEF Fresh, Entries, TypeOK
  <2>6. ReportsTrue' /\ RecoverySucceeds'
    BY <1>4 DEF Fresh, ReportsTrue, RecoverySucceeds
  <2>7. QED
    BY <2>1, <2>2, <2>3, <2>4, <2>5, <2>6, Zenon DEF Inv
<1>5. CASE UndoFile
  <2>1. conflicts' \in SUBSET Entries /\ Undisputed'
    BY <1>5, NoConflictOfItsOwn
  <2>2. TypeOK'
    <3>1. /\ file' \in [Entries -> Contents] /\ restore' \in [Entries -> Contents]
          /\ pc' \in Places /\ at' \in 0..(N + 1)
      BY <1>5, SMTT(180) DEF UndoFile, Entries, TypeOK, Contents, Places
    <3>2. UNCHANGED <<plan, dest, new, old, park, manifest, call, status, edits, foreign,
                      raced, trouble>>
      BY <1>5 DEF UndoFile
    <3>3. QED
      BY <2>1, <3>1, <3>2 DEF TypeOK
  <2>3. Journaled' /\ Staged' /\ Forward' /\ Unraced'
    BY <1>5, SMTT(60) DEF UndoFile, Entries, TypeOK, Unraced
  <2>4. Filed'
    BY <1>5, SMTT(60) DEF UndoFile, Entries, TypeOK
  <2>5. Backward'
    BY <1>5, SMTT(60) DEF UndoFile, Entries, TypeOK
  <2>6. ReportsTrue' /\ RecoverySucceeds'
    BY <1>5 DEF UndoFile, ReportsTrue, RecoverySucceeds
  <2>7. QED
    BY <2>1, <2>2, <2>3, <2>4, <2>5, <2>6, Zenon DEF Inv
<1>6. CASE RollRename
  <2>1. conflicts' \in SUBSET Entries /\ Undisputed'
    BY <1>6, NoConflictOfItsOwn
  <2>2. TypeOK'
    BY <1>6, <2>1, SMTT(60) DEF RollRename, Entries, TypeOK, Contents, Places, Reports
  <2>3. Journaled' /\ Staged' /\ Forward' /\ Unraced'
    BY <1>6, SMTT(60) DEF RollRename, Entries, TypeOK, Unraced
  <2>4. Filed'
    BY <1>6, SMTT(60) DEF RollRename, Entries, TypeOK
  <2>5. Backward'
    BY <1>6, SMTT(60) DEF RollRename, Entries, TypeOK
  <2>6. ReportsTrue' /\ RecoverySucceeds'
    BY <1>6 DEF RollRename, ReportsTrue, RecoverySucceeds
  <2>7. QED
    BY <2>1, <2>2, <2>3, <2>4, <2>5, <2>6, Zenon DEF Inv
<1>7. CASE UnlinkDestination
  <2>1. conflicts' \in SUBSET Entries /\ Undisputed'
    BY <1>7, NoConflictOfItsOwn
  <2>2. TypeOK'
    BY <1>7, <2>1, SMTT(60) DEF UnlinkDestination, Entries, TypeOK, Contents, Places, Reports
  <2>3. Journaled' /\ Staged' /\ Forward' /\ Unraced'
    BY <1>7, SMTT(60) DEF UnlinkDestination, Entries, TypeOK, Unraced
  <2>4. Filed'
    BY <1>7, SMTT(60) DEF UnlinkDestination, Entries, TypeOK
  <2>5. Backward'
    BY <1>7, SMTT(60) DEF UnlinkDestination, Entries, TypeOK
  <2>6. ReportsTrue' /\ RecoverySucceeds'
    BY <1>7 DEF UnlinkDestination, ReportsTrue, RecoverySucceeds
  <2>7. QED
    BY <2>1, <2>2, <2>3, <2>4, <2>5, <2>6, Zenon DEF Inv
<1>8. CASE Relink
  <2>1. conflicts' \in SUBSET Entries /\ Undisputed'
    BY <1>8, NoConflictOfItsOwn
  <2>2. TypeOK'
    BY <1>8, <2>1, SMTT(60) DEF Relink, Entries, TypeOK, Contents, Places, Reports
  <2>3. Journaled' /\ Staged' /\ Forward' /\ Unraced'
    BY <1>8, SMTT(60) DEF Relink, Entries, TypeOK, Unraced
  <2>4. Filed'
    BY <1>8, SMTT(60) DEF Relink, Entries, TypeOK
  <2>5. Backward'
    BY <1>8, SMTT(60) DEF Relink, Entries, TypeOK
  <2>6. ReportsTrue' /\ RecoverySucceeds'
    BY <1>8 DEF Relink, ReportsTrue, RecoverySucceeds
  <2>7. QED
    BY <2>1, <2>2, <2>3, <2>4, <2>5, <2>6, Zenon DEF Inv
<1>9. CASE Unpark
  BY <1>9, SMTT(60) DEF Unpark, Entries, TypeOK, Contents, Places, Reports, ReportsTrue,
            RecoverySucceeds, Unraced
<1>10. CASE RollFails
  BY <1>10, SMTT(60) DEF RollFails, Entries, TypeOK, Contents, Places, Reports, ReportsTrue,
            RecoverySucceeds, Unraced
<1>11. CASE RollEnds
  BY <1>11, SMTT(60) DEF RollEnds, Entries, TypeOK, Contents, Places, Reports, ReportsTrue,
            RecoverySucceeds, Unraced
<1>12. QED
  BY <1>1, <1>2, <1>3, <1>4, <1>5, <1>6, <1>7, <1>8, <1>9, <1>10, <1>11 DEF Rollback

LEMMA CleanupKeeps == ASSUME Inv, Cleanup PROVE Inv'
<1>1. CASE Clean
  BY <1>1, SMTT(60) DEF Clean, Entries, TypeOK, Contents, Places, Reports, ReportsTrue,
            RecoverySucceeds, Unraced
<1>2. CASE CleanFails
  BY <1>2, SMTT(60) DEF CleanFails, Entries, TypeOK, Contents, Places, Reports, ReportsTrue,
            RecoverySucceeds, Unraced
<1>3. CASE Unjournal
  BY <1>3, SMTT(60) DEF Unjournal, Entries, TypeOK, Contents, Places, Reports, ReportsTrue,
            RecoverySucceeds, Unraced
<1>4. CASE UnjournalFails
  BY <1>4, SMTT(60) DEF UnjournalFails, Entries, TypeOK, Contents, Places, Reports, ReportsTrue,
            RecoverySucceeds, Unraced
<1>5. QED
  BY <1>1, <1>2, <1>3, <1>4 DEF Cleanup

LEMMA RestKeeps == ASSUME Inv, Recover \/ Crash \/ \E i \in Entries : Edit(i) PROVE Inv'
<1>1. CASE Recover
  <2>1. trouble' \in BOOLEAN
    BY <1>1, Zenon DEF Recover, TypeOK
  <2>2. QED
    BY <1>1, <2>1, SMTT(60) DEF Recover, Entries, TypeOK, Contents, Places, Reports, ReportsTrue,
            RecoverySucceeds, Unraced
<1>2. CASE Crash
  BY <1>2, SMTT(60) DEF Crash, Entries, TypeOK, Contents, Places, Reports, ReportsTrue,
            RecoverySucceeds, Unraced
<1>3. ASSUME NEW i \in Entries, Edit(i) PROVE Inv'
  <2>1. TypeOK'
    BY <1>3, SMTT(60) DEF Edit, TypeOK, Contents
  <2>2. Journaled' /\ Filed' /\ Staged' /\ Forward'
    BY <1>3, SMTT(60) DEF Edit, TypeOK
  <2>3. Backward' /\ Undisputed' /\ Unraced'
    BY <1>3, SMTT(60) DEF Edit, TypeOK, Unraced, Window
  <2>4. ReportsTrue' /\ RecoverySucceeds'
    BY <1>3, SMTT(60) DEF Edit, TypeOK, ReportsTrue, RecoverySucceeds
  <2>5. QED
    BY <2>1, <2>2, <2>3, <2>4, Zenon DEF Inv
<1>4. QED
  BY <1>1, <1>2, <1>3

-----------------------------------------------------------------------------
(* Inv is an invariant. *)
LEMMA InitInv == Init => Inv
<1>1. Init => TypeOK
  <2>1. Init => plan \in [Entries -> AllKinds]
    BY DEF Init
  <2>2. Init => conflicts \in SUBSET Entries /\ foreign \in SUBSET Entries
                  /\ raced \in SUBSET foreign
    BY DEF Init
  <2>3. Init => at \in 0..(N + 1) /\ edits \in 0..MaxEdits
    BY DEF Init
  <2>4. Init => trouble \in BOOLEAN
    BY Zenon DEF Init
  <2>5. Init => file \in [Entries -> Contents] /\ dest \in [Entries -> Contents]
    BY DEF Init, Contents
  <2>6. Init => /\ new \in [Entries -> Contents] /\ old \in [Entries -> Contents]
                /\ restore \in [Entries -> Contents] /\ park \in [Entries -> Contents]
    BY DEF Init, Contents
  <2>7. Init => /\ manifest \in {"none", "prepared", "committed"} /\ pc \in Places
                /\ call \in {"patch", "recover"} /\ status \in Reports
    BY DEF Init, Places, Reports
  <2>8. QED
    BY <2>1, <2>2, <2>3, <2>4, <2>5, <2>6, <2>7 DEF TypeOK
<1>2. Init => Journaled /\ Filed /\ Staged /\ Forward /\ Backward /\ Undisputed
  BY DEF Init
<1>3. Init => ReportsTrue /\ RecoverySucceeds /\ Unraced
  BY DEF Init, ReportsTrue, RecoverySucceeds, Unraced
<1>4. QED
  BY <1>1, <1>2, <1>3

LEMMA StepKeepsInv == Inv /\ [Next]_vars => Inv'
<1>1. ASSUME Inv, Next PROVE Inv'
  BY <1>1, PrepareKeeps, ChangeKeeps, RollbackKeeps, CleanupKeeps, RestKeeps DEF Next
<1>2. ASSUME Inv, UNCHANGED vars PROVE Inv'
  BY <1>2, SMTT(60) DEF vars, TypeOK, ReportsTrue, RecoverySucceeds, Unraced
<1>3. QED
  BY <1>1, <1>2, SMTT(60)

-----------------------------------------------------------------------------
(* What a step of the app does to the manifest, and to the files while the *)
(* manifest is not prepared.                                               *)
AppStep == Prepare \/ Change \/ Rollback \/ Cleanup \/ Recover \/ Crash

Marks ==
    /\ plan' = plan /\ foreign' = foreign
    /\ manifest # "prepared" \/ manifest' # "prepared" => file' = file /\ dest' = dest
    /\ \/ manifest' = manifest
       \/ manifest = "none" /\ manifest' = "prepared" /\ AllOriginal
       \/ manifest = "prepared" /\ manifest' = "committed" /\ AllPatched
       \/ manifest = "prepared" /\ manifest' = "none" /\ AllOriginal
       \/ manifest = "committed" /\ manifest' = "none"

LEMMA StepMarks == ASSUME Inv, AppStep PROVE Marks
<1>1. CASE Preflight \/ Stage \/ StageFails \/ CheckStaged \/ Unstage \/
           UnstageFails \/ Check \/ CommitFails \/ Recheck \/ Validate \/
           ValidateFails \/ Fresh \/ RollFails \/ RollEnds \/ Clean \/
           CleanFails \/ Recover \/ Crash
  BY <1>1, SMTT(60) DEF Preflight, Stage, StageFails, CheckStaged, Unstage,
     UnstageFails, Check, CommitFails, Recheck, Validate, ValidateFails,
     Fresh, RollFails, RollEnds, Clean, CleanFails, Recover, Crash, Marks,
     Entries, TypeOK
<1>2. CASE ReplaceFile \/ CreateFile \/ DeleteFile \/ ParkFile \/
           LinkDestination \/ RollFile \/ UndoFile \/ RollRename \/
           UnlinkDestination \/ Relink \/ Unpark
  BY <1>2, SMTT(60) DEF ReplaceFile, CreateFile, DeleteFile, ParkFile,
     LinkDestination, RollFile, UndoFile, RollRename, UnlinkDestination,
     Relink, Unpark, Marks, Entries, TypeOK
<1>3. CASE Journal
  BY <1>3, SMTT(60) DEF Journal, Marks, Entries, TypeOK
<1>4. CASE JournalFails
  BY <1>4, SMTT(60) DEF JournalFails, Marks, Entries, TypeOK
<1>5. CASE Confirm
  BY <1>5, SMTT(60) DEF Confirm, Marks, Entries, TypeOK
<1>6. CASE ConfirmFails
  BY <1>6, SMTT(60) DEF ConfirmFails, Marks, Entries, TypeOK
<1>7. CASE Unjournal
  BY <1>7, SMTT(60) DEF Unjournal, Marks, Entries, TypeOK
<1>8. CASE UnjournalFails
  BY <1>8, SMTT(60) DEF UnjournalFails, Marks, Entries, TypeOK
<1>9. QED
  BY <1>1, <1>2, <1>3, <1>4, <1>5, <1>6, <1>7, <1>8
     DEF AppStep, Prepare, Change, Rollback, Cleanup

Stands ==
    manifest = "committed" =>
        manifest' # "prepared" /\ \A i \in Entries \ foreign' : Patched(i)'

LEMMA StepStands == Inv /\ [Next]_vars => Stands
<1>1. ASSUME Inv, AppStep PROVE Stands
  <2>1. Marks
    BY <1>1, StepMarks
  <2>2. QED
    BY <1>1, <2>1 DEF Marks, Stands
<1>2. ASSUME Inv, NEW e \in Entries, Edit(e) PROVE Stands
  BY <1>2, SMTT(60) DEF Edit, TypeOK, Stands
<1>3. ASSUME Inv, UNCHANGED vars PROVE Stands
  BY <1>3 DEF vars, Stands
<1>4. QED
  BY <1>1, <1>2, <1>3 DEF Next, AppStep

Keeps ==
    \A i \in Entries \ raced : edits' = edits =>
        /\ file[i] = "other" => file'[i] = "other"
        /\ dest[i] = "other" => dest'[i] = "other"

LEMMA StepKeepsEdits == Inv /\ [Next]_vars => Keeps
<1>1. ASSUME Inv, AppStep PROVE Keeps
  <2>1. CASE ReplaceFile
    BY <1>1, <2>1, SMTT(60) DEF ReplaceFile, TypeOK, Unraced, Keeps
  <2>2. CASE CreateFile
    BY <1>1, <2>2, SMTT(60) DEF CreateFile, TypeOK, Unraced, Keeps
  <2>3. CASE DeleteFile
    BY <1>1, <2>3, SMTT(60) DEF DeleteFile, TypeOK, Unraced, Keeps
  <2>4. CASE ParkFile
    BY <1>1, <2>4, SMTT(60) DEF ParkFile, TypeOK, Unraced, Keeps
  <2>5. CASE LinkDestination
    BY <1>1, <2>5, SMTT(60) DEF LinkDestination, TypeOK, Unraced, Keeps
  <2>6. CASE UndoFile
    BY <1>1, <2>6, SMTT(60) DEF UndoFile, TypeOK, Unraced, Keeps
  <2>7. CASE UnlinkDestination
    BY <1>1, <2>7, SMTT(60) DEF UnlinkDestination, TypeOK, Unraced, Keeps
  <2>8. CASE Relink
    BY <1>1, <2>8, SMTT(60) DEF Relink, TypeOK, Unraced, Keeps
  <2>9. CASE Preflight \/ Stage \/ StageFails \/ CheckStaged \/ Unstage \/
             UnstageFails \/ Journal \/ JournalFails \/ Check \/ CommitFails
             \/ Recheck \/ Confirm \/ ConfirmFails \/ Validate \/
             ValidateFails \/ RollFile \/ Fresh \/ RollRename \/ Unpark \/
             RollFails \/ RollEnds \/ Clean \/ CleanFails \/ Unjournal \/
             UnjournalFails \/ Recover \/ Crash
    BY <2>9 DEF Keeps, Preflight, Stage, StageFails, CheckStaged, Unstage,
      UnstageFails, Journal, JournalFails, Check, CommitFails, Recheck,
      Confirm, ConfirmFails, Validate, ValidateFails, RollFile, Fresh,
      RollRename, Unpark, RollFails, RollEnds, Clean, CleanFails, Unjournal,
      UnjournalFails, Recover, Crash
  <2>10. QED
    BY <1>1, <2>1, <2>2, <2>3, <2>4, <2>5, <2>6, <2>7, <2>8, <2>9
       DEF AppStep, Prepare, Change, Rollback, Cleanup
<1>2. ASSUME Inv, NEW e \in Entries, Edit(e) PROVE Keeps
  BY <1>2 DEF Edit, TypeOK, Keeps
<1>3. ASSUME Inv, UNCHANGED vars PROVE Keeps
  BY <1>3 DEF vars, Keeps
<1>4. QED
  BY <1>1, <1>2, <1>3 DEF Next, AppStep

(* What the abstract patch sees of an entry.                               *)
View(i) == IF i \in foreign THEN "foreign"
           ELSE IF manifest # "prepared" /\ Patched(i) THEN "after" ELSE "before"

Seen == [i \in Entries |-> View(i)]

LEMMA AppStepView ==
    ASSUME Inv, AppStep
    PROVE  \/ \A i \in Entries : View(i)' = View(i)
           \/ /\ \A i \in Entries : View(i) # "after"
              /\ \A i \in Entries : View(i)' = IF View(i) = "before" THEN "after" ELSE "foreign"
<1>1. Marks
  BY StepMarks
<1>2. CASE manifest' = manifest
  BY <1>1, <1>2 DEF Marks, View
<1>3. CASE manifest = "none" /\ manifest' = "prepared" /\ AllOriginal
  BY <1>1, <1>3 DEF Marks, View, TypeOK
<1>4. CASE manifest = "prepared" /\ manifest' = "committed" /\ AllPatched
  BY <1>1, <1>4 DEF Marks, View
<1>5. CASE manifest = "prepared" /\ manifest' = "none" /\ AllOriginal
  BY <1>1, <1>5 DEF Marks, View, TypeOK
<1>6. CASE manifest = "committed" /\ manifest' = "none"
  BY <1>1, <1>6 DEF Marks, View
<1>7. QED
  BY <1>1, <1>2, <1>3, <1>4, <1>5, <1>6 DEF Marks

LEMMA EditView ==
    ASSUME Inv, NEW e \in Entries, Edit(e)
    PROVE  \A i \in Entries : View(i)' = IF i = e THEN "foreign" ELSE View(i)
BY DEF Edit, View, TypeOK

-----------------------------------------------------------------------------
HIDE DEF Kept, AllOriginal, AllPatched, Preparing, Changing, Undoing, Rolling, AllKinds,
         stages, targets, outside, Go, Report, Untouched, Rolled, Conflict, Changed,
         Unrecoverable, Outcome, Original, Patched, Recoverable, Renames, Before, After,
         Journaled, Filed, Staged, Forward, Backward, Undisputed, Inv

THEOREM InvAlways == Spec => []Inv
BY InitInv, StepKeepsInv, PTL DEF Spec

(* Every variable keeps its type: the state of transact and rollback.      *)
THEOREM TypeAlways == Spec => []TypeOK
<1>1. Inv => TypeOK
  BY DEF Inv
<1>2. QED
  BY InvAlways, <1>1, PTL

(* When no manifest is pending, what ensure_clear lets readers see is all  *)
(* of the patch or none of it.                                             *)
THEOREM NeverTorn == Spec => []NoTornPatch
<1>1. Inv => NoTornPatch
  BY DEF Inv, Filed, AllOriginal, AllPatched, Kept, NoTornPatch
<1>2. QED
  BY InvAlways, <1>1, PTL

(* While the manifest is prepared, rollback can find every original.       *)
THEOREM OriginalsKept == Spec => []OriginalKept
<1>1. Inv => OriginalKept
  BY DEF Inv, Filed, Recoverable, Kept, Original, OriginalKept
<1>2. QED
  BY InvAlways, <1>1, PTL

(* transact and recover_patch report what they have done to the files.     *)
THEOREM ReportsAreTrue == Spec => []ReportsTrue
<1>1. Inv => ReportsTrue
  BY DEF Inv
<1>2. QED
  BY InvAlways, <1>1, PTL

(* A recovery that meets no failure and no foreign file ends the           *)
(* transaction.                                                            *)
THEOREM RecoveryEnds == Spec => []RecoverySucceeds
<1>1. Inv => RecoverySucceeds
  BY DEF Inv
<1>2. QED
  BY InvAlways, <1>1, PTL

(* A committed manifest is never prepared again and its files stay as the  *)
(* patch made them, whatever fails and however often recovery runs.        *)
THEOREM CommitsStand == Spec => CommitStands
<1>1. Inv /\ [Next]_vars =>
        [manifest = "committed" =>
           /\ manifest' # "prepared"
           /\ \A i \in Entries \ foreign' : Patched(i)']_vars
  BY StepStands DEF Stands
<1>2. QED
  BY InvAlways, <1>1, PTL DEF Spec, CommitStands

(* A file that another application wrote is not replaced or removed by the *)
(* app, unless it was written between a check and the change it allowed.   *)
THEOREM ForeignEditsKept == Spec => EditsKept
<1>1. Inv /\ [Next]_vars =>
        [\A i \in Entries \ raced : edits' = edits =>
           /\ file[i] = "other" => file'[i] = "other"
           /\ dest[i] = "other" => dest'[i] = "other"]_vars
  BY StepKeepsEdits DEF Keeps
<1>2. QED
  BY InvAlways, <1>1, PTL DEF Spec, EditsKept

(* To those who read through the app the patch is one step that happens or *)
(* does not: workspace_patch.rs implements AtomicPatch.                    *)
THEOREM PatchIsAtomic == Spec => AllOrNothing
<1>1. Init => Atomic!Init
  BY DEF Init, Atomic!Init, Original, Patched, Before, After, Renames
<1>2. Inv /\ [Next]_vars => [Atomic!Next]_Seen
  <2>1. ASSUME Inv, AppStep PROVE Atomic!Commit \/ Seen' = Seen
    BY <2>1, AppStepView DEF Atomic!Commit, Seen, View
  <2>2. ASSUME Inv, NEW e \in Entries, Edit(e) PROVE Atomic!Touch(e)
    <3>1. Seen' = [i \in Entries |-> IF i = e THEN "foreign" ELSE Seen[i]]
      BY <2>2, EditView DEF Seen
    <3>2. Seen' = [Seen EXCEPT ![e] = "foreign"]
      BY <3>1 DEF Seen
    <3>3. QED
      BY <3>2 DEF Atomic!Touch, Seen, View
  <2>3. ASSUME UNCHANGED vars PROVE Seen' = Seen
    BY <2>3 DEF vars, Seen, View, Patched, Renames, After
  <2>4. QED
    BY <2>1, <2>2, <2>3 DEF Next, AppStep, Atomic!Next
<1>3. QED
  BY InvAlways, <1>1, <1>2, PTL DEF Spec, AllOrNothing, Atomic!Spec, Seen, View
=============================================================================
