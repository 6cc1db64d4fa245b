--------------------------- MODULE WorkspacePatch ---------------------------
(***************************************************************************)
(* One file transaction of workspace_patch.rs: originals and replacements  *)
(* are staged beside their targets, a prepared manifest is written to the  *)
(* journal, the files are replaced one by one, the manifest is marked      *)
(* committed, and the stages and the manifest are removed.  A failure      *)
(* rolls back; a process that dies leaves a manifest that recover_patch    *)
(* rolls back or cleans when the user or the model asks for it.            *)
(*                                                                         *)
(* A step is one call of the file system or a few that no one can tell     *)
(* apart, and the process may die between any two.  Other applications     *)
(* write the same files at any time.  Native calls hold the root's lock    *)
(* for the whole transaction and are refused while a manifest exists.      *)
(*                                                                         *)
(* A content is the one the patch found, the one it writes, one that       *)
(* another application wrote, or none.  Spellings are distinct names, as   *)
(* on a case-sensitive file system.                                        *)
(***************************************************************************)
EXTENDS Naturals

CONSTANTS
    N,        \* the number of entries
    Kinds,    \* the kinds of change tried
    MaxEdits  \* bound on the writes of other applications

AllKinds == {"edit", "create", "delete", "rename", "respell"}

ASSUME WorkspacePatchAssumption ==
    N \in Nat \ {0} /\ MaxEdits \in Nat /\ Kinds \subseteq AllKinds

Entries == 1..N
Contents == {"absent", "before", "after", "other"}

VARIABLES
    plan,      \* the change each entry makes
    file,      \* the target of each entry
    dest,      \* the new spelling of a case-only rename
    new,       \* the staged replacement, `.locallm-txn-ID-INDEX-new`
    old,       \* the backup of the original, `-old`
    restore,   \* the copy a rollback prepares, `-restore`
    park,      \* the original while its spelling changes, `-park`
    manifest,  \* the state in the journal's manifest, "none" if there is none
    pc,        \* the next step of the call, "idle" if none is running
    at,        \* the entry in hand
    call,      \* which tool is running: the patch or its recovery
    conflicts, \* the conflicts of the last rollback
    status,    \* the status the last call reported
    \* history, read by no step
    edits,     \* writes of other applications so far
    foreign,   \* the entries they wrote
    raced,     \* those written between a check and the change it allowed
    trouble    \* this call was cut short, or could not undo or clean

stages == <<new, old, restore, park>>
targets == <<file, dest>>
outside == <<edits, foreign, raced>>
vars == <<plan, file, dest, new, old, restore, park, manifest, pc, at, call, conflicts,
          status, edits, foreign, raced, trouble>>

Places == {"ready", "stage", "check", "unstage", "journal", "commit", "swap", "park", "link",
           "validate", "roll", "fresh", "undo", "unlink", "relink", "unpark", "clean", "idle"}
Reports == {"none", "refused", "failed", "not_started", "rolled_back", "committed", "cleaned",
            "unknown", "error"}

TypeOK ==
    /\ plan \in [Entries -> AllKinds]
    /\ file \in [Entries -> Contents] /\ dest \in [Entries -> Contents]
    /\ new \in [Entries -> Contents] /\ old \in [Entries -> Contents]
    /\ restore \in [Entries -> Contents] /\ park \in [Entries -> Contents]
    /\ manifest \in {"none", "prepared", "committed"}
    /\ pc \in Places /\ at \in 0..(N + 1)
    /\ call \in {"patch", "recover"} /\ status \in Reports
    /\ conflicts \in SUBSET Entries
    /\ edits \in 0..MaxEdits /\ foreign \in SUBSET Entries /\ raced \in SUBSET foreign
    /\ trouble \in BOOLEAN

(* Entry.before, Entry.after and Entry.rename_to. *)
Before(i) == IF plan[i] = "create" THEN "absent" ELSE "before"
After(i) ==
    IF plan[i] = "delete" THEN "absent"
    ELSE IF plan[i] = "respell" THEN "before" ELSE "after"
Renames(i) == plan[i] \in {"rename", "respell"}

Init ==
    /\ plan \in [Entries -> Kinds]
    /\ file = [i \in Entries |-> Before(i)]
    /\ dest = [i \in Entries |-> "absent"]
    /\ new = [i \in Entries |-> "absent"] /\ old = [i \in Entries |-> "absent"]
    /\ restore = [i \in Entries |-> "absent"] /\ park = [i \in Entries |-> "absent"]
    /\ manifest = "none" /\ pc = "ready" /\ at = 0 /\ call = "patch"
    /\ conflicts = {} /\ status = "none"
    /\ edits = 0 /\ foreign = {} /\ raced = {} /\ trouble = FALSE

Go(place, i) == pc' = place /\ at' = i
Report(s) == pc' = "idle" /\ at' = 0 /\ status' = s

-----------------------------------------------------------------------------
(* transact: preparation. *)

Untouched(i) == file[i] = Before(i) /\ dest[i] = "absent"

(* preflight: the hashes the caller gave are still those of the files. *)
Preflight ==
    /\ pc = "ready"
    /\ IF \A i \in Entries : Untouched(i)
       THEN Go("stage", 1) /\ UNCHANGED status
       ELSE Report("refused")
    /\ UNCHANGED <<plan, targets, stages, manifest, call, conflicts, outside, trouble>>

(* One entry's backup and replacement, with a probe of the hard link. *)
Stage ==
    /\ pc = "stage" /\ at <= N
    /\ old' = [old EXCEPT ![at] = Before(at)]
    /\ new' = [new EXCEPT ![at] = After(at)]
    /\ Go("stage", at + 1)
    /\ UNCHANGED <<plan, targets, restore, park, manifest, call, conflicts, status,
                   outside, trouble>>

StageFails ==
    /\ pc = "stage" /\ Go("unstage", 0)
    /\ \E o, n \in BOOLEAN :
         /\ old' = IF at <= N /\ o THEN [old EXCEPT ![at] = Before(at)] ELSE old
         /\ new' = IF at <= N /\ o /\ n THEN [new EXCEPT ![at] = After(at)] ELSE new
    /\ status' = "failed"
    /\ UNCHANGED <<plan, targets, restore, park, manifest, call, conflicts, outside, trouble>>

(* All targets are checked once more before anything is journaled. *)
CheckStaged ==
    /\ pc = "stage" /\ at = N + 1
    /\ \A i \in Entries : Untouched(i)
    /\ Go("journal", 0)
    /\ UNCHANGED <<plan, targets, stages, manifest, call, conflicts, status, outside, trouble>>

Unstage ==
    /\ pc = "unstage"
    /\ new' = [i \in Entries |-> "absent"] /\ old' = [i \in Entries |-> "absent"]
    /\ pc' = "idle"
    /\ UNCHANGED <<plan, targets, restore, park, manifest, at, call, conflicts, status,
                   outside, trouble>>

UnstageFails ==
    /\ pc = "unstage"
    /\ \E left \in SUBSET Entries :
         /\ new' = [i \in Entries |-> IF i \in left THEN new[i] ELSE "absent"]
         /\ old' = [i \in Entries |-> IF i \in left THEN old[i] ELSE "absent"]
    /\ pc' = "idle" /\ trouble' = TRUE
    /\ UNCHANGED <<plan, targets, restore, park, manifest, at, call, conflicts, status, outside>>

(* A slip: the files are changed before the manifest is in the journal. *)
JournalLater ==
    /\ pc = "journal" /\ Go("commit", 1)
    /\ UNCHANGED <<plan, targets, stages, manifest, call, conflicts, status, outside, trouble>>

(* save_manifest: written beside, renamed into place, the directory synced. *)
Journal ==
    /\ pc = "journal"
    /\ manifest' = "prepared" /\ Go("commit", 1)
    /\ UNCHANGED <<plan, targets, stages, call, conflicts, status, outside, trouble>>

(* Without a manifest the stages are removed; with one that may not be     *)
(* durable they stay for the recovery.                                     *)
JournalFails ==
    /\ pc = "journal"
    /\ \/ Go("unstage", 0) /\ status' = "not_started" /\ UNCHANGED <<manifest, trouble>>
       \/ manifest' = "prepared" /\ Report("not_started") /\ trouble' = TRUE
    /\ UNCHANGED <<plan, targets, stages, call, conflicts, outside>>

-----------------------------------------------------------------------------
(* transact: the files are changed one by one. *)

(* check_target and the staged replacement. *)
Check ==
    /\ pc = "commit" /\ at <= N
    /\ Untouched(at) /\ new[at] = After(at)
    /\ Go("swap", at)
    /\ UNCHANGED <<plan, targets, stages, manifest, call, conflicts, status, outside, trouble>>

(* A slip: a failed change is cleaned up and not rolled back. *)
CommitFailsCleans ==
    /\ pc \in {"commit", "swap", "park", "link"} /\ at <= N
    /\ Go("clean", 1)
    /\ UNCHANGED <<plan, targets, stages, manifest, call, conflicts, status, outside, trouble>>

(* A target that is no longer the same, or any call that fails. *)
CommitFails ==
    /\ pc \in {"commit", "swap", "park", "link"} /\ at <= N
    /\ Go("validate", 0)
    /\ UNCHANGED <<plan, targets, stages, manifest, call, conflicts, status, outside, trouble>>

(* A change is done; if its directory cannot be synced the patch fails. *)
Changed(place, i) == Go(place, i) \/ Go("validate", 0)

ReplaceFile ==
    /\ pc = "swap" /\ plan[at] = "edit"
    /\ file' = [file EXCEPT ![at] = new[at]]
    /\ new' = [new EXCEPT ![at] = "absent"]
    /\ Changed("commit", at + 1)
    /\ UNCHANGED <<plan, dest, old, restore, park, manifest, call, conflicts, status,
                   outside, trouble>>

(* hard_link does not clobber. *)
CreateFile ==
    /\ pc = "swap" /\ plan[at] = "create" /\ file[at] = "absent"
    /\ file' = [file EXCEPT ![at] = new[at]]
    /\ Changed("commit", at + 1)
    /\ UNCHANGED <<plan, dest, stages, manifest, call, conflicts, status, outside, trouble>>

DeleteFile ==
    /\ pc = "swap" /\ plan[at] = "delete" /\ file[at] # "absent"
    /\ file' = [file EXCEPT ![at] = "absent"]
    /\ Changed("commit", at + 1)
    /\ UNCHANGED <<plan, dest, stages, manifest, call, conflicts, status, outside, trouble>>

Recheck ==
    /\ pc = "swap" /\ Renames(at) /\ Untouched(at)
    /\ Go("park", at)
    /\ UNCHANGED <<plan, targets, stages, manifest, call, conflicts, status, outside, trouble>>

ParkFile ==
    /\ pc = "park" /\ file[at] # "absent"
    /\ park' = [park EXCEPT ![at] = file[at]]
    /\ file' = [file EXCEPT ![at] = "absent"]
    /\ Changed("link", at)
    /\ UNCHANGED <<plan, dest, new, old, restore, manifest, call, conflicts, status,
                   outside, trouble>>

LinkDestination ==
    /\ pc = "link" /\ dest[at] = "absent"
    /\ dest' = [dest EXCEPT ![at] = new[at]]
    /\ Changed("commit", at + 1)
    /\ UNCHANGED <<plan, file, stages, manifest, call, conflicts, status, outside, trouble>>

Confirm ==
    /\ pc = "commit" /\ at = N + 1
    /\ manifest' = "committed" /\ Go("clean", 1)
    /\ UNCHANGED <<plan, targets, stages, call, conflicts, status, outside, trouble>>

ConfirmFails ==
    /\ pc = "commit" /\ at = N + 1
    /\ manifest' \in {"prepared", "committed"}
    /\ Report("unknown") /\ trouble' = TRUE
    /\ UNCHANGED <<plan, targets, stages, call, conflicts, outside>>

-----------------------------------------------------------------------------
(* rollback. *)

Unrecoverable == IF call = "patch" THEN "unknown" ELSE "error"

(* A slip: a backup that an interrupted cleanup removed is an error. *)
ValidateStrict ==
    /\ pc = "validate"
    /\ IF \A i \in Entries : old[i] = Before(i)
       THEN Go("roll", N) /\ conflicts' = {} /\ UNCHANGED status
       ELSE Report(Unrecoverable) /\ UNCHANGED conflicts
    /\ UNCHANGED <<plan, targets, stages, manifest, call, outside, trouble>>

(* Every backup is there, or was removed after its target was restored. *)
Validate ==
    /\ pc = "validate"
    /\ IF \A i \in Entries : old[i] = Before(i) \/ (old[i] = "absent" /\ file[i] = Before(i))
       THEN Go("roll", N) /\ conflicts' = {} /\ UNCHANGED status
       ELSE Report(Unrecoverable) /\ UNCHANGED conflicts
    /\ UNCHANGED <<plan, targets, stages, manifest, call, outside, trouble>>

ValidateFails ==
    /\ pc = "validate" /\ Report(Unrecoverable) /\ trouble' = TRUE
    /\ UNCHANGED <<plan, targets, stages, manifest, call, conflicts, outside>>

Rolled == Go("roll", at - 1)
Conflict == Rolled /\ conflicts' = conflicts \cup {at}

(* A file is its original, is what the patch made of it, or is someone     *)
(* else's.  Only the second is changed, after its copy is prepared.        *)
RollFile ==
    /\ pc = "roll" /\ at > 0 /\ ~Renames(at)
    /\ \/ file[at] = Before(at) /\ Rolled /\ UNCHANGED <<restore, conflicts>>
       \/ file[at] \notin {Before(at), After(at)} /\ Conflict /\ UNCHANGED restore
       \/ /\ file[at] = After(at)
          /\ IF old[at] = "absent" THEN Go("undo", at) /\ UNCHANGED restore
             ELSE Go("fresh", at) /\ restore' = [restore EXCEPT ![at] = old[at]]
          /\ UNCHANGED conflicts
    /\ UNCHANGED <<plan, targets, new, old, park, manifest, call, status, outside, trouble>>

(* A slip: the file is not read again before it is replaced. *)
FreshUnread ==
    /\ pc = "fresh" /\ Go("undo", at)
    /\ UNCHANGED <<plan, targets, stages, manifest, call, conflicts, status, outside, trouble>>

Fresh ==
    /\ pc = "fresh"
    /\ IF file[at] = After(at) THEN Go("undo", at) /\ UNCHANGED conflicts ELSE Conflict
    /\ UNCHANGED <<plan, targets, stages, manifest, call, status, outside, trouble>>

UndoFile ==
    /\ pc = "undo"
    /\ \/ /\ old[at] = "absent" /\ file[at] # "absent"
          /\ file' = [file EXCEPT ![at] = "absent"]
          /\ Rolled /\ UNCHANGED <<restore, conflicts>>
       \/ /\ old[at] # "absent" /\ (After(at) = "absent" => file[at] = "absent")
          /\ file' = [file EXCEPT ![at] = restore[at]]
          /\ restore' = [restore EXCEPT ![at] = "absent"]
          /\ Rolled /\ UNCHANGED conflicts
       \/ /\ IF old[at] = "absent" THEN file[at] = "absent"
             ELSE After(at) = "absent" /\ file[at] # "absent"
          /\ Conflict /\ UNCHANGED <<file, restore>>
    /\ UNCHANGED <<plan, dest, new, old, park, manifest, call, status, outside, trouble>>

(* A spelling goes back if the destination is the patch's and the original *)
(* is parked.                                                              *)
RollRename ==
    /\ pc = "roll" /\ at > 0 /\ Renames(at)
    /\ \/ Untouched(at) /\ Rolled /\ UNCHANGED conflicts
       \/ file[at] # "absent" /\ ~Untouched(at) /\ Conflict
       \/ /\ file[at] = "absent"
          /\ IF dest[at] \in {"absent", After(at)} /\ park[at] = Before(at)
             THEN /\ Go(IF dest[at] = "absent" THEN "relink" ELSE "unlink", at)
                  /\ UNCHANGED conflicts
             ELSE Conflict
    /\ UNCHANGED <<plan, targets, stages, manifest, call, status, outside, trouble>>

UnlinkDestination ==
    /\ pc = "unlink"
    /\ \/ dest[at] # "absent" /\ dest' = [dest EXCEPT ![at] = "absent"]
          /\ Go("relink", at) /\ UNCHANGED conflicts
       \/ dest[at] = "absent" /\ Conflict /\ UNCHANGED dest
    /\ UNCHANGED <<plan, file, stages, manifest, call, status, outside, trouble>>

Relink ==
    /\ pc = "relink"
    /\ \/ file[at] = "absent" /\ file' = [file EXCEPT ![at] = park[at]]
          /\ Go("unpark", at) /\ UNCHANGED conflicts
       \/ file[at] # "absent" /\ Conflict /\ UNCHANGED file
    /\ UNCHANGED <<plan, dest, stages, manifest, call, status, outside, trouble>>

Unpark ==
    /\ pc = "unpark"
    /\ park' = [park EXCEPT ![at] = "absent"] /\ Rolled
    /\ UNCHANGED <<plan, targets, new, old, restore, manifest, call, conflicts, status,
                   outside, trouble>>

(* A call that fails, also one that syncs a directory, is a conflict. *)
RollFails ==
    /\ pc \in {"roll", "fresh", "undo", "unlink", "relink", "unpark"} /\ at > 0
    /\ Conflict /\ trouble' = TRUE
    /\ UNCHANGED <<plan, targets, stages, manifest, call, status, outside>>

(* A slip: the stages are removed whatever the conflicts. *)
RollEndsClean ==
    /\ pc = "roll" /\ at = 0 /\ Go("clean", 1)
    /\ UNCHANGED <<plan, targets, stages, manifest, call, conflicts, status, outside, trouble>>

RollEnds ==
    /\ pc = "roll" /\ at = 0
    /\ IF conflicts = {} THEN Go("clean", 1) /\ UNCHANGED status ELSE Report("unknown")
    /\ UNCHANGED <<plan, targets, stages, manifest, call, conflicts, outside, trouble>>

-----------------------------------------------------------------------------
(* cleanup, and recover_patch. *)

Outcome ==
    IF manifest = "prepared" THEN "rolled_back"
    ELSE IF call = "patch" THEN "committed" ELSE "cleaned"

Clean ==
    /\ pc = "clean" /\ at <= N
    /\ new' = [new EXCEPT ![at] = "absent"] /\ old' = [old EXCEPT ![at] = "absent"]
    /\ restore' = [restore EXCEPT ![at] = "absent"] /\ park' = [park EXCEPT ![at] = "absent"]
    /\ Go("clean", at + 1)
    /\ UNCHANGED <<plan, targets, manifest, call, conflicts, status, outside, trouble>>

(* The stages go in the order new, old, restore, park: some of them only. *)
CleanFails ==
    /\ pc = "clean" /\ at <= N
    /\ \E done \in 0..3 :
         /\ new' = IF done > 0 THEN [new EXCEPT ![at] = "absent"] ELSE new
         /\ old' = IF done > 1 THEN [old EXCEPT ![at] = "absent"] ELSE old
         /\ restore' = IF done > 2 THEN [restore EXCEPT ![at] = "absent"] ELSE restore
    /\ Report(Outcome) /\ trouble' = TRUE
    /\ UNCHANGED <<plan, targets, park, manifest, call, conflicts, outside>>

Unjournal ==
    /\ pc = "clean" /\ at = N + 1
    /\ manifest' = "none" /\ Report(Outcome)
    /\ UNCHANGED <<plan, targets, stages, call, conflicts, outside, trouble>>

UnjournalFails ==
    /\ pc = "clean" /\ at = N + 1
    /\ manifest' \in {manifest, "none"} /\ Report(Outcome) /\ trouble' = TRUE
    /\ UNCHANGED <<plan, targets, stages, call, conflicts, outside>>

(* recover_patch: a prepared patch is undone, a committed one cleaned up. *)
Recover ==
    /\ pc = "idle" /\ manifest # "none"
    /\ IF manifest = "prepared" THEN Go("validate", 0) ELSE Go("clean", 1)
    /\ call' = "recover" /\ trouble' = FALSE
    /\ UNCHANGED <<plan, targets, stages, manifest, conflicts, status, outside>>

-----------------------------------------------------------------------------
(* The rest of the world. *)

Crash ==
    /\ pc \notin {"ready", "idle"}
    /\ Report("none") /\ trouble' = TRUE
    /\ UNCHANGED <<plan, targets, stages, manifest, call, conflicts, outside>>

(* Between a check and the change that it allowed.  A file that is created *)
(* or put back where there is none has no such moment: links do not        *)
(* clobber.                                                                *)
Window(i) ==
    /\ at = i
    /\ \/ pc = "swap" /\ plan[i] \in {"edit", "delete"}
       \/ pc \in {"park", "unlink"}
       \/ pc = "undo" /\ (old[i] = "absent" \/ After(i) # "absent")

(* Another application writes or removes a file. *)
Edit(i) ==
    /\ edits < MaxEdits
    /\ \E content \in {"other", "absent"} :
         \/ file' = [file EXCEPT ![i] = content] /\ UNCHANGED dest
         \/ Renames(i) /\ dest' = [dest EXCEPT ![i] = content] /\ UNCHANGED file
    /\ edits' = edits + 1 /\ foreign' = foreign \cup {i}
    /\ raced' = IF Window(i) THEN raced \cup {i} ELSE raced
    /\ UNCHANGED <<plan, stages, manifest, pc, at, call, conflicts, status, trouble>>

Prepare == Preflight \/ Stage \/ StageFails \/ CheckStaged \/ Unstage \/ UnstageFails
             \/ Journal \/ JournalFails
Change == Check \/ CommitFails \/ ReplaceFile \/ CreateFile \/ DeleteFile \/ Recheck
            \/ ParkFile \/ LinkDestination \/ Confirm \/ ConfirmFails
Rollback == Validate \/ ValidateFails \/ RollFile \/ Fresh \/ UndoFile \/ RollRename
              \/ UnlinkDestination \/ Relink \/ Unpark \/ RollFails \/ RollEnds
Cleanup == Clean \/ CleanFails \/ Unjournal \/ UnjournalFails

Next ==
    \/ Prepare \/ Change \/ Rollback \/ Cleanup \/ Recover \/ Crash
    \/ \E i \in Entries : Edit(i)

Spec == Init /\ [][Next]_vars

-----------------------------------------------------------------------------
Original(i) == file[i] = Before(i) /\ dest[i] = "absent"
Patched(i) == IF Renames(i) THEN file[i] = "absent" /\ dest[i] = After(i) ELSE file[i] = After(i)

(* What native reads, writes and the editor find when ensure_clear lets    *)
(* them in: all of the patch or none of it, whatever failed and wherever   *)
(* the process died.  Files that other applications wrote are theirs.      *)
NoTornPatch ==
    pc = "idle" /\ manifest = "none" =>
        \/ \A i \in Entries \ foreign : Original(i)
        \/ \A i \in Entries \ foreign : Patched(i)

(* "Binary ... original copies ... before changing project files": until   *)
(* the commit is durable, every original can be found again.               *)
OriginalKept ==
    manifest = "prepared" =>
        \A i \in Entries \ foreign :
            \/ file[i] = Before(i)
            \/ IF Renames(i) THEN park[i] = Before(i) ELSE old[i] = Before(i)

(* "Preserves divergent external edits": what another application wrote is *)
(* not replaced or removed, unless it came between a check and the change  *)
(* the check allowed.                                                      *)
EditsKept ==
    [][\A i \in Entries \ raced : edits' = edits =>
         /\ file[i] = "other" => file'[i] = "other"
         /\ dest[i] = "other" => dest'[i] = "other"]_vars

(* A durable commit is final: no recovery takes it back.                   *)
CommitStands ==
    [][manifest = "committed" =>
         /\ manifest' # "prepared"
         /\ \A i \in Entries \ foreign' : Patched(i)']_vars

(* A status is the truth about the files, also when the call could not     *)
(* finish its cleanup.                                                     *)
ReportsTrue ==
    pc = "idle" =>
        /\ status \in {"refused", "failed", "not_started", "rolled_back"} =>
             \A i \in Entries \ foreign : Original(i)
        /\ status \in {"committed", "cleaned"} => \A i \in Entries \ foreign : Patched(i)

(* Wherever a call was cut short, the next recovery that meets no failure  *)
(* of its own and no foreign file ends the transaction.                    *)
RecoverySucceeds == pc = "idle" /\ ~trouble /\ foreign = {} => manifest = "none"

(* The patch, as native readers see it, is the abstract one.               *)
Atomic ==
    INSTANCE AtomicPatch WITH
        seen <- [i \in Entries |->
                   IF i \in foreign THEN "foreign"
                   ELSE IF manifest # "prepared" /\ Patched(i) THEN "after" ELSE "before"]
AllOrNothing == Atomic!Spec

-----------------------------------------------------------------------------
(* What the documentation says and the code does not do. *)

(* "Divergent files remain untouched, are listed as conflicts, and keep    *)
(* the transaction pending" (docs/WORKSPACE_TRANSACTIONS.md): a recovery   *)
(* that nothing fails does not end in an error of its own.                 *)
DivergenceListed == pc = "idle" /\ ~trouble => status # "error"

=============================================================================
