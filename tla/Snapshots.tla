----------------------------- MODULE Snapshots -----------------------------
(* Workspace snapshots of one conversation (snapshots.rs, the capture of   *)
(* run_model_turn in chat.rs, the filing of a task in workspace_ui.rs).    *)
(* Captures, staging and commits run under the database lock, one at a     *)
(* time; the agent's tools and the user change files meanwhile.            *)
EXTENDS Naturals, FiniteSets, Sequences

CONSTANTS
    Files,          \* workspace-relative paths
    Contents,       \* contents of a regular file, known by their digest
    Absent,         \* no file
    Odd,            \* a directory, a link, or a path no snapshot accepts
    Roots,          \* workspace folders the task can be filed under
    MaxSnapshots,   \* bound: snapshots taken
    MaxEdits        \* bound: changes of files by the agent and the user

VARIABLES
    disk,           \* what each path of each folder is
    root,           \* the folder the task is filed under
    blobs,          \* contents in the blob directory
    rows,           \* snapshots, oldest first: their files and, as history, their folder
    staged,         \* the snapshot of the staged revert, 0 if none
    tracked,        \* paths the tool audit names
    op,             \* the operation that holds the database lock
    round,          \* a model round is running its tools
    found,          \* history: the folder as the round found it
    spoiled,        \* history: files of the user the round overwrote
    changed,        \* history: files changed since the commit began
    edits           \* count of changes

store == <<blobs, rows, staged>>
history == <<found, spoiled, changed, edits>>
vars == <<disk, root, store, tracked, op, round, history>>

Free == [kind |-> "none", todo |-> {}, got |-> {}, failed |-> {}]
Here == disk[root]

Init ==
    /\ root = CHOOSE r \in Roots : TRUE
    /\ \E project \in [Files -> {Absent, Odd, CHOOSE v \in Contents : TRUE}] :
         disk = [r \in Roots |-> IF r = root THEN project ELSE [f \in Files |-> Absent]]
    /\ blobs = {} /\ rows = <<>> /\ staged = 0 /\ tracked = {}
    /\ op = Free /\ round = FALSE
    /\ found = Here /\ spoiled = {} /\ changed = {} /\ edits = 0

-----------------------------------------------------------------------------
(* Tools and the user.  A tool that names a path leaves it in the audit.   *)
Change(f, what) ==
    /\ edits < MaxEdits /\ edits' = edits + 1
    /\ disk' = [disk EXCEPT ![root][f] = what]
    /\ changed' = changed \cup {f}

ToolReads ==
    /\ round /\ op.kind # "capture"
    /\ \E f \in Files : tracked' = tracked \cup {f}
    /\ UNCHANGED <<disk, root, store, op, round, history>>

ToolWrites ==
    /\ round /\ op.kind # "capture"
    /\ \E f \in Files, v \in Contents :
         /\ Here[f] \notin {Odd, v}
         /\ Change(f, v)
         /\ tracked' = tracked \cup {f}
         /\ spoiled' = IF Here[f] = found[f] THEN spoiled \cup {f} ELSE spoiled
    /\ UNCHANGED <<root, store, op, round, found>>

UserEdits ==
    /\ \E f \in Files, what \in Contents \cup {Absent, Odd} :
         Here[f] # what /\ Change(f, what)
    /\ UNCHANGED <<root, store, tracked, op, round, found, spoiled>>

(* save_task_meta files the task elsewhere between turns. *)
Refile ==
    /\ ~round /\ op = Free
    /\ root' \in Roots \ {root}
    /\ UNCHANGED <<disk, store, tracked, op, round, history>>

-----------------------------------------------------------------------------
(* The capture of a round: best effort, and of the paths the audit already *)
(* names.  A path that is refused fails it as a whole.                     *)
BeginRound ==
    /\ ~round /\ op = Free /\ Len(rows) < MaxSnapshots
    /\ round' = TRUE /\ found' = Here /\ spoiled' = {}
    /\ op' = IF tracked = {} THEN Free ELSE [Free EXCEPT !.kind = "capture", !.todo = tracked]
    /\ UNCHANGED <<disk, root, store, tracked, changed, edits>>

EndRound ==
    /\ round /\ op.kind # "capture"
    /\ round' = FALSE /\ spoiled' = {}
    /\ UNCHANGED <<disk, root, store, tracked, op, found, changed, edits>>

Captured(f, what) == [op EXCEPT !.todo = @ \ {f}, !.got = @ \cup {<<f, what>>}]

(* write_blob: a content already there is not written again. *)
BlobFails(f) == UNCHANGED blobs /\ op' = Free

CaptureFile ==
    /\ op.kind = "capture"
    /\ \E f \in op.todo :
         \/ Here[f] \in Contents /\ blobs' = blobs \cup {Here[f]} /\ op' = Captured(f, Here[f])
         \/ Here[f] \in Contents \ blobs /\ BlobFails(f)
         \/ Here[f] = Absent /\ UNCHANGED blobs /\ op' = Captured(f, Absent)
         \/ Here[f] = Odd /\ UNCHANGED blobs /\ op' = Free
    /\ UNCHANGED <<disk, root, rows, staged, tracked, round, history>>

(* The rows of a snapshot appear in one transaction. *)
Persist ==
    /\ op.kind = "capture" /\ op.todo = {}
    /\ rows' = Append(rows, [files |-> op.got, root |-> root])
    /\ op' = Free
    /\ UNCHANGED <<disk, root, blobs, staged, tracked, round, history>>

-----------------------------------------------------------------------------
Stage ==
    /\ op = Free
    /\ staged' \in DOMAIN rows
    /\ UNCHANGED <<disk, root, blobs, rows, tracked, op, round, history>>

Discard ==
    /\ op = Free /\ staged # 0
    /\ staged' = 0
    /\ UNCHANGED <<disk, root, blobs, rows, tracked, op, round, history>>

(* commit_revert: the folder is the one the task is filed under by now.    *)
BeginCommit ==
    /\ op = Free /\ staged # 0
    /\ op' = [Free EXCEPT !.kind = "commit", !.todo = rows[staged].files]
    /\ changed' = {}
    /\ UNCHANGED <<disk, root, store, tracked, round, found, spoiled, edits>>

(* restore: a link or a directory is left alone, a content comes from its  *)
(* blob, and any step of it may fail.                                      *)
RestoreFile ==
    /\ op.kind = "commit"
    /\ \E file \in op.todo :
         LET f == file[1]  what == file[2]
         IN \/ /\ Here[f] # Odd /\ what \in blobs \cup {Absent}
               /\ disk' = [disk EXCEPT ![root][f] = what]
               /\ op' = [op EXCEPT !.todo = @ \ {file}]
               /\ changed' = changed \ {f}
            \/ /\ UNCHANGED <<disk, changed>>
               /\ op' = [op EXCEPT !.todo = @ \ {file}, !.failed = @ \cup {f}]
    /\ UNCHANGED <<root, store, tracked, round, found, spoiled, edits>>

(* A slip: the staged revert is gone whatever could not be restored. *)
DoneAnyway == TRUE

Done == op.failed = {}

EndCommit ==
    /\ op.kind = "commit" /\ op.todo = {}
    /\ staged' = IF Done THEN 0 ELSE staged
    /\ op' = Free
    /\ UNCHANGED <<disk, root, blobs, rows, tracked, round, history>>

(* The program dies in the middle of whatever it does. *)
Crash ==
    /\ round \/ op # Free
    /\ round' = FALSE /\ op' = Free /\ spoiled' = {}
    /\ UNCHANGED <<disk, root, store, tracked, found, changed, edits>>

Next ==
    \/ ToolReads \/ ToolWrites \/ UserEdits \/ Refile \/ BeginRound \/ EndRound
    \/ CaptureFile \/ Persist \/ Stage \/ Discard \/ BeginCommit \/ RestoreFile \/ EndCommit
    \/ Crash

Spec == Init /\ [][Next]_vars

-----------------------------------------------------------------------------
(* A committed revert goes away only when every file is as captured, or    *)
(* was changed since its restore; after a failure or a crash it is still   *)
(* there to be committed again (commit).                                   *)
RevertDone ==
    [][op.kind = "commit" /\ staged # 0 /\ staged' = 0
         => \A file \in rows[staged].files : Here[file[1]] = file[2] \/ file[1] \in changed]_vars

(* What the user left in a file can be put back when a round has           *)
(* overwritten it (chat.rs: "capture the workspace before the step so a    *)
(* bad edit can be reverted to the state the user left it in").            *)
EditsCanBeUndone ==
    \A f \in spoiled : \E k \in DOMAIN rows : <<f, found[f]>> \in rows[k].files

(* A revert writes the folder its snapshot was taken in.                   *)
RevertsInPlace == op.kind = "commit" => rows[staged].root = root
=============================================================================
