--------------------------- MODULE ProcessOutput ---------------------------
(* The retained output of one process (process_tools.rs, struct Output) and *)
(* a reader that pages through it: process_poll with the cursor it was last *)
(* given, or the loop of shell_run.  Text is its size in units; stdout and  *)
(* stderr share the window and are one stream here.                         *)
EXTENDS Naturals, Sequences, SequencesExt

CONSTANTS
    OutputBytes,    \* OUTPUT_BYTES
    FrameSizes,     \* sizes of a decoded read
    PageSizes,      \* max_bytes a poll may ask for
    ShellPage,      \* max_bytes of shell_run
    MaxFrames       \* bound: frames a process writes

VARIABLES
    frames,         \* Output.frames: [cursor, size], oldest first
    next,           \* Output.next
    incomplete,     \* Output.incomplete
    state,          \* Output.phase: "running" or "exited"
    reader          \* who reads, its cursor, the frames it has been given, whether it was
                    \*   told of a gap, and its place

vars == <<frames, next, incomplete, state, reader>>

Bytes(fs) == FoldSeq(LAMBDA f, n : f.size + n, 0, fs)

Init ==
    /\ frames = <<>> /\ next = 0 /\ incomplete = FALSE /\ state = "running"
    /\ reader \in [who : {"process_poll", "shell_run"}, cursor : {0}, given : {<<>>},
                   told : {FALSE}, at : {"reading"}]

(* The oldest frames are evicted one by one until the rest fits. *)
Fitting(fs) ==
    LET from == Min({k \in 1..Len(fs) + 1 : k > Len(fs) \/ Bytes(SubSeq(fs, k, Len(fs))) <= OutputBytes})
    IN SubSeq(fs, from, Len(fs))

(* read_output of one pipe. *)
Push ==
    /\ state = "running" /\ next < MaxFrames
    /\ \E size \in FrameSizes :
         frames' = Fitting(Append(frames, [cursor |-> next, size |-> size]))
    /\ next' = next + 1
    /\ UNCHANGED <<incomplete, state, reader>>

ReadFails ==
    /\ state = "running"
    /\ incomplete' = TRUE
    /\ UNCHANGED <<frames, next, state, reader>>

(* The supervisor has joined the readers, or given up on them after 1 s. *)
Ends ==
    /\ state = "running" /\ state' = "exited"
    /\ incomplete' \in {incomplete, TRUE}
    /\ UNCHANGED <<frames, next, reader>>

Base == IF frames = <<>> THEN next ELSE frames[1].cursor

(* A slip: a reader that fell behind is moved on without a word. *)
GapUntold(cursor) == incomplete

Truncated(cursor) == cursor < Base \/ incomplete

(* The longest run of frames from a cursor on that a page of this size holds. *)
Page(cursor, limit) ==
    LET from == IF cursor > Base THEN cursor ELSE Base
        first == Min({k \in 1..Len(frames) + 1 : k > Len(frames) \/ frames[k].cursor >= from})
        rest == SubSeq(frames, first, Len(frames))
        n == Min({k \in 0..Len(rest) : k = Len(rest) \/ Bytes(SubSeq(rest, 1, k + 1)) > limit})
    IN [frames |-> SubSeq(rest, 1, n), cursor |-> from + n]

(* What a page adds to a reader with room for that many units. *)
Read(limit, room) ==
    LET page == Page(reader.cursor, limit)
        kept == Min({k \in 0..Len(page.frames) : k = Len(page.frames) \/ Bytes(SubSeq(page.frames, 1, k)) >= room})
    IN [reader EXCEPT !.cursor = page.cursor,
                      !.given = @ \o SubSeq(page.frames, 1, kept),
                      !.told = @ \/ Truncated(reader.cursor) \/ kept < Len(page.frames)]

Poll ==
    /\ reader.who = "process_poll"
    /\ \E limit \in PageSizes : reader' = Read(limit, limit + 1)
    /\ UNCHANGED <<frames, next, incomplete, state>>

(* shell_run keeps OUTPUT_BYTES, reads a page at a time and leaves at the  *)
(* first page that says the process has ended, or at its deadline.         *)
ShellReads ==
    /\ reader.who = "shell_run" /\ reader.at = "reading"
    /\ LET room == IF Bytes(reader.given) < OutputBytes THEN OutputBytes - Bytes(reader.given) ELSE 0
       IN reader' = [Read(ShellPage, room) EXCEPT !.at = IF state = "running" THEN @ ELSE "returned"]
    /\ UNCHANGED <<frames, next, incomplete, state>>

ShellTimesOut ==
    /\ reader.who = "shell_run" /\ reader.at = "reading"
    /\ reader' = [reader EXCEPT !.at = "handle"]
    /\ UNCHANGED <<frames, next, incomplete, state>>

Next == Push \/ ReadFails \/ Ends \/ Poll \/ ShellReads \/ ShellTimesOut

Spec == Init /\ [][Next]_vars
FairSpec == Spec /\ WF_vars(Poll) /\ WF_vars(Ends)

-----------------------------------------------------------------------------
(* A reader that passes on the cursor it was given gets every frame once,  *)
(* in order, unless it is told of a gap (Output::push evicts while it      *)
(* reads; the text of process_poll).                                       *)
NoSilentGap ==
    LET given == [k \in DOMAIN reader.given |-> reader.given[k].cursor]
    IN /\ \A i, j \in DOMAIN given : i < j => given[i] < given[j]
       /\ ~reader.told => given = [k \in 1..reader.cursor |-> k - 1]

(* What shell_run returns for a command that has ended is all of its       *)
(* output, or says so ("run a shell command to completion", `truncated`).  *)
ShellRunComplete == reader.at = "returned" /\ ~reader.told => reader.cursor = next

(* "hasMore means another page is available": a reader that goes on        *)
(* polling an ended process reaches its end.                               *)
PollerSeesEnd == reader.who = "process_poll" => <>[](reader.cursor = next)
=============================================================================
