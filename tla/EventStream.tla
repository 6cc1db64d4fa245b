---------------------------- MODULE EventStream ----------------------------
(* The decoder of server-sent events (SseDecoder of sse.rs) under a network *)
(* that cuts the bytes wherever it likes.  A byte is one of a few symbols;  *)
(* "data" stands for the four letters of the only field the program reads.  *)
EXTENDS Naturals, Sequences, FiniteSets

CONSTANTS
    Bytes,          \* of {"data", "colon", "space", "x", "cr", "lf", "bom"}
    MaxBytes,       \* bound on the bytes of a stream
    MaxEvent        \* 1 MiB

VARIABLES
    wire,           \* the bytes read so far
    at,             \* "between" chunks, "inside" one, or the stream is "refused"
    pending, data, eventSize, skipLf, started,
    events,         \* of the chunk in hand
    delivered       \* those the protocol has been given

vars == <<wire, at, pending, data, eventSize, skipLf, started, events, delivered>>
lines == <<pending, data, eventSize, skipLf, started, events>>

Init ==
    /\ wire = <<>> /\ at = "between"
    /\ pending = <<>> /\ data = <<>> /\ eventSize = 0 /\ skipLf = FALSE /\ started = FALSE
    /\ events = <<>> /\ delivered = <<>>

Without(first, line) == IF line # <<>> /\ Head(line) = first THEN Tail(line) ELSE line

(* Whether a line is of the data field, and its value. *)
IsData(line) ==
    /\ line # <<>> /\ Head(line) = "data"
    /\ Len(line) > 1 => line[2] = "colon"
Value(line) == IF Len(line) > 2 THEN Without("space", SubSeq(line, 3, Len(line))) ELSE <<>>

Line == IF started THEN pending ELSE Without("bom", pending)

Content(b) ==
    /\ b \notin {"cr", "lf"}
    /\ pending' = Append(pending, b) /\ skipLf' = FALSE
    /\ UNCHANGED <<data, started, events>>

LineEnds(b) ==
    /\ b \in {"cr", "lf"}
    /\ skipLf' = (b = "cr") /\ started' = TRUE /\ pending' = <<>>
    /\ CASE Line = <<>> ->
            /\ events' = IF data # <<>> THEN Append(events, data) ELSE events
            /\ data' = <<>>
         [] IsData(Line) -> data' = Append(data, Value(Line)) /\ UNCHANGED events
         [] OTHER -> UNCHANGED <<data, events>>

(* The next byte of the chunk. *)
Push(b) ==
    /\ at \in {"between", "inside"} /\ Len(wire) < MaxBytes
    /\ wire' = Append(wire, b)
    /\ UNCHANGED delivered
    /\ \/ /\ skipLf /\ b = "lf"
          /\ at' = "inside" /\ skipLf' = FALSE
          /\ UNCHANGED <<pending, data, eventSize, started, events>>
       \/ /\ ~(skipLf /\ b = "lf") /\ eventSize < MaxEvent
          /\ at' = "inside"
          /\ Content(b) \/ LineEnds(b)
          /\ eventSize' = IF b \in {"cr", "lf"} /\ Line = <<>> THEN 0 ELSE eventSize + 1
       \/ /\ ~(skipLf /\ b = "lf") /\ eventSize = MaxEvent
          /\ at' = "refused" /\ events' = <<>>
          /\ UNCHANGED <<pending, data, eventSize, skipLf, started>>

(* The CR that ends a chunk is remembered for an LF that opens the next. *)
SkipForgotten == FALSE
SkipAcrossChunks == skipLf

(* The chunk is over: its events go to the protocol. *)
ChunkEnds ==
    /\ at = "inside"
    /\ at' = "between" /\ delivered' = delivered \o events /\ events' = <<>>
    /\ skipLf' = SkipAcrossChunks
    /\ UNCHANGED <<wire, pending, data, eventSize, started>>

(* The server closes the connection; no completion marker came. *)
Closes == at = "between" /\ at' = "refused" /\ UNCHANGED <<wire, lines, delivered>>

Next ==
    \/ \E b \in Bytes : Push(b)
    \/ ChunkEnds
    \/ Closes

Spec == Init /\ [][Next]_vars

-----------------------------------------------------------------------------
(* What a stream of bytes says, read as a whole.  A CR, an LF or both end a *)
(* line, which begins behind the end of another; a blank line ends a block. *)
Ends == {"cr", "lf"}
Breaks == {i \in DOMAIN wire : wire[i] = "cr" \/ (wire[i] = "lf" /\ ~(i > 1 /\ wire[i - 1] = "cr"))}
BeginsAt(i, s) ==
    /\ s \in 1..i
    /\ s > 1 => wire[s - 1] \in Ends
    /\ \A j \in s..i - 1 : wire[j] \notin Ends
LineStart(i) == CHOOSE s \in {t \in 1..i : BeginsAt(i, t)} : TRUE
WholeLine(i) ==
    LET line == SubSeq(wire, LineStart(i), i - 1)
    IN IF LineStart(i) = 1 THEN Without("bom", line) ELSE line
Blanks == {i \in Breaks : WholeLine(i) = <<>>}

(* The n-th of a set of positions. *)
UpTo(S, i) == {j \in S : j <= i}
Nth(S, n) == CHOOSE i \in {j \in S : Cardinality(UpTo(S, j)) = n} : TRUE

(* The lines of data between the last blank one and position i. *)
Fields(i) == {j \in Breaks : j < i /\ IsData(WholeLine(j)) /\ \A b \in Blanks : b < i => b < j}
Block(i) == [n \in 1..Cardinality(Fields(i)) |-> Value(WholeLine(Nth(Fields(i), n)))]
Blocks == {i \in Blanks : Fields(i) # {}}
Meaning == [n \in 1..Cardinality(Blocks) |-> Block(Nth(Blocks, n))]

(* Wherever the network cuts the bytes, the events delivered so far are     *)
(* those of the bytes read so far (push: skip_lf and the BOM across chunks).*)
ChunksDoNotMatter == at = "between" => delivered = Meaning
=============================================================================
