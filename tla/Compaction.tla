----------------------------- MODULE Compaction -----------------------------
(* Context compaction in one conversation (compaction.rs, prepare_context  *)
(* of chat.rs, the message rows and the cached model history of store.rs,  *)
(* replay of history.rs).  A turn replays the conversation, drops what     *)
(* does not fit, and goes on in rounds; the model's tool and the composer's *)
(* button set the durable checkpoint.  A message is one unit of context; a *)
(* tool call and its result are one message.  The system prompt leads      *)
(* every request and is left out.                                          *)
EXTENDS Naturals, Sequences, FiniteSets

CONSTANTS
    Keep,           \* the kept-turn setting (keep_last)
    Smaller,        \* the windows tried after it, the larger ones first
    ToolKeep,       \* keep_last of the tool's call
    Threshold,      \* messages at which a request is compacted (should_compact)
    Capacity,       \* messages that fit (validate_budget)
    ClockPasses,    \* a row is written after the instants given to rows before it
    MidwayCrashes,  \* the program may die between two restamped rows
    MaxTurns, MaxTools, MaxTime     \* bounds: turns, calls of one turn, instants

VARIABLES
    rows,           \* the messages table in insertion order: [item, stamp, done]
    clock,
    checkpoint,     \* the compaction row: cutoff, artifact, and who set it
    archives,       \* the saved artifacts: the messages each holds
    cache,          \* conversation_model_history: last row, artifact, messages
    phase,          \* where the turn is
    turn,           \* its number
    tools,          \* calls it has made
    buffer,         \* the messages the model is given
    original,       \* the buffer that is being compacted
    window, tokens, \* the window to try, the count that stands
    store           \* who keeps the store's lock: "free" or "button"

table == <<rows, clock>>
saved == <<checkpoint, archives>>
request == <<buffer, original, window, tokens>>
vars == <<table, saved, cache, phase, turn, tools, request, store>>

(* An item is a role, the turn or artifact it belongs to, and its index.   *)
User(n) == <<"user", n, 0>>
Answer(n) == <<"answer", n, 0>>
Tool(n, k) == <<"tool", n, k>>
Notice(a) == <<"notice", a, 0>>
CheckpointNotice(a) == <<"checkpoint", a, 0>>

Role(item) == item[1]
AsUser(item) == Role(item) \in {"user", "checkpoint"}

NoCheckpoint == [cutoff |-> 0, art |-> 0, by |-> "none"]
NoCache == [through |-> 0, art |-> 0, items |-> <<>>]

Init ==
    /\ rows = <<>> /\ clock = 1
    /\ checkpoint = NoCheckpoint /\ archives = <<>> /\ cache = NoCache
    /\ phase = "idle" /\ turn = 0 /\ tools = 0
    /\ buffer = <<>> /\ original = <<>> /\ window = 0 /\ tokens = 0
    /\ store = "free"

-----------------------------------------------------------------------------
(* The n-th last of a set of places, and a sequence at a set of places.     *)
FromLast(P, n) == CHOOSE p \in {q \in P : Cardinality({r \in P : r >= q}) = n} : TRUE
Selected(s, P) == [n \in 1..Cardinality(P) |-> s[FromLast(P, (Cardinality(P) + 1) - n)]]

(* messages(): the rows by time, then by insertion. *)
Earlier(i, j) == rows[i].stamp < rows[j].stamp \/ (rows[i].stamp = rows[j].stamp /\ i < j)
EarlierThan(i) == {j \in DOMAIN rows : Earlier(j, i)}
Stored == [p \in DOMAIN rows |-> CHOOSE i \in {j \in DOMAIN rows : Cardinality(EarlierThan(j)) = p - 1} : TRUE]

(* Rows at the given time, which the clock has reached. *)
Appended(r, now, items) ==
    r \o [i \in DOMAIN items |-> [item |-> items[i], stamp |-> now, done |-> FALSE]]

Instant(now) ==
    /\ now \in clock..MaxTime
    /\ ClockPasses => \A i \in DOMAIN rows : rows[i].stamp <= now
    /\ clock' = now

(* What the model is shown of stored rows: the calls behind an answer row   *)
(* come before it, and only a complete answer is shown.                    *)
Replay ==
    LET s == Stored
        role(p) == Role(rows[s[p]].item)
        after == {p \in DOMAIN s : rows[s[p]].stamp > checkpoint.cutoff}
        shown == {p \in after : role(p) = "answer" => rows[s[p]].done}
        overtakes(p, q) == q < p /\ role(q) = "answer" /\ \A r \in q + 1..p : role(r) = "tool"
        before(p, q) == overtakes(p, q) \/ (p < q /\ ~overtakes(q, p))
        place(n) == CHOOSE p \in shown : Cardinality({q \in shown : before(q, p)}) = n - 1
        head == IF after # DOMAIN s THEN <<CheckpointNotice(checkpoint.art)>> ELSE <<>>
    IN head \o [n \in 1..Cardinality(shown) |-> rows[s[place(n)]].item]

(* The cached history stands for the last row and the checkpoint it was    *)
(* saved under.                                                            *)
CacheServes == rows # <<>> /\ cache.through = Stored[Len(rows)] /\ cache.art = checkpoint.art

History == IF CacheServes THEN cache.items ELSE Replay

-----------------------------------------------------------------------------
(* The places of the stored rows where a turn starts. *)
TurnStarts(s) == {p \in DOMAIN s : Role(rows[s[p]].item) = "user"}

(* kept_boundary: the start of the turn that is so many from the end.      *)
HasBoundary(s, keep) == Cardinality(TurnStarts(s)) > keep
Boundary(s, keep) == FromLast(TurnStarts(s), keep)

Cutoff(s, b) == rows[s[b - 1]].stamp

(* The instants of the kept rows: one that is not after the row before it   *)
(* is put there.                                                           *)
NewStamps(s, b) ==
    LET stamps[p \in b..Len(s)] ==
          LET least == 1 + IF p = b THEN Cutoff(s, b) ELSE stamps[p - 1]
          IN IF rows[s[p]].stamp < least THEN least ELSE rows[s[p]].stamp
    IN stamps

(* A slip: the rows keep their instants. *)
AsStamped(s, b, upTo) == rows

(* The kept rows up to a place are restamped if the first of them has the  *)
(* cutoff's instant.                                                       *)
Restamped(s, b, upTo) ==
    IF rows[s[b]].stamp > Cutoff(s, b) THEN rows
    ELSE LET stamps == NewStamps(s, b)
         IN [i \in DOMAIN rows |->
               IF \E p \in b..upTo : s[p] = i
                 THEN [rows[i] EXCEPT !.stamp = stamps[CHOOSE p \in b..upTo : s[p] = i]]
                 ELSE rows[i]]

MovesOn(s, b) == Cutoff(s, b) > checkpoint.cutoff
Checkpoint(s, b, art, by) == [cutoff |-> Cutoff(s, b), art |-> art, by |-> by]

(* compact_now: the rows before the boundary go to an artifact. *)
CompactNow(keep, by) ==
    LET s == Stored
        b == Boundary(s, keep)
    IN IF ~HasBoundary(s, keep) THEN UNCHANGED <<rows, saved>>
       ELSE /\ rows' = Restamped(s, b, Len(s))
            /\ IF MovesOn(s, b)
                 THEN /\ archives' = Append(archives, {rows[s[p]].item : p \in 1..b - 1})
                      /\ checkpoint' = Checkpoint(s, b, Len(archives'), by)
                 ELSE UNCHANGED saved

(* persist_live_cutoff: the cutoff follows the window; the artifact is the *)
(* one just saved.                                                         *)
PersistLiveCutoff(keep, art) ==
    LET s == Stored
        b == Boundary(s, keep)
    IN IF ~HasBoundary(s, keep) THEN UNCHANGED <<rows, checkpoint>>
       ELSE /\ rows' = Restamped(s, b, Len(s))
            /\ checkpoint' = IF MovesOn(s, b) THEN Checkpoint(s, b, art, "live") ELSE checkpoint

-----------------------------------------------------------------------------
(* plan_compaction: what stays of a buffer and what is dropped.            *)
Draft(b) == CHOOSE i \in DOMAIN b : AsUser(b[i]) /\ \A j \in DOMAIN b : AsUser(b[j]) => j <= i

(* The newest exchange after the draft. *)
NewestExchange(b) == IF Draft(b) < Len(b) THEN Len(b) ELSE Len(b) + 1

HistoryStarts(b) == {i \in 1..Draft(b) - 1 : AsUser(b[i])}

InWindow(b, keep, i) ==
    /\ keep > 0 /\ Cardinality(HistoryStarts(b)) > keep
    /\ FromLast(HistoryStarts(b), keep) <= i

Stays(b, keep, i) ==
    \/ i = Draft(b)
    \/ i >= NewestExchange(b)
    \/ i < Draft(b) /\ InWindow(b, keep, i)

Kept(b, keep, art) ==
    <<Notice(art)>> \o Selected(b, {i \in DOMAIN b : Stays(b, keep, i)})

(* What goes is more than earlier notices. *)
Dropped(b, keep) == {b[i] : i \in {p \in DOMAIN b : ~Stays(b, keep, p)}}
Plans(b, keep) == \E item \in Dropped(b, keep) : Role(item) # "notice"

Narrower == {w \in Smaller : w < Keep}
Windows == <<Keep>> \o [n \in 1..Cardinality(Narrower) |-> FromLast(Narrower, n)]

Compacts(count) == count >= Threshold

StoreFree == store = "free"

-----------------------------------------------------------------------------
(* A message is sent: the history and the draft, which is not stored yet.  *)
Begin ==
    /\ phase = "idle" /\ StoreFree
    /\ turn < MaxTurns /\ turn' = turn + 1
    /\ tools' = 0
    /\ buffer' = Append(History, User(turn'))
    /\ phase' = "count"
    /\ UNCHANGED <<table, saved, cache, original, window, tokens, store>>

Count ==
    /\ phase = "count" /\ StoreFree
    /\ tokens' = Len(buffer)
    /\ original' = buffer
    /\ IF Compacts(tokens') THEN phase' = "window" /\ window' = 1
       ELSE phase' = "fit" /\ UNCHANGED window
    /\ UNCHANGED <<table, saved, cache, turn, tools, buffer, store>>

NextWindow ==
    IF window < Len(Windows) THEN window' = window + 1 /\ UNCHANGED phase
    ELSE phase' = "fit" /\ UNCHANGED window

Keeping == Windows[window]
Helps == Plans(original, Keeping) /\ Len(Kept(original, Keeping, 0)) < tokens

WindowUseless ==
    /\ phase = "window" /\ ~Helps
    /\ NextWindow
    /\ UNCHANGED <<table, saved, cache, turn, tools, buffer, original, tokens, store>>

(* The window is accepted: what is left of the buffer is planned once      *)
(* more, and that plan alone is archived (compact_model_messages).  The    *)
(* notice of the first plan names an artifact that is not saved.           *)
WindowAccepted ==
    /\ phase = "window" /\ StoreFree /\ Helps
    /\ LET first == Kept(original, Keeping, 0)
           art == Len(archives) + 1
           second == Kept(first, Keeping, art)
       IN /\ tokens' = Len(first)
          /\ IF Plans(first, Keeping) /\ Len(second) < Len(first)
               THEN /\ archives' = Append(archives, Dropped(first, Keeping))
                    /\ PersistLiveCutoff(Keeping, art)
                    /\ buffer' = second
               ELSE buffer' = first /\ UNCHANGED <<rows, saved>>
    /\ IF Compacts(tokens') THEN NextWindow ELSE phase' = "fit" /\ UNCHANGED window
    /\ UNCHANGED <<clock, cache, turn, tools, original, store>>

(* The request fits, and a first round stores the draft with an answer row *)
(* (begin_turn).                                                           *)
DraftStored == \E i \in DOMAIN rows : rows[i].item = User(turn)

Generate ==
    /\ phase = "fit" /\ StoreFree /\ tokens <= Capacity
    /\ phase' = "round"
    /\ IF DraftStored THEN UNCHANGED table
       ELSE \E now \in clock..MaxTime :
              Instant(now) /\ rows' = Appended(rows, now, <<User(turn), Answer(turn)>>)
    /\ UNCHANGED <<saved, cache, turn, tools, request, store>>

(* The model calls a tool, compact_conversation or another. *)
CallTool ==
    /\ phase = "round" /\ StoreFree
    /\ tools < MaxTools /\ tools' = tools + 1
    /\ \E now \in clock..MaxTime :
         Instant(now) /\ rows' = Appended(rows, now, <<Tool(turn, tools')>>)
    /\ buffer' = Append(buffer, Tool(turn, tools'))
    /\ phase' \in {"count", "compact"}
    /\ UNCHANGED <<saved, cache, turn, original, window, tokens, store>>

CompactTool ==
    /\ phase = "compact" /\ StoreFree
    /\ CompactNow(ToolKeep, "tool")
    /\ phase' = "count"
    /\ UNCHANGED <<clock, cache, turn, tools, request, store>>

-----------------------------------------------------------------------------
Idle ==
    /\ phase' = "idle"
    /\ buffer' = <<>> /\ original' = <<>> /\ window' = 0 /\ tokens' = 0

(* The answer row is settled, which drops the cached history (a trigger).  *)
AnswerGiven ==
    /\ phase = "round" /\ StoreFree
    /\ rows' = [i \in DOMAIN rows |-> IF rows[i].item = Answer(turn) THEN [rows[i] EXCEPT !.done = TRUE]
                                      ELSE rows[i]]
    /\ cache' = NoCache
    /\ phase' = "answered"
    /\ UNCHANGED <<clock, saved, turn, tools, request, store>>

SaveHistory ==
    /\ phase = "answered" /\ StoreFree
    /\ cache' = [through |-> Len(rows), art |-> checkpoint.art, items |-> Append(buffer, Answer(turn))]
    /\ Idle
    /\ UNCHANGED <<table, saved, turn, tools, store>>

(* The turn is stopped, fails, or its request does not fit. *)
Stopped ==
    /\ phase \in {"count", "window", "fit", "round"} /\ StoreFree
    /\ cache' = IF DraftStored THEN NoCache ELSE cache
    /\ Idle
    /\ UNCHANGED <<table, saved, turn, tools, store>>

(* The button (compact_conversation_cmd).  Once it has compacted it asks   *)
(* for the store's lock again, which it holds: no step of its follows.     *)
Press ==
    /\ StoreFree
    /\ HasBoundary(Stored, Keep) /\ MovesOn(Stored, Boundary(Stored, Keep))
    /\ CompactNow(Keep, "button")
    /\ store' = "button"
    /\ UNCHANGED <<clock, cache, phase, turn, tools, request>>

(* The program dies; the restamping of a compaction may be half done.      *)
HalfRestamped(keep) ==
    /\ MidwayCrashes /\ HasBoundary(Stored, keep)
    /\ \E p \in Boundary(Stored, keep)..Len(Stored) :
         rows' = Restamped(Stored, Boundary(Stored, keep), p)

Crash ==
    /\ phase # "idle" \/ ~StoreFree
    /\ \/ UNCHANGED rows
       \/ phase = "compact" /\ HalfRestamped(ToolKeep)
    /\ store' = "free"
    /\ Idle
    /\ UNCHANGED <<clock, saved, cache, turn, tools>>

TurnStep ==
    \/ Count \/ WindowUseless \/ WindowAccepted \/ Generate \/ CallTool \/ CompactTool
    \/ AnswerGiven \/ SaveHistory \/ Stopped

Next == Begin \/ TurnStep \/ Press \/ Crash

Spec == Init /\ [][Next]_vars
FairSpec == Spec /\ WF_vars(TurnStep)

-----------------------------------------------------------------------------
(* A checkpoint that was asked for names an artifact that holds every      *)
(* message up to its cutoff, whatever instants the rows share              *)
(* (compact_now).                                                          *)
PrefixArchived ==
    checkpoint.by \in {"tool", "button"} =>
        \A i \in DOMAIN rows :
            rows[i].stamp <= checkpoint.cutoff => rows[i].item \in archives[checkpoint.art]

(* A cutoff never separates the messages of one turn ("a tool audit is     *)
(* never separated from the turn that requested it"), through restamped    *)
(* rows, live compactions and calls in the middle of a turn.               *)
TurnsNotSplit ==
    \A i, j \in DOMAIN rows :
        rows[i].item[2] = rows[j].item[2] =>
            (rows[i].stamp <= checkpoint.cutoff <=> rows[j].stamp <= checkpoint.cutoff)

(* What the model is working on survives every compaction of its buffer:   *)
(* the draft and its newest call.                                          *)
CurrentWorkStays ==
    phase \in {"fit", "round"} =>
        /\ \E i \in DOMAIN buffer : buffer[i] = User(turn)
        /\ tools > 0 => \E i \in DOMAIN buffer : buffer[i] = Tool(turn, tools)

(* Compaction loses nothing: the three above.                              *)
ContextHolds == PrefixArchived /\ TurnsNotSplit /\ CurrentWorkStays

(* What a compaction of the buffer dropped can be read back ("only the     *)
(* accepted window archives its dropped messages").                        *)
DroppedIsArchived ==
    phase = "round" =>
        \A i \in DOMAIN original :
            \/ \E k \in DOMAIN buffer : buffer[k] = original[i]
            \/ \E a \in DOMAIN archives : original[i] \in archives[a]

(* After a live checkpoint the next turn replays the turns that stayed in  *)
(* context ("the window is the same one the model just saw").              *)
ReplayIsTheWindow ==
    phase = "round" /\ checkpoint.by = "live" =>
        \A i \in DOMAIN rows :
            Role(rows[i].item) = "user" /\ rows[i].stamp > checkpoint.cutoff =>
                \E k \in DOMAIN buffer : buffer[k] = rows[i].item

(* Whoever takes the store's lock gives it back. *)
StoreComesBack == []<>StoreFree
=============================================================================
