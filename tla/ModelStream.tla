---------------------------- MODULE ModelStream ----------------------------
(* One round of a model's answer as the turn (chat.rs) or a child           *)
(* (collect_stream of subagents.rs) reads it: the events of three           *)
(* protocols, made one by ModelStream (sse.rs) and the Responses Stream,    *)
(* and the tool calls put together from their fragments (tool_calls.rs).    *)
(* The provider is external: it may be cut by its limits, break off, or     *)
(* send its completion marker early, but does not contradict itself.        *)
EXTENDS Naturals, Sequences, SequencesExt, FiniteSets

CONSTANTS
    Backends,       \* of {"openai", "claude", "responses"}
    Styles,         \* how a server names a call: {"once", "repeated", "growing", "split"}
    CutReasons,     \* why a provider stops in the middle
    MaxItems,       \* bound on the items of a round
    MaxFragments,   \* bound on the fragments of one
    MaxTools,       \* 8
    RecoveryLimit   \* OUTPUT_RECOVERY_LIMIT

VARIABLES
    at,             \* "reading", "ended", or what became of the round
    backend, style,
    reader,         \* "turn", "denied" or "finalizing" turn, or "child"
    output,         \* what the provider is saying: its items
    said,           \* its finish reason, or "no", or "cutting"
    fault,          \* what went wrong on the provider's side
    finishSeen,     \* of ModelStream
    indices, hasInput,  \* Claude: tool_indices, tool_has_input
    items,          \* Responses: the items, with what was received of each
    calls, text, finish,
    recoveries

vars == <<at, backend, style, reader, output, said, fault, finishSeen, indices, hasInput,
          items, calls, text, finish, recoveries>>

connection == <<backend, style, reader, recoveries>>
protocol == <<finishSeen, indices, hasInput, items>>
heard == <<calls, text, finish>>
Nothing == <<>>
Put(f, i, value) == [j \in DOMAIN f \cup {i} |-> IF j = i THEN value ELSE f[j]]

Init ==
    /\ at = "reading" /\ recoveries = 0
    /\ output = <<>> /\ said = "no" /\ fault = "none"
    /\ finishSeen = FALSE /\ indices = Nothing /\ hasInput = {} /\ items = Nothing
    /\ calls = Nothing /\ text = <<>> /\ finish = "no"
    /\ backend \in Backends /\ style \in Styles /\ (backend # "openai" => style = "once")
    /\ reader \in {"turn", "denied", "finalizing", "child"}

-----------------------------------------------------------------------------
(* The provider's side: item i has `want` fragments; a call with none has   *)
(* the arguments {}.                                                        *)
Tools == {i \in DOMAIN output : output[i].kind = "tool"}
ToolsBefore(i) == Cardinality({j \in Tools : j < i})
Name(i) == <<<<i, 1>>, <<i, 2>>>>
Fragments(i, from, to) == [n \in 1..(to - from) |-> <<i, from + n, output[i].want>>]
NoArguments == <<0, 0, 0>>
Final(i) ==
    IF output[i].kind = "tool" /\ output[i].want = 0 THEN <<NoArguments>>
    ELSE Fragments(i, 0, IF said = "cutting" THEN output[i].sent ELSE output[i].want)
Whole(i) ==
    /\ output[i].sent = output[i].want
    /\ output[i].kind = "tool" /\ style \in {"growing", "split"} /\ backend = "openai" => output[i].told = 2

(* The part of a call's id and name that a fragment brings. *)
Identity(i, first) ==
    CASE backend # "openai" -> IF first THEN Name(i) ELSE <<>>
      [] style = "once" -> IF first THEN Name(i) ELSE <<>>
      [] style = "repeated" -> Name(i)
      [] style = "growing" -> IF first THEN <<Name(i)[1]>> ELSE Name(i)
      [] style = "split" ->
            IF first THEN <<Name(i)[1]>> ELSE IF output[i].told = 1 THEN <<Name(i)[2]>> ELSE <<>>

-----------------------------------------------------------------------------
(* ToolCalls: the calls by their index.                                     *)
IdentityChanged(target, incoming) == ~IsPrefix(target, incoming) /\ ~IsPrefix(incoming, target)
MergeIdentity(target, incoming) ==
    IF incoming = <<>> \/ incoming = target THEN target
    ELSE IF IsPrefix(target, incoming) THEN incoming
    ELSE target \o incoming

Entry(cs, slot) == IF slot \in DOMAIN cs THEN cs[slot] ELSE [id |-> <<>>, args |-> <<>>]
PushOne(cs, d) ==
    [id |-> MergeIdentity(Entry(cs, d.slot).id, d.id), args |-> Entry(cs, d.slot).args \o d.args]
(* An event's deltas are of different calls: their order does not matter. *)
PushAll(cs, deltas) ==
    [s \in DOMAIN cs \cup {d.slot : d \in deltas} |->
        IF \E d \in deltas : d.slot = s THEN PushOne(cs, CHOOSE d \in deltas : d.slot = s) ELSE cs[s]]
Refused(deltas) ==
    \E d \in deltas : d.slot >= MaxTools \/ IdentityChanged(Entry(calls, d.slot).id, d.id)
Delta(slot, id, args) == [slot |-> slot, id |-> id, args |-> args]

(* JSON: the fragments of one object, or {}. *)
Parses(args) ==
    \/ args = <<NoArguments>>
    \/ args # <<>> /\ \A k \in DOMAIN args : args[k][2] = k /\ args[k][3] = Len(args)
Validated ==
    /\ \A s \in DOMAIN calls : calls[s].id # <<>> /\ Parses(calls[s].args)
    /\ \A s, t \in DOMAIN calls : s # t => calls[s].id # calls[t].id

(* The reading loop takes an event: deltas of calls, text, a finish reason. *)
Hears(deltas, words, reason) ==
    /\ at' = IF Refused(deltas) THEN "refused" ELSE at
    /\ calls' = IF Refused(deltas) THEN calls ELSE PushAll(calls, deltas)
    /\ text' = text \o words
    /\ finish' = IF reason # "no" THEN reason ELSE finish
    /\ finishSeen' = (finishSeen \/ reason # "no")
Crowd(i) == IF output'[i].kind = "tool" /\ ToolsBefore(i) >= MaxTools THEN "crowd" ELSE fault

-----------------------------------------------------------------------------
Reading == at = "reading"
Speaking == Reading /\ said = "no" /\ fault = "none"

NewItem(kind, want, sent) ==
    /\ Speaking /\ Len(output) < MaxItems
    /\ kind = "text" => want > 0 /\ \A i \in DOMAIN output : output[i].kind = "tool"
    /\ output' = Append(output, [kind |-> kind, want |-> want, sent |-> sent, told |-> 1, open |-> TRUE])
    /\ fault' = Crowd(Len(output'))
    /\ UNCHANGED <<said, connection>>
New == Len(output) + 1

(* Claude's blocks count text as well: a tool takes the next tool index. *)
ClaudeStart(kind, want, whole) ==
    /\ backend = "claude"
    /\ whole => kind = "tool" /\ want > 0
    /\ NewItem(kind, want, IF whole THEN want ELSE 0)
    /\ IF kind = "tool"
       THEN /\ Hears({Delta(Cardinality(DOMAIN indices), Name(New),
                              IF whole THEN [n \in 1..want |-> <<New, n, want>>] ELSE <<>>)}, <<>>, "no")
            /\ indices' = Put(indices, New, Cardinality(DOMAIN indices))
            /\ hasInput' = IF whole THEN hasInput \cup {New} ELSE hasInput
       ELSE Hears({}, <<>>, "no") /\ UNCHANGED <<indices, hasInput>>
    /\ UNCHANGED items

OpenaiStart(kind, want) ==
    /\ backend = "openai"
    /\ kind = "tool" => want > 0
    /\ NewItem(kind, want, 0)
    /\ Hears(IF kind = "tool"
             THEN {Delta(Cardinality(Tools), IF style \in {"once", "repeated"} THEN Name(New) ELSE <<Name(New)[1]>>, <<>>)}
             ELSE {}, <<>>, "no")
    /\ UNCHANGED <<indices, hasInput, items>>

(* start of the Responses stream: a function takes the next slot. *)
Slot == Cardinality({i \in DOMAIN items : items[i].kind = "tool"})
Started(kind, slot) == [kind |-> kind, slot |-> slot, got |-> <<>>, done |-> FALSE]

(* response.output_item.added; a provider may leave it to the later events. *)
ResponsesStart(kind, want, added) ==
    /\ backend = "responses"
    /\ added => \A i \in DOMAIN output : i \in DOMAIN items
    /\ NewItem(kind, want, 0)
    /\ Hears(IF kind = "tool" /\ added THEN {Delta(Slot, Name(New), <<>>)} ELSE {}, <<>>, "no")
    /\ items' = IF added THEN Put(items, New, Started(kind, Slot)) ELSE items
    /\ UNCHANGED <<indices, hasInput>>

-----------------------------------------------------------------------------
(* A fragment of item i.                                                    *)
Sends(i) ==
    /\ Speaking /\ output[i].open /\ output[i].sent < output[i].want
    /\ output' = [output EXCEPT ![i].sent = @ + 1, ![i].told = 2]
    /\ UNCHANGED <<said, fault, connection>>
NextFragment(i) == Fragments(i, output[i].sent, output[i].sent + 1)

ClaudeDelta(i) ==
    /\ backend = "claude" /\ Sends(i)
    /\ IF output[i].kind = "tool"
       THEN Hears({Delta(indices[i], <<>>, NextFragment(i))}, <<>>, "no") /\ hasInput' = hasInput \cup {i}
       ELSE Hears({}, NextFragment(i), "no") /\ UNCHANGED hasInput
    /\ UNCHANGED <<indices, items>>

OpenaiDelta(i) ==
    /\ backend = "openai" /\ Sends(i)
    /\ IF output[i].kind = "tool"
       THEN Hears({Delta(ToolsBefore(i), Identity(i, FALSE), NextFragment(i))}, <<>>, "no")
       ELSE Hears({}, NextFragment(i), "no")
    /\ UNCHANGED <<indices, hasInput, items>>

(* argument and part: what is new in the final value. *)
Appended(got, final) == final
Stripped(got, final) == SubSeq(final, Len(got) + 1, Len(final))
Receives(i, new) ==
    /\ items' = [items EXCEPT ![i].got = @ \o new]
    /\ IF output[i].kind = "tool"
       THEN Hears(IF new = <<>> THEN {} ELSE {Delta(items[i].slot, <<>>, new)}, <<>>, "no")
       ELSE Hears({}, new, "no")
    /\ UNCHANGED <<indices, hasInput>>

ResponsesDelta(i) ==
    /\ backend = "responses" /\ i \in DOMAIN items /\ ~items[i].done /\ Sends(i)
    /\ Receives(i, NextFragment(i))

(* ...arguments.done, ...output_text.done: the final value of the part. *)
ResponsesPartDone(i) ==
    /\ backend = "responses" /\ i \in DOMAIN items /\ ~items[i].done
    /\ Speaking /\ output[i].open
    /\ output' = [output EXCEPT ![i].sent = output[i].want, ![i].open = FALSE]
    /\ Receives(i, Stripped(items[i].got, Final(i)))
    /\ UNCHANGED <<said, fault, connection>>

(* finish_item: the item is started if it was not, and its rest taken. *)
Slots(i) == Slot + Cardinality({j \in Tools : j < i /\ j \notin DOMAIN items})
Had(i) == IF i \in DOMAIN items THEN items[i].got ELSE <<>>
FinishItem(i) ==
    IF output[i].kind = "tool"
    THEN {Delta(IF i \in DOMAIN items THEN items[i].slot ELSE Slots(i),
                IF i \in DOMAIN items THEN <<>> ELSE Name(i), Stripped(Had(i), Final(i)))}
    ELSE {}
Finished(i) ==
    [kind |-> output[i].kind, slot |-> IF i \in DOMAIN items THEN items[i].slot ELSE Slots(i),
     got |-> Final(i), done |-> TRUE]
Words(i) == IF output[i].kind = "text" THEN Stripped(Had(i), Final(i)) ELSE <<>>

ResponsesItemDone(i) ==
    /\ backend = "responses" /\ Speaking
    /\ \A j \in 1..(i - 1) : j \in DOMAIN items
    /\ i \in DOMAIN items => ~items[i].done
    /\ output' = [output EXCEPT ![i].sent = output[i].want, ![i].open = FALSE]
    /\ Hears(FinishItem(i), Words(i), "no")
    /\ items' = Put(items, i, Finished(i))
    /\ UNCHANGED <<said, fault, connection, indices, hasInput>>

-----------------------------------------------------------------------------
(* A Claude block ends; one that had no input is given {}.                  *)
AlwaysObject(i) == i \in Tools
EmptyObject(i) == i \in Tools /\ i \notin hasInput
ClaudeStop(i) ==
    /\ backend = "claude" /\ Reading /\ said \in {"no", "cutting"} /\ fault = "none"
    /\ output[i].open /\ (said = "no" => Whole(i))
    /\ output' = [output EXCEPT ![i].open = FALSE]
    /\ Hears(IF EmptyObject(i) THEN {Delta(indices[i], <<>>, <<NoArguments>>)} ELSE {}, <<>>, "no")
    /\ hasInput' = IF i \in Tools THEN hasInput \cup {i} ELSE hasInput
    /\ UNCHANGED <<said, fault, connection, indices, items>>

(* The provider runs into a limit in the middle of its answer. *)
Cut ==
    /\ Speaking
    /\ said' = "cutting"
    /\ UNCHANGED <<at, output, fault, connection, protocol, heard>>

(* The finish reason: honest once everything is said. *)
Reasons ==
    IF said = "cutting" THEN CutReasons
    ELSE IF output # <<>> /\ \A i \in DOMAIN output : Whole(i) /\ (backend = "claude" => ~output[i].open)
    THEN IF Tools = {} THEN {"stop"} ELSE IF backend = "openai" THEN {"tool_calls", "stop"} ELSE {"tool_calls"}
    ELSE {}

Says(reason) ==
    /\ backend # "responses" /\ Reading /\ fault = "none" /\ reason \in Reasons
    /\ said = "cutting" /\ backend = "claude" => \A i \in DOMAIN output : ~output[i].open
    /\ said' = reason /\ Hears({}, <<>>, reason)
    /\ UNCHANGED <<output, fault, connection, indices, hasInput, items>>

(* [DONE] or message_stop; a broken server may send it at any time. *)
Marker ==
    /\ Reading
    /\ at' = IF finishSeen THEN "ended" ELSE "refused"
    /\ fault' = IF said \in {"no", "cutting"} THEN "unfinished" ELSE fault
    /\ UNCHANGED <<output, said, connection, protocol, heard>>

(* response.completed, or response.incomplete: the whole output once more,  *)
(* of which what is unfinished is new. An answer has one text at most.      *)
Unfinished == {i \in DOMAIN output : i \in DOMAIN items => ~items[i].done}
Unread == {i \in Unfinished : output[i].kind = "text"}
ResponsesEnd(reason) ==
    /\ backend = "responses" /\ Reading /\ fault = "none"
    /\ reason \in CutReasons => said = "cutting"
    /\ reason \in {"stop", "tool_calls"} => said = "no" /\ output # <<>> /\ (reason = "stop" <=> Tools = {})
    /\ LET rest == UNION {FinishItem(i) : i \in Unfinished}
       IN IF reason \in {"stop", "tool_calls", "length"} /\ ~Refused(rest)
          THEN /\ calls' = PushAll(calls, rest)
               /\ text' = text \o (IF Unread = {} THEN <<>> ELSE Words(CHOOSE i \in Unread : TRUE))
               /\ finish' = reason /\ finishSeen' = TRUE /\ at' = "ended"
               /\ items' = [i \in DOMAIN output |-> Finished(i)]
          ELSE at' = "refused" /\ UNCHANGED <<heard, finishSeen, items>>
    /\ output' = [i \in DOMAIN output |->
                    IF said = "no" THEN [output[i] EXCEPT !.sent = output[i].want] ELSE output[i]]
    /\ said' = reason
    /\ UNCHANGED <<fault, connection, indices, hasInput>>

(* The connection closes, or the provider reports an error. *)
BreaksOff ==
    /\ Reading
    /\ at' = "refused" /\ fault' = "broken"
    /\ UNCHANGED <<output, said, connection, protocol, heard>>

(* The turn sees the answer repeat itself and stops reading. *)
RepetitionStop ==
    /\ Reading /\ reader # "child" /\ text # <<>> /\ said = "no"
    /\ fault' = "repeats"
    /\ IF DOMAIN calls # {} THEN at' = "refused" /\ UNCHANGED finish ELSE at' = "ended" /\ finish' = "stop"
    /\ UNCHANGED <<output, said, connection, protocol, calls, text>>

Cancelled ==
    /\ Reading
    /\ at' = "cancelled"
    /\ UNCHANGED <<output, said, fault, connection, protocol, heard>>

-----------------------------------------------------------------------------
(* What the reader makes of a round that ended.                             *)
Settles(as) ==
    /\ at' = as
    /\ UNCHANGED <<output, said, fault, connection, protocol, heard>>

(* The response hit its limit: the turn drops it and asks again. *)
Recovers ==
    /\ at = "ended" /\ reader = "turn" /\ finish = "length" /\ recoveries < RecoveryLimit
    /\ at' = "reading" /\ recoveries' = recoveries + 1
    /\ output' = <<>> /\ said' = "no" /\ fault' = "none"
    /\ finishSeen' = FALSE /\ indices' = Nothing /\ hasInput' = {} /\ items' = Nothing
    /\ calls' = Nothing /\ text' = <<>> /\ finish' = "no"
    /\ UNCHANGED <<backend, style, reader>>

AcceptsAll(reason) == TRUE
Accepted(reason) ==
    reason \in {"stop", "tool_calls"} \cup (IF reader = "child" THEN {} ELSE {"refusal"})

Refuses ==
    /\ at = "ended"
    /\ \/ ~Accepted(finish) /\ ~(finish = "length" /\ reader = "turn" /\ recoveries < RecoveryLimit)
       \/ DOMAIN calls # {} /\ (~Validated \/ reader = "denied")
    /\ Settles("refused")

(* A finalizing round records its calls and runs none of them. *)
Suppresses ==
    /\ at = "ended" /\ Accepted(finish) /\ reader = "finalizing" /\ DOMAIN calls # {} /\ Validated
    /\ Settles("suppressed")

Dispatches ==
    /\ at = "ended" /\ Accepted(finish) /\ DOMAIN calls # {} /\ Validated /\ reader \in {"turn", "child"}
    /\ Settles("dispatched")

Answers ==
    /\ at = "ended" /\ Accepted(finish) /\ DOMAIN calls = {}
    /\ Settles("answered")

Starts(kind, want) ==
    \/ \E whole \in BOOLEAN : ClaudeStart(kind, want, whole)
    \/ OpenaiStart(kind, want)
    \/ \E added \in BOOLEAN : ResponsesStart(kind, want, added)

Item(i) ==
    \/ ClaudeDelta(i) \/ OpenaiDelta(i) \/ ResponsesDelta(i)
    \/ ResponsesPartDone(i) \/ ResponsesItemDone(i) \/ ClaudeStop(i)

Next ==
    \/ \E kind \in {"text", "tool"}, want \in 0..MaxFragments : Starts(kind, want)
    \/ \E i \in DOMAIN output : Item(i)
    \/ Cut
    \/ \E reason \in {"stop", "tool_calls"} \cup CutReasons : Says(reason) \/ ResponsesEnd(reason)
    \/ Marker \/ BreaksOff \/ RepetitionStop \/ Cancelled
    \/ Recovers \/ Refuses \/ Suppresses \/ Dispatches \/ Answers

Spec == Init /\ [][Next]_vars

-----------------------------------------------------------------------------
(* Calls run only when the provider finished its answer, and then they are  *)
(* all of its calls, each with its own name and arguments (push, complete,  *)
(* validated, check_finish_reason: "unfinished tools were not executed").   *)
OnlyWholeRounds ==
    at = "dispatched" =>
        /\ said \in {"stop", "tool_calls"}
        /\ DOMAIN calls = 0..(Cardinality(Tools) - 1)
        /\ \A i \in Tools : calls[ToolsBefore(i)] = [id |-> Name(i), args |-> Final(i)]

(* An answer that the provider finished is never refused, and its text is   *)
(* taken once, piece by piece (argument, part, finish_item, merge_identity).*)
WholeRoundsAccepted ==
    /\ at = "refused" /\ fault = "none" => said \in CutReasons \/ reader = "denied"
    /\ at \in {"answered", "dispatched"} /\ fault = "none" =>
        \A i \in DOMAIN output \ Tools : text = Final(i)

(* What runs is exactly what was finished: no part of an answer that broke  *)
(* off, and all of every answer that did not.                               *)
WholeRounds == OnlyWholeRounds /\ WholeRoundsAccepted
=============================================================================
