----------------------------- MODULE MCChatTurns -----------------------------
(* Two conversations at once, of which one calls tools: the other takes    *)
(* part with its rounds, its settlement and its place in the shared state. *)
(* A restart ends the exploration: what follows it is that of ChatTurn's   *)
(* own run, since no control outlives the process.                         *)
EXTENDS ChatTurn

CONSTANT Caller

OneCaller ==
    /\ \A c \in Conversations \ {Caller} : turn[c].pc # "calls"
    /\ recovered = {}
==============================================================================
