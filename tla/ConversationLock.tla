--------------------------- MODULE ConversationLock ---------------------------
(***************************************************************************)
(* What `TurnLocks` promises (src-tauri/src/lib.rs:170-174): one model     *)
(* turn at a time per conversation, conversations independent of each      *)
(* other, a turn in at most one conversation.                              *)
(***************************************************************************)
CONSTANTS Turns, Conversations, NoTurn

VARIABLE owner  \* the turn that runs in each conversation, or NoTurn

Init == owner = [c \in Conversations |-> NoTurn]

Begin(t, c) ==
    /\ owner[c] = NoTurn
    /\ \A d \in Conversations : owner[d] # t
    /\ owner' = [owner EXCEPT ![c] = t]

End(t, c) ==
    /\ owner[c] = t
    /\ owner' = [owner EXCEPT ![c] = NoTurn]

Next == \E t \in Turns, c \in Conversations : Begin(t, c) \/ End(t, c)

Spec == Init /\ [][Next]_owner
=============================================================================
