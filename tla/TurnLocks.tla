------------------------------ MODULE TurnLocks ------------------------------
(***************************************************************************)
(* The per-conversation turn locks of src-tauri/src/lib.rs.                *)
(*                                                                         *)
(* `TurnLocks` is a map from a conversation to an Arc of a mutex, itself   *)
(* behind a std mutex.  `acquire` clones the Arc under the map mutex and   *)
(* tries the conversation's mutex after the map mutex is released;         *)
(* dropping a `TurnGuard` releases the conversation's mutex, drops its     *)
(* Arc, and only then takes the map mutex and removes the entry if the     *)
(* map holds the last reference.  Each of these is a step of its own       *)
(* here, since the async runtime runs turns on several threads.            *)
(***************************************************************************)
EXTENDS FiniteSets

CONSTANTS
    Turns,          \* the calls of `acquire` that may be in flight together
    Conversations,  \* conversation identifiers
    Locks,          \* identities of allocated mutexes (an Arc's address)
    NoLock,         \* no map entry, or no Arc held
    NoConversation  \* a turn that is not in `acquire`, running or dropping

ASSUME DistinctNone == NoLock \notin Locks /\ NoConversation \notin Conversations

VARIABLES
    locks,  \* TurnLocks.locks: the mutex of each conversation, or NoLock
    taken,  \* the mutexes whose single permit is taken
    conv,   \* the conversation each turn asked for
    ref,    \* the Arc clone each turn holds
    pc      \* where each turn is in acquire / its run / TurnGuard::drop

vars == <<locks, taken, conv, ref, pc>>

(* A turn is "trying" with a clone in hand, "refused" when try_lock_owned  *)
(* has failed but its Arc is not dropped yet, "running" while it owns the  *)
(* guard, "unlocked" between the permit's release and the Arc's drop, and  *)
(* "cleanup" between the Arc's drop and the removal of the entry.          *)
Steps == {"idle", "trying", "refused", "running", "unlocked", "cleanup"}

TypeOK ==
    /\ locks \in [Conversations -> Locks \cup {NoLock}]
    /\ taken \in SUBSET Locks
    /\ conv \in [Turns -> Conversations \cup {NoConversation}]
    /\ ref \in [Turns -> Locks \cup {NoLock}]
    /\ pc \in [Turns -> Steps]

Init ==
    /\ locks = [c \in Conversations |-> NoLock]
    /\ taken = {}
    /\ conv = [t \in Turns |-> NoConversation]
    /\ ref = [t \in Turns |-> NoLock]
    /\ pc = [t \in Turns |-> "idle"]

(* A lock nobody refers to: the address a new Arc may get. *)
Fresh(l) ==
    /\ \A c \in Conversations : locks[c] # l
    /\ \A t \in Turns : ref[t] # l

(* Arc::strong_count == 1 for a lock that is in the map. *)
OnlyTheMapHolds(l) == \A t \in Turns : ref[t] # l

(* The block of acquire under the map mutex, when the entry exists ... *)
CloneEntry(t, c) ==
    /\ pc[t] = "idle"
    /\ locks[c] # NoLock
    /\ ref' = [ref EXCEPT ![t] = locks[c]]
    /\ conv' = [conv EXCEPT ![t] = c]
    /\ pc' = [pc EXCEPT ![t] = "trying"]
    /\ UNCHANGED <<locks, taken>>

(* ... and when or_insert_with makes it, with an unlocked mutex. *)
InsertEntry(t, c) ==
    /\ pc[t] = "idle"
    /\ locks[c] = NoLock
    /\ \E l \in Locks :
         /\ Fresh(l)
         /\ locks' = [locks EXCEPT ![c] = l]
         /\ ref' = [ref EXCEPT ![t] = l]
         /\ taken' = taken \ {l}
    /\ conv' = [conv EXCEPT ![t] = c]
    /\ pc' = [pc EXCEPT ![t] = "trying"]

(* try_lock_owned takes the only permit. *)
TakePermit(t) ==
    /\ pc[t] = "trying"
    /\ ref[t] \notin taken
    /\ taken' = taken \cup {ref[t]}
    /\ pc' = [pc EXCEPT ![t] = "running"]
    /\ UNCHANGED <<locks, conv, ref>>

(* try_lock_owned fails: the permit is taken. *)
FailPermit(t) ==
    /\ pc[t] = "trying"
    /\ ref[t] \in taken
    /\ pc' = [pc EXCEPT ![t] = "refused"]
    /\ UNCHANGED <<locks, taken, conv, ref>>

(* The Arc consumed by the failed try_lock_owned is dropped; acquire       *)
(* returns "Another model operation is in progress in this conversation."  *)
ReturnRefusal(t) ==
    /\ pc[t] = "refused"
    /\ ref' = [ref EXCEPT ![t] = NoLock]
    /\ conv' = [conv EXCEPT ![t] = NoConversation]
    /\ pc' = [pc EXCEPT ![t] = "idle"]
    /\ UNCHANGED <<locks, taken>>

(* self.guard.take(): the OwnedMutexGuard releases its permit first ... *)
ReleasePermit(t) ==
    /\ pc[t] = "running"
    /\ taken' = taken \ {ref[t]}
    /\ pc' = [pc EXCEPT ![t] = "unlocked"]
    /\ UNCHANGED <<locks, conv, ref>>

(* ... and then drops its Arc. *)
DropGuardArc(t) ==
    /\ pc[t] = "unlocked"
    /\ ref' = [ref EXCEPT ![t] = NoLock]
    /\ pc' = [pc EXCEPT ![t] = "cleanup"]
    /\ UNCHANGED <<locks, taken, conv>>

(* A slip: the entry removed whatever else refers to it. *)
CleanUpUnchecked(t) ==
    /\ pc[t] = "cleanup"
    /\ locks' = [locks EXCEPT ![conv[t]] = NoLock]
    /\ conv' = [conv EXCEPT ![t] = NoConversation]
    /\ pc' = [pc EXCEPT ![t] = "idle"]
    /\ UNCHANGED <<taken, ref>>

(* The block of TurnGuard::drop under the map mutex. *)
CleanUp(t) ==
    /\ pc[t] = "cleanup"
    /\ locks' = IF locks[conv[t]] # NoLock /\ OnlyTheMapHolds(locks[conv[t]])
                THEN [locks EXCEPT ![conv[t]] = NoLock]
                ELSE locks
    /\ conv' = [conv EXCEPT ![t] = NoConversation]
    /\ pc' = [pc EXCEPT ![t] = "idle"]
    /\ UNCHANGED <<taken, ref>>

Acquire(t) ==
    \/ \E c \in Conversations : CloneEntry(t, c) \/ InsertEntry(t, c)
    \/ TakePermit(t)
    \/ FailPermit(t)
    \/ ReturnRefusal(t)

DropGuard(t) == ReleasePermit(t) \/ DropGuardArc(t) \/ CleanUp(t)

Next == \E t \in Turns : Acquire(t) \/ DropGuard(t)

Spec == Init /\ [][Next]_vars

-----------------------------------------------------------------------------
Running(c) == {t \in Turns : pc[t] = "running" /\ conv[t] = c}

(* "One model turn at a time per conversation" (lib.rs:170): two turns     *)
(* never run in one conversation, even though the entry may be removed     *)
(* and made again while calls of acquire are between their two steps.      *)
MutualExclusion ==
    \A t, u \in Turns :
        pc[t] = "running" /\ pc[u] = "running" /\ conv[t] = conv[u] => t = u

(* acquire refuses a turn only while another turn of the same conversation *)
(* runs: a stale Arc never makes a free conversation look busy.            *)
RefusedOnlyWhenBusy ==
    [][\A t \in Turns : pc[t] = "trying" /\ pc'[t] = "refused"
            => \E u \in Turns \ {t} : pc[u] = "running" /\ conv[u] = conv[t]]_vars

(* lib.rs:172-173: "The per-conversation entry is removed when the turn    *)
(* ends": with no call in flight no entry is left.                         *)
NoEntryLeftBehind ==
    \A c \in Conversations :
        (\A t \in Turns : conv[t] # c) => locks[c] = NoLock

-----------------------------------------------------------------------------
(* The inductive invariant behind the properties: a call in flight holds   *)
(* an Arc exactly until it drops it, the Arc it holds is the map's entry   *)
(* of its conversation (so the entry was not removed under it), two        *)
(* conversations never share a mutex, and a permit is taken exactly by     *)
(* the running turn that holds that mutex.                                 *)
HeldRefIsTheEntry ==
    \A t \in Turns :
        /\ pc[t] # "idle" => conv[t] \in Conversations
        /\ pc[t] \in {"idle", "cleanup"} => ref[t] = NoLock
        /\ pc[t] \notin {"idle", "cleanup"} =>
             ref[t] \in Locks /\ ref[t] = locks[conv[t]]

EntriesDistinct ==
    \A c, d \in Conversations : locks[c] = locks[d] /\ locks[c] # NoLock => c = d

PermitIsHeld ==
    /\ \A t \in Turns : pc[t] = "running" => ref[t] \in taken
    /\ \A l \in taken : \E t \in Turns : pc[t] = "running" /\ ref[t] = l

IInv == TypeOK /\ HeldRefIsTheEntry /\ EntriesDistinct /\ PermitIsHeld /\ MutualExclusion

-----------------------------------------------------------------------------
(* What the locks promise: see ConversationLock.  The owner of a           *)
(* conversation is the turn that runs in it.                               *)
CONSTANT NoTurn
ASSUME NoTurnDistinct == NoTurn \notin Turns

owner == [c \in Conversations |->
            IF Running(c) = {} THEN NoTurn ELSE CHOOSE t \in Turns : t \in Running(c)]

Promise == INSTANCE ConversationLock
PromiseSpec == Promise!Spec
=============================================================================
