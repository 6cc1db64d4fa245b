--------------------------- MODULE MCAccess_proofs ---------------------------
(* Proofs about who may use what.  The turn locks: type correctness, mutual *)
(* exclusion, no spurious refusal, and that they implement ConversationLock. *)
(* A subscription: its session stays refreshable.  The connectors: what the *)
(* hub, the vault, the store and the user know of them agrees, and nobody   *)
(* closes a question of another.  The slots of the language servers: none   *)
(* of an old configuration is used.  The answers of a model: what runs is   *)
(* what was finished.                                                       *)
EXTENDS MCAccess, SequenceTheorems, FiniteSetTheorems, WellFoundedInduction, TLAPS

-----------------------------------------------------------------------------
(* The turn locks *)

(* The initial state satisfies the invariant. *)
LEMMA InitIInv == Init => IInv
BY DistinctNone DEF Init, IInv, TypeOK, Steps, HeldRefIsTheEntry, EntriesDistinct,
   PermitIsHeld, MutualExclusion

(* Every step of acquire and of TurnGuard::drop keeps the invariant. *)
LEMMA NextIInv == IInv /\ [Next]_vars => IInv'
<1> SUFFICES ASSUME IInv, [Next]_vars PROVE IInv'
  OBVIOUS
<1> USE DistinctNone DEF IInv, TypeOK, Steps
<1>1. CASE UNCHANGED vars
  BY <1>1 DEF vars, HeldRefIsTheEntry, EntriesDistinct, PermitIsHeld, MutualExclusion
<1>2. ASSUME NEW t \in Turns, NEW c \in Conversations, CloneEntry(t, c) PROVE IInv'
  <2>1. TypeOK'
    BY <1>2 DEF CloneEntry
  <2>2. HeldRefIsTheEntry'
    BY <1>2 DEF CloneEntry, HeldRefIsTheEntry
  <2>3. EntriesDistinct'
    BY <1>2 DEF CloneEntry, EntriesDistinct
  <2>4. PermitIsHeld'
    BY <1>2 DEF CloneEntry, PermitIsHeld, HeldRefIsTheEntry, EntriesDistinct, MutualExclusion
  <2>5. MutualExclusion'
    BY <1>2 DEF CloneEntry, MutualExclusion
  <2> QED BY <2>1, <2>2, <2>3, <2>4, <2>5
<1>3. ASSUME NEW t \in Turns, NEW c \in Conversations, InsertEntry(t, c) PROVE IInv'
  <2>1. TypeOK'
    BY <1>3 DEF InsertEntry
  <2>2. HeldRefIsTheEntry'
    BY <1>3 DEF InsertEntry, HeldRefIsTheEntry, Fresh
  <2>3. EntriesDistinct'
    BY <1>3 DEF InsertEntry, EntriesDistinct, Fresh
  <2>4. PermitIsHeld'
    BY <1>3 DEF InsertEntry, PermitIsHeld, HeldRefIsTheEntry, EntriesDistinct, MutualExclusion, Fresh
  <2>5. MutualExclusion'
    BY <1>3 DEF InsertEntry, MutualExclusion
  <2> QED BY <2>1, <2>2, <2>3, <2>4, <2>5
<1>4. ASSUME NEW t \in Turns, TakePermit(t) PROVE IInv'
  <2>1. TypeOK'
    BY <1>4 DEF TakePermit, HeldRefIsTheEntry
  <2>2. HeldRefIsTheEntry'
    BY <1>4 DEF TakePermit, HeldRefIsTheEntry
  <2>3. EntriesDistinct'
    BY <1>4 DEF TakePermit, EntriesDistinct
  <2>4. PermitIsHeld'
    BY <1>4 DEF TakePermit, PermitIsHeld, HeldRefIsTheEntry, EntriesDistinct, MutualExclusion
  <2>5. MutualExclusion'
    BY <1>4 DEF TakePermit, MutualExclusion, PermitIsHeld, HeldRefIsTheEntry
  <2> QED BY <2>1, <2>2, <2>3, <2>4, <2>5
<1>5. ASSUME NEW t \in Turns, FailPermit(t) PROVE IInv'
  <2>1. TypeOK'
    BY <1>5 DEF FailPermit
  <2>2. HeldRefIsTheEntry'
    BY <1>5 DEF FailPermit, HeldRefIsTheEntry
  <2>3. EntriesDistinct'
    BY <1>5 DEF FailPermit, EntriesDistinct
  <2>4. PermitIsHeld'
    BY <1>5 DEF FailPermit, PermitIsHeld, HeldRefIsTheEntry, EntriesDistinct, MutualExclusion
  <2>5. MutualExclusion'
    BY <1>5 DEF FailPermit, MutualExclusion
  <2> QED BY <2>1, <2>2, <2>3, <2>4, <2>5
<1>6. ASSUME NEW t \in Turns, ReturnRefusal(t) PROVE IInv'
  <2>1. TypeOK'
    BY <1>6 DEF ReturnRefusal
  <2>2. HeldRefIsTheEntry'
    BY <1>6 DEF ReturnRefusal, HeldRefIsTheEntry
  <2>3. EntriesDistinct'
    BY <1>6 DEF ReturnRefusal, EntriesDistinct
  <2>4. PermitIsHeld'
    BY <1>6 DEF ReturnRefusal, PermitIsHeld, HeldRefIsTheEntry, EntriesDistinct, MutualExclusion
  <2>5. MutualExclusion'
    BY <1>6 DEF ReturnRefusal, MutualExclusion
  <2> QED BY <2>1, <2>2, <2>3, <2>4, <2>5
<1>7. ASSUME NEW t \in Turns, ReleasePermit(t) PROVE IInv'
  <2>1. TypeOK'
    BY <1>7 DEF ReleasePermit
  <2>2. HeldRefIsTheEntry'
    BY <1>7 DEF ReleasePermit, HeldRefIsTheEntry
  <2>3. EntriesDistinct'
    BY <1>7 DEF ReleasePermit, EntriesDistinct
  <2>4. PermitIsHeld'
    BY <1>7 DEF ReleasePermit, PermitIsHeld, HeldRefIsTheEntry, EntriesDistinct, MutualExclusion
  <2>5. MutualExclusion'
    BY <1>7 DEF ReleasePermit, MutualExclusion
  <2> QED BY <2>1, <2>2, <2>3, <2>4, <2>5
<1>8. ASSUME NEW t \in Turns, DropGuardArc(t) PROVE IInv'
  <2>1. TypeOK'
    BY <1>8 DEF DropGuardArc
  <2>2. HeldRefIsTheEntry'
    BY <1>8 DEF DropGuardArc, HeldRefIsTheEntry
  <2>3. EntriesDistinct'
    BY <1>8 DEF DropGuardArc, EntriesDistinct
  <2>4. PermitIsHeld'
    BY <1>8 DEF DropGuardArc, PermitIsHeld, HeldRefIsTheEntry, EntriesDistinct, MutualExclusion
  <2>5. MutualExclusion'
    BY <1>8 DEF DropGuardArc, MutualExclusion
  <2> QED BY <2>1, <2>2, <2>3, <2>4, <2>5
<1>9. ASSUME NEW t \in Turns, CleanUp(t) PROVE IInv'
  <2>1. TypeOK'
    BY <1>9 DEF CleanUp
  <2>2. HeldRefIsTheEntry'
    BY <1>9 DEF CleanUp, HeldRefIsTheEntry, OnlyTheMapHolds
  <2>3. EntriesDistinct'
    BY <1>9 DEF CleanUp, EntriesDistinct
  <2>4. PermitIsHeld'
    BY <1>9 DEF CleanUp, PermitIsHeld, HeldRefIsTheEntry, EntriesDistinct, MutualExclusion
  <2>5. MutualExclusion'
    BY <1>9 DEF CleanUp, MutualExclusion
  <2> QED BY <2>1, <2>2, <2>3, <2>4, <2>5
<1> QED BY <1>1, <1>2, <1>3, <1>4, <1>5, <1>6, <1>7, <1>8, <1>9 DEF Next, Acquire, DropGuard

(* The invariant holds of every reachable state. *)
THEOREM Invariance == Spec => []IInv
BY InitIInv, NextIInv, PTL DEF Spec

(* The variables keep their types. *)
THEOREM TypeCorrect == Spec => []TypeOK
BY Invariance, PTL DEF IInv

(* One model turn at a time per conversation. *)
THEOREM OneTurnPerConversation == Spec => []MutualExclusion
BY Invariance, PTL DEF IInv

(* A turn is refused only while another one runs in its conversation. *)
THEOREM NoSpuriousRefusal == Spec => RefusedOnlyWhenBusy
<1>1. IInv /\ [Next]_vars =>
        [\A t \in Turns : pc[t] = "trying" /\ pc'[t] = "refused"
            => \E u \in Turns \ {t} : pc[u] = "running" /\ conv[u] = conv[t]]_vars
  <2> SUFFICES ASSUME IInv, Next,
                      NEW t \in Turns, pc[t] = "trying", pc'[t] = "refused"
               PROVE  \E u \in Turns \ {t} : pc[u] = "running" /\ conv[u] = conv[t]
    OBVIOUS
  <2>1. FailPermit(t)
    BY DEF Next, Acquire, DropGuard, CloneEntry, InsertEntry, TakePermit, FailPermit,
           ReturnRefusal, ReleasePermit, DropGuardArc, CleanUp, IInv, TypeOK, Steps
  <2>2. PICK u \in Turns : pc[u] = "running" /\ ref[u] = ref[t]
    BY <2>1 DEF FailPermit, IInv, PermitIsHeld
  <2>3. conv[u] = conv[t]
    BY <2>1, <2>2, DistinctNone DEF FailPermit, IInv, HeldRefIsTheEntry, EntriesDistinct
  <2> QED BY <2>2, <2>3
<1> QED BY <1>1, Invariance, PTL DEF Spec, RefusedOnlyWhenBusy

(* The owner of a conversation is the one turn that runs in it. *)
LEMMA OwnerRuns ==
    IInv => /\ \A c \in Conversations, t \in Turns : owner[c] = t <=> t \in Running(c)
            /\ \A c \in Conversations : owner[c] = NoTurn <=> Running(c) = {}
<1> SUFFICES ASSUME IInv, NEW c \in Conversations
             PROVE  /\ \A t \in Turns : owner[c] = t <=> t \in Running(c)
                    /\ owner[c] = NoTurn <=> Running(c) = {}
  OBVIOUS
<1>1. CASE Running(c) = {}
  BY <1>1, NoTurnDistinct DEF owner
<1>2. CASE Running(c) # {}
  <2>1. PICK t \in Turns : t \in Running(c)
    BY <1>2 DEF Running
  <2>2. \A u \in Turns : u \in Running(c) => u = t
    BY <2>1 DEF IInv, MutualExclusion, Running
  <2>3. owner[c] = CHOOSE u \in Turns : u \in Running(c)
    BY <1>2 DEF owner
  <2>4. owner[c] = t
    BY <2>1, <2>2, <2>3
  <2> QED BY <2>1, <2>2, <2>4, <1>2, NoTurnDistinct
<1> QED BY <1>1, <1>2

(* The lock map implements ConversationLock: taking the permit begins a    *)
(* turn, releasing it ends the turn, every other step leaves owners alone. *)
THEOREM ImplementsPromise == Spec => PromiseSpec
<1>1. Init => Promise!Init
  BY DEF Init, Promise!Init, owner, Running
<1>2. IInv /\ [Next]_vars => [Promise!Next]_owner
  <2> SUFFICES ASSUME IInv, [Next]_vars PROVE [Promise!Next]_owner
    OBVIOUS
  <2>1. \A c \in Conversations :
          /\ \A t \in Turns : owner[c] = t <=> t \in Running(c)
          /\ owner[c] = NoTurn <=> Running(c) = {}
    BY OwnerRuns
  <2>2. ASSUME NEW c \in Conversations, Running(c)' = Running(c) PROVE owner'[c] = owner[c]
    BY <2>2 DEF owner
  <2>3. ASSUME \A c \in Conversations : Running(c)' = Running(c) PROVE UNCHANGED owner
    <3>1. owner = [c \in Conversations |-> owner[c]] /\ owner' = [c \in Conversations |-> owner'[c]]
      BY DEF owner
    <3>2. \A c \in Conversations : owner'[c] = owner[c]
      BY <2>2, <2>3
    <3> QED BY <3>1, <3>2
  <2>4. ASSUME NEW t \in Turns, pc[t] # "running", pc'[t] # "running",
               \A u \in Turns \ {t} : pc'[u] = pc[u] /\ conv'[u] = conv[u]
        PROVE  UNCHANGED owner
    BY <2>3, <2>4 DEF Running
  <2>5. ASSUME NEW t \in Turns, TakePermit(t) PROVE Promise!Begin(t, conv[t])
    <3>1. PICK c \in Conversations : c = conv[t] /\ ref[t] = locks[c] /\ ref[t] \in Locks
      BY <2>5 DEF TakePermit, IInv, HeldRefIsTheEntry
    <3>2. Running(c) = {}
      BY <2>5, <3>1 DEF TakePermit, IInv, HeldRefIsTheEntry, PermitIsHeld, Running
    <3>3. \A d \in Conversations : owner[d] # t
      <4>1. \A d \in Conversations : t \notin Running(d)
        BY <2>5 DEF TakePermit, Running
      <4> QED BY <2>1, <2>5, <4>1
    <3>4. \A d \in Conversations \ {c} : Running(d)' = Running(d)
      BY <2>5, <3>1 DEF TakePermit, Running, IInv, TypeOK
    <3>5. Running(c)' = {t}
      BY <2>5, <3>1, <3>2 DEF TakePermit, Running, IInv, TypeOK
    <3>6. owner'[c] = t
      BY <3>1, <3>5, NoTurnDistinct DEF owner
    <3>7. owner' = [owner EXCEPT ![c] = t]
      BY <2>2, <3>1, <3>4, <3>6, ZenonT(60) DEF owner
    <3> QED BY <2>1, <3>1, <3>2, <3>3, <3>7 DEF Promise!Begin
  <2>6. ASSUME NEW t \in Turns, ReleasePermit(t) PROVE Promise!End(t, conv[t])
    <3>1. PICK c \in Conversations : c = conv[t] /\ t \in Running(c)
      BY <2>6 DEF ReleasePermit, IInv, HeldRefIsTheEntry, Running
    <3>2. \A d \in Conversations \ {c} : Running(d)' = Running(d)
      BY <2>6, <3>1 DEF ReleasePermit, Running, IInv, TypeOK
    <3>3. Running(c)' = {}
      BY <2>6, <3>1 DEF ReleasePermit, Running, IInv, TypeOK, MutualExclusion
    <3>4. owner'[c] = NoTurn
      BY <3>1, <3>3 DEF owner
    <3>5. owner' = [owner EXCEPT ![c] = NoTurn]
      <4>1. \A d \in Conversations \ {c} : owner'[d] = owner[d]
        BY <2>2, <3>2
      <4>2. owner' = [d \in Conversations |-> owner'[d]] /\ owner = [d \in Conversations |-> owner[d]]
        BY DEF owner
      <4> QED BY <3>1, <3>4, <4>1, <4>2
    <3>6. owner[c] = t
      BY <2>1, <2>6, <3>1
    <3> QED BY <3>1, <3>5, <3>6 DEF Promise!End
  <2>7. CASE UNCHANGED vars
    BY <2>7 DEF vars, owner, Running
  <2>8. ASSUME NEW t \in Turns, \/ \E c \in Conversations : CloneEntry(t, c) \/ InsertEntry(t, c)
                               \/ FailPermit(t) \/ ReturnRefusal(t)
                               \/ DropGuardArc(t) \/ CleanUp(t)
        PROVE  UNCHANGED owner
    BY <2>4, <2>8 DEF CloneEntry, InsertEntry, FailPermit, ReturnRefusal, DropGuardArc, CleanUp,
                      IInv, TypeOK
  <2>9. ASSUME NEW t \in Turns, TakePermit(t) \/ ReleasePermit(t)
        PROVE  conv[t] \in Conversations
    BY <2>9 DEF TakePermit, ReleasePermit, IInv, HeldRefIsTheEntry
  <2> QED BY <2>5, <2>6, <2>7, <2>8, <2>9 DEF Next, Acquire, DropGuard, Promise!Next
<1> QED BY <1>1, <1>2, Invariance, PTL DEF Spec, PromiseSpec, Promise!Spec

-----------------------------------------------------------------------------
(* The session of a subscription *)

Records == [account : Accounts \cup {"none"}, refresh : Nat, expiry : {"gone", "near", "far", "never"}]

LoginType ==
    /\ vault \in Records
    /\ seekers \in [Login!Seekers ->
         [at : {"idle", "asking", "accepted", "refused", "token", "ready"}, sent : Nat,
          held : Records, account : Accounts \cup {"none"}]]
    /\ rotates \in BOOLEAN /\ issued \in Nat \ {0} /\ valid \subseteq Nat

(* No token is known that was not issued. *)
AllIssued ==
    /\ valid \subseteq 0..issued /\ vault.refresh <= issued
    /\ \A s \in Login!Seekers : seekers[s].held.refresh <= issued

Brought(s) == seekers[s].at = "accepted"

(* What an answer brought and nobody has saved yet is good, and where the   *)
(* provider gives successors, nobody else has it.                           *)
BroughtIsGood ==
    \A s \in Login!Seekers : Brought(s) => seekers[s].held.refresh \in valid

BroughtIsOwn ==
    rotates => \A s \in Login!Seekers : Brought(s) =>
        /\ seekers[s].held.refresh \notin {0, 1, vault.refresh}
        /\ \A t \in Login!Seekers \ {s} :
             seekers[t].at \in {"asking", "accepted"} =>
                 seekers[t].held.refresh # seekers[s].held.refresh

LoginInv == LoginType /\ AllIssued /\ BroughtIsGood /\ BroughtIsOwn /\ StaysRefreshable

LEMMA InitLogin == AccessInit => LoginInv
<1> SUFFICES ASSUME Login!Init PROVE LoginInv
  BY DEF AccessInit
<1> USE DEF Login!Init, Login!Idle, Login!Gone
<1>1. LoginType /\ AllIssued
  BY DEF LoginType, Records, AllIssued
<1>2. BroughtIsGood /\ BroughtIsOwn /\ StaysRefreshable
  BY DEF BroughtIsGood, BroughtIsOwn, Brought, StaysRefreshable, Login!StaysRefreshable
<1> QED BY <1>1, <1>2 DEF LoginInv

(* A sign-in or an import keeps it. *)
LEMMA LoginReplaced ==
    ASSUME LoginInv, UNCHANGED <<rotates, seekers>>,
           NEW A \in SUBSET (Accounts \cup {"none"}), NEW O \in SUBSET {0, 1},
           NEW E \in SUBSET {"near", "far", "never"}, Login!Replace(A, O, E)
    PROVE  LoginInv'
<1> USE DEF LoginInv
<1>1. PICK a \in A, e \in E, r \in O \cup {issued + 1} :
        /\ vault' = [account |-> a, refresh |-> r, expiry |-> e]
        /\ \/ /\ r \in O /\ UNCHANGED <<valid, issued>>
              /\ lost' = IF r \in valid \cup {0} THEN lost ELSE lost \cup {r}
           \/ /\ r = issued + 1 /\ issued' = issued + 1 /\ valid' = valid \cup {issued'}
              /\ UNCHANGED lost
  BY DEF Login!Replace
<1>0. issued \in Nat \ {0} /\ r \in Nat
  BY DEF LoginType
<1>2. LoginType'
  <2>1. vault' \in Records
    BY <1>0, <1>1 DEF Records
  <2>2. valid' = valid \/ valid' = valid \cup {issued'}
    BY <1>1
  <2>3. issued' = issued \/ issued' = issued + 1
    BY <1>1
  <2>4. issued' \in Nat \ {0}
    BY <1>0, <2>3
  <2>5. valid' \subseteq Nat
    BY <2>2, <2>4 DEF LoginType
  <2> QED BY <2>1, <2>4, <2>5 DEF LoginType
<1>3. AllIssued'
  <2>1. issued <= issued' /\ r <= issued' /\ issued' \in Nat /\ vault'.refresh = r
    BY <1>0, <1>1
  <2>4. valid' = valid \/ valid' = valid \cup {issued'}
    BY <1>1
  <2>2. valid' \subseteq 0..issued'
    <3>1. \A x \in valid : x \in 0..issued /\ x \in 0..issued'
      BY <1>0, <2>1 DEF LoginType, AllIssued
    <3>2. issued' \in 0..issued'
      BY <2>1
    <3> QED BY <2>4, <3>1, <3>2
  <2>3. \A s \in Login!Seekers : seekers'[s].held.refresh <= issued'
    BY <1>0, <2>1 DEF LoginType, AllIssued, Records
  <2> QED BY <2>1, <2>2, <2>3 DEF AllIssued
<1>4. BroughtIsGood'
  BY <1>1 DEF BroughtIsGood, Brought
<1>5. BroughtIsOwn'
  BY <1>1 DEF BroughtIsOwn, Brought, LoginType, AllIssued, Records
<1>6. StaysRefreshable'
  BY <1>1 DEF StaysRefreshable, Login!StaysRefreshable
<1> QED BY <1>2, <1>3, <1>4, <1>5, <1>6

(* Every step of a seeker, of a sign-in and of the user keeps it. *)
LEMMA LoginStepInv == ASSUME LoginInv, Login!Next PROVE LoginInv'
<1> USE DEF LoginInv, Login!Idle, Login!Gone
<1>1. ASSUME NEW s \in Login!Seekers, Login!Seek(s) PROVE LoginInv'
  <2> USE <1>1 DEF Login!Seek
  <2>1. LoginType' /\ AllIssued'
    BY DEF LoginType, Records, AllIssued
  <2>2. BroughtIsGood'
    BY DEF LoginType, Records, AllIssued, BroughtIsGood, BroughtIsOwn, Brought
  <2>3. BroughtIsOwn'
    BY DEF LoginType, Records, AllIssued, BroughtIsGood, BroughtIsOwn, Brought
  <2>4. StaysRefreshable'
    BY DEF LoginType, Records, BroughtIsGood, Brought, StaysRefreshable, Login!StaysRefreshable
  <2> QED BY <2>1, <2>2, <2>3, <2>4
<1>2. ASSUME NEW s \in Login!Seekers, Login!Accepted(s) PROVE LoginInv'
  <2> DEFINE used == seekers[s].held.refresh
             next == IF rotates THEN issued + 1 ELSE used
  <2>1. PICK e \in {"far", seekers[s].held.expiry} :
          seekers' = [seekers EXCEPT ![s] =
            [@ EXCEPT !.at = "accepted", !.sent = used, !.held.refresh = next, !.held.expiry = e]]
    BY <1>2 DEF Login!Accepted
  <2>2. /\ seekers[s].at = "asking" /\ used \in valid
        /\ UNCHANGED <<vault, rotates, lost>>
        /\ issued' = IF rotates THEN next ELSE issued
        /\ valid' = IF rotates THEN (valid \ {used}) \cup {next} ELSE valid
    BY <1>2 DEF Login!Accepted
  <2>3. /\ \A t \in Login!Seekers \ {s} : seekers'[t] = seekers[t]
        /\ seekers'[s].at = "accepted" /\ seekers'[s].sent = used /\ seekers'[s].held.refresh = next
    BY <2>1 DEF LoginType, Records
  <2>4. used \in Nat /\ next \in Nat /\ issued' \in Nat \ {0} /\ issued <= issued' /\ next <= issued'
    BY <2>2 DEF LoginType, Records, AllIssued
  <2>5. LoginType'
    <3>2. seekers' \in [Login!Seekers ->
            [at : {"idle", "asking", "accepted", "refused", "token", "ready"}, sent : Nat,
             held : Records, account : Accounts \cup {"none"}]]
      <4>1. seekers[s] \in [at : {"idle", "asking", "accepted", "refused", "token", "ready"}, sent : Nat,
                             held : Records, account : Accounts \cup {"none"}]
        BY DEF LoginType
      <4>2. [seekers[s] EXCEPT !.at = "accepted", !.sent = used, !.held.refresh = next, !.held.expiry = e]
               \in [at : {"idle", "asking", "accepted", "refused", "token", "ready"}, sent : Nat,
                    held : Records, account : Accounts \cup {"none"}]
        BY <2>4, <4>1 DEF Records
      <4> QED BY <2>1, <4>2 DEF LoginType
    <3>3. valid' \subseteq Nat
      BY <2>2, <2>4 DEF LoginType
    <3> QED BY <2>2, <2>4, <3>2, <3>3 DEF LoginType
  <2>6. AllIssued'
    <3>0. valid' \subseteq valid \cup {issued'}
      BY <2>2
    <3>1. valid' \subseteq 0..issued'
      BY <2>4, <3>0 DEF AllIssued, LoginType
    <3>2. vault'.refresh <= issued'
      BY <2>2, <2>4 DEF AllIssued, LoginType, Records
    <3>3. \A t \in Login!Seekers : seekers'[t].held.refresh <= issued'
      BY <2>3, <2>4 DEF AllIssued, LoginType, Records
    <3> QED BY <3>1, <3>2, <3>3 DEF AllIssued
  <2>7. BroughtIsGood'
    BY <2>2, <2>3 DEF BroughtIsGood, BroughtIsOwn, Brought
  <2>8. BroughtIsOwn'
    BY <2>2, <2>3, <2>4 DEF BroughtIsOwn, Brought, AllIssued, LoginType, Records
  <2>9. StaysRefreshable'
    BY <2>2, <2>3 DEF StaysRefreshable, Login!StaysRefreshable
  <2> QED BY <2>5, <2>6, <2>7, <2>8, <2>9
<1>3. ASSUME NEW s \in Login!Seekers, Login!Refused(s) PROVE LoginInv'
  <2> USE <1>3 DEF Login!Refused
  <2>1. LoginType' /\ AllIssued'
    BY DEF LoginType, Records, AllIssued
  <2>2. BroughtIsGood'
    BY DEF LoginType, Records, AllIssued, BroughtIsGood, BroughtIsOwn, Brought
  <2>3. BroughtIsOwn'
    BY DEF LoginType, Records, AllIssued, BroughtIsGood, BroughtIsOwn, Brought
  <2>4. StaysRefreshable'
    BY DEF LoginType, Records, BroughtIsGood, Brought, StaysRefreshable, Login!StaysRefreshable
  <2> QED BY <2>1, <2>2, <2>3, <2>4
<1>4. ASSUME NEW s \in Login!Seekers, Login!Unanswered(s) PROVE LoginInv'
  <2> USE <1>4 DEF Login!Unanswered
  <2>1. LoginType' /\ AllIssued'
    BY DEF LoginType, Records, AllIssued
  <2>2. BroughtIsGood'
    BY DEF LoginType, Records, AllIssued, BroughtIsGood, BroughtIsOwn, Brought
  <2>3. BroughtIsOwn'
    BY DEF LoginType, Records, AllIssued, BroughtIsGood, BroughtIsOwn, Brought
  <2>4. StaysRefreshable'
    BY DEF LoginType, Records, BroughtIsGood, Brought, StaysRefreshable, Login!StaysRefreshable
  <2> QED BY <2>1, <2>2, <2>3, <2>4
<1>5. ASSUME NEW s \in Login!Seekers, Login!Refreshed(s) PROVE LoginInv'
  <2>1. /\ seekers[s].at \in {"accepted", "refused"}
        /\ seekers' = [seekers EXCEPT ![s].at = "token", ![s].sent = 0]
        /\ UNCHANGED <<rotates, signin, valid, issued>>
        /\ \/ Brought(s) /\ vault' = seekers[s].held /\ UNCHANGED lost
           \/ Brought(s) /\ lost' = lost \cup {seekers[s].sent} /\ UNCHANGED vault
           \/ ~Brought(s) /\ UNCHANGED <<vault, lost>>
    BY <1>5 DEF Login!Refreshed, Login!Saves, Brought
  <2>2. /\ \A t \in Login!Seekers \ {s} : seekers'[t] = seekers[t]
        /\ seekers'[s].at = "token" /\ seekers'[s].held = seekers[s].held
        /\ s \in Login!Seekers
    BY <2>1 DEF LoginType
  <2>3. LoginType'
    BY <2>1 DEF LoginType
  <2>4. AllIssued'
    BY <2>1, <2>2 DEF AllIssued, LoginType
  <2>8. rotates' = rotates /\ valid' = valid /\ vault' \in {vault, seekers[s].held}
    BY <2>1
  <2>9. vault' = vault \/ (Brought(s) /\ vault' = seekers[s].held)
    BY <2>1 DEF Brought
  <2>5. BroughtIsGood'
    BY <2>2, <2>8 DEF BroughtIsGood, Brought
  <2>6. BroughtIsOwn'
    BY <2>2, <2>8, <2>9 DEF BroughtIsOwn, Brought
  <2>7. StaysRefreshable'
    BY <2>1, <2>2 DEF StaysRefreshable, Login!StaysRefreshable, BroughtIsGood, Brought
  <2> QED BY <2>3, <2>4, <2>5, <2>6, <2>7
<1>6. ASSUME NEW s \in Login!Seekers, Login!ReadAccount(s) PROVE LoginInv'
  <2> USE <1>6 DEF Login!ReadAccount
  <2>1. LoginType' /\ AllIssued'
    <3>1. LoginType'
      <4>1. vault.account \in Accounts \cup {"none"}
        BY DEF LoginType, Records
      <4> QED BY <4>1 DEF LoginType
    <3> QED BY <3>1 DEF LoginType, AllIssued
  <2>2. BroughtIsGood'
    BY DEF LoginType, Records, AllIssued, BroughtIsGood, BroughtIsOwn, Brought
  <2>3. BroughtIsOwn'
    BY DEF LoginType, Records, AllIssued, BroughtIsGood, BroughtIsOwn, Brought
  <2>4. StaysRefreshable'
    BY DEF LoginType, Records, BroughtIsGood, Brought, StaysRefreshable, Login!StaysRefreshable
  <2> QED BY <2>1, <2>2, <2>3, <2>4
<1>7. ASSUME NEW s \in Login!Seekers, Login!Ends(s) PROVE LoginInv'
  <2> USE <1>7 DEF Login!Ends
  <2>1. LoginType' /\ AllIssued'
    BY DEF LoginType, Records, AllIssued
  <2>2. BroughtIsGood'
    BY DEF LoginType, Records, AllIssued, BroughtIsGood, BroughtIsOwn, Brought
  <2>3. BroughtIsOwn'
    BY DEF LoginType, Records, AllIssued, BroughtIsGood, BroughtIsOwn, Brought
  <2>4. StaysRefreshable'
    BY DEF LoginType, Records, BroughtIsGood, Brought, StaysRefreshable, Login!StaysRefreshable
  <2> QED BY <2>1, <2>2, <2>3, <2>4
<1>8. ASSUME Login!SignIn PROVE LoginInv'
  <2> USE <1>8 DEF Login!SignIn
  <2>1. LoginType' /\ AllIssued'
    BY DEF LoginType, Records, AllIssued
  <2>2. BroughtIsGood'
    BY DEF LoginType, Records, AllIssued, BroughtIsGood, BroughtIsOwn, Brought
  <2>3. BroughtIsOwn'
    BY DEF LoginType, Records, AllIssued, BroughtIsGood, BroughtIsOwn, Brought
  <2>4. StaysRefreshable'
    BY DEF LoginType, Records, BroughtIsGood, Brought, StaysRefreshable, Login!StaysRefreshable
  <2> QED BY <2>1, <2>2, <2>3, <2>4
<1>9. ASSUME Login!CodeArrives PROVE LoginInv'
  <2> USE <1>9 DEF Login!CodeArrives
  <2>1. LoginType' /\ AllIssued'
    BY DEF LoginType, Records, AllIssued
  <2>2. BroughtIsGood'
    BY DEF LoginType, Records, AllIssued, BroughtIsGood, BroughtIsOwn, Brought
  <2>3. BroughtIsOwn'
    BY DEF LoginType, Records, AllIssued, BroughtIsGood, BroughtIsOwn, Brought
  <2>4. StaysRefreshable'
    BY DEF LoginType, Records, BroughtIsGood, Brought, StaysRefreshable, Login!StaysRefreshable
  <2> QED BY <2>1, <2>2, <2>3, <2>4
<1>10. ASSUME Login!SignInFails PROVE LoginInv'
  <2> USE <1>10 DEF Login!SignInFails
  <2>1. LoginType' /\ AllIssued'
    BY DEF LoginType, Records, AllIssued
  <2>2. BroughtIsGood'
    BY DEF LoginType, Records, AllIssued, BroughtIsGood, BroughtIsOwn, Brought
  <2>3. BroughtIsOwn'
    BY DEF LoginType, Records, AllIssued, BroughtIsGood, BroughtIsOwn, Brought
  <2>4. StaysRefreshable'
    BY DEF LoginType, Records, BroughtIsGood, Brought, StaysRefreshable, Login!StaysRefreshable
  <2> QED BY <2>1, <2>2, <2>3, <2>4
<1>11. CASE Login!SignedIn
  BY <1>11, LoginReplaced DEF Login!SignedIn
<1>12. CASE Login!Import
  BY <1>12, LoginReplaced DEF Login!Import
<1>13. ASSUME Login!Disconnect PROVE LoginInv'
  <2> USE <1>13 DEF Login!Disconnect
  <2>1. LoginType' /\ AllIssued'
    BY DEF LoginType, Records, AllIssued
  <2>2. BroughtIsGood'
    BY DEF LoginType, Records, AllIssued, BroughtIsGood, BroughtIsOwn, Brought
  <2>3. BroughtIsOwn'
    BY DEF LoginType, Records, AllIssued, BroughtIsGood, BroughtIsOwn, Brought
  <2>4. StaysRefreshable'
    BY DEF LoginType, Records, BroughtIsGood, Brought, StaysRefreshable, Login!StaysRefreshable
  <2> QED BY <2>1, <2>2, <2>3, <2>4
<1>14. ASSUME Login!Expires PROVE LoginInv'
  <2> USE <1>14 DEF Login!Expires
  <2>1. LoginType' /\ AllIssued'
    BY DEF LoginType, Records, AllIssued
  <2>2. BroughtIsGood'
    BY DEF LoginType, Records, AllIssued, BroughtIsGood, BroughtIsOwn, Brought
  <2>3. BroughtIsOwn'
    BY DEF LoginType, Records, AllIssued, BroughtIsGood, BroughtIsOwn, Brought
  <2>4. StaysRefreshable'
    BY DEF LoginType, Records, BroughtIsGood, Brought, StaysRefreshable, Login!StaysRefreshable
  <2> QED BY <2>1, <2>2, <2>3, <2>4
<1> QED BY <1>1, <1>2, <1>3, <1>4, <1>5, <1>6, <1>7, <1>8, <1>9, <1>10, <1>11, <1>12, <1>13, <1>14 DEF Login!Next

(* Steps of the others leave the session alone. *)
LEMMA LoginOrNot ==
    ASSUME [AccessNext]_everything PROVE Login!Next \/ UNCHANGED login
BY DEF AccessNext, LockStep, SourceStep, LoginStep, InputStep, SlotStep, StreamStep, Rests, everything

(* A session that can be refreshed stays so, for any number of turns,       *)
(* tests, probes and tokens, whether or not the provider gives successors   *)
(* (refresh_subscription_token).                                            *)
THEOREM SessionStays == AccessSpec => []StaysRefreshable
<1>1. LoginInv /\ [AccessNext]_everything => LoginInv'
  <2> SUFFICES ASSUME LoginInv, [AccessNext]_everything PROVE LoginInv'
    OBVIOUS
  <2>1. CASE UNCHANGED login
    BY <2>1 DEF login, LoginInv, LoginType, AllIssued, BroughtIsGood, BroughtIsOwn, Brought,
       StaysRefreshable, Login!StaysRefreshable
  <2> QED BY <2>1, LoginOrNot, LoginStepInv
<1> QED BY <1>1, InitLogin, PTL DEF AccessSpec, LoginInv

-----------------------------------------------------------------------------
(* The connectors *)

Links == [of : Sources!Ids, by : Sources!Workers, version : Nat,
          state : {"starting", "up", "over"}, overtaken : BOOLEAN]

Hubs == [connections : [Sources!Ids -> Nat], errors : SUBSET Sources!Ids,
         unconfirmed : SUBSET Sources!Ids]

Jobs == [at : {"idle", "starting", "failed", "up", "signin", "signed"},
         id : Sources!Ids \cup {Sources!Idle.id}, link : Nat, lease : BOOLEAN]

Replies == {"none", "on", "off", "unreachable"}

SourcesType ==
    /\ servers \in [LocalServers -> Nat] /\ versions \in Nat
    /\ todo \subseteq Sources!Ids
    /\ hub \in Hubs
    /\ links \in Seq(Links)
    /\ work \in [Sources!Workers -> Jobs]
    /\ reply \in [Sources!Ids -> Replies]
    /\ running \in BOOLEAN

(* Whoever sets up a session has one of his own, of the connector he is at. *)
SetUpOwned ==
    \A w \in Sources!Workers :
        /\ work[w].at \in {"starting", "up"} <=> work[w].link # 0
        /\ work[w].link # 0 => /\ work[w].link \in 1..Len(links) /\ work[w].id \in Sources!Ids
                               /\ links[work[w].link].of = work[w].id
                               /\ links[work[w].link].by = w
                               /\ hub.connections[work[w].id] # work[w].link
        /\ work[w].at \in {"signin", "signed"} => work[w].id \in OauthPresets
        /\ work[w].at = "failed" => w = 0 /\ work[w].id \in Sources!Ids

HubOwned ==
    \A id \in Sources!Ids : hub.connections[id] # 0 =>
        hub.connections[id] \in 1..Len(links) /\ links[hub.connections[id]].of = id

Kept(n) == hub.connections[links[n].of] = n \/ \E w \in Sources!Workers : work[w].link = n

LivesKept == running => \A n \in 1..Len(links) : links[n].state # "over" => Kept(n)

(* What is kept, in the hub or by whoever sets it up, has what it needs,    *)
(* unless that changed meanwhile.                                           *)
KeptBacked ==
    \A n \in 1..Len(links) : Kept(n) /\ ~links[n].overtaken =>
        /\ links[n].version = Sources!Version(links[n].of)
        /\ links[n].of \in OauthPresets => links[n].of \in accounts

SourcesInv ==
    /\ SourcesType /\ SetUpOwned /\ HubOwned /\ LivesKept /\ KeptBacked
    /\ Sources!OffIsOff /\ Sources!OnIsKept

LEMMA InitSources == AccessInit => SourcesInv
<1> SUFFICES ASSUME Sources!Init PROVE SourcesInv
  BY DEF AccessInit
<1> USE DEF Sources!Init, Sources!Idle, Sources!Ids
<1>1. SourcesType
  BY DEF SourcesType, Links, Hubs, Jobs, Replies
<1>2. SetUpOwned /\ HubOwned /\ LivesKept /\ KeptBacked
  BY DEF SetUpOwned, HubOwned, LivesKept, KeptBacked, Kept
<1>3. Sources!OffIsOff /\ Sources!OnIsKept
  BY DEF Sources!OffIsOff, Sources!OnIsKept
<1> QED BY <1>1, <1>2, <1>3 DEF SourcesInv

(* The invariant says what ConnectionsHold does. *)
LEMMA SourcesHold == SourcesInv => ConnectionsHold
<1> SUFFICES ASSUME SourcesInv PROVE ConnectionsHold
  OBVIOUS
<1> USE DEF SourcesInv
<1>1. DOMAIN links = 1..Len(links)
  BY DEF SourcesType
<1>2. Sources!NoneForgotten
  BY <1>1 DEF Sources!NoneForgotten, Sources!Live, LivesKept, Kept
<1>3. Sources!Backed
  BY <1>1 DEF Sources!Backed, KeptBacked, HubOwned, Kept
<1> QED BY <1>2, <1>3 DEF ConnectionsHold, Sources!ConnectionsHold

-----------------------------------------------------------------------------
(* A table of sessions in which some are over, or overtaken, that were not. *)
SameSessions(ls, ms) ==
    /\ ms \in Seq(Links) /\ Len(ms) = Len(ls)
    /\ \A n \in 1..Len(ls) :
         /\ ms[n].of = ls[n].of /\ ms[n].by = ls[n].by /\ ms[n].version = ls[n].version
         /\ ls[n].overtaken => ms[n].overtaken

Follows(ls, ms) ==
    /\ SameSessions(ls, ms)
    /\ \A n \in 1..Len(ls) : ls[n].state = "over" => ms[n].state = "over"

LEMMA FollowsTrans ==
    ASSUME NEW ls, NEW ms, NEW ns, Follows(ls, ms), Follows(ms, ns) PROVE Follows(ls, ns)
BY DEF Follows, SameSessions

LEMMA CancelledFollows ==
    ASSUME NEW ls \in Seq(Links), NEW n \in 1..Len(ls)
    PROVE  /\ Follows(ls, Sources!Cancelled(ls, n))
           /\ Sources!Cancelled(ls, n)[n].state = "over"
           /\ Sources!Cancelled(ls, n) \in Seq(Links)
<1> DEFINE ms == Sources!Cancelled(ls, n)
<1>1. ls \in [1..Len(ls) -> Links] /\ Len(ls) \in Nat
  BY LenProperties
<1>2. ms \in [1..Len(ls) -> Links] /\ ms[n].state = "over"
  BY <1>1 DEF Sources!Cancelled, Links
<1>3. ms \in Seq(Links) /\ Len(ms) = Len(ls)
  BY <1>1, <1>2, IsASeq, LenProperties
<1>4. \A m \in 1..Len(ls) :
        /\ ms[m].of = ls[m].of /\ ms[m].by = ls[m].by /\ ms[m].version = ls[m].version
        /\ ms[m].overtaken = ls[m].overtaken
        /\ ls[m].state = "over" => ms[m].state = "over"
  BY <1>1 DEF Sources!Cancelled, Links
<1> QED BY <1>2, <1>3, <1>4 DEF Follows, SameSessions

LEMMA OvertakenFollows ==
    ASSUME NEW ls \in Seq(Links), NEW id \in Sources!Ids
    PROVE  /\ Follows(ls, Sources!Overtaken(ls, id))
           /\ \A n \in 1..Len(ls) : ls[n].of = id /\ n # hub.connections[id] =>
                Sources!Overtaken(ls, id)[n].overtaken
<1> DEFINE ms == Sources!Overtaken(ls, id)
<1>1. ls \in [1..Len(ls) -> Links] /\ Len(ls) \in Nat /\ DOMAIN ls = 1..Len(ls)
  BY LenProperties
<1>2. ms \in [1..Len(ls) -> Links]
  BY <1>1 DEF Sources!Overtaken, Links
<1>3. ms \in Seq(Links) /\ Len(ms) = Len(ls)
  BY <1>1, <1>2, IsASeq, LenProperties
<1>4. \A m \in 1..Len(ls) :
        /\ ms[m].of = ls[m].of /\ ms[m].by = ls[m].by /\ ms[m].version = ls[m].version
        /\ ls[m].overtaken => ms[m].overtaken
        /\ ms[m].state = ls[m].state
        /\ ls[m].of = id /\ m # hub.connections[id] => ms[m].overtaken
  BY <1>1 DEF Sources!Overtaken, Links
<1> QED BY <1>3, <1>4 DEF Follows, SameSessions

LEMMA LinkTypes ==
    ASSUME NEW ls \in Seq(Links)
    PROVE  /\ Len(ls) \in Nat /\ DOMAIN ls = 1..Len(ls)
           /\ \A n \in 1..Len(ls) : ls[n] \in Links /\ n \in Nat
BY LenProperties, ElementOfSeq

(* What recording a session leaves. *)
LEMMA InsertedEffect ==
    ASSUME SourcesType, HubOwned, NEW n \in 1..Len(links)
    PROVE  /\ Sources!Inserted(n).hub \in Hubs
           /\ Sources!Inserted(n).hub.connections = [hub.connections EXCEPT ![links[n].of] = n]
           /\ Follows(links, Sources!Inserted(n).links)
           /\ hub.connections[links[n].of] # 0 =>
                Sources!Inserted(n).links[hub.connections[links[n].of]].state = "over"
<1> DEFINE id == links[n].of
           old == hub.connections[id]
<1>1. id \in Sources!Ids /\ n \in Nat
  BY LinkTypes DEF SourcesType, Links
<1>2. Sources!Inserted(n).hub = [hub EXCEPT !.connections[id] = n, !.errors = @ \ {id}]
  BY DEF Sources!Inserted
<1>3. Sources!Inserted(n).hub \in Hubs
      /\ Sources!Inserted(n).hub.connections = [hub.connections EXCEPT ![id] = n]
  <2>1. hub \in Hubs /\ [hub.connections EXCEPT ![id] = n] \in [Sources!Ids -> Nat]
    BY <1>1 DEF SourcesType, Hubs
  <2> QED BY <1>2, <2>1 DEF Hubs
<1>4. CASE old = 0
  <2>1. Sources!Inserted(n).links = links
    BY <1>4 DEF Sources!Inserted
  <2> QED BY <1>3, <1>4, <2>1 DEF Follows, SameSessions, SourcesType
<1>5. CASE old # 0
  <2>1. Sources!Inserted(n).links = Sources!Cancelled(links, old)
    BY <1>5 DEF Sources!Inserted
  <2>2. old \in 1..Len(links)
    BY <1>1, <1>5 DEF HubOwned
  <2> QED BY <1>3, <2>1, <2>2, CancelledFollows DEF SourcesType
<1> QED BY <1>4, <1>5

(* What a disconnect may leave. *)
LEMMA DisconnectedEffect ==
    ASSUME NEW h \in Hubs, NEW ls \in Seq(Links), NEW id \in Sources!Ids, NEW forget \in BOOLEAN,
           h.connections[id] \in 0..Len(ls), NEW d \in Sources!Disconnected(h, ls, id, forget)
    PROVE  /\ d.hub \in Hubs /\ Follows(ls, d.links) /\ d.reply \in Replies \ {"on"}
           /\ \A j \in Sources!Ids \ {id} : d.hub.connections[j] = h.connections[j]
           /\ \/ /\ d.hub.connections[id] = h.connections[id]
                 /\ d.reply = "off" => h.connections[id] = 0
              \/ /\ d.hub.connections[id] = 0 /\ h.connections[id] # 0
                 /\ d.links[h.connections[id]].state = "over"
<1> DEFINE asked == [h EXCEPT !.errors = @ \ {id}]
           n == h.connections[id]
           without == [asked EXCEPT !.connections[id] = 0]
<1>1. asked \in Hubs /\ asked.connections = h.connections
  BY DEF Hubs
<1>2. without \in Hubs /\ without.connections = [h.connections EXCEPT ![id] = 0]
  BY <1>1 DEF Hubs
<1>3. Follows(ls, ls)
  BY DEF Follows, SameSessions
<1>4. CASE d \in {[hub |-> asked, links |-> ls, reply |-> "none"],
                 [hub |-> [asked EXCEPT !.unconfirmed = @ \ {id}], links |-> ls, reply |-> "unreachable"]}
  <2>1. [asked EXCEPT !.unconfirmed = @ \ {id}] \in Hubs
        /\ [asked EXCEPT !.unconfirmed = @ \ {id}].connections = h.connections
    BY <1>1 DEF Hubs
  <2>2. /\ d.hub \in Hubs /\ d.hub.connections = h.connections /\ d.links = ls
        /\ d.reply \in {"none", "unreachable"}
    <3>1. CASE d = [hub |-> asked, links |-> ls, reply |-> "none"]
      BY <1>1, <3>1
    <3>2. CASE d = [hub |-> [asked EXCEPT !.unconfirmed = @ \ {id}], links |-> ls, reply |-> "unreachable"]
      BY <2>1, <3>2
    <3> QED BY <1>4, <3>1, <3>2
  <2> QED BY <1>3, <2>2 DEF Replies
<1>5. ASSUME n = 0, NEW r \in {"off", "none"}, d = [hub |-> asked, links |-> ls, reply |-> r]
      PROVE  /\ d.hub \in Hubs /\ Follows(ls, d.links) /\ d.reply \in Replies \ {"on"}
             /\ d.hub.connections = h.connections /\ h.connections[id] = 0
  BY <1>1, <1>3, <1>5 DEF Replies
<1>6. CASE /\ n # 0
           /\ d \in {[hub |-> without, links |-> Sources!Cancelled(ls, n), reply |-> "off"],
                     [hub |-> without, links |-> Sources!Cancelled(ls, n), reply |-> "none"],
                     [hub |-> [without EXCEPT !.unconfirmed = @ \cup {id}],
                      links |-> Sources!Cancelled(ls, n), reply |-> "none"]}
  <2>1. [without EXCEPT !.unconfirmed = @ \cup {id}] \in Hubs
        /\ [without EXCEPT !.unconfirmed = @ \cup {id}].connections = without.connections
    BY <1>2 DEF Hubs
  <2>2. n \in 1..Len(ls)
    BY <1>6
  <2>3. Follows(ls, Sources!Cancelled(ls, n)) /\ Sources!Cancelled(ls, n)[n].state = "over"
    BY <2>2, CancelledFollows
  <2>4. d.hub \in Hubs /\ d.hub.connections = [h.connections EXCEPT ![id] = 0]
        /\ d.links = Sources!Cancelled(ls, n) /\ d.reply \in {"off", "none"}
    <3>1. CASE d = [hub |-> without, links |-> Sources!Cancelled(ls, n), reply |-> "off"]
      BY <1>2, <3>1
    <3>3. CASE d = [hub |-> without, links |-> Sources!Cancelled(ls, n), reply |-> "none"]
      BY <1>2, <3>3
    <3>2. CASE d = [hub |-> [without EXCEPT !.unconfirmed = @ \cup {id}],
                    links |-> Sources!Cancelled(ls, n), reply |-> "none"]
      BY <1>2, <2>1, <3>2
    <3> QED BY <1>6, <3>1, <3>2, <3>3
  <2> QED BY <1>6, <2>3, <2>4 DEF Replies, Hubs
<1> QED BY <1>4, <1>5, <1>6 DEF Sources!Disconnected

(* What stays kept stays backed, as long as nothing it needs is taken away. *)
LEMMA StaysBacked ==
    ASSUME SourcesType, KeptBacked, SameSessions(links, links'), servers' = servers, accounts \subseteq accounts',
           \A n \in 1..Len(links) : Kept(n)' => Kept(n)
    PROVE  KeptBacked'
<1>1. ASSUME NEW n \in Nat, n \in 1..Len(links'), Kept(n)', ~links'[n].overtaken
      PROVE  /\ (links[n].version = Sources!Version(links[n].of))'
             /\ links'[n].of \in OauthPresets => links'[n].of \in accounts'
  <2>1. n \in 1..Len(links) /\ Kept(n) /\ ~links[n].overtaken
    BY <1>1 DEF Follows, SameSessions
  <2>2. links'[n].of = links[n].of /\ links'[n].version = links[n].version
    BY <2>1 DEF Follows, SameSessions
  <2>3. Sources!Version(links[n].of)' = Sources!Version(links[n].of)
    BY <2>2 DEF Sources!Version
  <2> QED BY <2>1, <2>2, <2>3 DEF KeptBacked
<1>2. 1..Len(links') \subseteq Nat
  BY LinkTypes DEF Follows, SameSessions
<1> QED BY <1>1, <1>2 DEF KeptBacked

LEMMA StaysKept ==
    ASSUME SourcesType, LivesKept, Follows(links, links'), running' => running,
           \A n \in 1..Len(links) : Kept(n) /\ links'[n].state # "over" => Kept(n)'
    PROVE  LivesKept'
BY DEF LivesKept, Follows, SameSessions

(* A session begins.  It is set up by one who has no other. *)
LEMMA BeginKeeps ==
    ASSUME SourcesInv, NEW w \in Sources!Workers, NEW id \in Sources!Ids, NEW lease \in BOOLEAN,
           work[w].at \notin {"starting", "up"}, Sources!Begin(w, id, lease),
           UNCHANGED <<servers, remembered, hub, running, versions, reply>>,
           todo' \subseteq todo, accounts \subseteq accounts', id \in OauthPresets => id \in accounts'
    PROVE  SourcesInv'
<1> DEFINE new == [of |-> id, by |-> w, version |-> Sources!Version(id), state |-> "starting",
                   overtaken |-> FALSE]
           k == Len(links) + 1
           job == [at |-> "starting", id |-> id, link |-> k, lease |-> lease]
<1> USE DEF SourcesInv
<1>1. Len(links) \in Nat /\ new \in Links /\ job \in Jobs
  BY LinkTypes DEF SourcesType, Links, Jobs, Sources!Version
<1>2. links' = Append(links, new) /\ work' = [work EXCEPT ![w] = job]
  BY DEF Sources!Begin
<1>3. /\ links' \in Seq(Links) /\ Len(links') = k
      /\ links'[k] = new /\ \A n \in 1..Len(links) : links'[n] = links[n]
  BY <1>1, <1>2, AppendProperties DEF SourcesType
<1>4. SourcesType'
  BY <1>1, <1>2, <1>3 DEF SourcesType
<1>5. work'[w] = job /\ \A v \in Sources!Workers \ {w} : work'[v] = work[v]
  BY <1>2 DEF SourcesType
<1>6. SetUpOwned'
  BY <1>1, <1>3, <1>5 DEF SetUpOwned, HubOwned
<1>7. HubOwned'
  BY <1>1, <1>3 DEF HubOwned
<1>8. ASSUME NEW n \in 1..Len(links) PROVE Kept(n)' <=> Kept(n)
  <2>1. work[w].link = 0 /\ work'[w].link = k /\ n # k /\ n # 0
    BY <1>1, <1>5, <1>8 DEF SetUpOwned
  <2>2. links'[n].of = links[n].of /\ hub' = hub
    BY <1>3, <1>8
  <2> QED BY <1>5, <2>1, <2>2 DEF Kept
<1>9. ASSUME NEW m \in Nat, m = k PROVE Kept(m)'
  BY <1>5, <1>9 DEF Kept
<1>10. LivesKept'
  <2>1. ASSUME NEW m \in Nat, m \in 1..Len(links'), running, links'[m].state # "over" PROVE Kept(m)'
    <3>1. CASE m \in 1..Len(links)
      BY <1>3, <1>8, <2>1, <3>1 DEF LivesKept
    <3> QED BY <1>1, <1>3, <1>9, <2>1, <3>1
  <2> QED BY <2>1 DEF LivesKept
<1>11. KeptBacked'
  <2>1. ASSUME NEW n \in Nat, n \in 1..Len(links'), Kept(n)', ~links'[n].overtaken
        PROVE  /\ (links[n].version = Sources!Version(links[n].of))'
               /\ links'[n].of \in OauthPresets => links'[n].of \in accounts'
    <3>1. CASE n = k
      <4>1. Sources!Version(id)' = Sources!Version(id)
        BY DEF Sources!Version
      <4> QED BY <1>3, <3>1, <4>1
    <3>2. CASE n \in 1..Len(links)
      <4>1. Sources!Version(links[n].of)' = Sources!Version(links[n].of)
        BY <1>3, <3>2 DEF Sources!Version
      <4> QED BY <1>3, <1>8, <2>1, <3>2, <4>1 DEF KeptBacked
    <3> QED BY <1>1, <1>3, <2>1, <3>1, <3>2
  <2>2. 1..Len(links') \subseteq Nat
    OBVIOUS
  <2> QED BY <2>1, <2>2 DEF KeptBacked
<1>12. Sources!OffIsOff'
  BY <1>3 DEF Sources!OffIsOff, HubOwned
<1>13. Sources!OnIsKept'
  BY DEF Sources!OnIsKept
<1> QED BY <1>4, <1>6, <1>7, <1>10, <1>11, <1>12, <1>13

(* A session that is up goes into the hub, and may leave it on the spot. *)
LEMMA RecordedKeeps ==
    ASSUME SourcesInv, NEW w \in Sources!Workers, work[w].at = "up",
           NEW id \in Sources!Ids, NEW n \in 1..Len(links), id = work[w].id, n = work[w].link,
           work' = [work EXCEPT ![w] = Sources!Idle], hub' \in Hubs, Follows(links, links'),
           \A j \in Sources!Ids \ {id} : hub'.connections[j] = hub.connections[j],
           hub.connections[id] \notin {0, n} => links'[hub.connections[id]].state = "over",
           \/ hub'.connections[id] = n
           \/ hub'.connections[id] = 0 /\ links'[n].state = "over",
           UNCHANGED <<servers, accounts, running, versions, todo>>, reply' \in [Sources!Ids -> Replies]
    PROVE  SourcesType' /\ SetUpOwned' /\ HubOwned' /\ LivesKept' /\ KeptBacked'
<1> USE DEF SourcesInv
<1>1. Len(links) \in Nat /\ Len(links') = Len(links) /\ n # 0
      /\ \A m \in 1..Len(links) : links'[m].of = links[m].of /\ links'[m].by = links[m].by /\ m # 0
  BY LinkTypes DEF SourcesType, Follows, SameSessions
<1>2. Sources!Idle \in Jobs /\ Sources!Idle.at = "idle" /\ Sources!Idle.link = 0
  BY DEF Jobs, Sources!Idle
<1>3. links[n].of = id
  BY <1>1 DEF SetUpOwned
<1>4. work'[w] = Sources!Idle /\ \A v \in Sources!Workers \ {w} : work'[v] = work[v]
  BY DEF SourcesType
<1>5. SourcesType'
  BY <1>2 DEF SourcesType, Follows, SameSessions
<1>6. SetUpOwned'
  <2>1. ASSUME NEW v \in Sources!Workers, v # w, work[v].link # 0
        PROVE  hub'.connections[work[v].id] # work[v].link
    BY <1>1, <2>1 DEF SetUpOwned
  <2> QED BY <1>1, <1>2, <1>4, <2>1 DEF SetUpOwned
<1>7. HubOwned'
  BY <1>1, <1>3 DEF HubOwned
<1>8. ASSUME NEW m \in 1..Len(links), Kept(m)' PROVE Kept(m)
  <2>1. CASE \E v \in Sources!Workers : work'[v].link = m
    BY <1>1, <1>2, <1>4, <1>8, <2>1 DEF Kept
  <2>2. CASE hub'.connections[links'[m].of] = m
    <3>1. links[m].of \in Sources!Ids
      BY LinkTypes DEF SourcesType, Links
    <3>2. CASE links[m].of = id
      <4>1. m = n
        BY <1>1, <2>2, <3>2
      <4> QED BY <4>1 DEF Kept
    <3> QED BY <1>1, <2>2, <3>1, <3>2 DEF Kept
  <2> QED BY <1>8, <2>1, <2>2 DEF Kept
<1>9. ASSUME NEW m \in 1..Len(links), Kept(m), links'[m].state # "over" PROVE Kept(m)'
  <2>1. CASE m = n
    BY <1>1, <1>3, <1>9, <2>1 DEF Kept
  <2>2. CASE m # n
    <3>1. links[m].of \in Sources!Ids
      BY LinkTypes DEF SourcesType, Links
    <3>2. CASE \E v \in Sources!Workers : work[v].link = m
      BY <1>4, <2>2, <3>2 DEF Kept
    <3>3. CASE hub.connections[links[m].of] = m
      BY <1>1, <1>9, <2>2, <3>1, <3>3 DEF Kept
    <3> QED BY <1>9, <3>2, <3>3 DEF Kept
  <2> QED BY <2>1, <2>2
<1>10. KeptBacked'
  BY <1>8, StaysBacked DEF Follows
<1>11. LivesKept'
  BY <1>9, StaysKept
<1> QED BY <1>5, <1>6, <1>7, <1>10, <1>11

(* So do the steps of the restore and of a page that record one. *)
LEMMA RestoreRecordsKeeps == ASSUME SourcesInv, Sources!RestoreRecords PROVE SourcesInv'
<1> DEFINE n == work[0].link
           id == work[0].id
<1> USE DEF SourcesInv
<1>1. /\ running /\ work[0].at = "up"
      /\ hub' = Sources!Inserted(n).hub /\ links' = Sources!Inserted(n).links
      /\ work' = [work EXCEPT ![0] = Sources!Idle]
      /\ UNCHANGED <<servers, accounts, remembered, todo, running, versions, reply>>
  BY DEF Sources!RestoreRecords
<1>2. /\ 0 \in Sources!Workers /\ n \in 1..Len(links) /\ id \in Sources!Ids /\ links[n].of = id
      /\ links[n].by = 0
  BY <1>1 DEF Sources!Workers, SetUpOwned
<1>3. /\ hub' \in Hubs /\ hub'.connections = [hub.connections EXCEPT ![id] = n] /\ Follows(links, links')
      /\ hub.connections[id] # 0 => links'[hub.connections[id]].state = "over"
  BY <1>1, <1>2, InsertedEffect
<1>4. hub.connections \in [Sources!Ids -> Nat] /\ reply' \in [Sources!Ids -> Replies]
  BY <1>1 DEF SourcesType, Hubs
<1>5. hub'.connections[id] = n /\ \A j \in Sources!Ids \ {id} : hub'.connections[j] = hub.connections[j]
  BY <1>2, <1>3, <1>4
<1>6. SourcesType' /\ SetUpOwned' /\ HubOwned' /\ LivesKept' /\ KeptBacked'
  BY <1>1, <1>2, <1>3, <1>4, <1>5, RecordedKeeps
<1>7. Sources!OffIsOff'
  BY <1>1, <1>2, <1>3, <1>5 DEF Sources!OffIsOff, HubOwned, Follows, SameSessions
<1>8. Sources!OnIsKept'
  <2>1. n # 0
    BY <1>1, <1>2 DEF SetUpOwned
  <2> QED BY <1>1, <1>5, <2>1 DEF Sources!OnIsKept
<1> QED BY <1>6, <1>7, <1>8

LEMMA PageRecordsKeeps ==
    ASSUME SourcesInv, NEW w \in Pages, Sources!PageRecords(w) PROVE SourcesInv'
<1> DEFINE n == work[w].link
           id == work[w].id
           r == Sources!Inserted(n)
<1> USE DEF SourcesInv
<1>1. /\ running /\ work[w].at = "up"
      /\ \/ /\ hub' = r.hub /\ links' = r.links
            /\ remembered' = remembered \cup {id} /\ reply' = [reply EXCEPT ![id] = "on"]
         \/ /\ \E d \in Sources!Disconnected(r.hub, r.links, id, FALSE) : hub' = d.hub /\ links' = d.links
            /\ remembered' = remembered /\ reply' = [reply EXCEPT ![id] = "none"]
      /\ work' = [work EXCEPT ![w] = Sources!Idle]
      /\ UNCHANGED <<servers, accounts, todo, running, versions>>
  BY DEF Sources!PageRecords, Sources!Told
<1>2. w \in Sources!Workers /\ n \in 1..Len(links) /\ n # 0 /\ id \in Sources!Ids /\ links[n].of = id
  BY <1>1 DEF Sources!Workers, SetUpOwned
<1>3. /\ r.hub \in Hubs /\ r.hub.connections = [hub.connections EXCEPT ![id] = n] /\ Follows(links, r.links)
      /\ hub.connections[id] # 0 => r.links[hub.connections[id]].state = "over"
  BY <1>2, InsertedEffect
<1>4. hub.connections \in [Sources!Ids -> Nat] /\ reply \in [Sources!Ids -> Replies]
  BY DEF SourcesType, Hubs
<1>5. r.hub.connections[id] = n /\ \A j \in Sources!Ids \ {id} : r.hub.connections[j] = hub.connections[j]
  BY <1>2, <1>3, <1>4
<1>6. CASE /\ hub' = r.hub /\ links' = r.links
           /\ remembered' = remembered \cup {id} /\ reply' = [reply EXCEPT ![id] = "on"]
  <2>1. reply' \in [Sources!Ids -> Replies]
    BY <1>4, <1>6 DEF Replies
  <2>2. SourcesType' /\ SetUpOwned' /\ HubOwned' /\ LivesKept' /\ KeptBacked'
    BY <1>1, <1>2, <1>3, <1>5, <1>6, <2>1, RecordedKeeps
  <2>3. reply'[id] = "on" /\ \A j \in Sources!Ids \ {id} : reply'[j] = reply[j]
    BY <1>2, <1>4, <1>6
  <2>4. Sources!OffIsOff'
    <3>1. ASSUME NEW j \in Sources!Ids, reply'[j] = "off", hub'.connections[j] # 0
          PROVE  links'[hub'.connections[j]].by = 0
      <4>1. j # id /\ reply[j] = "off" /\ hub'.connections[j] = hub.connections[j]
        BY <1>5, <1>6, <2>3, <3>1
      <4>2. hub.connections[j] \in 1..Len(links) /\ links[hub.connections[j]].by = 0
        BY <3>1, <4>1 DEF Sources!OffIsOff, HubOwned
      <4> QED BY <1>3, <1>6, <4>1, <4>2 DEF Follows, SameSessions
    <3> QED BY <3>1 DEF Sources!OffIsOff
  <2>5. Sources!OnIsKept'
    BY <1>1, <1>2, <1>5, <1>6, <2>3 DEF Sources!OnIsKept
  <2> QED BY <2>2, <2>4, <2>5
<1>7. ASSUME NEW d \in Sources!Disconnected(r.hub, r.links, id, FALSE), hub' = d.hub, links' = d.links,
             remembered' = remembered, reply' = [reply EXCEPT ![id] = "none"]
      PROVE  SourcesInv'
  <2>1. r.links \in Seq(Links) /\ Len(r.links) = Len(links) /\ r.hub.connections[id] \in 0..Len(r.links)
    BY <1>2, <1>3, <1>5 DEF Follows, SameSessions
  <2>2. /\ d.hub \in Hubs /\ Follows(r.links, d.links)
        /\ \A j \in Sources!Ids \ {id} : d.hub.connections[j] = r.hub.connections[j]
        /\ \/ d.hub.connections[id] = r.hub.connections[id]
           \/ /\ d.hub.connections[id] = 0 /\ r.hub.connections[id] # 0
              /\ d.links[r.hub.connections[id]].state = "over"
    <3>1. r.hub \in Hubs
      BY <1>3
    <3> HIDE DEF r
    <3>2. PICK forget \in BOOLEAN : d \in Sources!Disconnected(r.hub, r.links, id, forget)
      BY <1>7, Zenon
    <3> QED BY <1>2, <2>1, <3>1, <3>2, DisconnectedEffect
  <2>3. Follows(links, links')
    BY <1>3, <1>7, <2>2, FollowsTrans
  <2>4. hub.connections[id] \notin {0, n} => links'[hub.connections[id]].state = "over"
    BY <1>2, <1>3, <1>7, <2>2 DEF HubOwned, Follows, SameSessions
  <2>5. reply' \in [Sources!Ids -> Replies]
    BY <1>4, <1>7 DEF Replies
  <2>6. /\ hub' \in Hubs /\ \A j \in Sources!Ids \ {id} : hub'.connections[j] = hub.connections[j]
        /\ \/ hub'.connections[id] = n
           \/ hub'.connections[id] = 0 /\ links'[n].state = "over"
    BY <1>5, <1>7, <2>2
  <2>7. SourcesType' /\ SetUpOwned' /\ HubOwned' /\ LivesKept' /\ KeptBacked'
    BY <1>1, <1>2, <2>3, <2>4, <2>5, <2>6, RecordedKeeps
  <2>8. reply'[id] = "none" /\ \A j \in Sources!Ids \ {id} : reply'[j] = reply[j]
    BY <1>2, <1>4, <1>7
  <2>9. Sources!OffIsOff'
    BY <2>3, <2>6, <2>8 DEF Sources!OffIsOff, HubOwned, Follows, SameSessions
  <2>10. Sources!OnIsKept'
    BY <1>1, <1>7, <2>6, <2>8 DEF Sources!OnIsKept
  <2> QED BY <2>7, <2>9, <2>10
<1> QED BY <1>1, <1>6, <1>7

(* A disconnect: who is told of it has no session left but one that the     *)
(* restore sets up.                                                         *)
LEMMA DisconnectKeeps ==
    ASSUME SourcesInv, NEW w \in Pages, NEW id \in Sources!Ids, NEW forget \in BOOLEAN,
           Sources!Disconnect(w, id, forget)
    PROVE  SourcesInv'
<1> USE DEF SourcesInv
<1>1. PICK d \in Sources!Disconnected(hub, links, id, forget) :
        /\ hub' = d.hub
        /\ links' = IF d.reply = "off" THEN Sources!Overtaken(d.links, id) ELSE d.links
        /\ reply' = [reply EXCEPT ![id] = d.reply]
        /\ accounts' = IF forget /\ d.reply = "off" THEN accounts \ {id} ELSE accounts
        /\ remembered' = remembered \ {id}
        /\ UNCHANGED <<servers, work, todo, running, versions>>
  BY DEF Sources!Disconnect, Sources!Told
<1>2. hub \in Hubs /\ links \in Seq(Links) /\ hub.connections[id] \in 0..Len(links)
      /\ hub.connections \in [Sources!Ids -> Nat] /\ reply \in [Sources!Ids -> Replies]
      /\ Len(links) \in Nat
  BY LinkTypes DEF SourcesType, HubOwned, Hubs
<1>3. /\ d.hub \in Hubs /\ Follows(links, d.links) /\ d.reply \in Replies \ {"on"}
      /\ \A j \in Sources!Ids \ {id} : d.hub.connections[j] = hub.connections[j]
      /\ \/ /\ d.hub.connections[id] = hub.connections[id]
            /\ d.reply = "off" => hub.connections[id] = 0
         \/ /\ d.hub.connections[id] = 0 /\ hub.connections[id] # 0
            /\ d.links[hub.connections[id]].state = "over"
  BY <1>2, DisconnectedEffect
<1>4. /\ Follows(d.links, links')
      /\ d.reply = "off" => \A n \in 1..Len(links) :
           links[n].of = id /\ n # hub.connections[id] => links'[n].overtaken
  <2>1. d.links \in Seq(Links) /\ Len(d.links) = Len(links)
        /\ \A n \in 1..Len(links) : d.links[n].of = links[n].of
    BY <1>3 DEF Follows, SameSessions
  <2>2. Follows(d.links, d.links)
    BY <2>1 DEF Follows, SameSessions
  <2> QED BY <1>1, <2>1, <2>2, OvertakenFollows
<1>5. Follows(links, links')
  BY <1>3, <1>4, FollowsTrans
<1>6. reply'[id] = d.reply /\ \A j \in Sources!Ids \ {id} : reply'[j] = reply[j]
  BY <1>1, <1>2
<1>7. SourcesType'
  BY <1>1, <1>2, <1>3, <1>5 DEF SourcesType, Follows, SameSessions
<1>8. SetUpOwned' /\ HubOwned'
  <2>1. \A j \in Sources!Ids : hub'.connections[j] \in {0, hub.connections[j]}
    BY <1>1, <1>3
  <2>2. /\ Len(links') = Len(links) /\ work' = work
        /\ \A n \in 1..Len(links) : links'[n].of = links[n].of /\ links'[n].by = links[n].by
    BY <1>1, <1>5 DEF Follows, SameSessions
  <2>3. SetUpOwned'
    BY <2>1, <2>2 DEF SetUpOwned
  <2>4. HubOwned'
    BY <2>1, <2>2 DEF HubOwned
  <2> QED BY <2>3, <2>4
<1>9. ASSUME NEW n \in 1..Len(links), Kept(n)' PROVE Kept(n)
  <2>1. links[n].of \in Sources!Ids /\ links'[n].of = links[n].of /\ n # 0
    <3>1. links[n] \in Links /\ n \in Nat
      BY <1>2, LinkTypes
    <3> QED BY <1>5, <3>1 DEF Links, Follows, SameSessions
  <2>2. \A j \in Sources!Ids : hub'.connections[j] \in {0, hub.connections[j]}
    BY <1>1, <1>3
  <2> QED BY <1>1, <1>9, <2>1, <2>2 DEF Kept
<1>10. ASSUME NEW n \in 1..Len(links), Kept(n), links'[n].state # "over" PROVE Kept(n)'
  <2>1. links[n].of \in Sources!Ids /\ links'[n].of = links[n].of
    BY <1>2, <1>5, LinkTypes DEF Links, Follows, SameSessions
  <2>2. ASSUME hub.connections[id] = n, d.hub.connections[id] # n PROVE FALSE
    BY <1>3, <1>4, <1>10, <2>2 DEF Follows, SameSessions
  <2> QED BY <1>1, <1>3, <1>10, <2>1, <2>2 DEF Kept
<1>11. LivesKept'
  BY <1>1, <1>5, <1>10, StaysKept
<1>12. KeptBacked'
  <2>1. CASE ~(forget /\ d.reply = "off")
    BY <1>1, <1>5, <1>9, <2>1, StaysBacked DEF Follows
  <2>2. CASE forget /\ d.reply = "off"
    <3>1. ASSUME NEW n \in Nat, n \in 1..Len(links'), Kept(n)', ~links'[n].overtaken
          PROVE  /\ (links[n].version = Sources!Version(links[n].of))'
                 /\ links'[n].of \in OauthPresets => links'[n].of \in accounts'
      <4>1. n \in 1..Len(links) /\ Kept(n) /\ ~links[n].overtaken
            /\ links'[n].of = links[n].of /\ links'[n].version = links[n].version
        BY <1>5, <1>9, <3>1 DEF Follows, SameSessions
      <4>2. links[n].of = id => n = hub.connections[id]
        BY <1>4, <2>2, <3>1, <4>1
      <4>3. links[n].of # id
        <5>1. SUFFICES ASSUME links[n].of = id, n = hub.connections[id] PROVE FALSE
          BY <4>2
        <5>2. hub'.connections[id] # n
          BY <1>1, <1>2, <1>3, <2>2, <4>1, <5>1
        <5>3. PICK v \in Sources!Workers : work[v].link = n
          BY <1>1, <3>1, <4>1, <5>1, <5>2 DEF Kept
        <5> QED BY <4>1, <5>1, <5>3 DEF SetUpOwned
      <4>4. Sources!Version(links[n].of)' = Sources!Version(links[n].of)
        BY <1>1, <4>1 DEF Sources!Version
      <4>5. links[n].version = Sources!Version(links[n].of)
            /\ (links[n].of \in OauthPresets => links[n].of \in accounts')
        BY <1>1, <4>1, <4>3 DEF KeptBacked
      <4> QED BY <4>1, <4>4, <4>5
    <3>2. 1..Len(links') \subseteq Nat
      OBVIOUS
    <3> QED BY <3>1, <3>2 DEF KeptBacked
  <2> QED BY <2>1, <2>2
<1>13. Sources!OffIsOff'
  BY <1>1, <1>3, <1>5, <1>6 DEF Sources!OffIsOff, HubOwned, Follows, SameSessions
<1>14. Sources!OnIsKept'
  BY <1>1, <1>3, <1>6 DEF Sources!OnIsKept
<1> QED BY <1>7, <1>8, <1>11, <1>12, <1>13, <1>14

-----------------------------------------------------------------------------
(* A step that leaves the connections of the hub, and in which those who    *)
(* set up a session keep it or see it over.                                 *)
QuietStep ==
    /\ SameSessions(links, links') /\ hub' \in Hubs /\ hub'.connections = hub.connections
    /\ todo' \subseteq todo /\ accounts \subseteq accounts'
    /\ servers' = servers /\ versions' = versions /\ remembered' = remembered /\ running' = running
    /\ reply' \in [Sources!Ids -> Replies]
    /\ \A id \in Sources!Ids : reply'[id] \in {reply[id], "none"}
    /\ work' \in [Sources!Workers -> Jobs]
    /\ \A w \in Sources!Workers :
         \/ work'[w] = work[w]
         \/ /\ work'[w].at \notin {"starting", "up"} /\ work'[w].link = 0
            /\ work[w].link = 0 \/ links'[work[w].link].state = "over"
            /\ work'[w].at \in {"signin", "signed"} => work'[w].id \in OauthPresets
            /\ work'[w].at = "failed" => w = 0 /\ work'[w].id \in Sources!Ids
         \/ /\ work'[w].at = "up" /\ work[w].at \in {"starting", "up"}
            /\ work'[w].link = work[w].link /\ work'[w].id = work[w].id
    /\ \A n \in 1..Len(links) : links[n].state = "over" /\ links'[n].state # "over" =>
         \E w \in Sources!Workers : work[w].link = n

LEMMA QuietKeeps == ASSUME SourcesInv, QuietStep PROVE SourcesInv'
<1> USE DEF SourcesInv
<1>1. /\ Len(links) \in Nat /\ Len(links') = Len(links) /\ links' \in Seq(Links)
      /\ \A n \in 1..Len(links) :
           links'[n].of = links[n].of /\ links'[n].by = links[n].by /\ links[n].of \in Sources!Ids /\ n # 0
  <2>1. links \in Seq(Links) /\ Len(links') = Len(links) /\ links' \in Seq(Links)
    BY DEF SourcesType, QuietStep, SameSessions
  <2>2. ASSUME NEW n \in 1..Len(links) PROVE links[n].of \in Sources!Ids /\ n # 0
    <3>1. links[n] \in Links /\ n \in Nat
      BY <2>1, LinkTypes
    <3> QED BY <3>1 DEF Links
  <2>3. \A n \in 1..Len(links) : links'[n].of = links[n].of /\ links'[n].by = links[n].by
    BY DEF QuietStep, SameSessions
  <2> QED BY <2>1, <2>2, <2>3, LinkTypes
<1>2. SourcesType'
  BY <1>1 DEF SourcesType, QuietStep
<1>3. \A w \in Sources!Workers : work'[w].link # 0 => work'[w].link = work[w].link /\ work'[w].id = work[w].id
  BY DEF QuietStep, SetUpOwned
<1>4. SetUpOwned'
  BY <1>1, <1>3 DEF SetUpOwned, QuietStep
<1>5. HubOwned'
  BY <1>1 DEF HubOwned, QuietStep
<1>6. ASSUME NEW n \in 1..Len(links), Kept(n)' PROVE Kept(n)
  BY <1>1, <1>3, <1>6 DEF Kept, QuietStep
<1>7. ASSUME NEW n \in 1..Len(links), Kept(n), links'[n].state # "over" PROVE Kept(n)'
  BY <1>1, <1>7 DEF Kept, QuietStep
<1>8. LivesKept'
  <2>1. ASSUME NEW n \in 1..Len(links), running, links'[n].state # "over" PROVE Kept(n)'
    <3>1. CASE links[n].state # "over"
      BY <1>7, <2>1, <3>1 DEF LivesKept
    <3>2. CASE links[n].state = "over"
      BY <1>7, <2>1, <3>2 DEF QuietStep, Kept
    <3> QED BY <3>1, <3>2
  <2> QED BY <1>1, <2>1 DEF LivesKept, QuietStep
<1>9. KeptBacked'
  BY <1>6, StaysBacked DEF QuietStep
<1>10. Sources!OffIsOff'
  BY <1>1 DEF Sources!OffIsOff, QuietStep, HubOwned
<1>11. Sources!OnIsKept'
  BY DEF Sources!OnIsKept, QuietStep
<1> QED BY <1>2, <1>4, <1>5, <1>8, <1>9, <1>10, <1>11

(* Steps of the start and of a page that record nothing. *)
LEMMA SessionsUnchanged == ASSUME SourcesType, links' = links PROVE SameSessions(links, links')
BY DEF SourcesType, SameSessions

LEMMA IdleJob == Sources!Idle \in Jobs /\ Sources!Idle.at = "idle" /\ Sources!Idle.link = 0
BY DEF Jobs, Sources!Idle

(* One without a session changes what he is at, and tells nothing new. *)
LEMMA JobChanges ==
    ASSUME SourcesInv, NEW w \in Sources!Workers, NEW job \in Jobs, work' = [work EXCEPT ![w] = job],
           links' = links, hub' \in Hubs, hub'.connections = hub.connections,
           todo' \subseteq todo, accounts \subseteq accounts',
           UNCHANGED <<servers, remembered, versions, running>>,
           reply' = reply \/ \E id \in Sources!Ids : reply' = [reply EXCEPT ![id] = "none"],
           work[w].at \notin {"starting", "up"}, job.at \notin {"starting", "up"}, job.link = 0,
           job.at \in {"signin", "signed"} => job.id \in OauthPresets,
           job.at = "failed" => w = 0 /\ job.id \in Sources!Ids
    PROVE  SourcesInv'
<1>1. SameSessions(links, links') /\ reply \in [Sources!Ids -> Replies]
      /\ work \in [Sources!Workers -> Jobs]
  BY SessionsUnchanged DEF SourcesInv, SourcesType
<1>2. reply' \in [Sources!Ids -> Replies] /\ \A id \in Sources!Ids : reply'[id] \in {reply[id], "none"}
  BY <1>1 DEF Replies
<1>3. work' \in [Sources!Workers -> Jobs] /\ work'[w] = job
      /\ \A v \in Sources!Workers \ {w} : work'[v] = work[v]
  BY <1>1
<1>4. work[w].link = 0
  BY DEF SourcesInv, SetUpOwned
<1>5. QuietStep
  BY <1>1, <1>2, <1>3, <1>4 DEF QuietStep
<1> QED BY <1>5, QuietKeeps

(* A configuration is written or removed: whoever sets up a session of it   *)
(* is overtaken.                                                            *)
LEMMA EditKeeps ==
    ASSUME SourcesInv, NEW id \in LocalServers, hub.connections[id] = 0,
           servers' \in [LocalServers -> Nat], versions' \in Nat,
           \A j \in LocalServers \ {id} : servers'[j] = servers[j],
           links' = Sources!Overtaken(links, id), remembered \ {id} \subseteq remembered',
           UNCHANGED <<accounts, hub, work, todo, running>>, reply' \in [Sources!Ids -> Replies],
           reply'[id] = "on" => reply[id] = "on" /\ (id \in remembered => id \in remembered'),
           \A j \in Sources!Ids \ {id} : reply'[j] = reply[j]
    PROVE  SourcesInv'
<1> USE DEF SourcesInv
<1>1. id \in Sources!Ids /\ links \in Seq(Links) /\ Len(links) \in Nat
  BY LinkTypes DEF Sources!Ids, SourcesType
<1>2. /\ Follows(links, links')
      /\ \A n \in 1..Len(links) : links[n].of = id /\ n # hub.connections[id] => links'[n].overtaken
  BY <1>1, OvertakenFollows
<1>3. /\ Len(links') = Len(links) /\ links' \in Seq(Links)
      /\ \A n \in 1..Len(links) : links'[n].of = links[n].of /\ links'[n].by = links[n].by
                                  /\ links'[n].version = links[n].version
                                  /\ (links[n].overtaken => links'[n].overtaken)
  BY <1>2 DEF Follows, SameSessions
<1>4. SourcesType'
  BY <1>3 DEF SourcesType
<1>5. SetUpOwned'
  BY <1>3 DEF SetUpOwned
<1>6. HubOwned'
  BY <1>3 DEF HubOwned
<1>7. \A n \in 1..Len(links) : Kept(n)' <=> Kept(n)
  BY <1>3 DEF Kept
<1>8. LivesKept'
  BY <1>2, <1>7, StaysKept
<1>9. KeptBacked'
  <2>1. ASSUME NEW n \in Nat, n \in 1..Len(links'), Kept(n)', ~links'[n].overtaken
        PROVE  /\ (links[n].version = Sources!Version(links[n].of))'
               /\ links'[n].of \in OauthPresets => links'[n].of \in accounts'
    <3>1. n \in 1..Len(links) /\ Kept(n) /\ ~links[n].overtaken /\ n # 0 /\ links[n].of # id
      BY <1>1, <1>2, <1>3, <1>7, <2>1
    <3>2. Sources!Version(links[n].of)' = Sources!Version(links[n].of)
      BY <1>3, <3>1 DEF Sources!Version
    <3> QED BY <1>3, <3>1, <3>2 DEF KeptBacked
  <2>2. 1..Len(links') \subseteq Nat
    OBVIOUS
  <2> QED BY <2>1, <2>2 DEF KeptBacked
<1>10. Sources!OffIsOff'
  BY <1>1, <1>3 DEF Sources!OffIsOff, HubOwned
<1>11. Sources!OnIsKept'
  BY <1>1 DEF Sources!OnIsKept
<1> QED BY <1>4, <1>5, <1>6, <1>8, <1>9, <1>10, <1>11

(* After the exit nothing is kept and nothing is set up. *)
LEMMA QuitKeeps == ASSUME SourcesInv, Sources!Quit PROVE SourcesInv'
<1> USE DEF SourcesInv
<1>1. /\ running' = FALSE /\ hub' = [hub EXCEPT !.connections = [id \in Sources!Ids |-> 0]]
      /\ links' = [n \in DOMAIN links |->
                     IF hub.connections[links[n].of] = n THEN [links[n] EXCEPT !.state = "over"] ELSE links[n]]
      /\ work' = [w \in Sources!Workers |-> Sources!Idle] /\ todo' = {}
      /\ UNCHANGED <<servers, accounts, remembered, versions, reply>>
  BY DEF Sources!Quit
<1>2. hub' \in Hubs /\ hub'.connections = [id \in Sources!Ids |-> 0]
  BY <1>1 DEF Hubs, SourcesType
<1>3. links \in [1..Len(links) -> Links] /\ Len(links) \in Nat /\ DOMAIN links = 1..Len(links)
  BY LinkTypes DEF SourcesType
<1>4. links' \in [1..Len(links) -> Links]
  BY <1>1, <1>3 DEF Links
<1>5. links' \in Seq(Links) /\ Len(links') = Len(links)
  BY <1>3, <1>4, IsASeq, LenProperties
<1>6. work' \in [Sources!Workers -> Jobs] /\ \A w \in Sources!Workers : work'[w] = Sources!Idle
  BY <1>1, IdleJob
<1>7. SourcesType'
  BY <1>1, <1>2, <1>5, <1>6 DEF SourcesType
<1>8. SetUpOwned' /\ HubOwned'
  BY <1>2, <1>6, IdleJob DEF SetUpOwned, HubOwned
<1>9. LivesKept'
  BY <1>1 DEF LivesKept
<1>10. KeptBacked'
  <2>1. ASSUME NEW n \in Nat, n \in 1..Len(links'), Kept(n)' PROVE FALSE
    <3>1. links'[n] \in Links /\ n # 0
      BY <1>5, <2>1, LinkTypes
    <3>2. links'[n].of \in Sources!Ids
      BY <3>1 DEF Links
    <3> QED BY <1>2, <1>6, <2>1, <3>1, <3>2, IdleJob DEF Kept
  <2>2. 1..Len(links') \subseteq Nat
    OBVIOUS
  <2> QED BY <2>1, <2>2 DEF KeptBacked
<1>11. Sources!OffIsOff' /\ Sources!OnIsKept'
  BY <1>1, <1>2 DEF Sources!OffIsOff, Sources!OnIsKept
<1> QED BY <1>7, <1>8, <1>9, <1>10, <1>11

(* Every step of the connectors keeps the invariant. *)
LEMMA SourcesStep == ASSUME SourcesInv, Sources!Next PROVE SourcesInv'
<1> USE DEF SourcesInv
<1>0. /\ Sources!Workers = Pages \cup {0} /\ Len(links) \in Nat /\ links \in Seq(Links)
      /\ DOMAIN links = 1..Len(links) /\ hub \in Hubs /\ todo \subseteq Sources!Ids
      /\ work \in [Sources!Workers -> Jobs] /\ reply \in [Sources!Ids -> Replies]
      /\ LocalServers \cup OauthPresets \cup KeyPresets = Sources!Ids
  BY LinkTypes DEF Sources!Workers, Sources!Ids, SourcesType
<1>1. ASSUME Sources!RestoreNext PROVE SourcesInv'
  <2>1. PICK id \in todo :
          /\ work[0].at = "idle" /\ todo' = todo \ {id}
          /\ IF Sources!CanBegin(id) THEN Sources!Begin(0, id, FALSE)
             ELSE /\ work' = [work EXCEPT ![0] = [Sources!Idle EXCEPT !.at = "failed", !.id = id]]
                  /\ UNCHANGED links
          /\ UNCHANGED <<servers, accounts, remembered, hub, running, versions, reply>>
    BY <1>1 DEF Sources!RestoreNext
  <2>2. id \in Sources!Ids /\ 0 \in Sources!Workers
    BY <1>0
  <2>3. CASE Sources!CanBegin(id)
    <3>1. id \in OauthPresets => id \in accounts
      BY <2>3, NamesAssumption DEF Sources!CanBegin
    <3> QED BY <2>1, <2>2, <2>3, <3>1, BeginKeeps
  <2>4. CASE ~Sources!CanBegin(id)
    <3>1. /\ [Sources!Idle EXCEPT !.at = "failed", !.id = id] \in Jobs
          /\ [Sources!Idle EXCEPT !.at = "failed", !.id = id].at = "failed"
          /\ [Sources!Idle EXCEPT !.at = "failed", !.id = id].id = id
          /\ [Sources!Idle EXCEPT !.at = "failed", !.id = id].link = 0
      BY <2>2, IdleJob DEF Jobs, Sources!Idle
    <3> QED BY <1>0, <2>1, <2>2, <2>4, <3>1, JobChanges
  <2> QED BY <2>3, <2>4
<1>2. ASSUME NEW w \in Sources!Workers, Sources!Established(w) PROVE SourcesInv'
  <2> DEFINE n == work[w].link
  <2>1. /\ work[w].at = "starting" /\ work' = [work EXCEPT ![w].at = "up"]
        /\ links' = [links EXCEPT ![n].state = "up"]
        /\ UNCHANGED <<servers, accounts, remembered, hub, todo, running, versions, reply>>
    BY <1>2 DEF Sources!Established
  <2>2. n \in 1..Len(links)
    BY <2>1 DEF SetUpOwned
  <2>3. links' \in [1..Len(links) -> Links] /\ \A m \in 1..Len(links) :
          /\ links'[m].of = links[m].of /\ links'[m].by = links[m].by
          /\ links'[m].version = links[m].version /\ links'[m].overtaken = links[m].overtaken
          /\ m # n => links'[m].state = links[m].state
    <3>1. links \in [1..Len(links) -> Links]
      BY <1>0, LinkTypes
    <3> QED BY <2>1, <2>2, <3>1 DEF Links
  <2>4. links' \in Seq(Links) /\ Len(links') = Len(links)
    BY <1>0, <2>3, IsASeq, LenProperties
  <2>5. SameSessions(links, links')
    BY <2>3, <2>4 DEF SameSessions
  <2>6. work' \in [Sources!Workers -> Jobs] /\ work'[w].at = "up" /\ work'[w].link = n
        /\ work'[w].id = work[w].id /\ \A v \in Sources!Workers \ {w} : work'[v] = work[v]
    BY <1>0, <2>1 DEF Jobs
  <2>7. QuietStep
    BY <1>0, <2>1, <2>3, <2>5, <2>6 DEF QuietStep
  <2> QED BY <2>7, QuietKeeps
<1>3. ASSUME NEW w \in Sources!Workers, Sources!EstablishFails(w) PROVE SourcesInv'
  <2> DEFINE n == work[w].link
  <2>1. /\ work[w].at = "starting" /\ links' = Sources!Cancelled(links, n)
        /\ UNCHANGED <<servers, accounts, remembered, hub, todo, running, versions>>
        /\ \/ w = 0 /\ work' = [work EXCEPT ![w].at = "failed", ![w].link = 0] /\ reply' = reply
           \/ work' = [work EXCEPT ![w] = Sources!Idle] /\ reply' = [reply EXCEPT ![work[w].id] = "none"]
    BY <1>3 DEF Sources!EstablishFails, Sources!Told
  <2>2. n \in 1..Len(links) /\ work[w].id \in Sources!Ids
    BY <2>1 DEF SetUpOwned
  <2>3. Follows(links, links') /\ links'[n].state = "over"
    BY <1>0, <2>1, <2>2, CancelledFollows
  <2>4. /\ work' \in [Sources!Workers -> Jobs] /\ work'[w].link = 0
        /\ work'[w].at = "idle" \/ (w = 0 /\ work'[w].at = "failed" /\ work'[w].id \in Sources!Ids)
        /\ \A v \in Sources!Workers \ {w} : work'[v] = work[v]
    BY <1>0, <2>1, <2>2, IdleJob DEF Jobs
  <2>5. reply' \in [Sources!Ids -> Replies] /\ \A id \in Sources!Ids : reply'[id] \in {reply[id], "none"}
    BY <1>0, <2>1 DEF Replies
  <2>6. QuietStep
    BY <1>0, <2>1, <2>3, <2>4, <2>5 DEF QuietStep, Follows
  <2> QED BY <2>6, QuietKeeps
<1>4. ASSUME Sources!RestoreNotes PROVE SourcesInv'
  <2>1. /\ work[0].at = "failed" /\ hub' = [hub EXCEPT !.errors = @ \cup {work[0].id}]
        /\ work' = [work EXCEPT ![0] = Sources!Idle]
        /\ UNCHANGED <<servers, accounts, remembered, links, todo, running, versions, reply>>
    BY <1>4 DEF Sources!RestoreNotes
  <2>2. work[0].id \in Sources!Ids /\ 0 \in Sources!Workers
    BY <1>0, <2>1 DEF SetUpOwned
  <2>3. hub' \in Hubs /\ hub'.connections = hub.connections
    BY <1>0, <2>1, <2>2 DEF Hubs
  <2> QED BY <1>0, <2>1, <2>2, <2>3, IdleJob, JobChanges
<1>5. ASSUME NEW w \in Pages, NEW id \in Sources!Ids, Sources!Connect(w, id) PROVE SourcesInv'
  <2>1. /\ work[w].at = "idle" /\ UNCHANGED <<servers, accounts, remembered, hub, todo, running, versions>>
        /\ \/ Sources!CanBegin(id) /\ Sources!Begin(w, id, FALSE) /\ UNCHANGED reply
           \/ reply' = [reply EXCEPT ![id] = "none"] /\ UNCHANGED <<links, work>>
    BY <1>5 DEF Sources!Connect, Sources!Told
  <2>2. CASE Sources!CanBegin(id) /\ Sources!Begin(w, id, FALSE) /\ UNCHANGED reply
    <3>1. id \in OauthPresets => id \in accounts
      BY <2>2, NamesAssumption DEF Sources!CanBegin
    <3> QED BY <1>0, <2>1, <2>2, <3>1, BeginKeeps
  <2>3. CASE reply' = [reply EXCEPT ![id] = "none"] /\ UNCHANGED <<links, work>>
    <3>1. QuietStep
      BY <1>0, <2>1, <2>3, SessionsUnchanged DEF QuietStep, Replies
    <3> QED BY <3>1, QuietKeeps
  <2> QED BY <2>1, <2>2, <2>3
<1>6. ASSUME NEW w \in Pages, NEW id \in Sources!Ids, Sources!ConnectWithToken(w, id) PROVE SourcesInv'
  <2>1. /\ work[w].at = "idle" /\ UNCHANGED <<servers, remembered, hub, todo, running, versions>>
        /\ \/ accounts' = accounts \cup {id} /\ Sources!Begin(w, id, FALSE) /\ UNCHANGED reply
           \/ reply' = [reply EXCEPT ![id] = "none"] /\ UNCHANGED <<accounts, links, work>>
    BY <1>6 DEF Sources!ConnectWithToken, Sources!Told
  <2>2. CASE accounts' = accounts \cup {id} /\ Sources!Begin(w, id, FALSE) /\ UNCHANGED reply
    BY <1>0, <2>1, <2>2, BeginKeeps
  <2>3. CASE reply' = [reply EXCEPT ![id] = "none"] /\ UNCHANGED <<accounts, links, work>>
    <3>1. QuietStep
      BY <1>0, <2>1, <2>3, SessionsUnchanged DEF QuietStep, Replies
    <3> QED BY <3>1, QuietKeeps
  <2> QED BY <2>1, <2>2, <2>3
<1>7. ASSUME NEW w \in Pages, Sources!SignedIn(w) PROVE SourcesInv'
  <2> DEFINE id == work[w].id
  <2>1. /\ work[w].at = "signed"
        /\ UNCHANGED <<servers, accounts, remembered, hub, todo, running, versions>>
        /\ \/ Sources!CanBegin(id) /\ Sources!Begin(w, id, TRUE) /\ UNCHANGED reply
           \/ /\ work' = [work EXCEPT ![w] = Sources!Idle] /\ reply' = [reply EXCEPT ![id] = "none"]
              /\ UNCHANGED links
    BY <1>7 DEF Sources!SignedIn, Sources!Told
  <2>2. id \in Sources!Ids
    BY <1>0, <2>1 DEF SetUpOwned
  <2>3. CASE Sources!CanBegin(id) /\ Sources!Begin(w, id, TRUE) /\ UNCHANGED reply
    <3>1. id \in OauthPresets => id \in accounts
      BY <2>3, NamesAssumption DEF Sources!CanBegin
    <3> QED BY <1>0, <2>1, <2>2, <2>3, <3>1, BeginKeeps
  <2>4. CASE /\ work' = [work EXCEPT ![w] = Sources!Idle] /\ reply' = [reply EXCEPT ![id] = "none"]
             /\ UNCHANGED links
    BY <1>0, <2>1, <2>2, <2>4, IdleJob, JobChanges
  <2> QED BY <2>1, <2>3, <2>4
<1>8. ASSUME NEW w \in Pages, NEW id \in OauthPresets, Sources!SignIn(w, id) PROVE SourcesInv'
  <2> DEFINE job == [at |-> "signin", id |-> id, link |-> 0, lease |-> TRUE]
  <2>1. /\ work[w].at = "idle" /\ work' = [work EXCEPT ![w] = job]
        /\ UNCHANGED <<servers, accounts, remembered, hub, links, todo, running, versions, reply>>
    BY <1>8 DEF Sources!SignIn
  <2>2. job \in Jobs /\ w \in Sources!Workers
    BY <1>0 DEF Jobs
  <2> QED BY <1>0, <2>1, <2>2, JobChanges
<1>9. ASSUME NEW w \in Pages, Sources!CallbackTaken(w) PROVE SourcesInv'
  <2> DEFINE job == [work[w] EXCEPT !.at = "signed"]
  <2>1. /\ work[w].at = "signin" /\ work' = [work EXCEPT ![w] = job]
        /\ accounts' = accounts \cup {work[w].id}
        /\ UNCHANGED <<servers, remembered, hub, links, todo, running, versions, reply>>
    BY <1>9 DEF Sources!CallbackTaken
  <2>2. work[w].id \in OauthPresets /\ work[w].link = 0 /\ w \in Sources!Workers
    BY <1>0, <2>1 DEF SetUpOwned
  <2>3. job \in Jobs /\ job.at = "signed" /\ job.link = 0 /\ job.id \in OauthPresets
    <3>1. work[w] \in Jobs
      BY <1>0, <2>2
    <3> QED BY <2>2, <3>1 DEF Jobs
  <2> QED BY <1>0, <2>1, <2>2, <2>3, JobChanges
<1>10. ASSUME NEW w \in Pages, Sources!SignInEnds(w) PROVE SourcesInv'
  <2>1. /\ work[w].at \in {"signin", "signed"} /\ work' = [work EXCEPT ![w] = Sources!Idle]
        /\ reply' = [reply EXCEPT ![work[w].id] = "none"]
        /\ UNCHANGED <<servers, accounts, remembered, hub, links, todo, running, versions>>
    BY <1>10 DEF Sources!SignInEnds, Sources!Told
  <2>2. work[w].id \in Sources!Ids
    BY <1>0, <2>1 DEF SetUpOwned
  <2> QED BY <1>0, <2>1, <2>2, IdleJob, JobChanges
<1>11. ASSUME Sources!Dies PROVE SourcesInv'
  <2>1. PICK n \in 1..Len(links) : links' = Sources!Cancelled(links, n)
    BY <1>0, <1>11 DEF Sources!Dies, Sources!Cancelled
  <2>2. Follows(links, links')
    BY <1>0, <2>1, CancelledFollows
  <2>3. UNCHANGED <<servers, accounts, remembered, hub, work, todo, running, versions, reply>>
    BY <1>11 DEF Sources!Dies
  <2>4. QuietStep
    BY <1>0, <2>2, <2>3 DEF QuietStep, Follows
  <2> QED BY <2>4, QuietKeeps
<1>12. ASSUME NEW id \in LocalServers, Sources!SaveLocal(id) PROVE SourcesInv'
  <2>1. /\ hub.connections[id] = 0 /\ versions' = versions + 1
        /\ servers' = [servers EXCEPT ![id] = versions + 1] /\ links' = Sources!Overtaken(links, id)
        /\ UNCHANGED <<accounts, remembered, hub, work, todo, running, reply>>
    BY <1>12 DEF Sources!SaveLocal
  <2>2. servers' \in [LocalServers -> Nat] /\ versions' \in Nat
    BY <2>1 DEF SourcesType
  <2>3. \A j \in Sources!Ids : reply'[j] = reply[j] \/ (j = id /\ reply'[j] \in {"off", "none"})
    BY <2>1
  <2> QED BY <1>0, <2>1, <2>2, <2>3, EditKeeps
<1>13. ASSUME NEW w \in Pages, NEW id \in LocalServers, Sources!RemoveLocal(w, id) PROVE SourcesInv'
  <2>1. /\ hub.connections[id] = 0
        /\ servers' = [servers EXCEPT ![id] = 0] /\ links' = Sources!Overtaken(links, id)
        /\ \/ remembered' = remembered \ {id} /\ reply' = [reply EXCEPT ![id] = "off"]
           \/ remembered' = remembered /\ reply' = [reply EXCEPT ![id] = "none"]
        /\ UNCHANGED <<accounts, hub, work, todo, running, versions>>
    BY <1>13 DEF Sources!RemoveLocal, Sources!Told
  <2>2. servers' \in [LocalServers -> Nat] /\ versions' \in Nat
    BY <2>1 DEF SourcesType
  <2>3. /\ reply' \in [Sources!Ids -> Replies] /\ reply'[id] \in {"off", "none"}
        /\ \A j \in Sources!Ids \ {id} : reply'[j] = reply[j]
    BY <1>0, <2>1 DEF Replies
  <2> QED BY <1>0, <2>1, <2>2, <2>3, EditKeeps
<1>14. ASSUME Sources!Quit PROVE SourcesInv'
  BY <1>14, QuitKeeps
<1>15. CASE \E w \in Pages, id \in Sources!Ids, forget \in BOOLEAN : Sources!Disconnect(w, id, forget)
  BY <1>15, DisconnectKeeps
<1>16. CASE \E w \in Pages : Sources!PageRecords(w)
  BY <1>16, PageRecordsKeeps
<1> QED
  BY <1>1, <1>2, <1>3, <1>4, <1>5, <1>6, <1>7, <1>8, <1>9, <1>10, <1>11, <1>12, <1>13, <1>14, <1>15,
     <1>16, RestoreRecordsKeeps DEF Sources!Next

LEMMA SourcesOrNot ==
    ASSUME SourcesInv, [AccessNext]_everything PROVE SourcesInv'
<1>1. CASE Sources!Next
  BY <1>1, SourcesStep
<1>2. CASE UNCHANGED sources
  <2>1. /\ servers' = servers /\ accounts' = accounts /\ remembered' = remembered /\ hub' = hub
        /\ links' = links /\ work' = work /\ todo' = todo /\ running' = running
        /\ versions' = versions /\ reply' = reply
    BY <1>2 DEF sources
  <2>2. SourcesType' /\ SetUpOwned' /\ HubOwned'
    BY <2>1 DEF SourcesInv, SourcesType, SetUpOwned, HubOwned
  <2>3. LivesKept' /\ KeptBacked'
    BY <2>1 DEF SourcesInv, LivesKept, KeptBacked, Kept, Sources!Version
  <2>4. Sources!OffIsOff' /\ Sources!OnIsKept'
    BY <2>1 DEF SourcesInv, Sources!OffIsOff, Sources!OnIsKept
  <2> QED BY <2>2, <2>3, <2>4 DEF SourcesInv
<1> QED BY <1>1, <1>2 DEF AccessNext, LockStep, SourceStep, LoginStep, InputStep, SlotStep, StreamStep, Rests, everything

(* What the hub, the vault, the store and the user know of a connector      *)
(* agree, whatever commands overlap: no live session is forgotten, off is   *)
(* off, on will be restored, and a session has the configuration and the    *)
(* account it was set up with unless they changed meanwhile (McpHub).       *)
THEOREM ConnectionsAgree == AccessSpec => []ConnectionsHold
<1>1. AccessInit => SourcesInv
  BY InitSources
<1>2. SourcesInv /\ [AccessNext]_everything => SourcesInv'
  BY SourcesOrNot
<1>3. SourcesInv => ConnectionsHold
  BY SourcesHold
<1> QED BY <1>1, <1>2, <1>3, PTL DEF AccessSpec

-----------------------------------------------------------------------------
(* Slots of language servers *)

Ages == {"none", "new", "old"}
Asked == [at : {"idle", "asked", "found", "permit", "using"}, key : Keys,
          slot : Slots!Slots \cup {0}, session : Ages, retired : BOOLEAN]

SlotType ==
    /\ registry \in [Keys -> Slots!Slots \cup {0}]
    /\ pooled \in [Slots!Slots -> Ages]
    /\ req \in [Requests -> Asked]
    /\ retire \in [at : {"none", "clear", "shutdown", "waiting"}, busy : SUBSET Slots!Slots]

(* A request has a slot once it has found it, and a session only while it   *)
(* uses the slot.                                                           *)
Placed ==
    \A r \in Requests :
       /\ req[r].at \in {"idle", "asked"} <=> req[r].slot = 0
       /\ req[r].at # "using" => req[r].session = "none"

(* Keys do not share slots, and there are no more than permits.             *)
Bounded ==
    /\ \A j, k \in Keys : registry[j] = registry[k] /\ registry[j] # 0 => j = k
    /\ Cardinality(Slots!Registered(registry)) <= MaxSlots
    /\ Cardinality(retire.busy) <= MaxSlots
    /\ retire.at # "waiting" => retire.busy = {}

Unreferred == \A s \in Slots!Slots \ Slots!Referred(registry, req, retire) : pooled[s] = "none"

(* A slot is locked by one request, which has taken what was in it.         *)
LocksHold ==
    \A r \in Requests : Slots!HasLock(r) =>
       /\ pooled[req[r].slot] = "none"
       /\ \A q \in Requests : Slots!HasLock(q) /\ req[q].slot = req[r].slot => q = r

(* But between the announcement of a retirement and the emptying of the     *)
(* registry, what the registry refers to is of the configuration in force.  *)
Young ==
    retire.at \in {"none", "waiting"} =>
       /\ \A s \in Slots!Registered(registry) : pooled[s] # "old"
       /\ \A r \in Requests : req[r].slot \in Slots!Registered(registry) => req[r].session # "old"

SlotInv == SlotType /\ Placed /\ Bounded /\ Unreferred /\ LocksHold /\ Young

(* The instance has a cardinality of its own; it is the same. *)
LEMMA SlotCardinality == \A S : Slots!Cardinality(S) = Cardinality(S)
BY DEF Slots!Cardinality, Cardinality

LEMMA SlotsFinite ==
    /\ IsFiniteSet(Slots!Slots) /\ Cardinality(Requests) \in Nat
    /\ Cardinality(Slots!Slots) = 2 * MaxSlots + Cardinality(Requests)
    /\ 0 \notin Slots!Slots
<1>1. Cardinality(Requests) \in Nat /\ MaxSlots \in Nat
  BY FS_CardinalityType, SlotsAssumption
<1>2. 1 \in Int /\ 2 * MaxSlots + Cardinality(Requests) \in Int
  BY <1>1
<1>3. /\ IsFiniteSet(1 .. 2 * MaxSlots + Cardinality(Requests))
      /\ Cardinality(1 .. 2 * MaxSlots + Cardinality(Requests)) = 2 * MaxSlots + Cardinality(Requests)
  BY <1>1, <1>2, FS_Interval, SlotsAssumption
<1>4. 0 \notin 1 .. 2 * MaxSlots + Cardinality(Requests)
  OBVIOUS
<1>5. Slots!Slots = 1 .. 2 * MaxSlots + Cardinality(Requests)
  BY SlotCardinality DEF Slots!Slots
<1>6. IsFiniteSet(Slots!Slots) /\ Cardinality(Slots!Slots) = 2 * MaxSlots + Cardinality(Requests)
  BY <1>3, <1>5
<1> QED BY <1>1, <1>4, <1>5, <1>6

(* A set of naturals has a least member. *)
LEMMA LeastNumber ==
    ASSUME NEW S \in SUBSET Nat, S # {}
    PROVE  \E k \in S : \A l \in S : k <= l
<1> DEFINE R == StrictSubsetOrdering(Nat)
           T == {0 .. k : k \in S}
<1>1. IsWellFoundedOn(R, FiniteSubsetsOf(Nat))
  BY FS_StrictSubsetOrderingWellFounded
<1>2. T \in SUBSET FiniteSubsetsOf(Nat)
  <2>1. ASSUME NEW k \in S PROVE IsFiniteSet(0 .. k)
    BY FS_Interval, k \in Int, 0 \in Int
  <2> QED BY <2>1 DEF FiniteSubsetsOf
<1>3. T # {}
  OBVIOUS
<1> HIDE DEF T, R
<1>4. PICK t \in T : \A u \in T : ~(<<u, t>> \in R)
  BY <1>1, <1>2, <1>3, WFMin
<1>5. PICK k \in S : t = 0 .. k
  BY DEF T
<1>6. ASSUME NEW l \in S, ~(k <= l) PROVE FALSE
  <2>1. 0 .. l \in T
    BY DEF T
  <2>2. 0 .. l \subseteq 0 .. k /\ 0 .. l # 0 .. k
    <3>1. k \in 0 .. k /\ k \notin 0 .. l
      BY <1>6
    <3>2. 0 .. l \subseteq 0 .. k
      BY <1>6
    <3> QED BY <3>1, <3>2
  <2>3. <<0 .. l, 0 .. k>> \in R
    BY <2>2 DEF R, StrictSubsetOrdering
  <2> QED BY <1>4, <1>5, <2>1, <2>3
<1> QED BY <1>6

LEMMA FirstKeyIsKey ==
    ASSUME NEW S \in SUBSET Nat, S # {}
    PROVE  Slots!FirstKey(S) \in S
BY LeastNumber DEF Slots!FirstKey

LEMMA RegisteredFinite ==
    ASSUME NEW reg \in [Keys -> Slots!Slots \cup {0}]
    PROVE  /\ Slots!Registered(reg) \in SUBSET Slots!Slots
           /\ IsFiniteSet(Slots!Registered(reg)) /\ Cardinality(Slots!Registered(reg)) \in Nat
<1>1. Slots!Registered(reg) \in SUBSET Slots!Slots
  BY DEF Slots!Registered
<1> QED BY <1>1, SlotsFinite, FS_Subset, FS_CardinalityType

(* There are enough slots: a request without one finds a fresh one. *)
LEMMA FreshSlot ==
    ASSUME SlotInv, NEW r \in Requests, req[r].slot = 0
    PROVE  \E s \in Slots!Slots : s \notin Slots!Referred(registry, req, retire)
<1> DEFINE others == Requests \ {r}
           inUse == {req[q].slot : q \in others}
           A == Slots!Registered(registry)
           B == retire.busy
<1>1. IsFiniteSet(Requests) /\ MaxSlots \in Nat
  BY SlotsAssumption
<1>2. IsFiniteSet(others) /\ Cardinality(others) = Cardinality(Requests) - 1
  BY <1>1, FS_RemoveElement
<1>3. IsFiniteSet(inUse) /\ Cardinality(inUse) <= Cardinality(others)
  <2> DEFINE f == [q \in others |-> req[q].slot]
  <2>1. f \in Surjection(others, inUse)
    BY DEF Surjection
  <2> HIDE DEF f, inUse, others
  <2> QED BY <1>2, <2>1, FS_Surjection
<1>4. IsFiniteSet(A) /\ Cardinality(A) <= MaxSlots
  BY RegisteredFinite DEF SlotInv, SlotType, Bounded
<1>5. IsFiniteSet(B) /\ Cardinality(B) <= MaxSlots
  BY SlotsFinite, FS_Subset DEF SlotInv, SlotType, Bounded
<1>6. SUFFICES ASSUME \A s \in Slots!Slots : s \in Slots!Referred(registry, req, retire) PROVE FALSE
  OBVIOUS
<1>7. Slots!Slots \subseteq (A \cup inUse) \cup B
  BY <1>6, SlotsFinite DEF Slots!Referred
<1> HIDE DEF others, inUse, A, B
<1>8. IsFiniteSet(A \cup inUse) /\ Cardinality(A \cup inUse) <= Cardinality(A) + Cardinality(inUse)
  <2>1. IsFiniteSet(A \cap inUse)
    BY <1>4, FS_Subset
  <2>2. Cardinality(A \cap inUse) \in Nat /\ Cardinality(A) \in Nat /\ Cardinality(inUse) \in Nat
    BY <1>3, <1>4, <2>1, FS_CardinalityType
  <2>3. /\ IsFiniteSet(A \cup inUse)
        /\ Cardinality(A \cup inUse) = Cardinality(A) + Cardinality(inUse) - Cardinality(A \cap inUse)
    BY <1>3, <1>4, FS_Union
  <2> QED BY <2>2, <2>3
<1>9. /\ IsFiniteSet((A \cup inUse) \cup B)
      /\ Cardinality((A \cup inUse) \cup B) <= Cardinality(A \cup inUse) + Cardinality(B)
  <2> DEFINE C == A \cup inUse
  <2>1. IsFiniteSet(C)
    BY <1>8
  <2> HIDE DEF C
  <2>2. IsFiniteSet(C \cap B)
    BY <1>5, FS_Subset
  <2>3. Cardinality(C \cap B) \in Nat /\ Cardinality(C) \in Nat /\ Cardinality(B) \in Nat
    BY <1>5, <2>1, <2>2, FS_CardinalityType
  <2>4. IsFiniteSet(C \cup B) /\ Cardinality(C \cup B) = Cardinality(C) + Cardinality(B) - Cardinality(C \cap B)
    BY <1>5, <2>1, FS_Union
  <2>5. IsFiniteSet(C \cup B) /\ Cardinality(C \cup B) <= Cardinality(C) + Cardinality(B)
    BY <2>3, <2>4
  <2> QED BY <2>5 DEF C
<1>10. Cardinality(Slots!Slots) <= Cardinality((A \cup inUse) \cup B)
  BY <1>7, <1>9, FS_Subset
<1>11. /\ Cardinality(A) \in Nat /\ Cardinality(B) \in Nat /\ Cardinality(inUse) \in Nat
       /\ Cardinality(A \cup inUse) \in Nat /\ Cardinality((A \cup inUse) \cup B) \in Nat
       /\ Cardinality(others) \in Nat
  BY <1>2, <1>3, <1>4, <1>5, <1>8, <1>9, FS_CardinalityType
<1> QED BY <1>1, <1>2, <1>3, <1>4, <1>5, <1>8, <1>9, <1>10, <1>11, SlotsFinite

LEMMA InitSlots == ASSUME Slots!Init PROVE SlotInv
<1> USE DEF Slots!Init
<1>1. Slots!Registered(registry) = {}
  BY DEF Slots!Registered
<1>2. Slots!Idle \in Asked /\ Slots!Idle.at = "idle" /\ Slots!Idle.slot = 0 /\ Slots!Idle.session = "none"
  BY SlotsAssumption DEF Slots!Idle, Asked, Ages
<1>3. SlotType
  BY <1>2 DEF SlotType, Slots!NoRetirement, Ages
<1>4. Placed
  BY <1>2 DEF Placed
<1>5. Bounded
  <2>1. Cardinality({}) <= MaxSlots
    BY FS_EmptySet, SlotsAssumption
  <2> QED BY <1>1, <2>1 DEF Bounded, Slots!NoRetirement
<1>6. Unreferred /\ Young
  BY <1>1 DEF Unreferred, Young, Slots!NoRetirement
<1>7. LocksHold
  BY <1>2 DEF LocksHold, Slots!HasLock
<1> QED BY <1>3, <1>4, <1>5, <1>6, <1>7 DEF SlotInv

(* A request changes and leaves the others alone. *)
LEMMA RequestMoved ==
    ASSUME SlotInv, NEW r \in Requests, NEW x \in Asked, req' = [req EXCEPT ![r] = x],
           x.at \in {"idle", "asked"} <=> x.slot = 0, x.at # "using" => x.session = "none"
    PROVE  /\ req' \in [Requests -> Asked] /\ req'[r] = x
           /\ \A q \in Requests : q # r => req'[q] = req[q]
           /\ Placed'
<1>1. req' \in [Requests -> Asked] /\ req'[r] = x /\ \A q \in Requests : q # r => req'[q] = req[q]
  BY DEF SlotInv, SlotType
<1> QED BY <1>1 DEF SlotInv, Placed

(* After a step to new references nothing unreferred keeps a session. *)
LEMMA Referring ==
    ASSUME NEW slots2 \in [Slots!Slots -> Ages],
           pooled' = [s \in Slots!Slots |-> IF s \in Slots!Referred(registry', req', retire') THEN slots2[s] ELSE "none"]
    PROVE  /\ pooled' \in [Slots!Slots -> Ages] /\ Unreferred'
           /\ \A s \in Slots!Slots : pooled'[s] = slots2[s] \/ pooled'[s] = "none"
BY DEF Unreferred, Ages

LEMMA IdleIsAsked ==
    /\ Slots!Idle \in Asked /\ Slots!Idle.at = "idle" /\ Slots!Idle.slot = 0 /\ Slots!Idle.session = "none"
    /\ \A k \in Keys : [Slots!Idle EXCEPT !.at = "asked", !.key = k] \in Asked
BY SlotsAssumption DEF Slots!Idle, Asked, Ages

LEMMA SlotAsk == ASSUME SlotInv, NEW r \in Requests, Slots!Ask(r) PROVE SlotInv'
<1> USE DEF Slots!Ask
<1>1. PICK k \in Keys : req' = [req EXCEPT ![r] = [Slots!Idle EXCEPT !.at = "asked", !.key = k]]
  OBVIOUS
<1> DEFINE x == [Slots!Idle EXCEPT !.at = "asked", !.key = k]
<1>2. x \in Asked /\ x.at = "asked" /\ x.slot = 0 /\ x.session = "none"
  BY IdleIsAsked DEF Asked
<1>3. UNCHANGED <<registry, pooled, retire>> /\ req[r].slot = 0
  BY DEF SlotInv, Placed
<1> HIDE DEF Slots!Ask, x
<1>4. /\ req' \in [Requests -> Asked] /\ req'[r] = x
      /\ \A q \in Requests : q # r => req'[q] = req[q]
      /\ Placed'
  BY <1>1, <1>2, RequestMoved DEF x
<1>5. SlotType'
  BY <1>3, <1>4 DEF SlotInv, SlotType
<1>6. Bounded'
  BY <1>3 DEF SlotInv, Bounded, Slots!Registered
<1>7. Unreferred'
  <2>1. \A q \in Requests : req'[q].slot = req[q].slot
    BY <1>2, <1>3, <1>4
  <2> QED BY <1>3, <2>1 DEF SlotInv, Unreferred, Slots!Referred, Slots!Registered
<1>8. LocksHold'
  BY <1>2, <1>3, <1>4 DEF SlotInv, LocksHold, Slots!HasLock
<1>9. Young'
  BY <1>2, <1>3, <1>4 DEF SlotInv, Young, Slots!Registered
<1> QED BY <1>4, <1>5, <1>6, <1>7, <1>8, <1>9 DEF SlotInv

(* The first free key, when the registry is full, makes room. *)
LEMMA Room ==
    ASSUME SlotInv, NEW reg, Slots!Full => Slots!Removable # {},
           reg = IF Slots!Full THEN [registry EXCEPT ![Slots!FirstKey(Slots!Removable)] = 0] ELSE registry
    PROVE  /\ reg \in [Keys -> Slots!Slots \cup {0}]
           /\ \A k \in Keys : reg[k] = registry[k] \/ reg[k] = 0
           /\ Cardinality(Slots!Registered(reg)) < MaxSlots
<1>1. MaxSlots \in Nat /\ Slots!Removable \in SUBSET Nat /\ Slots!Removable \subseteq Keys
  BY SlotsAssumption DEF Slots!Removable
<1>2. /\ IsFiniteSet(Slots!Registered(registry)) /\ Cardinality(Slots!Registered(registry)) \in Nat
      /\ registry \in [Keys -> Slots!Slots \cup {0}]
  BY RegisteredFinite DEF SlotInv, SlotType
<1>3. CASE ~Slots!Full
  BY <1>1, <1>2, <1>3, SlotCardinality DEF Slots!Full
<1>4. CASE Slots!Full
  <2> DEFINE first == Slots!FirstKey(Slots!Removable)
  <2>1. first \in Slots!Removable
    BY <1>1, <1>4, FirstKeyIsKey
  <2> HIDE DEF first
  <2>2. first \in Keys /\ registry[first] # 0 /\ reg = [registry EXCEPT ![first] = 0]
    BY <1>4, <2>1 DEF Slots!Removable, first
  <2>3. Slots!Registered(reg) = Slots!Registered(registry) \ {registry[first]}
    BY <1>2, <2>2 DEF Slots!Registered, SlotInv, Bounded
  <2>4. registry[first] \in Slots!Registered(registry)
    BY <2>2 DEF Slots!Registered
  <2>5. Cardinality(Slots!Registered(reg)) = Cardinality(Slots!Registered(registry)) - 1
    BY <1>2, <2>3, <2>4, FS_RemoveElement
  <2>6. Cardinality(Slots!Registered(registry)) <= MaxSlots
    BY DEF SlotInv, Bounded
  <2> QED BY <1>1, <1>2, <2>2, <2>5, <2>6
<1> QED BY <1>3, <1>4

LEMMA SlotFindSlot == ASSUME SlotInv, NEW r \in Requests, Slots!FindSlot(r) PROVE SlotInv'
<1> USE DEF Slots!FindSlot, Slots!Refers
<1> DEFINE k == req[r].key
           fresh == CHOOSE s \in Slots!Slots : s \notin Slots!Referred(registry, req, retire)
           room == IF Slots!Full THEN [registry EXCEPT ![Slots!FirstKey(Slots!Removable)] = 0] ELSE registry
<1>1. /\ req[r] \in Asked /\ req[r].at = "asked" /\ req[r].slot = 0 /\ req[r].session = "none" /\ k \in Keys
      /\ registry \in [Keys -> Slots!Slots \cup {0}] /\ pooled \in [Slots!Slots -> Ages]
  BY DEF SlotInv, SlotType, Placed, Asked
<1>2. fresh \in Slots!Slots /\ fresh \notin Slots!Referred(registry, req, retire)
  BY <1>1, FreshSlot
<1>3. /\ retire' = retire
      /\ pooled' = [s \in Slots!Slots |-> IF s \in Slots!Referred(registry', req', retire') THEN pooled[s] ELSE "none"]
  BY Zenon
<1>4. \/ /\ registry[k] # 0 /\ registry' = registry
         /\ req' = [req EXCEPT ![r].at = "found", ![r].slot = registry[k]]
      \/ /\ registry[k] = 0 /\ (Slots!Full => Slots!Removable # {})
         /\ registry' = [room EXCEPT ![k] = fresh]
         /\ req' = [req EXCEPT ![r].at = "found", ![r].slot = fresh]
      \/ registry[k] = 0 /\ registry' = registry /\ req' = [req EXCEPT ![r] = Slots!Idle]
  BY Zenon
<1> HIDE DEF Slots!FindSlot, Slots!Refers, k, fresh, room
<1>5. /\ pooled' \in [Slots!Slots -> Ages] /\ Unreferred'
      /\ \A s \in Slots!Slots : pooled'[s] = pooled[s] \/ pooled'[s] = "none"
  BY <1>1, <1>3, Referring
<1>6. CASE registry[k] # 0 /\ registry' = registry /\ req' = [req EXCEPT ![r].at = "found", ![r].slot = registry[k]]
  <2> DEFINE x == [req[r] EXCEPT !.at = "found", !.slot = registry[k]]
  <2>1. x \in Asked /\ x.at = "found" /\ x.slot = registry[k] /\ x.session = "none"
    BY <1>1 DEF Asked
  <2>2. req' = [req EXCEPT ![r] = x]
    BY <1>6 DEF SlotInv, SlotType
  <2> HIDE DEF x
  <2>3. /\ req' \in [Requests -> Asked] /\ req'[r] = x
        /\ \A q \in Requests : q # r => req'[q] = req[q]
        /\ Placed'
    BY <1>6, <2>1, <2>2, RequestMoved
  <2>4. SlotType'
    BY <1>3, <1>5, <1>6, <2>3 DEF SlotInv, SlotType
  <2>5. Bounded'
    BY <1>3, <1>6 DEF SlotInv, Bounded, Slots!Registered
  <2>6. LocksHold'
    BY <1>5, <2>1, <2>3 DEF SlotInv, SlotType, Placed, LocksHold, Slots!HasLock, Asked
  <2>7. Young'
    <3>1. Slots!Registered(registry') = Slots!Registered(registry)
      BY <1>6 DEF Slots!Registered
    <3>2. Slots!Registered(registry) \subseteq Slots!Slots
      BY <1>1 DEF Slots!Registered
    <3> QED BY <1>3, <1>5, <2>1, <2>3, <3>1, <3>2 DEF SlotInv, Young
  <2> QED BY <1>5, <2>3, <2>4, <2>5, <2>6, <2>7 DEF SlotInv
<1>7. CASE /\ registry[k] = 0 /\ (Slots!Full => Slots!Removable # {})
           /\ registry' = [room EXCEPT ![k] = fresh]
           /\ req' = [req EXCEPT ![r].at = "found", ![r].slot = fresh]
  <2> DEFINE x == [req[r] EXCEPT !.at = "found", !.slot = fresh]
  <2>1. x \in Asked /\ x.at = "found" /\ x.slot = fresh /\ x.session = "none"
    BY <1>1, <1>2 DEF Asked
  <2>2. req' = [req EXCEPT ![r] = x]
    BY <1>7 DEF SlotInv, SlotType
  <2> HIDE DEF x
  <2>3. /\ req' \in [Requests -> Asked] /\ req'[r] = x
        /\ \A q \in Requests : q # r => req'[q] = req[q]
        /\ Placed'
    BY <1>2, <2>1, <2>2, RequestMoved, SlotsFinite
  <2>4. /\ room \in [Keys -> Slots!Slots \cup {0}]
        /\ \A j \in Keys : room[j] = registry[j] \/ room[j] = 0
        /\ Cardinality(Slots!Registered(room)) < MaxSlots
    BY <1>7, Room DEF room
  <2>5. /\ registry' \in [Keys -> Slots!Slots \cup {0}] /\ registry'[k] = fresh
        /\ \A j \in Keys : j # k => registry'[j] = room[j]
    BY <1>1, <1>2, <1>7, <2>4
  <2>6. fresh # 0 /\ \A j \in Keys : registry[j] # fresh
    BY <1>2, SlotsFinite DEF Slots!Referred, Slots!Registered
  <2>7. /\ Slots!Registered(registry') \subseteq Slots!Registered(room) \cup {fresh}
        /\ Slots!Registered(registry') \subseteq Slots!Registered(registry) \cup {fresh}
    BY <2>4, <2>5 DEF Slots!Registered
  <2>8. SlotType'
    BY <1>3, <1>5, <2>3, <2>5 DEF SlotInv, SlotType
  <2>9. Bounded'
    <3>1. \A i, j \in Keys : registry'[i] = registry'[j] /\ registry'[i] # 0 => i = j
      BY <2>4, <2>5, <2>6 DEF SlotInv, Bounded
    <3>2. Cardinality(Slots!Registered(registry')) <= MaxSlots
      <4>1. IsFiniteSet(Slots!Registered(room)) /\ Cardinality(Slots!Registered(room)) \in Nat
        BY <2>4, RegisteredFinite
      <4>2. /\ IsFiniteSet(Slots!Registered(room) \cup {fresh})
            /\ Cardinality(Slots!Registered(room) \cup {fresh}) <= Cardinality(Slots!Registered(room)) + 1
        <5>1. Cardinality(Slots!Registered(room) \cup {fresh}) =
                IF fresh \in Slots!Registered(room) THEN Cardinality(Slots!Registered(room))
                ELSE Cardinality(Slots!Registered(room)) + 1
          BY <4>1, FS_AddElement
        <5> QED BY <4>1, <5>1, FS_AddElement
      <4>3. Cardinality(Slots!Registered(registry')) <= Cardinality(Slots!Registered(room) \cup {fresh})
        BY <2>7, <4>2, FS_Subset
      <4>4. /\ Cardinality(Slots!Registered(registry')) \in Nat
            /\ Cardinality(Slots!Registered(room) \cup {fresh}) \in Nat
        BY <2>5, <4>2, RegisteredFinite, FS_CardinalityType
      <4> QED BY <2>4, <4>1, <4>2, <4>3, <4>4, SlotsAssumption
    <3> QED BY <1>3, <3>1, <3>2 DEF SlotInv, Bounded
  <2>10. LocksHold'
    BY <1>5, <2>1, <2>3 DEF SlotInv, SlotType, Placed, LocksHold, Slots!HasLock, Asked
  <2>11. Young'
    <3>1. Slots!Registered(registry) \subseteq Slots!Slots
      BY <1>1 DEF Slots!Registered
    <3>2. pooled'[fresh] = "none"
      BY <1>2, <1>5 DEF SlotInv, Unreferred
    <3>3. \A q \in Requests : q # r => req[q].slot # fresh
      BY <1>2 DEF Slots!Referred
    <3> QED BY <1>3, <1>5, <2>1, <2>3, <2>7, <3>1, <3>2, <3>3 DEF SlotInv, Young
  <2> QED BY <1>5, <2>3, <2>8, <2>9, <2>10, <2>11 DEF SlotInv
<1>8. CASE registry' = registry /\ req' = [req EXCEPT ![r] = Slots!Idle]
  <2>3. /\ req' \in [Requests -> Asked] /\ req'[r] = Slots!Idle
        /\ \A q \in Requests : q # r => req'[q] = req[q]
        /\ Placed'
    BY <1>8, IdleIsAsked, RequestMoved
  <2>4. SlotType'
    BY <1>3, <1>5, <1>8, <2>3 DEF SlotInv, SlotType
  <2>5. Bounded'
    BY <1>3, <1>8 DEF SlotInv, Bounded, Slots!Registered
  <2>6. LocksHold'
    <3>1. ~Slots!HasLock(r)'
      BY <2>3, IdleIsAsked DEF Slots!HasLock
    <3>2. \A q \in Requests : Slots!HasLock(q)' => q # r /\ Slots!HasLock(q) /\ req'[q] = req[q] /\ req[q].slot \in Slots!Slots
      BY <2>3, <3>1 DEF SlotInv, SlotType, Placed, Slots!HasLock, Asked
    <3> QED BY <1>5, <3>2 DEF SlotInv, LocksHold
  <2>7. Young'
    <3>1. Slots!Registered(registry') = Slots!Registered(registry)
      BY <1>8 DEF Slots!Registered
    <3>2. Slots!Registered(registry) \subseteq Slots!Slots
      BY <1>1 DEF Slots!Registered
    <3> QED BY <1>3, <1>5, <2>3, <3>1, <3>2, IdleIsAsked DEF SlotInv, Young
  <2> QED BY <1>5, <2>3, <2>4, <2>5, <2>6, <2>7 DEF SlotInv
<1> QED BY <1>4, <1>6, <1>7, <1>8

LEMMA SlotLockSlot == ASSUME SlotInv, NEW r \in Requests, Slots!LockSlot(r) PROVE SlotInv'
<1> USE DEF Slots!LockSlot
<1> DEFINE s == req[r].slot
           x == IF pooled[s] = "none" THEN [req[r] EXCEPT !.at = "permit"]
                ELSE [req[r] EXCEPT !.at = "using", !.session = pooled[s]]
<1>1. /\ req[r] \in Asked /\ req[r].at = "found" /\ s \in Slots!Slots /\ req[r].session = "none"
      /\ registry \in [Keys -> Slots!Slots \cup {0}] /\ pooled \in [Slots!Slots -> Ages]
      /\ ~Slots!Locked(s) /\ UNCHANGED <<registry, retire>>
  BY DEF SlotInv, SlotType, Placed, Asked
<1>2. /\ x \in Asked /\ x.at \in {"permit", "using"} /\ x.slot = s /\ x.session = pooled[s]
      /\ x.at # "using" => x.session = "none"
  BY <1>1 DEF Asked, Ages
<1>3. req' = [req EXCEPT ![r] = x] /\ pooled' = [pooled EXCEPT ![s] = "none"]
  <2>1. CASE pooled[s] = "none"
    BY <1>1, <2>1 DEF SlotInv, SlotType
  <2>2. CASE pooled[s] # "none"
    BY <1>1, <2>2 DEF SlotInv, SlotType
  <2> QED BY <2>1, <2>2
<1> HIDE DEF Slots!LockSlot, x
<1>4. /\ req' \in [Requests -> Asked] /\ req'[r] = x
      /\ \A q \in Requests : q # r => req'[q] = req[q]
      /\ Placed'
  BY <1>1, <1>2, <1>3, RequestMoved, SlotsFinite
<1>5. pooled' \in [Slots!Slots -> Ages] /\ pooled'[s] = "none" /\ \A t \in Slots!Slots : t # s => pooled'[t] = pooled[t]
  BY <1>1, <1>3 DEF Ages
<1>6. SlotType'
  BY <1>1, <1>4, <1>5 DEF SlotInv, SlotType
<1>7. Bounded'
  BY <1>1 DEF SlotInv, Bounded, Slots!Registered
<1>8. Unreferred'
  <2>1. \A q \in Requests : req'[q].slot = req[q].slot
    BY <1>2, <1>4
  <2> QED BY <1>1, <1>5, <2>1 DEF SlotInv, Unreferred, Slots!Referred, Slots!Registered
<1>9. LocksHold'
  BY <1>1, <1>2, <1>4, <1>5 DEF SlotInv, SlotType, Placed, LocksHold, Slots!HasLock, Slots!Locked, Asked
<1>10. Young'
  <2>1. Slots!Registered(registry) \subseteq Slots!Slots
    BY <1>1 DEF Slots!Registered
  <2> QED BY <1>1, <1>2, <1>4, <1>5, <2>1 DEF SlotInv, Young
<1> QED BY <1>4, <1>6, <1>7, <1>8, <1>9, <1>10 DEF SlotInv

LEMMA SlotSpawn == ASSUME SlotInv, NEW r \in Requests, Slots!Spawn(r) PROVE SlotInv'
<1> USE DEF Slots!Spawn
<1> DEFINE x == [req[r] EXCEPT !.at = "using", !.session = "new"]
<1>1. req[r] \in Asked /\ req[r].at = "permit" /\ req[r].slot # 0 /\ UNCHANGED <<registry, pooled, retire>>
  BY DEF SlotInv, SlotType, Placed
<1>2. x \in Asked /\ x.at = "using" /\ x.slot = req[r].slot /\ x.session = "new"
  BY <1>1 DEF Asked, Ages
<1>3. req' = [req EXCEPT ![r] = x]
  BY DEF SlotInv, SlotType
<1> HIDE DEF Slots!Spawn, x
<1>4. /\ req' \in [Requests -> Asked] /\ req'[r] = x
      /\ \A q \in Requests : q # r => req'[q] = req[q]
      /\ Placed'
  BY <1>1, <1>2, <1>3, RequestMoved
<1>6. SlotType'
  BY <1>1, <1>4 DEF SlotInv, SlotType
<1>7. Bounded'
  BY <1>1 DEF SlotInv, Bounded, Slots!Registered
<1>8. Unreferred'
  <2>1. \A q \in Requests : req'[q].slot = req[q].slot
    BY <1>2, <1>4
  <2> QED BY <1>1, <2>1 DEF SlotInv, Unreferred, Slots!Referred, Slots!Registered
<1>9. LocksHold'
  BY <1>1, <1>2, <1>4 DEF SlotInv, LocksHold, Slots!HasLock
<1>10. Young'
  BY <1>1, <1>2, <1>4 DEF SlotInv, Young, Slots!Registered
<1> QED BY <1>4, <1>6, <1>7, <1>8, <1>9, <1>10 DEF SlotInv

(* A request that ends keeps nothing, and may return its session to its     *)
(* slot if the registry has not been retired since.                         *)
LEMMA RequestEnds ==
    ASSUME SlotInv, NEW r \in Requests, NEW slots2 \in [Slots!Slots -> Ages],
           req[r].at \in {"found", "permit", "using"},
           Slots!Refers(registry, [req EXCEPT ![r] = Slots!Idle], retire, slots2),
           slots2 = pooled \/ (req[r].at = "using" /\ slots2 = [pooled EXCEPT ![req[r].slot] = req[r].session])
    PROVE  SlotInv'
<1> DEFINE s == req[r].slot
<1>1. /\ req[r] \in Asked /\ s \in Slots!Slots
      /\ registry \in [Keys -> Slots!Slots \cup {0}] /\ pooled \in [Slots!Slots -> Ages]
      /\ UNCHANGED <<registry, retire>> /\ req' = [req EXCEPT ![r] = Slots!Idle]
      /\ pooled' = [t \in Slots!Slots |-> IF t \in Slots!Referred(registry', req', retire') THEN slots2[t] ELSE "none"]
  BY DEF SlotInv, SlotType, Placed, Asked, Slots!Refers
<1>2. /\ req' \in [Requests -> Asked] /\ req'[r] = Slots!Idle
      /\ \A q \in Requests : q # r => req'[q] = req[q]
      /\ Placed'
  BY <1>1, IdleIsAsked, RequestMoved
<1>3. /\ pooled' \in [Slots!Slots -> Ages] /\ Unreferred'
      /\ \A t \in Slots!Slots : pooled'[t] = slots2[t] \/ pooled'[t] = "none"
  BY <1>1, Referring
<1>4. /\ \A t \in Slots!Slots : t # s => slots2[t] = pooled[t]
      /\ slots2[s] = pooled[s] \/ (req[r].at = "using" /\ slots2[s] = req[r].session)
  BY <1>1
<1>5. \A q \in Requests : Slots!HasLock(q)' => q # r /\ Slots!HasLock(q) /\ req'[q] = req[q] /\ req[q].slot \in Slots!Slots
  <2>1. ~Slots!HasLock(r)'
    BY <1>2, IdleIsAsked DEF Slots!HasLock
  <2> QED BY <1>2, <2>1 DEF SlotInv, SlotType, Placed, Slots!HasLock, Asked
<1>6. SlotType'
  BY <1>1, <1>2, <1>3 DEF SlotInv, SlotType
<1>7. Bounded'
  BY <1>1 DEF SlotInv, Bounded, Slots!Registered
<1>8. LocksHold'
  <2>1. ASSUME NEW q \in Requests, Slots!HasLock(q)' PROVE pooled'[req'[q].slot] = "none"
    <3>1. /\ q # r /\ Slots!HasLock(q) /\ req'[q] = req[q] /\ req[q].slot \in Slots!Slots
          /\ pooled[req[q].slot] = "none"
      BY <1>5, <2>1 DEF SlotInv, LocksHold
    <3>2. CASE req[q].slot # s
      BY <1>3, <1>4, <3>1, <3>2
    <3>3. CASE req[q].slot = s
      <4>1. req[r].at # "using"
        BY <3>1, <3>3 DEF SlotInv, LocksHold, Slots!HasLock
      <4> QED BY <1>3, <1>4, <3>1, <4>1
    <3> QED BY <3>2, <3>3
  <2>2. \A p, q \in Requests : Slots!HasLock(p)' /\ Slots!HasLock(q)' /\ req'[q].slot = req'[p].slot => q = p
    BY <1>5 DEF SlotInv, LocksHold
  <2> QED BY <2>1, <2>2 DEF LocksHold
<1>9. Young'
  <2>1. Slots!Registered(registry) \subseteq Slots!Slots /\ registry' = registry /\ retire' = retire
    BY <1>1 DEF Slots!Registered
  <2> QED BY <1>2, <1>3, <1>4, <2>1, IdleIsAsked DEF SlotInv, Young
<1> QED BY <1>2, <1>3, <1>6, <1>7, <1>8, <1>9 DEF SlotInv

LEMMA SlotAnswer == ASSUME SlotInv, NEW r \in Requests, Slots!Answer(r) PROVE SlotInv'
<1>1. req[r].at = "using" /\ Slots!Refers(registry, [req EXCEPT ![r] = Slots!Idle], retire, Slots!Restored(r))
  BY DEF Slots!Answer
<1>2. /\ Slots!Restored(r) \in [Slots!Slots -> Ages]
      /\ Slots!Restored(r) = pooled \/ Slots!Restored(r) = [pooled EXCEPT ![req[r].slot] = req[r].session]
  BY <1>1 DEF Slots!Restored, SlotInv, SlotType, Asked
<1> QED BY <1>1, <1>2, RequestEnds

LEMMA SlotAbandon == ASSUME SlotInv, NEW r \in Requests, Slots!Abandon(r) PROVE SlotInv'
<1>1. /\ req[r].at \in {"found", "permit", "using"}
      /\ Slots!Refers(registry, [req EXCEPT ![r] = Slots!Idle], retire, pooled)
  BY DEF Slots!Abandon
<1>2. pooled \in [Slots!Slots -> Ages]
  BY DEF SlotInv, SlotType
<1> QED BY <1>1, <1>2, RequestEnds

(* What takes keys out of the registry, or slots off the list of a          *)
(* retirement, or sessions out of slots at rest.                            *)
LEMMA GivenUp ==
    ASSUME SlotInv, NEW reg \in [Keys -> Slots!Slots \cup {0}], NEW slots2 \in [Slots!Slots -> Ages], NEW ret,
           Slots!Refers(reg, req, ret, slots2),
           \A k \in Keys : reg[k] = registry[k] \/ reg[k] = 0,
           ret \in [at : {"none", "clear", "shutdown", "waiting"}, busy : SUBSET Slots!Slots],
           Cardinality(ret.busy) <= MaxSlots, ret.at # "waiting" => ret.busy = {},
           ret.at \in {"none", "waiting"} => retire.at \in {"none", "waiting"} \/ \A k \in Keys : reg[k] = 0,
           \A s \in Slots!Slots : slots2[s] = pooled[s] \/ slots2[s] = "none"
    PROVE  SlotInv'
<1>1. /\ registry' = reg /\ req' = req /\ retire' = ret
      /\ pooled' = [s \in Slots!Slots |-> IF s \in Slots!Referred(registry', req', retire') THEN slots2[s] ELSE "none"]
  BY DEF Slots!Refers
<1>2. /\ pooled' \in [Slots!Slots -> Ages] /\ Unreferred'
      /\ \A s \in Slots!Slots : pooled'[s] = slots2[s] \/ pooled'[s] = "none"
  BY <1>1, Referring
<1>3. Slots!Registered(reg) \subseteq Slots!Registered(registry) /\ Slots!Registered(reg) \subseteq Slots!Slots
  BY DEF Slots!Registered
<1>4. SlotType' /\ Placed'
  BY <1>1, <1>2 DEF SlotInv, SlotType, Placed
<1>5. Bounded'
  <2>1. Cardinality(Slots!Registered(reg)) <= MaxSlots
    <3>1. /\ IsFiniteSet(Slots!Registered(registry)) /\ Cardinality(Slots!Registered(registry)) \in Nat
          /\ Cardinality(Slots!Registered(reg)) \in Nat
      BY RegisteredFinite DEF SlotInv, SlotType
    <3>2. Cardinality(Slots!Registered(reg)) <= Cardinality(Slots!Registered(registry))
      BY <1>3, <3>1, FS_Subset
    <3> QED BY <3>1, <3>2, SlotsAssumption DEF SlotInv, Bounded
  <2> QED BY <1>1, <2>1 DEF SlotInv, Bounded
<1>6. LocksHold'
  <2>1. \A q \in Requests : Slots!HasLock(q)' => Slots!HasLock(q) /\ req[q].slot \in Slots!Slots
    BY <1>1 DEF SlotInv, SlotType, Placed, Slots!HasLock, Asked
  <2> QED BY <1>1, <1>2, <2>1 DEF SlotInv, LocksHold
<1>7. Young'
  <2>1. CASE \A k \in Keys : reg[k] = 0
    <3>1. Slots!Registered(reg) = {}
      BY <2>1 DEF Slots!Registered
    <3> QED BY <1>1, <3>1 DEF Young
  <2>2. CASE retire.at \in {"none", "waiting"}
    BY <1>1, <1>2, <1>3, <2>2 DEF SlotInv, Young
  <2>3. CASE ret.at \notin {"none", "waiting"}
    BY <1>1, <2>3 DEF Young
  <2> QED BY <2>1, <2>2, <2>3
<1> QED BY <1>2, <1>4, <1>5, <1>6, <1>7 DEF SlotInv

LEMMA SlotCleanup == ASSUME SlotInv, Slots!Cleanup PROVE SlotInv'
<1>1. PICK k \in Slots!Removable :
         Slots!Refers([registry EXCEPT ![k] = 0], req, retire, [pooled EXCEPT ![registry[k]] = "none"])
  BY DEF Slots!Cleanup
<1> DEFINE reg == [registry EXCEPT ![k] = 0]
           slots2 == [pooled EXCEPT ![registry[k]] = "none"]
<1>2. reg \in [Keys -> Slots!Slots \cup {0}] /\ \A j \in Keys : reg[j] = registry[j] \/ reg[j] = 0
  BY DEF SlotInv, SlotType
<1>3. slots2 \in [Slots!Slots -> Ages] /\ \A s \in Slots!Slots : slots2[s] = pooled[s] \/ slots2[s] = "none"
  BY DEF SlotInv, SlotType, Ages
<1>4. /\ retire \in [at : {"none", "clear", "shutdown", "waiting"}, busy : SUBSET Slots!Slots]
      /\ Cardinality(retire.busy) <= MaxSlots /\ (retire.at # "waiting" => retire.busy = {})
  BY DEF SlotInv, SlotType, Bounded
<1>5. Slots!Refers(reg, req, retire, slots2)
  BY <1>1
<1> HIDE DEF reg, slots2
<1> QED BY <1>2, <1>3, <1>4, <1>5, GivenUp

LEMMA SlotAnnounce == ASSUME SlotInv, Slots!Announce PROVE SlotInv'
<1> USE DEF Slots!Announce
<1>0. retire.at = "none"
  OBVIOUS
<1>1. PICK kind \in {"clear", "shutdown"} :
         /\ retire' = [Slots!NoRetirement EXCEPT !.at = kind]
         /\ req' = [r \in Requests |->
                       IF req[r].at = "idle" THEN req[r]
                       ELSE [req[r] EXCEPT !.session = Slots!Aged(@), !.retired = @ \/ kind = "shutdown"]]
  OBVIOUS
<1>2. /\ retire' \in [at : {"none", "clear", "shutdown", "waiting"}, busy : SUBSET Slots!Slots]
      /\ retire'.at \in {"clear", "shutdown"} /\ retire'.busy = {} /\ registry' = registry
  BY <1>1 DEF Slots!NoRetirement
<1>3. /\ pooled' \in [Slots!Slots -> Ages]
      /\ \A s \in Slots!Slots : pooled[s] = "none" => pooled'[s] = "none"
  BY DEF SlotInv, SlotType, Ages, Slots!Aged
<1>4. ASSUME NEW r \in Requests
      PROVE  /\ req'[r] \in Asked /\ req'[r].at = req[r].at /\ req'[r].slot = req[r].slot
             /\ req[r].session = "none" => req'[r].session = "none"
  <2>1. req[r] \in Asked
    BY DEF SlotInv, SlotType
  <2>2. Slots!Aged(req[r].session) \in Ages /\ (req[r].session = "none" => Slots!Aged(req[r].session) = "none")
    BY <2>1 DEF Asked, Ages, Slots!Aged
  <2>3. CASE req[r].at = "idle"
    BY <1>1, <2>1, <2>3
  <2>4. CASE req[r].at # "idle"
    <3>1. PICK b \in BOOLEAN : req'[r] = [req[r] EXCEPT !.session = Slots!Aged(@), !.retired = b]
      <4>1. CASE req[r].retired \/ kind = "shutdown"
        <5>1. (req[r].retired \/ kind = "shutdown") = TRUE
          BY <2>1, <4>1 DEF Asked
        <5>2. req'[r] = [req[r] EXCEPT !.session = Slots!Aged(@), !.retired = @ \/ kind = "shutdown"]
          BY <1>1, <2>4
        <5> QED BY <5>1, <5>2
      <4>2. CASE ~(req[r].retired \/ kind = "shutdown")
        <5>1. (req[r].retired \/ kind = "shutdown") = FALSE
          BY <2>1, <4>2 DEF Asked
        <5>2. req'[r] = [req[r] EXCEPT !.session = Slots!Aged(@), !.retired = @ \/ kind = "shutdown"]
          BY <1>1, <2>4
        <5> QED BY <5>1, <5>2
      <4> QED BY <4>1, <4>2
    <3> QED BY <2>1, <2>2, <3>1 DEF Asked
  <2> QED BY <2>3, <2>4
<1>5. req' = [r \in Requests |-> req'[r]]
  BY <1>1
<1> HIDE DEF Slots!Announce
<1>6. SlotType' /\ Placed'
  BY <1>2, <1>3, <1>4, <1>5 DEF SlotInv, SlotType, Placed
<1>7. Bounded'
  BY <1>2, FS_EmptySet, SlotsAssumption DEF SlotInv, Bounded, Slots!Registered
<1>8. Unreferred'
  <2>1. retire.busy = {} /\ retire'.busy = {}
    BY <1>0, <1>2 DEF SlotInv, Bounded
  <2> QED BY <1>2, <1>3, <1>4, <2>1 DEF SlotInv, Unreferred, Slots!Referred, Slots!Registered
<1>9. LocksHold'
  <2>1. \A q \in Requests : Slots!HasLock(q)' => Slots!HasLock(q) /\ req'[q].slot = req[q].slot /\ req[q].slot \in Slots!Slots
    BY <1>4 DEF SlotInv, SlotType, Placed, Slots!HasLock, Asked
  <2> QED BY <1>3, <2>1 DEF SlotInv, LocksHold
<1>10. Young'
  BY <1>2 DEF Young
<1> QED BY <1>6, <1>7, <1>8, <1>9, <1>10 DEF SlotInv

LEMMA SlotRetire == ASSUME SlotInv, Slots!Retire PROVE SlotInv'
<1> DEFINE none == Slots!NoRetirement
           waits == [at |-> "waiting", busy |-> Slots!Registered(registry) \ Slots!Unlocked]
           freed == [s \in Slots!Slots |-> IF s \in Slots!Unlocked THEN "none" ELSE pooled[s]]
<1>1. /\ Slots!Emptied \in [Keys -> Slots!Slots \cup {0}] /\ \A k \in Keys : Slots!Emptied[k] = 0
      /\ pooled \in [Slots!Slots -> Ages] /\ freed \in [Slots!Slots -> Ages]
      /\ \A s \in Slots!Slots : freed[s] = pooled[s] \/ freed[s] = "none"
  BY DEF Slots!Emptied, SlotInv, SlotType, Ages
<1>2. CASE Slots!Refers(Slots!Emptied, req, none, pooled)
  <2>1. /\ none \in [at : {"none", "clear", "shutdown", "waiting"}, busy : SUBSET Slots!Slots]
        /\ none.busy = {}
    BY DEF Slots!NoRetirement
  <2>2. Cardinality(none.busy) <= MaxSlots
    BY <2>1, FS_EmptySet, SlotsAssumption
  <2> HIDE DEF none, freed, waits
  <2> QED BY <1>1, <1>2, <2>1, <2>2, GivenUp
<1>3. CASE Slots!Refers(Slots!Emptied, req, waits, freed)
  <2>1. /\ IsFiniteSet(Slots!Registered(registry)) /\ Cardinality(Slots!Registered(registry)) \in Nat
        /\ Slots!Registered(registry) \subseteq Slots!Slots
        /\ Cardinality(Slots!Registered(registry)) <= MaxSlots
    BY RegisteredFinite DEF SlotInv, SlotType, Bounded
  <2>2. waits \in [at : {"none", "clear", "shutdown", "waiting"}, busy : SUBSET Slots!Slots] /\ waits.at = "waiting"
    BY <2>1
  <2>3. Cardinality(waits.busy) <= MaxSlots
    <3>1. waits.busy \in SUBSET Slots!Registered(registry)
      OBVIOUS
    <3> HIDE DEF waits
    <3>2. /\ Cardinality(waits.busy) <= Cardinality(Slots!Registered(registry))
          /\ Cardinality(waits.busy) \in Nat
      BY <2>1, <3>1, FS_Subset, FS_CardinalityType
    <3> QED BY <2>1, <3>2, SlotsAssumption
  <2> HIDE DEF none, freed, waits
  <2> QED BY <1>1, <1>3, <2>2, <2>3, GivenUp
<1> QED BY <1>2, <1>3, Zenon DEF Slots!Retire

LEMMA SlotCollect == ASSUME SlotInv, Slots!Collect PROVE SlotInv'
<1>1. PICK s \in retire.busy :
         Slots!Refers(registry, req, [retire EXCEPT !.busy = @ \ {s}],
                      IF Slots!Locked(s) THEN pooled ELSE [pooled EXCEPT ![s] = "none"])
  BY DEF Slots!Collect
<1> DEFINE ret == [retire EXCEPT !.busy = @ \ {s}]
           slots2 == IF Slots!Locked(s) THEN pooled ELSE [pooled EXCEPT ![s] = "none"]
<1>2. /\ registry \in [Keys -> Slots!Slots \cup {0}] /\ retire.at = "waiting"
      /\ slots2 \in [Slots!Slots -> Ages] /\ \A t \in Slots!Slots : slots2[t] = pooled[t] \/ slots2[t] = "none"
  BY DEF SlotInv, SlotType, Ages, Slots!Collect
<1>3. /\ ret \in [at : {"none", "clear", "shutdown", "waiting"}, busy : SUBSET Slots!Slots]
      /\ ret.at = "waiting" /\ ret.busy = retire.busy \ {s}
  BY <1>2 DEF SlotInv, SlotType
<1>4. Cardinality(ret.busy) <= MaxSlots
  <2>1. IsFiniteSet(retire.busy) /\ Cardinality(retire.busy) \in Nat /\ Cardinality(retire.busy) <= MaxSlots
    BY SlotsFinite, FS_Subset, FS_CardinalityType DEF SlotInv, SlotType, Bounded
  <2>2. Cardinality(retire.busy \ {s}) <= Cardinality(retire.busy) /\ Cardinality(retire.busy \ {s}) \in Nat
    BY <2>1, FS_Subset, FS_CardinalityType
  <2> QED BY <1>3, <2>1, <2>2, SlotsAssumption
<1>5. Slots!Refers(registry, req, ret, slots2)
  BY <1>1
<1> HIDE DEF ret, slots2
<1> QED BY <1>2, <1>3, <1>4, <1>5, GivenUp

LEMMA SlotRetirementEnds == ASSUME SlotInv, Slots!RetirementEnds PROVE SlotInv'
<1>1. /\ retire' = Slots!NoRetirement /\ UNCHANGED <<registry, pooled, req>>
      /\ retire.at = "waiting" /\ retire.busy = {}
  BY DEF Slots!RetirementEnds
<1>2. /\ retire' \in [at : {"none", "clear", "shutdown", "waiting"}, busy : SUBSET Slots!Slots]
      /\ retire'.at = "none" /\ retire'.busy = {}
  BY <1>1 DEF Slots!NoRetirement
<1>3. SlotType' /\ Placed' /\ LocksHold'
  BY <1>1, <1>2 DEF SlotInv, SlotType, Placed, LocksHold, Slots!HasLock
<1>4. Bounded'
  BY <1>1, <1>2 DEF SlotInv, Bounded, Slots!Registered
<1>5. Unreferred' /\ Young'
  BY <1>1, <1>2 DEF SlotInv, Unreferred, Young, Slots!Referred, Slots!Registered
<1> QED BY <1>3, <1>4, <1>5 DEF SlotInv

LEMMA SlotStays == ASSUME SlotInv, UNCHANGED <<registry, pooled, req, retire>> PROVE SlotInv'
BY DEF SlotInv, SlotType, Placed, Bounded, Unreferred, LocksHold, Young,
       Slots!HasLock, Slots!Referred, Slots!Registered

LEMMA SlotNext == ASSUME SlotInv, Slots!Next PROVE SlotInv'
<1>1. CASE \E r \in Requests : Slots!RequestStep(r)
  BY <1>1, SlotAsk, SlotFindSlot, SlotLockSlot, SlotSpawn, SlotAnswer, SlotAbandon DEF Slots!RequestStep
<1>2. CASE Slots!Left
  BY <1>2, SlotStays DEF Slots!Left
<1> QED BY <1>1, <1>2, SlotCleanup, SlotAnnounce, SlotRetire, SlotCollect, SlotRetirementEnds DEF Slots!Next

(* A request at its permit finds one: its own slot is empty, so the slots   *)
(* at rest have fewer sessions than there are permits.                      *)
LEMMA EmptySlotLeavesPermit == SlotInv => Slots!RestNeverStarves
<1> SUFFICES ASSUME SlotInv, NEW r \in Requests, Slots!Starves(r), req[r].slot \in Slots!Registered(registry)
             PROVE  FALSE
  BY DEF Slots!RestNeverStarves
<1> DEFINE A == Slots!Registered(registry)
           full == {s \in A : pooled[s] # "none"}
<1>1. IsFiniteSet(A) /\ Cardinality(A) \in Nat /\ Cardinality(A) <= MaxSlots
  BY RegisteredFinite DEF SlotInv, SlotType, Bounded
<1>2. pooled[req[r].slot] = "none" /\ req[r].slot \in A
  BY DEF SlotInv, LocksHold, Slots!Starves, Slots!HasLock
<1>3. full \in SUBSET (A \ {req[r].slot})
  BY <1>2
<1>4. Cardinality(full) >= MaxSlots
  BY SlotCardinality DEF Slots!Starves
<1> HIDE DEF A, full
<1>5. IsFiniteSet(A \ {req[r].slot}) /\ Cardinality(A \ {req[r].slot}) = Cardinality(A) - 1
  BY <1>1, <1>2, FS_RemoveElement
<1>6. Cardinality(full) <= Cardinality(A \ {req[r].slot}) /\ Cardinality(full) \in Nat
  BY <1>3, <1>5, FS_Subset, FS_CardinalityType
<1> QED BY <1>1, <1>4, <1>5, <1>6, SlotsAssumption

(* Steps of the others leave the slots alone. *)
LEMMA SlotsOrNot ==
    ASSUME [AccessNext]_everything PROVE Slots!Next \/ UNCHANGED slots
BY DEF AccessNext, LockStep, SourceStep, LoginStep, InputStep, SlotStep, StreamStep, Rests, everything

(* Once a retirement is over no request finds a session that began before   *)
(* it, and sessions at rest never hold the permit a request waits for       *)
(* (clear, shutdown, restore and slot of lsp_client.rs).                    *)
THEOREM SlotsAreCurrent == AccessSpec => []SlotsHold
<1>1. AccessInit => SlotInv
  BY InitSlots DEF AccessInit
<1>2. SlotInv /\ [AccessNext]_everything => SlotInv'
  BY SlotNext, SlotStays, SlotsOrNot DEF slots
<1>3. SlotInv => Slots!OldAreGone
  BY DEF SlotInv, Young, Slots!OldAreGone, Slots!NoRetirement
<1>4. SlotInv => SlotsHold
  BY <1>3, EmptySlotLeavesPermit DEF SlotsHold, Slots!SlotsHold
<1> QED BY <1>1, <1>2, <1>4, PTL DEF AccessSpec

-----------------------------------------------------------------------------
(* Questions of MCP servers *)

CallStates == [at : {"new", "calling", "asking", "ok", "error"}, session : Sessions, scope : Nat, live : BOOLEAN,
               asked : Nat, decision : {"none", "accept", "decline", "cancel"}, rounds : Nat]
QuestionStates == [at : {"unused", "checked", "waiting", "answered", "orphaned", "done"}, call : ToolCalls \cup {0},
                   by : {"call", "server"}, answer : {"none", "accept", "decline", "cancel"}]

InputType ==
    /\ toolCall \in [ToolCalls -> CallStates]
    /\ occupant \in [Sessions -> ToolCalls \cup {0}]
    /\ minted \in Nat
    /\ question \in [Questions -> QuestionStates]
    /\ pending \subseteq Questions

(* A session is owned by a call that runs in it. *)
Owned == \A s \in Sessions : occupant[s] # 0 => Input!Active(occupant[s]) /\ toolCall[occupant[s]].session = s

(* A question was asked for a call that had entered. *)
AskedFor ==
    /\ \A q \in Questions : question[q].at # "unused" =>
          question[q].call \in ToolCalls /\ toolCall[question[q].call].at # "new"
    /\ \A q \in pending : question[q].at # "unused"

(* Calls that run, or for which questions were asked, have scopes of their  *)
(* own.                                                                     *)
HasScope(c) ==
    Input!Active(c) \/ \E q \in Questions : question[q].at # "unused" /\ question[q].call = c
ScopesApart ==
    \A c \in ToolCalls : HasScope(c) =>
       /\ toolCall[c].scope < minted
       /\ \A d \in ToolCalls : HasScope(d) /\ toolCall[d].scope = toolCall[c].scope => d = c

InputInv == InputType /\ Owned /\ AskedFor /\ ScopesApart /\ Input!OpenQuestionsStay

LEMMA InitInput == ASSUME Input!Init PROVE InputInv
<1> USE InputAssumption DEF Input!Init
<1>1. InputType
  BY DEF InputType, CallStates, QuestionStates
<1>2. Owned /\ AskedFor /\ Input!OpenQuestionsStay
  BY DEF Owned, AskedFor, Input!OpenQuestionsStay
<1>3. ScopesApart
  BY DEF ScopesApart, HasScope, Input!Active
<1> QED BY <1>1, <1>2, <1>3 DEF InputInv

(* No call enters or leaves, and a question stays one of its call, is one   *)
(* of a call that runs, or is unused.                                       *)
LEMMA CallsStay ==
    ASSUME InputInv, InputType', occupant' = occupant, minted' = minted,
           \A c \in ToolCalls : /\ toolCall'[c].scope = toolCall[c].scope /\ toolCall'[c].session = toolCall[c].session
                                /\ toolCall'[c].at \in {"calling", "asking"} <=> toolCall[c].at \in {"calling", "asking"}
                                /\ toolCall'[c].at = "new" <=> toolCall[c].at = "new",
           \A q \in Questions : \/ question'[q].at = "unused"
                                \/ question[q].at # "unused" /\ question'[q].call = question[q].call
                                \/ question'[q].call \in ToolCalls /\ Input!Active(question'[q].call),
           \A q \in pending' : question'[q].at # "unused",
           \A q \in Questions : question'[q].at = "waiting" => q \in pending' \cap dialogs',
           \A q \in Questions : question'[q].at = "orphaned" =>
                                   question[q].at = "orphaned" /\ question'[q].call = question[q].call
    PROVE  InputInv'
<1>1. Owned'
  BY DEF InputInv, InputType, Owned, Input!Active
<1>2. AskedFor'
  BY DEF InputInv, AskedFor, Input!Active
<1>3. ScopesApart'
  <2>1. \A c \in ToolCalls : HasScope(c)' => HasScope(c)
    BY DEF HasScope, Input!Active
  <2> QED BY <2>1 DEF InputInv, ScopesApart
<1>4. Input!OpenQuestionsStay'
  BY DEF InputInv, AskedFor, Input!OpenQuestionsStay, Input!Active
<1> QED BY <1>1, <1>2, <1>3, <1>4 DEF InputInv

LEMMA InputEnter == ASSUME InputInv, Input!Enter PROVE InputInv'
<1>1. PICK c \in ToolCalls, s \in Sessions, live \in BOOLEAN :
         /\ toolCall[c].at = "new" /\ occupant[s] = 0 /\ occupant' = [occupant EXCEPT ![s] = c]
         /\ toolCall' = [toolCall EXCEPT ![c].at = "calling", ![c].session = s,
                                         ![c].scope = minted, ![c].live = live]
         /\ minted' = minted + 1 /\ UNCHANGED <<question, pending, dialogs>>
  BY DEF Input!Enter, Input!First, Input!Minted
<1> DEFINE x == [toolCall[c] EXCEPT !.at = "calling", !.session = s, !.scope = minted, !.live = live]
<1>2. x \in CallStates /\ x.at = "calling" /\ x.session = s /\ x.scope = minted
  BY DEF InputInv, InputType, CallStates
<1>3. toolCall' = [toolCall EXCEPT ![c] = x]
  BY <1>1 DEF InputInv, InputType
<1> HIDE DEF x
<1>4. toolCall' \in [ToolCalls -> CallStates] /\ toolCall'[c] = x /\ \A d \in ToolCalls : d # c => toolCall'[d] = toolCall[d]
  BY <1>2, <1>3 DEF InputInv, InputType
<1>5. InputType'
  BY <1>1, <1>4 DEF InputInv, InputType
<1>6. c # 0 /\ 0 \notin ToolCalls
  BY InputAssumption
<1>7. Owned'
  BY <1>1, <1>2, <1>4, <1>6 DEF InputInv, InputType, Owned, Input!Active
<1>8. AskedFor'
  BY <1>1, <1>2, <1>4 DEF InputInv, AskedFor
<1>9. ScopesApart'
  <2>1. ASSUME NEW d \in ToolCalls, HasScope(d)' PROVE d = c \/ (d # c /\ HasScope(d) /\ toolCall'[d] = toolCall[d])
    BY <1>1, <1>4, <2>1 DEF HasScope, Input!Active
  <2>2. \A d \in ToolCalls : HasScope(d) => toolCall[d].scope < minted /\ toolCall[d].scope \in Nat
    BY DEF InputInv, InputType, CallStates, ScopesApart
  <2>3. minted \in Nat
    BY DEF InputInv, InputType
  <2>4. ASSUME NEW d \in ToolCalls, HasScope(d)' PROVE toolCall'[d].scope < minted'
    BY <1>1, <1>2, <1>4, <2>1, <2>2, <2>3, <2>4
  <2>5. ASSUME NEW d \in ToolCalls, HasScope(d)', NEW e \in ToolCalls, HasScope(e)',
               toolCall'[e].scope = toolCall'[d].scope
        PROVE  e = d
    BY <1>2, <1>4, <2>1, <2>2, <2>3, <2>5 DEF InputInv, ScopesApart
  <2> QED BY <2>4, <2>5 DEF ScopesApart
<1>10. Input!OpenQuestionsStay'
  BY <1>1, <1>2, <1>4 DEF InputInv, AskedFor, Input!OpenQuestionsStay, Input!Active
<1> QED BY <1>5, <1>7, <1>8, <1>9, <1>10 DEF InputInv

LEMMA InputGateTimesOut == ASSUME InputInv, Input!GateTimesOut PROVE InputInv'
<1>1. PICK c \in ToolCalls :
         /\ toolCall[c].at = "new" /\ toolCall' = [toolCall EXCEPT ![c].at = "error"]
         /\ UNCHANGED <<occupant, minted, question, pending, dialogs>>
  BY DEF Input!GateTimesOut, Input!First
<1>2. /\ toolCall' \in [ToolCalls -> CallStates] /\ toolCall'[c].at = "error"
      /\ \A d \in ToolCalls : toolCall'[d].scope = toolCall[d].scope /\ toolCall'[d].session = toolCall[d].session
      /\ \A d \in ToolCalls : d # c => toolCall'[d] = toolCall[d]
  BY <1>1 DEF InputInv, InputType, CallStates
<1>3. InputType'
  BY <1>1, <1>2 DEF InputInv, InputType
<1>4. Owned'
  BY <1>1, <1>2 DEF InputInv, InputType, Owned, Input!Active
<1>5. AskedFor'
  BY <1>1, <1>2 DEF InputInv, AskedFor
<1>6. ScopesApart'
  <2>1. \A d \in ToolCalls : HasScope(d)' => HasScope(d)
    BY <1>1, <1>2 DEF HasScope, Input!Active
  <2> QED BY <1>1, <1>2, <2>1 DEF InputInv, ScopesApart
<1>7. Input!OpenQuestionsStay'
  BY <1>1, <1>2 DEF InputInv, AskedFor, Input!OpenQuestionsStay, Input!Active
<1> QED BY <1>3, <1>4, <1>5, <1>6, <1>7 DEF InputInv

(* The questions closed with a call are its own: no other call that has     *)
(* asked has its scope.                                                     *)
LEMMA InputLeaves ==
    ASSUME InputInv, NEW c \in ToolCalls, Input!Active(c), NEW result \in {"ok", "error"}, Input!Leaves(c, result)
    PROVE  InputInv'
<1> DEFINE closed == {q \in pending : Input!Scope(q) = toolCall[c].scope}
           own == {q \in Questions : question[q].call = c /\ question[q].by = "call"}
<1>1. /\ toolCall' = [toolCall EXCEPT ![c].at = result]
      /\ occupant' = [occupant EXCEPT ![toolCall[c].session] = 0]
      /\ pending' = pending \ (closed \cup own) /\ dialogs' = dialogs \ (closed \cup own)
      /\ question' = [q \in Questions |->
            IF q \in own THEN [question[q] EXCEPT !.at = "done"]
            ELSE IF q \in closed THEN [question[q] EXCEPT !.at = "orphaned"] ELSE question[q]]
      /\ minted' = minted
  BY DEF Input!Leaves
<1>2. /\ toolCall' \in [ToolCalls -> CallStates] /\ toolCall'[c].at = result
      /\ \A d \in ToolCalls : toolCall'[d].scope = toolCall[d].scope /\ toolCall'[d].session = toolCall[d].session
      /\ \A d \in ToolCalls : d # c => toolCall'[d] = toolCall[d]
  BY <1>1 DEF InputInv, InputType, CallStates
<1>3. ASSUME NEW q \in closed PROVE q \in Questions /\ question[q].call = c
  BY DEF InputInv, InputType, AskedFor, ScopesApart, HasScope, Input!Scope
<1>4. ASSUME NEW q \in Questions
      PROVE  /\ question'[q] \in QuestionStates /\ question'[q].call = question[q].call
             /\ q \in own => question'[q].at = "done"
             /\ q \in closed \ own => question'[q].at = "orphaned"
             /\ q \notin closed \cup own => question'[q] = question[q]
  BY <1>1 DEF InputInv, InputType, QuestionStates
<1>5. occupant' \in [Sessions -> ToolCalls \cup {0}]
  BY <1>1 DEF InputInv, InputType
<1>6. ASSUME NEW q \in own PROVE question[q].at # "unused" \/ question'[q].call = c
  BY <1>4
<1>7. question' = [q \in Questions |-> question'[q]]
  BY <1>1
<1>8. c # 0
  BY InputAssumption
<1> HIDE DEF own, closed
<1>9. InputType'
  BY <1>1, <1>2, <1>4, <1>5, <1>7 DEF InputInv, InputType
<1>10. Owned'
  BY <1>1, <1>2 DEF InputInv, InputType, CallStates, Owned, Input!Active
<1>11. AskedFor'
  <2>1. ASSUME NEW q \in Questions, question'[q].at # "unused"
        PROVE  question'[q].call \in ToolCalls /\ toolCall'[question'[q].call].at # "new"
    <3>1. CASE q \in own
      BY <1>2, <1>4, <3>1 DEF own
    <3>2. CASE q \in closed
      BY <1>2, <1>3, <1>4, <3>2
    <3>3. CASE q \notin closed \cup own
      BY <1>2, <1>4, <2>1, <3>3 DEF InputInv, AskedFor
    <3> QED BY <3>1, <3>2, <3>3
  <2>2. ASSUME NEW q \in pending' PROVE question'[q].at # "unused"
    BY <1>1, <1>4 DEF InputInv, InputType, AskedFor
  <2> QED BY <2>1, <2>2 DEF AskedFor
<1>12. ScopesApart'
  <2>1. ASSUME NEW d \in ToolCalls, HasScope(d)' PROVE HasScope(d)
    <3>1. CASE d = c
      BY <3>1 DEF HasScope
    <3>2. CASE d # c
      BY <1>2, <1>3, <1>4, <2>1, <3>2 DEF HasScope, Input!Active, own
    <3> QED BY <3>1, <3>2
  <2> QED BY <1>1, <1>2, <2>1 DEF InputInv, ScopesApart
<1>13. Input!OpenQuestionsStay'
  <2>1. ASSUME NEW q \in Questions, question'[q].at = "waiting" PROVE q \in pending' \cap dialogs'
    BY <1>1, <1>4, <2>1 DEF InputInv, Input!OpenQuestionsStay
  <2>2. ASSUME NEW q \in Questions, question'[q].at = "orphaned" PROVE toolCall'[question'[q].call].at \notin {"calling", "asking"}
    <3>1. CASE q \in closed
      BY <1>2, <1>3, <1>4, <3>1
    <3>2. CASE q \notin closed
      <4>1. question[q].at = "orphaned" /\ question'[q].call = question[q].call
        BY <1>4, <2>2, <3>2
      <4>2. question[q].call \in ToolCalls /\ ~Input!Active(question[q].call)
        BY <4>1 DEF InputInv, AskedFor, Input!OpenQuestionsStay
      <4> QED BY <1>2, <4>1, <4>2 DEF Input!Active
    <3> QED BY <3>1, <3>2
  <2> QED BY <2>1, <2>2 DEF Input!OpenQuestionsStay, Input!Active
<1> QED BY <1>9, <1>10, <1>11, <1>12, <1>13 DEF InputInv

(* A question is opened for a call that runs. *)
LEMMA Opening ==
    ASSUME InputInv, NEW q \in Questions, NEW c \in ToolCalls, NEW by \in {"call", "server"},
           Input!Opens(q, c, by), Input!Active(c) \/ (question[q].at # "unused" /\ question[q].call = c),
           occupant' = occupant, minted' = minted, toolCall' \in [ToolCalls -> CallStates],
           \A d \in ToolCalls : /\ toolCall'[d].scope = toolCall[d].scope /\ toolCall'[d].session = toolCall[d].session
                                /\ toolCall'[d].at \in {"calling", "asking"} <=> toolCall[d].at \in {"calling", "asking"}
                                /\ toolCall'[d].at = "new" <=> toolCall[d].at = "new"
    PROVE  InputInv'
<1>1. /\ question' = [question EXCEPT ![q].at = "waiting", ![q].call = c, ![q].by = by]
      /\ pending' = pending \cup {q} /\ dialogs' = dialogs \cup {q}
  BY DEF Input!Opens
<1>2. /\ question' \in [Questions -> QuestionStates] /\ question'[q].at = "waiting" /\ question'[q].call = c
      /\ \A p \in Questions : p # q => question'[p] = question[p]
  <2> DEFINE x == [question[q] EXCEPT !.at = "waiting", !.call = c, !.by = by]
  <2>1. x \in QuestionStates /\ x.at = "waiting" /\ x.call = c
    BY DEF InputInv, InputType, QuestionStates
  <2>2. question' = [question EXCEPT ![q] = x]
    BY <1>1 DEF InputInv, InputType
  <2> HIDE DEF x
  <2> QED BY <2>1, <2>2 DEF InputInv, InputType
<1>3. InputType'
  BY <1>1, <1>2 DEF InputInv, InputType
<1>4. /\ \A p \in pending' : question'[p].at # "unused"
      /\ \A p \in Questions : question'[p].at = "waiting" => p \in pending' \cap dialogs'
      /\ \A p \in Questions : question'[p].at = "orphaned" =>
                                   question[p].at = "orphaned" /\ question'[p].call = question[p].call
  BY <1>1, <1>2 DEF InputInv, InputType, AskedFor, Input!OpenQuestionsStay
<1>5. \A p \in Questions : \/ question'[p].at = "unused"
                           \/ question[p].at # "unused" /\ question'[p].call = question[p].call
                           \/ question'[p].call \in ToolCalls /\ Input!Active(question'[p].call)
  <2>1. ASSUME NEW p \in Questions, p # q
        PROVE  question'[p].at = "unused" \/ (question[p].at # "unused" /\ question'[p].call = question[p].call)
    BY <1>2, <2>1
  <2>2. \/ question[q].at # "unused" /\ question'[q].call = question[q].call
        \/ question'[q].call \in ToolCalls /\ Input!Active(question'[q].call)
    BY <1>2 DEF Input!Active
  <2> QED BY <2>1, <2>2
<1> QED BY <1>3, <1>4, <1>5, CallsStay

LEMMA InputCallAsks == ASSUME InputInv, NEW c \in ToolCalls, Input!CallAsks(c) PROVE InputInv'
<1> USE DEF Input!CallAsks
<1>1. toolCall[c] \in CallStates /\ toolCall[c].at = "calling" /\ UNCHANGED <<occupant, minted>>
  BY DEF InputInv, InputType
<1>2. CASE toolCall' = [toolCall EXCEPT ![c].rounds = @ + 1] /\ UNCHANGED <<question, pending, dialogs>>
  <2>1. /\ toolCall' \in [ToolCalls -> CallStates]
        /\ \A d \in ToolCalls : /\ toolCall'[d].at = toolCall[d].at /\ toolCall'[d].scope = toolCall[d].scope
                                /\ toolCall'[d].session = toolCall[d].session
    <3> DEFINE x == [toolCall[c] EXCEPT !.rounds = @ + 1]
    <3>1. x \in CallStates /\ x.at = toolCall[c].at /\ x.scope = toolCall[c].scope /\ x.session = toolCall[c].session
      BY <1>1 DEF CallStates
    <3>2. toolCall' = [toolCall EXCEPT ![c] = x]
      BY <1>2 DEF InputInv, InputType
    <3> HIDE DEF x, Input!CallAsks
    <3> QED BY <3>1, <3>2 DEF InputInv, InputType
  <2>2. InputType'
    BY <1>1, <1>2, <2>1 DEF InputInv, InputType
  <2> HIDE DEF Input!CallAsks
  <2> QED BY <1>1, <1>2, <2>1, <2>2, CallsStay DEF InputInv, AskedFor, Input!OpenQuestionsStay
<1>3. CASE /\ toolCall' = [toolCall EXCEPT ![c].at = "asking", ![c].rounds = @ + 1, ![c].asked = @ + 1]
           /\ \E q \in Input!NextQuestion : Input!Opens(q, c, "call")
  <2>1. PICK q \in Questions : Input!Opens(q, c, "call")
    BY <1>3 DEF Input!NextQuestion, Input!First
  <2>2. /\ toolCall' \in [ToolCalls -> CallStates]
        /\ \A d \in ToolCalls : /\ toolCall'[d].scope = toolCall[d].scope /\ toolCall'[d].session = toolCall[d].session
                                /\ toolCall'[d].at \in {"calling", "asking"} <=> toolCall[d].at \in {"calling", "asking"}
                                /\ toolCall'[d].at = "new" <=> toolCall[d].at = "new"
    BY <1>1, <1>3 DEF InputInv, InputType, CallStates
  <2> HIDE DEF Input!CallAsks
  <2> QED BY <1>1, <2>1, <2>2, Opening DEF Input!Active
<1> QED BY <1>2, <1>3

LEMMA InputServerAsks == ASSUME InputInv, NEW s \in Sessions, Input!ServerAsks(s) PROVE InputInv'
<1> DEFINE c == occupant[s]
<1>1. /\ c \in ToolCalls /\ Input!Active(c) /\ toolCall[c] \in CallStates
      /\ toolCall' = [toolCall EXCEPT ![c].asked = @ + 1]
      /\ UNCHANGED <<occupant, minted, pending, dialogs>>
  BY DEF InputInv, InputType, Owned, Input!ServerAsks
<1>2. PICK q \in Questions : /\ question[q].at = "unused"
                             /\ question' = [question EXCEPT ![q].at = "checked", ![q].call = c, ![q].by = "server"]
  BY DEF Input!ServerAsks, Input!NextQuestion, Input!First
<1> HIDE DEF c
<1>3. /\ toolCall' \in [ToolCalls -> CallStates]
      /\ \A d \in ToolCalls : /\ toolCall'[d].at = toolCall[d].at /\ toolCall'[d].scope = toolCall[d].scope
                              /\ toolCall'[d].session = toolCall[d].session
  <2> DEFINE x == [toolCall[c] EXCEPT !.asked = @ + 1]
  <2>1. x \in CallStates /\ x.at = toolCall[c].at /\ x.scope = toolCall[c].scope /\ x.session = toolCall[c].session
    BY <1>1 DEF CallStates
  <2>2. toolCall' = [toolCall EXCEPT ![c] = x]
    BY <1>1 DEF InputInv, InputType
  <2> HIDE DEF x
  <2> QED BY <2>1, <2>2 DEF InputInv, InputType
<1>4. /\ question' \in [Questions -> QuestionStates] /\ question'[q].at = "checked" /\ question'[q].call = c
      /\ \A p \in Questions : p # q => question'[p] = question[p]
  <2> DEFINE x == [question[q] EXCEPT !.at = "checked", !.call = c, !.by = "server"]
  <2>1. x \in QuestionStates /\ x.at = "checked" /\ x.call = c
    BY <1>1 DEF InputInv, InputType, QuestionStates
  <2>2. question' = [question EXCEPT ![q] = x]
    BY <1>2 DEF InputInv, InputType
  <2> HIDE DEF x
  <2> QED BY <2>1, <2>2 DEF InputInv, InputType
<1>5. InputType'
  BY <1>1, <1>3, <1>4 DEF InputInv, InputType
<1>6. /\ \A p \in pending' : question'[p].at # "unused"
      /\ \A p \in Questions : question'[p].at = "waiting" => p \in pending' \cap dialogs'
      /\ \A p \in Questions : question'[p].at = "orphaned" =>
                                   question[p].at = "orphaned" /\ question'[p].call = question[p].call
  BY <1>1, <1>4 DEF InputInv, InputType, AskedFor, Input!OpenQuestionsStay
<1>7. \A p \in Questions : \/ question'[p].at = "unused"
                           \/ question[p].at # "unused" /\ question'[p].call = question[p].call
                           \/ question'[p].call \in ToolCalls /\ Input!Active(question'[p].call)
  <2>1. ASSUME NEW p \in Questions, p # q
        PROVE  question'[p].at = "unused" \/ (question[p].at # "unused" /\ question'[p].call = question[p].call)
    BY <1>4, <2>1
  <2>2. question'[q].call \in ToolCalls /\ Input!Active(question'[q].call)
    BY <1>1, <1>4 DEF Input!Active
  <2> QED BY <2>1, <2>2
<1> QED BY <1>1, <1>3, <1>5, <1>6, <1>7, CallsStay

(* A question that was asked moves on and is not opened by this.            *)
LEMMA MovesOn ==
    ASSUME InputInv, NEW q \in Questions, question[q].at # "unused", NEW place2 \in {"answered", "done"},
           NEW answer2 \in {"none", "accept", "decline", "cancel"},
           question' = [question EXCEPT ![q].at = place2, ![q].answer = answer2]
              \/ question' = [question EXCEPT ![q].at = place2],
           pending' = pending \ {q}, dialogs \ {q} \subseteq dialogs',
           occupant' = occupant, minted' = minted, toolCall' \in [ToolCalls -> CallStates],
           \A d \in ToolCalls : /\ toolCall'[d].scope = toolCall[d].scope /\ toolCall'[d].session = toolCall[d].session
                                /\ toolCall'[d].at \in {"calling", "asking"} <=> toolCall[d].at \in {"calling", "asking"}
                                /\ toolCall'[d].at = "new" <=> toolCall[d].at = "new"
    PROVE  InputInv'
<1>1. /\ question' \in [Questions -> QuestionStates] /\ question'[q].at = place2 /\ question'[q].call = question[q].call
      /\ \A p \in Questions : p # q => question'[p] = question[p]
  <2> DEFINE x == [question[q] EXCEPT !.at = place2, !.answer = answer2]
             y == [question[q] EXCEPT !.at = place2]
  <2>0. question[q] \in QuestionStates
    BY DEF InputInv, InputType
  <2>1. /\ x \in QuestionStates /\ x.at = place2 /\ x.call = question[q].call
        /\ y \in QuestionStates /\ y.at = place2 /\ y.call = question[q].call
    BY <2>0 DEF QuestionStates
  <2>2. question' = [question EXCEPT ![q] = x] \/ question' = [question EXCEPT ![q] = y]
    BY DEF InputInv, InputType
  <2> HIDE DEF x, y
  <2> QED BY <2>1, <2>2 DEF InputInv, InputType
<1>2. InputType'
  BY <1>1 DEF InputInv, InputType
<1>3. /\ \A p \in pending' : question'[p].at # "unused"
      /\ \A p \in Questions : question'[p].at = "waiting" => p \in pending' \cap dialogs'
      /\ \A p \in Questions : question'[p].at = "orphaned" =>
                                   question[p].at = "orphaned" /\ question'[p].call = question[p].call
  BY <1>1 DEF InputInv, InputType, AskedFor, Input!OpenQuestionsStay
<1>4. \A p \in Questions : question'[p].at = "unused" \/ (question[p].at # "unused" /\ question'[p].call = question[p].call)
  BY <1>1
<1> QED BY <1>2, <1>3, <1>4, CallsStay

LEMMA InputServerAskBegins == ASSUME InputInv, NEW q \in Questions, Input!ServerAskBegins(q) PROVE InputInv'
<1>1. question[q].at = "checked" /\ question[q].call \in ToolCalls /\ UNCHANGED <<toolCall, occupant, minted>>
  BY DEF Input!ServerAskBegins, InputInv, AskedFor
<1>2. toolCall' \in [ToolCalls -> CallStates]
  BY <1>1 DEF InputInv, InputType
<1>3. CASE Input!Opens(q, question[q].call, "server")
  BY <1>1, <1>2, <1>3, Opening
<1>4. CASE question' = [question EXCEPT ![q].at = "done"] /\ UNCHANGED <<pending, dialogs>>
  <2>1. /\ question' \in [Questions -> QuestionStates] /\ question'[q].at = "done" /\ question'[q].call = question[q].call
        /\ \A p \in Questions : p # q => question'[p] = question[p]
    BY <1>4 DEF InputInv, InputType, QuestionStates
  <2>2. InputType'
    BY <1>1, <1>4, <2>1 DEF InputInv, InputType
  <2>3. /\ \A p \in pending' : question'[p].at # "unused"
        /\ \A p \in Questions : question'[p].at = "waiting" => p \in pending' \cap dialogs'
        /\ \A p \in Questions : question'[p].at = "orphaned" =>
                                   question[p].at = "orphaned" /\ question'[p].call = question[p].call
    BY <1>4, <2>1 DEF InputInv, InputType, AskedFor, Input!OpenQuestionsStay
  <2>4. \A p \in Questions : question'[p].at = "unused" \/ (question[p].at # "unused" /\ question'[p].call = question[p].call)
    BY <1>1, <2>1
  <2> QED BY <1>1, <2>2, <2>3, <2>4, CallsStay
<1> QED BY <1>3, <1>4, Zenon DEF Input!ServerAskBegins

LEMMA InputResolve ==
    ASSUME InputInv, NEW q \in Questions, NEW given \in {"accept", "decline", "cancel"}, Input!Resolve(q, given)
    PROVE  InputInv'
<1>1. /\ question[q].at # "unused" /\ pending' = pending \ {q} /\ dialogs' = dialogs
      /\ question' = [question EXCEPT ![q].at = "answered", ![q].answer = given]
      /\ UNCHANGED <<toolCall, occupant, minted>>
  BY DEF Input!Resolve, InputInv, AskedFor
<1>2. toolCall' \in [ToolCalls -> CallStates]
  BY <1>1 DEF InputInv, InputType
<1> QED BY <1>1, <1>2, MovesOn

(* The decision is noted for the call that owns the session. *)
LEMMA Deciding ==
    ASSUME InputInv, NEW q \in Questions, NEW given \in {"none", "accept", "decline", "cancel"},
           toolCall' = Input!Decided(q, given)
    PROVE  /\ toolCall' \in [ToolCalls -> CallStates]
           /\ \A d \in ToolCalls : /\ toolCall'[d].scope = toolCall[d].scope /\ toolCall'[d].session = toolCall[d].session
                                   /\ toolCall'[d].at \in {"calling", "asking"} <=> toolCall[d].at \in {"calling", "asking"}
                                   /\ toolCall'[d].at = "new" <=> toolCall[d].at = "new"
<1>1. ASSUME NEW d \in ToolCalls
      PROVE  /\ toolCall'[d] \in CallStates
             /\ toolCall'[d].scope = toolCall[d].scope /\ toolCall'[d].session = toolCall[d].session
             /\ toolCall'[d].at \in {"calling", "asking"} <=> toolCall[d].at \in {"calling", "asking"}
             /\ toolCall'[d].at = "new" <=> toolCall[d].at = "new"
  <2>1. toolCall[d] \in CallStates
    BY DEF InputInv, InputType
  <2>2. CASE toolCall'[d] = toolCall[d]
    BY <2>1, <2>2
  <2>3. CASE /\ Input!Active(d)
             /\ toolCall'[d] = [toolCall[d] EXCEPT
                   !.decision = IF @ = "none" /\ given # "accept" THEN given ELSE @,
                   !.at = IF question[q].by = "call" THEN "calling" ELSE @]
    BY <2>1, <2>3 DEF CallStates, Input!Active
  <2> QED BY <2>2, <2>3 DEF Input!Decided
<1>2. toolCall' = [d \in ToolCalls |-> toolCall'[d]]
  BY DEF Input!Decided
<1> QED BY <1>1, <1>2

LEMMA InputResumes == ASSUME InputInv, NEW q \in Questions, Input!Resumes(q) PROVE InputInv'
<1>1. /\ question[q].at = "answered" /\ toolCall' = Input!Decided(q, question[q].answer)
      /\ question' = [question EXCEPT ![q].at = "done"]
      /\ pending' = pending \ {q} /\ dialogs' = dialogs \ {q} /\ UNCHANGED <<occupant, minted>>
  BY DEF Input!Resumes, Input!Closes
<1>2. question[q].answer \in {"none", "accept", "decline", "cancel"}
  BY DEF InputInv, InputType, QuestionStates
<1> QED BY <1>1, <1>2, Deciding, MovesOn

LEMMA InputFormTimesOut == ASSUME InputInv, NEW q \in Questions, Input!FormTimesOut(q) PROVE InputInv'
<1>1. /\ question[q].at = "waiting" /\ toolCall' = Input!Decided(q, "cancel")
      /\ question' = [question EXCEPT ![q].at = "done"]
      /\ pending' = pending \ {q} /\ dialogs' = dialogs \ {q} /\ UNCHANGED <<occupant, minted>>
  BY DEF Input!FormTimesOut, Input!Closes
<1> QED BY <1>1, Deciding, MovesOn

LEMMA InputCloses ==
    ASSUME InputInv, NEW q \in Questions, Input!OrphanResumes(q) \/ Input!ServerCancels(q)
    PROVE  InputInv'
<1>1. /\ question[q].at # "unused" /\ question' = [question EXCEPT ![q].at = "done"]
      /\ pending' = pending \ {q} /\ dialogs' = dialogs \ {q} /\ UNCHANGED <<toolCall, occupant, minted>>
  BY DEF Input!OrphanResumes, Input!ServerCancels, Input!Closes
<1>2. toolCall' \in [ToolCalls -> CallStates]
  BY <1>1 DEF InputInv, InputType
<1> QED BY <1>1, <1>2, MovesOn

LEMMA InputStays == ASSUME InputInv, UNCHANGED input PROVE InputInv'
BY DEF InputInv, input, InputType, Owned, AskedFor, ScopesApart, HasScope, Input!Active, Input!OpenQuestionsStay

LEMMA InputNext == ASSUME InputInv, Input!Next PROVE InputInv'
<1>1. ASSUME NEW c \in ToolCalls, Input!Completes(c) \/ Input!Fails(c) PROVE InputInv'
  <2>1. Input!Active(c) /\ \E result \in {"ok", "error"} : Input!Leaves(c, result)
    BY <1>1 DEF Input!Completes, Input!Fails, Input!Active
  <2> QED BY <2>1, InputLeaves
<1> QED BY <1>1, InputEnter, InputGateTimesOut, InputCallAsks, InputServerAsks, InputServerAskBegins,
       InputResolve, InputResumes, InputFormTimesOut, InputCloses DEF Input!Next

(* Steps of the others leave the questions alone. *)
LEMMA InputOrNot ==
    ASSUME [AccessNext]_everything PROVE Input!Next \/ UNCHANGED input
BY DEF AccessNext, LockStep, SourceStep, LoginStep, InputStep, SlotStep, StreamStep, Rests, everything

(* While a call runs nobody but the user, its time limit, its server or the *)
(* call itself closes a question of it (mint_scope and leave of             *)
(* mcp_input.rs).                                                           *)
THEOREM QuestionsStay == AccessSpec => []OpenQuestionsStay
<1>1. AccessInit => InputInv
  BY InitInput DEF AccessInit
<1>2. InputInv /\ [AccessNext]_everything => InputInv'
  BY InputNext, InputStays, InputOrNot
<1>3. InputInv => OpenQuestionsStay
  BY DEF InputInv, OpenQuestionsStay
<1> QED BY <1>1, <1>2, <1>3, PTL DEF AccessSpec

-----------------------------------------------------------------------------
(* The answers of a model *)

(* What a provider has said is a sequence of items with at most one text,   *)
(* and the slots of its calls are numbered without a gap.                   *)
Item == [kind : {"text", "tool"}, want : Nat, sent : Nat, told : {1, 2}, open : BOOLEAN]
Spoken ==
    /\ output \in Seq(Item)
    /\ \A i \in DOMAIN output : output[i].sent <= output[i].want
    /\ \A i, j \in DOMAIN output : output[i].kind = "text" /\ output[j].kind = "text" => i = j
    /\ {Round!ToolsBefore(i) : i \in Round!Tools} = 0 .. (Cardinality(Round!Tools) - 1)
    /\ backend \in {"openai", "claude", "responses"} /\ style \in {"once", "repeated", "growing"}
    /\ backend # "openai" => style = "once"

(* The items that the reader has met: those of the Responses stream, and    *)
(* every item of the others.  What it knows of their names and arguments.   *)
Met == IF backend = "responses" THEN DOMAIN items ELSE DOMAIN output
NameKnown(i) == IF style = "growing" /\ output[i].told = 1 THEN <<Round!Name(i)[1]>> ELSE Round!Name(i)
Got(i) ==
    IF output[i].kind = "tool" /\ output[i].sent = 0 /\ ~output[i].open
    THEN <<Round!NoArguments>> ELSE Round!Fragments(i, 0, output[i].sent)

(* The finish reason is taken when it is said, and "stop" is said last.     *)
Honest ==
    /\ fault \in {"none", "crowd"} /\ (backend # "responses" => fault = "none")
    /\ fault = "none" => Cardinality(Round!Tools) <= MaxTools
    /\ IF said \in {"no", "cutting"} THEN finish = "no" /\ ~finishSeen
       ELSE finish = said /\ finishSeen /\ backend # "responses" /\ said \in {"stop", "tool_calls"} \cup CutReasons
    /\ said \in {"stop", "tool_calls"} =>
           \A i \in DOMAIN output : Round!Whole(i) /\ (backend = "claude" => ~output[i].open)

(* The calls are those that were met, with what is known of each; the text  *)
(* is what was sent of it.                                                  *)
KeptSoFar ==
    /\ Met \subseteq DOMAIN output
    /\ \A i \in Met : \A j \in 1 .. (i - 1) : j \in Met
    /\ \A i \in DOMAIN output \ Met : output[i].sent = 0 /\ output[i].open
    /\ DOMAIN calls = {Round!ToolsBefore(i) : i \in Round!Tools \cap Met}
    /\ \A i \in Round!Tools \cap Met : calls[Round!ToolsBefore(i)] = [id |-> NameKnown(i), args |-> Got(i)]
    /\ \A i \in DOMAIN output \ Round!Tools : text = Got(i)
    /\ Round!Tools = DOMAIN output => text = <<>>

(* What each protocol keeps besides.                                        *)
OpenaiKeeps ==
    backend = "openai" => \A i \in DOMAIN output : output[i].open /\ (output[i].kind = "tool" => output[i].want > 0)
ClaudeKeeps ==
    backend = "claude" =>
        /\ DOMAIN indices = Round!Tools
        /\ \A i \in Round!Tools : indices[i] = Round!ToolsBefore(i)
        /\ hasInput = {i \in Round!Tools : output[i].sent > 0 \/ ~output[i].open}
ResponsesKeeps ==
    backend = "responses" =>
        /\ \A i \in DOMAIN items :
            /\ items[i] = [kind |-> output[i].kind, slot |-> Round!ToolsBefore(i), got |-> Got(i), done |-> items[i].done]
            /\ items[i].done \in BOOLEAN /\ (items[i].done => ~output[i].open)
        /\ \A i \in DOMAIN output : ~output[i].open => output[i].sent = output[i].want

InProgress == Honest /\ KeptSoFar /\ OpenaiKeeps /\ ClaudeKeeps /\ ResponsesKeeps

(* An answer that was finished and read whole. *)
Complete ==
    /\ fault = "none" /\ said \in {"stop", "tool_calls"}
    /\ DOMAIN calls = 0 .. (Cardinality(Round!Tools) - 1)
    /\ \A i \in Round!Tools : calls[Round!ToolsBefore(i)] = [id |-> Round!Name(i), args |-> Round!Final(i)]
    /\ \A i \in DOMAIN output \ Round!Tools : text = Round!Final(i)

RoundInv ==
    /\ Spoken
    /\ reading = "reading" => InProgress
    /\ reading = "ended" =>
        \/ fault = "repeats" /\ DOMAIN calls = {}
        \/ finish \in {"stop", "tool_calls"} /\ Complete
        \/ finish \in CutReasons /\ said = finish
    /\ reading = "dispatched" => Complete
    /\ reading = "answered" /\ fault = "none" => Complete
    /\ Round!WholeRoundsAccepted

(* The numbers below another are fewer, and as many as there are before it. *)
LEMMA Counting ==
    ASSUME NEW n \in Nat, NEW T \in SUBSET (1 .. n)
    PROVE  /\ IsFiniteSet(T) /\ Cardinality(T) \in Nat
           /\ \A i : IsFiniteSet({j \in T : j < i}) /\ Cardinality({j \in T : j < i}) \in Nat
           /\ \A i \in T : Cardinality({j \in T : j < i}) < Cardinality(T)
           /\ \A i \in T, k \in Nat : i < k => Cardinality({j \in T : j < i}) < Cardinality({j \in T : j < k})
<1>1. ASSUME NEW U, U \subseteq T PROVE IsFiniteSet(U) /\ Cardinality(U) \in Nat
  <2>1. IsFiniteSet(1 .. n)
    BY FS_Interval, 1 \in Int, n \in Int
  <2>2. U \in SUBSET (1 .. n)
    BY <1>1
  <2>3. IsFiniteSet(U)
    BY <2>1, <2>2, FS_Subset
  <2> QED BY <2>3, FS_CardinalityType
<1>2. ASSUME NEW U, NEW V, U \subseteq V, V \subseteq T, U # V PROVE Cardinality(U) < Cardinality(V)
  <2>1. Cardinality(U) \in Nat /\ Cardinality(V) \in Nat /\ IsFiniteSet(V)
    <3>1. U \subseteq T
      BY <1>2
    <3> QED BY <1>1, <1>2, <3>1
  <2>2. U \in SUBSET V
    BY <1>2
  <2>3. Cardinality(U) <= Cardinality(V) /\ Cardinality(U) # Cardinality(V)
    BY <1>2, <2>1, <2>2, FS_Subset
  <2> QED BY <2>1, <2>3
<1>3. \A i : {j \in T : j < i} \subseteq T
  OBVIOUS
<1>4. ASSUME NEW i \in T PROVE Cardinality({j \in T : j < i}) < Cardinality(T)
  <2>1. {j \in T : j < i} # T
    OBVIOUS
  <2> QED BY <1>2, <1>3, <2>1
<1>5. ASSUME NEW i \in T, NEW k \in Nat, i < k
      PROVE  Cardinality({j \in T : j < i}) < Cardinality({j \in T : j < k})
  <2>1. {j \in T : j < i} # {j \in T : j < k}
    <3>1. i \in {j \in T : j < k} /\ i \notin {j \in T : j < i}
      BY <1>5
    <3> QED BY <3>1
  <2>2. {j \in T : j < i} \subseteq {j \in T : j < k}
    <3>1. ASSUME NEW j \in T, j < i PROVE j < k
      BY <1>5, <3>1
    <3> QED BY <3>1
  <2> QED BY <1>2, <1>3, <2>1, <2>2
<1> QED BY <1>1, <1>3, <1>4, <1>5

(* What a fragment brings of a name that is known, or not yet, is taken.    *)
Merges(target, incoming, result) ==
    ~Round!IdentityChanged(target, incoming) /\ Round!MergeIdentity(target, incoming) = result

LEMMA Merging ==
    ASSUME NEW i
    PROVE  /\ Merges(Round!Name(i), <<>>, Round!Name(i))
           /\ Merges(Round!Name(i), Round!Name(i), Round!Name(i))
           /\ Merges(<<>>, Round!Name(i), Round!Name(i))
           /\ Merges(<<>>, <<Round!Name(i)[1]>>, <<Round!Name(i)[1]>>)
           /\ Merges(<<Round!Name(i)[1]>>, Round!Name(i), Round!Name(i))
<1> DEFINE a == <<i, 1>>
           b == <<i, 2>>
<1>1. Round!Name(i) = <<a, b>>
  BY DEF Round!Name
<1> HIDE DEF a, b
<1>2. <<a, b>> # <<>> /\ <<a>> # <<>> /\ <<a, b>> # <<a>> /\ <<a, b>>[1] = a
  OBVIOUS
<1>3. Round!IsPrefix(<<a>>, <<a, b>>)
  BY DEF Round!IsPrefix
<1>4. \A s \in {<<a>>, <<a, b>>} : Round!IsPrefix(<<>>, s)
  BY DEF Round!IsPrefix
<1>5. \A s \in {<<a>>, <<a, b>>} : Round!IsPrefix(s, s)
  BY DEF Round!IsPrefix
<1>6. ASSUME NEW s \in {<<a>>, <<a, b>>} PROVE Merges(s, <<>>, s) /\ Merges(s, s, s) /\ Merges(<<>>, s, s)
  <2>1. s # <<>>
    BY <1>2
  <2>2. Merges(s, <<>>, s)
    BY <1>4 DEF Merges, Round!MergeIdentity, Round!IdentityChanged
  <2>3. Merges(s, s, s)
    BY <1>5 DEF Merges, Round!MergeIdentity, Round!IdentityChanged
  <2>4. Merges(<<>>, s, s)
    BY <1>4, <2>1 DEF Merges, Round!MergeIdentity, Round!IdentityChanged
  <2> QED BY <2>2, <2>3, <2>4
<1>7. Merges(<<a>>, <<a, b>>, <<a, b>>)
  BY <1>2, <1>3 DEF Merges, Round!MergeIdentity, Round!IdentityChanged
<1> QED BY <1>1, <1>2, <1>6, <1>7

(* The fragments of an item follow each other.                              *)
Parts(i, want, from, to) == [n \in 1 .. (to - from) |-> <<i, from + n, want>>]
Fragment(i, want) == {<<i, k, want>> : k \in Nat}

LEMMA PartsType ==
    ASSUME NEW i, NEW want, NEW m \in Nat, NEW n \in Nat, m <= n
    PROVE  /\ Parts(i, want, m, n) \in Seq(Fragment(i, want))
           /\ Len(Parts(i, want, m, n)) = n - m
           /\ \A k \in 1 .. (n - m) : Parts(i, want, m, n)[k] = <<i, m + k, want>>
BY DEF Parts, Fragment

LEMMA PartsLength ==
    ASSUME NEW i, NEW want, NEW m \in Nat, NEW n \in Nat, m <= n
    PROVE  Len(Parts(i, want, m, n)) = n - m
BY PartsType

LEMMA FromZero ==
    ASSUME NEW i, NEW want, NEW n \in Nat
    PROVE  Len(Parts(i, want, 0, n)) = n /\ Parts(i, want, 0, n) \in Seq(Fragment(i, want))
<1>1. 0 \in Nat /\ 0 <= n /\ n - 0 = n
  OBVIOUS
<1>2. Len(Parts(i, want, 0, n)) = n - 0
  BY <1>1, PartsLength
<1>3. Parts(i, want, 0, n) \in Seq(Fragment(i, want))
  BY <1>1, PartsType
<1> QED BY <1>1, <1>2, <1>3

LEMMA Joining ==
    ASSUME NEW i, NEW want, NEW m \in Nat, NEW n \in Nat, m <= n
    PROVE  /\ Parts(i, want, 0, 0) = <<>>
           /\ Parts(i, want, 0, m) \o Parts(i, want, m, n) = Parts(i, want, 0, n)
           /\ SubSeq(Parts(i, want, 0, n), m + 1, n) = Parts(i, want, m, n)
<1> DEFINE E == Fragment(i, want)
           p == Parts(i, want, 0, m)
           q == Parts(i, want, m, n)
           r == Parts(i, want, 0, n)
<1>1. p \in Seq(E) /\ Len(p) = m /\ \A k \in 1 .. m : p[k] = <<i, k, want>>
  <2>1. p \in Seq(E) /\ Len(p) = m - 0 /\ \A k \in 1 .. (m - 0) : p[k] = <<i, 0 + k, want>>
    BY PartsType, 0 \in Nat, 0 <= m
  <2> HIDE DEF E, p
  <2> QED BY <2>1, m - 0 = m, \A k \in 1 .. m : 0 + k = k
<1>2. q \in Seq(E) /\ Len(q) = n - m /\ \A k \in 1 .. (n - m) : q[k] = <<i, m + k, want>>
  BY PartsType
<1>3. r \in Seq(E) /\ Len(r) = n /\ \A k \in 1 .. n : r[k] = <<i, k, want>>
  <2>1. r \in Seq(E) /\ Len(r) = n - 0 /\ \A k \in 1 .. (n - 0) : r[k] = <<i, 0 + k, want>>
    BY PartsType, 0 \in Nat, 0 <= n
  <2> HIDE DEF E, r
  <2> QED BY <2>1, n - 0 = n, \A k \in 1 .. n : 0 + k = k
<1>4. Parts(i, want, 0, 0) = <<>>
  <2>1. Parts(i, want, 0, 0) \in Seq(E) /\ Len(Parts(i, want, 0, 0)) = 0 - 0
    BY PartsType, 0 \in Nat, 0 <= 0
  <2> HIDE DEF E
  <2>2. Len(Parts(i, want, 0, 0)) = 0
    BY <2>1, 0 - 0 = 0
  <2> QED BY <2>1, <2>2, EmptySeq
<1> HIDE DEF E, p, q, r
<1>5. p \o q = r
  <2>1. /\ p \o q \in Seq(E) /\ Len(p \o q) = n
        /\ \A k \in 1 .. n : (p \o q)[k] = IF k <= m THEN p[k] ELSE q[k - m]
    <3>1. m + (n - m) = n
      OBVIOUS
    <3> QED BY <1>1, <1>2, <3>1, ConcatProperties
  <2>2. ASSUME NEW k \in 1 .. n PROVE (p \o q)[k] = r[k]
    <3>1. CASE k <= m
      BY <1>1, <1>3, <2>1, <3>1, k \in 1 .. m
    <3>2. CASE ~(k <= m)
      <4>1. (p \o q)[k] = q[k - m]
        BY <2>1, <3>2
      <4>2. k - m \in 1 .. (n - m) /\ m + (k - m) = k
        BY <3>2
      <4> QED BY <1>2, <1>3, <4>1, <4>2
    <3> QED BY <3>1, <3>2
  <2> QED BY <1>3, <2>1, <2>2, SeqEqual
<1>6. SubSeq(r, m + 1, n) = q
  <2>1. \A k \in (m + 1) .. n : r[k] \in E
    BY <1>3
  <2>2. /\ SubSeq(r, m + 1, n) \in Seq(E)
        /\ Len(SubSeq(r, m + 1, n)) = n - m
        /\ \A k \in 1 .. (n - m) : SubSeq(r, m + 1, n)[k] = r[m + k]
    BY <2>1, SubSeqProperties, m + 1 \in Int, n \in Int, n - (m + 1) + 1 = n - m,
       \A k \in 1 .. (n - m) : m + 1 + k - 1 = m + k
  <2>3. ASSUME NEW k \in 1 .. (n - m) PROVE SubSeq(r, m + 1, n)[k] = q[k]
    BY <1>2, <1>3, <2>2, m + k \in 1 .. n
  <2> QED BY <1>2, <2>2, <2>3, SeqEqual
<1> QED BY <1>4, <1>5, <1>6 DEF p, q, r

LEMMA RoundCardinality == \A S : Round!Cardinality(S) = Cardinality(S)
BY DEF Round!Cardinality, Cardinality

(* Calls have slots of their own, and the next one is free.                 *)
LEMMA Numbering ==
    ASSUME Spoken
    PROVE  /\ Len(output) \in Nat /\ DOMAIN output = 1 .. Len(output)
           /\ Round!Tools \subseteq DOMAIN output
           /\ Cardinality(Round!Tools) \in Nat
           /\ \A i : Round!ToolsBefore(i) \in Nat
           /\ \A i \in Round!Tools : Round!ToolsBefore(i) < Cardinality(Round!Tools)
           /\ \A i, j \in Round!Tools : Round!ToolsBefore(i) = Round!ToolsBefore(j) => i = j
           /\ Round!ToolsBefore(Round!New) = Cardinality(Round!Tools)
           /\ IsFiniteSet(Round!Tools)
<1>1. Len(output) \in Nat /\ DOMAIN output = 1 .. Len(output)
  BY DEF Spoken
<1>2. Round!Tools \in SUBSET (1 .. Len(output))
  BY <1>1 DEF Round!Tools
<1>3. /\ IsFiniteSet(Round!Tools) /\ Cardinality(Round!Tools) \in Nat
      /\ \A i : Round!ToolsBefore(i) \in Nat
      /\ \A i \in Round!Tools : Round!ToolsBefore(i) < Cardinality(Round!Tools)
      /\ \A i \in Round!Tools, k \in Nat : i < k => Round!ToolsBefore(i) < Round!ToolsBefore(k)
  BY <1>1, <1>2, Counting, RoundCardinality DEF Round!ToolsBefore
<1>4. ASSUME NEW i \in Round!Tools, NEW j \in Round!Tools, Round!ToolsBefore(i) = Round!ToolsBefore(j) PROVE i = j
  <2>1. i \in Nat /\ j \in Nat
    BY <1>1, <1>2
  <2>2. ~(i < j) /\ ~(j < i)
    BY <1>3, <1>4, <2>1
  <2> QED BY <2>1, <2>2
<1>5. {j \in Round!Tools : j < Round!New} = Round!Tools
  <2>1. ASSUME NEW j \in Round!Tools PROVE j < Round!New
    BY <1>1, <1>2 DEF Round!New
  <2> QED BY <2>1
<1>6. Round!ToolsBefore(Round!New) = Cardinality(Round!Tools)
  BY <1>5, RoundCardinality DEF Round!ToolsBefore
<1> QED BY <1>1, <1>2, <1>3, <1>4, <1>6

(* What an event without a call, and one with a part of a call, change.     *)
LEMMA HearsNone ==
    ASSUME NEW words, NEW reason, Round!Hears({}, words, reason)
    PROVE  /\ reading' = reading /\ text' = text \o words
           /\ DOMAIN calls' = DOMAIN calls /\ \A s \in DOMAIN calls : calls'[s] = calls[s]
           /\ finish' = IF reason # "no" THEN reason ELSE finish
           /\ finishSeen' = (finishSeen \/ reason # "no")
BY DEF Round!Hears, Round!Refused, Round!PushAll

Unspoken == finish' = finish /\ finishSeen' = (finishSeen \/ FALSE)
Heard(slot, known, total) ==
    /\ DOMAIN calls' = DOMAIN calls \cup {slot}
    /\ \A s \in DOMAIN calls \ {slot} : calls'[s] = calls[s]
    /\ calls'[slot] = [id |-> known, args |-> total]

LEMMA HearsOne ==
    ASSUME NEW slot \in Nat, NEW id, NEW args, NEW known, NEW total, slot < MaxTools,
           Merges(Round!Entry(calls, slot).id, id, known), total = Round!Entry(calls, slot).args \o args,
           Round!Hears({Round!Delta(slot, id, args)}, <<>>, "no")
    PROVE  Heard(slot, known, total) /\ reading' = reading /\ text' = text \o <<>> /\ Unspoken
<1> DEFINE d == Round!Delta(slot, id, args)
<1>1. d.slot = slot /\ d.id = id /\ d.args = args
  BY DEF Round!Delta
<1> HIDE DEF d
<1>2. ~Round!Refused({d})
  <2>1. ~(d.slot >= MaxTools)
    <3>1. MaxTools \in Nat
      BY RoundsAssumption
    <3>2. ~(slot >= MaxTools)
      BY <3>1, slot < MaxTools, slot \in Nat
    <3> QED BY <1>1, <3>2
  <2> QED BY <1>1, <2>1 DEF Round!Refused, Merges
<1>3. calls' = Round!PushAll(calls, {d})
  BY <1>2 DEF Round!Hears, d
<1>4. DOMAIN calls' = DOMAIN calls \cup {slot} /\ \A s \in DOMAIN calls \ {slot} : calls'[s] = calls[s]
  BY <1>1, <1>3 DEF Round!PushAll
<1>5. calls'[slot] = Round!PushOne(calls, d)
  <2>1. (CHOOSE e \in {d} : e.slot = slot) = d
    BY <1>1
  <2> QED BY <1>1, <1>3, <2>1 DEF Round!PushAll
<1>6. calls'[slot] = [id |-> known, args |-> total]
  BY <1>1, <1>5 DEF Round!PushOne, Merges
<1> QED BY <1>2, <1>4, <1>6 DEF Round!Hears, d, Heard, Unspoken

LEMMA HearsTooMany ==
    ASSUME NEW slot, NEW id, NEW args, slot >= MaxTools, Round!Hears({Round!Delta(slot, id, args)}, <<>>, "no")
    PROVE  reading' = "refused"
BY DEF Round!Hears, Round!Refused, Round!Delta

LEMMA GotIs ==
    ASSUME NEW i
    PROVE  Got(i) = IF output[i].kind = "tool" /\ output[i].sent = 0 /\ ~output[i].open THEN <<Round!NoArguments>>
                    ELSE Parts(i, output[i].want, 0, output[i].sent)
BY DEF Got, Round!Fragments, Parts

(* More of an item: the others, and the slots, stay as they are.            *)
LEMMA Altered ==
    ASSUME Spoken, NEW i \in DOMAIN output, NEW r \in Item, r.kind = output[i].kind, r.want = output[i].want,
           r.sent <= r.want, output' = [output EXCEPT ![i] = r], style' = style, backend' = backend
    PROVE  /\ Spoken' /\ DOMAIN output' = DOMAIN output /\ output'[i] = r
           /\ \A j \in DOMAIN output \ {i} : output'[j] = output[j] /\ NameKnown(j)' = NameKnown(j) /\ Got(j)' = Got(j)
           /\ Round!Tools' = Round!Tools /\ \A j : Round!ToolsBefore(j)' = Round!ToolsBefore(j)
<1>1. DOMAIN output' = DOMAIN output /\ output'[i] = r /\ \A j \in DOMAIN output \ {i} : output'[j] = output[j]
  BY DEF Spoken
<1>2. \A j \in DOMAIN output : output'[j].kind = output[j].kind
  BY <1>1
<1>3. Round!Tools' = Round!Tools
  BY <1>1, <1>2 DEF Round!Tools
<1>4. \A j : Round!ToolsBefore(j)' = Round!ToolsBefore(j)
  BY <1>3 DEF Round!ToolsBefore
<1>5. Spoken'
  <2>1. output' \in Seq(Item)
    BY DEF Spoken
  <2>2. \A j \in DOMAIN output' : output'[j].sent <= output'[j].want
    BY <1>1 DEF Spoken
  <2>3. \A j, k \in DOMAIN output' : output'[j].kind = "text" /\ output'[k].kind = "text" => j = k
    BY <1>1, <1>2 DEF Spoken
  <2> QED BY <1>3, <1>4, <2>1, <2>2, <2>3 DEF Spoken
<1>6. ASSUME NEW j \in DOMAIN output \ {i} PROVE NameKnown(j)' = NameKnown(j) /\ Got(j)' = Got(j)
  <2>1. output'[j] = output[j]
    BY <1>1
  <2>2. NameKnown(j)' = NameKnown(j)
    BY <2>1 DEF NameKnown, Round!Name
  <2>3. Got(j)' = Got(j)
    BY <2>1 DEF Got, Round!NoArguments, Round!Fragments
  <2> QED BY <2>2, <2>3
<1> QED BY <1>1, <1>3, <1>4, <1>5, <1>6

(* One item more: a call takes the next slot.                               *)
LEMMA Appended ==
    ASSUME Spoken, NEW n, n = Round!New, NEW r \in Item, r.sent <= r.want,
           r.kind = "text" => \A i \in DOMAIN output : output[i].kind = "tool",
           output' = Append(output, r), style' = style, backend' = backend
    PROVE  /\ Spoken' /\ DOMAIN output' = DOMAIN output \cup {n} /\ n \notin DOMAIN output /\ output'[n] = r
           /\ \A j \in DOMAIN output : output'[j] = output[j] /\ NameKnown(j)' = NameKnown(j) /\ Got(j)' = Got(j)
           /\ Round!Tools' = IF r.kind = "tool" THEN Round!Tools \cup {n} ELSE Round!Tools
           /\ \A j \in DOMAIN output' : Round!ToolsBefore(j)' = Round!ToolsBefore(j)
           /\ Round!ToolsBefore(n) = Cardinality(Round!Tools)
           /\ Cardinality(Round!Tools)' =
                  IF r.kind = "tool" THEN Cardinality(Round!Tools) + 1 ELSE Cardinality(Round!Tools)
<1>1. /\ Len(output) \in Nat /\ DOMAIN output = 1 .. Len(output) /\ n = Len(output) + 1
      /\ DOMAIN output' = 1 .. (Len(output) + 1)
      /\ output'[n] = r /\ \A j \in DOMAIN output : output'[j] = output[j]
  BY DEF Spoken, Round!New
<1>2. DOMAIN output' = DOMAIN output \cup {n} /\ n \notin DOMAIN output
  BY <1>1
<1>3. r.kind \in {"text", "tool"}
  BY DEF Item
<1>4. Round!Tools' = IF r.kind = "tool" THEN Round!Tools \cup {n} ELSE Round!Tools
  BY <1>1, <1>2 DEF Round!Tools
<1>5. Round!ToolsBefore(n) = Cardinality(Round!Tools) /\ IsFiniteSet(Round!Tools) /\ Round!Tools \subseteq DOMAIN output
  BY Numbering
<1>6. ASSUME NEW j \in DOMAIN output' PROVE Round!ToolsBefore(j)' = Round!ToolsBefore(j)
  <2>1. ~(n < j)
    BY <1>1
  <2>2. {k \in Round!Tools' : k < j} = {k \in Round!Tools : k < j}
    BY <1>1, <1>4, <2>1
  <2> QED BY <2>2 DEF Round!ToolsBefore
<1>7. Cardinality(Round!Tools)' =
          IF r.kind = "tool" THEN Cardinality(Round!Tools) + 1 ELSE Cardinality(Round!Tools)
  <2>1. n \notin Round!Tools
    BY <1>2, <1>5
  <2> QED BY <1>4, <1>5, <2>1, FS_AddElement
<1>8. Spoken'
  <2>1. output' \in Seq(Item)
    BY DEF Spoken
  <2>2. \A j \in DOMAIN output' : output'[j].sent <= output'[j].want
    BY <1>1, <1>2 DEF Spoken
  <2>3. \A j, k \in DOMAIN output' : output'[j].kind = "text" /\ output'[k].kind = "text" => j = k
    BY <1>1, <1>2 DEF Spoken
  <2>4. ({Round!ToolsBefore(j) : j \in Round!Tools} = 0 .. (Cardinality(Round!Tools) - 1))'
    <3>1. CASE r.kind = "tool"
      <4>1. {Round!ToolsBefore(j) : j \in Round!Tools}' = {Round!ToolsBefore(j) : j \in Round!Tools} \cup {Cardinality(Round!Tools)}
        BY <1>2, <1>4, <1>5, <1>6, <3>1
      <4>2. Cardinality(Round!Tools) \in Nat
        BY Numbering
      <4>3. {Round!ToolsBefore(j) : j \in Round!Tools} = 0 .. (Cardinality(Round!Tools) - 1)
        BY DEF Spoken
      <4>4. 0 .. (Cardinality(Round!Tools) - 1) \cup {Cardinality(Round!Tools)} = 0 .. (Cardinality(Round!Tools) + 1 - 1)
        BY <4>2
      <4>5. Cardinality(Round!Tools)' = Cardinality(Round!Tools) + 1
        BY <1>7, <3>1
      <4>6. {Round!ToolsBefore(j) : j \in Round!Tools}' = 0 .. (Cardinality(Round!Tools) + 1 - 1)
        BY <4>1, <4>3, <4>4
      <4>7. Cardinality(Round!Tools)' - 1 = Cardinality(Round!Tools) + 1 - 1
        BY <4>2, <4>5
      <4> QED BY <4>6, <4>7
    <3>2. CASE r.kind # "tool"
      BY <1>2, <1>4, <1>5, <1>6, <1>7, <3>2 DEF Spoken
    <3> QED BY <3>1, <3>2
  <2> QED BY <2>1, <2>2, <2>3, <2>4 DEF Spoken
<1>9. ASSUME NEW j \in DOMAIN output PROVE NameKnown(j)' = NameKnown(j) /\ Got(j)' = Got(j)
  <2>1. output'[j] = output[j]
    BY <1>1
  <2>2. NameKnown(j)' = NameKnown(j)
    BY <2>1 DEF NameKnown, Round!Name
  <2>3. Got(j)' = Got(j)
    BY <2>1 DEF Got, Round!NoArguments, Round!Fragments
  <2> QED BY <2>2, <2>3
<1> QED BY <1>1, <1>2, <1>4, <1>5, <1>6, <1>7, <1>8, <1>9

(* One item says more, or is new, and the reader takes it.                  *)
Untouched(i) ==
    /\ DOMAIN output' \ {i} = DOMAIN output \ {i} /\ i \in DOMAIN output'
    /\ \A j \in DOMAIN output' \ {i} : output'[j] = output[j] /\ NameKnown(j)' = NameKnown(j) /\ Got(j)' = Got(j)
    /\ \A j \in DOMAIN output' : Round!ToolsBefore(j)' = Round!ToolsBefore(j)
    /\ Round!Tools' \ {i} = Round!Tools \ {i} /\ (i \in Round!Tools => i \in Round!Tools')
    /\ i \in DOMAIN output => Round!Tools' = Round!Tools
    /\ \A j \in Round!Tools' \ {i} : Round!ToolsBefore(j) # Round!ToolsBefore(i) \/ i \notin Round!Tools'

Takes(i) ==
    IF i \in Round!Tools'
    THEN /\ DOMAIN calls' = DOMAIN calls \cup {Round!ToolsBefore(i)} /\ text' = text
         /\ \A s \in DOMAIN calls \ {Round!ToolsBefore(i)} : calls'[s] = calls[s]
         /\ calls'[Round!ToolsBefore(i)] = [id |-> NameKnown(i)', args |-> Got(i)']
    ELSE DOMAIN calls' = DOMAIN calls /\ (\A s \in DOMAIN calls : calls'[s] = calls[s]) /\ text' = Got(i)'

LEMMA KeptStep ==
    ASSUME Spoken, Spoken', KeptSoFar, NEW i, Untouched(i), Takes(i),
           Met' = Met \cup {i}, \A j \in 1 .. (i - 1) : j \in Met
    PROVE  KeptSoFar'
<1>1. Met' \subseteq DOMAIN output'
  BY DEF KeptSoFar, Untouched
<1>2. \A k \in Met' : \A j \in 1 .. (k - 1) : j \in Met'
  BY DEF KeptSoFar
<1>3. \A k \in DOMAIN output' \ Met' : output'[k].sent = 0 /\ output'[k].open
  BY DEF KeptSoFar, Untouched
<1>4. Round!Tools \subseteq DOMAIN output /\ Round!Tools' \subseteq DOMAIN output'
  BY DEF Round!Tools
<1>5. CASE i \in Round!Tools'
  <2>1. Round!Tools' \cap Met' = (Round!Tools \cap Met) \cup {i}
    BY <1>5 DEF Untouched
  <2>2. \A j \in Round!Tools' \cap Met' : Round!ToolsBefore(j)' = Round!ToolsBefore(j)
    BY <1>4 DEF Untouched
  <2>3. {Round!ToolsBefore(j) : j \in Round!Tools \cap Met}' = {Round!ToolsBefore(j) : j \in Round!Tools \cap Met} \cup {Round!ToolsBefore(i)}
    BY <2>1, <2>2
  <2>4. DOMAIN calls' = {Round!ToolsBefore(j) : j \in Round!Tools \cap Met}'
    BY <1>5, <2>3 DEF Takes, KeptSoFar
  <2>5. ASSUME NEW j \in Round!Tools' \cap Met'
        PROVE  calls'[Round!ToolsBefore(j)'] = [id |-> NameKnown(j)', args |-> Got(j)']
    <3>1. CASE j = i
      BY <1>5, <2>2, <3>1 DEF Takes
    <3>2. CASE j # i
      <4>1. j \in Round!Tools \cap Met /\ j \in DOMAIN output' \ {i}
        BY <1>4, <2>1, <3>2
      <4>2. Round!ToolsBefore(j) \in DOMAIN calls \ {Round!ToolsBefore(i)}
        BY <1>5, <3>2, <4>1 DEF KeptSoFar, Untouched
      <4>3. calls'[Round!ToolsBefore(j)] = calls[Round!ToolsBefore(j)]
        BY <1>5, <4>2 DEF Takes
      <4>4. calls[Round!ToolsBefore(j)] = [id |-> NameKnown(j), args |-> Got(j)]
        BY <4>1 DEF KeptSoFar
      <4>5. NameKnown(j)' = NameKnown(j) /\ Got(j)' = Got(j)
        BY <4>1 DEF Untouched
      <4> QED BY <2>2, <4>3, <4>4, <4>5
    <3> QED BY <3>1, <3>2
  <2>6. ASSUME NEW j \in DOMAIN output' \ Round!Tools' PROVE text' = Got(j)'
    <3>1. j # i /\ j \in DOMAIN output \ Round!Tools
      BY <1>5 DEF Untouched
    <3> QED BY <1>5, <3>1 DEF KeptSoFar, Takes, Untouched
  <2>7. ASSUME Round!Tools' = DOMAIN output' PROVE text' = <<>>
    <3>1. Round!Tools = DOMAIN output
      BY <1>4, <2>7 DEF Untouched
    <3> QED BY <1>5, <3>1 DEF KeptSoFar, Takes
  <2> QED BY <1>1, <1>2, <1>3, <2>4, <2>5, <2>6, <2>7 DEF KeptSoFar
<1>6. CASE i \notin Round!Tools'
  <2>1. Round!Tools' \cap Met' = Round!Tools \cap Met
    BY <1>6 DEF Untouched
  <2>2. \A j \in Round!Tools' \cap Met' : Round!ToolsBefore(j)' = Round!ToolsBefore(j)
    BY <1>4 DEF Untouched
  <2>3. {Round!ToolsBefore(j) : j \in Round!Tools \cap Met}' = {Round!ToolsBefore(j) : j \in Round!Tools \cap Met}
    BY <2>1, <2>2
  <2>4. DOMAIN calls' = {Round!ToolsBefore(j) : j \in Round!Tools \cap Met}'
    BY <1>6, <2>3 DEF Takes, KeptSoFar
  <2>5. ASSUME NEW j \in Round!Tools' \cap Met'
        PROVE  calls'[Round!ToolsBefore(j)'] = [id |-> NameKnown(j)', args |-> Got(j)']
    <3>1. j \in Round!Tools \cap Met /\ j \in DOMAIN output' \ {i}
      BY <1>4, <1>6, <2>1
    <3>2. calls'[Round!ToolsBefore(j)] = calls[Round!ToolsBefore(j)]
      BY <1>6, <3>1 DEF Takes, KeptSoFar
    <3>3. calls[Round!ToolsBefore(j)] = [id |-> NameKnown(j), args |-> Got(j)]
      BY <3>1 DEF KeptSoFar
    <3>4. NameKnown(j)' = NameKnown(j) /\ Got(j)' = Got(j)
      BY <3>1 DEF Untouched
    <3> QED BY <2>2, <3>2, <3>3, <3>4
  <2>6. ASSUME NEW j \in DOMAIN output' \ Round!Tools' PROVE text' = Got(j)'
    <3>1. i \in DOMAIN output' /\ output'[i].kind # "tool" /\ output'[j].kind # "tool"
      BY <1>6 DEF Untouched, Round!Tools
    <3>2. output'[i] \in Item /\ output'[j] \in Item
      BY <3>1 DEF Spoken
    <3>3. i = j
      BY <3>1, <3>2 DEF Spoken, Item
    <3> QED BY <1>6, <3>3 DEF Takes
  <2>7. Round!Tools' # DOMAIN output'
    BY <1>6 DEF Untouched
  <2> QED BY <1>1, <1>2, <1>3, <2>4, <2>5, <2>6, <2>7 DEF KeptSoFar
<1> QED BY <1>5, <1>6

LEMMA UntouchedAltered ==
    ASSUME Spoken, NEW i \in DOMAIN output, NEW r \in Item, r.kind = output[i].kind, r.want = output[i].want,
           r.sent <= r.want, output' = [output EXCEPT ![i] = r], style' = style, backend' = backend
    PROVE  Untouched(i) /\ Spoken' /\ Round!Tools' = Round!Tools /\ DOMAIN output' = DOMAIN output /\ output'[i] = r
<1>1. /\ Spoken' /\ DOMAIN output' = DOMAIN output /\ output'[i] = r
      /\ \A j \in DOMAIN output \ {i} : output'[j] = output[j] /\ NameKnown(j)' = NameKnown(j) /\ Got(j)' = Got(j)
      /\ Round!Tools' = Round!Tools /\ \A j : Round!ToolsBefore(j)' = Round!ToolsBefore(j)
  BY Altered
<1>2. \A j, k \in Round!Tools : Round!ToolsBefore(j) = Round!ToolsBefore(k) => j = k
  BY Numbering
<1> QED BY <1>1, <1>2 DEF Untouched

LEMMA UntouchedAppended ==
    ASSUME Spoken, NEW n, n = Round!New, NEW r \in Item, r.sent <= r.want,
           r.kind = "text" => \A i \in DOMAIN output : output[i].kind = "tool",
           output' = Append(output, r), style' = style, backend' = backend
    PROVE  Untouched(n)
<1>1. /\ Spoken' /\ DOMAIN output' = DOMAIN output \cup {n} /\ n \notin DOMAIN output /\ output'[n] = r
      /\ \A j \in DOMAIN output : output'[j] = output[j] /\ NameKnown(j)' = NameKnown(j) /\ Got(j)' = Got(j)
      /\ Round!Tools' = IF r.kind = "tool" THEN Round!Tools \cup {n} ELSE Round!Tools
      /\ \A j \in DOMAIN output' : Round!ToolsBefore(j)' = Round!ToolsBefore(j)
      /\ Round!ToolsBefore(n) = Cardinality(Round!Tools)
  BY Appended
<1>2. \A j \in Round!Tools : Round!ToolsBefore(j) # Round!ToolsBefore(n)
  <2>1. ASSUME NEW j \in Round!Tools PROVE Round!ToolsBefore(j) # Round!ToolsBefore(n)
    <3>1. Round!ToolsBefore(j) < Cardinality(Round!Tools) /\ Cardinality(Round!Tools) \in Nat /\ Round!ToolsBefore(j) \in Nat
      BY Numbering
    <3> QED BY <1>1, <3>1
  <2> QED BY <2>1
<1>3. Round!Tools \subseteq DOMAIN output
  BY DEF Round!Tools
<1>4. Round!Tools' \ {n} = Round!Tools
  BY <1>1, <1>3
<1>5. DOMAIN output' \ {n} = DOMAIN output
  BY <1>1
<1> QED BY <1>1, <1>2, <1>3, <1>4, <1>5 DEF Untouched

(* What the accumulator holds of a call, and of one it has not met.         *)
LEMMA EntryIs ==
    ASSUME Spoken, KeptSoFar
    PROVE  /\ \A i \in Round!Tools \cap Met :
                  Round!Entry(calls, Round!ToolsBefore(i)) = [id |-> NameKnown(i), args |-> Got(i)]
           /\ \A s : s \notin DOMAIN calls => Round!Entry(calls, s) = [id |-> <<>>, args |-> <<>>]
BY DEF KeptSoFar, Round!Entry

LEMMA TextStays ==
    ASSUME Spoken, KeptSoFar
    PROVE  text \o <<>> = text
<1>1. CASE Round!Tools = DOMAIN output
  <2>1. text = <<>> /\ <<>> \in Seq(Nat)
    BY <1>1 DEF KeptSoFar
  <2> QED BY <2>1, ConcatEmptySeq
<1>2. CASE Round!Tools # DOMAIN output
  <2>1. PICK i \in DOMAIN output : i \notin Round!Tools
    BY <1>2 DEF Round!Tools
  <2>2. text = Parts(i, output[i].want, 0, output[i].sent)
    BY <2>1, GotIs DEF KeptSoFar, Round!Tools
  <2>3. output[i].sent \in Nat
    <3>1. output[i] \in Item
      BY DEF Spoken
    <3> QED BY <3>1 DEF Item
  <2>4. text \in Seq(Fragment(i, output[i].want))
    BY <2>2, <2>3, PartsType, 0 \in Nat, 0 <= output[i].sent
  <2> QED BY <2>4, ConcatEmptySeq
<1> QED BY <1>1, <1>2

LEMMA HonestStep ==
    ASSUME Honest, said \in {"no", "cutting"}, said' = said, backend' = backend, Unspoken, fault' \in {"none", "crowd"},
           backend # "responses" => fault' = "none",
           fault' = "none" => Cardinality(Round!Tools)' <= MaxTools
    PROVE  Honest'
BY DEF Honest, Unspoken

(* A part of a call that is met already, and the first of one that is not.  *)
LEMMA TakesMore ==
    ASSUME Spoken, KeptSoFar, NEW i \in Round!Tools \cap Met, NEW id, NEW args, Untouched(i),
           Cardinality(Round!Tools) <= MaxTools,
           Merges(NameKnown(i), id, NameKnown(i)'), Got(i)' = Got(i) \o args,
           Round!Hears({Round!Delta(Round!ToolsBefore(i), id, args)}, <<>>, "no")
    PROVE  Takes(i) /\ reading' = reading /\ Unspoken
<1>1. Round!ToolsBefore(i) \in Nat /\ Round!ToolsBefore(i) < MaxTools
  BY Numbering, RoundsAssumption
<1>2. Round!Entry(calls, Round!ToolsBefore(i)) = [id |-> NameKnown(i), args |-> Got(i)]
  BY EntryIs
<1>3. Merges(Round!Entry(calls, Round!ToolsBefore(i)).id, id, NameKnown(i)')
  BY <1>2
<1>4. Got(i)' = Round!Entry(calls, Round!ToolsBefore(i)).args \o args
  BY <1>2
<1>5. Heard(Round!ToolsBefore(i), NameKnown(i)', Got(i)') /\ reading' = reading /\ text' = text \o <<>> /\ Unspoken
  BY <1>1, <1>3, <1>4, HearsOne
<1>6. i \in Round!Tools'
  BY DEF Untouched
<1> QED BY <1>5, <1>6, TextStays DEF Takes, Heard

LEMMA TakesNew ==
    ASSUME Spoken, KeptSoFar, NEW i \in Round!Tools', NEW id, NEW args, Untouched(i),
           Round!ToolsBefore(i) \notin DOMAIN calls, Round!ToolsBefore(i) < MaxTools,
           Merges(<<>>, id, NameKnown(i)'), Got(i)' = <<>> \o args,
           Round!Hears({Round!Delta(Round!ToolsBefore(i), id, args)}, <<>>, "no")
    PROVE  Takes(i) /\ reading' = reading /\ Unspoken
<1>1. Round!ToolsBefore(i) \in Nat
  BY Numbering
<1>2. Round!Entry(calls, Round!ToolsBefore(i)) = [id |-> <<>>, args |-> <<>>]
  BY EntryIs
<1>3. Merges(Round!Entry(calls, Round!ToolsBefore(i)).id, id, NameKnown(i)')
  BY <1>2
<1>4. Got(i)' = Round!Entry(calls, Round!ToolsBefore(i)).args \o args
  <2>1. Round!Entry(calls, Round!ToolsBefore(i)).args = <<>>
    BY <1>2
  <2> QED BY <2>1
<1>5. Heard(Round!ToolsBefore(i), NameKnown(i)', Got(i)') /\ reading' = reading /\ text' = text \o <<>> /\ Unspoken
  BY <1>1, <1>3, <1>4, HearsOne
<1> QED BY <1>5, TextStays DEF Takes, Heard

(* A piece of the text, and nothing at all.                                 *)
LEMMA TakesText ==
    ASSUME NEW i, NEW words, i \notin Round!Tools', Got(i)' = text \o words, Round!Hears({}, words, "no")
    PROVE  Takes(i) /\ reading' = reading /\ Unspoken
<1>1. /\ reading' = reading /\ text' = text \o words
      /\ DOMAIN calls' = DOMAIN calls /\ \A s \in DOMAIN calls : calls'[s] = calls[s]
      /\ finish' = finish /\ finishSeen' = (finishSeen \/ FALSE)
  BY HearsNone
<1> QED BY <1>1 DEF Takes, Unspoken

LEMMA TakesNone ==
    ASSUME Spoken, KeptSoFar, NEW i \in Round!Tools \cap Met, Untouched(i), NameKnown(i)' = NameKnown(i), Got(i)' = Got(i),
           Round!Hears({}, <<>>, "no")
    PROVE  Takes(i) /\ reading' = reading /\ Unspoken
<1>1. /\ reading' = reading /\ text' = text \o <<>>
      /\ DOMAIN calls' = DOMAIN calls /\ \A s \in DOMAIN calls : calls'[s] = calls[s]
      /\ finish' = finish /\ finishSeen' = (finishSeen \/ FALSE)
  BY HearsNone
<1>2. Round!ToolsBefore(i) \in DOMAIN calls /\ calls[Round!ToolsBefore(i)] = [id |-> NameKnown(i), args |-> Got(i)]
  BY DEF KeptSoFar
<1>3. i \in Round!Tools'
  BY DEF Untouched
<1> QED BY <1>1, <1>2, <1>3, TextStays DEF Takes, Unspoken

(* A step that goes on reading keeps what its item and its protocol keep.   *)
LEMMA ReadsOn ==
    ASSUME Spoken, Honest, KeptSoFar, NEW i, Untouched(i), Spoken', Takes(i), reading = "reading", reading' = reading,
           Unspoken, Met' = Met \cup {i}, \A j \in 1 .. (i - 1) : j \in Met,
           said \in {"no", "cutting"}, said' = said, backend' = backend, fault' \in {"none", "crowd"},
           backend # "responses" => fault' = "none",
           fault' = "none" => Cardinality(Round!Tools)' <= MaxTools,
           OpenaiKeeps', ClaudeKeeps', ResponsesKeeps'
    PROVE  RoundInv'
<1>1. KeptSoFar'
  BY KeptStep
<1>2. Honest'
  BY HonestStep
<1> QED BY <1>1, <1>2 DEF RoundInv, InProgress, Round!WholeRoundsAccepted

LEMMA SendsMore ==
    ASSUME Spoken, NEW i \in DOMAIN output, Round!Sends(i)
    PROVE  /\ Untouched(i) /\ Spoken' /\ Round!Tools' = Round!Tools /\ DOMAIN output' = DOMAIN output
           /\ output'[i].kind = output[i].kind /\ output'[i].want = output[i].want
           /\ output'[i].sent = output[i].sent + 1 /\ output[i].sent \in Nat
           /\ output[i].open /\ output'[i].open
           /\ NameKnown(i)' = Round!Name(i)
           /\ Got(i) = Round!Fragments(i, 0, output[i].sent)
           /\ Got(i)' = Got(i) \o Round!NextFragment(i)
           /\ said = "no" /\ said' = said /\ fault = "none" /\ fault' = fault
           /\ backend' = backend /\ style' = style /\ reader' = reader
<1> DEFINE r == [output[i] EXCEPT !.sent = @ + 1, !.told = 2]
<1>1. output[i] \in Item /\ output[i].sent < output[i].want /\ output[i].open
  BY DEF Spoken, Round!Sends
<1>2. /\ r \in Item /\ r.kind = output[i].kind /\ r.want = output[i].want /\ r.sent = output[i].sent + 1
      /\ r.open = output[i].open /\ r.told = 2 /\ output[i].sent \in Nat /\ output[i].want \in Nat /\ r.sent <= r.want
  <2>1. output[i].sent \in Nat /\ output[i].want \in Nat
    BY <1>1 DEF Item
  <2>2. /\ r.kind = output[i].kind /\ r.want = output[i].want /\ r.sent = output[i].sent + 1
        /\ r.open = output[i].open /\ r.told = 2
    BY <1>1 DEF Item
  <2>3. output[i].sent + 1 \in Nat
    BY <2>1
  <2>4. r \in Item
    BY <1>1, <2>3 DEF Item
  <2>5. output[i].sent + 1 <= output[i].want
    BY <1>1, <2>1
  <2> QED BY <2>1, <2>2, <2>4, <2>5
<1>3. output' = [output EXCEPT ![i] = r]
  BY DEF Round!Sends
<1> HIDE DEF r
<1>4. /\ backend' = backend /\ style' = style /\ reader' = reader /\ said' = said /\ fault' = fault
      /\ said = "no" /\ fault = "none"
  BY DEF Round!Sends, Round!connection, Round!Speaking
<1>5. Untouched(i) /\ Spoken' /\ Round!Tools' = Round!Tools /\ DOMAIN output' = DOMAIN output /\ output'[i] = r
  BY <1>2, <1>3, <1>4, UntouchedAltered
<1>6. NameKnown(i)' = Round!Name(i)
  BY <1>2, <1>5 DEF NameKnown, Round!Name
<1>7. Got(i) = Parts(i, output[i].want, 0, output[i].sent) /\ Got(i) = Round!Fragments(i, 0, output[i].sent)
  BY <1>1 DEF Got, Round!Fragments, Parts
<1>8. Got(i)' = Parts(i, output[i].want, 0, output[i].sent + 1)
  <2>1. output'[i].sent = output[i].sent + 1 /\ output'[i].want = output[i].want /\ output'[i].sent # 0
    BY <1>2, <1>5
  <2> QED BY <2>1 DEF Got, Round!Fragments, Parts
<1>9. Round!NextFragment(i) = Parts(i, output[i].want, output[i].sent, output[i].sent + 1)
  BY DEF Round!NextFragment, Round!Fragments, Parts
<1>10. Got(i)' = Got(i) \o Round!NextFragment(i)
  <2>1. output[i].sent \in Nat /\ output[i].sent + 1 \in Nat /\ output[i].sent <= output[i].sent + 1
    BY <1>2
  <2>2. Parts(i, output[i].want, 0, output[i].sent) \o Parts(i, output[i].want, output[i].sent, output[i].sent + 1)
            = Parts(i, output[i].want, 0, output[i].sent + 1)
    BY <2>1, Joining
  <2> QED BY <1>7, <1>8, <1>9, <2>2
<1> QED BY <1>1, <1>2, <1>4, <1>5, <1>6, <1>7, <1>10

LEMMA Earlier ==
    ASSUME Spoken, NEW i \in DOMAIN output
    PROVE  1 .. (i - 1) \subseteq DOMAIN output
<1>1. Len(output) \in Nat /\ DOMAIN output = 1 .. Len(output)
  BY Numbering
<1> QED BY <1>1

LEMMA KnownOnce ==
    ASSUME Spoken, backend # "openai", NEW i
    PROVE  NameKnown(i) = Round!Name(i)
BY DEF Spoken, NameKnown

LEMMA ClaudeDeltaKeeps ==
    ASSUME Spoken, InProgress, reading = "reading", NEW i \in DOMAIN output, Round!ClaudeDelta(i)
    PROVE  RoundInv'
<1>1. backend = "claude" /\ Round!Sends(i) /\ indices' = indices /\ items' = items
  BY DEF Round!ClaudeDelta
<1>2. /\ Untouched(i) /\ Spoken' /\ Round!Tools' = Round!Tools /\ DOMAIN output' = DOMAIN output
      /\ output'[i].sent = output[i].sent + 1 /\ output[i].sent \in Nat
      /\ NameKnown(i)' = Round!Name(i) /\ Got(i)' = Got(i) \o Round!NextFragment(i)
      /\ said = "no" /\ said' = said /\ fault = "none" /\ fault' = fault /\ backend' = backend
  BY <1>1, SendsMore
<1>3. Honest /\ KeptSoFar /\ ClaudeKeeps /\ Met = DOMAIN output /\ Met' = DOMAIN output'
  BY <1>1, <1>2 DEF InProgress, Met
<1>4. Cardinality(Round!Tools) <= MaxTools
  BY <1>2, <1>3 DEF Honest
<1>5. Takes(i) /\ reading' = reading /\ Unspoken /\ hasInput' = IF i \in Round!Tools THEN hasInput \cup {i} ELSE hasInput
  <2>1. CASE i \in Round!Tools
    <3>1. /\ Round!Hears({Round!Delta(Round!ToolsBefore(i), <<>>, Round!NextFragment(i))}, <<>>, "no")
          /\ hasInput' = hasInput \cup {i}
      BY <1>1, <1>3, <2>1 DEF Round!ClaudeDelta, ClaudeKeeps, Round!Tools
    <3>2. Merges(NameKnown(i), <<>>, NameKnown(i)')
      BY <1>1, <1>2, KnownOnce, Merging
    <3> QED BY <1>2, <1>3, <1>4, <2>1, <3>1, <3>2, TakesMore
  <2>2. CASE i \notin Round!Tools
    <3>1. Round!Hears({}, Round!NextFragment(i), "no") /\ hasInput' = hasInput
      BY <2>2 DEF Round!ClaudeDelta, Round!Tools
    <3>2. text = Got(i)
      BY <1>3, <2>2 DEF KeptSoFar
    <3> QED BY <1>2, <2>2, <3>1, <3>2, TakesText
  <2> QED BY <2>1, <2>2
<1>6. ClaudeKeeps'
  <2>1. DOMAIN indices' = Round!Tools' /\ \A j \in Round!Tools' : indices'[j] = Round!ToolsBefore(j)'
    BY <1>1, <1>2, <1>3 DEF ClaudeKeeps, Untouched, Round!Tools
  <2>2. hasInput' = {j \in Round!Tools' : output'[j].sent > 0 \/ ~output'[j].open}
    <3>1. \A j \in Round!Tools \ {i} : output'[j] = output[j]
      BY <1>2 DEF Untouched, Round!Tools
    <3>2. output'[i].sent > 0
      BY <1>2
    <3>3. hasInput = {j \in Round!Tools : output[j].sent > 0 \/ ~output[j].open}
      BY <1>1, <1>3 DEF ClaudeKeeps
    <3> QED BY <1>2, <1>5, <3>1, <3>2, <3>3
  <2> QED BY <2>1, <2>2 DEF ClaudeKeeps
<1>7. OpenaiKeeps' /\ ResponsesKeeps'
  BY <1>1, <1>2 DEF OpenaiKeeps, ResponsesKeeps
<1>8. Met' = Met \cup {i} /\ \A j \in 1 .. (i - 1) : j \in Met
  BY <1>2, <1>3, Earlier
<1> QED BY <1>2, <1>3, <1>4, <1>5, <1>6, <1>7, <1>8, ReadsOn

LEMMA OpenaiDeltaKeeps ==
    ASSUME Spoken, InProgress, reading = "reading", NEW i \in DOMAIN output, Round!OpenaiDelta(i)
    PROVE  RoundInv'
<1>1. backend = "openai" /\ Round!Sends(i)
  BY DEF Round!OpenaiDelta
<1>2. /\ Untouched(i) /\ Spoken' /\ Round!Tools' = Round!Tools /\ DOMAIN output' = DOMAIN output
      /\ output'[i].kind = output[i].kind /\ output'[i].want = output[i].want /\ output'[i].open
      /\ NameKnown(i)' = Round!Name(i) /\ Got(i)' = Got(i) \o Round!NextFragment(i)
      /\ said = "no" /\ said' = said /\ fault = "none" /\ fault' = fault /\ backend' = backend
  BY <1>1, SendsMore
<1>3. Honest /\ KeptSoFar /\ OpenaiKeeps /\ Met = DOMAIN output /\ Met' = DOMAIN output'
  BY <1>1, <1>2 DEF InProgress, Met
<1>4. Cardinality(Round!Tools) <= MaxTools
  BY <1>2, <1>3 DEF Honest
<1>5. Takes(i) /\ reading' = reading /\ Unspoken
  <2>1. CASE i \in Round!Tools
    <3>1. Round!Hears({Round!Delta(Round!ToolsBefore(i), Round!Identity(i, FALSE), Round!NextFragment(i))}, <<>>, "no")
      BY <2>1 DEF Round!OpenaiDelta, Round!Tools
    <3>2. Merges(NameKnown(i), Round!Identity(i, FALSE), Round!Name(i))
      <4>1. style \in {"once", "repeated", "growing"} /\ Round!Name(i) = Round!Name(i)
        BY DEF Spoken
      <4>2. CASE style = "once"
        BY <1>1, <4>2, Merging DEF Round!Identity, NameKnown
      <4>3. CASE style = "repeated"
        BY <1>1, <4>3, Merging DEF Round!Identity, NameKnown
      <4>4. CASE style = "growing"
        <5>1. Round!Identity(i, FALSE) = Round!Name(i)
          BY <1>1, <4>4 DEF Round!Identity
        <5>2. NameKnown(i) \in {Round!Name(i), <<Round!Name(i)[1]>>}
          BY DEF NameKnown
        <5> QED BY <5>1, <5>2, Merging
      <4> QED BY <4>1, <4>2, <4>3, <4>4
    <3>3. Merges(NameKnown(i), Round!Identity(i, FALSE), NameKnown(i)')
      BY <1>2, <3>2
    <3> QED BY <1>2, <1>3, <1>4, <2>1, <3>1, <3>3, TakesMore
  <2>2. CASE i \notin Round!Tools
    <3>1. Round!Hears({}, Round!NextFragment(i), "no")
      BY <2>2 DEF Round!OpenaiDelta, Round!Tools
    <3>2. text = Got(i)
      BY <1>3, <2>2 DEF KeptSoFar
    <3> QED BY <1>2, <2>2, <3>1, <3>2, TakesText
  <2> QED BY <2>1, <2>2
<1>6. OpenaiKeeps'
  BY <1>1, <1>2, <1>3 DEF OpenaiKeeps, Untouched
<1>7. ClaudeKeeps' /\ ResponsesKeeps'
  BY <1>1, <1>2 DEF ClaudeKeeps, ResponsesKeeps
<1>8. Met' = Met \cup {i} /\ \A j \in 1 .. (i - 1) : j \in Met
  BY <1>2, <1>3, Earlier
<1> QED BY <1>2, <1>3, <1>4, <1>5, <1>6, <1>7, <1>8, ReadsOn

(* The Responses stream receives a piece of an item that it has met.        *)
LEMMA Received ==
    ASSUME Spoken, InProgress, NEW i \in DOMAIN items, NEW new, backend = "responses", fault = "none", reading = "reading",
           Untouched(i), Spoken', Round!Tools' = Round!Tools, DOMAIN output' = DOMAIN output,
           Got(i)' = Got(i) \o new, Round!Receives(i, new), ~items[i].done,
           output'[i].kind = output[i].kind, ~output'[i].open => output'[i].sent = output'[i].want,
           said = "no", said' = said, fault' = fault, backend' = backend, style' = style,
           new = <<>> => Got(i)' = Got(i)
    PROVE  RoundInv'
<1>1. Honest /\ KeptSoFar /\ ResponsesKeeps /\ Met = DOMAIN items /\ i \in DOMAIN output
  BY DEF InProgress, Met, KeptSoFar
<1>2. Cardinality(Round!Tools) <= MaxTools
  BY <1>1 DEF Honest
<1>3. NameKnown(i) = Round!Name(i) /\ NameKnown(i)' = Round!Name(i)
  BY DEF Spoken, NameKnown, Round!Name
<1>4. /\ items[i].kind = output[i].kind /\ items[i].slot = Round!ToolsBefore(i) /\ items[i].got = Got(i)
      /\ items[i] = [kind |-> output[i].kind, slot |-> Round!ToolsBefore(i), got |-> Got(i), done |-> items[i].done]
  BY <1>1 DEF ResponsesKeeps
<1>5. Takes(i) /\ reading' = reading /\ Unspoken
  <2>1. CASE i \in Round!Tools /\ new # <<>>
    <3>1. Round!Hears({Round!Delta(Round!ToolsBefore(i), <<>>, new)}, <<>>, "no")
      BY <1>4, <2>1 DEF Round!Receives, Round!Tools
    <3>2. Merges(NameKnown(i), <<>>, NameKnown(i)')
      BY <1>3, Merging
    <3> QED BY <1>1, <1>2, <2>1, <3>1, <3>2, TakesMore
  <2>2. CASE i \in Round!Tools /\ new = <<>>
    <3>1. Round!Hears({}, <<>>, "no")
      BY <2>2 DEF Round!Receives, Round!Tools
    <3> QED BY <1>1, <1>3, <2>2, <3>1, TakesNone
  <2>3. CASE i \notin Round!Tools
    <3>1. Round!Hears({}, new, "no")
      BY <1>1, <2>3 DEF Round!Receives, Round!Tools
    <3>2. text = Got(i)
      BY <1>1, <2>3 DEF KeptSoFar
    <3> QED BY <2>3, <3>1, <3>2, TakesText
  <2> QED BY <2>1, <2>2, <2>3
<1>6. /\ DOMAIN items' = DOMAIN items /\ \A j \in DOMAIN items \ {i} : items'[j] = items[j]
      /\ items'[i] = [items[i] EXCEPT !.got = @ \o new]
  BY DEF Round!Receives
<1>7. ResponsesKeeps'
  <2>1. ASSUME NEW j \in DOMAIN items'
        PROVE  /\ items'[j] = [kind |-> output'[j].kind, slot |-> Round!ToolsBefore(j)', got |-> Got(j)', done |-> items'[j].done]
               /\ items'[j].done \in BOOLEAN /\ (items'[j].done => ~output'[j].open)
    <3>0. j \in DOMAIN output /\ j \in DOMAIN items
      BY <1>1, <1>6 DEF KeptSoFar
    <3>1. CASE j = i
      <4>1. items'[i] = [kind |-> output[i].kind, slot |-> Round!ToolsBefore(i), got |-> Got(i) \o new, done |-> items[i].done]
        BY <1>4, <1>6
      <4>2. Round!ToolsBefore(i)' = Round!ToolsBefore(i)
        BY <1>1 DEF Untouched
      <4>3. items'[i].done = items[i].done /\ items[i].done \in BOOLEAN
        BY <1>1, <4>1 DEF ResponsesKeeps
      <4> QED BY <3>1, <4>1, <4>2, <4>3
    <3>2. CASE j # i
      <4>1. items'[j] = items[j] /\ output'[j] = output[j] /\ Got(j)' = Got(j) /\ Round!ToolsBefore(j)' = Round!ToolsBefore(j)
        BY <1>6, <3>0, <3>2 DEF Untouched
      <4>2. /\ items[j] = [kind |-> output[j].kind, slot |-> Round!ToolsBefore(j), got |-> Got(j), done |-> items[j].done]
            /\ items[j].done \in BOOLEAN /\ (items[j].done => ~output[j].open)
        BY <1>1, <3>0 DEF ResponsesKeeps
      <4> QED BY <4>1, <4>2
    <3> QED BY <3>1, <3>2
  <2>2. \A j \in DOMAIN output' : ~output'[j].open => output'[j].sent = output'[j].want
    BY <1>1 DEF ResponsesKeeps, Untouched
  <2> QED BY <2>1, <2>2 DEF ResponsesKeeps
<1>8. OpenaiKeeps' /\ ClaudeKeeps'
  BY DEF OpenaiKeeps, ClaudeKeeps
<1>9. Met' = Met \cup {i} /\ \A j \in 1 .. (i - 1) : j \in Met
  BY <1>1, <1>6 DEF Met, KeptSoFar
<1> QED BY <1>1, <1>2, <1>5, <1>7, <1>8, <1>9, ReadsOn

LEMMA ResponsesDeltaKeeps ==
    ASSUME Spoken, InProgress, reading = "reading", NEW i \in DOMAIN output, Round!ResponsesDelta(i)
    PROVE  RoundInv'
<1> DEFINE new == Round!NextFragment(i)
<1>1. /\ backend = "responses" /\ i \in DOMAIN items /\ ~items[i].done /\ Round!Sends(i) /\ Round!Receives(i, new)
  BY DEF Round!ResponsesDelta
<1>2. /\ Untouched(i) /\ Spoken' /\ Round!Tools' = Round!Tools /\ DOMAIN output' = DOMAIN output
      /\ output'[i].kind = output[i].kind /\ output'[i].open /\ output[i].sent \in Nat
      /\ Got(i)' = Got(i) \o new
      /\ said = "no" /\ said' = said /\ fault = "none" /\ fault' = fault /\ backend' = backend /\ style' = style
  BY <1>1, SendsMore
<1>3. new # <<>>
  <2>1. new = Parts(i, output[i].want, output[i].sent, output[i].sent + 1)
    BY DEF Round!NextFragment, Round!Fragments, Parts
  <2>2. output[i].sent + 1 \in Nat /\ output[i].sent <= output[i].sent + 1 /\ output[i].sent + 1 - output[i].sent = 1
    BY <1>2
  <2>3. Len(new) = 1
    <3> DEFINE s == output[i].sent
               t == output[i].sent + 1
    <3>1. s \in Nat /\ t \in Nat /\ s <= t /\ t - s = 1 /\ new = Parts(i, output[i].want, s, t)
      BY <1>2, <2>1, <2>2
    <3> HIDE DEF s, t, new
    <3>2. Len(Parts(i, output[i].want, s, t)) = t - s
      BY <3>1, PartsLength
    <3> QED BY <3>1, <3>2
  <2>4. Len(<<>>) = 0
    OBVIOUS
  <2> QED BY <2>3, <2>4
<1> HIDE DEF new
<1> QED BY <1>1, <1>2, <1>3, Received

LEMMA Single ==
    ASSUME NEW x
    PROVE  SubSeq(<<x>>, Len(<<>>) + 1, Len(<<x>>)) = <<x>> /\ <<>> \o <<x>> = <<x>> /\ <<x>> # <<>>
<1>1. <<x>> \in Seq({x}) /\ Len(<<x>>) = 1 /\ <<x>>[1] = x /\ Len(<<>>) = 0
  OBVIOUS
<1>2. SubSeq(<<x>>, 1, 1) \in Seq({x}) /\ Len(SubSeq(<<x>>, 1, 1)) = 1 /\ SubSeq(<<x>>, 1, 1)[1] = x
  <2>1. \A k \in 1 .. 1 : <<x>>[k] \in {x}
    OBVIOUS
  <2> QED BY <2>1, SubSeqProperties, 1 \in Int, 1 - 1 + 1 = 1, 1 + 1 - 1 = 1, 1 <= 1
<1>3. SubSeq(<<x>>, 1, 1) = <<x>>
  <2>1. \A k \in 1 .. 1 : SubSeq(<<x>>, 1, 1)[k] = <<x>>[k]
    BY <1>1, <1>2
  <2> QED BY <1>1, <1>2, <2>1, SeqEqual
<1>4. <<>> \o <<x>> = <<x>>
  BY <1>1, ConcatEmptySeq
<1>5. <<x>> # <<>>
  BY <1>1
<1> QED BY <1>1, <1>3, <1>4, <1>5

(* The whole text of an item, as the protocol states it at the end.          *)
LEMMA FinalIs ==
    ASSUME NEW i, said # "cutting"
    PROVE  Round!Final(i) = IF output[i].kind = "tool" /\ output[i].want = 0 THEN <<Round!NoArguments>>
                            ELSE Parts(i, output[i].want, 0, output[i].want)
BY DEF Round!Final, Round!Fragments, Parts

(* What is left of a whole text once the part received is taken off.         *)
LEMMA StrippedParts ==
    ASSUME NEW i, NEW want \in Nat, NEW sent \in Nat, sent <= want
    PROVE  Round!Stripped(Parts(i, want, 0, sent), Parts(i, want, 0, want)) = Parts(i, want, sent, want)
<1>1. Len(Parts(i, want, 0, sent)) = sent
  BY FromZero
<1>2. Len(Parts(i, want, 0, want)) = want
  BY FromZero
<1>3. SubSeq(Parts(i, want, 0, want), sent + 1, want) = Parts(i, want, sent, want)
  BY Joining
<1> QED BY <1>1, <1>2, <1>3 DEF Round!Stripped

(* What is left of an item, after what was received of it, is its rest.     *)
LEMMA RestOf ==
    ASSUME Spoken, NEW i \in DOMAIN output, said # "cutting",
           ~output[i].open => output[i].sent = output[i].want
    PROVE  /\ Got(i) \o Round!Stripped(Got(i), Round!Final(i)) = Round!Final(i)
           /\ Round!Stripped(Got(i), Round!Final(i)) = <<>> => Round!Final(i) = Got(i)
<1> DEFINE want == output[i].want
           sent == output[i].sent
           none == Round!NoArguments
<1>1. output[i] \in Item /\ sent <= want
  BY DEF Spoken
<1>2. sent \in Nat /\ want \in Nat
  BY <1>1 DEF Item
<1>3. CASE output[i].kind = "tool" /\ want = 0
  <2>1. Round!Final(i) = <<none>> /\ sent = 0
    BY <1>1, <1>2, <1>3, FinalIs
  <2>2. CASE output[i].open
    <3>1. Got(i) = <<>>
      BY <2>1, <2>2, GotIs, Joining, 0 \in Nat, 0 <= 0
    <3>2. Round!Stripped(<<>>, <<none>>) = <<none>> /\ <<>> \o <<none>> = <<none>> /\ <<none>> # <<>>
      BY Single DEF Round!Stripped
    <3> QED BY <2>1, <3>1, <3>2
  <2>3. CASE ~output[i].open
    <3>1. Got(i) = <<none>>
      BY <1>3, <2>1, <2>3, GotIs
    <3>2. Round!Stripped(<<none>>, <<none>>) = <<>> /\ <<none>> \o <<>> = <<none>>
      BY DEF Round!Stripped
    <3> QED BY <2>1, <3>1, <3>2
  <2> QED BY <2>2, <2>3
<1>4. CASE ~(output[i].kind = "tool" /\ want = 0)
  <2>1. Round!Final(i) = Parts(i, want, 0, want)
    BY <1>4, FinalIs
  <2>2. Got(i) = Parts(i, want, 0, sent)
    BY <1>4, GotIs
  <2>3. Len(Round!Final(i)) = want /\ Len(Got(i)) = sent /\ Got(i) \in Seq(Fragment(i, want))
    <3>1. Len(Parts(i, want, 0, want)) = want
      BY <1>2, FromZero
    <3>2. Len(Parts(i, want, 0, sent)) = sent /\ Parts(i, want, 0, sent) \in Seq(Fragment(i, want))
      BY <1>2, FromZero
    <3> QED BY <2>1, <2>2, <3>1, <3>2
  <2>4. Round!Stripped(Got(i), Round!Final(i)) = Parts(i, want, sent, want)
    <3>1. Round!Stripped(Parts(i, want, 0, sent), Parts(i, want, 0, want)) = Parts(i, want, sent, want)
      BY <1>1, <1>2, StrippedParts
    <3> QED BY <2>1, <2>2, <3>1
  <2>5. Got(i) \o Round!Stripped(Got(i), Round!Final(i)) = Round!Final(i)
    <3>1. Parts(i, want, 0, sent) \o Parts(i, want, sent, want) = Parts(i, want, 0, want)
      BY <1>1, <1>2, Joining
    <3> QED BY <2>1, <2>2, <2>4, <3>1
  <2>6. Got(i) \o <<>> = Got(i)
    BY <2>3, ConcatEmptySeq
  <2> QED BY <2>5, <2>6
<1> QED BY <1>3, <1>4

(* An item that is said to its end.                                         *)
LEMMA SaysAll ==
    ASSUME Spoken, NEW i \in DOMAIN output, backend' = backend, style' = style, said # "cutting",
           output' = [output EXCEPT ![i].sent = output[i].want, ![i].open = FALSE]
    PROVE  /\ Untouched(i) /\ Spoken' /\ Round!Tools' = Round!Tools /\ DOMAIN output' = DOMAIN output
           /\ output'[i].kind = output[i].kind /\ output'[i].want = output[i].want
           /\ output'[i].sent = output'[i].want /\ ~output'[i].open
           /\ Got(i)' = Round!Final(i)
<1> DEFINE r == [output[i] EXCEPT !.sent = output[i].want, !.open = FALSE]
<1>1. output[i] \in Item
  BY DEF Spoken
<1>2. output[i].want \in Nat
  BY <1>1 DEF Item
<1>3. r \in Item /\ r.kind = output[i].kind /\ r.want = output[i].want /\ r.sent = output[i].want /\ r.open = FALSE
  BY <1>1, <1>2 DEF Item
<1>4. output' = [output EXCEPT ![i] = r]
  OBVIOUS
<1> HIDE DEF r
<1>5. r.sent <= r.want
  BY <1>2, <1>3
<1>6. Untouched(i) /\ Spoken' /\ Round!Tools' = Round!Tools /\ DOMAIN output' = DOMAIN output /\ output'[i] = r
  BY <1>3, <1>4, <1>5, UntouchedAltered
<1>7. Got(i)' = Round!Final(i)
  BY <1>3, <1>6, FinalIs DEF Got, Round!Fragments, Round!NoArguments, Parts
<1> QED BY <1>3, <1>6, <1>7

LEMMA ResponsesPartDoneKeeps ==
    ASSUME Spoken, InProgress, reading = "reading", NEW i \in DOMAIN output, Round!ResponsesPartDone(i)
    PROVE  RoundInv'
<1> DEFINE new == Round!Stripped(Got(i), Round!Final(i))
<1>1. /\ backend = "responses" /\ i \in DOMAIN items /\ ~items[i].done /\ said = "no" /\ fault = "none"
      /\ output' = [output EXCEPT ![i].sent = output[i].want, ![i].open = FALSE]
      /\ Round!Receives(i, Round!Stripped(items[i].got, Round!Final(i)))
      /\ said' = said /\ fault' = fault /\ backend' = backend /\ style' = style
  BY DEF Round!ResponsesPartDone, Round!Speaking, Round!connection
<1>2. ResponsesKeeps
  BY DEF InProgress
<1>3. items[i].got = Got(i) /\ (~output[i].open => output[i].sent = output[i].want)
  BY <1>1, <1>2 DEF ResponsesKeeps
<1>4. /\ Untouched(i) /\ Spoken' /\ Round!Tools' = Round!Tools /\ DOMAIN output' = DOMAIN output
      /\ output'[i].kind = output[i].kind /\ output'[i].sent = output'[i].want /\ Got(i)' = Round!Final(i)
  BY <1>1, SaysAll
<1>5. Got(i)' = Got(i) \o new /\ (new = <<>> => Got(i)' = Got(i))
  BY <1>1, <1>3, <1>4, RestOf
<1>6. Round!Receives(i, new)
  BY <1>1, <1>3
<1> HIDE DEF new
<1> QED BY <1>1, <1>4, <1>5, <1>6, Received

(* The slot of an item that was not met, and that of the next one.          *)
LEMMA SlotsAre ==
    ASSUME Spoken, InProgress, backend = "responses"
    PROVE  /\ \A i \in DOMAIN output : i \notin DOMAIN items => Round!Slots(i) = Round!ToolsBefore(i)
           /\ DOMAIN output \subseteq DOMAIN items => Round!Slot = Cardinality(Round!Tools)
<1>1. KeptSoFar /\ ResponsesKeeps /\ Met = DOMAIN items
  BY DEF InProgress, Met
<1> DEFINE A == Round!Tools \cap DOMAIN items
<1>2. DOMAIN items \subseteq DOMAIN output /\ \A i \in DOMAIN items : items[i].kind = output[i].kind
  BY <1>1 DEF KeptSoFar, ResponsesKeeps
<1>3. {i \in DOMAIN items : items[i].kind = "tool"} = A
  BY <1>2 DEF Round!Tools
<1>4. Round!Slot = Cardinality(A)
  BY <1>3, RoundCardinality DEF Round!Slot
<1>5. IsFiniteSet(Round!Tools) /\ Round!Tools \subseteq DOMAIN output
  BY Numbering
<1>6. ASSUME NEW i \in DOMAIN output, i \notin DOMAIN items PROVE Round!Slots(i) = Round!ToolsBefore(i)
  <2> DEFINE B == {j \in Round!Tools : j < i /\ j \notin DOMAIN items}
  <2>1. ASSUME NEW j \in DOMAIN items PROVE j < i
    <3>1. i \in Nat /\ j \in Nat /\ i >= 1
      BY <1>2, Numbering
    <3>2. i \notin 1 .. (j - 1) /\ i # j
      BY <1>1, <1>6, <2>1 DEF KeptSoFar
    <3> QED BY <3>1, <3>2
  <2>2. {j \in Round!Tools : j < i} = A \cup B /\ A \cap B = {}
    BY <2>1
  <2>3. IsFiniteSet(A) /\ IsFiniteSet(B)
    BY <1>5, FS_Subset
  <2>4. Cardinality(A) \in Nat /\ Cardinality(B) \in Nat
    BY <2>3, FS_CardinalityType
  <2> HIDE DEF A, B
  <2>5. Cardinality(A \cup B) = Cardinality(A) + Cardinality(B)
    <3>1. Cardinality(A \cup B) = Cardinality(A) + Cardinality(B) - Cardinality({})
      BY <2>2, <2>3, FS_Union
    <3>2. Cardinality({}) = 0
      BY FS_EmptySet
    <3> QED BY <2>4, <3>1, <3>2
  <2>6. Round!ToolsBefore(i) = Cardinality(A \cup B)
    BY <2>2, RoundCardinality DEF Round!ToolsBefore
  <2>7. Round!Slots(i) = Cardinality(A) + Cardinality(B)
    BY <1>4, RoundCardinality DEF Round!Slots, B
  <2> QED BY <2>5, <2>6, <2>7
<1>7. ASSUME DOMAIN output \subseteq DOMAIN items PROVE Round!Slot = Cardinality(Round!Tools)
  BY <1>4, <1>5, <1>7, A = Round!Tools
<1> QED BY <1>6, <1>7

LEMMA NotMet ==
    ASSUME Spoken, KeptSoFar, NEW i \in DOMAIN output, i \notin Met, i \in Round!Tools
    PROVE  Round!ToolsBefore(i) \notin DOMAIN calls
BY Numbering DEF KeptSoFar

LEMMA HadIs ==
    ASSUME InProgress, backend = "responses", NEW i \in DOMAIN output
    PROVE  Round!Had(i) = Got(i)
<1>1. KeptSoFar /\ ResponsesKeeps /\ Met = DOMAIN items
  BY DEF InProgress, Met
<1>2. CASE i \in DOMAIN items
  BY <1>1, <1>2 DEF ResponsesKeeps, Round!Had
<1>3. CASE i \notin DOMAIN items
  <2>1. output[i].sent = 0 /\ output[i].open
    BY <1>1, <1>3 DEF KeptSoFar
  <2>2. Got(i) = <<>>
    BY <2>1, GotIs, Joining, 0 \in Nat, 0 <= 0
  <2> QED BY <1>3, <2>2 DEF Round!Had
<1> QED BY <1>2, <1>3

LEMMA ResponsesItemDoneKeeps ==
    ASSUME Spoken, InProgress, reading = "reading", NEW i \in DOMAIN output, Round!ResponsesItemDone(i)
    PROVE  RoundInv'
<1> DEFINE rest == Round!Stripped(Got(i), Round!Final(i))
<1>1. /\ backend = "responses" /\ said = "no" /\ fault = "none" /\ \A j \in 1 .. (i - 1) : j \in DOMAIN items
      /\ output' = [output EXCEPT ![i].sent = output[i].want, ![i].open = FALSE]
      /\ Round!Hears(Round!FinishItem(i), Round!Words(i), "no") /\ items' = Round!Put(items, i, Round!Finished(i))
      /\ said' = said /\ fault' = fault /\ backend' = backend /\ style' = style
  BY DEF Round!ResponsesItemDone, Round!Speaking, Round!connection
<1>2. Honest /\ KeptSoFar /\ ResponsesKeeps /\ Met = DOMAIN items
  BY <1>1 DEF InProgress, Met
<1>3. /\ Untouched(i) /\ Spoken' /\ Round!Tools' = Round!Tools /\ DOMAIN output' = DOMAIN output
      /\ output'[i].kind = output[i].kind /\ output'[i].sent = output'[i].want /\ ~output'[i].open
      /\ Got(i)' = Round!Final(i)
  BY <1>1, SaysAll
<1>4. ~output[i].open => output[i].sent = output[i].want
  BY <1>1, <1>2 DEF ResponsesKeeps
<1>5. Got(i)' = Got(i) \o rest /\ (rest = <<>> => Got(i)' = Got(i))
  BY <1>1, <1>3, <1>4, RestOf
<1>6. Round!Had(i) = Got(i)
  BY <1>1, HadIs
<1>7. Cardinality(Round!Tools) <= MaxTools /\ NameKnown(i) = Round!Name(i) /\ NameKnown(i)' = Round!Name(i)
  BY <1>1, <1>2 DEF Honest, Spoken, NameKnown, Round!Name
<1>8. Takes(i) /\ reading' = reading /\ Unspoken
  <2>1. CASE i \in Round!Tools /\ i \in DOMAIN items
    <3>1. items[i].slot = Round!ToolsBefore(i)
      BY <1>1, <1>2, <2>1 DEF ResponsesKeeps
    <3>2. Round!Hears({Round!Delta(Round!ToolsBefore(i), <<>>, rest)}, <<>>, "no")
      BY <1>1, <1>6, <2>1, <3>1 DEF Round!FinishItem, Round!Words, Round!Tools
    <3>3. Merges(NameKnown(i), <<>>, NameKnown(i)')
      BY <1>7, Merging
    <3> HIDE DEF rest
    <3> QED BY <1>2, <1>3, <1>5, <1>7, <2>1, <3>2, <3>3, TakesMore
  <2>2. CASE i \in Round!Tools /\ i \notin DOMAIN items
    <3>1. Round!Slots(i) = Round!ToolsBefore(i) /\ Round!ToolsBefore(i) < Cardinality(Round!Tools)
      BY <1>1, <2>2, SlotsAre, Numbering
    <3>2. Round!Hears({Round!Delta(Round!ToolsBefore(i), Round!Name(i), rest)}, <<>>, "no")
      BY <1>1, <1>6, <2>2, <3>1 DEF Round!FinishItem, Round!Words, Round!Tools
    <3>3. Merges(<<>>, Round!Name(i), NameKnown(i)')
      BY <1>7, Merging
    <3>4. Got(i) = <<>>
      BY <1>6, <2>2 DEF Round!Had
    <3>5. Round!ToolsBefore(i) \notin DOMAIN calls
      BY <1>2, <2>2, NotMet
    <3>6. Round!ToolsBefore(i) < MaxTools
      BY <1>7, <3>1, Numbering, RoundsAssumption
    <3> HIDE DEF rest
    <3> QED BY <1>2, <1>3, <1>5, <2>2, <3>2, <3>3, <3>4, <3>5, <3>6, TakesNew
  <2>3. CASE i \notin Round!Tools
    <3>1. output[i].kind = "text"
      <4>1. output[i] \in Item
        BY DEF Spoken
      <4> QED BY <2>3, <4>1 DEF Round!Tools, Item
    <3>2. Round!Hears({}, rest, "no")
      BY <1>1, <1>6, <3>1 DEF Round!FinishItem, Round!Words
    <3>3. text = Got(i)
      BY <1>2, <2>3 DEF KeptSoFar
    <3> HIDE DEF rest
    <3> QED BY <1>3, <1>5, <2>3, <3>2, <3>3, TakesText
  <2> QED BY <2>1, <2>2, <2>3
<1>9. /\ DOMAIN items' = DOMAIN items \cup {i} /\ \A j \in DOMAIN items \ {i} : items'[j] = items[j]
      /\ items'[i] = [kind |-> output'[i].kind, slot |-> Round!ToolsBefore(i)', got |-> Got(i)', done |-> TRUE]
  <2>1. items'[i] = Round!Finished(i) /\ DOMAIN items' = DOMAIN items \cup {i} /\ \A j \in DOMAIN items \ {i} : items'[j] = items[j]
    BY <1>1 DEF Round!Put
  <2>2. (IF i \in DOMAIN items THEN items[i].slot ELSE Round!Slots(i)) = Round!ToolsBefore(i)
    BY <1>1, <1>2, SlotsAre DEF ResponsesKeeps
  <2>3. Round!ToolsBefore(i)' = Round!ToolsBefore(i)
    BY <1>3 DEF Untouched
  <2> QED BY <1>3, <2>1, <2>2, <2>3 DEF Round!Finished
<1>10. ResponsesKeeps'
  <2>1. ASSUME NEW j \in DOMAIN items'
        PROVE  /\ items'[j] = [kind |-> output'[j].kind, slot |-> Round!ToolsBefore(j)', got |-> Got(j)', done |-> items'[j].done]
               /\ items'[j].done \in BOOLEAN /\ (items'[j].done => ~output'[j].open)
    <3>1. CASE j = i
      <4>1. items'[i].done = TRUE
        BY <1>9
      <4> QED BY <1>3, <1>9, <3>1, <4>1
    <3>2. CASE j # i
      <4>0. j \in DOMAIN items /\ j \in DOMAIN output
        BY <1>2, <1>9, <3>2 DEF KeptSoFar
      <4>1. items'[j] = items[j] /\ output'[j] = output[j] /\ Got(j)' = Got(j) /\ Round!ToolsBefore(j)' = Round!ToolsBefore(j)
        BY <1>3, <1>9, <3>2, <4>0 DEF Untouched
      <4>2. /\ items[j] = [kind |-> output[j].kind, slot |-> Round!ToolsBefore(j), got |-> Got(j), done |-> items[j].done]
            /\ items[j].done \in BOOLEAN /\ (items[j].done => ~output[j].open)
        BY <1>1, <1>2, <4>0 DEF ResponsesKeeps
      <4> QED BY <4>1, <4>2
    <3> QED BY <3>1, <3>2
  <2>2. \A j \in DOMAIN output' : ~output'[j].open => output'[j].sent = output'[j].want
    BY <1>1, <1>2, <1>3 DEF ResponsesKeeps, Untouched
  <2> QED BY <2>1, <2>2 DEF ResponsesKeeps
<1>11. OpenaiKeeps' /\ ClaudeKeeps'
  BY <1>1 DEF OpenaiKeeps, ClaudeKeeps
<1>12. Met' = Met \cup {i} /\ \A j \in 1 .. (i - 1) : j \in Met
  BY <1>1, <1>2, <1>9 DEF Met
<1> HIDE DEF rest
<1> QED BY <1>1, <1>2, <1>3, <1>7, <1>8, <1>10, <1>11, <1>12, ReadsOn

LEMMA ClaudeStopKeeps ==
    ASSUME Spoken, InProgress, reading = "reading", NEW i \in DOMAIN output, Round!ClaudeStop(i)
    PROVE  RoundInv'
<1> DEFINE r == [output[i] EXCEPT !.open = FALSE]
<1>1. /\ backend = "claude" /\ said \in {"no", "cutting"} /\ fault = "none" /\ output[i].open
      /\ output' = [output EXCEPT ![i] = r] /\ indices' = indices
      /\ Round!Hears(IF Round!EmptyObject(i) THEN {Round!Delta(indices[i], <<>>, <<Round!NoArguments>>)} ELSE {}, <<>>, "no")
      /\ hasInput' = IF i \in Round!Tools THEN hasInput \cup {i} ELSE hasInput
      /\ said' = said /\ fault' = fault /\ backend' = backend /\ style' = style
  BY DEF Round!ClaudeStop, Round!connection
<1>2. Honest /\ KeptSoFar /\ ClaudeKeeps /\ Met = DOMAIN output
  BY <1>1 DEF InProgress, Met
<1>3. output[i] \in Item /\ output[i].sent <= output[i].want
  BY DEF Spoken
<1>4. /\ r \in Item /\ r.kind = output[i].kind /\ r.want = output[i].want /\ r.sent = output[i].sent
      /\ r.open = FALSE /\ r.sent <= r.want /\ output[i].sent \in Nat
  BY <1>3 DEF Item
<1> HIDE DEF r
<1>5. Untouched(i) /\ Spoken' /\ Round!Tools' = Round!Tools /\ DOMAIN output' = DOMAIN output /\ output'[i] = r
  BY <1>1, <1>4, UntouchedAltered
<1>6. Cardinality(Round!Tools) <= MaxTools /\ NameKnown(i) = Round!Name(i) /\ NameKnown(i)' = Round!Name(i)
  BY <1>1, <1>2 DEF Honest, Spoken, NameKnown, Round!Name
<1>7. hasInput = {j \in Round!Tools : output[j].sent > 0 \/ ~output[j].open} /\ \A j \in Round!Tools : indices[j] = Round!ToolsBefore(j)
  BY <1>1, <1>2 DEF ClaudeKeeps
<1>8. Got(i) = Parts(i, output[i].want, 0, output[i].sent)
  BY <1>1, GotIs
<1>9. Takes(i) /\ reading' = reading /\ Unspoken
  <2>1. CASE i \in Round!Tools /\ output[i].sent = 0
    <3>1. Round!EmptyObject(i)
      BY <1>1, <1>7, <2>1 DEF Round!EmptyObject
    <3>2. Round!Hears({Round!Delta(Round!ToolsBefore(i), <<>>, <<Round!NoArguments>>)}, <<>>, "no")
      BY <1>1, <1>7, <2>1, <3>1
    <3>3. Got(i) = <<>>
      BY <1>8, <2>1, Joining, 0 \in Nat, 0 <= 0
    <3>4. Got(i)' = <<Round!NoArguments>>
      BY <1>4, <1>5, <2>1 DEF Got, Round!Tools, Round!NoArguments
    <3>5. Got(i)' = Got(i) \o <<Round!NoArguments>>
      BY <3>3, <3>4, Single
    <3>6. Merges(NameKnown(i), <<>>, NameKnown(i)')
      BY <1>6, Merging
    <3> QED BY <1>2, <1>5, <1>6, <2>1, <3>2, <3>5, <3>6, TakesMore
  <2>2. CASE i \in Round!Tools /\ output[i].sent # 0
    <3>1. ~Round!EmptyObject(i)
      BY <1>4, <1>7, <2>2 DEF Round!EmptyObject
    <3>2. Got(i)' = Got(i)
      BY <1>4, <1>5, <2>2 DEF Got, Round!Fragments, Round!NoArguments
    <3> QED BY <1>1, <1>2, <1>5, <1>6, <2>2, <3>1, <3>2, TakesNone
  <2>3. CASE i \notin Round!Tools
    <3>1. Round!Hears({}, <<>>, "no")
      BY <1>1, <2>3 DEF Round!EmptyObject
    <3>2. text = Got(i)
      BY <1>2, <2>3 DEF KeptSoFar
    <3>3. Got(i)' = Got(i)
      BY <1>4, <1>5, <2>3 DEF Got, Round!Fragments, Round!NoArguments, Round!Tools
    <3>4. Got(i)' = text \o <<>>
      BY <1>2, <3>2, <3>3, TextStays
    <3> QED BY <1>5, <2>3, <3>1, <3>4, TakesText
  <2> QED BY <2>1, <2>2, <2>3
<1>10. ClaudeKeeps'
  <2>1. DOMAIN indices' = Round!Tools' /\ \A j \in Round!Tools' : indices'[j] = Round!ToolsBefore(j)'
    BY <1>1, <1>2, <1>5, <1>7 DEF ClaudeKeeps, Untouched, Round!Tools
  <2>2. hasInput' = {j \in Round!Tools' : output'[j].sent > 0 \/ ~output'[j].open}
    <3>1. \A j \in Round!Tools \ {i} : output'[j] = output[j]
      BY <1>5 DEF Untouched, Round!Tools
    <3>2. ~output'[i].open
      BY <1>4, <1>5
    <3> QED BY <1>1, <1>5, <1>7, <3>1, <3>2
  <2> QED BY <2>1, <2>2 DEF ClaudeKeeps
<1>11. OpenaiKeeps' /\ ResponsesKeeps'
  BY <1>1 DEF OpenaiKeeps, ResponsesKeeps
<1>12. Met' = Met \cup {i} /\ \A j \in 1 .. (i - 1) : j \in Met
  BY <1>1, <1>2, <1>5, Earlier DEF Met
<1> QED BY <1>1, <1>2, <1>5, <1>6, <1>9, <1>10, <1>11, <1>12, ReadsOn

LEMMA Stops ==
    ASSUME Spoken', reading' \in {"refused", "cancelled", "suppressed"},
           reading' = "refused" => fault' # "none" \/ said' \in CutReasons \/ reader' = "denied"
    PROVE  RoundInv'
BY DEF RoundInv, Round!WholeRoundsAccepted

LEMMA PartsWhole ==
    ASSUME NEW i, NEW want \in Nat
    PROVE  [n \in 1 .. want |-> <<i, n, want>>] = Parts(i, want, 0, want)
<1>1. want - 0 = want /\ \A n \in 1 .. want : 0 + n = n
  OBVIOUS
<1> QED BY <1>1 DEF Parts

(* An item that begins.                                                     *)
NewlySaid(kind, want, sent, n) ==
    /\ Untouched(n) /\ Spoken' /\ n \notin DOMAIN output /\ DOMAIN output' = DOMAIN output \cup {n}
    /\ 1 .. (n - 1) \subseteq DOMAIN output
    /\ output'[n].kind = kind /\ output'[n].want = want /\ output'[n].sent = sent /\ output'[n].open
    /\ Round!Tools' = IF kind = "tool" THEN Round!Tools \cup {n} ELSE Round!Tools
    /\ Round!ToolsBefore(n) = Cardinality(Round!Tools) /\ Round!ToolsBefore(n)' = Round!ToolsBefore(n)
    /\ Got(n)' = Parts(n, want, 0, sent)
    /\ NameKnown(n)' = IF style = "growing" THEN <<Round!Name(n)[1]>> ELSE Round!Name(n)
    /\ want \in Nat /\ (kind = "text" => Round!Tools = DOMAIN output)
    /\ said = "no" /\ said' = said /\ backend' = backend /\ style' = style /\ fault = "none"
    /\ IF kind = "tool" /\ Cardinality(Round!Tools) >= MaxTools THEN fault' = "crowd"
       ELSE fault' = "none" /\ Cardinality(Round!Tools)' <= MaxTools

LEMMA SaysNew ==
    ASSUME Spoken, Honest, reading = "reading", NEW kind \in {"text", "tool"}, NEW want \in 0 .. MaxFragments,
           NEW sent \in {0, want}, NEW n, n = Round!New, Round!NewItem(kind, want, sent)
    PROVE  NewlySaid(kind, want, sent, n)
<1> DEFINE r == [kind |-> kind, want |-> want, sent |-> sent, told |-> 1, open |-> TRUE]
<1>1. want \in Nat /\ sent \in Nat /\ sent <= want
  BY RoundsAssumption
<1>2. /\ r \in Item /\ r.sent <= r.want /\ r.kind = kind /\ r.want = want /\ r.sent = sent /\ r.open = TRUE /\ r.told = 1
  BY <1>1 DEF Item
<1>3. /\ output' = Append(output, r) /\ said = "no" /\ fault = "none" /\ said' = said /\ backend' = backend /\ style' = style
      /\ (kind = "text" => \A i \in DOMAIN output : output[i].kind = "tool") /\ fault' = Round!Crowd(Len(output'))
  BY DEF Round!NewItem, Round!Speaking, Round!connection
<1> HIDE DEF r
<1>4. /\ Spoken' /\ DOMAIN output' = DOMAIN output \cup {n} /\ n \notin DOMAIN output /\ output'[n] = r
      /\ Round!Tools' = IF r.kind = "tool" THEN Round!Tools \cup {n} ELSE Round!Tools
      /\ \A j \in DOMAIN output' : Round!ToolsBefore(j)' = Round!ToolsBefore(j)
      /\ Round!ToolsBefore(n) = Cardinality(Round!Tools)
      /\ Cardinality(Round!Tools)' =
             IF r.kind = "tool" THEN Cardinality(Round!Tools) + 1 ELSE Cardinality(Round!Tools)
  BY <1>2, <1>3, Appended
<1>5. Untouched(n)
  BY <1>2, <1>3, UntouchedAppended
<1>6. Len(output) \in Nat /\ DOMAIN output = 1 .. Len(output) /\ n = Len(output) + 1 /\ Len(output') = n
  <2>1. Len(output) \in Nat /\ DOMAIN output = 1 .. Len(output)
    BY Numbering
  <2>2. Len(output') = Len(output) + 1
    BY <1>3 DEF Spoken
  <2> QED BY <2>1, <2>2 DEF Round!New
<1>7. Got(n)' = Parts(n, want, 0, sent)
  BY <1>2, <1>4 DEF Got, Round!Fragments, Round!NoArguments, Parts
<1>8. NameKnown(n)' = IF style = "growing" THEN <<Round!Name(n)[1]>> ELSE Round!Name(n)
  BY <1>2, <1>3, <1>4 DEF NameKnown, Round!Name
<1>9. Cardinality(Round!Tools) \in Nat /\ MaxTools \in Nat /\ Cardinality(Round!Tools) <= MaxTools
  BY <1>3, Numbering, RoundsAssumption DEF Honest
<1>10. fault' = IF kind = "tool" /\ Cardinality(Round!Tools) >= MaxTools THEN "crowd" ELSE "none"
  BY <1>2, <1>3, <1>4, <1>6 DEF Round!Crowd
<1>11. IF kind = "tool" /\ Cardinality(Round!Tools) >= MaxTools THEN fault' = "crowd"
       ELSE fault' = "none" /\ Cardinality(Round!Tools)' <= MaxTools
  <2>1. CASE kind = "tool" /\ Cardinality(Round!Tools) >= MaxTools
    BY <1>10, <2>1
  <2>2. CASE kind = "tool" /\ ~(Cardinality(Round!Tools) >= MaxTools)
    <3>1. Cardinality(Round!Tools)' = Cardinality(Round!Tools) + 1
      BY <1>2, <1>4, <2>2
    <3>2. Cardinality(Round!Tools) + 1 <= MaxTools
      BY <1>9, <2>2
    <3> QED BY <1>10, <2>2, <3>1, <3>2
  <2>3. CASE kind # "tool"
    BY <1>2, <1>4, <1>9, <1>10, <2>3
  <2> QED BY <2>1, <2>2, <2>3
<1>12. 1 .. (n - 1) \subseteq DOMAIN output
  BY <1>6
<1>13. kind = "text" => Round!Tools = DOMAIN output
  BY <1>3 DEF Round!Tools
<1>14. Round!ToolsBefore(n)' = Round!ToolsBefore(n)
  BY <1>4
<1> QED BY <1>1, <1>2, <1>3, <1>4, <1>5, <1>7, <1>8, <1>11, <1>12, <1>13, <1>14 DEF NewlySaid

(* The slot of a new call is not taken.                                     *)
LEMMA NewSlot ==
    ASSUME Spoken, KeptSoFar
    PROVE  Cardinality(Round!Tools) \notin DOMAIN calls /\ Cardinality(Round!Tools) \in Nat
<1>1. ASSUME NEW i \in Round!Tools PROVE Round!ToolsBefore(i) # Cardinality(Round!Tools)
  <2>1. Round!ToolsBefore(i) < Cardinality(Round!Tools) /\ Round!ToolsBefore(i) \in Nat /\ Cardinality(Round!Tools) \in Nat
    BY Numbering
  <2> QED BY <2>1
<1> QED BY <1>1, Numbering DEF KeptSoFar

LEMMA ClaudeStartKeeps ==
    ASSUME Spoken, InProgress, reading = "reading", NEW kind \in {"text", "tool"}, NEW want \in 0 .. MaxFragments,
           NEW whole \in BOOLEAN, Round!ClaudeStart(kind, want, whole)
    PROVE  RoundInv'
<1> DEFINE sent == IF whole THEN want ELSE 0
           args == IF whole THEN [k \in 1 .. want |-> <<Round!New, k, want>>] ELSE <<>>
<1>0. PICK n : n = Round!New
  OBVIOUS
<1>1. backend = "claude" /\ Round!NewItem(kind, want, sent) /\ sent \in {0, want} /\ (whole => kind = "tool" /\ want > 0)
  BY DEF Round!ClaudeStart
<1>2. /\ Untouched(n) /\ Spoken' /\ n \notin DOMAIN output /\ DOMAIN output' = DOMAIN output \cup {n}
      /\ 1 .. (n - 1) \subseteq DOMAIN output
      /\ output'[n].kind = kind /\ output'[n].sent = sent /\ output'[n].open
      /\ Round!Tools' = IF kind = "tool" THEN Round!Tools \cup {n} ELSE Round!Tools
      /\ Round!ToolsBefore(n) = Cardinality(Round!Tools) /\ Round!ToolsBefore(n)' = Round!ToolsBefore(n)
      /\ Got(n)' = Parts(n, want, 0, sent)
      /\ NameKnown(n)' = IF style = "growing" THEN <<Round!Name(n)[1]>> ELSE Round!Name(n)
      /\ want \in Nat /\ (kind = "text" => Round!Tools = DOMAIN output)
      /\ said = "no" /\ said' = said /\ backend' = backend /\ style' = style /\ fault = "none"
      /\ IF kind = "tool" /\ Cardinality(Round!Tools) >= MaxTools THEN fault' = "crowd"
         ELSE fault' = "none" /\ Cardinality(Round!Tools)' <= MaxTools
  <2> HIDE DEF sent
  <2>1. Honest
    BY DEF InProgress
  <2>2. NewlySaid(kind, want, sent, n)
    BY <1>0, <1>1, <2>1, SaysNew
  <2> QED BY <2>2 DEF NewlySaid
<1>3. Honest /\ KeptSoFar /\ ClaudeKeeps /\ Met = DOMAIN output /\ Met' = DOMAIN output'
  BY <1>1, <1>2 DEF InProgress, Met
<1>4. args = Parts(n, want, 0, sent)
  <2>1. CASE whole
    BY <1>0, <1>2, <2>1, PartsWhole
  <2>2. CASE ~whole
    BY <2>2, Joining, 0 \in Nat, 0 <= 0
  <2> QED BY <2>1, <2>2
<1>5. IF kind = "tool"
      THEN /\ Round!Hears({Round!Delta(Round!ToolsBefore(n), Round!Name(n), args)}, <<>>, "no")
           /\ indices' = Round!Put(indices, n, Round!ToolsBefore(n))
           /\ hasInput' = IF whole THEN hasInput \cup {n} ELSE hasInput
      ELSE Round!Hears({}, <<>>, "no") /\ indices' = indices /\ hasInput' = hasInput
  <2>1. Round!Cardinality(DOMAIN indices) = Round!ToolsBefore(n)
    BY <1>1, <1>2, <1>3, RoundCardinality DEF ClaudeKeeps
  <2> QED BY <1>0, <2>1 DEF Round!ClaudeStart
<1>6. Got(n)' = <<>> \o args
  <2>1. sent \in Nat
    BY <1>2
  <2>2. args \in Seq(Fragment(n, want))
    <3> HIDE DEF args, sent
    <3>1. 0 \in Nat /\ 0 <= sent
      BY <2>1
    <3> QED BY <1>4, <2>1, <3>1, PartsType
  <2> HIDE DEF args
  <2> QED BY <1>2, <1>4, <2>2, ConcatEmptySeq
<1>7. NameKnown(n)' = Round!Name(n)
  BY <1>1, <1>2 DEF Spoken
<1>8. CASE kind = "tool" /\ Cardinality(Round!Tools) >= MaxTools
  <2>1. reading' = "refused"
    BY <1>2, <1>5, <1>8, HearsTooMany
  <2> QED BY <1>2, <1>8, <2>1, Stops
<1>9. CASE ~(kind = "tool" /\ Cardinality(Round!Tools) >= MaxTools)
  <2>1. Takes(n) /\ reading' = reading /\ Unspoken
    <3>1. CASE kind = "tool"
      <4>1. Round!ToolsBefore(n) \notin DOMAIN calls /\ Round!ToolsBefore(n) < MaxTools
        BY <1>2, <1>3, <1>9, <3>1, NewSlot, RoundsAssumption
      <4>2. Merges(<<>>, Round!Name(n), NameKnown(n)')
        BY <1>7, Merging
      <4> HIDE DEF args
      <4> QED BY <1>2, <1>3, <1>5, <1>6, <3>1, <4>1, <4>2, TakesNew
    <3>2. CASE kind = "text"
      <4>1. text = <<>> /\ ~whole
        BY <1>1, <1>2, <1>3, <3>2 DEF KeptSoFar
      <4>2. Got(n)' = text \o <<>>
        BY <1>6, <4>1
      <4>3. n \notin Round!Tools'
        BY <1>2, <3>2 DEF Round!Tools
      <4> QED BY <1>5, <3>2, <4>2, <4>3, TakesText
    <3> QED BY <3>1, <3>2
  <2>2. ClaudeKeeps'
    <3>0. /\ DOMAIN indices = Round!Tools /\ (\A j \in Round!Tools : indices[j] = Round!ToolsBefore(j))
          /\ hasInput = {j \in Round!Tools : output[j].sent > 0 \/ ~output[j].open}
          /\ Round!Tools \subseteq DOMAIN output
      BY <1>1, <1>3 DEF ClaudeKeeps, Round!Tools
    <3>1. \A j \in Round!Tools : output'[j] = output[j] /\ Round!ToolsBefore(j)' = Round!ToolsBefore(j)
      BY <1>2, <3>0 DEF Untouched
    <3>2. DOMAIN indices' = Round!Tools' /\ \A j \in Round!Tools' : indices'[j] = Round!ToolsBefore(j)'
      BY <1>2, <1>5, <3>0, <3>1 DEF Round!Put
    <3>3. kind = "tool" => (whole <=> output'[n].sent > 0)
      BY <1>1, <1>2
    <3>4. hasInput' = {j \in Round!Tools' : output'[j].sent > 0 \/ ~output'[j].open}
      BY <1>2, <1>5, <3>0, <3>1, <3>3
    <3> QED BY <3>2, <3>4 DEF ClaudeKeeps
  <2>3. OpenaiKeeps' /\ ResponsesKeeps'
    BY <1>1, <1>2 DEF OpenaiKeeps, ResponsesKeeps
  <2>4. Met' = Met \cup {n} /\ \A j \in 1 .. (n - 1) : j \in Met
    BY <1>2, <1>3
  <2> QED BY <1>2, <1>3, <1>9, <2>1, <2>2, <2>3, <2>4, ReadsOn
<1> QED BY <1>8, <1>9

LEMMA OpenaiStartKeeps ==
    ASSUME Spoken, InProgress, reading = "reading", NEW kind \in {"text", "tool"}, NEW want \in 0 .. MaxFragments,
           Round!OpenaiStart(kind, want)
    PROVE  RoundInv'
<1> DEFINE id == IF style \in {"once", "repeated"} THEN Round!Name(Round!New) ELSE <<Round!Name(Round!New)[1]>>
<1>0. PICK n : n = Round!New
  OBVIOUS
<1>1. /\ backend = "openai" /\ Round!NewItem(kind, want, 0) /\ (kind = "tool" => want > 0)
      /\ Round!Hears(IF kind = "tool" THEN {Round!Delta(Cardinality(Round!Tools), id, <<>>)} ELSE {}, <<>>, "no")
  BY RoundCardinality DEF Round!OpenaiStart
<1>2. Honest /\ KeptSoFar /\ OpenaiKeeps
  BY DEF InProgress
<1>3. NewlySaid(kind, want, 0, n)
  BY <1>0, <1>1, <1>2, SaysNew
<1>4. Spoken' /\ Untouched(n) /\ (kind = "tool" <=> n \in Round!Tools') /\ Round!ToolsBefore(n) = Cardinality(Round!Tools)
  BY <1>3 DEF NewlySaid, Round!Tools
<1>5. Got(n)' = <<>> /\ <<>> \o <<>> = <<>>
  <2>1. want \in Nat /\ Got(n)' = Parts(n, want, 0, 0)
    BY <1>3 DEF NewlySaid
  <2>2. <<>> \in Seq(Nat)
    OBVIOUS
  <2> QED BY <2>1, <2>2, Joining, ConcatEmptySeq, 0 \in Nat, 0 <= 0
<1>6. Merges(<<>>, id, NameKnown(n)')
  <2>1. NameKnown(n)' = id
    BY <1>0, <1>3 DEF NewlySaid, Spoken
  <2>2. id \in {Round!Name(n), <<Round!Name(n)[1]>>}
    BY <1>0
  <2> QED BY <2>1, <2>2, Merging
<1> HIDE DEF id
<1>7. CASE kind = "tool" /\ Cardinality(Round!Tools) >= MaxTools
  <2>1. reading' = "refused"
    BY <1>1, <1>7, HearsTooMany
  <2>2. fault' # "none"
    BY <1>3, <1>7 DEF NewlySaid
  <2> QED BY <1>4, <2>1, <2>2, Stops
<1>8. CASE ~(kind = "tool" /\ Cardinality(Round!Tools) >= MaxTools)
  <2>1. Takes(n) /\ reading' = reading /\ Unspoken
    <3>1. CASE kind = "tool"
      <4>1. Round!ToolsBefore(n) \notin DOMAIN calls /\ Round!ToolsBefore(n) < MaxTools
        BY <1>2, <1>4, <1>8, <3>1, NewSlot, RoundsAssumption
      <4>2. Round!Hears({Round!Delta(Round!ToolsBefore(n), id, <<>>)}, <<>>, "no")
        BY <1>1, <1>4, <3>1
      <4>3. Got(n)' = <<>> \o <<>>
        BY <1>5
      <4> QED BY <1>2, <1>4, <1>6, <3>1, <4>1, <4>2, <4>3, TakesNew
    <3>2. CASE kind = "text"
      <4>1. text = <<>>
        BY <1>2, <1>3, <3>2 DEF KeptSoFar, NewlySaid
      <4>2. Got(n)' = text \o <<>>
        BY <1>5, <4>1
      <4> QED BY <1>1, <1>4, <3>2, <4>2, TakesText
    <3> QED BY <3>1, <3>2
  <2>2. OpenaiKeeps'
    <3>1. ASSUME NEW i \in DOMAIN output' PROVE output'[i].open /\ (output'[i].kind = "tool" => output'[i].want > 0)
      <4>1. CASE i = n
        BY <1>1, <1>3, <4>1 DEF NewlySaid
      <4>2. CASE i # n
        <5>1. i \in DOMAIN output /\ output'[i] = output[i]
          BY <1>3, <4>2 DEF NewlySaid, Untouched
        <5> QED BY <1>1, <1>2, <5>1 DEF OpenaiKeeps
      <4> QED BY <4>1, <4>2
    <3> QED BY <3>1 DEF OpenaiKeeps
  <2>3. ClaudeKeeps' /\ ResponsesKeeps'
    BY <1>1, <1>3 DEF ClaudeKeeps, ResponsesKeeps, NewlySaid
  <2>4. Met' = Met \cup {n} /\ \A j \in 1 .. (n - 1) : j \in Met
    BY <1>1, <1>3 DEF Met, NewlySaid
  <2>5. /\ said \in {"no", "cutting"} /\ said' = said /\ backend' = backend /\ fault' = "none"
        /\ Cardinality(Round!Tools)' <= MaxTools
    BY <1>3, <1>8 DEF NewlySaid
  <2> QED BY <1>2, <1>4, <2>1, <2>2, <2>3, <2>4, <2>5, ReadsOn
<1> QED BY <1>7, <1>8

(* An item that the reader does not meet yet.                               *)
LEMMA KeptUnmet ==
    ASSUME Spoken, KeptSoFar, NEW n, Untouched(n), n \notin DOMAIN output, Met' = Met,
           output'[n].sent = 0, output'[n].open, text' = text,
           DOMAIN calls' = DOMAIN calls, \A s \in DOMAIN calls : calls'[s] = calls[s],
           n \notin Round!Tools' => Round!Tools = DOMAIN output /\ Got(n)' = <<>>
    PROVE  KeptSoFar'
<1>1. Round!Tools \subseteq DOMAIN output /\ Round!Tools' \subseteq DOMAIN output' /\ Met \subseteq DOMAIN output /\ n \notin Met
  BY DEF Round!Tools, KeptSoFar
<1>2. DOMAIN output' = DOMAIN output \cup {n} /\ \A j \in DOMAIN output : output'[j] = output[j]
  BY DEF Untouched
<1>3. Round!Tools' \cap Met' = Round!Tools \cap Met
  BY <1>1 DEF Untouched
<1>4. \A j \in DOMAIN output : Round!ToolsBefore(j)' = Round!ToolsBefore(j) /\ NameKnown(j)' = NameKnown(j) /\ Got(j)' = Got(j)
  BY <1>2 DEF Untouched
<1>5. Met' \subseteq DOMAIN output' /\ \A i \in Met' : \A j \in 1 .. (i - 1) : j \in Met'
  BY <1>1, <1>2 DEF KeptSoFar
<1>6. \A i \in DOMAIN output' \ Met' : output'[i].sent = 0 /\ output'[i].open
  BY <1>2 DEF KeptSoFar
<1>7. DOMAIN calls' = {Round!ToolsBefore(i) : i \in Round!Tools \cap Met}'
  <2>1. {Round!ToolsBefore(i) : i \in Round!Tools \cap Met}' = {Round!ToolsBefore(i) : i \in Round!Tools \cap Met}
    BY <1>1, <1>3, <1>4
  <2> QED BY <2>1 DEF KeptSoFar
<1>8. \A i \in Round!Tools' \cap Met' : calls'[Round!ToolsBefore(i)'] = [id |-> NameKnown(i)', args |-> Got(i)']
  <2>1. ASSUME NEW i \in Round!Tools \cap Met
        PROVE  calls'[Round!ToolsBefore(i)'] = [id |-> NameKnown(i)', args |-> Got(i)']
    <3>1. Round!ToolsBefore(i) \in DOMAIN calls /\ calls[Round!ToolsBefore(i)] = [id |-> NameKnown(i), args |-> Got(i)]
      BY DEF KeptSoFar
    <3>2. Round!ToolsBefore(i)' = Round!ToolsBefore(i) /\ NameKnown(i)' = NameKnown(i) /\ Got(i)' = Got(i)
      BY <1>1, <1>4
    <3> QED BY <3>1, <3>2
  <2> QED BY <1>3, <2>1
<1>9. ASSUME NEW i \in DOMAIN output' \ Round!Tools' PROVE text' = Got(i)'
  <2>1. CASE i = n
    BY <1>9, <2>1 DEF KeptSoFar
  <2>2. CASE i # n
    <3>1. i \in DOMAIN output \ Round!Tools
      BY <1>2, <1>9, <2>2 DEF Untouched
    <3> QED BY <1>4, <3>1 DEF KeptSoFar
  <2> QED BY <2>1, <2>2
<1>10. ASSUME Round!Tools' = DOMAIN output' PROVE text' = <<>>
  <2>1. Round!Tools = DOMAIN output
    BY <1>1, <1>2, <1>10 DEF Untouched
  <2> QED BY <2>1 DEF KeptSoFar
<1> QED BY <1>5, <1>6, <1>7, <1>8, <1>9, <1>10 DEF KeptSoFar

LEMMA ResponsesStartKeeps ==
    ASSUME Spoken, InProgress, reading = "reading", NEW kind \in {"text", "tool"}, NEW want \in 0 .. MaxFragments,
           NEW added \in BOOLEAN, Round!ResponsesStart(kind, want, added)
    PROVE  RoundInv'
<1>0. PICK n : n = Round!New
  OBVIOUS
<1>1. /\ backend = "responses" /\ Round!NewItem(kind, want, 0)
      /\ added => \A i \in DOMAIN output : i \in DOMAIN items
      /\ Round!Hears(IF kind = "tool" /\ added THEN {Round!Delta(Round!Slot, Round!Name(n), <<>>)} ELSE {}, <<>>, "no")
      /\ items' = IF added THEN Round!Put(items, n, Round!Started(kind, Round!Slot)) ELSE items
  BY <1>0 DEF Round!ResponsesStart
<1>2. Honest /\ KeptSoFar /\ ResponsesKeeps /\ Met = DOMAIN items
  BY <1>1 DEF InProgress, Met
<1>3. NewlySaid(kind, want, 0, n)
  BY <1>0, <1>1, <1>2, SaysNew
<1>4. /\ Spoken' /\ Untouched(n) /\ (kind = "tool" <=> n \in Round!Tools') /\ Round!ToolsBefore(n) = Cardinality(Round!Tools)
      /\ n \notin DOMAIN output /\ DOMAIN output' = DOMAIN output \cup {n} /\ backend' = backend
      /\ said \in {"no", "cutting"} /\ said' = said /\ fault' \in {"none", "crowd"}
      /\ fault' = "none" => Cardinality(Round!Tools)' <= MaxTools
  BY <1>3 DEF NewlySaid, Round!Tools
<1>5. Got(n)' = <<>> /\ <<>> \o <<>> = <<>>
  <2>1. want \in Nat /\ Got(n)' = Parts(n, want, 0, 0)
    BY <1>3 DEF NewlySaid
  <2>2. <<>> \in Seq(Nat)
    OBVIOUS
  <2> QED BY <2>1, <2>2, Joining, ConcatEmptySeq, 0 \in Nat, 0 <= 0
<1>6. NameKnown(n)' = Round!Name(n)
  BY <1>1, <1>3 DEF NewlySaid, Spoken
<1>7. \A j \in DOMAIN output' : ~output'[j].open => output'[j].sent = output'[j].want
  BY <1>1, <1>2, <1>3 DEF ResponsesKeeps, NewlySaid, Untouched
<1>8. ASSUME NEW j \in DOMAIN items
      PROVE  /\ j \in DOMAIN output
             /\ items[j] = [kind |-> output'[j].kind, slot |-> Round!ToolsBefore(j)', got |-> Got(j)', done |-> items[j].done]
             /\ items[j].done \in BOOLEAN /\ (items[j].done => ~output'[j].open)
  <2>1. j \in DOMAIN output /\ j # n
    BY <1>2, <1>4 DEF KeptSoFar
  <2>2. output'[j] = output[j] /\ Got(j)' = Got(j) /\ Round!ToolsBefore(j)' = Round!ToolsBefore(j)
    BY <1>4, <2>1 DEF Untouched
  <2>3. /\ items[j] = [kind |-> output[j].kind, slot |-> Round!ToolsBefore(j), got |-> Got(j), done |-> items[j].done]
        /\ items[j].done \in BOOLEAN /\ (items[j].done => ~output[j].open)
    BY <1>1, <1>2 DEF ResponsesKeeps
  <2> QED BY <2>1, <2>2, <2>3
<1>9. OpenaiKeeps' /\ ClaudeKeeps'
  BY <1>1, <1>4 DEF OpenaiKeeps, ClaudeKeeps
<1>10. CASE ~added
  <2>1. /\ reading' = reading /\ text' = text \o <<>>
        /\ DOMAIN calls' = DOMAIN calls /\ \A s \in DOMAIN calls : calls'[s] = calls[s]
        /\ finish' = finish /\ finishSeen' = (finishSeen \/ FALSE)
    BY <1>1, <1>10, HearsNone
  <2>2. Met' = Met /\ items' = items
    BY <1>1, <1>4, <1>10 DEF Met
  <2>3. KeptSoFar'
    <3>1. output'[n].sent = 0 /\ output'[n].open /\ (n \notin Round!Tools' => Round!Tools = DOMAIN output)
      BY <1>3, <1>4 DEF NewlySaid
    <3> QED BY <1>2, <1>4, <1>5, <2>1, <2>2, <3>1, TextStays, KeptUnmet
  <2>4. Honest'
    BY <1>1, <1>2, <1>4, <2>1, HonestStep DEF Unspoken
  <2>5. ResponsesKeeps'
    BY <1>7, <1>8, <2>2 DEF ResponsesKeeps
  <2> QED BY <1>4, <1>9, <2>1, <2>3, <2>4, <2>5 DEF RoundInv, InProgress, Round!WholeRoundsAccepted
<1>11. CASE added
  <2>1. Round!Slot = Round!ToolsBefore(n)
    BY <1>1, <1>4, <1>11, SlotsAre
  <2>2. CASE kind = "tool" /\ Cardinality(Round!Tools) >= MaxTools
    <3>1. reading' = "refused"
      BY <1>1, <1>4, <1>11, <2>1, <2>2, HearsTooMany
    <3>2. fault' # "none"
      BY <1>3, <2>2 DEF NewlySaid
    <3> QED BY <1>4, <3>1, <3>2, Stops
  <2>3. CASE ~(kind = "tool" /\ Cardinality(Round!Tools) >= MaxTools)
    <3>1. Takes(n) /\ reading' = reading /\ Unspoken
      <4>1. CASE kind = "tool"
        <5>1. Round!ToolsBefore(n) \notin DOMAIN calls /\ Round!ToolsBefore(n) < MaxTools
          BY <1>2, <1>4, <2>3, <4>1, NewSlot, RoundsAssumption
        <5>2. Round!Hears({Round!Delta(Round!ToolsBefore(n), Round!Name(n), <<>>)}, <<>>, "no")
          BY <1>1, <1>11, <2>1, <4>1
        <5>3. Got(n)' = <<>> \o <<>>
          BY <1>5
        <5>4. Merges(<<>>, Round!Name(n), NameKnown(n)')
          BY <1>6, Merging
        <5> QED BY <1>2, <1>4, <4>1, <5>1, <5>2, <5>3, <5>4, TakesNew
      <4>2. CASE kind = "text"
        <5>1. text = <<>>
          BY <1>2, <1>3, <4>2 DEF KeptSoFar, NewlySaid
        <5>2. Got(n)' = text \o <<>>
          BY <1>5, <5>1
        <5> QED BY <1>1, <1>4, <4>2, <5>2, TakesText
      <4> QED BY <4>1, <4>2
    <3>2. /\ DOMAIN items' = DOMAIN items \cup {n} /\ \A j \in DOMAIN items : j # n => items'[j] = items[j]
          /\ items'[n] = Round!Started(kind, Round!Slot)
      BY <1>1, <1>11 DEF Round!Put
    <3>3. ResponsesKeeps'
      <4>1. ASSUME NEW j \in DOMAIN items'
            PROVE  /\ items'[j] = [kind |-> output'[j].kind, slot |-> Round!ToolsBefore(j)', got |-> Got(j)', done |-> items'[j].done]
                   /\ items'[j].done \in BOOLEAN /\ (items'[j].done => ~output'[j].open)
        <5>1. CASE j = n
          <6>1. items'[n] = [kind |-> kind, slot |-> Round!ToolsBefore(n), got |-> <<>>, done |-> FALSE]
            BY <2>1, <3>2 DEF Round!Started
          <6>2. output'[n].kind = kind /\ Round!ToolsBefore(n)' = Round!ToolsBefore(n)
            BY <1>3 DEF NewlySaid
          <6>3. items'[n].done = FALSE
            BY <6>1
          <6> QED BY <1>5, <5>1, <6>1, <6>2, <6>3
        <5>2. CASE j # n
          <6>1. j \in DOMAIN items /\ items'[j] = items[j]
            BY <3>2, <5>2
          <6> QED BY <1>8, <6>1
        <5> QED BY <5>1, <5>2
      <4> QED BY <1>7, <4>1 DEF ResponsesKeeps
    <3>4. Met' = Met \cup {n} /\ \A j \in 1 .. (n - 1) : j \in Met
      <4>1. 1 .. (n - 1) \subseteq DOMAIN output
        BY <1>3 DEF NewlySaid
      <4> QED BY <1>1, <1>2, <1>4, <1>11, <3>2, <4>1 DEF Met
    <3> QED BY <1>1, <1>2, <1>4, <1>9, <3>1, <3>3, <3>4, ReadsOn
  <2> QED BY <2>2, <2>3
<1> QED BY <1>10, <1>11

(* The steps that change neither the items nor what was met of them.        *)
Still == output' = output /\ style' = style /\ backend' = backend

LEMMA SpokenStays ==
    ASSUME Spoken, Still
    PROVE  Spoken' /\ Round!Tools' = Round!Tools /\ (\A i : Round!ToolsBefore(i)' = Round!ToolsBefore(i))
           /\ (\A i : NameKnown(i)' = NameKnown(i) /\ Got(i)' = Got(i))
<1>1. output' = output /\ style' = style /\ backend' = backend
  BY DEF Still
<1>2. Round!Tools' = Round!Tools
  BY <1>1 DEF Round!Tools
<1>3. \A i : Round!ToolsBefore(i)' = Round!ToolsBefore(i)
  BY <1>2 DEF Round!ToolsBefore
<1>4. \A i : NameKnown(i)' = NameKnown(i)
  BY <1>1 DEF NameKnown, Round!Name
<1>5. \A i : Got(i)' = Got(i)
  BY <1>1 DEF Got, Round!NoArguments, Round!Fragments
<1>6. Spoken'
  BY <1>1, <1>2, <1>3 DEF Spoken
<1> QED BY <1>2, <1>3, <1>4, <1>5, <1>6

LEMMA KeptStays ==
    ASSUME Spoken, InProgress, Still, indices' = indices, hasInput' = hasInput, items' = items,
           text' = text, DOMAIN calls' = DOMAIN calls, \A s \in DOMAIN calls : calls'[s] = calls[s]
    PROVE  KeptSoFar' /\ OpenaiKeeps' /\ ClaudeKeeps' /\ ResponsesKeeps'
<1>1. /\ Round!Tools' = Round!Tools /\ \A i : Round!ToolsBefore(i)' = Round!ToolsBefore(i)
      /\ \A i : NameKnown(i)' = NameKnown(i) /\ Got(i)' = Got(i)
  BY SpokenStays
<1>2. output' = output /\ backend' = backend /\ Met' = Met
  BY DEF Still, Met
<1>3. KeptSoFar'
  <2>1. KeptSoFar
    BY DEF InProgress
  <2>2. {Round!ToolsBefore(i) : i \in Round!Tools \cap Met}' = {Round!ToolsBefore(i) : i \in Round!Tools \cap Met}
    BY <1>1, <1>2
  <2>3. \A i \in Round!Tools' \cap Met' : calls'[Round!ToolsBefore(i)'] = [id |-> NameKnown(i)', args |-> Got(i)']
    <3>1. ASSUME NEW i \in Round!Tools \cap Met PROVE calls'[Round!ToolsBefore(i)] = [id |-> NameKnown(i), args |-> Got(i)]
      <4>1. Round!ToolsBefore(i) \in DOMAIN calls /\ calls[Round!ToolsBefore(i)] = [id |-> NameKnown(i), args |-> Got(i)]
        BY <2>1 DEF KeptSoFar
      <4> QED BY <4>1
    <3> QED BY <1>1, <1>2, <3>1
  <2> QED BY <1>1, <1>2, <2>1, <2>2, <2>3 DEF KeptSoFar
<1>4. OpenaiKeeps'
  BY <1>2 DEF InProgress, OpenaiKeeps
<1>5. ClaudeKeeps'
  <2>1. CASE backend = "claude"
    <3>1. /\ DOMAIN indices = Round!Tools /\ (\A i \in Round!Tools : indices[i] = Round!ToolsBefore(i))
          /\ hasInput = {i \in Round!Tools : output[i].sent > 0 \/ ~output[i].open}
      BY <2>1 DEF InProgress, ClaudeKeeps
    <3> QED BY <1>1, <1>2, <3>1 DEF ClaudeKeeps
  <2> QED BY <1>2, <2>1 DEF ClaudeKeeps
<1>6. ResponsesKeeps'
  <2>1. CASE backend = "responses"
    <3>1. ResponsesKeeps
      BY DEF InProgress
    <3> QED BY <1>1, <1>2, <2>1, <3>1 DEF ResponsesKeeps
  <2> QED BY <1>2, <2>1 DEF ResponsesKeeps
<1> QED BY <1>3, <1>4, <1>5, <1>6

LEMMA CutKeeps ==
    ASSUME Spoken, InProgress, reading = "reading", Round!Cut
    PROVE  RoundInv'
<1>1. /\ said = "no" /\ said' = "cutting" /\ reading' = reading /\ Still /\ fault' = fault
      /\ indices' = indices /\ hasInput' = hasInput /\ items' = items /\ finishSeen' = finishSeen
      /\ calls' = calls /\ text' = text /\ finish' = finish
  BY DEF Round!Cut, Round!Speaking, Round!connection, Round!protocol, Round!heard, Still
<1>2. KeptSoFar' /\ OpenaiKeeps' /\ ClaudeKeeps' /\ ResponsesKeeps' /\ Spoken' /\ Round!Tools' = Round!Tools
  BY <1>1, KeptStays, SpokenStays
<1>3. Honest'
  BY <1>1, <1>2 DEF InProgress, Honest, Still
<1> QED BY <1>1, <1>2, <1>3 DEF RoundInv, InProgress, Round!WholeRoundsAccepted

LEMMA SaysKeeps ==
    ASSUME Spoken, InProgress, reading = "reading", NEW reason, Round!Says(reason)
    PROVE  RoundInv'
<1>1. /\ backend # "responses" /\ fault = "none" /\ reason \in Round!Reasons /\ said' = reason
      /\ Round!Hears({}, <<>>, reason) /\ Still /\ fault' = fault
      /\ indices' = indices /\ hasInput' = hasInput /\ items' = items
  BY DEF Round!Says, Round!connection, Still
<1>2. /\ reason \in {"stop", "tool_calls"} \cup CutReasons
      /\ reason \in {"stop", "tool_calls"} =>
             \A i \in DOMAIN output : Round!Whole(i) /\ (backend = "claude" => ~output[i].open)
  <2>1. CASE said = "cutting"
    BY <1>1, <2>1, RoundsAssumption DEF Round!Reasons
  <2>2. CASE said # "cutting"
    BY <1>1, <2>2 DEF Round!Reasons
  <2> QED BY <2>1, <2>2
<1>3. reason \notin {"no", "cutting"}
  BY <1>2, RoundsAssumption
<1>4. /\ reading' = reading /\ text' = text \o <<>>
      /\ DOMAIN calls' = DOMAIN calls /\ \A s \in DOMAIN calls : calls'[s] = calls[s]
      /\ finish' = IF reason # "no" THEN reason ELSE finish
      /\ finishSeen' = (finishSeen \/ reason # "no")
  BY <1>1, HearsNone
<1>5. text' = text
  BY <1>4, TextStays DEF InProgress
<1>6. KeptSoFar' /\ OpenaiKeeps' /\ ClaudeKeeps' /\ ResponsesKeeps' /\ Spoken' /\ Round!Tools' = Round!Tools
  BY <1>1, <1>4, <1>5, KeptStays, SpokenStays
<1>7. Honest'
  <2>1. finish' = reason /\ finishSeen' = TRUE
    BY <1>3, <1>4
  <2>2. \A i \in DOMAIN output : Round!Whole(i)' = Round!Whole(i)
    BY <1>1 DEF Round!Whole, Still
  <2>3. (fault = "none" => Cardinality(Round!Tools) <= MaxTools)'
    BY <1>1, <1>6 DEF InProgress, Honest
  <2> QED BY <1>1, <1>2, <1>3, <2>1, <2>2, <2>3 DEF Honest, Still
<1> QED BY <1>4, <1>6, <1>7 DEF RoundInv, InProgress, Round!WholeRoundsAccepted

(* What is complete stays complete: the calls of an answer are valid.       *)
LEMMA GotAll ==
    ASSUME Spoken, NEW i \in DOMAIN output, said # "cutting", output[i].sent = output[i].want,
           output[i].kind = "tool" => output[i].want > 0 \/ ~output[i].open
    PROVE  Got(i) = Round!Final(i)
<1>1. output[i] \in Item
  BY DEF Spoken
<1>2. output[i].want \in Nat
  BY <1>1 DEF Item
<1> QED BY <1>2, FinalIs, GotIs

LEMMA SlotsOfCalls ==
    ASSUME Spoken, InProgress, Round!Tools \subseteq Met
    PROVE  DOMAIN calls = 0 .. (Cardinality(Round!Tools) - 1)
<1>1. Round!Tools \cap Met = Round!Tools
  OBVIOUS
<1> QED BY <1>1 DEF InProgress, KeptSoFar, Spoken

LEMMA Completes ==
    ASSUME Spoken, InProgress, said \in {"stop", "tool_calls"}
    PROVE  Complete
<1>1. Honest /\ KeptSoFar /\ OpenaiKeeps /\ ClaudeKeeps
  BY DEF InProgress
<1>2. /\ backend # "responses" /\ fault = "none" /\ said \notin {"no", "cutting"}
      /\ \A i \in DOMAIN output : Round!Whole(i) /\ (backend = "claude" => ~output[i].open)
  BY <1>1 DEF Honest
<1>3. Met = DOMAIN output /\ Round!Tools \subseteq DOMAIN output
  BY <1>2 DEF Met, Round!Tools
<1>4. DOMAIN calls = 0 .. (Cardinality(Round!Tools) - 1)
  BY <1>3, SlotsOfCalls
<1>5. ASSUME NEW i \in DOMAIN output PROVE Got(i) = Round!Final(i) /\ (i \in Round!Tools => NameKnown(i) = Round!Name(i))
  <2>1. Round!Whole(i) /\ (backend = "claude" => ~output[i].open)
    BY <1>2
  <2>2. output[i].sent = output[i].want /\ (output[i].kind = "tool" /\ style = "growing" /\ backend = "openai" => output[i].told = 2)
    BY <2>1 DEF Round!Whole
  <2>3. output[i].kind = "tool" => output[i].want > 0 \/ ~output[i].open
    <3>1. backend \in {"openai", "claude"}
      BY <1>2 DEF Spoken
    <3>2. CASE backend = "openai"
      BY <1>1, <3>2 DEF OpenaiKeeps
    <3> QED BY <2>1, <3>1, <3>2
  <2>4. Got(i) = Round!Final(i)
    BY <1>2, <2>2, <2>3, GotAll
  <2>5. i \in Round!Tools => NameKnown(i) = Round!Name(i)
    BY <2>2 DEF NameKnown, Spoken, Round!Tools
  <2> QED BY <2>4, <2>5
<1>6. \A i \in Round!Tools : calls[Round!ToolsBefore(i)] = [id |-> Round!Name(i), args |-> Round!Final(i)]
  <2>1. ASSUME NEW i \in Round!Tools PROVE calls[Round!ToolsBefore(i)] = [id |-> Round!Name(i), args |-> Round!Final(i)]
    <3>1. calls[Round!ToolsBefore(i)] = [id |-> NameKnown(i), args |-> Got(i)]
      BY <1>1, <1>3 DEF KeptSoFar
    <3>2. NameKnown(i) = Round!Name(i) /\ Got(i) = Round!Final(i)
      BY <1>3, <1>5
    <3> QED BY <3>1, <3>2
  <2> QED BY <2>1
<1>7. \A i \in DOMAIN output \ Round!Tools : text = Round!Final(i)
  BY <1>1, <1>5 DEF KeptSoFar
<1> QED BY <1>2, <1>4, <1>6, <1>7 DEF Complete

LEMMA CompleteStays ==
    ASSUME Spoken, Complete, Still, said' = said, fault' = fault, calls' = calls, text' = text
    PROVE  Spoken' /\ Complete'
<1>1. Spoken' /\ Round!Tools' = Round!Tools /\ \A i : Round!ToolsBefore(i)' = Round!ToolsBefore(i)
  BY SpokenStays
<1>2. \A i : Round!Final(i)' = Round!Final(i) /\ Round!Name(i)' = Round!Name(i)
  BY DEF Still, Round!Final, Round!Fragments, Round!NoArguments, Round!Name
<1>3. output' = output
  BY DEF Still
<1> QED BY <1>1, <1>2, <1>3 DEF Complete

LEMMA CompleteIsValid ==
    ASSUME Spoken, Complete
    PROVE  Round!Validated
<1>1. ASSUME NEW s \in DOMAIN calls
      PROVE  \E i \in Round!Tools : s = Round!ToolsBefore(i) /\ calls[s] = [id |-> Round!Name(i), args |-> Round!Final(i)]
  <2>1. PICK i \in Round!Tools : s = Round!ToolsBefore(i)
    BY <1>1 DEF Spoken, Complete
  <2> QED BY <2>1 DEF Complete
<1>2. ASSUME NEW i \in Round!Tools PROVE Round!Name(i) # <<>> /\ Round!Parses(Round!Final(i))
  <2>1. Round!Name(i) # <<>>
    BY DEF Round!Name
  <2>2. output[i] \in Item /\ output[i].kind = "tool"
    BY DEF Spoken, Round!Tools
  <2>3. output[i].want \in Nat
    BY <2>2 DEF Item
  <2>4. said # "cutting"
    BY DEF Complete
  <2>5. CASE output[i].want = 0
    <3>1. Round!Final(i) = <<Round!NoArguments>>
      BY <2>2, <2>4, <2>5, FinalIs
    <3> QED BY <2>1, <3>1 DEF Round!Parses
  <2>6. CASE output[i].want # 0
    <3> DEFINE w == output[i].want
               p == Parts(i, w, 0, w)
    <3>1. Round!Final(i) = p
      BY <2>4, <2>6, FinalIs
    <3>2. w \in Nat /\ w # 0 /\ 0 <= w /\ w - 0 = w
      BY <2>3, <2>6
    <3> HIDE DEF w
    <3>3. p \in Seq(Fragment(i, w)) /\ Len(p) = w - 0 /\ \A k \in 1 .. (w - 0) : p[k] = <<i, 0 + k, w>>
      BY <3>2, PartsType, 0 \in Nat
    <3> HIDE DEF p
    <3>4. Len(p) = w /\ DOMAIN p = 1 .. w /\ p # <<>>
      BY <3>2, <3>3
    <3>5. ASSUME NEW k \in DOMAIN p PROVE p[k][2] = k /\ p[k][3] = Len(p)
      <4>1. k \in Nat /\ 0 + k = k
        BY <3>4
      <4>2. p[k] = <<i, k, w>>
        BY <3>2, <3>3, <3>4, <4>1
      <4> QED BY <3>4, <4>2
    <3>6. Round!Parses(p)
      BY <3>4, <3>5 DEF Round!Parses
    <3> QED BY <2>1, <3>1, <3>6
  <2> QED BY <2>1, <2>5, <2>6
<1>3. ASSUME NEW s \in DOMAIN calls PROVE calls[s].id # <<>> /\ Round!Parses(calls[s].args)
  BY <1>1, <1>2
<1>4. ASSUME NEW s \in DOMAIN calls, NEW t \in DOMAIN calls, s # t PROVE calls[s].id # calls[t].id
  <2>1. PICK i \in Round!Tools : s = Round!ToolsBefore(i) /\ calls[s] = [id |-> Round!Name(i), args |-> Round!Final(i)]
    BY <1>1
  <2>2. PICK j \in Round!Tools : t = Round!ToolsBefore(j) /\ calls[t] = [id |-> Round!Name(j), args |-> Round!Final(j)]
    BY <1>1
  <2>3. Round!Name(i) # Round!Name(j)
    BY <1>4, <2>1, <2>2 DEF Round!Name
  <2> QED BY <2>1, <2>2, <2>3
<1> QED BY <1>3, <1>4 DEF Round!Validated

(* The ends of a round.                                                     *)
LEMMA MarkerKeeps ==
    ASSUME Spoken, InProgress, reading = "reading", Round!Marker
    PROVE  RoundInv'
<1>1. /\ reading' = IF finishSeen THEN "ended" ELSE "refused"
      /\ fault' = IF said \in {"no", "cutting"} THEN "unfinished" ELSE fault
      /\ said' = said /\ Still /\ calls' = calls /\ text' = text /\ finish' = finish
  BY DEF Round!Marker, Round!connection, Round!heard, Still
<1>2. Honest
  BY DEF InProgress
<1>3. CASE finishSeen
  <2>1. said \notin {"no", "cutting"} /\ finish = said /\ said \in {"stop", "tool_calls"} \cup CutReasons
    BY <1>2, <1>3 DEF Honest
  <2>2. CASE said \in {"stop", "tool_calls"}
    <3>1. Spoken' /\ Complete'
      BY <1>1, <2>1, <2>2, Completes, CompleteStays
    <3> QED BY <1>1, <1>3, <2>1, <2>2, <3>1 DEF RoundInv, Round!WholeRoundsAccepted
  <2>3. CASE said \in CutReasons
    <3>1. Spoken'
      BY <1>1, SpokenStays
    <3> QED BY <1>1, <1>3, <2>1, <2>3, <3>1 DEF RoundInv, Round!WholeRoundsAccepted
  <2> QED BY <2>1, <2>2, <2>3
<1>4. CASE ~finishSeen
  <2>1. said \in {"no", "cutting"}
    BY <1>2, <1>4 DEF Honest
  <2>2. reading' = "refused" /\ fault' # "none"
    BY <1>1, <1>4, <2>1
  <2> QED BY <1>1, <2>2, Stops, SpokenStays
<1> QED BY <1>3, <1>4

LEMMA BreaksOffKeeps ==
    ASSUME Spoken, reading = "reading", Round!BreaksOff \/ Round!RepetitionStop \/ Round!Cancelled
    PROVE  RoundInv'
<1>1. CASE Round!BreaksOff
  <2>1. reading' = "refused" /\ fault' # "none" /\ Still
    BY <1>1 DEF Round!BreaksOff, Round!connection, Still
  <2> QED BY <2>1, Stops, SpokenStays
<1>2. CASE Round!RepetitionStop
  <2>1. fault' = "repeats" /\ Still /\ calls' = calls /\ reading' \in {"refused", "ended"} /\ (reading' = "ended" => DOMAIN calls = {})
    BY <1>2 DEF Round!RepetitionStop, Round!connection, Still
  <2>2. Spoken'
    BY <2>1, SpokenStays
  <2> QED BY <2>1, <2>2 DEF RoundInv, Round!WholeRoundsAccepted
<1>3. CASE Round!Cancelled
  <2>1. reading' = "cancelled" /\ Still
    BY <1>3 DEF Round!Cancelled, Round!connection, Still
  <2> QED BY <2>1, Stops, SpokenStays
<1> QED BY <1>1, <1>2, <1>3

(* What the reader makes of the round.                                      *)
LEMMA SettlesKeeps ==
    ASSUME RoundInv, Round!Refuses \/ Round!Suppresses \/ Round!Dispatches \/ Round!Answers
    PROVE  RoundInv'
<1>1. /\ reading = "ended" /\ Still /\ said' = said /\ fault' = fault /\ calls' = calls /\ text' = text /\ finish' = finish
      /\ reader' = reader
  BY DEF Round!Refuses, Round!Suppresses, Round!Dispatches, Round!Answers, Round!Settles, Round!connection,
         Round!heard, Still
<1>2. Spoken /\ Spoken'
  BY <1>1, SpokenStays DEF RoundInv
<1>3. \/ fault = "repeats" /\ DOMAIN calls = {}
      \/ finish \in {"stop", "tool_calls"} /\ Complete
      \/ finish \in CutReasons /\ said = finish
  BY <1>1 DEF RoundInv
<1>4. Complete => Complete' /\ Round!Validated
  BY <1>1, <1>2, CompleteStays, CompleteIsValid
<1>5. CASE Round!Refuses
  <2>1. reading' = "refused" /\ (Round!Accepted(finish) => ~Round!Validated \/ reader = "denied")
    BY <1>5 DEF Round!Refuses, Round!Settles
  <2>2. fault # "none" \/ said \in CutReasons \/ reader = "denied"
    BY <1>3, <1>4, <2>1 DEF Round!Accepted
  <2> QED BY <1>1, <1>2, <2>1, <2>2, Stops
<1>6. CASE Round!Suppresses
  <2>1. reading' = "suppressed"
    BY <1>6 DEF Round!Suppresses, Round!Settles
  <2> QED BY <1>2, <2>1, Stops
<1>7. CASE Round!Dispatches \/ Round!Answers
  <2>1. /\ Round!Accepted(finish) /\ reading' \in {"dispatched", "answered"}
        /\ reading' = "dispatched" => DOMAIN calls # {}
    BY <1>7 DEF Round!Dispatches, Round!Answers, Round!Settles
  <2>2. finish \notin CutReasons
    BY <2>1, RoundsAssumption DEF Round!Accepted
  <2>3. Complete' \/ (fault' # "none" /\ reading' = "answered")
    BY <1>1, <1>3, <1>4, <2>1, <2>2
  <2>4. Complete' => \A i \in DOMAIN output' \ Round!Tools' : text' = Round!Final(i)'
    BY DEF Complete
  <2> QED BY <1>2, <2>1, <2>3, <2>4 DEF RoundInv, Round!WholeRoundsAccepted
<1> QED BY <1>5, <1>6, <1>7

(* What is left of an answer of the Responses protocol, and the calls with  *)
(* it.                                                                      *)
Rest(i) == Round!Stripped(Got(i), Round!Final(i))
Brings(i) == Round!Delta(Round!ToolsBefore(i), IF i \in DOMAIN items THEN <<>> ELSE Round!Name(i), Rest(i))
Left == UNION {Round!FinishItem(i) : i \in Round!Unfinished}

LEMMA LeftIs ==
    ASSUME Spoken, InProgress, backend = "responses"
    PROVE  Left = {Brings(i) : i \in Round!Unfinished \cap Round!Tools}
<1>1. ASSUME NEW i \in Round!Unfinished
      PROVE  Round!FinishItem(i) = IF i \in Round!Tools THEN {Brings(i)} ELSE {}
  <2>1. i \in DOMAIN output
    BY DEF Round!Unfinished
  <2>2. Round!Had(i) = Got(i)
    BY <2>1, HadIs
  <2>3. i \in DOMAIN items => items[i].slot = Round!ToolsBefore(i)
    BY DEF InProgress, ResponsesKeeps
  <2>4. i \notin DOMAIN items => Round!Slots(i) = Round!ToolsBefore(i)
    BY <2>1, SlotsAre
  <2>5. (IF i \in DOMAIN items THEN items[i].slot ELSE Round!Slots(i)) = Round!ToolsBefore(i)
    BY <2>3, <2>4
  <2> QED BY <2>1, <2>2, <2>5 DEF Round!FinishItem, Brings, Rest, Round!Tools
<1>2. {Round!FinishItem(i) : i \in Round!Unfinished} = {IF i \in Round!Tools THEN {Brings(i)} ELSE {} : i \in Round!Unfinished}
  BY <1>1
<1> HIDE DEF Brings
<1> QED BY <1>2 DEF Left

LEMMA LeftMerges ==
    ASSUME Spoken, InProgress, backend = "responses", NEW i \in Round!Tools
    PROVE  /\ Merges(Round!Entry(calls, Round!ToolsBefore(i)).id, Brings(i).id, Round!Name(i))
           /\ Round!Entry(calls, Round!ToolsBefore(i)).args = Got(i)
           /\ Brings(i).slot = Round!ToolsBefore(i) /\ Brings(i).args = Rest(i)
<1>1. KeptSoFar /\ Met = DOMAIN items /\ i \in DOMAIN output
  BY DEF InProgress, Met, Round!Tools
<1>2. /\ Brings(i).slot = Round!ToolsBefore(i) /\ Brings(i).args = Rest(i)
      /\ Brings(i).id = IF i \in DOMAIN items THEN <<>> ELSE Round!Name(i)
  BY DEF Brings, Round!Delta
<1>3. NameKnown(i) = Round!Name(i)
  BY KnownOnce
<1>4. CASE i \in DOMAIN items
  <2>1. Round!Entry(calls, Round!ToolsBefore(i)) = [id |-> NameKnown(i), args |-> Got(i)]
    BY <1>1, <1>4, EntryIs
  <2>2. /\ Round!Entry(calls, Round!ToolsBefore(i)).id = Round!Name(i) /\ Brings(i).id = <<>>
        /\ Round!Entry(calls, Round!ToolsBefore(i)).args = Got(i)
    BY <1>2, <1>3, <1>4, <2>1
  <2>3. Merges(Round!Name(i), <<>>, Round!Name(i))
    BY Merging
  <2> QED BY <1>2, <2>2, <2>3
<1>5. CASE i \notin DOMAIN items
  <2>1. Round!ToolsBefore(i) \notin DOMAIN calls
    BY <1>1, <1>5, NotMet
  <2>2. Round!Entry(calls, Round!ToolsBefore(i)) = [id |-> <<>>, args |-> <<>>]
    BY <1>1, <2>1, EntryIs
  <2>3. output[i].sent = 0 /\ output[i].open
    BY <1>1, <1>5 DEF KeptSoFar
  <2>4. Got(i) = <<>>
    BY <2>3, GotIs, Joining, 0 \in Nat, 0 <= 0
  <2>5. /\ Round!Entry(calls, Round!ToolsBefore(i)).id = <<>> /\ Brings(i).id = Round!Name(i)
        /\ Round!Entry(calls, Round!ToolsBefore(i)).args = Got(i)
    BY <1>2, <1>5, <2>2, <2>4
  <2>6. Merges(<<>>, Round!Name(i), Round!Name(i))
    BY Merging
  <2> QED BY <1>2, <2>5, <2>6
<1> QED BY <1>4, <1>5

LEMMA LeftTaken ==
    ASSUME Spoken, InProgress, backend = "responses", fault = "none"
    PROVE  ~Round!Refused(Left)
<1>1. Left = {Brings(i) : i \in Round!Unfinished \cap Round!Tools}
  BY LeftIs
<1>2. ASSUME NEW i \in Round!Tools
      PROVE  ~(Brings(i).slot >= MaxTools) /\ ~Round!IdentityChanged(Round!Entry(calls, Brings(i).slot).id, Brings(i).id)
  <2>1. /\ Merges(Round!Entry(calls, Round!ToolsBefore(i)).id, Brings(i).id, Round!Name(i))
        /\ Brings(i).slot = Round!ToolsBefore(i)
    BY LeftMerges
  <2>2. Round!ToolsBefore(i) < Cardinality(Round!Tools) /\ Round!ToolsBefore(i) \in Nat /\ Cardinality(Round!Tools) \in Nat
    BY Numbering
  <2>3. MaxTools \in Nat /\ Cardinality(Round!Tools) <= MaxTools
    BY RoundsAssumption DEF InProgress, Honest
  <2>4. ~(Round!ToolsBefore(i) >= MaxTools)
    BY <2>2, <2>3
  <2> QED BY <2>1, <2>4 DEF Merges
<1> HIDE DEF Brings
<1> QED BY <1>1, <1>2 DEF Round!Refused

LEMMA LeftPushed ==
    ASSUME Spoken, InProgress, backend = "responses", said = "no", NEW all, all = Round!PushAll(calls, Left)
    PROVE  /\ DOMAIN all = 0 .. (Cardinality(Round!Tools) - 1)
           /\ \A i \in Round!Tools : all[Round!ToolsBefore(i)] = [id |-> Round!Name(i), args |-> Round!Final(i)]
<1>1. Left = {Brings(i) : i \in Round!Unfinished \cap Round!Tools}
  BY LeftIs
<1>2. \A i \in Round!Tools : Brings(i).slot = Round!ToolsBefore(i)
  BY LeftMerges
<1>3. \A i, j \in Round!Tools : Round!ToolsBefore(i) = Round!ToolsBefore(j) => i = j
  BY Numbering
<1>4. KeptSoFar /\ ResponsesKeeps /\ Met = DOMAIN items /\ Round!Tools \subseteq DOMAIN output
  BY DEF InProgress, Met, Round!Tools
<1>5. Round!Tools = (Round!Tools \cap Met) \cup (Round!Unfinished \cap Round!Tools)
  BY <1>4 DEF Round!Unfinished
<1> HIDE DEF Brings
<1>6. DOMAIN all = 0 .. (Cardinality(Round!Tools) - 1)
  <2>1. DOMAIN all = DOMAIN calls \cup {d.slot : d \in Left}
    BY DEF Round!PushAll
  <2>2. {d.slot : d \in Left} = {Round!ToolsBefore(i) : i \in Round!Unfinished \cap Round!Tools}
    BY <1>1, <1>2
  <2>3. DOMAIN calls = {Round!ToolsBefore(i) : i \in Round!Tools \cap Met}
    BY <1>4 DEF KeptSoFar
  <2>4. DOMAIN all = {Round!ToolsBefore(i) : i \in Round!Tools}
    BY <1>5, <2>1, <2>2, <2>3
  <2> QED BY <2>4 DEF Spoken
<1>7. ASSUME NEW i \in Round!Tools
      PROVE  all[Round!ToolsBefore(i)] = [id |-> Round!Name(i), args |-> Round!Final(i)]
  <2> DEFINE s == Round!ToolsBefore(i)
  <2>1. s \in DOMAIN all
    BY <1>6 DEF Spoken
  <2>2. ~output[i].open => output[i].sent = output[i].want
    BY <1>4 DEF ResponsesKeeps
  <2>3. CASE i \in Round!Unfinished
    <3>1. Brings(i) \in Left /\ Brings(i).slot = s
      BY <1>1, <1>2, <2>3
    <3>2. \A d \in Left : d.slot = s => d = Brings(i)
      BY <1>1, <1>2, <1>3
    <3>3. (CHOOSE d \in Left : d.slot = s) = Brings(i)
      BY <3>1, <3>2
    <3>4. all[s] = Round!PushOne(calls, Brings(i))
      BY <2>1, <3>1, <3>3 DEF Round!PushAll
    <3>5. /\ Merges(Round!Entry(calls, s).id, Brings(i).id, Round!Name(i))
          /\ Round!Entry(calls, s).args = Got(i) /\ Brings(i).args = Rest(i)
      BY LeftMerges
    <3>6. Got(i) \o Rest(i) = Round!Final(i)
      BY <1>4, <2>2, RestOf DEF Rest
    <3> QED BY <3>1, <3>4, <3>5, <3>6 DEF Round!PushOne, Merges
  <2>4. CASE i \notin Round!Unfinished
    <3>1. ~ \E d \in Left : d.slot = s
      BY <1>1, <1>2, <1>3, <2>4
    <3>2. all[s] = calls[s]
      BY <2>1, <3>1 DEF Round!PushAll
    <3>3. i \in DOMAIN items /\ items[i].done
      BY <1>4, <2>4 DEF Round!Unfinished
    <3>4. calls[s] = [id |-> NameKnown(i), args |-> Got(i)]
      BY <1>4, <3>3 DEF KeptSoFar
    <3>5. Got(i) = Round!Final(i)
      <4>1. ~output[i].open
        BY <1>4, <3>3 DEF ResponsesKeeps
      <4> QED BY <1>4, <2>2, <4>1, GotAll
    <3> QED BY <3>2, <3>4, <3>5, KnownOnce
  <2> QED BY <2>3, <2>4
<1> QED BY <1>6, <1>7

(* The text, with what is left of it.                                       *)
LEMMA LeftSaid ==
    ASSUME Spoken, InProgress, backend = "responses", said = "no", NEW i \in DOMAIN output \ Round!Tools
    PROVE  text \o (IF Round!Unread = {} THEN <<>> ELSE Round!Words(CHOOSE j \in Round!Unread : TRUE)) = Round!Final(i)
<1>1. KeptSoFar /\ ResponsesKeeps
  BY DEF InProgress
<1>2. \A j \in DOMAIN output : output[j].kind \in {"text", "tool"}
  <2>1. \A j \in DOMAIN output : output[j] \in Item
    BY DEF Spoken
  <2> QED BY <2>1 DEF Item
<1>3. output[i].kind = "text" /\ \A j \in DOMAIN output : output[j].kind = "text" => j = i
  BY <1>2 DEF Spoken, Round!Tools
<1>4. Round!Unread = IF i \in Round!Unfinished THEN {i} ELSE {}
  BY <1>3 DEF Round!Unread, Round!Unfinished
<1>5. text = Got(i) /\ (~output[i].open => output[i].sent = output[i].want)
  BY <1>1 DEF KeptSoFar, ResponsesKeeps
<1>6. CASE i \in Round!Unfinished
  <2>1. (CHOOSE j \in Round!Unread : TRUE) = i /\ Round!Unread # {}
    BY <1>4, <1>6
  <2>2. Round!Words(i) = Rest(i)
    BY <1>3, HadIs DEF Round!Words, Rest
  <2>3. Got(i) \o Rest(i) = Round!Final(i)
    BY <1>5, RestOf DEF Rest
  <2> QED BY <1>5, <2>1, <2>2, <2>3
<1>7. CASE i \notin Round!Unfinished
  <2>1. Round!Unread = {}
    BY <1>4, <1>7
  <2>2. ~output[i].open
    BY <1>1, <1>7 DEF Round!Unfinished, ResponsesKeeps
  <2>3. Got(i) = Round!Final(i)
    BY <1>3, <1>5, <2>2, GotAll
  <2> QED BY <1>1, <1>5, <2>1, <2>3, TextStays
<1> QED BY <1>6, <1>7

(* The end of an answer of the Responses protocol: all of it is said, or it *)
(* is as long as it was when it was cut.                                    *)
Said ==
    /\ Spoken' /\ DOMAIN output' = DOMAIN output /\ Round!Tools' = Round!Tools
    /\ \A i : Round!ToolsBefore(i)' = Round!ToolsBefore(i)
    /\ \A i : Round!Name(i)' = Round!Name(i)
    /\ said = "no" /\ said' # "cutting" => \A i \in DOMAIN output : Round!Final(i)' = Round!Final(i)

LEMMA SaysRest ==
    ASSUME Spoken, NEW reason, Round!ResponsesEnd(reason)
    PROVE  Said
<1> DEFINE r(i) == IF said = "no" THEN [output[i] EXCEPT !.sent = output[i].want] ELSE output[i]
<1>1. output' = [i \in DOMAIN output |-> r(i)] /\ backend' = backend /\ style' = style
  BY DEF Round!ResponsesEnd, Round!connection
<1>2. ASSUME NEW i \in DOMAIN output
      PROVE  r(i) \in Item /\ r(i).kind = output[i].kind /\ r(i).want = output[i].want /\ r(i).sent <= r(i).want
  <2>1. output[i] \in Item /\ output[i].sent <= output[i].want
    BY DEF Spoken
  <2>2. output[i].want \in Nat /\ output[i].sent \in Nat
    BY <2>1 DEF Item
  <2>3. CASE said = "no"
    <3>1. r(i) = [output[i] EXCEPT !.sent = output[i].want]
      BY <2>3
    <3> HIDE DEF r
    <3>2. r(i).kind = output[i].kind /\ r(i).want = output[i].want /\ r(i).sent = output[i].want /\ r(i) \in Item
      BY <2>1, <2>2, <3>1 DEF Item
    <3> QED BY <2>2, <3>2
  <2>4. CASE said # "no"
    BY <2>1, <2>4
  <2> QED BY <2>3, <2>4
<1> HIDE DEF r
<1>3. DOMAIN output' = DOMAIN output /\ \A i \in DOMAIN output : output'[i] = r(i)
  BY <1>1
<1>4. Round!Tools' = Round!Tools
  BY <1>2, <1>3 DEF Round!Tools
<1>5. \A i : Round!ToolsBefore(i)' = Round!ToolsBefore(i)
  BY <1>4 DEF Round!ToolsBefore
<1>6. Spoken'
  <2>1. output' \in Seq(Item)
    <3>1. Len(output) \in Nat /\ DOMAIN output = 1 .. Len(output)
      BY Numbering
    <3>2. output' = [i \in 1 .. Len(output) |-> r(i)] /\ \A i \in 1 .. Len(output) : r(i) \in Item
      BY <1>1, <1>2, <3>1
    <3> QED BY <3>1, <3>2
  <2>2. \A i \in DOMAIN output' : output'[i].sent <= output'[i].want
    BY <1>2, <1>3
  <2>3. \A i, j \in DOMAIN output' : output'[i].kind = "text" /\ output'[j].kind = "text" => i = j
    BY <1>2, <1>3 DEF Spoken
  <2> QED BY <1>1, <1>4, <1>5, <2>1, <2>2, <2>3 DEF Spoken
<1>7. ASSUME said = "no", said' # "cutting", NEW i \in DOMAIN output PROVE Round!Final(i)' = Round!Final(i)
  <2>1. output'[i].kind = output[i].kind /\ output'[i].want = output[i].want
    BY <1>2, <1>3
  <2> QED BY <1>7, <2>1 DEF Round!Final, Round!Fragments, Round!NoArguments
<1>8. \A i : Round!Name(i)' = Round!Name(i)
  BY DEF Round!Name
<1> QED BY <1>3, <1>4, <1>5, <1>6, <1>7, <1>8 DEF Said

LEMMA ResponsesEndKeeps ==
    ASSUME Spoken, InProgress, reading = "reading", NEW reason \in {"stop", "tool_calls"} \cup CutReasons,
           Round!ResponsesEnd(reason)
    PROVE  RoundInv'
<1>1. /\ backend = "responses" /\ fault = "none" /\ (reason \in CutReasons => said = "cutting")
      /\ reason \in {"stop", "tool_calls"} => said = "no"
      /\ IF reason \in {"stop", "tool_calls", "length"} /\ ~Round!Refused(Left)
         THEN /\ calls' = Round!PushAll(calls, Left)
              /\ text' = text \o (IF Round!Unread = {} THEN <<>> ELSE Round!Words(CHOOSE i \in Round!Unread : TRUE))
              /\ finish' = reason /\ reading' = "ended"
         ELSE reading' = "refused"
      /\ said' = reason /\ fault' = fault
  BY DEF Round!ResponsesEnd, Left
<1>2. Said
  BY SaysRest
<1>3. Spoken'
  BY <1>2 DEF Said
<1>4. CASE reason \in CutReasons
  <2>1. reading' = "refused" \/ (reading' = "ended" /\ finish' = reason)
    BY <1>1
  <2>2. CASE reading' = "refused"
    BY <1>1, <1>3, <1>4, <2>2, Stops
  <2>3. CASE reading' = "ended" /\ finish' = reason
    BY <1>1, <1>3, <1>4, <2>3 DEF RoundInv, Round!WholeRoundsAccepted
  <2> QED BY <2>1, <2>2, <2>3
<1>5. CASE reason \in {"stop", "tool_calls"}
  <2>1. said = "no" /\ ~Round!Refused(Left)
    BY <1>1, <1>5, LeftTaken
  <2>2. /\ calls' = Round!PushAll(calls, Left)
        /\ text' = text \o (IF Round!Unread = {} THEN <<>> ELSE Round!Words(CHOOSE i \in Round!Unread : TRUE))
        /\ finish' = reason /\ reading' = "ended"
    BY <1>1, <1>5, <2>1
  <2>3. /\ DOMAIN calls' = 0 .. (Cardinality(Round!Tools) - 1)
        /\ \A i \in Round!Tools : calls'[Round!ToolsBefore(i)] = [id |-> Round!Name(i), args |-> Round!Final(i)]
    BY <1>1, <2>1, <2>2, LeftPushed
  <2>4. \A i \in DOMAIN output \ Round!Tools : text' = Round!Final(i)
    BY <1>1, <2>1, <2>2, LeftSaid
  <2>5. /\ DOMAIN output' = DOMAIN output /\ Round!Tools' = Round!Tools
        /\ \A i : Round!ToolsBefore(i)' = Round!ToolsBefore(i) /\ Round!Name(i)' = Round!Name(i)
        /\ \A i \in DOMAIN output : Round!Final(i)' = Round!Final(i)
    BY <1>1, <1>2, <1>5, <2>1 DEF Said
  <2>6. Round!Tools \subseteq DOMAIN output
    BY DEF Round!Tools
  <2>7. Complete'
    BY <1>1, <1>5, <2>3, <2>4, <2>5, <2>6 DEF Complete
  <2> QED BY <1>1, <1>3, <1>5, <2>2, <2>7 DEF RoundInv, Round!WholeRoundsAccepted
<1> QED BY <1>4, <1>5

(* Nothing is said yet: the first attempt, and every other.                 *)
Silent ==
    /\ reading = "reading" /\ output = <<>> /\ said = "no" /\ fault = "none" /\ finishSeen = FALSE
    /\ indices = <<>> /\ hasInput = {} /\ items = <<>> /\ calls = <<>> /\ text = <<>> /\ finish = "no"
    /\ backend \in {"openai", "claude", "responses"} /\ style \in {"once", "repeated", "growing"}
    /\ backend # "openai" => style = "once"

LEMMA SilentHolds == Silent => RoundInv
<1> SUFFICES ASSUME Silent PROVE RoundInv
  OBVIOUS
<1>1. DOMAIN output = {} /\ DOMAIN items = {} /\ DOMAIN calls = {} /\ DOMAIN indices = {} /\ Met = {}
  BY DEF Silent, Met
<1>2. Round!Tools = {}
  BY <1>1 DEF Round!Tools
<1>3. Cardinality(Round!Tools) = 0 /\ 0 <= MaxTools
  BY <1>2, FS_EmptySet, RoundsAssumption
<1>4. Spoken
  <2>1. output \in Seq(Item)
    BY DEF Silent
  <2>2. {Round!ToolsBefore(i) : i \in Round!Tools} = 0 .. (Cardinality(Round!Tools) - 1)
    <3>1. 0 .. (0 - 1) = {}
      OBVIOUS
    <3> QED BY <1>2, <1>3, <3>1
  <2> QED BY <1>1, <2>1, <2>2 DEF Silent, Spoken
<1>5. Honest
  BY <1>3 DEF Silent, Honest
<1>6. KeptSoFar
  BY <1>1, <1>2 DEF Silent, KeptSoFar
<1>7. OpenaiKeeps /\ ClaudeKeeps /\ ResponsesKeeps
  BY <1>1, <1>2 DEF Silent, OpenaiKeeps, ClaudeKeeps, ResponsesKeeps
<1> QED BY <1>4, <1>5, <1>6, <1>7 DEF Silent, RoundInv, InProgress, Round!WholeRoundsAccepted

LEMMA RecoversSilent ==
    ASSUME RoundInv, Round!Recovers
    PROVE  Silent'
BY DEF RoundInv, Spoken, Round!Recovers, Round!Nothing, Silent

LEMMA InitSilent ==
    ASSUME Styles \subseteq {"once", "repeated", "growing"}, Round!Init
    PROVE  Silent
BY RoundsAssumption DEF Round!Init, Round!Nothing, Silent

LEMMA ReadingKeeps ==
    ASSUME RoundInv, Round!Next, ~Silent'
    PROVE  RoundInv'
<1>1. CASE \E kind \in {"text", "tool"}, want \in 0 .. MaxFragments : Round!Starts(kind, want)
  <2>1. PICK kind \in {"text", "tool"}, want \in 0 .. MaxFragments : Round!Starts(kind, want)
    BY <1>1
  <2>2. reading = "reading"
    BY <2>1 DEF Round!Starts, Round!ClaudeStart, Round!OpenaiStart, Round!ResponsesStart, Round!NewItem,
                Round!Speaking, Round!Reading
  <2>3. Spoken /\ InProgress
    BY <2>2 DEF RoundInv
  <2> QED BY <2>1, <2>2, <2>3, ClaudeStartKeeps, OpenaiStartKeeps, ResponsesStartKeeps DEF Round!Starts
<1>2. CASE \E i \in DOMAIN output : Round!Item(i)
  <2>1. PICK i \in DOMAIN output : Round!Item(i)
    BY <1>2
  <2>2. reading = "reading"
    BY <2>1 DEF Round!Item, Round!ClaudeDelta, Round!OpenaiDelta, Round!ResponsesDelta, Round!ResponsesPartDone,
                Round!ResponsesItemDone, Round!ClaudeStop, Round!Sends, Round!Speaking, Round!Reading
  <2>3. Spoken /\ InProgress
    BY <2>2 DEF RoundInv
  <2> QED BY <2>1, <2>2, <2>3, ClaudeDeltaKeeps, OpenaiDeltaKeeps, ResponsesDeltaKeeps, ResponsesPartDoneKeeps,
             ResponsesItemDoneKeeps, ClaudeStopKeeps DEF Round!Item
<1>3. CASE Round!Cut \/ Round!Marker \/ Round!BreaksOff \/ Round!RepetitionStop \/ Round!Cancelled
  <2>1. reading = "reading"
    BY <1>3 DEF Round!Cut, Round!Marker, Round!BreaksOff, Round!RepetitionStop, Round!Cancelled,
                Round!Speaking, Round!Reading
  <2>2. Spoken /\ InProgress
    BY <2>1 DEF RoundInv
  <2> QED BY <1>3, <2>1, <2>2, CutKeeps, MarkerKeeps, BreaksOffKeeps
<1>4. CASE \E reason \in {"stop", "tool_calls"} \cup CutReasons : Round!Says(reason) \/ Round!ResponsesEnd(reason)
  <2>1. PICK reason \in {"stop", "tool_calls"} \cup CutReasons : Round!Says(reason) \/ Round!ResponsesEnd(reason)
    BY <1>4
  <2>2. reading = "reading"
    BY <2>1 DEF Round!Says, Round!ResponsesEnd, Round!Reading
  <2>3. Spoken /\ InProgress
    BY <2>2 DEF RoundInv
  <2> QED BY <2>1, <2>2, <2>3, SaysKeeps, ResponsesEndKeeps
<1>5. CASE Round!Recovers
  BY <1>5, RecoversSilent
<1>6. CASE Round!Refuses \/ Round!Suppresses \/ Round!Dispatches \/ Round!Answers
  BY <1>6, SettlesKeeps
<1> QED BY <1>1, <1>2, <1>3, <1>4, <1>5, <1>6 DEF Round!Next

LEMMA RoundRests ==
    ASSUME RoundInv, UNCHANGED stream
    PROVE  RoundInv'
<1>1. /\ reading' = reading /\ Still /\ said' = said /\ fault' = fault /\ finishSeen' = finishSeen
      /\ indices' = indices /\ hasInput' = hasInput /\ items' = items /\ calls' = calls /\ text' = text
      /\ finish' = finish /\ reader' = reader
  BY DEF stream, Still
<1>2. /\ Spoken /\ Spoken' /\ Round!Tools' = Round!Tools
  BY <1>1, SpokenStays DEF RoundInv
<1>3. reading' = "reading" => InProgress'
  <2> SUFFICES ASSUME InProgress PROVE InProgress'
    BY <1>1 DEF RoundInv
  <2>1. KeptSoFar' /\ OpenaiKeeps' /\ ClaudeKeeps' /\ ResponsesKeeps'
    BY <1>1, <1>2, KeptStays
  <2>2. \A i : Round!Whole(i)' = Round!Whole(i)
    BY <1>1 DEF Round!Whole, Still
  <2>3. Honest'
    BY <1>1, <1>2, <2>2 DEF InProgress, Honest, Still
  <2> QED BY <2>1, <2>3 DEF InProgress
<1>4. Complete => Complete'
  BY <1>1, <1>2, CompleteStays
<1>5. \A i : Round!Final(i)' = Round!Final(i)
  BY <1>1 DEF Still, Round!Final, Round!Fragments, Round!NoArguments
<1>6. output' = output
  BY <1>1 DEF Still
<1>7. Round!WholeRoundsAccepted'
  BY <1>1, <1>2, <1>5, <1>6 DEF RoundInv, Round!WholeRoundsAccepted
<1> QED BY <1>1, <1>2, <1>3, <1>4, <1>7 DEF RoundInv

LEMMA RoundsOrNot ==
    ASSUME [AccessNext]_everything PROVE Round!Next \/ UNCHANGED stream
BY DEF AccessNext, LockStep, SourceStep, LoginStep, InputStep, SlotStep, StreamStep, Rests, everything

(* Calls run only from an answer that the provider finished, and are all of *)
(* it; a finished answer is never refused, and its text is taken once: for  *)
(* every server that says a name once, repeats it, or lets it grow.         *)
THEOREM RoundsAreWhole ==
    ASSUME Styles \subseteq {"once", "repeated", "growing"}
    PROVE  AccessSpec => []WholeRounds
<1>1. AccessInit => Silent
  BY InitSilent DEF AccessInit
<1>2. RoundInv /\ [AccessNext]_everything => RoundInv' \/ Silent'
  BY ReadingKeeps, RoundRests, RoundsOrNot
<1>3. RoundInv => WholeRounds
  BY RoundCardinality DEF RoundInv, Complete, WholeRounds, Round!WholeRounds, Round!OnlyWholeRounds
<1> QED BY <1>1, <1>2, <1>3, SilentHolds, PTL DEF AccessSpec

=============================================================================
