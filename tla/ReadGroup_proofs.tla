-------------------------- MODULE ReadGroup_proofs --------------------------
(***************************************************************************)
(* The calls of a response, proved for every number of calls, size of a    *)
(* group and set of keys: dispatching reads ahead of their turn runs no    *)
(* call twice, passes no barrier, repeats no uncertain outcome and leaves  *)
(* nothing unsettled.                                                      *)
(***************************************************************************)
EXTENDS ReadGroup, FiniteSetTheorems, SequenceTheorems, TLAPS

Entry(c) == prefetched[c] # "none"
Working == pc \notin Ended

(* The first call the tail has not answered. *)
Pos == IF pc \in {"next", "done"} THEN index + 1 ELSE index

Row == [call : Calls, label : Labels]

Types ==
    /\ batch \in Batches
    /\ recent \in Seq(Keys) /\ Len(recent) <= 2 /\ blocked \in SUBSET Keys
    /\ index \in 0..Size /\ pc \in Places
    /\ pc # "next" => index >= 1
    /\ pc = "done" => index = Size
    /\ prefetched \in [Calls -> {"none", "queued", "flying"} \cup Outcomes]
    /\ rows \in Seq(Row) /\ open \in SUBSET Calls
    /\ denied \in BOOLEAN
    /\ control \in [cancel : BOOLEAN, wake : BOOLEAN, pause : BOOLEAN]
    /\ ran \in [Calls -> 0..1] /\ came \in [Calls -> {"none", "flying"} \cup Outcomes]

(* What is answered: the calls before the one in hand, and no other. *)
AnsweredBefore == \A c \in Calls : c < Pos => Answered(c)
NoneAhead == Working => \A i \in DOMAIN rows : rows[i].call < Pos

(* The members ahead are reads and stand in a row from the call in hand. *)
Contiguous ==
    Working => \A c \in Calls : c >= Pos /\ Entry(c) =>
                   batch[c].read /\ \A d \in Calls : Pos <= d /\ d < c => Entry(d)

(* Members run while the loop waits for their group, and for those that    *)
(* have not run nothing in this turn speaks against it.                    *)
GroupOnly ==
    \A c \in Calls : prefetched[c] \in {"queued", "flying"} =>
        pc = "group" /\ c >= index /\ (prefetched[c] = "queued" => batch[c].key \notin blocked)

(* What the gates have seen of a call that is past them. *)
Passed ==
    /\ pc \in {"group", "approval", "sent", "tool"} => ~denied
    /\ pc \in {"approval", "sent"} /\ ~Entry(index) => batch[index].key \notin blocked
    /\ pc = "approval" => batch[index].rule = "ask"
    /\ pc = "tool" => ~Entry(index)

(* A call ahead has run only as a member. *)
NotRunYet ==
    Working => \A c \in Calls :
        c >= Pos /\ prefetched[c] \in {"none", "queued"} /\ ~(pc = "tool" /\ c = index) => ran[c] = 0

(* An entry that was passed over is one a hook hid, or comes after a denial *)
(* by a rule; without rules on reads a denial meets no entry.              *)
Leftover == \A c \in Calls : c < Pos /\ Entry(c) => Hooked(c) \/ (denied /\ RuledReads)
DeniedIsLast == Working /\ ~RuledReads /\ denied => \A c \in Calls : c >= Pos => ~Entry(c)

(* A member ahead is no repetition when its turn comes. *)
NoRepetition ==
    Working /\ ~denied =>
        \A c \in Calls : c >= Pos /\ Entry(c) /\ ~Hooked(c) =>
            ~Repeats(Simulated(Pos, c), batch[c].key)

(* An uncertain outcome blocks its like as soon as it is taken. *)
UncertainKnown ==
    Working => \A d \in Calls : came[d] = "uncertain" =>
        \/ Hooked(d) \/ denied \/ batch[d].key \in blocked
        \/ d >= Pos /\ prefetched[d] = "uncertain"

(* Only the row of the call in hand streams, and while it is not sent it    *)
(* streams for a member.                                                   *)
OnlyHand ==
    ~RuledReads =>
        /\ pc # "gone" => open \subseteq {index}
        /\ pc \in {"group", "tail", "approval"} => \A c \in open : Entry(c)
        /\ pc \in {"next"} \cup (Ended \ {"gone"}) => open = {}

(* A loop that left early has settled everything. *)
AllSettled ==
    pc \in {"stopped", "paused", "cancelled"} =>
        \A c \in Calls : ~Entry(c) /\ (ran[c] > 0 => Answered(c))

IInv ==
    /\ Types /\ AnsweredBefore /\ NoneAhead /\ Contiguous /\ GroupOnly /\ Passed /\ NotRunYet
    /\ Leftover /\ DeniedIsLast /\ NoRepetition /\ UncertainKnown /\ OnlyHand /\ AllSettled

-----------------------------------------------------------------------------
(* Operators. *)

LEMMA CallsFinite == IsFiniteSet(Calls) /\ Calls \subseteq Nat \ {0}
BY FS_Interval, ReadGroupAssumption DEF Calls

(* The rank of a call in a set of calls. *)
Rank(S, c) == Cardinality({d \in S : d <= c})

LEMMA RankIsInjective ==
    ASSUME NEW S \in SUBSET Calls
    PROVE  /\ IsFiniteSet(S) /\ Cardinality(S) \in Nat
           /\ \A c \in S : Rank(S, c) \in 1..Cardinality(S)
           /\ \A c, d \in S : Rank(S, c) = Rank(S, d) => c = d
<1>1. IsFiniteSet(S) /\ S \subseteq Nat
  BY CallsFinite, FS_Subset
<1>2. Cardinality(S) \in Nat
  BY <1>1, FS_CardinalityType
<1> DEFINE Upto(c) == {d \in S : d <= c}
<1>3. \A c \in S : /\ Upto(c) \in SUBSET S /\ IsFiniteSet(Upto(c))
                   /\ Rank(S, c) = Cardinality(Upto(c)) /\ Rank(S, c) \in Nat
                   /\ Rank(S, c) <= Cardinality(S)
  BY <1>1, FS_Subset, FS_CardinalityType DEF Rank
<1>4. \A c \in S : Rank(S, c) # 0
  <2>1. TAKE c \in S
  <2>2. c \in Upto(c)
    BY <1>1
  <2>3. QED
    BY <1>3, <2>2, FS_EmptySet
<1>5. ASSUME NEW c \in S, NEW d \in S, c < d
      PROVE  Rank(S, c) # Rank(S, d)
  <2>0. \A x \in S : x <= c => x <= d
    BY <1>1, <1>5
  <2>1. Upto(c) \in SUBSET Upto(d)
    BY <2>0
  <2>2. d \in Upto(d) /\ d \notin Upto(c)
    BY <1>1, <1>5
  <2>3. Upto(c) # Upto(d)
    BY <2>2
  <2> HIDE DEF Upto
  <2>4. QED
    BY <1>3, <2>1, <2>3, FS_Subset
<1>6. \A c, d \in S : Rank(S, c) = Rank(S, d) => c = d
  BY <1>1, <1>5
<1>7. \A c \in S : Rank(S, c) \in 1..Cardinality(S)
  <2> HIDE DEF Upto
  <2>1. QED
    BY <1>2, <1>3, <1>4
<1>8. QED
  BY <1>1, <1>2, <1>6, <1>7

(* Every rank is taken. *)
LEMMA RankIsOnto ==
    ASSUME NEW S \in SUBSET Calls
    PROVE  \A i \in 1..Cardinality(S) : \E c \in S : Rank(S, c) = i
<1> DEFINE n == Cardinality(S)
           rank == [c \in S |-> Rank(S, c)]
<1>1. IsFiniteSet(S) /\ n \in Nat
  BY RankIsInjective
<1>2. rank \in [S -> 1..n] /\ \A c, d \in S : rank[c] = rank[d] => c = d
  BY RankIsInjective
<1>3. rank \in Injection(S, 1..n)
  BY <1>2 DEF Injection, IsInjective
<1>4. IsFiniteSet(1..n) /\ Cardinality(1..n) = n
  BY <1>1, FS_Interval
<1>5. rank \in Surjection(S, 1..n)
  BY <1>3, <1>4, FS_Injection
<1>6. \A i \in 1..n : \E c \in S : rank[c] = i
  BY <1>5 DEF Surjection
<1>7. QED
  BY <1>6

(* A set of calls is listed whole. *)
LEMMA ListedIsWhole ==
    ASSUME NEW S \in SUBSET Calls
    PROVE  /\ Listed(S) \in Seq(S)
           /\ \A c \in S : \E i \in 1..Len(Listed(S)) : Listed(S)[i] = c
<1>1. Cardinality(S) \in Nat
  BY RankIsInjective
<1>2. Listed(S) = [i \in 1..Cardinality(S) |-> CHOOSE c \in S : Rank(S, c) = i]
  BY DEF Listed, Rank
<1>3. \A i \in 1..Cardinality(S) : (CHOOSE c \in S : Rank(S, c) = i) \in S
  BY RankIsOnto
<1>4. Listed(S) \in Seq(S) /\ Len(Listed(S)) = Cardinality(S)
  BY <1>1, <1>2, <1>3
<1>5. ASSUME NEW c \in S
      PROVE  Rank(S, c) \in 1..Cardinality(S) /\ Listed(S)[Rank(S, c)] = c
  BY <1>2, RankIsInjective
<1>6. QED
  BY <1>4, <1>5

(* What is settled: the log as it was, and a row for every entry. *)
LEMMA SettledIsWhole ==
    ASSUME NEW log \in Seq(Row), NEW entries \in [Calls -> {"none"} \cup Labels]
    PROVE  /\ Settled(log, entries) \in Seq(Row)
           /\ \A i \in DOMAIN log : /\ i \in DOMAIN Settled(log, entries)
                                   /\ Settled(log, entries)[i] = log[i]
           /\ \A c \in Calls : entries[c] # "none" =>
                  \E i \in DOMAIN Settled(log, entries) : Settled(log, entries)[i].call = c
<1> DEFINE S == {c \in Calls : entries[c] # "none"}
           left == Listed(S)
           more == [i \in DOMAIN left |-> [call |-> left[i], label |-> entries[left[i]]]]
<1>1. /\ left \in Seq(S)
      /\ \A c \in S : \E i \in 1..Len(left) : left[i] = c
  BY ListedIsWhole
<1>2. \A c \in S : c \in Calls /\ entries[c] \in Labels
  OBVIOUS
<1>3. Settled(log, entries) = log \o more
  BY DEF Settled
<1> HIDE DEF S
<1> HIDE DEF left
<1>4. DOMAIN left = 1..Len(left) /\ Len(left) \in Nat
  BY <1>1
<1>5. \A i \in 1..Len(left) : left[i] \in S
  BY <1>1
<1>6. \A i \in 1..Len(left) : more[i] = [call |-> left[i], label |-> entries[left[i]]] /\ more[i] \in Row
  BY <1>2, <1>4, <1>5 DEF Row
<1>7. DOMAIN more = 1..Len(left)
  BY <1>4
<1>8. more \in Seq(Row) /\ Len(more) = Len(left)
  BY <1>4, <1>6, <1>7
<1> HIDE DEF more
<1>9. /\ log \o more \in Seq(Row) /\ DOMAIN (log \o more) = 1..(Len(log) + Len(more))
      /\ \A i \in 1..Len(log) : (log \o more)[i] = log[i]
      /\ \A i \in 1..Len(more) : (log \o more)[Len(log) + i] = more[i]
  BY <1>8
<1>10. ASSUME NEW c \in Calls, entries[c] # "none"
       PROVE  \E i \in DOMAIN (log \o more) : (log \o more)[i].call = c
  <2>1. PICK i \in 1..Len(left) : left[i] = c
    BY <1>1, <1>10 DEF S
  <2>2. more[i].call = c
    <3>1. more[i] = [call |-> left[i], label |-> entries[left[i]]]
      BY <1>6, <2>1
    <3>2. QED
      BY <2>1, <3>1
  <2>3. Len(log) + i \in DOMAIN (log \o more) /\ (log \o more)[Len(log) + i] = more[i]
    BY <1>4, <1>8, <1>9
  <2>4. QED
    BY <2>2, <2>3
<1>11. \A i \in DOMAIN log : i \in DOMAIN (log \o more) /\ (log \o more)[i] = log[i]
  BY <1>8, <1>9
<1>12. QED
  BY <1>3, <1>9, <1>10, <1>11

(* Of a history of three and more, the last two count. *)
LEMMA LastTwoType ==
    ASSUME NEW h \in Seq(Keys)
    PROVE  LastTwo(h) \in Seq(Keys) /\ Len(LastTwo(h)) <= 2
BY DEF LastTwo

LEMMA LastTwoOfLong ==
    ASSUME NEW h \in Seq(Keys), NEW n \in Nat, Len(h) = n, n > 2
    PROVE  LastTwo(h) = <<h[n - 1], h[n]>>
<1> DEFINE last == SubSeq(h, n - 1, n)
<1>1. LastTwo(h) = last
  BY DEF LastTwo
<1>2. \A i \in (n - 1)..n : i \in 1..Len(h)
  OBVIOUS
<1>3. \A i \in (n - 1)..n : h[i] \in Keys
  BY <1>2, ElementOfSeq
<1>4. n - 1 \in Int /\ n \in Int
  OBVIOUS
<1>5. /\ last \in Seq(Keys)
      /\ Len(last) = IF n - 1 <= n THEN n - (n - 1) + 1 ELSE 0
      /\ \A i \in 1..(n - (n - 1) + 1) : last[i] = h[n - 1 + i - 1]
  BY <1>3, <1>4, SubSeqProperties
<1> HIDE DEF last
<1>6. Len(last) = 2 /\ last[1] = h[n - 1] /\ last[2] = h[n]
  BY <1>5
<1>7. last = <<h[n - 1], h[n]>>
  BY <1>5, <1>6
<1>8. QED
  BY <1>1, <1>7

LEMMA RepeatsLast ==
    ASSUME NEW h \in Seq(Keys), NEW k \in Keys, NEW n \in Nat, Len(h) = n
    PROVE  Repeats(LastTwo(h), k) <=> k \notin Polls /\ n >= 2 /\ h[n] = k /\ h[n - 1] = k
<1>1. CASE n < 2
  BY <1>1 DEF Repeats, LastTwo
<1>2. CASE n = 2
  BY <1>2 DEF Repeats, LastTwo
<1>3. CASE n > 2
  BY <1>3, LastTwoOfLong DEF Repeats
<1>4. n < 2 \/ n = 2 \/ n > 2
  OBVIOUS
<1>5. QED
  BY <1>1, <1>2, <1>3, <1>4, Zenon

(* The last elements of a concatenation. *)
LEMMA ConcatEnd ==
    ASSUME NEW h \in Seq(Keys), NEW t \in Seq(Keys), NEW m \in Nat, NEW n \in Nat,
           Len(h) = m, Len(t) = n, m >= 1, n >= 1
    PROVE  /\ h \o t \in Seq(Keys) /\ Len(h \o t) = m + n
           /\ (h \o t)[m + n] = t[n]
           /\ (h \o t)[m + n - 1] = IF n = 1 THEN h[m] ELSE t[n - 1]
<1>1. /\ h \o t \in Seq(Keys) /\ Len(h \o t) = Len(h) + Len(t)
      /\ \A i \in 1..(Len(h) + Len(t)) : (h \o t)[i] = IF i <= Len(h) THEN h[i] ELSE t[i - Len(h)]
  BY ConcatProperties, Zenon
<1>2. /\ h \o t \in Seq(Keys) /\ Len(h \o t) = m + n
      /\ \A i \in 1..(m + n) : (h \o t)[i] = IF i <= m THEN h[i] ELSE t[i - m]
  BY <1>1
<1> DEFINE v == h \o t
<1> HIDE DEF v
<1>3. \A i \in 1..(m + n) : v[i] = IF i <= m THEN h[i] ELSE t[i - m]
  BY <1>2 DEF v
<1>4. v[m + n] = t[n]
  BY <1>3
<1>5. CASE n = 1
  BY <1>2, <1>3, <1>4, <1>5 DEF v
<1>6. CASE n > 1
  <2>1. v[m + n - 1] = t[n - 1]
    BY <1>3, <1>6
  <2>2. QED
    BY <1>2, <1>4, <1>6, <2>1 DEF v
<1>7. QED
  BY <1>5, <1>6

(* A history cut before it goes on ends as the whole one does. *)
LEMMA LastTwoOfMore ==
    ASSUME NEW h \in Seq(Keys), NEW t \in Seq(Keys)
    PROVE  LastTwo(LastTwo(h) \o t) = LastTwo(h \o t)
<1>1. PICK m \in Nat : Len(h) = m
  BY LenProperties
<1>2. PICK n \in Nat : Len(t) = n
  BY LenProperties
<1>3. CASE m <= 2
  BY <1>1, <1>3 DEF LastTwo
<1>4. CASE m > 2 /\ n = 0
  <2>1. t = << >>
    BY <1>2, <1>4
  <2>2. LastTwo(h) = <<h[m - 1], h[m]>>
    BY <1>1, <1>4, LastTwoOfLong
  <2>3. LastTwo(h) \in Seq(Keys) /\ Len(LastTwo(h)) = 2
    BY <2>2, LastTwoType
  <2>4. LastTwo(LastTwo(h)) = LastTwo(h)
    BY <2>3 DEF LastTwo
  <2>5. QED
    BY <2>1, <2>3, <2>4, ConcatEmptySeq
<1>5. CASE m > 2 /\ n > 0
  <2> DEFINE g == LastTwo(h)
  <2>0. /\ m >= 1 /\ n >= 1 /\ 2 \in Nat /\ 2 >= 1
        /\ 2 + n \in Nat /\ 2 + n > 2 /\ m + n \in Nat /\ m + n > 2
    BY <1>5
  <2>1. g = <<h[m - 1], h[m]>> /\ g \in Seq(Keys) /\ Len(g) = 2
    BY <1>1, <1>5, LastTwoOfLong, LastTwoType
  <2>2. g[2] = h[m]
    BY <2>1
  <2> HIDE DEF g
  <2>3. /\ g \o t \in Seq(Keys) /\ Len(g \o t) = 2 + n
        /\ (g \o t)[2 + n] = t[n]
        /\ (g \o t)[2 + n - 1] = IF n = 1 THEN g[2] ELSE t[n - 1]
    BY <1>2, <2>0, <2>1, ConcatEnd
  <2>4. /\ h \o t \in Seq(Keys) /\ Len(h \o t) = m + n
        /\ (h \o t)[m + n] = t[n]
        /\ (h \o t)[m + n - 1] = IF n = 1 THEN h[m] ELSE t[n - 1]
    BY <1>1, <1>2, <2>0, ConcatEnd
  <2> DEFINE u == g \o t
             v == h \o t
  <2>5. u \in Seq(Keys) /\ Len(u) = 2 + n /\ v \in Seq(Keys) /\ Len(v) = m + n
    BY <2>3, <2>4
  <2>6. u[2 + n - 1] = v[m + n - 1] /\ u[2 + n] = v[m + n]
    BY <2>2, <2>3, <2>4
  <2> HIDE DEF u, v
  <2>7. LastTwo(u) = <<u[2 + n - 1], u[2 + n]>>
    BY <2>0, <2>5, LastTwoOfLong
  <2>8. LastTwo(v) = <<v[m + n - 1], v[m + n]>>
    BY <2>0, <2>5, LastTwoOfLong
  <2>9. QED
    BY <2>6, <2>7, <2>8 DEF g, u, v
<1>6. QED
  BY <1>3, <1>4, <1>5

-----------------------------------------------------------------------------
(* What the steps have in common. *)

(* Outside a group no member is under way, so what is left can be settled. *)
LEMMA EntriesAreOutcomes ==
    ASSUME Types, GroupOnly, pc # "group"
    PROVE  /\ prefetched \in [Calls -> {"none"} \cup Outcomes]
           /\ prefetched \in [Calls -> {"none"} \cup Labels]
           /\ [prefetched EXCEPT ![index] = "none"] \in [Calls -> {"none"} \cup Labels]
<1>1. \A c \in Calls : prefetched[c] \notin {"queued", "flying"}
  BY DEF GroupOnly
<1>2. prefetched \in [Calls -> {"none"} \cup Outcomes]
  BY <1>1 DEF Types
<1>3. QED
  BY <1>2 DEF Labels

(* A finished call is answered: its row stands after those before it. *)
LEMMA Appended ==
    ASSUME NEW log \in Seq(Row), NEW row \in Row
    PROVE  /\ Append(log, row) \in Seq(Row)
           /\ \A i \in DOMAIN log : i \in DOMAIN Append(log, row) /\ Append(log, row)[i] = log[i]
           /\ \E i \in DOMAIN Append(log, row) : Append(log, row)[i] = row
           /\ \A i \in DOMAIN Append(log, row) :
                  Append(log, row)[i] = row \/ (i \in DOMAIN log /\ Append(log, row)[i] = log[i])
<1> DEFINE more == Append(log, row)
<1>1. more \in Seq(Row) /\ DOMAIN more = 1..(Len(log) + 1) /\ Len(log) \in Nat
  BY LenProperties
<1>2. more[Len(log) + 1] = row /\ \A i \in 1..Len(log) : more[i] = log[i]
  OBVIOUS
<1>3. DOMAIN log = 1..Len(log)
  OBVIOUS
<1> HIDE DEF more
<1>4. /\ \A i \in DOMAIN log : i \in DOMAIN more /\ more[i] = log[i]
      /\ \E i \in DOMAIN more : more[i] = row
      /\ \A i \in DOMAIN more : more[i] = row \/ (i \in DOMAIN log /\ more[i] = log[i])
  BY <1>1, <1>2, <1>3
<1>5. QED
  BY <1>1, <1>4 DEF more

LEMMA KeyType ==
    ASSUME Types, NEW c \in Calls
    PROVE  batch[c] \in Call /\ batch[c].key \in Keys
BY DEF Types, Batches, Call

LEMMA RecordedType ==
    ASSUME Types, NEW c \in Calls
    PROVE  /\ Recorded(recent, batch[c].key) \in Seq(Keys)
           /\ Len(Recorded(recent, batch[c].key)) <= 2
<1>1. Append(recent, batch[c].key) \in Seq(Keys)
  BY KeyType DEF Types
<1>2. QED
  BY <1>1, LastTwoType DEF Recorded

RowsOnly(log) == \A i \in DOMAIN rows : i \in DOMAIN log /\ log[i] = rows[i]

(* The call in hand has got a row, and no other call has. *)
Finishes(label) ==
    /\ label \in Labels /\ index \in Calls /\ index' = index
    /\ rows' = Append(rows, [call |-> index, label |-> label])

LEMMA FinishedRow ==
    ASSUME Types, NEW label, Finishes(label)
    PROVE  /\ rows' \in Seq(Row) /\ RowsOnly(rows')
           /\ \E i \in DOMAIN rows' : rows'[i].call = index /\ rows'[i].label = label
           /\ \A i \in DOMAIN rows' :
                  rows'[i].call = index \/ (i \in DOMAIN rows /\ rows'[i] = rows[i])
<1>1. [call |-> index, label |-> label] \in Row
  BY DEF Finishes, Row
<1>2. rows \in Seq(Row)
  BY DEF Types
<1>3. QED
  BY <1>1, <1>2, Appended DEF Finishes, RowsOnly

(* The steps after which the loop goes to its next call. *)
Finishing ==
    \/ Refuse \/ RuleDenies \/ AnswerDenied \/ UserDenies \/ HookBlocks \/ Repetition
    \/ ToolReturns \/ (Consume /\ prefetched[index] # "interrupted")

(* Those with which it leaves early. *)
Leaving ==
    \/ StopAtCall \/ PauseAtCall \/ ApprovalInterrupted \/ ToolInterrupted
    \/ (Consume /\ prefetched[index] = "interrupted")

(* Those of the members, those of the tail that finish nothing, and those   *)
(* outside the turn.                                                       *)
MemberStep ==
    \E c \in Calls : \/ MemberStarts(c) \/ MemberRefused(c) \/ MemberBlocked(c)
                     \/ MemberReturns(c) \/ MemberInterrupted(c)
TailStep == GroupReturns \/ Admit \/ Ask \/ UserAllows \/ Dispatch
ControlStep == UserPauses \/ UserStops \/ OtherTurnBegins

LEMMA KindsOfSteps ==
    ASSUME Next
    PROVE  \/ NextCall \/ MemberStep \/ TailStep \/ Finishing \/ Leaving
           \/ InterfaceGone \/ BatchDone \/ ControlStep
BY DEF Next, MemberStep, TailStep, Finishing, Leaving, ControlStep

LEMMA FinishingFacts ==
    ASSUME Types, GroupOnly, Finishing
    PROVE  /\ \E label \in Labels : Finishes(label)
           /\ pc' = "next" /\ pc \in {"tail", "approval", "sent", "tool"}
           /\ index' = index /\ index \in Calls /\ Pos = index /\ Pos' = index + 1
           /\ batch' = batch /\ ran' = ran
           /\ blocked \subseteq blocked' /\ (denied => denied')
           /\ \A c \in Calls : c # index => prefetched'[c] = prefetched[c] /\ came'[c] = came[c]
<1>1. index \in Calls /\ pc \in {"tail", "approval", "sent", "tool"}
  BY DEF Finishing, Refuse, RuleDenies, AnswerDenied, UserDenies, HookBlocks, Repetition,
         ToolReturns, Consume, Runs, Goes, Types, Calls
<1>2. prefetched[index] \in {"none"} \cup Labels
  BY <1>1, EntriesAreOutcomes
<1>3. CASE Refuse
  BY <1>1, <1>3 DEF Refuse, Finish, Finishes, Pos, Labels, Outcomes
<1>4. CASE RuleDenies
  BY <1>1, <1>4 DEF RuleDenies, Finishes, Pos, Labels, Types
<1>5. CASE AnswerDenied
  BY <1>1, <1>5 DEF AnswerDenied, Finish, Finishes, Pos, Labels
<1>6. CASE UserDenies
  BY <1>1, <1>6 DEF UserDenies, Finish, Finishes, Pos, Labels
<1>7. CASE HookBlocks
  BY <1>1, <1>7 DEF HookBlocks, Finish, Finishes, Pos, Labels, Outcomes
<1>8. CASE Repetition
  BY <1>1, <1>8 DEF Repetition, Finish, Finishes, Pos, Labels
<1>9. CASE ToolReturns
  BY <1>1, <1>9 DEF ToolReturns, Finish, Finishes, Pos, Labels, Outcomes, Results, Types
<1>10. CASE Consume /\ prefetched[index] # "interrupted"
  BY <1>1, <1>2, <1>10 DEF Consume, Runs, Finish, Finishes, Pos, Labels, Types
<1>11. QED
  BY <1>3, <1>4, <1>5, <1>6, <1>7, <1>8, <1>9, <1>10 DEF Finishing

LEMMA LeavingFacts ==
    ASSUME Types, GroupOnly, Leaving
    PROVE  /\ pc' \in {"stopped", "paused", "cancelled"} /\ pc \in {"tail", "approval", "sent", "tool"}
           /\ index' = index /\ index \in Calls /\ Pos' = index /\ Pos = index
           /\ rows' \in Seq(Row) /\ RowsOnly(rows')
           /\ \A c \in Calls : prefetched'[c] = "none"
           /\ \A c \in Calls : Entry(c) \/ (c = index /\ pc # "tail" /\ pc # "approval") =>
                  \E i \in DOMAIN rows' : rows'[i].call = c
           /\ batch' = batch /\ blocked' = blocked /\ denied' = denied /\ ran' = ran
<1>1. index \in Calls /\ pc \in {"tail", "approval", "sent", "tool"}
  BY DEF Leaving, StopAtCall, PauseAtCall, ApprovalInterrupted, ToolInterrupted, Consume, Runs,
         Types, Calls
<1>2. /\ prefetched \in [Calls -> {"none"} \cup Labels]
      /\ [prefetched EXCEPT ![index] = "none"] \in [Calls -> {"none"} \cup Labels]
  BY <1>1, EntriesAreOutcomes
<1>3. rows \in Seq(Row)
  BY DEF Types
<1> DEFINE row == [call |-> index, label |-> "interrupted"]
           log == Append(rows, row)
<1>4. row \in Row
  BY <1>1 DEF Row, Labels, Outcomes
<1>5. /\ log \in Seq(Row)
      /\ \A i \in DOMAIN rows : i \in DOMAIN log /\ log[i] = rows[i]
      /\ \E i \in DOMAIN log : log[i] = row
  BY <1>3, <1>4, Appended
<1>6. row.call = index
  OBVIOUS
<1> HIDE DEF log, row
<1>7. CASE StopAtCall \/ PauseAtCall \/ ApprovalInterrupted
  <2>1. rows' = Settled(rows, prefetched)
    BY <1>7 DEF StopAtCall, PauseAtCall, ApprovalInterrupted, LeaveSettled
  <2>0. /\ rows' \in Seq(Row)
        /\ \A i \in DOMAIN rows : i \in DOMAIN rows' /\ rows'[i] = rows[i]
        /\ \A c \in Calls : prefetched[c] # "none" => \E i \in DOMAIN rows' : rows'[i].call = c
    <3> DEFINE settled == Settled(rows, prefetched)
    <3>1. /\ settled \in Seq(Row)
          /\ \A i \in DOMAIN rows : i \in DOMAIN settled /\ settled[i] = rows[i]
          /\ \A c \in Calls : prefetched[c] # "none" =>
                 \E i \in DOMAIN settled : settled[i].call = c
      BY <1>2, <1>3, SettledIsWhole, Zenon
    <3> HIDE DEF settled
    <3>2. rows' = settled
      BY <2>1 DEF settled
    <3>3. QED
      BY <3>1, <3>2
  <2>2. /\ rows' \in Seq(Row) /\ RowsOnly(rows')
        /\ \A c \in Calls : Entry(c) => \E i \in DOMAIN rows' : rows'[i].call = c
    BY <2>0 DEF RowsOnly, Entry
  <2>3. QED
    BY <1>1, <1>7, <2>2
       DEF StopAtCall, PauseAtCall, ApprovalInterrupted, LeaveSettled, Pos
<1>8. ASSUME NEW entries \in [Calls -> {"none"} \cup Labels],
             rows' = Settled(log, entries),
             \A c \in Calls : Entry(c) /\ c # index => entries[c] # "none"
      PROVE  /\ rows' \in Seq(Row) /\ RowsOnly(rows')
             /\ \A c \in Calls : Entry(c) \/ c = index =>
                    \E i \in DOMAIN rows' : rows'[i].call = c
  <2>1. /\ rows' \in Seq(Row)
        /\ \A i \in DOMAIN log : i \in DOMAIN rows' /\ rows'[i] = log[i]
        /\ \A c \in Calls : entries[c] # "none" => \E i \in DOMAIN rows' : rows'[i].call = c
    BY <1>5, <1>8, SettledIsWhole
  <2>2. \E i \in DOMAIN rows' : rows'[i].call = index
    BY <1>5, <1>6, <2>1
  <2>3. QED
    BY <1>5, <1>8, <2>1, <2>2 DEF RowsOnly
<1>9. CASE ToolInterrupted
  <2>1. rows' = Settled(log, prefetched)
    BY <1>9 DEF ToolInterrupted, LeaveSettled, log, row
  <2>2. /\ rows' \in Seq(Row) /\ RowsOnly(rows')
        /\ \A c \in Calls : Entry(c) \/ c = index => \E i \in DOMAIN rows' : rows'[i].call = c
    BY <1>2, <1>8, <2>1 DEF Entry
  <2>3. QED
    BY <1>1, <1>9, <2>2 DEF ToolInterrupted, LeaveSettled, Pos
<1>10. CASE Consume /\ prefetched[index] = "interrupted"
  <2>1. rows' = Settled(log, [prefetched EXCEPT ![index] = "none"])
    BY <1>10 DEF Consume, log, row
  <2>2. \A c \in Calls : Entry(c) /\ c # index => [prefetched EXCEPT ![index] = "none"][c] # "none"
    BY <1>2 DEF Entry
  <2>3. /\ rows' \in Seq(Row) /\ RowsOnly(rows')
        /\ \A c \in Calls : Entry(c) \/ c = index => \E i \in DOMAIN rows' : rows'[i].call = c
    BY <1>2, <1>8, <2>1, <2>2
  <2>4. QED
    BY <1>1, <1>10, <2>3 DEF Consume, Pos, Runs
<1>11. QED
  BY <1>7, <1>9, <1>10 DEF Leaving

LEMMA TypesKept ==
    ASSUME Types, GroupOnly, NotRunYet, Passed, Next
    PROVE  Types'
<1>1. CASE NextCall
  <2>1. index' \in 0..Size /\ index' >= 1 /\ index' \in Calls /\ pc' \in {"group", "tail"}
    BY <1>1, ReadGroupAssumption DEF NextCall, Types, Calls
  <2>2. prefetched' \in [Calls -> {"none", "queued", "flying"} \cup Outcomes]
    BY <1>1 DEF NextCall, Types
  <2>3. open' \in SUBSET Calls
    BY <1>1, <2>1 DEF NextCall, Types
  <2>4. UNCHANGED <<batch, recent, blocked, rows, denied, control, ran, came>>
    BY <1>1 DEF NextCall
  <2>5. QED
    BY <2>1, <2>2, <2>3, <2>4 DEF Types, Places
<1>2. CASE MemberStep
  <2>1. PICK c \in Calls : \/ MemberStarts(c) \/ MemberRefused(c) \/ MemberBlocked(c)
                           \/ MemberReturns(c) \/ MemberInterrupted(c)
    BY <1>2 DEF MemberStep
  <2>2. CASE MemberStarts(c)
    <3>1. ran[c] = 0
      BY <2>2 DEF MemberStarts, NotRunYet, GroupOnly, Working, Ended, Pos
    <3>2. ran' \in [Calls -> 0..1] /\ came' \in [Calls -> {"none", "flying"} \cup Outcomes]
      BY <2>2, <3>1 DEF MemberStarts, Send, Types
    <3>3. QED
      BY <2>2, <3>2 DEF MemberStarts, Types
  <2>3. CASE MemberRefused(c) \/ MemberBlocked(c)
    BY <2>3 DEF MemberRefused, MemberBlocked, Types, Outcomes
  <2>4. CASE MemberReturns(c)
    BY <2>4 DEF MemberReturns, Types, Outcomes
  <2>5. CASE MemberInterrupted(c)
    BY <2>5 DEF MemberInterrupted, Types, Outcomes
  <2>6. QED
    BY <2>1, <2>2, <2>3, <2>4, <2>5
<1>3. CASE TailStep
  <2>1. CASE GroupReturns \/ Ask
    BY <2>1 DEF GroupReturns, Ask, Goes, Types, Places
  <2>2. CASE Admit \/ UserAllows
    <3>1. index \in Calls /\ pc' = "sent" /\ open' = open \cup {index}
      BY <2>2 DEF Admit, UserAllows, Goes, Types, Calls
    <3>2. /\ index >= 1
          /\ UNCHANGED <<batch, recent, blocked, index, prefetched, rows, denied, control, ran, came>>
      BY <2>2, <3>1 DEF Admit, UserAllows, Calls
    <3>3. QED
      BY <3>1, <3>2 DEF Types, Places
  <2>3. CASE Dispatch
    <3>1. index \in Calls /\ ran[index] = 0
      BY <2>3 DEF Dispatch, Runs, NotRunYet, Working, Ended, Pos, Types, Calls
    <3>2. ran' \in [Calls -> 0..1] /\ came' \in [Calls -> {"none", "flying"} \cup Outcomes]
      BY <2>3, <3>1 DEF Dispatch, Send, Types
    <3>3. recent' \in Seq(Keys) /\ Len(recent') <= 2
      BY <2>3, <3>1, RecordedType DEF Dispatch, Types
    <3>4. QED
      BY <2>3, <3>2, <3>3 DEF Dispatch, Runs, Types, Places
  <2>4. QED
    BY <1>3, <2>1, <2>2, <2>3 DEF TailStep
<1>4. CASE Finishing
  <2>1. /\ rows' \in Seq(Row) /\ index \in Calls /\ pc' = "next"
        /\ UNCHANGED <<index, batch, ran>>
    BY <1>4, FinishingFacts, FinishedRow
  <2>2. prefetched' \in [Calls -> {"none", "queued", "flying"} \cup Outcomes]
    BY <1>4 DEF Finishing, Refuse, RuleDenies, AnswerDenied, UserDenies, HookBlocks, Repetition,
                ToolReturns, Consume, Types
  <2>3. blocked' \in SUBSET Keys /\ open' \in SUBSET Calls
    <3>1. blocked' = blocked \/ blocked' = blocked \cup {batch[index].key}
      BY <1>4 DEF Finishing, Refuse, RuleDenies, AnswerDenied, UserDenies, HookBlocks, Repetition,
                  ToolReturns, Consume, Finish
    <3>2. open' = open \/ open' = open \ {index}
      BY <1>4 DEF Finishing, Refuse, RuleDenies, AnswerDenied, UserDenies, HookBlocks, Repetition,
                  ToolReturns, Consume, Finish
    <3>3. batch[index].key \in Keys
      BY <2>1, KeyType
    <3>4. QED
      BY <3>1, <3>2, <3>3 DEF Types
  <2>4. denied' \in BOOLEAN /\ control' = control
    BY <1>4 DEF Finishing, Refuse, RuleDenies, AnswerDenied, UserDenies, HookBlocks, Repetition,
                ToolReturns, Consume, Types
  <2>5. came' \in [Calls -> {"none", "flying"} \cup Outcomes]
    BY <1>4 DEF Finishing, Refuse, RuleDenies, AnswerDenied, UserDenies, HookBlocks, Repetition,
                ToolReturns, Consume, Types, Outcomes
  <2>6. recent' = recent \/ recent' = Recorded(recent, batch[index].key)
    BY <1>4 DEF Finishing, Refuse, RuleDenies, AnswerDenied, UserDenies, HookBlocks, Repetition,
                ToolReturns, Consume
  <2>7. recent' \in Seq(Keys) /\ Len(recent') <= 2
    BY <2>1, <2>6, RecordedType DEF Types
  <2>8. QED
    BY <2>1, <2>2, <2>3, <2>4, <2>5, <2>7 DEF Types, Places
<1>5. CASE Leaving
  <2>1. /\ rows' \in Seq(Row) /\ index \in Calls /\ pc' \in {"stopped", "paused", "cancelled"}
        /\ UNCHANGED <<index, batch, ran, blocked, denied>>
    BY <1>5, LeavingFacts
  <2>2. prefetched' \in [Calls -> {"none", "queued", "flying"} \cup Outcomes]
    BY <1>5 DEF Leaving, LeaveSettled, StopAtCall, PauseAtCall, ApprovalInterrupted,
                ToolInterrupted, Consume
  <2>3. open' \in SUBSET Calls /\ control' = control
    BY <1>5 DEF Leaving, StopAtCall, PauseAtCall, ApprovalInterrupted, ToolInterrupted, Consume,
                Types
  <2>4. came' \in [Calls -> {"none", "flying"} \cup Outcomes]
    BY <1>5 DEF Leaving, StopAtCall, PauseAtCall, ApprovalInterrupted, ToolInterrupted, Consume,
                Types, Outcomes
  <2>5. recent' = recent \/ recent' = Recorded(recent, batch[index].key)
    BY <1>5 DEF Leaving, StopAtCall, PauseAtCall, ApprovalInterrupted, ToolInterrupted, Consume
  <2>6. recent' \in Seq(Keys) /\ Len(recent') <= 2
    BY <2>1, <2>5, RecordedType DEF Types
  <2>7. QED
    BY <2>1, <2>2, <2>3, <2>4, <2>6 DEF Types, Places, Calls
<1>6. CASE InterfaceGone \/ BatchDone
  <2>1. /\ (pc' = "gone" /\ pc # "next") \/ (pc' = "done" /\ index = Size)
        /\ UNCHANGED <<batch, recent, blocked, index, prefetched, rows, open, denied, control, ran, came>>
    BY <1>6 DEF InterfaceGone, BatchDone
  <2>2. QED
    BY <2>1, ReadGroupAssumption DEF Types, Places
<1>7. CASE ControlStep
  <2>1. UNCHANGED <<batch, recent, blocked, index, pc, prefetched, rows, open, denied, ran, came>>
    BY <1>7 DEF ControlStep, UserPauses, UserStops, OtherTurnBegins
  <2>2. control \in [cancel : BOOLEAN, wake : BOOLEAN, pause : BOOLEAN]
    BY DEF Types
  <2>3. control' \in [cancel : BOOLEAN, wake : BOOLEAN, pause : BOOLEAN]
    <3>1. CASE UserPauses
      BY <2>2, <3>1 DEF UserPauses
    <3>2. CASE UserStops
      BY <2>2, <3>2 DEF UserStops
    <3>3. CASE OtherTurnBegins
      BY <3>3 DEF OtherTurnBegins
    <3>4. QED
      BY <1>7, <3>1, <3>2, <3>3 DEF ControlStep
  <2>4. QED
    BY <2>1, <2>3 DEF Types
<1>8. QED
  BY <1>1, <1>2, <1>3, <1>4, <1>5, <1>6, <1>7, KindsOfSteps

(* Rows are only added. *)
LEMMA RowsKept ==
    ASSUME Types, GroupOnly, Next
    PROVE  /\ RowsOnly(rows')
           /\ \A c \in Calls : (Answered(c) => Answered(c)') /\ (Hooked(c) => Hooked(c)')
<1>1. RowsOnly(rows')
  <2>1. CASE Finishing
    BY <2>1, FinishingFacts, FinishedRow
  <2>2. CASE Leaving
    BY <2>2, LeavingFacts
  <2>3. CASE rows' = rows
    BY <2>3 DEF RowsOnly
  <2>4. Finishing \/ Leaving \/ rows' = rows
    BY KindsOfSteps DEF NextCall, MemberStep, MemberStarts, MemberRefused, MemberBlocked,
         MemberReturns, MemberInterrupted, TailStep, GroupReturns, Admit, Ask, UserAllows, Dispatch,
         InterfaceGone, BatchDone, ControlStep, UserPauses, UserStops, OtherTurnBegins
  <2>5. QED
    BY <2>1, <2>2, <2>3, <2>4
<1>2. QED
  BY <1>1 DEF RowsOnly, Answered, Hooked

QuietStep == TailStep \/ InterfaceGone \/ BatchDone \/ ControlStep

LEMMA QuietFacts ==
    ASSUME Types, QuietStep
    PROVE  /\ UNCHANGED <<batch, blocked, index, prefetched, rows, denied>>
           /\ Pos' = Pos /\ (Working' => Working) /\ (pc' = "group" => pc' = pc)
           /\ \A c \in Calls : came'[c] # came[c] => came'[c] = "flying"
<1>1. UNCHANGED <<batch, blocked, index, prefetched, rows, denied>>
  BY DEF QuietStep, TailStep, GroupReturns, Admit, Ask, UserAllows, Dispatch, InterfaceGone,
         BatchDone, ControlStep, UserPauses, UserStops, OtherTurnBegins
<1>2. \/ pc = "group" /\ pc' = "tail"
      \/ pc = "tail" /\ pc' \in {"sent", "approval"}
      \/ pc = "approval" /\ pc' = "sent"
      \/ pc = "sent" /\ pc' = "tool"
      \/ pc \in {"approval", "sent"} /\ pc' = "gone"
      \/ pc = "next" /\ pc' = "done"
      \/ pc' = pc
  BY DEF QuietStep, TailStep, GroupReturns, Admit, Ask, UserAllows, Dispatch, InterfaceGone,
         BatchDone, ControlStep, UserPauses, UserStops, OtherTurnBegins, Goes, Runs
<1>3. \A c \in Calls : came'[c] # came[c] => came'[c] = "flying"
  BY DEF QuietStep, TailStep, GroupReturns, Admit, Ask, UserAllows, Dispatch, Send, InterfaceGone,
         BatchDone, ControlStep, UserPauses, UserStops, OtherTurnBegins, Types
<1>4. QED
  BY <1>1, <1>2, <1>3 DEF Pos, Working, Ended

LEMMA MemberFacts ==
    ASSUME Types, MemberStep
    PROVE  /\ UNCHANGED <<batch, recent, blocked, index, pc, rows, open, denied>>
           /\ Pos' = Pos /\ (Working <=> Working')
           /\ \A c \in Calls :
                 /\ Entry(c)' <=> Entry(c)
                 /\ prefetched'[c] # prefetched[c] => prefetched[c] \in {"queued", "flying"}
                 /\ prefetched'[c] # "queued" \/ prefetched'[c] = prefetched[c]
                 /\ came'[c] = "uncertain" =>
                       came[c] = "uncertain" \/
                         (prefetched[c] = "flying" /\ prefetched'[c] = "uncertain")
                 /\ ran'[c] # ran[c] => prefetched[c] = "queued" /\ prefetched'[c] = "flying"
<1>1. PICK c \in Calls : \/ MemberStarts(c) \/ MemberRefused(c) \/ MemberBlocked(c)
                         \/ MemberReturns(c) \/ MemberInterrupted(c)
  BY DEF MemberStep
<1>2. /\ UNCHANGED <<batch, recent, blocked, index, pc, rows, open, denied>>
      /\ prefetched[c] \in {"queued", "flying"}
  BY <1>1 DEF MemberStarts, MemberRefused, MemberBlocked, MemberReturns, MemberInterrupted
<1>3. \A d \in Calls : d # c =>
         prefetched'[d] = prefetched[d] /\ came'[d] = came[d] /\ ran'[d] = ran[d]
  BY <1>1 DEF MemberStarts, MemberRefused, MemberBlocked, MemberReturns, MemberInterrupted, Send, Types
<1>4. prefetched'[c] \in {"flying", "refused", "blocked", "interrupted"} \cup Results
  BY <1>1 DEF MemberStarts, MemberRefused, MemberBlocked, MemberReturns, MemberInterrupted, Types
<1>5. came'[c] = "uncertain" =>
         came[c] = "uncertain" \/ (prefetched[c] = "flying" /\ prefetched'[c] = "uncertain")
  BY <1>1 DEF MemberStarts, MemberRefused, MemberBlocked, MemberReturns, MemberInterrupted, Send, Types
<1>6. ran'[c] # ran[c] => prefetched[c] = "queued" /\ prefetched'[c] = "flying"
  BY <1>1 DEF MemberStarts, MemberRefused, MemberBlocked, MemberReturns, MemberInterrupted, Types
<1>7. Pos' = Pos /\ (Working <=> Working')
  BY <1>2 DEF Pos, Working
<1>8. QED
  BY <1>2, <1>3, <1>4, <1>5, <1>6, <1>7 DEF Entry, Results

(* A group is formed where nothing is dispatched ahead. *)
LEMMA NextCallFacts ==
    ASSUME Types, Contiguous, NextCall
    PROVE  /\ UNCHANGED <<batch, recent, blocked, rows, denied, control, ran, came>>
           /\ Pos = index + 1 /\ Pos' = Pos /\ index' = index + 1 /\ Pos \in Calls
           /\ Working /\ pc = "next" /\ pc' \in {"group", "tail"}
           /\ \/ prefetched' = prefetched /\ pc' = "tail"
              \/ /\ pc' = "group" /\ ~denied
                 /\ \A c \in Calls : c >= Pos => ~Entry(c)
                 /\ \A c \in Calls : prefetched'[c] = IF c \in ReadGroup(Pos) THEN "queued" ELSE prefetched[c]
                 /\ Entry(Pos)'
<1>1. /\ pc = "next" /\ Pos = index + 1 /\ index' = index + 1 /\ Pos \in Calls /\ Working
      /\ pc' \in {"group", "tail"} /\ Pos' = Pos
      /\ UNCHANGED <<batch, recent, blocked, rows, denied, control, ran, came>>
  BY ReadGroupAssumption DEF NextCall, Pos, Working, Ended, Types, Calls
<1>2. CASE pc' = "tail"
  BY <1>1, <1>2 DEF NextCall
<1>3. CASE pc' = "group"
  <2>1. /\ Cardinality(GroupAt(Pos)) > 1
        /\ prefetched' = [c \in Calls |-> IF c \in GroupAt(Pos) THEN "queued" ELSE prefetched[c]]
    BY <1>1, <1>3 DEF NextCall
  <2>2. GroupAt(Pos) # {}
    BY <2>1, FS_EmptySet
  <2>3. GroupAt(Pos) = ReadGroup(Pos) /\ ~Entry(Pos)
    BY <2>2 DEF GroupAt, Entry
  <2>4. PICK c \in ReadGroup(Pos) : c \in Pos..Size /\ \A d \in Pos..c : ConcurrentReadOk(d) /\ ~Repeats(Simulated(Pos, d), batch[d].key)
    BY <2>2, <2>3 DEF ReadGroup
  <2>5. Pos \in Pos..c /\ ~denied
    BY <1>1, <2>4 DEF ConcurrentReadOk, Calls
  <2>6. \A d \in Calls : d >= Pos => ~Entry(d)
    <3>1. ASSUME NEW d \in Calls, d > Pos, Entry(d)
          PROVE  FALSE
      BY <1>1, <2>3, <3>1 DEF Contiguous, Calls
    <3>2. QED
      BY <1>1, <2>3, <3>1 DEF Calls
  <2>7. Pos \in ReadGroup(Pos)
    <3>1. Pos < Pos + MaxReadGroup /\ Pos \in Pos..Size
      BY <1>1, ReadGroupAssumption DEF Calls
    <3>2. \A d \in Pos..Pos : ConcurrentReadOk(d) /\ ~Repeats(Simulated(Pos, d), batch[d].key)
      BY <1>1, <2>4, <2>5 DEF Calls
    <3>3. QED
      BY <3>1, <3>2 DEF ReadGroup
  <2>8. prefetched'[Pos] = "queued"
    BY <1>1, <2>1, <2>3, <2>7
  <2>9. \A d \in Calls : prefetched'[d] = IF d \in ReadGroup(Pos) THEN "queued" ELSE prefetched[d]
    BY <2>1, <2>3
  <2>10. Entry(Pos)'
    BY <1>1, <2>8 DEF Entry
  <2>11. QED
    BY <1>1, <1>3, <2>5, <2>6, <2>9, <2>10
<1>4. QED
  BY <1>1, <1>2, <1>3

LEMMA FourKinds ==
    ASSUME Next
    PROVE  NextCall \/ MemberStep \/ QuietStep \/ Finishing \/ Leaving
BY KindsOfSteps DEF QuietStep

LEMMA PosType ==
    ASSUME Types
    PROVE  Pos \in Nat /\ index \in Nat /\ \A c \in Calls : c \in Nat
BY CallsFinite DEF Types, Pos, Calls

-----------------------------------------------------------------------------
(* The parts of the invariant, one by one. *)

LEMMA AnsweredBeforeKept ==
    ASSUME IInv, Next
    PROVE  AnsweredBefore'
<1> USE DEF IInv
<1>1. \A c \in Calls : c < Pos => Answered(c)'
  BY RowsKept DEF AnsweredBefore
<1>2. CASE Finishing
  <2>1. \E i \in DOMAIN rows' : rows'[i].call = index
    BY <1>2, FinishingFacts, FinishedRow
  <2>2. Pos = index /\ Pos' = index + 1
    BY <1>2, FinishingFacts
  <2>3. \A c \in Calls : c < index + 1 => c < index \/ c = index
    BY PosType
  <2>4. \A c \in Calls : c < index + 1 => Answered(c)'
    BY <1>1, <2>1, <2>2, <2>3 DEF Answered
  <2>5. QED
    BY <2>2, <2>4 DEF AnsweredBefore
<1>3. CASE ~Finishing
  <2>1. Pos' = Pos
    BY <1>3, FourKinds, NextCallFacts, MemberFacts, QuietFacts, LeavingFacts
  <2>2. QED
    BY <1>1, <2>1 DEF AnsweredBefore
<1>4. QED
  BY <1>2, <1>3

LEMMA NoneAheadKept ==
    ASSUME IInv, Next
    PROVE  NoneAhead'
<1> USE DEF IInv
<1>1. CASE Finishing
  <2>1. Pos = index /\ Pos' = index + 1 /\ Working
    BY <1>1, FinishingFacts DEF Working, Ended
  <2>2. \A i \in DOMAIN rows' : rows'[i].call = index \/ (i \in DOMAIN rows /\ rows'[i] = rows[i])
    BY <1>1, FinishingFacts, FinishedRow
  <2>3. \A i \in DOMAIN rows : rows[i].call \in Nat
    <3>1. TAKE i \in DOMAIN rows
    <3>2. rows[i] \in Row
      BY DEF Types
    <3>3. QED
      BY <3>2, PosType DEF Row
  <2>4. QED
    BY <2>1, <2>2, <2>3, PosType DEF NoneAhead
<1>2. CASE Leaving
  BY <1>2, LeavingFacts DEF NoneAhead, Working, Ended
<1>3. CASE NextCall \/ MemberStep \/ QuietStep
  <2>1. Pos' = Pos /\ rows' = rows /\ (Working' => Working)
    BY <1>3, NextCallFacts, MemberFacts, QuietFacts
  <2>2. QED
    BY <2>1 DEF NoneAhead
<1>4. QED
  BY <1>1, <1>2, <1>3, FourKinds

LEMMA ContiguousKept ==
    ASSUME IInv, Next
    PROVE  Contiguous'
<1> USE DEF IInv
<1>1. CASE NextCall
  <2>1. CASE prefetched' = prefetched
    <3>1. Pos' = Pos /\ batch' = batch /\ Working
      BY <1>1, NextCallFacts
    <3>2. QED
      BY <2>1, <3>1 DEF Contiguous, Entry
  <2>2. CASE prefetched' # prefetched
    <3>1. /\ Pos' = Pos /\ Pos \in Calls /\ batch' = batch
          /\ \A c \in Calls : c >= Pos => ~Entry(c)
          /\ \A c \in Calls : prefetched'[c] = IF c \in ReadGroup(Pos) THEN "queued" ELSE prefetched[c]
      BY <1>1, <2>2, NextCallFacts
    <3>2. ASSUME NEW c \in Calls, c >= Pos, Entry(c)'
          PROVE  batch[c].read /\ \A d \in Calls : Pos <= d /\ d < c => Entry(d)'
      <4>1. c \in ReadGroup(Pos)
        BY <3>1, <3>2 DEF Entry
      <4>2. c \in Pos..c /\ \A d \in Calls : Pos <= d /\ d < c => d \in Pos..c
        BY <3>1, <3>2, PosType
      <4>3. batch[c].read
        BY <4>1, <4>2 DEF ReadGroup, ConcurrentReadOk
      <4>4. ASSUME NEW d \in Calls, Pos <= d, d < c
            PROVE  d \in ReadGroup(Pos)
        <5>1. d \in Pos..Size /\ Pos..d \subseteq Pos..c /\ d < Pos + MaxReadGroup
          BY <3>2, <4>1, <4>4, PosType, ReadGroupAssumption DEF ReadGroup, Calls
        <5>2. QED
          BY <4>1, <5>1 DEF ReadGroup
      <4>5. QED
        BY <3>1, <4>3, <4>4 DEF Entry
    <3>3. QED
      BY <3>1, <3>2 DEF Contiguous
  <2>3. QED
    BY <2>1, <2>2
<1>2. CASE MemberStep
  BY <1>2, MemberFacts DEF Contiguous
<1>3. CASE QuietStep
  BY <1>3, QuietFacts DEF Contiguous, Entry
<1>4. CASE Finishing
  <2>1. /\ Pos = index /\ Pos' = index + 1 /\ Working /\ batch' = batch /\ index \in Calls
        /\ \A c \in Calls : c # index => prefetched'[c] = prefetched[c]
    BY <1>4, FinishingFacts DEF Working, Ended
  <2>2. QED
    BY <2>1, PosType DEF Contiguous, Entry
<1>5. CASE Leaving
  BY <1>5, LeavingFacts DEF Contiguous, Working, Ended
<1>6. QED
  BY <1>1, <1>2, <1>3, <1>4, <1>5, FourKinds

LEMMA GroupOnlyKept ==
    ASSUME IInv, Next
    PROVE  GroupOnly'
<1> USE DEF IInv
<1>1. CASE NextCall
  <2>1. /\ Pos = index + 1 /\ index' = index + 1 /\ pc = "next" /\ batch' = batch /\ blocked' = blocked
        /\ prefetched' = prefetched \/
             (/\ pc' = "group"
              /\ \A c \in Calls : prefetched'[c] = IF c \in ReadGroup(Pos) THEN "queued" ELSE prefetched[c])
    BY <1>1, NextCallFacts
  <2>2. \A c \in Calls : prefetched[c] \notin {"queued", "flying"}
    BY <2>1 DEF GroupOnly
  <2>3. \A c \in ReadGroup(Pos) : c >= Pos /\ batch[c].key \notin blocked
    <3>1. TAKE c \in ReadGroup(Pos)
    <3>2. c \in Pos..Size /\ c \in Pos..c
      BY <2>1, PosType, ReadGroupAssumption DEF ReadGroup
    <3>3. QED
      BY <3>2, PosType, ReadGroupAssumption DEF ReadGroup, ConcurrentReadOk
  <2>4. QED
    BY <2>1, <2>2, <2>3 DEF GroupOnly
<1>2. CASE MemberStep
  BY <1>2, MemberFacts DEF GroupOnly
<1>3. CASE QuietStep
  <2>1. CASE GroupReturns
    BY <2>1 DEF GroupReturns, GroupOnly
  <2>2. CASE ~GroupReturns
    <3>1. pc = "group" => pc' = pc
      BY <1>3, <2>2 DEF QuietStep, TailStep, Admit, Ask, UserAllows, Dispatch, InterfaceGone,
         BatchDone, ControlStep, UserPauses, UserStops, OtherTurnBegins, Goes, Runs
    <3>2. QED
      BY <1>3, <3>1, QuietFacts DEF GroupOnly
  <2>3. QED
    BY <2>1, <2>2
<1>4. CASE Finishing
  <2>1. \A c \in Calls : prefetched[c] \notin {"queued", "flying"}
    BY <1>4, FinishingFacts DEF GroupOnly
  <2>2. \A c \in Calls : prefetched'[c] = prefetched[c] \/ prefetched'[c] = "none"
    BY <1>4 DEF Finishing, Refuse, RuleDenies, AnswerDenied, UserDenies, HookBlocks, Repetition,
                ToolReturns, Consume, Types
  <2>3. QED
    BY <2>1, <2>2 DEF GroupOnly
<1>5. CASE Leaving
  BY <1>5, LeavingFacts DEF GroupOnly
<1>6. QED
  BY <1>1, <1>2, <1>3, <1>4, <1>5, FourKinds

LEMMA PassedKept ==
    ASSUME IInv, Next
    PROVE  Passed'
<1> USE DEF IInv
<1>1. CASE NextCall
  BY <1>1, NextCallFacts DEF Passed
<1>2. CASE MemberStep
  <2>1. UNCHANGED <<batch, blocked, index, pc, denied>> /\ (index \in Calls => (Entry(index)' <=> Entry(index)))
    BY <1>2, MemberFacts
  <2>2. pc # "next" => index \in Calls
    BY DEF Types, Calls
  <2>3. QED
    BY <2>1, <2>2 DEF Passed
<1>3. CASE TailStep
  <2>1. CASE GroupReturns
    BY <2>1 DEF GroupReturns, Passed
  <2>2. CASE Admit \/ Ask
    BY <2>2 DEF Admit, Ask, Goes, Passed, Entry
  <2>3. CASE UserAllows
    BY <2>3 DEF UserAllows, Passed, Entry
  <2>4. CASE Dispatch
    BY <2>4 DEF Dispatch, Runs, Passed, Entry
  <2>5. QED
    BY <1>3, <2>1, <2>2, <2>3, <2>4 DEF TailStep
<1>4. CASE InterfaceGone \/ BatchDone
  BY <1>4 DEF InterfaceGone, BatchDone, Passed
<1>5. CASE ControlStep
  BY <1>5 DEF ControlStep, UserPauses, UserStops, OtherTurnBegins, Passed, Entry
<1>6. CASE Finishing
  BY <1>6, FinishingFacts DEF Passed
<1>7. CASE Leaving
  BY <1>7, LeavingFacts DEF Passed
<1>8. QED
  BY <1>1, <1>2, <1>3, <1>4, <1>5, <1>6, <1>7, KindsOfSteps

LEMMA NotRunYetKept ==
    ASSUME IInv, Next
    PROVE  NotRunYet'
<1> USE DEF IInv
<1>1. CASE NextCall
  BY <1>1, NextCallFacts DEF NotRunYet, Entry
<1>2. CASE MemberStep
  <2>1. /\ UNCHANGED <<pc, index>> /\ Pos' = Pos /\ (Working <=> Working')
        /\ \A c \in Calls :
              /\ Entry(c)' <=> Entry(c)
              /\ prefetched'[c] # "queued" \/ prefetched'[c] = prefetched[c]
              /\ ran'[c] # ran[c] => prefetched'[c] = "flying"
    BY <1>2, MemberFacts
  <2>2. ASSUME Working, NEW c \in Calls, c >= Pos, prefetched'[c] \in {"none", "queued"},
               ~(pc = "tool" /\ c = index)
        PROVE  ran'[c] = 0
    <3>1. prefetched[c] \in {"none", "queued"}
      BY <2>1, <2>2 DEF Entry
    <3>2. ran[c] = 0
      BY <2>2, <3>1 DEF NotRunYet
    <3>3. QED
      BY <2>1, <2>2, <3>2
  <2>3. QED
    BY <2>1, <2>2 DEF NotRunYet
<1>3. CASE Dispatch
  <2>1. /\ index \in Calls /\ pc' = "tool" /\ index' = index /\ prefetched' = prefetched
        /\ pc = "sent" /\ Pos' = Pos
    BY <1>3 DEF Dispatch, Runs, Types, Calls, Pos
  <2>2. \A c \in Calls : c # index => ran'[c] = ran[c]
    BY <1>3 DEF Dispatch, Send, Types
  <2>3. QED
    BY <2>1, <2>2 DEF NotRunYet, Working, Ended
<1>4. CASE QuietStep /\ ~Dispatch
  <2>1. /\ UNCHANGED <<prefetched, index>> /\ Pos' = Pos /\ (Working' => Working)
    BY <1>4, QuietFacts
  <2>2. ran' = ran /\ (pc = "tool" => pc' = pc)
    BY <1>4 DEF QuietStep, TailStep, GroupReturns, Admit, Ask, UserAllows, InterfaceGone, BatchDone,
                ControlStep, UserPauses, UserStops, OtherTurnBegins, Goes
  <2>3. QED
    BY <2>1, <2>2 DEF NotRunYet
<1>5. CASE Finishing
  <2>1. /\ Pos = index /\ Pos' = index + 1 /\ Working /\ ran' = ran /\ index' = index /\ index \in Calls
        /\ \A c \in Calls : c # index => prefetched'[c] = prefetched[c]
    BY <1>5, FinishingFacts DEF Working, Ended
  <2>2. \A c \in Calls : c >= index + 1 => c >= index /\ c # index
    BY <2>1, PosType
  <2>3. QED
    BY <2>1, <2>2 DEF NotRunYet
<1>6. CASE Leaving
  BY <1>6, LeavingFacts DEF NotRunYet, Working, Ended
<1>7. QED
  BY <1>1, <1>2, <1>3, <1>4, <1>5, <1>6, FourKinds

(* A call that is asked about is no member where rules cover no reads. *)
LEMMA RuledIsNoRead ==
    ASSUME Types, Contiguous, Working, ~RuledReads, index = Pos, index \in Calls,
           batch[index].rule # "auto"
    PROVE  \A c \in Calls : c >= Pos => ~Entry(c)
<1>1. ~batch[index].read
  BY DEF Types, Batches
<1>2. ~Entry(index)
  BY <1>1, PosType DEF Contiguous
<1>3. QED
  BY <1>2, PosType DEF Contiguous

LEMMA DeniedIsLastKept ==
    ASSUME IInv, Next
    PROVE  DeniedIsLast'
<1> USE DEF IInv
<1>1. CASE NextCall
  BY <1>1, NextCallFacts DEF DeniedIsLast, Entry
<1>2. CASE MemberStep
  BY <1>2, MemberFacts DEF DeniedIsLast
<1>3. CASE QuietStep
  BY <1>3, QuietFacts DEF DeniedIsLast, Entry
<1>4. CASE Finishing
  <2>1. /\ Pos = index /\ Pos' = index + 1 /\ Working /\ index \in Calls
        /\ \A c \in Calls : c # index => prefetched'[c] = prefetched[c]
    BY <1>4, FinishingFacts DEF Working, Ended
  <2>2. \A c \in Calls : c >= index + 1 => c >= index /\ c # index
    BY <2>1, PosType
  <2>3. ASSUME ~RuledReads, denied'
        PROVE  \A c \in Calls : c >= Pos => ~Entry(c)
    <3>1. CASE denied
      BY <2>1, <2>3, <3>1 DEF DeniedIsLast
    <3>2. CASE ~denied
      <4>1. RuleDenies \/ UserDenies
        BY <1>4, <2>3, <3>2 DEF Finishing, Refuse, AnswerDenied, HookBlocks, Repetition,
                                ToolReturns, Consume
      <4>2. batch[index].rule # "auto"
        BY <4>1 DEF RuleDenies, UserDenies, Passed
      <4>3. QED
        BY <2>1, <2>3, <4>2, RuledIsNoRead
    <3>3. QED
      BY <3>1, <3>2
  <2>4. QED
    BY <2>1, <2>2, <2>3 DEF DeniedIsLast, Entry
<1>5. CASE Leaving
  BY <1>5, LeavingFacts DEF DeniedIsLast, Entry
<1>6. QED
  BY <1>1, <1>2, <1>3, <1>4, <1>5, FourKinds

LEMMA SimulatedType ==
    ASSUME Types, NEW first \in Calls, NEW c \in Calls, first <= c
    PROVE  /\ c - first \in Nat
           /\ [i \in 1..(c - first) |-> batch[first + i - 1].key] \in Seq(Keys)
           /\ Len([i \in 1..(c - first) |-> batch[first + i - 1].key]) = c - first
<1>1. c - first \in Nat
  BY PosType
<1>2. \A i \in 1..(c - first) : first + i - 1 \in Calls
  BY <1>1, PosType, ReadGroupAssumption DEF Calls
<1>3. \A i \in 1..(c - first) : batch[first + i - 1].key \in Keys
  BY <1>2, KeyType
<1>4. QED
  BY <1>1, <1>3

(* The history the tail finds at the call in hand is the real one. *)
LEMMA SimulatedHere ==
    ASSUME Types, index \in Calls
    PROVE  Simulated(index, index) = recent
<1>1. index - index = 0 /\ 1..0 = {}
  BY PosType
<1>2. [i \in 1..(index - index) |-> batch[index + i - 1].key] = << >>
  BY <1>1
<1>3. recent \o << >> = recent /\ LastTwo(recent) = recent
  BY ConcatEmptySeq DEF Types, LastTwo
<1>4. QED
  BY <1>2, <1>3 DEF Simulated

(* It goes on from there as it was foreseen. *)
LEMMA SimulatedNext ==
    ASSUME Types, index \in Calls, NEW c \in Calls, index < c
    PROVE  LastTwo(Recorded(recent, batch[index].key)
                     \o [i \in 1..(c - (index + 1)) |-> batch[index + 1 + i - 1].key])
             = Simulated(index, c)
<1> DEFINE key == batch[index].key
           rest == [i \in 1..(c - (index + 1)) |-> batch[index + 1 + i - 1].key]
           all == [i \in 1..(c - index) |-> batch[index + i - 1].key]
<1>1. index + 1 \in Calls /\ index + 1 <= c /\ index <= c
  BY PosType, ReadGroupAssumption DEF Calls
<1>2. rest \in Seq(Keys) /\ Len(rest) = c - (index + 1)
  BY <1>1, SimulatedType
<1>3. all \in Seq(Keys) /\ Len(all) = c - index
  BY <1>1, SimulatedType
<1>4. key \in Keys /\ <<key>> \in Seq(Keys) /\ recent \in Seq(Keys)
  BY KeyType DEF Types
<1>5. all = <<key>> \o rest
  <2>1. PICK n \in Nat : c - (index + 1) = n /\ c - index = n + 1
    BY <1>1, PosType
  <2>2. \A i \in 1..(n + 1) : all[i] = batch[index + i - 1].key
    BY <2>1
  <2>3. \A i \in 1..n : rest[i] = batch[index + 1 + i - 1].key
    BY <2>1
  <2> HIDE DEF all, rest
  <2>4. Len(all) = n + 1 /\ Len(rest) = n
    BY <1>2, <1>3, <2>1
  <2>5. /\ <<key>> \o rest \in Seq(Keys) /\ Len(<<key>> \o rest) = 1 + n
        /\ \A i \in 1..(1 + n) : (<<key>> \o rest)[i] = IF i <= 1 THEN key ELSE rest[i - 1]
    BY <1>2, <1>4, <2>4
  <2>6. \A i \in 1..(n + 1) : all[i] = (<<key>> \o rest)[i]
    <3>1. TAKE i \in 1..(n + 1)
    <3>2. CASE i = 1
      <4>1. all[1] = batch[index + 1 - 1].key /\ index + 1 - 1 = index
        BY <2>2, PosType
      <4>2. QED
        BY <2>5, <3>2, <4>1
    <3>3. CASE i # 1
      <4>1. i - 1 \in 1..n /\ index + 1 + (i - 1) - 1 = index + i - 1
        BY <3>3, PosType
      <4>2. rest[i - 1] = batch[index + i - 1].key
        BY <2>3, <4>1
      <4>3. (<<key>> \o rest)[i] = rest[i - 1]
        BY <2>5, <3>3
      <4>4. QED
        BY <2>2, <4>2, <4>3
    <3>4. QED
      BY <3>2, <3>3
  <2>7. QED
    BY <1>3, <2>4, <2>5, <2>6, SeqEqual
<1> HIDE DEF all, rest
<1>6. recent \o all = (recent \o <<key>>) \o rest
  BY <1>2, <1>4, <1>5
<1>7. Append(recent, key) = recent \o <<key>> /\ recent \o <<key>> \in Seq(Keys)
  BY <1>4
<1>8. LastTwo(LastTwo(recent \o <<key>>) \o rest) = LastTwo(recent \o all)
  BY <1>2, <1>6, <1>7, LastTwoOfMore
<1>9. Simulated(index, c) = LastTwo(recent \o all)
  BY DEF Simulated, all
<1>10. Recorded(recent, key) = LastTwo(recent \o <<key>>)
  BY <1>7 DEF Recorded
<1>11. QED
  BY <1>8, <1>9, <1>10 DEF rest, key

LEMMA LeftoverKept ==
    ASSUME IInv, Next
    PROVE  Leftover'
<1> USE DEF IInv
<1>1. \A c \in Calls : Hooked(c) => Hooked(c)'
  BY RowsKept
<1>2. CASE NextCall
  <2>1. Pos' = Pos /\ denied' = denied
    BY <1>2, NextCallFacts
  <2>2. \A c \in Calls : c < Pos => prefetched'[c] = prefetched[c]
    <3>1. \A c \in ReadGroup(Pos) : c >= Pos
      BY PosType, ReadGroupAssumption DEF ReadGroup
    <3>2. QED
      BY <1>2, <3>1, NextCallFacts, PosType
  <2>3. QED
    BY <1>1, <2>1, <2>2 DEF Leftover, Entry
<1>3. CASE MemberStep
  BY <1>1, <1>3, MemberFacts DEF Leftover
<1>4. CASE QuietStep
  BY <1>1, <1>4, QuietFacts DEF Leftover, Entry
<1>5. CASE Leaving
  BY <1>5, LeavingFacts DEF Leftover, Entry
<1>6. CASE Finishing
  <2>1. /\ Pos = index /\ Pos' = index + 1 /\ Working /\ index \in Calls /\ (denied => denied')
        /\ index' = index
        /\ \A c \in Calls : c # index => prefetched'[c] = prefetched[c]
    BY <1>6, FinishingFacts DEF Working, Ended
  <2>2. \A c \in Calls : c < index + 1 => c < index \/ c = index
    BY PosType
  <2>3. ASSUME prefetched'[index] # "none"
        PROVE  Hooked(index)' \/ (denied' /\ RuledReads)
    <3>1. CASE Refuse
      BY <2>3, <3>1 DEF Refuse
    <3>2. CASE RuleDenies \/ AnswerDenied \/ UserDenies
      <4>1. denied' /\ prefetched' = prefetched
        BY <3>2 DEF RuleDenies, AnswerDenied, UserDenies
      <4>2. ~RuledReads => DeniedIsLast'
        BY DeniedIsLastKept
      <4>3. RuledReads
        <5>1. CASE AnswerDenied
          BY <2>1, <2>3, <4>1, <5>1, PosType DEF AnswerDenied, DeniedIsLast, Entry
        <5>2. CASE RuleDenies \/ UserDenies
          <6>1. batch[index].rule # "auto"
            BY <5>2 DEF RuleDenies, UserDenies, Passed
          <6>2. QED
            BY <2>1, <2>3, <4>1, <6>1, RuledIsNoRead, PosType DEF Entry
        <5>3. QED
          BY <3>2, <5>1, <5>2
      <4>4. QED
        BY <4>1, <4>3
    <3>3. CASE HookBlocks
      <4>1. Finishes("blocked")
        BY <2>1, <3>3 DEF HookBlocks, Finish, Finishes, Labels, Outcomes
      <4>2. QED
        BY <2>1, <4>1, FinishedRow, PosType DEF Hooked
    <3>4. CASE Repetition
      <4>1. Entry(index) /\ ~denied /\ Repeats(recent, batch[index].key)
        BY <2>3, <3>4 DEF Repetition, Entry, Passed
      <4>2. Hooked(index)
        BY <2>1, <4>1, SimulatedHere, PosType DEF NoRepetition
      <4>3. QED
        BY <1>1, <2>1, <4>2
    <3>5. CASE ToolReturns
      BY <2>3, <3>5 DEF ToolReturns, Passed, Entry
    <3>6. CASE Consume /\ prefetched[index] # "interrupted"
      BY <2>1, <2>3, <3>6 DEF Consume, Types
    <3>7. QED
      BY <1>6, <3>1, <3>2, <3>3, <3>4, <3>5, <3>6 DEF Finishing
  <2>4. ASSUME NEW c \in Calls, c < index + 1, prefetched'[c] # "none"
        PROVE  Hooked(c)' \/ (denied' /\ RuledReads)
    <3>1. CASE c = index
      BY <2>1, <2>3, <2>4, <3>1 DEF Hooked
    <3>2. CASE c # index
      BY <1>1, <2>1, <2>2, <2>4, <3>2 DEF Leftover, Entry
    <3>3. QED
      BY <3>1, <3>2
  <2>5. QED
    BY <2>1, <2>4 DEF Leftover, Entry
<1>7. QED
  BY <1>2, <1>3, <1>4, <1>5, <1>6, FourKinds

LEMMA NoRepetitionKept ==
    ASSUME IInv, Next
    PROVE  NoRepetition'
<1> USE DEF IInv
<1>1. \A c \in Calls : Hooked(c) => Hooked(c)'
  BY RowsKept
<1>2. ASSUME UNCHANGED <<recent, batch>>, Pos' = Pos, Working, Working', denied' = denied,
             \A c \in Calls : c >= Pos /\ Entry(c)' /\ ~Entry(c) =>
                 ~Repeats(Simulated(Pos, c), batch[c].key)
      PROVE  NoRepetition'
  <2>1. \A c \in Calls : Simulated(Pos, c)' = Simulated(Pos, c)
    BY <1>2 DEF Simulated
  <2>2. QED
    BY <1>1, <1>2, <2>1 DEF NoRepetition
<1>3. CASE NextCall
  <2>1. \A c \in ReadGroup(Pos) : ~Repeats(Simulated(Pos, c), batch[c].key)
    <3>1. TAKE c \in ReadGroup(Pos)
    <3>2. c \in Pos..c
      BY PosType, ReadGroupAssumption DEF ReadGroup
    <3>3. QED
      BY <3>2 DEF ReadGroup
  <2>2. /\ UNCHANGED <<recent, batch>> /\ Pos' = Pos /\ Working /\ Working' /\ denied' = denied
        /\ \A c \in Calls : Entry(c)' /\ ~Entry(c) => c \in ReadGroup(Pos)
    BY <1>3, NextCallFacts DEF Entry, Working, Ended
  <2>3. QED
    BY <1>2, <2>1, <2>2
<1>4. CASE MemberStep
  <2>1. /\ UNCHANGED <<recent, batch, denied>> /\ Pos' = Pos /\ (Working <=> Working')
        /\ \A c \in Calls : Entry(c)' <=> Entry(c)
    BY <1>4, MemberFacts
  <2>2. QED
    BY <1>2, <2>1 DEF NoRepetition
<1>5. CASE QuietStep
  <2>1. /\ UNCHANGED <<batch, prefetched, denied>> /\ Pos' = Pos /\ (Working' => Working)
    BY <1>5, QuietFacts
  <2>2. CASE Dispatch
    <3>1. ~Entry(index) /\ index \in Calls /\ Pos = index /\ Working
      BY <2>2 DEF Dispatch, Runs, Entry, Types, Calls, Pos, Working, Ended
    <3>2. \A c \in Calls : c >= Pos => ~Entry(c)
      BY <3>1, PosType DEF Contiguous
    <3>3. QED
      BY <2>1, <3>2 DEF NoRepetition, Entry
  <2>3. CASE ~Dispatch
    <3>1. recent' = recent
      BY <1>5, <2>3 DEF QuietStep, TailStep, GroupReturns, Admit, Ask, UserAllows, InterfaceGone,
          BatchDone, ControlStep, UserPauses, UserStops, OtherTurnBegins
    <3>2. QED
      BY <1>2, <2>1, <3>1 DEF Entry, NoRepetition
  <2>4. QED
    BY <2>2, <2>3
<1>6. CASE Leaving
  BY <1>6, LeavingFacts DEF NoRepetition, Entry
<1>7. CASE Finishing
  <2>1. /\ Pos = index /\ Pos' = index + 1 /\ Working /\ index \in Calls /\ (denied => denied')
        /\ index' = index /\ batch' = batch
        /\ \A c \in Calls : c # index => prefetched'[c] = prefetched[c]
    BY <1>7, FinishingFacts DEF Working, Ended
  <2>2. \A c \in Calls : c >= index + 1 => c >= index /\ c # index /\ index < c /\ index <= c
    BY PosType
  <2>3. CASE ~Entry(index)
    <3>1. \A c \in Calls : c >= Pos => ~Entry(c)
      BY <2>1, <2>3, PosType DEF Contiguous
    <3>2. QED
      BY <2>1, <2>2, <3>1 DEF NoRepetition, Entry
  <2>4. CASE RuleDenies \/ AnswerDenied \/ UserDenies
    BY <2>4 DEF RuleDenies, AnswerDenied, UserDenies, NoRepetition
  <2>5. CASE HookBlocks
    <3>1. Finishes("blocked")
      BY <2>1, <2>5 DEF HookBlocks, Finish, Finishes, Labels, Outcomes
    <3>2. \E i \in DOMAIN rows' : rows'[i].call = index /\ rows'[i].label = "blocked"
      BY <3>1, FinishedRow
    <3>3. \A c \in Calls : c >= index + 1 => Hooked(c)'
      BY <2>2, <3>2 DEF Hooked
    <3>4. QED
      BY <2>1, <3>3 DEF NoRepetition
  <2>6. CASE recent' = Recorded(recent, batch[index].key)
    <3>1. ASSUME NEW c \in Calls, c >= index + 1
          PROVE  Simulated(index + 1, c)' = Simulated(index, c)
      BY <2>1, <2>2, <2>6, <3>1, SimulatedNext DEF Simulated
    <3>2. ASSUME ~denied', NEW c \in Calls, c >= index + 1, prefetched'[c] # "none", ~Hooked(c)'
          PROVE  ~Repeats(Simulated(index, c), batch[c].key)
      BY <1>1, <2>1, <2>2, <3>2 DEF NoRepetition, Entry
    <3>3. QED
      BY <2>1, <3>1, <3>2 DEF NoRepetition, Entry
  <2>7. QED
    BY <1>7, <2>3, <2>4, <2>5, <2>6 DEF Finishing, Refuse, Repetition, ToolReturns, Consume, Entry,
       Passed
<1>8. QED
  BY <1>3, <1>4, <1>5, <1>6, <1>7, FourKinds

LEMMA UncertainKnownKept ==
    ASSUME IInv, Next
    PROVE  UncertainKnown'
<1> USE DEF IInv
<1>1. \A c \in Calls : Hooked(c) => Hooked(c)'
  BY RowsKept
<1>2. CASE NextCall
  <2>1. /\ UNCHANGED <<batch, blocked, denied, came>> /\ Pos' = Pos /\ Working
        /\ \A c \in Calls : c >= Pos /\ prefetched[c] = "uncertain" => prefetched'[c] = prefetched[c]
    BY <1>2, NextCallFacts DEF Entry
  <2>2. QED
    BY <1>1, <2>1 DEF UncertainKnown
<1>3. CASE MemberStep
  <2>1. /\ UNCHANGED <<batch, blocked, denied, pc, index>> /\ Pos' = Pos /\ (Working <=> Working')
        /\ \A c \in Calls :
              /\ prefetched'[c] # prefetched[c] => prefetched[c] \in {"queued", "flying"}
              /\ came'[c] = "uncertain" =>
                    came[c] = "uncertain" \/
                      (prefetched[c] = "flying" /\ prefetched'[c] = "uncertain")
    BY <1>3, MemberFacts
  <2>2. \A c \in Calls : prefetched[c] = "flying" => c >= Pos
    BY DEF GroupOnly, Pos
  <2>3. ASSUME Working, NEW d \in Calls, came'[d] = "uncertain"
        PROVE  \/ Hooked(d)' \/ denied \/ batch[d].key \in blocked
               \/ d >= Pos /\ prefetched'[d] = "uncertain"
    <3>1. CASE came[d] = "uncertain"
      BY <1>1, <2>1, <2>3, <3>1 DEF UncertainKnown
    <3>2. CASE came[d] # "uncertain"
      BY <2>1, <2>2, <2>3, <3>2
    <3>3. QED
      BY <3>1, <3>2
  <2>4. QED
    BY <2>1, <2>3 DEF UncertainKnown
<1>4. CASE QuietStep
  BY <1>1, <1>4, QuietFacts DEF UncertainKnown
<1>5. CASE Leaving
  BY <1>5, LeavingFacts DEF UncertainKnown, Working, Ended
<1>6. CASE Finishing
  <2>1. /\ Pos = index /\ Pos' = index + 1 /\ Working /\ index \in Calls /\ (denied => denied')
        /\ index' = index /\ batch' = batch /\ blocked \subseteq blocked'
        /\ \A c \in Calls : c # index => prefetched'[c] = prefetched[c] /\ came'[c] = came[c]
    BY <1>6, FinishingFacts DEF Working, Ended
  <2>2. \A c \in Calls : c # index /\ c >= index => c >= index + 1
    BY PosType
  <2>3. ASSUME came'[index] = "uncertain"
        PROVE  Hooked(index)' \/ denied' \/ batch[index].key \in blocked'
    <3>1. came' = came => Hooked(index) \/ denied \/ batch[index].key \in blocked
                            \/ prefetched[index] = "uncertain"
      BY <2>1, <2>3 DEF UncertainKnown
    <3>2. CASE Refuse
      BY <1>1, <2>1, <3>1, <3>2 DEF Refuse, Finish, Hooked
    <3>3. CASE RuleDenies \/ AnswerDenied \/ UserDenies
      BY <3>3 DEF RuleDenies, AnswerDenied, UserDenies
    <3>4. CASE HookBlocks
      <4>1. Finishes("blocked")
        BY <2>1, <3>4 DEF HookBlocks, Finish, Finishes, Labels, Outcomes
      <4>2. QED
        BY <2>1, <4>1, FinishedRow, PosType DEF Hooked
    <3>5. CASE Repetition
      <4>1. ~denied /\ Repeats(recent, batch[index].key) /\ came' = came
        BY <3>5 DEF Repetition, Passed
      <4>2. Entry(index) => Hooked(index)
        BY <2>1, <4>1, SimulatedHere, PosType DEF NoRepetition
      <4>3. QED
        BY <1>1, <2>1, <3>1, <4>1, <4>2 DEF Hooked, Entry
    <3>6. CASE ToolReturns
      BY <2>1, <2>3, <3>6 DEF ToolReturns, Finish, Types
    <3>7. CASE Consume /\ prefetched[index] # "interrupted"
      <4>1. came' = came /\ Finish(prefetched[index])
        BY <3>7 DEF Consume
      <4>2. CASE prefetched[index] = "uncertain"
        BY <4>1, <4>2 DEF Finish
      <4>3. CASE prefetched[index] # "uncertain"
        BY <1>1, <2>1, <3>1, <4>1, <4>3 DEF Hooked
      <4>4. QED
        BY <4>2, <4>3
    <3>8. QED
      BY <1>6, <3>2, <3>3, <3>4, <3>5, <3>6, <3>7 DEF Finishing
  <2>4. ASSUME NEW d \in Calls, d # index, came'[d] = "uncertain"
        PROVE  \/ Hooked(d)' \/ denied' \/ batch[d].key \in blocked'
               \/ d >= index + 1 /\ prefetched'[d] = "uncertain"
    BY <1>1, <2>1, <2>2, <2>4 DEF UncertainKnown
  <2>5. \A d \in Calls : d = index \/ d # index
    OBVIOUS
  <2>6. QED
    BY <2>1, <2>3, <2>4, <2>5 DEF UncertainKnown, Hooked
<1>7. QED
  BY <1>2, <1>3, <1>4, <1>5, <1>6, FourKinds

LEMMA OnlyHandKept ==
    ASSUME IInv, Next
    PROVE  OnlyHand'
<1> USE DEF IInv
<1> SUFFICES ASSUME ~RuledReads PROVE OnlyHand'
  BY DEF OnlyHand
<1>1. CASE NextCall
  <2>1. open = {} /\ open' \subseteq {index'}
    BY <1>1, NextCallFacts DEF NextCall, OnlyHand
  <2>2. pc' \in {"group", "tail"}
    BY <1>1, NextCallFacts
  <2>3. CASE pc' = "tail"
    <3>1. open' = open
      BY <1>1, <2>3 DEF NextCall
    <3>2. QED
      BY <2>1, <2>3, <3>1 DEF OnlyHand
  <2>4. CASE pc' = "group"
    <3>1. Entry(Pos)' /\ Pos' = index'
      BY <1>1, <2>4, NextCallFacts
    <3>2. \A c \in open' : c = index' /\ prefetched'[c] # "none"
      BY <2>1, <3>1 DEF Entry
    <3>3. QED
      BY <2>1, <2>4, <3>2 DEF OnlyHand, Entry, Ended
  <2>5. QED
    BY <2>2, <2>3, <2>4
<1>2. CASE MemberStep
  <2>1. /\ UNCHANGED <<index, pc, open>>
        /\ \A c \in Calls : Entry(c)' <=> Entry(c)
    BY <1>2, MemberFacts
  <2>2. open \subseteq Calls
    BY DEF Types
  <2>3. QED
    BY <2>1, <2>2 DEF OnlyHand
<1>3. CASE QuietStep
  <2>1. CASE GroupReturns \/ Ask
    BY <2>1 DEF GroupReturns, Ask, Goes, OnlyHand, Entry, Ended
  <2>2. CASE Admit \/ UserAllows
    BY <2>2 DEF Admit, UserAllows, Goes, OnlyHand, Ended
  <2>3. CASE Dispatch
    BY <2>3 DEF Dispatch, Runs, OnlyHand, Ended
  <2>4. CASE InterfaceGone \/ BatchDone
    BY <2>4 DEF InterfaceGone, BatchDone, OnlyHand, Ended
  <2>5. CASE ControlStep
    BY <2>5 DEF ControlStep, UserPauses, UserStops, OtherTurnBegins, OnlyHand, Entry
  <2>6. QED
    BY <1>3, <2>1, <2>2, <2>3, <2>4, <2>5 DEF QuietStep, TailStep
<1>4. CASE Finishing
  <2>1. /\ Pos = index /\ Working /\ index \in Calls /\ index' = index /\ pc' = "next"
        /\ pc \in {"tail", "approval", "sent", "tool"}
    BY <1>4, FinishingFacts DEF Working, Ended
  <2>2. open \subseteq {index}
    BY <2>1 DEF OnlyHand
  <2>3. CASE RuleDenies
    <3>1. ~Entry(index)
      BY <2>1, <2>3, RuledIsNoRead, PosType DEF RuleDenies
    <3>2. open = {} /\ open' = open
      BY <2>2, <2>3, <3>1 DEF RuleDenies, Goes, OnlyHand
    <3>3. QED
      BY <2>1, <3>2 DEF OnlyHand
  <2>4. CASE ~RuleDenies
    <3>1. open' = open \ {index}
      BY <1>4, <2>4 DEF Finishing, Refuse, AnswerDenied, UserDenies, HookBlocks, Repetition,
                        ToolReturns, Consume, Finish
    <3>2. open' = {}
      BY <2>2, <3>1
    <3>3. QED
      BY <2>1, <3>2 DEF OnlyHand
  <2>5. QED
    BY <2>3, <2>4
<1>5. CASE Leaving
  <2>1. pc' \in {"stopped", "paused", "cancelled"} /\ pc \in {"tail", "approval", "sent", "tool"}
        /\ open \subseteq {index} /\ index \in Calls
    BY <1>5, LeavingFacts DEF OnlyHand
  <2>2. open' = {}
    <3>1. CASE StopAtCall \/ PauseAtCall \/ ApprovalInterrupted
      BY <2>1, <3>1 DEF StopAtCall, PauseAtCall, ApprovalInterrupted, OnlyHand, Unconsumed, Entry
    <3>2. CASE ToolInterrupted
      BY <2>1, <3>2 DEF ToolInterrupted
    <3>3. CASE Consume /\ prefetched[index] = "interrupted"
      BY <2>1, <3>3 DEF Consume, Unconsumed
    <3>4. QED
      BY <1>5, <3>1, <3>2, <3>3 DEF Leaving
  <2>3. QED
    BY <2>1, <2>2 DEF OnlyHand
<1>6. QED
  BY <1>1, <1>2, <1>3, <1>4, <1>5, FourKinds

LEMMA AllSettledKept ==
    ASSUME IInv, Next
    PROVE  AllSettled'
<1> USE DEF IInv
<1>1. CASE Leaving
  <2>1. /\ pc \in {"tail", "approval", "sent", "tool"} /\ Pos = index /\ Working /\ ran' = ran
        /\ \A c \in Calls : prefetched'[c] = "none"
        /\ \A c \in Calls : Entry(c) \/ (c = index /\ pc # "tail" /\ pc # "approval") =>
               \E i \in DOMAIN rows' : rows'[i].call = c
    BY <1>1, LeavingFacts DEF Working, Ended
  <2>2. ASSUME NEW c \in Calls, ran[c] > 0
        PROVE  \E i \in DOMAIN rows' : rows'[i].call = c
    <3>1. CASE c < index
      BY <2>1, <3>1, RowsKept DEF AnsweredBefore, Answered
    <3>2. CASE c >= index
      <4>1. Entry(c) \/ (pc = "tool" /\ c = index)
        BY <2>1, <2>2, <3>2 DEF NotRunYet, Entry
      <4>2. QED
        BY <2>1, <4>1
    <3>3. QED
      BY <3>1, <3>2, PosType
  <2>3. QED
    BY <2>1, <2>2 DEF AllSettled, Entry, Answered
<1>2. CASE Finishing \/ NextCall
  BY <1>2, FinishingFacts, NextCallFacts DEF AllSettled
<1>3. CASE MemberStep
  <2>1. \E c \in Calls : prefetched[c] \in {"queued", "flying"}
    BY <1>3 DEF MemberStep, MemberStarts, MemberRefused, MemberBlocked, MemberReturns,
                MemberInterrupted
  <2>2. pc = "group" /\ pc' = pc
    BY <1>3, <2>1, MemberFacts DEF GroupOnly
  <2>3. QED
    BY <2>2 DEF AllSettled
<1>4. CASE QuietStep
  <2>1. pc' \notin {"stopped", "paused", "cancelled"}
    BY <1>4 DEF QuietStep, TailStep, GroupReturns, Admit, Ask, UserAllows, Dispatch, InterfaceGone,
         BatchDone, ControlStep, UserPauses, UserStops, OtherTurnBegins, Ended
  <2>2. QED
    BY <2>1 DEF AllSettled
<1>5. QED
  BY <1>1, <1>2, <1>3, <1>4, FourKinds

-----------------------------------------------------------------------------
LEMMA Initially ==
    ASSUME Init
    PROVE  IInv
<1>1. /\ \A c \in Calls : prefetched[c] = "none" /\ came[c] = "none" /\ ran[c] = 0
      /\ pc = "next" /\ index = 0 /\ rows = << >> /\ denied = FALSE /\ open = {} /\ Pos = 1
  BY DEF Init, Pos
<1>2. Types
  <2>1. recent \in Seq(Keys) /\ Len(recent) <= 2
    <3>1. CASE recent = << >>
      BY <3>1
    <3>2. CASE \E k \in Keys : recent = <<k, k>>
      BY <3>2
    <3>3. QED
      BY <3>1, <3>2 DEF Init
  <2>2. rows \in Seq(Row)
    BY <1>1, EmptySeq
  <2>3. control \in [cancel : BOOLEAN, wake : BOOLEAN, pause : BOOLEAN]
    BY DEF Init
  <2>4. QED
    <3>1. /\ batch \in Batches /\ blocked \in SUBSET Keys /\ index \in 0..Size /\ pc \in Places
          /\ (pc # "next" => index >= 1) /\ (pc = "done" => index = Size)
          /\ open \in SUBSET Calls /\ denied \in BOOLEAN
      <4>1. batch \in Batches /\ blocked \in SUBSET Keys
        BY DEF Init
      <4>2. index \in 0..Size /\ pc \in Places /\ pc # "done"
        BY <1>1, ReadGroupAssumption DEF Places
      <4>3. QED
        BY <1>1, <4>1, <4>2
    <3>2. /\ prefetched \in [Calls -> {"none", "queued", "flying"} \cup Outcomes]
          /\ ran \in [Calls -> 0..1] /\ came \in [Calls -> {"none", "flying"} \cup Outcomes]
      BY DEF Init
    <3>3. QED
      BY <2>1, <2>2, <2>3, <3>1, <3>2 DEF Types
<1>3. AnsweredBefore /\ Leftover
  BY <1>1, PosType, <1>2, CallsFinite DEF AnsweredBefore, Leftover, Entry
<1>4. NoneAhead /\ Contiguous /\ GroupOnly /\ Passed /\ NotRunYet
  BY <1>1 DEF NoneAhead, Contiguous, GroupOnly, Passed, NotRunYet, Entry
<1>5. DeniedIsLast /\ NoRepetition /\ UncertainKnown /\ OnlyHand /\ AllSettled
  BY <1>1 DEF DeniedIsLast, NoRepetition, UncertainKnown, OnlyHand, AllSettled, Entry
<1>6. QED
  BY <1>2, <1>3, <1>4, <1>5 DEF IInv

LEMMA Kept ==
    ASSUME IInv, [Next]_vars
    PROVE  IInv'
<1>1. CASE Next
  <2>1. Types'
    BY <1>1, TypesKept DEF IInv
  <2>2. QED
    BY <1>1, <2>1, AnsweredBeforeKept, NoneAheadKept, ContiguousKept, GroupOnlyKept, PassedKept,
       NotRunYetKept, LeftoverKept, DeniedIsLastKept, NoRepetitionKept, UncertainKnownKept,
       OnlyHandKept, AllSettledKept DEF IInv
<1>2. CASE UNCHANGED vars
  <2>1. Types' /\ GroupOnly' /\ Passed' /\ OnlyHand'
    BY <1>2 DEF IInv, vars, Types, GroupOnly, Passed, OnlyHand, Entry
  <2>2. AnsweredBefore' /\ NoneAhead' /\ Contiguous' /\ NotRunYet' /\ DeniedIsLast' /\ AllSettled'
    BY <1>2 DEF IInv, vars, AnsweredBefore, NoneAhead, Contiguous, NotRunYet, DeniedIsLast,
                AllSettled, Pos, Working, Entry, Answered
  <2>3. Leftover' /\ UncertainKnown'
    BY <1>2 DEF IInv, vars, Leftover, UncertainKnown, Pos, Working, Entry, Hooked
  <2>4. NoRepetition'
    BY <1>2 DEF IInv, vars, NoRepetition, Pos, Working, Entry, Hooked, Simulated
  <2>5. QED
    BY <2>1, <2>2, <2>3, <2>4 DEF IInv
<1>3. QED
  BY <1>1, <1>2

(* The calls of every response satisfy the inductive invariant. *)
THEOREM Invariance == Spec => []IInv
<1>1. Init => IInv
  BY Initially
<1>2. IInv /\ [Next]_vars => IInv'
  BY Kept
<1>3. QED
  BY <1>1, <1>2, PTL DEF Spec

(* The variables have their types in every state of the loop over a        *)
(* response (TurnRounds::run).                                             *)
THEOREM TypeCorrect == Spec => []TypeOK
<1>1. IInv => TypeOK
  BY DEF IInv, Types, TypeOK, Row, Batches
<1>2. QED
  BY <1>1, Invariance, PTL

(* "Nothing is replayed": no call is dispatched both by its group and by    *)
(* the tail, whatever ends the loop and whatever the permission rules      *)
(* cover (settle_unconsumed_reads).                                        *)
THEOREM NoCallTwice == Spec => []NothingReplayed
<1>1. IInv => NothingReplayed
  BY DEF IInv, Types, NothingReplayed
<1>2. QED
  BY <1>1, Invariance, PTL

(* A loop that ends, but for an interface that is gone, has a row for every *)
(* call that ran and leaves no row streaming and no outcome waiting, where  *)
(* no permission rule covers a read (settle_unconsumed_reads).             *)
THEOREM EverythingSettled ==
    ASSUME ~RuledReads
    PROVE  Spec => []SettledOnce
<1>1. ASSUME IInv
      PROVE  SettledOnce
  <2>1. NothingReplayed
    BY <1>1 DEF IInv, Types, NothingReplayed
  <2>2. CASE pc \in {"stopped", "paused", "cancelled"}
    <3>1. open = {}
      BY <1>1, <2>2 DEF IInv, OnlyHand, Ended
    <3>2. QED
      BY <1>1, <2>1, <2>2, <3>1 DEF IInv, AllSettled, SettledOnce, Entry
  <2>3. CASE pc = "done"
    <3>1. open = {}
      BY <1>1, <2>3 DEF IInv, OnlyHand, Ended
    <3>2. \A c \in Calls : c < Pos
      BY <1>1, <2>3, ReadGroupAssumption DEF IInv, Types, Pos, Calls
    <3>3. \A c \in Calls : Answered(c) /\ (Entry(c) => Hooked(c))
      BY <1>1, <3>2 DEF IInv, AnsweredBefore, Leftover
    <3>4. QED
      BY <2>1, <2>3, <3>1, <3>3 DEF SettledOnce, Entry
  <2>4. CASE pc \notin Ended \ {"gone"}
    BY <2>1, <2>4 DEF SettledOnce
  <2>5. QED
    BY <2>2, <2>3, <2>4 DEF Ended
<1>2. QED
  BY <1>1, Invariance, PTL

(* Who dispatches a call: its group, or the tail. *)
LEMMA WhoDispatches ==
    ASSUME IInv, Next, NEW c \in Calls, ran'[c] # ran[c]
    PROVE  \/ prefetched[c] = "queued" /\ pc = "group" /\ c >= Pos
           \/ Dispatch /\ c = index /\ Pos = index
<1> USE DEF IInv
<1>1. CASE NextCall
  BY <1>1, NextCallFacts
<1>2. CASE MemberStep
  <2>1. prefetched[c] = "queued"
    BY <1>2, MemberFacts
  <2>2. QED
    BY <2>1 DEF GroupOnly, Pos
<1>3. CASE Dispatch
  BY <1>3 DEF Dispatch, Runs, Send, Types, Pos
<1>4. CASE QuietStep /\ ~Dispatch
  BY <1>4 DEF QuietStep, TailStep, GroupReturns, Admit, Ask, UserAllows, InterfaceGone, BatchDone,
              ControlStep, UserPauses, UserStops, OtherTurnBegins
<1>5. CASE Finishing
  BY <1>5, FinishingFacts
<1>6. CASE Leaving
  BY <1>6, LeavingFacts
<1>7. QED
  BY <1>1, <1>2, <1>3, <1>4, <1>5, <1>6, FourKinds

(* Dispatching ahead changes neither the order nor the gates of the calls:  *)
(* a call that is no grouped read waits for all before it, and no like of  *)
(* a call with an uncertain outcome is dispatched once it is known         *)
(* (read_group_end, prefetch_read_group).                                  *)
THEOREM DispatchesHold == Spec => DispatchHolds
<1>1. ASSUME IInv, Next
      PROVE  BarriersHold
  <2> USE DEF IInv
  <2>1. SUFFICES ASSUME NEW c \in Calls, ran'[c] # ran[c], NEW d \in 1..(c - 1)
                 PROVE  Answered(d) \/ (batch[c].read /\ batch[d].read)
    BY <1>1 DEF BarriersHold
  <2>2. d \in Calls /\ d < c
    BY <2>1, ReadGroupAssumption DEF Calls
  <2>3. CASE d < Pos
    BY <1>1, <2>2, <2>3 DEF AnsweredBefore
  <2>4. CASE d >= Pos
    <3>1. prefetched[c] = "queued" /\ pc = "group" /\ c >= Pos
      BY <1>1, <2>1, <2>2, <2>4, WhoDispatches, PosType
    <3>2. Entry(c) /\ Working
      BY <3>1 DEF Entry, Working, Ended
    <3>3. Entry(d) /\ batch[c].read
      BY <1>1, <2>2, <2>4, <3>1, <3>2 DEF Contiguous
    <3>4. batch[d].read
      BY <1>1, <2>2, <2>4, <3>2, <3>3 DEF Contiguous
    <3>5. QED
      BY <3>3, <3>4
  <2>5. QED
    BY <1>1, <2>2, <2>3, <2>4, PosType
<1>2. ASSUME IInv, Next
      PROVE  UncertainNotRepeated
  <2> USE DEF IInv
  <2>1. SUFFICES ASSUME NEW c \in Calls, NEW d \in Calls, ran'[c] # ran[c],
                        came[d] = "uncertain", batch[d].key = batch[c].key, ~Hooked(d)
                 PROVE  ~Answered(d) /\ batch[c].read /\ batch[d].read
    BY <1>1 DEF UncertainNotRepeated
  <2>2. CASE Dispatch /\ c = index /\ Pos = index
    <3>1. /\ pc = "sent" /\ ~Entry(index) /\ Working
      BY <2>2 DEF Dispatch, Runs, Entry, Working, Ended
    <3>2. ~denied /\ batch[index].key \notin blocked
      BY <1>2, <3>1 DEF Passed
    <3>3. d >= Pos /\ Entry(d)
      BY <1>2, <2>1, <2>2, <3>1, <3>2 DEF UncertainKnown, Entry
    <3>4. Entry(index)
      BY <1>2, <2>1, <2>2, <3>1, <3>3, PosType DEF Contiguous
    <3>5. QED
      BY <3>1, <3>4
  <2>3. CASE prefetched[c] = "queued" /\ pc = "group" /\ c >= Pos
    <3>1. ~denied /\ batch[c].key \notin blocked /\ Working /\ Entry(c)
      BY <1>2, <2>1, <2>3 DEF Passed, GroupOnly, Working, Ended, Entry
    <3>2. d >= Pos /\ Entry(d)
      BY <1>2, <2>1, <3>1 DEF UncertainKnown, Entry
    <3>3. batch[c].read /\ batch[d].read
      BY <1>2, <2>3, <3>1, <3>2 DEF Contiguous
    <3>4. ~Answered(d)
      BY <1>2, <3>1, <3>2, PosType DEF NoneAhead, Answered
    <3>5. QED
      BY <3>3, <3>4
  <2>4. QED
    BY <1>2, <2>1, <2>2, <2>3, WhoDispatches
<1>3. ASSUME IInv, [Next]_vars
      PROVE  [BarriersHold /\ UncertainNotRepeated]_vars
  BY <1>1, <1>2, <1>3
<1>4. QED
  BY <1>3, Invariance, PTL DEF Spec, DispatchHolds

=============================================================================
