--------------------------- MODULE Subagents_proofs ---------------------------
(* What holds for any number of children, calls, rounds and searches: the   *)
(* family of a turn keeps to the turn's budget, and a child that was        *)
(* interrupted begins at most one more call.                                *)
EXTENDS Subagents, Integers, TLAPS

Places == {"unused", "start", "top", "model", "calls", "approval", "dispatch", "tool",
           "search", "child", "gone", "retire", "save"}
Outs == {"none", "completed", "failed", "interrupted", "dropped", "lost"}
Kinds == {"inline", "background"}

Kids == [at : Places, kind : Kinds, host : Hosts, depth : Nat, round : Nat, left : Int,
         out : Outs, late : Nat]

TurnPlaces == {"idle", "loop", "search", "child", "branches", "down"}
Turns(P) == [at : P, kids : SUBSET Children, left : Int, num : Int]

KidsType ==
    /\ turn \in Turns(TurnPlaces)
    /\ kid \in [Children -> Kids]
    /\ stop \in [Children -> BOOLEAN] /\ used \in Nat /\ issued \in Nat

(* A call that began after the interrupt is the last: the flag is still set *)
(* wherever the child is next.                                              *)
LateStops ==
    \A c \in Children :
        kid[c].late = 0 \/ (kid[c].late = 1 /\ stop[c] /\ kid[c].at \in {"tool", "search", "child", "calls", "top"})

(* Whoever runs inline hangs below a call that waits for him.               *)
HungUp ==
    \A c \in Children : Lives(c) /\ Inline(c) =>
        \/ kid[c].host = Turn /\ turn.at = "child" /\ c \in turn.kids
        \/ /\ kid[c].host \in Children /\ At(kid[c].host, "child") /\ Inline(kid[c].host)
           /\ kid[c].depth = kid[kid[c].host].depth + 1

(* The turn and whoever runs inline below it share its cells.               *)
CellsShared ==
    /\ turn.at \notin {"idle", "down"} => Turn \in registered
    /\ \A c \in Children : Lives(c) /\ Inline(c) => {c, kid[c].host} \subseteq registered

BudgetKept == issued <= used /\ used <= MaxSearches

IInv == KidsType /\ LateStops /\ HungUp /\ CellsShared /\ BudgetKept

LEMMA InitIInv == Init => IInv
<1> SUFFICES ASSUME Init PROVE IInv
  OBVIOUS
<1> USE SubagentsAssumption DEF Init
<1>1. KidsType
  BY DEF KidsType, Turns, TurnPlaces, Kids, Places, Outs, Kinds, Hosts
<1>2. LateStops /\ HungUp /\ CellsShared /\ BudgetKept
  BY DEF LateStops, HungUp, CellsShared, BudgetKept, Lives
<1> QED BY <1>1, <1>2 DEF IInv

LEMMA Names ==
    /\ \A place \in {"unused", "start", "top", "model", "calls", "approval", "dispatch", "tool",
                      "search", "child", "gone", "retire", "save"} : place \in Places
    /\ \A out \in {"none", "completed", "failed", "interrupted", "dropped", "lost"} : out \in Outs
    /\ Turn \in Hosts /\ Children \subseteq Hosts
BY DEF Places, Outs, Hosts

LEMMA KidsSet ==
    ASSUME NEW P, NEW t \in Turns(P), NEW S \in SUBSET Children, NEW n \in Int
    PROVE  [t EXCEPT !.kids = S, !.left = n] \in Turns(P)
BY DEF Turns

TurnTo(t, place, S, n) == [t EXCEPT !.at = place, !.kids = S, !.left = n]

LEMMA TurnSet ==
    ASSUME NEW t \in Turns(TurnPlaces), NEW place \in TurnPlaces, NEW S \in SUBSET Children, NEW n \in Int
    PROVE  /\ TurnTo(t, place, S, n) \in Turns(TurnPlaces)
           /\ TurnTo(t, place, S, n).at = place /\ TurnTo(t, place, S, n).kids = S
<1>1. [t EXCEPT !.at = place] \in Turns(TurnPlaces)
  BY DEF Turns
<1>2. TurnTo(t, place, S, n) \in Turns(TurnPlaces)
  BY <1>1, KidsSet DEF TurnTo
<1> QED BY <1>2 DEF Turns, TurnTo

(* What becomes of a child in one step is the record of a child. *)
LEMMA KidLeft ==
    ASSUME NEW k \in Kids, NEW place \in Places, NEW n \in Int
    PROVE  [k EXCEPT !.at = place, !.left = n] \in Kids
BY DEF Kids

LEMMA KidRound ==
    ASSUME NEW k \in Kids, NEW place \in Places, NEW n \in Nat
    PROVE  [k EXCEPT !.at = place, !.round = n] \in Kids
BY DEF Kids

LEMMA KidLate ==
    ASSUME NEW k \in Kids, NEW place \in Places, NEW n \in Nat
    PROVE  [k EXCEPT !.at = place, !.late = n] \in Kids
BY DEF Kids

LEMMA KidOut ==
    ASSUME NEW k \in Kids, NEW place \in Places, NEW out \in Outs
    PROVE  [k EXCEPT !.at = place, !.out = out] \in Kids
BY DEF Kids

LEMMA KidLost == ASSUME NEW k \in Kids PROVE [k EXCEPT !.at = "retire", !.out = "lost"] \in Kids
<1>1. "retire" \in Places /\ "lost" \in Outs
  BY Names
<1> QED BY <1>1 DEF Kids

LEMMA KidEnds ==
    ASSUME NEW k \in Kids, NEW place \in Places, NEW out \in Outs
    PROVE  [k EXCEPT !.at = place, !.out = out, !.round = 0, !.left = 0, !.late = 0] \in Kids
<1>1. [k EXCEPT !.at = place, !.out = out] \in Kids
  BY KidOut
<1>2. \A r \in Kids : [r EXCEPT !.round = 0] \in Kids /\ [r EXCEPT !.left = 0] \in Kids
                      /\ [r EXCEPT !.late = 0] \in Kids
  BY DEF Kids
<1> QED BY <1>1, <1>2

LEMMA KidGone ==
    ASSUME NEW k \in Kids, NEW out \in Outs
    PROVE  Gone(k, out) \in Kids /\ Gone(k, out).at = "gone" /\ Gone(k, out).late = 0
           /\ Gone(k, out).kind = k.kind
<1>1. [k EXCEPT !.at = "gone", !.out = out] \in Kids
  BY KidOut, Names
<1>2. \A r \in Kids : [r EXCEPT !.round = 0] \in Kids /\ [r EXCEPT !.left = 0] \in Kids
                      /\ [r EXCEPT !.late = 0] \in Kids /\ [r EXCEPT !.host = Turn] \in Kids
                      /\ [r EXCEPT !.depth = 0] \in Kids
  BY Names DEF Kids
<1>3. Gone(k, out) \in Kids
  BY <1>1, <1>2 DEF Gone
<1> QED BY <1>3 DEF Gone, Kids

-----------------------------------------------------------------------------
(* The futures below a host. *)

(* Who runs inline below one of them, or below the host, is one of them.    *)
LEMMA BelowHolds ==
    ASSUME NEW h, NEW c \in Children, Lives(c), Inline(c), kid[c].host \in Below(h) \cup {h}
    PROVE  c \in Below(h)
BY DEF Below, Holds

LEMMA BelowKids == ASSUME NEW h PROVE Below(h) \subseteq Children
BY DEF Below

(* They are deeper than the host, so the host is none of them, nor is his.  *)
LEMMA BelowDeeper ==
    ASSUME IInv, NEW c \in Children
    PROVE  \A d \in Below(c) : d \in Children /\ kid[d].depth > kid[c].depth
<1> DEFINE S == {d \in Children : kid[d].depth > kid[c].depth}
<1>1. \A d \in Children : kid[d].depth \in Nat
  BY DEF IInv, KidsType, Kids
<1>2. Holds(S, c)
  BY <1>1, SubagentsAssumption DEF Holds, IInv, HungUp, Hosts
<1> QED BY <1>2 DEF Below

LEMMA NotBelow ==
    ASSUME IInv, NEW c \in Children
    PROVE  c \notin Below(c) /\ (Lives(c) /\ Inline(c) => kid[c].host \notin Below(c))
<1>1. \A d \in Children : kid[d].depth \in Nat
  BY DEF IInv, KidsType, Kids
<1> QED BY <1>1, BelowDeeper, SubagentsAssumption DEF IInv, HungUp

-----------------------------------------------------------------------------
(* A step of one child that keeps its calls: it goes on at another place,   *)
(* or ends.                                                                 *)
Onward(c) ==
    /\ kid' = [kid EXCEPT ![c] = kid'[c]] /\ kid'[c] \in Kids
    /\ kid[c].at \notin {"unused", "gone", "child"} /\ kid'[c].at \notin {"unused", "child"}
    /\ kid'[c].kind = kid[c].kind
    /\ kid'[c].at # "gone" => kid'[c].host = kid[c].host /\ kid'[c].depth = kid[c].depth

(* What a child that goes on has of his late calls. *)
LateOnward(c) ==
    \/ kid'[c].late = 0
    \/ kid'[c].late = kid[c].late /\ (kid[c].late = 1 => kid'[c].at \in {"calls", "top"})
    \/ kid[c].late = 0 /\ kid'[c].late = 1 /\ stop[c] /\ kid'[c].at \in {"tool", "search", "calls"}

LEMMA OnwardHangs ==
    ASSUME IInv, NEW c \in Children, Onward(c), turn' = turn
    PROVE  HungUp'
<1>1. /\ \A d \in Children \ {c} : kid'[d] = kid[d]
      /\ kid \in [Children -> Kids]
  BY DEF IInv, KidsType, Onward
<1>2. ASSUME NEW d \in Children, (Lives(d) /\ Inline(d))'
      PROVE  /\ Lives(d) /\ Inline(d) /\ kid'[d].host = kid[d].host /\ kid'[d].depth = kid[d].depth
  BY <1>1, <1>2 DEF Lives, Inline, Onward
<1>3. ASSUME NEW d \in Children, At(d, "child") PROVE d # c
  BY <1>3 DEF At, Onward
<1>4. ASSUME NEW d \in Children, (Lives(d) /\ Inline(d))'
      PROVE  \/ kid'[d].host = Turn /\ turn'.at = "child" /\ d \in turn'.kids
             \/ /\ kid'[d].host \in Children /\ At(kid[d].host, "child")' /\ Inline(kid[d].host)'
                /\ kid'[d].depth = kid'[kid'[d].host].depth + 1
  <2>1. CASE kid[d].host = Turn
    BY <1>2, <1>4, <2>1, SubagentsAssumption DEF IInv, HungUp
  <2>2. CASE kid[d].host # Turn
    BY <1>1, <1>2, <1>3, <1>4, <2>2 DEF IInv, HungUp, At, Inline
  <2> QED BY <2>1, <2>2
<1> QED BY <1>4 DEF HungUp

LEMMA OnwardKeeps ==
    ASSUME IInv, NEW c \in Children, Onward(c), LateOnward(c), turn' = turn,
           stop' = stop \/ (stop' = [stop EXCEPT ![c] = FALSE] /\ kid'[c].late = 0),
           registered' = registered \/ (registered' = registered \ {c} /\ kid[c].at = "save"
                                        /\ (Inline(c) => kid'[c].at = "gone")),
           BudgetKept', used' \in Nat, issued' \in Nat
    PROVE  IInv'
<1> USE DEF IInv
<1>1. /\ \A d \in Children \ {c} : kid'[d] = kid[d]
      /\ kid \in [Children -> Kids]
  BY DEF KidsType, Onward
<1>2. KidsType'
  BY DEF KidsType, Onward
<1>3. LateStops'
  <2>1. ASSUME NEW d \in Children, d # c, kid[d].late = 0
        PROVE  kid'[d].late = 0
    BY <1>1, <2>1
  <2>2. ASSUME NEW d \in Children, d # c, kid[d].late = 1, stop[d]
        PROVE  kid'[d] = kid[d] /\ stop'[d]
    BY <1>1, <2>2 DEF KidsType
  <2>3. kid'[c].late = 0 \/ stop' = stop
    OBVIOUS
  <2> QED BY <2>1, <2>2, <2>3 DEF LateStops, LateOnward
<1>4. HungUp'
  BY OnwardHangs
<1>5. CellsShared'
  <2>1. ASSUME NEW d \in Children, (Lives(d) /\ Inline(d))' PROVE {d, kid'[d].host} \subseteq registered'
    <3>1. /\ Lives(d) /\ Inline(d) /\ kid'[d].host = kid[d].host
      BY <1>1, <2>1 DEF Lives, Inline, Onward
    <3>2. {d, kid[d].host} \subseteq registered
      BY <3>1 DEF CellsShared
    <3>3. CASE kid[c].at = "save" /\ (Inline(c) => kid'[c].at = "gone") /\ registered' = registered \ {c}
      <4>1. kid[d].host # c
        BY <3>1, <3>3, SubagentsAssumption DEF HungUp, At
      <4>2. d # c
        BY <2>1, <3>1, <3>3 DEF Lives
      <4> QED BY <3>1, <3>2, <3>3, <4>1, <4>2
    <3> QED BY <3>1, <3>2, <3>3
  <2>2. turn'.at \notin {"idle", "down"} => Turn \in registered'
    BY SubagentsAssumption DEF CellsShared
  <2> QED BY <2>1, <2>2 DEF CellsShared
<1> QED BY <1>2, <1>3, <1>4, <1>5

(* Every step of a child that neither begins nor loses another is one.      *)
LEMMA ChildOnward ==
    ASSUME IInv, NEW c \in Children,
           \/ CoreFails(c) \/ Starts(c) \/ BeginsRound(c) \/ Answers(c) \/ TakesCall(c) \/ NextRound(c)
           \/ Approved(c) \/ Denied(c) \/ ApprovalTimesOut(c) \/ BeginsLocalTool(c) \/ ToolReturns(c)
           \/ SearchAnswers(c)
    PROVE  IInv'
<1> USE DEF IInv
<1>1. kid \in [Children -> Kids] /\ kid[c] \in Kids /\ used \in Nat /\ issued \in Nat
  BY DEF KidsType
<1>2. \A out \in {"completed", "failed", "interrupted"} :
        /\ Ended(c, out) \in Kids /\ Ended(c, out).at \in Settling /\ Ended(c, out).late = 0
        /\ Ended(c, out).kind = kid[c].kind /\ Ended(c, out).host = kid[c].host
        /\ Ended(c, out).depth = kid[c].depth
  <2>1. {"completed", "failed", "interrupted"} \subseteq Outs /\ {"retire", "save"} \subseteq Places
    BY DEF Outs, Places
  <2>2. \A out \in Outs, place \in {"retire", "save"} :
          [kid[c] EXCEPT !.at = place, !.out = out, !.round = 0, !.left = 0, !.late = 0] \in Kids
    BY <1>1, <2>1, KidEnds
  <2> QED BY <1>1, <2>1, <2>2 DEF Ended, Kids, Settling
<1>3. ASSUME NEW out \in {"completed", "failed", "interrupted"}, Ends(c, out),
             kid[c].at \notin {"unused", "gone", "child"}
      PROVE  Onward(c) /\ LateOnward(c)
  BY <1>1, <1>2, <1>3 DEF Ends, Onward, LateOnward, Settling
<1>4. ASSUME NEW place \in {"top", "model", "calls", "approval", "dispatch"}, Goes(c, place),
             kid[c].at \notin {"unused", "gone", "child"}, kid[c].late = 0
      PROVE  Onward(c) /\ LateOnward(c)
  <2>1. [kid[c] EXCEPT !.at = place] \in Kids
    BY <1>1, Names DEF Kids
  <2> QED BY <1>1, <1>4, <2>1 DEF Goes, Onward, LateOnward, Kids
<1>5. ASSUME CallDone(c), kid[c].at \notin {"unused", "gone", "child"}
      PROVE  Onward(c) /\ LateOnward(c)
  <2>1. [kid[c] EXCEPT !.at = "calls", !.left = @ - 1] \in Kids
    <3>1. kid[c].left - 1 \in Int
      BY <1>1 DEF Kids
    <3> QED BY <1>1, <3>1, KidLeft, Names
  <2> QED BY <1>1, <1>5, <2>1 DEF CallDone, Onward, LateOnward, Kids
<1>6. ASSUME NEW place \in {"tool", "search"}, Begins(c, place), kid[c].at = "dispatch"
      PROVE  Onward(c) /\ LateOnward(c)
  <2>1. kid[c].late = 0 /\ Late(c) = IF stop[c] THEN 1 ELSE 0
    BY <1>6 DEF LateStops, Late
  <2>2. [kid[c] EXCEPT !.at = place, !.late = Late(c)] \in Kids
    <3>1. Late(c) \in Nat /\ place \in Places
      BY <2>1, Names
    <3> QED BY <1>1, <3>1, KidLate
  <2> QED BY <1>1, <1>6, <2>1, <2>2 DEF Begins, Onward, LateOnward, Kids
<1>7. kid[c].at \notin {"tool", "search", "child", "calls", "top"} => kid[c].late = 0
  BY DEF LateStops
<1>8. kid[c].late = 1 => stop[c]
  BY DEF LateStops
<1>9. Onward(c) /\ LateOnward(c)
  <2>1. CASE CoreFails(c)
    <3>1. [kid[c] EXCEPT !.at = "retire", !.out = "lost"] \in Kids
      BY <1>1, KidLost
    <3>2. kid' = [kid EXCEPT ![c] = [kid[c] EXCEPT !.at = "retire", !.out = "lost"]] /\ kid[c].at = "start"
      BY <1>1, <2>1 DEF CoreFails, At
    <3>3. /\ kid'[c] = [kid[c] EXCEPT !.at = "retire", !.out = "lost"]
          /\ kid'[c].at = "retire" /\ kid'[c].kind = kid[c].kind /\ kid'[c].host = kid[c].host
          /\ kid'[c].depth = kid[c].depth /\ kid'[c].late = kid[c].late
      BY <1>1, <3>2 DEF Kids
    <3> QED BY <1>1, <1>7, <3>1, <3>2, <3>3 DEF Onward, LateOnward
  <2>2. CASE Starts(c)
    BY <1>3, <1>4, <1>7, <2>2 DEF Starts, At
  <2>3. CASE BeginsRound(c)
    <3>1. ~IsSet(c) => kid[c].late = 0
      BY <1>1, <1>8 DEF LateStops, IsSet
    <3> QED BY <1>3, <1>4, <2>3, <3>1 DEF BeginsRound, At
  <2>4. CASE Answers(c)
    <3>1. ASSUME NEW n \in 1..MaxCalls, kid' = [kid EXCEPT ![c].at = "calls", ![c].left = n], At(c, "model")
          PROVE  Onward(c) /\ LateOnward(c)
      <4>1. [kid[c] EXCEPT !.at = "calls", !.left = n] \in Kids
        <5>1. n \in Int /\ "calls" \in Places
          BY Names
        <5> QED BY <1>1, <5>1, KidLeft
      <4> QED BY <1>1, <3>1, <4>1 DEF At, Onward, LateOnward, Kids
    <3> QED BY <1>3, <2>4, <3>1 DEF Answers, At
  <2>5. CASE TakesCall(c)
    <3>1. ~IsSet(c) => kid[c].late = 0
      BY <1>1, <1>8 DEF LateStops, IsSet
    <3> QED BY <1>3, <1>4, <1>5, <2>5, <3>1 DEF TakesCall, CallHead, At
  <2>6. CASE NextRound(c)
    <3>1. ASSUME kid' = [kid EXCEPT ![c].at = "top", ![c].round = @ + 1], At(c, "calls")
          PROVE  Onward(c) /\ LateOnward(c)
      <4>1. [kid[c] EXCEPT !.at = "top", !.round = @ + 1] \in Kids
        <5>1. kid[c].round + 1 \in Nat
          BY <1>1 DEF Kids
        <5> QED BY <1>1, <5>1, KidRound, Names
      <4> QED BY <1>1, <3>1, <4>1 DEF At, Onward, LateOnward, Kids
    <3> QED BY <1>3, <2>6, <3>1 DEF NextRound, At
  <2>7. CASE Approved(c)
    BY <1>4, <1>7, <2>7 DEF Approved, At
  <2>8. CASE Denied(c) \/ ApprovalTimesOut(c)
    BY <1>5, <2>8 DEF Denied, ApprovalTimesOut, At
  <2>9. CASE BeginsLocalTool(c)
    BY <1>6, <2>9 DEF BeginsLocalTool, At
  <2>10. CASE ToolReturns(c)
    BY <1>3, <1>5, <2>10 DEF ToolReturns, At
  <2>11. CASE SearchAnswers(c)
    BY <1>5, <2>11 DEF SearchAnswers, At
  <2> QED BY <2>1, <2>2, <2>3, <2>4, <2>5, <2>6, <2>7, <2>8, <2>9, <2>10, <2>11
<1>10. UNCHANGED <<turn, registry, registered, used, issued>>
  BY DEF CoreFails, Starts, BeginsRound, Answers, TakesCall, NextRound, Approved, Denied, ApprovalTimesOut,
         BeginsLocalTool, ToolReturns, SearchAnswers, Rest, budget, history
<1>11. BudgetKept' /\ stop' = stop
  BY <1>10 DEF BudgetKept, registry
<1> QED BY <1>1, <1>9, <1>10, <1>11, OnwardKeeps

(* The cells are charged before a search goes out. *)
LEMMA SearchesKeeps == ASSUME IInv, NEW c \in Children, Searches(c) PROVE IInv'
<1> USE DEF IInv
<1>1. kid \in [Children -> Kids] /\ kid[c] \in Kids /\ used \in Nat /\ issued \in Nat
  BY DEF KidsType
<1>2. kid[c].at = "dispatch" /\ kid[c].late = 0 /\ Late(c) = IF stop[c] THEN 1 ELSE 0
  BY DEF Searches, At, LateStops, Late
<1>3. [kid[c] EXCEPT !.at = "search", !.late = Late(c)] \in Kids
      /\ [kid[c] EXCEPT !.at = "calls", !.left = @ - 1] \in Kids
  <2>1. kid[c].left - 1 \in Int /\ Late(c) \in Nat
    BY <1>1, <1>2 DEF Kids
  <2> QED BY <1>1, <2>1, KidLeft, KidLate, Names
<1>4. Onward(c) /\ LateOnward(c)
  <2>1. CASE CallDone(c)
    BY <1>1, <1>2, <1>3, <2>1 DEF CallDone, Onward, LateOnward, Kids
  <2>2. CASE Begins(c, "search")
    BY <1>1, <1>2, <1>3, <2>2 DEF Begins, Onward, LateOnward, Kids
  <2> QED BY <2>1, <2>2 DEF Searches
<1>5. kid[c].host \in registered
  BY <1>2 DEF CellsShared, Lives, Searches
<1>6. BudgetKept' /\ used' \in Nat /\ issued' \in Nat
  BY <1>1, <1>5, SubagentsAssumption DEF Searches, BudgetKept
<1> QED BY <1>1, <1>4, <1>6, OnwardKeeps DEF Searches, registry

LEMMA EndKeeps == ASSUME IInv, NEW c \in Children, Retires(c) \/ Settles(c) PROVE IInv'
<1> USE DEF IInv
<1>1. kid \in [Children -> Kids] /\ kid[c] \in Kids /\ used \in Nat /\ issued \in Nat
  BY DEF KidsType
<1>2. kid[c].at \in Settling /\ kid[c].late = 0
  BY DEF Retires, Settles, At, Settling, LateStops
<1>3. /\ Gone(kid[c], kid[c].out) \in Kids /\ Gone(kid[c], kid[c].out).at = "gone"
      /\ Gone(kid[c], kid[c].out).late = 0 /\ Gone(kid[c], kid[c].out).kind = kid[c].kind
  <2>1. kid[c].out \in Outs
    BY <1>1 DEF Kids
  <2> QED BY <1>1, <2>1, KidGone
<1>4. \A place \in Settling : [kid[c] EXCEPT !.at = place] \in Kids
  BY <1>1, Names DEF Kids, Settling
<1>5. Onward(c) /\ LateOnward(c) /\ kid'[c].late = 0 /\ (kid[c].at = "save" /\ Inline(c) => kid'[c].at = "gone")
  <2>1. CASE kid' = [kid EXCEPT ![c] = Gone(kid[c], kid[c].out)]
    BY <1>1, <1>2, <1>3, <2>1 DEF Onward, LateOnward, Settling
  <2>2. CASE Goes(c, "save") /\ kid[c].at = "retire"
    BY <1>1, <1>2, <1>4, <2>2 DEF Goes, Onward, LateOnward, Settling, Kids
  <2>3. CASE Goes(c, "retire") /\ ~Inline(c)
    BY <1>1, <1>2, <1>4, <2>3 DEF Goes, Onward, LateOnward, Settling, Kids
  <2> QED BY <2>1, <2>2, <2>3 DEF Retires, Settles, At
<1>6. UNCHANGED <<turn, used, issued>> /\ BudgetKept'
  BY DEF Retires, Settles, budget, history, BudgetKept
<1>7. stop' = stop \/ stop' = [stop EXCEPT ![c] = FALSE]
  BY DEF Retires, Settles, registry
<1>8. registered' = registered \/ (registered' = registered \ {c} /\ kid[c].at = "save")
  BY DEF Retires, Settles, budget, At
<1> QED BY <1>1, <1>5, <1>6, <1>7, <1>8, OnwardKeeps

-----------------------------------------------------------------------------
(* Whoever runs inline below a host is dropped, and his cells with him.     *)
Spared(S) ==
    /\ kid' \in [Children -> Kids]
    /\ \A d \in Children \cap S : kid'[d].at = "gone" /\ kid'[d].late = 0
    /\ \A d \in Children \ S : kid'[d] = kid[d]

LEMMA DroppedSpares ==
    ASSUME IInv, NEW S
    PROVE  /\ Dropped(kid, S) \in [Children -> Kids]
           /\ \A d \in Children \cap S : Dropped(kid, S)[d].at = "gone" /\ Dropped(kid, S)[d].late = 0
           /\ \A d \in Children \ S : Dropped(kid, S)[d] = kid[d]
<1>1. kid \in [Children -> Kids]
  BY DEF IInv, KidsType
<1>2. "dropped" \in Outs
  BY Names
<1>3. \A d \in Children : Gone(kid[d], "dropped") \in Kids /\ Gone(kid[d], "dropped").at = "gone"
                          /\ Gone(kid[d], "dropped").late = 0
  BY <1>1, <1>2, KidGone
<1> QED BY <1>1, <1>3 DEF Dropped

(* A child whose calls are dropped goes on, or ends. *)
LEMMA ChildDrops ==
    ASSUME IInv, NEW c \in Children, Interrupted(c) \/ ChildReturns(c) PROVE IInv'
<1> DEFINE B == Below(c)
           k == IF Interrupted(c) THEN Ended(c, "interrupted")
                ELSE [kid[c] EXCEPT !.at = "calls", !.left = @ - 1]
<1> USE DEF IInv
<1>1. /\ c \notin B /\ (Lives(c) /\ Inline(c) => kid[c].host \notin B) /\ kid \in [Children -> Kids]
      /\ Lives(c)
  BY NotBelow DEF KidsType, Interrupted, ChildReturns, Waits, At, Lives
<1>2. /\ k \in Kids /\ k.at \in {"retire", "save", "calls"} /\ k.kind = kid[c].kind
      /\ k.host = kid[c].host /\ k.depth = kid[c].depth
      /\ k.late = 0 \/ (k.late = kid[c].late /\ k.at = "calls")
  <2>1. CASE Interrupted(c)
    <3>1. \A place \in {"retire", "save"} :
            [kid[c] EXCEPT !.at = place, !.out = "interrupted", !.round = 0, !.left = 0, !.late = 0] \in Kids
      BY <1>1, KidEnds, Names
    <3>2. k \in Kids
      BY <2>1, <3>1 DEF Ended
    <3> QED BY <2>1, <3>2 DEF Ended, Kids
  <2>2. CASE ~Interrupted(c)
    <3>1. kid[c].left - 1 \in Int
      BY <1>1 DEF Kids
    <3>2. k \in Kids
      BY <1>1, <2>2, <3>1, KidLeft, Names
    <3> QED BY <2>2, <3>2 DEF Kids
  <2> QED BY <2>1, <2>2
<1>3. kid' = [Dropped(kid, B) EXCEPT ![c] = k]
  <2>1. CASE Interrupted(c)
    BY <2>1 DEF Interrupted
  <2>2. CASE ~Interrupted(c)
    BY <2>2 DEF ChildReturns
  <2> QED BY <2>1, <2>2
<1> HIDE DEF k
<1>4. /\ kid' \in [Children -> Kids] /\ kid'[c] = k
      /\ \A d \in Children \cap B : kid'[d].at = "gone" /\ kid'[d].late = 0
      /\ \A d \in Children \ (B \cup {c}) : kid'[d] = kid[d]
  BY <1>1, <1>2, <1>3, DroppedSpares
<1>5. UNCHANGED <<turn, stop, used, issued>> /\ registered' = registered \ B
  BY DEF Interrupted, ChildReturns, registry, history
<1>6. KidsType'
  BY <1>4, <1>5 DEF KidsType
<1>7. LateStops'
  BY <1>2, <1>4, <1>5 DEF LateStops
<1>8. ASSUME NEW d \in Children, (Lives(d) /\ Inline(d))'
      PROVE  /\ Lives(d) /\ Inline(d) /\ kid'[d].host = kid[d].host /\ kid'[d].depth = kid[d].depth
             /\ d \notin B /\ kid[d].host \notin B \cup {c}
  <2>1. d \notin B /\ Lives(d) /\ Inline(d) /\ kid'[d].host = kid[d].host /\ kid'[d].depth = kid[d].depth
    BY <1>1, <1>2, <1>4, <1>8 DEF Lives, Inline
  <2> QED BY <2>1, BelowHolds
<1>9. HungUp'
  <2>1. ASSUME NEW d \in Children, (Lives(d) /\ Inline(d))'
        PROVE  \/ kid'[d].host = Turn /\ turn'.at = "child" /\ d \in turn'.kids
               \/ /\ kid'[d].host \in Children /\ At(kid[d].host, "child")' /\ Inline(kid[d].host)'
                  /\ kid'[d].depth = kid'[kid'[d].host].depth + 1
    <3>1. CASE kid[d].host = Turn
      BY <1>5, <1>8, <2>1, <3>1, SubagentsAssumption DEF HungUp
    <3>2. CASE kid[d].host # Turn
      <4>1. kid[d].host \in Children \ (B \cup {c})
        BY <1>8, <2>1, <3>2 DEF HungUp
      <4> QED BY <1>4, <1>8, <2>1, <3>2, <4>1 DEF HungUp, At, Inline
    <3> QED BY <3>1, <3>2
  <2> QED BY <2>1 DEF HungUp
<1>10. CellsShared'
  <2>1. Turn \notin B
    BY BelowKids, SubagentsAssumption
  <2> QED BY <1>5, <1>8, <2>1 DEF CellsShared
<1>11. BudgetKept'
  BY <1>5 DEF BudgetKept
<1> QED BY <1>6, <1>7, <1>9, <1>10, <1>11

(* A call of the turn is interrupted, or times out. *)
LEMMA TurnDrops == ASSUME IInv, TurnInterrupted \/ CallTimesOut PROVE IInv'
<1> DEFINE B == Below(Turn)
<1> USE DEF IInv
<1>1. /\ kid' \in [Children -> Kids]
      /\ \A d \in Children \cap B : kid'[d].at = "gone" /\ kid'[d].late = 0
      /\ \A d \in Children \ B : kid'[d] = kid[d]
  BY DroppedSpares DEF TurnInterrupted, CallTimesOut
<1>2. /\ stop' = stop /\ turn' \in Turns(TurnPlaces) /\ turn'.at \in {"idle", "loop"}
      /\ registered \ (B \cup {Turn}) \subseteq registered'
      /\ turn'.at = "loop" => registered' = registered \ B /\ turn.at \notin {"idle", "down"}
  <2>1. turn.at \notin {"idle", "down"}
    BY DEF TurnInterrupted, CallTimesOut, InCall
  <2>2. {"idle", "loop"} \subseteq TurnPlaces /\ {} \in SUBSET Children /\ 0 \in Int
    BY DEF TurnPlaces
  <2>3. \A place \in {"idle", "loop"} :
          TurnTo(turn, place, {}, 0) \in Turns(TurnPlaces) /\ TurnTo(turn, place, {}, 0).at = place
    BY <2>2, TurnSet DEF KidsType
  <2>4. CASE TurnInterrupted
    BY <2>1, <2>3, <2>4 DEF TurnInterrupted, TurnEnds, registry, TurnTo
  <2>5. CASE CallTimesOut
    BY <2>1, <2>3, <2>5 DEF CallTimesOut, registry, TurnTo
  <2> QED BY <2>4, <2>5
<1>3. BudgetKept' /\ used' \in Nat /\ issued' \in Nat
  BY SubagentsAssumption DEF TurnInterrupted, CallTimesOut, TurnEnds, BudgetKept, KidsType
<1>4. KidsType'
  BY <1>1, <1>2, <1>3 DEF KidsType
<1>5. LateStops'
  BY <1>1, <1>2 DEF LateStops
<1>6. ASSUME NEW d \in Children, (Lives(d) /\ Inline(d))'
      PROVE  /\ Lives(d) /\ Inline(d) /\ kid'[d] = kid[d] /\ d \notin B /\ kid[d].host \notin B \cup {Turn}
  <2>1. d \notin B /\ kid'[d] = kid[d]
    BY <1>1, <1>6 DEF Lives
  <2>2. Lives(d) /\ Inline(d)
    BY <1>6, <2>1 DEF Lives, Inline
  <2> QED BY <2>1, <2>2, BelowHolds
<1>7. HungUp'
  BY <1>1, <1>6 DEF HungUp, At, Inline
<1>8. CellsShared'
  <2>1. Turn \notin B
    BY BelowKids, SubagentsAssumption
  <2> QED BY <1>2, <1>6, <2>1, SubagentsAssumption DEF CellsShared
<1> QED BY <1>3, <1>4, <1>5, <1>7, <1>8

-----------------------------------------------------------------------------
(* Whoever runs inline for the turn itself. *)
Waited(d) == Lives(d) /\ Inline(d) /\ kid[d].host = Turn

(* Children are begun by a host. *)
BornOf(S, h, kind) ==
    /\ S \subseteq Unused /\ kid' \in [Children -> Kids]
    /\ \A d \in S : /\ kid'[d].at = "start" /\ kid'[d].kind = kind /\ kid'[d].host = h
                    /\ kid'[d].depth = Depth(h) + 1 /\ kid'[d].late = 0
    /\ \A d \in Children \ (S \cup {h}) : kid'[d] = kid[d]
    /\ h \in Children =>
         /\ kid[h].at = "dispatch" /\ Inline(h) /\ kid'[h].kind = "inline"
         /\ kid'[h].host = kid[h].host /\ kid'[h].depth = kid[h].depth
         /\ kid'[h].at = (IF kind = "inline" THEN "child" ELSE "calls")
         /\ kid'[h].late = 0 \/ (kid'[h].late = 1 /\ stop[h])

LEMMA BornKeeps ==
    ASSUME IInv, NEW S, NEW h \in Hosts, NEW kind \in Kinds, BornOf(S, h, kind),
           turn' \in Turns(TurnPlaces), turn' = turn \/ \A d \in Children : ~Waited(d),
           kind = "inline" /\ h = Turn => turn'.at = "child" /\ S \subseteq turn'.kids,
           registered \subseteq registered', kind = "inline" => S \cup {h} \subseteq registered',
           turn'.at \notin {"idle", "down"} => turn.at \notin {"idle", "down"},
           UNCHANGED <<stop, used, issued>>
    PROVE  IInv'
<1> USE DEF IInv
<1>1. /\ S \subseteq Children /\ h \notin S /\ Turn \notin Children
      /\ \A d \in Children \ (S \cup {h}) : kid'[d] = kid[d]
      /\ \A d \in Children : kid[d].at \notin {"unused", "dispatch"} => d \notin S \cup {h}
  BY SubagentsAssumption DEF BornOf, Unused, Hosts
<1>2. KidsType'
  BY DEF KidsType, BornOf
<1>3. LateStops'
  BY <1>1 DEF LateStops, BornOf
<1>4. ASSUME NEW d \in Children, d \notin S, (Lives(d) /\ Inline(d))'
      PROVE  /\ Lives(d) /\ Inline(d) /\ kid'[d].host = kid[d].host /\ kid'[d].depth = kid[d].depth
  BY <1>1, <1>4 DEF Lives, Inline, BornOf
<1>5. HungUp'
  <2>1. ASSUME NEW d \in Children, (Lives(d) /\ Inline(d))'
        PROVE  \/ kid'[d].host = Turn /\ turn'.at = "child" /\ d \in turn'.kids
               \/ /\ kid'[d].host \in Children /\ At(kid[d].host, "child")' /\ Inline(kid[d].host)'
                  /\ kid'[d].depth = kid'[kid'[d].host].depth + 1
    <3>1. CASE d \in S
      <4>1. kind = "inline" /\ kid'[d].host = h
        BY <2>1, <3>1 DEF BornOf, Inline
      <4>2. CASE h = Turn
        BY <3>1, <4>1, <4>2
      <4>3. CASE h # Turn
        BY <3>1, <4>1, <4>3 DEF BornOf, Hosts, At, Inline, Depth
      <4> QED BY <4>2, <4>3
    <3>2. CASE d \notin S /\ kid[d].host = Turn
      BY <1>1, <1>4, <2>1, <3>2 DEF HungUp, Waited
    <3>3. CASE d \notin S /\ kid[d].host # Turn
      BY <1>1, <1>4, <2>1, <3>3 DEF HungUp, At, Inline
    <3> QED BY <3>1, <3>2, <3>3
  <2> QED BY <2>1 DEF HungUp
<1>6. CellsShared'
  <2>1. ASSUME NEW d \in Children, (Lives(d) /\ Inline(d))' PROVE {d, kid'[d].host} \subseteq registered'
    <3>1. CASE d \in S
      BY <2>1, <3>1 DEF BornOf, Inline
    <3>2. CASE d \notin S
      BY <1>4, <2>1, <3>2 DEF CellsShared
    <3> QED BY <3>1, <3>2
  <2> QED BY <2>1 DEF CellsShared
<1>7. BudgetKept'
  BY DEF BudgetKept
<1> QED BY <1>2, <1>3, <1>5, <1>6, <1>7

LEMMA BornKid ==
    ASSUME IInv, NEW h \in Hosts, NEW kind \in Kinds
    PROVE  /\ Born(kind, h) \in Kids /\ Born(kind, h).at = "start" /\ Born(kind, h).kind = kind
           /\ Born(kind, h).host = h /\ Born(kind, h).depth = Depth(h) + 1 /\ Born(kind, h).late = 0
<1>1. Depth(h) + 1 \in Nat
  BY DEF IInv, KidsType, Kids, Hosts, Depth
<1>2. "start" \in Places /\ "none" \in Outs
  BY Names
<1> QED BY <1>1, <1>2 DEF Born, Kids

(* The turn begins one, or some. *)
LEMMA TurnBears ==
    ASSUME IInv, TurnSpawnsBackground \/ TurnCallsChild \/ TurnCallsBranches \/ NextStage PROVE IInv'
<1> USE DEF IInv
<1>1. kid \in [Children -> Kids] /\ turn \in Turns(TurnPlaces) /\ Turn \in Hosts /\ Turn \notin Children
      /\ "inline" \in Kinds /\ "background" \in Kinds
  BY SubagentsAssumption DEF KidsType, Hosts, Kinds
<1>2. \A d \in Children : ~Waited(d)
  <2>1. turn.at = "loop" \/ (turn.at = "child" /\ \A d \in turn.kids : kid[d].at = "gone")
    BY DEF TurnSpawnsBackground, TurnCallsChild, TurnCallsBranches, NextStage, At
  <2> QED BY <2>1, SubagentsAssumption DEF HungUp, Waited, Lives
<1>3. turn.at \notin {"idle", "down"} /\ Turn \in registered
  BY DEF TurnSpawnsBackground, TurnCallsChild, TurnCallsBranches, NextStage, CellsShared
<1>4. UNCHANGED <<stop, used, issued>>
  BY DEF TurnSpawnsBackground, TurnCallsChild, TurnCallsBranches, NextStage, Spawned, budget, history
<1>5. ASSUME NEW S \in SUBSET Unused, NEW kind \in Kinds,
             kid' = [d \in Children |-> IF d \in S THEN Born(kind, Turn) ELSE kid[d]]
      PROVE  BornOf(S, Turn, kind)
  <2>1. S \subseteq Unused /\ S \subseteq Children /\ Born(kind, Turn) \in Kids
    BY <1>1, BornKid DEF Unused
  <2>2. /\ kid' \in [Children -> Kids] /\ \A d \in S : kid'[d] = Born(kind, Turn)
        /\ \A d \in Children \ (S \cup {Turn}) : kid'[d] = kid[d]
    BY <1>1, <1>5, <2>1
  <2>3. /\ Born(kind, Turn).at = "start" /\ Born(kind, Turn).kind = kind /\ Born(kind, Turn).host = Turn
        /\ Born(kind, Turn).depth = Depth(Turn) + 1 /\ Born(kind, Turn).late = 0
    BY <1>1, BornKid
  <2>4. \A d \in S : /\ kid'[d].at = "start" /\ kid'[d].kind = kind /\ kid'[d].host = Turn
                    /\ kid'[d].depth = Depth(Turn) + 1 /\ kid'[d].late = 0
    BY <2>2, <2>3
  <2>5. Turn \notin Children
    BY <1>1
  <2> QED BY <2>1, <2>2, <2>4, <2>5 DEF BornOf
<1>6. CASE TurnSpawnsBackground
  <2>1. PICK d \in Unused : kid' = [kid EXCEPT ![d] = Born("background", Turn)]
    BY <1>6 DEF TurnSpawnsBackground
  <2>2. BornOf({d}, Turn, "background")
    BY <1>1, <1>5, <2>1
  <2> QED BY <1>1, <1>2, <1>3, <1>4, <1>6, <2>2, BornKeeps DEF TurnSpawnsBackground, budget
<1>7. CASE TurnCallsBranches
  <2>1. PICK S \in SUBSET Unused \ {{}} :
          /\ kid' = [c \in Children |-> IF c \in S THEN Born("background", Turn) ELSE kid[c]]
          /\ turn' = [turn EXCEPT !.at = "branches", !.kids = S]
    BY <1>7 DEF TurnCallsBranches
  <2>2. BornOf(S, Turn, "background")
    BY <1>1, <1>5, <2>1
  <2>3. turn' \in Turns(TurnPlaces)
    BY <1>1, <2>1 DEF Turns, TurnPlaces, Unused
  <2> QED BY <1>1, <1>2, <1>3, <1>4, <1>7, <2>2, <2>3, BornKeeps DEF TurnCallsBranches, budget
<1>8. CASE TurnCallsChild \/ NextStage
  <2>1. PICK d \in Unused :
          /\ kid' = [kid EXCEPT ![d] = Born("inline", Turn)] /\ registered' = Bound(d, Turn)
          /\ \/ \E stages \in 0..(MaxStages - 1) : turn' = [turn EXCEPT !.at = "child", !.kids = {d}, !.left = stages]
             \/ turn.at = "child" /\ turn' = [turn EXCEPT !.kids = {d}, !.left = @ - 1]
    BY <1>8 DEF TurnCallsChild, NextStage
  <2>2. BornOf({d}, Turn, "inline")
    BY <1>1, <1>5, <2>1
  <2>3. turn' \in Turns(TurnPlaces) /\ turn'.at = "child" /\ turn'.kids = {d}
    <3>1. {d} \in SUBSET Children /\ "child" \in TurnPlaces
      BY DEF Unused, TurnPlaces
    <3>2. ASSUME NEW n \in Int, turn' = [turn EXCEPT !.at = "child", !.kids = {d}, !.left = n]
          PROVE  turn' \in Turns(TurnPlaces) /\ turn'.at = "child" /\ turn'.kids = {d}
      <4>1. /\ TurnTo(turn, "child", {d}, n) \in Turns(TurnPlaces)
            /\ TurnTo(turn, "child", {d}, n).at = "child" /\ TurnTo(turn, "child", {d}, n).kids = {d}
        BY <1>1, <3>1, TurnSet
      <4>2. turn' = TurnTo(turn, "child", {d}, n)
        BY <3>2 DEF TurnTo
      <4> QED BY <4>1, <4>2
    <3>3. ASSUME turn.at = "child", turn' = [turn EXCEPT !.kids = {d}, !.left = @ - 1]
          PROVE  turn' \in Turns(TurnPlaces) /\ turn'.at = "child" /\ turn'.kids = {d}
      <4>1. turn.left - 1 \in Int
        BY <1>1 DEF Turns
      <4>2. [turn EXCEPT !.kids = {d}, !.left = turn.left - 1] \in Turns(TurnPlaces)
        BY <1>1, <3>1, <4>1, KidsSet
      <4> QED BY <1>1, <3>3, <4>2 DEF Turns
    <3>4. \A stages \in 0..(MaxStages - 1) : stages \in Int
      OBVIOUS
    <3> QED BY <2>1, <3>2, <3>3, <3>4
  <2>4. registered' = registered \cup {d}
    BY <1>3, <2>1 DEF Bound
  <2> QED BY <1>1, <1>2, <1>3, <1>4, <2>2, <2>3, <2>4, BornKeeps
<1> QED BY <1>6, <1>7, <1>8

(* A child begins one, and waits for it or not. *)
LEMMA ChildBears ==
    ASSUME IInv, NEW c \in Children, BeginsChild(c) \/ BeginsBackground(c) PROVE IInv'
<1> USE DEF IInv
<1>1. /\ kid \in [Children -> Kids] /\ kid[c] \in Kids /\ turn \in Turns(TurnPlaces) /\ c \in Hosts
      /\ "inline" \in Kinds /\ "background" \in Kinds
  BY DEF KidsType, Hosts, Kinds
<1>2. /\ kid[c].at = "dispatch" /\ Inline(c) /\ c \notin Unused /\ c \in registered /\ c # Turn
  BY SubagentsAssumption DEF BeginsChild, BeginsBackground, At, Unused, CellsShared, Lives
<1>3. kid[c].late = 0 /\ Late(c) = IF stop[c] THEN 1 ELSE 0
  BY <1>2 DEF LateStops, Late
<1>4. UNCHANGED <<stop, used, issued, turn>>
  BY DEF BeginsChild, BeginsBackground, Spawned, budget, history
<1>5. ASSUME NEW d \in Unused, NEW kind \in Kinds, NEW k \in Kids,
             kid' = [kid EXCEPT ![c] = k, ![d] = Born(kind, c)],
             k.kind = kid[c].kind, k.host = kid[c].host, k.depth = kid[c].depth, k.late = Late(c),
             k.at = (IF kind = "inline" THEN "child" ELSE "calls")
      PROVE  BornOf({d}, c, kind)
  <2>1. d \in Children /\ d # c
    BY <1>2 DEF Unused
  <2>2. /\ kid' \in [Children -> Kids] /\ kid'[c] = k /\ kid'[d] = Born(kind, c)
        /\ \A e \in Children \ {c, d} : kid'[e] = kid[e]
    BY <1>1, <1>5, <2>1, BornKid
  <2> QED BY <1>1, <1>2, <1>3, <1>5, <2>1, <2>2, BornKid DEF BornOf, Inline
<1>6. CASE BeginsChild(c)
  <2> DEFINE k == [kid[c] EXCEPT !.at = "child", !.late = Late(c)]
  <2>1. PICK d \in Unused : kid' = [kid EXCEPT ![c] = k, ![d] = Born("inline", c)] /\ registered' = Bound(d, c)
    BY <1>6 DEF BeginsChild
  <2>2. k \in Kids
    <3>1. Late(c) \in Nat /\ "child" \in Places
      BY <1>3, Names
    <3> QED BY <1>1, <3>1, KidLate
  <2>3. k.kind = kid[c].kind /\ k.host = kid[c].host /\ k.depth = kid[c].depth /\ k.late = Late(c) /\ k.at = "child"
    BY <1>1 DEF Kids
  <2> HIDE DEF k
  <2>4. BornOf({d}, c, "inline")
    BY <1>1, <1>5, <2>1, <2>2, <2>3
  <2>5. registered' = registered \cup {d}
    BY <1>2, <2>1 DEF Bound
  <2> QED BY <1>1, <1>2, <1>4, <2>4, <2>5, BornKeeps
<1>7. CASE BeginsBackground(c)
  <2> DEFINE k == [kid[c] EXCEPT !.at = "calls", !.left = @ - 1, !.late = Late(c)]
  <2>1. PICK d \in Unused : kid' = [kid EXCEPT ![c] = k, ![d] = Born("background", c)]
    BY <1>7 DEF BeginsBackground
  <2>2. k \in Kids
    <3>1. [kid[c] EXCEPT !.at = "calls", !.left = @ - 1] \in Kids
      <4>1. kid[c].left - 1 \in Int
        BY <1>1 DEF Kids
      <4> QED BY <1>1, <4>1, KidLeft, Names
    <3>2. \A r \in Kids : [r EXCEPT !.late = Late(c)] \in Kids
      BY <1>3 DEF Kids
    <3> QED BY <3>1, <3>2
  <2>3. k.kind = kid[c].kind /\ k.host = kid[c].host /\ k.depth = kid[c].depth /\ k.late = Late(c) /\ k.at = "calls"
    BY <1>1 DEF Kids
  <2> HIDE DEF k
  <2>4. BornOf({d}, c, "background")
    BY <1>1, <1>5, <2>1, <2>2, <2>3
  <2>5. registered' = registered
    BY <1>7 DEF BeginsBackground, budget
  <2> QED BY <1>1, <1>2, <1>4, <2>4, <2>5, BornKeeps
<1> QED BY <1>6, <1>7

-----------------------------------------------------------------------------
(* A step of the turn or of the user that leaves the children alone.        *)
LEMMA QuietKeeps ==
    ASSUME IInv, kid' = kid, turn' \in Turns(TurnPlaces), stop' \in [Children -> BOOLEAN],
           \A c \in Children : stop[c] => stop'[c],
           turn' = turn \/ \A d \in Children : ~Waited(d),
           \/ registered \subseteq registered'
           \/ registered \ {Turn} \subseteq registered' /\ \A d \in Children : ~Waited(d),
           turn'.at \notin {"idle", "down"} => Turn \in registered',
           BudgetKept', used' \in Nat, issued' \in Nat
    PROVE  IInv'
<1> USE DEF IInv
<1>1. KidsType'
  BY DEF KidsType
<1>2. LateStops'
  BY DEF LateStops
<1>3. \A d \in Children : (Lives(d) <=> Lives(d)') /\ (Inline(d) <=> Inline(d)')
                          /\ (At(d, "child") <=> At(d, "child")')
  BY DEF Lives, Inline, At
<1>4. HungUp'
  BY SubagentsAssumption DEF HungUp, Waited, Lives, Inline, At
<1>5. CellsShared'
  BY <1>3, SubagentsAssumption DEF CellsShared, Waited
<1> QED BY <1>1, <1>2, <1>4, <1>5

LEMMA QuietSteps ==
    ASSUME IInv,
           \/ BeginTurn \/ EndTurn \/ TurnSearches \/ SearchReturns \/ CallReturns
           \/ BranchesReturn \/ BranchesCancelled \/ Stop \/ OtherTurnBegins
           \/ \E c \in Children : Interrupt(c)
    PROVE  IInv'
<1> USE DEF IInv
<1>1. /\ turn \in Turns(TurnPlaces) /\ stop \in [Children -> BOOLEAN] /\ used \in Nat /\ issued \in Nat
      /\ MaxSearches \in Nat
  BY SubagentsAssumption DEF KidsType
<1>2. \/ turn.at = "child" /\ \E c \in turn.kids : kid[c].at # "gone"
      \/ \A d \in Children : ~Waited(d)
  BY SubagentsAssumption DEF HungUp, Waited, Lives
<1>3. /\ \A place \in TurnPlaces : [turn EXCEPT !.at = place] \in Turns(TurnPlaces)
                                  /\ [turn EXCEPT !.at = place].at = place
      /\ \A place \in TurnPlaces : [turn EXCEPT !.at = place, !.kids = {}] \in Turns(TurnPlaces)
                                  /\ [turn EXCEPT !.at = place, !.kids = {}].at = place
      /\ \A place \in TurnPlaces : [turn EXCEPT !.at = place, !.num = @ + 1] \in Turns(TurnPlaces)
                                  /\ [turn EXCEPT !.at = place, !.num = @ + 1].at = place
      /\ \A place \in TurnPlaces : TurnTo(turn, place, {}, 0) \in Turns(TurnPlaces)
                                  /\ TurnTo(turn, place, {}, 0).at = place
  <2>1. {} \in SUBSET Children /\ 0 \in Int /\ turn.num + 1 \in Int
    BY <1>1 DEF Turns
  <2>2. \A place \in TurnPlaces : [turn EXCEPT !.at = place] \in Turns(TurnPlaces)
                                  /\ [turn EXCEPT !.at = place].at = place
    BY <1>1 DEF Turns
  <2>3. \A t \in Turns(TurnPlaces) : [t EXCEPT !.kids = {}] \in Turns(TurnPlaces)
                                     /\ [t EXCEPT !.kids = {}].at = t.at
    BY <2>1 DEF Turns
  <2>4. \A t \in Turns(TurnPlaces) : [t EXCEPT !.num = turn.num + 1] \in Turns(TurnPlaces)
                                     /\ [t EXCEPT !.num = turn.num + 1].at = t.at
    BY <2>1 DEF Turns
  <2>5. \A place \in TurnPlaces : [turn EXCEPT !.at = place, !.kids = {}] \in Turns(TurnPlaces)
                                  /\ [turn EXCEPT !.at = place, !.kids = {}].at = place
    BY <2>2, <2>3
  <2>6. \A place \in TurnPlaces : [turn EXCEPT !.at = place, !.num = @ + 1] \in Turns(TurnPlaces)
                                  /\ [turn EXCEPT !.at = place, !.num = @ + 1].at = place
    BY <2>2, <2>4
  <2>7. \A place \in TurnPlaces : TurnTo(turn, place, {}, 0) \in Turns(TurnPlaces)
                                  /\ TurnTo(turn, place, {}, 0).at = place
    BY <1>1, <2>1, TurnSet
  <2> QED BY <2>2, <2>5, <2>6, <2>7
<1>4. {"idle", "loop", "search"} \subseteq TurnPlaces
  BY DEF TurnPlaces
<1>5. CASE BeginTurn
  BY <1>1, <1>2, <1>3, <1>4, <1>5, QuietKeeps DEF BeginTurn, registry, history, BudgetKept
<1>6. CASE EndTurn
  <2>1. turn'.at = "idle" /\ turn' \in Turns(TurnPlaces) /\ turn.at = "loop"
    <3>1. turn' = TurnTo(turn, "idle", {}, 0) /\ turn.at = "loop"
      BY <1>6 DEF EndTurn, TurnEnds, TurnTo
    <3> QED BY <1>3, <1>4, <3>1
  <2>2. UNCHANGED <<kid, stop>> /\ registered' = registered \ {Turn} /\ used' = 0 /\ issued' = 0
    BY <1>6 DEF EndTurn, TurnEnds, registry
  <2>3. BudgetKept'
    BY <1>1, <2>2 DEF BudgetKept
  <2> QED BY <1>1, <1>2, <2>1, <2>2, <2>3, QuietKeeps
<1>7. CASE TurnSearches
  <2>1. turn'.at = "search" /\ turn' \in Turns(TurnPlaces) /\ turn.at = "loop"
    BY <1>3, <1>4, <1>7 DEF TurnSearches
  <2>2. UNCHANGED <<kid, stop, registered>> /\ used' = used + 1 /\ issued' = issued + 1 /\ used < MaxSearches
    BY <1>7 DEF TurnSearches, registry
  <2>3. BudgetKept' /\ Turn \in registered'
    BY <1>1, <2>1, <2>2 DEF BudgetKept, CellsShared
  <2> QED BY <1>1, <1>2, <2>1, <2>2, <2>3, QuietKeeps
<1>8. CASE SearchReturns
  BY <1>1, <1>2, <1>3, <1>4, <1>8, QuietKeeps DEF SearchReturns, registry, BudgetKept, CellsShared
<1>9. CASE CallReturns
  <2>1. turn' = TurnTo(turn, "loop", {}, 0) /\ turn.at = "child" /\ \A c \in turn.kids : kid[c].at = "gone"
    BY <1>9 DEF CallReturns, TurnTo, At
  <2>2. turn' \in Turns(TurnPlaces)
    BY <1>3, <1>4, <2>1
  <2>3. UNCHANGED <<kid, stop, registered, used, issued>>
    BY <1>9 DEF CallReturns, registry, budget, history
  <2>4. BudgetKept' /\ Turn \in registered'
    BY <2>1, <2>3 DEF BudgetKept, CellsShared
  <2> QED BY <1>1, <1>2, <2>1, <2>2, <2>3, <2>4, QuietKeeps
<1>10. CASE BranchesReturn
  BY <1>1, <1>2, <1>3, <1>4, <1>10, QuietKeeps DEF BranchesReturn, registry, budget, history, BudgetKept, CellsShared
<1>11. CASE BranchesCancelled
  BY <1>1, <1>2, <1>3, <1>4, <1>11, QuietKeeps DEF BranchesCancelled, budget, history, BudgetKept, CellsShared
<1>12. CASE Stop \/ OtherTurnBegins
  BY <1>1, <1>12, QuietKeeps DEF Stop, OtherTurnBegins, registry, budget, history, BudgetKept, CellsShared
<1>13. CASE \E c \in Children : Interrupt(c)
  BY <1>1, <1>13, QuietKeeps DEF Interrupt, budget, history, BudgetKept, CellsShared
<1> QED BY <1>5, <1>6, <1>7, <1>8, <1>9, <1>10, <1>11, <1>12, <1>13

LEMMA CrashKeeps == ASSUME IInv, Crash PROVE IInv'
<1> USE DEF IInv
<1>1. /\ kid' \in [Children -> Kids]
      /\ \A d \in Children \ Unused : kid'[d].at = "gone" /\ kid'[d].late = 0
      /\ \A d \in Unused : kid'[d] = kid[d] /\ d \in Children
  BY DroppedSpares DEF Crash, Unused
<1>2. turn' \in Turns(TurnPlaces) /\ turn'.at = "down"
  <2>1. {} \in SUBSET Children /\ 0 \in Int /\ "down" \in TurnPlaces
    BY DEF TurnPlaces
  <2>2. turn' = TurnTo(turn, "down", {}, 0) /\ turn \in Turns(TurnPlaces)
    BY DEF Crash, KidsType, TurnTo
  <2> QED BY <2>1, <2>2, TurnSet
<1>3. KidsType' /\ BudgetKept'
  <2>1. used' = 0 /\ issued' = 0 /\ stop' \in [Children -> BOOLEAN] /\ MaxSearches \in Nat
    BY SubagentsAssumption DEF Crash
  <2> QED BY <1>1, <1>2, <2>1 DEF KidsType, BudgetKept
<1>4. \A d \in Children : ~Lives(d)' /\ kid'[d].late = 0
  BY <1>1 DEF Lives, Unused, LateStops
<1>5. LateStops' /\ HungUp' /\ CellsShared'
  BY <1>2, <1>4 DEF LateStops, HungUp, CellsShared
<1> QED BY <1>3, <1>5

LEMMA NextIInv == IInv /\ [Next]_vars => IInv'
<1> SUFFICES ASSUME IInv, [Next]_vars PROVE IInv'
  OBVIOUS
<1>1. CASE Crash
  BY <1>1, CrashKeeps
<1>2. ASSUME NEW c \in Children, ChildStep(c) \/ Approved(c) \/ Denied(c) PROVE IInv'
  BY <1>2, ChildOnward, SearchesKeeps, EndKeeps, ChildDrops, ChildBears DEF ChildStep
<1>3. CASE TurnStep
  BY <1>3, QuietSteps, TurnBears, TurnDrops DEF TurnStep
<1>4. CASE UserStep
  BY <1>2, <1>4, QuietSteps DEF UserStep
<1>5. CASE UNCHANGED vars
  <2>1. /\ turn' = turn /\ kid' = kid /\ stop' = stop /\ registered' = registered
        /\ used' = used /\ issued' = issued
    BY <1>5 DEF vars, registry, budget, history
  <2>2. used' \in Nat /\ issued' \in Nat /\ turn' \in Turns(TurnPlaces) /\ stop' \in [Children -> BOOLEAN]
    BY <2>1 DEF IInv, KidsType
  <2> QED BY <2>1, <2>2, QuietKeeps DEF IInv, BudgetKept, CellsShared
<1> QED BY <1>1, <1>2, <1>3, <1>4, <1>5 DEF Next

(* The invariant of the family of a turn, for any number of children.       *)
THEOREM Invariance == Spec => []IInv
BY InitIInv, NextIInv, PTL DEF Spec

(* A turn and all inline children below it send no more searches than the   *)
(* budget of the turn allows, however their calls are interrupted, time out *)
(* or nest (continuation.rs admit_tool, bind_child_to_parent).              *)
THEOREM BudgetOfFamily == Spec => []FamilyBudget
<1>1. IInv => FamilyBudget
  BY SubagentsAssumption DEF IInv, KidsType, BudgetKept, FamilyBudget
<1> QED BY <1>1, Invariance, PTL

(* An interrupted child begins at most the one call that its select polled  *)
(* first (drive_child, drive_detached).                                     *)
THEOREM InterruptEndsChild == Spec => []InterruptStopsChild
<1>1. IInv => InterruptStopsChild
  BY DEF IInv, LateStops, InterruptStopsChild
<1> QED BY <1>1, Invariance, PTL
=============================================================================
