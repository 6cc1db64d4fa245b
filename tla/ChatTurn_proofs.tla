--------------------------- MODULE ChatTurn_proofs ---------------------------
(* Proofs about ChatTurn: IInv is inductive, and with EndInv it says how    *)
(* turns end.                                                               *)
EXTENDS ChatTurn, TLAPS

(* A step of turn c's own task, seen from outside: only the entries of c    *)
(* change, they stay typed and in place, and the turn keeps its generation. *)
LocalStep(c) ==
    /\ turn'[c] \in Turn /\ turn' = [turn EXCEPT ![c] = turn'[c]]
    /\ saved'[c] \in Saved /\ saved' = [saved EXCEPT ![c] = saved'[c]]
    /\ TurnInv(turn'[c], saved'[c])
    /\ turn[c].pc # "idle"
    /\ turn'[c].pc = "idle" \/ turn'[c].gen = turn[c].gen

(* The names of the places a turn can be at. *)
LEMMA PlaceNames ==
    \A p \in {"idle", "assemble", "context", "saverun", "snapshot", "top", "model",
             "calls", "permit", "approval", "admit", "mark", "dispatch", "tool",
             "record", "settle", "close"} : p \in Places
BY DEF Places

(* transition_to yields a run state. *)
LEMMA MovedTyped ==
    ASSUME NEW s \in RunStates \cup {NoRun}, NEW t \in RunStates
    PROVE  Moved(s, t) \in RunStates \cup {NoRun}
BY DEF Moved

(* The run states the code names. *)
LEMMA RunNames ==
    /\ ActiveRunStates \cup TerminalRunStates \subseteq RunStates
    /\ \A x \in {"preparing", "generating", "awaiting_approval", "executing_tools",
                 "preparing_next_round", "completed", "cancelled"} : x \in RunStates
BY DEF RunStates, ActiveRunStates, TerminalRunStates

(* How each action below is shown to be a LocalStep: t and u are the new    *)
(* values of the turn and of its rows.                                      *)
LEMMA LocalUpdate ==
    ASSUME TypeOK, NEW c \in Conversations, NEW t \in Turn, NEW u \in Saved,
           turn' = [turn EXCEPT ![c] = t], saved' = [saved EXCEPT ![c] = u],
           TurnInv(t, u), t.pc = "idle" \/ t.gen = turn[c].gen, turn[c].pc # "idle"
    PROVE  LocalStep(c)
BY DEF LocalStep, TypeOK

(* The edges of can_transition_to the loop relies on: none of its           *)
(* transitions is refused.                                                  *)
LEMMA MovedEdges ==
    /\ Moved("preparing", "generating") = "generating"
    /\ Moved("preparing_next_round", "generating") = "generating"
    /\ Moved("generating", "awaiting_approval") = "awaiting_approval"
    /\ Moved("executing_tools", "awaiting_approval") = "awaiting_approval"
    /\ Moved("generating", "preparing_next_round") = "preparing_next_round"
    /\ Moved("executing_tools", "preparing_next_round") = "preparing_next_round"
    /\ Moved("generating", "executing_tools") = "executing_tools"
    /\ Moved("awaiting_approval", "executing_tools") = "executing_tools"
    /\ Moved("executing_tools", "executing_tools") = "executing_tools"
BY DEF Moved, CanTransition, IsTerminal, TerminalRunStates, WorkEdges

(* Every step of the preparation keeps the turn's invariant. *)
LEMMA PrepareStep ==
    ASSUME TypeOK, NEW c \in Conversations, TurnInv(turn[c], saved[c]), Prepare(c)
    PROVE  LocalStep(c)
<1>0. turn[c] \in Turn /\ saved[c] \in Saved /\ saved = [saved EXCEPT ![c] = saved[c]]
  BY DEF TypeOK
<1>1. CASE CancelledBeforeSave(c)
  <2> DEFINE t == NoTurn
  <2>1. turn[c].pc \in {"assemble", "context"}
    BY <1>1 DEF CancelledBeforeSave, At, LeaveEarly
  <2>2. turn' = [turn EXCEPT ![c] = t]
    BY <1>1 DEF CancelledBeforeSave, At, LeaveEarly, TypeOK
  <2>3. saved' = [saved EXCEPT ![c] = saved[c]]
    BY <1>0, <1>1 DEF CancelledBeforeSave, At, LeaveEarly, TypeOK, shared
  <2>4. t \in Turn /\ saved[c] \in Saved
    BY <1>0, <2>1, PlaceNames, BoundsAssumption DEF Turn, Saved, NoTurn
  <2>5. TurnInv(t, saved[c]) /\ (t.pc = "idle" \/ t.gen = turn[c].gen) /\ turn[c].pc # "idle"
    BY <1>0, <2>1 DEF TurnInv, PlaceRounds, PlaceDecision, PlaceEnd, PlaceRow,
       PlaceRun, InCall, Turn, Saved, NoTurn
  <2> HIDE DEF t
  <2>6. QED
    BY <1>0, <2>2, <2>3, <2>4, <2>5, LocalUpdate
<1>2. CASE Assemble(c)
  <2> DEFINE t == [turn[c] EXCEPT !.pc = "context"]
  <2>1. turn[c].pc = "assemble"
    BY <1>2 DEF Assemble, At
  <2>2. turn' = [turn EXCEPT ![c] = t]
    BY <1>2 DEF Assemble, At, TypeOK
  <2>3. saved' = [saved EXCEPT ![c] = saved[c]]
    BY <1>0, <1>2 DEF Assemble, At, TypeOK, shared
  <2>4. t \in Turn /\ saved[c] \in Saved
    BY <1>0, <2>1, PlaceNames DEF Turn, Saved
  <2>5. TurnInv(t, saved[c]) /\ (t.pc = "idle" \/ t.gen = turn[c].gen) /\ turn[c].pc # "idle"
    BY <1>0, <2>1 DEF TurnInv, PlaceRounds, PlaceDecision, PlaceEnd, PlaceRow,
       PlaceRun, InCall, Turn, Saved
  <2> HIDE DEF t
  <2>6. QED
    BY <1>0, <2>2, <2>3, <2>4, <2>5, LocalUpdate
<1>3. CASE SaveMessages(c)
  <2> DEFINE t == [turn[c] EXCEPT !.pc = "saverun"]
             u == [saved[c] EXCEPT !.msg = "streaming", !.row = "none"]
  <2>1. turn[c].pc = "context"
    BY <1>3 DEF SaveMessages, At
  <2>2. turn' = [turn EXCEPT ![c] = t]
    BY <1>3 DEF SaveMessages, At, TypeOK
  <2>3. saved' = [saved EXCEPT ![c] = u]
    BY <1>3 DEF SaveMessages, At, TypeOK, shared
  <2>4. t \in Turn /\ u \in Saved
    BY <1>0, <2>1, PlaceNames DEF Turn, Saved
  <2>5. TurnInv(t, u) /\ (t.pc = "idle" \/ t.gen = turn[c].gen) /\ turn[c].pc # "idle"
    BY <1>0, <2>1 DEF TurnInv, PlaceRounds, PlaceDecision, PlaceEnd, PlaceRow,
       PlaceRun, InCall, Turn, Saved
  <2> HIDE DEF t, u
  <2>6. QED
    BY <1>0, <2>2, <2>3, <2>4, <2>5, LocalUpdate
<1>4. CASE SaveRun(c)
  <2> DEFINE t == [turn[c] EXCEPT !.pc = "snapshot", !.mem = "preparing"]
             u == [saved[c] EXCEPT !.run = "preparing"]
  <2>1. turn[c].pc = "saverun"
    BY <1>4 DEF SaveRun, At
  <2>2. turn' = [turn EXCEPT ![c] = t]
    BY <1>4 DEF SaveRun, At, TypeOK
  <2>3. saved' = [saved EXCEPT ![c] = u]
    BY <1>4 DEF SaveRun, At, TypeOK, shared
  <2>4. t \in Turn /\ u \in Saved
    BY <1>0, <2>1, PlaceNames, MovedTyped, RunNames DEF Turn, Saved
  <2>5. TurnInv(t, u) /\ (t.pc = "idle" \/ t.gen = turn[c].gen) /\ turn[c].pc # "idle"
    BY <1>0, <2>1 DEF TurnInv, PlaceRounds, PlaceDecision, PlaceEnd, PlaceRow,
       PlaceRun, InCall, Turn, Saved
  <2> HIDE DEF t, u
  <2>6. QED
    BY <1>0, <2>2, <2>3, <2>4, <2>5, LocalUpdate
<1>5. CASE SnapshotTaken(c)
  <2> DEFINE t == [turn[c] EXCEPT !.pc = "top"]
  <2>1. turn[c].pc = "snapshot"
    BY <1>5 DEF SnapshotTaken, At
  <2>2. turn' = [turn EXCEPT ![c] = t]
    BY <1>5 DEF SnapshotTaken, At, TypeOK
  <2>3. saved' = [saved EXCEPT ![c] = saved[c]]
    BY <1>0, <1>5 DEF SnapshotTaken, At, TypeOK, shared
  <2>4. t \in Turn /\ saved[c] \in Saved
    BY <1>0, <2>1, PlaceNames DEF Turn, Saved
  <2>5. TurnInv(t, saved[c]) /\ (t.pc = "idle" \/ t.gen = turn[c].gen) /\ turn[c].pc # "idle"
    BY <1>0, <2>1, BoundsAssumption DEF TurnInv, PlaceRounds, PlaceDecision, PlaceEnd,
       PlaceRow, PlaceRun, InCall, Turn, Saved
  <2> HIDE DEF t
  <2>6. QED
    BY <1>0, <2>2, <2>3, <2>4, <2>5, LocalUpdate
<1> QED
  BY <1>1, <1>2, <1>3, <1>4, <1>5 DEF Prepare

(* So does every early end. *)
LEMMA MishapStep ==
    ASSUME TypeOK, NEW c \in Conversations, TurnInv(turn[c], saved[c]), Mishap(c)
    PROVE  LocalStep(c)
<1>0. turn[c] \in Turn /\ saved[c] \in Saved /\ saved = [saved EXCEPT ![c] = saved[c]]
  BY DEF TypeOK
<1>1. CASE PreparationFails(c)
  <2> DEFINE t == NoTurn
  <2>1. turn[c].pc \in {"assemble", "context"}
    BY <1>1 DEF PreparationFails, At, LeaveEarly
  <2>2. turn' = [turn EXCEPT ![c] = t]
    BY <1>1 DEF PreparationFails, At, LeaveEarly, TypeOK
  <2>3. saved' = [saved EXCEPT ![c] = saved[c]]
    BY <1>0, <1>1 DEF PreparationFails, At, LeaveEarly, TypeOK, shared
  <2>4. t \in Turn /\ saved[c] \in Saved
    BY <1>0, <2>1, PlaceNames, BoundsAssumption DEF Turn, Saved, NoTurn
  <2>5. TurnInv(t, saved[c]) /\ (t.pc = "idle" \/ t.gen = turn[c].gen) /\ turn[c].pc # "idle"
    BY <1>0, <2>1 DEF TurnInv, PlaceRounds, PlaceDecision, PlaceEnd, PlaceRow,
       PlaceRun, InCall, Turn, Saved, NoTurn
  <2> HIDE DEF t
  <2>6. QED
    BY <1>0, <2>2, <2>3, <2>4, <2>5, LocalUpdate
<1>2. CASE SnapshotFails(c)
  <2> DEFINE t == NoTurn
  <2>1. turn[c].pc = "snapshot"
    BY <1>2 DEF SnapshotFails, At, LeaveEarly
  <2>2. turn' = [turn EXCEPT ![c] = t]
    BY <1>2 DEF SnapshotFails, At, LeaveEarly, TypeOK
  <2>3. saved' = [saved EXCEPT ![c] = saved[c]]
    BY <1>0, <1>2 DEF SnapshotFails, At, LeaveEarly, TypeOK, shared
  <2>4. t \in Turn /\ saved[c] \in Saved
    BY <1>0, <2>1, PlaceNames, BoundsAssumption DEF Turn, Saved, NoTurn
  <2>5. TurnInv(t, saved[c]) /\ (t.pc = "idle" \/ t.gen = turn[c].gen) /\ turn[c].pc # "idle"
    BY <1>0, <2>1 DEF TurnInv, PlaceRounds, PlaceDecision, PlaceEnd, PlaceRow,
       PlaceRun, InCall, Turn, Saved, NoTurn
  <2> HIDE DEF t
  <2>6. QED
    BY <1>0, <2>2, <2>3, <2>4, <2>5, LocalUpdate
<1>3. CASE InterfaceGone(c)
  <2> DEFINE t == [turn[c] EXCEPT !.pc = "settle", !.result = "error",
                                  !.approval = "none"]
  <2>1. turn[c].pc \in {"approval", "mark", "dispatch"}
    BY <1>3 DEF InterfaceGone, At
  <2>2. turn' = [turn EXCEPT ![c] = t]
    BY <1>3 DEF InterfaceGone, At, TypeOK
  <2>3. saved' = [saved EXCEPT ![c] = saved[c]]
    BY <1>0, <1>3 DEF InterfaceGone, At, TypeOK, shared
  <2>4. t \in Turn /\ saved[c] \in Saved
    BY <1>0, PlaceNames DEF Turn, Saved
  <2>5. TurnInv(t, saved[c]) /\ (t.pc = "idle" \/ t.gen = turn[c].gen) /\ turn[c].pc # "idle"
    BY <1>0, <2>1 DEF TurnInv, PlaceRounds, PlaceDecision, PlaceEnd, PlaceRow,
       PlaceRun, InCall, Turn, Saved
  <2> HIDE DEF t
  <2>6. QED
    BY <1>0, <2>2, <2>3, <2>4, <2>5, LocalUpdate
<1> QED
  BY <1>1, <1>2, <1>3 DEF Mishap

(* So does every step of a model round. *)
LEMMA ModelRoundStep ==
    ASSUME TypeOK, NEW c \in Conversations, TurnInv(turn[c], saved[c]), ModelRound(c)
    PROVE  LocalStep(c)
<1>0. turn[c] \in Turn /\ saved[c] \in Saved /\ saved = [saved EXCEPT ![c] = saved[c]]
  BY DEF TypeOK
<1>1. CASE RoundStopped(c)
  <2>1. CASE turn[c].round = MaxRounds
    <3> DEFINE t == [turn[c] EXCEPT !.pc = "settle", !.result = "error"]
    <3>1. turn[c].pc = "top"
      BY <1>1, <2>1 DEF RoundStopped, At, Leave
    <3>2. turn' = [turn EXCEPT ![c] = t]
      BY <1>1, <2>1 DEF RoundStopped, At, Leave, TypeOK
    <3>3. saved' = [saved EXCEPT ![c] = saved[c]]
      BY <1>0, <1>1, <2>1 DEF RoundStopped, At, Leave, TypeOK, shared
    <3>4. t \in Turn /\ saved[c] \in Saved
      BY <1>0, <3>1, <2>1, PlaceNames, ZenonT(60) DEF Turn, Saved
    <3>5. TurnInv(t, saved[c]) /\ (t.pc = "idle" \/ t.gen = turn[c].gen) /\ turn[c].pc # "idle"
      BY <1>0, <3>1, <2>1 DEF TurnInv, PlaceRounds, PlaceDecision, PlaceEnd, PlaceRow,
         PlaceRun, InCall, Turn, Saved
    <3> HIDE DEF t
    <3>6. QED
      BY <1>0, <3>2, <3>3, <3>4, <3>5, LocalUpdate
  <2>2. CASE turn[c].round # MaxRounds
    <3> DEFINE t == [turn[c] EXCEPT !.pc = "settle", !.result = "stopped"]
    <3>1. turn[c].pc = "top"
      BY <1>1, <2>2 DEF RoundStopped, At, Leave
    <3>2. turn' = [turn EXCEPT ![c] = t]
      BY <1>1, <2>2 DEF RoundStopped, At, Leave, TypeOK
    <3>3. saved' = [saved EXCEPT ![c] = saved[c]]
      BY <1>0, <1>1, <2>2 DEF RoundStopped, At, Leave, TypeOK, shared
    <3>4. t \in Turn /\ saved[c] \in Saved
      BY <1>0, <3>1, <2>2, PlaceNames, ZenonT(60) DEF Turn, Saved
    <3>5. TurnInv(t, saved[c]) /\ (t.pc = "idle" \/ t.gen = turn[c].gen) /\ turn[c].pc # "idle"
      BY <1>0, <3>1, <2>2 DEF TurnInv, PlaceRounds, PlaceDecision, PlaceEnd, PlaceRow,
         PlaceRun, InCall, Turn, Saved
    <3> HIDE DEF t
    <3>6. QED
      BY <1>0, <3>2, <3>3, <3>4, <3>5, LocalUpdate
  <2> QED
    BY <2>1, <2>2
<1>2. CASE BeginRound(c)
  <2> DEFINE t == [turn[c] EXCEPT !.pc = "model", !.round = turn[c].round + 1,
                                  !.finalizing = turn[c].fallback \/ turn[c].retried \/ Reserve(c, turn[c].round),
                                  !.fallback = turn[c].fallback \/ Reserve(c, turn[c].round),
                                  !.mem = Moved(turn[c].mem, "generating")]
             u == [saved[c] EXCEPT !.run = Moved(turn[c].mem, "generating")]
  <2>1. turn[c].pc = "top" /\ turn[c].round < MaxRounds
    BY <1>2 DEF BeginRound, At
  <2>2. turn' = [turn EXCEPT ![c] = t]
    BY <1>2 DEF BeginRound, At, TypeOK
  <2>3. saved' = [saved EXCEPT ![c] = u]
    BY <1>2 DEF BeginRound, At, TypeOK, shared
  <2>4. turn[c].round + 1 \in 0..MaxRounds
    BY <1>0, <2>1, BoundsAssumption DEF Turn
  <2>5. Reserve(c, turn[c].round) \in BOOLEAN
    BY DEF Reserve, Exhausted
  <2>6. turn[c].round + 1 = MaxRounds => Reserve(c, turn[c].round)
    BY <1>0, BoundsAssumption DEF Reserve, Turn
  <2>7. (turn[c].fallback \/ Reserve(c, turn[c].round)) \in BOOLEAN
    OBVIOUS
  <2>8. (turn[c].fallback \/ turn[c].retried \/ Reserve(c, turn[c].round)) \in BOOLEAN
    OBVIOUS
  <2>9. t \in Turn /\ u \in Saved
    BY <1>0, <2>1, <2>4, <2>5, <2>6, <2>7, <2>8, PlaceNames, MovedTyped, RunNames, ZenonT(60) DEF
       Turn, Saved
  <2>10. TurnInv(t, u) /\ (t.pc = "idle" \/ t.gen = turn[c].gen) /\ turn[c].pc # "idle"
    BY <1>0, <2>1, <2>4, <2>5, <2>6, <2>7, <2>8, MovedEdges, BoundsAssumption DEF
       TurnInv, PlaceRounds, PlaceDecision, PlaceEnd, PlaceRow, PlaceRun, InCall, Turn,
       Saved
  <2> HIDE DEF t, u
  <2>11. QED
    BY <1>0, <2>2, <2>3, <2>9, <2>10, LocalUpdate
<1>3. CASE ModelInterrupted(c)
  <2> DEFINE t == [turn[c] EXCEPT !.pc = "settle", !.result = "stopped"]
  <2>1. turn[c].pc = "model"
    BY <1>3 DEF ModelInterrupted, At, Leave
  <2>2. turn' = [turn EXCEPT ![c] = t]
    BY <1>3 DEF ModelInterrupted, At, Leave, TypeOK
  <2>3. saved' = [saved EXCEPT ![c] = saved[c]]
    BY <1>0, <1>3 DEF ModelInterrupted, At, Leave, TypeOK, shared
  <2>4. t \in Turn /\ saved[c] \in Saved
    BY <1>0, <2>1, PlaceNames DEF Turn, Saved
  <2>5. TurnInv(t, saved[c]) /\ (t.pc = "idle" \/ t.gen = turn[c].gen) /\ turn[c].pc # "idle"
    BY <1>0, <2>1 DEF TurnInv, PlaceRounds, PlaceDecision, PlaceEnd, PlaceRow,
       PlaceRun, InCall, Turn, Saved
  <2> HIDE DEF t
  <2>6. QED
    BY <1>0, <2>2, <2>3, <2>4, <2>5, LocalUpdate
<1>4. CASE ModelFails(c)
  <2> DEFINE t == [turn[c] EXCEPT !.pc = "settle", !.result = "error"]
  <2>1. turn[c].pc = "model"
    BY <1>4 DEF ModelFails, At, Leave
  <2>2. turn' = [turn EXCEPT ![c] = t]
    BY <1>4 DEF ModelFails, At, Leave, TypeOK
  <2>3. saved' = [saved EXCEPT ![c] = saved[c]]
    BY <1>0, <1>4 DEF ModelFails, At, Leave, TypeOK, shared
  <2>4. t \in Turn /\ saved[c] \in Saved
    BY <1>0, <2>1, PlaceNames, ZenonT(60) DEF Turn, Saved
  <2>5. TurnInv(t, saved[c]) /\ (t.pc = "idle" \/ t.gen = turn[c].gen) /\ turn[c].pc # "idle"
    BY <1>0, <2>1 DEF TurnInv, PlaceRounds, PlaceDecision, PlaceEnd, PlaceRow,
       PlaceRun, InCall, Turn, Saved
  <2> HIDE DEF t
  <2>6. QED
    BY <1>0, <2>2, <2>3, <2>4, <2>5, LocalUpdate
<1>5. CASE OutputLimit(c)
  <2>1. CASE turn[c].finalizing \/ turn[c].denied \/ turn[c].recoveries >= MaxRecoveries
    <3> DEFINE t == [turn[c] EXCEPT !.pc = "settle", !.result = "error"]
    <3>1. turn[c].pc = "model"
      BY <1>5, <2>1 DEF OutputLimit, At, Leave
    <3>2. turn' = [turn EXCEPT ![c] = t]
      BY <1>5, <2>1 DEF OutputLimit, At, Leave, TypeOK
    <3>3. saved' = [saved EXCEPT ![c] = saved[c]]
      BY <1>0, <1>5, <2>1 DEF OutputLimit, At, Leave, TypeOK, shared
    <3>4. t \in Turn /\ saved[c] \in Saved
      BY <1>0, <3>1, <2>1, PlaceNames DEF Turn, Saved
    <3>5. TurnInv(t, saved[c]) /\ (t.pc = "idle" \/ t.gen = turn[c].gen) /\ turn[c].pc # "idle"
      BY <1>0, <3>1, <2>1, BoundsAssumption DEF TurnInv, PlaceRounds, PlaceDecision,
         PlaceEnd, PlaceRow, PlaceRun, InCall, Turn, Saved
    <3> HIDE DEF t
    <3>6. QED
      BY <1>0, <3>2, <3>3, <3>4, <3>5, LocalUpdate
  <2>2. CASE ~(turn[c].finalizing \/ turn[c].denied \/ turn[c].recoveries >= MaxRecoveries)
    <3> DEFINE t == [turn[c] EXCEPT !.pc = "top", !.recoveries = turn[c].recoveries + 1,
                                    !.mem = Moved(turn[c].mem, "preparing_next_round")]
               u == [saved[c] EXCEPT !.run = Moved(turn[c].mem, "preparing_next_round")]
    <3>1. turn[c].pc = "model"
      BY <1>5, <2>2 DEF OutputLimit, At, Leave
    <3>2. turn' = [turn EXCEPT ![c] = t]
      BY <1>5, <2>2 DEF OutputLimit, At, Leave, TypeOK
    <3>3. saved' = [saved EXCEPT ![c] = u]
      BY <1>5, <2>2 DEF OutputLimit, At, Leave, TypeOK, shared
    <3>4. turn[c].recoveries + 1 \in 0..MaxRecoveries
      BY <1>0, <2>2, BoundsAssumption DEF Turn
    <3>5. t \in Turn /\ u \in Saved
      BY <1>0, <3>1, <2>2, <3>4, PlaceNames, MovedTyped, RunNames DEF Turn, Saved
    <3>6. TurnInv(t, u) /\ (t.pc = "idle" \/ t.gen = turn[c].gen) /\ turn[c].pc # "idle"
      BY <1>0, <3>1, <2>2, <3>4, MovedEdges, BoundsAssumption DEF TurnInv, PlaceRounds,
         PlaceDecision, PlaceEnd, PlaceRow, PlaceRun, InCall, Turn, Saved
    <3> HIDE DEF t, u
    <3>7. QED
      BY <1>0, <3>2, <3>3, <3>5, <3>6, LocalUpdate
  <2> QED
    BY <2>1, <2>2
<1>6. CASE CorrectiveRound(c)
  <2> DEFINE t == [turn[c] EXCEPT !.pc = "top",
                                  !.mem = Moved(turn[c].mem, "preparing_next_round")]
             u == [saved[c] EXCEPT !.run = Moved(turn[c].mem, "preparing_next_round")]
  <2>1. turn[c].pc = "model" /\ ~turn[c].finalizing
    BY <1>6 DEF CorrectiveRound, At, MoveRun
  <2>2. turn' = [turn EXCEPT ![c] = t]
    BY <1>6 DEF CorrectiveRound, At, MoveRun, TypeOK
  <2>3. saved' = [saved EXCEPT ![c] = u]
    BY <1>6 DEF CorrectiveRound, At, MoveRun, TypeOK, shared
  <2>4. t \in Turn /\ u \in Saved
    BY <1>0, <2>1, PlaceNames, MovedTyped, RunNames DEF Turn, Saved
  <2>5. TurnInv(t, u) /\ (t.pc = "idle" \/ t.gen = turn[c].gen) /\ turn[c].pc # "idle"
    BY <1>0, <2>1, MovedEdges, BoundsAssumption DEF TurnInv, PlaceRounds,
       PlaceDecision, PlaceEnd, PlaceRow, PlaceRun, InCall, Turn, Saved
  <2> HIDE DEF t, u
  <2>6. QED
    BY <1>0, <2>2, <2>3, <2>4, <2>5, LocalUpdate
<1>7. CASE RetryAnswer(c)
  <2> DEFINE t == [turn[c] EXCEPT !.pc = "top", !.retried = TRUE,
                                  !.mem = Moved(turn[c].mem, "preparing_next_round")]
             u == [saved[c] EXCEPT !.run = Moved(turn[c].mem, "preparing_next_round")]
  <2>1. turn[c].pc = "model" /\ ~Exhausted(c, turn[c].round)
    BY <1>7 DEF RetryAnswer, At
  <2>2. turn' = [turn EXCEPT ![c] = t]
    BY <1>7 DEF RetryAnswer, At, TypeOK
  <2>3. saved' = [saved EXCEPT ![c] = u]
    BY <1>7 DEF RetryAnswer, At, TypeOK, shared
  <2>4. t \in Turn /\ u \in Saved
    BY <1>0, <2>1, PlaceNames, MovedTyped, RunNames DEF Turn, Saved
  <2>5. TurnInv(t, u) /\ (t.pc = "idle" \/ t.gen = turn[c].gen) /\ turn[c].pc # "idle"
    BY <1>0, <2>1, MovedEdges, BoundsAssumption DEF TurnInv, PlaceRounds,
       PlaceDecision, PlaceEnd, PlaceRow, PlaceRun, InCall, Turn, Saved, Exhausted
  <2> HIDE DEF t, u
  <2>6. QED
    BY <1>0, <2>2, <2>3, <2>4, <2>5, LocalUpdate
<1>8. CASE FallbackAnswer(c)
  <2>1. CASE turn[c].fallback
    <3> DEFINE t == [turn[c] EXCEPT !.pc = "settle", !.result = "done"]
    <3>1. turn[c].pc = "model"
      BY <1>8, <2>1 DEF FallbackAnswer, At, Leave
    <3>2. turn' = [turn EXCEPT ![c] = t]
      BY <1>8, <2>1 DEF FallbackAnswer, At, Leave, TypeOK
    <3>3. saved' = [saved EXCEPT ![c] = saved[c]]
      BY <1>0, <1>8, <2>1 DEF FallbackAnswer, At, Leave, TypeOK, shared
    <3>4. t \in Turn /\ saved[c] \in Saved
      BY <1>0, <3>1, <2>1, PlaceNames, ZenonT(60) DEF Turn, Saved
    <3>5. TurnInv(t, saved[c]) /\ (t.pc = "idle" \/ t.gen = turn[c].gen) /\ turn[c].pc # "idle"
      BY <1>0, <3>1, <2>1 DEF TurnInv, PlaceRounds, PlaceDecision, PlaceEnd, PlaceRow,
         PlaceRun, InCall, Turn, Saved
    <3> HIDE DEF t
    <3>6. QED
      BY <1>0, <3>2, <3>3, <3>4, <3>5, LocalUpdate
  <2>2. CASE ~turn[c].fallback
    <3> DEFINE t == [turn[c] EXCEPT !.pc = "settle", !.result = "error"]
    <3>1. turn[c].pc = "model"
      BY <1>8, <2>2 DEF FallbackAnswer, At, Leave
    <3>2. turn' = [turn EXCEPT ![c] = t]
      BY <1>8, <2>2 DEF FallbackAnswer, At, Leave, TypeOK
    <3>3. saved' = [saved EXCEPT ![c] = saved[c]]
      BY <1>0, <1>8, <2>2 DEF FallbackAnswer, At, Leave, TypeOK, shared
    <3>4. t \in Turn /\ saved[c] \in Saved
      BY <1>0, <3>1, <2>2, PlaceNames, ZenonT(60) DEF Turn, Saved
    <3>5. TurnInv(t, saved[c]) /\ (t.pc = "idle" \/ t.gen = turn[c].gen) /\ turn[c].pc # "idle"
      BY <1>0, <3>1, <2>2 DEF TurnInv, PlaceRounds, PlaceDecision, PlaceEnd, PlaceRow,
         PlaceRun, InCall, Turn, Saved
    <3> HIDE DEF t
    <3>6. QED
      BY <1>0, <3>2, <3>3, <3>4, <3>5, LocalUpdate
  <2> QED
    BY <2>1, <2>2
<1>9. CASE FinishInAnswer(c)
  <2> DEFINE t == [turn[c] EXCEPT !.pc = "settle", !.result = "done"]
  <2>1. turn[c].pc = "model"
    BY <1>9 DEF FinishInAnswer, At, Leave
  <2>2. turn' = [turn EXCEPT ![c] = t]
    BY <1>9 DEF FinishInAnswer, At, Leave, TypeOK
  <2>3. saved' = [saved EXCEPT ![c] = saved[c]]
    BY <1>0, <1>9 DEF FinishInAnswer, At, Leave, TypeOK, shared
  <2>4. t \in Turn /\ saved[c] \in Saved
    BY <1>0, <2>1, PlaceNames, ZenonT(60) DEF Turn, Saved
  <2>5. TurnInv(t, saved[c]) /\ (t.pc = "idle" \/ t.gen = turn[c].gen) /\ turn[c].pc # "idle"
    BY <1>0, <2>1 DEF TurnInv, PlaceRounds, PlaceDecision, PlaceEnd, PlaceRow,
       PlaceRun, InCall, Turn, Saved
  <2> HIDE DEF t
  <2>6. QED
    BY <1>0, <2>2, <2>3, <2>4, <2>5, LocalUpdate
<1>10. CASE FinalAnswer(c)
  <2> DEFINE t == [turn[c] EXCEPT !.pc = "settle", !.result = "done",
                                  !.mem = Moved(turn[c].mem, "completed")]
             u == [saved[c] EXCEPT !.run = Moved(turn[c].mem, "completed")]
  <2>1. turn[c].pc = "model"
    BY <1>10 DEF FinalAnswer, At
  <2>2. turn' = [turn EXCEPT ![c] = t]
    BY <1>10 DEF FinalAnswer, At, TypeOK
  <2>3. saved' = [saved EXCEPT ![c] = u]
    BY <1>10 DEF FinalAnswer, At, TypeOK, shared
  <2>4. t \in Turn /\ u \in Saved
    BY <1>0, <2>1, PlaceNames, MovedTyped, RunNames DEF Turn, Saved
  <2>5. TurnInv(t, u) /\ (t.pc = "idle" \/ t.gen = turn[c].gen) /\ turn[c].pc # "idle"
    BY <1>0, <2>1, MovedEdges DEF TurnInv, PlaceRounds, PlaceDecision, PlaceEnd,
       PlaceRow, PlaceRun, InCall, Turn, Saved
  <2> HIDE DEF t, u
  <2>6. QED
    BY <1>0, <2>2, <2>3, <2>4, <2>5, LocalUpdate
<1>11. CASE ToolCalls(c)
  <2>1. CASE turn[c].denied
    <3> DEFINE t == [turn[c] EXCEPT !.pc = "settle", !.result = "error"]
    <3>1. turn[c].pc = "model"
      BY <1>11, <2>1 DEF ToolCalls, At, Leave
    <3>2. turn' = [turn EXCEPT ![c] = t]
      BY <1>11, <2>1 DEF ToolCalls, At, Leave, TypeOK
    <3>3. saved' = [saved EXCEPT ![c] = saved[c]]
      BY <1>0, <1>11, <2>1 DEF ToolCalls, At, Leave, TypeOK, shared
    <3>4. t \in Turn /\ saved[c] \in Saved
      BY <1>0, <3>1, <2>1, PlaceNames DEF Turn, Saved
    <3>5. TurnInv(t, saved[c]) /\ (t.pc = "idle" \/ t.gen = turn[c].gen) /\ turn[c].pc # "idle"
      BY <1>0, <3>1, <2>1, BoundsAssumption DEF TurnInv, PlaceRounds, PlaceDecision,
         PlaceEnd, PlaceRow, PlaceRun, InCall, Turn, Saved
    <3> HIDE DEF t
    <3>6. QED
      BY <1>0, <3>2, <3>3, <3>4, <3>5, LocalUpdate
  <2>2. CASE ~turn[c].denied
    <3>0. PICK n \in 1..MaxCalls :
            turn' = [turn EXCEPT ![c] = [turn[c] EXCEPT !.pc = "calls", !.left = n, !.solo = (n = 1)]]
      BY <1>0, <1>11, <2>2 DEF ToolCalls, At, Leave, Turn
    <3> DEFINE t == [turn[c] EXCEPT !.pc = "calls", !.left = n, !.solo = (n = 1)]
    <3>1. turn[c].pc = "model" /\ ~turn[c].finalizing
      BY <1>11, <2>2 DEF ToolCalls, At, Leave
    <3>2. turn' = [turn EXCEPT ![c] = t]
      BY <1>11, <2>2, <3>0 DEF ToolCalls, At, Leave, TypeOK
    <3>3. saved' = [saved EXCEPT ![c] = saved[c]]
      BY <1>0, <1>11, <2>2 DEF ToolCalls, At, Leave, TypeOK, shared
    <3>4. n \in 0..MaxCalls
      BY <3>0, BoundsAssumption
    <3>5. t \in Turn /\ saved[c] \in Saved
      BY <1>0, <3>1, <3>0, <2>2, <3>4, PlaceNames, ZenonT(60) DEF Turn, Saved
    <3>6. TurnInv(t, saved[c]) /\ (t.pc = "idle" \/ t.gen = turn[c].gen) /\ turn[c].pc # "idle"
      BY <1>0, <3>1, <3>0, <2>2, <3>4, BoundsAssumption DEF TurnInv, PlaceRounds,
         PlaceDecision, PlaceEnd, PlaceRow, PlaceRun, InCall, Turn, Saved
    <3> HIDE DEF t
    <3>7. QED
      BY <1>0, <3>2, <3>3, <3>5, <3>6, LocalUpdate
  <2> QED
    BY <2>1, <2>2
<1> QED
  BY <1>1, <1>2, <1>3, <1>4, <1>5, <1>6, <1>7, <1>8, <1>9, <1>10, <1>11 DEF ModelRound

(* So does every step of a tool call. *)
LEMMA ToolCallStep ==
    ASSUME TypeOK, NEW c \in Conversations, TurnInv(turn[c], saved[c]), ToolCall(c)
    PROVE  LocalStep(c)
<1>0. turn[c] \in Turn /\ saved[c] \in Saved /\ saved = [saved EXCEPT ![c] = saved[c]]
  BY DEF TypeOK
<1>1. CASE SkipCall(c)
  <2> DEFINE t == [turn[c] EXCEPT !.left = turn[c].left - 1]
  <2>1. turn[c].pc = "calls" /\ turn[c].left > 0
    BY <1>1 DEF SkipCall, At
  <2>2. turn' = [turn EXCEPT ![c] = t]
    BY <1>1 DEF SkipCall, At, TypeOK
  <2>3. saved' = [saved EXCEPT ![c] = saved[c]]
    BY <1>0, <1>1 DEF SkipCall, At, TypeOK, shared
  <2>4. turn[c].left - 1 \in 0..MaxCalls
    BY <1>0, <2>1, BoundsAssumption DEF Turn
  <2>5. t \in Turn /\ saved[c] \in Saved
    BY <1>0, <2>1, <2>4, PlaceNames DEF Turn, Saved
  <2>6. TurnInv(t, saved[c]) /\ (t.pc = "idle" \/ t.gen = turn[c].gen) /\ turn[c].pc # "idle"
    BY <1>0, <2>1, <2>4 DEF TurnInv, PlaceRounds, PlaceDecision, PlaceEnd, PlaceRow,
       PlaceRun, InCall, Turn, Saved
  <2> HIDE DEF t
  <2>7. QED
    BY <1>0, <2>2, <2>3, <2>5, <2>6, LocalUpdate
<1>2. CASE StopAtCall(c)
  <2> DEFINE t == [turn[c] EXCEPT !.pc = "settle", !.result = "stopped"]
  <2>1. turn[c].pc = "calls"
    BY <1>2 DEF StopAtCall, At, Leave
  <2>2. turn' = [turn EXCEPT ![c] = t]
    BY <1>2 DEF StopAtCall, At, Leave, TypeOK
  <2>3. saved' = [saved EXCEPT ![c] = saved[c]]
    BY <1>0, <1>2 DEF StopAtCall, At, Leave, TypeOK, shared
  <2>4. t \in Turn /\ saved[c] \in Saved
    BY <1>0, <2>1, PlaceNames DEF Turn, Saved
  <2>5. TurnInv(t, saved[c]) /\ (t.pc = "idle" \/ t.gen = turn[c].gen) /\ turn[c].pc # "idle"
    BY <1>0, <2>1 DEF TurnInv, PlaceRounds, PlaceDecision, PlaceEnd, PlaceRow,
       PlaceRun, InCall, Turn, Saved
  <2> HIDE DEF t
  <2>6. QED
    BY <1>0, <2>2, <2>3, <2>4, <2>5, LocalUpdate
<1>3. ASSUME NEW s \in Calls, TakeCall(c, s) PROVE LocalStep(c)
  <2> DEFINE t == [turn[c] EXCEPT !.pc = "permit", !.call = s]
  <2>1. turn[c].pc = "calls" /\ turn[c].left > 0 /\ s \notin turn[c].blocked
    BY <1>3 DEF TakeCall, At
  <2>2. turn' = [turn EXCEPT ![c] = t]
    BY <1>3 DEF TakeCall, At, TypeOK
  <2>3. saved' = [saved EXCEPT ![c] = saved[c]]
    BY <1>0, <1>3 DEF TakeCall, At, TypeOK, shared
  <2>4. t \in Turn /\ saved[c] \in Saved
    BY <1>0, <2>1, <1>3, PlaceNames DEF Turn, Saved
  <2>5. TurnInv(t, saved[c]) /\ (t.pc = "idle" \/ t.gen = turn[c].gen) /\ turn[c].pc # "idle"
    BY <1>0, <2>1 DEF TurnInv, PlaceRounds, PlaceDecision, PlaceEnd, PlaceRow,
       PlaceRun, InCall, Turn, Saved
  <2> HIDE DEF t
  <2>6. QED
    BY <1>0, <2>2, <2>3, <2>4, <2>5, LocalUpdate
<1>4. CASE RuleDenies(c)
  <2> DEFINE t == [turn[c] EXCEPT !.pc = "calls", !.denied = TRUE, !.call = NoCall,
                                  !.left = turn[c].left - 1]
  <2>1. turn[c].pc = "permit" /\ turn[c].left > 0
    BY <1>4 DEF RuleDenies, At, TurnInv, PlaceRounds, InCall
  <2>2. turn' = [turn EXCEPT ![c] = t]
    BY <1>4 DEF RuleDenies, At, TypeOK
  <2>3. saved' = [saved EXCEPT ![c] = saved[c]]
    BY <1>0, <1>4 DEF RuleDenies, At, TypeOK, shared
  <2>4. turn[c].left - 1 \in 0..MaxCalls
    BY <1>0, <2>1, BoundsAssumption DEF Turn
  <2>5. t \in Turn /\ saved[c] \in Saved
    BY <1>0, <2>1, <2>4, PlaceNames DEF Turn, Saved
  <2>6. TurnInv(t, saved[c]) /\ (t.pc = "idle" \/ t.gen = turn[c].gen) /\ turn[c].pc # "idle"
    BY <1>0, <2>1, <2>4 DEF TurnInv, PlaceRounds, PlaceDecision, PlaceEnd, PlaceRow,
       PlaceRun, InCall, Turn, Saved
  <2> HIDE DEF t
  <2>7. QED
    BY <1>0, <2>2, <2>3, <2>5, <2>6, LocalUpdate
<1>5. CASE Decide(c)
  <2> DEFINE t == [turn[c] EXCEPT !.pc = "admit",
                                  !.approval = IF turn[c].denied THEN "deny" ELSE "allow"]
  <2>1. turn[c].pc = "permit"
    BY <1>5 DEF Decide, At
  <2>2. turn' = [turn EXCEPT ![c] = t]
    BY <1>5 DEF Decide, At, TypeOK
  <2>3. saved' = [saved EXCEPT ![c] = saved[c]]
    BY <1>0, <1>5 DEF Decide, At, TypeOK, shared
  <2>4. t \in Turn /\ saved[c] \in Saved
    BY <1>0, <2>1, PlaceNames, ZenonT(60) DEF Turn, Saved
  <2>5. TurnInv(t, saved[c]) /\ (t.pc = "idle" \/ t.gen = turn[c].gen) /\ turn[c].pc # "idle"
    BY <1>0, <2>1 DEF TurnInv, PlaceRounds, PlaceDecision, PlaceEnd, PlaceRow,
       PlaceRun, InCall, Turn, Saved
  <2> HIDE DEF t
  <2>6. QED
    BY <1>0, <2>2, <2>3, <2>4, <2>5, LocalUpdate
<1>6. CASE Ask(c)
  <2> DEFINE t == [turn[c] EXCEPT !.pc = "approval", !.approval = "waiting",
                                  !.mem = Moved(turn[c].mem, "awaiting_approval")]
             u == [saved[c] EXCEPT !.run = Moved(turn[c].mem, "awaiting_approval")]
  <2>1. turn[c].pc = "permit" /\ ~turn[c].denied
    BY <1>6 DEF Ask, At
  <2>2. turn' = [turn EXCEPT ![c] = t]
    BY <1>6 DEF Ask, At, TypeOK
  <2>3. saved' = [saved EXCEPT ![c] = u]
    BY <1>6 DEF Ask, At, TypeOK, shared
  <2>4. t \in Turn /\ u \in Saved
    BY <1>0, <2>1, PlaceNames, MovedTyped, RunNames DEF Turn, Saved
  <2>5. TurnInv(t, u) /\ (t.pc = "idle" \/ t.gen = turn[c].gen) /\ turn[c].pc # "idle"
    BY <1>0, <2>1, MovedEdges DEF TurnInv, PlaceRounds, PlaceDecision, PlaceEnd,
       PlaceRow, PlaceRun, InCall, Turn, Saved
  <2> HIDE DEF t, u
  <2>6. QED
    BY <1>0, <2>2, <2>3, <2>4, <2>5, LocalUpdate
<1>7. CASE DecisionTaken(c)
  <2> DEFINE t == [turn[c] EXCEPT !.pc = "admit"]
  <2>1. turn[c].pc = "approval" /\ turn[c].approval \in {"allow", "deny"}
    BY <1>7 DEF DecisionTaken, At
  <2>2. turn' = [turn EXCEPT ![c] = t]
    BY <1>7 DEF DecisionTaken, At, TypeOK
  <2>3. saved' = [saved EXCEPT ![c] = saved[c]]
    BY <1>0, <1>7 DEF DecisionTaken, At, TypeOK, shared
  <2>4. t \in Turn /\ saved[c] \in Saved
    BY <1>0, <2>1, PlaceNames DEF Turn, Saved
  <2>5. TurnInv(t, saved[c]) /\ (t.pc = "idle" \/ t.gen = turn[c].gen) /\ turn[c].pc # "idle"
    BY <1>0, <2>1 DEF TurnInv, PlaceRounds, PlaceDecision, PlaceEnd, PlaceRow,
       PlaceRun, InCall, Turn, Saved
  <2> HIDE DEF t
  <2>6. QED
    BY <1>0, <2>2, <2>3, <2>4, <2>5, LocalUpdate
<1>8. CASE ApprovalTimesOut(c)
  <2> DEFINE t == [turn[c] EXCEPT !.pc = "admit", !.approval = "deny"]
  <2>1. turn[c].pc = "approval"
    BY <1>8 DEF ApprovalTimesOut, At
  <2>2. turn' = [turn EXCEPT ![c] = t]
    BY <1>8 DEF ApprovalTimesOut, At, TypeOK
  <2>3. saved' = [saved EXCEPT ![c] = saved[c]]
    BY <1>0, <1>8 DEF ApprovalTimesOut, At, TypeOK, shared
  <2>4. t \in Turn /\ saved[c] \in Saved
    BY <1>0, <2>1, PlaceNames, ZenonT(60) DEF Turn, Saved
  <2>5. TurnInv(t, saved[c]) /\ (t.pc = "idle" \/ t.gen = turn[c].gen) /\ turn[c].pc # "idle"
    BY <1>0, <2>1 DEF TurnInv, PlaceRounds, PlaceDecision, PlaceEnd, PlaceRow,
       PlaceRun, InCall, Turn, Saved
  <2> HIDE DEF t
  <2>6. QED
    BY <1>0, <2>2, <2>3, <2>4, <2>5, LocalUpdate
<1>9. CASE ApprovalInterrupted(c)
  <2> DEFINE t == [turn[c] EXCEPT !.pc = "settle", !.result = "stopped",
                                  !.approval = "none"]
  <2>1. turn[c].pc = "approval"
    BY <1>9 DEF ApprovalInterrupted, At
  <2>2. turn' = [turn EXCEPT ![c] = t]
    BY <1>9 DEF ApprovalInterrupted, At, TypeOK
  <2>3. saved' = [saved EXCEPT ![c] = saved[c]]
    BY <1>0, <1>9 DEF ApprovalInterrupted, At, TypeOK, shared
  <2>4. t \in Turn /\ saved[c] \in Saved
    BY <1>0, <2>1, PlaceNames, ZenonT(60) DEF Turn, Saved
  <2>5. TurnInv(t, saved[c]) /\ (t.pc = "idle" \/ t.gen = turn[c].gen) /\ turn[c].pc # "idle"
    BY <1>0, <2>1 DEF TurnInv, PlaceRounds, PlaceDecision, PlaceEnd, PlaceRow,
       PlaceRun, InCall, Turn, Saved
  <2> HIDE DEF t
  <2>6. QED
    BY <1>0, <2>2, <2>3, <2>4, <2>5, LocalUpdate
<1>10. CASE MarkExecuting(c)
  <2> DEFINE t == [turn[c] EXCEPT !.pc = IF turn[c].outcome = "none" THEN "dispatch" ELSE "record",
                                  !.mem = Moved(turn[c].mem, "executing_tools")]
             u == [saved[c] EXCEPT !.run = Moved(turn[c].mem, "executing_tools")]
  <2>1. turn[c].pc = "mark"
    BY <1>10 DEF MarkExecuting, At, MoveRun
  <2>2. turn' = [turn EXCEPT ![c] = t]
    BY <1>10 DEF MarkExecuting, At, MoveRun, TypeOK
  <2>3. saved' = [saved EXCEPT ![c] = u]
    BY <1>10 DEF MarkExecuting, At, MoveRun, TypeOK, shared
  <2>4. t \in Turn /\ u \in Saved
    BY <1>0, <2>1, PlaceNames, MovedTyped, RunNames, ZenonT(60) DEF Turn, Saved
  <2>5. TurnInv(t, u) /\ (t.pc = "idle" \/ t.gen = turn[c].gen) /\ turn[c].pc # "idle"
    BY <1>0, <2>1, MovedEdges DEF TurnInv, PlaceRounds, PlaceDecision, PlaceEnd,
       PlaceRow, PlaceRun, InCall, Turn, Saved
  <2> HIDE DEF t, u
  <2>6. QED
    BY <1>0, <2>2, <2>3, <2>4, <2>5, LocalUpdate
<1>11. CASE DispatchRefused(c)
  <2> DEFINE t == [turn[c] EXCEPT !.pc = "record", !.outcome = "failed"]
  <2>1. turn[c].pc = "dispatch"
    BY <1>11 DEF DispatchRefused, At
  <2>2. turn' = [turn EXCEPT ![c] = t]
    BY <1>11 DEF DispatchRefused, At, TypeOK
  <2>3. saved' = [saved EXCEPT ![c] = saved[c]]
    BY <1>0, <1>11 DEF DispatchRefused, At, TypeOK, shared
  <2>4. t \in Turn /\ saved[c] \in Saved
    BY <1>0, <2>1, PlaceNames DEF Turn, Saved
  <2>5. TurnInv(t, saved[c]) /\ (t.pc = "idle" \/ t.gen = turn[c].gen) /\ turn[c].pc # "idle"
    BY <1>0, <2>1 DEF TurnInv, PlaceRounds, PlaceDecision, PlaceEnd, PlaceRow,
       PlaceRun, InCall, Turn, Saved
  <2> HIDE DEF t
  <2>6. QED
    BY <1>0, <2>2, <2>3, <2>4, <2>5, LocalUpdate
<1>12. CASE Dispatch(c)
  <2> DEFINE t == [turn[c] EXCEPT !.pc = "tool"]
  <2>1. turn[c].pc = "dispatch"
    BY <1>12 DEF Dispatch, At
  <2>2. turn' = [turn EXCEPT ![c] = t]
    BY <1>12 DEF Dispatch, At, TypeOK
  <2>3. saved' = [saved EXCEPT ![c] = saved[c]]
    BY <1>0, <1>12 DEF Dispatch, At, TypeOK, shared
  <2>4. t \in Turn /\ saved[c] \in Saved
    BY <1>0, <2>1, PlaceNames DEF Turn, Saved
  <2>5. TurnInv(t, saved[c]) /\ (t.pc = "idle" \/ t.gen = turn[c].gen) /\ turn[c].pc # "idle"
    BY <1>0, <2>1 DEF TurnInv, PlaceRounds, PlaceDecision, PlaceEnd, PlaceRow,
       PlaceRun, InCall, Turn, Saved
  <2> HIDE DEF t
  <2>6. QED
    BY <1>0, <2>2, <2>3, <2>4, <2>5, LocalUpdate
<1>13. CASE ToolReturns(c)
  <2>0. PICK v \in {"none", "ok", "failed", "uncertain", "denied", "finish"} :
          turn' = [turn EXCEPT ![c] = [turn[c] EXCEPT !.pc = "record", !.outcome = v]]
    BY <1>0, <1>13, ZenonT(60) DEF ToolReturns, At, Turn
  <2> DEFINE t == [turn[c] EXCEPT !.pc = "record", !.outcome = v]
  <2>1. turn[c].pc = "tool"
    BY <1>13 DEF ToolReturns, At
  <2>2. turn' = [turn EXCEPT ![c] = t]
    BY <1>13, <2>0 DEF ToolReturns, At, TypeOK
  <2>3. saved' = [saved EXCEPT ![c] = saved[c]]
    BY <1>0, <1>13 DEF ToolReturns, At, TypeOK, shared
  <2>4. t \in Turn /\ saved[c] \in Saved
    BY <1>0, <2>1, <2>0, PlaceNames, ZenonT(60) DEF Turn, Saved
  <2>5. TurnInv(t, saved[c]) /\ (t.pc = "idle" \/ t.gen = turn[c].gen) /\ turn[c].pc # "idle"
    BY <1>0, <2>1, <2>0 DEF TurnInv, PlaceRounds, PlaceDecision, PlaceEnd, PlaceRow,
       PlaceRun, InCall, Turn, Saved
  <2> HIDE DEF t
  <2>6. QED
    BY <1>0, <2>2, <2>3, <2>4, <2>5, LocalUpdate
<1>14. CASE ToolInterrupted(c)
  <2> DEFINE t == [turn[c] EXCEPT !.pc = "settle", !.result = "stopped",
                                  !.approval = "none",
                                  !.mem = Moved(turn[c].mem, "cancelled")]
             u == [saved[c] EXCEPT !.run = Moved(turn[c].mem, "cancelled"),
                                  !.row = "interrupted"]
  <2>1. turn[c].pc = "tool"
    BY <1>14 DEF ToolInterrupted, At
  <2>2. turn' = [turn EXCEPT ![c] = t]
    BY <1>14 DEF ToolInterrupted, At, TypeOK
  <2>3. saved' = [saved EXCEPT ![c] = u]
    BY <1>14 DEF ToolInterrupted, At, TypeOK, shared
  <2>4. t \in Turn /\ u \in Saved
    BY <1>0, <2>1, PlaceNames, MovedTyped, RunNames, ZenonT(60) DEF Turn, Saved
  <2>5. TurnInv(t, u) /\ (t.pc = "idle" \/ t.gen = turn[c].gen) /\ turn[c].pc # "idle"
    BY <1>0, <2>1, MovedEdges DEF TurnInv, PlaceRounds, PlaceDecision, PlaceEnd,
       PlaceRow, PlaceRun, InCall, Turn, Saved
  <2> HIDE DEF t, u
  <2>6. QED
    BY <1>0, <2>2, <2>3, <2>4, <2>5, LocalUpdate
<1>15. CASE AdmitDenied(c)
  <2> DEFINE t == [turn[c] EXCEPT !.pc = "mark", !.denied = TRUE, !.outcome = "denied"]
             u == [saved[c] EXCEPT !.row = "complete"]
  <2>1. turn[c].pc = "admit"
    BY <1>15 DEF AdmitDenied, At
  <2>2. turn' = [turn EXCEPT ![c] = t]
    BY <1>15 DEF AdmitDenied, At, TypeOK
  <2>3. saved' = [saved EXCEPT ![c] = u]
    BY <1>15 DEF AdmitDenied, At, TypeOK, shared
  <2>4. t \in Turn /\ u \in Saved
    BY <1>0, <2>1, PlaceNames, ZenonT(60) DEF Turn, Saved
  <2>5. TurnInv(t, u) /\ (t.pc = "idle" \/ t.gen = turn[c].gen) /\ turn[c].pc # "idle"
    BY <1>0, <2>1 DEF TurnInv, PlaceRounds, PlaceDecision, PlaceEnd, PlaceRow,
       PlaceRun, InCall, Turn, Saved
  <2> HIDE DEF t, u
  <2>6. QED
    BY <1>0, <2>2, <2>3, <2>4, <2>5, LocalUpdate
<1>16. CASE AdmitOver(c)
  <2> DEFINE t == [turn[c] EXCEPT !.pc = "mark", !.outcome = "failed"]
             u == [saved[c] EXCEPT !.row = "complete"]
  <2>1. turn[c].pc = "admit" /\ turn[c].approval = "allow"
    BY <1>16 DEF AdmitOver, At
  <2>2. turn' = [turn EXCEPT ![c] = t]
    BY <1>16 DEF AdmitOver, At, TypeOK
  <2>3. saved' = [saved EXCEPT ![c] = u]
    BY <1>16 DEF AdmitOver, At, TypeOK, shared
  <2>4. t \in Turn /\ u \in Saved
    BY <1>0, <2>1, PlaceNames, ZenonT(60) DEF Turn, Saved
  <2>5. TurnInv(t, u) /\ (t.pc = "idle" \/ t.gen = turn[c].gen) /\ turn[c].pc # "idle"
    BY <1>0, <2>1 DEF TurnInv, PlaceRounds, PlaceDecision, PlaceEnd, PlaceRow,
       PlaceRun, InCall, Turn, Saved
  <2> HIDE DEF t, u
  <2>6. QED
    BY <1>0, <2>2, <2>3, <2>4, <2>5, LocalUpdate
<1>17. CASE AdmitWithin(c)
  <2>0. PICK v \in BOOLEAN :
          turn' = [turn EXCEPT ![c] = [turn[c] EXCEPT !.pc = "mark", !.spent = v]]
    BY <1>0, <1>17 DEF AdmitWithin, At, Turn
  <2> DEFINE t == [turn[c] EXCEPT !.pc = "mark", !.spent = v]
             u == [saved[c] EXCEPT !.row = "streaming"]
  <2>1. turn[c].pc = "admit" /\ turn[c].approval = "allow"
    BY <1>17 DEF AdmitWithin, At
  <2>2. turn' = [turn EXCEPT ![c] = t]
    BY <1>17, <2>0 DEF AdmitWithin, At, TypeOK
  <2>3. saved' = [saved EXCEPT ![c] = u]
    BY <1>17 DEF AdmitWithin, At, TypeOK, shared
  <2>4. t \in Turn /\ u \in Saved
    BY <1>0, <2>1, <2>0, PlaceNames, ZenonT(60) DEF Turn, Saved
  <2>5. TurnInv(t, u) /\ (t.pc = "idle" \/ t.gen = turn[c].gen) /\ turn[c].pc # "idle"
    BY <1>0, <2>1, <2>0 DEF TurnInv, PlaceRounds, PlaceDecision, PlaceEnd, PlaceRow,
       PlaceRun, InCall, Turn, Saved
  <2> HIDE DEF t, u
  <2>6. QED
    BY <1>0, <2>2, <2>3, <2>4, <2>5, LocalUpdate
<1>18. CASE Record(c)
  <2>0. PICK v \in BOOLEAN :
          turn' = [turn EXCEPT ![c] = [turn[c] EXCEPT !.pc = "calls", !.left = turn[c].left - 1,
                                        !.call = NoCall, !.outcome = "none",
                                        !.approval = "none",
                                        !.blocked = IF turn[c].outcome \in {"uncertain", "denied"} THEN turn[c].blocked \cup {turn[c].call} ELSE turn[c].blocked,
                                        !.denied = turn[c].denied \/ turn[c].outcome = "denied",
                                        !.fallback = turn[c].fallback \/ v,
                                        !.retried = turn[c].retried /\ ~v,
                                        !.finished = (turn[c].outcome = "finish")]]
    BY <1>0, <1>18, ZenonT(60) DEF Record, At, Turn
  <2> DEFINE t == [turn[c] EXCEPT !.pc = "calls", !.left = turn[c].left - 1,
                                  !.call = NoCall, !.outcome = "none",
                                  !.approval = "none",
                                  !.blocked = IF turn[c].outcome \in {"uncertain", "denied"} THEN turn[c].blocked \cup {turn[c].call} ELSE turn[c].blocked,
                                  !.denied = turn[c].denied \/ turn[c].outcome = "denied",
                                  !.fallback = turn[c].fallback \/ v,
                                  !.retried = turn[c].retried /\ ~v,
                                  !.finished = (turn[c].outcome = "finish")]
             u == [saved[c] EXCEPT !.row = "complete"]
  <2>1. turn[c].pc = "record" /\ turn[c].left > 0
    BY <1>18 DEF Record, At, TurnInv, PlaceRounds, InCall
  <2>2. turn' = [turn EXCEPT ![c] = t]
    BY <1>18, <2>0 DEF Record, At, TypeOK
  <2>3. saved' = [saved EXCEPT ![c] = u]
    BY <1>18 DEF Record, At, TypeOK, shared
  <2>4. turn[c].left - 1 \in 0..MaxCalls
    BY <1>0, <2>1, BoundsAssumption DEF Turn
  <2> DEFINE b == IF turn[c].outcome \in {"uncertain", "denied"}
                  THEN turn[c].blocked \cup {turn[c].call} ELSE turn[c].blocked
             d == turn[c].denied \/ turn[c].outcome = "denied"
             f == turn[c].fallback \/ v
             q == turn[c].retried /\ ~v
             g == turn[c].outcome = "finish"
  <2>5. b \in SUBSET Calls
    BY <1>0, <2>1 DEF TurnInv, PlaceDecision, InCall, Turn
  <2>6. d \in BOOLEAN /\ f \in BOOLEAN /\ q \in BOOLEAN /\ g \in BOOLEAN
    OBVIOUS
  <2>7. t \in Turn /\ u \in Saved
    <3>1. u \in Saved
      BY <1>0 DEF Saved
    <3> HIDE DEF b, d, f, q, g
    <3>2. [turn[c] EXCEPT !.pc = "calls", !.left = turn[c].left - 1, !.call = NoCall,
             !.outcome = "none", !.approval = "none", !.blocked = b, !.denied = d,
             !.fallback = f, !.retried = q, !.finished = g] \in Turn
      <4> DEFINE l == turn[c].left - 1
      <4>1. turn[c] \in Turn /\ l \in 0..MaxCalls
        BY <1>0, <2>4
      <4> HIDE DEF l
      <4>2. [turn[c] EXCEPT !.pc = "calls", !.left = l, !.call = NoCall,
               !.outcome = "none", !.approval = "none", !.blocked = b, !.denied = d,
               !.fallback = f, !.retried = q, !.finished = g] \in Turn
        BY <4>1, <2>5, <2>6, PlaceNames, ZenonT(60) DEF Turn
      <4>3. QED
        BY <4>2 DEF l
    <3>3. QED
      BY <3>1, <3>2 DEF b, d, f, q, g
  <2>8. TurnInv(t, u) /\ (t.pc = "idle" \/ t.gen = turn[c].gen) /\ turn[c].pc # "idle"
    BY <1>0, <2>1, <2>0, <2>4, <2>5, <2>6 DEF TurnInv, PlaceRounds, PlaceDecision,
       PlaceEnd, PlaceRow, PlaceRun, InCall, Turn, Saved
  <2> HIDE DEF t, u
  <2>9. QED
    BY <1>0, <2>2, <2>3, <2>7, <2>8, LocalUpdate
<1>19. CASE EndCalls(c)
  <2>1. CASE turn[c].finished
    <3> DEFINE t == [turn[c] EXCEPT !.pc = "settle", !.result = "done"]
    <3>1. turn[c].pc = "calls"
      BY <1>19, <2>1 DEF EndCalls, At, Leave
    <3>2. turn' = [turn EXCEPT ![c] = t]
      BY <1>19, <2>1 DEF EndCalls, At, Leave, TypeOK
    <3>3. saved' = [saved EXCEPT ![c] = saved[c]]
      BY <1>0, <1>19, <2>1 DEF EndCalls, At, Leave, TypeOK, shared
    <3>4. t \in Turn /\ saved[c] \in Saved
      BY <1>0, <3>1, <2>1, PlaceNames DEF Turn, Saved
    <3>5. TurnInv(t, saved[c]) /\ (t.pc = "idle" \/ t.gen = turn[c].gen) /\ turn[c].pc # "idle"
      BY <1>0, <3>1, <2>1 DEF TurnInv, PlaceRounds, PlaceDecision, PlaceEnd, PlaceRow,
         PlaceRun, InCall, Turn, Saved
    <3> HIDE DEF t
    <3>6. QED
      BY <1>0, <3>2, <3>3, <3>4, <3>5, LocalUpdate
  <2>2. CASE ~turn[c].finished
    <3>0. PICK v \in BOOLEAN :
            turn' = [turn EXCEPT ![c] = [turn[c] EXCEPT !.pc = "top",
                                          !.fallback = turn[c].fallback \/ v,
                                          !.mem = Moved(turn[c].mem, "preparing_next_round")]]
      BY <1>0, <1>19, <2>2 DEF EndCalls, At, Leave, Turn
    <3> DEFINE t == [turn[c] EXCEPT !.pc = "top", !.fallback = turn[c].fallback \/ v,
                                    !.mem = Moved(turn[c].mem, "preparing_next_round")]
               u == [saved[c] EXCEPT !.run = Moved(turn[c].mem, "preparing_next_round")]
    <3>1. turn[c].pc = "calls"
      BY <1>19, <2>2 DEF EndCalls, At, Leave
    <3>2. turn' = [turn EXCEPT ![c] = t]
      BY <1>19, <2>2, <3>0 DEF EndCalls, At, Leave, TypeOK
    <3>3. saved' = [saved EXCEPT ![c] = u]
      BY <1>19, <2>2 DEF EndCalls, At, Leave, TypeOK, shared
    <3>4. t \in Turn /\ u \in Saved
      BY <1>0, <3>1, <3>0, <2>2, PlaceNames, MovedTyped, RunNames, ZenonT(60) DEF Turn, Saved
    <3>5. TurnInv(t, u) /\ (t.pc = "idle" \/ t.gen = turn[c].gen) /\ turn[c].pc # "idle"
      BY <1>0, <3>1, <3>0, <2>2, MovedEdges DEF TurnInv, PlaceRounds, PlaceDecision,
         PlaceEnd, PlaceRow, PlaceRun, InCall, Turn, Saved
    <3> HIDE DEF t, u
    <3>6. QED
      BY <1>0, <3>2, <3>3, <3>4, <3>5, LocalUpdate
  <2> QED
    BY <2>1, <2>2
<1> QED
  BY <1>1, <1>2, <1>3, <1>4, <1>5, <1>6, <1>7, <1>8, <1>9, <1>10, <1>11, <1>12, <1>13,
     <1>14, <1>15, <1>16, <1>17, <1>18, <1>19 DEF ToolCall

(* So does the settlement. *)
LEMMA FinishStep ==
    ASSUME TypeOK, NEW c \in Conversations, TurnInv(turn[c], saved[c]), Finish(c)
    PROVE  LocalStep(c)
<1>0. turn[c] \in Turn /\ saved[c] \in Saved /\ saved = [saved EXCEPT ![c] = saved[c]]
  BY DEF TypeOK
<1>1. CASE Settle(c)
  <2> DEFINE t == [turn[c] EXCEPT !.pc = "close",
                                  !.final = SettledState(turn[c].result, control.pause, CancelApplies(c))]
             u == [saved[c] EXCEPT !.msg = MessageStatus(turn[c].result, SettledState(turn[c].result, control.pause, CancelApplies(c)))]
  <2>1. turn[c].pc = "settle"
    BY <1>1 DEF Settle, At
  <2>2. turn' = [turn EXCEPT ![c] = t]
    BY <1>1 DEF Settle, At, TypeOK
  <2>3. saved' = [saved EXCEPT ![c] = u]
    BY <1>1 DEF Settle, At, TypeOK, shared
  <2>4. SettledState(turn[c].result, control.pause, CancelApplies(c)) \in TerminalRunStates
    BY <1>0, <2>1 DEF TurnInv, PlaceEnd, SettledState, Turn, TerminalRunStates
  <2>5. MessageStatus(turn[c].result, SettledState(turn[c].result, control.pause, CancelApplies(c)))
          \in {"complete", "paused", "interrupted", "error"}
    BY <1>0, <2>1 DEF TurnInv, PlaceEnd, MessageStatus, Turn
  <2>6. t \in Turn /\ u \in Saved
    BY <1>0, <2>1, <2>4, <2>5, PlaceNames, MovedTyped, RunNames, ZenonT(60) DEF Turn, Saved
  <2>7. TurnInv(t, u) /\ (t.pc = "idle" \/ t.gen = turn[c].gen) /\ turn[c].pc # "idle"
    BY <1>0, <2>1, <2>4, <2>5 DEF TurnInv, PlaceRounds, PlaceDecision, PlaceEnd,
       PlaceRow, PlaceRun, InCall, Turn, Saved
  <2> HIDE DEF t, u
  <2>8. QED
    BY <1>0, <2>2, <2>3, <2>6, <2>7, LocalUpdate
<1>2. CASE Close(c)
  <2> DEFINE t == NoTurn
             u == [saved[c] EXCEPT !.run = Moved(turn[c].mem, turn[c].final)]
  <2>1. turn[c].pc = "close"
    BY <1>2 DEF Close, At
  <2>2. turn' = [turn EXCEPT ![c] = t]
    BY <1>2 DEF Close, At, TypeOK
  <2>3. saved' = [saved EXCEPT ![c] = u]
    BY <1>2 DEF Close, At, TypeOK, shared
  <2>4. turn[c].final \in RunStates
    BY <2>1, RunNames DEF TurnInv, PlaceEnd
  <2>5. t \in Turn /\ u \in Saved
    BY <1>0, <2>1, <2>4, PlaceNames, MovedTyped, RunNames, BoundsAssumption DEF Turn,
       Saved, NoTurn
  <2>6. TurnInv(t, u) /\ (t.pc = "idle" \/ t.gen = turn[c].gen) /\ turn[c].pc # "idle"
    BY <1>0, <2>1, <2>4, MovedEdges DEF TurnInv, PlaceRounds, PlaceDecision, PlaceEnd,
       PlaceRow, PlaceRun, InCall, Turn, Saved, NoTurn
  <2> HIDE DEF t, u
  <2>7. QED
    BY <1>0, <2>2, <2>3, <2>5, <2>6, LocalUpdate
<1> QED
  BY <1>1, <1>2 DEF Finish

-----------------------------------------------------------------------------
(* What a turn's own steps leave alone of the shared state. *)
Untouched ==
    /\ UNCHANGED <<control, cancelValue, halfway, exclusive, userPause, targets, stray>>
    /\ unseen' \subseteq unseen /\ recovered' \subseteq recovered

(* A turn's own step leaves the control, the exclusive lease and the        *)
(* history of pauses alone.                                                 *)
LEMMA OwnStepsUntouched ==
    ASSUME NEW c \in Conversations, TurnStep(c) \/ Mishap(c)
    PROVE  Untouched
<1> USE DEF Untouched, shared, history
<1>1. CASE Prepare(c)
  BY <1>1 DEF Prepare, CancelledBeforeSave, LeaveEarly, Assemble, SaveMessages, SaveRun,
     SnapshotTaken
<1>2. CASE Mishap(c)
  BY <1>2 DEF Mishap, PreparationFails, SnapshotFails, LeaveEarly, InterfaceGone
<1>3. CASE ModelRound(c)
  BY <1>3 DEF ModelRound, RoundStopped, BeginRound, ModelInterrupted,
     ModelFails, OutputLimit, CorrectiveRound, RetryAnswer, FallbackAnswer,
     FinishInAnswer, FinalAnswer, ToolCalls
<1>4. CASE ToolCall(c)
  <2>1. CASE \E s \in Calls : TakeCall(c, s)
    BY <2>1, SMTT(60) DEF TakeCall
  <2>2. CASE ~\E s \in Calls : TakeCall(c, s)
    BY <1>4, <2>2 DEF ToolCall, SkipCall, StopAtCall, RuleDenies, Decide, Ask,
       DecisionTaken, ApprovalTimesOut, ApprovalInterrupted, AdmitDenied, AdmitOver,
       AdmitWithin, MarkExecuting, DispatchRefused, Dispatch, ToolReturns,
       ToolInterrupted, Record, EndCalls
  <2>3. QED
    BY <2>1, <2>2
<1>5. CASE Finish(c)
  BY <1>5 DEF Finish, Settle, Close
<1>6. QED
  BY <1>1, <1>2, <1>3, <1>4, <1>5 DEF TurnStep

(* A local step of one turn keeps the invariant, whatever it does to the   *)
(* shared state short of the generations and the exclusive lease.          *)
LEMMA LocalKeeps ==
    ASSUME IInv, NEW c \in Conversations, LocalStep(c), SharedTypeOK',
           control'.active = control.active, exclusive' = exclusive, UserPauseHolds'
    PROVE  IInv'
<1>1. TypeOK'
  BY DEF IInv, TypeOK, LocalStep
<1>2. \A d \in Conversations \ {c} : turn'[d] = turn[d] /\ saved'[d] = saved[d]
  BY DEF IInv, TypeOK, LocalStep
<1>3. \A d \in Conversations : TurnInv(turn[d], saved[d])'
  BY <1>2 DEF IInv, LocalStep
<1>4. \A d \in Live' : d \in Live /\ turn'[d].gen = turn[d].gen
  BY <1>2 DEF Live, LocalStep
<1>5. GenerationsNameTurns'
  BY <1>4 DEF IInv, GenerationsNameTurns
<1>6. QED
  BY <1>1, <1>3, <1>5 DEF IInv

(* So does a step that moves no turn and no generation. *)
LEMMA SharedKeeps ==
    ASSUME IInv, UNCHANGED <<turn, saved>>, SharedTypeOK', UserPauseHolds',
           control'.active = control.active, exclusive' => exclusive \/ Live = {}
    PROVE  IInv'
<1>1. TypeOK'
  BY DEF IInv, TypeOK
<1>2. GenerationsNameTurns'
  BY DEF IInv, GenerationsNameTurns, Live
<1>3. QED
  BY <1>1, <1>2 DEF IInv

(* The inductive invariant holds initially. *)
LEMMA InitIInv == Init => IInv
<1> SUFFICES ASSUME Init PROVE IInv
  OBVIOUS
<1>1. NoTurn \in Turn
  BY BoundsAssumption, PlaceNames DEF NoTurn, Turn
<1>2. [run |-> NoRun, msg |-> "none", row |-> "none"] \in Saved
  BY DEF Saved
<1>3. TypeOK
  <2>1. NoControl \in [active : 0..MaxGenerations, cancel : 0..MaxGenerations,
                      pause : BOOLEAN, byModel : BOOLEAN]
    BY BoundsAssumption DEF NoControl
  <2>2. SharedTypeOK
    BY <2>1 DEF Init, SharedTypeOK
  <2>3. QED
    BY <1>1, <1>2, <2>2 DEF Init, TypeOK
<1>4. \A c \in Conversations : TurnInv(turn[c], saved[c])
  BY BoundsAssumption DEF Init, NoTurn, TurnInv, PlaceRounds, PlaceDecision, PlaceEnd,
     PlaceRow, PlaceRun, InCall
<1>5. UserPauseHolds /\ GenerationsNameTurns
  BY DEF Init, UserPauseHolds, GenerationsNameTurns, Live, NoTurn
<1>6. QED
  BY <1>3, <1>4, <1>5 DEF IInv

(* It is preserved by every step of a turn's own task, *)
LEMMA OwnStepsKeep ==
    ASSUME IInv, NEW c \in Conversations, TurnStep(c) \/ Mishap(c)
    PROVE  IInv'
<1>1. LocalStep(c)
  BY PrepareStep, MishapStep, ModelRoundStep, ToolCallStep, FinishStep DEF IInv, TurnStep
<1>2. SharedTypeOK'
  BY OwnStepsUntouched DEF IInv, TypeOK, SharedTypeOK, Untouched
<1>3. UserPauseHolds'
  BY OwnStepsUntouched DEF IInv, UserPauseHolds, Untouched
<1>4. QED
  BY <1>1, <1>2, <1>3, OwnStepsUntouched, LocalKeeps DEF Untouched

(* A control reached from a running tool, or an answered approval, is      *)
(* a local step of its turn too.                                           *)
LEMMA LifecycleLocal ==
    ASSUME IInv, NEW c \in Conversations, UNCHANGED saved,
           \/ At(c, "tool") /\ turn' = [turn EXCEPT ![c].outcome = "ok"]
           \/ \E answer \in {"allow", "deny"} :
                turn[c].approval = "waiting" /\ turn' = [turn EXCEPT ![c].approval = answer]
    PROVE  LocalStep(c)
<1>0. turn[c] \in Turn /\ saved[c] \in Saved /\ saved = [saved EXCEPT ![c] = saved[c]]
  BY DEF IInv, TypeOK
<1>1. CASE At(c, "tool") /\ turn' = [turn EXCEPT ![c].outcome = "ok"]
  <2> DEFINE t == [turn[c] EXCEPT !.outcome = "ok"]
  <2>1. turn' = [turn EXCEPT ![c] = t] /\ turn[c].pc = "tool"
    BY <1>1 DEF At
  <2>2. t \in Turn
    BY <1>0 DEF Turn
  <2>3. TurnInv(t, saved[c]) /\ t.gen = turn[c].gen
    BY <1>0, <2>1 DEF IInv, TurnInv, PlaceRounds, PlaceDecision, PlaceEnd, PlaceRow,
       PlaceRun, InCall, Turn
  <2> HIDE DEF t
  <2>4. QED
    BY <1>0, <2>1, <2>2, <2>3, LocalUpdate DEF IInv
<1>2. ASSUME NEW answer \in {"allow", "deny"}, turn[c].approval = "waiting",
             turn' = [turn EXCEPT ![c].approval = answer]
      PROVE  LocalStep(c)
  <2> DEFINE t == [turn[c] EXCEPT !.approval = answer]
  <2>1. turn' = [turn EXCEPT ![c] = t] /\ turn[c].approval = "waiting"
    BY <1>2
  <2>2. t \in Turn
    BY <1>0 DEF Turn
  <2>3. TurnInv(t, saved[c]) /\ t.gen = turn[c].gen /\ turn[c].pc = "approval"
    BY <1>0, <2>1 DEF IInv, TurnInv, PlaceRounds, PlaceDecision, PlaceEnd, PlaceRow,
       PlaceRun, InCall, Turn
  <2> HIDE DEF t
  <2>4. QED
    BY <1>0, <2>1, <2>2, <2>3, LocalUpdate DEF IInv
<1>3. QED
  BY <1>1, <1>2

(* by the beginning of a turn, *)
LEMMA BeginTurnKeeps ==
    ASSUME IInv, NEW c \in Conversations, BeginTurn(c)
    PROVE  IInv'
<1> DEFINE t == [NoTurn EXCEPT !.pc = "assemble", !.gen = control.active + 1]
<1>1. /\ turn' = [turn EXCEPT ![c] = t] /\ turn[c].pc = "idle" /\ ~exclusive
      /\ saved' = saved /\ exclusive' = exclusive
  BY DEF BeginTurn, At
<1>2. control.active + 1 \in 1..MaxGenerations
  BY BoundsAssumption DEF BeginTurn, IInv, TypeOK, SharedTypeOK
<1>3. t \in Turn /\ t.gen = control.active + 1
  <2>1. NoTurn \in Turn
    BY BoundsAssumption, PlaceNames DEF NoTurn, Turn
  <2>2. control.active + 1 \in 0..MaxGenerations
    BY <1>2
  <2>3. QED
    BY <2>1, <2>2, PlaceNames DEF Turn
<1>4. /\ control' = [control EXCEPT !.active = control.active + 1, !.pause = FALSE,
                                    !.byModel = FALSE]
      /\ control'.active = control.active + 1
  BY DEF BeginTurn, IInv, TypeOK, SharedTypeOK
<1>5. SharedTypeOK'
  <2>1. control' \in [active : 0..MaxGenerations, cancel : 0..MaxGenerations,
                     pause : BOOLEAN, byModel : BOOLEAN]
    <3>1. control.active + 1 \in 0..MaxGenerations
      BY <1>2
    <3>2. QED
      BY <1>4, <3>1 DEF IInv, TypeOK, SharedTypeOK
  <2>2. QED
    BY <2>1 DEF BeginTurn, IInv, TypeOK, SharedTypeOK, Live
<1>6. TurnInv(t, saved[c])
  BY BoundsAssumption DEF NoTurn, TurnInv, PlaceRounds, PlaceDecision, PlaceEnd,
     PlaceRow, PlaceRun, InCall
<1> HIDE DEF t
<1>7. TypeOK'
  BY <1>1, <1>3, <1>5 DEF IInv, TypeOK
<1>8. turn'[c] = t /\ \A d \in Conversations \ {c} : turn'[d] = turn[d]
  BY <1>1 DEF IInv, TypeOK
<1>9. \A d \in Conversations : TurnInv(turn[d], saved[d])'
  BY <1>1, <1>6, <1>8 DEF IInv
<1>10. \A d \in Live' : d = c \/ (d # c /\ d \in Live /\ turn'[d].gen = turn[d].gen)
  BY <1>8 DEF Live
<1>11. \A d \in Live : turn[d].gen \in Nat /\ turn[d].gen <= control.active
                       /\ turn[d].gen >= 1
  BY DEF IInv, GenerationsNameTurns, TypeOK, SharedTypeOK
<1>12. control.active \in Nat
  BY BoundsAssumption DEF IInv, TypeOK, SharedTypeOK
<1>13. GenerationsNameTurns'
  <2>1. \A d, e \in Live' : turn'[d].gen = turn'[e].gen => d = e
    BY <1>3, <1>8, <1>10, <1>11, <1>12 DEF IInv, GenerationsNameTurns
  <2>2. \A d \in Live' : turn'[d].gen \in 1..control'.active
    BY <1>3, <1>4, <1>8, <1>10, <1>11, <1>12
  <2>3. QED
    BY <1>1, <2>1, <2>2 DEF GenerationsNameTurns
<1>14. UserPauseHolds'
  BY DEF BeginTurn, UserPauseHolds
<1>15. QED
  BY <1>7, <1>9, <1>13, <1>14 DEF IInv

(* by a crash and the recovery of the next start, *)
LEMMA CrashKeeps ==
    ASSUME IInv, CrashAndRestart
    PROVE  IInv'
<1>1. NoTurn \in Turn
  BY BoundsAssumption, PlaceNames DEF NoTurn, Turn
<1>2. \A c \in Conversations : Recovered(saved[c]) \in Saved
  <2> TAKE c \in Conversations
  <2>1. saved[c] \in Saved
    BY DEF IInv, TypeOK
  <2>2. QED
    BY <2>1, RunNames DEF Recovered, Saved
<1>3. TypeOK'
  <2>1. NoControl \in [active : 0..MaxGenerations, cancel : 0..MaxGenerations,
                      pause : BOOLEAN, byModel : BOOLEAN]
    BY BoundsAssumption DEF NoControl
  <2>2. SharedTypeOK'
    BY <2>1 DEF IInv, TypeOK, CrashAndRestart, SharedTypeOK, Live
  <2>3. QED
    BY <1>1, <1>2, <2>2 DEF CrashAndRestart, TypeOK
<1>4. \A c \in Conversations : TurnInv(turn[c], saved[c])'
  BY BoundsAssumption DEF CrashAndRestart, NoTurn, TurnInv, PlaceRounds, PlaceDecision,
     PlaceEnd, PlaceRow, PlaceRun, InCall
<1>5. (UserPauseHolds /\ GenerationsNameTurns)'
  BY DEF CrashAndRestart, UserPauseHolds, GenerationsNameTurns, Live, NoTurn
<1>6. QED
  BY <1>3, <1>4, <1>5 DEF IInv

(* by Stop, Pause, Resume and the tools that act on them, *)
LEMMA ControlsKeep ==
    ASSUME IInv,
           \/ \E x \in Conversations \cup {User} : RequestCancel(x) \/ SendCancel(x)
           \/ \E c \in Conversations : ModelPauses(c) \/ ModelResumes(c)
           \/ UserPauses
    PROVE  IInv'
<1>1. ASSUME NEW x \in Conversations \cup {User}, RequestCancel(x) PROVE IInv'
  <2>1. SharedTypeOK' /\ UserPauseHolds' /\ control'.active = control.active
    BY <1>1 DEF RequestCancel, IInv, TypeOK, SharedTypeOK, UserPauseHolds, Live
  <2>2. CASE x = User
    BY <1>1, <2>1, <2>2, SharedKeeps DEF RequestCancel
  <2>3. CASE x \in Conversations /\ x # User
    <3>1. LocalStep(x)
      BY <1>1, <2>3, LifecycleLocal DEF RequestCancel
    <3>2. QED
      BY <1>1, <2>1, <2>3, <3>1, LocalKeeps DEF RequestCancel
  <2>4. QED
    BY <2>2, <2>3
<1>2. ASSUME NEW x \in Conversations \cup {User}, SendCancel(x) PROVE IInv'
  <2>1. SharedTypeOK' /\ UserPauseHolds'
    BY <1>2 DEF SendCancel, IInv, TypeOK, SharedTypeOK, UserPauseHolds, Live
  <2>2. QED
    BY <1>2, <2>1, SharedKeeps DEF SendCancel
<1>3. ASSUME NEW c \in Conversations, ModelPauses(c) \/ ModelResumes(c) PROVE IInv'
  <2>1. SharedTypeOK' /\ control'.active = control.active
    BY <1>3, ZenonT(60) DEF ModelPauses, ModelResumes, IInv, TypeOK, SharedTypeOK, history, Live
  <2>2. UserPauseHolds'
    BY <1>3 DEF ModelPauses, ModelResumes, IInv, TypeOK, SharedTypeOK, UserPauseHolds,
       history
  <2>3. LocalStep(c) /\ exclusive' = exclusive
    BY <1>3, LifecycleLocal DEF ModelPauses, ModelResumes
  <2>4. QED
    BY <2>1, <2>2, <2>3, LocalKeeps
<1>4. ASSUME UserPauses PROVE IInv'
  <2>1. SharedTypeOK' /\ UserPauseHolds' /\ control'.active = control.active
    BY <1>4 DEF UserPauses, IInv, TypeOK, SharedTypeOK, UserPauseHolds
  <2>2. QED
    BY <1>4, <2>1, SharedKeeps DEF UserPauses
<1>5. QED
  BY <1>1, <1>2, <1>3, <1>4

(* by the exclusive lease, *)
LEMMA LeasesKeep ==
    ASSUME IInv, UserResumes \/ TakeExclusive \/ ReleaseExclusive
    PROVE  IInv'
<1>1. CASE UserResumes
  <2>1. control.active + 1 \in 0..MaxGenerations
    BY <1>1, BoundsAssumption DEF UserResumes, IInv, TypeOK, SharedTypeOK
  <2>2. SharedTypeOK' /\ UserPauseHolds'
    BY <1>1, <2>1 DEF UserResumes, IInv, TypeOK, SharedTypeOK, UserPauseHolds
  <2>3. GenerationsNameTurns'
    BY <1>1 DEF UserResumes, GenerationsNameTurns, Live
  <2>4. QED
    BY <1>1, <2>2, <2>3 DEF UserResumes, IInv, TypeOK
<1>2. CASE TakeExclusive
  BY <1>2, SharedKeeps DEF TakeExclusive, IInv, TypeOK, SharedTypeOK, UserPauseHolds,
     history
<1>3. CASE ReleaseExclusive
  BY <1>3, SharedKeeps DEF ReleaseExclusive, IInv, TypeOK, SharedTypeOK, UserPauseHolds,
     history
<1>4. QED
  BY <1>1, <1>2, <1>3

(* and so by every step of the specification. *)
LEMMA NextIInv == IInv /\ [Next]_vars => IInv'
<1> SUFFICES ASSUME IInv, [Next]_vars PROVE IInv'
  OBVIOUS
<1>1. ASSUME NEW c \in Conversations, BeginTurn(c) PROVE IInv'
  BY <1>1, BeginTurnKeeps
<1>2. ASSUME NEW c \in Conversations, TurnStep(c) \/ Mishap(c) PROVE IInv'
  BY <1>2, OwnStepsKeep
<1>3. ASSUME NEW c \in Conversations, Lifecycle(c) PROVE IInv'
  BY <1>3, ControlsKeep DEF Lifecycle
<1>4. ASSUME NEW c \in Conversations, NEW answer \in {"allow", "deny"}, Resolve(c, answer)
      PROVE  IInv'
  <2>1. LocalStep(c)
    BY <1>4, LifecycleLocal DEF Resolve
  <2>2. SharedTypeOK' /\ UserPauseHolds' /\ control'.active = control.active
        /\ exclusive' = exclusive
    BY <1>4 DEF Resolve, IInv, TypeOK, SharedTypeOK, UserPauseHolds, shared, history
  <2>3. QED
    BY <2>1, <2>2, LocalKeeps
<1>5. CASE RequestCancel(User) \/ UserPauses
           \/ \E x \in Conversations \cup {User} : SendCancel(x)
  BY <1>5, ControlsKeep
<1>6. CASE UserResumes \/ TakeExclusive \/ ReleaseExclusive
  BY <1>6, LeasesKeep
<1>7. CASE CrashAndRestart
  BY <1>7, CrashKeeps
<1>8. CASE UNCHANGED vars
  <2>1. SharedTypeOK' /\ UserPauseHolds' /\ control'.active = control.active
        /\ exclusive' = exclusive /\ UNCHANGED <<turn, saved>>
    BY <1>8 DEF vars, shared, history, IInv, TypeOK, SharedTypeOK, UserPauseHolds
  <2>2. QED
    BY <2>1, SharedKeeps
<1>9. QED
  BY <1>1, <1>2, <1>3, <1>4, <1>5, <1>6, <1>7, <1>8 DEF Next

-----------------------------------------------------------------------------
(* IInv is an invariant of the specification. *)
LEMMA Invariance == Spec => []IInv
  BY InitIInv, NextIInv, PTL DEF Spec

(* Every variable keeps its type: the rounds, calls and recoveries of a    *)
(* turn stay within the limits the loop counts them against.               *)
THEOREM TypeCorrect == Spec => []TypeOK
  BY Invariance, PTL DEF IInv

(* A pause of the user is neither taken over nor released by a model       *)
(* (docs/TOOL_RESULTS.md:13), with any number of conversations.            *)
THEOREM UserPauseKept == Spec => []UserPauseHolds
  BY Invariance, PTL DEF IInv

(* Live turns have distinct generations and never overlap an exclusive     *)
(* operation, so a Stop that names a generation names one turn.            *)
THEOREM GenerationNamesOneTurn == Spec => []GenerationsNameTurns
  BY Invariance, PTL DEF IInv

(* After a denial no tool of that turn runs, whatever the response asks.   *)
THEOREM NoToolAfterDenial == Spec => []DenialStopsTools
<1>1. IInv => DenialStopsTools
  BY DEF IInv, TurnInv, PlaceDecision, DenialStopsTools
<1>2. QED
  BY <1>1, Invariance, PTL

(* A running tool was allowed and has its audit row on disk.               *)
THEOREM AuditBeforeEffect == Spec => []AuditedBeforeRunning
<1>1. IInv => AuditedBeforeRunning
  BY DEF IInv, TurnInv, PlaceRow, AuditedBeforeRunning
<1>2. QED
  BY <1>1, Invariance, PTL

(* A call with an uncertain outcome is not replayed in its turn.           *)
THEOREM UncertainNotReplayed == Spec => []NoUncertainReplay
<1>1. IInv => NoUncertainReplay
  BY DEF IInv, TurnInv, PlaceDecision, InCall, NoUncertainReplay
<1>2. QED
  BY <1>1, Invariance, PTL

(* The last round is the answering one: no turn runs off its rounds.       *)
THEOREM LastRoundIsTheAnswer == Spec => []LastRoundAnswers
<1>1. IInv => LastRoundAnswers
  BY DEF IInv, TurnInv, PlaceRounds, LastRoundAnswers
<1>2. QED
  BY <1>1, Invariance, PTL

(* No transition the loop asks for is refused, and the saved run follows.  *)
THEOREM NoTransitionRefused == Spec => []RunTracksLoop
<1>1. IInv => RunTracksLoop
  BY DEF IInv, TurnInv, PlaceRun, RunTracksLoop
<1>2. QED
  BY <1>1, Invariance, PTL

-----------------------------------------------------------------------------
(* How turns end *)

(* What the place of a turn says of the run it holds once it has a result,  *)
(* and what was saved of it once it is settled.                             *)
Ends(t) ==
    t.pc \in {"settle", "close"} =>
        /\ t.result # "none"
        /\ t.result = "done" => t.mem \in {"generating", "executing_tools", "completed"}
        /\ t.result = "error" => t.mem \in ActiveRunStates
        /\ t.result = "stopped" => t.mem \in ActiveRunStates \cup {"cancelled"}

Settled(t, s) ==
    t.pc = "close" =>
        /\ t.result = "done" => t.final = "completed" /\ s.msg = "complete"
        /\ t.result = "error" => t.final = "failed" /\ s.msg = "error"
        /\ t.result = "stopped" => \/ t.final = "paused" /\ s.msg = "paused"
                                   \/ t.final = "cancelled" /\ s.msg = "interrupted"

(* Whoever the shared cancel names was asked to stop.                       *)
NamedIsTarget(c) == c \in Live /\ control.cancel = turn[c].gen => c \in targets

(* A turn the controls of others did not reach is the newest one, wakes up  *)
(* only for its own cancel, and stops for that or for a pause.              *)
Unreached(c) ==
    c \in Live \ stray =>
        /\ turn[c].gen = control.active
        /\ c \in unseen => CancelApplies(c)
        /\ turn[c].pc \in {"settle", "close"} /\ turn[c].mem = "cancelled" => CancelApplies(c)
        /\ turn[c].pc = "settle" /\ turn[c].result = "stopped" => CancelApplies(c) \/ control.pause
        /\ turn[c].pc = "close" /\ turn[c].mem = "cancelled" => turn[c].final = "cancelled"
        /\ turn[c].pc = "close" /\ turn[c].final = "cancelled" => c \in targets

EndInv ==
    /\ control.cancel <= control.active
    /\ \A c \in Conversations :
         Ends(turn[c]) /\ Settled(turn[c], saved[c]) /\ NamedIsTarget(c) /\ Unreached(c)

(* A step that gives a turn its result.                                     *)
Ending(c) ==
    /\ turn'[c].pc = "settle" /\ Ends(turn'[c])
    /\ turn[c].pc \notin {"settle", "close"}
    /\ turn'[c].mem = "cancelled" => c \in unseen
    /\ turn'[c].result = "stopped" => c \in unseen \/ CancelApplies(c) \/ control.pause

(* How an action that ends its turn is shown to do that: t is its new value. *)
LEMMA EndingUpdate ==
    ASSUME TypeOK, NEW c \in Conversations, NEW t, turn' = [turn EXCEPT ![c] = t],
           t.pc = "settle", turn[c].pc \notin {"settle", "close"},
           \/ t.result = "done" /\ t.mem \in {"generating", "executing_tools", "completed"}
           \/ t.result = "error" /\ t.mem \in ActiveRunStates
           \/ /\ t.result = "stopped" /\ t.mem \in ActiveRunStates
              /\ c \in unseen \/ CancelApplies(c) \/ control.pause
           \/ t.result = "stopped" /\ t.mem = "cancelled" /\ c \in unseen
    PROVE  Ending(c)
<1>1. turn'[c] = t
  BY DEF TypeOK
<1> QED BY <1>1 DEF Ending, Ends, ActiveRunStates

(* What a turn's record says of the run it holds before it has a result.    *)
LEMMA ActiveBefore ==
    ASSUME IInv, NEW c \in Conversations
    PROVE  /\ turn[c].pc \in {"top", "model", "calls", "permit", "admit", "mark", "approval", "dispatch", "tool"}
                 => turn[c].mem \in ActiveRunStates
           /\ turn[c].pc \in {"model", "calls"} => turn[c].mem \in {"generating", "executing_tools"}
           /\ turn[c].pc = "model" => turn[c].mem = "generating"
           /\ turn[c].pc = "tool" => turn[c].mem = "executing_tools"
           /\ turn[c] \in Turn /\ turn \in [Conversations -> Turn] /\ TypeOK
BY DEF IInv, TypeOK, TurnInv, PlaceRun, ActiveRunStates

LEMMA PrepareNotEnds ==
    ASSUME IInv, NEW c \in Conversations, Prepare(c)
    PROVE  turn'[c].pc \notin {"settle", "close"}
<1>1. turn[c] \in Turn /\ turn \in [Conversations -> Turn]
  BY DEF IInv, TypeOK
<1>2. CASE CancelledBeforeSave(c)
  BY <1>1, <1>2 DEF CancelledBeforeSave, LeaveEarly, NoTurn
<1>3. ASSUME NEW p \in {"context", "saverun", "top"}, turn' = [turn EXCEPT ![c].pc = p]
      PROVE  turn'[c].pc \notin {"settle", "close"}
  BY <1>1, <1>3 DEF Turn
<1>4. CASE Assemble(c) \/ SnapshotTaken(c)
  BY <1>3, <1>4 DEF Assemble, SnapshotTaken
<1>5. CASE SaveMessages(c)
  BY <1>3, <1>5 DEF SaveMessages
<1>6. CASE SaveRun(c)
  BY <1>1, <1>6 DEF SaveRun, Turn
<1> QED BY <1>2, <1>4, <1>5, <1>6 DEF Prepare

LEMMA MishapEnds ==
    ASSUME IInv, NEW c \in Conversations, Mishap(c)
    PROVE  turn'[c].pc \notin {"settle", "close"} \/ Ending(c)
<1>1. CASE PreparationFails(c) \/ SnapshotFails(c)
  BY <1>1, ActiveBefore DEF PreparationFails, SnapshotFails, LeaveEarly, NoTurn
<1>2. CASE InterfaceGone(c)
  <2> DEFINE t == [turn[c] EXCEPT !.pc = "settle", !.result = "error", !.approval = "none"]
  <2>1. turn' = [turn EXCEPT ![c] = t] /\ turn[c].pc \in {"approval", "mark", "dispatch"}
    BY <1>2, ActiveBefore DEF InterfaceGone, At
  <2>2. t.pc = "settle" /\ t.result = "error" /\ t.mem = turn[c].mem
    BY ActiveBefore DEF Turn
  <2> HIDE DEF t
  <2> QED BY <2>1, <2>2, ActiveBefore, EndingUpdate
<1> QED BY <1>1, <1>2 DEF Mishap

(* Leaving the rounds with an outcome.                                      *)
LEMMA LeaveEnds ==
    ASSUME IInv, NEW c \in Conversations, NEW outcome \in {"done", "error", "stopped"},
           Leave(c, outcome), turn[c].pc \in {"top", "model", "calls"},
           outcome = "done" => turn[c].pc # "top",
           outcome = "stopped" => c \in unseen \/ CancelApplies(c) \/ control.pause
    PROVE  Ending(c)
<1> DEFINE t == [turn[c] EXCEPT !.pc = "settle", !.result = outcome]
<1>1. turn' = [turn EXCEPT ![c] = t]
  BY ActiveBefore DEF Leave
<1>2. t.pc = "settle" /\ t.result = outcome /\ t.mem = turn[c].mem
  BY ActiveBefore DEF Turn
<1> HIDE DEF t
<1> QED BY <1>1, <1>2, ActiveBefore, EndingUpdate

(* Going on with another value of the turn. *)
LEMMA GoesOn ==
    ASSUME IInv, NEW c \in Conversations, NEW t, turn' = [turn EXCEPT ![c] = t],
           t.pc \notin {"settle", "close"}
    PROVE  turn'[c].pc \notin {"settle", "close"}
BY ActiveBefore

LEMMA ModelRoundEnds ==
    ASSUME IInv, NEW c \in Conversations, ModelRound(c)
    PROVE  turn'[c].pc \notin {"settle", "close"} \/ Ending(c)
<1>0. turn[c] \in Turn /\ turn \in [Conversations -> Turn]
  BY ActiveBefore
<1>1. CASE RoundStopped(c)
  <2>1. CASE turn[c].round = MaxRounds
    BY <1>1, <2>1, LeaveEnds DEF RoundStopped, At
  <2>2. CASE turn[c].round # MaxRounds
    BY <1>1, <2>2, LeaveEnds DEF RoundStopped, At
  <2> QED BY <2>1, <2>2
<1>2. CASE BeginRound(c)
  BY <1>0, <1>2 DEF BeginRound, Turn
<1>3. CASE ModelInterrupted(c)
  BY <1>3, LeaveEnds DEF ModelInterrupted, At
<1>4. CASE ModelFails(c)
  BY <1>4, LeaveEnds DEF ModelFails, At
<1>5. CASE OutputLimit(c)
  <2>1. CASE turn[c].finalizing \/ turn[c].denied \/ turn[c].recoveries >= MaxRecoveries
    BY <1>5, <2>1, LeaveEnds DEF OutputLimit, At
  <2>2. CASE ~(turn[c].finalizing \/ turn[c].denied \/ turn[c].recoveries >= MaxRecoveries)
    BY <1>0, <1>5, <2>2 DEF OutputLimit, Turn
  <2> QED BY <2>1, <2>2
<1>6. CASE CorrectiveRound(c)
  BY <1>0, <1>6 DEF CorrectiveRound, MoveRun, Turn
<1>7. CASE RetryAnswer(c)
  BY <1>0, <1>7 DEF RetryAnswer, Turn
<1>8. CASE FallbackAnswer(c)
  <2>1. CASE turn[c].fallback
    BY <1>8, <2>1, LeaveEnds DEF FallbackAnswer, At
  <2>2. CASE ~turn[c].fallback
    BY <1>8, <2>2, LeaveEnds DEF FallbackAnswer, At
  <2> QED BY <2>1, <2>2
<1>9. CASE FinishInAnswer(c)
  BY <1>9, LeaveEnds DEF FinishInAnswer, At
<1>10. CASE FinalAnswer(c)
  <2> DEFINE t == [turn[c] EXCEPT !.pc = "settle", !.result = "done",
                                  !.mem = Moved(turn[c].mem, "completed")]
  <2>1. turn' = [turn EXCEPT ![c] = t] /\ turn[c].pc = "model"
    BY <1>10, <1>0 DEF FinalAnswer, At
  <2>2. t.pc = "settle" /\ t.result = "done" /\ t.mem = Moved(turn[c].mem, "completed")
    BY <1>0 DEF Turn
  <2>3. t.mem \in {"generating", "completed"}
    BY <2>1, <2>2, ActiveBefore DEF Moved
  <2> HIDE DEF t
  <2> QED BY <2>1, <2>2, <2>3, ActiveBefore, EndingUpdate
<1>11. CASE ToolCalls(c)
  <2>1. CASE turn[c].denied
    BY <1>11, <2>1, LeaveEnds DEF ToolCalls, At
  <2>2. CASE ~turn[c].denied
    <3>1. PICK n \in 1..MaxCalls :
             turn' = [turn EXCEPT ![c] = [turn[c] EXCEPT !.pc = "calls", !.left = n, !.solo = (n = 1)]]
      BY <1>0, <1>11, <2>2 DEF ToolCalls
    <3> QED BY <1>0, <3>1 DEF Turn
  <2> QED BY <2>1, <2>2
<1> QED BY <1>1, <1>2, <1>3, <1>4, <1>5, <1>6, <1>7, <1>8, <1>9, <1>10, <1>11 DEF ModelRound

LEMMA ToolCallEnds ==
    ASSUME IInv, NEW c \in Conversations, ToolCall(c)
    PROVE  turn'[c].pc \notin {"settle", "close"} \/ Ending(c)
<1>0. turn[c] \in Turn /\ turn \in [Conversations -> Turn]
  BY ActiveBefore
<1>1. CASE SkipCall(c)
  BY <1>0, <1>1 DEF SkipCall, At, Turn
<1>2. CASE StopAtCall(c)
  BY <1>2, LeaveEnds DEF StopAtCall, At
<1>3. ASSUME NEW s \in Calls, TakeCall(c, s)
      PROVE  turn'[c].pc \notin {"settle", "close"}
  BY <1>0, <1>3 DEF TakeCall, Turn
<1>4. CASE RuleDenies(c)
  BY <1>0, <1>4 DEF RuleDenies, Turn
<1>5. CASE Decide(c)
  BY <1>0, <1>5 DEF Decide, Turn
<1>6. CASE Ask(c)
  BY <1>0, <1>6 DEF Ask, Turn
<1>7. CASE DecisionTaken(c) \/ Dispatch(c)
  BY <1>0, <1>7 DEF DecisionTaken, Dispatch, Turn
<1>8. CASE ApprovalTimesOut(c)
  BY <1>0, <1>8 DEF ApprovalTimesOut, Turn
<1>9. CASE ApprovalInterrupted(c)
  <2> DEFINE t == [turn[c] EXCEPT !.pc = "settle", !.result = "stopped", !.approval = "none"]
  <2>1. turn' = [turn EXCEPT ![c] = t] /\ turn[c].pc = "approval" /\ c \in unseen
    BY <1>0, <1>9 DEF ApprovalInterrupted, At
  <2>2. t.pc = "settle" /\ t.result = "stopped" /\ t.mem = turn[c].mem
    BY <1>0 DEF Turn
  <2> HIDE DEF t
  <2> QED BY <2>1, <2>2, ActiveBefore, EndingUpdate
<1>10. CASE AdmitDenied(c)
  BY <1>0, <1>10 DEF AdmitDenied, Turn
<1>11. CASE AdmitOver(c)
  BY <1>0, <1>11 DEF AdmitOver, Turn
<1>12. CASE AdmitWithin(c)
  BY <1>0, <1>12 DEF AdmitWithin, Turn
<1>13. CASE MarkExecuting(c)
  BY <1>0, <1>13 DEF MarkExecuting, MoveRun, Turn
<1>14. CASE DispatchRefused(c)
  BY <1>0, <1>14 DEF DispatchRefused, Turn
<1>15. CASE ToolReturns(c)
  BY <1>0, <1>15 DEF ToolReturns, Turn
<1>16. CASE ToolInterrupted(c)
  <2> DEFINE t == [turn[c] EXCEPT !.pc = "settle", !.result = "stopped", !.approval = "none",
                                  !.mem = Moved(turn[c].mem, "cancelled")]
  <2>1. turn' = [turn EXCEPT ![c] = t] /\ turn[c].pc = "tool" /\ c \in unseen
    BY <1>0, <1>16 DEF ToolInterrupted, At
  <2>2. t.pc = "settle" /\ t.result = "stopped" /\ t.mem = Moved(turn[c].mem, "cancelled")
    BY <1>0 DEF Turn
  <2>3. t.mem \in {"executing_tools", "cancelled"}
    BY <2>1, <2>2, ActiveBefore DEF Moved
  <2> HIDE DEF t
  <2> QED BY <2>1, <2>2, <2>3, EndingUpdate, ActiveBefore DEF ActiveRunStates
<1>17. CASE Record(c)
  BY <1>0, <1>17 DEF Record, Turn
<1>18. CASE EndCalls(c)
  <2>1. CASE turn[c].finished
    BY <1>18, <2>1, LeaveEnds DEF EndCalls, At
  <2>2. CASE ~turn[c].finished
    <3>1. PICK stalled \in BOOLEAN :
             turn' = [turn EXCEPT ![c] = [turn[c] EXCEPT
                        !.pc = "top", !.fallback = turn[c].fallback \/ stalled,
                        !.mem = Moved(turn[c].mem, "preparing_next_round")]]
      BY <1>0, <1>18, <2>2 DEF EndCalls
    <3> QED BY <1>0, <3>1 DEF Turn
  <2> QED BY <2>1, <2>2
<1> QED BY <1>1, <1>2, <1>3, <1>4, <1>5, <1>6, <1>7, <1>8, <1>9, <1>10, <1>11, <1>12, <1>13,
           <1>14, <1>15, <1>16, <1>17, <1>18 DEF ToolCall

(* Every step of a turn's own task goes on, gives the result, settles or    *)
(* closes.                                                                  *)
LEMMA OwnStepEnds ==
    ASSUME IInv, NEW c \in Conversations, TurnStep(c) \/ Mishap(c)
    PROVE  turn'[c].pc \notin {"settle", "close"} \/ Ending(c) \/ Settle(c)
<1>1. CASE Close(c)
  BY <1>1, ActiveBefore DEF Close, NoTurn
<1> QED BY <1>1, PrepareNotEnds, MishapEnds, ModelRoundEnds, ToolCallEnds DEF TurnStep, Finish

(* A step of turn c's own task that keeps what the invariant says of c.     *)
LEMMA OwnKeeps ==
    ASSUME IInv, EndInv, NEW c \in Conversations, LocalStep(c), Untouched,
           Ends(turn'[c]), Settled(turn'[c], saved'[c]),
           c \in Live \ stray /\ turn'[c].pc \in {"settle", "close"} =>
               /\ turn'[c].mem = "cancelled" => CancelApplies(c)
               /\ turn'[c].pc = "settle" /\ turn'[c].result = "stopped" => CancelApplies(c) \/ control.pause
               /\ turn'[c].pc = "close" /\ turn'[c].mem = "cancelled" => turn'[c].final = "cancelled"
               /\ turn'[c].pc = "close" /\ turn'[c].final = "cancelled" => c \in targets
    PROVE  EndInv'
<1>1. \A d \in Conversations \ {c} : turn'[d] = turn[d] /\ saved'[d] = saved[d]
  BY DEF IInv, TypeOK, LocalStep
<1>2. \A d \in Live' : d \in Live /\ turn'[d].gen = turn[d].gen
  BY <1>1 DEF LocalStep, Live
<1>3. \A d \in Live' : CancelApplies(d) => CancelApplies(d)'
  BY <1>2 DEF Untouched, CancelApplies, CancelMatches
<1>4. \A d \in Conversations : NamedIsTarget(d)'
  BY <1>2 DEF Untouched, EndInv, NamedIsTarget, Live
<1>5. \A d \in Conversations \ {c} : Ends(turn'[d]) /\ Settled(turn'[d], saved'[d])
  BY <1>1 DEF EndInv
<1>6. ASSUME NEW d \in Conversations \ {c} PROVE Unreached(d)'
  BY <1>1, <1>2, <1>3 DEF Untouched, EndInv, Unreached, Live
<1>7. Unreached(c)'
  <2> SUFFICES ASSUME c \in Live' \ stray' PROVE Unreached(c)'
    BY DEF Unreached
  <2>1. c \in Live \ stray /\ turn'[c].gen = turn[c].gen
    BY <1>2 DEF Untouched
  <2> QED BY <1>3, <2>1 DEF Untouched, EndInv, Unreached
<1>8. control'.cancel <= control'.active
  BY DEF Untouched, EndInv
<1> QED BY <1>4, <1>5, <1>6, <1>7, <1>8 DEF EndInv

LEMMA OwnStepsKeepEnds ==
    ASSUME IInv, EndInv, NEW c \in Conversations, TurnStep(c) \/ Mishap(c)
    PROVE  EndInv'
<1>0. LocalStep(c) /\ Untouched /\ turn[c] \in Turn /\ turn \in [Conversations -> Turn]
  BY ActiveBefore, OwnStepsUntouched, PrepareStep, MishapStep, ModelRoundStep, ToolCallStep, FinishStep DEF IInv, TurnStep
<1>1. CASE turn'[c].pc \notin {"settle", "close"}
  <2>1. Ends(turn'[c]) /\ Settled(turn'[c], saved'[c])
    BY <1>1 DEF Ends, Settled
  <2> QED BY <1>0, <1>1, <2>1, OwnKeeps
<1>2. CASE Ending(c)
  <2>1. Ends(turn'[c]) /\ Settled(turn'[c], saved'[c]) /\ turn'[c].pc = "settle"
    BY <1>2 DEF Ending, Settled
  <2>2. c \in Live \ stray /\ c \in unseen => CancelApplies(c)
    BY DEF EndInv, Unreached
  <2>3. c \in Live \ stray =>
               /\ turn'[c].mem = "cancelled" => CancelApplies(c)
               /\ turn'[c].result = "stopped" => CancelApplies(c) \/ control.pause
    BY <1>2, <2>2 DEF Ending
  <2> QED BY <1>0, <2>1, <2>3, OwnKeeps
<1>3. CASE Settle(c)
  <2> DEFINE final == SettledState(turn[c].result, control.pause, CancelApplies(c))
             t == [turn[c] EXCEPT !.pc = "close", !.final = final]
             s == [saved[c] EXCEPT !.msg = MessageStatus(turn[c].result, final)]
  <2>1. turn[c].pc = "settle" /\ turn'[c] = t /\ saved'[c] = s
    BY <1>0, <1>3 DEF Settle, At, IInv, TypeOK
  <2>2. t.pc = "close" /\ t.final = final /\ t.result = turn[c].result /\ t.mem = turn[c].mem
    BY <1>0 DEF Turn
  <2>3. s.msg = MessageStatus(turn[c].result, final)
    BY DEF IInv, TypeOK, Saved
  <2>4. turn[c].result \in {"done", "stopped", "error"}
    BY <1>0, <2>1 DEF EndInv, Ends, Turn
  <2>5. /\ turn[c].result = "done" => final = "completed"
        /\ turn[c].result = "error" => final = "failed"
        /\ turn[c].result = "stopped" /\ control.pause /\ ~CancelApplies(c) => final = "paused"
        /\ turn[c].result = "stopped" /\ ~(control.pause /\ ~CancelApplies(c)) => final = "cancelled"
    BY DEF SettledState
  <2> HIDE DEF final, t, s
  <2>6. Ends(turn'[c])
    BY <2>1, <2>2 DEF EndInv, Ends
  <2>7. Settled(turn'[c], saved'[c])
    BY <2>1, <2>2, <2>3, <2>4, <2>5 DEF Settled, MessageStatus
  <2>8. ASSUME c \in Live \ stray
        PROVE  /\ turn'[c].mem = "cancelled" => CancelApplies(c)
               /\ turn'[c].mem = "cancelled" => turn'[c].final = "cancelled"
               /\ turn'[c].final = "cancelled" => c \in targets
    <3>1. /\ turn[c].mem = "cancelled" => CancelApplies(c)
          /\ turn[c].result = "stopped" => CancelApplies(c) \/ control.pause
      BY <2>1, <2>8 DEF EndInv, Unreached
    <3>2. CancelApplies(c) => c \in targets
      BY <2>8 DEF EndInv, NamedIsTarget, CancelApplies, CancelMatches
    <3>3. turn[c].mem = "cancelled" => turn[c].result = "stopped"
      BY <2>1, <2>4 DEF EndInv, Ends, ActiveRunStates
    <3>4. final = "cancelled" => turn[c].result = "stopped" /\ ~(control.pause /\ ~CancelApplies(c))
      BY <2>4, <2>5
    <3> QED BY <2>1, <2>2, <2>5, <3>1, <3>2, <3>3, <3>4
  <2>9. turn'[c].pc = "close"
    BY <2>1, <2>2
  <2> QED BY <1>0, <2>6, <2>7, <2>8, <2>9, OwnKeeps
<1> QED BY <1>1, <1>2, <1>3, OwnStepEnds

(* A step that leaves every turn where it is, with its rows.                *)
SameTurns ==
    /\ saved' = saved
    /\ \A c \in Conversations :
         /\ turn'[c].pc = turn[c].pc /\ turn'[c].gen = turn[c].gen
         /\ turn'[c].result = turn[c].result /\ turn'[c].mem = turn[c].mem
         /\ turn'[c].final = turn[c].final

LEMMA SameTurnsKeep ==
    ASSUME IInv, EndInv, SameTurns
    PROVE  /\ \A c \in Conversations : Ends(turn'[c]) /\ Settled(turn'[c], saved'[c])
           /\ Live' = Live
<1>1. \A c \in Conversations : Ends(turn'[c]) /\ Settled(turn'[c], saved'[c])
  BY DEF EndInv, SameTurns, Ends, Settled
<1>2. Live' = Live
  BY DEF SameTurns, Live
<1> QED BY <1>1, <1>2

(* A lifecycle tool or an answered approval leaves the turn where it is.    *)
LEMMA OutcomeSame ==
    ASSUME IInv, NEW c \in Conversations, saved' = saved, NEW x,
           turn' = [turn EXCEPT ![c].outcome = x] \/ turn' = [turn EXCEPT ![c].approval = x] \/ turn' = turn
    PROVE  SameTurns
<1>1. turn \in [Conversations -> Turn] /\ turn[c] \in Turn
  BY ActiveBefore
<1>2. CASE turn' = turn
  BY <1>2 DEF SameTurns
<1>3. ASSUME NEW t, turn' = [turn EXCEPT ![c] = t], t.pc = turn[c].pc, t.gen = turn[c].gen,
             t.result = turn[c].result, t.mem = turn[c].mem, t.final = turn[c].final
      PROVE  SameTurns
  BY <1>1, <1>3 DEF SameTurns
<1>4. CASE turn' = [turn EXCEPT ![c].outcome = x]
  <2> DEFINE t == [turn[c] EXCEPT !.outcome = x]
  <2>1. turn' = [turn EXCEPT ![c] = t]
    BY <1>1, <1>4
  <2>2. t.pc = turn[c].pc /\ t.gen = turn[c].gen /\ t.result = turn[c].result
        /\ t.mem = turn[c].mem /\ t.final = turn[c].final
    BY <1>1 DEF Turn
  <2> HIDE DEF t
  <2> QED BY <1>3, <2>1, <2>2
<1>5. CASE turn' = [turn EXCEPT ![c].approval = x]
  <2> DEFINE t == [turn[c] EXCEPT !.approval = x]
  <2>1. turn' = [turn EXCEPT ![c] = t]
    BY <1>1, <1>5
  <2>2. t.pc = turn[c].pc /\ t.gen = turn[c].gen /\ t.result = turn[c].result
        /\ t.mem = turn[c].mem /\ t.final = turn[c].final
    BY <1>1 DEF Turn
  <2> HIDE DEF t
  <2> QED BY <1>3, <2>1, <2>2
<1> QED BY <1>2, <1>4, <1>5

(* A step that changes neither who is named nor who was woken.              *)
LEMMA QuietKeeps ==
    ASSUME IInv, EndInv, SameTurns, control'.active = control.active, control'.cancel = control.cancel,
           cancelValue' = cancelValue, targets' = targets, stray \subseteq stray', unseen' = unseen,
           \A c \in Live \ stray' : turn[c].pc = "settle" /\ control.pause => control'.pause
    PROVE  EndInv'
<1>1. \A c \in Conversations : Ends(turn'[c]) /\ Settled(turn'[c], saved'[c])
  BY SameTurnsKeep
<1>2. Live' = Live
  BY SameTurnsKeep
<1>3. \A c \in Conversations : NamedIsTarget(c)'
  BY <1>2 DEF SameTurns, EndInv, NamedIsTarget
<1>4. ASSUME NEW c \in Conversations PROVE Unreached(c)'
  <2>1. CancelApplies(c)' <=> CancelApplies(c)
    BY DEF SameTurns, CancelApplies, CancelMatches
  <2> QED BY <1>2, <2>1 DEF SameTurns, EndInv, Unreached
<1> QED BY <1>1, <1>3, <1>4 DEF EndInv

LEMMA RequestKeepsEnds ==
    ASSUME IInv, EndInv, NEW x \in Conversations \cup {User}, RequestCancel(x)
    PROVE  EndInv'
<1>1. SameTurns
  <2>1. CASE x = User
    BY <2>1 DEF RequestCancel, SameTurns
  <2>2. CASE x # User
    BY <2>2, OutcomeSame DEF RequestCancel
  <2> QED BY <2>1, <2>2
<1>2. control'.active = control.active /\ control'.cancel = control.active /\ control'.pause = control.pause
  BY DEF RequestCancel, IInv, TypeOK, SharedTypeOK
<1>3. /\ \A c \in Conversations : Ends(turn'[c]) /\ Settled(turn'[c], saved'[c])
      /\ Live' = Live
  BY <1>1, SameTurnsKeep
<1>4. \A c \in Conversations : NamedIsTarget(c)'
  BY <1>1, <1>2, <1>3 DEF SameTurns, RequestCancel, NamedIsTarget
<1>5. ASSUME NEW c \in Conversations PROVE Unreached(c)'
  <2> SUFFICES ASSUME c \in Live \ stray PROVE Unreached(c)'
    BY <1>3 DEF Unreached, RequestCancel
  <2>1. turn[c].gen = control.active /\ turn[c].gen # 0
    BY BoundsAssumption DEF EndInv, Unreached, IInv, GenerationsNameTurns, TypeOK, SharedTypeOK
  <2>2. CancelApplies(c) => CancelApplies(c)'
    BY <1>1, <1>2, <2>1 DEF SameTurns, RequestCancel, CancelApplies, CancelMatches
  <2>3. /\ c \in unseen => CancelApplies(c)
        /\ turn[c].pc \in {"settle", "close"} /\ turn[c].mem = "cancelled" => CancelApplies(c)
        /\ turn[c].pc = "settle" /\ turn[c].result = "stopped" => CancelApplies(c) \/ control.pause
        /\ turn[c].pc = "close" /\ turn[c].mem = "cancelled" => turn[c].final = "cancelled"
        /\ turn[c].pc = "close" /\ turn[c].final = "cancelled" => c \in targets
    BY DEF EndInv, Unreached
  <2> QED BY <1>1, <1>2, <2>1, <2>2, <2>3 DEF SameTurns, RequestCancel, Unreached
<1>6. control'.cancel <= control'.active
  BY <1>2 DEF IInv, TypeOK, SharedTypeOK
<1> QED BY <1>3, <1>4, <1>5, <1>6 DEF EndInv

LEMMA SendKeepsEnds ==
    ASSUME IInv, EndInv, NEW x \in Conversations \cup {User}, SendCancel(x)
    PROVE  EndInv'
<1>1. SameTurns
  BY DEF SendCancel, SameTurns
<1>2. /\ \A c \in Conversations : Ends(turn'[c]) /\ Settled(turn'[c], saved'[c])
      /\ Live' = Live
  BY <1>1, SameTurnsKeep
<1>3. \A c \in Conversations : NamedIsTarget(c)'
  BY <1>2 DEF EndInv, SendCancel, NamedIsTarget
<1>4. ASSUME NEW c \in Conversations PROVE Unreached(c)'
  <2> SUFFICES ASSUME c \in Live, c \notin stray' PROVE Unreached(c)'
    BY <1>2 DEF Unreached
  <2>1. c \in Live \ stray /\ turn[c].gen = control.cancel
    BY DEF SendCancel
  <2>2. turn[c].gen # 0
    BY <2>1 DEF IInv, GenerationsNameTurns
  <2>3. CancelApplies(c)'
    BY <2>1, <2>2 DEF SendCancel, CancelApplies, CancelMatches
  <2> QED BY <1>1, <2>1, <2>3 DEF SameTurns, SendCancel, EndInv, Unreached
<1>5. control'.cancel <= control'.active
  BY DEF SendCancel, EndInv
<1> QED BY <1>2, <1>3, <1>4, <1>5 DEF EndInv

LEMMA ControlsKeepEnds ==
    ASSUME IInv, EndInv,
           \/ \E c \in Conversations : ModelPauses(c) \/ ModelResumes(c)
           \/ UserPauses \/ TakeExclusive \/ ReleaseExclusive
           \/ \E c \in Conversations, answer \in {"allow", "deny"} : Resolve(c, answer)
           \/ UNCHANGED vars
    PROVE  EndInv'
<1>1. ASSUME NEW c \in Conversations, ModelPauses(c) PROVE EndInv'
  <2>1. SameTurns
    BY <1>1, OutcomeSame DEF ModelPauses
  <2>2. control'.active = control.active /\ control'.cancel = control.cancel /\ control'.pause
    BY <1>1 DEF ModelPauses, IInv, TypeOK, SharedTypeOK
  <2> QED BY <1>1, <2>1, <2>2, QuietKeeps DEF ModelPauses, history
<1>2. ASSUME NEW c \in Conversations, ModelResumes(c) PROVE EndInv'
  <2>1. SameTurns
    BY <1>2, OutcomeSame DEF ModelResumes
  <2>2. control'.active = control.active /\ control'.cancel = control.cancel
    BY <1>2 DEF ModelResumes, IInv, TypeOK, SharedTypeOK
  <2>3. \A d \in Live \ stray' : turn[d].pc = "settle" /\ control.pause => control'.pause
    <3>1. CASE control' = control
      BY <3>1
    <3>2. CASE control' # control
      BY <1>2, <3>2 DEF ModelResumes, At
    <3> QED BY <3>1, <3>2
  <2>4. stray \subseteq stray'
    BY <1>2 DEF ModelResumes
  <2> QED BY <1>2, <2>1, <2>2, <2>3, <2>4, QuietKeeps DEF ModelResumes
<1>3. CASE UserPauses
  <2>1. control'.active = control.active /\ control'.cancel = control.cancel /\ control'.pause
    BY <1>3 DEF UserPauses, IInv, TypeOK, SharedTypeOK
  <2>2. SameTurns
    BY <1>3 DEF UserPauses, SameTurns
  <2> QED BY <1>3, <2>1, <2>2, QuietKeeps DEF UserPauses
<1>4. CASE TakeExclusive \/ ReleaseExclusive \/ UNCHANGED vars
  <2>1. SameTurns
    BY <1>4 DEF TakeExclusive, ReleaseExclusive, vars, SameTurns
  <2> QED BY <1>4, <2>1, QuietKeeps DEF TakeExclusive, ReleaseExclusive, vars, history, shared
<1>5. ASSUME NEW c \in Conversations, NEW answer \in {"allow", "deny"}, Resolve(c, answer) PROVE EndInv'
  <2>1. SameTurns
    BY <1>5, OutcomeSame DEF Resolve
  <2> QED BY <1>5, <2>1, QuietKeeps DEF Resolve, history, shared
<1> QED BY <1>1, <1>2, <1>3, <1>4, <1>5

LEMMA BeginKeepsEnds ==
    ASSUME IInv, EndInv, NEW c \in Conversations, BeginTurn(c)
    PROVE  EndInv'
<1> DEFINE t == [NoTurn EXCEPT !.pc = "assemble", !.gen = control.active + 1]
<1>1. turn' = [turn EXCEPT ![c] = t] /\ turn[c].pc = "idle" /\ saved' = saved
  BY DEF BeginTurn, At
<1>2. turn'[c] = t /\ \A d \in Conversations \ {c} : turn'[d] = turn[d]
  BY <1>1 DEF IInv, TypeOK
<1>3. t.pc = "assemble" /\ t.gen = control.active + 1
  BY DEF NoTurn
<1>4. control'.active = control.active + 1 /\ control'.cancel = control.cancel
  BY DEF BeginTurn, IInv, TypeOK, SharedTypeOK
<1>5. control.active \in Nat /\ control.cancel \in Nat
  BY BoundsAssumption DEF IInv, TypeOK, SharedTypeOK
<1> HIDE DEF t
<1>6. \A d \in Conversations : Ends(turn'[d]) /\ Settled(turn'[d], saved'[d])
  BY <1>1, <1>2, <1>3 DEF EndInv, Ends, Settled
<1>7. \A d \in Live' : d = c \/ (d # c /\ d \in Live)
  BY <1>2 DEF Live
<1>8. control.cancel <= control.active
  BY DEF EndInv
<1>9. control'.cancel <= control'.active /\ control'.cancel # control.active + 1
  BY <1>4, <1>5, <1>8
<1>10. \A d \in Conversations : NamedIsTarget(d)'
  BY <1>2, <1>3, <1>4, <1>7, <1>9 DEF EndInv, NamedIsTarget, BeginTurn
<1>11. ASSUME NEW d \in Conversations PROVE Unreached(d)'
  <2>1. CASE d = c
    <3>1. c \notin unseen'
      BY DEF BeginTurn
    <3> QED BY <1>2, <1>3, <1>4, <2>1, <3>1 DEF Unreached
  <2>2. CASE d # c
    <3>1. d \notin Live' \ stray'
      BY <1>7, <2>2 DEF BeginTurn
    <3> QED BY <3>1 DEF Unreached
  <2> QED BY <2>1, <2>2
<1> QED BY <1>6, <1>9, <1>10, <1>11 DEF EndInv

LEMMA RestartKeepsEnds ==
    ASSUME IInv, EndInv, UserResumes \/ CrashAndRestart
    PROVE  EndInv'
<1>1. CASE UserResumes
  <2>1. SameTurns
    BY <1>1 DEF UserResumes, SameTurns
  <2>2. /\ \A c \in Conversations : Ends(turn'[c]) /\ Settled(turn'[c], saved'[c])
        /\ Live' = {}
    BY <1>1, <2>1, SameTurnsKeep DEF UserResumes
  <2>3. control'.cancel <= control'.active
    <3>1. control'.active = control.active + 1 /\ control'.cancel = control.cancel
      BY <1>1 DEF UserResumes, IInv, TypeOK, SharedTypeOK
    <3>2. control.active \in Nat /\ control.cancel \in Nat
      BY BoundsAssumption DEF IInv, TypeOK, SharedTypeOK
    <3> QED BY <3>1, <3>2 DEF EndInv
  <2> QED BY <2>2, <2>3 DEF EndInv, NamedIsTarget, Unreached
<1>2. CASE CrashAndRestart
  <2>1. \A c \in Conversations : turn'[c].pc = "idle"
    BY <1>2 DEF CrashAndRestart, NoTurn
  <2>2. control'.cancel <= control'.active
    BY <1>2 DEF CrashAndRestart, NoControl
  <2>3. Live' = {}
    BY <2>1 DEF Live
  <2> QED BY <2>1, <2>2, <2>3 DEF EndInv, Ends, Settled, NamedIsTarget, Unreached
<1> QED BY <1>1, <1>2

(* EndInv is inductive, together with IInv.                                 *)
LEMMA NextEndInv == IInv /\ EndInv /\ [Next]_vars => EndInv'
<1> SUFFICES ASSUME IInv, EndInv, [Next]_vars PROVE EndInv'
  OBVIOUS
<1>1. ASSUME NEW c \in Conversations, TurnStep(c) \/ Mishap(c) PROVE EndInv'
  BY <1>1, OwnStepsKeepEnds
<1>2. ASSUME NEW c \in Conversations, BeginTurn(c) PROVE EndInv'
  BY <1>2, BeginKeepsEnds
<1>3. ASSUME NEW c \in Conversations, Lifecycle(c) PROVE EndInv'
  BY <1>3, ControlsKeepEnds, RequestKeepsEnds DEF Lifecycle
<1>4. CASE \E x \in Conversations \cup {User} : SendCancel(x)
  BY <1>4, SendKeepsEnds
<1>5. CASE RequestCancel(User)
  BY <1>5, RequestKeepsEnds
<1>6. CASE UserResumes \/ CrashAndRestart
  BY <1>6, RestartKeepsEnds
<1>7. CASE \/ UserPauses \/ TakeExclusive \/ ReleaseExclusive \/ UNCHANGED vars
           \/ \E c \in Conversations, answer \in {"allow", "deny"} : Resolve(c, answer)
  BY <1>7, ControlsKeepEnds
<1> QED BY <1>1, <1>2, <1>3, <1>4, <1>5, <1>6, <1>7 DEF Next

LEMMA InitEndInv == Init => EndInv
BY DEF Init, NoControl, NoTurn, EndInv, Ends, Settled, NamedIsTarget, Unreached, Live

LEMMA EndsAlways == Spec => [](IInv /\ EndInv)
<1>1. IInv /\ EndInv /\ [Next]_vars => (IInv /\ EndInv)'
  BY NextIInv, NextEndInv
<1> QED BY <1>1, InitIInv, InitEndInv, PTL DEF Spec

(* A settled turn does nothing but close.                                   *)
LEMMA SettledCloses ==
    ASSUME NEW c \in Conversations, turn[c].pc = "close", TurnStep(c) \/ Mishap(c), IInv
    PROVE  Close(c)
<1>1. ~Prepare(c)
  BY DEF Prepare, CancelledBeforeSave, Assemble, SaveMessages, SaveRun, SnapshotTaken, At
<1>2. ~Mishap(c)
  BY DEF Mishap, PreparationFails, SnapshotFails, InterfaceGone, At
<1>3. ~ModelRound(c)
  BY DEF ModelRound, RoundStopped, BeginRound, ModelInterrupted, ModelFails, OutputLimit, CorrectiveRound,
     RetryAnswer, FallbackAnswer, FinishInAnswer, FinalAnswer, ToolCalls, At
<1>4. ~ToolCall(c)
  BY DEF ToolCall, SkipCall, StopAtCall, TakeCall, RuleDenies, Decide, Ask, DecisionTaken, ApprovalTimesOut,
     ApprovalInterrupted, AdmitDenied, AdmitOver, AdmitWithin, MarkExecuting, DispatchRefused, Dispatch,
     ToolReturns, ToolInterrupted, Record, EndCalls, At
<1>5. ~Settle(c)
  BY DEF Settle, At
<1> QED BY <1>1, <1>2, <1>3, <1>4, <1>5 DEF TurnStep, Finish

(* Whoever goes from settled to idle without a crash has closed.            *)
LEMMA OnlyClose ==
    ASSUME IInv, EndInv, [Next]_vars, NEW c \in Conversations, Closed(c)
    PROVE  Close(c)
<1>1. turn[c].pc = "close" /\ turn'[c].pc = "idle" /\ c \notin recovered'
  BY DEF Closed
<1>2. ASSUME NEW d \in Conversations, TurnStep(d) \/ Mishap(d) PROVE Close(c)
  <2>1. CASE d = c
    BY <1>1, <1>2, <2>1, SettledCloses
  <2>2. CASE d # c
    <3>1. LocalStep(d)
      BY <1>2, PrepareStep, MishapStep, ModelRoundStep, ToolCallStep, FinishStep DEF IInv, TurnStep
    <3> QED BY <1>1, <2>2, <3>1 DEF LocalStep, IInv, TypeOK
  <2> QED BY <2>1, <2>2
<1>3. ASSUME NEW d \in Conversations PROVE ~BeginTurn(d)
  <2> SUFFICES ASSUME BeginTurn(d) PROVE FALSE
    OBVIOUS
  <2>1. turn[d].pc = "idle" /\ \A e \in Conversations \ {d} : turn'[e] = turn[e]
    BY DEF BeginTurn, At, IInv, TypeOK
  <2> QED BY <1>1, <2>1
<1>4. ~SameTurns
  BY <1>1 DEF SameTurns
<1>5. ASSUME NEW d \in Conversations PROVE ~Lifecycle(d)
  BY <1>4, OutcomeSame DEF Lifecycle, ModelPauses, ModelResumes, RequestCancel
<1>6. ASSUME NEW d \in Conversations, NEW answer \in {"allow", "deny"} PROVE ~Resolve(d, answer)
  BY <1>4, OutcomeSame DEF Resolve
<1>7. ~CrashAndRestart
  BY <1>1 DEF CrashAndRestart, Live
<1>8. /\ ~RequestCancel(User) /\ ~UserPauses /\ ~UserResumes /\ ~TakeExclusive /\ ~ReleaseExclusive
      /\ \A x \in Conversations \cup {User} : ~SendCancel(x)
      /\ ~UNCHANGED vars
  BY <1>4 DEF RequestCancel, UserPauses, UserResumes, TakeExclusive, ReleaseExclusive, SendCancel, vars, SameTurns
<1> QED BY <1>2, <1>3, <1>5, <1>6, <1>7, <1>8 DEF Next

(* What a turn leaves: the run as it was settled, unless the run was over.  *)
LEMMA CloseLeaves ==
    ASSUME IInv, NEW c \in Conversations, Close(c)
    PROVE  /\ turn[c].pc = "close" /\ saved'[c].msg = saved[c].msg
           /\ saved'[c].run = Moved(turn[c].mem, turn[c].final)
           /\ turn[c].result \in {"none", "done", "stopped", "error"}
<1>1. saved' = [saved EXCEPT ![c] = [saved[c] EXCEPT !.run = Moved(turn[c].mem, turn[c].final)]]
  BY DEF Close, IInv, TypeOK
<1>2. saved[c] \in Saved /\ saved \in [Conversations -> Saved] /\ turn[c] \in Turn
  BY DEF IInv, TypeOK
<1> QED BY <1>1, <1>2 DEF Close, At, Saved, Turn

LEMMA ClosesAgreeing ==
    ASSUME IInv, EndInv, NEW c \in Conversations, Close(c)
    PROVE  /\ IsTerminal(saved'[c].run)
           /\ saved'[c].msg = "complete" <=> saved'[c].run = "completed"
           /\ saved'[c].msg = "error" <=> saved'[c].run = "failed"
           /\ saved'[c].msg = "paused" /\ c \notin stray => saved'[c].run = "paused"
           /\ saved'[c].run = "cancelled" => c \in targets \cup stray
<1> DEFINE t == turn[c]
<1>1. t.pc = "close" /\ saved'[c].msg = saved[c].msg /\ saved'[c].run = Moved(t.mem, t.final)
      /\ t.result \in {"none", "done", "stopped", "error"}
  BY CloseLeaves
<1>2. Ends(t) /\ Settled(t, saved[c]) /\ Unreached(c)
  BY DEF EndInv
<1>3. c \notin stray => /\ t.mem = "cancelled" => t.final = "cancelled"
                        /\ t.final = "cancelled" => c \in targets
  BY <1>1, <1>2 DEF Unreached, Live
<1> HIDE DEF t
<1>4. CASE t.result = "done"
  <2>1. t.mem \in {"generating", "executing_tools", "completed"} /\ t.final = "completed" /\ saved[c].msg = "complete"
    BY <1>1, <1>2, <1>4 DEF Ends, Settled
  <2>2. Moved(t.mem, t.final) = "completed"
    BY <2>1 DEF Moved, CanTransition, IsTerminal, TerminalRunStates, WorkEdges
  <2> QED BY <1>1, <2>1, <2>2 DEF IsTerminal, TerminalRunStates
<1>5. CASE t.result = "error"
  <2>1. t.mem \in ActiveRunStates /\ t.final = "failed" /\ saved[c].msg = "error"
    BY <1>1, <1>2, <1>5 DEF Ends, Settled
  <2>2. Moved(t.mem, t.final) = "failed"
    BY <2>1 DEF Moved, CanTransition, IsTerminal, TerminalRunStates, ActiveRunStates
  <2> QED BY <1>1, <2>1, <2>2 DEF IsTerminal, TerminalRunStates
<1>6. CASE t.result = "stopped"
  <2>1. /\ t.mem \in ActiveRunStates \cup {"cancelled"}
        /\ \/ t.final = "paused" /\ saved[c].msg = "paused"
           \/ t.final = "cancelled" /\ saved[c].msg = "interrupted"
    BY <1>1, <1>2, <1>6 DEF Ends, Settled
  <2>2. /\ t.mem \in ActiveRunStates => Moved(t.mem, t.final) = t.final
        /\ t.mem = "cancelled" => Moved(t.mem, t.final) = "cancelled"
    BY <2>1 DEF Moved, CanTransition, IsTerminal, TerminalRunStates, ActiveRunStates
  <2> QED BY <1>1, <1>3, <2>1, <2>2 DEF IsTerminal, TerminalRunStates
<1>7. t.result # "none"
  BY <1>1, <1>2 DEF Ends
<1> QED BY <1>1, <1>4, <1>5, <1>6, <1>7

(* However a turn ends, with any number of conversations, rounds and calls: *)
(* its message and its run, which are saved one after the other, say the    *)
(* same, unless the controls of another conversation reached it.            *)
THEOREM MessagesMatchRuns == Spec => MessageAndRunAgree
<1>1. IInv /\ EndInv /\ [Next]_vars =>
        [\A c \in Conversations : Closed(c) =>
             /\ IsTerminal(saved'[c].run)
             /\ saved'[c].msg = "complete" <=> saved'[c].run = "completed"
             /\ saved'[c].msg = "error" <=> saved'[c].run = "failed"
             /\ saved'[c].msg = "paused" /\ c \notin stray => saved'[c].run = "paused"]_vars
  BY OnlyClose, ClosesAgreeing
<1> QED BY <1>1, EndsAlways, PTL DEF Spec, MessageAndRunAgree

(* A turn ends cancelled only if a Stop named its generation, or controls   *)
(* of another conversation reached it.                                      *)
THEOREM CancelsAreAskedFor == Spec => CancelledWasAskedFor
<1>1. IInv /\ EndInv /\ [Next]_vars =>
        [\A c \in Conversations :
           Closed(c) /\ saved'[c].run = "cancelled" => c \in targets \cup stray]_vars
  BY OnlyClose, ClosesAgreeing
<1> QED BY <1>1, EndsAlways, PTL DEF Spec, CancelledWasAskedFor
=============================================================================
