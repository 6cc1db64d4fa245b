------------------------------ MODULE RunStates ------------------------------
(***************************************************************************)
(* The state of a run and its legal transitions, src-tauri/src/            *)
(* agent_run.rs.  A transition that is not legal is refused by             *)
(* `transition_to`, and the turn loop ignores the refusal (`let _ =`).     *)
(***************************************************************************)

ActiveRunStates == {"preparing", "generating", "awaiting_approval",
                    "executing_tools", "preparing_next_round"}

TerminalRunStates == {"completed", "cancelled", "failed", "outcome_unknown", "paused"}

RunStates == ActiveRunStates \cup TerminalRunStates

(* RunState::is_terminal *)
IsTerminal(s) == s \in TerminalRunStates

(* The edges of can_transition_to besides the ones to a stopped run. *)
WorkEdges ==
    { <<"preparing", "generating">>,
      <<"generating", "completed">>,
      <<"generating", "awaiting_approval">>,
      <<"generating", "executing_tools">>,
      <<"generating", "preparing_next_round">>,
      <<"awaiting_approval", "executing_tools">>,
      <<"awaiting_approval", "preparing_next_round">>,
      <<"executing_tools", "executing_tools">>,
      <<"executing_tools", "awaiting_approval">>,
      <<"executing_tools", "preparing_next_round">>,
      <<"executing_tools", "completed">>,
      <<"preparing_next_round", "generating">>,
      <<"preparing_next_round", "completed">> }

(* A slip: the edge the comment at agent_run.rs:84 was added for is gone. *)
CanTransitionWithoutFinish(s, next) ==
    /\ ~IsTerminal(s)
    /\ \/ next \in {"cancelled", "failed", "outcome_unknown", "paused"}
       \/ <<s, next>> \in WorkEdges \ {<<"executing_tools", "completed">>}

(* A slip: a batch's second approval is forgotten. *)
CanTransitionOneApproval(s, next) ==
    /\ ~IsTerminal(s)
    /\ \/ next \in {"cancelled", "failed", "outcome_unknown", "paused"}
       \/ <<s, next>> \in WorkEdges \ {<<"executing_tools", "awaiting_approval">>}

(* RunState::can_transition_to *)
CanTransition(s, next) ==
    /\ ~IsTerminal(s)
    /\ \/ next \in {"cancelled", "failed", "outcome_unknown", "paused"}
       \/ <<s, next>> \in WorkEdges

(* RunRecord::transition_to with its error ignored. *)
Moved(s, next) == IF CanTransition(s, next) THEN next ELSE s
=============================================================================
