-------------------------- MODULE ConversationState --------------------------
(***************************************************************************)
(* The conversation phase machine of crates/jaymi-planner                  *)
(* (conversation_state.rs): which phases exist, which moves are legal, and *)
(* what Planner::transition_conversation does with an illegal one: it logs *)
(* it and leaves the phase alone.                                          *)
(***************************************************************************)

Terminal == {"Completed", "Cancelled", "Failed"}

Busy == {"PreparingContext", "Reasoning", "Streaming",
         "WaitingForReview", "Executing"}

Phases == {"Idle"} \cup Busy \cup Terminal

(* The legal moves between two different phases, grouped by their source.  *)
Moves ==
       {"Idle"} \X {"PreparingContext"}
  \cup Terminal \X {"Idle", "PreparingContext"}
  \cup {"PreparingContext"} \X ((Busy \cup Terminal) \ {"PreparingContext"})
  \cup {"Reasoning"} \X ({"Streaming"} \cup Terminal)
  \cup {"Streaming"} \X ({"Reasoning"} \cup Terminal)
  \cup {"Cancelled", "Failed"} \X {"Reasoning"}
  \cup {"WaitingForReview"} \X ({"Executing"} \cup Terminal)
  \cup {"Executing"} \X Terminal

(* ConversationState::can_transition.  A busy phase may be re-entered.     *)
CanTransition(from, to) ==
  \/ from = to /\ from \in Busy
  \/ <<from, to>> \in Moves

(* Planner::transition_conversation: an illegal move is dropped.           *)
Moved(from, to) == IF CanTransition(from, to) THEN to ELSE from
==============================================================================
