---------------------------- MODULE OrderStatus ----------------------------
(***************************************************************************)
(* The order status machine of app/execution/order_state.py: the eight     *)
(* statuses, which of them are terminal, and the explicit table of the     *)
(* moves repo.transition_order_status accepts.  Constant-level only.       *)
(***************************************************************************)

Terminal == {"FILLED", "CANCELLED", "REJECTED"}

NonTerminal ==
  {"PENDING_SUBMIT", "SUBMITTED", "PARTIALLY_FILLED", "CANCEL_PENDING", "UNKNOWN"}

Status == Terminal \cup NonTerminal

\* _ALLOWED_TRANSITIONS
Allowed == [s \in Status |->
  CASE s = "PENDING_SUBMIT" ->
         {"SUBMITTED", "REJECTED", "UNKNOWN", "FILLED", "PARTIALLY_FILLED"}
    [] s = "SUBMITTED" ->
         {"PARTIALLY_FILLED", "FILLED", "CANCEL_PENDING", "CANCELLED", "REJECTED",
          "UNKNOWN"}
    [] s = "PARTIALLY_FILLED" ->
         {"PARTIALLY_FILLED", "FILLED", "CANCEL_PENDING", "CANCELLED", "UNKNOWN"}
    [] s = "CANCEL_PENDING" ->
         {"CANCELLED", "FILLED", "PARTIALLY_FILLED", "UNKNOWN"}
    [] s = "UNKNOWN" -> Status \ {"PENDING_SUBMIT"}
    [] s \in Terminal -> {}]

\* validate_transition: FALSE where the code raises IllegalOrderTransitionError
CanMove(current, new) == new \in Allowed[current]

=============================================================================
