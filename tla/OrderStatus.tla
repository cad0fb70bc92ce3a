---------------------------- MODULE OrderStatus ----------------------------
(***************************************************************************)
(* The status graph of an order: app/order_status.py and the enumerations  *)
(* of app/models.py it is about.                                           *)
(***************************************************************************)

Statuses ==
    {"new", "accepted", "cooking", "on_the_way", "delivered", "cancelled"}

PaymentMethods == {"cash", "sbp_transfer", "yookassa_card"}

\* VALID_STATUS_TRANSITIONS
get_next_statuses(s) ==
    CASE s = "new"        -> {"accepted", "cancelled"}
      [] s = "accepted"   -> {"cooking", "cancelled"}
      [] s = "cooking"    -> {"on_the_way", "cancelled"}
      [] s = "on_the_way" -> {"delivered", "cancelled"}
      [] OTHER            -> {}

\* Broken variant: the check that guards update_order_status lets all pass.
AnyTransition(from, to) == to \in Statuses

is_valid_transition(from, to) == from = to \/ to \in get_next_statuses(from)

============================================================================
