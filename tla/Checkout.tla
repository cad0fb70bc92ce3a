------------------------------ MODULE Checkout ------------------------------
(***************************************************************************)
(* From the cart to an order: the submit handler of the checkout page      *)
(* (app/static/js/cart.js) in the tabs of one browser, the validation of   *)
(* the body (app/schemas.py), the phone limiter, and what create_order     *)
(* (module OrderCreation) answers.                                         *)
(*                                                                         *)
(* Every press of the button makes a new idempotency key, so a request     *)
(* that reaches create_order is an order of its own.                       *)
(***************************************************************************)
EXTENDS Cart, PhoneLimiter

CONSTANTS MaxPresses, MaxNow    \* bounds: presses of the button, the clock

ASSUME BoundsAssumption == MaxPresses \in Nat /\ MaxNow \in Nat

VARIABLES
    tab,         \* where the submit handler of each tab is
    basket,      \* the items in a body on its way
    presses,
    owed,        \* what is ordered less what answers took out of the cart,
                 \* kept until crossed
    crossed      \* something came between a press and its answer

checkoutVars == <<tab, basket, presses, owed, crossed>>
vars == <<cart, backup, limiterVars, checkoutVars>>

InFlight == {t \in Tabs : tab[t] # "idle"}

CheckoutInit ==
    /\ CartInit
    /\ LimiterInit
    /\ tab = [t \in Tabs |-> "idle"]
    /\ basket = [t \in Tabs |-> NoCart]
    /\ presses = 0
    /\ owed = NoCart
    /\ crossed = FALSE

Plus(c, d) == [p \in Products |-> c[p] + d[p]]
Minus(c, d) == [p \in Products |-> c[p] - d[p]]

\* OrderCreate: quantities of 1 to 20 and at most 50 lines.  (There the
\* limits are numbers of their own.)
Acceptable(items) ==
    /\ Lines(items) # {}
    /\ Cardinality(Lines(items)) <= MaxItems
    /\ \A p \in Lines(items) : items[p] <= QtyMax

Cross(does) ==
    /\ crossed' = (crossed \/ does)
    /\ owed' = IF crossed' THEN NoCart ELSE owed

Edit ==
    /\ CartEdit
    /\ Cross(InFlight # {})
    /\ UNCHANGED <<limiterVars, tab, basket, presses>>

Expire ==
    /\ \E t \in Tabs : BackupExpires(t)
    /\ UNCHANGED <<limiterVars, checkoutVars>>

\* The button of a tab is disabled until its request is answered.
Submit(t) ==
    /\ tab[t] = "idle"
    /\ cart # NoCart
    /\ presses < MaxPresses
    /\ presses' = presses + 1
    /\ tab' = [tab EXCEPT ![t] = "sent"]
    /\ basket' = [basket EXCEPT ![t] = cart]
    /\ Cross(InFlight # {})
    /\ UNCHANGED <<cart, backup, limiterVars>>

\* The handler is over.
Ready(t) ==
    /\ tab' = [tab EXCEPT ![t] = "idle"]
    /\ basket' = [basket EXCEPT ![t] = NoCart]

\* 422 for a body that does not fit the schema, 429 from the limiter; else
\* create_order refuses or fails, or stores the order.
CreateOrder(t, s, h) ==
    /\ tab[t] = "sent"
    /\ \E allowed, stored \in BOOLEAN :
          /\ IF Acceptable(basket[t])
             THEN IsAllowed(s, h, allowed) /\ (stored => allowed)
             ELSE UNCHANGED limiterVars /\ ~stored
          /\ owed' = IF stored /\ ~crossed THEN Plus(owed, basket[t]) ELSE owed
          /\ tab' = [tab EXCEPT ![t] = IF stored THEN "stored" ELSE "refused"]
    /\ now' <= MaxNow
    /\ basket' = [basket EXCEPT ![t] = NoCart]
    /\ UNCHANGED <<cart, backup, presses, crossed>>

\* Broken variant: with the payment widget the cart stays until it is paid.
AnsweredWhenPaid(t) ==
    /\ tab[t] = "stored"
    /\ \E paid \in BOOLEAN :
          /\ cart' = IF paid THEN NoCart ELSE cart
          /\ owed' = IF paid /\ ~crossed THEN Minus(owed, cart) ELSE owed
    /\ Ready(t)
    /\ UNCHANGED <<backup, limiterVars, presses, crossed>>

\* ok: the cart is emptied, whatever is in it now; then the thanks page or
\* the payment widget.
Answered(t) ==
    /\ tab[t] = "stored"
    /\ cart' = NoCart
    /\ owed' = IF crossed THEN owed ELSE Minus(owed, cart)
    /\ Ready(t)
    /\ UNCHANGED <<backup, limiterVars, presses, crossed>>

Refused(t) ==
    /\ tab[t] = "refused"
    /\ Ready(t)
    /\ UNCHANGED <<cart, backup, limiterVars, presses, owed, crossed>>

\* The connection breaks before or after the request is handled: the page
\* shows an error and the button again.
ConnectionLost(t) ==
    /\ tab[t] # "idle"
    /\ Cross(tab[t] = "stored")
    /\ Ready(t)
    /\ UNCHANGED <<cart, backup, limiterVars, presses>>

\* An order from another browser: of it only the limiter matters here.
OtherOrder(s, h) ==
    /\ \E allowed \in BOOLEAN : IsAllowed(s, h, allowed)
    /\ now' <= MaxNow
    /\ UNCHANGED <<cart, backup, checkoutVars>>

ClockMoves ==
    /\ now < MaxNow
    /\ TimePasses
    /\ UNCHANGED <<cart, backup, checkoutVars>>

ProcessRestarts(s) ==
    /\ Restart(s)
    /\ UNCHANGED <<cart, backup, checkoutVars>>

CheckoutNext ==
    \/ Edit \/ Expire \/ ClockMoves
    \/ \E t \in Tabs : \/ Submit(t) \/ Answered(t)
                       \/ Refused(t) \/ ConnectionLost(t)
                       \/ \E s \in Procs, h \in Phones : CreateOrder(t, s, h)
    \/ \E s \in Procs : \/ ProcessRestarts(s)
                        \/ \E h \in Phones : OtherOrder(s, h)

CheckoutSpec == CheckoutInit /\ [][CheckoutNext]_vars

----------------------------------------------------------------------------
(* Properties.                                                             *)

Carts == [Products -> 0 .. QtyMax]

CheckoutTypeOK ==
    /\ LimiterTypeOK
    /\ cart \in Carts
    /\ backup \in [Tabs -> Carts \cup {NoBackup}]
    /\ tab \in [Tabs -> {"idle", "sent", "stored", "refused"}]
    /\ basket \in [Tabs -> Carts]
    /\ presses \in 0 .. MaxPresses
    /\ owed \in [Products -> Int]
    /\ crossed \in BOOLEAN

\* Whatever the customer does in whatever tab, the cart of the page is one
\* the server's schema accepts: a body is never refused for its items.
CartCanBeOrdered ==
    /\ cart # NoCart => Acceptable(cart)
    /\ \A t \in Tabs : tab[t] = "sent" => Acceptable(basket[t])

\* What was taken out of the cart is what was ordered, no more and no less,
\* as long as no answer was lost, no second tab pressed the button and nobody
\* edited the cart between a press and its answer.
OrderedOnce ==
    (~crossed /\ InFlight = {}) => owed = NoCart

=============================================================================
