-------------------------------- MODULE Cart --------------------------------
(***************************************************************************)
(* The cart of a customer (app/static/js/cart.js): a list of lines in the  *)
(* localStorage of the browser, shared by all tabs.  Every operation loads *)
(* it, changes it and stores it without a break.                           *)
(*                                                                         *)
(* The cart is the quantity of each product, 0 for a product without a     *)
(* line: no operation makes a second line for a product.  Names, prices    *)
(* and lead times of the lines, and the list of removed products the page  *)
(* offers to restore, are left out: no decision below depends on them.     *)
(***************************************************************************)
EXTENDS Integers, FiniteSets, FiniteSetsExt

CONSTANTS
    Products,
    Tabs,
    QtyMax,      \* QTY_MAX, 20 in the code
    MaxItems,    \* MAX_ITEMS, 50 in the code
    MaxBackups   \* bound: tabs that have a cleared cart to restore

ASSUME CartAssumption == /\ IsFiniteSet(Products)
                         /\ QtyMax \in Nat \ {0} /\ MaxItems \in Nat \ {0}
                         /\ MaxBackups \in Nat

VARIABLES
    cart,        \* the quantity of each product
    backup       \* _clearBackup of each tab: a cart, or none

NoCart == [p \in Products |-> 0]
NoBackup == [p \in Products |-> -1]

Lines(c) == {p \in Products : c[p] > 0}
TotalItems(c) == MapThenSumSet(LAMBDA p : c[p], Products)

CartInit == cart = NoCart /\ backup = [t \in Tabs |-> NoBackup]

SaveCart(c) == cart' = c /\ UNCHANGED backup

\* Broken variant: the limit of a line is compared before the addition.
AddMoreUnchecked(p) ==
    /\ cart[p] \in 1 .. QtyMax
    /\ SaveCart([cart EXCEPT ![p] = @ + 1])

\* A product that has a line gets one more of it, whatever the total is.
AddMore(p) ==
    /\ cart[p] \in 1 .. QtyMax - 1
    /\ SaveCart([cart EXCEPT ![p] = @ + 1])

\* Broken variant: a new line is not refused when the cart is full.
AddLineAlways(p) ==
    /\ cart[p] = 0
    /\ SaveCart([cart EXCEPT ![p] = 1])

AddLine(p) ==
    /\ cart[p] = 0
    /\ TotalItems(cart) < MaxItems
    /\ SaveCart([cart EXCEPT ![p] = 1])

AddItem(p) == AddMore(p) \/ AddLine(p)

\* updateQty by the buttons + and -.
Increase(p) ==
    /\ cart[p] \in 1 .. QtyMax - 1
    /\ TotalItems(cart) < MaxItems
    /\ SaveCart([cart EXCEPT ![p] = @ + 1])

Decrease(p) ==
    /\ cart[p] > 0
    /\ SaveCart([cart EXCEPT ![p] = @ - 1])

\* The quantity is clamped first; a total above the limit is not stored.
SetQty(p, qty) ==
    LET wanted == [cart EXCEPT ![p] = IF qty > QtyMax THEN QtyMax ELSE qty]
    IN  TotalItems(wanted) <= MaxItems /\ SaveCart(wanted)

RemoveItem(p) ==
    /\ cart[p] > 0
    /\ SaveCart([cart EXCEPT ![p] = 0])

\* The tab keeps the cart it cleared for five seconds.
ClearCart(t) ==
    /\ cart # NoCart
    /\ Cardinality({u \in Tabs \ {t} : backup[u] # NoBackup}) < MaxBackups
    /\ backup' = [backup EXCEPT ![t] = cart]
    /\ cart' = NoCart

\* The backup replaces whatever is in the cart by now.
UndoClearCart(t) ==
    /\ backup[t] # NoBackup
    /\ cart' = backup[t]
    /\ backup' = [backup EXCEPT ![t] = NoBackup]

BackupExpires(t) ==
    /\ backup[t] # NoBackup
    /\ backup' = [backup EXCEPT ![t] = NoBackup]
    /\ UNCHANGED cart

\* Quantities a page may ask setQty for: the limits and one beyond.
CartEdit ==
    \/ \E p \in Products : \/ AddItem(p) \/ Increase(p) \/ Decrease(p)
                           \/ RemoveItem(p)
                           \/ \E q \in {0, 1, QtyMax, QtyMax + 1} : SetQty(p, q)
    \/ \E t \in Tabs : ClearCart(t) \/ UndoClearCart(t)

=============================================================================
