----------------------------- MODULE MCCheckout -----------------------------
(* Products, tabs and phone numbers are interchangeable.                   *)
EXTENDS Checkout, TLC

Symmetry ==
    Permutations(Products) \cup Permutations(Tabs) \cup Permutations(Phones)

=============================================================================
