-------------------------- MODULE MCOrderCreation --------------------------
(* Instances of OrderCreation for TLC.                                     *)
EXTENDS OrderCreation, TLC

CONSTANTS k1, k2, s1

\* Orders with a key (two requests with one key are a retry), with and without
\* a payment to create, and orders without a key; two of the kinds for a slot.
MCKinds ==
    {[key |-> k1, slot |-> s1, card |-> FALSE],
     [key |-> k2, slot |-> NoSlot, card |-> TRUE],
     [key |-> NoKey, slot |-> s1, card |-> FALSE]}

\* Orders for one slot, each with a key of its own or none.
MCSlotKinds ==
    {[key |-> k1, slot |-> s1, card |-> FALSE],
     [key |-> k2, slot |-> s1, card |-> TRUE],
     [key |-> NoKey, slot |-> s1, card |-> FALSE]}

MCSymmetry == Permutations(Requests) \cup Permutations(Procs)

============================================================================
