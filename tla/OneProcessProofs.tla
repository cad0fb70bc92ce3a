-------------------------- MODULE OneProcessProofs --------------------------
(***************************************************************************)
(* What order creation guarantees when one process serves the site, as     *)
(* docker-compose.yml starts it: whoever executes a statement holds the    *)
(* only event loop, so nothing commits between the search for the last     *)
(* number and the flush of the next one.  The one exception, the await of  *)
(* the notification, is covered by the numbers: while an order waits       *)
(* there, no other one gets as far.                                        *)
(***************************************************************************)
EXTENDS OrderCreationProofs

----------------------------------------------------------------------------
(* The event loop.                                                         *)

\* A coroutine between two statements of its own holds the loop of p.
OneLoop(p) ==
    \A r \in Requests :
        /\ pc[r] # "new" => home[r] = p
        /\ Running(r) => loop[p] = r

LEMMA OneLoopHeld ==
    ASSUME NEW p, Procs = {p}, LoopsHeld PROVE OneLoop(p)
BY DEF LoopsHeld, OneLoop, Running

----------------------------------------------------------------------------
(* The numbers.                                                            *)

\* The numbers of the day still have the three digits of ":03d".
BelowRollover == \A o \in Committed : num[o] < Rollover

\* As long as they have, the order of the printed numbers is that of the
\* numbers themselves.
LEMMA LastIsGreatest ==
    ASSUME TypeOK, PhaseInv, BelowRollover, NEW l \in LastOrders
    PROVE  \A q \in Committed : num[q] <= num[l]
<1>1. l \in Committed /\ \A q \in Committed : num[q] \in Nat
  BY DEF LastOrders, PhaseInv
<1> SUFFICES ASSUME NEW q \in Committed, q # l PROVE num[q] <= num[l]
  BY <1>1
<1>2. SortsAfter(num[l], num[q])
  BY DEF LastOrders
<1> QED
  BY <1>1, <1>2, BoundsAssumption DEF SortsAfter, BelowRollover


\* What a coroutine knows of the last number is still so.
LastKnown ==
    \A r \in Requests :
        /\ pc[r] = "lock" =>
              IF last[r] = None THEN Committed = {}
              ELSE last[r] \in Committed
                   /\ \A q \in Committed : num[q] <= num[last[r]]
        /\ pc[r] = "flush" => \A q \in Committed : num[q] < seq[r]

LEMMA LastKnownStep ==
    ASSUME NEW p, Procs = {p}, TypeOK, PhaseInv, BelowRollover, OneLoop(p),
           LastKnown, NEW r \in Requests, Step(r)
    PROVE  LastKnown'
<1> USE OrdersAssumption
    DEF Orders, TypeOK, PcSet, OneLoop, Running, LastKnown, Committed
<1>1. CASE LookupHit(r)
  BY <1>1 DEF LookupHit, Runs, Finish
<1>2. CASE LookupMiss(r)
  BY <1>2 DEF LookupMiss, Move, Runs
<1>3. CASE Refuse(r)
  BY <1>3 DEF Refuse, Runs, Finish
<1>4. CASE Accept(r)
  BY <1>4 DEF Accept, Move, Runs
<1>5. CASE Insert(r)
  BY <1>5 DEF Insert, Move, Runs
<1>6. CASE InsertConflict(r)
  BY <1>6 DEF InsertConflict, Runs, Fail, Rollback, Unlock, Finish
<1>7. CASE FindLast(r)
  <2>1. last'[r] # None =>
           /\ last'[r] \in Committed
           /\ \A q \in Committed : num[q] <= num[last'[r]]
    <3> SUFFICES ASSUME last'[r] # None
                 PROVE  /\ last'[r] \in Committed
                        /\ \A q \in Committed : num[q] <= num[last'[r]]
      OBVIOUS
    <3>1. last'[r] \in LastOrders
      BY <1>7 DEF FindLast
    <3> QED
      BY <3>1, LastIsGreatest DEF LastOrders
  <2>2. last'[r] = None => Committed = {}
    BY <1>7 DEF FindLast
  <2> QED
    BY <1>7, <2>1, <2>2 DEF FindLast, Move, Runs
<1>8. CASE LockLast(r)
  <2>1. \A q \in Committed : num[q] < seq'[r]
    BY <1>8 DEF LockLast, Move, PhaseInv
  <2> QED
    BY <1>8, <2>1 DEF LockLast, Move, Runs
<1>9. CASE FlushNumber(r)
  BY <1>9 DEF FlushNumber, Move, Runs
<1>10. CASE FlushConflict(r)
  BY <1>10 DEF FlushConflict, Runs, Fail, Rollback, Unlock, Finish
<1>11. CASE Pay(r)
  BY <1>11 DEF Pay, Move, Runs
<1>12. CASE PayFails(r)
  BY <1>12 DEF PayFails, Runs, Fail, Rollback, Unlock, Finish
<1>13. CASE Suspend(r)
  BY <1>13 DEF Suspend, Move, Runs
<1>14. CASE Resume(r)
  BY <1>14 DEF Resume, LoopFree
<1>15. CASE Commit(r)
  BY <1>15 DEF Commit, Runs, Unlock, Finish
<1>16. CASE CommitFails(r)
  BY <1>16 DEF CommitFails, Runs, Fail, Rollback, Unlock, Finish
<1> QED
  BY <1>1, <1>2, <1>3, <1>4, <1>5, <1>6, <1>7, <1>8,
     <1>9, <1>10, <1>11, <1>12, <1>13, <1>14, <1>15, <1>16 DEF Step

LEMMA LastKnownNext ==
    ASSUME NEW p, Procs = {p}
    PROVE  TypeOK /\ PhaseInv /\ BelowRollover /\ OneLoop(p) /\ LastKnown
              /\ [Next]_vars => LastKnown'
<1> SUFFICES ASSUME TypeOK, PhaseInv, BelowRollover, OneLoop(p), LastKnown,
                    [Next]_vars
             PROVE  LastKnown'
  OBVIOUS
<1> USE OrdersAssumption
    DEF Orders, TypeOK, PcSet, OneLoop, Running, LastKnown, Committed
<1>1. ASSUME NEW r \in Requests, Step(r) PROVE LastKnown'
  BY <1>1, LastKnownStep
<1>2. ASSUME NEW r \in Requests, Tell(r) PROVE LastKnown'
  BY <1>2 DEF Tell
<1>3. ASSUME NEW r \in Requests, Begin(r, p) PROVE LastKnown'
  BY <1>3 DEF Begin
<1>4. ASSUME NEW o \in Orders, StaffBegins(p, o) PROVE LastKnown'
  BY <1>4 DEF StaffBegins
<1>5. CASE StaffCommits(p)
  BY <1>5 DEF StaffCommits
<1>6. CASE Crash(p)
  BY <1>6 DEF Crash
<1>7. CASE UNCHANGED vars
  BY <1>7 DEF vars
<1> QED
  BY <1>1, <1>2, <1>3, <1>4, <1>5, <1>6, <1>7 DEF Next

\* With one process, and as long as the day has fewer than a thousand orders,
\* what main.py:1355-1357 says of its query is true: the number it produces is
\* never taken, and the second flush never fails on it.
THEOREM OneProcessNumbers ==
    ASSUME NEW p, Procs = {p}
    PROVE  Spec /\ []BelowRollover => []NoNumberCollision
<1>1. Init => PhaseInv /\ LoopsHeld /\ LastKnown
  BY PhaseInit, OrdersAssumption DEF Init, LoopsHeld, Running, LastKnown
<1>2. TypeOK /\ PhaseInv /\ BelowRollover /\ LoopsHeld /\ LastKnown
         /\ [Next]_vars => PhaseInv' /\ LoopsHeld' /\ LastKnown'
  BY PhaseNext, OneLoopHeld, LoopsHeldNext, LastKnownNext
<1>3. TypeOK /\ PhaseInv /\ LastKnown => NoNumberCollision
  BY DEF TypeOK, PhaseInv, LastKnown, NoNumberCollision, NumberTaken
<1> QED
  BY <1>1, <1>2, <1>3, TypeCorrect, PTL DEF Spec

----------------------------------------------------------------------------
(* The slots.                                                              *)

\* With one process max_orders_per_slot holds although the slot is counted in
\* another statement than the order is committed in (main.py:1243, 1474), and
\* with an await between them: whoever is admitted while another order waits
\* there does not reach its own commit before that one has ended.
THEOREM OneProcessSlots ==
    ASSUME NEW p, Procs = {p}, IsFiniteSet(Requests)
    PROVE  Spec /\ SlotCapHolds => []SlotCapHolds
<1>1. IsFiniteSet(Procs) /\ Procs # {} /\ Cardinality(Procs) = 1
  BY FS_Singleton
<1>2. OverbookedByRaces => SlotCapHolds
  BY <1>1, BoundsAssumption DEF OverbookedByRaces, SlotCapHolds
<1>3. Spec /\ SlotCapHolds => []OverbookedByRaces
  BY <1>1, SlotsAreNearlyKept
<1> QED
  BY <1>2, <1>3, PTL

============================================================================
