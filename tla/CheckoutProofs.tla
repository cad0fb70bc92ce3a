--------------------------- MODULE CheckoutProofs ---------------------------
(***************************************************************************)
(* Proofs about the checkout, for any number of products, tabs, phones and *)
(* processes, and any limits.                                              *)
(***************************************************************************)
EXTENDS Checkout, FiniteSetTheorems, WellFoundedInduction, TLAPS

----------------------------------------------------------------------------
(* The limiter.                                                            *)

LEMMA TypeInit == LimiterInit => LimiterTypeOK
BY LimiterAssumption DEF LimiterInit, LimiterTypeOK, Nothing

LEMMA CleanupType ==
    ASSUME LimiterTypeOK, NEW s \in Procs, NEW later
    PROVE  AfterCleanup(s, later) \in [Phones -> SUBSET Nat]
BY DEF LimiterTypeOK, AfterCleanup, Within

LEMMA InsideType ==
    ASSUME NEW g \in [Procs -> [Phones -> SUBSET Nat]], NEW at
    PROVE  StillInside(g, at) \in [Procs -> [Phones -> SUBSET Nat]]
BY DEF StillInside, Within

\* A window that ends later has nothing of the past that one that ends
\* earlier had not.
LEMMA WithinLater ==
    ASSUME NEW times \in SUBSET Nat, NEW a \in Nat, NEW b \in Nat, a <= b
    PROVE  /\ Within(times, b) \subseteq Within(times, a)
           /\ Within(Within(times, a), b) = Within(times, b)
           /\ Within(Within(times, b), a) = Within(times, b)
<1>1. \A t \in Nat : b - t < Window => a - t < Window
  BY LimiterAssumption
<1>2. \A t \in times : t \in Nat
  OBVIOUS
<1> QED
  BY <1>1, <1>2 DEF Within

\* What an allowed or refused call does to the clock.
LEMMA ClockOfCall ==
    ASSUME LimiterTypeOK, NEW s \in Procs, NEW h \in Phones,
           NEW allowed \in BOOLEAN, IsAllowed(s, h, allowed)
    PROVE  now' \in Nat /\ now <= now'
BY DEF LimiterTypeOK, IsAllowed

\* Throwing away what is not recent at a later time leaves what is recent
\* then, and adds nothing.
LEMMA CleanupKeepsRecent ==
    ASSUME LimiterTypeOK, NEW s \in Procs, NEW h \in Phones,
           NEW later \in Nat, now <= later
    PROVE  /\ Within(AfterCleanup(s, later)[h], later)
                 = Within(requests[s][h], later)
           /\ Within(Before(s, h, later), later)
                 = Within(requests[s][h], later)
           /\ Before(s, h, later) \subseteq Recent(requests[s][h])
<1>1. requests[s][h] \in SUBSET Nat /\ now \in Nat
  BY DEF LimiterTypeOK
<1>2. AfterCleanup(s, later)[h] \in SUBSET Nat
  BY CleanupType
<1>3. AfterCleanup(s, later)[h]
         = IF Due(s) THEN Within(requests[s][h], later) ELSE requests[s][h]
  BY DEF AfterCleanup
<1>4. Within(AfterCleanup(s, later)[h], later)
         = Within(requests[s][h], later)
  BY <1>1, <1>3, WithinLater
<1>5. Within(Before(s, h, later), later)
         = Within(AfterCleanup(s, later)[h], later)
  BY <1>1, <1>2, WithinLater DEF Before, Recent
<1>6. Before(s, h, later) \subseteq Recent(requests[s][h])
  BY <1>3 DEF Before, Recent, Within
<1> QED
  BY <1>4, <1>5, <1>6

LEMMA IsAllowedType ==
    ASSUME LimiterTypeOK, NEW s \in Procs, NEW h \in Phones,
           NEW allowed \in BOOLEAN, IsAllowed(s, h, allowed)
    PROVE  LimiterTypeOK'
<1>1. AfterCleanup(s, now') \in [Phones -> SUBSET Nat]
  BY CleanupType
<1>2. Before(s, h, now') \subseteq Nat /\ now \in Nat
  BY <1>1 DEF Before, Recent, Within, LimiterTypeOK
<1>3. requests' \in [Procs -> [Phones -> SUBSET Nat]]
  BY <1>1, <1>2 DEF IsAllowed, LimiterTypeOK
<1>4. counter' \in [Procs -> 0 .. CleanupInterval - 1]
  BY LimiterAssumption DEF IsAllowed, LimiterTypeOK, Due
<1>5. [granted EXCEPT ![s][h] = @ \cup {now}]
         \in [Procs -> [Phones -> SUBSET Nat]]
  BY <1>2 DEF LimiterTypeOK
<1>6. granted' \in [Procs -> [Phones -> SUBSET Nat]]
  BY <1>5, InsideType DEF IsAllowed, LimiterTypeOK
<1> QED
  BY <1>3, <1>4, <1>6, ClockOfCall DEF LimiterTypeOK

LEMMA PassingTimeType ==
    ASSUME LimiterTypeOK, TimePasses PROVE LimiterTypeOK'
BY InsideType DEF LimiterTypeOK, TimePasses

LEMMA RestartType ==
    ASSUME LimiterTypeOK, NEW s \in Procs, Restart(s) PROVE LimiterTypeOK'
BY LimiterAssumption DEF LimiterTypeOK, Restart, Nothing

\* What a step of the checkout does to the limiter.
LEMMA LimiterStep ==
    ASSUME [CheckoutNext]_vars
    PROVE  \/ UNCHANGED limiterVars
           \/ \E s \in Procs, h \in Phones, allowed \in BOOLEAN :
                 IsAllowed(s, h, allowed)
           \/ TimePasses
           \/ \E s \in Procs : Restart(s)
<1>1. CASE UNCHANGED vars
  BY <1>1 DEF vars
<1>2. CASE Edit \/ Expire
  BY <1>2 DEF Edit, Expire
<1>3. CASE ClockMoves
  BY <1>3 DEF ClockMoves
<1>4. ASSUME NEW t \in Tabs,
             Submit(t) \/ Answered(t) \/ Refused(t) \/ ConnectionLost(t)
      PROVE  UNCHANGED limiterVars
  BY <1>4 DEF Submit, Answered, Refused, ConnectionLost
<1>5. ASSUME NEW t \in Tabs, NEW s \in Procs, NEW h \in Phones,
             CreateOrder(t, s, h)
      PROVE  \/ UNCHANGED limiterVars
             \/ \E allowed \in BOOLEAN : IsAllowed(s, h, allowed)
  BY <1>5 DEF CreateOrder
<1>6. ASSUME NEW s \in Procs, ProcessRestarts(s) PROVE Restart(s)
  BY <1>6 DEF ProcessRestarts
<1>7. ASSUME NEW s \in Procs, NEW h \in Phones, OtherOrder(s, h)
      PROVE  \E allowed \in BOOLEAN : IsAllowed(s, h, allowed)
  BY <1>7 DEF OtherOrder
<1> QED
  BY <1>1, <1>2, <1>3, <1>4, <1>5, <1>6, <1>7 DEF CheckoutNext

LEMMA LimiterTypeStep ==
    ASSUME LimiterTypeOK, [CheckoutNext]_vars PROVE LimiterTypeOK'
<1>1. CASE UNCHANGED limiterVars
  BY <1>1 DEF limiterVars, LimiterTypeOK
<1> QED
  BY <1>1, LimiterStep, IsAllowedType, PassingTimeType, RestartType

\* LimiterIsExact, and that what is counted is finite.
LimiterInv ==
    /\ LimiterTypeOK
    /\ LimiterIsExact
    /\ \A s \in Procs, h \in Phones : IsFiniteSet(granted[s][h])

\* What the limiter knows of the last window it knows of every later one.
LEMMA KnownLater ==
    ASSUME LimiterInv, NEW s \in Procs, NEW h \in Phones,
           NEW later \in Nat, now <= later
    PROVE  Within(requests[s][h], later) = Within(granted[s][h], later)
<1>1. requests[s][h] \in SUBSET Nat /\ now \in Nat
  BY DEF LimiterInv, LimiterTypeOK
<1>2. Within(requests[s][h], now) = granted[s][h]
  BY DEF LimiterInv, LimiterIsExact, Recent
<1> QED
  BY <1>1, <1>2, WithinLater

\* Nobody is let through too often by waiting.
LEMMA FewerLater ==
    ASSUME LimiterInv, NEW s \in Procs, NEW h \in Phones, NEW later
    PROVE  /\ IsFiniteSet(Within(granted[s][h], later))
           /\ Cardinality(Within(granted[s][h], later)) <= MaxRequests
<1>1. Within(granted[s][h], later) \subseteq granted[s][h]
  BY DEF Within
<1>2. IsFiniteSet(granted[s][h]) /\ Cardinality(granted[s][h]) <= MaxRequests
  BY DEF LimiterInv, LimiterIsExact
<1>3. /\ IsFiniteSet(Within(granted[s][h], later))
      /\ Cardinality(Within(granted[s][h], later))
            <= Cardinality(granted[s][h])
  BY <1>1, <1>2, FS_Subset
<1>4. /\ Cardinality(Within(granted[s][h], later)) \in Nat
      /\ Cardinality(granted[s][h]) \in Nat
  BY <1>2, <1>3, FS_CardinalityType
<1> QED
  BY <1>2, <1>3, <1>4, LimiterAssumption

\* A call keeps the limiter exact: what it lets through is in both sets, and
\* what its cleaning dropped has left the window by now.
LEMMA CallStep ==
    ASSUME LimiterInv, NEW s \in Procs, NEW h \in Phones,
           NEW allowed \in BOOLEAN, IsAllowed(s, h, allowed)
    PROVE  LimiterInv'
<1> DEFINE later == now'
           before == Before(s, h, later)
<1>1. LimiterTypeOK /\ LimiterTypeOK' /\ later \in Nat /\ now <= later
  BY IsAllowedType, ClockOfCall DEF LimiterInv
<1>2. now \in Nat /\ granted \in [Procs -> [Phones -> SUBSET Nat]]
      /\ requests \in [Procs -> [Phones -> SUBSET Nat]]
  BY <1>1 DEF LimiterTypeOK
<1>3. \A r \in Procs, k \in Phones :
         granted'[r][k] = IF r = s /\ k = h /\ allowed
                          THEN Within(granted[s][h] \cup {now}, later)
                          ELSE Within(granted[r][k], later)
  BY <1>2 DEF IsAllowed, StillInside
<1>4. \A r \in Procs, k \in Phones :
         requests'[r][k] =
            IF r # s THEN requests[r][k]
            ELSE IF k # h THEN AfterCleanup(s, later)[k]
            ELSE IF allowed THEN before \cup {now} ELSE before
  BY <1>1, <1>2, CleanupType DEF IsAllowed
<1>5. /\ Within(before, later) = Within(granted[s][h], later)
      /\ before \subseteq granted[s][h]
  <2>1. Recent(requests[s][h]) = granted[s][h]
    BY DEF LimiterInv, LimiterIsExact
  <2> QED
    BY <1>1, <2>1, CleanupKeepsRecent, KnownLater
<1> SUFFICES ASSUME NEW r \in Procs, NEW k \in Phones
             PROVE  /\ Within(requests'[r][k], later) = granted'[r][k]
                    /\ Cardinality(granted'[r][k]) <= MaxRequests
                    /\ IsFiniteSet(granted'[r][k])
  BY <1>1 DEF LimiterInv, LimiterIsExact, Recent, Within
<1>6. CASE r = s /\ k = h /\ allowed
  <2>1. requests'[r][k] = before \cup {now}
    BY <1>4, <1>6
  <2>2. granted'[r][k] = Within(granted[s][h] \cup {now}, later)
    BY <1>3, <1>6
  <2>3. Within(before \cup {now}, later)
           = Within(granted[s][h] \cup {now}, later)
    BY <1>5 DEF Within
  <2>4. granted'[r][k] \subseteq before \cup {now}
    BY <1>5, <2>2, <2>3 DEF Within
  <2>5. IsFiniteSet(before)
    BY <1>5, FS_Subset DEF LimiterInv
  <2>6. Cardinality(before) < MaxRequests
    BY <1>6 DEF IsAllowed
  <2>7. /\ IsFiniteSet(before \cup {now})
        /\ Cardinality(before \cup {now}) <= Cardinality(before) + 1
    <3>1. Cardinality(before) \in Nat
      BY <2>5, FS_CardinalityType
    <3> QED
      BY <2>5, <3>1, FS_AddElement
  <2>8. /\ IsFiniteSet(granted'[r][k])
        /\ Cardinality(granted'[r][k]) <= Cardinality(before \cup {now})
    BY <2>4, <2>7, FS_Subset
  <2>9. /\ Cardinality(before) \in Nat /\ Cardinality(before \cup {now}) \in Nat
        /\ Cardinality(granted'[r][k]) \in Nat
    BY <2>5, <2>7, <2>8, FS_CardinalityType
  <2> QED
    BY <2>1, <2>2, <2>3, <2>6, <2>7, <2>8, <2>9, LimiterAssumption
<1>7. CASE ~(r = s /\ k = h /\ allowed)
  <2>1. granted'[r][k] = Within(granted[r][k], later)
    BY <1>3, <1>7
  <2>2. Within(requests'[r][k], later) = Within(granted[r][k], later)
    <3>1. CASE r # s
      BY <1>1, <1>4, <3>1, KnownLater
    <3>2. CASE r = s /\ k # h
      BY <1>1, <1>4, <3>2, CleanupKeepsRecent, KnownLater
    <3>3. CASE r = s /\ k = h
      BY <1>4, <1>5, <1>7, <3>3
    <3> QED
      BY <3>1, <3>2, <3>3
  <2> QED
    BY <2>1, <2>2, FewerLater
<1> QED
  BY <1>6, <1>7

LEMMA PassingTimeStep ==
    ASSUME LimiterInv, TimePasses PROVE LimiterInv'
<1>1. LimiterTypeOK' /\ now' \in Nat /\ now <= now'
  BY PassingTimeType DEF LimiterInv, LimiterTypeOK, TimePasses
<1>2. \A s \in Procs, h \in Phones :
         /\ granted'[s][h] = Within(granted[s][h], now')
         /\ requests'[s][h] = requests[s][h]
  BY DEF TimePasses, StillInside
<1> SUFFICES ASSUME NEW s \in Procs, NEW h \in Phones
             PROVE  /\ Within(requests'[s][h], now') = granted'[s][h]
                    /\ Cardinality(granted'[s][h]) <= MaxRequests
                    /\ IsFiniteSet(granted'[s][h])
  BY <1>1 DEF LimiterInv, LimiterIsExact, Recent, Within
<1> QED
  BY <1>1, <1>2, KnownLater, FewerLater

LEMMA RestartStep ==
    ASSUME LimiterInv, NEW s \in Procs, Restart(s) PROVE LimiterInv'
<1>1. LimiterTypeOK'
  BY RestartType DEF LimiterInv
<1>2. \A r \in Procs, h \in Phones :
         \/ granted'[r][h] = {} /\ requests'[r][h] = {}
         \/ granted'[r][h] = granted[r][h] /\ requests'[r][h] = requests[r][h]
  BY DEF Restart, Nothing, LimiterInv, LimiterTypeOK
<1>3. now' = now
  BY DEF Restart
<1> SUFFICES ASSUME NEW r \in Procs, NEW h \in Phones
             PROVE  /\ Within(requests'[r][h], now) = granted'[r][h]
                    /\ Cardinality(granted'[r][h]) <= MaxRequests
                    /\ IsFiniteSet(granted'[r][h])
  BY <1>1, <1>3 DEF LimiterInv, LimiterIsExact, Recent, Within
<1>4. CASE granted'[r][h] = {} /\ requests'[r][h] = {}
  BY <1>4, FS_EmptySet, LimiterAssumption DEF Within
<1>5. CASE granted'[r][h] = granted[r][h] /\ requests'[r][h] = requests[r][h]
  BY <1>5 DEF LimiterInv, LimiterIsExact, Recent
<1> QED
  BY <1>2, <1>4, <1>5

LEMMA LimiterInvStep ==
    ASSUME LimiterInv, [CheckoutNext]_vars PROVE LimiterInv'
<1>1. CASE UNCHANGED limiterVars
  BY <1>1, LimiterTypeStep
     DEF limiterVars, LimiterInv, LimiterIsExact, Recent, Within
<1> QED
  BY <1>1, LimiterStep, CallStep, PassingTimeStep, RestartStep

LEMMA LimiterInvInit == CheckoutInit => LimiterInv
<1> SUFFICES ASSUME CheckoutInit PROVE LimiterInv
  OBVIOUS
<1>1. LimiterTypeOK
  BY TypeInit DEF CheckoutInit
<1>2. \A s \in Procs, h \in Phones :
         requests[s][h] = {} /\ granted[s][h] = {}
  BY DEF CheckoutInit, LimiterInit, Nothing
<1>3. \A s \in Procs, h \in Phones : Recent(requests[s][h]) = {}
  BY <1>2 DEF Recent, Within
<1>4. IsFiniteSet({}) /\ Cardinality({}) = 0
  BY FS_EmptySet
<1>5. LimiterIsExact
  BY <1>2, <1>3, <1>4, LimiterAssumption DEF LimiterIsExact
<1> QED
  BY <1>1, <1>2, <1>4, <1>5 DEF LimiterInv

\* However the limiter's cleaning falls, it answers as one that remembers
\* every call it let through, and keeps its limit in the window that ends at
\* any time (PhoneRateLimiter, main.py:314).
THEOREM LimiterRemembersEnough == CheckoutSpec => []LimiterIsExact
<1>1. LimiterInv /\ [CheckoutNext]_vars => LimiterInv'
  BY LimiterInvStep
<1>2. LimiterInv => LimiterIsExact
  BY DEF LimiterInv
<1> QED
  BY <1>1, <1>2, LimiterInvInit, PTL DEF CheckoutSpec

----------------------------------------------------------------------------
(* The cart and the checkout.                                              *)

LEMMA NoCartType == NoCart \in Carts
BY CartAssumption DEF NoCart, Carts

\* What the customer does keeps the types of the cart and of its backups.
LEMMA EditType ==
    ASSUME CheckoutTypeOK, CartEdit \/ (\E t \in Tabs : BackupExpires(t))
    PROVE  cart' \in Carts /\ backup' \in [Tabs -> Carts \cup {NoBackup}]
<1> USE CartAssumption, NoCartType DEF CheckoutTypeOK
<1>1. ASSUME NEW p \in Products, AddItem(p) \/ Increase(p)
      PROVE  cart' \in Carts /\ UNCHANGED backup
  BY <1>1 DEF AddItem, AddMore, AddLine, Increase, SaveCart, Carts
<1>2. ASSUME NEW p \in Products, Decrease(p) \/ RemoveItem(p)
      PROVE  cart' \in Carts /\ UNCHANGED backup
  BY <1>2 DEF Decrease, RemoveItem, SaveCart, Carts
<1>3. ASSUME NEW p \in Products, NEW q \in {0, 1, QtyMax, QtyMax + 1},
             SetQty(p, q)
      PROVE  cart' \in Carts /\ UNCHANGED backup
  BY <1>3 DEF SetQty, SaveCart, Carts
<1>4. ASSUME NEW t \in Tabs,
             ClearCart(t) \/ UndoClearCart(t) \/ BackupExpires(t)
      PROVE  /\ cart' \in Carts
             /\ backup' \in [Tabs -> Carts \cup {NoBackup}]
  BY <1>4 DEF ClearCart, UndoClearCart, BackupExpires
<1> QED
  BY <1>1, <1>2, <1>3, <1>4 DEF CartEdit

\* Nothing that crosses leaves owed a number for each product.
LEMMA CrossType ==
    ASSUME CheckoutTypeOK, NEW b \in BOOLEAN, Cross(b)
    PROVE  owed' \in [Products -> Int] /\ crossed' \in BOOLEAN
BY DEF CheckoutTypeOK, Cross, NoCart

LEMMA ReadyType ==
    ASSUME CheckoutTypeOK, NEW t \in Tabs, Ready(t)
    PROVE  /\ tab' \in [Tabs -> {"idle", "sent", "stored", "refused"}]
           /\ basket' \in [Tabs -> Carts]
BY NoCartType DEF CheckoutTypeOK, Ready

LEMMA CheckoutTypeStep ==
    ASSUME CheckoutTypeOK, [CheckoutNext]_vars PROVE CheckoutTypeOK'
<1>0. LimiterTypeOK'
  BY LimiterTypeStep DEF CheckoutTypeOK
<1>1. CASE UNCHANGED vars
  BY <1>0, <1>1 DEF vars, checkoutVars, CheckoutTypeOK
<1>2. CASE Edit
  BY <1>0, <1>2, EditType, CrossType DEF Edit, CheckoutTypeOK
<1>3. CASE Expire
  BY <1>0, <1>3, EditType DEF Expire, checkoutVars, CheckoutTypeOK
<1>4. CASE \/ ClockMoves \/ \E s \in Procs : ProcessRestarts(s)
           \/ \E s \in Procs, h \in Phones : OtherOrder(s, h)
  BY <1>0, <1>4
     DEF ClockMoves, ProcessRestarts, OtherOrder, checkoutVars, CheckoutTypeOK
<1>5. ASSUME NEW t \in Tabs, Submit(t) PROVE CheckoutTypeOK'
  <2>1. (InFlight # {}) \in BOOLEAN
    OBVIOUS
  <2>2. owed' \in [Products -> Int] /\ crossed' \in BOOLEAN
    BY <1>5, <2>1, CrossType DEF Submit
  <2>3. presses' \in 0 .. MaxPresses
    BY <1>5, BoundsAssumption DEF Submit, CheckoutTypeOK
  <2> QED
    BY <1>0, <1>5, <2>2, <2>3 DEF Submit, CheckoutTypeOK
<1>6. ASSUME NEW t \in Tabs, Answered(t) PROVE CheckoutTypeOK'
  <2>1. cart \in [Products -> Int]
    BY CartAssumption DEF CheckoutTypeOK, Carts
  <2>2. Minus(owed, cart) \in [Products -> Int]
    BY <2>1 DEF Minus, CheckoutTypeOK
  <2> QED
    BY <1>0, <1>6, <2>2, ReadyType, NoCartType DEF Answered, CheckoutTypeOK
<1>7. ASSUME NEW t \in Tabs, Refused(t) PROVE CheckoutTypeOK'
  BY <1>0, <1>7, ReadyType DEF Refused, CheckoutTypeOK
<1>8. ASSUME NEW t \in Tabs, ConnectionLost(t) PROVE CheckoutTypeOK'
  BY <1>0, <1>8, ReadyType, CrossType DEF ConnectionLost, CheckoutTypeOK
<1>9. ASSUME NEW t \in Tabs, NEW s \in Procs, NEW h \in Phones,
             CreateOrder(t, s, h)
      PROVE  CheckoutTypeOK'
  <2>1. basket[t] \in [Products -> Int]
    BY CartAssumption DEF CheckoutTypeOK, Carts
  <2>2. Plus(owed, basket[t]) \in [Products -> Int]
    BY <2>1 DEF Plus, CheckoutTypeOK
  <2> QED
    BY <1>0, <1>9, <2>2, NoCartType DEF CreateOrder, CheckoutTypeOK
<1> QED
  BY <1>1, <1>2, <1>3, <1>4, <1>5, <1>6, <1>7, <1>8, <1>9 DEF CheckoutNext

LEMMA CheckoutTypeInit == CheckoutInit => CheckoutTypeOK
<1> SUFFICES ASSUME CheckoutInit PROVE CheckoutTypeOK
  OBVIOUS
<1>1. owed \in [Products -> Int]
  BY DEF CheckoutInit, NoCart
<1>2. presses \in 0 .. MaxPresses
  BY BoundsAssumption DEF CheckoutInit
<1>3. LimiterTypeOK
  BY TypeInit DEF CheckoutInit
<1> QED
  BY <1>1, <1>2, <1>3, NoCartType DEF CheckoutInit, CartInit, CheckoutTypeOK

\* Quantities stay between 0 and QTY_MAX whatever is clicked where
\* (cart.js), and every variable keeps its type.
THEOREM CheckoutTypeCorrect == CheckoutSpec => []CheckoutTypeOK
BY CheckoutTypeInit, CheckoutTypeStep, PTL DEF CheckoutSpec

\* While nothing has crossed, at most one tab has sent something, what it
\* sent is in the cart still, and it is owed when it is stored.
CheckoutInv ==
    ~crossed =>
        \/ InFlight = {} /\ owed = NoCart
        \/ \E t \in Tabs :
              /\ InFlight = {t}
              /\ tab[t] = "sent" => basket[t] = cart
              /\ owed = IF tab[t] = "stored" THEN cart ELSE NoCart

LEMMA CheckoutInvStep ==
    ASSUME CheckoutTypeOK, CheckoutInv, [CheckoutNext]_vars
    PROVE  CheckoutInv'
<1> USE DEF CheckoutTypeOK, CheckoutInv, InFlight
<1>1. CASE UNCHANGED vars \/ ClockMoves \/ Expire
           \/ (\E s \in Procs : ProcessRestarts(s))
           \/ \E s \in Procs, h \in Phones : OtherOrder(s, h)
  BY <1>1 DEF vars, checkoutVars, ClockMoves, Expire, BackupExpires,
              ProcessRestarts, OtherOrder
<1>2. CASE Edit
  BY <1>2 DEF Edit, Cross
<1>3. ASSUME NEW t \in Tabs, Submit(t) PROVE CheckoutInv'
  <2> SUFFICES ASSUME ~crossed' PROVE CheckoutInv'
    OBVIOUS
  <2>1. InFlight = {} /\ ~crossed /\ owed = NoCart /\ owed' = owed
    BY <1>3 DEF Submit, Cross
  <2>2. InFlight' = {t} /\ basket'[t] = cart' /\ tab'[t] = "sent"
    BY <1>3, <2>1 DEF Submit
  <2> QED
    BY <2>1, <2>2
<1>4. ASSUME NEW t \in Tabs, NEW s \in Procs, NEW h \in Phones,
             CreateOrder(t, s, h)
      PROVE  CheckoutInv'
  <2> SUFFICES ASSUME ~crossed PROVE CheckoutInv'
    BY <1>4 DEF CreateOrder
  <2>1. InFlight = {t} /\ basket[t] = cart /\ owed = NoCart
    BY <1>4 DEF CreateOrder
  <2>2. InFlight' = {t}
    BY <1>4, <2>1 DEF CreateOrder
  <2>3. Plus(NoCart, cart) = cart
    BY CartAssumption DEF Plus, NoCart, Carts
  <2>4. cart' = cart /\ tab'[t] \in {"stored", "refused"}
    BY <1>4 DEF CreateOrder
  <2>5. owed' = IF tab'[t] = "stored" THEN cart' ELSE NoCart
    BY <1>4, <2>1, <2>3, <2>4 DEF CreateOrder
  <2> QED
    BY <2>1, <2>2, <2>4, <2>5
<1>5. ASSUME NEW t \in Tabs, Answered(t) PROVE CheckoutInv'
  <2> SUFFICES ASSUME ~crossed PROVE CheckoutInv'
    BY <1>5 DEF Answered
  <2>1. InFlight = {t} /\ owed = cart
    BY <1>5 DEF Answered
  <2>2. InFlight' = {}
    BY <1>5, <2>1 DEF Answered, Ready
  <2>3. Minus(cart, cart) = NoCart
    BY CartAssumption DEF Minus, NoCart, Carts
  <2> QED
    BY <1>5, <2>1, <2>2, <2>3 DEF Answered
<1>6. ASSUME NEW t \in Tabs, Refused(t) PROVE CheckoutInv'
  <2> SUFFICES ASSUME ~crossed PROVE CheckoutInv'
    BY <1>6 DEF Refused
  <2>1. InFlight = {t} /\ owed = NoCart
    BY <1>6 DEF Refused
  <2> QED
    BY <1>6, <2>1 DEF Refused, Ready
<1>7. ASSUME NEW t \in Tabs, ConnectionLost(t) PROVE CheckoutInv'
  <2> SUFFICES ASSUME ~crossed' PROVE CheckoutInv'
    OBVIOUS
  <2>1. ~crossed /\ tab[t] # "stored" /\ owed' = owed
    BY <1>7 DEF ConnectionLost, Cross
  <2>2. InFlight = {t} /\ owed = NoCart
    BY <1>7, <2>1 DEF ConnectionLost
  <2> QED
    BY <1>7, <2>1, <2>2 DEF ConnectionLost, Ready
<1> QED
  BY <1>1, <1>2, <1>3, <1>4, <1>5, <1>6, <1>7 DEF CheckoutNext

\* What is ordered is what answers take out of the cart, unless something
\* came between a press and its answer (submit handler, cart.js).
THEOREM OrderedExactly == CheckoutSpec => []OrderedOnce
<1>1. CheckoutInit => CheckoutTypeOK /\ CheckoutInv
  BY CheckoutTypeInit DEF CheckoutInit, CheckoutInv, InFlight
<1>2. CheckoutTypeOK /\ CheckoutInv /\ [CheckoutNext]_vars
         => (CheckoutTypeOK /\ CheckoutInv)'
  BY CheckoutTypeStep, CheckoutInvStep
<1>3. CheckoutInv => OrderedOnce
  BY DEF CheckoutInv, OrderedOnce
<1> QED
  BY <1>1, <1>2, <1>3, PTL DEF CheckoutSpec

----------------------------------------------------------------------------
(* The size of a cart.                                                     *)

\* The total of a cart is the value, at all products, of a function that adds
\* the quantities one product after the other.
Some(s) == CHOOSE p \in s : TRUE

AddsUp(c, sum, s) ==
    sum[s] = IF s = {} THEN 0 ELSE c[Some(s)] + sum[s \ {Some(s)}]

Totals(c) ==
    CHOOSE sum : sum = [s \in SUBSET Products |->
                          IF s = {} THEN 0
                          ELSE c[Some(s)] + sum[s \ {Some(s)}]]

LEMMA TotalUnfolds ==
    ASSUME NEW c PROVE TotalItems(c) = Totals(c)[Products]
BY DEF TotalItems, MapThenSumSet, MapThenFoldSet, Totals, Some

LEMMA SomeOf == ASSUME NEW s, s # {} PROVE Some(s) \in s
BY DEF Some

\* The functions that add up the sets of at most n products.
Adders(c, n) ==
    {f \in [SUBSET Products -> Nat] :
        \A s \in SUBSET Products : Cardinality(s) <= n => AddsUp(c, f, s)}

LEMMA AddersExist ==
    ASSUME NEW c \in [Products -> Nat], NEW n \in Nat
    PROVE  Adders(c, n) # {}
<1> DEFINE Missing == {k \in Nat : Adders(c, k) = {}}
<1> SUFFICES ASSUME Missing # {} PROVE FALSE
  OBVIOUS
<1>1. PICK k \in Missing : \A m \in Missing : <<m, k>> \notin OpToRel(<, Nat)
  <2> HIDE DEF Missing
  <2>1. Missing \subseteq Nat
    BY DEF Missing
  <2> QED
    BY <2>1, WFMin, NatLessThanWellFounded, Zenon
<1>2. \A s \in SUBSET Products : /\ IsFiniteSet(s)
                                 /\ Cardinality(s) \in Nat
                                 /\ Cardinality(s) = 0 => s = {}
  BY CartAssumption, FS_Subset, FS_CardinalityType, FS_EmptySet
<1>3. CASE k = 0
  <2> DEFINE f == [s \in SUBSET Products |-> 0]
  <2>1. f \in [SUBSET Products -> Nat]
    OBVIOUS
  <2>2. \A s \in SUBSET Products : Cardinality(s) <= 0 => AddsUp(c, f, s)
    BY <1>2 DEF AddsUp
  <2> HIDE DEF f
  <2>3. f \in Adders(c, 0)
    BY <2>1, <2>2 DEF Adders
  <2> QED
    BY <1>3, <2>3
<1>4. CASE k > 0
  <2>1. k - 1 \in Nat /\ <<k - 1, k>> \in OpToRel(<, Nat)
    BY <1>4 DEF OpToRel
  <2>2. k - 1 \notin Missing
    BY <1>1, <2>1
  <2>3. PICK f \in [SUBSET Products -> Nat] :
          \A s \in SUBSET Products :
             Cardinality(s) <= k - 1 => AddsUp(c, f, s)
    BY <2>1, <2>2 DEF Adders
  <2> DEFINE g == [s \in SUBSET Products |->
                      IF s = {} THEN 0
                      ELSE c[Some(s)] + f[s \ {Some(s)}]]
  <2>4. \A s \in SUBSET Products :
           s # {} => /\ s \ {Some(s)} \in SUBSET Products
                     /\ c[Some(s)] \in Nat /\ f[s \ {Some(s)}] \in Nat
    BY SomeOf
  <2>5. g \in [SUBSET Products -> Nat]
    BY <2>4
  <2>6. ASSUME NEW s \in SUBSET Products, Cardinality(s) <= k
        PROVE  AddsUp(c, g, s)
    <3>1. CASE s = {}
      BY <3>1 DEF AddsUp
    <3>2. CASE s # {}
      <4> DEFINE r == s \ {Some(s)}
      <4>1. r \in SUBSET Products /\ g[s] = c[Some(s)] + f[r]
        BY <2>4, <3>2
      <4>2. Cardinality(r) = Cardinality(s) - 1
        BY <1>2, <3>2, SomeOf, FS_RemoveElement
      <4>3. Cardinality(r) <= k - 1
        BY <1>2, <2>6, <4>2
      <4>4. AddsUp(c, f, r)
        BY <2>3, <4>1, <4>3
      <4>5. f[r] = g[r]
        BY <4>1, <4>4 DEF AddsUp
      <4> QED
        BY <3>2, <4>1, <4>5 DEF AddsUp
    <3> QED
      BY <3>1, <3>2
  <2> HIDE DEF g
  <2>7. g \in Adders(c, k)
    BY <2>5, <2>6 DEF Adders
  <2> QED
    BY <2>7
<1> QED
  BY <1>3, <1>4

LEMMA TotalsAddUp ==
    ASSUME NEW c \in [Products -> Nat]
    PROVE  \A s \in SUBSET Products : AddsUp(c, Totals(c), s)
<1> DEFINE N == Cardinality(Products)
<1>1. \A s \in SUBSET Products : Cardinality(s) <= N
  BY CartAssumption, FS_Subset
<1>2. N \in Nat
  BY CartAssumption, FS_CardinalityType
<1>3. Adders(c, N) # {}
  BY <1>2, AddersExist
<1>4. PICK f \in [SUBSET Products -> Nat] :
        \A s \in SUBSET Products : AddsUp(c, f, s)
  BY <1>1, <1>3 DEF Adders
<1>5. f = [s \in SUBSET Products |-> IF s = {} THEN 0
                                     ELSE c[Some(s)] + f[s \ {Some(s)}]]
  BY <1>4 DEF AddsUp
<1>6. Totals(c) = [s \in SUBSET Products |->
                      IF s = {} THEN 0
                      ELSE c[Some(s)] + Totals(c)[s \ {Some(s)}]]
  BY <1>5 DEF Totals
<1> QED
  BY <1>6 DEF AddsUp

\* A cart has at most as many lines as items.
LEMMA LinesWithinTotal ==
    ASSUME NEW c \in [Products -> Nat]
    PROVE  /\ TotalItems(c) \in Nat
           /\ Cardinality(Lines(c)) <= TotalItems(c)
<1> DEFINE Fits(s) == /\ Totals(c)[s] \in Nat
                      /\ Cardinality(Lines(c) \cap s) <= Totals(c)[s]
           Bad == {s \in SUBSET Products : ~Fits(s)}
<1>1. Bad = {}
  <2> SUFFICES ASSUME Bad # {} PROVE FALSE
    OBVIOUS
  <2>1. PICK s \in Bad :
          \A r \in Bad : <<r, s>> \notin StrictSubsetOrdering(Products)
    <3>1. IsWellFoundedOn(StrictSubsetOrdering(Products),
                          FiniteSubsetsOf(Products))
      BY FS_StrictSubsetOrderingWellFounded
    <3>2. Bad \subseteq FiniteSubsetsOf(Products)
      BY CartAssumption, FS_Subset DEF FiniteSubsetsOf
    <3> HIDE DEF Bad
    <3> QED
      BY <3>1, <3>2, WFMin, Zenon
  <2>2. AddsUp(c, Totals(c), s)
    BY TotalsAddUp
  <2>3. CASE s = {}
    <3>1. Totals(c)[s] = 0 /\ Lines(c) \cap s = {}
      BY <2>2, <2>3 DEF AddsUp
    <3> QED
      BY <3>1, FS_EmptySet
  <2>4. CASE s # {}
    <3> DEFINE p == Some(s)
               r == s \ {p}
    <3>1. p \in s /\ p \in Products
      BY <2>4, SomeOf
    <3>2. Totals(c)[s] = c[p] + Totals(c)[r]
      BY <2>2, <2>4 DEF AddsUp
    <3> HIDE DEF p
    <3>3. Fits(r)
      <4>1. r \in SUBSET Products /\ r \subseteq s /\ r # s
        BY <3>1
      <4>2. <<r, s>> \in StrictSubsetOrdering(Products)
        BY <4>1 DEF StrictSubsetOrdering
      <4>3. r \notin Bad
        BY <2>1, <4>2
      <4> QED
        BY <4>1, <4>3
    <3>4. IsFiniteSet(Lines(c) \cap r)
      BY CartAssumption, FS_Subset DEF Lines
    <3>5. Cardinality(Lines(c) \cap r) \in Nat
      BY <3>4, FS_CardinalityType
    <3>6. c[p] \in Nat
      BY <3>1
    <3>7. CASE c[p] > 0
      <4>1. Lines(c) \cap s = (Lines(c) \cap r) \cup {p}
        BY <3>1, <3>7 DEF Lines
      <4>2. p \notin Lines(c) \cap r
        OBVIOUS
      <4>3. Cardinality(Lines(c) \cap s) = Cardinality(Lines(c) \cap r) + 1
        BY <3>4, <4>1, <4>2, FS_AddElement
      <4> QED
        BY <3>2, <3>3, <3>5, <3>6, <3>7, <4>3
    <3>8. CASE ~(c[p] > 0)
      <4>1. Lines(c) \cap s = Lines(c) \cap r
        BY <3>1, <3>8 DEF Lines
      <4>2. c[p] = 0
        BY <3>6, <3>8
      <4>3. Totals(c)[s] = Totals(c)[r]
        BY <3>2, <3>3, <4>2
      <4>4. Fits(s)
        BY <3>3, <4>1, <4>3
      <4> QED
        BY <4>4
    <3> QED
      BY <3>7, <3>8
  <2> QED
    BY <2>3, <2>4
<1>2. Fits(Products)
  BY <1>1
<1>3. Lines(c) \cap Products = Lines(c)
  BY DEF Lines
<1> QED
  BY <1>2, <1>3, TotalUnfolds

\* No cart, cleared cart or basket on its way has more lines than a cart may
\* have items, and no basket is empty.
FewLines(c) == Cardinality(Lines(c)) <= MaxItems

CartsInv ==
    /\ FewLines(cart)
    /\ \A t \in Tabs : /\ FewLines(backup[t]) /\ FewLines(basket[t])
                       /\ tab[t] = "sent" => basket[t] # NoCart

LEMMA EmptyFewLines == FewLines(NoCart) /\ FewLines(NoBackup)
<1>1. Lines(NoCart) = {} /\ Lines(NoBackup) = {}
  BY DEF Lines, NoCart, NoBackup
<1> QED
  BY <1>1, FS_EmptySet, CartAssumption DEF FewLines

\* What adds no line leaves few lines.
LEMMA NoMoreLines ==
    ASSUME NEW c, NEW d, FewLines(c), Lines(d) \subseteq Lines(c)
    PROVE  FewLines(d)
<1>1. IsFiniteSet(Lines(c))
  BY CartAssumption, FS_Subset DEF Lines
<1>2. IsFiniteSet(Lines(d)) /\ Cardinality(Lines(d)) <= Cardinality(Lines(c))
  BY <1>1, FS_Subset
<1>3. Cardinality(Lines(c)) \in Nat /\ Cardinality(Lines(d)) \in Nat
  BY <1>1, <1>2, FS_CardinalityType
<1> QED
  BY <1>2, <1>3, CartAssumption DEF FewLines

LEMMA EditFewLines ==
    ASSUME CheckoutTypeOK, CartsInv,
           CartEdit \/ (\E t \in Tabs : BackupExpires(t))
    PROVE  FewLines(cart)' /\ \A t \in Tabs : FewLines(backup'[t])
<1> USE CartAssumption DEF CheckoutTypeOK, CartsInv
<1>0. cart \in [Products -> Nat]
  BY DEF Carts
<1>1. ASSUME NEW p \in Products,
             AddMore(p) \/ Increase(p) \/ Decrease(p) \/ RemoveItem(p)
      PROVE  UNCHANGED backup /\ FewLines(cart')
  <2>1. UNCHANGED backup /\ Lines(cart') \subseteq Lines(cart)
    BY <1>0, <1>1
       DEF AddMore, Increase, Decrease, RemoveItem, SaveCart, Lines
  <2> QED
    BY <2>1, NoMoreLines
<1>2. ASSUME NEW p \in Products, AddLine(p)
      PROVE  UNCHANGED backup /\ FewLines(cart')
  <2>1. /\ UNCHANGED backup
        /\ Lines(cart') = Lines(cart) \cup {p} /\ p \notin Lines(cart)
    BY <1>0, <1>2 DEF AddLine, SaveCart, Lines
  <2>2. IsFiniteSet(Lines(cart))
    BY FS_Subset DEF Lines
  <2>3. Cardinality(Lines(cart')) = Cardinality(Lines(cart)) + 1
    BY <2>1, <2>2, FS_AddElement
  <2>4. /\ TotalItems(cart) \in Nat /\ TotalItems(cart) < MaxItems
        /\ Cardinality(Lines(cart)) <= TotalItems(cart)
    BY <1>0, <1>2, LinesWithinTotal DEF AddLine
  <2>5. Cardinality(Lines(cart)) \in Nat
    BY <2>2, FS_CardinalityType
  <2> QED
    BY <2>1, <2>3, <2>4, <2>5 DEF FewLines
<1>3. ASSUME NEW p \in Products, NEW q \in {0, 1, QtyMax, QtyMax + 1},
             SetQty(p, q)
      PROVE  UNCHANGED backup /\ FewLines(cart')
  <2>1. cart' \in [Products -> Nat]
    BY <1>0, <1>3 DEF SetQty, SaveCart
  <2>2. UNCHANGED backup /\ TotalItems(cart') <= MaxItems
    BY <1>3 DEF SetQty, SaveCart
  <2>3. IsFiniteSet(Lines(cart'))
    BY FS_Subset DEF Lines
  <2>4. Cardinality(Lines(cart')) \in Nat
    BY <2>3, FS_CardinalityType
  <2>5. /\ TotalItems(cart') \in Nat
        /\ Cardinality(Lines(cart')) <= TotalItems(cart')
    BY <2>1, LinesWithinTotal
  <2> QED
    BY <2>2, <2>4, <2>5 DEF FewLines
<1>4. ASSUME NEW t \in Tabs,
             ClearCart(t) \/ UndoClearCart(t) \/ BackupExpires(t)
      PROVE  FewLines(cart') /\ \A u \in Tabs : FewLines(backup'[u])
  BY <1>4, EmptyFewLines DEF ClearCart, UndoClearCart, BackupExpires
<1> QED
  BY <1>1, <1>2, <1>3, <1>4 DEF CartEdit, AddItem

LEMMA CartsStep ==
    ASSUME CheckoutTypeOK, CartsInv, [CheckoutNext]_vars PROVE CartsInv'
<1> USE DEF CheckoutTypeOK
<1>1. CASE UNCHANGED vars \/ ClockMoves
           \/ (\E s \in Procs : ProcessRestarts(s))
           \/ \E s \in Procs, h \in Phones : OtherOrder(s, h)
  BY <1>1 DEF vars, checkoutVars, ClockMoves, ProcessRestarts, OtherOrder,
              CartsInv, FewLines, Lines
<1>2. CASE Edit \/ Expire
  BY <1>2, EditFewLines DEF Edit, Expire, checkoutVars, CartsInv
<1>3. ASSUME NEW t \in Tabs, Submit(t) PROVE CartsInv'
  BY <1>3 DEF Submit, CartsInv, FewLines, Lines
<1>4. ASSUME NEW t \in Tabs, NEW s \in Procs, NEW h \in Phones,
             CreateOrder(t, s, h)
      PROVE  CartsInv'
  BY <1>4, EmptyFewLines DEF CreateOrder, CartsInv, FewLines, Lines
<1>5. ASSUME NEW t \in Tabs, Answered(t) \/ Refused(t) \/ ConnectionLost(t)
      PROVE  CartsInv'
  BY <1>5, EmptyFewLines
     DEF Answered, Refused, ConnectionLost, Ready, CartsInv
<1> QED
  BY <1>1, <1>2, <1>3, <1>4, <1>5 DEF CheckoutNext

LEMMA FewLinesOrderable ==
    ASSUME NEW c \in Carts, c # NoCart, FewLines(c)
    PROVE  Acceptable(c)
<1>1. Lines(c) # {}
  BY CartAssumption DEF Lines, Carts, NoCart
<1> QED
  BY <1>1, CartAssumption DEF Acceptable, FewLines, Lines, Carts

\* The page never lets a cart become one the server refuses for its items,
\* by whatever clicks in whatever tabs (MAX_ITEMS and QTY_MAX, cart.js).
THEOREM CartIsAccepted == CheckoutSpec => []CartCanBeOrdered
<1>1. CheckoutInit => CheckoutTypeOK /\ CartsInv
  BY CheckoutTypeInit, EmptyFewLines DEF CheckoutInit, CartInit, CartsInv
<1>2. CheckoutTypeOK /\ CartsInv /\ [CheckoutNext]_vars
         => (CheckoutTypeOK /\ CartsInv)'
  BY CheckoutTypeStep, CartsStep
<1>3. CheckoutTypeOK /\ CartsInv => CartCanBeOrdered
  BY FewLinesOrderable DEF CheckoutTypeOK, CartsInv, CartCanBeOrdered
<1> QED
  BY <1>1, <1>2, <1>3, PTL DEF CheckoutSpec

=============================================================================
