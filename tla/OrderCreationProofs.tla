------------------------ MODULE OrderCreationProofs ------------------------
(***************************************************************************)
(* Proofs about order creation, for any number of processes, requests and  *)
(* crashes, and for every width at which the printed numbers roll over.    *)
(***************************************************************************)
EXTENDS OrderCreation, FiniteSetTheorems, TLAPS, WellFoundedInduction

\* Every variable keeps its type.
THEOREM TypeCorrect == Spec => []TypeOK
<1> USE OrdersAssumption, KindsAssumption, BoundsAssumption DEF NoNum, Orders
<1>1. Init => TypeOK
  <2> SUFFICES ASSUME Init PROVE TypeOK
    OBVIOUS
  <2>1. Cardinality(Earlier) \in Nat
    BY FS_CardinalityType
  <2> QED
    BY <2>1 DEF Init, TypeOK, PcSet, Outcomes
<1>2. TypeOK /\ [Next]_vars => TypeOK'
  <2> SUFFICES ASSUME TypeOK, [Next]_vars PROVE TypeOK'
    OBVIOUS
  <2> USE DEF TypeOK, PcSet, Outcomes
  <2>1. ASSUME NEW r \in Requests, Step(r) PROVE TypeOK'
    <3>1. CASE LookupHit(r)
      BY <3>1 DEF LookupHit, Runs, Finish
    <3>2. CASE LookupMiss(r)
      BY <3>2 DEF LookupMiss, Move
    <3>3. CASE Refuse(r)
      BY <3>3 DEF Refuse, Runs, Finish
    <3>4. CASE Accept(r)
      BY <3>4 DEF Accept, Move
    <3>5. CASE Insert(r)
      BY <3>5 DEF Insert, Move
    <3>6. CASE InsertConflict(r)
      BY <3>6 DEF InsertConflict, Runs, Fail, Rollback, Unlock, Finish
    <3>7. CASE FindLast(r)
      BY <3>7 DEF FindLast, Move, LastOrders, Committed
    <3>8. CASE LockLast(r)
      BY <3>8 DEF LockLast, Move
    <3>9. CASE FlushNumber(r)
      BY <3>9 DEF FlushNumber, Move
    <3>10. CASE FlushConflict(r)
      BY <3>10 DEF FlushConflict, Runs, Fail, Rollback, Unlock, Finish
    <3>11. CASE Pay(r)
      BY <3>11 DEF Pay, Move
    <3>12. CASE PayFails(r)
      BY <3>12 DEF PayFails, Runs, Fail, Rollback, Unlock, Finish
    <3>13. CASE Suspend(r)
      BY <3>13 DEF Suspend, Move, Runs
    <3>14. CASE Resume(r)
      BY <3>14 DEF Resume, LoopFree
    <3>15. CASE Commit(r)
      BY <3>15 DEF Commit, Runs, Unlock, Finish
    <3>16. CASE CommitFails(r)
      BY <3>16 DEF CommitFails, Runs, Fail, Rollback, Unlock, Finish
    <3> QED
      BY <2>1, <3>1, <3>2, <3>3, <3>4, <3>5, <3>6, <3>7, <3>8, <3>9, <3>10,
         <3>11, <3>12, <3>13, <3>14, <3>15, <3>16 DEF Step
  <2>2. ASSUME NEW r \in Requests, Tell(r) PROVE TypeOK'
    BY <2>2 DEF Tell
  <2>3. ASSUME NEW r \in Requests, NEW p \in Procs, Begin(r, p) PROVE TypeOK'
    BY <2>3 DEF Begin
  <2>4. ASSUME NEW p \in Procs, NEW o \in Orders, StaffBegins(p, o)
       PROVE  TypeOK'
    BY <2>4 DEF StaffBegins
  <2>5. ASSUME NEW p \in Procs, StaffCommits(p) PROVE TypeOK'
    BY <2>5 DEF StaffCommits
  <2>6. ASSUME NEW p \in Procs, Crash(p) PROVE TypeOK'
    BY <2>6 DEF Crash, Rollback, Unlock
  <2>7. CASE UNCHANGED vars
    BY <2>7 DEF vars
  <2> QED
    BY <2>1, <2>2, <2>3, <2>4, <2>5, <2>6, <2>7 DEF Next
<1> QED
  BY <1>1, <1>2, PTL DEF Spec

----------------------------------------------------------------------------
(* Where a transaction stands and what its rows hold.                      *)

Numbering == {"number", "lock", "flush"}

TailPcs == {"pay", "notify", "await", "commit"}

\* A row is uncommitted exactly while its transaction is past its INSERT, and
\* has its number exactly from the second flush on; an earlier order stays.
PhaseOf(r) ==
    /\ stored[r] = "pending" <=> pc[r] \in Numbering \cup TailPcs
    /\ stored[r] = "committed" => pc[r] = "done"
    /\ pc[r] \in Numbering => num[r] = NoNum
    /\ pc[r] \in TailPcs => num[r] = seq[r]
    /\ pc[r] = "lock" => last[r] = None \/ last[r] \in Committed

PhaseInv ==
    /\ \A r \in Requests : PhaseOf(r)
    /\ \A e \in Earlier : stored[e] = "committed"
    /\ \A o \in Committed : num[o] \in Nat
    /\ \A o \in Orders : stored[o] = "absent" => num[o] = NoNum

LEMMA PhaseInit == Init => PhaseInv
<1> USE OrdersAssumption DEF Orders
<1>1. Cardinality(Earlier) \in Nat
  BY FS_CardinalityType
<1> QED
  BY <1>1 DEF Init, PhaseInv, PhaseOf, Numbering, TailPcs, Committed, NoNum

LEMMA PhaseNext == TypeOK /\ PhaseInv /\ [Next]_vars => PhaseInv'
<1> SUFFICES ASSUME TypeOK, PhaseInv, [Next]_vars PROVE PhaseInv'
  OBVIOUS
<1> USE OrdersAssumption, BoundsAssumption
    DEF Orders, TypeOK, PcSet, PhaseInv, PhaseOf, Numbering, TailPcs,
        Committed, NoNum
<1>1. ASSUME NEW r \in Requests, Step(r) PROVE PhaseInv'
  <2>1. CASE LookupHit(r)
    BY <2>1 DEF LookupHit, Runs, Finish
  <2>2. CASE LookupMiss(r)
    BY <2>2 DEF LookupMiss, Move, Runs
  <2>3. CASE Refuse(r)
    BY <2>3 DEF Refuse, Runs, Finish
  <2>4. CASE Accept(r)
    BY <2>4 DEF Accept, Move, Runs
  <2>5. CASE Insert(r)
    BY <2>5 DEF Insert, Move, Runs
  <2>6. CASE InsertConflict(r)
    BY <2>6 DEF InsertConflict, Runs, Fail, Rollback, Unlock, Finish
  <2>7. CASE FindLast(r)
    BY <2>7 DEF FindLast, Move, LastOrders
  <2>8. CASE LockLast(r)
    BY <2>8 DEF LockLast, Move
  <2>9. CASE FlushNumber(r)
    BY <2>9 DEF FlushNumber, Move, SameNumber
  <2>10. CASE FlushConflict(r)
    BY <2>10 DEF FlushConflict, Runs, Fail, Rollback, Unlock, Finish
  <2>11. CASE Pay(r)
    BY <2>11 DEF Pay, Move
  <2>12. CASE PayFails(r)
    BY <2>12 DEF PayFails, Runs, Fail, Rollback, Unlock, Finish
  <2>13. CASE Suspend(r)
    BY <2>13 DEF Suspend, Move, Runs
  <2>14. CASE Resume(r)
    BY <2>14 DEF Resume, LoopFree
  <2>15. CASE Commit(r)
    BY <2>15 DEF Commit, Runs, Unlock, Finish
  <2>16. CASE CommitFails(r)
    BY <2>16 DEF CommitFails, Runs, Fail, Rollback, Unlock, Finish
  <2> QED
    BY <1>1, <2>1, <2>2, <2>3, <2>4, <2>5, <2>6, <2>7, <2>8, <2>9, <2>10,
       <2>11, <2>12, <2>13, <2>14, <2>15, <2>16 DEF Step
<1>2. ASSUME NEW r \in Requests, Tell(r) PROVE PhaseInv'
  BY <1>2 DEF Tell
<1>3. ASSUME NEW r \in Requests, NEW p \in Procs, Begin(r, p) PROVE PhaseInv'
  BY <1>3 DEF Begin
<1>4. ASSUME NEW p \in Procs, NEW o \in Orders, StaffBegins(p, o)
      PROVE  PhaseInv'
  BY <1>4 DEF StaffBegins
<1>5. ASSUME NEW p \in Procs, StaffCommits(p) PROVE PhaseInv'
  BY <1>5 DEF StaffCommits
<1>6. ASSUME NEW p \in Procs, Crash(p) PROVE PhaseInv'
  BY <1>6 DEF Crash, Rollback, Unlock
<1>7. CASE UNCHANGED vars
  BY <1>7 DEF vars
<1> QED
  BY <1>1, <1>2, <1>3, <1>4, <1>5, <1>6, <1>7 DEF Next

----------------------------------------------------------------------------
(* What a step does to the table.                                          *)

\* The requests that have drawn a number which is not committed.
Drawn == {r \in Requests : pc[r] \in {"flush"} \cup TailPcs}

\* The rows of R, none of them committed, are taken back (none, for a step that
\* leaves the table alone).
Withdraw(R) ==
    /\ \A r \in R : stored[r] # "committed"
    /\ stored' = [o \in Orders |-> IF o \in R THEN "absent" ELSE stored[o]]
    /\ num' = [o \in Orders |-> IF o \in R THEN NoNum ELSE num[o]]
    /\ UNCHANGED <<req, seq>>
    /\ Drawn' \subseteq Drawn \ R

TableStep ==
    \/ \E r \in Requests :
          Insert(r) \/ LockLast(r) \/ FlushNumber(r) \/ Commit(r)
    \/ \E R \in SUBSET Requests : Withdraw(R)

LEMMA StepOnTable == TypeOK /\ PhaseInv /\ [Next]_vars => TableStep
<1> SUFFICES ASSUME TypeOK, PhaseInv, [Next]_vars PROVE TableStep
  OBVIOUS
<1> USE OrdersAssumption DEF Orders, TypeOK, PcSet, PhaseInv, PhaseOf,
        Numbering, TailPcs, Drawn
<1> DEFINE Quiet == Withdraw({})
<1>1. SUFFICES ASSUME ~(\E r \in Requests : Insert(r) \/ LockLast(r)
                             \/ FlushNumber(r) \/ Commit(r))
               PROVE  \E R \in SUBSET Requests : Withdraw(R)
  BY DEF TableStep
<1>2. SUFFICES Quiet \/ \E R \in SUBSET Requests : Withdraw(R)
  OBVIOUS
<1>3. ASSUME NEW r \in Requests, Step(r) PROVE Quiet \/ Withdraw({r})
  <2>1. ASSUME LookupHit(r) PROVE Quiet
    BY <2>1 DEF LookupHit, Runs, Finish, Withdraw
  <2>2. ASSUME LookupMiss(r) PROVE Quiet
    BY <2>2 DEF LookupMiss, Move, Runs, Withdraw
  <2>3. ASSUME Refuse(r) PROVE Quiet
    BY <2>3 DEF Refuse, Runs, Finish, Withdraw
  <2>4. ASSUME Accept(r) PROVE Quiet
    BY <2>4 DEF Accept, Move, Runs, Withdraw
  <2>5. ASSUME FindLast(r) PROVE Quiet
    BY <2>5 DEF FindLast, Move, Runs, Withdraw
  <2>6. ASSUME Pay(r) PROVE Quiet
    BY <2>6 DEF Pay, Move, Withdraw
  <2>7. ASSUME Suspend(r) PROVE Quiet
    BY <2>7 DEF Suspend, Move, Runs, Withdraw
  <2>8. ASSUME Resume(r) PROVE Quiet
    BY <2>8 DEF Resume, LoopFree, Withdraw
  <2>9. ASSUME InsertConflict(r) PROVE Withdraw({r})
    BY <2>9 DEF InsertConflict, Runs, Fail, Rollback, Unlock, Finish, Withdraw
  <2>10. ASSUME FlushConflict(r) PROVE Withdraw({r})
    BY <2>10 DEF FlushConflict, Runs, Fail, Rollback, Unlock, Finish, Withdraw
  <2>11. ASSUME PayFails(r) PROVE Withdraw({r})
    BY <2>11 DEF PayFails, Runs, Fail, Rollback, Unlock, Finish, Withdraw
  <2>12. ASSUME CommitFails(r) PROVE Withdraw({r})
    BY <2>12 DEF CommitFails, Runs, Fail, Rollback, Unlock, Finish, Withdraw
  <2> QED
    BY <1>1, <1>3, <2>1, <2>2, <2>3, <2>4, <2>5, <2>6, <2>7, <2>8, <2>9,
       <2>10, <2>11, <2>12 DEF Step
<1>4. ASSUME NEW r \in Requests, Tell(r) PROVE Quiet
  BY <1>4 DEF Tell, Withdraw
<1>5. ASSUME NEW r \in Requests, NEW p \in Procs, Begin(r, p) PROVE Quiet
  BY <1>5 DEF Begin, Withdraw
<1>6. ASSUME NEW p \in Procs, NEW o \in Orders, StaffBegins(p, o) PROVE Quiet
  BY <1>6 DEF StaffBegins, Withdraw
<1>7. ASSUME NEW p \in Procs, StaffCommits(p) PROVE Quiet
  BY <1>7 DEF StaffCommits, Withdraw
<1>8. ASSUME NEW p \in Procs, Crash(p)
      PROVE  \E R \in SUBSET Requests : Withdraw(R)
  <2>1. PICK R \in SUBSET Requests :
             R = {r \in Requests : home[r] = p /\ pc[r] # "done"}
    OBVIOUS
  <2>2. Withdraw(R)
    BY <1>8, <2>1 DEF Crash, Rollback, Withdraw
  <2> QED
    BY <2>2
<1>9. CASE UNCHANGED vars
  BY <1>9 DEF vars, Withdraw
<1> QED
  <2> HIDE DEF Quiet
  <2>1. CASE \E r \in Requests : Step(r)
    <3>1. PICK r \in Requests : Step(r)
      BY <2>1
    <3>2. {r} \in SUBSET Requests
      OBVIOUS
    <3> QED
      BY <1>3, <3>1, <3>2, Zenon
  <2> QED
    BY <1>4, <1>5, <1>6, <1>7, <1>8, <1>9, <2>1 DEF Next

----------------------------------------------------------------------------
(* The order numbers.                                                      *)

\* The inductive invariant of the numbers.
NumInv == NumberingInv /\ NumbersArePrefix

LEMMA NumInit == Init => NumInv
<1> USE OrdersAssumption DEF Orders
<1>1. Cardinality(Earlier) \in Nat
  BY FS_CardinalityType
<1> QED
  BY <1>1 DEF Init, NumInv, NumberingInv, NumbersArePrefix, Consecutive,
              Committed, Tail, NoNum

LEMMA NumNext == TypeOK /\ PhaseInv /\ NumInv /\ TableStep => NumInv'
<1> SUFFICES ASSUME TypeOK, PhaseInv, NumInv, TableStep PROVE NumInv'
  OBVIOUS
<1> USE OrdersAssumption DEF Orders, TypeOK, PcSet, PhaseInv, PhaseOf,
        Numbering, TailPcs, NumInv, NumberingInv, NumbersArePrefix,
        Committed, Tail, NoNum
<1>1. ASSUME NEW r \in Requests, Insert(r) PROVE NumInv'
  BY <1>1 DEF Insert, Move, Runs
<1>2. ASSUME NEW r \in Requests, LockLast(r) PROVE NumInv'
  BY SMTT(40), <1>2 DEF LockLast, Move
<1>3. ASSUME NEW r \in Requests, FlushNumber(r) PROVE NumInv'
  BY <1>3 DEF FlushNumber, Move, SameNumber
<1>4. ASSUME NEW r \in Requests, Commit(r) PROVE NumInv'
  <2>1. Committed' = Committed \cup {r} /\ r \notin Committed
    BY <1>4 DEF Commit, Finish, Runs
  <2>2. UNCHANGED <<num, seq>> /\ Tail' \subseteq Tail /\ r \in Tail
    BY <1>4 DEF Commit, Finish, Runs
  <2>3. \A q \in Requests : pc'[q] = "flush" => pc[q] = "flush"
    BY <1>4 DEF Commit, Finish, Runs
  <2>4. \A o \in Orders : stored'[o] # "absent" => stored[o] # "absent"
    BY <1>4 DEF Commit, Finish, Runs
  <2>5. num[r] = 0 \/ \E q \in Committed : num[q] = num[r] - 1
    BY <2>2
  <2>6. \A k \in 0 .. num[r] - 1 : \E q \in Committed : num[q] = k
    BY <2>5
  <2>7. NumberingInv'
    BY <2>1, <2>2, <2>3, <2>4
  <2>8. NumbersArePrefix'
    <3>1. \A o \in Committed' : \A k \in 0 .. num[o] - 1 :
             \E q \in Committed' : num[q] = k
      BY <2>1, <2>6
    <3>2. \A o, q \in Committed' : num[o] = num[q] => o = q
      BY <2>1, <2>4, <1>4 DEF Commit, Finish, Runs
    <3> QED
      BY <2>2, <3>1, <3>2
  <2> QED
    BY <2>7, <2>8
<1>5. ASSUME NEW R \in SUBSET Requests, Withdraw(R) PROVE NumInv'
  <2>1. Committed' = Committed
    BY <1>5 DEF Withdraw
  <2>2. \A o \in Orders : stored'[o] # "absent" =>
           stored[o] # "absent" /\ num'[o] = num[o]
    BY <1>5 DEF Withdraw
  <2>3. \A o \in Committed : num'[o] = num[o]
    BY <1>5 DEF Withdraw
  <2>4. \A r \in Requests : pc'[r] = "flush" \/ r \in Tail' =>
           seq'[r] = seq[r] /\ (pc[r] = "flush" \/ r \in Tail)
    BY <1>5 DEF Withdraw, Drawn
  <2> QED
    BY <2>1, <2>2, <2>3, <2>4
<1> QED
  BY <1>1, <1>2, <1>3, <1>4, <1>5 DEF TableStep

\* The numbers of the day's committed orders are 0, 1, 2, ... (and no number in
\* the table is there twice, committed or not).
THEOREM NumbersCorrect == Spec => [](NumberingInv /\ NumbersArePrefix)
<1>1. Init => PhaseInv /\ NumInv
  BY PhaseInit, NumInit
<1>2. TypeOK /\ TypeOK' /\ PhaseInv /\ NumInv /\ [Next]_vars
         => PhaseInv' /\ NumInv'
  BY PhaseNext, StepOnTable, NumNext
<1> QED
  BY <1>1, <1>2, TypeCorrect, PTL DEF Spec, NumInv

\* No two orders in the table, committed or not, have the same number, and
\* the number a request is about to write is 0 or the successor of a committed
\* one (the SELECT of the last number in create_order, app/main.py).
COROLLARY NumberingHolds == Spec => []NumberingInv
BY NumbersCorrect, PTL

\* Of two transactions that have written their numbers, the one with the larger
\* number would have drawn it from a committed order at or above the smaller
\* one, so the smaller one would be committed already: there are no two.
LEMMA TailSerial == TypeOK /\ PhaseInv /\ NumInv => SerialTail
<1> SUFFICES ASSUME TypeOK, PhaseInv, NumInv PROVE SerialTail
  OBVIOUS
<1> USE OrdersAssumption DEF Orders, TypeOK, PhaseInv, PhaseOf, TailPcs, Tail,
        NumInv, NumberingInv, NumbersArePrefix, Committed, NoNum
<1>1. ASSUME NEW r \in Tail, NEW q \in Tail, seq[r] < seq[q] PROVE FALSE
  <2>1. PICK c \in Committed : num[c] = seq[q] - 1
    BY <1>1
  <2>2. \E d \in Committed : num[d] = seq[r]
    <3>1. CASE num[c] = seq[r]
      BY <3>1
    <3>2. CASE num[c] # seq[r]
      <4>1. seq[r] \in 0 .. num[c] - 1
        BY <1>1, <2>1, <3>2
      <4> QED
        BY <4>1
    <3> QED
      BY <3>1, <3>2
  <2>3. PICK d \in Committed : num[d] = seq[r]
    BY <2>2
  <2>4. stored[r] = "pending" /\ num[r] = seq[r]
    BY <1>1
  <2> QED
    BY <2>3, <2>4
<1>2. ASSUME NEW r \in Tail, NEW q \in Tail, seq[r] = seq[q] PROVE r = q
  BY <1>2
<1>3. \A r, q \in Tail : seq[r] < seq[q] \/ seq[q] < seq[r] \/ seq[r] = seq[q]
  OBVIOUS
<1> QED
  BY <1>1, <1>2, <1>3 DEF SerialTail

\* The row lock and the unique index serialise order creation, over all
\* processes, from the numbered flush to the commit.
THEOREM TailIsSerial == Spec => []SerialTail
<1>1. Init => PhaseInv /\ NumInv
  BY PhaseInit, NumInit
<1>2. TypeOK /\ PhaseInv /\ NumInv /\ [Next]_vars => PhaseInv' /\ NumInv'
  BY PhaseNext, StepOnTable, NumNext
<1> QED
  BY <1>1, <1>2, TypeCorrect, TailSerial, PTL DEF Spec

----------------------------------------------------------------------------
(* Idempotency.                                                            *)

\* No two rows in the table share a key.
KeysUnique ==
    \A o, q \in Orders :
        stored[o] # "absent" /\ stored[q] # "absent" => ~SameKey(o, q)

\* An answer names a committed row that has the key of the request.
AnswersKept ==
    \A r \in Requests : Answered(r) =>
        /\ pc[r] = "done"
        /\ served[r] \in Committed /\ req[served[r]].key = req[r].key

KeyInv == KeysUnique /\ AnswersKept

LEMMA KeyInit == Init => KeyInv
BY OrdersAssumption
   DEF Init, KeyInv, KeysUnique, AnswersKept, Answered, SameKey, Orders

\* A request is answered by finding an order or by committing its own.
LEMMA StepOnAnswers ==
    ASSUME TypeOK, [Next]_vars, NEW r \in Requests, Answered(r)'
    PROVE  /\ UNCHANGED req
           /\ \/ LookupHit(r) \/ Commit(r)
              \/ /\ Answered(r) /\ served'[r] = served[r]
                 /\ pc[r] = "done" => pc'[r] = "done"
<1> DEFINE Kept == Answered(r) /\ served'[r] = served[r]
                     /\ (pc[r] = "done" => pc'[r] = "done")
<1> USE OrdersAssumption DEF Orders, TypeOK, PcSet, Answered
<1>1. ASSUME NEW q \in Requests, Step(q)
      PROVE  UNCHANGED req /\ (LookupHit(r) \/ Commit(r) \/ Kept)
  <2>1. CASE LookupHit(q)
    <3>1. CASE q = r
      <4>1. UNCHANGED req
        BY <2>1 DEF LookupHit
      <4> QED
        BY <2>1, <3>1, <4>1
    <3>2. CASE q # r
      BY <2>1, <3>2 DEF LookupHit, Runs, Finish
    <3> QED
      BY <3>1, <3>2
  <2>2. CASE Commit(q)
    BY <2>2 DEF Commit, Runs, Finish
  <2>3. CASE LookupMiss(q)
    BY <2>3 DEF LookupMiss, Move
  <2>4. CASE Refuse(q)
    BY <2>4 DEF Refuse, Runs, Finish
  <2>5. CASE Accept(q)
    BY <2>5 DEF Accept, Move
  <2>6. CASE Insert(q)
    BY <2>6 DEF Insert, Move
  <2>7. CASE InsertConflict(q)
    BY <2>7 DEF InsertConflict, Runs, Fail, Finish
  <2>8. CASE FindLast(q)
    BY <2>8 DEF FindLast, Move
  <2>9. CASE LockLast(q)
    BY <2>9 DEF LockLast, Move
  <2>10. CASE FlushNumber(q)
    BY <2>10 DEF FlushNumber, Move
  <2>11. CASE FlushConflict(q)
    BY <2>11 DEF FlushConflict, Runs, Fail, Finish
  <2>12. CASE Pay(q)
    BY <2>12 DEF Pay, Move
  <2>13. CASE PayFails(q)
    BY <2>13 DEF PayFails, Runs, Fail, Finish
  <2>14. CASE Suspend(q)
    BY <2>14 DEF Suspend, Move
  <2>15. CASE Resume(q)
    BY <2>15 DEF Resume
  <2>16. CASE CommitFails(q)
    BY <2>16 DEF CommitFails, Runs, Fail, Finish
  <2> QED
    BY <1>1, <2>1, <2>2, <2>3, <2>4, <2>5, <2>6, <2>7, <2>8, <2>9, <2>10,
       <2>11, <2>12, <2>13, <2>14, <2>15, <2>16 DEF Step
<1>2. ASSUME NEW q \in Requests, Tell(q) PROVE UNCHANGED req /\ Kept
  BY <1>2 DEF Tell
<1>3. ASSUME NEW q \in Requests, NEW p \in Procs, Begin(q, p)
      PROVE  UNCHANGED req /\ Kept
  BY <1>3 DEF Begin
<1>4. ASSUME NEW p \in Procs, NEW o \in Orders, StaffBegins(p, o)
      PROVE  UNCHANGED req /\ Kept
  BY <1>4 DEF StaffBegins
<1>5. ASSUME NEW p \in Procs, StaffCommits(p) PROVE UNCHANGED req /\ Kept
  BY <1>5 DEF StaffCommits
<1>6. ASSUME NEW p \in Procs, Crash(p) PROVE UNCHANGED req /\ Kept
  BY <1>6 DEF Crash
<1>7. CASE UNCHANGED vars
  BY <1>7 DEF vars
<1> QED
  BY <1>1, <1>2, <1>3, <1>4, <1>5, <1>6, <1>7 DEF Next

LEMMA KeyNext ==
    TypeOK /\ PhaseInv /\ KeyInv /\ [Next]_vars /\ TableStep => KeyInv'
<1> SUFFICES ASSUME TypeOK, PhaseInv, KeyInv, [Next]_vars, TableStep
             PROVE  KeyInv'
  OBVIOUS
<1> USE OrdersAssumption DEF Orders
<1>1. /\ UNCHANGED req
      /\ Committed \subseteq Committed'
      /\ \/ \E r \in Requests : Insert(r)
         \/ \A o \in Orders : stored'[o] # "absent" => stored[o] # "absent"
  <2> USE DEF TypeOK, Committed
  <2>1. ASSUME NEW r \in Requests, Insert(r) PROVE <1>1
    BY <2>1 DEF Insert, Move, PhaseInv, PhaseOf, Numbering, TailPcs
  <2>2. ASSUME NEW r \in Requests, LockLast(r) PROVE <1>1
    BY <2>2 DEF LockLast
  <2>3. ASSUME NEW r \in Requests, FlushNumber(r) PROVE <1>1
    BY <2>3 DEF FlushNumber
  <2>4. ASSUME NEW r \in Requests, Commit(r) PROVE <1>1
    BY <2>4 DEF Commit, PhaseInv, PhaseOf, Numbering, TailPcs
  <2>5. ASSUME NEW R \in SUBSET Requests, Withdraw(R) PROVE <1>1
    BY <2>5 DEF Withdraw
  <2> QED
    BY <2>1, <2>2, <2>3, <2>4, <2>5 DEF TableStep
<1>2. KeysUnique'
  <2>1. CASE \E r \in Requests : Insert(r)
    BY <1>1, <2>1 DEF KeyInv, KeysUnique, Insert, SameKey, TypeOK
  <2>2. CASE \A o \in Orders : stored'[o] # "absent" => stored[o] # "absent"
    BY <1>1, <2>2 DEF KeyInv, KeysUnique, SameKey
  <2> QED
    BY <1>1, <2>1, <2>2
<1>3. AnswersKept'
  <2> SUFFICES ASSUME NEW r \in Requests, Answered(r)'
               PROVE  /\ pc'[r] = "done"
                      /\ served'[r] \in Committed'
                      /\ req'[served'[r]].key = req'[r].key
    BY DEF AnswersKept
  <2>1. CASE LookupHit(r)
    BY <1>1, <2>1 DEF LookupHit, LookupFound, Finish, Runs, TypeOK
  <2>2. CASE Commit(r)
    BY <1>1, <2>2 DEF Commit, Finish, Runs, TypeOK, Committed
  <2>3. CASE Answered(r) /\ served'[r] = served[r]
               /\ (pc[r] = "done" => pc'[r] = "done")
    BY <1>1, <2>3 DEF KeyInv, AnswersKept
  <2> QED
    BY <2>1, <2>2, <2>3, StepOnAnswers
<1> QED
  BY <1>2, <1>3 DEF KeyInv

LEMMA KeyIsIdempotent == TypeOK /\ KeyInv => IdempotentAnswers
BY DEF TypeOK, KeyInv, KeysUnique, AnswersKept, IdempotentAnswers, SameKey,
       Committed, Orders

\* Requests with one key are answered with one order, which is in the table,
\* however often they are sent, to whichever process, before or after a crash.
THEOREM AnswersAreIdempotent == Spec => []IdempotentAnswers
<1>1. Init => PhaseInv /\ KeyInv
  BY PhaseInit, KeyInit
<1>2. TypeOK /\ PhaseInv /\ KeyInv /\ [Next]_vars => PhaseInv' /\ KeyInv'
  BY PhaseNext, StepOnTable, KeyNext
<1> QED
  BY <1>1, <1>2, TypeCorrect, KeyIsIdempotent, PTL DEF Spec

----------------------------------------------------------------------------
(* Card orders and announcements.                                          *)

\* From the answer of YooKassa on, a card order has its payment.
PayInv ==
    \A r \in Requests :
        /\ req[r].card
        /\ pc[r] \in {"notify", "await", "commit"} \/ r \in Committed
        => r \in payments

\* No transaction fails because of another one after its announcement.
ToldInv ==
    /\ AnnouncedOrdersStand
    /\ \A r \in Requests : pc[r] # "done" => outcome[r] = "none"

LEMMA PayNext == TypeOK /\ PhaseInv /\ PayInv /\ [Next]_vars => PayInv'
<1> SUFFICES ASSUME TypeOK, PhaseInv, PayInv, [Next]_vars PROVE PayInv'
  OBVIOUS
<1> USE OrdersAssumption DEF Orders, TypeOK, PcSet, PhaseInv, PhaseOf,
        Numbering, TailPcs, Committed, PayInv
<1>1. ASSUME NEW r \in Requests, Step(r) PROVE PayInv'
  <2>1. CASE LookupHit(r)
    BY <2>1 DEF LookupHit, Runs, Finish
  <2>2. CASE LookupMiss(r)
    BY <2>2 DEF LookupMiss, Move
  <2>3. CASE Refuse(r)
    BY <2>3 DEF Refuse, Runs, Finish
  <2>4. CASE Accept(r)
    BY <2>4 DEF Accept, Move
  <2>5. CASE Insert(r)
    BY <2>5 DEF Insert, Move
  <2>6. CASE InsertConflict(r)
    BY <2>6 DEF InsertConflict, Runs, Fail, Rollback, Finish
  <2>7. CASE FindLast(r)
    BY <2>7 DEF FindLast, Move
  <2>8. CASE LockLast(r)
    BY <2>8 DEF LockLast, Move
  <2>9. CASE FlushNumber(r)
    BY <2>9 DEF FlushNumber, Move
  <2>10. CASE FlushConflict(r)
    BY <2>10 DEF FlushConflict, Runs, Fail, Rollback, Finish
  <2>11. CASE Pay(r)
    BY <2>11 DEF Pay, Move
  <2>12. CASE PayFails(r)
    BY <2>12 DEF PayFails, Runs, Fail, Rollback, Finish
  <2>13. CASE Suspend(r)
    BY <2>13 DEF Suspend, Move
  <2>14. CASE Resume(r)
    BY <2>14 DEF Resume
  <2>15. CASE Commit(r)
    BY <2>15 DEF Commit, Runs, Finish
  <2>16. CASE CommitFails(r)
    BY <2>16 DEF CommitFails, Runs, Fail, Rollback, Finish
  <2> QED
    BY <1>1, <2>1, <2>2, <2>3, <2>4, <2>5, <2>6, <2>7, <2>8, <2>9,
       <2>10, <2>11, <2>12, <2>13, <2>14, <2>15, <2>16 DEF Step
<1>2. ASSUME NEW r \in Requests, Tell(r) PROVE PayInv'
  BY <1>2 DEF Tell
<1>3. ASSUME NEW r \in Requests, NEW p \in Procs, Begin(r, p) PROVE PayInv'
  BY <1>3 DEF Begin
<1>4. ASSUME NEW p \in Procs, NEW o \in Orders, StaffBegins(p, o) PROVE PayInv'
  BY <1>4 DEF StaffBegins
<1>5. ASSUME NEW p \in Procs, StaffCommits(p) PROVE PayInv'
  BY <1>5 DEF StaffCommits
<1>6. ASSUME NEW p \in Procs, Crash(p) PROVE PayInv'
  BY <1>6 DEF Crash, Rollback
<1>7. CASE UNCHANGED vars
  BY <1>7 DEF vars
<1> QED
  BY <1>1, <1>2, <1>3, <1>4, <1>5, <1>6, <1>7 DEF Next

LEMMA ToldNext == TypeOK /\ PhaseInv /\ ToldInv /\ [Next]_vars => ToldInv'
<1> SUFFICES ASSUME TypeOK, PhaseInv, ToldInv, [Next]_vars PROVE ToldInv'
  OBVIOUS
<1> USE OrdersAssumption DEF Orders, TypeOK, PcSet, PhaseInv, PhaseOf,
        Numbering, TailPcs, Committed, ToldInv,
        AnnouncedOrdersStand
<1>1. ASSUME NEW r \in Requests, Step(r) PROVE ToldInv'
  <2>1. CASE LookupHit(r)
    BY <2>1 DEF LookupHit, Runs, Finish
  <2>2. CASE LookupMiss(r)
    BY <2>2 DEF LookupMiss, Move
  <2>3. CASE Refuse(r)
    BY <2>3 DEF Refuse, Runs, Finish
  <2>4. CASE Accept(r)
    BY <2>4 DEF Accept, Move
  <2>5. CASE Insert(r)
    BY <2>5 DEF Insert, Move
  <2>6. CASE InsertConflict(r)
    BY <2>6 DEF InsertConflict, Runs, Fail, Rollback, Finish
  <2>7. CASE FindLast(r)
    BY <2>7 DEF FindLast, Move
  <2>8. CASE LockLast(r)
    BY <2>8 DEF LockLast, Move
  <2>9. CASE FlushNumber(r)
    BY <2>9 DEF FlushNumber, Move
  <2>10. CASE FlushConflict(r)
    BY <2>10 DEF FlushConflict, Runs, Fail, Rollback, Finish
  <2>11. CASE Pay(r)
    BY <2>11 DEF Pay, Move
  <2>12. CASE PayFails(r)
    BY <2>12 DEF PayFails, Runs, Fail, Rollback, Finish
  <2>13. CASE Suspend(r)
    BY <2>13 DEF Suspend, Move
  <2>14. CASE Resume(r)
    BY <2>14 DEF Resume
  <2>15. CASE Commit(r)
    BY <2>15 DEF Commit, Runs, Finish
  <2>16. CASE CommitFails(r)
    BY <2>16 DEF CommitFails, Runs, Fail, Rollback, Finish
  <2> QED
    BY <1>1, <2>1, <2>2, <2>3, <2>4, <2>5, <2>6, <2>7, <2>8, <2>9,
       <2>10, <2>11, <2>12, <2>13, <2>14, <2>15, <2>16 DEF Step
<1>2. ASSUME NEW r \in Requests, Tell(r) PROVE ToldInv'
  BY <1>2 DEF Tell
<1>3. ASSUME NEW r \in Requests, NEW p \in Procs, Begin(r, p) PROVE ToldInv'
  BY <1>3 DEF Begin
<1>4. ASSUME NEW p \in Procs, NEW o \in Orders, StaffBegins(p, o) PROVE ToldInv'
  BY <1>4 DEF StaffBegins
<1>5. ASSUME NEW p \in Procs, StaffCommits(p) PROVE ToldInv'
  BY <1>5 DEF StaffCommits
<1>6. ASSUME NEW p \in Procs, Crash(p) PROVE ToldInv'
  BY <1>6 DEF Crash, Rollback
<1>7. CASE UNCHANGED vars
  BY <1>7 DEF vars
<1> QED
  BY <1>1, <1>2, <1>3, <1>4, <1>5, <1>6, <1>7 DEF Next

\* No card order is stored without a payment the client can pay.
THEOREM CardOrdersPayable == Spec => []CardOrdersArePayable
<1>1. Init => PhaseInv /\ PayInv
  BY PhaseInit, OrdersAssumption DEF Init, PayInv, Committed, Orders
<1>2. TypeOK /\ PhaseInv /\ PayInv /\ [Next]_vars => PhaseInv' /\ PayInv'
  BY PhaseNext, PayNext
<1>3. PayInv => CardOrdersArePayable
  BY DEF PayInv, CardOrdersArePayable
<1> QED
  BY <1>1, <1>2, <1>3, TypeCorrect, PTL DEF Spec

\* The staff are never told of an order that another order then keeps out.
THEOREM AnnouncementsStand == Spec => []AnnouncedOrdersStand
<1>1. Init => PhaseInv /\ ToldInv
  BY PhaseInit DEF Init, ToldInv, AnnouncedOrdersStand
<1>2. TypeOK /\ PhaseInv /\ ToldInv /\ [Next]_vars => PhaseInv' /\ ToldInv'
  BY PhaseNext, ToldNext
<1> QED
  BY <1>1, <1>2, TypeCorrect, PTL DEF Spec, ToldInv

----------------------------------------------------------------------------
(* The event loops.                                                        *)

Running(r) == pc[r] \notin {"new", "await", "done"}

\* A coroutine between two statements of its own holds the loop of its
\* process, and nothing else holds one.
LoopsHeld ==
    /\ \A r \in Requests :
          /\ pc[r] # "new" => home[r] \in Procs
          /\ Running(r) => loop[home[r]] = r
    /\ \A p \in Procs :
          loop[p] # None => Running(loop[p]) /\ home[loop[p]] = p

LEMMA LoopsHeldStep ==
    ASSUME TypeOK, LoopsHeld, NEW r \in Requests, Step(r)
    PROVE  LoopsHeld'
<1> USE OrdersAssumption DEF Orders, TypeOK, PcSet, LoopsHeld, Running
<1>1. CASE LookupHit(r)
  BY <1>1 DEF LookupHit, Runs, Finish
<1>2. CASE LookupMiss(r)
  BY <1>2 DEF LookupMiss, Move, Runs
<1>3. CASE Refuse(r)
  BY <1>3 DEF Refuse, Runs, Finish
<1>4. CASE Accept(r)
  BY <1>4 DEF Accept, Move, Runs
<1>5. CASE Insert(r)
  BY <1>5 DEF Insert, Move, Runs
<1>6. CASE InsertConflict(r)
  BY <1>6 DEF InsertConflict, Runs, Fail, Rollback, Unlock, Finish
<1>7. CASE FindLast(r)
  BY <1>7 DEF FindLast, Move, Runs
<1>8. CASE LockLast(r)
  BY <1>8 DEF LockLast, Move, Runs
<1>9. CASE FlushNumber(r)
  BY <1>9 DEF FlushNumber, Move, Runs
<1>10. CASE FlushConflict(r)
  BY <1>10 DEF FlushConflict, Runs, Fail, Rollback, Unlock, Finish
<1>11. CASE Pay(r)
  BY <1>11 DEF Pay, Move, Runs
<1>12. CASE PayFails(r)
  BY <1>12 DEF PayFails, Runs, Fail, Rollback, Unlock, Finish
<1>13. CASE Suspend(r)
  BY <1>13 DEF Suspend, Move, Runs
<1>14. CASE Resume(r)
  BY <1>14 DEF Resume, LoopFree
<1>15. CASE Commit(r)
  BY <1>15 DEF Commit, Runs, Unlock, Finish
<1>16. CASE CommitFails(r)
  BY <1>16 DEF CommitFails, Runs, Fail, Rollback, Unlock, Finish
<1> QED
  BY <1>1, <1>2, <1>3, <1>4, <1>5, <1>6, <1>7, <1>8,
     <1>9, <1>10, <1>11, <1>12, <1>13, <1>14, <1>15, <1>16 DEF Step

LEMMA LoopsHeldNext == TypeOK /\ LoopsHeld /\ [Next]_vars => LoopsHeld'
<1> SUFFICES ASSUME TypeOK, LoopsHeld, [Next]_vars PROVE LoopsHeld'
  OBVIOUS
<1> USE OrdersAssumption DEF Orders, TypeOK, PcSet, LoopsHeld, Running
<1>1. ASSUME NEW r \in Requests, Step(r) PROVE LoopsHeld'
  BY <1>1, LoopsHeldStep
<1>2. ASSUME NEW r \in Requests, Tell(r) PROVE LoopsHeld'
  BY <1>2 DEF Tell
<1>3. ASSUME NEW r \in Requests, NEW p \in Procs, Begin(r, p) PROVE LoopsHeld'
  BY <1>3 DEF Begin, LoopFree
<1>4. ASSUME NEW p \in Procs, NEW o \in Orders, StaffBegins(p, o)
      PROVE  LoopsHeld'
  BY <1>4 DEF StaffBegins
<1>5. ASSUME NEW p \in Procs, StaffCommits(p) PROVE LoopsHeld'
  BY <1>5 DEF StaffCommits
<1>6. ASSUME NEW p \in Procs, Crash(p) PROVE LoopsHeld'
  BY <1>6 DEF Crash
<1>7. CASE UNCHANGED vars
  BY <1>7 DEF vars
<1> QED
  BY <1>1, <1>2, <1>3, <1>4, <1>5, <1>6, <1>7 DEF Next

----------------------------------------------------------------------------
(* The slots.                                                              *)

\* Requests that have been let into their slot and are not committed.
Holding(r) == pc[r] \in {"insert"} \cup Numbering \cup TailPcs

\* Requests never change, cancelled orders stay so, and nobody gets past
\* validation without room in the slot.
Admission ==
    /\ UNCHANGED req
    /\ cancelled \subseteq cancelled'
    /\ \A r \in Requests : Holding(r)' => Holding(r) \/ SlotOpen(r)

LEMMA AdmissionStep ==
    ASSUME TypeOK, NEW r \in Requests, Step(r)
    PROVE  Admission
<1> USE DEF TypeOK, PcSet, Admission, Holding, Numbering, TailPcs
<1>1. CASE LookupHit(r)
  BY <1>1 DEF LookupHit, Runs, Finish
<1>2. CASE LookupMiss(r)
  BY <1>2 DEF LookupMiss, Move, Runs
<1>3. CASE Refuse(r)
  BY <1>3 DEF Refuse, Runs, Finish
<1>4. CASE Accept(r)
  BY <1>4 DEF Accept, Move, Runs
<1>5. CASE Insert(r)
  BY <1>5 DEF Insert, Move, Runs
<1>6. CASE InsertConflict(r)
  BY <1>6 DEF InsertConflict, Runs, Fail, Rollback, Unlock, Finish
<1>7. CASE FindLast(r)
  BY <1>7 DEF FindLast, Move, Runs
<1>8. CASE LockLast(r)
  BY <1>8 DEF LockLast, Move, Runs
<1>9. CASE FlushNumber(r)
  BY <1>9 DEF FlushNumber, Move, Runs
<1>10. CASE FlushConflict(r)
  BY <1>10 DEF FlushConflict, Runs, Fail, Rollback, Unlock, Finish
<1>11. CASE Pay(r)
  BY <1>11 DEF Pay, Move, Runs
<1>12. CASE PayFails(r)
  BY <1>12 DEF PayFails, Runs, Fail, Rollback, Unlock, Finish
<1>13. CASE Suspend(r)
  BY <1>13 DEF Suspend, Move, Runs
<1>14. CASE Resume(r)
  BY <1>14 DEF Resume, LoopFree
<1>15. CASE Commit(r)
  BY <1>15 DEF Commit, Runs, Unlock, Finish
<1>16. CASE CommitFails(r)
  BY <1>16 DEF CommitFails, Runs, Fail, Rollback, Unlock, Finish
<1> QED
  BY <1>1, <1>2, <1>3, <1>4, <1>5, <1>6, <1>7, <1>8,
     <1>9, <1>10, <1>11, <1>12, <1>13, <1>14, <1>15, <1>16 DEF Step

LEMMA AdmissionNext == TypeOK /\ [Next]_vars => Admission
<1> SUFFICES ASSUME TypeOK, [Next]_vars PROVE Admission
  OBVIOUS
<1> USE DEF TypeOK, PcSet, Admission, Holding, Numbering, TailPcs
<1>1. ASSUME NEW r \in Requests, Step(r) PROVE Admission
  BY <1>1, AdmissionStep
<1>2. ASSUME NEW r \in Requests, Tell(r) PROVE Admission
  BY <1>2 DEF Tell
<1>3. ASSUME NEW r \in Requests, NEW p \in Procs, Begin(r, p) PROVE Admission
  BY <1>3 DEF Begin
<1>4. ASSUME NEW p \in Procs, NEW o \in Orders, StaffBegins(p, o)
      PROVE  Admission
  BY <1>4 DEF StaffBegins
<1>5. ASSUME NEW p \in Procs, StaffCommits(p) PROVE Admission
  BY <1>5 DEF StaffCommits
<1>6. ASSUME NEW p \in Procs, Crash(p) PROVE Admission
  BY <1>6 DEF Crash
<1>7. CASE UNCHANGED vars
  BY <1>7 DEF vars
<1> QED
  BY <1>1, <1>2, <1>3, <1>4, <1>5, <1>6, <1>7 DEF Next

LEMMA CommittedNext ==
    TypeOK /\ PhaseInv /\ [Next]_vars =>
        Committed' \subseteq Committed \/ \E r \in Requests : Commit(r)
<1> SUFFICES ASSUME TypeOK, PhaseInv, [Next]_vars,
                    ~(\E r \in Requests : Commit(r))
             PROVE  Committed' \subseteq Committed
  OBVIOUS
<1> USE DEF TypeOK, Committed
<1>1. TableStep
  BY StepOnTable
<1>2. ASSUME NEW r \in Requests, Insert(r) \/ LockLast(r) \/ FlushNumber(r)
      PROVE  Committed' \subseteq Committed
  BY <1>2 DEF Insert, LockLast, FlushNumber
<1>3. ASSUME NEW R \in SUBSET Requests, Withdraw(R)
      PROVE  Committed' \subseteq Committed
  BY <1>3 DEF Withdraw
<1> QED
  BY <1>1, <1>2, <1>3 DEF TableStep

\* The processes with a request let into the slot of r and not committed.
Claimants(r) ==
    {p \in Procs : \E q \in Requests :
        Holding(q) /\ home[q] = p /\ req[q].slot = req[r].slot}

\* Orders in a slot and claims on it together: a claim is made while the slot
\* has room, and a commit turns one claim into one order.
RoomInv ==
    \A r \in Requests :
        req[r].slot # NoSlot =>
            Cardinality(InSlot(r)) + Cardinality(Claimants(r))
                <= SlotCap + Cardinality(Procs) - 1

\* No request changes its process once it has started.
StaysHome == \A r \in Requests : Holding(r)' => home'[r] = home[r]

LEMMA StaysHomeNext == TypeOK /\ [Next]_vars => StaysHome
<1> SUFFICES ASSUME TypeOK, [Next]_vars PROVE StaysHome
  OBVIOUS
<1> USE DEF TypeOK, PcSet, StaysHome, Holding, Numbering, TailPcs
<1>1. ASSUME NEW r \in Requests, Step(r) PROVE StaysHome
  BY <1>1 DEF Step, LookupHit, LookupMiss, Refuse, Accept, Insert,
     InsertConflict, FindLast, LockLast, FlushNumber, FlushConflict, Pay,
     PayFails, Suspend, Resume, Commit, CommitFails, Fail
<1>2. ASSUME NEW r \in Requests, Tell(r) PROVE StaysHome
  BY <1>2 DEF Tell
<1>3. ASSUME NEW r \in Requests, NEW p \in Procs, Begin(r, p) PROVE StaysHome
  BY <1>3 DEF Begin
<1>4. ASSUME NEW p \in Procs, NEW o \in Orders, StaffBegins(p, o)
      PROVE  StaysHome
  BY <1>4 DEF StaffBegins
<1>5. ASSUME NEW p \in Procs, StaffCommits(p) PROVE StaysHome
  BY <1>5 DEF StaffCommits
<1>6. ASSUME NEW p \in Procs, Crash(p) PROVE StaysHome
  BY <1>6 DEF Crash
<1>7. CASE UNCHANGED vars
  BY <1>7 DEF vars
<1> QED
  BY <1>1, <1>2, <1>3, <1>4, <1>5, <1>6, <1>7 DEF Next

LEMMA FiniteCounts ==
    ASSUME IsFiniteSet(Requests), IsFiniteSet(Procs), NEW r \in Requests
    PROVE  /\ IsFiniteSet(InSlot(r)) /\ Cardinality(InSlot(r)) \in Nat
           /\ IsFiniteSet(Claimants(r)) /\ Cardinality(Claimants(r)) \in Nat
           /\ Cardinality(Claimants(r)) <= Cardinality(Procs)
           /\ Cardinality(Procs) \in Nat
<1>1. IsFiniteSet(Orders)
  BY OrdersAssumption, FS_Union DEF Orders
<1>2. IsFiniteSet(InSlot(r))
  BY <1>1, FS_Subset DEF InSlot, Committed
<1>3. /\ IsFiniteSet(Claimants(r))
      /\ Cardinality(Claimants(r)) <= Cardinality(Procs)
  <2>1. Claimants(r) \in SUBSET Procs
    BY DEF Claimants
  <2> QED
    BY <2>1, FS_Subset
<1> QED
  BY <1>2, <1>3, FS_CardinalityType

\* Fewer orders in a slot and fewer claims on it leave the sum smaller.
LEMMA SumShrinks ==
    ASSUME IsFiniteSet(Requests), IsFiniteSet(Procs), NEW r \in Requests,
           InSlot(r)' \subseteq InSlot(r), Claimants(r)' \subseteq Claimants(r)
    PROVE  /\ Cardinality(InSlot(r)') + Cardinality(Claimants(r)')
                 <= Cardinality(InSlot(r)) + Cardinality(Claimants(r))
           /\ Cardinality(InSlot(r)') \in Nat
           /\ Cardinality(Claimants(r)') \in Nat
<1>1. /\ IsFiniteSet(InSlot(r)) /\ IsFiniteSet(Claimants(r))
      /\ Cardinality(InSlot(r)) \in Nat /\ Cardinality(Claimants(r)) \in Nat
  BY FiniteCounts
<1>2. /\ IsFiniteSet(InSlot(r)')
      /\ Cardinality(InSlot(r)') <= Cardinality(InSlot(r))
  BY <1>1, FS_Subset
<1>3. /\ IsFiniteSet(Claimants(r)')
      /\ Cardinality(Claimants(r)') <= Cardinality(Claimants(r))
  BY <1>1, FS_Subset
<1>4. Cardinality(InSlot(r)') \in Nat /\ Cardinality(Claimants(r)') \in Nat
  BY <1>2, <1>3, FS_CardinalityType
<1> QED
  BY <1>1, <1>2, <1>3, <1>4

LEMMA RoomInvNext ==
    ASSUME IsFiniteSet(Requests), IsFiniteSet(Procs), TypeOK, PhaseInv,
           NumInv, LoopsHeld, RoomInv, [Next]_vars
    PROVE  RoomInv'
<1>1. Admission /\ StaysHome
  BY AdmissionNext, StaysHomeNext
<1> SUFFICES ASSUME NEW r \in Requests, req'[r].slot # NoSlot
             PROVE  Cardinality(InSlot(r)') + Cardinality(Claimants(r)')
                       <= SlotCap + Cardinality(Procs) - 1
  BY DEF RoomInv
<1>2. Cardinality(InSlot(r)) + Cardinality(Claimants(r))
         <= SlotCap + Cardinality(Procs) - 1
  BY <1>1 DEF RoomInv, Admission
<1>3. /\ IsFiniteSet(InSlot(r)) /\ Cardinality(InSlot(r)) \in Nat
      /\ IsFiniteSet(Claimants(r)) /\ Cardinality(Claimants(r)) \in Nat
      /\ Cardinality(Procs) \in Nat /\ SlotCap \in Nat
  BY FiniteCounts, BoundsAssumption
<1>4. CASE Committed' \subseteq Committed
  <2>1. InSlot(r)' \subseteq InSlot(r)
    BY <1>1, <1>4 DEF InSlot, Admission
  <2>2. CASE Claimants(r)' \subseteq Claimants(r)
    BY <1>2, <1>3, <2>1, <2>2, SumShrinks
  <2>3. CASE ~(Claimants(r)' \subseteq Claimants(r))
    <3>1. PICK q \in Requests : /\ Holding(q)' /\ ~Holding(q)
                                /\ req[q].slot = req[r].slot
      BY <1>1, <2>3 DEF Claimants, Admission, StaysHome
    <3>2. SlotOpen(q) /\ InSlot(q) = InSlot(r)
      BY <1>1, <3>1 DEF Admission, InSlot
    <3>3. Cardinality(InSlot(r)) < SlotCap
      BY <1>1, <3>1, <3>2 DEF SlotOpen, Admission
    <3>4. /\ IsFiniteSet(InSlot(r)')
          /\ Cardinality(InSlot(r)') <= Cardinality(InSlot(r))
      BY <1>3, <2>1, FS_Subset
    <3>5. /\ IsFiniteSet(Claimants(r)')
          /\ Cardinality(Claimants(r)') <= Cardinality(Procs)
      <4>1. Claimants(r)' \in SUBSET Procs
        BY DEF Claimants
      <4> QED
        BY <4>1, FS_Subset
    <3>6. Cardinality(InSlot(r)') \in Nat /\ Cardinality(Claimants(r)') \in Nat
      BY <3>4, <3>5, FS_CardinalityType
    <3> QED
      BY <1>3, <3>3, <3>4, <3>5, <3>6
  <2> QED
    BY <2>2, <2>3
<1>5. ASSUME NEW q \in Requests, Commit(q)
      PROVE  Cardinality(InSlot(r)') + Cardinality(Claimants(r)')
                <= SlotCap + Cardinality(Procs) - 1
  <2>1. /\ Committed' \subseteq Committed \cup {q}
        /\ UNCHANGED <<req, cancelled, home>>
        /\ pc' = [pc EXCEPT ![q] = "done"]
    BY <1>5 DEF Commit, Finish, Committed, TypeOK
  <2>2. \A x \in Requests : Holding(x)' => Holding(x) /\ x # q
    BY <2>1 DEF Holding, Numbering, TailPcs, TypeOK
  <2>3. CASE req[r].slot = req[q].slot
    <3>1. ASSUME NEW x \in Requests, Holding(x), home[x] = home[q]
          PROVE  x = q
      <4>1. q \in Tail /\ loop[home[q]] = q
        BY <1>5 DEF Commit, Runs, Tail
      <4>2. x \in Tail \/ Running(x)
        BY <3>1 DEF Holding, Running, Numbering, TailPcs, Tail
      <4>3. CASE x \in Tail
        BY <4>1, <4>3, TailSerial DEF SerialTail
      <4>4. CASE Running(x)
        BY <3>1, <4>1, <4>4 DEF LoopsHeld
      <4> QED
        BY <4>2, <4>3, <4>4
    <3>2. home[q] \in Claimants(r)
      BY <1>5, <2>3
         DEF Claimants, Commit, Holding, TailPcs, LoopsHeld
    <3>3. Claimants(r)' \subseteq Claimants(r) \ {home[q]}
      BY <2>1, <2>2, <3>1 DEF Claimants
    <3>4. /\ IsFiniteSet(Claimants(r) \ {home[q]})
          /\ Cardinality(Claimants(r) \ {home[q]})
                = Cardinality(Claimants(r)) - 1
      BY <1>3, <3>2, FS_RemoveElement
    <3>5. /\ IsFiniteSet(Claimants(r)')
          /\ Cardinality(Claimants(r)')
                <= Cardinality(Claimants(r) \ {home[q]})
      BY <3>3, <3>4, FS_Subset
    <3>6. InSlot(r)' \subseteq InSlot(r) \cup {q}
      BY <2>1 DEF InSlot
    <3>7. /\ IsFiniteSet(InSlot(r) \cup {q})
          /\ Cardinality(InSlot(r) \cup {q}) <= Cardinality(InSlot(r)) + 1
      <4>1. /\ IsFiniteSet(InSlot(r) \cup {q})
            /\ \/ Cardinality(InSlot(r) \cup {q}) = Cardinality(InSlot(r))
               \/ Cardinality(InSlot(r) \cup {q})
                     = Cardinality(InSlot(r)) + 1
        BY <1>3, FS_AddElement, Zenon
      <4> QED
        BY <1>3, <4>1
    <3>8. /\ IsFiniteSet(InSlot(r)')
          /\ Cardinality(InSlot(r)') <= Cardinality(InSlot(r) \cup {q})
      BY <3>6, <3>7, FS_Subset
    <3>9. /\ Cardinality(InSlot(r)') \in Nat
          /\ Cardinality(Claimants(r)') \in Nat
          /\ Cardinality(InSlot(r) \cup {q}) \in Nat
      BY <3>5, <3>7, <3>8, FS_CardinalityType
    <3> QED
      BY <1>2, <1>3, <3>4, <3>5, <3>7, <3>8, <3>9
  <2>4. CASE req[r].slot # req[q].slot
    <3>1. InSlot(r)' \subseteq InSlot(r)
      BY <2>1, <2>4 DEF InSlot
    <3>2. Claimants(r)' \subseteq Claimants(r)
      BY <2>1, <2>2 DEF Claimants
    <3> QED
      BY <1>2, <1>3, <3>1, <3>2, SumShrinks
  <2> QED
    BY <2>3, <2>4
<1> QED
  BY <1>4, <1>5, CommittedNext

\* Two processes can both count a slot before either commits (main.py:1243,
\* 1474), but a process has one claim at a time that can reach its commit: the
\* cap is exceeded by at most one order for every process beyond the first.
THEOREM SlotsAreNearlyKept ==
    ASSUME IsFiniteSet(Requests), IsFiniteSet(Procs), Procs # {}
    PROVE  Spec /\ SlotCapHolds => []OverbookedByRaces
<1>1. Init => PhaseInv /\ NumInv /\ LoopsHeld
  BY PhaseInit, NumInit, OrdersAssumption DEF Init, LoopsHeld, Running
<1>2. Init /\ SlotCapHolds => RoomInv
  <2> SUFFICES ASSUME Init, SlotCapHolds,
                      NEW r \in Requests, req[r].slot # NoSlot
               PROVE  Cardinality(InSlot(r)) + Cardinality(Claimants(r))
                         <= SlotCap + Cardinality(Procs) - 1
    BY DEF RoomInv
  <2>1. Claimants(r) = {}
    BY DEF Init, Claimants, Holding, Numbering, TailPcs
  <2>2. Cardinality(Claimants(r)) = 0
    BY <2>1, FS_EmptySet
  <2>3. Cardinality(Procs) \in Nat /\ Cardinality(Procs) # 0
    BY FS_CardinalityType, FS_EmptySet
  <2>4. Cardinality(InSlot(r)) \in Nat /\ Cardinality(InSlot(r)) <= SlotCap
    BY FiniteCounts DEF SlotCapHolds
  <2> QED
    BY <2>2, <2>3, <2>4, BoundsAssumption
<1>3. TypeOK /\ PhaseInv /\ NumInv /\ LoopsHeld /\ RoomInv /\ [Next]_vars
         => PhaseInv' /\ NumInv' /\ LoopsHeld' /\ RoomInv'
  BY PhaseNext, StepOnTable, NumNext, LoopsHeldNext, RoomInvNext
<1>4. RoomInv => OverbookedByRaces
  <2> SUFFICES ASSUME RoomInv, NEW r \in Requests, req[r].slot # NoSlot
               PROVE  Cardinality(InSlot(r)) <= SlotCap + Cardinality(Procs) - 1
    BY DEF OverbookedByRaces
  <2>1. Cardinality(InSlot(r)) + Cardinality(Claimants(r))
           <= SlotCap + Cardinality(Procs) - 1
    BY DEF RoomInv
  <2> QED
    BY <2>1, FiniteCounts, BoundsAssumption
<1> QED
  BY <1>1, <1>2, <1>3, <1>4, TypeCorrect, PTL DEF Spec

----------------------------------------------------------------------------
(* The freeze.                                                             *)

\* A row lock is held from the SELECT ... FOR UPDATE to the end of the
\* transaction, and a status UPDATE holds the loop alone.
LocksInv ==
    /\ \A o \in Orders :
          lock[o] # None => pc[lock[o]] \in {"flush"} \cup TailPcs
    /\ \A p \in Procs : loop[p] = None \/ desk[p] = None

LEMMA LocksStep ==
    ASSUME TypeOK, LocksInv, NEW r \in Requests, Step(r)
    PROVE  LocksInv'
<1> USE OrdersAssumption DEF Orders, TypeOK, PcSet, LocksInv, TailPcs
<1>1. CASE LookupHit(r)
  BY <1>1 DEF LookupHit, Runs, Finish
<1>2. CASE LookupMiss(r)
  BY <1>2 DEF LookupMiss, Move, Runs
<1>3. CASE Refuse(r)
  BY <1>3 DEF Refuse, Runs, Finish
<1>4. CASE Accept(r)
  BY <1>4 DEF Accept, Move, Runs
<1>5. CASE Insert(r)
  BY <1>5 DEF Insert, Move, Runs
<1>6. CASE InsertConflict(r)
  BY <1>6 DEF InsertConflict, Runs, Fail, Rollback, Unlock, Finish
<1>7. CASE FindLast(r)
  BY <1>7 DEF FindLast, Move, Runs
<1>8. CASE LockLast(r)
  BY <1>8 DEF LockLast, Move, Runs
<1>9. CASE FlushNumber(r)
  BY <1>9 DEF FlushNumber, Move, Runs
<1>10. CASE FlushConflict(r)
  BY <1>10 DEF FlushConflict, Runs, Fail, Rollback, Unlock, Finish
<1>11. CASE Pay(r)
  BY <1>11 DEF Pay, Move, Runs
<1>12. CASE PayFails(r)
  BY <1>12 DEF PayFails, Runs, Fail, Rollback, Unlock, Finish
<1>13. CASE Suspend(r)
  BY <1>13 DEF Suspend, Move, Runs
<1>14. CASE Resume(r)
  BY <1>14 DEF Resume, LoopFree
<1>15. CASE Commit(r)
  BY <1>15 DEF Commit, Runs, Unlock, Finish
<1>16. CASE CommitFails(r)
  BY <1>16 DEF CommitFails, Runs, Fail, Rollback, Unlock, Finish
<1> QED
  BY <1>1, <1>2, <1>3, <1>4, <1>5, <1>6, <1>7, <1>8,
     <1>9, <1>10, <1>11, <1>12, <1>13, <1>14, <1>15, <1>16 DEF Step

LEMMA LocksNext == TypeOK /\ PhaseInv /\ LocksInv /\ [Next]_vars => LocksInv'
<1> SUFFICES ASSUME TypeOK, PhaseInv, LocksInv, [Next]_vars PROVE LocksInv'
  OBVIOUS
<1> USE OrdersAssumption DEF Orders, TypeOK, PcSet, LocksInv, TailPcs
<1>1. ASSUME NEW r \in Requests, Step(r) PROVE LocksInv'
  BY <1>1, LocksStep
<1>2. ASSUME NEW r \in Requests, Tell(r) PROVE LocksInv'
  BY <1>2 DEF Tell
<1>3. ASSUME NEW r \in Requests, NEW p \in Procs, Begin(r, p) PROVE LocksInv'
  BY <1>3 DEF Begin, LoopFree
<1>4. ASSUME NEW p \in Procs, NEW o \in Orders, StaffBegins(p, o)
      PROVE  LocksInv'
  BY <1>4 DEF StaffBegins, LoopFree
<1>5. ASSUME NEW p \in Procs, StaffCommits(p) PROVE LocksInv'
  BY <1>5 DEF StaffCommits
<1>6. ASSUME NEW p \in Procs, Crash(p) PROVE LocksInv'
  BY <1>6 DEF Crash, Rollback, Unlock
<1>7. CASE UNCHANGED vars
  BY <1>7 DEF vars
<1> QED
  BY <1>1, <1>2, <1>3, <1>4, <1>5, <1>6, <1>7 DEF Next

\* A frozen process waits, perhaps through others, for an order whose coroutine
\* stands at the await.
FreezeNeedsAwait == Frozen => \E r \in Requests : pc[r] = "await"

\* In a freeze without a suspended coroutine every transaction waited for runs
\* and waits itself, one statement further on each time; behind the second
\* flush there is nothing to wait for.
LEMMA NothingFreezesAlone ==
    ASSUME TypeOK, PhaseInv, LoopsHeld, LocksInv
    PROVE  FreezeNeedsAwait
<1> SUFFICES ASSUME NEW S \in SUBSET Procs, S # {},
                    \A p \in S : \E r \in WaitsFor(p) : home[r] \in S,
                    \A r \in Requests : pc[r] # "await"
             PROVE  FALSE
  BY DEF FreezeNeedsAwait, Frozen
<1>1. ASSUME NEW p \in S, NEW r \in WaitsFor(p), home[r] \in S
      PROVE  /\ r \in Requests /\ pc[r] \in Numbering \cup TailPcs
             /\ loop[home[r]] = r /\ desk[home[r]] = None
  <2>1. r \in Requests /\ stored[r] = "pending"
    BY DEF WaitsFor
  <2>2. pc[r] \in Numbering \cup TailPcs
    BY <2>1 DEF PhaseInv, PhaseOf
  <2>3. loop[home[r]] = r
    BY <2>1, <2>2 DEF LoopsHeld, Running, Numbering, TailPcs
  <2>4. desk[home[r]] = None
    BY <1>1, <2>1, <2>3, OrdersAssumption DEF LocksInv, Orders
  <2> QED
    BY <2>1, <2>2, <2>3, <2>4
<1>2. ASSUME NEW p \in S, NEW r \in WaitsFor(p), home[r] \in S
      PROVE  /\ pc[r] \in {"lock", "flush"}
             /\ \E q \in WaitsFor(home[r]) :
                   /\ home[q] \in S
                   /\ pc[r] = "lock" => pc[q] \in {"flush"} \cup TailPcs
                   /\ pc[r] = "flush" => pc[q] \in TailPcs
  <2>1. /\ r \in Requests /\ pc[r] \in Numbering \cup TailPcs
        /\ loop[home[r]] = r /\ desk[home[r]] = None
    BY <1>1, <1>2
  <2>2. PICK q \in WaitsFor(home[r]) : home[q] \in S
    BY <1>2
  <2>3. /\ q \in Requests /\ stored[q] = "pending"
        /\ \/ pc[r] = "insert"
           \/ pc[r] = "lock" /\ last[r] # None /\ lock[last[r]] = q
           \/ pc[r] = "flush" /\ num[q] = seq[r]
    BY <2>1, <2>2 DEF WaitsFor
  <2>4. pc[r] \in {"lock", "flush"}
    BY <2>1, <2>3 DEF Numbering, TailPcs
  <2>5. ASSUME pc[r] = "lock" PROVE pc[q] \in {"flush"} \cup TailPcs
    <3>1. last[r] \in Orders /\ lock[last[r]] = q /\ q # None
      BY <2>1, <2>3, <2>5, OrdersAssumption DEF TypeOK, Orders
    <3> QED
      BY <3>1 DEF LocksInv
  <2>6. ASSUME pc[r] = "flush" PROVE pc[q] \in TailPcs
    <3>1. num[q] = seq[r] /\ seq[r] \in Nat
      BY <2>1, <2>3, <2>6 DEF TypeOK
    <3>2. num[q] # NoNum
      BY <3>1 DEF NoNum
    <3> QED
      BY <2>3, <3>2 DEF PhaseInv, PhaseOf
  <2> QED
    BY <2>2, <2>4, <2>5, <2>6
<1>3. PICK p \in S : TRUE
  OBVIOUS
<1>4. PICK r \in WaitsFor(p) : home[r] \in S
  OBVIOUS
<1>5. CASE pc[r] = "flush"
  <2>1. PICK q \in WaitsFor(home[r]) : home[q] \in S /\ pc[q] \in TailPcs
    BY <1>2, <1>4, <1>5
  <2>2. pc[q] \in {"lock", "flush"}
    BY <1>2, <1>4, <2>1
  <2> QED
    BY <2>1, <2>2 DEF TailPcs
<1>6. CASE pc[r] = "lock"
  <2>1. PICK q \in WaitsFor(home[r]) :
          home[q] \in S /\ pc[q] \in {"flush"} \cup TailPcs
    BY <1>2, <1>4, <1>6
  <2>2. pc[q] = "flush"
    <3>1. pc[q] \in {"lock", "flush"}
      BY <1>2, <1>4, <2>1
    <3> QED
      BY <2>1, <3>1 DEF TailPcs
  <2>3. PICK x \in WaitsFor(home[q]) : home[x] \in S /\ pc[x] \in TailPcs
    BY <1>2, <1>4, <2>1, <2>2
  <2>4. pc[x] \in {"lock", "flush"}
    BY <1>2, <2>1, <2>3
  <2> QED
    BY <2>3, <2>4 DEF TailPcs
<1> QED
  BY <1>2, <1>4, <1>5, <1>6

\* The event loop freezes only while some order waits for its notification
\* (the await inside the transaction, main.py:1452): without that await no
\* number of processes can block one another for good.
THEOREM FreezeComesFromAwait == Spec => []FreezeNeedsAwait
<1>1. Init => PhaseInv /\ LoopsHeld /\ LocksInv
  BY PhaseInit, OrdersAssumption
     DEF Init, LoopsHeld, Running, LocksInv, Orders
<1>2. TypeOK /\ PhaseInv /\ LoopsHeld /\ LocksInv /\ [Next]_vars
         => PhaseInv' /\ LoopsHeld' /\ LocksInv'
  BY PhaseNext, LoopsHeldNext, LocksNext
<1> QED
  BY <1>1, <1>2, NothingFreezesAlone, TypeCorrect, PTL DEF Spec

----------------------------------------------------------------------------
(* Progress.                                                               *)

\* A greater number has no smaller a quotient: what ORDER BY compares of a
\* number that is printed wider.
LEMMA DivMonotone ==
    ASSUME NEW m \in Nat, NEW n \in Nat, m >= n, NEW d \in Nat \ {0}
    PROVE  m \div d \in Nat /\ n \div d \in Nat /\ m \div d >= n \div d
<1> DEFINE a == m \div d
           b == n \div d
<1>1. a \in Int /\ b \in Int
  OBVIOUS
<1>2. m = d * a + (m % d) /\ 0 <= m % d /\ m % d < d /\ m % d \in Int
  OBVIOUS
<1>3. n = d * b + (n % d) /\ 0 <= n % d /\ n % d < d /\ n % d \in Int
  OBVIOUS
<1> HIDE DEF a, b
<1>4. a >= 0 /\ b >= 0
  <2>1. ASSUME a < 0 PROVE FALSE
    <3>1. a + 1 <= 0
      BY <1>1, <2>1
    <3>2. d * (a + 1) <= 0
      BY <1>1, <3>1
    <3>3. d * (a + 1) = d * a + d
      BY <1>1
    <3> QED
      BY <1>1, <1>2, <3>2, <3>3
  <2>2. ASSUME b < 0 PROVE FALSE
    <3>1. b + 1 <= 0
      BY <1>1, <2>2
    <3>2. d * (b + 1) <= 0
      BY <1>1, <3>1
    <3>3. d * (b + 1) = d * b + d
      BY <1>1
    <3> QED
      BY <1>1, <1>3, <3>2, <3>3
  <2> QED
    BY <1>1, <2>1, <2>2
<1>5. ASSUME a < b PROVE FALSE
  <2>1. a + 1 <= b
    BY <1>1, <1>5
  <2>2. d * (a + 1) <= d * b
    BY <1>1, <2>1
  <2>3. d * (a + 1) = d * a + d
    BY <1>1
  <2> QED
    BY <1>1, <1>2, <1>3, <2>2, <2>3
<1> QED
  BY <1>1, <1>4, <1>5 DEF a, b

\* The printed numbers are in a strict order, whatever their widths.
LEMMA SortsTotal ==
    ASSUME NEW m \in Nat, NEW n \in Nat, m # n
    PROVE  SortsAfter(m, n) \/ SortsAfter(n, m)
<1>1. m \div Radix \in Nat /\ n \div Radix \in Nat
  BY DivMonotone, BoundsAssumption
<1> QED
  BY <1>1, BoundsAssumption DEF SortsAfter

\* And the order is transitive, across the change of width too.
LEMMA SortsTransitive ==
    ASSUME NEW m \in Nat, NEW n \in Nat, NEW k \in Nat,
           SortsAfter(m, n), SortsAfter(n, k)
    PROVE  SortsAfter(m, k)
<1>1. /\ m \div Radix \in Nat /\ n \div Radix \in Nat /\ k \div Radix \in Nat
      /\ m >= n => m \div Radix >= n \div Radix
      /\ n >= k => n \div Radix >= k \div Radix
      /\ k >= m => k \div Radix >= m \div Radix
  BY DivMonotone, BoundsAssumption
<1> DEFINE dm == m \div Radix
           dn == n \div Radix
           dk == k \div Radix
<1>2. /\ m < Rollover /\ n < Rollover => m > n
      /\ m < Rollover /\ ~(n < Rollover) => m > dn
      /\ ~(m < Rollover) /\ n < Rollover => dm >= n
      /\ ~(m < Rollover) /\ ~(n < Rollover) => m > n
      /\ n < Rollover /\ k < Rollover => n > k
      /\ n < Rollover /\ ~(k < Rollover) => n > dk
      /\ ~(n < Rollover) /\ k < Rollover => dn >= k
      /\ ~(n < Rollover) /\ ~(k < Rollover) => n > k
  BY DEF SortsAfter
<1>3. /\ dm \in Nat /\ dn \in Nat /\ dk \in Nat
      /\ m >= n => dm >= dn
      /\ n >= k => dn >= dk
      /\ k >= m => dk >= dm
  BY <1>1
<1>4. Rollover \in Nat
  BY BoundsAssumption
<1>5. IF (m < Rollover) <=> (k < Rollover) THEN m > k
      ELSE IF m < Rollover THEN m > dk ELSE dm >= k
  <2> HIDE DEF dm, dn, dk
  <2> QED
    BY <1>2, <1>3, <1>4
<1> QED
  BY <1>5 DEF SortsAfter

\* The query for the last number finds a row as soon as the day has one.
LEMMA LastOrderExists ==
    ASSUME IsFiniteSet(Requests), PhaseInv, NumInv, Committed # {}
    PROVE  LastOrders # {}
<1> DEFINE Greatest(U, o) == \A q \in U \ {o} : SortsAfter(num[o], num[q])
           Bad == {U \in SUBSET Committed :
                     U # {} /\ ~\E o \in U : Greatest(U, o)}
<1>1. Bad = {}
  <2> SUFFICES ASSUME Bad # {} PROVE FALSE
    OBVIOUS
  <2>1. PICK U \in Bad :
          \A V \in Bad : <<V, U>> \notin StrictSubsetOrdering(Committed)
    <3>1. IsWellFoundedOn(StrictSubsetOrdering(Committed),
                          FiniteSubsetsOf(Committed))
      BY FS_StrictSubsetOrderingWellFounded
    <3>2. IsFiniteSet(Committed)
      <4>1. IsFiniteSet(Orders)
        BY OrdersAssumption, FS_Union DEF Orders
      <4> QED
        BY <4>1, FS_Subset DEF Committed
    <3>3. Bad \subseteq FiniteSubsetsOf(Committed)
      BY <3>2, FS_Subset DEF FiniteSubsetsOf
    <3> HIDE DEF Bad
    <3> QED
      BY <3>1, <3>3, WFMin, Zenon
  <2>2. PICK u \in U : TRUE
    OBVIOUS
  <2> DEFINE V == U \ {u}
  <2>3. V \notin Bad
    <3>1. /\ U \subseteq Committed /\ V \subseteq Committed
          /\ V \subseteq U /\ V # U
      OBVIOUS
    <3>2. <<V, U>> \in StrictSubsetOrdering(Committed)
      BY <3>1 DEF StrictSubsetOrdering
    <3> QED
      BY <2>1, <3>2
  <2>4. CASE V = {}
    <3>1. Greatest(U, u)
      BY <2>4
    <3> QED
      BY <3>1
  <2>5. CASE V # {}
    <3>1. PICK v \in V : Greatest(V, v)
      BY <2>3, <2>5
    <3>2. \A o \in U : num[o] \in Nat /\ o \in Committed
      BY DEF PhaseInv
    <3>3. num[u] # num[v]
      BY <3>1, <3>2 DEF NumInv, NumbersArePrefix
    <3>4. CASE SortsAfter(num[v], num[u])
      <4>1. Greatest(U, v)
        BY <3>1, <3>4
      <4> QED
        BY <3>1, <4>1
    <3>5. CASE SortsAfter(num[u], num[v])
      <4>1. ASSUME NEW q \in U \ {u} PROVE SortsAfter(num[u], num[q])
        <5>1. CASE q = v
          BY <3>5, <5>1
        <5>2. CASE q # v
          <6>1. SortsAfter(num[v], num[q])
            BY <3>1, <4>1, <5>2
          <6> QED
            BY <3>1, <3>2, <3>5, <6>1, SortsTransitive
        <5> QED
          BY <5>1, <5>2
      <4>2. Greatest(U, u)
        BY <4>1
      <4> QED
        BY <4>2
    <3> QED
      BY <3>1, <3>2, <3>3, <3>4, <3>5, SortsTotal
  <2> QED
    BY <2>4, <2>5
<1>2. \E o \in Committed : Greatest(Committed, o)
  BY <1>1
<1> QED
  BY <1>2 DEF LastOrders

\* When the next statement of a request, or the UPDATE of a status, has what
\* it needs: the guards of Step and StaffCommits, spelled out because ENABLED
\* is beyond the provers.
CanStep(r) ==
    \/ /\ Runs(r)
       /\ \/ pc[r] \in {"lookup", "validate", "pay", "notify", "commit"}
          \/ /\ pc[r] = "insert"
             /\ \/ \A o \in Orders : SameKey(o, r) => stored[o] = "absent"
                \/ \E o \in Committed : SameKey(o, r)
          \/ pc[r] = "number" /\ (Committed = {} \/ LastOrders # {})
          \/ pc[r] = "lock" /\ (last[r] = None \/ lock[last[r]] = None)
          \/ /\ pc[r] = "flush"
             /\ \/ \A o \in Orders \ {r} : ~SameNumber(o, seq[r])
                \/ NumberTaken(r)
    \/ pc[r] = "await" /\ LoopFree(home[r])

CanUpdate(p) == desk[p] # None /\ lock[desk[p]] = None

\* Whoever holds a loop and cannot go on waits for a transaction.
LEMMA StandstillWaits ==
    ASSUME IsFiniteSet(Requests), TypeOK, PhaseInv, NumInv, LoopsHeld,
           LocksInv, NEW p \in Procs, ~LoopFree(p), ~CanUpdate(p),
           \A r \in Requests : ~CanStep(r)
    PROVE  WaitsFor(p) # {}
<1>1. CASE desk[p] # None
  <2>1. lock[desk[p]] \in Requests
    BY <1>1 DEF CanUpdate, TypeOK
  <2>2. stored[lock[desk[p]]] = "pending"
    BY <1>1, <2>1, OrdersAssumption
       DEF LocksInv, PhaseInv, PhaseOf, Numbering, TypeOK, Orders
  <2> QED
    BY <1>1, <2>1, <2>2 DEF WaitsFor
<1>2. CASE desk[p] = None
  <2> DEFINE q == loop[p]
  <2>1. q \in Requests /\ q # None /\ home[q] = p /\ Runs(q)
    BY <1>2, OrdersAssumption DEF LoopFree, LoopsHeld, TypeOK, Runs
  <2>2. ~CanStep(q)
    BY <2>1
  <2>3. pc[q] \in {"insert", "lock", "flush"}
    <3>1. pc[q] = "number" => Committed = {} \/ LastOrders # {}
      BY LastOrderExists
    <3>2. pc[q] \in PcSet \ {"new", "await", "done"}
      BY <1>2, <2>1 DEF LoopsHeld, Running, TypeOK
    <3> QED
      BY <2>1, <2>2, <3>1, <3>2 DEF CanStep, PcSet
  <2>4. CASE pc[q] = "insert"
    <3>1. PICK o \in Orders : SameKey(o, q) /\ stored[o] = "pending"
      BY <2>1, <2>2, <2>4 DEF CanStep, TypeOK, Committed
    <3>2. o \in Requests /\ o # q
      BY <3>1 DEF PhaseInv, Orders, SameKey
    <3> QED
      BY <2>1, <2>4, <3>1, <3>2 DEF WaitsFor
  <2>5. CASE pc[q] = "lock"
    <3>1. last[q] # None /\ lock[last[q]] # None
      BY <2>1, <2>2, <2>5 DEF CanStep
    <3>2. last[q] \in Orders /\ lock[last[q]] \in Requests
      BY <2>1, <3>1 DEF TypeOK
    <3>3. stored[lock[last[q]]] = "pending" /\ lock[last[q]] # q
      BY <2>5, <3>1, <3>2
         DEF LocksInv, PhaseInv, PhaseOf, Numbering, TailPcs
    <3> QED
      BY <2>1, <2>5, <3>1, <3>2, <3>3 DEF WaitsFor
  <2>6. CASE pc[q] = "flush"
    <3>1. PICK o \in Orders \ {q} :
            SameNumber(o, seq[q]) /\ o \notin Committed
      BY <2>1, <2>2, <2>6 DEF CanStep, NumberTaken, SameNumber
    <3>2. stored[o] = "pending" /\ num[o] = seq[q]
      BY <3>1 DEF SameNumber, TypeOK, Committed
    <3>3. o \in Requests /\ o # q
      BY <3>1, <3>2 DEF PhaseInv, Orders
    <3> QED
      BY <2>1, <2>6, <3>2, <3>3 DEF WaitsFor
  <2> QED
    BY <2>3, <2>4, <2>5, <2>6
<1> QED
  BY <1>1, <1>2

\* As long as a started request is not answered, some request has a next
\* statement to execute or some status UPDATE can be made, unless processes
\* are frozen.
StandstillIsFreeze ==
    (\E r \in Requests : pc[r] \notin {"new", "done"}) =>
        \/ \E r \in Requests : CanStep(r)
        \/ \E p \in Procs : CanUpdate(p)
        \/ Frozen

LEMMA StandstillFreezes ==
    ASSUME IsFiniteSet(Requests), TypeOK, PhaseInv, NumInv, LoopsHeld,
           LocksInv
    PROVE  StandstillIsFreeze
<1> SUFFICES ASSUME NEW z \in Requests, pc[z] \notin {"new", "done"},
                    \A r \in Requests : ~CanStep(r),
                    \A p \in Procs : ~CanUpdate(p)
             PROVE  Frozen
  BY DEF StandstillIsFreeze
<1> DEFINE S == {p \in Procs : ~LoopFree(p)}
<1>1. ASSUME NEW r \in Requests, pc[r] \notin {"new", "done"}
      PROVE  home[r] \in S
  <2>1. home[r] \in Procs
    BY <1>1 DEF LoopsHeld
  <2>2. CASE pc[r] = "await"
    BY <2>1, <2>2 DEF CanStep
  <2>3. CASE pc[r] # "await"
    <3>1. loop[home[r]] = r /\ r # None
      BY <1>1, <2>3, OrdersAssumption DEF LoopsHeld, Running, Orders
    <3> QED
      BY <2>1, <3>1 DEF LoopFree
  <2> QED
    BY <2>2, <2>3
<1>2. ASSUME NEW p \in S PROVE \E r \in WaitsFor(p) : home[r] \in S
  <2>1. PICK r \in WaitsFor(p) : TRUE
    BY StandstillWaits
  <2>2. r \in Requests /\ stored[r] = "pending"
    BY DEF WaitsFor
  <2>3. pc[r] \notin {"new", "done"}
    BY <2>2 DEF PhaseInv, PhaseOf, Numbering, TailPcs
  <2> QED
    BY <1>1, <2>2, <2>3
<1>3. S \in (SUBSET Procs) \ {{}}
  BY <1>1
<1> QED
  BY <1>2, <1>3 DEF Frozen

\* create_order has one way to hang and no other: whatever locks it and the
\* status updates take, in however many processes, either something can go on
\* or processes are frozen.
THEOREM NoOtherStandstill ==
    ASSUME IsFiniteSet(Requests)
    PROVE  Spec => []StandstillIsFreeze
<1>1. Init => PhaseInv /\ NumInv /\ LoopsHeld /\ LocksInv
  BY PhaseInit, NumInit, OrdersAssumption
     DEF Init, LoopsHeld, Running, LocksInv, Orders
<1>2. TypeOK /\ PhaseInv /\ NumInv /\ LoopsHeld /\ LocksInv /\ [Next]_vars
         => PhaseInv' /\ NumInv' /\ LoopsHeld' /\ LocksInv'
  BY PhaseNext, StepOnTable, NumNext, LoopsHeldNext, LocksNext
<1>3. TypeOK /\ PhaseInv /\ NumInv /\ LoopsHeld /\ LocksInv
         => StandstillIsFreeze
  BY StandstillFreezes
<1> QED
  BY <1>1, <1>2, <1>3, TypeCorrect, PTL DEF Spec

----------------------------------------------------------------------------
(* The first number that is printed wider.                                 *)

\* No number of the day is beyond the first one that is printed wider.
DayFits == \A o \in Committed : num[o] <= Rollover

\* The inductive invariant: nobody takes the wider number for the last one.
StuckInv ==
    /\ DayFits
    /\ \A r \in Requests :
          /\ pc[r] = "lock" => last[r] = None \/ num[last[r]] < Rollover
          /\ pc[r] \in {"flush"} \cup TailPcs => seq[r] <= Rollover

\* The number before it sorts after it, and by NumbersArePrefix is in the table.
LEMMA LastIsBelow ==
    ASSUME Rollover \div Radix < Rollover - 1, PhaseInv, NumInv, DayFits,
           NEW l \in LastOrders
    PROVE  num[l] < Rollover
<1>1. /\ l \in Committed /\ num[l] \in Nat /\ num[l] <= Rollover
      /\ \A q \in Committed \ {l} : SortsAfter(num[l], num[q])
  BY DEF LastOrders, PhaseInv, DayFits
<1>2. Rollover \in Nat \ {0}
  BY BoundsAssumption
<1>3. ASSUME num[l] = Rollover PROVE FALSE
  <2>1. PICK q \in Committed : num[q] = Rollover - 1
    BY <1>1, <1>2, <1>3 DEF NumInv, NumbersArePrefix
  <2>2. SortsAfter(Rollover, Rollover - 1)
    BY <1>1, <1>2, <1>3, <2>1
  <2>3. Rollover \div Radix \in Int
    BY <1>2, BoundsAssumption
  <2> QED
    BY <1>2, <2>2, <2>3 DEF SortsAfter
<1> QED
  BY <1>1, <1>2, <1>3

LEMMA StuckStep ==
    ASSUME Rollover \div Radix < Rollover - 1,
           TypeOK, PhaseInv, NumInv, StuckInv, NEW r \in Requests, Step(r)
    PROVE  StuckInv'
<1> USE OrdersAssumption, BoundsAssumption
    DEF Orders, TypeOK, PcSet, StuckInv, DayFits, Committed, TailPcs
<1>1. CASE LookupHit(r)
  BY <1>1 DEF LookupHit, Runs, Finish
<1>2. CASE LookupMiss(r)
  BY <1>2 DEF LookupMiss, Move, Runs
<1>3. CASE Refuse(r)
  BY <1>3 DEF Refuse, Runs, Finish
<1>4. CASE Accept(r)
  BY <1>4 DEF Accept, Move, Runs
<1>5. CASE Insert(r)
  BY <1>5 DEF Insert, Move, Runs
<1>6. CASE InsertConflict(r)
  BY <1>6 DEF InsertConflict, Runs, Fail, Rollback, Unlock, Finish, PhaseInv,
              PhaseOf
<1>7. CASE FindLast(r)
  <2>1. last'[r] = None \/ num[last'[r]] < Rollover
    BY <1>7, LastIsBelow DEF FindLast
  <2> QED
    BY <1>7, <2>1 DEF FindLast, Move, Runs
<1>8. CASE LockLast(r)
  BY <1>8 DEF LockLast, Move, Runs, PhaseInv, PhaseOf
<1>9. CASE FlushNumber(r)
  BY <1>9 DEF FlushNumber, Move, Runs, PhaseInv, PhaseOf
<1>10. CASE FlushConflict(r)
  BY <1>10 DEF FlushConflict, Runs, Fail, Rollback, Unlock, Finish, PhaseInv,
               PhaseOf
<1>11. CASE Pay(r)
  BY <1>11 DEF Pay, Move, Runs
<1>12. CASE PayFails(r)
  BY <1>12 DEF PayFails, Runs, Fail, Rollback, Unlock, Finish, PhaseInv,
               PhaseOf
<1>13. CASE Suspend(r)
  BY <1>13 DEF Suspend, Move, Runs
<1>14. CASE Resume(r)
  BY <1>14 DEF Resume, LoopFree
<1>15. CASE Commit(r)
  BY <1>15 DEF Commit, Runs, Unlock, Finish, PhaseInv, PhaseOf
<1>16. CASE CommitFails(r)
  BY <1>16 DEF CommitFails, Runs, Fail, Rollback, Unlock, Finish, PhaseInv,
               PhaseOf
<1> QED
  BY <1>1, <1>2, <1>3, <1>4, <1>5, <1>6, <1>7, <1>8,
     <1>9, <1>10, <1>11, <1>12, <1>13, <1>14, <1>15, <1>16 DEF Step

LEMMA StuckNext ==
    ASSUME Rollover \div Radix < Rollover - 1
    PROVE  TypeOK /\ PhaseInv /\ NumInv /\ StuckInv /\ [Next]_vars => StuckInv'
<1> SUFFICES ASSUME TypeOK, PhaseInv, NumInv, StuckInv, [Next]_vars
             PROVE  StuckInv'
  OBVIOUS
<1> USE OrdersAssumption, BoundsAssumption
    DEF Orders, TypeOK, PcSet, StuckInv, DayFits, Committed, TailPcs
<1>1. ASSUME NEW r \in Requests, Step(r) PROVE StuckInv'
  BY <1>1, StuckStep
<1>2. ASSUME NEW r \in Requests, Tell(r) PROVE StuckInv'
  BY <1>2 DEF Tell
<1>3. ASSUME NEW r \in Requests, NEW p \in Procs, Begin(r, p) PROVE StuckInv'
  BY <1>3 DEF Begin
<1>4. ASSUME NEW p \in Procs, NEW o \in Orders, StaffBegins(p, o)
      PROVE  StuckInv'
  BY <1>4 DEF StaffBegins
<1>5. ASSUME NEW p \in Procs, StaffCommits(p) PROVE StuckInv'
  BY <1>5 DEF StaffCommits
<1>6. ASSUME NEW p \in Procs, Crash(p) PROVE StuckInv'
  BY <1>6 DEF Crash, Rollback, PhaseInv, PhaseOf
<1>7. CASE UNCHANGED vars
  BY <1>7 DEF vars
<1> QED
  BY <1>1, <1>2, <1>3, <1>4, <1>5, <1>6, <1>7 DEF Next

\* A day has at most Rollover + 1 orders, those numbered 0 to Rollover (1000 in
\* the code; the hypothesis is then 100 < 999): as soon as "1000" is stored,
\* "999" sorts after it (main.py:1362) and is taken for the last number, so no
\* further order of the day gets a number.
THEOREM DayEndsAtRollover ==
    ASSUME Rollover \div Radix < Rollover - 1
    PROVE  Spec /\ DayFits => []DayFits
<1>1. Init /\ DayFits => PhaseInv /\ NumInv /\ StuckInv
  BY PhaseInit, NumInit DEF Init, StuckInv, TailPcs
<1>2. TypeOK /\ PhaseInv /\ NumInv /\ StuckInv /\ [Next]_vars
         => PhaseInv' /\ NumInv' /\ StuckInv'
  BY PhaseNext, StepOnTable, NumNext, StuckNext
<1>3. StuckInv => DayFits
  BY DEF StuckInv
<1> QED
  BY <1>1, <1>2, <1>3, TypeCorrect, PTL DEF Spec

============================================================================
