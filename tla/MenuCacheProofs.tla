-------------------------- MODULE MenuCacheProofs --------------------------
(***************************************************************************)
(* Proofs about the Redis cache of menu and slots, for any number of       *)
(* requests, processes, versions and changes.                              *)
(***************************************************************************)
EXTENDS MenuCache, TLAPS

----------------------------------------------------------------------------
(* Types.                                                                  *)

LEMMA TypeInit == Init => TypeOK
<1> SUFFICES ASSUME Init PROVE TypeOK
  OBVIOUS
<1>1. 0 \in Revs /\ 1 \in Versions /\ 0 \in 0 .. MaxCrashes
  BY CacheAssumption DEF Revs, Versions
<1>2. born \in [Versions -> Revs \cup {NoData}]
  BY <1>1 DEF Init
<1>3. pc \in [Requests -> Locations]
  BY DEF Init, Locations
<1> QED
  BY <1>1, <1>2, <1>3 DEF Init, TypeOK

LEMMA InstallType ==
    ASSUME TypeOK, NEW v \in Versions, NEW at \in Revs, Install(v, at)
    PROVE  version' \in Versions /\ born' \in [Versions -> Revs \cup {NoData}]
BY DEF TypeOK, Install

\* What installing a version does to the first moments.
LEMMA InstallBorn ==
    ASSUME TypeOK, NEW v \in Versions, NEW at \in Revs, Install(v, at)
    PROVE  /\ version' = v
           /\ born'[v] = IF born[v] = NoData THEN at ELSE born[v]
           /\ \A w \in Versions : w # v => born'[w] = born[w]
BY DEF TypeOK, Install

LEMMA NextVersionType ==
    ASSUME TypeOK, NEW p \in Procs, WriteVersion(p)
    PROVE  refresh[p] + 1 \in Versions
BY CacheAssumption DEF TypeOK, WriteVersion, Versions, NoData

LEMMA TypeStep == ASSUME TypeOK, [Next]_vars PROVE TypeOK'
<1> USE CacheAssumption
    DEF TypeOK, Versions, Revs, NoData, Locations, Done, adminVars,
        requestVars, Goto
<1>1. CASE UNCHANGED vars
  BY <1>1 DEF vars
<1>2. ASSUME NEW r \in Requests, Begin(r) PROVE TypeOK'
  BY <1>2 DEF Begin
<1>3. ASSUME NEW r \in Requests, Hit(r) \/ Miss(r) PROVE TypeOK'
  BY <1>3 DEF Hit, Miss
<1>4. ASSUME NEW r \in Requests,
             Acquire(r) \/ AcquireError(r) \/ AcquireFails(r)
      PROVE  TypeOK'
  BY <1>4 DEF Acquire, AcquireError, AcquireFails
<1>5. ASSUME NEW r \in Requests, Store(r) \/ ComputeFails(r) PROVE TypeOK'
  BY <1>5 DEF Store, ComputeFails
<1>6. ASSUME NEW r \in Requests, Release(r) PROVE TypeOK'
  BY <1>6 DEF Release
<1>7. ASSUME NEW v \in Versions, ExpireLock(v) \/ ExpireEntry(v)
      PROVE  TypeOK'
  BY <1>7 DEF ExpireLock, ExpireEntry
<1>8. ASSUME NEW p \in Procs, Crash(p) PROVE TypeOK'
  <2>1. crashes' \in 0 .. MaxCrashes
    BY <1>8 DEF Crash
  <2>2. pc' \in [Requests -> Locations]
    BY <1>8 DEF Crash
  <2>3. refresh' \in [Procs -> (Versions \ {MaxVersion}) \cup {NoData}]
    BY <1>8 DEF Crash
  <2> QED
    BY <1>8, <2>1, <2>2, <2>3 DEF Crash
<1>9. ASSUME NEW p \in Procs, ReadVersion(p) PROVE TypeOK'
  BY <1>9 DEF ReadVersion
<1>12. ASSUME NEW p \in Procs, WriteVersion(p) PROVE TypeOK'
  <2>1. version' \in Versions /\ born' \in [Versions -> Revs \cup {NoData}]
    BY <1>12, InstallType, NextVersionType DEF WriteVersion
  <2> QED
    BY <1>12, <2>1 DEF WriteVersion
<1>10. CASE Change
  BY <1>10 DEF Change
<1>11. CASE SaveForm
  <2>1. rev' \in Revs /\ rev' = rev + 1
    BY <1>11 DEF SaveForm
  <2>2. version' \in Versions /\ born' \in [Versions -> Revs \cup {NoData}]
    BY <1>11, <2>1, InstallType DEF SaveForm
  <2> QED
    BY <1>11, <2>1, <2>2 DEF SaveForm
<1> QED
  BY <1>1, <1>2, <1>3, <1>4, <1>5, <1>6, <1>7, <1>8, <1>9, <1>10, <1>11,
     <1>12
     DEF Next, Proceed

\* Every variable keeps its type; in particular the version never leaves its
\* range, whatever refreshes and forms do with what they read.
THEOREM TypeCorrect == Spec => []TypeOK
BY TypeInit, TypeStep, PTL DEF Spec

----------------------------------------------------------------------------
(* Answers and versions.                                                   *)

\* When a version was first in the row is known of the present version and
\* never changes; nothing is younger than the present.
BornInv ==
    /\ born[version] # NoData
    /\ \A v \in Versions : born[v] <= rev

\* An entry is not older than its version.
EntryInv ==
    \A v \in Versions :
        cache[v] # NoData => born[v] # NoData /\ born[v] <= cache[v]

\* Neither is what a request has in hand.
HandInv ==
    \A r \in Requests :
        pc[r] # "idle" =>
            /\ born[ver[r]] # NoData
            /\ data[r] # NoData => born[ver[r]] <= data[r]
            /\ pc[r] \notin {"release", "failed", "dead"} => data[r] # NoData

VersionInv == BornInv /\ EntryInv /\ HandInv

LEMMA BornInstalls ==
    ASSUME TypeOK, BornInv, NEW v \in Versions, NEW at \in Revs,
           Install(v, at), rev' = at, rev <= at
    PROVE  /\ BornInv'
           /\ \A w \in Versions : born[w] # NoData => born'[w] = born[w]
<1>1. /\ version' = v
      /\ born'[v] = IF born[v] = NoData THEN at ELSE born[v]
      /\ \A w \in Versions : w # v => born'[w] = born[w]
  BY InstallBorn
<1>2. \A w \in Versions : born[w] # NoData => born'[w] = born[w]
  BY <1>1
<1>3. at # NoData /\ at \in Nat /\ rev \in Nat
  BY CacheAssumption DEF Revs, NoData, TypeOK
<1>4. born'[version'] # NoData
  BY <1>1, <1>3
<1>5. ASSUME NEW w \in Versions PROVE born'[w] <= rev'
  <2>1. born[w] \in Nat \cup {NoData} /\ born[w] <= rev
    BY CacheAssumption DEF TypeOK, BornInv, Revs
  <2> QED
    BY <1>1, <1>3, <2>1 DEF NoData
<1> QED
  BY <1>2, <1>4, <1>5 DEF BornInv

\* Versions that were born stay so, and no one is born a second time.
LEMMA BornStep ==
    ASSUME TypeOK, BornInv, [Next]_vars
    PROVE  /\ BornInv'
           /\ \A v \in Versions : born[v] # NoData => born'[v] = born[v]
<1> USE CacheAssumption DEF TypeOK, Versions, Revs, NoData, BornInv
<1>1. CASE UNCHANGED adminVars
  BY <1>1 DEF adminVars
<1>2. ASSUME NEW p \in Procs, Crash(p) \/ ReadVersion(p)
      PROVE  UNCHANGED <<rev, version, born>>
  BY <1>2 DEF Crash, ReadVersion
<1>3. CASE UNCHANGED <<rev, version, born>>
  BY <1>3
<1>4. ASSUME NEW p \in Procs, WriteVersion(p)
      PROVE  /\ BornInv'
             /\ \A v \in Versions : born[v] # NoData => born'[v] = born[v]
  <2>1. Install(refresh[p] + 1, rev) /\ rev' = rev /\ rev <= rev
    BY <1>4 DEF WriteVersion
  <2>2. refresh[p] + 1 \in Versions
    BY <1>4, NextVersionType
  <2> QED
    BY <2>1, <2>2, BornInstalls
<1>5. CASE Change
  <2>1. rev' = rev + 1 /\ version' = version /\ born' = born /\ rev \in Nat
    BY <1>5 DEF Change
  <2>2. \A v \in Versions : born[v] \in Nat \cup {NoData}
    OBVIOUS
  <2> QED
    BY <2>1, <2>2
<1>6. CASE SaveForm
  <2>1. rev' = rev + 1 /\ rev' \in Revs
    BY <1>6 DEF SaveForm
  <2>2. PICK v \in Versions : Install(v, rev + 1)
    BY <1>6 DEF SaveForm
  <2> QED
    BY <2>1, <2>2, BornInstalls
<1>7. ASSUME NEW r \in Requests, Begin(r) \/ Proceed(r) \/ AcquireError(r)
      PROVE  UNCHANGED adminVars
  BY <1>7 DEF Begin, Proceed, AcquireError, Hit, Miss, Acquire, AcquireFails,
              Store, ComputeFails, Release, adminVars
<1>8. ASSUME NEW v \in Versions, ExpireLock(v) \/ ExpireEntry(v)
      PROVE  UNCHANGED adminVars
  BY <1>8 DEF ExpireLock, ExpireEntry, adminVars
<1>9. CASE UNCHANGED vars
  BY <1>9 DEF vars
<1> QED
  BY <1>1, <1>2, <1>3, <1>4, <1>5, <1>6, <1>7, <1>8, <1>9 DEF Next

LEMMA HandsStep ==
    ASSUME TypeOK, VersionInv, [Next]_vars
    PROVE  EntryInv' /\ HandInv'
<1>0. BornInv' /\ \A v \in Versions : born[v] # NoData => born'[v] = born[v]
  BY BornStep DEF VersionInv
<1> USE DEF TypeOK, VersionInv, Revs, NoData, BornInv, EntryInv, HandInv
<1>1. CASE UNCHANGED <<cache, requestVars>>
  BY <1>0, <1>1 DEF requestVars
<1>2. ASSUME NEW r \in Requests, Begin(r) PROVE EntryInv' /\ HandInv'
  BY <1>0, <1>2 DEF Begin, Goto, adminVars
<1>3. ASSUME NEW r \in Requests, Hit(r) PROVE EntryInv' /\ HandInv'
  BY <1>0, <1>3 DEF Hit, Goto, adminVars
<1>4. ASSUME NEW r \in Requests,
             Miss(r) \/ Acquire(r) \/ AcquireFails(r) \/ AcquireError(r)
      PROVE  EntryInv' /\ HandInv'
  BY <1>0, <1>4 DEF Miss, Acquire, AcquireFails, AcquireError, Goto
<1>5. ASSUME NEW r \in Requests, Store(r) PROVE EntryInv' /\ HandInv'
  BY <1>0, <1>5 DEF Store, Goto, adminVars
<1>6. ASSUME NEW r \in Requests, ComputeFails(r) PROVE EntryInv' /\ HandInv'
  BY <1>0, <1>6 DEF ComputeFails, Goto, adminVars
<1>7. ASSUME NEW r \in Requests, Release(r) PROVE EntryInv' /\ HandInv'
  BY <1>0, <1>7 DEF Release, Goto, adminVars
<1>8. ASSUME NEW v \in Versions, ExpireLock(v) PROVE EntryInv' /\ HandInv'
  BY <1>0, <1>8 DEF ExpireLock, requestVars
<1>9. ASSUME NEW v \in Versions, ExpireEntry(v) PROVE EntryInv' /\ HandInv'
  BY <1>0, <1>9 DEF ExpireEntry, requestVars
<1>10. ASSUME NEW p \in Procs, Crash(p) PROVE EntryInv' /\ HandInv'
  BY <1>0, <1>10 DEF Crash, Done
<1>11. CASE \/ Change \/ SaveForm
            \/ \E p \in Procs : ReadVersion(p) \/ WriteVersion(p)
  BY <1>1, <1>11 DEF Change, SaveForm, ReadVersion, WriteVersion
<1>12. CASE UNCHANGED vars
  BY <1>1, <1>12 DEF vars, requestVars
<1> QED
  BY <1>2, <1>3, <1>4, <1>5, <1>6, <1>7, <1>8, <1>9, <1>10, <1>11, <1>12
     DEF Next, Proceed

LEMMA VersionInit == Init => VersionInv
BY CacheAssumption
   DEF Init, VersionInv, BornInv, EntryInv, HandInv, Versions, NoData

LEMMA AnswersAreInHand == TypeOK /\ VersionInv => ServedSinceVersion
BY DEF TypeOK, VersionInv, HandInv, ServedSinceVersion, Revs, NoData

\* No answer is older than its version, for any interleaving of requests,
\* refreshes, forms, expiry and crashes (timefirst_api.py).
THEOREM RaisingTheVersionWorks == Spec => []ServedSinceVersion
<1>1. TypeOK /\ VersionInv /\ [Next]_vars => (TypeOK /\ VersionInv)'
  BY TypeStep, BornStep, HandsStep DEF VersionInv
<1> QED
  BY TypeInit, VersionInit, AnswersAreInHand, <1>1, PTL DEF Spec

----------------------------------------------------------------------------
(* Locks.                                                                  *)

LEMMA LockStep ==
    ASSUME TypeOK, LocksHaveAHolder, [Next]_vars PROVE LocksHaveAHolder'
<1> USE DEF TypeOK, LocksHaveAHolder
<1>1. CASE UNCHANGED <<lock, pc, ver, lost, crashes>>
  BY <1>1
<1>2. ASSUME NEW r \in Requests, Begin(r) \/ Hit(r) \/ Miss(r)
      PROVE  LocksHaveAHolder'
  BY <1>2 DEF Begin, Hit, Miss, Goto
<1>3. ASSUME NEW r \in Requests, Acquire(r) \/ AcquireError(r)
      PROVE  LocksHaveAHolder'
  BY <1>3 DEF Acquire, AcquireError, Goto
<1>4. ASSUME NEW r \in Requests, AcquireFails(r) PROVE LocksHaveAHolder'
  BY <1>4 DEF AcquireFails, Goto
<1>5. ASSUME NEW r \in Requests, Store(r) \/ ComputeFails(r)
      PROVE  LocksHaveAHolder'
  BY <1>5 DEF Store, ComputeFails, Goto
<1>6. ASSUME NEW r \in Requests, Release(r) PROVE LocksHaveAHolder'
  BY <1>6 DEF Release, Goto
<1>7. ASSUME NEW v \in Versions, ExpireLock(v) PROVE LocksHaveAHolder'
  BY <1>7 DEF ExpireLock, requestVars
<1>8. ASSUME NEW v \in Versions, ExpireEntry(v)
      PROVE  UNCHANGED <<lock, pc, ver, lost, crashes>>
  BY <1>8 DEF ExpireEntry, requestVars
<1>9. ASSUME NEW p \in Procs, Crash(p) PROVE LocksHaveAHolder'
  BY <1>9, CacheAssumption DEF Crash
<1>10. CASE \/ Change \/ SaveForm \/ UNCHANGED vars
            \/ \E p \in Procs : ReadVersion(p) \/ WriteVersion(p)
  BY <1>1, <1>10
     DEF Change, SaveForm, ReadVersion, WriteVersion, vars, requestVars
<1> QED
  BY <1>1, <1>2, <1>3, <1>4, <1>5, <1>6, <1>7, <1>8, <1>9, <1>10
     DEF Next, Proceed

\* Without a fault no lock outlives the request that set it, although locks
\* are deleted by whoever is through (timefirst_api.py:596).
THEOREM LocksAreHeld == Spec => []LocksHaveAHolder
<1>1. Init => LocksHaveAHolder
  BY DEF Init, LocksHaveAHolder
<1>2. TypeOK /\ LocksHaveAHolder /\ [Next]_vars
         => (TypeOK /\ LocksHaveAHolder)'
  BY TypeStep, LockStep
<1> QED
  BY TypeInit, <1>1, <1>2, PTL DEF Spec

============================================================================
