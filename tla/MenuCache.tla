----------------------------- MODULE MenuCache -----------------------------
(***************************************************************************)
(* The Redis cache in front of GET /api/menu and GET /api/slots            *)
(* (app/timefirst_api.py): one key of either, with the menu version in it. *)
(*                                                                         *)
(* rev counts whatever changes the answer: edits of products, rules and    *)
(* configuration, an order for a slot, and midnight, which the key does    *)
(* not know of either.  An answer is as old as the oldest thing it was     *)
(* made from, the configuration, which is read with the version.  One step *)
(* is what a handler does between two awaits.  A Redis call may fail at    *)
(* any time; a get may also find its entry expired.                        *)
(***************************************************************************)
EXTENDS Integers, FiniteSets

CONSTANTS
    Requests,       \* requests for the answer
    Procs,          \* server processes
    MaxVersion,     \* bound: menu versions
    MaxRev,         \* bound: changes
    MaxCrashes      \* bound: crashes of processes

NoData == -1
Versions == 1 .. MaxVersion

ASSUME CacheAssumption ==
    /\ MaxVersion \in Nat \ {0}
    /\ MaxRev \in Nat
    /\ MaxCrashes \in Nat

VARIABLES
    rev,        \* number of changes so far
    version,    \* menu_configuration.menu_version
    born,       \* rev when a version was first in the row, or NoData
    cache,      \* the Redis entry of each version's key, or NoData
    lock,       \* whether lock:<key> is set
    pc,         \* where a request is
    home,       \* the process it runs in
    ver,        \* the version it read
    data,       \* rev of the answer it has or makes
    refresh,    \* version read by a process in refresh_menu_cache, or NoData
    lost,       \* whether Redis ever failed to delete a lock
    crashes

vars == <<rev, version, born, cache, lock, pc, home, ver, data, refresh, lost,
          crashes>>

requestVars == <<pc, home, ver, data>>
adminVars == <<rev, version, born, refresh>>

Done == {"answered", "failed", "dead"}
Locations == {"idle", "get", "lock", "again", "compute", "release"} \cup Done

Init ==
    /\ rev = 0
    /\ version = 1
    /\ born = [v \in Versions |-> IF v = 1 THEN 0 ELSE NoData]
    /\ cache = [v \in Versions |-> NoData]
    /\ lock = [v \in Versions |-> FALSE]
    /\ pc = [r \in Requests |-> "idle"]
    /\ home \in [Requests -> Procs]
    /\ ver = [r \in Requests |-> 1]
    /\ data = [r \in Requests |-> NoData]
    /\ refresh = [p \in Procs |-> NoData]
    /\ lost = FALSE
    /\ crashes = 0

----------------------------------------------------------------------------
(* A request.                                                              *)

Goto(r, l) == pc' = [pc EXCEPT ![r] = l]

\* get_menu_config, and the key made from the version.
Begin(r) ==
    /\ pc[r] = "idle"
    /\ Goto(r, "get")
    /\ ver' = [ver EXCEPT ![r] = version]
    /\ data' = [data EXCEPT ![r] = rev]
    /\ UNCHANGED <<adminVars, cache, lock, home, lost, crashes>>

\* Broken variant: a key without the version finds what any version left.
HitAny(r) ==
    /\ pc[r] \in {"get", "again"}
    /\ \E v \in Versions :
          /\ cache[v] # NoData
          /\ data' = [data EXCEPT ![r] = cache[v]]
    /\ Goto(r, "answered")
    /\ UNCHANGED <<adminVars, cache, lock, home, ver, lost, crashes>>

\* cache_get finds an answer, at first or after the half second of waiting.
Hit(r) ==
    /\ pc[r] \in {"get", "again"}
    /\ cache[ver[r]] # NoData
    /\ data' = [data EXCEPT ![r] = cache[ver[r]]]
    /\ Goto(r, "answered")
    /\ UNCHANGED <<adminVars, cache, lock, home, ver, lost, crashes>>

\* Nothing there, expired, or Redis fails.  Who has waited goes on without
\* the lock.
Miss(r) ==
    /\ \/ pc[r] = "get" /\ Goto(r, "lock")
       \/ pc[r] = "again" /\ Goto(r, "compute")
    /\ UNCHANGED <<adminVars, cache, lock, home, ver, data, lost, crashes>>

\* SET NX EX 10.
Acquire(r) ==
    /\ pc[r] = "lock"
    /\ ~lock[ver[r]]
    /\ lock' = [lock EXCEPT ![ver[r]] = TRUE]
    /\ Goto(r, "compute")
    /\ UNCHANGED <<adminVars, cache, home, ver, data, lost, crashes>>

\* Redis fails, having set the lock or not: the handler goes on as if it had
\* it.
AcquireError(r) ==
    /\ pc[r] = "lock"
    /\ lock' \in {lock, [lock EXCEPT ![ver[r]] = TRUE]}
    /\ Goto(r, "compute")
    /\ UNCHANGED <<adminVars, cache, home, ver, data, lost, crashes>>

\* Broken variant: who does not get the lock tries again.
AcquireFailsAndRetries(r) ==
    /\ pc[r] = "lock"
    /\ lock[ver[r]]
    /\ UNCHANGED vars

AcquireFails(r) ==
    /\ pc[r] = "lock"
    /\ lock[ver[r]]
    /\ Goto(r, "again")
    /\ UNCHANGED <<adminVars, cache, lock, home, ver, data, lost, crashes>>

\* The answer is made and stored, SETEX; or Redis fails.
Store(r) ==
    /\ pc[r] = "compute"
    /\ Goto(r, "release")
    /\ \/ cache' = [cache EXCEPT ![ver[r]] = data[r]]
       \/ UNCHANGED cache
    /\ UNCHANGED <<adminVars, lock, home, ver, data, lost, crashes>>

\* Broken variant: a failure leaves the handler without the finally clause.
ComputeFailsAtOnce(r) ==
    /\ pc[r] = "compute"
    /\ data' = [data EXCEPT ![r] = NoData]
    /\ Goto(r, "failed")
    /\ UNCHANGED <<adminVars, cache, lock, home, ver, lost, crashes>>

\* The answer cannot be made; the lock is released nevertheless.
ComputeFails(r) ==
    /\ pc[r] = "compute"
    /\ data' = [data EXCEPT ![r] = NoData]
    /\ Goto(r, "release")
    /\ UNCHANGED <<adminVars, cache, lock, home, ver, lost, crashes>>

\* Broken variant: a return in the finally clause swallows the failure.
ReleaseAnswersAnyway(r) ==
    /\ pc[r] = "release"
    /\ Goto(r, "answered")
    /\ \/ lock' = [lock EXCEPT ![ver[r]] = FALSE] /\ UNCHANGED lost
       \/ UNCHANGED lock /\ lost' = TRUE
    /\ UNCHANGED <<adminVars, cache, home, ver, data, crashes>>

\* finally: the lock is deleted, whoever set it; or Redis fails.
Release(r) ==
    /\ pc[r] = "release"
    /\ Goto(r, IF data[r] = NoData THEN "failed" ELSE "answered")
    /\ \/ lock' = [lock EXCEPT ![ver[r]] = FALSE] /\ UNCHANGED lost
       \/ UNCHANGED lock /\ lost' = TRUE
    /\ UNCHANGED <<adminVars, cache, home, ver, data, crashes>>

\* The lock's ten seconds are over.
ExpireLock(v) ==
    /\ lock[v]
    /\ lock' = [lock EXCEPT ![v] = FALSE]
    /\ UNCHANGED <<adminVars, cache, requestVars, lost, crashes>>

\* The entry's sixty seconds are over.
ExpireEntry(v) ==
    /\ cache[v] # NoData
    /\ cache' = [cache EXCEPT ![v] = NoData]
    /\ UNCHANGED <<adminVars, lock, requestVars, lost, crashes>>

\* A process dies with its requests; Redis keeps entries and locks.
Crash(p) ==
    /\ crashes < MaxCrashes
    /\ crashes' = crashes + 1
    /\ pc' = [r \in Requests |->
                IF home[r] = p /\ pc[r] \notin Done \cup {"idle"}
                THEN "dead" ELSE pc[r]]
    /\ refresh' = [refresh EXCEPT ![p] = NoData]
    /\ UNCHANGED <<rev, version, born, cache, lock, home, ver, data, lost>>

----------------------------------------------------------------------------
(* Changes.                                                                *)

\* Everything that does not touch the version: products, rules, orders, a
\* new day.
Change ==
    /\ rev < MaxRev
    /\ rev' = rev + 1
    /\ UNCHANGED <<version, born, refresh, cache, lock, requestVars, lost,
                   crashes>>

Install(v, at) ==
    /\ version' = v
    /\ born' = [born EXCEPT ![v] = IF @ = NoData THEN at ELSE @]

\* refresh_menu_cache reads the version and commits the next one.
ReadVersion(p) ==
    /\ refresh[p] = NoData
    /\ version < MaxVersion
    /\ refresh' = [refresh EXCEPT ![p] = version]
    /\ UNCHANGED <<rev, version, born, cache, lock, requestVars, lost, crashes>>

WriteVersion(p) ==
    /\ refresh[p] # NoData
    /\ Install(refresh[p] + 1, rev)
    /\ refresh' = [refresh EXCEPT ![p] = NoData]
    /\ UNCHANGED <<rev, cache, lock, requestVars, lost, crashes>>

\* The form of menu_configuration has the version among its fields, as it
\* was when the form was opened or as somebody typed it.
SaveForm ==
    /\ rev < MaxRev
    /\ rev' = rev + 1
    /\ \E v \in Versions : Install(v, rev + 1)
    /\ UNCHANGED <<refresh, cache, lock, requestVars, lost, crashes>>

----------------------------------------------------------------------------

\* A request that has begun goes on: Redis and the database answer or time
\* out, and the half second of waiting ends.
Proceed(r) == \/ Hit(r) \/ Miss(r) \/ Acquire(r) \/ AcquireFails(r)
              \/ Store(r) \/ ComputeFails(r) \/ Release(r)

Next == \/ \E r \in Requests : Begin(r) \/ Proceed(r) \/ AcquireError(r)
        \/ \E v \in Versions : ExpireLock(v) \/ ExpireEntry(v)
        \/ \E p \in Procs : Crash(p) \/ ReadVersion(p) \/ WriteVersion(p)
        \/ Change
        \/ SaveForm

Spec == Init /\ [][Next]_vars

FairSpec == Spec /\ \A r \in Requests : WF_vars(Proceed(r))

----------------------------------------------------------------------------
(* Properties.                                                             *)

Revs == 0 .. MaxRev

\* Besides the types: only what has failed, or is about to, has no answer.
TypeOK ==
    /\ rev \in Revs
    /\ version \in Versions
    /\ born \in [Versions -> Revs \cup {NoData}]
    /\ cache \in [Versions -> Revs \cup {NoData}]
    /\ lock \in [Versions -> BOOLEAN]
    /\ pc \in [Requests -> Locations]
    /\ home \in [Requests -> Procs]
    /\ ver \in [Requests -> Versions]
    /\ data \in [Requests -> Revs \cup {NoData}]
    /\ refresh \in [Procs -> (Versions \ {MaxVersion}) \cup {NoData}]
    /\ lost \in BOOLEAN
    /\ crashes \in 0 .. MaxCrashes
    /\ \A r \in Requests :
          data[r] = NoData => pc[r] \in {"idle", "release", "failed", "dead"}

\* Raising the version makes old answers unreachable: what a request is
\* answered with, cached or made for it, is not older than the first moment
\* its version was in the row.  (A version that is used again, because the
\* form or a slower refresh put it back, does not get a new first moment.)
ServedSinceVersion ==
    \A r \in Requests :
        pc[r] = "answered" => /\ born[ver[r]] # NoData
                              /\ data[r] >= born[ver[r]]

\* A lock has no owner, and whoever is through deletes it, also another
\* one's; still no lock outlives the request that set it, unless Redis
\* failed to delete it or the process died.
LocksHaveAHolder ==
    \A v \in Versions :
        lock[v] => \/ \E r \in Requests : /\ ver[r] = v
                                          /\ pc[r] \in {"compute", "release"}
                   \/ lost
                   \/ crashes > 0

\* No request waits for ever, whatever happens to locks, Redis and others.
EveryRequestAnswered ==
    \A r \in Requests : pc[r] # "idle" ~> pc[r] \in Done

============================================================================
