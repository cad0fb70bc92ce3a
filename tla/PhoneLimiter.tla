---------------------------- MODULE PhoneLimiter ----------------------------
(***************************************************************************)
(* PhoneRateLimiter (app/main.py): each server process remembers when it   *)
(* let a phone number through and lets it through at most MaxRequests      *)
(* times in a window; now and then it throws old entries away.             *)
(*                                                                         *)
(* A number is never let through twice at the same time (the clock counts  *)
(* microseconds), so a list of times is a set; a number that is not in the *)
(* dictionary has the empty one.  granted is no variable of the code: it   *)
(* is what a limiter that never cleans up would know.                      *)
(***************************************************************************)
EXTENDS Integers, FiniteSets

CONSTANTS
    Phones,
    Procs,
    Window,            \* RATE_LIMIT_WINDOW_SECONDS
    MaxRequests,       \* PHONE_RATE_LIMIT_PER_MINUTE
    CleanupInterval    \* RATE_LIMIT_REQUESTS_PER_WINDOW

ASSUME LimiterAssumption ==
    /\ Window \in Nat \ {0}
    /\ MaxRequests \in Nat
    /\ CleanupInterval \in Nat \ {0}

VARIABLES
    now,         \* the clock
    requests,    \* self.requests of each process
    counter,     \* self._cleanup_counter of each process
    granted      \* when each process let a number through, of the last window

limiterVars == <<now, requests, counter, granted>>

Nothing == [h \in Phones |-> {}]

LimiterInit ==
    /\ now = 0
    /\ requests = [s \in Procs |-> Nothing]
    /\ counter = [s \in Procs |-> 0]
    /\ granted = [s \in Procs |-> Nothing]

\* What of some times lies in the window that ends at a time.
Within(times, at) == {t \in times : at - t < Window}
Recent(times) == Within(times, now)

StillInside(g, at) == [s \in Procs |-> [h \in Phones |-> Within(g[s][h], at)]]

Due(s) == counter[s] + 1 >= CleanupInterval

\* Broken variant: cleaning up forgets every number.
AfterCleanupForgetful(s, later) == IF Due(s) THEN Nothing ELSE requests[s]

\* _cleanup_old_entries, every CleanupInterval-th call; it reads the clock
\* again.
AfterCleanup(s, later) ==
    IF Due(s) THEN [h \in Phones |-> Within(requests[s][h], later)]
    ELSE requests[s]

Before(s, h, later) == Recent(AfterCleanup(s, later)[h])

\* is_allowed; a refused call is not recorded.  The clock may move between
\* the reading of is_allowed and that of the cleaning.
IsAllowed(s, h, allowed) ==
    /\ now' \in IF Due(s) THEN {now, now + 1} ELSE {now}
    /\ allowed = (Cardinality(Before(s, h, now')) < MaxRequests)
    /\ allowed => now \notin granted[s][h]
    /\ counter' = [counter EXCEPT ![s] = IF Due(s) THEN 0 ELSE @ + 1]
    /\ requests' = [requests EXCEPT ![s] =
          [AfterCleanup(s, now') EXCEPT
              ![h] = IF allowed THEN Before(s, h, now') \cup {now}
                     ELSE Before(s, h, now')]]
    /\ granted' = StillInside(IF allowed
                          THEN [granted EXCEPT ![s][h] = @ \cup {now}]
                          ELSE granted, now')

TimePasses ==
    /\ now' = now + 1
    /\ granted' = StillInside(granted, now')
    /\ UNCHANGED <<requests, counter>>

\* The dictionary lives in the memory of the process.
Restart(s) ==
    /\ requests' = [requests EXCEPT ![s] = Nothing]
    /\ counter' = [counter EXCEPT ![s] = 0]
    /\ granted' = [granted EXCEPT ![s] = Nothing]
    /\ UNCHANGED now

LimiterTypeOK ==
    /\ now \in Nat
    /\ requests \in [Procs -> [Phones -> SUBSET Nat]]
    /\ counter \in [Procs -> 0 .. CleanupInterval - 1]
    /\ granted \in [Procs -> [Phones -> SUBSET Nat]]

\* What the limiter forgets never matters: however its cleaning falls, it
\* knows exactly the calls it let through in the last window, and they are
\* never more than MaxRequests, though a cleaning reads the clock later than
\* the call it is part of.
LimiterIsExact ==
    \A s \in Procs, h \in Phones :
        /\ Recent(requests[s][h]) = granted[s][h]
        /\ Cardinality(granted[s][h]) <= MaxRequests

=============================================================================
