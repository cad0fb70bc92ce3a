--------------------------- MODULE OrderCreation ---------------------------
(***************************************************************************)
(* POST /api/orders (app/main.py, create_order) run by one or more server  *)
(* processes against one PostgreSQL database at READ COMMITTED.            *)
(*                                                                         *)
(* A process is one uvicorn worker: one event-loop thread.  create_order   *)
(* is a coroutine whose database calls are synchronous, so between two     *)
(* awaits it holds the loop, also while PostgreSQL makes it wait for       *)
(* another transaction.  Its only await is the staff notification, which   *)
(* stands INSIDE the transaction: the coroutine gives the loop up while    *)
(* it keeps its row lock and its uncommitted rows.                         *)
(*                                                                         *)
(* One step of the model is one database statement, one external call or   *)
(* one hand-over of the loop.  A statement that PostgreSQL would block is  *)
(* an action that is not enabled.                                          *)
(***************************************************************************)
EXTENDS Integers, FiniteSets

CONSTANTS
    Procs,       \* server processes (one; two during a blue/green switch)
    Requests,    \* HTTP requests; a request that creates an order names its row
    Earlier,     \* orders of the day that exist when the model starts
    Kinds,       \* what a request asks for: [key, slot, card]
    NoKey,       \* idempotency_key = NULL
    NoSlot,      \* delivery_mode other than "slot"
    None,        \* nobody, no row
    SlotCap,     \* MenuConfiguration.max_orders_per_slot
    Radix,       \* 10 in the code: base of the printed number
    Rollover,    \* 1000 in the code: first number printed wider than ":03d"
    MaxCrashes   \* bound on process crashes

Orders == Requests \cup Earlier

\* The order number a row has before one is written to it (SQL NULL).
NoNum == -1

ASSUME OrdersAssumption ==
    /\ Requests \cap Earlier = {}
    /\ None \notin Orders /\ None \notin Procs
    /\ IsFiniteSet(Earlier)

ASSUME KindsAssumption ==
    \A k \in Kinds : DOMAIN k = {"key", "slot", "card"} /\ k.card \in BOOLEAN

ASSUME BoundsAssumption ==
    /\ SlotCap \in Nat /\ MaxCrashes \in Nat
    /\ Radix \in Nat \ {0} /\ Rollover \in Nat \ {0}

VARIABLES
    req,        \* [Orders -> Kinds]: what each request (or earlier order) asked
    stored,     \* [Orders -> absent | pending | committed]: the orders table
    num,        \* [Orders -> number written to order_number, or NoNum]
    cancelled,  \* committed orders with status cancelled
    lock,       \* [Orders -> request whose transaction locks the row, or None]
    pc,         \* [Requests -> where create_order stands]
    home,       \* [Requests -> process running it, or None]
    last,       \* [Requests -> row found by the SELECT ... FOR UPDATE, or None]
    seq,        \* [Requests -> next_seq]
    outcome,    \* [Requests -> how the request ended]
    served,     \* [Requests -> order whose id the response carries, or None]
    loop,       \* [Procs -> request that holds the event loop, or None]
    desk,       \* [Procs -> order whose status UPDATE holds the loop, or None]
    told,       \* requests announced to the staff (MAX, SMS)
    payments,   \* requests for which YooKassa holds a payment
    crashes     \* number of process crashes so far

vars == <<req, stored, num, cancelled, lock, pc, home, last, seq, outcome,
          served, loop, desk, told, payments, crashes>>

PcSet == {"new", "lookup", "validate", "insert", "number", "lock", "flush",
          "pay", "notify", "await", "commit", "done"}

Outcomes == {"none", "created", "existing", "refused", "failed", "aborted",
             "lost"}

TypeOK ==
    /\ req \in [Orders -> Kinds]
    /\ stored \in [Orders -> {"absent", "pending", "committed"}]
    /\ num \in [Orders -> Nat \cup {NoNum}]
    /\ cancelled \subseteq Orders
    /\ lock \in [Orders -> Requests \cup {None}]
    /\ pc \in [Requests -> PcSet]
    /\ home \in [Requests -> Procs \cup {None}]
    /\ last \in [Requests -> Orders \cup {None}]
    /\ seq \in [Requests -> Nat]
    /\ outcome \in [Requests -> Outcomes]
    /\ served \in [Requests -> Orders \cup {None}]
    /\ loop \in [Procs -> Requests \cup {None}]
    /\ desk \in [Procs -> Orders \cup {None}]
    /\ told \subseteq Requests
    /\ payments \subseteq Requests
    /\ crashes \in Nat

----------------------------------------------------------------------------
(* The table, as one statement sees it.                                    *)

Committed == {o \in Orders : stored[o] = "committed"}

SameKey(o, r) == o # r /\ req[o].key = req[r].key /\ req[r].key # NoKey

SameNumber(o, n) == num[o] = n /\ stored[o] # "absent"

\* ORDER BY order_number DESC compares the printed numbers as strings: from
\* Rollover on a number is one digit wider, and "999" sorts after "1000".
SortsAfter(m, n) ==
    IF (m < Rollover) <=> (n < Rollover) THEN m > n
    ELSE IF m < Rollover THEN m > n \div Radix
    ELSE m \div Radix >= n

LastOrders ==
    {o \in Committed :
        \A q \in Committed \ {o} : SortsAfter(num[o], num[q])}

\* check_slot_availability counts the committed orders of the slot that are
\* not cancelled; an uncommitted order of another transaction is not seen.
InSlot(r) ==
    {o \in Committed \ cancelled : req[o].slot = req[r].slot}

\* Broken variant: the comparison with the cap lets one order too many in.
SlotOpenOffByOne(r) ==
    req[r].slot = NoSlot \/ Cardinality(InSlot(r)) <= SlotCap

SlotOpen(r) == req[r].slot = NoSlot \/ Cardinality(InSlot(r)) < SlotCap

LoopFree(p) == loop[p] = None /\ desk[p] = None

Runs(r) == home[r] # None /\ loop[home[r]] = r

----------------------------------------------------------------------------
(* Ends of a request.                                                      *)

\* Broken variant: the coroutine ends without giving the loop back.
FinishKeepingLoop(r, how, o) ==
    /\ pc' = [pc EXCEPT ![r] = "done"]
    /\ outcome' = [outcome EXCEPT ![r] = how]
    /\ served' = [served EXCEPT ![r] = o]
    /\ UNCHANGED loop

Finish(r, how, o) ==
    /\ pc' = [pc EXCEPT ![r] = "done"]
    /\ outcome' = [outcome EXCEPT ![r] = how]
    /\ served' = [served EXCEPT ![r] = o]
    /\ loop' = [loop EXCEPT ![home[r]] = None]

\* The transactions of the requests in R end: their row locks are released.
Unlock(R) == lock' = [o \in Orders |-> IF lock[o] \in R THEN None ELSE lock[o]]

\* ROLLBACK of the requests in R: their rows were never there.
Rollback(R) ==
    /\ stored' = [o \in Orders |-> IF o \in R THEN "absent" ELSE stored[o]]
    /\ num' = [o \in Orders |-> IF o \in R THEN NoNum ELSE num[o]]
    /\ Unlock(R)

\* An exception leaves `with SessionLocal.begin()`: rollback, then 500 or 502.
Fail(r, how) ==
    /\ Rollback({r})
    /\ Finish(r, how, None)
    /\ UNCHANGED <<req, cancelled, home, last, seq, desk, told, crashes>>

----------------------------------------------------------------------------
(* create_order, statement by statement.                                   *)

Begin(r, p) ==
    /\ pc[r] = "new" /\ LoopFree(p)
    /\ home' = [home EXCEPT ![r] = p]
    /\ loop' = [loop EXCEPT ![p] = r]
    /\ pc' = [pc EXCEPT ![r] = "lookup"]
    /\ UNCHANGED <<req, stored, num, cancelled, lock, last, seq, outcome,
                   served, desk, told, payments, crashes>>

\* Order.idempotency_key == None is compiled to IS NULL, so a request without
\* a key matches every order without a key.
LookupFound(o, r) == o # r /\ o \in Committed /\ req[o].key = req[r].key

LookupHit(r) ==
    /\ pc[r] = "lookup" /\ Runs(r)
    /\ \E o \in Orders : LookupFound(o, r) /\ Finish(r, "existing", o)
    /\ UNCHANGED <<req, stored, num, cancelled, lock, home, last, seq, desk,
                   told, payments, crashes>>

Move(r, from, to) ==
    /\ pc[r] = from /\ Runs(r)
    /\ pc' = [pc EXCEPT ![r] = to]

LookupMiss(r) ==
    /\ \A o \in Orders : ~LookupFound(o, r)
    /\ Move(r, "lookup", "validate")
    /\ UNCHANGED <<req, stored, num, cancelled, lock, home, last, seq, outcome,
                   served, loop, desk, told, payments, crashes>>

\* 400: slot full or closed, product inactive, zone switched off.
Refuse(r) ==
    /\ pc[r] = "validate" /\ Runs(r)
    /\ Finish(r, "refused", None)
    /\ UNCHANGED <<req, stored, num, cancelled, lock, home, last, seq, desk,
                   told, payments, crashes>>

Accept(r) ==
    /\ SlotOpen(r)
    /\ Move(r, "validate", "insert")
    /\ UNCHANGED <<req, stored, num, cancelled, lock, home, last, seq, outcome,
                   served, loop, desk, told, payments, crashes>>

\* Broken variant: idempotency_key has no unique index.
InsertUnchecked(r) ==
    /\ Move(r, "insert", "number")
    /\ stored' = [stored EXCEPT ![r] = "pending"]
    /\ UNCHANGED <<req, num, cancelled, lock, home, last, seq, outcome,
                   served, loop, desk, told, payments, crashes>>

\* First flush: INSERT.  The unique index on idempotency_key makes it wait for
\* an uncommitted row with the same key, and fail on a committed one.
Insert(r) ==
    /\ \A o \in Orders : SameKey(o, r) => stored[o] = "absent"
    /\ Move(r, "insert", "number")
    /\ stored' = [stored EXCEPT ![r] = "pending"]
    /\ UNCHANGED <<req, num, cancelled, lock, home, last, seq, outcome,
                   served, loop, desk, told, payments, crashes>>

InsertConflict(r) ==
    /\ pc[r] = "insert" /\ Runs(r)
    /\ \E o \in Committed : SameKey(o, r)
    /\ Fail(r, "failed") /\ UNCHANGED payments

\* SELECT ... ORDER BY order_number DESC LIMIT 1 FOR UPDATE first finds the row
\* in the snapshot of the statement ...
FindLast(r) ==
    /\ Move(r, "number", "lock")
    /\ \E o \in LastOrders \cup {None} :
          /\ o = None <=> Committed = {}
          /\ last' = [last EXCEPT ![r] = o]
    /\ UNCHANGED <<req, stored, num, cancelled, lock, home, seq, outcome,
                   served, loop, desk, told, payments, crashes>>

\* Broken variant: the next number is the last one itself.
LockLastOffByOne(r) ==
    /\ Move(r, "lock", "flush")
    /\ IF last[r] = None
       THEN seq' = [seq EXCEPT ![r] = 0] /\ UNCHANGED lock
       ELSE /\ lock[last[r]] = None
            /\ lock' = [lock EXCEPT ![last[r]] = r]
            /\ seq' = [seq EXCEPT ![r] = num[last[r]]]
    /\ UNCHANGED <<req, stored, num, cancelled, home, last, outcome,
                   served, loop, desk, told, payments, crashes>>

\* Broken variant: the first order of a day finds next_seq unset.
LockLastUnset(r) ==
    /\ Move(r, "lock", "flush")
    /\ IF last[r] = None
       THEN seq' = [seq EXCEPT ![r] = NoNum] /\ UNCHANGED lock
       ELSE /\ lock[last[r]] = None
            /\ lock' = [lock EXCEPT ![last[r]] = r]
            /\ seq' = [seq EXCEPT ![r] = num[last[r]] + 1]
    /\ UNCHANGED <<req, stored, num, cancelled, home, last, outcome,
                   served, loop, desk, told, payments, crashes>>

\* Broken variant: a number is skipped.
LockLastSkips(r) ==
    /\ Move(r, "lock", "flush")
    /\ IF last[r] = None
       THEN seq' = [seq EXCEPT ![r] = 0] /\ UNCHANGED lock
       ELSE /\ lock[last[r]] = None
            /\ lock' = [lock EXCEPT ![last[r]] = r]
            /\ seq' = [seq EXCEPT ![r] = num[last[r]] + 2]
    /\ UNCHANGED <<req, stored, num, cancelled, home, last, outcome,
                   served, loop, desk, told, payments, crashes>>

\* ... then waits for the row's lock, and does not look for a newer last row.
LockLast(r) ==
    /\ Move(r, "lock", "flush")
    /\ IF last[r] = None
       THEN seq' = [seq EXCEPT ![r] = 0] /\ UNCHANGED lock
       ELSE /\ lock[last[r]] = None
            /\ lock' = [lock EXCEPT ![last[r]] = r]
            /\ seq' = [seq EXCEPT ![r] = num[last[r]] + 1]
    /\ UNCHANGED <<req, stored, num, cancelled, home, last, outcome,
                   served, loop, desk, told, payments, crashes>>

\* Broken variant: order_number has no unique index.
FlushNumberUnchecked(r) ==
    /\ Move(r, "flush", IF req[r].card THEN "pay" ELSE "notify")
    /\ num' = [num EXCEPT ![r] = seq[r]]
    /\ UNCHANGED <<req, stored, cancelled, lock, home, last, seq, outcome,
                   served, loop, desk, told, payments, crashes>>

\* Second flush: UPDATE writes order_number, under its unique index.
FlushNumber(r) ==
    /\ \A o \in Orders \ {r} : ~SameNumber(o, seq[r])
    /\ Move(r, "flush", IF req[r].card THEN "pay" ELSE "notify")
    /\ num' = [num EXCEPT ![r] = seq[r]]
    /\ UNCHANGED <<req, stored, cancelled, lock, home, last, seq, outcome,
                   served, loop, desk, told, payments, crashes>>

NumberTaken(r) == \E o \in Committed \ {r} : num[o] = seq[r]

FlushConflict(r) ==
    /\ pc[r] = "flush" /\ Runs(r)
    /\ NumberTaken(r)
    /\ Fail(r, "failed") /\ UNCHANGED payments

\* create_yookassa_payment, before the commit "so that it can be rolled back".
Pay(r) ==
    /\ Move(r, "pay", "notify")
    /\ payments' = payments \cup {r}
    /\ UNCHANGED <<req, stored, num, cancelled, lock, home, last, seq, outcome,
                   served, loop, desk, told, crashes>>

\* Broken variant: a failed call to YooKassa is logged and passed over.
PayFailsSilently(r) ==
    /\ Move(r, "pay", "notify")
    /\ UNCHANGED <<req, stored, num, cancelled, lock, home, last, seq, outcome,
                   served, loop, desk, told, payments, crashes>>

\* The call fails, or the payment exists and its answer is lost or has no token.
PayFails(r) ==
    /\ pc[r] = "pay" /\ Runs(r)
    /\ payments' \in {payments, payments \cup {r}}
    /\ Fail(r, "failed")

\* await notify_order_to_staff: the loop goes on to other coroutines.
Suspend(r) ==
    /\ Move(r, "notify", "await")
    /\ loop' = [loop EXCEPT ![home[r]] = None]
    /\ UNCHANGED <<req, stored, num, cancelled, lock, home, last, seq, outcome,
                   served, desk, told, payments, crashes>>

\* Broken variant: the staff are told before the number is written.
TellEarly(r) ==
    /\ pc[r] \in {"flush"} /\ r \notin told
    /\ told' = told \cup {r}
    /\ UNCHANGED <<req, stored, num, cancelled, lock, pc, home, last, seq,
                   outcome, served, loop, desk, payments, crashes>>

Tell(r) ==
    /\ pc[r] = "await" /\ r \notin told
    /\ told' = told \cup {r}
    /\ UNCHANGED <<req, stored, num, cancelled, lock, pc, home, last, seq,
                   outcome, served, loop, desk, payments, crashes>>

Resume(r) ==
    /\ pc[r] = "await" /\ LoopFree(home[r])
    /\ loop' = [loop EXCEPT ![home[r]] = r]
    /\ pc' = [pc EXCEPT ![r] = "commit"]
    /\ UNCHANGED <<req, stored, num, cancelled, lock, home, last, seq, outcome,
                   served, desk, told, payments, crashes>>

Commit(r) ==
    /\ pc[r] = "commit" /\ Runs(r)
    /\ stored' = [stored EXCEPT ![r] = "committed"]
    /\ Unlock({r})
    /\ Finish(r, "created", r)
    /\ UNCHANGED <<req, num, cancelled, home, last, seq, desk, told, payments,
                   crashes>>

\* The connection did not survive the await.
CommitFails(r) ==
    /\ pc[r] = "commit" /\ Runs(r)
    /\ Fail(r, "aborted") /\ UNCHANGED payments

----------------------------------------------------------------------------
(* What else takes the loop or a row lock.                                 *)

\* update_order_status_endpoint on a stored order: a coroutine without await
\* between its SELECT and its UPDATE.
StaffBegins(p, o) ==
    /\ LoopFree(p) /\ o \in Committed \ cancelled
    /\ desk' = [desk EXCEPT ![p] = o]
    /\ UNCHANGED <<req, stored, num, cancelled, lock, pc, home, last, seq,
                   outcome, served, loop, told, payments, crashes>>

StaffCommits(p) ==
    /\ desk[p] # None /\ lock[desk[p]] = None
    /\ cancelled' \in {cancelled, cancelled \cup {desk[p]}}
    /\ desk' = [desk EXCEPT ![p] = None]
    /\ UNCHANGED <<req, stored, num, lock, pc, home, last, seq, outcome,
                   served, loop, told, payments, crashes>>

\* The process dies and is started again: its transactions are rolled back,
\* its clients get no answer, what it told the staff stays told.
Crash(p) ==
    LET R == {r \in Requests : home[r] = p /\ pc[r] # "done"}
    IN  /\ crashes < MaxCrashes
        /\ crashes' = crashes + 1
        /\ Rollback(R)
        /\ pc' = [r \in Requests |-> IF r \in R THEN "done" ELSE pc[r]]
        /\ outcome' =
              [r \in Requests |-> IF r \in R THEN "lost" ELSE outcome[r]]
        /\ loop' = [loop EXCEPT ![p] = None]
        /\ desk' = [desk EXCEPT ![p] = None]
        /\ UNCHANGED <<req, cancelled, home, last, seq, served, told, payments>>

----------------------------------------------------------------------------
(* Specification.                                                          *)

\* The day's earlier orders were numbered 0, 1, 2, ... one by one.
Consecutive(f) ==
    /\ \A d, e \in Earlier : f[d] = f[e] => d = e
    /\ \A e \in Earlier : \A k \in 0 .. f[e] - 1 : \E d \in Earlier : f[d] = k

Init ==
    /\ req \in [Orders -> Kinds]
    /\ \A o, q \in Earlier : ~SameKey(o, q)
    /\ stored = [o \in Orders |->
                    IF o \in Earlier THEN "committed" ELSE "absent"]
    /\ \E f \in [Earlier -> 0 .. Cardinality(Earlier) - 1] :
          /\ Consecutive(f)
          /\ num = [o \in Orders |-> IF o \in Earlier THEN f[o] ELSE NoNum]
    /\ cancelled = {} /\ told = {} /\ payments = {} /\ crashes = 0
    /\ lock = [o \in Orders |-> None]
    /\ pc = [r \in Requests |-> "new"]
    /\ home = [r \in Requests |-> None]
    /\ last = [r \in Requests |-> None]
    /\ seq = [r \in Requests |-> 0]
    /\ outcome = [r \in Requests |-> "none"]
    /\ served = [r \in Requests |-> None]
    /\ loop = [p \in Procs |-> None]
    /\ desk = [p \in Procs |-> None]

\* Everything create_order does once it has been started.
Step(r) ==
    \/ LookupHit(r) \/ LookupMiss(r) \/ Refuse(r) \/ Accept(r)
    \/ Insert(r) \/ InsertConflict(r)
    \/ FindLast(r) \/ LockLast(r) \/ FlushNumber(r) \/ FlushConflict(r)
    \/ Pay(r) \/ PayFails(r)
    \/ Suspend(r) \/ Resume(r) \/ Commit(r) \/ CommitFails(r)

Next ==
    \/ \E r \in Requests : Step(r) \/ Tell(r)
    \/ \E r \in Requests, p \in Procs : Begin(r, p)
    \/ \E p \in Procs, o \in Orders : StaffBegins(p, o)
    \/ \E p \in Procs : StaffCommits(p) \/ Crash(p)

Spec == Init /\ [][Next]_vars

\* The loop runs what is ready and PostgreSQL grants a lock that is free; the
\* ready queue of the loop is first in, first out, so a coroutine whose await
\* is over is not passed over for ever (SF).  Nothing makes a client send a
\* request, the staff press a button or a process crash.
FairSpec ==
    /\ Spec
    /\ \A r \in Requests : WF_vars(Step(r)) /\ SF_vars(Resume(r))
    /\ \A p \in Procs : WF_vars(StaffCommits(p))

----------------------------------------------------------------------------
(* Properties.                                                             *)

\* The transactions that have written their order number: from there on
\* create_order only calls YooKassa and MAX before it commits.
Tail == {r \in Requests : pc[r] \in {"pay", "notify", "await", "commit"}}

\* At most one order in the whole system, all processes together, is between
\* its numbered flush (main.py:1380) and its commit: the row lock and the unique
\* index on order_number serialise order creation across the HTTP calls made
\* inside the transaction.
SerialTail == \A r, q \in Tail : r = q

\* The numbers of the day's stored orders are 0, 1, 2, ... without a gap and
\* without a repetition, whatever is refused, rolled back or crashes on the way
\* (main.py:1351-1375 derives a number only from a committed one).
NumbersArePrefix ==
    \A o \in Committed :
        /\ \A q \in Committed : num[o] = num[q] => o = q
        /\ \A k \in 0 .. num[o] - 1 : \E q \in Committed : num[q] = k

\* What keeps the two properties above: every number in the table, committed
\* or not, is there once, and a number about to be written or written but not
\* committed is 0 or the successor of a committed one.
NumberingInv ==
    /\ \A o, q \in Orders :
          /\ stored[o] # "absent" /\ stored[q] # "absent"
          /\ num[o] = num[q] /\ num[o] # NoNum
          => o = q
    /\ \A r \in Requests :
          pc[r] = "flush" \/ r \in Tail =>
             seq[r] = 0 \/ \E q \in Committed : num[q] = seq[r] - 1

Answered(r) == outcome[r] \in {"created", "existing"}

\* Two requests with one idempotency key are never answered with two orders,
\* and an answered order is in the table for good (main.py:1226-1236, 1332):
\* also when the first is retried while it runs, elsewhere or after a crash.
IdempotentAnswers ==
    \A r \in Requests : Answered(r) =>
        /\ served[r] \in Committed
        /\ req[served[r]].key = req[r].key
        /\ \A q \in Requests :
              Answered(q) /\ SameKey(q, r) => served[q] = served[r]

\* The staff hear of an order before its commit (main.py:1452), but not before
\* the last statement that another order can make fail: an announced order ends
\* up in the table unless its connection or its process dies.
AnnouncedOrdersStand ==
    \A r \in told :
        \/ pc[r] \in {"await", "commit"} \/ r \in Committed
        \/ outcome[r] \in {"aborted", "lost"}

\* A client that was told "created" for a card order has a payment behind it.
CardOrdersArePayable ==
    \A r \in Requests : r \in Committed /\ req[r].card => r \in payments

\* The number race that main.py:1355-1357 says the query avoids: a transaction
\* is about to write a number that a committed order already has.
NoNumberCollision == \A r \in Requests : pc[r] = "flush" => ~NumberTaken(r)

\* max_orders_per_slot bounds the orders of a slot that are not cancelled.
SlotCapHolds ==
    \A r \in Requests :
        req[r].slot # NoSlot => Cardinality(InSlot(r)) <= SlotCap

\* Two processes may both count a slot before either commits.  Still, each of
\* them takes one order at a time from its count to its commit: every process
\* beyond the first adds at most one order to the cap, however many compete.
OverbookedByRaces ==
    \A r \in Requests :
        req[r].slot # NoSlot =>
            Cardinality(InSlot(r)) <= SlotCap + Cardinality(Procs) - 1

\* A request without a key is served its own order, never another client's.
ServedOwnOrder ==
    \A r \in Requests : Answered(r) => served[r] = r \/ SameKey(served[r], r)

\* The open transactions that the operation holding the loop of p waits for.
WaitsFor(p) ==
    {r \in Requests :
        /\ stored[r] = "pending"
        /\ \/ desk[p] # None /\ lock[desk[p]] = r
           \/ LET q == loop[p] IN
              /\ q # None /\ q # r
              /\ \/ pc[q] = "insert" /\ SameKey(r, q)
                 \/ pc[q] = "lock" /\ last[q] # None /\ lock[last[q]] = r
                 \/ pc[q] = "flush" /\ num[r] = seq[q]}

\* Some processes are frozen: the loop of each waits for a transaction that
\* only a loop of theirs could finish.
Frozen ==
    \E S \in (SUBSET Procs) \ {{}} :
        \A p \in S : \E r \in WaitsFor(p) : home[r] \in S

\* The event loop is never frozen by a lock of a coroutine it has suspended.
LoopNeverFreezes == ~Frozen

\* Every request that was started is answered (or lost with its process),
\* unless the event loop freezes: there is no other way for one to hang.
AnsweredUnlessFrozen ==
    \A r \in Requests : (pc[r] # "new") ~> (pc[r] = "done" \/ Frozen)

============================================================================
