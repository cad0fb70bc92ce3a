# SieshKa site: a TLA+ verification of the order system

The repository is a FastAPI site of a restaurant with delivery: a menu, a cart
in the browser, orders stored in PostgreSQL, a staff that works on them from a
MAX Messenger bot or the sqladmin pages, and card payments through YooKassa.
This directory models the parts of it whose correctness depends on the order in
which things happen, or on two pieces of code that must agree. Paths below are
relative to the repository (`src/` in `PROJECT.json`).

## 1. Inventory

| Component | State it keeps | Operations | What makes it hard | What makes it correct | Modules |
|---|---|---|---|---|---|
| Order creation (`app/main.py` `create_order`) | `orders` table, row locks, unique indexes | lookup by key, validate, insert, number, payment, notification, commit | coroutines with blocking SQL, an `await` inside the transaction, two processes during a blue/green switch, crash, retry, YooKassa failing | one order per key, gapless unique numbers, cap per slot, no card order without a payment, no announced order that vanishes, every request answered | `OrderCreation` |
| Status graph (`app/order_status.py`) | none | table of transitions and its check | used in four places | status moves along the graph | `OrderStatus`, `OrderStatusSpec` |
| Order lifecycle (`app/main.py` `max_callback`, `payments_webhook`; `app/admin.py`; `app/payments.py`) | the row: status, payment, YooKassa status; keyboards of MAX messages | status buttons, payment button, payment endpoint, webhook, admin form | read in one statement, write in a later one; a thread for webhooks and for forms; repeated and failing deliveries; answers that overtake each other | no lost confirmation, graph, no one is shown a status that was never reached | `OrderLifecycle` |
| MAX client (`app/max_notify.py`) | messages at MAX | send, edit, answer | remote service that fails or loses its answer | a keyboard shows what the order was or is; ids of messages that arrived are stored | `OrderLifecycle`, `StaffQueue` |
| Staff notifications (`app/notifications.py`) | Redis list `dlq:max` | send to all, push, worker every 60 s | Redis and MAX fail before or after their effect; crash between pop and push; two workers on one list | nobody forgotten, at most five retries, the list empties | `StaffQueue` |
| Time-first core (`app/timefirst_core.py`) | none | windows, slots, availability rules, lead times | midnight, cut-off, rounding, priority of rules | an accepted slot is ahead; available means deliverable | `TimeFirst` |
| Slots and cap (`app/main.py` `check_slot_availability`, `app/timefirst_api.py` `get_available_slots`) | configuration, orders | offer, accept, cancel, configure | two implementations; the configuration changes under orders | both agree; nothing accepted in the past or on a Sunday | `SlotBoard` |
| Catalogue and its admin (`app/admin.py`, `app/main.py`), index page, `/api/menu` | categories, products, rules, page cache of the process | forms, buttons, bulk actions, two CSV imports, two pages | a form clears the cache before it commits in a thread; cyclic parents; three computations of a lead time | recursion ends, pages show what cleared them, index within menu, lead times ordered | `Catalogue` |
| Menu and slot cache (`app/timefirst_api.py`) | Redis values and locks, `menu_version` | get, set, lock, refresh | unowned lock, read-modify-write of the version, edits without a new version | no answer older than its version; every request ends | `MenuCache` |
| Phone limiter (`PhoneRateLimiter`) | timestamps per phone, per process | `is_allowed` | throws entries away now and then, by a clock reading of its own | forgets nothing that counts, lets no more through than it may | `PhoneLimiter`, `Checkout` |
| Cart and checkout (`app/static/js/cart.js`, `app/schemas.py`) | localStorage, undo backup, tabs | add, update, set, remove, clear, undo, submit | a different limit in each operation, a new key per press, tabs share the cart, answers get lost | the server accepts every cart; what leaves the cart was ordered | `Cart`, `Checkout` |
| Menu page in the browser, HTTP shell, SMS, settings, migrations, deployment, `app/telegram.py` | - | - | - | - | section 8 |

How they interact: the browser posts the cart to `create_order`; it calls
YooKassa and the MAX/SMS notification before its transaction commits; staff
press buttons on the MAX message, which call `max_callback` and through it
`update_order_status_endpoint`; the admin list calls the same endpoint; YooKassa
calls `payments_webhook`, which runs `handle_webhook` in a thread and then edits
the MAX messages; sqladmin saves its forms in a thread of its own. The pages are
made from the catalogue, the rules, the configuration and the orders of the day,
through a cache in the process (index) or in Redis (menu, slots). Whom a
notification did not reach goes to the Redis list that a worker in each process
empties.

The process model, on which everything depends: `Dockerfile:49` and
`docker-compose.yml:43` start one uvicorn process, so there is one event-loop
thread; `docker-compose.bluegreen.yml` and `switch.sh` let two processes run at
once for the time of a switch. Database calls are synchronous SQLAlchemy calls
made from coroutines: they hold the event loop, also while PostgreSQL makes them
wait. The hazards that follow from this are listed in `PROJECT.json`.

## 2. Modules

    OrderStatus           pure: the transition table
     |-- OrderStatusSpec      abstract: one status, one edge at a time
     `-- OrderLifecycle       the row and everyone who changes it
          |-- MCOrderLifecycle, OrderLifecycleProofs
    OrderCreation         create_order, the event loop, PostgreSQL's locks
     |-- MCOrderCreation
     `-- OrderCreationProofs      theorems for any number of processes
          `-- OneProcessProofs        theorems for one process
    TimeFirst             pure: slots, windows, availability rules
     `-- SlotBoard            clock, configuration, orders for slots
          |-- MCSlotBoard, SlotBoardProofs
          `-- Catalogue           categories, products, rules, pages
               |-- MCCatalogue (with MCSlotBoard)
               `-- CatalogueProofs (with SlotBoardProofs)
    MenuCache             the Redis cache and the menu version
     `-- MenuCacheProofs
    StaffQueue            notifications, dlq:max and its workers
     `-- StaffQueueProofs
    Cart, PhoneLimiter
     `-- Checkout             both, with tabs, requests and answers
          |-- MCCheckout, CheckoutProofs

The `Broken variant` operators beside some definitions are the definition as a
plausible bug would leave it; no specification uses them. They show that each
property can be violated by the code it is about.

### OrderCreation

One step is one database statement, one external call or one hand-over of the
event loop. `Requests` are HTTP requests; a request that inserts an order names
its row. Correspondence with `create_order` (`app/main.py`):

| Action | Code |
|---|---|
| `Begin` | the coroutine gets the loop and opens its session, 1203-1224 |
| `LookupHit`, `LookupMiss` | query by `idempotency_key`, 1226-1236; a request without a key is compiled to `IS NULL` and matches any order without one |
| `Refuse`, `Accept` | slot, products, zone, minimum sum, 1238-1325; of all the reasons only the slot count (`check_slot_availability`) depends on other orders, the others are one nondeterministic refusal |
| `Insert`, `InsertConflict` | first flush, 1347-1348; the unique index waits for an uncommitted row of the same key and fails on a committed one |
| `FindLast`, `LockLast` | `SELECT ... ORDER BY order_number DESC LIMIT 1 FOR UPDATE`, 1358-1375: under READ COMMITTED the row is found in the statement's snapshot, then its lock is waited for, and no newer row is looked for |
| `FlushNumber`, `FlushConflict` | second flush with `order_number`, 1375-1380 |
| `Pay`, `PayFails` | `create_yookassa_payment`, 1382-1390; a failure may leave a payment at YooKassa |
| `Suspend`, `Tell`, `Resume` | `await notify_order_to_staff`, 1397-1467; the transaction stays open |
| `Commit`, `CommitFails` | end of `with SessionLocal.begin()` |
| `StaffBegins`, `StaffCommits` | `update_order_status_endpoint`, the other coroutine that takes the loop and then waits for a row lock; it may cancel the order |
| `Crash` | the process dies and restarts; PostgreSQL rolls its transactions back |

A statement that PostgreSQL would block is an action that is not enabled while
its coroutine holds the loop (`loop[p]`); that is how a blocked SQL call stops a
whole process. `Frozen` says that some processes wait for transactions only they
could finish. PostgreSQL does not detect it: the wait of the suspended
transaction for its own event loop is outside its wait graph, and no
`lock_timeout` is configured, so it lasts until the process is restarted
(`Crash`).

### OrderLifecycle

The row has the four columns the handlers decide on. Every writer reads it in one
step (`SelectStatus`, `SelectToggle`, `SelectPayment`, `ReadOrder`,
`ValidateForm`) and writes it in another (`CommitStatus`, `CommitToggle`,
`CommitPayment`, `CommitWebhook`, `CommitForm`); between the two the other
threads, or other processes, may commit. `Changes` and `Save` are SQLAlchemy's
unit of work: an UPDATE has only the columns whose values differ from those read.
Loop handlers of one process exclude each other (`cur[p]`); webhooks and forms run
in threads and do not. `AnswerStatus` and `AnswerToggle` put an answer on its way
to MAX, which applies answers in any order (`ApplyAnswer`) or never (`LoseAnswer`).
`FetchPayment` to `EditMessage` is one delivery of the webhook, `HookFails` any of
its failures, after which YooKassa delivers again.

`OrderStatusSpec` is what a reader of `order_status.py` and of the diagram in
`QUICK_REFERENCE.md` expects. `StatusGraph` states that `OrderLifecycle`
implements it, with `status <- row.status`.

### TimeFirst and SlotBoard

`TimeFirst` has the functions of `timefirst_core.py` as operators. A date is a
number of days (day 0 a Monday), a time of day a number of minutes; `now` keeps
its seconds and microseconds, because the code compares full datetimes with
whole minutes (`UpToMinute`, `IsPast`) and rounds them up to the grid. The
rounding is the code's down to its constant: `ceil_to_interval` takes
microseconds by the thousand as if a second had 60 000 of them
(`CeilToInterval`).

A rule carries `allow_tomorrow` and `tomorrow_cutoff`, which its model documents as
the "latest time to order for tomorrow" (`app/availability_models.py:30`, 61-66)
and the admin form offers (`app/admin.py:1544-1545`). `convert_to_core_rule` hands
both over (`app/timefirst_core.py:56-57`) and nothing reads them: only the cut-off of
the menu configuration counts. The rules of the model have them as `tomorrow` and
`cutoff`, and `CheckAvailability` ignores them like the code; a rule's `timezone`
is not even handed over.

`SlotBoard` composes them with a clock, the row of `menu_configuration` and the
orders of slots, and has both users of the grid: `Offered` is
`GET /api/slots` (one grouped count), `CheckSlot` is `check_slot_availability`
of `create_order` (its own count of one slot, and the rule that any date after
today is checked on the grid of tomorrow).

| Action | Code |
|---|---|
| `Tick` | time passes |
| `PlaceOrder` | `check_slot_availability` and the insert, `app/main.py` 839-887; one step here, `OrderCreation` has what comes in between |
| `CancelOrder` | an order leaves the count, `app/main.py` 879, `app/timefirst_api.py` 350 |
| `SaveConfig` | the form of `menu_configuration` and the default row, `app/timefirst_api.py` `get_menu_config` |

### Catalogue

Extends `SlotBoard` by categories, products, availability rules and the two
pages made of them. `Level` is the recursion of `get_menu` over
`category.children`, `Chain` its climb to the rules of the categories above;
`Availability` is `check_availability` on those rules. `IndexLead`, `MenuLead`
and `OrderLead` are the three places that compute the lead time of a product.

| Action | Code |
|---|---|
| `SendCategory`, `SendProduct`, `SendDeletion` | `on_model_change`/`on_model_delete` clear the page cache, `app/admin.py`; the row the form was read from is remembered |
| `CommitCategory`, `CommitProduct`, `CommitDeletion`, `FormFails` | sqladmin's commit in a thread; unit of work, foreign keys, `parent_id` set to NULL below a deleted category |
| `ToggleActive`, `BulkActivate`, `BulkDeactivate`, `BulkMove` | commit, then clear, on the event loop |
| `ImportApi`, `ImportAdmin` | the two CSV imports, which differ in what they look up, refuse and clear |
| `SaveRule`, `DeleteRule`, `ChangeDaypart`, `ChangeMethods`, `EditConfig` | availability admin and the two quick-change endpoints |
| `OpenIndex` | `GET /` with its cache of 60 s |
| `ClockTicks`, `OrderPlaced`, `OrderCancelled` | the actions of `SlotBoard`; pages expire |

A catalogue is edited, orders are placed and pages opened in any interleaving.
Every step is a step of `SlotBoard` or leaves its variables alone, which
`BoardIsImplemented` proves; so what holds of the board holds of the shop.

### MenuCache

One key of `/api/menu` or `/api/slots`. `rev` counts everything an answer
depends on, so the age of an answer is a number; what the answer says is the
subject of `Catalogue` and `SlotBoard`. A step is what a handler does between two
awaits; a Redis call may fail at any of them.

| Action | Code (`app/timefirst_api.py`) |
|---|---|
| `Begin` | `get_menu_config` and the key made of the version |
| `Hit`, `Miss` | `cache_get`, at first and after the wait |
| `Acquire`, `AcquireFails`, `AcquireError` | `SET NX EX 10`; an error counts as acquired |
| `Store`, `ComputeFails`, `Release` | the answer, `SETEX 60`, `finally: delete(lock)` |
| `ExpireLock`, `ExpireEntry`, `Crash` | Redis and the process |
| `ReadVersion`, `WriteVersion` | `refresh_menu_cache`, 599-617: read, add one, commit, without a lock |
| `SaveForm` | the configuration form, which has `menu_version` among its fields |
| `Change` | every other edit |

### StaffQueue

`Notify`, `SendFirst`, `Gathered`, `PushFailed`, `Notified` are
`notify_order_to_staff`; `Wake`, `Pop`, `PopNothing`, `Drop`, `Retry`,
`PushBack` are `_dlq_worker`. A call of MAX ends in one of three ways: it returns
an id, the message arrives without one, or it does not arrive. Faults are steps
of their own, at most `MaxFaults`: `SmsRaises` and `MaxRaises` (the exceptions
the clients let through, which end the `gather`), `PushError`, `PopError`,
`PushBackError` (Redis raises, with or without effect), `RetryRaises` (the send
raises; the push of the code's `except` puts the entry back or fails as well),
`Crash`.
`tries`, `arrived` and `unsure` count what happened and decide nothing.

### Cart, PhoneLimiter and Checkout

`Cart` has the operations of `cart.js` on the stored cart, each with its own
limits; `PhoneLimiter` has `is_allowed` with its cleaning at every hundredth
call, for which the code reads the clock again: `now` may move in such a call, and
the cleaning goes by the later time. `granted` decides nothing: it is what a limiter
that never cleans would know of the last window.
`Checkout` puts them together: tabs of one browser press the button (`Submit`),
the body is validated as in `app/schemas.py`, the limiter asked, and the order
stored or refused (`CreateOrder`); the answer empties the cart (`Answered`),
is an error (`Refused`) or gets lost (`ConnectionLost`). `OtherOrder` is an order
from another browser, of which only the call of the limiter matters. Since every press has a
new idempotency key, `create_order` is here just a choice between stored and
refused; `IdempotentAnswers` of `OrderCreation` is what makes that sound.

## 3. Runs

Invariants and properties are explained at their definitions.

| Run | Question | Result |
|---|---|---|
| `order_creation` | two processes, three requests, two kinds of them for one slot with cap 1, one earlier order, one crash | `SerialTail`, `NumbersArePrefix`, `IdempotentAnswers`, `CardOrdersArePayable`, `AnnouncedOrdersStand`, `OverbookedByRaces` hold |
| `order_single_process` | one process, three requests for one slot with cap 1 | `TypeOK`, `SlotCapHolds`, `NoNumberCollision` hold; `AnsweredUnlessFrozen` holds under fairness |
| `order_number_race` | two processes: is a number ever produced twice? | `NoNumberCollision` is violated |
| `event_loop_freeze` | one process: can the event loop block for ever? | `LoopNeverFreezes` is violated |
| `order_lifecycle` | handlers, webhook and form race on a cash or card order | `TypeOK`, `ConfirmationSurvives`, `OffGraphExplained`, `PaymentReachesOrder` hold |
| `order_buttons` | two members of staff on a cash or SBP order, answers overtake | `NobodyIsAhead` holds, `StatusGraph` (refinement) holds |
| `webhook_status` | a card order that is paid while the staff work on it | `StatusGraph` is violated |
| `catalogue` | edits, orders and pages over a Friday, midnight and a Saturday | `SlotsAgree`, `OrdersAreAhead`, `SundaysStayFree`, `PreorderOpensAhead` (the board), `MenuRecursionEnds`, `IndexWithinMenu`, `AvailableMeansDeliverable`, `LeadsOrdered` (the menu), `PagesShowEdits`, `DuplicatesComeFromOneFile` (the edits) and `TypeOK` hold |
| `past_slots` | is a slot that has passed ever accepted? | `AcceptedSlotIsAhead` is violated |
| `menu_cache` | two requests, two processes, versions raised and put back | `TypeOK`, `ServedSinceVersion`, `LocksHaveAHolder` hold, `EveryRequestAnswered` under fairness |
| `staff_queue` | one notice to two people, two workers, two faults | `TypeOK`, `NobodyIsForgotten`, `AttemptsBounded`, `SavedIdsAreKnown` hold, `EveryEntrySettles` under fairness |
| `checkout` | two tabs, three products, two phones, limits of 2, a limiter of one call in a window of 2 | `CheckoutTypeOK`, `CartCanBeOrdered`, `LimiterIsExact`, `OrderedOnce` hold |

The passing runs are exhaustive within their bounds (208 thousand to 3 million distinct
states, one to three minutes each).

What the four violations show:

1. **Number race** (`app/main.py:1364`). Two transactions find the same last row;
   the second waits for its lock, and after the first has committed goes on with
   the row it found. The comment at 1355-1357 says that the query avoids the
   `UniqueViolation`; the unique index catches it and the client gets a 500. No
   wrong number is ever stored (`NumbersArePrefix`).
2. **Event-loop freeze** (`app/main.py:1452`). The first order of a process waits
   for MAX with its locks held; the second runs into one of them (the last row, or,
   for the first order of a day, the unique index) and blocks the only thread. It
   takes two orders within the duration of one notification, and no second
   process. A status button on the locked row does the same.
3. **Webhook against the graph** (`app/payments.py:174`). An order cancelled while
   its payment is in progress is accepted again when it succeeds.

4. **Past slots near midnight** (`app/main.py:863`, `app/timefirst_core.py:211`).
   Within one interval of midnight "now" is rounded up into the next day, and the
   grid is compared on that day's date: every slot of the day that is ending is
   in the future and accepted. `OrdersAreAhead` is what remains true: outside
   that interval an order leaves at least the buffer.

What the passing runs say that the code does not show at once, apart from the
order modules:

* What the menu calls available at a slot the page offers can be ordered for it
  (`AvailableMeansDeliverable`): the order's own check takes the slot, the day is no
  Sunday, the buffer is left and a rule serves it. A slot alone, which `/api/menu`
  takes from the query as it comes, promises less: without it on the board,
  "available" is only a statement about rules. And what a rule says about tomorrow
  is no part of it (section 2, `TomorrowFieldsUnread`): a product with
  `allow_tomorrow` off is available tomorrow.
* Cycles of categories can be saved (the check of `CategoryAdmin` looks for a
  field the form does not have), but they hang nothing: a cycle has no root, and
  `get_menu` starts at the roots (`MenuRecursionEnds`).
* A page made between the clearing and the commit of a form keeps the old rows
  for a minute; the buttons, bulk actions and `import-csv` do not have that gap
  (`PagesShowEdits`).
* The three lead times differ, but only to the safe side (`LeadsOrdered`): an
  order is never promised with more than the pages show. The menu alone may show
  a negative one, which no form refuses (`app/admin.py:1572`); the others count
  it as none.
* A lock deleted by a request it does not belong to costs a second computation
  and nothing else (`ServedSinceVersion`, `EveryRequestAnswered`).
* Without faults a notification is neither lost nor repeated beyond the code's
  own count; each of the guarantees ends with the first crash between pop and
  push, which is why they are stated for `faults = 0`, and only `EveryEntrySettles`
  is not.
* No sequence of adding, clearing, undoing and switching tabs makes a cart the
  schema refuses (`CartCanBeOrdered`), although each operation checks another
  limit.

## 4. Bounds

* Requests: three, because two can race and the third is the one that meets the
  outcome of the race, or retries one of them. Kinds of requests are chosen so that
  two keys, no key, a slot and a card payment occur, and two requests can share a
  key (a retry).
* Procs: one (the deployment) or two (a switch). `SlotCapHolds` and
  `NoNumberCollision` are claimed for one only: with two, statements of different
  transactions interleave, and both can count a slot, or find a last row, before
  either commits. What two do to the cap is `OverbookedByRaces`: one order too
  many, never two (with two processes the model reaches that one).
* Earlier: one or no order, for a day that has begun and one that has not: the two
  branches of the numbering.
* SlotCap 1, so that the cap is reached and can be exceeded; MaxCrashes 1.
* Rollover 1000 and Radix 10 are the code's; the runs stay below Rollover. What
  the string order does above is modelled (`SortsAfter`) and the subject of
  theorem `DayEndsAtRollover`.
* Lifecycle: one webhook delivery and one form at a time against one loop handler
  give every pair and triple of racing writers; a failed delivery is followed by
  another. MaxAnswers 2 is enough for one answer to overtake another.
* Catalogue: the clock shows Friday 10:05:30, 23:50 (past the cut-off, rounding
  into Saturday) and Saturday 06:44:50.9 (pre-order hours, tomorrow a Sunday);
  `past_slots` has two more. Two configurations differ in step, buffer, cap and
  orders for tomorrow. `MaxChanges` 2 commits or orders and `MaxOrders` 1, on a
  category tree of three levels: a cycle, an import over an existing name, a form
  racing a button and an edit between an order and its cancellation all take at
  most two. The rule forms have a window, a lead time and methods, one of them an
  inverted window that is refused; rules of categories allow tomorrow and those of
  products do not, both until 18:00; the files have a repeated name, a known name,
  an empty name and an unknown category. A stored category rule has a negative lead
  time. The cache of the index page is explored
  for requests without a preview only.
* Menu cache: two requests are enough for one to wait, steal or delete the lock
  of the other; two processes race on the version; two versions and two changes
  let a version be raised, put back and raised again; one crash.
* Staff queue: one notice, two people and two workers, `MaxRetries` 2 (5 in the
  code) and two faults, so that a fault can hit the handling of another one.
* Checkout: `QtyMax`, `MaxItems` 2, so that a cart of three products reaches both
  limits; two presses, one of them a repetition or from another tab; one
  backup at a time (`MaxBackups`). The limiter allows one call in a window of 2,
  cleans at every second call, and the clock goes to 2, with any number of calls
  from other browsers: calls are refused, a cleaning finds entries that are older
  than now and still count, of the caller and of another number, drops one that
  goes out of the window between the two clock readings, and entries expire.
* Symmetry is used in `order_creation` (requests, processes) and `checkout`
  (products, tabs, phones), which check invariants only.
* `CHECK_DEADLOCK FALSE` stands where the system may stop: all requests are
  answered, the bounded edits are made, or the process is frozen. The lifecycle
  runs check deadlock.

## 5. Fairness

`OrderCreation!FairSpec`: weak fairness of each step of a started request (the
loop runs what is ready, PostgreSQL grants a free lock, HTTP calls have timeouts),
strong fairness of `Resume` (the ready queue of asyncio is first in, first out,
so others cannot take the loop ahead of a ready coroutine for ever), weak fairness
of the staff endpoint's second half. No fairness of `Begin`, `Crash` or
`StaffBegins`: nobody has to do these. Since a blocked statement is not enabled,
fairness cannot unfreeze a process, which is why the property is
`AnsweredUnlessFrozen`: the freeze is the only way for a request to hang.

`OrderLifecycle!FairSpec`: YooKassa repeats a delivery until it gets a 200, for a
day, so as long as the order does not have the payment's final status a delivery
is made (weak fairness), and a delivery that is tried again and again reads and
commits some time (strong fairness): outages pass within that day. Nothing is
assumed of the staff, of forms or of the customer.

`MenuCache!FairSpec`: weak fairness of `Proceed(r)`, the next step of a request
that has begun: Redis and the database answer or time out, the half second of
waiting ends. None of `ExpireLock`: a request is answered although a lock
stays for ever.

`StaffQueue!FairSpec`: weak fairness of the steps of a notification and of a
worker: asyncio runs what is ready, the HTTP client has a timeout, Redis answers
or raises, a worker wakes up every minute. None of `Notify` or of a good outcome:
MAX may fail for ever. A worker always has a next step (finding the list empty is
one), so weak fairness is enough.

## 6. Proofs

All theorems are for every value of the constants that satisfies the named
assumptions (`OrdersAssumption`, `KindsAssumption`, `OrderAssumption`,
`BoardAssumption`, `CatalogueAssumption`, `CacheAssumption`, `QueueAssumption`,
`CartAssumption`, `LimiterAssumption` and two of the name `BoundsAssumption`):
any number of requests, processes, staff, deliveries, forms; any clock, tree of
categories, files and rules; any limits.

`OrderCreationProofs`:

* `TypeCorrect`, with `PhaseInv`: which fields are set at which `pc` (a numbered
  transaction has `num[r] = seq[r]`, a pending row belongs to a request that has
  inserted and not ended). Without it nothing about the table is inductive.
* `StepOnTable` classifies every step by what it does to the table: insert, lock
  the last row, flush a number, commit, withdraw a set of rows, or nothing. The
  other invariants are proved over these six cases instead of twenty actions.
* `NumbersCorrect` (`NumbersArePrefix`) and its corollary `NumberingHolds`, the
  inductive invariant `NumberingInv` behind it, which no run checks. It says
  numbers in the table are distinct, committed or not, and a number about to be
  written is 0 or the successor of a committed one. A rollback only withdraws
  uncommitted rows, which no number was derived from.
* `TailIsSerial`. Suppose two transactions have written their numbers. They differ;
  the predecessor of the larger is committed, so by the prefix property the
  smaller is a committed number as well, but the uncommitted row of its own
  transaction holds it, and numbers are distinct.
* `AnswersAreIdempotent`, with `KeyInv`: rows of the table with a key have
  different keys, and an answer names a committed row with the request's key.
* `CardOrdersPayable`, `AnnouncementsStand`, from `PayInv` and `ToldInv`, which say
  that no transaction passes `pay` without a payment, and that an announced
  request stands at the await or later or has ended in a named way.
* `SlotsAreNearlyKept` (`OverbookedByRaces`): if the cap of a slot is respected at
  the start, it is never exceeded by more than one order per process beyond the
  first. Counting orders alone is not inductive. `RoomInv` adds the number of
  processes that have a claim on the slot (`Claimants`: a request of theirs has been
  let in and is not committed) and says that the sum stays within the cap plus the
  number of processes less one. An admission finds the orders below the cap, and no
  more than all processes have claims. A commit adds an order and ends its
  process's claim: another request of that process with a claim would have to hold
  the loop, which the committing one does (`LoopsHeld`), or stand at the await, where
  only one transaction of the system can be (`SerialTail`). Finitely many requests
  and processes are assumed, so that there is something to count.
* `FreezeComesFromAwait`: processes are frozen only while some order stands at the
  await of its notification. Suppose none does. Then each frozen process runs a
  transaction that waits for one running in another, and what is waited for is
  always further on: an insert or a row lock waits for a transaction that has the
  row or the lock, a flush for one that has written its number (`LocksInv`), and
  behind the second flush nothing waits. Moving the notification behind the commit
  is therefore enough to remove the freeze of run `event_loop_freeze`.
* `NoOtherStandstill`: as long as a started request is unanswered, some statement
  can be executed (`CanStep`, `CanUpdate`, the guards of `Step` and
  `StaffCommits`) or processes are frozen. It is the safety half of
  `AnsweredUnlessFrozen`, for any number of processes. Besides the locks it needs
  that `FindLast` finds a row as soon as there is one: the printed numbers are in a
  strict order (`SortsTotal`, `SortsTransitive`), also where their width changes,
  and a finite table has a last one (`LastOrderExists`, by well-founded induction
  on finite sets).
* `DayEndsAtRollover`: a day has no order with a number above 1000. The search for
  the last number sorts strings; once "1000" is stored, "999" is found in its place
  (`LastIsBelow`), the next number is 1000 again, and the second flush fails on it.
  This is a limit of the code, not a promise of it.

`OneProcessProofs`, with `Procs = {p}`:

* `OneProcessNumbers`: below a thousand orders a day (`BelowRollover`, a hypothesis
  of the theorem, because above it the string order of numbers goes wrong) no
  number collides. The invariant says that a coroutine between two statements holds
  the only loop (`OneLoop`), so what it knows of the last number is still so when it
  uses it (`LastKnown`).
* `OneProcessSlots`: the cap of a slot holds if the day's earlier orders respect it.
  It is `SlotsAreNearlyKept` for one process, and not because check and commit are
  atomic: the await stands between them. A second request may be counted and let
  in while the first waits; but the first one holds the day's last number
  uncommitted, and by `SerialTail` no other transaction is as far, so none commits
  between the count of an order and its commit. It is the freeze of run
  `event_loop_freeze` that keeps the cap:
  moving the notification behind the commit, without a lock on the slot, must be
  checked against this property again.

`OrderLifecycleProofs`:

* `TypeCorrect`.
* `ConfirmationIsKept` and `OffGraphIsExplained`, from `WriteInv`: the UPDATE a
  handler holds has no column but those it changed, and a status in it is a legal
  successor of the status it read.
* `ButtonsFollowGraph`: with one process, no form and no card payment, every step
  is a step of `OrderStatusSpec` or a stutter: the refinement `StatusGraph`. The
  invariant is `HoldsCurrent`: while the handler writes a status, the row still has
  the one it read and its UPDATE has the new one; while it answers, the row has the
  status of the answer. Without the card method YooKassa has nothing to deliver
  (`WebhooksStayAway`), so there may be any number of webhook threads.
* `NobodyGetsAhead` (`NobodyIsAhead`), with the same hypotheses. `AloneStep` says of
  every step that `HoldsCurrent` stays, that the status moves along the graph and
  that the client is told the present status or nothing; `LeadsAlongGraph` that a
  status that may come before the present one may come before its successors. So
  a keyboard or an answer that is not ahead when it is made never gets ahead,
  whatever overtakes it.

`SlotBoardProofs`:

* `AcceptedOrdersAreAhead` (`OrdersAreAhead`). `RoundingGoesUp` says that rounding
  to the grid never goes back, from `CeilDivCovers` (the quotient rounded up covers
  the dividend) and the constant of the code; `AvailableIsAhead` carries it to a
  slot of `GetSlots`. An order is good when it is placed (`AcceptedIsGood`) and
  keeps what the property reads when others are placed or it is cancelled
  (`OrdersOfAStep`). `NoOrderForSunday` goes along the same lines.
* `BothGridsAgree` (`SlotsAgree`): the count of one slot and the grouped count
  are of the same set (`CountsAgree`); the rest is the case of each target.
* `SlotTypeCorrect`, with `BoardType`.

`CatalogueProofs`:

* `BoardIsImplemented`: the shop implements the board, variable by variable; so
  `BothGridsAgreeInShop` follows from the theorem about the board.
* `OpeningIsAhead` (`PreorderOpensAhead`), `PagesAreFresh` (`PagesShowEdits`, with
  `CountersOK`: no page is newer than the edits).
* `CatalogueTypeCorrect` and `DuplicatesFromOneFile` from `ShopOK`: ids of
  products and rules are unique and below the next new one (`IdsGrow`), references
  are to categories that exist, and a form that waits for its commit holds a row of
  the right type whatever was deleted meanwhile. Two products of one name, the
  later of them from `import-csv`, are of one batch: the name was looked up among
  all committed products. One lemma per kind of commit (`CategoryCommitted`,
  `ProductCommitted`, `DeletionCommitted`, `ProductEdited`, `Imported`,
  `RuleEdited`).
* `MenuRecursionAlwaysEnds` (`MenuRecursionEnds`). A category has one parent, so no
  category is on two levels (`LevelsAreDisjoint`); a level that is not empty has
  one above it that is not (`LevelsWithoutGap`), so if level N
  had one, N the number of categories, the levels 0 to N would have N + 1 different
  ones (`RecursionEnds`). `FiniteHolds` carries the finiteness of the
  tables through every edit.
* `IndexIsWithinMenu`, from `IndexInMenu`: what the index page shows is visible, in
  a category that is reached from a root.
* `AvailableIsDeliverable` (`AvailableMeansDeliverable`). For the slot: what is
  offered is accepted (`SlotsAgree`), and what is accepted is on a grid that leaves
  out Sundays and what is nearer than the buffer (`TakenIsOpen`). For the rule: of
  the rules that apply there is a first by priority (`FirstRuleExists`), and
  `Availability` answers yes only by that rule (`AvailableByRule`,
  `AvailableIsServed`).
* `TomorrowFieldsUnread`: writing anything into `tomorrow` and `cutoff` of any rules
  changes no answer of `CheckAvailability`. The rules that apply are the images of
  those that applied, and the first of the images is the image of the first
  (`FirstOfImage`).
* `LeadsAreOrdered` (`LeadsOrdered`): the menu takes the largest of a finite set of
  leads (`LargestInteger`, `MaxLeadIsLargest`), the order the newest rule's, which is
  in that set (`NewestExists`, `LeadsOfProduct`).

Three of these are about recursive functions or choices from finite sets. The
library's induction theorems take the claim as an operator, which the provers
cannot instantiate; the proofs take a least counterexample instead: of the numbers
(`LeastNumber`, from `WFMin`), or of the subsets of a finite set (`WFMin` with
`FS_StrictSubsetOrderingWellFounded`). `IteratesExist` gives in this way the
function that a recursive definition over `0 .. n` chooses, so that `Level` and
`Chain` satisfy their own equations (`LevelIsDefined`, `ChainHasCategory`).

`MenuCacheProofs`:

* `RaisingTheVersionWorks` (`ServedSinceVersion`), from `VersionInv`: the present
  version has a first moment (`BornInv`); an entry is not older than the first
  moment of its key's version (`EntryInv`), nor is what a request has in hand
  (`HandInv`). No lock occurs in it: the lock saves work, correctness is in the
  key.
* `LocksAreHeld`, `TypeCorrect`.

`StaffQueueProofs`:

* `EverybodyIsRemembered` (`NobodyIsForgotten`) and `AttemptsAreBounded`, from `Core`, which
  holds until the first fault: every pair of a notice and a person is in exactly
  one place, still to be sent, failed, in the list, in the hands of one worker, or
  settled; the entries of the list and of the workers are of different pairs
  (`ListOK`, `HandsOK`, `Apart`); and the retries an entry has on it are the
  counters of its pair (`Pairs`). `NoFaultInv` is that claim until a fault. One lemma per action; `FaultCounts` ends the
  claim with the first fault.
* `IdsAreKnown`, which is not restricted to runs without faults in its first half
  (`MidsOK`); `QueueTypeCorrect`.

`CheckoutProofs`:

* `LimiterRemembersEnough` (`LimiterIsExact`), from `LimiterInv`: what a process
  remembers of the window that ends now is what it let through in it. Cleaning keeps
  that (`CleanupKeepsRecent`), although its window ends later, because what is
  within a later window was within the earlier one, and what is outside never comes
  back (`WithinLater`, `KnownLater`). So a call is judged by all the calls that still
  count when it ends (`CallStep`), and those are at most `MaxRequests`.
* `OrderedExactly` (`OrderedOnce`), from `CheckoutInv`: as long as nothing crosses
  there is one press at most, its body is the cart, and what is owed is that body
  or nothing. `CheckoutTypeCorrect`.
* `CartIsAccepted` (`CartCanBeOrdered`), from `CartsInv`: no cart, cleared cart or
  body on its way has more lines than a cart may have items. Two operations can
  add a line and both look at the total of items, so the proof needs that a cart has
  at most as many lines as items (`LinesWithinTotal`), a fact about a sum over a set:
  `AddersExist` and `TotalsAddUp` show that the fold of the library satisfies its
  equation on every subset, again by a least counterexample.

Only model-checked:

* Liveness (`AnsweredUnlessFrozen`, `PaymentReachesOrder`, `EveryRequestAnswered`,
  `EveryEntrySettles`), which is out of the prover's reach (fairness, ENABLED).
* That the states the four violating runs show are reached, and the absence of
  deadlock in the runs that check it.

Every safety invariant and action property of a passing run is a theorem.

## 7. Plan

In order of importance; what is done is in section 2.

1. A run of `OrderCreation` with a small `Rollover`, which reaches the end of the
   day that `DayEndsAtRollover` describes; a second day, whose numbers start again.
2. The webhook as a further actor of `OrderCreation`, so that an order it brings
   back counts for its slot.
3. The cache of `/api/slots` over midnight with its key by name of the day,
   composed with `SlotBoard` instead of the counter `rev`.
4. Delivery zones and their prices with the check in `create_order`; the answers of
   the menu page in the browser that arrive out of order.

## 8. Not modelled

* `app/telegram.py`: dead code. Nothing that is deployed imports its circuit breaker
  and retry list since notifications moved to MAX, so no state of it ever exists.
* A deployment without Redis. When `redis.asyncio` is missing or `from_url` raises,
  `_redis` is `None` (`app/main.py:214-230`): a failed delivery is logged and dropped
  at once (`app/notifications.py:41`), and no worker is started.
  `NobodyIsForgotten` is about the deployment with Redis.
* Also never reached, and left out: `_is_circular_reference`,
  `get_availability_rules`, `get_category_hierarchy_rules`, `app/static/app.js`;
  and the stale copies and one-off scripts in the root (`main.py`,
  `validate_subcategories.py`, `patch.py`).
* `GET /api/slots/availability` (`app/main.py:983`), which reads an older table of
  slots with limits of their own. No page asks it and no order is checked
  against it.
* Midnight in `OrderCreation`: one day's numbers only. Deletion of orders from the
  admin, which would make gaps and reuse numbers. The webhook inside
  `OrderCreation`: `cancelled` only grows there, so an order that a webhook brings
  back into a full slot is outside `SlotCapHolds`.
* Connection pool limits and `execute_with_retry` (`app/db.py`); prices, receipts,
  signatures, rate limiting by IP.
* The order form's zones and prices; the menu page in the browser, whose only state
  is the last answer; rendering, address suggestions, the payment widget and the
  list of removed products in `cart.js`.
* In the catalogue: renaming of products (a duplicate made that way is a deliberate
  edit), `allowed_methods` as raw JSON, export, thumbnails, rows of the audit log
  and of deleted products, which nothing reads again to decide on.
* Texts of messages and of SMS, back-off within one HTTP call, pages, metrics,
  health checks, settings, migrations and deployment scripts: pure output, or run
  once and alone. How many processes run at once is the constant `Procs`.
