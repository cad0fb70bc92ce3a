--------------------------- MODULE OrderLifecycle ---------------------------
(***************************************************************************)
(* One stored order and everything that changes it after its creation:     *)
(*  - status buttons in MAX and in the admin list                          *)
(*    (update_order_status_endpoint, max_callback);                        *)
(*  - the payment button of cash orders (max_callback, pay_toggle) and the *)
(*    admin payment endpoint (update_payment_status_endpoint);             *)
(*  - the YooKassa webhook (payments_webhook, handle_webhook), which works *)
(*    in a thread of its own;                                              *)
(*  - the admin form (OrderAdmin), which sqladmin saves in a thread.       *)
(*                                                                         *)
(* Each of them reads the row in one statement, decides, and writes it in a *)
(* later one; nothing locks the row in between (READ COMMITTED).  The ORM  *)
(* updates only the columns whose value differs from the value it read.    *)
(***************************************************************************)
EXTENDS OrderStatus, Naturals, FiniteSets

CONSTANTS
    Procs,       \* server processes; a process runs one loop handler at a time
    Methods,     \* payment methods that orders are made with
    Hooks,       \* deliveries of the webhook that may be in progress together
    Forms,       \* admin forms being saved
    Staff,       \* MAX users who got the order's message
    Mids,        \* those whose message id is in max_message_ids
    NoOne,       \* no user: the request came from the admin list
    NoProc,
    ClientUid,   \* TRUE if the client came through the bot (client_max_uid)
    MaxAnswers   \* bound on the callback answers on their way to MAX

ASSUME OrderAssumption ==
    /\ Methods \subseteq PaymentMethods
    /\ Mids \subseteq Staff
    /\ NoOne \notin Staff /\ NoProc \notin Procs
    /\ MaxAnswers \in Nat /\ ClientUid \in BOOLEAN

VARIABLES
    row,       \* the order: [status, method, paid, yk]
    provider,  \* status of its payment at YooKassa
    cur,       \* [Procs -> the loop handler between two of its statements]
    hook,      \* [Hooks -> the webhook delivery]
    form,      \* [Forms -> the admin form]
    msg,       \* [Staff -> the keyboard the user's message shows]
    answers,   \* answers on their way to MAX: [to, kb]
    told       \* the status the client was last told of ("new": none yet)

vars == <<row, provider, cur, hook, form, msg, answers, told>>

PaymentStates == {"none", "pending", "succeeded", "canceled"}

Columns == {"status", "method", "paid", "yk"}

Rows == [status : Statuses, method : PaymentMethods, paid : BOOLEAN,
         yk : PaymentStates]

\* An UPDATE gives some columns a value; a session without changes, none.
IsUpdate(u) ==
    /\ DOMAIN u \subseteq Columns
    /\ "status" \in DOMAIN u => u["status"] \in Statuses
    /\ "method" \in DOMAIN u => u["method"] \in PaymentMethods
    /\ "paid" \in DOMAIN u => u["paid"] \in BOOLEAN
    /\ "yk" \in DOMAIN u => u["yk"] \in PaymentStates

NoUpdate == [f \in {} |-> 0]

Keyboards == [status : Statuses, paid : BOOLEAN]

Answers == [to : Staff, kb : Keyboards]

\* What a handler of each kind holds between two of its statements: the status
\* it read, the UPDATE it will make, and where its result goes.
IsHandler(c) ==
    /\ DOMAIN c = {"op", "step", "read", "upd", "to", "by"}
    /\ c.op \in {"idle", "status", "toggle", "payment"}
    /\ c.step \in {"write", "answer"}
    /\ c.read \in Statuses /\ IsUpdate(c.upd)
    /\ c.to \in Statuses /\ c.by \in Staff \cup {NoOne}
    /\ c.step = "answer" => c.by \in Staff

IsDelivery(k) ==
    /\ DOMAIN k = {"pc", "home", "got", "upd", "todo", "kb"}
    /\ k.pc \in {"idle", "read", "write", "reread", "edit"}
    /\ k.home \in Procs \cup {NoProc}
    /\ k.got \in PaymentStates /\ IsUpdate(k.upd)
    /\ k.todo \subseteq Mids /\ k.kb \in Keyboards

IsEdit(x) ==
    /\ DOMAIN x = {"pc", "read", "upd"}
    /\ x.pc \in {"idle", "write"}
    /\ x.read \in Statuses /\ IsUpdate(x.upd)

NewKeyboard == [status |-> "new", paid |-> FALSE]

Idle == [op |-> "idle", step |-> "write", read |-> "new", upd |-> NoUpdate,
         to |-> "new", by |-> NoOne]

IdleHook == [pc |-> "idle", home |-> NoProc, got |-> "none", upd |-> NoUpdate,
             todo |-> {}, kb |-> NewKeyboard]

IdleForm == [pc |-> "idle", read |-> "new", upd |-> NoUpdate]

TypeOK ==
    /\ row \in Rows
    /\ provider \in PaymentStates
    /\ DOMAIN cur = Procs /\ \A p \in Procs : IsHandler(cur[p])
    /\ DOMAIN hook = Hooks /\ \A h \in Hooks : IsDelivery(hook[h])
    /\ DOMAIN form = Forms /\ \A e \in Forms : IsEdit(form[e])
    /\ msg \in [Staff -> Keyboards]
    /\ answers \subseteq Answers
    /\ told \in Statuses

----------------------------------------------------------------------------
(* Helpers.                                                                *)

Keyboard(s, p) == [status |-> s, paid |-> p]

\* The attributes of data that differ from the row as it was read.
Changes(data) == [f \in {g \in Columns : data[g] # row[g]} |-> data[f]]

\* The UPDATE and its commit.
Save(upd) ==
    row' = [f \in Columns |-> IF f \in DOMAIN upd THEN upd[f] ELSE row[f]]

LoopFree(p) == cur[p].op = "idle"

Room == Cardinality(answers) < MaxAnswers

\* answer_max_callback: the answer carries the user's message anew.
Answer(u, kb) == answers' = answers \cup {[to |-> u, kb |-> kb]}

----------------------------------------------------------------------------
(* Status buttons.                                                         *)

\* Broken variant: the client is told before the commit, which may fail.
SelectStatusAndTell(p, s, u) ==
    /\ LoopFree(p)
    /\ is_valid_transition(row.status, s)
    /\ IF u = NoOne THEN s # row.status ELSE Room
    /\ cur' = [cur EXCEPT ![p] =
          [Idle EXCEPT !.op = "status", !.read = row.status, !.to = s, !.by = u,
                       !.upd = Changes([row EXCEPT !.status = s]),
                       !.step = IF s = row.status THEN "answer" ELSE "write"]]
    /\ told' = IF ClientUid THEN s ELSE told
    /\ UNCHANGED <<row, provider, hook, form, msg, answers>>

\* SELECT and update_order_status.  An invalid transition only earns an error
\* notification; the status the order already has is answered as a success.
SelectStatus(p, s, u) ==
    /\ LoopFree(p)
    /\ is_valid_transition(row.status, s)
    /\ IF u = NoOne THEN s # row.status ELSE Room
    /\ cur' = [cur EXCEPT ![p] =
          [Idle EXCEPT !.op = "status", !.read = row.status, !.to = s, !.by = u,
                       !.upd = Changes([row EXCEPT !.status = s]),
                       !.step = IF s = row.status THEN "answer" ELSE "write"]]
    /\ UNCHANGED <<row, provider, hook, form, msg, answers, told>>

Writing(p, op) == cur[p].op = op /\ cur[p].step = "write"

Answering(p, op) == cur[p].op = op /\ cur[p].step = "answer"

Proceed(p) ==
    cur' = [cur EXCEPT ![p] =
               IF cur[p].by = NoOne THEN Idle
               ELSE [cur[p] EXCEPT !.step = "answer"]]

\* UPDATE and commit, and only then the task that tells the client, if it came
\* through the bot and the task gets through.
CommitStatus(p) ==
    /\ Writing(p, "status")
    /\ Save(cur[p].upd)
    /\ told' \in {told, IF ClientUid THEN cur[p].to ELSE told}
    /\ Proceed(p)
    /\ UNCHANGED <<provider, hook, form, msg, answers>>

\* The keyboard has the status of the response and the payment read again.
AnswerStatus(p) ==
    /\ Answering(p, "status")
    /\ Answer(cur[p].by, Keyboard(cur[p].to, row.paid))
    /\ cur' = [cur EXCEPT ![p] = Idle]
    /\ UNCHANGED <<row, provider, hook, form, msg, told>>

----------------------------------------------------------------------------
(* The payment button of cash orders, and the admin payment endpoint.      *)

SelectToggle(p, u) ==
    /\ LoopFree(p) /\ Room
    /\ row.method = "cash"
    /\ cur' = [cur EXCEPT ![p] =
          [Idle EXCEPT !.op = "toggle", !.by = u, !.read = row.status,
                       !.upd = Changes([row EXCEPT !.paid = ~row.paid])]]
    /\ UNCHANGED <<row, provider, hook, form, msg, answers, told>>

CommitToggle(p) ==
    /\ Writing(p, "toggle")
    /\ Save(cur[p].upd)
    /\ Proceed(p)
    /\ UNCHANGED <<provider, hook, form, msg, answers, told>>

\* db.refresh: here both halves of the keyboard are read again.
AnswerToggle(p) ==
    /\ Answering(p, "toggle")
    /\ Answer(cur[p].by, Keyboard(row.status, row.paid))
    /\ cur' = [cur EXCEPT ![p] = Idle]
    /\ UNCHANGED <<row, provider, hook, form, msg, told>>

\* update_payment_status_endpoint.
SelectPayment(p, b) ==
    /\ LoopFree(p)
    /\ cur' = [cur EXCEPT ![p] =
          [Idle EXCEPT !.op = "payment", !.read = row.status,
                       !.upd = Changes([row EXCEPT !.paid = b])]]
    /\ UNCHANGED <<row, provider, hook, form, msg, answers, told>>

CommitPayment(p) ==
    /\ Writing(p, "payment")
    /\ Save(cur[p].upd)
    /\ Proceed(p)
    /\ UNCHANGED <<provider, hook, form, msg, answers, told>>

\* The commit or a later statement fails, or the process dies: what was
\* committed stays, nothing is answered.
HandlerFails(p) ==
    /\ cur[p].op # "idle"
    /\ cur' = [cur EXCEPT ![p] = Idle]
    /\ UNCHANGED <<row, provider, hook, form, msg, answers, told>>

\* MAX applies the answers in any order, or never gets one.
ApplyAnswer(a) ==
    /\ answers' = answers \ {a}
    /\ msg' = [msg EXCEPT ![a.to] = a.kb]
    /\ UNCHANGED <<row, provider, cur, hook, form, told>>

LoseAnswer(a) ==
    /\ answers' = answers \ {a}
    /\ UNCHANGED <<row, provider, cur, hook, form, msg, told>>

----------------------------------------------------------------------------
(* The YooKassa webhook.                                                   *)

\* The customer pays or gives up; YooKassa then calls the webhook.
Settle ==
    /\ provider = "pending"
    /\ provider' \in {"succeeded", "canceled"}
    /\ UNCHANGED <<row, cur, hook, form, msg, answers, told>>

\* A delivery reaches process p.  The thread does not believe its body and asks
\* YooKassa for the status of the payment, which is final by now.
FetchPayment(h, p) ==
    /\ hook[h].pc = "idle"
    /\ provider \in {"succeeded", "canceled"}
    /\ hook' = [hook EXCEPT ![h] =
          [IdleHook EXCEPT !.pc = "read", !.home = p, !.got = provider]]
    /\ UNCHANGED <<row, provider, cur, form, msg, answers, told>>

\* Broken variant: the confirmation is forgotten.
SettledUnpaid(got) == [row EXCEPT !.yk = got]

\* Broken variant: a canceled payment takes the confirmation back.
SettledEither(got) ==
    IF got = "succeeded"
    THEN [row EXCEPT !.yk = got, !.paid = TRUE, !.status = "accepted"]
    ELSE [row EXCEPT !.yk = got, !.paid = FALSE]

\* Broken variant: the status of the payment goes into the wrong column.
SettledWrongColumn(got) ==
    IF got = "succeeded"
    THEN [row EXCEPT !.yk = got, !.paid = TRUE, !.status = got]
    ELSE [row EXCEPT !.yk = got]

\* What handle_webhook makes of the order.
Settled(got) ==
    IF got = "succeeded"
    THEN [row EXCEPT !.yk = got, !.paid = TRUE, !.status = "accepted"]
    ELSE [row EXCEPT !.yk = got]

ReadOrder(h) ==
    /\ hook[h].pc = "read"
    /\ hook' = [hook EXCEPT ![h].pc = "write",
                            ![h].upd = Changes(Settled(hook[h].got))]
    /\ UNCHANGED <<row, provider, cur, form, msg, answers, told>>

CommitWebhook(h) ==
    /\ hook[h].pc = "write"
    /\ Save(hook[h].upd)
    /\ hook' = [hook EXCEPT ![h].pc = "reread", ![h].upd = NoUpdate]
    /\ UNCHANGED <<provider, cur, form, msg, answers, told>>

\* Back on the event loop: the row is read once more, for its keyboard.
RereadOrder(h) ==
    /\ hook[h].pc = "reread"
    /\ LoopFree(hook[h].home)
    /\ hook' = [hook EXCEPT ![h] =
          IF row.paid /\ Mids # {}
          THEN [hook[h] EXCEPT !.pc = "edit", !.todo = Mids,
                               !.kb = Keyboard(row.status, row.paid)]
          ELSE IdleHook]
    /\ UNCHANGED <<row, provider, cur, form, msg, answers, told>>

\* edit_max_order_payment_status awaits one edit after the other; one that
\* fails is logged.
EditMessage(h, u) ==
    /\ hook[h].pc = "edit" /\ u \in hook[h].todo
    /\ msg' \in {msg, [msg EXCEPT ![u] = hook[h].kb]}
    /\ hook' = [hook EXCEPT ![h] =
          IF hook[h].todo = {u} THEN IdleHook
          ELSE [hook[h] EXCEPT !.todo = @ \ {u}]]
    /\ UNCHANGED <<row, provider, cur, form, answers, told>>

\* No order, a database error, a dead process: YooKassa will deliver again.
HookFails(h) ==
    /\ hook[h].pc # "idle"
    /\ hook' = [hook EXCEPT ![h] = IdleHook]
    /\ UNCHANGED <<row, provider, cur, form, msg, answers, told>>

----------------------------------------------------------------------------
(* The admin form.                                                         *)

\* Broken variant: the submitted status is not validated.
ValidateFormUnchecked(e, s, m, b) ==
    /\ form[e].pc = "idle"
    /\ form' = [form EXCEPT ![e] =
          [pc |-> "write", read |-> row.status,
           upd |-> Changes([row EXCEPT !.status = s, !.method = m,
                                       !.paid = b])]]
    /\ UNCHANGED <<row, provider, cur, hook, msg, answers, told>>

\* sqladmin reads the order and calls on_model_change, which validates the
\* submitted status; the form submits all its fields, also those it showed
\* when it was opened, long ago perhaps.
ValidateForm(e, s, m, b) ==
    /\ form[e].pc = "idle"
    /\ is_valid_transition(row.status, s)
    /\ form' = [form EXCEPT ![e] =
          [pc |-> "write", read |-> row.status,
           upd |-> Changes([row EXCEPT !.status = s, !.method = m,
                                       !.paid = b])]]
    /\ UNCHANGED <<row, provider, cur, hook, msg, answers, told>>

CommitForm(e) ==
    /\ form[e].pc = "write"
    /\ Save(form[e].upd)
    /\ form' = [form EXCEPT ![e] = IdleForm]
    /\ UNCHANGED <<provider, cur, hook, msg, answers, told>>

FormFails(e) ==
    /\ form[e].pc = "write"
    /\ form' = [form EXCEPT ![e] = IdleForm]
    /\ UNCHANGED <<row, provider, cur, hook, msg, answers, told>>

----------------------------------------------------------------------------
(* Specification.                                                          *)

\* As create_order leaves the order: a card order has its pending payment.
Init ==
    /\ \E m \in Methods :
          LET yk == IF m = "yookassa_card" THEN "pending" ELSE "none" IN
          /\ row = [status |-> "new", method |-> m, paid |-> FALSE, yk |-> yk]
          /\ provider = yk
    /\ cur = [p \in Procs |-> Idle]
    /\ hook = [h \in Hooks |-> IdleHook]
    /\ form = [e \in Forms |-> IdleForm]
    /\ msg = [u \in Staff |-> NewKeyboard]
    /\ answers = {} /\ told = "new"

LoopStep(p) ==
    \/ \E s \in Statuses, u \in Staff \cup {NoOne} : SelectStatus(p, s, u)
    \/ CommitStatus(p) \/ AnswerStatus(p)
    \/ \E u \in Staff : SelectToggle(p, u)
    \/ CommitToggle(p) \/ AnswerToggle(p)
    \/ \E b \in BOOLEAN : SelectPayment(p, b)
    \/ CommitPayment(p) \/ HandlerFails(p)

HookStep(h) ==
    \/ \E p \in Procs : FetchPayment(h, p)
    \/ ReadOrder(h) \/ CommitWebhook(h) \/ RereadOrder(h)
    \/ \E u \in Mids : EditMessage(h, u)
    \/ HookFails(h)

FormStep(e) ==
    \/ \E s \in Statuses, m \in Methods, b \in BOOLEAN :
          ValidateForm(e, s, m, b)
    \/ CommitForm(e) \/ FormFails(e)

Next ==
    \/ \E p \in Procs : LoopStep(p)
    \/ \E h \in Hooks : HookStep(h)
    \/ \E e \in Forms : FormStep(e)
    \/ \E a \in answers : ApplyAnswer(a) \/ LoseAnswer(a)
    \/ Settle

Spec == Init /\ [][Next]_vars

\* YooKassa repeats a delivery until one is answered 200, which takes a commit
\* (it does so for a day); what makes one fail, the database, its own API or a
\* crash, passes within that time.
FairSpec ==
    /\ Spec
    /\ \A h \in Hooks :
          /\ WF_vars(row.yk # provider /\ \E p \in Procs : FetchPayment(h, p))
          /\ SF_vars(ReadOrder(h)) /\ SF_vars(CommitWebhook(h))

----------------------------------------------------------------------------
(* Properties.                                                             *)

StatusWritten == \E p \in Procs : Writing(p, "status") /\ cur'[p] # cur[p]

WebhookWritten == \E h \in Hooks : hook[h].pc = "write" /\ hook'[h] # hook[h]

NoUnconfirm == StatusWritten \/ WebhookWritten => (row.paid => row'.paid)

\* A confirmed payment is taken back by nobody but the staff on purpose (the
\* payment button, the payment endpoint, a form): a status change or a webhook
\* that read the order before the confirmation and commits after it does not
\* write the old value back, because its UPDATE has no column it did not change.
ConfirmationSurvives == [][NoUnconfirm]_vars

FollowsGraph == is_valid_transition(row.status, row'.status)

WebhookConfirms ==
    \E h \in Hooks : hook[h].pc = "write" /\ hook[h].got = "succeeded"

WrittenOverUnread ==
    \/ \E p \in Procs : Writing(p, "status") /\ cur[p].read # row.status
    \/ \E e \in Forms : form[e].pc = "write" /\ form[e].read # row.status

\* The status leaves the graph of order_status.py in two ways only: a webhook
\* confirms a payment, or an operation writes over a status it did not read.
OffGraphExplained ==
    [][FollowsGraph \/ WebhookConfirms \/ WrittenOverUnread]_vars

\* A payment that succeeds is confirmed in the order some time after, whatever
\* delivery fails, repeats or races with the staff (who may take it back then).
PaymentReachesOrder ==
    <>[](provider # "succeeded") \/ <>(provider = "succeeded" /\ row.paid)

\* The status graph as an abstract specification, and as seen here.
Graph == INSTANCE OrderStatusSpec WITH status <- row.status

StatusGraph == Graph!Spec

\* How far an order has come; a delivered or cancelled one goes no further.
Rank(s) ==
    CASE s = "new" -> 0 [] s = "accepted" -> 1 [] s = "cooking" -> 2
      [] s = "on_the_way" -> 3 [] OTHER -> 4

\* t may come after s, in any number of steps of the graph.
Leads(s, t) == s = t \/ Rank(s) < Rank(t)

\* Nobody is ahead of the order: the client was last told, and a keyboard shown
\* to the staff or still on its way shows, a status the order has now or has
\* left behind on its way along the graph, whatever fails or is overtaken.
NobodyIsAhead ==
    /\ Leads(told, row.status)
    /\ \A u \in Staff : Leads(msg[u].status, row.status)
    /\ \A a \in answers : Leads(a.kb.status, row.status)

============================================================================
