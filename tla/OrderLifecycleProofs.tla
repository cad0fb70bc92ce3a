------------------------ MODULE OrderLifecycleProofs ------------------------
(***************************************************************************)
(* Proofs about a stored order, for any number of processes, webhook       *)
(* deliveries, forms and users.                                            *)
(***************************************************************************)
EXTENDS OrderLifecycle, TLAPS

----------------------------------------------------------------------------
(* Types.                                                                  *)

LEMMA ChangesType ==
    ASSUME row \in Rows, NEW data \in Rows
    PROVE  /\ IsUpdate(Changes(data))
           /\ \A f \in DOMAIN Changes(data) :
                 data[f] # row[f] /\ Changes(data)[f] = data[f]
BY DEF IsUpdate, Changes, Rows, Columns

LEMMA SaveType ==
    ASSUME row \in Rows, NEW u, IsUpdate(u), Save(u)
    PROVE  row' \in Rows
BY DEF IsUpdate, Save, Rows, Columns

LEMMA NoUpdateType == IsUpdate(NoUpdate)
BY DEF IsUpdate, NoUpdate, Columns

LEMMA IdleTypes ==
    /\ IsHandler(Idle) /\ IsDelivery(IdleHook) /\ IsEdit(IdleForm)
    /\ NewKeyboard \in Keyboards
BY NoUpdateType
   DEF IsHandler, IsDelivery, IsEdit, Idle, IdleHook, IdleForm, NewKeyboard,
       Keyboards, Statuses, PaymentStates

\* Every variable keeps its type.
THEOREM TypeCorrect == Spec => []TypeOK
<1> USE OrderAssumption, IdleTypes
<1>1. Init => TypeOK
  BY DEF Init, TypeOK, Rows, Statuses, PaymentMethods, PaymentStates
<1>2. TypeOK /\ [Next]_vars => TypeOK'
  <2> SUFFICES ASSUME TypeOK, [Next]_vars PROVE TypeOK'
    OBVIOUS
  <2> USE DEF TypeOK
  <2>1. ASSUME NEW p \in Procs, NEW s \in Statuses,
               NEW u \in Staff \cup {NoOne},
               SelectStatus(p, s, u)
        PROVE  TypeOK'
    <3>1. [row EXCEPT !.status = s] \in Rows /\ row.status \in Statuses
      BY DEF Rows
    <3>2. IsUpdate(Changes([row EXCEPT !.status = s]))
      BY <3>1, ChangesType
    <3>3. IsHandler(cur'[p])
      BY <2>1, <3>1, <3>2 DEF SelectStatus, IsHandler, Idle
    <3> QED
      BY <2>1, <3>3 DEF SelectStatus
  <2>2. ASSUME NEW p \in Procs, CommitStatus(p) PROVE TypeOK'
    <3>1. row' \in Rows
      BY <2>2, SaveType DEF CommitStatus, IsHandler
    <3>2. IsHandler(cur'[p])
      BY <2>2 DEF CommitStatus, Proceed, IsHandler
    <3> QED
      BY <2>2, <3>1, <3>2 DEF CommitStatus, Proceed, IsHandler
  <2>3. ASSUME NEW p \in Procs, AnswerStatus(p) PROVE TypeOK'
    BY <2>3
       DEF AnswerStatus, Answer, Answering, Answers, Keyboard, Keyboards,
           IsHandler, Rows
  <2>4. ASSUME NEW p \in Procs, NEW u \in Staff, SelectToggle(p, u)
        PROVE  TypeOK'
    <3>1. [row EXCEPT !.paid = ~row.paid] \in Rows /\ row.status \in Statuses
      BY DEF Rows
    <3>2. IsUpdate(Changes([row EXCEPT !.paid = ~row.paid]))
      BY <3>1, ChangesType
    <3>3. IsHandler(cur'[p])
      BY <2>4, <3>1, <3>2 DEF SelectToggle, IsHandler, Idle
    <3> QED
      BY <2>4, <3>3 DEF SelectToggle
  <2>5. ASSUME NEW p \in Procs, CommitToggle(p) PROVE TypeOK'
    <3>1. row' \in Rows
      BY <2>5, SaveType DEF CommitToggle, IsHandler
    <3>2. IsHandler(cur'[p])
      BY <2>5 DEF CommitToggle, Proceed, IsHandler
    <3> QED
      BY <2>5, <3>1, <3>2 DEF CommitToggle, Proceed
  <2>6. ASSUME NEW p \in Procs, AnswerToggle(p) PROVE TypeOK'
    BY <2>6
       DEF AnswerToggle, Answer, Answering, Answers, Keyboard, Keyboards,
           IsHandler, Rows
  <2>7. ASSUME NEW p \in Procs, NEW b \in BOOLEAN, SelectPayment(p, b)
        PROVE  TypeOK'
    <3>1. [row EXCEPT !.paid = b] \in Rows /\ row.status \in Statuses
      BY DEF Rows
    <3>2. IsUpdate(Changes([row EXCEPT !.paid = b]))
      BY <3>1, ChangesType
    <3>3. IsHandler(cur'[p])
      BY <2>7, <3>1, <3>2 DEF SelectPayment, IsHandler, Idle
    <3> QED
      BY <2>7, <3>3 DEF SelectPayment
  <2>8. ASSUME NEW p \in Procs, CommitPayment(p) PROVE TypeOK'
    <3>1. row' \in Rows
      BY <2>8, SaveType DEF CommitPayment, IsHandler
    <3>2. IsHandler(cur'[p])
      BY <2>8 DEF CommitPayment, Proceed, IsHandler
    <3> QED
      BY <2>8, <3>1, <3>2 DEF CommitPayment, Proceed
  <2>9. ASSUME NEW p \in Procs, HandlerFails(p) PROVE TypeOK'
    BY <2>9 DEF HandlerFails
  <2>10. ASSUME NEW h \in Hooks, HookStep(h) PROVE TypeOK'
    <3>1. ASSUME NEW p \in Procs, FetchPayment(h, p) PROVE TypeOK'
      BY <3>1, NoUpdateType DEF FetchPayment, IsDelivery, IdleHook
    <3>2. CASE ReadOrder(h)
      <4>1. Settled(hook[h].got) \in Rows
        BY DEF Settled, Rows, IsDelivery, Statuses
      <4>2. IsUpdate(Changes(Settled(hook[h].got)))
        BY <4>1, ChangesType
      <4>3. IsDelivery(hook'[h])
        BY <3>2, <4>2 DEF ReadOrder, IsDelivery
      <4> QED
        BY <3>2, <4>3 DEF ReadOrder
    <3>3. CASE CommitWebhook(h)
      <4>1. row' \in Rows
        BY <3>3, SaveType DEF CommitWebhook, IsDelivery
      <4>2. IsDelivery(hook'[h])
        BY <3>3, NoUpdateType DEF CommitWebhook, IsDelivery
      <4> QED
        BY <3>3, <4>1, <4>2 DEF CommitWebhook
    <3>4. CASE RereadOrder(h)
      <4>1. IsDelivery(hook'[h])
        BY <3>4 DEF RereadOrder, IsDelivery, Keyboard, Keyboards, Rows
      <4> QED
        BY <3>4, <4>1 DEF RereadOrder
    <3>5. ASSUME NEW u \in Mids, EditMessage(h, u) PROVE TypeOK'
      <4>1. IsDelivery(hook'[h])
        BY <3>5 DEF EditMessage, IsDelivery
      <4>2. msg' \in [Staff -> Keyboards]
        BY <3>5 DEF EditMessage, IsDelivery
      <4> QED
        BY <3>5, <4>1, <4>2 DEF EditMessage
    <3>6. CASE HookFails(h)
      BY <3>6 DEF HookFails
    <3> QED
      BY <2>10, <3>1, <3>2, <3>3, <3>4, <3>5, <3>6 DEF HookStep
  <2>11. ASSUME NEW e \in Forms, FormStep(e) PROVE TypeOK'
    <3>1. ASSUME NEW s \in Statuses, NEW m \in Methods, NEW b \in BOOLEAN,
                 ValidateForm(e, s, m, b)
          PROVE  TypeOK'
      <4> DEFINE data == [row EXCEPT !.status = s, !.method = m, !.paid = b]
      <4>1. data \in Rows /\ row.status \in Statuses
        BY DEF Rows
      <4>2. IsUpdate(Changes(data))
        BY <4>1, ChangesType
      <4>3. IsEdit(form'[e])
        BY <3>1, <4>1, <4>2 DEF ValidateForm, IsEdit
      <4> QED
        BY <3>1, <4>3 DEF ValidateForm
    <3>2. CASE CommitForm(e)
      <4>1. row' \in Rows
        BY <3>2, SaveType DEF CommitForm, IsEdit
      <4> QED
        BY <3>2, <4>1 DEF CommitForm
    <3>3. CASE FormFails(e)
      BY <3>3 DEF FormFails
    <3> QED
      BY <2>11, <3>1, <3>2, <3>3 DEF FormStep
  <2>12. ASSUME NEW a \in answers, ApplyAnswer(a) \/ LoseAnswer(a) PROVE TypeOK'
    BY <2>12 DEF ApplyAnswer, LoseAnswer, Answers
  <2>13. CASE Settle
    BY <2>13 DEF Settle, PaymentStates
  <2>14. CASE UNCHANGED vars
    BY <2>14 DEF vars
  <2> QED
    BY <2>1, <2>2, <2>3, <2>4, <2>5, <2>6, <2>7, <2>8, <2>9, <2>10, <2>11,
       <2>12, <2>13, <2>14 DEF Next, LoopStep
<1> QED
  BY <1>1, <1>2, PTL DEF Spec

----------------------------------------------------------------------------
(* What is about to be written.                                            *)

HandlerWrites(c) ==
    /\ c.op = "status" /\ c.step = "write" =>
          /\ DOMAIN c.upd \subseteq {"status"}
          /\ "status" \in DOMAIN c.upd => c.upd["status"] = c.to
          /\ is_valid_transition(c.read, c.to)
    /\ c.op \in {"toggle", "payment"} => DOMAIN c.upd \subseteq {"paid"}

HookWrites(k) ==
    k.pc = "write" =>
        /\ "paid" \in DOMAIN k.upd => k.upd["paid"] = TRUE
        /\ "status" \in DOMAIN k.upd => k.got = "succeeded"

FormWrites(x) ==
    x.pc = "write" /\ "status" \in DOMAIN x.upd
        => is_valid_transition(x.read, x.upd["status"])

\* Every UPDATE in the making writes the columns of its operation only, and a
\* status that was valid after the one its operation read.
WriteInv ==
    /\ \A p \in Procs : HandlerWrites(cur[p])
    /\ \A h \in Hooks : HookWrites(hook[h])
    /\ \A e \in Forms : FormWrites(form[e])

LEMMA ChangesOnly ==
    ASSUME row \in Rows, NEW data \in Rows, NEW C \in SUBSET Columns,
           \A f \in Columns \ C : data[f] = row[f]
    PROVE  /\ DOMAIN Changes(data) \subseteq C
           /\ \A f \in DOMAIN Changes(data) : Changes(data)[f] = data[f]
BY DEF Changes

LEMMA WriteInit == Init => WriteInv
BY DEF Init, WriteInv, HandlerWrites, HookWrites, FormWrites, Idle, IdleHook,
       IdleForm

LEMMA WriteNext == TypeOK /\ WriteInv /\ [Next]_vars => WriteInv'
<1> SUFFICES ASSUME TypeOK, WriteInv, [Next]_vars PROVE WriteInv'
  OBVIOUS
<1> USE DEF TypeOK, WriteInv
<1>1. ASSUME NEW p \in Procs, LoopStep(p) PROVE WriteInv'
  <2>1. ASSUME NEW s \in Statuses, NEW u \in Staff \cup {NoOne},
               SelectStatus(p, s, u)
        PROVE  WriteInv'
    <3> DEFINE data == [row EXCEPT !.status = s]
    <3>1. data \in Rows /\ \A f \in Columns \ {"status"} : data[f] = row[f]
      BY DEF Rows, Columns
    <3>2. /\ DOMAIN Changes(data) \subseteq {"status"}
          /\ \A f \in DOMAIN Changes(data) : Changes(data)[f] = data[f]
      BY <3>1, ChangesOnly DEF Columns
    <3>3. data["status"] = s
      BY DEF Rows
    <3>4. HandlerWrites(cur'[p])
      BY ZenonT(60), <2>1, <3>2, <3>3
         DEF SelectStatus, HandlerWrites, Idle, IsHandler
    <3> QED
      BY <2>1, <3>4 DEF SelectStatus
  <2>2. ASSUME NEW u \in Staff, SelectToggle(p, u) PROVE WriteInv'
    <3> DEFINE data == [row EXCEPT !.paid = ~row.paid]
    <3>1. data \in Rows /\ \A f \in Columns \ {"paid"} : data[f] = row[f]
      BY DEF Rows, Columns
    <3>2. DOMAIN Changes(data) \subseteq {"paid"}
      BY <3>1, ChangesOnly DEF Columns
    <3>3. HandlerWrites(cur'[p])
      BY <2>2, <3>2 DEF SelectToggle, HandlerWrites, Idle, IsHandler
    <3> QED
      BY <2>2, <3>3 DEF SelectToggle
  <2>3. ASSUME NEW b \in BOOLEAN, SelectPayment(p, b) PROVE WriteInv'
    <3> DEFINE data == [row EXCEPT !.paid = b]
    <3>1. data \in Rows /\ \A f \in Columns \ {"paid"} : data[f] = row[f]
      BY DEF Rows, Columns
    <3>2. DOMAIN Changes(data) \subseteq {"paid"}
      BY <3>1, ChangesOnly DEF Columns
    <3>3. HandlerWrites(cur'[p])
      BY <2>3, <3>2 DEF SelectPayment, HandlerWrites, Idle, IsHandler
    <3> QED
      BY <2>3, <3>3 DEF SelectPayment
  <2>4. CASE CommitStatus(p) \/ CommitToggle(p) \/ CommitPayment(p)
    BY <2>4 DEF CommitStatus, CommitToggle, CommitPayment, Writing, Proceed,
                HandlerWrites, Idle, IsHandler
  <2>5. CASE AnswerStatus(p) \/ AnswerToggle(p) \/ HandlerFails(p)
    BY <2>5 DEF AnswerStatus, AnswerToggle, HandlerFails, HandlerWrites, Idle
  <2> QED
    BY <1>1, <2>1, <2>2, <2>3, <2>4, <2>5 DEF LoopStep
<1>2. ASSUME NEW h \in Hooks, HookStep(h) PROVE WriteInv'
  <2>1. CASE ReadOrder(h)
    <3> DEFINE data == Settled(hook[h].got)
    <3>1. data \in Rows
      BY DEF Settled, Rows, IsDelivery, Statuses
    <3>2. /\ data["paid"] = TRUE \/ data["paid"] = row["paid"]
          /\ data["status"] = row["status"] \/ hook[h].got = "succeeded"
      BY DEF Settled, Rows
    <3>3. \A f \in DOMAIN Changes(data) :
             data[f] # row[f] /\ Changes(data)[f] = data[f]
      BY <3>1, ChangesType
    <3>4. hook'[h].upd = Changes(data) /\ hook'[h].got = hook[h].got
      BY <2>1 DEF ReadOrder, IsDelivery
    <3> HIDE DEF data
    <3>5. HookWrites(hook'[h])
      BY <3>2, <3>3, <3>4 DEF HookWrites
    <3> QED
      BY <2>1, <3>5 DEF ReadOrder
  <2>2. ASSUME NEW p \in Procs, FetchPayment(h, p) PROVE WriteInv'
    BY <2>2 DEF FetchPayment, HookWrites, IdleHook
  <2>3. CASE CommitWebhook(h)
    <3>1. hook'[h].pc = "reread"
      BY <2>3 DEF CommitWebhook, IsDelivery
    <3> QED
      BY <2>3, <3>1 DEF CommitWebhook, HookWrites
  <2>4. CASE RereadOrder(h)
    <3>1. hook'[h].pc \in {"edit", "idle"}
      BY <2>4 DEF RereadOrder, IsDelivery, IdleHook
    <3> QED
      BY <2>4, <3>1 DEF RereadOrder, HookWrites
  <2>5. ASSUME NEW u \in Mids, EditMessage(h, u) PROVE WriteInv'
    <3>1. hook'[h].pc \in {"edit", "idle"}
      BY <2>5 DEF EditMessage, IsDelivery, IdleHook
    <3> QED
      BY <2>5, <3>1 DEF EditMessage, HookWrites
  <2>6. CASE HookFails(h)
    BY <2>6 DEF HookFails, HookWrites, IdleHook
  <2> QED
    BY <1>2, <2>1, <2>2, <2>3, <2>4, <2>5, <2>6 DEF HookStep
<1>3. ASSUME NEW e \in Forms, FormStep(e) PROVE WriteInv'
  <2>1. ASSUME NEW s \in Statuses, NEW m \in Methods, NEW b \in BOOLEAN,
               ValidateForm(e, s, m, b)
        PROVE  WriteInv'
    <3> DEFINE data == [row EXCEPT !.status = s, !.method = m, !.paid = b]
    <3>1. data \in Rows /\ data["status"] = s
      BY OrderAssumption DEF Rows
    <3>2. \A f \in DOMAIN Changes(data) : Changes(data)[f] = data[f]
      BY <3>1, ChangesType
    <3>3. FormWrites(form'[e])
      BY <2>1, <3>1, <3>2 DEF ValidateForm, FormWrites
    <3> QED
      BY <2>1, <3>3 DEF ValidateForm
  <2>2. CASE CommitForm(e) \/ FormFails(e)
    BY <2>2 DEF CommitForm, FormFails, FormWrites, IdleForm
  <2> QED
    BY <1>3, <2>1, <2>2 DEF FormStep
<1>4. ASSUME NEW a \in answers, ApplyAnswer(a) \/ LoseAnswer(a) PROVE WriteInv'
  BY <1>4 DEF ApplyAnswer, LoseAnswer
<1>5. CASE Settle \/ UNCHANGED vars
  BY <1>5 DEF Settle, vars
<1> QED
  BY <1>1, <1>2, <1>3, <1>4, <1>5 DEF Next

LEMMA WriteInvariant == Spec => [](TypeOK /\ WriteInv)
<1>1. Init => WriteInv
  BY WriteInit
<1>2. TypeOK /\ WriteInv /\ [Next]_vars => WriteInv'
  BY WriteNext
<1> QED
  BY <1>1, <1>2, TypeCorrect, PTL DEF Spec

----------------------------------------------------------------------------
(* The columns an UPDATE leaves alone.                                     *)

LEMMA SaveKeeps ==
    ASSUME row \in Rows, NEW u, Save(u)
    PROVE  /\ "paid" \notin DOMAIN u => row'.paid = row.paid
           /\ "status" \notin DOMAIN u => row'.status = row.status
           /\ "paid" \in DOMAIN u => row'.paid = u["paid"]
           /\ "status" \in DOMAIN u => row'.status = u["status"]
BY DEF Save, Rows, Columns

\* A confirmed payment survives every status change and every webhook, whatever
\* they read before it was confirmed.
THEOREM ConfirmationIsKept == Spec => ConfirmationSurvives
<1>1. TypeOK /\ WriteInv /\ [Next]_vars => [NoUnconfirm]_vars
  <2> SUFFICES ASSUME TypeOK, WriteInv, Next PROVE NoUnconfirm
    BY DEF NoUnconfirm, StatusWritten, WebhookWritten, vars
  <2> USE DEF TypeOK, WriteInv
  <2>1. ASSUME UNCHANGED row PROVE NoUnconfirm
    BY <2>1 DEF NoUnconfirm
  <2>2. ASSUME NEW p \in Procs, CommitStatus(p) PROVE NoUnconfirm
    <3>1. "paid" \notin DOMAIN cur[p].upd
      BY <2>2 DEF CommitStatus, Writing, HandlerWrites
    <3>2. Save(cur[p].upd)
      BY <2>2 DEF CommitStatus
    <3>3. row'.paid = row.paid
      BY <3>1, <3>2, SaveKeeps
    <3> QED
      BY <3>3 DEF NoUnconfirm
  <2>3. ASSUME NEW p \in Procs, CommitToggle(p) \/ CommitPayment(p)
        PROVE  NoUnconfirm
    BY <2>3 DEF CommitToggle, CommitPayment, Writing, Proceed, NoUnconfirm,
                StatusWritten, WebhookWritten
  <2>4. ASSUME NEW h \in Hooks, CommitWebhook(h) PROVE NoUnconfirm
    BY <2>4, SaveKeeps DEF CommitWebhook, HookWrites, NoUnconfirm, Rows
  <2>5. ASSUME NEW e \in Forms, CommitForm(e) PROVE NoUnconfirm
    BY <2>5 DEF CommitForm, NoUnconfirm, StatusWritten, WebhookWritten
  <2> QED
    BY <2>1, <2>2, <2>3, <2>4, <2>5
       DEF Next, LoopStep, HookStep, FormStep, SelectStatus, AnswerStatus,
           SelectToggle, AnswerToggle, SelectPayment, HandlerFails,
           FetchPayment, ReadOrder, RereadOrder, EditMessage, HookFails,
           ValidateForm, FormFails, ApplyAnswer, LoseAnswer, Settle
<1> QED
  BY <1>1, WriteInvariant, PTL DEF Spec, ConfirmationSurvives

\* The status leaves the graph only by a webhook or by writing over a status
\* that the operation did not read.
THEOREM OffGraphIsExplained == Spec => OffGraphExplained
<1> DEFINE Explained == FollowsGraph \/ WebhookConfirms \/ WrittenOverUnread
<1>1. TypeOK /\ WriteInv /\ [Next]_vars => [Explained]_vars
  <2> SUFFICES ASSUME TypeOK, WriteInv, Next PROVE Explained
    BY DEF FollowsGraph, is_valid_transition, vars
  <2> USE DEF TypeOK, WriteInv
  <2>1. ASSUME UNCHANGED row PROVE FollowsGraph
    BY <2>1 DEF FollowsGraph, is_valid_transition
  <2>2. ASSUME NEW p \in Procs, CommitStatus(p)
        PROVE  FollowsGraph \/ WrittenOverUnread
    <3>1. row'.status \in {row.status, cur[p].to}
             /\ is_valid_transition(cur[p].read, cur[p].to)
      BY <2>2, SaveKeeps DEF CommitStatus, Writing, HandlerWrites
    <3> QED
      BY <2>2, <3>1 DEF CommitStatus, FollowsGraph, WrittenOverUnread,
                        is_valid_transition
  <2>3. ASSUME NEW p \in Procs, CommitToggle(p) \/ CommitPayment(p)
        PROVE  FollowsGraph
    BY <2>3, SaveKeeps
       DEF CommitToggle, CommitPayment, Writing, HandlerWrites, FollowsGraph,
           is_valid_transition
  <2>4. ASSUME NEW h \in Hooks, CommitWebhook(h)
        PROVE  FollowsGraph \/ WebhookConfirms
    BY <2>4, SaveKeeps
       DEF CommitWebhook, HookWrites, FollowsGraph, WebhookConfirms,
           is_valid_transition
  <2>5. ASSUME NEW e \in Forms, CommitForm(e)
        PROVE  FollowsGraph \/ WrittenOverUnread
    <3>1. \/ row'.status = row.status
          \/ is_valid_transition(form[e].read, row'.status)
      BY <2>5, SaveKeeps DEF CommitForm, FormWrites
    <3> QED
      BY <2>5, <3>1 DEF CommitForm, FollowsGraph, WrittenOverUnread,
                        is_valid_transition
  <2> QED
    BY <2>1, <2>2, <2>3, <2>4, <2>5
       DEF Next, LoopStep, HookStep, FormStep, SelectStatus, AnswerStatus,
           SelectToggle, AnswerToggle, SelectPayment, HandlerFails,
           FetchPayment, ReadOrder, RereadOrder, EditMessage, HookFails,
           ValidateForm, FormFails, ApplyAnswer, LoseAnswer, Settle
<1> QED
  BY <1>1, WriteInvariant, PTL DEF Spec, OffGraphExplained

----------------------------------------------------------------------------
(* Keyboards and the client.                                               *)

\* Without card payments YooKassa has nothing to deliver.
NoWebhooks == provider = "none" /\ \A h \in Hooks : hook[h] = IdleHook

LEMMA NoHookSteps == NoWebhooks => \A h \in Hooks : ~HookStep(h)
BY DEF NoWebhooks, HookStep, IdleHook, FetchPayment, ReadOrder, CommitWebhook,
       RereadOrder, EditMessage, HookFails

LEMMA WebhooksStayAway ==
    ASSUME "yookassa_card" \notin Methods
    PROVE  Spec => []NoWebhooks
<1>1. Init => NoWebhooks
  BY DEF Init, NoWebhooks
<1>2. NoWebhooks /\ [Next]_vars => NoWebhooks'
  <2> SUFFICES ASSUME NoWebhooks, [Next]_vars PROVE NoWebhooks'
    OBVIOUS
  <2>1. ASSUME NEW h \in Hooks PROVE ~HookStep(h)
    BY NoHookSteps
  <2>2. ASSUME NEW p \in Procs, LoopStep(p) PROVE UNCHANGED <<provider, hook>>
    BY <2>2 DEF LoopStep, SelectStatus, CommitStatus, AnswerStatus,
                SelectToggle, CommitToggle, AnswerToggle, SelectPayment,
                CommitPayment, HandlerFails
  <2>3. ASSUME NEW e \in Forms, FormStep(e) PROVE UNCHANGED <<provider, hook>>
    BY <2>3 DEF FormStep, ValidateForm, CommitForm, FormFails
  <2> QED
    BY <2>1, <2>2, <2>3
       DEF Next, ApplyAnswer, LoseAnswer, Settle, vars, NoWebhooks
<1> QED
  BY <1>1, <1>2, PTL DEF Spec

\* A status that may come before s may come before what follows s.
LEMMA LeadsAlongGraph ==
    ASSUME NEW x \in Statuses, NEW s \in Statuses, NEW t \in Statuses,
           Leads(x, s), is_valid_transition(s, t)
    PROVE  Leads(x, t)
<1>1. Rank(x) \in Nat /\ Rank(s) \in Nat /\ Rank(t) \in Nat
  BY DEF Rank, Statuses
<1>2. s = t \/ Rank(s) < Rank(t)
  BY DEF Rank, Statuses, is_valid_transition, get_next_statuses
<1> QED
  BY <1>1, <1>2 DEF Leads

\* What the only process holds: while it writes a status, the row still has
\* the one it read, and its UPDATE has the new one; while it answers, the row
\* has the status of the answer.
HoldsCurrent(p) ==
    /\ Writing(p, "status") => /\ cur[p].read = row.status
                               /\ "status" \in DOMAIN cur[p].upd
    /\ Answering(p, "status") => cur[p].to = row.status

\* Between the SELECT and the commit of a handler nothing else writes the row.
LEMMA AloneStep ==
    ASSUME NEW p, Procs = {p}, Forms = {},
           TypeOK, WriteInv, NoWebhooks, HoldsCurrent(p), [Next]_vars
    PROVE  /\ HoldsCurrent(p)'
           /\ is_valid_transition(row.status, row'.status)
           /\ told' \in {told, row'.status}
<1> USE DEF TypeOK, WriteInv
<1>1. CASE CommitStatus(p)
  <2>1. row'.status = cur[p].to /\ is_valid_transition(row.status, cur[p].to)
    BY <1>1, SaveKeeps DEF CommitStatus, Writing, HandlerWrites, HoldsCurrent
  <2>2. HoldsCurrent(p)'
    BY <1>1, <2>1 DEF CommitStatus, Writing, Answering, Proceed, Idle,
                      HoldsCurrent, IsHandler
  <2>3. told' \in {told, row'.status}
    BY <1>1, <2>1 DEF CommitStatus
  <2> QED
    BY <2>1, <2>2, <2>3
<1>2. CASE CommitToggle(p) \/ CommitPayment(p)
  <2>1. row'.status = row.status /\ told' = told
    BY <1>2, SaveKeeps
       DEF CommitToggle, CommitPayment, Writing, HandlerWrites
  <2>2. HoldsCurrent(p)'
    BY <1>2 DEF CommitToggle, CommitPayment, Writing, Answering, Proceed,
                Idle, HoldsCurrent, IsHandler
  <2> QED
    BY <2>1, <2>2 DEF is_valid_transition
<1>3. CASE UNCHANGED <<row, cur, told>>
  BY <1>3 DEF HoldsCurrent, Writing, Answering, is_valid_transition
<1>4. ASSUME NEW s \in Statuses, NEW u \in Staff \cup {NoOne},
             SelectStatus(p, s, u)
      PROVE  UNCHANGED <<row, told>> /\ HoldsCurrent(p)'
  <2> DEFINE data == [row EXCEPT !.status = s]
  <2>1. s # row.status => "status" \in DOMAIN Changes(data)
    BY DEF Changes, Rows, Columns
  <2> HIDE DEF data
  <2>2. cur'[p] = [Idle EXCEPT !.op = "status", !.read = row.status,
                     !.to = s, !.by = u, !.upd = Changes(data),
                     !.step = IF s = row.status THEN "answer" ELSE "write"]
    BY <1>4 DEF SelectStatus, data
  <2> QED
    BY <1>4, <2>1, <2>2
       DEF SelectStatus, HoldsCurrent, Writing, Answering, Idle
<1>5. CASE AnswerStatus(p) \/ AnswerToggle(p) \/ HandlerFails(p)
  BY <1>5 DEF AnswerStatus, AnswerToggle, HandlerFails, HoldsCurrent,
              Writing, Answering, Idle, is_valid_transition
<1>6. ASSUME NEW u \in Staff, SelectToggle(p, u)
      PROVE  UNCHANGED <<row, told>> /\ HoldsCurrent(p)'
  BY <1>6 DEF SelectToggle, HoldsCurrent, Writing, Answering, Idle
<1>7. ASSUME NEW b \in BOOLEAN, SelectPayment(p, b)
      PROVE  UNCHANGED <<row, told>> /\ HoldsCurrent(p)'
  BY <1>7 DEF SelectPayment, HoldsCurrent, Writing, Answering, Idle
<1>8. ASSUME NEW h \in Hooks PROVE ~HookStep(h)
  BY NoHookSteps
<1>9. UNCHANGED row => is_valid_transition(row.status, row'.status)
  BY DEF is_valid_transition
<1> QED
  BY <1>1, <1>2, <1>3, <1>4, <1>5, <1>6, <1>7, <1>8, <1>9
     DEF Next, LoopStep, ApplyAnswer, LoseAnswer, Settle, vars

LEMMA HoldsCurrentAlways ==
    ASSUME NEW p, Procs = {p}, Forms = {}, "yookassa_card" \notin Methods
    PROVE  Spec => []HoldsCurrent(p)
<1>1. Init => HoldsCurrent(p)
  BY DEF Init, HoldsCurrent, Writing, Answering, Idle
<1>2. TypeOK /\ WriteInv /\ NoWebhooks /\ HoldsCurrent(p) /\ [Next]_vars
         => HoldsCurrent(p)'
  BY AloneStep
<1> QED
  BY <1>1, <1>2, WriteInvariant, WebhooksStayAway, PTL DEF Spec

\* One process without card payments and forms implements the status graph:
\* whatever fails in between, every change of the status is a step of it.
THEOREM ButtonsFollowGraph ==
    ASSUME NEW p, Procs = {p}, Forms = {}, "yookassa_card" \notin Methods
    PROVE  Spec => StatusGraph
<1>1. Init => Graph!Init
  BY DEF Init, Graph!Init
<1>2. TypeOK /\ WriteInv /\ NoWebhooks /\ HoldsCurrent(p) /\ [Next]_vars
         => [Graph!Advance]_(row.status)
  <2> SUFFICES ASSUME TypeOK, WriteInv, NoWebhooks, HoldsCurrent(p),
                      [Next]_vars
               PROVE  [Graph!Advance]_(row.status)
    OBVIOUS
  <2>1. is_valid_transition(row.status, row'.status)
    BY AloneStep
  <2> QED
    BY <2>1 DEF Graph!Advance, is_valid_transition, Graph!get_next_statuses,
                get_next_statuses
<1> QED
  BY <1>1, <1>2, WriteInvariant, WebhooksStayAway, HoldsCurrentAlways, PTL
     DEF Spec, StatusGraph, Graph!Spec

\* Neither the client nor a keyboard, shown or on its way, is ahead of the
\* order, for any number of users and answers, lost and out of order.
THEOREM NobodyGetsAhead ==
    ASSUME NEW p, Procs = {p}, Forms = {}, "yookassa_card" \notin Methods
    PROVE  Spec => []NobodyIsAhead
<1>1. Init => NobodyIsAhead
  BY DEF Init, NobodyIsAhead, Leads, NewKeyboard
<1>2. ASSUME TypeOK, WriteInv, NoWebhooks, HoldsCurrent(p), NobodyIsAhead,
             [Next]_vars, TypeOK'
      PROVE  NobodyIsAhead'
  <2>1. /\ row.status \in Statuses /\ row'.status \in Statuses
        /\ told \in Statuses /\ \A u \in Staff : msg[u].status \in Statuses
        /\ \A a \in answers : a.kb.status \in Statuses /\ a.to \in Staff
    BY <1>2 DEF TypeOK, Rows, Keyboards, Answers
  <2>2. is_valid_transition(row.status, row'.status)
    BY <1>2, AloneStep
  <2>3. /\ Leads(told, row'.status)
        /\ \A u \in Staff : Leads(msg[u].status, row'.status)
        /\ \A a \in answers : Leads(a.kb.status, row'.status)
    BY <1>2, <2>1, <2>2, LeadsAlongGraph DEF NobodyIsAhead
  <2>4. Leads(told', row'.status)
    <3>1. told' \in {told, row'.status}
      BY <1>2, AloneStep
    <3> QED
      BY <2>3, <3>1 DEF Leads
  <2>5. ASSUME NEW a \in answers' PROVE Leads(a.kb.status, row'.status)
    <3>1. CASE AnswerStatus(p)
      <4>1. a \in answers \/ a.kb.status = row'.status
        BY <1>2, <3>1 DEF AnswerStatus, Answer, Keyboard, HoldsCurrent
      <4> QED
        BY <2>3, <4>1 DEF Leads
    <3>2. CASE AnswerToggle(p)
      <4>1. a \in answers \/ a.kb.status = row'.status
        BY <3>2 DEF AnswerToggle, Answer, Keyboard
      <4> QED
        BY <2>3, <4>1 DEF Leads
    <3>3. CASE answers' \subseteq answers
      BY <2>3, <3>3
    <3>4. ASSUME NEW h \in Hooks PROVE ~HookStep(h)
      BY <1>2, NoHookSteps
    <3> QED
      BY <1>2, <3>1, <3>2, <3>3, <3>4
         DEF Next, LoopStep, SelectStatus, CommitStatus, SelectToggle,
             CommitToggle, SelectPayment, CommitPayment, HandlerFails,
             ApplyAnswer, LoseAnswer, Settle, vars
  <2>6. ASSUME NEW u \in Staff PROVE Leads(msg'[u].status, row'.status)
    <3>1. ASSUME NEW a \in answers, ApplyAnswer(a)
          PROVE  Leads(msg'[u].status, row'.status)
      <4>1. msg'[u] = msg[u] \/ msg'[u] = a.kb
        BY <1>2, <3>1 DEF ApplyAnswer, TypeOK
      <4> QED
        BY <2>3, <4>1
    <3>2. CASE UNCHANGED msg
      BY <2>3, <3>2
    <3>3. ASSUME NEW h \in Hooks PROVE ~HookStep(h)
      BY <1>2, NoHookSteps
    <3> QED
      BY <1>2, <3>1, <3>2, <3>3
         DEF Next, LoopStep, SelectStatus, CommitStatus, AnswerStatus,
             SelectToggle, CommitToggle, AnswerToggle, SelectPayment,
             CommitPayment, HandlerFails, LoseAnswer, Settle, vars
  <2> QED
    BY <2>4, <2>5, <2>6 DEF NobodyIsAhead
<1> QED
  BY <1>1, <1>2, WriteInvariant, WebhooksStayAway, HoldsCurrentAlways, PTL
     DEF Spec

=============================================================================
