----------------------------- MODULE StaffQueue -----------------------------
(***************************************************************************)
(* Notices to the staff (app/notifications.py): a notice is sent to every  *)
(* member of the staff over MAX, and to their phones by SMS at the same    *)
(* time; whom MAX did not reach is put into the Redis list dlq:max, from   *)
(* which a worker of each process sends again, once a minute.              *)
(*                                                                         *)
(* A message may arrive although its sender learns of no message id: the   *)
(* answer is lost, or MAX answers success without an id.                   *)
(***************************************************************************)
EXTENDS Integers, Sequences, FiniteSets

CONSTANTS
    Notices,        \* notifications of orders
    Staff,          \* MAX_STAFF_CHAT_IDS
    Workers,        \* the _dlq_worker tasks, one per process
    MaxRetries,     \* 5 in the code
    MaxFaults       \* bound: Redis errors, raised sends, crashes

ASSUME QueueAssumption == MaxRetries \in Nat \ {0} /\ MaxFaults \in Nat

VARIABLES
    pc,         \* where the notification of an order is
    left,       \* the staff it has not been sent to yet
    failed,     \* the staff it could not be sent to, not queued yet
    mids,       \* the staff whose message ids are known
    saved,      \* mids as create_order stores it in max_message_ids
    queue,      \* the list dlq:max, of [notice, uid, retries]
    wpc,        \* where a worker is
    item,       \* the entry a worker has popped
    tries,      \* how often a notice was sent to someone
    arrived,    \* how often it arrived
    unsure,     \* how often it arrived without an id coming back
    faults

senderVars == <<pc, left, failed, mids, saved>>
workerVars == <<queue, wpc, item>>
countVars == <<tries, arrived, unsure>>
vars == <<senderVars, workerVars, countVars, faults>>

Entry == [notice : Notices, uid : Staff, retries : 0 .. MaxRetries]
NoItem == [notice |-> "none"]
Nobody == [n \in Notices |-> {}]
Never == [n \in Notices |-> [u \in Staff |-> 0]]

Init ==
    /\ pc = [n \in Notices |-> "idle"]
    /\ left = Nobody
    /\ failed = Nobody
    /\ mids = Nobody
    /\ saved = Nobody
    /\ queue = <<>>
    /\ wpc = [w \in Workers |-> "asleep"]
    /\ item = [w \in Workers |-> NoItem]
    /\ tries = Never
    /\ arrived = Never
    /\ unsure = Never
    /\ faults = 0

Goto(n, l) == pc' = [pc EXCEPT ![n] = l]
WorkerGoto(w, l) == wpc' = [wpc EXCEPT ![w] = l]
Fault == faults < MaxFaults /\ faults' = faults + 1

\* Ways a call of send_max_message may end: whether the message arrives and
\* whether its id is returned.
Outcomes == {"id", "no id", "lost"}

Send(n, u, outcome) ==
    /\ tries' = [tries EXCEPT ![n][u] = @ + 1]
    /\ arrived' = IF outcome = "lost" THEN arrived
                  ELSE [arrived EXCEPT ![n][u] = @ + 1]
    /\ unsure' = IF outcome # "no id" THEN unsure
                 ELSE [unsure EXCEPT ![n][u] = @ + 1]

----------------------------------------------------------------------------
(* notify_order_to_staff.                                                  *)

Notify(n) ==
    /\ pc[n] = "idle"
    /\ Goto(n, "sending")
    /\ left' = [left EXCEPT ![n] = Staff]
    /\ UNCHANGED <<failed, mids, saved, workerVars, countVars, faults>>

\* One round of the loop of notify_max_staff_order.
SendFirst(n) ==
    /\ pc[n] \in {"sending", "abandoned"}
    /\ \E u \in left[n], outcome \in Outcomes :
          /\ Send(n, u, outcome)
          /\ left' = [left EXCEPT ![n] = @ \ {u}]
          /\ IF outcome = "id"
             THEN mids' = [mids EXCEPT ![n] = @ \cup {u}] /\ UNCHANGED failed
             ELSE failed' = [failed EXCEPT ![n] = @ \cup {u}] /\ UNCHANGED mids
    /\ UNCHANGED <<pc, saved, workerVars, faults>>

\* notify_sms_staff raises (smsc.ru answers with something that is not
\* JSON): gather raises at once, while the loop over the staff goes on with
\* nobody to take its result; create_order logs the error.
SmsRaises(n) ==
    /\ pc[n] = "sending"
    /\ Fault
    /\ Goto(n, "abandoned")
    /\ UNCHANGED <<left, failed, mids, saved, workerVars, countVars>>

\* The answer of MAX has an unexpected form, which send_max_message does not
\* catch: gather raises and the loop is over.
MaxRaises(n) ==
    /\ pc[n] \in {"sending", "abandoned"}
    /\ Fault
    /\ \E u \in left[n] : Send(n, u, "no id")
    /\ Goto(n, "done")
    /\ UNCHANGED <<left, failed, mids, saved, workerVars>>

Gathered(n) ==
    /\ left[n] = {}
    /\ \/ pc[n] = "sending" /\ Goto(n, "pushing")
       \/ pc[n] = "abandoned" /\ Goto(n, "done")
    /\ UNCHANGED <<left, failed, mids, saved, workerVars, countVars, faults>>

\* Broken variant: the entry of the first one stands for all.
PushOnce(n) ==
    /\ pc[n] = "pushing"
    /\ \E u \in failed[n] :
          queue' = Append(queue, [notice |-> n, uid |-> u, retries |-> 0])
    /\ failed' = [failed EXCEPT ![n] = {}]
    /\ UNCHANGED <<pc, left, mids, saved, wpc, item, countVars, faults>>

\* _push_failed_max_to_dlq, one rpush.
PushFailed(n) ==
    /\ pc[n] = "pushing"
    /\ \E u \in failed[n] :
          /\ queue' = Append(queue, [notice |-> n, uid |-> u, retries |-> 0])
          /\ failed' = [failed EXCEPT ![n] = @ \ {u}]
    /\ UNCHANGED <<pc, left, mids, saved, wpc, item, countVars, faults>>

\* rpush raises, with or without effect: the rest is not queued, and the ids
\* of the messages that did arrive are not stored.
PushError(n) ==
    /\ pc[n] = "pushing"
    /\ failed[n] # {}
    /\ Fault
    /\ \/ UNCHANGED queue
       \/ \E u \in failed[n] :
             queue' = Append(queue, [notice |-> n, uid |-> u, retries |-> 0])
    /\ Goto(n, "done")
    /\ UNCHANGED <<left, failed, mids, saved, wpc, item, countVars>>

\* Broken variant: ids are stored before everybody has been told.
NotifiedAny(n) ==
    /\ pc[n] = "pushing"
    /\ Goto(n, "done")
    /\ saved' = [saved EXCEPT ![n] = mids[n]]
    /\ UNCHANGED <<left, failed, mids, workerVars, countVars, faults>>

\* The ids go back to create_order.
Notified(n) ==
    /\ pc[n] = "pushing"
    /\ failed[n] = {}
    /\ Goto(n, "done")
    /\ saved' = [saved EXCEPT ![n] = mids[n]]
    /\ UNCHANGED <<left, failed, mids, workerVars, countVars, faults>>

----------------------------------------------------------------------------
(* _dlq_worker.                                                            *)

\* The minute of sleep is over.
Wake(w) ==
    /\ wpc[w] = "asleep"
    /\ WorkerGoto(w, "pop")
    /\ UNCHANGED <<senderVars, queue, item, countVars, faults>>

PopNothing(w) ==
    /\ wpc[w] = "pop"
    /\ queue = <<>>
    /\ WorkerGoto(w, "asleep")
    /\ UNCHANGED <<senderVars, queue, item, countVars, faults>>

Pop(w) ==
    /\ wpc[w] = "pop"
    /\ queue # <<>>
    /\ item' = [item EXCEPT ![w] = Head(queue)]
    /\ queue' = Tail(queue)
    /\ WorkerGoto(w, "popped")
    /\ UNCHANGED <<senderVars, countVars, faults>>

\* Broken variant: an exhausted entry goes back to the list.
DropLater(w) ==
    /\ wpc[w] = "popped"
    /\ item[w].retries >= MaxRetries
    /\ queue' = Append(queue, item[w])
    /\ item' = [item EXCEPT ![w] = NoItem]
    /\ WorkerGoto(w, "asleep")
    /\ UNCHANGED <<senderVars, countVars, faults>>

\* An entry that has been tried MaxRetries times is dropped; the cycle ends.
Drop(w) ==
    /\ wpc[w] = "popped"
    /\ item[w].retries >= MaxRetries
    /\ item' = [item EXCEPT ![w] = NoItem]
    /\ WorkerGoto(w, "asleep")
    /\ UNCHANGED <<senderVars, queue, countVars, faults>>

\* Broken variant: one attempt too many.
RetryOnceMore(w) ==
    /\ wpc[w] = "popped"
    /\ item[w].retries <= MaxRetries
    /\ \E outcome \in Outcomes :
          /\ Send(item[w].notice, item[w].uid, outcome)
          /\ IF outcome = "id"
             THEN item' = [item EXCEPT ![w] = NoItem] /\ WorkerGoto(w, "pop")
             ELSE UNCHANGED item /\ WorkerGoto(w, "push")
    /\ UNCHANGED <<senderVars, queue, faults>>

Retry(w) ==
    /\ wpc[w] = "popped"
    /\ item[w].retries < MaxRetries
    /\ \E outcome \in Outcomes :
          /\ Send(item[w].notice, item[w].uid, outcome)
          /\ IF outcome = "id"
             THEN item' = [item EXCEPT ![w] = NoItem] /\ WorkerGoto(w, "pop")
             ELSE UNCHANGED item /\ WorkerGoto(w, "push")
    /\ UNCHANGED <<senderVars, queue, faults>>

\* send_max_message raises: the entry goes back as it was, and is lost if
\* rpush raises as well.
RetryRaises(w) ==
    /\ wpc[w] = "popped"
    /\ item[w].retries < MaxRetries
    /\ Fault
    /\ Send(item[w].notice, item[w].uid, "no id")
    /\ queue' \in {queue, Append(queue, item[w])}
    /\ item' = [item EXCEPT ![w] = NoItem]
    /\ WorkerGoto(w, "asleep")
    /\ UNCHANGED senderVars

\* Broken variant: the retry is not counted.
PushBackUncounted(w) ==
    /\ wpc[w] = "push"
    /\ queue' = Append(queue, item[w])
    /\ item' = [item EXCEPT ![w] = NoItem]
    /\ WorkerGoto(w, "asleep")
    /\ UNCHANGED <<senderVars, countVars, faults>>

\* The entry goes to the end of the list; the cycle ends.
PushBack(w) ==
    /\ wpc[w] = "push"
    /\ queue' = Append(queue, [item[w] EXCEPT !.retries = @ + 1])
    /\ item' = [item EXCEPT ![w] = NoItem]
    /\ WorkerGoto(w, "asleep")
    /\ UNCHANGED <<senderVars, countVars, faults>>

\* rpush raises, with or without effect: the entry is pushed once more as it
\* was popped, and lost if that raises as well.
PushBackError(w) ==
    /\ wpc[w] = "push"
    /\ Fault
    /\ \E counted, again \in BOOLEAN :
          queue' = queue
             \o (IF counted THEN <<[item[w] EXCEPT !.retries = @ + 1]>>
                 ELSE <<>>)
             \o (IF again THEN <<item[w]>> ELSE <<>>)
    /\ item' = [item EXCEPT ![w] = NoItem]
    /\ WorkerGoto(w, "asleep")
    /\ UNCHANGED <<senderVars, countVars>>

\* lpop raises: the cycle ends; what was popped on the way is lost.
PopError(w) ==
    /\ wpc[w] = "pop"
    /\ Fault
    /\ queue' \in {queue} \cup (IF queue = <<>> THEN {} ELSE {Tail(queue)})
    /\ WorkerGoto(w, "asleep")
    /\ UNCHANGED <<senderVars, item, countVars>>

\* The process of a worker dies and is started again; notifications that
\* were being sent in it are gone, with their orders.
Crash(w) ==
    /\ Fault
    /\ item' = [item EXCEPT ![w] = NoItem]
    /\ WorkerGoto(w, "asleep")
    /\ \E gone \in SUBSET {n \in Notices : pc[n] \notin {"idle", "done"}} :
          pc' = [n \in Notices |-> IF n \in gone THEN "done" ELSE pc[n]]
    /\ UNCHANGED <<left, failed, mids, saved, queue, countVars>>

----------------------------------------------------------------------------

Inform(n) == \/ SendFirst(n) \/ Gathered(n) \/ PushFailed(n) \/ Notified(n)

Work(w) == \/ Wake(w) \/ PopNothing(w) \/ Pop(w) \/ Drop(w) \/ Retry(w)
           \/ PushBack(w)

Next == \/ \E n \in Notices : \/ Notify(n) \/ Inform(n)
                              \/ SmsRaises(n) \/ MaxRaises(n) \/ PushError(n)
        \/ \E w \in Workers : \/ Work(w) \/ PushBackError(w) \/ PopError(w)
                              \/ RetryRaises(w) \/ Crash(w)

Spec == Init /\ [][Next]_vars

\* asyncio runs what is ready, HTTP calls have a timeout, Redis answers or
\* raises.
FairSpec == /\ Spec
            /\ \A n \in Notices : WF_vars(Inform(n))
            /\ \A w \in Workers : WF_vars(Work(w))

----------------------------------------------------------------------------
(* Properties.                                                             *)

TypeOK ==
    /\ pc \in [Notices -> {"idle", "sending", "abandoned", "pushing", "done"}]
    /\ left \in [Notices -> SUBSET Staff]
    /\ failed \in [Notices -> SUBSET Staff]
    /\ mids \in [Notices -> SUBSET Staff]
    /\ saved \in [Notices -> SUBSET Staff]
    /\ queue \in Seq(Entry)
    /\ wpc \in [Workers -> {"asleep", "pop", "popped", "push"}]
    /\ item \in [Workers -> Entry \cup {NoItem}]
    /\ tries \in [Notices -> [Staff -> Nat]]
    /\ arrived \in [Notices -> [Staff -> Nat]]
    /\ unsure \in [Notices -> [Staff -> Nat]]
    /\ faults \in 0 .. MaxFaults

InQueue(n, u) ==
    \/ \E i \in 1 .. Len(queue) : queue[i].notice = n /\ queue[i].uid = u
    \/ \E w \in Workers : item[w] # NoItem /\ item[w].notice = n
                          /\ item[w].uid = u

\* Without Redis errors, raised sends and crashes nobody is forgotten: whom
\* a notice has not reached when its notification is over is in the list or
\* in a worker's hands, or has been tried as often as the code allows.
NobodyIsForgotten ==
    \A n \in Notices, u \in Staff :
        (pc[n] = "done" /\ arrived[n][u] = 0 /\ faults = 0) =>
            InQueue(n, u) \/ tries[n][u] = 1 + MaxRetries

\* Without those faults a notice is sent at most once more than it is
\* retried, and comes twice only to someone whose first message arrived
\* without an id.
AttemptsBounded ==
    faults = 0 =>
        \A n \in Notices, u \in Staff :
            /\ tries[n][u] <= 1 + MaxRetries
            /\ arrived[n][u] <= 1 + unsure[n][u]

\* The ids that are stored for an order are of messages that arrived, and
\* the order has them all, as far as the first round of sending knew them,
\* unless a fault came between.
SavedIdsAreKnown ==
    \A n \in Notices :
        /\ saved[n] \subseteq {u \in Staff : arrived[n][u] > 0}
        /\ (pc[n] = "done" /\ faults = 0) =>
              \A u \in Staff :
                  u \in saved[n] \/ InQueue(n, u) \/ tries[n][u] > 1

\* The list empties: what MAX does not take, however long, is dropped.
EveryEntrySettles ==
    []<>(queue = <<>> /\ \A w \in Workers : item[w] = NoItem)

============================================================================
