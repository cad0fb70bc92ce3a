-------------------------- MODULE StaffQueueProofs --------------------------
(***************************************************************************)
(* Proofs about the notices to the staff and the list dlq:max, for any     *)
(* number of notices, of members of the staff and of workers.              *)
(***************************************************************************)
EXTENDS StaffQueue, TLAPS

----------------------------------------------------------------------------
(* Types, and what a worker holds.                                         *)

\* A worker holds an entry between lpop and the end of its round, and after
\* a failed attempt one that has attempts left.
WorkerOK(w) ==
    /\ item[w] # NoItem <=> wpc[w] \in {"popped", "push"}
    /\ wpc[w] \in {"popped", "push"} => item[w] \in Entry
    /\ wpc[w] = "push" => item[w].retries < MaxRetries

TInv == TypeOK /\ \A w \in Workers : WorkerOK(w)

LEMMA EntryIsItem == \A e \in Entry : e # NoItem
BY DEF Entry, NoItem

\* What a call of send_max_message does to the counters.
LEMMA SendCounts ==
    ASSUME TypeOK, NEW n \in Notices, NEW u \in Staff,
           NEW outcome \in Outcomes, Send(n, u, outcome)
    PROVE  /\ tries' \in [Notices -> [Staff -> Nat]]
           /\ arrived' \in [Notices -> [Staff -> Nat]]
           /\ unsure' \in [Notices -> [Staff -> Nat]]
           /\ tries'[n][u] = tries[n][u] + 1
           /\ outcome = "id" => /\ arrived'[n][u] = arrived[n][u] + 1
                                /\ unsure'[n][u] = unsure[n][u]
           /\ outcome = "no id" => /\ arrived'[n][u] = arrived[n][u] + 1
                                   /\ unsure'[n][u] = unsure[n][u] + 1
           /\ outcome = "lost" => /\ arrived'[n][u] = arrived[n][u]
                                  /\ unsure'[n][u] = unsure[n][u]
           /\ \A m \in Notices, v \in Staff : m # n \/ v # u =>
                 /\ tries'[m][v] = tries[m][v]
                 /\ arrived'[m][v] = arrived[m][v]
                 /\ unsure'[m][v] = unsure[m][v]
<1> DEFINE F == [Notices -> [Staff -> Nat]]
           Plus(f) == [f EXCEPT ![n][u] = @ + 1]
<1>1. ASSUME NEW f \in F
      PROVE  /\ Plus(f) \in F
             /\ Plus(f)[n][u] = f[n][u] + 1
             /\ \A m \in Notices, v \in Staff :
                   m # n \/ v # u => Plus(f)[m][v] = f[m][v]
  OBVIOUS
<1>2. tries \in F /\ arrived \in F /\ unsure \in F
  BY DEF TypeOK
<1>3. /\ tries' = Plus(tries)
      /\ outcome = "id" => arrived' = Plus(arrived) /\ unsure' = unsure
      /\ outcome = "no id" => arrived' = Plus(arrived) /\ unsure' = Plus(unsure)
      /\ outcome = "lost" => arrived' = arrived /\ unsure' = unsure
  BY DEF Send
<1>4. outcome \in {"id", "no id", "lost"}
  BY DEF Outcomes
<1> HIDE DEF F, Plus
<1>5. tries' \in F /\ arrived' \in F /\ unsure' \in F
  BY <1>1, <1>2, <1>3, <1>4
<1>6. /\ tries'[n][u] = tries[n][u] + 1
      /\ \A m \in Notices, v \in Staff :
            m # n \/ v # u => tries'[m][v] = tries[m][v]
  BY <1>1, <1>2, <1>3
<1>7. \A m \in Notices, v \in Staff :
        m # n \/ v # u => /\ arrived'[m][v] = arrived[m][v]
                          /\ unsure'[m][v] = unsure[m][v]
  <2>1. /\ arrived' = arrived \/ arrived' = Plus(arrived)
        /\ unsure' = unsure \/ unsure' = Plus(unsure)
    BY <1>3, <1>4
  <2> QED
    BY <1>1, <1>2, <2>1
<1>8. outcome = "id" => /\ arrived'[n][u] = arrived[n][u] + 1
                        /\ unsure'[n][u] = unsure[n][u]
  BY <1>1, <1>2, <1>3
<1>9. outcome = "no id" => /\ arrived'[n][u] = arrived[n][u] + 1
                           /\ unsure'[n][u] = unsure[n][u] + 1
  BY <1>1, <1>2, <1>3
<1>10. outcome = "lost" => /\ arrived'[n][u] = arrived[n][u]
                           /\ unsure'[n][u] = unsure[n][u]
  BY <1>3
<1> QED
  BY <1>5, <1>6, <1>7, <1>8, <1>9, <1>10 DEF F

LEMMA TInvInit == Init => TInv
BY QueueAssumption DEF Init, TInv, TypeOK, WorkerOK, Nobody, Never

\* The steps of a notification leave the workers alone.
LEMMA TInvNotification ==
    ASSUME TInv, NEW n \in Notices,
           \/ Notify(n) \/ Inform(n)
           \/ SmsRaises(n) \/ MaxRaises(n) \/ PushError(n)
    PROVE  TInv'
<1> USE QueueAssumption DEF TInv
<1>1. ASSUME UNCHANGED <<wpc, item>> PROVE \A w \in Workers : WorkerOK(w)'
  BY <1>1 DEF WorkerOK
<1>2. ASSUME NEW u \in Staff
      PROVE  [notice |-> n, uid |-> u, retries |-> 0] \in Entry
  BY DEF Entry
<1>3. CASE Notify(n)
  BY <1>1, <1>3 DEF Notify, TypeOK, Goto, workerVars, countVars
<1>4. CASE SendFirst(n)
  <2>1. PICK u \in left[n], outcome \in Outcomes :
          /\ Send(n, u, outcome)
          /\ left' = [left EXCEPT ![n] = @ \ {u}]
          /\ IF outcome = "id"
             THEN mids' = [mids EXCEPT ![n] = @ \cup {u}] /\ UNCHANGED failed
             ELSE failed' = [failed EXCEPT ![n] = @ \cup {u}] /\ UNCHANGED mids
    BY <1>4 DEF SendFirst
  <2>2. u \in Staff
    BY DEF TypeOK
  <2>3. /\ left' \in [Notices -> SUBSET Staff]
        /\ failed' \in [Notices -> SUBSET Staff]
        /\ mids' \in [Notices -> SUBSET Staff]
    <3>1. ASSUME NEW f \in [Notices -> SUBSET Staff]
          PROVE  /\ [f EXCEPT ![n] = @ \ {u}] \in [Notices -> SUBSET Staff]
                 /\ [f EXCEPT ![n] = @ \cup {u}] \in [Notices -> SUBSET Staff]
      BY <2>2
    <3>2. /\ left \in [Notices -> SUBSET Staff]
          /\ failed \in [Notices -> SUBSET Staff]
          /\ mids \in [Notices -> SUBSET Staff]
      BY DEF TypeOK
    <3>3. CASE outcome = "id"
      BY <2>1, <3>1, <3>2, <3>3
    <3>4. CASE outcome # "id"
      BY <2>1, <3>1, <3>2, <3>4
    <3> QED
      BY <3>3, <3>4
  <2>4. UNCHANGED <<pc, saved, queue, wpc, item, faults>>
    BY <1>4 DEF SendFirst, workerVars
  <2> QED
    BY <1>1, <2>1, <2>2, <2>3, <2>4, SendCounts DEF TypeOK
<1>5. CASE SmsRaises(n)
  BY <1>1, <1>5 DEF SmsRaises, Fault, TypeOK, Goto, workerVars, countVars
<1>6. CASE MaxRaises(n)
  <2>1. PICK u \in left[n] : Send(n, u, "no id")
    BY <1>6 DEF MaxRaises
  <2>2. u \in Staff /\ "no id" \in Outcomes
    BY DEF TypeOK, Outcomes
  <2>3. /\ tries' \in [Notices -> [Staff -> Nat]]
        /\ arrived' \in [Notices -> [Staff -> Nat]]
        /\ unsure' \in [Notices -> [Staff -> Nat]]
    BY <2>1, <2>2, SendCounts
  <2>4. faults \in 0 .. MaxFaults
    BY DEF TypeOK
  <2>5. /\ pc' = [pc EXCEPT ![n] = "done"]
        /\ faults' \in 0 .. MaxFaults
        /\ UNCHANGED <<left, failed, mids, saved, queue, wpc, item>>
    <3>1. Fault /\ Goto(n, "done")
          /\ UNCHANGED <<left, failed, mids, saved, workerVars>>
      BY <1>6 DEF MaxRaises
    <3> HIDE DEF TInv
    <3> QED
      BY <2>4, <3>1 DEF Fault, Goto, workerVars
  <2> QED
    BY <1>1, <2>3, <2>5 DEF TypeOK
<1>7. CASE Gathered(n)
  BY <1>1, <1>7 DEF Gathered, TypeOK, Goto, workerVars, countVars
<1>8. CASE PushFailed(n)
  BY <1>1, <1>2, <1>8 DEF PushFailed, TypeOK, countVars
<1>9. CASE PushError(n)
  <2>1. queue' \in Seq(Entry)
    <3>1. PICK u \in Staff :
             \/ UNCHANGED queue
             \/ queue' = Append(queue,
                               [notice |-> n, uid |-> u, retries |-> 0])
      BY <1>9 DEF PushError, TypeOK
    <3> DEFINE e == [notice |-> n, uid |-> u, retries |-> 0]
    <3>2. e \in Entry
      BY <1>2
    <3> HIDE DEF e
    <3>3. UNCHANGED queue \/ queue' = Append(queue, e)
      BY <3>1 DEF e
    <3>4. queue \in Seq(Entry)
      BY DEF TypeOK
    <3> QED
      BY <3>2, <3>3, <3>4
  <2> QED
    BY <1>1, <1>9, <2>1 DEF PushError, Fault, TypeOK, Goto, countVars
<1>10. CASE Notified(n)
  BY <1>1, <1>10 DEF Notified, TypeOK, Goto, workerVars, countVars
<1> QED
  BY <1>3, <1>4, <1>5, <1>6, <1>7, <1>8, <1>9, <1>10 DEF Inform

LEMMA TInvWorker ==
    ASSUME TInv, NEW w \in Workers,
           \/ Work(w) \/ PushBackError(w) \/ PopError(w)
           \/ RetryRaises(w) \/ Crash(w)
    PROVE  TInv'
<1> USE QueueAssumption DEF TInv
<1>1. ASSUME \A v \in Workers \ {w} : wpc'[v] = wpc[v] /\ item'[v] = item[v],
             WorkerOK(w)'
      PROVE  \A v \in Workers : WorkerOK(v)'
  BY <1>1 DEF WorkerOK
<1>2. CASE Wake(w)
  <2>1. WorkerOK(w)'
    BY <1>2 DEF Wake, WorkerOK, WorkerGoto, TypeOK
  <2> QED
    BY <1>1, <1>2, <2>1 DEF Wake, WorkerGoto, TypeOK, senderVars, countVars
<1>3. CASE PopNothing(w)
  <2>1. WorkerOK(w)'
    BY <1>3 DEF PopNothing, WorkerOK, WorkerGoto, TypeOK
  <2> QED
    BY <1>1, <1>3, <2>1
       DEF PopNothing, WorkerGoto, TypeOK, senderVars, countVars
<1>4. CASE Pop(w)
  <2>1. Head(queue) \in Entry /\ Tail(queue) \in Seq(Entry)
    BY <1>4 DEF Pop, TypeOK
  <2>2. WorkerOK(w)'
    BY <1>4, <2>1, EntryIsItem DEF Pop, WorkerOK, WorkerGoto, TypeOK
  <2> QED
    BY <1>1, <1>4, <2>1, <2>2
       DEF Pop, WorkerGoto, TypeOK, senderVars, countVars
<1>5. CASE Drop(w)
  <2>1. WorkerOK(w)'
    BY <1>5 DEF Drop, WorkerOK, WorkerGoto, TypeOK
  <2> QED
    BY <1>1, <1>5, <2>1 DEF Drop, WorkerGoto, TypeOK, senderVars, countVars
<1>6. CASE Retry(w)
  <2>1. PICK outcome \in Outcomes :
          /\ Send(item[w].notice, item[w].uid, outcome)
          /\ IF outcome = "id"
             THEN item' = [item EXCEPT ![w] = NoItem] /\ WorkerGoto(w, "pop")
             ELSE UNCHANGED item /\ WorkerGoto(w, "push")
    BY <1>6 DEF Retry
  <2>2. item[w] \in Entry /\ item[w].retries < MaxRetries
    BY <1>6 DEF Retry, WorkerOK
  <2>3. item[w].notice \in Notices /\ item[w].uid \in Staff
    BY <2>2 DEF Entry
  <2>4. WorkerOK(w)'
    BY <1>6, <2>1, <2>2, EntryIsItem DEF WorkerOK, WorkerGoto, TypeOK
  <2>5. /\ item' \in [Workers -> Entry \cup {NoItem}]
        /\ wpc' \in [Workers -> {"asleep", "pop", "popped", "push"}]
        /\ \A v \in Workers \ {w} : wpc'[v] = wpc[v] /\ item'[v] = item[v]
    BY <2>1 DEF TypeOK, WorkerGoto
  <2> QED
    BY <1>1, <1>6, <2>1, <2>3, <2>4, <2>5, SendCounts
       DEF Retry, TypeOK, senderVars
<1>7. CASE PushBack(w)
  <2>1. item[w] \in Entry /\ item[w].retries < MaxRetries
    BY <1>7 DEF PushBack, WorkerOK
  <2>2. [item[w] EXCEPT !.retries = @ + 1] \in Entry
    BY <2>1 DEF Entry
  <2>3. WorkerOK(w)'
    BY <1>7 DEF PushBack, WorkerOK, WorkerGoto, TypeOK
  <2> QED
    BY <1>1, <1>7, <2>2, <2>3
       DEF PushBack, WorkerGoto, TypeOK, senderVars, countVars
<1>8. CASE PushBackError(w)
  <2>1. item[w] \in Entry /\ item[w].retries < MaxRetries
    BY <1>8 DEF PushBackError, WorkerOK
  <2> DEFINE counted == [item[w] EXCEPT !.retries = @ + 1]
  <2>2. counted \in Entry
    BY <2>1 DEF Entry
  <2> HIDE DEF counted
  <2>3. PICK a, b \in BOOLEAN :
           queue' = queue \o (IF a THEN <<counted>> ELSE <<>>)
                          \o (IF b THEN <<item[w]>> ELSE <<>>)
    BY <1>8 DEF PushBackError, counted
  <2>4. queue' \in Seq(Entry)
    BY <2>1, <2>2, <2>3 DEF TypeOK
  <2>5. WorkerOK(w)'
    BY <1>8 DEF PushBackError, WorkerOK, WorkerGoto, TypeOK
  <2> QED
    BY <1>1, <1>8, <2>4, <2>5
       DEF PushBackError, Fault, WorkerGoto, TypeOK, senderVars, countVars
<1>9. CASE PopError(w)
  <2>1. queue' \in Seq(Entry)
    <3>1. queue' = queue \/ (queue # <<>> /\ queue' = Tail(queue))
      BY <1>9 DEF PopError
    <3>2. queue \in Seq(Entry)
      BY DEF TypeOK
    <3> QED
      BY <3>1, <3>2
  <2>2. WorkerOK(w)'
    BY <1>9 DEF PopError, WorkerOK, WorkerGoto, TypeOK
  <2> QED
    BY <1>1, <1>9, <2>1, <2>2
       DEF PopError, Fault, WorkerGoto, TypeOK, senderVars, countVars
<1>10. CASE RetryRaises(w)
  <2>1. item[w] \in Entry
    BY <1>10 DEF RetryRaises, WorkerOK
  <2>2. item[w].notice \in Notices /\ item[w].uid \in Staff
    BY <2>1 DEF Entry
  <2>3. "no id" \in Outcomes
    BY DEF Outcomes
  <2>4. WorkerOK(w)'
    BY <1>10 DEF RetryRaises, WorkerOK, WorkerGoto, TypeOK
  <2>5. /\ tries' \in [Notices -> [Staff -> Nat]]
        /\ arrived' \in [Notices -> [Staff -> Nat]]
        /\ unsure' \in [Notices -> [Staff -> Nat]]
    BY <1>10, <2>2, <2>3, SendCounts DEF RetryRaises
  <2>6. /\ queue' \in {queue, Append(queue, item[w])}
        /\ item' = [item EXCEPT ![w] = NoItem]
        /\ wpc' = [wpc EXCEPT ![w] = "asleep"]
        /\ faults' \in 0 .. MaxFaults
        /\ UNCHANGED <<pc, left, failed, mids, saved>>
    <3>1. faults \in 0 .. MaxFaults
      BY DEF TypeOK
    <3>2. /\ Fault /\ WorkerGoto(w, "asleep") /\ UNCHANGED senderVars
          /\ queue' \in {queue, Append(queue, item[w])}
          /\ item' = [item EXCEPT ![w] = NoItem]
      BY <1>10 DEF RetryRaises
    <3> HIDE DEF TInv
    <3> QED
      BY <3>1, <3>2 DEF Fault, WorkerGoto, senderVars
  <2>7. queue' \in Seq(Entry)
    <3>1. queue \in Seq(Entry)
      BY DEF TypeOK
    <3> QED
      BY <2>1, <2>6, <3>1
  <2> QED
    BY <1>1, <2>4, <2>5, <2>6, <2>7 DEF TypeOK
<1>11. CASE Crash(w)
  <2>1. WorkerOK(w)'
    BY <1>11 DEF Crash, WorkerOK, WorkerGoto, TypeOK
  <2> QED
    BY <1>1, <1>11, <2>1
       DEF Crash, Fault, WorkerGoto, TypeOK, countVars
<1> QED
  BY <1>2, <1>3, <1>4, <1>5, <1>6, <1>7, <1>8, <1>9, <1>10, <1>11 DEF Work

LEMMA TInvStep == TInv /\ [Next]_vars => TInv'
<1> SUFFICES ASSUME TInv, [Next]_vars PROVE TInv'
  OBVIOUS
<1>1. CASE UNCHANGED vars
  BY <1>1 DEF vars, senderVars, workerVars, countVars, TInv, TypeOK, WorkerOK
<1> QED
  BY <1>1, TInvNotification, TInvWorker DEF Next

LEMMA TInvHolds == Spec => []TInv
BY TInvInit, TInvStep, PTL DEF Spec

\* The variables keep their types; in particular no entry of the list has
\* more than MaxRetries retries, through every fault.
THEOREM QueueTypeCorrect == Spec => []TypeOK
BY TInvHolds, PTL DEF TInv

----------------------------------------------------------------------------
(* Without faults, one of these holds of a notice and a member of the      *)
(* staff at any time: it is still to be sent, has failed and is to be      *)
(* queued, is in the list, is in the hands of one worker, or is settled.   *)

Same(e, f) == e.notice = f.notice /\ e.uid = f.uid

\* What holds of the notice and the person of an entry, wherever it is.
EntryOK(e) ==
    /\ pc[e.notice] # "idle"
    /\ e.uid \notin left[e.notice]
    /\ e.uid \notin failed[e.notice]
    /\ arrived[e.notice][e.uid] = unsure[e.notice][e.uid]

ListOK ==
    \A i \in 1 .. Len(queue) :
        /\ EntryOK(queue[i])
        /\ tries[queue[i].notice][queue[i].uid] = 1 + queue[i].retries

HandsOK ==
    \A w \in Workers : item[w] # NoItem =>
        /\ EntryOK(item[w])
        /\ wpc[w] = "popped" =>
              tries[item[w].notice][item[w].uid] = 1 + item[w].retries
        /\ wpc[w] = "push" =>
              tries[item[w].notice][item[w].uid] = 2 + item[w].retries

Apart ==
    /\ \A i, j \in 1 .. Len(queue) : i # j => ~Same(queue[i], queue[j])
    /\ \A i \in 1 .. Len(queue), w \in Workers :
          item[w] # NoItem => ~Same(queue[i], item[w])
    /\ \A v, w \in Workers :
          v # w /\ item[v] # NoItem /\ item[w] # NoItem =>
              ~Same(item[v], item[w])

\* Nobody has to think of it any more: it arrived and its id came back, or
\* every attempt was used.
Settled(n, u) ==
    \/ /\ arrived[n][u] = 1 + unsure[n][u]
       /\ u \in mids[n] \/ tries[n][u] > 1
    \/ tries[n][u] = 1 + MaxRetries

PairOK(n, u) ==
    /\ pc[n] = "idle" \/ u \in left[n] =>
          /\ tries[n][u] = 0 /\ arrived[n][u] = 0 /\ unsure[n][u] = 0
          /\ u \notin failed[n]
    /\ pc[n] = "idle" => u \notin left[n]
    /\ u \in failed[n] => tries[n][u] = 1 /\ arrived[n][u] = unsure[n][u]
    /\ tries[n][u] <= 1 + MaxRetries
    /\ arrived[n][u] <= 1 + unsure[n][u]
    /\ pc[n] # "idle" /\ u \notin left[n] /\ u \notin failed[n] =>
          InQueue(n, u) \/ Settled(n, u)

NoticeOK(n) ==
    /\ pc[n] # "abandoned"
    /\ pc[n] \in {"pushing", "done"} => left[n] = {}
    /\ pc[n] = "done" => failed[n] = {} /\ saved[n] = mids[n]

Pairs == \A n \in Notices, u \in Staff : PairOK(n, u)

Core == /\ ListOK /\ HandsOK /\ Apart /\ Pairs
        /\ \A n \in Notices : NoticeOK(n)

LEMMA EntriesTyped ==
    ASSUME TInv
    PROVE  /\ \A i \in 1 .. Len(queue) : queue[i] \in Entry
           /\ \A w \in Workers : item[w] # NoItem => item[w] \in Entry
           /\ \A e \in Entry : e.notice \in Notices /\ e.uid \in Staff
                                /\ e.retries \in 0 .. MaxRetries
<1>1. \A i \in 1 .. Len(queue) : queue[i] \in Entry
  BY DEF TInv, TypeOK
<1>2. \A w \in Workers : item[w] # NoItem => item[w] \in Entry
  BY DEF TInv, WorkerOK
<1> QED
  BY <1>1, <1>2 DEF Entry

LEMMA CoreInit == Init => Core
<1> SUFFICES ASSUME Init PROVE Core
  OBVIOUS
<1>1. queue = <<>> /\ \A w \in Workers : item[w] = NoItem
  BY DEF Init
<1>2. ListOK /\ HandsOK /\ Apart
  BY <1>1 DEF ListOK, HandsOK, Apart
<1>3. ASSUME NEW n \in Notices, NEW u \in Staff
      PROVE  /\ pc[n] = "idle" /\ left[n] = {} /\ failed[n] = {}
             /\ tries[n][u] = 0 /\ arrived[n][u] = 0 /\ unsure[n][u] = 0
  BY DEF Init, Nobody, Never
<1>4. Pairs
  BY <1>3, QueueAssumption DEF Pairs, PairOK
<1>5. ASSUME NEW n \in Notices PROVE NoticeOK(n)
  BY DEF Init, NoticeOK
<1> QED
  BY <1>2, <1>4, <1>5 DEF Core

\* A step that leaves the list and the hands alone, and everything known of
\* the entries in them.
LEMMA EntriesKept ==
    ASSUME TInv, ListOK, HandsOK, Apart, UNCHANGED workerVars,
           \A e \in Entry : EntryOK(e) =>
              /\ EntryOK(e)'
              /\ tries'[e.notice][e.uid] = tries[e.notice][e.uid]
    PROVE  ListOK' /\ HandsOK' /\ Apart'
<1>1. queue' = queue /\ item' = item /\ wpc' = wpc
  BY DEF workerVars
<1>2. Apart'
  BY <1>1 DEF Apart
<1>3. ASSUME NEW i \in 1 .. Len(queue)
      PROVE  /\ EntryOK(queue[i])'
             /\ tries'[queue[i].notice][queue[i].uid] = 1 + queue[i].retries
  <2>1. queue[i] \in Entry /\ EntryOK(queue[i])
    BY EntriesTyped DEF ListOK
  <2> QED
    BY <1>1, <2>1 DEF ListOK, EntryOK
<1>4. ASSUME NEW w \in Workers, item[w] # NoItem
      PROVE  /\ EntryOK(item[w])'
             /\ tries'[item[w].notice][item[w].uid]
                   = tries[item[w].notice][item[w].uid]
  <2>1. item[w] \in Entry /\ EntryOK(item[w])
    BY <1>4, EntriesTyped DEF HandsOK
  <2> QED
    BY <1>1, <2>1 DEF EntryOK
<1>5. ListOK'
  BY <1>1, <1>3 DEF ListOK
<1>6. HandsOK'
  BY <1>1, <1>4 DEF HandsOK
<1> QED
  BY <1>2, <1>5, <1>6

LEMMA CoreNotify ==
    ASSUME TInv, Core, NEW n \in Notices, Notify(n) PROVE Core'
<1>1. /\ pc[n] = "idle"
      /\ pc' = [pc EXCEPT ![n] = "sending"]
      /\ left' = [left EXCEPT ![n] = Staff]
      /\ UNCHANGED <<failed, mids, saved, queue, wpc, item>>
      /\ UNCHANGED <<tries, arrived, unsure>>
  BY DEF Notify, Goto, workerVars, countVars
<1>2. /\ pc \in [Notices -> {"idle", "sending", "abandoned", "pushing", "done"}]
      /\ left \in [Notices -> SUBSET Staff]
  BY DEF TInv, TypeOK
<1>3. /\ pc'[n] = "sending" /\ left'[n] = Staff
      /\ \A m \in Notices \ {n} : pc'[m] = pc[m] /\ left'[m] = left[m]
  BY <1>1, <1>2
<1>4. ASSUME NEW e \in Entry, EntryOK(e) PROVE EntryOK(e)'
  <2>1. e.notice \in Notices /\ e.notice # n
    BY <1>1, <1>4, EntriesTyped DEF EntryOK
  <2> QED
    BY <1>1, <1>3, <1>4, <2>1 DEF EntryOK
<1>5. ListOK' /\ HandsOK' /\ Apart'
  BY <1>1, <1>4, EntriesKept DEF Core, workerVars
<1>6. ASSUME NEW m \in Notices, NEW u \in Staff PROVE PairOK(m, u)'
  <2>1. PairOK(m, u)
    BY DEF Core, Pairs
  <2>2. InQueue(m, u)' <=> InQueue(m, u)
    BY <1>1 DEF InQueue
  <2> QED
    BY <1>1, <1>3, <2>1, <2>2 DEF PairOK, Settled
<1>7. ASSUME NEW m \in Notices PROVE NoticeOK(m)'
  BY <1>1, <1>3 DEF Core, NoticeOK
<1> QED
  BY <1>5, <1>6, <1>7 DEF Core, Pairs

LEMMA CoreSendFirst ==
    ASSUME TInv, Core, NEW n \in Notices, SendFirst(n) PROVE Core'
<1>1. PICK u \in left[n], outcome \in Outcomes :
        /\ Send(n, u, outcome)
        /\ left' = [left EXCEPT ![n] = @ \ {u}]
        /\ IF outcome = "id"
           THEN mids' = [mids EXCEPT ![n] = @ \cup {u}] /\ UNCHANGED failed
           ELSE failed' = [failed EXCEPT ![n] = @ \cup {u}] /\ UNCHANGED mids
  BY DEF SendFirst
<1>2. /\ pc[n] \in {"sending", "abandoned"}
      /\ UNCHANGED <<pc, saved, queue, wpc, item>>
  BY DEF SendFirst, workerVars
<1>3. /\ left \in [Notices -> SUBSET Staff]
      /\ failed \in [Notices -> SUBSET Staff]
      /\ mids \in [Notices -> SUBSET Staff]
  BY DEF TInv, TypeOK
<1>4. u \in Staff
  BY <1>3
<1>5. /\ left'[n] = left[n] \ {u}
      /\ \A m \in Notices \ {n} : /\ left'[m] = left[m]
                                   /\ failed'[m] = failed[m]
                                   /\ mids'[m] = mids[m]
  BY <1>1, <1>3
<1>6. /\ outcome = "id" => /\ mids'[n] = mids[n] \cup {u}
                           /\ failed'[n] = failed[n]
      /\ outcome # "id" => /\ failed'[n] = failed[n] \cup {u}
                           /\ mids'[n] = mids[n]
  BY <1>1, <1>3
<1>7. /\ tries'[n][u] = tries[n][u] + 1
      /\ outcome = "id" => /\ arrived'[n][u] = arrived[n][u] + 1
                           /\ unsure'[n][u] = unsure[n][u]
      /\ outcome = "no id" => /\ arrived'[n][u] = arrived[n][u] + 1
                              /\ unsure'[n][u] = unsure[n][u] + 1
      /\ outcome = "lost" => /\ arrived'[n][u] = arrived[n][u]
                             /\ unsure'[n][u] = unsure[n][u]
      /\ \A m \in Notices, v \in Staff : m # n \/ v # u =>
            /\ tries'[m][v] = tries[m][v]
            /\ arrived'[m][v] = arrived[m][v]
            /\ unsure'[m][v] = unsure[m][v]
  BY <1>1, <1>4, SendCounts DEF TInv
<1>8. ASSUME NEW e \in Entry, EntryOK(e)
      PROVE  EntryOK(e)' /\ tries'[e.notice][e.uid] = tries[e.notice][e.uid]
  <2>1. e.notice \in Notices /\ e.uid \in Staff
    BY EntriesTyped
  <2>2. e.notice # n \/ e.uid # u
    BY <1>8 DEF EntryOK
  <2> QED
    BY ZenonT(60), <1>2, <1>5, <1>6, <1>7, <1>8, <2>1, <2>2 DEF EntryOK
<1>9. ListOK' /\ HandsOK' /\ Apart'
  BY <1>2, <1>8, EntriesKept DEF Core, workerVars
<1>10. ASSUME NEW m \in Notices, NEW v \in Staff PROVE PairOK(m, v)'
  <2>1. PairOK(m, v)
    BY DEF Core, Pairs
  <2>2. InQueue(m, v)' <=> InQueue(m, v)
    BY <1>2 DEF InQueue
  <2>3. CASE m = n /\ v = u
    <3>1. tries[n][u] = 0 /\ arrived[n][u] = 0 /\ unsure[n][u] = 0
          /\ u \notin failed[n]
      BY <2>1, <2>3 DEF PairOK
    <3>2. outcome \in {"id", "no id", "lost"}
      BY DEF Outcomes
    <3>3. u \notin left'[n] /\ pc'[n] # "idle" /\ tries'[n][u] = 1
      <4>1. u \notin left'[n]
        BY <1>5
      <4>2. pc'[n] # "idle"
        BY <1>2
      <4>3. tries'[n][u] = 1
        <5>1. tries'[n][u] = tries[n][u] + 1
          BY <1>7
        <5>2. tries[n][u] = 0
          BY <3>1
        <5> QED
          BY <5>1, <5>2
      <4> QED
        BY <4>1, <4>2, <4>3
    <3>4. CASE outcome = "id"
      <4>1. /\ arrived'[n][u] = 1 /\ unsure'[n][u] = 0
            /\ u \in mids'[n] /\ u \notin failed'[n]
        BY <1>6, <1>7, <3>1, <3>4
      <4> QED
        BY <2>3, <3>3, <4>1, QueueAssumption DEF PairOK, Settled
    <3>5. CASE outcome # "id"
      <4>1. /\ arrived'[n][u] = unsure'[n][u] /\ unsure'[n][u] \in {0, 1}
            /\ u \in failed'[n]
        <5>1. u \in failed'[n]
          BY <1>6, <3>5
        <5>2. CASE outcome = "no id"
          <6>1. /\ arrived'[n][u] = arrived[n][u] + 1
                /\ unsure'[n][u] = unsure[n][u] + 1
            BY <1>7, <5>2
          <6>2. arrived[n][u] = 0 /\ unsure[n][u] = 0
            BY <3>1
          <6> QED
            BY <5>1, <6>1, <6>2
        <5>3. CASE outcome = "lost"
          BY <1>7, <3>1, <5>1, <5>3
        <5> QED
          BY <3>2, <3>5, <5>2, <5>3
      <4> QED
        BY <2>3, <3>3, <4>1, QueueAssumption DEF PairOK
    <3> QED
      BY <3>4, <3>5
  <2>4. CASE m # n \/ v # u
    <3>1. /\ v \in left'[m] <=> v \in left[m]
          /\ v \in failed'[m] <=> v \in failed[m]
          /\ v \in mids'[m] <=> v \in mids[m]
      BY <1>5, <1>6, <2>4
    <3> QED
      BY <1>2, <1>7, <2>1, <2>2, <2>4, <3>1 DEF PairOK, Settled
  <2> QED
    BY <2>3, <2>4
<1>11. ASSUME NEW m \in Notices PROVE NoticeOK(m)'
  BY <1>2, <1>5 DEF Core, NoticeOK
<1> QED
  BY <1>9, <1>10, <1>11 DEF Core, Pairs

LEMMA CoreGathered ==
    ASSUME TInv, Core, NEW n \in Notices, Gathered(n) PROVE Core'
<1>1. /\ left[n] = {} /\ pc[n] = "sending"
      /\ pc' = [pc EXCEPT ![n] = "pushing"]
      /\ UNCHANGED <<left, failed, mids, saved, queue, wpc, item>>
      /\ UNCHANGED <<tries, arrived, unsure>>
  BY DEF Gathered, Core, NoticeOK, Goto, workerVars, countVars
<1>2. pc'[n] = "pushing" /\ \A m \in Notices \ {n} : pc'[m] = pc[m]
  BY <1>1 DEF TInv, TypeOK
<1>3. ASSUME NEW e \in Entry, EntryOK(e) PROVE EntryOK(e)'
  <2>1. e.notice \in Notices
    BY EntriesTyped
  <2> QED
    BY <1>1, <1>2, <1>3, <2>1 DEF EntryOK
<1>4. ListOK' /\ HandsOK' /\ Apart'
  BY <1>1, <1>3, EntriesKept DEF Core, workerVars
<1>5. ASSUME NEW m \in Notices, NEW u \in Staff PROVE PairOK(m, u)'
  <2>1. PairOK(m, u) /\ (InQueue(m, u)' <=> InQueue(m, u))
    BY <1>1 DEF Core, Pairs, InQueue
  <2>2. pc'[m] = "idle" <=> pc[m] = "idle"
    BY <1>1, <1>2
  <2> QED
    BY <1>1, <2>1, <2>2 DEF PairOK, Settled
<1>6. ASSUME NEW m \in Notices PROVE NoticeOK(m)'
  BY <1>1, <1>2 DEF Core, NoticeOK
<1> QED
  BY <1>4, <1>5, <1>6 DEF Core, Pairs

LEMMA CoreNotified ==
    ASSUME TInv, Core, NEW n \in Notices, Notified(n) PROVE Core'
<1>1. /\ failed[n] = {} /\ pc[n] = "pushing"
      /\ pc' = [pc EXCEPT ![n] = "done"]
      /\ saved' = [saved EXCEPT ![n] = mids[n]]
      /\ UNCHANGED <<left, failed, mids, queue, wpc, item>>
      /\ UNCHANGED <<tries, arrived, unsure>>
  BY DEF Notified, Goto, workerVars, countVars
<1>2. /\ pc'[n] = "done" /\ saved'[n] = mids[n]
      /\ \A m \in Notices \ {n} : pc'[m] = pc[m] /\ saved'[m] = saved[m]
  BY <1>1 DEF TInv, TypeOK
<1>3. ASSUME NEW e \in Entry, EntryOK(e) PROVE EntryOK(e)'
  <2>1. e.notice \in Notices
    BY EntriesTyped
  <2> QED
    BY <1>1, <1>2, <1>3, <2>1 DEF EntryOK
<1>4. ListOK' /\ HandsOK' /\ Apart'
  BY <1>1, <1>3, EntriesKept DEF Core, workerVars
<1>5. ASSUME NEW m \in Notices, NEW u \in Staff PROVE PairOK(m, u)'
  <2>1. PairOK(m, u) /\ (InQueue(m, u)' <=> InQueue(m, u))
    BY <1>1 DEF Core, Pairs, InQueue
  <2>2. pc'[m] = "idle" <=> pc[m] = "idle"
    BY <1>1, <1>2
  <2> QED
    BY <1>1, <2>1, <2>2 DEF PairOK, Settled
<1>6. ASSUME NEW m \in Notices PROVE NoticeOK(m)'
  BY <1>1, <1>2 DEF Core, NoticeOK
<1> QED
  BY <1>4, <1>5, <1>6 DEF Core, Pairs

LEMMA CorePushFailed ==
    ASSUME TInv, Core, NEW n \in Notices, PushFailed(n) PROVE Core'
<1>1. PICK u \in failed[n] :
        /\ queue' = Append(queue, [notice |-> n, uid |-> u, retries |-> 0])
        /\ failed' = [failed EXCEPT ![n] = @ \ {u}]
  BY DEF PushFailed
<1> DEFINE new == [notice |-> n, uid |-> u, retries |-> 0]
<1>2. /\ new.notice = n /\ new.uid = u /\ new.retries = 0
  OBVIOUS
<1>3. queue' = Append(queue, new)
  BY <1>1
<1> HIDE DEF new
<1>4. /\ pc[n] = "pushing"
      /\ UNCHANGED <<pc, left, mids, saved, wpc, item, tries, arrived, unsure>>
  BY DEF PushFailed, countVars
<1>5. failed \in [Notices -> SUBSET Staff]
  BY DEF TInv, TypeOK
<1>6. /\ u \in Staff /\ failed'[n] = failed[n] \ {u}
      /\ \A m \in Notices \ {n} : failed'[m] = failed[m]
  BY <1>1, <1>5
<1>7. /\ tries[n][u] = 1 /\ arrived[n][u] = unsure[n][u]
  BY <1>6 DEF Core, Pairs, PairOK
<1>8. left[n] = {}
  BY <1>4 DEF Core, NoticeOK
<1>9. ASSUME NEW e \in Entry, EntryOK(e) PROVE EntryOK(e)' /\ ~Same(e, new)
  <2>1. e.notice \in Notices /\ (e.notice # n \/ e.uid # u)
    BY <1>9, EntriesTyped DEF EntryOK
  <2> QED
    BY <1>2, <1>4, <1>6, <1>9, <2>1 DEF EntryOK, Same
<1>10. EntryOK(new)'
  BY <1>2, <1>4, <1>6, <1>7, <1>8 DEF EntryOK
<1>11. queue \in Seq(Entry)
  BY DEF TInv, TypeOK
<1>12. /\ Len(queue') = Len(queue) + 1
       /\ \A i \in 1 .. Len(queue) : queue'[i] = queue[i]
       /\ queue'[Len(queue) + 1] = new
       /\ \A i \in 1 .. Len(queue') :
             i \in 1 .. Len(queue) \/ i = Len(queue) + 1
  BY <1>3, <1>11
<1>13. ASSUME NEW i \in 1 .. Len(queue)
       PROVE  /\ EntryOK(queue[i]) /\ queue[i] \in Entry
              /\ tries[queue[i].notice][queue[i].uid] = 1 + queue[i].retries
  BY EntriesTyped DEF Core, ListOK
<1>14. ASSUME NEW w \in Workers, item[w] # NoItem
       PROVE  EntryOK(item[w]) /\ item[w] \in Entry
  BY <1>14, EntriesTyped DEF Core, HandsOK
<1>15. ListOK'
  <2>1. ASSUME NEW i \in 1 .. Len(queue')
        PROVE  (/\ EntryOK(queue[i])
                /\ tries[queue[i].notice][queue[i].uid]
                     = 1 + queue[i].retries)'
    <3>1. CASE i \in 1 .. Len(queue)
      <4>1. queue'[i] = queue[i]
        BY <1>12, <3>1
      <4> QED
        BY <1>4, <1>9, <1>13, <3>1, <4>1 DEF EntryOK
    <3>2. CASE i = Len(queue) + 1
      <4>1. queue'[i] = new
        BY <1>12, <3>2
      <4>2. tries'[n][u] = 1 + 0
        BY <1>4, <1>7
      <4> QED
        BY <1>2, <1>10, <4>1, <4>2 DEF EntryOK
    <3> QED
      BY <1>12, <3>1, <3>2
  <2> QED
    BY <2>1 DEF ListOK
<1>16. HandsOK'
  BY <1>4, <1>9, <1>14 DEF Core, HandsOK, EntryOK
<1>17. Apart'
  <2>1. \A i \in 1 .. Len(queue) : ~Same(queue[i], new)
    BY <1>9, <1>13
  <2>2. \A w \in Workers : item[w] # NoItem => ~Same(new, item[w])
    BY <1>9, <1>14 DEF Same
  <2> QED
    BY <1>4, <1>12, <2>1, <2>2 DEF Core, Apart, Same
<1>18. ASSUME NEW m \in Notices, NEW v \in Staff PROVE PairOK(m, v)'
  <2>1. PairOK(m, v)
    BY DEF Core, Pairs
  <2>2. InQueue(m, v) => InQueue(m, v)'
    BY <1>4, <1>12 DEF InQueue
  <2>3. InQueue(n, u)'
    BY <1>2, <1>12 DEF InQueue
  <2>4. v \in failed'[m] => v \in failed[m]
    BY <1>6
  <2>5. v \in failed[m] => v \in failed'[m] \/ (m = n /\ v = u)
    BY <1>6
  <2> QED
    BY <1>4, <2>1, <2>2, <2>3, <2>4, <2>5 DEF PairOK, Settled
<1>19. ASSUME NEW m \in Notices PROVE NoticeOK(m)'
  BY <1>4, <1>6 DEF Core, NoticeOK
<1> QED
  BY <1>15, <1>16, <1>17, <1>18, <1>19 DEF Core, Pairs

\* The workers that hold nothing.
LEMMA CoreIdleWorker ==
    ASSUME TInv, Core, NEW w \in Workers, Wake(w) \/ PopNothing(w)
    PROVE  Core'
<1>1. /\ UNCHANGED <<pc, left, failed, mids, saved, queue, item>>
      /\ UNCHANGED <<tries, arrived, unsure>>
  BY DEF Wake, PopNothing, senderVars, countVars
<1>2. item[w] = NoItem /\ \A v \in Workers \ {w} : wpc'[v] = wpc[v]
  BY DEF Wake, PopNothing, WorkerGoto, TInv, TypeOK, WorkerOK
<1>3. ListOK' /\ Apart' /\ Pairs'
  BY <1>1 DEF Core, ListOK, Apart, Pairs, PairOK, EntryOK, InQueue, Settled
<1>4. HandsOK'
  BY <1>1, <1>2 DEF Core, HandsOK, EntryOK
<1>5. ASSUME NEW n \in Notices PROVE NoticeOK(n)'
  BY <1>1 DEF Core, NoticeOK
<1> QED
  BY <1>3, <1>4, <1>5 DEF Core

LEMMA CorePop ==
    ASSUME TInv, Core, NEW w \in Workers, Pop(w) PROVE Core'
<1>1. /\ UNCHANGED <<pc, left, failed, mids, saved, tries, arrived, unsure>>
      /\ queue # <<>> /\ queue' = Tail(queue)
      /\ item' = [item EXCEPT ![w] = Head(queue)]
      /\ wpc[w] = "pop" /\ wpc' = [wpc EXCEPT ![w] = "popped"]
  BY DEF Pop, WorkerGoto, senderVars, countVars
<1>2. queue \in Seq(Entry)
  BY DEF TInv, TypeOK
<1>3. /\ Len(queue') = Len(queue) - 1 /\ 1 \in 1 .. Len(queue)
      /\ \A i \in 1 .. Len(queue') : /\ queue'[i] = queue[i + 1]
                                     /\ i + 1 \in 1 .. Len(queue)
      /\ \A i \in 1 .. Len(queue) : i = 1 \/ i - 1 \in 1 .. Len(queue')
  BY <1>1, <1>2
<1>4. item[w] = NoItem
  BY <1>1 DEF TInv, WorkerOK
<1>5. /\ item'[w] = queue[1] /\ wpc'[w] = "popped" /\ queue[1] # NoItem
      /\ \A v \in Workers \ {w} : item'[v] = item[v] /\ wpc'[v] = wpc[v]
  BY <1>1, <1>2, <1>3, EntryIsItem DEF TInv, TypeOK
<1>6. ListOK'
  BY <1>1, <1>3 DEF Core, ListOK, EntryOK
<1>7. HandsOK'
  BY <1>1, <1>3, <1>5 DEF Core, ListOK, HandsOK, EntryOK
<1>8. Apart'
  <2>1. \A i, j \in 1 .. Len(queue') :
           i # j => ~Same(queue'[i], queue'[j])
    BY <1>3 DEF Core, Apart
  <2>2. \A i \in 1 .. Len(queue'), v \in Workers :
           item'[v] # NoItem => ~Same(queue'[i], item'[v])
    BY <1>3, <1>5 DEF Core, Apart, Same
  <2>3. \A u, v \in Workers :
           u # v /\ item'[u] # NoItem /\ item'[v] # NoItem =>
              ~Same(item'[u], item'[v])
    BY <1>3, <1>5 DEF Core, Apart, Same
  <2> QED
    BY <2>1, <2>2, <2>3 DEF Apart, Same
<1>9. ASSUME NEW n \in Notices, NEW u \in Staff PROVE PairOK(n, u)'
  <2>1. PairOK(n, u)
    BY DEF Core, Pairs
  <2>2. InQueue(n, u) => InQueue(n, u)'
    <3>1. ASSUME NEW i \in 1 .. Len(queue),
                 queue[i].notice = n, queue[i].uid = u
          PROVE  InQueue(n, u)'
      <4>1. CASE i = 1
        BY <1>5, <3>1, <4>1 DEF InQueue
      <4>2. CASE i # 1
        <5>1. i - 1 \in 1 .. Len(queue') /\ queue'[i - 1] = queue[i]
          BY <1>3, <3>1, <4>2
        <5> QED
          BY <3>1, <5>1 DEF InQueue
      <4> QED
        BY <4>1, <4>2
    <3>2. ASSUME NEW v \in Workers, item[v] # NoItem,
                 item[v].notice = n, item[v].uid = u
          PROVE  InQueue(n, u)'
      BY <1>4, <1>5, <3>2 DEF InQueue
    <3> QED
      BY <3>1, <3>2 DEF InQueue
  <2> QED
    BY <1>1, <2>1, <2>2 DEF PairOK, Settled
<1>10. ASSUME NEW n \in Notices PROVE NoticeOK(n)'
  BY <1>1 DEF Core, NoticeOK
<1> QED
  BY <1>6, <1>7, <1>8, <1>9, <1>10 DEF Core, Pairs

LEMMA CoreDrop ==
    ASSUME TInv, Core, NEW w \in Workers, Drop(w) PROVE Core'
<1>1. /\ UNCHANGED <<pc, left, failed, mids, saved, queue>>
      /\ UNCHANGED <<tries, arrived, unsure>>
      /\ item' = [item EXCEPT ![w] = NoItem]
      /\ wpc[w] = "popped" /\ wpc' = [wpc EXCEPT ![w] = "asleep"]
      /\ item[w].retries >= MaxRetries
  BY DEF Drop, WorkerGoto, senderVars, countVars
<1>2. /\ item'[w] = NoItem
      /\ \A v \in Workers \ {w} : item'[v] = item[v] /\ wpc'[v] = wpc[v]
  BY <1>1 DEF TInv, TypeOK
<1>3. item[w] # NoItem /\ item[w] \in Entry
  BY <1>1 DEF TInv, WorkerOK
<1>4. tries[item[w].notice][item[w].uid] = 1 + MaxRetries
  <2>1. tries[item[w].notice][item[w].uid] = 1 + item[w].retries
    BY <1>1, <1>3 DEF Core, HandsOK
  <2>2. item[w].retries \in 0 .. MaxRetries
    BY <1>3, EntriesTyped
  <2> QED
    BY <1>1, <2>1, <2>2, QueueAssumption
<1>5. ListOK'
  BY <1>1 DEF Core, ListOK, EntryOK
<1>6. HandsOK'
  BY <1>1, <1>2 DEF Core, HandsOK, EntryOK
<1>7. Apart'
  BY <1>1, <1>2 DEF Core, Apart
<1>8. ASSUME NEW n \in Notices, NEW u \in Staff PROVE PairOK(n, u)'
  <2>1. PairOK(n, u)
    BY DEF Core, Pairs
  <2>2. InQueue(n, u) => InQueue(n, u)'
                           \/ (n = item[w].notice /\ u = item[w].uid)
    BY <1>1, <1>2 DEF InQueue
  <2> QED
    BY <1>1, <1>4, <2>1, <2>2 DEF PairOK, Settled
<1>9. ASSUME NEW n \in Notices PROVE NoticeOK(n)'
  BY <1>1 DEF Core, NoticeOK
<1> QED
  BY <1>5, <1>6, <1>7, <1>8, <1>9 DEF Core, Pairs

LEMMA CoreRetry ==
    ASSUME TInv, Core, NEW w \in Workers, Retry(w) PROVE Core'
<1> DEFINE n == item[w].notice
           u == item[w].uid
<1>1. PICK outcome \in Outcomes :
        /\ Send(n, u, outcome)
        /\ IF outcome = "id"
           THEN item' = [item EXCEPT ![w] = NoItem] /\ WorkerGoto(w, "pop")
           ELSE UNCHANGED item /\ WorkerGoto(w, "push")
  BY DEF Retry
<1>2. /\ UNCHANGED <<pc, left, failed, mids, saved, queue>>
      /\ wpc[w] = "popped" /\ item[w].retries < MaxRetries
  BY DEF Retry, senderVars
<1>3. item[w] # NoItem /\ item[w] \in Entry
  BY <1>2 DEF TInv, WorkerOK
<1>4. /\ n \in Notices /\ u \in Staff /\ item[w].retries \in Nat
      /\ EntryOK(item[w]) /\ tries[n][u] = 1 + item[w].retries
  BY <1>2, <1>3, EntriesTyped DEF Core, HandsOK
<1>5. /\ \A v \in Workers \ {w} : item'[v] = item[v] /\ wpc'[v] = wpc[v]
      /\ outcome = "id" => item'[w] = NoItem /\ wpc'[w] = "pop"
      /\ outcome # "id" => item'[w] = item[w] /\ wpc'[w] = "push"
  BY <1>1 DEF WorkerGoto, TInv, TypeOK
<1>6. TypeOK
  BY DEF TInv
<1>7. tries'[n][u] = 2 + item[w].retries
  <2>1. tries'[n][u] = tries[n][u] + 1
    BY <1>1, <1>4, <1>6, SendCounts
  <2> QED
    BY <1>4, <2>1
<1>8. arrived[n][u] \in Nat /\ unsure[n][u] = arrived[n][u]
  BY <1>4, <1>6 DEF EntryOK, TypeOK
<1>9. \A m \in Notices, v \in Staff : m # n \/ v # u =>
         /\ tries'[m][v] = tries[m][v]
         /\ arrived'[m][v] = arrived[m][v]
         /\ unsure'[m][v] = unsure[m][v]
  BY <1>1, <1>4, <1>6, SendCounts
<1>10. outcome = "id" => arrived'[n][u] = 1 + unsure'[n][u]
  <2>1. outcome = "id" => /\ arrived'[n][u] = arrived[n][u] + 1
                          /\ unsure'[n][u] = unsure[n][u]
    BY ZenonT(60), <1>1, <1>4, <1>6, SendCounts
  <2> QED
    BY <1>8, <2>1
<1>11. outcome # "id" =>
          /\ arrived'[n][u] = unsure'[n][u]
          /\ arrived'[n][u] \in Nat
  <2>1. outcome = "no id" => /\ arrived'[n][u] = arrived[n][u] + 1
                             /\ unsure'[n][u] = unsure[n][u] + 1
    BY <1>1, <1>4, <1>6, SendCounts
  <2>2. outcome = "lost" => /\ arrived'[n][u] = arrived[n][u]
                            /\ unsure'[n][u] = unsure[n][u]
    BY ZenonT(60), <1>1, <1>4, <1>6, SendCounts
  <2>3. CASE outcome = "no id"
    <3>1. /\ arrived'[n][u] = arrived[n][u] + 1
          /\ unsure'[n][u] = unsure[n][u] + 1
      BY <2>1, <2>3
    <3> QED
      BY <1>8, <3>1
  <2>4. CASE outcome = "lost"
    BY <1>8, <2>2, <2>4
  <2> QED
    BY <2>3, <2>4 DEF Outcomes
\* The entry is in these hands only.
<1>12. ASSUME NEW e \in Entry, EntryOK(e), ~Same(e, item[w])
       PROVE  EntryOK(e)' /\ tries'[e.notice][e.uid] = tries[e.notice][e.uid]
  <2>1. e.notice \in Notices /\ e.uid \in Staff
    BY EntriesTyped
  <2>2. e.notice # n \/ e.uid # u
    BY <1>12 DEF Same
  <2> QED
    BY <1>2, <1>9, <1>12, <2>1, <2>2 DEF EntryOK
<1>13. ListOK'
  <2>1. ASSUME NEW i \in 1 .. Len(queue)
        PROVE  /\ queue[i] \in Entry /\ EntryOK(queue[i])
               /\ ~Same(queue[i], item[w])
               /\ tries[queue[i].notice][queue[i].uid] = 1 + queue[i].retries
    BY <1>3, EntriesTyped DEF Core, ListOK, Apart
  <2>2. ASSUME NEW i \in 1 .. Len(queue)
        PROVE  (/\ EntryOK(queue[i])
                /\ tries[queue[i].notice][queue[i].uid]
                     = 1 + queue[i].retries)'
    BY <1>2, <1>12, <2>1 DEF EntryOK
  <2> QED
    BY <1>2, <2>2 DEF ListOK
<1>14. HandsOK'
  <2>1. ASSUME NEW v \in Workers \ {w}, item[v] # NoItem
        PROVE  /\ item[v] \in Entry /\ EntryOK(item[v])
               /\ ~Same(item[v], item[w])
    BY <1>3, <2>1, EntriesTyped DEF Core, HandsOK, Apart
  <2>2. ASSUME NEW v \in Workers \ {w}, item'[v] # NoItem
        PROVE  (/\ EntryOK(item[v])
                /\ wpc[v] = "popped" =>
                     tries[item[v].notice][item[v].uid] = 1 + item[v].retries
                /\ wpc[v] = "push" =>
                     tries[item[v].notice][item[v].uid]
                        = 2 + item[v].retries)'
    <3>1. item'[v] = item[v] /\ wpc'[v] = wpc[v] /\ item[v] # NoItem
      BY <1>5, <2>2
    <3> QED
      BY <1>12, <2>1, <3>1 DEF Core, HandsOK, EntryOK
  <2>3. ASSUME item'[w] # NoItem
        PROVE  (/\ EntryOK(item[w])
                /\ wpc[w] = "popped" =>
                     tries[item[w].notice][item[w].uid] = 1 + item[w].retries
                /\ wpc[w] = "push" =>
                     tries[item[w].notice][item[w].uid]
                        = 2 + item[w].retries)'
    <3>1. item'[w] = item[w] /\ wpc'[w] = "push" /\ outcome # "id"
      BY <1>5, <2>3
    <3> QED
      BY <1>2, <1>4, <1>7, <1>11, <3>1 DEF EntryOK
  <2> QED
    BY <2>2, <2>3 DEF HandsOK
<1>15. Apart'
  BY <1>2, <1>5 DEF Core, Apart
<1>16. ASSUME NEW m \in Notices, NEW v \in Staff PROVE PairOK(m, v)'
  <2>1. PairOK(m, v)
    BY DEF Core, Pairs
  <2>2. CASE m = n /\ v = u
    <3>1. /\ pc'[m] # "idle" /\ v \notin left'[m] /\ v \notin failed'[m]
      BY <1>2, <1>4, <2>2 DEF EntryOK
    <3>2. tries'[m][v] > 1 /\ tries'[m][v] <= 1 + MaxRetries
      BY <1>2, <1>4, <1>7, <2>2, QueueAssumption
    <3>3. CASE outcome = "id"
      <4>1. arrived'[m][v] = 1 + unsure'[m][v]
        BY <1>10, <2>2, <3>3
      <4>2. arrived'[m][v] <= 1 + unsure'[m][v]
        <5>1. unsure' \in [Notices -> [Staff -> Nat]]
          BY <1>1, <1>4, <1>6, SendCounts
        <5>2. unsure'[m][v] \in Nat
          BY <5>1
        <5> QED
          BY <4>1, <5>2
      <4> QED
        BY <3>1, <3>2, <4>1, <4>2 DEF PairOK, Settled
    <3>4. CASE outcome # "id"
      <4>1. arrived'[m][v] <= 1 + unsure'[m][v]
        BY <1>11, <2>2, <3>4
      <4>2. InQueue(m, v)'
        BY <1>3, <1>5, <2>2, <3>4 DEF InQueue
      <4> QED
        BY <3>1, <3>2, <4>1, <4>2 DEF PairOK
    <3> QED
      BY <3>3, <3>4
  <2>3. CASE m # n \/ v # u
    <3>1. InQueue(m, v) => InQueue(m, v)'
      BY <1>2, <1>5, <2>3 DEF InQueue
    <3> QED
      BY <1>2, <1>9, <2>1, <2>3, <3>1 DEF PairOK, Settled
  <2> QED
    BY <2>2, <2>3
<1>17. ASSUME NEW m \in Notices PROVE NoticeOK(m)'
  BY <1>2 DEF Core, NoticeOK
<1> QED
  BY <1>13, <1>14, <1>15, <1>16, <1>17 DEF Core, Pairs

LEMMA CorePushBack ==
    ASSUME TInv, Core, NEW w \in Workers, PushBack(w) PROVE Core'
<1> DEFINE new == [item[w] EXCEPT !.retries = @ + 1]
<1>1. /\ UNCHANGED <<pc, left, failed, mids, saved, tries, arrived, unsure>>
      /\ wpc[w] = "push" /\ wpc' = [wpc EXCEPT ![w] = "asleep"]
      /\ queue' = Append(queue, new)
      /\ item' = [item EXCEPT ![w] = NoItem]
  BY DEF PushBack, WorkerGoto, senderVars, countVars
<1>2. item[w] # NoItem /\ item[w] \in Entry
  BY <1>1 DEF TInv, WorkerOK
<1>3. /\ new.notice = item[w].notice /\ new.uid = item[w].uid
      /\ new.retries = item[w].retries + 1
  BY <1>2 DEF Entry
<1>4. /\ EntryOK(item[w]) /\ item[w].retries \in Nat
      /\ tries[item[w].notice][item[w].uid] = 2 + item[w].retries
  BY <1>1, <1>2, EntriesTyped DEF Core, HandsOK
<1> HIDE DEF new
<1>5. /\ EntryOK(new)
      /\ tries[new.notice][new.uid] = 1 + new.retries
  BY <1>3, <1>4 DEF EntryOK
<1>6. queue \in Seq(Entry)
  BY DEF TInv, TypeOK
<1>7. /\ Len(queue') = Len(queue) + 1
      /\ \A i \in 1 .. Len(queue) : queue'[i] = queue[i]
      /\ queue'[Len(queue) + 1] = new
      /\ \A i \in 1 .. Len(queue') :
            i \in 1 .. Len(queue) \/ i = Len(queue) + 1
  BY <1>1, <1>6
<1>8. /\ item'[w] = NoItem
      /\ \A v \in Workers \ {w} : item'[v] = item[v] /\ wpc'[v] = wpc[v]
  BY <1>1 DEF TInv, TypeOK
<1>9. ListOK'
  BY <1>1, <1>5, <1>7 DEF Core, ListOK, EntryOK
<1>10. HandsOK'
  BY <1>1, <1>8 DEF Core, HandsOK, EntryOK
<1>11. Apart'
  <2>1. \A i \in 1 .. Len(queue) : ~Same(queue[i], new)
    BY <1>2, <1>3 DEF Core, Apart, Same
  <2>2. \A v \in Workers \ {w} : item[v] # NoItem => ~Same(new, item[v])
    BY <1>2, <1>3 DEF Core, Apart, Same
  <2> QED
    BY <1>7, <1>8, <2>1, <2>2 DEF Core, Apart, Same
<1>12. ASSUME NEW n \in Notices, NEW u \in Staff PROVE PairOK(n, u)'
  <2>1. PairOK(n, u)
    BY DEF Core, Pairs
  <2>2. InQueue(n, u) => InQueue(n, u)'
    <3>1. ASSUME NEW i \in 1 .. Len(queue),
                 queue[i].notice = n, queue[i].uid = u
          PROVE  InQueue(n, u)'
      BY <1>7, <3>1 DEF InQueue
    <3>2. ASSUME NEW v \in Workers, item[v] # NoItem,
                 item[v].notice = n, item[v].uid = u
          PROVE  InQueue(n, u)'
      BY <1>3, <1>7, <1>8, <3>2 DEF InQueue
    <3> QED
      BY <3>1, <3>2 DEF InQueue
  <2> QED
    BY <1>1, <2>1, <2>2 DEF PairOK, Settled
<1>13. ASSUME NEW n \in Notices PROVE NoticeOK(n)'
  BY <1>1 DEF Core, NoticeOK
<1> QED
  BY <1>9, <1>10, <1>11, <1>12, <1>13 DEF Core, Pairs

----------------------------------------------------------------------------
(* A fault is counted, so only the eleven steps above are taken without    *)
(* faults.                                                                 *)

NoFaultInv == faults = 0 => Core

LEMMA FaultCounts == ASSUME TInv, Fault PROVE faults' # 0
<1>1. faults \in Nat
  BY QueueAssumption DEF TInv, TypeOK
<1> QED
  BY <1>1 DEF Fault

LEMMA NoFaultInvStep == TInv /\ NoFaultInv /\ [Next]_vars => NoFaultInv'
<1> SUFFICES ASSUME TInv, NoFaultInv, [Next]_vars, faults' = 0 PROVE Core'
  BY DEF NoFaultInv
<1>1. ~Fault
  BY FaultCounts
<1>2. CASE UNCHANGED vars
  <2>1. UNCHANGED <<pc, left, failed, mids, saved, queue, wpc, item, tries,
                    arrived, unsure, faults>>
    BY <1>2 DEF vars, senderVars, workerVars, countVars
  <2> QED
    BY <2>1 DEF NoFaultInv, Core, ListOK, HandsOK, Apart, Pairs, NoticeOK,
                PairOK, Settled, InQueue, EntryOK
<1>3. ASSUME NEW n \in Notices, Notify(n) \/ Inform(n) PROVE Core'
  <2>1. Core
    BY <1>3 DEF NoFaultInv, Notify, Inform, SendFirst, Gathered, PushFailed,
                Notified
  <2> QED
    BY <1>3, <2>1, CoreNotify, CoreSendFirst, CoreGathered, CorePushFailed,
       CoreNotified DEF Inform
<1>4. ASSUME NEW w \in Workers, Work(w) PROVE Core'
  <2>1. Core
    BY <1>4 DEF NoFaultInv, Work, Wake, PopNothing, Pop, Drop, Retry, PushBack
  <2> QED
    BY <1>4, <2>1, CoreIdleWorker, CorePop, CoreDrop, CoreRetry, CorePushBack
       DEF Work
<1>5. ASSUME NEW n \in Notices, SmsRaises(n) \/ MaxRaises(n) \/ PushError(n)
      PROVE  FALSE
  BY <1>1, <1>5 DEF SmsRaises, MaxRaises, PushError
<1>6. ASSUME NEW w \in Workers,
             PushBackError(w) \/ PopError(w) \/ RetryRaises(w) \/ Crash(w)
      PROVE  FALSE
  BY <1>1, <1>6 DEF PushBackError, PopError, RetryRaises, Crash
<1> QED
  BY <1>2, <1>3, <1>4, <1>5, <1>6 DEF Next

LEMMA NoFaultInvHolds == Spec => []NoFaultInv
<1>1. Init => NoFaultInv
  BY CoreInit DEF NoFaultInv
<1> QED
  BY <1>1, NoFaultInvStep, TInvHolds, PTL DEF Spec

\* Without faults nobody falls between the first round of sending, the list
\* and the workers, however many of them share the list.
THEOREM EverybodyIsRemembered == Spec => []NobodyIsForgotten
<1>1. TInv /\ NoFaultInv => NobodyIsForgotten
  <2> SUFFICES ASSUME TInv, NoFaultInv, NEW n \in Notices, NEW u \in Staff,
                      pc[n] = "done", arrived[n][u] = 0, faults = 0
               PROVE  InQueue(n, u) \/ tries[n][u] = 1 + MaxRetries
    BY DEF NobodyIsForgotten
  <2>1. PairOK(n, u) /\ NoticeOK(n)
    BY DEF NoFaultInv, Core, Pairs
  <2>2. InQueue(n, u) \/ Settled(n, u)
    BY <2>1 DEF PairOK, NoticeOK
  <2>3. unsure[n][u] \in Nat
    BY DEF TInv, TypeOK
  <2> QED
    BY <2>2, <2>3 DEF Settled
<1> QED
  BY <1>1, TInvHolds, NoFaultInvHolds, PTL

\* Without faults no one is sent a notice more often than the first time and
\* MaxRetries times again, and nobody whose message id came back is sent it
\* again.
THEOREM AttemptsAreBounded == Spec => []AttemptsBounded
<1>1. NoFaultInv => AttemptsBounded
  BY DEF NoFaultInv, Core, Pairs, PairOK, AttemptsBounded
<1> QED
  BY <1>1, NoFaultInvHolds, PTL

\* Ids are of messages that arrived, through every fault.
MidsOK ==
    \A n \in Notices : /\ saved[n] \subseteq mids[n]
                       /\ \A u \in mids[n] : arrived[n][u] > 0

LEMMA MidsOKStep == TInv /\ MidsOK /\ [Next]_vars => MidsOK'
<1> SUFFICES ASSUME TInv, MidsOK, [Next]_vars PROVE MidsOK'
  OBVIOUS
<1>1. /\ mids \in [Notices -> SUBSET Staff]
      /\ arrived \in [Notices -> [Staff -> Nat]]
      /\ left \in [Notices -> SUBSET Staff]
      /\ saved \in [Notices -> SUBSET Staff]
  BY DEF TInv, TypeOK
<1>2. ASSUME NEW n \in Notices, NEW u \in Staff, NEW outcome \in Outcomes,
             Send(n, u, outcome)
      PROVE  /\ \A m \in Notices, v \in Staff :
                   arrived[m][v] > 0 => arrived'[m][v] > 0
             /\ outcome = "id" => arrived'[n][u] > 0
  <2>1. /\ \A m \in Notices, v \in Staff :
              m # n \/ v # u => arrived'[m][v] = arrived[m][v]
        /\ outcome = "lost" => arrived'[n][u] = arrived[n][u]
        /\ outcome # "lost" => arrived'[n][u] = arrived[n][u] + 1
    <3>1. outcome \in {"id", "no id", "lost"} /\ TypeOK
      BY DEF TInv, Outcomes
    <3>2. /\ \A m \in Notices, v \in Staff :
                m # n \/ v # u => arrived'[m][v] = arrived[m][v]
          /\ outcome = "lost" => arrived'[n][u] = arrived[n][u]
          /\ outcome = "id" => arrived'[n][u] = arrived[n][u] + 1
          /\ outcome = "no id" => arrived'[n][u] = arrived[n][u] + 1
      BY ZenonT(60), <1>2, <3>1, SendCounts
    <3> QED
      BY <3>1, <3>2
  <2>2. arrived[n][u] \in Nat
    BY <1>1
  <2>3. arrived[n][u] > 0 \/ outcome = "id" => arrived'[n][u] > 0
    <3>1. CASE outcome = "lost"
      BY <2>1, <3>1
    <3>2. CASE outcome # "lost"
      BY <2>1, <2>2, <3>2
    <3> QED
      BY <3>1, <3>2
  <2> QED
    BY <2>1, <2>3
<1>3. ASSUME UNCHANGED <<mids, saved>>,
             \A m \in Notices, v \in Staff :
                arrived[m][v] > 0 => arrived'[m][v] > 0
      PROVE  MidsOK'
  BY <1>1, <1>3 DEF MidsOK
<1>4. CASE UNCHANGED <<mids, saved, arrived>>
  BY <1>4 DEF MidsOK
<1>5. ASSUME NEW n \in Notices, SendFirst(n) PROVE MidsOK'
  <2>1. PICK u \in left[n], outcome \in Outcomes :
          /\ Send(n, u, outcome)
          /\ IF outcome = "id"
             THEN mids' = [mids EXCEPT ![n] = @ \cup {u}]
             ELSE UNCHANGED mids
    BY <1>5 DEF SendFirst
  <2>2. u \in Staff /\ saved' = saved
    BY <1>1, <1>5 DEF SendFirst
  <2>3. CASE outcome = "id"
    <3>1. /\ mids'[n] = mids[n] \cup {u}
          /\ \A m \in Notices \ {n} : mids'[m] = mids[m]
      BY <1>1, <2>1, <2>3
    <3>2. /\ \A m \in Notices, v \in Staff :
                arrived[m][v] > 0 => arrived'[m][v] > 0
          /\ arrived'[n][u] > 0
      BY <1>2, <2>1, <2>2, <2>3
    <3> QED
      BY <1>1, <2>2, <3>1, <3>2 DEF MidsOK
  <2>4. CASE outcome # "id"
    BY <1>2, <1>3, <2>1, <2>2, <2>4
  <2> QED
    BY <2>3, <2>4
<1>6. ASSUME NEW n \in Notices, MaxRaises(n) PROVE MidsOK'
  <2>1. PICK u \in left[n] : Send(n, u, "no id")
    BY <1>6 DEF MaxRaises
  <2>2. u \in Staff /\ "no id" \in Outcomes /\ UNCHANGED <<mids, saved>>
    BY <1>1, <1>6 DEF MaxRaises, Outcomes
  <2> QED
    BY <1>2, <1>3, <2>1, <2>2
<1>7. ASSUME NEW n \in Notices, Notified(n) PROVE MidsOK'
  <2>1. /\ saved' = [saved EXCEPT ![n] = mids[n]]
        /\ UNCHANGED <<mids, arrived>>
    BY <1>7 DEF Notified, countVars
  <2> QED
    BY <1>1, <2>1 DEF MidsOK
<1>8. ASSUME NEW w \in Workers, Retry(w) \/ RetryRaises(w) PROVE MidsOK'
  <2>1. item[w].notice \in Notices /\ item[w].uid \in Staff
    <3>1. item[w] \in Entry
      BY <1>8 DEF Retry, RetryRaises, TInv, WorkerOK
    <3> QED
      BY <3>1, EntriesTyped
  <2>2. \E outcome \in Outcomes : Send(item[w].notice, item[w].uid, outcome)
    BY <1>8 DEF Retry, RetryRaises, Outcomes
  <2>3. UNCHANGED <<mids, saved>>
    BY <1>8 DEF Retry, RetryRaises, senderVars
  <2> QED
    BY <1>2, <1>3, <2>1, <2>2, <2>3
<1>9. ASSUME NEW n \in Notices,
             \/ Notify(n) \/ Gathered(n) \/ PushFailed(n)
             \/ SmsRaises(n) \/ PushError(n)
      PROVE  MidsOK'
  BY <1>4, <1>9 DEF Notify, Gathered, PushFailed, SmsRaises, PushError,
                    countVars
<1>10. ASSUME NEW w \in Workers,
              \/ Wake(w) \/ PopNothing(w) \/ Pop(w) \/ Drop(w) \/ PushBack(w)
              \/ PushBackError(w) \/ PopError(w) \/ Crash(w)
       PROVE  MidsOK'
  BY <1>4, <1>10 DEF Wake, PopNothing, Pop, Drop, PushBack, PushBackError,
                     PopError, Crash, senderVars, countVars
<1>11. CASE UNCHANGED vars
  BY <1>4, <1>11 DEF vars, senderVars, countVars
<1> QED
  BY <1>5, <1>6, <1>7, <1>8, <1>9, <1>10, <1>11 DEF Next, Inform, Work

\* What create_order stores are ids of messages that arrived; and when the
\* notification went through, of all whose first message was answered.
THEOREM IdsAreKnown == Spec => []SavedIdsAreKnown
<1>1. Init => MidsOK
  BY DEF Init, MidsOK, Nobody
<1>2. TInv /\ NoFaultInv /\ MidsOK => SavedIdsAreKnown
  <2> SUFFICES ASSUME TInv, NoFaultInv, MidsOK, NEW n \in Notices
               PROVE  /\ saved[n] \subseteq {u \in Staff : arrived[n][u] > 0}
                      /\ (pc[n] = "done" /\ faults = 0) =>
                            \A u \in Staff : \/ u \in saved[n]
                                             \/ InQueue(n, u)
                                             \/ tries[n][u] > 1
    BY DEF SavedIdsAreKnown
  <2>1. saved[n] \subseteq {u \in Staff : arrived[n][u] > 0}
    BY DEF MidsOK, TInv, TypeOK
  <2>2. ASSUME pc[n] = "done", faults = 0, NEW u \in Staff
        PROVE  u \in saved[n] \/ InQueue(n, u) \/ tries[n][u] > 1
    <3>1. PairOK(n, u) /\ NoticeOK(n)
      BY <2>2 DEF NoFaultInv, Core, Pairs
    <3>2. (InQueue(n, u) \/ Settled(n, u)) /\ saved[n] = mids[n]
      BY <2>2, <3>1 DEF PairOK, NoticeOK
    <3> QED
      BY <3>2, QueueAssumption DEF Settled
  <2> QED
    BY <2>1, <2>2
<1> QED
  BY <1>1, <1>2, MidsOKStep, TInvHolds, NoFaultInvHolds, PTL DEF Spec

============================================================================
