------------------------- MODULE AsyncQueue_proofs -------------------------
(***************************************************************************)
(* Proofs that AsyncQueue keeps its types and its safety invariants for    *)
(* any set of transfers and endpoints, any device, any number of kicks and *)
(* every combination of failures and signal delays.                        *)
(***************************************************************************)
EXTENDS AsyncQueue, ListLemmas

\* How a queue's fields and its thread go together: running is the thread's
\* existence, cur is set while it holds an item, a queue without a thread is
\* empty, and only a thread that took an item can have a signal pending.
WorkerInv ==
  \A q \in Queues :
    /\ running[q] <=> pc[q] # "none"
    /\ cur[q] = NULL <=> pc[q] \in {"none", "created"}
    /\ ~running[q] => items[q] = <<>>
    /\ sigurg[q] => pc[q] \in {"starting", "blocked", "relock"}

-----------------------------------------------------------------------------
(***************************************************************************)
(* Types and threads.                                                      *)
(***************************************************************************)

LEMMA LinkLastType ==
  ASSUME NEW s \in Seq(Transfers), NEW last, NEW t \in Transfers
  PROVE  LinkLast(s, last, t) \in Seq(Transfers)
<1>1. CASE last = NULL
  BY <1>1 DEF LinkLast
<1>2. CASE last # NULL /\ \E i \in DOMAIN s : s[i] = last
  <2> DEFINE n == CHOOSE i \in DOMAIN s : s[i] = last
  <2>1. n \in DOMAIN s
    BY <1>2
  <2>2. n \in 1..Len(s)
    BY <2>1
  <2> HIDE DEF n
  <2>3. Append(SubSeq(s, 1, n), t) \in Seq(Transfers)
    BY <2>2
  <2>4. QED
    BY <1>2, <2>3 DEF LinkLast, n
<1>3. CASE last # NULL /\ ~ \E i \in DOMAIN s : s[i] = last
  BY <1>3 DEF LinkLast
<1>4. QED
  BY <1>1, <1>2, <1>3

\* The worker's loop: one more item, or the end of the thread.
LEMMA NextItemTyped ==
  ASSUME TypeOK, NEW q \in Queues, PopItem(q) \/ ExitWorker(q)
  PROVE  /\ sdk_aqs' = sdk_aqs
         /\ items' \in [Queues -> Seq(Transfers)]
         /\ tail' \in [Queues -> Transfers \cup {NULL}]
         /\ cur' \in [Queues -> Transfers \cup {NULL}]
         /\ cancel_cur' \in [Queues -> BOOLEAN]
         /\ running' \in [Queues -> BOOLEAN]
         /\ pc' \in [Queues -> PCs]
         /\ interrupted' \in [Queues -> BOOLEAN]
         /\ sigurg' \in [Queues -> BOOLEAN]
<1>1. CASE PopItem(q)
  <2>1. Head(items[q]) \in Transfers /\ Tail(items[q]) \in Seq(Transfers)
    BY <1>1, PopHead DEF PopItem, TypeOK
  <2>2. QED
    BY <1>1, <2>1 DEF PopItem, TypeOK, PCs
<1>2. CASE ExitWorker(q)
  BY <1>2 DEF ExitWorker, TypeOK, PCs, list
<1>3. QED
  BY <1>1, <1>2

LEMMA NextItemWorkerInv ==
  ASSUME TypeOK, WorkerInv, NEW q \in Queues, PopItem(q) \/ ExitWorker(q), pc[q] # "none"
  PROVE  WorkerInv'
<1>1. CASE PopItem(q)
  <2>1. Head(items[q]) \in Transfers
    BY <1>1, PopHead DEF PopItem, TypeOK
  <2>2. QED
    BY <1>1, <2>1, NullAssumption DEF PopItem, TypeOK, WorkerInv
<1>2. CASE ExitWorker(q)
  BY <1>2 DEF ExitWorker, TypeOK, WorkerInv, list
<1>3. QED
  BY <1>1, <1>2

LEMMA SignalTyped ==
  ASSUME TypeOK, NEW t \in Transfers, NEW status \in Statuses, Signal(t, status)
  PROVE  completed' \in Seq(Transfers) /\ outcome' \in [Transfers -> Statuses]
BY DEF Signal, TypeOK

LEMMA FinishTyped ==
  ASSUME TypeOK, NEW t \in Transfers, NEW status \in Statuses, FinishLocked(t, status)
  PROVE  /\ completed' \in Seq(Transfers)
         /\ outcome' \in [Transfers -> Statuses]
         /\ results' \subseteq [it : Transfers, status : Statuses]
BY SignalTyped DEF FinishLocked, TypeOK

LEMMA StatusTyped ==
  ASSUME NEW e, NEW c \in BOOLEAN
  PROVE  Status(e, c) \in Statuses
BY DEF Status, Statuses

LEMMA InitTypeWorker == Init => TypeOK /\ WorkerInv
BY DEF Init, TypeOK, WorkerInv, PCs, Statuses

LEMMA StepTypeWorker ==
  ASSUME TypeOK, WorkerInv, [Next]_vars
  PROVE  TypeOK' /\ WorkerInv'
<1> USE NullAssumption
<1>1. ASSUME NEW q \in Queues, NEW t \in Transfers, Submit(q, t)
      PROVE  TypeOK' /\ WorkerInv'
  <2>1. items' \in [Queues -> Seq(Transfers)]
    BY <1>1, LinkLastType DEF Submit, TypeOK
  <2>2. sdk_aqs' \in Seq(Queues)
    BY <1>1 DEF Submit, FindQueue, TypeOK
  <2>3. TypeOK'
    BY <1>1, <2>1, <2>2 DEF Submit, TypeOK, PCs, reports
  <2>4. WorkerInv'
    BY <1>1 DEF Submit, TypeOK, WorkerInv, PCs
  <2>5. QED
    BY <2>3, <2>4
<1>2. ASSUME NEW q \in Queues, NEW t \in Transfers, SubmitNoThread(q, t)
      PROVE  TypeOK' /\ WorkerInv'
  <2>1. sdk_aqs' \in Seq(Queues)
    BY <1>2 DEF SubmitNoThread, FindQueue, TypeOK
  <2>2. QED
    BY <1>2, <2>1 DEF SubmitNoThread, TypeOK, WorkerInv, worker, reports, client
<1>3. ASSUME NEW t \in Transfers, SubmitSync(t)
      PROVE  TypeOK' /\ WorkerInv'
  BY <1>3, SignalTyped DEF SubmitSync, TypeOK, WorkerInv, list, worker, Statuses
<1>4. ASSUME NEW q \in Queues, WorkerStart(q)
      PROVE  TypeOK' /\ WorkerInv'
  <2>1. TypeOK'
    BY <1>4, NextItemTyped DEF WorkerStart, TypeOK, reports, client
  <2>2. WorkerInv'
    BY <1>4, NextItemWorkerInv DEF WorkerStart
  <2>3. QED
    BY <2>1, <2>2
<1>5. ASSUME NEW q \in Queues, WorkerBlock(q)
      PROVE  TypeOK' /\ WorkerInv'
  BY <1>5 DEF WorkerBlock, TypeOK, WorkerInv, PCs, list, reports, client
<1>6. ASSUME NEW q \in Queues, WorkerSucceeds(q)
      PROVE  TypeOK' /\ WorkerInv'
  <2>1. cur[q] \in Transfers
    BY <1>6 DEF WorkerSucceeds, WorkerInv, TypeOK
  <2>2. completed' \in Seq(Transfers) /\ outcome' \in [Transfers -> Statuses]
    BY <1>6, <2>1, SignalTyped DEF WorkerSucceeds, Statuses
  <2>3. QED
    BY <1>6, <2>2
    DEF WorkerSucceeds, SyncSubmitReturns, TypeOK, WorkerInv, PCs, list, client
<1>7. ASSUME NEW q \in Queues, WorkerFails(q)
      PROVE  TypeOK' /\ WorkerInv'
  BY <1>7, ErrorsAssumption
  DEF WorkerFails, SyncSubmitReturns, TypeOK, WorkerInv, PCs, list, client
<1>8. ASSUME NEW q \in Queues, WorkerInterrupted(q)
      PROVE  TypeOK' /\ WorkerInv'
  BY <1>8
  DEF WorkerInterrupted, SyncSubmitReturns, TypeOK, WorkerInv, PCs, Errors, list, client
<1>9. ASSUME NEW q \in Queues, WorkerRelock(q)
      PROVE  TypeOK' /\ WorkerInv'
  <2>1. cur[q] \in Transfers /\ cancel_cur[q] \in BOOLEAN
    BY <1>9 DEF WorkerRelock, WorkerInv, TypeOK
  <2>2. /\ completed' \in Seq(Transfers)
        /\ outcome' \in [Transfers -> Statuses]
        /\ results' \subseteq [it : Transfers, status : Statuses]
    <3>1. CASE err[q] = "OK"
      BY <1>9, <3>1 DEF WorkerRelock, TypeOK, reports
    <3>2. CASE err[q] # "OK"
      BY <1>9, <2>1, <3>2, StatusTyped, FinishTyped DEF WorkerRelock
    <3>3. QED
      BY <3>1, <3>2
  <2>3. TypeOK'
    BY <1>9, <2>2, NextItemTyped DEF WorkerRelock, TypeOK, client
  <2>4. WorkerInv'
    BY <1>9, NextItemWorkerInv DEF WorkerRelock
  <2>5. QED
    BY <2>3, <2>4
<1>10. ASSUME NEW q \in Queues, DeliverSignal(q)
       PROVE  TypeOK' /\ WorkerInv'
  <2>1. CASE ~Polls /\ pc[q] = "blocked"
    <3>1. PICK e \in {"INTERRUPTED", "OTHER"} : SyncSubmitReturns(q, e)
      BY <1>10, <2>1 DEF DeliverSignal
    <3>2. TypeOK'
      BY <1>10, <3>1
      DEF DeliverSignal, SyncSubmitReturns, TypeOK, PCs, Errors, list, client
    <3>3. WorkerInv'
      BY <1>10, <2>1, <3>1 DEF DeliverSignal, SyncSubmitReturns, TypeOK, WorkerInv, list
    <3>4. QED
      BY <3>2, <3>3
  <2>2. CASE ~(~Polls /\ pc[q] = "blocked")
    BY <1>10, <2>2 DEF DeliverSignal, TypeOK, WorkerInv, list, client
  <2>3. QED
    BY <2>1, <2>2
<1>11. ASSUME NEW k \in kickers, Kick(k)
       PROVE  TypeOK' /\ WorkerInv'
  <2> DEFINE K == [q : Queues, it : Transfers, left : 1..MaxKicks]
  <2>0. kickers \subseteq K
    BY DEF TypeOK
  <2>1. k \in K /\ k.q \in Queues /\ k.it \in Transfers /\ k.left \in 1..MaxKicks
    BY <2>0
  <2>2. kickers' \subseteq K
    <3>1. k.left # 1 => [k EXCEPT !.left = @ - 1] \in K
      BY <2>1, KicksAssumption
    <3> HIDE DEF K
    <3>2. QED
      BY <1>11, <2>0, <3>1 DEF Kick
  <2> HIDE DEF K
  <2>3. cur[k.q] = k.it => pc[k.q] \in {"starting", "blocked", "relock"}
    BY <2>1 DEF TypeOK, WorkerInv, PCs
  <2>4. sigurg' \in [Queues -> BOOLEAN]
    BY <1>11, <2>1 DEF Kick, TypeOK
  <2>5. TypeOK'
    BY <1>11, <2>2, <2>4 DEF Kick, K, TypeOK, list, worker, reports, client
  <2>6. WorkerInv'
    BY <1>11, <2>1, <2>3 DEF Kick, TypeOK, WorkerInv, list, worker
  <2>7. QED
    BY <2>5, <2>6
<1>12. ASSUME NEW q \in Queues, NEW t \in Transfers, CancelQueued(q, t)
       PROVE  TypeOK' /\ WorkerInv'
  <2>1. PICK i \in DOMAIN items[q] :
          LET rest == RemoveAt(items[q], i) IN
          /\ items' = [items EXCEPT ![q] = rest]
          /\ tail' = IF tail[q] # t THEN tail
                     ELSE [tail EXCEPT ![q] = IF rest = <<>> THEN NULL ELSE Last(rest)]
    BY <1>12 DEF CancelQueued
  <2> DEFINE rest == RemoveAt(items[q], i)
  <2>2. items[q] \in Seq(Transfers) /\ items[q] # <<>>
    BY DEF TypeOK
  <2>3. rest \in Seq(Transfers)
    BY <2>1, <2>2 DEF RemoveAt
  <2>4. rest # <<>> => Last(rest) \in Transfers
    BY <2>3 DEF Last
  <2> HIDE DEF rest
  <2>5. items' = [items EXCEPT ![q] = rest]
    BY <2>1 DEF rest
  <2>6. tail' \in [Queues -> Transfers \cup {NULL}]
    BY <2>1, <2>4 DEF rest, TypeOK
  <2>7. /\ completed' \in Seq(Transfers)
        /\ outcome' \in [Transfers -> Statuses]
        /\ results' \subseteq [it : Transfers, status : Statuses]
    BY <1>12, FinishTyped DEF CancelQueued, Statuses
  <2>8. TypeOK'
    BY <1>12, <2>3, <2>5, <2>6, <2>7 DEF CancelQueued, TypeOK, worker
  <2>9. WorkerInv'
    BY <1>12, <2>2, <2>5 DEF CancelQueued, TypeOK, WorkerInv, worker
  <2>10. QED
    BY <2>8, <2>9
<1>13. ASSUME NEW q \in Queues, NEW t \in Transfers, CancelRunning(q, t)
       PROVE  TypeOK' /\ WorkerInv'
  <2>1. pc[q] \in {"starting", "blocked", "relock"}
    BY <1>13 DEF CancelRunning, TypeOK, WorkerInv, PCs
  <2>2. TypeOK'
    <3> DEFINE K == [q : Queues, it : Transfers, left : 1..MaxKicks]
               new == [q |-> q, it |-> t, left |-> MaxKicks]
    <3>1. kickers \subseteq K /\ new \in K
      BY KicksAssumption DEF TypeOK
    <3> HIDE DEF K
    <3>2. kickers' \subseteq K
      BY <1>13, <3>1 DEF CancelRunning
    <3>3. cancel_cur' \in [Queues -> BOOLEAN] /\ sigurg' \in [Queues -> BOOLEAN]
      BY <1>13 DEF CancelRunning, TypeOK
    <3>4. QED
      BY <1>13, <3>2, <3>3 DEF CancelRunning, K, TypeOK, list, reports
  <2>3. WorkerInv'
    BY <1>13, <2>1 DEF CancelRunning, TypeOK, WorkerInv, list
  <2>4. QED
    BY <2>2, <2>3
<1>14. CASE TakeResult
  <2>1. Head(completed) \in Transfers /\ completed' \in Seq(Transfers)
    BY <1>14, PopHead DEF TakeResult, TypeOK
  <2>2. event' \in [it : Transfers, status : Statuses]
    BY <1>14, <2>1 DEF TakeResult, TypeOK, Statuses
  <2>3. results' \subseteq [it : Transfers, status : Statuses]
    BY <1>14 DEF TakeResult, TypeOK
  <2>4. QED
    BY <1>14, <2>1, <2>2, <2>3 DEF TakeResult, TypeOK, WorkerInv, list, worker, client
<1>15. CASE Deliver
  BY <1>15 DEF Deliver, TypeOK, WorkerInv, Statuses, list, worker
<1>16. CASE UNCHANGED vars
  BY <1>16 DEF vars, TypeOK, WorkerInv, list, worker, reports, client
<1>17. QED
  BY <1>1, <1>2, <1>3, <1>4, <1>5, <1>6, <1>7, <1>8, <1>9, <1>10, <1>11, <1>12, <1>13,
     <1>14, <1>15, <1>16 DEF Next

\* Every field keeps its type, and the queue's fields agree with its thread.
THEOREM TypeCorrect == Spec => [](TypeOK /\ WorkerInv)
<1>1. Init => TypeOK /\ WorkerInv
  BY InitTypeWorker
<1>2. TypeOK /\ WorkerInv /\ [Next]_vars => (TypeOK /\ WorkerInv)'
  BY StepTypeWorker
<1>3. QED
  BY <1>1, <1>2, PTL DEF Spec

-----------------------------------------------------------------------------
(***************************************************************************)
(* Exactly one report per submission.  The invariant needs the lists' tail *)
(* pointers (an append must not cut a list) and WorkerInv (the worker that *)
(* takes an item has reported the one before).                             *)
(***************************************************************************)
IInv == TypeOK /\ WorkerInv /\ TailIsLast /\ ExactlyOnce

\* Hanging the new item off the last one appends it.
LEMMA LinkLastAppends ==
  ASSUME NEW s \in Seq(Transfers), NEW t \in Transfers, IsInjective(s)
  PROVE  LinkLast(s, IF s = <<>> THEN NULL ELSE Last(s), t) = Append(s, t)
<1>1. CASE s = <<>>
  BY <1>1 DEF LinkLast
<1>2. CASE s # <<>>
  <2> DEFINE n == CHOOSE i \in DOMAIN s : s[i] = Last(s)
  <2>1. Len(s) \in DOMAIN s /\ s[Len(s)] = Last(s) /\ Last(s) \in Transfers
    BY <1>2 DEF Last
  <2>2. n \in DOMAIN s /\ s[n] = Last(s)
    BY <2>1
  <2>3. n = Len(s)
    BY <2>1, <2>2 DEF IsInjective
  <2>4. SubSeq(s, 1, Len(s)) = s
    OBVIOUS
  <2>5. LinkLast(s, Last(s), t) = Append(SubSeq(s, 1, n), t)
    BY <2>1, NullAssumption DEF LinkLast
  <2>6. QED
    BY <1>2, <2>3, <2>4, <2>5
<1>3. QED
  BY <1>1, <1>2

\* A step that leaves lists, reports and clients alone, and no worker's
\* transfer changes hands, keeps every transfer in its place.
LEMMA NothingMoves ==
  ASSUME TailIsLast, ExactlyOnce,
         items' = items, tail' = tail, completed' = completed, event' = event,
         inflight' = inflight, \A q \in Queues : Working(q)' = Working(q)
  PROVE  TailIsLast' /\ ExactlyOnce'
<1>1. /\ \A q \in Queues : Listed(q)' = Listed(q)
      /\ Signalled' = Signalled
      /\ Handling' = Handling
  BY DEF Listed, Signalled, Handling
<1>2. TailIsLast' /\ NoRepeats'
  BY DEF TailIsLast, ExactlyOnce, NoRepeats
<1>3. OnePlaceAtMost' /\ InFlightIsSomewhere'
  BY <1>1 DEF ExactlyOnce, OnePlaceAtMost, InFlightIsSomewhere
<1>4. QED
  BY <1>2, <1>3 DEF ExactlyOnce

\* The worker's loop moves the head of its list to the worker, at most.
LEMMA NextItemPlaces ==
  ASSUME IInv, NEW q \in Queues, PopItem(q) \/ ExitWorker(q),
         \A p \in Queues : p # q => err'[p] = err[p]
  PROVE  /\ Listed(q)' \cup Working(q)' = Listed(q)
         /\ Listed(q)' \cap Working(q)' = {}
         /\ \A p \in Queues : p # q => Listed(p)' = Listed(p) /\ Working(p)' = Working(p)
         /\ \A p \in Queues : IsInjective(items'[p])
         /\ TailIsLast'
<1>1. CASE PopItem(q)
  <2>1. items[q] \in Seq(Transfers) /\ items[q] # <<>> /\ IsInjective(items[q])
    BY <1>1 DEF PopItem, IInv, TypeOK, ExactlyOnce, NoRepeats
  <2> DEFINE h == Head(items[q])
             rest == Tail(items[q])
  <2>2. /\ h \in Transfers
        /\ rest \in Seq(Transfers)
        /\ ToSet(items[q]) = {h} \cup ToSet(rest)
        /\ IsInjective(rest)
        /\ h \notin ToSet(rest)
        /\ rest # <<>> => Last(rest) = Last(items[q])
    BY <2>1, PopHead
  <2> HIDE DEF h, rest
  <2>3. /\ items' = [items EXCEPT ![q] = rest]
        /\ tail' = IF rest = <<>> THEN [tail EXCEPT ![q] = NULL] ELSE tail
        /\ cur' = [cur EXCEPT ![q] = h]
        /\ pc' = [pc EXCEPT ![q] = "starting"]
    BY <1>1 DEF PopItem, h, rest
  <2>4. Listed(q)' = ToSet(rest) /\ Working(q)' = {h}
    BY <2>2, <2>3 DEF Listed, Working, Unreported, IInv, TypeOK
  <2>5. \A p \in Queues : p # q => Listed(p)' = Listed(p) /\ Working(p)' = Working(p)
    BY <2>3 DEF Listed, Working, Unreported, IInv, TypeOK
  <2>6. \A p \in Queues : IsInjective(items'[p])
    BY <2>2, <2>3 DEF IInv, TypeOK, ExactlyOnce, NoRepeats
  <2>7. TailIsLast'
    BY <2>1, <2>2, <2>3 DEF TailIsLast, IInv, TypeOK
  <2>8. QED
    BY <2>2, <2>4, <2>5, <2>6, <2>7 DEF Listed
<1>2. CASE ExitWorker(q)
  <2>1. items' = items /\ tail' = tail /\ items[q] = <<>>
    BY <1>2 DEF ExitWorker, list
  <2>2. \A p \in Queues : Listed(p)' = Listed(p)
    BY <2>1 DEF Listed
  <2>3. Working(q)' = {}
    BY <1>2 DEF ExitWorker, Working, Unreported, IInv, TypeOK
  <2>4. \A p \in Queues : p # q => Working(p)' = Working(p)
    BY <1>2 DEF ExitWorker, Working, Unreported, IInv, TypeOK
  <2>5. QED
    BY <2>1, <2>2, <2>3, <2>4 DEF IInv, TailIsLast, ExactlyOnce, NoRepeats
<1>3. QED
  BY <1>1, <1>2

\* A worker that reports what it still holds, if anything, and goes on to
\* its next item moves each transfer one place along.
LEMMA ReportAndGoOn ==
  ASSUME IInv, NEW q \in Queues, PopItem(q) \/ ExitWorker(q),
         \A p \in Queues : p # q => err'[p] = err[p],
         Signalled' = Signalled \cup Working(q), IsInjective(completed'),
         event' = event, inflight' = inflight
  PROVE  TailIsLast' /\ ExactlyOnce'
<1>1. /\ Listed(q)' \cup Working(q)' = Listed(q)
      /\ Listed(q)' \cap Working(q)' = {}
      /\ \A p \in Queues : p # q => Listed(p)' = Listed(p) /\ Working(p)' = Working(p)
      /\ \A p \in Queues : IsInjective(items'[p])
      /\ TailIsLast'
  BY NextItemPlaces
<1>2. Handling' = Handling
  BY DEF Handling
<1>3. NoRepeats'
  BY <1>1 DEF NoRepeats
<1>4. OnePlaceAtMost'
  BY <1>1, <1>2 DEF OnePlaceAtMost, IInv, ExactlyOnce
<1>5. InFlightIsSomewhere'
  BY <1>1, <1>2 DEF InFlightIsSomewhere, IInv, ExactlyOnce
<1>6. QED
  BY <1>1, <1>3, <1>4, <1>5 DEF ExactlyOnce

LEMMA InitPlaces == Init => TailIsLast /\ ExactlyOnce
BY DEF Init, TailIsLast, ExactlyOnce, NoRepeats, OnePlaceAtMost, InFlightIsSomewhere,
       Listed, Working, Unreported, Signalled, Handling, ToSet, IsInjective

LEMMA StepPlaces ==
  ASSUME IInv, [Next]_vars
  PROVE  TailIsLast' /\ ExactlyOnce'
<1> USE NullAssumption
<1>0. TypeOK /\ WorkerInv /\ TailIsLast /\ ExactlyOnce
  BY DEF IInv
<1>1. ASSUME NEW q \in Queues, NEW t \in Transfers, Submit(q, t)
      PROVE  TailIsLast' /\ ExactlyOnce'
  <2>1. /\ items[q] \in Seq(Transfers)
        /\ IsInjective(items[q])
        /\ t \notin Signalled \cup Handling
        /\ \A p \in Queues : t \notin Listed(p) \cup Working(p)
    BY <1>0, <1>1 DEF Submit, TypeOK, ExactlyOnce, NoRepeats, InFlightIsSomewhere
  <2>2. items' = [items EXCEPT ![q] = Append(items[q], t)]
    BY <1>0, <1>1, <2>1, LinkLastAppends DEF Submit, TailIsLast, TypeOK
  <2> DEFINE longer == Append(items[q], t)
  <2>21. /\ ToSet(longer) = Listed(q) \cup {t}
        /\ IsInjective(longer) /\ longer # <<>> /\ Last(longer) = t
    BY <2>1, AppendNew DEF Listed
  <2> HIDE DEF longer
  <2>22. items' = [items EXCEPT ![q] = longer]
    BY <2>2 DEF longer
  <2>3. \A p \in Queues : Listed(p)' = IF p = q THEN Listed(q) \cup {t} ELSE Listed(p)
    BY <1>0, <2>21, <2>22 DEF Listed, TypeOK
  <2>4. \A p \in Queues : Working(p)' = Working(p)
    BY <1>0, <1>1 DEF Submit, Working, Unreported, TypeOK, WorkerInv
  <2>5. /\ Signalled' = Signalled /\ Handling' = Handling
        /\ inflight' = inflight \cup {t} /\ completed' = completed
    BY <1>1 DEF Submit, Signalled, Handling, reports
  <2>6. NoRepeats'
    BY <1>0, <2>21, <2>22, <2>5 DEF ExactlyOnce, NoRepeats, TypeOK
  <2>7. OnePlaceAtMost'
    BY <1>0, <2>1, <2>3, <2>4, <2>5 DEF ExactlyOnce, OnePlaceAtMost
  <2>8. InFlightIsSomewhere'
    BY <1>0, <2>3, <2>4, <2>5 DEF ExactlyOnce, InFlightIsSomewhere
  <2>9. TailIsLast'
    BY <1>0, <1>1, <2>21, <2>22 DEF Submit, TailIsLast, TypeOK
  <2>10. QED
    BY <2>6, <2>7, <2>8, <2>9 DEF ExactlyOnce
<1>2. ASSUME NEW q \in Queues, NEW t \in Transfers, SubmitNoThread(q, t)
      PROVE  TailIsLast' /\ ExactlyOnce'
  <2>1. items[q] = <<>> /\ tail[q] = NULL
    BY <1>0, <1>2 DEF SubmitNoThread, WorkerInv, TailIsLast
  <2>2. items' = items /\ tail' = tail
    BY <1>0, <1>2, <2>1 DEF SubmitNoThread, TypeOK
  <2>3. \A p \in Queues : Working(p)' = Working(p)
    BY <1>2 DEF SubmitNoThread, Working, Unreported, worker
  <2>4. QED
    BY <1>0, <1>2, <2>2, <2>3, NothingMoves DEF SubmitNoThread, reports, client
<1>3. ASSUME NEW t \in Transfers, SubmitSync(t)
      PROVE  TailIsLast' /\ ExactlyOnce'
  <2>1. /\ t \notin Signalled \cup Handling
        /\ \A p \in Queues : t \notin Listed(p) \cup Working(p)
    BY <1>0, <1>3 DEF SubmitSync, ExactlyOnce, InFlightIsSomewhere
  <2>2. /\ Signalled' = Signalled \cup {t}
        /\ IsInjective(completed')
    BY <1>0, <1>3, <2>1, AppendNew
    DEF SubmitSync, Signal, Signalled, ExactlyOnce, NoRepeats, TypeOK
  <2>3. /\ \A p \in Queues : Listed(p)' = Listed(p) /\ Working(p)' = Working(p)
        /\ Handling' = Handling /\ inflight' = inflight \cup {t}
        /\ items' = items /\ tail' = tail
    BY <1>3 DEF SubmitSync, Listed, Working, Unreported, Handling, list, worker
  <2>4. TailIsLast' /\ NoRepeats'
    BY <1>0, <2>2, <2>3 DEF TailIsLast, ExactlyOnce, NoRepeats
  <2>5. OnePlaceAtMost'
    BY <1>0, <2>1, <2>2, <2>3 DEF ExactlyOnce, OnePlaceAtMost
  <2>6. InFlightIsSomewhere'
    BY <1>0, <2>2, <2>3 DEF ExactlyOnce, InFlightIsSomewhere
  <2>7. QED
    BY <2>4, <2>5, <2>6 DEF ExactlyOnce
<1>4. ASSUME NEW q \in Queues, WorkerStart(q)
      PROVE  TailIsLast' /\ ExactlyOnce'
  <2>1. Working(q) = {}
    BY <1>4 DEF WorkerStart, Working, Unreported
  <2>2. Signalled' = Signalled /\ completed' = completed
    BY <1>4 DEF WorkerStart, Signalled, reports
  <2>3. QED
    BY <1>0, <1>4, <2>1, <2>2, ReportAndGoOn
    DEF WorkerStart, client, ExactlyOnce, NoRepeats
<1>5. ASSUME NEW q \in Queues, WorkerBlock(q)
      PROVE  TailIsLast' /\ ExactlyOnce'
  <2>1. \A p \in Queues : Working(p)' = Working(p)
    BY <1>0, <1>5 DEF WorkerBlock, Working, Unreported, TypeOK
  <2>2. QED
    BY <1>0, <1>5, <2>1, NothingMoves DEF WorkerBlock, list, reports, client
<1>6. ASSUME NEW q \in Queues, WorkerSucceeds(q)
      PROVE  TailIsLast' /\ ExactlyOnce'
  <2> DEFINE t == cur[q]
  <2>1. t \in Transfers /\ Working(q) = {t}
    BY <1>0, <1>6 DEF WorkerSucceeds, WorkerInv, TypeOK, Working, Unreported
  <2>2. t \notin Signalled
    BY <1>0, <2>1 DEF ExactlyOnce, OnePlaceAtMost
  <2>3. Signalled' = Signalled \cup {t} /\ IsInjective(completed')
    BY <1>0, <1>6, <2>1, <2>2, AppendNew
    DEF WorkerSucceeds, Signal, Signalled, ExactlyOnce, NoRepeats, TypeOK
  <2>4. \A p \in Queues : Working(p)' = IF p = q THEN {} ELSE Working(p)
    BY <1>0, <1>6
    DEF WorkerSucceeds, SyncSubmitReturns, Working, Unreported, TypeOK
  <2>5. /\ \A p \in Queues : Listed(p)' = Listed(p)
        /\ Handling' = Handling /\ inflight' = inflight
        /\ items' = items /\ tail' = tail
    BY <1>6 DEF WorkerSucceeds, SyncSubmitReturns, Listed, Handling, list, client
  <2> HIDE DEF t
  <2>6. TailIsLast' /\ NoRepeats'
    BY <1>0, <2>3, <2>5 DEF TailIsLast, ExactlyOnce, NoRepeats
  <2>7. OnePlaceAtMost'
    BY <1>0, <2>1, <2>3, <2>4, <2>5 DEF ExactlyOnce, OnePlaceAtMost
  <2>8. InFlightIsSomewhere'
    BY <1>0, <2>1, <2>3, <2>4, <2>5 DEF ExactlyOnce, InFlightIsSomewhere
  <2>9. QED
    BY <2>6, <2>7, <2>8 DEF ExactlyOnce
<1>7. ASSUME NEW q \in Queues, WorkerFails(q)
      PROVE  TailIsLast' /\ ExactlyOnce'
  <2>1. PICK e \in DeviceErrors : SyncSubmitReturns(q, e)
    BY <1>7 DEF WorkerFails
  <2>2. e # "OK"
    BY <2>1, ErrorsAssumption DEF Errors
  <2>3. \A p \in Queues : Working(p)' = Working(p)
    BY <1>0, <1>7, <2>1, <2>2
    DEF WorkerFails, SyncSubmitReturns, Working, Unreported, TypeOK
  <2>4. QED
    BY <1>0, <1>7, <2>1, <2>3, NothingMoves
    DEF WorkerFails, SyncSubmitReturns, list, client
<1>8. ASSUME NEW q \in Queues, WorkerInterrupted(q)
      PROVE  TailIsLast' /\ ExactlyOnce'
  <2>1. \A p \in Queues : Working(p)' = Working(p)
    BY <1>0, <1>8
    DEF WorkerInterrupted, SyncSubmitReturns, Working, Unreported, TypeOK
  <2>2. QED
    BY <1>0, <1>8, <2>1, NothingMoves
    DEF WorkerInterrupted, SyncSubmitReturns, list, client
<1>9. ASSUME NEW q \in Queues, WorkerRelock(q)
      PROVE  TailIsLast' /\ ExactlyOnce'
  <2>1. cur[q] \in Transfers
    BY <1>0, <1>9 DEF WorkerRelock, WorkerInv, TypeOK
  <2>2. Signalled' = Signalled \cup Working(q) /\ IsInjective(completed')
    <3>1. CASE err[q] = "OK"
      <4>1. Working(q) = {} /\ completed' = completed
        BY <1>9, <3>1 DEF WorkerRelock, Working, Unreported, reports
      <4>2. QED
        BY <1>0, <4>1 DEF Signalled, ExactlyOnce, NoRepeats
    <3>2. CASE err[q] # "OK"
      <4>1. Working(q) = {cur[q]}
        BY <1>9, <2>1, <3>2 DEF WorkerRelock, Working, Unreported
      <4>2. cur[q] \notin Signalled
        BY <1>0, <4>1 DEF ExactlyOnce, OnePlaceAtMost
      <4>3. completed' = Append(completed, cur[q])
        BY <1>9, <3>2 DEF WorkerRelock, FinishLocked, Signal
      <4>4. QED
        BY <1>0, <2>1, <4>1, <4>2, <4>3, AppendNew
        DEF Signalled, ExactlyOnce, NoRepeats, TypeOK
    <3>3. QED
      BY <3>1, <3>2
  <2>3. \A p \in Queues : p # q => err'[p] = err[p]
    BY <1>0, <1>9 DEF WorkerRelock, TypeOK
  <2>4. QED
    BY <1>9, <2>2, <2>3, ReportAndGoOn DEF WorkerRelock, client
<1>10. ASSUME NEW q \in Queues, DeliverSignal(q)
       PROVE  TailIsLast' /\ ExactlyOnce'
  <2>1. /\ items' = items /\ tail' = tail /\ completed' = completed
        /\ event' = event /\ inflight' = inflight
    BY <1>10 DEF DeliverSignal, SyncSubmitReturns, list, client
  <2>2. \A p \in Queues : Working(p)' = Working(p)
    <3>1. CASE ~Polls /\ pc[q] = "blocked"
      <4>1. PICK e \in {"INTERRUPTED", "OTHER"} : SyncSubmitReturns(q, e)
        BY <1>10, <3>1 DEF DeliverSignal
      <4>2. QED
        BY <1>0, <3>1, <4>1 DEF SyncSubmitReturns, Working, Unreported, TypeOK
    <3>2. CASE ~(~Polls /\ pc[q] = "blocked")
      BY <1>10, <3>2 DEF DeliverSignal, Working, Unreported
    <3>3. QED
      BY <3>1, <3>2
  <2>3. QED
    BY <1>0, <2>1, <2>2, NothingMoves
<1>11. ASSUME NEW k \in kickers, Kick(k)
       PROVE  TailIsLast' /\ ExactlyOnce'
  <2>1. \A p \in Queues : Working(p)' = Working(p)
    BY <1>11 DEF Kick, Working, Unreported, worker
  <2>2. QED
    BY <1>0, <1>11, <2>1, NothingMoves DEF Kick, list, reports, client
<1>12. ASSUME NEW q \in Queues, NEW t \in Transfers, CancelQueued(q, t)
       PROVE  TailIsLast' /\ ExactlyOnce'
  <2>1. PICK i \in DOMAIN items[q] :
          /\ items[q][i] = t
          /\ LET rest == RemoveAt(items[q], i) IN
             /\ items' = [items EXCEPT ![q] = rest]
             /\ tail' = IF tail[q] # t THEN tail
                        ELSE [tail EXCEPT ![q] = IF rest = <<>> THEN NULL ELSE Last(rest)]
    BY <1>12 DEF CancelQueued
  <2> DEFINE rest == RemoveAt(items[q], i)
  <2>2. items[q] \in Seq(Transfers) /\ i \in 1..Len(items[q]) /\ IsInjective(items[q])
    BY <1>0 DEF TypeOK, ExactlyOnce, NoRepeats
  <2>3. /\ IsInjective(rest)
        /\ ToSet(rest) = Listed(q) \ {t}
        /\ t # Last(items[q]) => rest # <<>> /\ Last(rest) = Last(items[q])
    BY <2>1, <2>2, UnlinkItem DEF Listed
  <2>4. items' = [items EXCEPT ![q] = rest]
    BY <2>1
  <2>5. tail' = IF tail[q] # t THEN tail
                ELSE [tail EXCEPT ![q] = IF rest = <<>> THEN NULL ELSE Last(rest)]
    BY <2>1
  <2>6. t \in Listed(q) /\ items[q] # <<>>
    BY <2>1, <2>2 DEF Listed, ToSet
  <2> HIDE DEF rest
  <2>7. \A p \in Queues : Listed(p)' = IF p = q THEN Listed(q) \ {t} ELSE Listed(p)
    BY <1>0, <2>3, <2>4 DEF Listed, TypeOK
  <2>8. /\ \A p \in Queues : Working(p)' = Working(p)
        /\ Handling' = Handling /\ inflight' = inflight
    BY <1>12 DEF CancelQueued, Working, Unreported, Handling, worker
  <2>9. t \notin Signalled
    BY <1>0, <2>6 DEF ExactlyOnce, OnePlaceAtMost
  <2>10. Signalled' = Signalled \cup {t} /\ IsInjective(completed')
    BY <1>0, <1>12, <2>9, AppendNew
    DEF CancelQueued, FinishLocked, Signal, Signalled, ExactlyOnce, NoRepeats, TypeOK
  <2>11. NoRepeats'
    BY <1>0, <2>3, <2>4, <2>10 DEF ExactlyOnce, NoRepeats, TypeOK
  <2>12. TailIsLast'
    <3>1. tail[q] = Last(items[q])
      BY <1>0, <2>6 DEF TailIsLast
    <3>2. tail'[q] = IF rest = <<>> THEN NULL ELSE Last(rest)
      BY <1>0, <2>3, <2>5, <3>1 DEF TypeOK
    <3>3. QED
      BY <1>0, <2>4, <2>5, <3>2 DEF TailIsLast, TypeOK
  <2>13. OnePlaceAtMost'
    BY <1>0, <2>6, <2>7, <2>8, <2>10 DEF ExactlyOnce, OnePlaceAtMost
  <2>14. InFlightIsSomewhere'
    BY <1>0, <2>6, <2>7, <2>8, <2>10 DEF ExactlyOnce, InFlightIsSomewhere
  <2>15. QED
    BY <2>11, <2>12, <2>13, <2>14 DEF ExactlyOnce
<1>13. ASSUME NEW q \in Queues, NEW t \in Transfers, CancelRunning(q, t)
       PROVE  TailIsLast' /\ ExactlyOnce'
  <2>1. \A p \in Queues : Working(p)' = Working(p)
    BY <1>13 DEF CancelRunning, Working, Unreported
  <2>2. QED
    BY <1>0, <1>13, <2>1, NothingMoves DEF CancelRunning, list, reports
<1>14. CASE TakeResult
  <2> DEFINE t == Head(completed)
  <2>1. completed \in Seq(Transfers) /\ completed # <<>> /\ IsInjective(completed)
    BY <1>0, <1>14 DEF TakeResult, TypeOK, ExactlyOnce, NoRepeats
  <2>2. /\ t \in Transfers
        /\ Signalled = {t} \cup ToSet(Tail(completed))
        /\ IsInjective(Tail(completed)) /\ t \notin ToSet(Tail(completed))
    BY <2>1, PopHead DEF Signalled
  <2>3. completed' = Tail(completed) /\ Signalled' = Signalled \ {t}
    BY <1>14, <2>2 DEF TakeResult, Signalled
  <2>4. Handling = {} /\ Handling' = {t}
    <3>1. event' \in [it : Transfers, status : Statuses] /\ event'.it = t
      BY <1>0, <1>14, <2>2 DEF TakeResult, TypeOK, Statuses
    <3>2. event' # NULL
      BY <3>1
    <3>3. QED
      BY <1>14, <2>2, <3>1, <3>2 DEF TakeResult, Handling
  <2>5. /\ \A p \in Queues : Listed(p)' = Listed(p) /\ Working(p)' = Working(p)
        /\ items' = items /\ tail' = tail /\ inflight' = inflight
    BY <1>14 DEF TakeResult, Listed, Working, Unreported, list, worker, client
  <2> HIDE DEF t
  <2>6. TailIsLast' /\ NoRepeats'
    BY <1>0, <2>2, <2>3, <2>5 DEF TailIsLast, ExactlyOnce, NoRepeats
  <2>7. OnePlaceAtMost'
    BY <1>0, <2>2, <2>3, <2>4, <2>5 DEF ExactlyOnce, OnePlaceAtMost
  <2>8. InFlightIsSomewhere'
    BY <1>0, <2>2, <2>3, <2>4, <2>5 DEF ExactlyOnce, InFlightIsSomewhere
  <2>9. QED
    BY <2>6, <2>7, <2>8 DEF ExactlyOnce
<1>15. CASE Deliver
  <2>1. /\ Handling = {event.it} /\ Handling' = {}
        /\ inflight' = inflight \ {event.it}
    BY <1>0, <1>15 DEF Deliver, Handling, TypeOK
  <2>2. /\ \A p \in Queues : Listed(p)' = Listed(p) /\ Working(p)' = Working(p)
        /\ Signalled' = Signalled /\ completed' = completed
        /\ items' = items /\ tail' = tail
    BY <1>15 DEF Deliver, Listed, Working, Unreported, Signalled, list, worker
  <2>3. TailIsLast' /\ NoRepeats'
    BY <1>0, <2>2 DEF TailIsLast, ExactlyOnce, NoRepeats
  <2>4. OnePlaceAtMost'
    BY <1>0, <2>1, <2>2 DEF ExactlyOnce, OnePlaceAtMost
  <2>5. InFlightIsSomewhere'
    BY <1>0, <2>1, <2>2 DEF ExactlyOnce, OnePlaceAtMost, InFlightIsSomewhere
  <2>6. QED
    BY <2>3, <2>4, <2>5 DEF ExactlyOnce
<1>16. CASE UNCHANGED vars
  <2>1. \A p \in Queues : Working(p)' = Working(p)
    BY <1>16 DEF vars, worker, Working, Unreported
  <2>2. QED
    BY <1>0, <1>16, <2>1, NothingMoves DEF vars, list, reports, client
<1>17. QED
  BY <1>1, <1>2, <1>3, <1>4, <1>5, <1>6, <1>7, <1>8, <1>9, <1>10, <1>11, <1>12, <1>13,
     <1>14, <1>15, <1>16 DEF Next

LEMMA Invariance == Spec => []IInv
<1>1. Init => IInv
  BY InitTypeWorker, InitPlaces DEF IInv
<1>2. IInv /\ [Next]_vars => IInv'
  BY StepTypeWorker, StepPlaces DEF IInv
<1>3. QED
  BY <1>1, <1>2, PTL DEF Spec

\* Whatever workers, cancellers, callbacks and failing allocations do, a
\* submitted transfer is in exactly one place until it is given back: its
\* completion is reported once, and never lost.
THEOREM ReportedExactlyOnce == Spec => []ExactlyOnce
<1>1. IInv => ExactlyOnce
  BY DEF IInv
<1>2. QED
  BY <1>1, Invariance, PTL

\* The tail pointer is always the last item: no append cuts a list short.
THEOREM TailAlwaysLast == Spec => []TailIsLast
<1>1. IInv => TailIsLast
  BY DEF IInv
<1>2. QED
  BY <1>1, Invariance, PTL

\* What the comment in sdk_aq_submit relies on when it drops the whole list.
THEOREM NoThreadEmptyQueue == Spec => []NoWorkerNoQueue
<1>1. IInv => NoWorkerNoQueue
  BY DEF IInv, WorkerInv, NoWorkerNoQueue, TypeOK
<1>2. QED
  BY <1>1, Invariance, PTL

\* pthread_kill is only ever given a thread that still runs.
THEOREM SignalsAreSafe == Spec => []SignalsReachWorkers
<1>1. IInv => SignalsReachWorkers
  BY DEF IInv, WorkerInv, SignalsReachWorkers
<1>2. QED
  BY <1>1, Invariance, PTL

-----------------------------------------------------------------------------
(***************************************************************************)
(* Truthful reports, where results can be allocated.  Nothing is lost then *)
(* between the worker or the canceller, who know how a transfer ended, and *)
(* the event thread, who looks for a result much later.                    *)
(***************************************************************************)

\* A result is for a transfer whose completion is signalled, and says how it
\* ended; one without a result was completed.
ResultsKept ==
  /\ \A r \in results : r.it \in Signalled /\ r.status = outcome[r.it]
  /\ \A t \in Signalled : (\A r \in results : r.it # t) => outcome[t] = "COMPLETED"

TruthInv == IInv /\ ResultsKept /\ TruthfulReport

\* A step that neither signals nor takes a completion.
LEMMA ResultsUntouched ==
  ASSUME ResultsKept, TruthfulReport, UNCHANGED <<results, completed, outcome, event>>
  PROVE  ResultsKept' /\ TruthfulReport'
BY DEF ResultsKept, TruthfulReport, Signalled

\* A completion is signalled for a transfer that has none under way, with a
\* result or as completed.
LEMMA SignalKeeps ==
  ASSUME TypeOK, ResultsKept, TruthfulReport, NEW t \in Transfers, NEW status,
         t \notin Signalled \cup Handling, Signal(t, status), event' = event,
         \/ results' = results \cup {[it |-> t, status |-> status]}
         \/ results' = results /\ status = "COMPLETED"
  PROVE  ResultsKept' /\ TruthfulReport'
<1>1. Signalled' = Signalled \cup {t}
  BY AppendNew DEF Signal, Signalled, TypeOK
<1>2. \A u \in Transfers : outcome'[u] = IF u = t THEN status ELSE outcome[u]
  BY DEF Signal, TypeOK
<1>3. \A r \in results : r.it \in Transfers /\ r.it # t
  BY DEF ResultsKept, TypeOK
<1>4. Signalled \subseteq Transfers
  BY DEF Signalled, TypeOK, ToSet
<1>5. \A r \in results' : r.it \in Signalled' /\ r.status = outcome'[r.it]
  BY <1>1, <1>2, <1>3 DEF ResultsKept
<1>6. \A u \in Signalled' : (\A r \in results' : r.it # u) => outcome'[u] = "COMPLETED"
  <2>1. (\A r \in results' : r.it # t) => outcome'[t] = "COMPLETED"
    <3> DEFINE new == [it |-> t, status |-> status]
    <3>1. new.it = t
      OBVIOUS
    <3>2. results' = results \cup {new} \/ (results' = results /\ status = "COMPLETED")
      OBVIOUS
    <3> HIDE DEF new
    <3>3. QED
      BY <1>2, <3>1, <3>2
  <2>2. \A u \in Signalled : u # t => outcome'[u] = outcome[u] /\ u \in Transfers
    BY <1>2, <1>4
  <2>3. \A u \in Signalled : (\A r \in results' : r.it # u) => \A r \in results : r.it # u
    OBVIOUS
  <2>4. QED
    BY <1>1, <2>1, <2>2, <2>3 DEF ResultsKept
<1>7. TruthfulReport'
  <2>1. event # NULL => event.it \in Transfers /\ event.it # t
    BY DEF TypeOK, Handling
  <2>2. QED
    BY <1>2, <2>1 DEF TruthfulReport
<1>8. QED
  BY <1>5, <1>6, <1>7 DEF ResultsKept

LEMMA InitResults == Init => ResultsKept /\ TruthfulReport
BY DEF Init, ResultsKept, TruthfulReport, Signalled, ToSet

LEMMA StepResults ==
  ASSUME "result" \notin Oom, TruthInv, [Next]_vars
  PROVE  ResultsKept' /\ TruthfulReport'
<1> USE NullAssumption
<1>0. TypeOK /\ WorkerInv /\ ExactlyOnce /\ ResultsKept /\ TruthfulReport
  BY DEF TruthInv, IInv
<1>1. ASSUME NEW q \in Queues, NEW t \in Transfers, Submit(q, t) \/ SubmitNoThread(q, t)
      PROVE  ResultsKept' /\ TruthfulReport'
  BY <1>0, <1>1, ResultsUntouched DEF Submit, SubmitNoThread, reports
<1>2. ASSUME NEW t \in Transfers, SubmitSync(t)
      PROVE  ResultsKept' /\ TruthfulReport'
  <2>1. t \notin Signalled \cup Handling
    BY <1>0, <1>2 DEF SubmitSync, ExactlyOnce, InFlightIsSomewhere
  <2>2. QED
    BY <1>0, <1>2, <2>1, SignalKeeps DEF SubmitSync
<1>3. ASSUME NEW q \in Queues, WorkerStart(q) \/ WorkerBlock(q)
      PROVE  ResultsKept' /\ TruthfulReport'
  BY <1>0, <1>3, ResultsUntouched DEF WorkerStart, WorkerBlock, reports
<1>4. ASSUME NEW q \in Queues, WorkerSucceeds(q)
      PROVE  ResultsKept' /\ TruthfulReport'
  <2>1. cur[q] \in Working(q)
    BY <1>0, <1>4 DEF WorkerSucceeds, WorkerInv, TypeOK, Working, Unreported
  <2>2. cur[q] \in Transfers /\ cur[q] \notin Signalled \cup Handling
    BY <1>0, <2>1 DEF ExactlyOnce, OnePlaceAtMost, Working
  <2>3. QED
    BY <1>0, <1>4, <2>2, SignalKeeps DEF WorkerSucceeds, SyncSubmitReturns
<1>5. ASSUME NEW q \in Queues, WorkerFails(q) \/ WorkerInterrupted(q)
      PROVE  ResultsKept' /\ TruthfulReport'
  BY <1>0, <1>5, ResultsUntouched DEF WorkerFails, WorkerInterrupted, SyncSubmitReturns
<1>6. ASSUME NEW q \in Queues, WorkerRelock(q)
      PROVE  ResultsKept' /\ TruthfulReport'
  <2>1. CASE err[q] = "OK"
    BY <1>0, <1>6, <2>1, ResultsUntouched DEF WorkerRelock, reports
  <2>2. CASE err[q] # "OK"
    <3>1. cur[q] \in Working(q)
      BY <1>0, <1>6, <2>2 DEF WorkerRelock, WorkerInv, TypeOK, Working, Unreported
    <3>2. cur[q] \in Transfers /\ cur[q] \notin Signalled \cup Handling
      BY <1>0, <3>1 DEF ExactlyOnce, OnePlaceAtMost, Working
    <3>3. FinishLocked(cur[q], Status(err[q], cancel_cur[q])) /\ event' = event
      BY <1>6, <2>2 DEF WorkerRelock
    <3>4. QED
      BY <1>0, <3>2, <3>3, SignalKeeps DEF FinishLocked
  <2>3. QED
    BY <2>1, <2>2
<1>7. ASSUME NEW q \in Queues, DeliverSignal(q)
      PROVE  ResultsKept' /\ TruthfulReport'
  BY <1>0, <1>7, ResultsUntouched DEF DeliverSignal, SyncSubmitReturns
<1>8. ASSUME NEW k \in kickers, Kick(k)
      PROVE  ResultsKept' /\ TruthfulReport'
  BY <1>0, <1>8, ResultsUntouched DEF Kick, reports
<1>9. ASSUME NEW q \in Queues, NEW t \in Transfers, CancelQueued(q, t)
      PROVE  ResultsKept' /\ TruthfulReport'
  <2>1. t \in Listed(q)
    BY <1>9 DEF CancelQueued, Listed, ToSet
  <2>2. t \notin Signalled \cup Handling
    BY <1>0, <2>1 DEF ExactlyOnce, OnePlaceAtMost
  <2>3. FinishLocked(t, "CANCELLED") /\ event' = event
    BY <1>9 DEF CancelQueued
  <2>4. QED
    BY <1>0, <2>2, <2>3, SignalKeeps DEF FinishLocked
<1>10. ASSUME NEW q \in Queues, NEW t \in Transfers, CancelRunning(q, t)
       PROVE  ResultsKept' /\ TruthfulReport'
  BY <1>0, <1>10, ResultsUntouched DEF CancelRunning, reports
<1>11. CASE TakeResult
  <2> DEFINE t == Head(completed)
  <2>1. completed \in Seq(Transfers) /\ completed # <<>> /\ IsInjective(completed)
    BY <1>0, <1>11 DEF TakeResult, TypeOK, ExactlyOnce, NoRepeats
  <2>2. /\ t \in Signalled
        /\ Signalled' = Signalled \ {t}
        /\ outcome' = outcome
    BY <1>11, <2>1, PopHead DEF TakeResult, Signalled
  <2>3. \/ \E r \in results : r.it = t /\ event' = r /\ results' = results \ {r}
        \/ /\ \A r \in results : r.it # t
           /\ event' = [it |-> t, status |-> "COMPLETED"]
           /\ results' = results
    BY <1>11 DEF TakeResult
  <2> HIDE DEF t
  <2>4. \A r \in results' : r \in results /\ r.it # t
    <3>1. \A r, s \in results : r.it = s.it => r = s
      BY <1>0 DEF ResultsKept, TypeOK
    <3>2. QED
      BY <2>3, <3>1
  <2>5. \A r \in results : r.it # t => r \in results'
    BY <2>3
  <2>6. ResultsKept'
    BY <1>0, <2>2, <2>4, <2>5 DEF ResultsKept
  <2>7. event'.it = t /\ event'.status = outcome[t]
    BY <1>0, <2>2, <2>3 DEF ResultsKept
  <2>8. TruthfulReport'
    BY <2>2, <2>7 DEF TruthfulReport
  <2>9. QED
    BY <2>6, <2>8
<1>12. CASE Deliver
  <2>1. event.it \in Handling
    BY <1>0, <1>12 DEF Deliver, Handling, TypeOK
  <2>2. event.it \notin Signalled
    BY <1>0, <2>1 DEF ExactlyOnce, OnePlaceAtMost
  <2>3. Signalled' = Signalled /\ results' = results /\ event' = NULL
    BY <1>12 DEF Deliver, Signalled
  <2>4. \A u \in Signalled : outcome'[u] = outcome[u]
    BY <1>0, <1>12, <2>2 DEF Deliver, TypeOK, Signalled, ToSet
  <2>5. QED
    BY <1>0, <2>3, <2>4 DEF ResultsKept, TruthfulReport
<1>13. CASE UNCHANGED vars
  BY <1>0, <1>13, ResultsUntouched DEF vars, reports
<1>14. QED
  BY <1>1, <1>2, <1>3, <1>4, <1>5, <1>6, <1>7, <1>8, <1>9, <1>10, <1>11, <1>12, <1>13
  DEF TruthInv, Next

\* Where the memory for a result is there, the owner is told how its transfer
\* ended, however long the event thread takes and whatever ends meanwhile.
THEOREM ReportsAreTruthful ==
  ASSUME "result" \notin Oom
  PROVE  Spec => []TruthfulReport
<1>1. Init => TruthInv
  BY InitTypeWorker, InitPlaces, InitResults DEF TruthInv, IInv
<1>2. TruthInv /\ [Next]_vars => TruthInv'
  BY StepTypeWorker, StepPlaces, StepResults DEF TruthInv, IInv
<1>3. TruthInv => TruthfulReport
  BY DEF TruthInv
<1>4. QED
  BY <1>1, <1>2, <1>3, PTL DEF Spec

-----------------------------------------------------------------------------
(***************************************************************************)
(* An accepted cancel leaves no list holding its transfer, where a         *)
(* transfer has one endpoint: then no other queue's cur can stand for it.  *)
(***************************************************************************)

\* A queue lists and runs transfers of its endpoint, and a cancel concerns a
\* transfer that is under way.
OwnEndpoint ==
  /\ \A q \in Queues : \A t \in Listed(q) : q \in EndpointsOf[t]
  /\ \A q \in Queues : cur[q] # NULL => q \in EndpointsOf[cur[q]]
  /\ asked \subseteq inflight

CancelInv == IInv /\ OwnEndpoint /\ CancelledNotQueued

\* A step that adds nothing to a list, a worker or the cancels.
LEMMA NothingAdded ==
  ASSUME OwnEndpoint, CancelledNotQueued, asked' \subseteq asked, asked' \subseteq inflight',
         \A q \in Queues : Listed(q)' \subseteq Listed(q),
         \A q \in Queues : cur'[q] = cur[q] \/ cur'[q] = NULL \/ cur'[q] \in Listed(q)
  PROVE  OwnEndpoint' /\ CancelledNotQueued'
<1>1. CancelledNotQueued'
  BY DEF CancelledNotQueued
<1>2. \A q \in Queues : \A t \in Listed(q)' : q \in EndpointsOf[t]
  BY DEF OwnEndpoint
<1>3. \A q \in Queues : cur'[q] # NULL => q \in EndpointsOf[cur'[q]]
  BY DEF OwnEndpoint
<1>4. QED
  BY <1>1, <1>2, <1>3 DEF OwnEndpoint

\* The worker's loop takes what it runs next from its own list.
LEMMA NextItemOwn ==
  ASSUME TypeOK, NEW q \in Queues, PopItem(q) \/ ExitWorker(q)
  PROVE  /\ \A p \in Queues : Listed(p)' \subseteq Listed(p)
         /\ \A p \in Queues : cur'[p] = cur[p] \/ cur'[p] = NULL \/ cur'[p] \in Listed(p)
<1>1. CASE PopItem(q)
  <2> DEFINE h == Head(items[q])
             rest == Tail(items[q])
  <2>1. Listed(q) = {h} \cup ToSet(rest)
    BY <1>1, PopHead DEF PopItem, Listed, TypeOK
  <2>2. items' = [items EXCEPT ![q] = rest] /\ cur' = [cur EXCEPT ![q] = h]
    BY <1>1 DEF PopItem
  <2> HIDE DEF h, rest
  <2>3. QED
    BY <2>1, <2>2 DEF Listed, TypeOK
<1>2. CASE ExitWorker(q)
  BY <1>2 DEF ExitWorker, Listed, TypeOK, list
<1>3. QED
  BY <1>1, <1>2

LEMMA InitOwn == Init => OwnEndpoint /\ CancelledNotQueued
BY DEF Init, OwnEndpoint, CancelledNotQueued, Listed, ToSet

LEMMA StepOwn ==
  ASSUME \A t \in Transfers : \A p, q \in EndpointsOf[t] : p = q, CancelInv, [Next]_vars
  PROVE  OwnEndpoint' /\ CancelledNotQueued'
<1> USE NullAssumption
<1>0. TypeOK /\ WorkerInv /\ TailIsLast /\ ExactlyOnce /\ OwnEndpoint /\ CancelledNotQueued
  BY DEF CancelInv, IInv
<1>1. ASSUME NEW q \in Queues, NEW t \in Transfers, Submit(q, t)
      PROVE  OwnEndpoint' /\ CancelledNotQueued'
  <2>1. items[q] \in Seq(Transfers) /\ IsInjective(items[q])
    BY <1>0 DEF TypeOK, ExactlyOnce, NoRepeats
  <2>2. items' = [items EXCEPT ![q] = Append(items[q], t)]
    BY <1>0, <1>1, <2>1, LinkLastAppends DEF Submit, TailIsLast, TypeOK
  <2> DEFINE longer == Append(items[q], t)
  <2>3. ToSet(longer) = Listed(q) \cup {t}
    BY <2>1, AppendNew DEF Listed
  <2> HIDE DEF longer
  <2>4. items' = [items EXCEPT ![q] = longer]
    BY <2>2 DEF longer
  <2>5. \A p \in Queues : Listed(p)' = IF p = q THEN Listed(q) \cup {t} ELSE Listed(p)
    BY <1>0, <2>3, <2>4 DEF Listed, TypeOK
  <2>6. /\ cur' = cur /\ asked' = asked /\ inflight' = inflight \cup {t}
        /\ t \notin asked /\ q \in EndpointsOf[t]
    BY <1>0, <1>1 DEF Submit, OwnEndpoint
  <2>7. CancelledNotQueued'
    BY <1>0, <2>5, <2>6 DEF CancelledNotQueued
  <2>8. \A p \in Queues : \A u \in Listed(p)' : p \in EndpointsOf[u]
    BY <1>0, <2>5, <2>6 DEF OwnEndpoint
  <2>9. QED
    BY <1>0, <2>6, <2>7, <2>8 DEF OwnEndpoint
<1>2. ASSUME NEW q \in Queues, NEW t \in Transfers, SubmitNoThread(q, t)
      PROVE  OwnEndpoint' /\ CancelledNotQueued'
  <2>1. \A p \in Queues : Listed(p)' \subseteq Listed(p)
    BY <1>0, <1>2 DEF SubmitNoThread, Listed, ToSet, TypeOK
  <2>2. QED
    BY <1>0, <1>2, <2>1, NothingAdded DEF SubmitNoThread, OwnEndpoint, worker, client
<1>3. ASSUME NEW t \in Transfers, SubmitSync(t)
      PROVE  OwnEndpoint' /\ CancelledNotQueued'
  <2>1. \A p \in Queues : Listed(p)' \subseteq Listed(p)
    BY <1>3 DEF SubmitSync, Listed, list
  <2>2. QED
    BY <1>0, <1>3, <2>1, NothingAdded DEF SubmitSync, OwnEndpoint, worker
<1>4. ASSUME NEW q \in Queues, WorkerStart(q) \/ WorkerRelock(q)
      PROVE  OwnEndpoint' /\ CancelledNotQueued'
  <2>1. /\ \A p \in Queues : Listed(p)' \subseteq Listed(p)
        /\ \A p \in Queues : cur'[p] = cur[p] \/ cur'[p] = NULL \/ cur'[p] \in Listed(p)
    BY <1>0, <1>4, NextItemOwn DEF WorkerStart, WorkerRelock
  <2>2. asked' = asked /\ inflight' = inflight
    BY <1>4 DEF WorkerStart, WorkerRelock, client
  <2>3. QED
    BY <1>0, <2>1, <2>2, NothingAdded DEF OwnEndpoint
<1>5. ASSUME NEW q \in Queues, WorkerBlock(q) \/ WorkerSucceeds(q) \/ WorkerFails(q)
             \/ WorkerInterrupted(q) \/ DeliverSignal(q)
      PROVE  OwnEndpoint' /\ CancelledNotQueued'
  <2>1. items' = items /\ cur' = cur /\ asked' = asked /\ inflight' = inflight
    BY <1>5 DEF WorkerBlock, WorkerSucceeds, WorkerFails, WorkerInterrupted, DeliverSignal,
                SyncSubmitReturns, list, client
  <2>2. \A p \in Queues : Listed(p)' = Listed(p)
    BY <2>1 DEF Listed
  <2>3. QED
    BY <1>0, <2>1, <2>2, NothingAdded DEF OwnEndpoint
<1>6. ASSUME NEW k \in kickers, Kick(k)
      PROVE  OwnEndpoint' /\ CancelledNotQueued'
  <2>1. items' = items /\ cur' = cur /\ asked' = asked /\ inflight' = inflight
    BY <1>6 DEF Kick, list, worker, client
  <2>2. \A p \in Queues : Listed(p)' = Listed(p)
    BY <2>1 DEF Listed
  <2>3. QED
    BY <1>0, <2>1, <2>2, NothingAdded DEF OwnEndpoint
<1>7. ASSUME NEW q \in Queues, NEW t \in Transfers, CancelQueued(q, t)
      PROVE  OwnEndpoint' /\ CancelledNotQueued'
  <2>1. PICK i \in DOMAIN items[q] :
          items[q][i] = t /\ items' = [items EXCEPT ![q] = RemoveAt(items[q], i)]
    BY <1>7 DEF CancelQueued
  <2> DEFINE rest == RemoveAt(items[q], i)
  <2>2. items[q] \in Seq(Transfers) /\ i \in 1..Len(items[q]) /\ IsInjective(items[q])
    BY <1>0 DEF TypeOK, ExactlyOnce, NoRepeats
  <2>3. ToSet(rest) = Listed(q) \ {t}
    BY <2>1, <2>2, UnlinkItem DEF Listed
  <2>4. items' = [items EXCEPT ![q] = rest]
    BY <2>1
  <2>5. t \in Listed(q)
    BY <2>1 DEF Listed, ToSet
  <2> HIDE DEF rest
  <2>6. \A p \in Queues : Listed(p)' = Listed(p) \ {t}
    BY <1>0, <2>3, <2>4, <2>5 DEF Listed, TypeOK, ExactlyOnce, OnePlaceAtMost
  <2>7. cur' = cur /\ asked' = asked \cup {t} /\ inflight' = inflight /\ t \in inflight
    BY <1>7 DEF CancelQueued, worker
  <2>8. CancelledNotQueued'
    BY <1>0, <2>6, <2>7 DEF CancelledNotQueued
  <2>9. QED
    BY <1>0, <2>6, <2>7, <2>8 DEF OwnEndpoint
<1>8. ASSUME NEW q \in Queues, NEW t \in Transfers, CancelRunning(q, t)
      PROVE  OwnEndpoint' /\ CancelledNotQueued'
  <2>1. cur[q] = t /\ t \in inflight /\ ~Contains(items[q], t)
    BY <1>8 DEF CancelRunning
  <2>2. q \in EndpointsOf[t]
    BY <1>0, <2>1 DEF OwnEndpoint
  <2>3. t \notin Listed(q)
    <3>1. items[q] \in Seq(Transfers)
      BY <1>0 DEF TypeOK
    <3>2. QED
      BY <2>1, <3>1 DEF Contains, Listed, ToSet
  <2>4. \A p \in Queues : t \notin Listed(p)
    BY <1>0, <2>2, <2>3 DEF OwnEndpoint
  <2>5. items' = items /\ cur' = cur /\ asked' = asked \cup {t} /\ inflight' = inflight
    BY <1>8 DEF CancelRunning, list
  <2>6. \A p \in Queues : Listed(p)' = Listed(p)
    BY <2>5 DEF Listed
  <2>7. CancelledNotQueued'
    BY <1>0, <2>4, <2>5, <2>6 DEF CancelledNotQueued
  <2>8. QED
    BY <1>0, <2>1, <2>5, <2>6, <2>7 DEF OwnEndpoint
<1>9. CASE TakeResult \/ Deliver
  <2>1. /\ items' = items /\ cur' = cur /\ asked' \subseteq asked
        /\ asked' \subseteq inflight'
    BY <1>0, <1>9 DEF TakeResult, Deliver, OwnEndpoint, list, worker, client
  <2>2. \A p \in Queues : Listed(p)' = Listed(p)
    BY <2>1 DEF Listed
  <2>3. QED
    BY <1>0, <2>1, <2>2, NothingAdded
<1>10. CASE UNCHANGED vars
  BY <1>0, <1>10
  DEF vars, list, worker, client, OwnEndpoint, CancelledNotQueued, Listed
<1>11. QED
  BY <1>1, <1>2, <1>3, <1>4, <1>5, <1>6, <1>7, <1>8, <1>9, <1>10 DEF CancelInv, Next

\* A transfer that is only ever submitted to one endpoint, as adb's and
\* fastboot's are, is out of its list as soon as its cancel is accepted.
THEOREM CancelTakesOut ==
  ASSUME \A t \in Transfers : \A p, q \in EndpointsOf[t] : p = q
  PROVE  Spec => []CancelledNotQueued
<1>1. Init => CancelInv
  BY InitTypeWorker, InitPlaces, InitOwn DEF CancelInv, IInv
<1>2. CancelInv /\ [Next]_vars => CancelInv'
  BY StepTypeWorker, StepPlaces, StepOwn DEF CancelInv, IInv
<1>3. CancelInv => CancelledNotQueued
  BY DEF CancelInv
<1>4. QED
  BY <1>1, <1>2, <1>3, PTL DEF Spec

=============================================================================
