---------------------- MODULE AsyncQueueService_proofs ----------------------
(***************************************************************************)
(* Proof that the queue implements TransferService, for any number of      *)
(* transfers and endpoints, where                                          *)
(*   - the memory for a result is there,                                   *)
(*   - a transfer is only ever submitted to one endpoint,                  *)
(*   - a signal is in before its target takes the lock again, and          *)
(*   - no device error looks like an interrupt.                            *)
(* Each step of the queue is a step of the service or leaves it alone.     *)
(***************************************************************************)
EXTENDS AsyncQueue_proofs

\* The four conditions; TLC's instance of FreeBSD meets them.
Regular ==
  /\ "result" \notin Oom
  /\ \A t \in Transfers : \A p, q \in EndpointsOf[t] : p = q
  /\ ~LateSignals
  /\ "INTERRUPTED" \notin DeviceErrors

-----------------------------------------------------------------------------
(***************************************************************************)
(* What the service sees of the queue.                                     *)
(***************************************************************************)

\* An endpoint's line: the transfer on the worker and those in the list.
InFront(q) == IF Unreported(q) THEN <<cur[q]>> ELSE <<>>

Line(q) == InFront(q) \o items[q]

Lines == [q \in Queues |-> Line(q)]

\* Completions told as they ended, and what the event thread will find.
Tell(ended, how) == [i \in DOMAIN ended |-> [it |-> ended[i], status |-> how[ended[i]]]]

Found == [i \in DOMAIN completed |-> Report(completed[i])]

\* A worker that was interrupted, or will be, has a cancel to answer: the
\* flags are the current transfer's, never the one's before.
CancelMarks ==
  \A q \in Queues :
    /\ sigurg[q] => cancel_cur[q]
    /\ interrupted[q] => cancel_cur[q]
    /\ pc[q] = "relock" /\ err[q] = "INTERRUPTED" => cancel_cur[q]
    /\ cancel_cur[q] /\ Unreported(q) => cur[q] \in asked

ServiceInv == TruthInv /\ CancelInv /\ CancelMarks

LEMMA InitMarks == Init => CancelMarks
BY DEF Init, CancelMarks

LEMMA StepMarks ==
  ASSUME Regular, ServiceInv, [Next]_vars
  PROVE  CancelMarks'
<1> USE NullAssumption
<1>0. TypeOK /\ WorkerInv /\ ExactlyOnce /\ CancelMarks
  BY DEF ServiceInv, TruthInv, IInv
<1>1. ASSUME NEW q \in Queues, NEW t \in Transfers, Submit(q, t)
      PROVE  CancelMarks'
  BY <1>0, <1>1 DEF Submit, CancelMarks, WorkerInv, TypeOK, Unreported
<1>2. ASSUME NEW q \in Queues, NEW t \in Transfers, SubmitNoThread(q, t)
      PROVE  CancelMarks'
  BY <1>0, <1>2 DEF SubmitNoThread, CancelMarks, Unreported, worker, client
<1>3. ASSUME NEW t \in Transfers, SubmitSync(t)
      PROVE  CancelMarks'
  BY <1>0, <1>3 DEF SubmitSync, CancelMarks, Unreported, worker
<1>4. ASSUME NEW q \in Queues, WorkerStart(q) \/ WorkerRelock(q)
      PROVE  CancelMarks'
  <2>1. ~sigurg[q]
    BY <1>0, <1>4 DEF WorkerStart, WorkerRelock, WorkerInv, Regular
  <2>2. asked' = asked /\ (err' = err \/ err' = [err EXCEPT ![q] = "OK"])
    BY <1>4 DEF WorkerStart, WorkerRelock, client
  <2>3. CASE PopItem(q)
    BY <1>0, <2>1, <2>2, <2>3 DEF PopItem, CancelMarks, TypeOK, Unreported
  <2>4. CASE ExitWorker(q)
    BY <1>0, <2>1, <2>2, <2>4 DEF ExitWorker, CancelMarks, TypeOK, Unreported
  <2>5. QED
    BY <1>4, <2>3, <2>4 DEF WorkerStart, WorkerRelock
<1>5. ASSUME NEW q \in Queues, WorkerBlock(q)
      PROVE  CancelMarks'
  BY <1>0, <1>5 DEF WorkerBlock, CancelMarks, TypeOK, Unreported, client
<1>6. ASSUME NEW q \in Queues, WorkerSucceeds(q) \/ WorkerFails(q)
      PROVE  CancelMarks'
  <2>1. PICK e \in DeviceErrors \cup {"OK"} : SyncSubmitReturns(q, e)
    BY <1>6 DEF WorkerSucceeds, WorkerFails
  <2>2. e # "INTERRUPTED"
    BY DEF Regular
  <2>3. pc[q] \in {"starting", "blocked"} /\ UNCHANGED <<interrupted, sigurg>>
    BY <1>6 DEF WorkerSucceeds, WorkerFails
  <2>4. QED
    BY <1>0, <2>1, <2>2, <2>3 DEF SyncSubmitReturns, CancelMarks, TypeOK, Unreported, client
<1>7. ASSUME NEW q \in Queues, WorkerInterrupted(q)
      PROVE  CancelMarks'
  BY <1>0, <1>7
  DEF WorkerInterrupted, SyncSubmitReturns, CancelMarks, TypeOK, Unreported, client
<1>8. ASSUME NEW q \in Queues, DeliverSignal(q)
      PROVE  CancelMarks'
  <2>1. CASE ~Polls /\ pc[q] = "blocked"
    <3>1. PICK e \in {"INTERRUPTED", "OTHER"} : SyncSubmitReturns(q, e)
      BY <1>8, <2>1 DEF DeliverSignal
    <3>2. QED
      BY <1>0, <1>8, <2>1, <3>1
      DEF DeliverSignal, SyncSubmitReturns, CancelMarks, TypeOK, Unreported, client
  <2>2. CASE ~(~Polls /\ pc[q] = "blocked")
    BY <1>0, <1>8, <2>2 DEF DeliverSignal, CancelMarks, TypeOK, Unreported, client
  <2>3. QED
    BY <2>1, <2>2
<1>9. ASSUME NEW k \in kickers, Kick(k)
      PROVE  CancelMarks'
  <2>1. k.q \in Queues
    BY <1>0 DEF TypeOK
  <2>2. QED
    BY <1>0, <1>9, <2>1 DEF Kick, CancelMarks, TypeOK, Unreported, worker, client
<1>10. ASSUME NEW q \in Queues, NEW t \in Transfers, CancelQueued(q, t)
       PROVE  CancelMarks'
  BY <1>0, <1>10 DEF CancelQueued, CancelMarks, Unreported, worker
<1>11. ASSUME NEW q \in Queues, NEW t \in Transfers, CancelRunning(q, t)
       PROVE  CancelMarks'
  BY <1>0, <1>11 DEF CancelRunning, CancelMarks, TypeOK, Unreported
<1>12. CASE TakeResult
  BY <1>0, <1>12 DEF TakeResult, CancelMarks, Unreported, worker, client
<1>13. CASE Deliver
  <2>1. event.it \in Handling
    BY <1>0, <1>13 DEF Deliver, Handling, TypeOK
  <2>2. ASSUME NEW q \in Queues, Unreported(q)
        PROVE  cur[q] # event.it
    <3>1. cur[q] \in Working(q)
      BY <1>0, <2>2 DEF WorkerInv, TypeOK, Working, Unreported
    <3>2. QED
      BY <1>0, <2>1, <3>1 DEF ExactlyOnce, OnePlaceAtMost
  <2>3. QED
    BY <1>0, <1>13, <2>2 DEF Deliver, CancelMarks, Unreported, worker
<1>14. CASE UNCHANGED vars
  BY <1>0, <1>14 DEF vars, CancelMarks, Unreported, worker, client
<1>15. QED
  BY <1>1, <1>2, <1>3, <1>4, <1>5, <1>6, <1>7, <1>8, <1>9, <1>10, <1>11, <1>12, <1>13,
     <1>14 DEF ServiceInv, TruthInv, Next

-----------------------------------------------------------------------------
(***************************************************************************)
(* Lines and reports, as sequences.                                        *)
(***************************************************************************)

\* Where results are kept, what will be found is how the transfers ended.
LEMMA FoundIsTold ==
  ASSUME NEW ended \in Seq(Transfers), NEW how,
         NEW res, \A r \in res : r.status = how[r.it],
         \A t \in ToSet(ended) : (\A r \in res : r.it # t) => how[t] = "COMPLETED"
  PROVE  [i \in DOMAIN ended |->
            [it |-> ended[i],
             status |-> IF \E r \in res : r.it = ended[i]
                        THEN (CHOOSE r \in res : r.it = ended[i]).status
                        ELSE "COMPLETED"]] = Tell(ended, how)
<1>1. ASSUME NEW t \in ToSet(ended)
      PROVE  (IF \E r \in res : r.it = t
              THEN (CHOOSE r \in res : r.it = t).status ELSE "COMPLETED") = how[t]
  <2>1. CASE \E r \in res : r.it = t
    <3> DEFINE r == CHOOSE r \in res : r.it = t
    <3>1. r \in res /\ r.it = t
      BY <2>1
    <3> HIDE DEF r
    <3>2. r.status = how[t]
      BY <3>1
    <3>3. QED
      BY <2>1, <3>2 DEF r
  <2>2. CASE ~ \E r \in res : r.it = t
    BY <2>2
  <2>3. QED
    BY <2>1, <2>2
<1>2. \A i \in DOMAIN ended : ended[i] \in ToSet(ended)
  BY DEF ToSet
<1>3. QED
  BY <1>1, <1>2 DEF Tell

\* A new completion is told last, and changes what is told of no other.
LEMMA TellAppend ==
  ASSUME NEW ended \in Seq(Transfers), NEW how \in [Transfers -> Statuses],
         NEW t \in Transfers, NEW status \in Statuses, t \notin ToSet(ended)
  PROVE  Tell(Append(ended, t), [how EXCEPT ![t] = status])
           = Append(Tell(ended, how), [it |-> t, status |-> status])
<1> DEFINE more == Append(ended, t)
           then == [how EXCEPT ![t] = status]
           last == [it |-> t, status |-> status]
           R == [it : Transfers, status : Statuses]
<1>1. /\ Len(ended) \in Nat /\ more \in Seq(Transfers) /\ Len(more) = Len(ended) + 1
      /\ more[Len(ended) + 1] = t
      /\ \A i \in 1..Len(ended) : more[i] = ended[i] /\ ended[i] # t /\ ended[i] \in Transfers
  BY DEF ToSet
<1>2. then[t] = status /\ \A u \in Transfers : u # t => then[u] = how[u]
  OBVIOUS
<1>3. last \in R
  OBVIOUS
<1> HIDE DEF more, then
<1>4. /\ Tell(ended, how) \in Seq(R) /\ Len(Tell(ended, how)) = Len(ended)
      /\ \A i \in 1..Len(ended) :
           Tell(ended, how)[i] = [it |-> ended[i], status |-> how[ended[i]]]
  <2>1. \A i \in 1..Len(ended) : [it |-> ended[i], status |-> how[ended[i]]] \in R
    BY <1>1
  <2>2. Tell(ended, how) = [i \in 1..Len(ended) |-> [it |-> ended[i], status |-> how[ended[i]]]]
    BY DEF Tell
  <2> HIDE DEF R
  <2>3. QED
    BY <1>1, <2>1, <2>2
<1>5. /\ DOMAIN Tell(more, then) = 1..(Len(ended) + 1)
      /\ Tell(more, then)[Len(ended) + 1] = last
      /\ \A i \in 1..Len(ended) :
           Tell(more, then)[i] = [it |-> ended[i], status |-> how[ended[i]]]
  <2>1. Tell(more, then)
          = [i \in 1..(Len(ended) + 1) |-> [it |-> more[i], status |-> then[more[i]]]]
    BY <1>1 DEF Tell
  <2>2. QED
    BY <1>1, <1>2, <2>1
<1> DEFINE a == Append(Tell(ended, how), last)
           b == Tell(more, then)
<1> HIDE DEF R, last
<1>6. /\ a \in Seq(R) /\ Len(a) = Len(ended) + 1 /\ a[Len(ended) + 1] = last
      /\ \A i \in 1..Len(ended) : a[i] = [it |-> ended[i], status |-> how[ended[i]]]
  BY <1>3, <1>4
<1> HIDE DEF a, b
<1>7. DOMAIN a = 1..(Len(ended) + 1) /\ DOMAIN b = 1..(Len(ended) + 1)
  BY <1>5, <1>6 DEF b
<1>8. \A i \in 1..(Len(ended) + 1) : a[i] = b[i]
  <2>1. \A i \in 1..(Len(ended) + 1) : i \in 1..Len(ended) \/ i = Len(ended) + 1
    BY <1>1
  <2>2. QED
    BY <1>5, <1>6, <2>1 DEF b
<1>9. a = [i \in DOMAIN a |-> a[i]] /\ b = [i \in DOMAIN b |-> b[i]]
  BY <1>6 DEF b, Tell
<1>10. a = b
  BY <1>7, <1>8, <1>9
<1>11. QED
  BY <1>10 DEF a, b, more, then, last

\* The first completion is told first, and the others stay as they are.
LEMMA TellTail ==
  ASSUME NEW ended \in Seq(Transfers), NEW how, ended # <<>>
  PROVE  /\ Tell(ended, how) # <<>>
         /\ Head(Tell(ended, how)) = [it |-> Head(ended), status |-> how[Head(ended)]]
         /\ Tail(Tell(ended, how)) = Tell(Tail(ended), how)
<1> DEFINE R == {[it |-> t, status |-> how[t]] : t \in Transfers}
           told == Tell(ended, how)
           rest == Tail(ended)
<1>1. /\ Len(ended) \in Nat \ {0} /\ Head(ended) = ended[1]
      /\ rest \in Seq(Transfers) /\ Len(rest) = Len(ended) - 1
      /\ \A i \in 1..(Len(ended) - 1) : rest[i] = ended[i + 1]
  OBVIOUS
<1>2. \A i \in 1..Len(ended) : [it |-> ended[i], status |-> how[ended[i]]] \in R
  <2>1. \A i \in 1..Len(ended) : ended[i] \in Transfers
    OBVIOUS
  <2>2. \A t \in Transfers : [it |-> t, status |-> how[t]] \in R
    OBVIOUS
  <2> HIDE DEF R
  <2>3. QED
    BY <2>1, <2>2
<1>3. told = [i \in 1..Len(ended) |-> [it |-> ended[i], status |-> how[ended[i]]]]
  BY DEF Tell
<1>4. Tell(rest, how) = [i \in 1..(Len(ended) - 1) |-> [it |-> rest[i], status |-> how[rest[i]]]]
  <2> HIDE DEF rest
  <2>1. DOMAIN rest = 1..(Len(ended) - 1)
    BY <1>1
  <2>2. QED
    BY <2>1 DEF Tell
<1> HIDE DEF R, told, rest
<1>5. told \in Seq(R) /\ Len(told) = Len(ended)
  BY <1>1, <1>2, <1>3
<1>6. told # <<>> /\ Head(told) = [it |-> ended[1], status |-> how[ended[1]]]
  BY <1>1, <1>3, <1>5
<1>7. /\ Tail(told) \in Seq(R) /\ Len(Tail(told)) = Len(ended) - 1
      /\ \A i \in 1..(Len(ended) - 1) : Tail(told)[i] = told[i + 1]
  BY <1>1, <1>5
<1>8. Tail(told) = [i \in 1..(Len(ended) - 1) |-> Tail(told)[i]]
  <2> DEFINE back == Tail(told)
             n == Len(ended) - 1
  <2>1. back \in Seq(R) /\ Len(back) = n
    BY <1>7
  <2> HIDE DEF back, n
  <2>2. back = [i \in 1..n |-> back[i]]
    BY <2>1
  <2>3. QED
    BY <2>2 DEF back, n
<1>9. \A i \in 1..(Len(ended) - 1) :
        Tail(told)[i] = [it |-> rest[i], status |-> how[rest[i]]]
  <2>1. \A i \in 1..(Len(ended) - 1) : i + 1 \in 1..Len(ended)
    BY <1>1
  <2>2. QED
    BY <1>1, <1>3, <1>7, <2>1
<1>10. Tail(told) = Tell(rest, how)
  BY <1>4, <1>8, <1>9
<1>11. QED
  BY <1>1, <1>6, <1>10 DEF told, rest

\* What only changes how others ended is not told differently.
LEMMA TellOthers ==
  ASSUME NEW ended \in Seq(Transfers), NEW how \in [Transfers -> Statuses], NEW t, NEW status,
         t \notin ToSet(ended)
  PROVE  Tell(ended, [how EXCEPT ![t] = status]) = Tell(ended, how)
<1>1. \A i \in DOMAIN ended : ended[i] # t /\ ended[i] \in Transfers
  BY DEF ToSet
<1>2. QED
  BY <1>1 DEF Tell

LEMMA LineTyped ==
  ASSUME TypeOK, WorkerInv, NEW q \in Queues
  PROVE  /\ items[q] \in Seq(Transfers)
         /\ InFront(q) \in Seq(Transfers)
         /\ Line(q) \in Seq(Transfers)
         /\ Unreported(q) => cur[q] \in Transfers
         /\ ToSet(Line(q)) = Working(q) \cup Listed(q)
<1>1. items[q] \in Seq(Transfers) /\ (Unreported(q) => cur[q] \in Transfers)
  BY DEF TypeOK, WorkerInv, Unreported
<1>2. CASE Unreported(q)
  <2>1. InFront(q) = <<cur[q]>> /\ Line(q) = <<cur[q]>> \o items[q] /\ Working(q) = {cur[q]}
    BY <1>1, <1>2 DEF InFront, Line, Working
  <2>2. /\ Line(q) \in Seq(Transfers) /\ Line(q) # <<>>
        /\ Head(Line(q)) = cur[q] /\ Tail(Line(q)) = items[q]
    BY <1>1, <1>2, <2>1, TailOfFront
  <2>3. ToSet(Line(q)) = {cur[q]} \cup ToSet(items[q])
    BY <2>2, PopHead
  <2>4. QED
    BY <1>1, <1>2, <2>1, <2>2, <2>3 DEF Listed
<1>3. CASE ~Unreported(q)
  <2>1. InFront(q) = <<>> /\ Line(q) = <<>> \o items[q] /\ Working(q) = {}
    BY <1>3 DEF InFront, Line, Working
  <2>2. Line(q) = items[q]
    BY <1>1, <2>1
  <2>3. QED
    BY <1>1, <1>3, <2>1, <2>2 DEF Listed
<1>4. QED
  BY <1>2, <1>3

-----------------------------------------------------------------------------
(***************************************************************************)
(* The mapping.  A step of the queue changes a line and what is told as a  *)
(* step of the service does.                                               *)
(***************************************************************************)

\* What the service holds is what libusb has in flight.
LEMMA HeldIsInFlight ==
  ASSUME ServiceInv
  PROVE  Service!Held = inflight /\ Found = Tell(completed, outcome)
<1>0. TypeOK /\ WorkerInv /\ ExactlyOnce /\ ResultsKept
  BY DEF ServiceInv, TruthInv, IInv
<1>1. Found = Tell(completed, outcome)
  <2>1. completed \in Seq(Transfers)
    BY <1>0 DEF TypeOK
  <2>2. \A r \in results : r.status = outcome[r.it]
    BY <1>0 DEF ResultsKept
  <2>3. \A t \in ToSet(completed) : (\A r \in results : r.it # t) => outcome[t] = "COMPLETED"
    BY <1>0 DEF ResultsKept, Signalled
  <2>4. QED
    BY <2>1, <2>2, <2>3, FoundIsTold DEF Found, Report
<1>2. UNION {ToSet(Lines[q]) : q \in Queues}
        = UNION {Working(q) \cup Listed(q) : q \in Queues}
  BY <1>0, LineTyped DEF Lines
<1>3. {Found[i].it : i \in DOMAIN Found} = Signalled
  BY DEF Found, Report, Signalled, ToSet
<1>4. {t \in Transfers : event # NULL /\ event.it = t} = Handling
  BY DEF Handling
<1>5. Service!Held = (UNION {ToSet(Lines[q]) : q \in Queues})
                       \cup {Found[i].it : i \in DOMAIN Found}
                       \cup {t \in Transfers : event # NULL /\ event.it = t}
  BY DEF Service!Held, Service!ToSet, ToSet, Lines, Line, InFront, Found
<1>6. (UNION {Working(q) \cup Listed(q) : q \in Queues}) \cup Signalled \cup Handling = inflight
  <2>1. \A q \in Queues : Working(q) \cup Listed(q) \subseteq Transfers
    BY <1>0 DEF Working, Listed, ToSet, TypeOK
  <2>2. Signalled \cup Handling \subseteq Transfers /\ inflight \subseteq Transfers
    BY <1>0 DEF Signalled, Handling, ToSet, TypeOK
  <2>3. QED
    BY <1>0, <2>1, <2>2 DEF ExactlyOnce, InFlightIsSomewhere
<1>7. QED
  BY <1>1, <1>2, <1>3, <1>4, <1>5, <1>6

\* One line changes, the others stay.
LEMMA LinesChange ==
  ASSUME NEW q \in Queues, NEW x, Line(q)' = x,
         \A p \in Queues : p # q => Line(p)' = Line(p)
  PROVE  Lines' = [Lines EXCEPT ![q] = x]
BY DEF Lines

LEMMA LinesStay ==
  ASSUME \A p \in Queues : Line(p)' = Line(p)
  PROVE  Lines' = Lines
BY DEF Lines

LEMMA MapsToStutter ==
  ASSUME Lines' = Lines, Found' = Found, event' = event, asked' = asked
  PROVE  UNCHANGED Service!vars
BY DEF Service!vars, Lines, Line, InFront, Found

LEMMA MapsToSubmit ==
  ASSUME NEW q \in Queues, NEW t \in Transfers, t \notin Service!Held, q \in EndpointsOf[t],
         Lines' = [Lines EXCEPT ![q] = Append(Lines[q], t)],
         Found' = Found, event' = event, asked' = asked
  PROVE  Service!Next
<1>1. Service!Submit(q, t)
  BY DEF Service!Submit, Lines, Line, InFront, Found
<1>2. QED
  BY <1>1 DEF Service!Next

LEMMA MapsToSubmitSync ==
  ASSUME NEW t \in Transfers, t \notin Service!Held, EndpointsOf[t] = {}, Lines' = Lines,
         Found' = Append(Found, [it |-> t, status |-> "COMPLETED"]),
         event' = event, asked' = asked
  PROVE  Service!Next
<1>1. Service!SubmitSync(t)
  BY DEF Service!SubmitSync, Service!Report, Lines, Line, InFront, Found
<1>2. QED
  BY <1>1 DEF Service!Next

LEMMA MapsToFinish ==
  ASSUME NEW q \in Queues, Lines[q] # <<>>, NEW status \in Statuses,
         status = "CANCELLED" => Head(Lines[q]) \in asked,
         Found' = Append(Found, [it |-> Head(Lines[q]), status |-> status]),
         Lines' = [Lines EXCEPT ![q] = Tail(Lines[q])],
         event' = event, asked' = asked
  PROVE  Service!Next
<1>1. Service!Finish(q)
  BY DEF Service!Finish, Service!Report, Lines, Line, InFront, Found
<1>2. QED
  BY <1>1 DEF Service!Next

LEMMA MapsToCancelWaiting ==
  ASSUME NEW q \in Queues, NEW t \in Transfers, NEW i \in DOMAIN Lines[q], Lines[q][i] = t,
         Lines' = [Lines EXCEPT ![q] = RemoveAt(Lines[q], i)],
         Found' = Append(Found, [it |-> t, status |-> "CANCELLED"]),
         event' = event, asked' = asked \cup {t}
  PROVE  Service!Next
<1>1. Service!CancelWaiting(q, t)
  BY DEF Service!CancelWaiting, Service!Report, Service!RemoveAt, RemoveAt, Lines, Line, InFront, Found
<1>2. QED
  BY <1>1 DEF Service!Next

LEMMA MapsToRequestCancel ==
  ASSUME NEW t \in Transfers, t \in Service!Held,
         \A q \in Queues : Contains(Lines[q], t) => Head(Lines[q]) = t,
         Lines' = Lines, Found' = Found, event' = event, asked' = asked \cup {t}
  PROVE  Service!Next
<1>1. Service!RequestCancel(t)
  BY DEF Service!RequestCancel, Service!Contains, Contains, Lines, Line, InFront, Found
<1>2. QED
  BY <1>1 DEF Service!Next

LEMMA MapsToTake ==
  ASSUME event = NULL, Found # <<>>, event' = Head(Found), Found' = Tail(Found),
         Lines' = Lines, asked' = asked
  PROVE  Service!Next
<1>1. Service!Take
  BY DEF Service!Take, Lines, Line, InFront, Found
<1>2. QED
  BY <1>1 DEF Service!Next

LEMMA MapsToGiveBack ==
  ASSUME event # NULL, event' = NULL, asked' = asked \ {event.it}, Lines' = Lines, Found' = Found
  PROVE  Service!Next
<1>1. Service!GiveBack
  BY DEF Service!GiveBack, Lines, Line, InFront, Found
<1>2. QED
  BY <1>1 DEF Service!Next

\* After a step too, what will be found is how the transfers ended.
LEMMA FoundNext ==
  ASSUME TypeOK', ResultsKept'
  PROVE  Found' = Tell(completed', outcome')
<1>1. completed' \in Seq(Transfers)
  BY DEF TypeOK
<1>2. \A r \in results' : r.status = outcome'[r.it]
  BY DEF ResultsKept
<1>3. \A t \in ToSet(completed') : (\A r \in results' : r.it # t) => outcome'[t] = "COMPLETED"
  BY DEF ResultsKept, Signalled
<1>4. QED
  BY <1>1, <1>2, <1>3, FoundIsTold DEF Found, Report

LEMMA SignalIsReport ==
  ASSUME ServiceInv, TypeOK', ResultsKept', NEW t \in Transfers, NEW status \in Statuses,
         t \notin Signalled, Signal(t, status)
  PROVE  Found' = Append(Found, [it |-> t, status |-> status])
<1>1. completed \in Seq(Transfers) /\ outcome \in [Transfers -> Statuses]
  BY DEF ServiceInv, TruthInv, IInv, TypeOK
<1>2. completed' = Append(completed, t) /\ outcome' = [outcome EXCEPT ![t] = status]
  BY DEF Signal
<1>3. t \notin ToSet(completed)
  BY DEF Signalled
<1>4. Tell(completed', outcome')
        = Append(Tell(completed, outcome), [it |-> t, status |-> status])
  BY <1>1, <1>2, <1>3, TellAppend
<1>5. QED
  BY <1>4, HeldIsInFlight, FoundNext

\* The worker's loop leaves every line as it was: what it takes off the list
\* stands in front of it again.
LEMMA NextItemLine ==
  ASSUME TypeOK, NEW q \in Queues, PopItem(q) \/ ExitWorker(q)
  PROVE  Line(q)' = items[q]
<1>1. items[q] \in Seq(Transfers)
  BY DEF TypeOK
<1>2. CASE PopItem(q)
  <2> DEFINE h == Head(items[q])
             rest == Tail(items[q])
  <2>1. <<h>> \o rest = items[q]
    BY <1>1, <1>2, FrontOfRest DEF PopItem
  <2>2. /\ items' = [items EXCEPT ![q] = rest] /\ cur' = [cur EXCEPT ![q] = h]
        /\ pc' = [pc EXCEPT ![q] = "starting"]
    BY <1>2 DEF PopItem
  <2> HIDE DEF h, rest
  <2>3. Line(q)' = <<h>> \o rest
    BY <2>2 DEF Line, InFront, Unreported, TypeOK
  <2>4. QED
    BY <2>1, <2>3
<1>3. CASE ExitWorker(q)
  <2>1. items'[q] = <<>> /\ items[q] = <<>> /\ pc'[q] = "none"
    BY <1>3 DEF ExitWorker, TypeOK, list
  <2>2. Line(q)' = <<>> \o <<>>
    BY <2>1 DEF Line, InFront, Unreported
  <2>3. QED
    BY <2>1, <2>2
<1>4. QED
  BY <1>2, <1>3

LEMMA NextItemOthers ==
  ASSUME TypeOK, NEW q \in Queues, PopItem(q) \/ ExitWorker(q),
         \A p \in Queues : p # q => err'[p] = err[p]
  PROVE  \A p \in Queues : p # q => Line(p)' = Line(p)
BY DEF PopItem, ExitWorker, Line, InFront, Unreported, TypeOK, list

LEMMA FoundStays ==
  ASSUME ServiceInv, TypeOK', ResultsKept', completed' = completed, outcome' = outcome
  PROVE  Found' = Found
BY HeldIsInFlight, FoundNext

\* The worker ends the transfer in front of its line and reports it.
LEMMA FinishAndGoOn ==
  ASSUME Regular, ServiceInv, TypeOK', ResultsKept', NEW q \in Queues, WorkerRelock(q)
  PROVE  Service!Next \/ UNCHANGED Service!vars
<1>0. TypeOK /\ WorkerInv /\ ExactlyOnce /\ CancelMarks
  BY DEF ServiceInv, TruthInv, IInv
<1>1. PopItem(q) \/ ExitWorker(q)
  BY DEF WorkerRelock
<1>2. \A p \in Queues : p # q => err'[p] = err[p]
  BY <1>0 DEF WorkerRelock, TypeOK
<1>3. Line(q)' = items[q] /\ \A p \in Queues : p # q => Line(p)' = Line(p)
  BY <1>0, <1>1, <1>2, NextItemLine, NextItemOthers
<1>4. event' = event /\ asked' = asked
  BY DEF WorkerRelock, client
<1>5. CASE err[q] = "OK"
  <2>1. completed' = completed /\ outcome' = outcome /\ ~Unreported(q)
    BY <1>5 DEF WorkerRelock, reports, Unreported
  <2>2. Line(q) = <<>> \o items[q] /\ items[q] \in Seq(Transfers)
    BY <1>0, <2>1 DEF Line, InFront, TypeOK
  <2>3. Line(q) = items[q]
    BY <2>2
  <2>4. \A p \in Queues : Line(p)' = Line(p)
    BY <1>3, <2>3
  <2>5. Lines' = Lines /\ Found' = Found
    BY <2>1, <2>4, LinesStay, FoundStays
  <2>6. QED
    BY <1>4, <2>5, MapsToStutter
<1>6. CASE err[q] # "OK"
  <2> DEFINE t == cur[q]
             status == Status(err[q], cancel_cur[q])
  <2>1. Unreported(q)
    BY <1>6 DEF WorkerRelock, Unreported
  <2>2. t \in Transfers /\ t \notin Signalled
    <3>1. t \in Working(q)
      BY <1>0, <2>1, LineTyped DEF Working
    <3>2. QED
      BY <1>0, <3>1 DEF ExactlyOnce, OnePlaceAtMost, Working
  <2>3. status \in Statuses
    BY <1>0, StatusTyped DEF TypeOK
  <2>4. status = "CANCELLED" => t \in asked
    <3>1. status = "CANCELLED" => cancel_cur[q] \/ err[q] = "INTERRUPTED"
      BY DEF Status
    <3>2. QED
      BY <1>0, <2>1, <3>1 DEF CancelMarks, WorkerRelock
  <2>5. Signal(t, status)
    BY <1>6 DEF WorkerRelock, FinishLocked
  <2> HIDE DEF t, status
  <2>6. Found' = Append(Found, [it |-> t, status |-> status])
    BY <2>2, <2>3, <2>5, SignalIsReport
  <2>7. Lines[q] = <<t>> \o items[q] /\ items[q] \in Seq(Transfers)
    BY <1>0, <2>1 DEF Lines, Line, InFront, TypeOK, t
  <2>8. Lines[q] # <<>> /\ Head(Lines[q]) = t /\ Tail(Lines[q]) = items[q]
    BY <2>2, <2>7, TailOfFront
  <2>9. Lines' = [Lines EXCEPT ![q] = items[q]]
    BY <1>3, LinesChange
  <2>10. Service!Next
    BY <1>4, <2>3, <2>4, <2>6, <2>8, <2>9, MapsToFinish
  <2>11. QED
    BY <2>10
<1>7. QED
  BY <1>5, <1>6

\* A success is reported before the worker has the lock again.
LEMMA SuccessIsFinish ==
  ASSUME ServiceInv, TypeOK', ResultsKept', NEW q \in Queues, WorkerSucceeds(q)
  PROVE  Service!Next
<1>0. TypeOK /\ WorkerInv /\ ExactlyOnce
  BY DEF ServiceInv, TruthInv, IInv
<1> DEFINE t == cur[q]
<1>1. Unreported(q) /\ pc[q] = "blocked"
  BY DEF WorkerSucceeds, Unreported
<1>2. t \in Transfers /\ t \notin Signalled
  <2>1. t \in Working(q)
    BY <1>0, <1>1, LineTyped DEF Working
  <2>2. QED
    BY <1>0, <2>1 DEF ExactlyOnce, OnePlaceAtMost, Working
<1>3. Lines[q] = <<t>> \o items[q] /\ items[q] \in Seq(Transfers)
  BY <1>0, <1>1 DEF Lines, Line, InFront, TypeOK
<1>4. Signal(t, "COMPLETED") /\ SyncSubmitReturns(q, "OK")
  BY DEF WorkerSucceeds
<1>5. Line(q)' = items[q] /\ \A p \in Queues : p # q => Line(p)' = Line(p)
  <2>1. Line(q)' = <<>> \o items[q]
    BY <1>0, <1>4 DEF SyncSubmitReturns, Line, InFront, Unreported, TypeOK, list
  <2>2. \A p \in Queues : p # q => Line(p)' = Line(p)
    BY <1>0, <1>4 DEF SyncSubmitReturns, Line, InFront, Unreported, TypeOK, list
  <2>3. QED
    BY <1>3, <2>1, <2>2
<1>6. event' = event /\ asked' = asked
  BY <1>4 DEF SyncSubmitReturns, client
<1> HIDE DEF t
<1>7. "COMPLETED" \in Statuses
  BY DEF Statuses
<1>8. Found' = Append(Found, [it |-> t, status |-> "COMPLETED"])
  BY <1>2, <1>4, <1>7, SignalIsReport
<1>9. Lines[q] # <<>> /\ Head(Lines[q]) = t /\ Tail(Lines[q]) = items[q]
  BY <1>2, <1>3, TailOfFront
<1>10. Lines' = [Lines EXCEPT ![q] = items[q]]
  BY <1>5, LinesChange
<1>11. QED
  BY <1>6, <1>7, <1>8, <1>9, <1>10, MapsToFinish

\* A queued transfer that is cancelled is taken out of its place in the line.
LEMMA CancelQueuedIsCancelWaiting ==
  ASSUME ServiceInv, TypeOK', ResultsKept', NEW q \in Queues, NEW t \in Transfers,
         CancelQueued(q, t)
  PROVE  Service!Next
<1>0. TypeOK /\ WorkerInv /\ ExactlyOnce
  BY DEF ServiceInv, TruthInv, IInv
<1>1. PICK i \in DOMAIN items[q] :
        items[q][i] = t /\ items' = [items EXCEPT ![q] = RemoveAt(items[q], i)]
  BY DEF CancelQueued
<1> DEFINE rest == RemoveAt(items[q], i)
<1>2. items[q] \in Seq(Transfers) /\ i \in 1..Len(items[q])
  BY <1>0 DEF TypeOK
<1>3. items' = [items EXCEPT ![q] = rest]
  BY <1>1
<1>4. t \notin Signalled
  <2>1. t \in Listed(q)
    BY <1>1 DEF Listed, ToSet
  <2>2. QED
    BY <1>0, <2>1 DEF ExactlyOnce, OnePlaceAtMost
<1>5. Signal(t, "CANCELLED") /\ event' = event /\ asked' = asked \cup {t} /\ UNCHANGED worker
  BY DEF CancelQueued, FinishLocked
<1>6. Found' = Append(Found, [it |-> t, status |-> "CANCELLED"])
  <2>1. "CANCELLED" \in Statuses
    BY DEF Statuses
  <2>2. QED
    BY <1>4, <1>5, <2>1, SignalIsReport
<1> HIDE DEF rest
<1>7. Line(q)' = InFront(q) \o rest /\ \A p \in Queues : p # q => Line(p)' = Line(p)
  BY <1>0, <1>3, <1>5 DEF Line, InFront, Unreported, TypeOK, worker
<1>8. PICK k \in DOMAIN Lines[q] :
        Lines[q][k] = t /\ InFront(q) \o rest = RemoveAt(Lines[q], k)
  <2>1. CASE Unreported(q)
    <3>1. Lines[q] = <<cur[q]>> \o items[q] /\ InFront(q) = <<cur[q]>> /\ cur[q] \in Transfers
      BY <1>0, <2>1, LineTyped DEF Lines, Line, InFront
    <3>2. InFront(q) \o rest = RemoveAt(Lines[q], i + 1)
      BY <1>2, <3>1, RemoveBehind DEF rest
    <3>3. i + 1 \in DOMAIN Lines[q] /\ Lines[q][i + 1] = t
      BY <1>1, <1>2, <3>1
    <3>4. QED
      BY <3>2, <3>3
  <2>2. CASE ~Unreported(q)
    <3>1. Lines[q] = <<>> \o items[q] /\ InFront(q) = <<>>
      BY <2>2 DEF Lines, Line, InFront
    <3>2. rest \in Seq(Transfers)
      BY <1>2, RemoveAtItems DEF rest
    <3>3. Lines[q] = items[q] /\ InFront(q) \o rest = rest
      BY <1>2, <3>1, <3>2
    <3>4. QED
      BY <1>1, <1>2, <3>3 DEF rest
  <2>3. QED
    BY <2>1, <2>2
<1>9. Lines' = [Lines EXCEPT ![q] = RemoveAt(Lines[q], k)]
  BY <1>7, <1>8, LinesChange
<1>10. QED
  BY <1>5, <1>6, <1>8, <1>9, MapsToCancelWaiting

\* A cancel of the transfer on the worker, or of one just over, is a request.
LEMMA CancelRunningIsRequest ==
  ASSUME Regular, ServiceInv, TypeOK', ResultsKept', NEW q \in Queues, NEW t \in Transfers,
         CancelRunning(q, t)
  PROVE  Service!Next
<1>0. TypeOK /\ WorkerInv /\ ExactlyOnce /\ OwnEndpoint
  BY DEF ServiceInv, TruthInv, CancelInv, IInv
<1>1. cur[q] = t /\ t \in inflight /\ ~Contains(items[q], t)
  BY DEF CancelRunning
<1>2. \A p \in Queues : t \notin Listed(p)
  <2>1. items[q] \in Seq(Transfers)
    BY <1>0 DEF TypeOK
  <2>2. t \notin Listed(q)
    BY <1>1, <2>1 DEF Contains, Listed, ToSet
  <2>3. q \in EndpointsOf[t]
    BY <1>0, <1>1, NullAssumption DEF OwnEndpoint
  <2>4. QED
    BY <1>0, <2>2, <2>3 DEF OwnEndpoint, Regular
<1>3. ASSUME NEW p \in Queues, Contains(Lines[p], t)
      PROVE  Head(Lines[p]) = t
  <2>1. Lines[p] = Line(p) /\ Line(p) \in Seq(Transfers) /\ items[p] \in Seq(Transfers)
    BY <1>0, LineTyped DEF Lines
  <2>2. t \in ToSet(Line(p))
    BY <1>3, <2>1 DEF Contains, ToSet
  <2>3. t \in Working(p)
    BY <1>0, <1>2, <2>2, LineTyped
  <2>4. Unreported(p) /\ cur[p] = t
    BY <2>3 DEF Working
  <2>5. Line(p) = <<t>> \o items[p]
    BY <2>4 DEF Line, InFront
  <2>6. QED
    BY <2>1, <2>5, TailOfFront
<1>4. /\ items' = items /\ cur' = cur /\ pc' = pc /\ err' = err
      /\ completed' = completed /\ outcome' = outcome
      /\ event' = event /\ asked' = asked \cup {t}
  BY DEF CancelRunning, list, reports
<1>5. \A p \in Queues : Line(p)' = Line(p)
  BY <1>4 DEF Line, InFront, Unreported
<1>6. Lines' = Lines /\ Found' = Found
  BY <1>4, <1>5, LinesStay, FoundStays
<1>7. t \in Service!Held
  BY <1>1, HeldIsInFlight
<1>8. QED
  BY <1>3, <1>4, <1>6, <1>7, MapsToRequestCancel

\* What the service does not see.
LEMMA UnseenStep ==
  ASSUME ServiceInv, TypeOK', ResultsKept', \A p \in Queues : Line(p)' = Line(p),
         UNCHANGED <<completed, outcome, event, asked>>
  PROVE  UNCHANGED Service!vars
BY LinesStay, FoundStays, MapsToStutter

LEMMA StepRefines ==
  ASSUME Regular, ServiceInv, TypeOK', ResultsKept', [Next]_vars
  PROVE  Service!Next \/ UNCHANGED Service!vars
<1> USE NullAssumption
<1>0. TypeOK /\ WorkerInv /\ TailIsLast /\ ExactlyOnce
  BY DEF ServiceInv, TruthInv, IInv
<1>1. ASSUME NEW q \in Queues, NEW t \in Transfers, Submit(q, t)
      PROVE  Service!Next
  <2>1. /\ items[q] \in Seq(Transfers) /\ IsInjective(items[q])
        /\ InFront(q) \in Seq(Transfers)
    BY <1>0, LineTyped DEF ExactlyOnce, NoRepeats
  <2>2. items' = [items EXCEPT ![q] = Append(items[q], t)]
    BY <1>0, <1>1, <2>1, LinkLastAppends DEF Submit, TailIsLast, TypeOK
  <2> DEFINE longer == Append(items[q], t)
  <2>3. InFront(q) \o longer = Append(Line(q), t)
    BY <2>1, AppendBehind DEF Line
  <2> HIDE DEF longer
  <2>4. items' = [items EXCEPT ![q] = longer]
    BY <2>2 DEF longer
  <2>5. \A p \in Queues : InFront(p)' = InFront(p)
    BY <1>0, <1>1 DEF Submit, InFront, Unreported, TypeOK, WorkerInv
  <2>6. Line(q)' = Append(Line(q), t) /\ \A p \in Queues : p # q => Line(p)' = Line(p)
    BY <1>0, <2>3, <2>4, <2>5 DEF Line, TypeOK
  <2>7. Lines' = [Lines EXCEPT ![q] = Append(Lines[q], t)]
    BY <2>6, LinesChange DEF Lines
  <2>8. completed' = completed /\ outcome' = outcome /\ event' = event /\ asked' = asked
    BY <1>1 DEF Submit, reports
  <2>9. t \notin Service!Held /\ q \in EndpointsOf[t]
    BY <1>1, HeldIsInFlight DEF Submit
  <2>10. QED
    BY <2>7, <2>8, <2>9, FoundStays, MapsToSubmit
<1>2. ASSUME NEW q \in Queues, NEW t \in Transfers, SubmitNoThread(q, t)
      PROVE  UNCHANGED Service!vars
  <2>1. items' = items
    BY <1>0, <1>2 DEF SubmitNoThread, WorkerInv, TypeOK
  <2>2. \A p \in Queues : Line(p)' = Line(p)
    BY <1>2, <2>1 DEF SubmitNoThread, Line, InFront, Unreported, worker
  <2>3. QED
    BY <1>2, <2>2, UnseenStep DEF SubmitNoThread, reports, client
<1>3. ASSUME NEW t \in Transfers, SubmitSync(t)
      PROVE  Service!Next
  <2>1. t \notin Signalled /\ t \notin Service!Held /\ EndpointsOf[t] = {}
    BY <1>0, <1>3, HeldIsInFlight DEF SubmitSync, ExactlyOnce, InFlightIsSomewhere, Control
  <2>2. \A p \in Queues : Line(p)' = Line(p)
    BY <1>3 DEF SubmitSync, Line, InFront, Unreported, list, worker
  <2>3. "COMPLETED" \in Statuses
    BY DEF Statuses
  <2>4. Found' = Append(Found, [it |-> t, status |-> "COMPLETED"])
    BY <1>3, <2>1, <2>3, SignalIsReport DEF SubmitSync
  <2>5. event' = event /\ asked' = asked
    BY <1>3 DEF SubmitSync
  <2>6. QED
    BY <2>1, <2>2, <2>4, <2>5, LinesStay, MapsToSubmitSync
<1>4. ASSUME NEW q \in Queues, WorkerStart(q)
      PROVE  UNCHANGED Service!vars
  <2>1. /\ PopItem(q) \/ ExitWorker(q)
        /\ err' = err /\ pc[q] = "created"
    BY <1>4 DEF WorkerStart
  <2>2. Line(q)' = items[q] /\ \A p \in Queues : p # q => Line(p)' = Line(p)
    BY <1>0, <2>1, NextItemLine, NextItemOthers
  <2>3. Line(q) = <<>> \o items[q] /\ items[q] \in Seq(Transfers)
    BY <1>0, <2>1 DEF Line, InFront, Unreported, TypeOK
  <2>4. \A p \in Queues : Line(p)' = Line(p)
    BY <2>2, <2>3
  <2>5. QED
    BY <1>4, <2>4, UnseenStep DEF WorkerStart, reports, client
<1>5. ASSUME NEW q \in Queues, WorkerBlock(q)
      PROVE  UNCHANGED Service!vars
  <2>1. \A p \in Queues : Line(p)' = Line(p)
    BY <1>0, <1>5 DEF WorkerBlock, Line, InFront, Unreported, TypeOK, list
  <2>2. QED
    BY <1>5, <2>1, UnseenStep DEF WorkerBlock, reports, client
<1>6. ASSUME NEW q \in Queues, WorkerFails(q) \/ WorkerInterrupted(q)
      PROVE  UNCHANGED Service!vars
  <2>1. PICK e \in DeviceErrors \cup {"INTERRUPTED"} : SyncSubmitReturns(q, e)
    BY <1>6 DEF WorkerFails, WorkerInterrupted
  <2>2. e # "OK" /\ pc[q] \in {"starting", "blocked"}
    BY <1>6, ErrorsAssumption DEF WorkerFails, WorkerInterrupted, Errors
  <2>3. \A p \in Queues : Line(p)' = Line(p)
    BY <1>0, <2>1, <2>2 DEF SyncSubmitReturns, Line, InFront, Unreported, TypeOK, list
  <2>4. UNCHANGED <<completed, outcome, event, asked>>
    BY <1>6, <2>1 DEF WorkerFails, WorkerInterrupted, SyncSubmitReturns, client
  <2>5. QED
    BY <2>3, <2>4, UnseenStep
<1>7. ASSUME NEW q \in Queues, DeliverSignal(q)
      PROVE  UNCHANGED Service!vars
  <2>1. CASE ~Polls /\ pc[q] = "blocked"
    <3>1. PICK e \in {"INTERRUPTED", "OTHER"} : SyncSubmitReturns(q, e)
      BY <1>7, <2>1 DEF DeliverSignal
    <3>2. \A p \in Queues : Line(p)' = Line(p)
      BY <1>0, <2>1, <3>1 DEF SyncSubmitReturns, Line, InFront, Unreported, TypeOK, list
    <3>3. UNCHANGED <<completed, outcome, event, asked>>
      BY <1>7, <3>1 DEF DeliverSignal, SyncSubmitReturns, client
    <3>4. QED
      BY <3>2, <3>3, UnseenStep
  <2>2. CASE ~(~Polls /\ pc[q] = "blocked")
    <3>1. \A p \in Queues : Line(p)' = Line(p)
      BY <1>7, <2>2 DEF DeliverSignal, Line, InFront, Unreported, list
    <3>2. QED
      BY <1>7, <2>2, <3>1, UnseenStep DEF DeliverSignal, client
  <2>3. QED
    BY <2>1, <2>2
<1>8. ASSUME NEW k \in kickers, Kick(k)
      PROVE  UNCHANGED Service!vars
  <2>1. \A p \in Queues : Line(p)' = Line(p)
    BY <1>8 DEF Kick, Line, InFront, Unreported, list, worker
  <2>2. QED
    BY <1>8, <2>1, UnseenStep DEF Kick, reports, client
<1>9. CASE TakeResult
  <2> DEFINE t == Head(completed)
  <2>1. completed \in Seq(Transfers) /\ completed # <<>>
    BY <1>0, <1>9 DEF TakeResult, TypeOK
  <2>2. /\ Found # <<>>
        /\ Head(Found) = [it |-> t, status |-> outcome[t]]
        /\ Tail(Found) = Tell(Tail(completed), outcome)
    BY <2>1, HeldIsInFlight, TellTail
  <2>3. completed' = Tail(completed) /\ outcome' = outcome /\ event = NULL /\ asked' = asked
    BY <1>9 DEF TakeResult, client
  <2>4. Found' = Tail(Found)
    BY <2>2, <2>3, FoundNext
  <2>5. event' = [it |-> t, status |-> outcome[t]]
    <3>1. t \in Signalled
      BY <2>1, PopHead DEF Signalled
    <3>2. \/ \E r \in results : r.it = t /\ event' = r
          \/ (\A r \in results : r.it # t) /\ event' = [it |-> t, status |-> "COMPLETED"]
      BY <1>9 DEF TakeResult
    <3> HIDE DEF t
    <3>3. CASE \E r \in results : r.it = t /\ event' = r
      <4>1. PICK r \in results : r.it = t /\ event' = r
        BY <3>3
      <4>2. r = [it |-> r.it, status |-> r.status]
        BY <1>0 DEF TypeOK
      <4>3. r.status = outcome[t]
        BY <4>1 DEF ServiceInv, TruthInv, ResultsKept
      <4>4. QED
        BY <4>1, <4>2, <4>3
    <3>4. CASE (\A r \in results : r.it # t) /\ event' = [it |-> t, status |-> "COMPLETED"]
      BY <3>1, <3>4 DEF ServiceInv, TruthInv, ResultsKept
    <3>5. QED
      BY <3>2, <3>3, <3>4
  <2>6. \A p \in Queues : Line(p)' = Line(p)
    BY <1>9 DEF TakeResult, Line, InFront, Unreported, list, worker
  <2>7. Service!Next
    BY <2>2, <2>3, <2>4, <2>5, <2>6, LinesStay, MapsToTake
  <2>8. QED
    BY <2>7
<1>10. CASE Deliver
  <2>1. event # NULL /\ event' = NULL /\ asked' = asked \ {event.it} /\ completed' = completed
        /\ outcome' = [outcome EXCEPT ![event.it] = "COMPLETED"]
    BY <1>10 DEF Deliver
  <2>2. event.it \in Handling
    BY <1>0, <2>1 DEF Handling, TypeOK
  <2>3. event.it \notin ToSet(completed)
    BY <1>0, <2>2 DEF ExactlyOnce, OnePlaceAtMost, Signalled
  <2>4. completed \in Seq(Transfers) /\ outcome \in [Transfers -> Statuses]
    BY <1>0 DEF TypeOK
  <2>5. Tell(completed', outcome') = Tell(completed, outcome)
    <3>1. Tell(completed, [outcome EXCEPT ![event.it] = "COMPLETED"])
            = Tell(completed, outcome)
      BY <2>3, <2>4, TellOthers
    <3>2. QED
      BY <2>1, <3>1
  <2>6. Found' = Found
    BY <2>5, HeldIsInFlight, FoundNext
  <2>7. \A p \in Queues : Line(p)' = Line(p)
    BY <1>10 DEF Deliver, Line, InFront, Unreported, list, worker
  <2>8. QED
    BY <2>1, <2>6, <2>7, LinesStay, MapsToGiveBack
<1>11. CASE UNCHANGED vars
  <2>1. \A p \in Queues : Line(p)' = Line(p)
    BY <1>11 DEF vars, Line, InFront, Unreported, list, worker
  <2>2. QED
    BY <1>11, <2>1, UnseenStep DEF vars, reports, client
<1>12. QED
  BY <1>1, <1>2, <1>3, <1>4, <1>5, <1>6, <1>7, <1>8, <1>9, <1>10, <1>11, FinishAndGoOn,
     SuccessIsFinish, CancelQueuedIsCancelWaiting, CancelRunningIsRequest DEF Next

LEMMA InitRefines == Init => Service!Init
BY DEF Init, Service!Init, Unreported, Report

\* The queue is an implementation of what it promises its clients: endpoints
\* serve their transfers in order, each submission is reported once, a report
\* of a cancel has been asked for, and a cancel of a waiting transfer takes it out.
THEOREM QueueImplementsService ==
  ASSUME Regular
  PROVE  Spec => ImplementsService
<1>1. Init => ServiceInv /\ Service!Init
  BY InitTypeWorker, InitPlaces, InitResults, InitOwn, InitMarks, InitRefines
  DEF ServiceInv, TruthInv, CancelInv, IInv
<1>2. ServiceInv /\ [Next]_vars => ServiceInv'
  BY StepTypeWorker, StepPlaces, StepResults, StepOwn, StepMarks
  DEF ServiceInv, TruthInv, CancelInv, IInv, Regular
<1>3. ServiceInv /\ ServiceInv' /\ [Next]_vars => [Service!Next]_(Service!vars)
  BY StepRefines DEF ServiceInv, TruthInv, IInv
<1>4. QED
  BY <1>1, <1>2, <1>3, PTL DEF Spec, ImplementsService, Service!Spec

=============================================================================
