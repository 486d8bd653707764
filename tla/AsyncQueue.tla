----------------------------- MODULE AsyncQueue -----------------------------
(***************************************************************************)
(* The asynchronous transfer queue of patches/sources/libusb_bsd_async.inc *)
(* ("sdk_aq"): one list of transfers and at most one worker thread per     *)
(* (handle, endpoint), all under the one lock sdk_aq_lock.                 *)
(*                                                                         *)
(* Every action below is one critical section of that lock, one step of    *)
(* the blocking SDK_AQ_SYNC_SUBMIT that a worker runs without the lock, or *)
(* the delivery of a SIGURG.  The parts of libusb around the queue (the    *)
(* IN_FLIGHT flag, the list of completed transfers, the event thread) are  *)
(* modelled from the calls the file makes into them.                       *)
(***************************************************************************)
EXTENDS Integers, Sequences, FiniteSets, SequencesExt

CONSTANTS
  Transfers,    \* struct usbi_transfer pointers
  Queues,       \* struct sdk_aq: the (handle, endpoint) pairs
  EndpointsOf,  \* where a transfer may be submitted; {}: a control transfer
  DeviceErrors, \* errors SDK_AQ_SYNC_SUBMIT may return besides the interrupt
  Polls,        \* TRUE: FreeBSD, which polls sdk_aq_interrupted;
                \* FALSE: NetBSD/OpenBSD, where only EINTR breaks read()
  LateSignals,  \* SIGURG may arrive after its target took the lock again
  Oom,          \* the allocations that may fail
  MaxKicks,     \* signals a kicker sends at most (600 in the code)
  NULL

Errors == {"TIMEOUT", "NO_DEVICE", "PIPE", "OVERFLOW", "INTERRUPTED", "OTHER"}

Statuses ==
  {"COMPLETED", "CANCELLED", "TIMED_OUT", "NO_DEVICE", "STALL", "OVERFLOW", "ERROR"}

AllocSites == {"worker", "kicker", "result"}

ASSUME EndpointsAssumption == EndpointsOf \in [Transfers -> SUBSET Queues]
ASSUME ErrorsAssumption == DeviceErrors \subseteq Errors
ASSUME BuildAssumption ==
  /\ Polls \in BOOLEAN
  /\ LateSignals \in BOOLEAN
  /\ Oom \subseteq AllocSites
ASSUME KicksAssumption == MaxKicks \in Nat \ {0}
ASSUME NullAssumption ==
  NULL \notin Transfers \cup [it : Transfers, status : Statuses]

VARIABLES
  sdk_aqs,      \* the queues there are, newest first
  items,        \* [Queues -> Seq(Transfers)]: the list from head
  tail,         \* [Queues -> Transfers or NULL]: the item tail points at
  cur,          \* [Queues -> Transfers or NULL]
  cancel_cur,   \* [Queues -> BOOLEAN]
  running,      \* [Queues -> BOOLEAN]
  pc,           \* [Queues -> PCs]: where the worker thread is
  err,          \* [Queues -> Errors or "OK"]: what SDK_AQ_SYNC_SUBMIT returned
  interrupted,  \* [Queues -> BOOLEAN]: the worker's sdk_aq_interrupted
  sigurg,       \* [Queues -> BOOLEAN]: SIGURG pending for the worker
  kickers,      \* the kicker threads: [q, it, left]
  results,      \* sdk_aq_results: [it, status]
  completed,    \* libusb's list of transfers whose completion was signalled
  event,        \* the completion the event thread is handling, or NULL
  inflight,     \* transfers with libusb's IN_FLIGHT flag
  asked,        \* in-flight transfers for which a cancel returned success
  outcome       \* [Transfers -> Statuses]: how a signalled transfer really ended

list == <<sdk_aqs, items, tail>>
worker == <<cur, cancel_cur, running, pc, err, interrupted>>
reports == <<results, completed, outcome>>
client == <<inflight, asked>>
vars == <<list, worker, sigurg, kickers, reports, event, client>>

(***************************************************************************)
(* none: no thread; created: not yet at its first lock; starting: it holds *)
(* an item, not yet blocked; blocked: in read(), write() or the poll loop; *)
(* relock: SDK_AQ_SYNC_SUBMIT returned, the lock not yet taken.            *)
(***************************************************************************)
PCs == {"none", "created", "starting", "blocked", "relock"}

Control == {t \in Transfers : EndpointsOf[t] = {}}

TypeOK ==
  /\ sdk_aqs \in Seq(Queues)
  /\ items \in [Queues -> Seq(Transfers)]
  /\ tail \in [Queues -> Transfers \cup {NULL}]
  /\ cur \in [Queues -> Transfers \cup {NULL}]
  /\ cancel_cur \in [Queues -> BOOLEAN]
  /\ running \in [Queues -> BOOLEAN]
  /\ pc \in [Queues -> PCs]
  /\ err \in [Queues -> Errors \cup {"OK"}]
  /\ interrupted \in [Queues -> BOOLEAN]
  /\ sigurg \in [Queues -> BOOLEAN]
  /\ kickers \subseteq [q : Queues, it : Transfers, left : 1..MaxKicks]
  /\ results \subseteq [it : Transfers, status : Statuses]
  /\ completed \in Seq(Transfers)
  /\ event \in [it : Transfers, status : Statuses] \cup {NULL}
  /\ inflight \subseteq Transfers
  /\ asked \subseteq Transfers
  /\ outcome \in [Transfers -> Statuses]

Init ==
  /\ sdk_aqs = <<>>
  /\ items = [q \in Queues |-> <<>>]
  /\ tail = [q \in Queues |-> NULL]
  /\ cur = [q \in Queues |-> NULL]
  /\ cancel_cur = [q \in Queues |-> FALSE]
  /\ running = [q \in Queues |-> FALSE]
  /\ pc = [q \in Queues |-> "none"]
  /\ err = [q \in Queues |-> "OK"]
  /\ interrupted = [q \in Queues |-> FALSE]
  /\ sigurg = [q \in Queues |-> FALSE]
  /\ kickers = {}
  /\ results = {}
  /\ completed = <<>>
  /\ event = NULL
  /\ inflight = {}
  /\ asked = {}
  /\ outcome = [t \in Transfers |-> "COMPLETED"]

-----------------------------------------------------------------------------
(***************************************************************************)
(* Completions.                                                            *)
(***************************************************************************)

\* usbi_signal_transfer_completion; outcome records how the transfer ended.
Signal(t, status) ==
  /\ completed' = Append(completed, t)
  /\ outcome' = [outcome EXCEPT ![t] = status]

\* sdk_aq_finish_locked: the result is lost when its malloc fails.
FinishLocked(t, status) ==
  /\ \/ results' = results \cup {[it |-> t, status |-> status]}
     \/ "result" \in Oom /\ results' = results
  /\ Signal(t, status)

\* Mutant of Status: the libusb error passed on as it is.
StatusUntranslated(e, cancelled) == IF cancelled THEN "CANCELLED" ELSE e

\* sdk_aq_status
Status(e, cancelled) ==
  CASE cancelled            -> "CANCELLED"
    [] e = "TIMEOUT"        -> "TIMED_OUT"
    [] e = "NO_DEVICE"      -> "NO_DEVICE"
    [] e = "PIPE"           -> "STALL"
    [] e = "OVERFLOW"       -> "OVERFLOW"
    [] e = "INTERRUPTED"    -> "CANCELLED"
    [] OTHER                -> "ERROR"

-----------------------------------------------------------------------------
(***************************************************************************)
(* sdk_aq_submit.  libusb calls it for a transfer that is not IN_FLIGHT    *)
(* and holds the transfer's own lock until the flag is set.  A failed      *)
(* malloc of the item or the queue changes nothing and is left out.        *)
(***************************************************************************)

\* Mutant of LinkLast: the new item always becomes head.
LinkLastAtHead(s, last, t) == <<t>>

\* A new last item hangs off the item tail points at, or becomes head; one
\* that hangs off a freed item is not on the list.
LinkLast(s, last, t) ==
  IF last = NULL THEN <<t>>
  ELSE IF \E i \in DOMAIN s : s[i] = last
       THEN Append(SubSeq(s, 1, CHOOSE i \in DOMAIN s : s[i] = last), t)
       ELSE s

\* The queue of the endpoint is found, or made and put in front.
FindQueue(q) == sdk_aqs' = IF Contains(sdk_aqs, q) THEN sdk_aqs ELSE <<q>> \o sdk_aqs

Submit(q, t) ==
  /\ t \notin inflight
  /\ q \in EndpointsOf[t]
  /\ FindQueue(q)
  /\ items' = [items EXCEPT ![q] = LinkLast(@, tail[q], t)]
  /\ tail' = [tail EXCEPT ![q] = t]
  /\ running' = [running EXCEPT ![q] = TRUE]
  /\ pc' = IF running[q] THEN pc ELSE [pc EXCEPT ![q] = "created"]
  /\ inflight' = inflight \cup {t}
  /\ UNCHANGED <<cur, cancel_cur, err, interrupted, sigurg, kickers, reports, event,
                 asked>>

\* Mutant of SubmitNoThread: the item stays queued.
SubmitNoThreadKeepsItem(q, t) ==
  /\ "worker" \in Oom
  /\ t \notin inflight
  /\ q \in EndpointsOf[t]
  /\ ~running[q]
  /\ FindQueue(q)
  /\ items' = [items EXCEPT ![q] = LinkLast(@, tail[q], t)]
  /\ tail' = [tail EXCEPT ![q] = t]
  /\ UNCHANGED <<worker, sigurg, kickers, reports, event, client>>

\* pthread_create fails: whatever is queued is dropped and NO_MEM returned.
SubmitNoThread(q, t) ==
  /\ "worker" \in Oom
  /\ t \notin inflight
  /\ q \in EndpointsOf[t]
  /\ ~running[q]
  /\ FindQueue(q)
  /\ items' = [items EXCEPT ![q] = <<>>]
  /\ tail' = [tail EXCEPT ![q] = NULL]
  /\ UNCHANGED <<worker, sigurg, kickers, reports, event, client>>

\* Other transfer types run in the caller; one that fails changes nothing.
SubmitSync(t) ==
  /\ t \in Control
  /\ t \notin inflight
  /\ inflight' = inflight \cup {t}
  /\ Signal(t, "COMPLETED")
  /\ UNCHANGED <<list, worker, sigurg, kickers, results, event, asked>>

-----------------------------------------------------------------------------
(***************************************************************************)
(* sdk_aq_worker.                                                          *)
(***************************************************************************)

\* Mutant of PopItem: cancel_cur is not reset for the next transfer.
PopItemKeepsCancel(q) ==
  /\ items[q] # <<>>
  /\ items' = [items EXCEPT ![q] = Tail(@)]
  /\ tail' = IF Tail(items[q]) = <<>> THEN [tail EXCEPT ![q] = NULL] ELSE tail
  /\ cur' = [cur EXCEPT ![q] = Head(items[q])]
  /\ interrupted' = [interrupted EXCEPT ![q] = FALSE]
  /\ pc' = [pc EXCEPT ![q] = "starting"]
  /\ UNCHANGED <<sdk_aqs, cancel_cur, running, sigurg>>

\* Mutant of PopItem: sdk_aq_interrupted is not reset for the next transfer.
PopItemKeepsFlag(q) ==
  /\ items[q] # <<>>
  /\ items' = [items EXCEPT ![q] = Tail(@)]
  /\ tail' = IF Tail(items[q]) = <<>> THEN [tail EXCEPT ![q] = NULL] ELSE tail
  /\ cur' = [cur EXCEPT ![q] = Head(items[q])]
  /\ cancel_cur' = [cancel_cur EXCEPT ![q] = FALSE]
  /\ pc' = [pc EXCEPT ![q] = "starting"]
  /\ UNCHANGED <<sdk_aqs, interrupted, running, sigurg>>

\* The loop's condition and head: under the lock, take the next item ...
PopItem(q) ==
  /\ items[q] # <<>>
  /\ items' = [items EXCEPT ![q] = Tail(@)]
  /\ tail' = IF Tail(items[q]) = <<>> THEN [tail EXCEPT ![q] = NULL] ELSE tail
  /\ cur' = [cur EXCEPT ![q] = Head(items[q])]
  /\ cancel_cur' = [cancel_cur EXCEPT ![q] = FALSE]
  /\ interrupted' = [interrupted EXCEPT ![q] = FALSE]
  /\ pc' = [pc EXCEPT ![q] = "starting"]
  /\ UNCHANGED <<sdk_aqs, running, sigurg>>

\* Mutant of ExitWorker: the list is not looked at again before running = 0.
ExitWorkerUnchecked(q) ==
  /\ cur' = [cur EXCEPT ![q] = NULL]
  /\ running' = [running EXCEPT ![q] = FALSE]
  /\ pc' = [pc EXCEPT ![q] = "none"]
  /\ interrupted' = [interrupted EXCEPT ![q] = FALSE]
  /\ sigurg' = [sigurg EXCEPT ![q] = FALSE]
  /\ UNCHANGED <<list, cancel_cur>>

\* ... or give the queue up; what is pending for the thread dies with it.
ExitWorker(q) ==
  /\ items[q] = <<>>
  /\ cur' = [cur EXCEPT ![q] = NULL]
  /\ running' = [running EXCEPT ![q] = FALSE]
  /\ pc' = [pc EXCEPT ![q] = "none"]
  /\ interrupted' = [interrupted EXCEPT ![q] = FALSE]
  /\ sigurg' = [sigurg EXCEPT ![q] = FALSE]
  /\ UNCHANGED <<list, cancel_cur>>

WorkerStart(q) ==
  /\ pc[q] = "created"
  /\ PopItem(q) \/ ExitWorker(q)
  /\ UNCHANGED <<err, kickers, reports, event, client>>

\* SDK_AQ_SYNC_SUBMIT reaches the call it blocks in.
WorkerBlock(q) ==
  /\ pc[q] = "starting"
  /\ pc' = [pc EXCEPT ![q] = "blocked"]
  /\ UNCHANGED <<list, cur, cancel_cur, running, err, interrupted, sigurg, kickers,
                 reports, event, client>>

SyncSubmitReturns(q, e) ==
  /\ pc' = [pc EXCEPT ![q] = "relock"]
  /\ err' = [err EXCEPT ![q] = e]
  /\ UNCHANGED <<list, cur, cancel_cur, running, kickers, results, event, client>>

\* The backend signals a success itself, before the worker locks again.
WorkerSucceeds(q) ==
  /\ pc[q] = "blocked"
  /\ SyncSubmitReturns(q, "OK")
  /\ Signal(cur[q], "COMPLETED")
  /\ UNCHANGED <<interrupted, sigurg>>

WorkerFails(q) ==
  /\ pc[q] \in {"starting", "blocked"}
  /\ \E e \in DeviceErrors : SyncSubmitReturns(q, e)
  /\ UNCHANGED <<interrupted, sigurg, completed, outcome>>

\* FreeBSD's wait loop finds the flag set.
WorkerInterrupted(q) ==
  /\ Polls
  /\ pc[q] = "blocked"
  /\ interrupted[q]
  /\ SyncSubmitReturns(q, "INTERRUPTED")
  /\ UNCHANGED <<interrupted, sigurg, completed, outcome>>

\* Mutant of WorkerRelock: a success is finished like an error.
WorkerRelockFinishesAll(q) ==
  /\ pc[q] = "relock"
  /\ LateSignals \/ ~sigurg[q]
  /\ FinishLocked(cur[q], Status(err[q], cancel_cur[q]))
  /\ PopItem(q) \/ ExitWorker(q)
  /\ err' = [err EXCEPT ![q] = "OK"]
  /\ UNCHANGED <<kickers, event, client>>

\* Unless signals are late, one sent under the lock is in before the lock.
WorkerRelock(q) ==
  /\ pc[q] = "relock"
  /\ LateSignals \/ ~sigurg[q]
  /\ IF err[q] = "OK" THEN UNCHANGED reports
     ELSE FinishLocked(cur[q], Status(err[q], cancel_cur[q]))
  /\ PopItem(q) \/ ExitWorker(q)
  /\ err' = [err EXCEPT ![q] = "OK"]
  /\ UNCHANGED <<kickers, event, client>>

-----------------------------------------------------------------------------
(***************************************************************************)
(* sdk_aq_on_signal, sdk_aq_kicker.                                        *)
(***************************************************************************)

\* The handler runs in the worker.  Where read() is not polled the signal
\* breaks it, and is lost on a worker that has not blocked yet.
DeliverSignal(q) ==
  /\ sigurg[q]
  /\ sigurg' = [sigurg EXCEPT ![q] = FALSE]
  /\ interrupted' = [interrupted EXCEPT ![q] = TRUE]
  /\ IF ~Polls /\ pc[q] = "blocked"
     THEN \E e \in {"INTERRUPTED", "OTHER"} : SyncSubmitReturns(q, e)
     ELSE UNCHANGED <<list, cur, cancel_cur, running, pc, err, kickers, results,
                      event, client>>
  /\ UNCHANGED <<completed, outcome>>

\* The kicks last a minute, which a worker does not take from its item to
\* the blocking call: the last one is not spent on a worker on its way there.
MinuteIsLong(k) == k.left = 1 => pc[k.q] # "starting"

\* Mutant of Kick: the queue is signalled whatever it runs now.
KickBlindly(k) ==
  /\ k \in kickers
  /\ sigurg' = [sigurg EXCEPT ![k.q] = TRUE]
  /\ kickers' = (kickers \ {k}) \cup
                (IF k.left = 1 THEN {} ELSE {[k EXCEPT !.left = @ - 1]})
  /\ UNCHANGED <<list, worker, reports, event, client>>

Kick(k) ==
  /\ k \in kickers
  /\ IF cur[k.q] = k.it /\ cancel_cur[k.q]
     THEN /\ MinuteIsLong(k)
          /\ sigurg' = [sigurg EXCEPT ![k.q] = TRUE]
          /\ kickers' = (kickers \ {k}) \cup
                        (IF k.left = 1 THEN {} ELSE {[k EXCEPT !.left = @ - 1]})
     ELSE kickers' = kickers \ {k} /\ sigurg' = sigurg
  /\ UNCHANGED <<list, worker, reports, event, client>>

-----------------------------------------------------------------------------
(***************************************************************************)
(* sdk_aq_cancel.  libusb calls it for a transfer that is IN_FLIGHT, from  *)
(* any thread.  The scan stops at the first queue that has it, listed or   *)
(* as cur; one that finds it nowhere returns NOT_FOUND, changing nothing.  *)
(***************************************************************************)
ScanStopsAt(q, t) ==
  LET Has(p) == Contains(items[p], t) \/ cur[p] = t IN
  \E i \in DOMAIN sdk_aqs :
    /\ sdk_aqs[i] = q
    /\ Has(q)
    /\ \A j \in 1..(i - 1) : ~Has(sdk_aqs[j])


\* Mutant of CancelQueued: tail still points at the freed item.
CancelQueuedKeepsTail(q, t) ==
  /\ t \in inflight
  /\ ScanStopsAt(q, t)
  /\ \E i \in DOMAIN items[q] :
       /\ items[q][i] = t
       /\ items' = [items EXCEPT ![q] = RemoveAt(@, i)]
  /\ FinishLocked(t, "CANCELLED")
  /\ asked' = asked \cup {t}
  /\ UNCHANGED <<sdk_aqs, tail, worker, sigurg, kickers, event, inflight>>

\* A queued item is unlinked and reported.
CancelQueued(q, t) ==
  /\ t \in inflight
  /\ ScanStopsAt(q, t)
  /\ \E i \in DOMAIN items[q] :
       /\ items[q][i] = t
       /\ LET rest == RemoveAt(items[q], i) IN
          /\ items' = [items EXCEPT ![q] = rest]
          /\ tail' = IF tail[q] # t THEN tail
                     ELSE [tail EXCEPT ![q] = IF rest = <<>> THEN NULL ELSE Last(rest)]
  /\ FinishLocked(t, "CANCELLED")
  /\ asked' = asked \cup {t}
  /\ UNCHANGED <<sdk_aqs, worker, sigurg, kickers, event, inflight>>

\* Mutant of CancelRunning: cur is looked at before the list.
CancelRunningFirst(q, t) ==
  /\ t \in inflight
  /\ ScanStopsAt(q, t)
  /\ cur[q] = t
  /\ asked' = asked \cup {t}
  /\ cancel_cur' = [cancel_cur EXCEPT ![q] = TRUE]
  /\ sigurg' = [sigurg EXCEPT ![q] = TRUE]
  /\ UNCHANGED <<list, cur, running, pc, err, interrupted, kickers, reports, event, inflight>>

\* Mutant of CancelRunning: one signal and no kicker.
CancelRunningOnce(q, t) ==
  /\ t \in inflight
  /\ ScanStopsAt(q, t)
  /\ ~Contains(items[q], t)
  /\ cur[q] = t
  /\ asked' = asked \cup {t}
  /\ cancel_cur' = [cancel_cur EXCEPT ![q] = TRUE]
  /\ sigurg' = [sigurg EXCEPT ![q] = sigurg[q] \/ ~cancel_cur[q]]
  /\ UNCHANGED <<list, cur, running, pc, err, interrupted, kickers, reports, event, inflight>>

\* A running one is signalled, and a kicker signals it again.
CancelRunning(q, t) ==
  /\ t \in inflight
  /\ ScanStopsAt(q, t)
  /\ ~Contains(items[q], t)
  /\ cur[q] = t
  /\ asked' = asked \cup {t}
  /\ IF cancel_cur[q] THEN UNCHANGED <<cancel_cur, sigurg, kickers>>
     ELSE /\ cancel_cur' = [cancel_cur EXCEPT ![q] = TRUE]
          /\ sigurg' = [sigurg EXCEPT ![q] = TRUE]
          /\ \/ kickers' = kickers \cup {[q |-> q, it |-> t, left |-> MaxKicks]}
             \/ "kicker" \in Oom /\ kickers' = kickers
  /\ UNCHANGED <<list, cur, running, pc, err, interrupted, reports, event, inflight>>

-----------------------------------------------------------------------------
(***************************************************************************)
(* The event thread.                                                       *)
(***************************************************************************)

\* Mutant of TakeResult: the result stays on the list.
TakeResultKeeps ==
  /\ event = NULL
  /\ completed # <<>>
  /\ completed' = Tail(completed)
  /\ LET t == Head(completed) IN
     \/ \E r \in results : r.it = t /\ event' = r
     \/ (\A r \in results : r.it # t) /\ event' = [it |-> t, status |-> "COMPLETED"]
  /\ UNCHANGED <<list, worker, sigurg, kickers, results, outcome, client>>

\* sdk_aq_handle_completion up to its unlock; no result means completed.
TakeResult ==
  /\ event = NULL
  /\ completed # <<>>
  /\ completed' = Tail(completed)
  /\ LET t == Head(completed) IN
     \/ \E r \in results :
          /\ r.it = t
          /\ event' = r
          /\ results' = results \ {r}
     \/ /\ \A r \in results : r.it # t
        /\ event' = [it |-> t, status |-> "COMPLETED"]
        /\ results' = results
  /\ UNCHANGED <<list, worker, sigurg, kickers, outcome, client>>

\* usbi_handle_transfer_completion/_cancellation: the transfer is its
\* owner's again, who may submit it at once from the callback.
Deliver ==
  /\ event # NULL
  /\ event' = NULL
  /\ inflight' = inflight \ {event.it}
  /\ asked' = asked \ {event.it}
  /\ outcome' = [outcome EXCEPT ![event.it] = "COMPLETED"]
  /\ UNCHANGED <<list, worker, sigurg, kickers, results, completed>>

-----------------------------------------------------------------------------
WorkerStep(q) ==
  WorkerStart(q) \/ WorkerBlock(q) \/ WorkerInterrupted(q) \/ WorkerRelock(q)

Next ==
  \/ \E q \in Queues, t \in Transfers :
       Submit(q, t) \/ SubmitNoThread(q, t) \/ CancelQueued(q, t) \/ CancelRunning(q, t)
  \/ \E t \in Transfers : SubmitSync(t)
  \/ \E q \in Queues :
       \/ WorkerStart(q) \/ WorkerBlock(q) \/ WorkerSucceeds(q) \/ WorkerFails(q)
       \/ WorkerInterrupted(q) \/ WorkerRelock(q) \/ DeliverSignal(q)
  \/ \E k \in kickers : Kick(k)
  \/ TakeResult
  \/ Deliver

(***************************************************************************)
(* The threads of the program run when they can; clients need not submit   *)
(* or cancel, and a device need not answer.                                *)
(***************************************************************************)
Fairness ==
  /\ \A q \in Queues : WF_vars(WorkerStep(q)) /\ WF_vars(DeliverSignal(q))
  /\ \A q \in Queues, t \in Transfers :
       WF_vars(\E k \in kickers : k.q = q /\ k.it = t /\ Kick(k))
  /\ WF_vars(TakeResult)
  /\ WF_vars(Deliver)

Spec == Init /\ [][Next]_vars

FairSpec == Spec /\ Fairness

-----------------------------------------------------------------------------
(***************************************************************************)
(* Where an in-flight transfer can be.                                     *)
(***************************************************************************)
Listed(q) == ToSet(items[q])

\* On the worker, its completion not signalled yet.  After a success cur
\* still names the transfer while its owner may already have it back.
Unreported(q) == pc[q] \in {"starting", "blocked"} \/ (pc[q] = "relock" /\ err[q] # "OK")

Working(q) == {t \in Transfers : Unreported(q) /\ cur[q] = t}

Signalled == ToSet(completed)

Handling == {t \in Transfers : event # NULL /\ event.it = t}

(***************************************************************************)
(* Safety.                                                                 *)
(***************************************************************************)

NoRepeats == (\A q \in Queues : IsInjective(items[q])) /\ IsInjective(completed)

OnePlaceAtMost ==
  /\ \A p, q \in Queues :
       /\ p # q => Listed(p) \cap Listed(q) = {} /\ Working(p) \cap Working(q) = {}
       /\ Listed(p) \cap Working(q) = {}
  /\ \A q \in Queues : (Listed(q) \cup Working(q)) \cap (Signalled \cup Handling) = {}
  /\ Signalled \cap Handling = {}

InFlightIsSomewhere ==
  \A t \in Transfers :
    t \in inflight <=> \/ \E q \in Queues : t \in Listed(q) \cup Working(q)
                      \/ t \in Signalled \cup Handling

\* Completion is reported exactly once: a submitted transfer is in exactly
\* one of a list, a worker, libusb's completed list or the event thread's
\* hands until it is given back, whatever worker, canceller and callback do.
ExactlyOnce == NoRepeats /\ OnePlaceAtMost /\ InFlightIsSomewhere

\* The comment in sdk_aq_submit: no worker means an empty queue, so neither a
\* submit that cannot start one drops another's item, nor is one stranded.
NoWorkerNoQueue ==
  \A q \in Queues : ~running[q] => items[q] = <<>> /\ cur[q] = NULL /\ pc[q] = "none"

\* tail is the last item, or NULL for an empty list, after any mix of
\* appends, pops and unlinks: the next append goes to the end of the list.
TailIsLast ==
  \A q \in Queues : tail[q] = IF items[q] = <<>> THEN NULL ELSE Last(items[q])

\* A cancel that returned success is never left waiting in a list: a queued
\* transfer is taken out in place, even when cur still names it from before.
CancelledNotQueued == \A q \in Queues : Listed(q) \cap asked = {}

\* The owner is told how this submission ended: no result outlives its
\* submission, and an error or a cancel is not told as a completion.
TruthfulReport == event # NULL => event.status = outcome[event.it]

\* SIGURG goes to a live worker: q->thr is a thread that still runs.
SignalsReachWorkers == \A q \in Queues : sigurg[q] => pc[q] \in {"starting", "blocked", "relock"}

(***************************************************************************)
(* Liveness.                                                               *)
(***************************************************************************)

\* What the file is for: a cancelled transfer is given back to its owner
\* even if the device never answers.
CancelReturns == \A t \in Transfers : t \in asked ~> t \notin asked

-----------------------------------------------------------------------------
(***************************************************************************)
(* The queue implements TransferService.  The head of a line is the        *)
(* transfer on the worker until its completion is signalled; a report says *)
(* what the event thread will find for it.                                 *)
(***************************************************************************)
Report(t) ==
  [it |-> t,
   status |-> IF \E r \in results : r.it = t
              THEN (CHOOSE r \in results : r.it = t).status
              ELSE "COMPLETED"]

Service == INSTANCE TransferService WITH
  pending <- [q \in Queues |-> (IF Unreported(q) THEN <<cur[q]>> ELSE <<>>) \o items[q]],
  done <- [i \in DOMAIN completed |-> Report(completed[i])],
  handling <- event

\* Submissions of an endpoint end in order and once each, only an asked-for
\* cancel is reported as one, and a cancel takes a waiting transfer out.
ImplementsService == Service!Spec

=============================================================================
