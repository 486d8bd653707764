----------------------------- MODULE FsBackend -----------------------------
(***************************************************************************)
(* Bulk and interrupt transfers of patches/sources/libusb_freebsd_usb.c on *)
(* one device handle: the USB-FS slots, the completion queue that the      *)
(* threads of all endpoints share, and the wait loop of                    *)
(* _sync_gen_transfer with its four ways out.                              *)
(*                                                                         *)
(* sdk_aq (module AsyncQueue) runs at most one transfer per endpoint, so a *)
(* thread is named by its endpoint.  Every action is one critical section  *)
(* of the handle's lock, or a step of the kernel, the device or the        *)
(* program around.  The kernel's side of the USB_FS_* ioctls (the k        *)
(* variables) is modelled from the calls the file makes: USB_FS_STOP is    *)
(* over, its completion queued, when it returns, as the file assumes.      *)
(***************************************************************************)
EXTENDS Integers, FiniteSets, Functions

CONSTANTS
  Endpoints,   \* bulk and interrupt endpoints of the device
  NSlots,      \* FBSD_NFSEP
  Lengths,     \* the transfer lengths there are
  MaxBufsize,  \* USB_FS_MAX_BUFSIZE
  NULL

ASSUME SlotsAssumption == NSlots \in Nat \ {0}
ASSUME LengthsAssumption == Lengths \subseteq Nat /\ MaxBufsize \in Nat \ {0}

Slots == 0..(NSlots - 1)

\* struct usb_fs_endpoint.status: 0, USB_ERR_TIMEOUT, USB_ERR_STALLED, others
KStatuses == {"OK", "TIMEOUT", "STALLED", "CANCELLED", "IOERROR"}

ASSUME NullAssumption ==
  NULL \notin Endpoints /\ NULL \notin Slots /\ NULL \notin KStatuses

VARIABLES
  handle,      \* "closed", "control" (USB_FS_INIT failed) or "ready"
  controlling, \* a control transfer holds the lock while the device answers
  ep_no,       \* [Slots -> Endpoints or NULL]: the endpoint a slot is bound to
  ep_bufsize,  \* [Slots -> Nat]
  done,        \* [Slots -> KStatuses or NULL]: done with cstatus and cactlen
  pc,          \* [Endpoints -> "idle", "waiting" (in poll()), "polled" (the flag
               \* was not set) or "late" (not done yet)]
  slot,        \* [Endpoints -> Slots or NULL]: the waiting thread's slot
  timed,       \* [Endpoints -> BOOLEAN]: its transfer has a timeout
  interrupted, \* [Endpoints -> BOOLEAN]: its thread's sdk_aq_interrupted
  ret,         \* [Endpoints -> Results]: what its last transfer returned
  kopen,       \* [Slots -> Endpoints or NULL]: USB_FS_OPEN
  ksize,       \* [Slots -> Nat]
  kbusy,       \* [Slots -> BOOLEAN]: a transfer is under way
  kcomp,       \* [Slots -> KStatuses or NULL]: for USB_FS_COMPLETE to return
  plugged      \* the device is there

table == <<ep_no, ep_bufsize>>
thread == <<pc, slot, timed, ret>>
kernel == <<kopen, ksize, kbusy, kcomp>>
vars == <<handle, controlling, table, done, thread, interrupted, kernel, plugged>>

Results == {"OK", "TIMEOUT", "PIPE", "IO", "INTERRUPTED", "NO_DEVICE", "NO_MEM",
            "NOT_SUPPORTED", "OTHER"}

TypeOK ==
  /\ handle \in {"closed", "control", "ready"}
  /\ controlling \in BOOLEAN
  /\ ep_no \in [Slots -> Endpoints \cup {NULL}]
  /\ ep_bufsize \in [Slots -> Nat]
  /\ done \in [Slots -> KStatuses \cup {NULL}]
  /\ pc \in [Endpoints -> {"idle", "waiting", "polled", "late"}]
  /\ slot \in [Endpoints -> Slots \cup {NULL}]
  /\ timed \in [Endpoints -> BOOLEAN]
  /\ interrupted \in [Endpoints -> BOOLEAN]
  /\ ret \in [Endpoints -> Results]
  /\ kopen \in [Slots -> Endpoints \cup {NULL}]
  /\ ksize \in [Slots -> Nat]
  /\ kbusy \in [Slots -> BOOLEAN]
  /\ kcomp \in [Slots -> KStatuses \cup {NULL}]
  /\ plugged \in BOOLEAN

Init ==
  /\ handle = "closed"
  /\ controlling = FALSE
  /\ ep_no = [s \in Slots |-> NULL]
  /\ ep_bufsize = [s \in Slots |-> 0]
  /\ done = [s \in Slots |-> NULL]
  /\ pc = [e \in Endpoints |-> "idle"]
  /\ slot = [e \in Endpoints |-> NULL]
  /\ timed = [e \in Endpoints |-> FALSE]
  /\ interrupted = [e \in Endpoints |-> FALSE]
  /\ ret = [e \in Endpoints |-> "OK"]
  /\ kopen = [s \in Slots |-> NULL]
  /\ ksize = [s \in Slots |-> 0]
  /\ kbusy = [s \in Slots |-> FALSE]
  /\ kcomp = [s \in Slots |-> NULL]
  /\ plugged = TRUE

Busy(e) == pc[e] # "idle"

AllIdle == \A e \in Endpoints : ~Busy(e)

-----------------------------------------------------------------------------
(***************************************************************************)
(* fbsd_open and fbsd_close.  libusb closes a handle when none of its      *)
(* transfers is in flight.                                                 *)
(***************************************************************************)

\* The private data is zeroed; USB_FS_INIT may fail, and bulk then errors.
Open ==
  /\ handle = "closed"
  /\ plugged
  /\ handle' \in {"control", "ready"}
  /\ ep_no' = [s \in Slots |-> NULL]
  /\ ep_bufsize' = [s \in Slots |-> 0]
  /\ done' = [s \in Slots |-> NULL]
  /\ UNCHANGED <<controlling, thread, interrupted, kernel, plugged>>

\* What USB_FS_CLOSE leaves in the kernel of the slots in ss.
KClosed(ss) ==
  /\ kopen' = [s \in Slots |-> IF s \in ss THEN NULL ELSE kopen[s]]
  /\ ksize' = [s \in Slots |-> IF s \in ss THEN 0 ELSE ksize[s]]
  /\ kbusy' = [s \in Slots |-> s \notin ss /\ kbusy[s]]
  /\ kcomp' = [s \in Slots |-> IF s \in ss THEN NULL ELSE kcomp[s]]

\* Bound slots are closed; USB_FS_UNINIT and close() take the rest away, and
\* libusb frees the handle.
Close ==
  /\ handle # "closed"
  /\ AllIdle
  /\ ~controlling
  /\ handle' = "closed"
  /\ ep_no' = [s \in Slots |-> NULL]
  /\ ep_bufsize' = [s \in Slots |-> 0]
  /\ done' = [s \in Slots |-> NULL]
  /\ KClosed(Slots)
  /\ UNCHANGED <<controlling, thread, interrupted, plugged>>

-----------------------------------------------------------------------------
(***************************************************************************)
(* _sync_control_transfer holds the lock until the device has answered.    *)
(***************************************************************************)
ControlBegin ==
  /\ handle # "closed"
  /\ ~controlling
  /\ controlling' = TRUE
  /\ UNCHANGED <<handle, table, done, thread, interrupted, kernel, plugged>>

ControlEnd ==
  /\ controlling
  /\ controlling' = FALSE
  /\ UNCHANGED <<handle, table, done, thread, interrupted, kernel, plugged>>

-----------------------------------------------------------------------------
(***************************************************************************)
(* _sync_gen_transfer up to USB_FS_START, with _fs_slot.                   *)
(***************************************************************************)

\* Whether _fs_slot has a slot for e that is large enough.
Reuses(e, s, need) == ep_no[s] = e /\ ep_bufsize[s] >= need

\* Mutant of Opens: the first slot is taken for a free one.
OpensFirst(e, s, need) ==
  /\ ~\E r \in Slots : Reuses(e, r, need)
  /\ ep_no[s] = e \/ (e \notin Range(ep_no) /\ s = 0)

\* Mutant of Opens: a slot is looked for without regard to the one e has.
OpensFresh(e, s, need) ==
  /\ ~\E r \in Slots : Reuses(e, r, need)
  /\ ep_no[s] = NULL /\ \A r \in Slots : ep_no[r] = NULL => s <= r

\* The slot it (re)opens otherwise: e's own, or the first free one.
Opens(e, s, need) ==
  /\ ~\E r \in Slots : Reuses(e, r, need)
  /\ \/ ep_no[s] = e
     \/ /\ e \notin Range(ep_no)
        /\ ep_no[s] = NULL
        /\ \A r \in Slots : ep_no[r] = NULL => s <= r

\* max_bufsize for the ioctl, which may grant more.
Asked(need) ==
  IF need = 0 THEN 1 ELSE IF need > MaxBufsize THEN MaxBufsize ELSE need

Granted(need) == {Asked(need), MaxBufsize}

CanBegin(e) ==
  /\ pc[e] = "idle"
  /\ handle = "ready"
  /\ ~controlling

\* The worker clears the flag before its next transfer.
Returns(e, result) ==
  /\ pc' = [pc EXCEPT ![e] = "idle"]
  /\ interrupted' = [interrupted EXCEPT ![e] = FALSE]
  /\ slot' = [slot EXCEPT ![e] = NULL]
  /\ timed' = [timed EXCEPT ![e] = FALSE]
  /\ ret' = [ret EXCEPT ![e] = result]

\* USB_FS_START is accepted and the thread goes on to wait ...
StartedOn(e, s) ==
  /\ done' = [done EXCEPT ![s] = NULL]
  /\ kbusy' = [kbusy EXCEPT ![s] = TRUE]
  /\ pc' = [pc EXCEPT ![e] = "waiting"]
  /\ slot' = [slot EXCEPT ![e] = s]
  /\ \E timeout \in BOOLEAN : timed' = [timed EXCEPT ![e] = timeout]
  /\ ret' = [ret EXCEPT ![e] = "OK"]
  /\ interrupted' = interrupted

\* ... or refused, as it is of a slot that is busy or too small.
StartsOn(e, s, acceptable) ==
  \/ plugged /\ acceptable /\ StartedOn(e, s)
  \/ /\ Returns(e, IF plugged THEN "OTHER" ELSE "NO_DEVICE")
     /\ done' = [done EXCEPT ![s] = NULL]
     /\ kbusy' = kbusy

BeginReuse(e, need) ==
  /\ CanBegin(e)
  /\ \E s \in Slots :
       /\ Reuses(e, s, need)
       /\ StartsOn(e, s, ~kbusy[s] /\ need <= ksize[s])
  /\ UNCHANGED <<handle, controlling, table, kopen, ksize, kcomp, plugged>>

\* A slot that was too small has been closed by now.
BeginOpen(e, need) ==
  /\ CanBegin(e)
  /\ plugged
  /\ \E s \in Slots, size \in Granted(need) :
       /\ Opens(e, s, need)
       /\ ep_no' = [ep_no EXCEPT ![s] = e]
       /\ ep_bufsize' = [ep_bufsize EXCEPT ![s] = size]
       /\ kopen' = [kopen EXCEPT ![s] = e]
       /\ ksize' = [ksize EXCEPT ![s] = size]
       /\ kcomp' = [kcomp EXCEPT ![s] = NULL]
       /\ StartsOn(e, s, need <= size)
  /\ UNCHANGED <<handle, controlling, plugged>>

\* Mutant of BeginOpenFails: the slot stays bound to e.
BeginOpenFailsBound(e, need) ==
  /\ CanBegin(e)
  /\ \E s \in Slots :
       /\ Opens(e, s, need)
       /\ IF ep_no[s] = e /\ plugged THEN KClosed({s}) ELSE UNCHANGED kernel
  /\ Returns(e, IF plugged THEN "NO_MEM" ELSE "NO_DEVICE")
  /\ UNCHANGED <<handle, controlling, table, done, plugged>>

\* USB_FS_OPEN fails: e has lost the slot that was too small, if it had one.
BeginOpenFails(e, need) ==
  /\ CanBegin(e)
  /\ \E s \in Slots :
       /\ Opens(e, s, need)
       /\ ep_no' = [ep_no EXCEPT ![s] = NULL]
       /\ IF ep_no[s] = e /\ plugged THEN KClosed({s}) ELSE UNCHANGED kernel
  /\ Returns(e, IF plugged THEN "NO_MEM" ELSE "NO_DEVICE")
  /\ UNCHANGED <<handle, controlling, ep_bufsize, done, plugged>>

BeginNoSlot(e, need) ==
  /\ CanBegin(e)
  /\ ~\E s \in Slots : Reuses(e, s, need) \/ Opens(e, s, need)
  /\ Returns(e, "NO_MEM")
  /\ UNCHANGED <<handle, controlling, table, done, kernel, plugged>>

\* Without USB_FS_INIT there are no bulk transfers.
BeginUnsupported(e) ==
  /\ pc[e] = "idle"
  /\ handle = "control"
  /\ Returns(e, "NOT_SUPPORTED")
  /\ UNCHANGED <<handle, controlling, table, done, kernel, plugged>>

-----------------------------------------------------------------------------
(***************************************************************************)
(* The wait loop.  An iteration is poll() and two checks without the lock, *)
(* then one critical section: a cancel may come in between.  poll()        *)
(* returns after 50 ms at the latest, so that an iteration is always       *)
(* possible.                                                               *)
(***************************************************************************)

\* Mutant of Drained: only the drainer's own completion is stored.
DrainedOwn(s, comp) ==
  [r \in Slots |-> IF r = s /\ comp[r] # NULL THEN comp[r] ELSE done[r]]

\* _fs_drain by the waiter of slot s: all that is complete goes to the table,
\* whoever it is for.
Drained(s, comp) == [r \in Slots |-> IF comp[r] # NULL THEN comp[r] ELSE done[r]]

\* USB_FS_STOP and _fs_drain; both fail on a device that is gone.
StoppedComp(s) ==
  IF plugged /\ kbusy[s] THEN [kcomp EXCEPT ![s] = "CANCELLED"] ELSE kcomp

\* The table after the stop and the drain, before the thread clears its entry.
TableAfterStop(s) == IF plugged THEN Drained(s, StoppedComp(s)) ELSE done

StopAndDrain(s) ==
  /\ done' = [TableAfterStop(s) EXCEPT ![s] = NULL]
  /\ kbusy' = [kbusy EXCEPT ![s] = FALSE]
  /\ kcomp' = IF plugged THEN [r \in Slots |-> NULL] ELSE kcomp

Locked(e) == pc[e] # "idle" /\ ~controlling

\* Mutant of WaitHangup: revents and the drain's error are ignored.
WaitHangupIgnored(e) ==
  /\ pc[e] = "waiting"
  /\ ~plugged
  /\ pc' = [pc EXCEPT ![e] = "late"]
  /\ UNCHANGED <<handle, controlling, table, done, slot, timed, ret, interrupted,
                 kernel, plugged>>

\* Hangup, seen by poll() or, under the lock, by the drain.
WaitHangup(e) ==
  /\ \/ pc[e] = "waiting"
     \/ pc[e] = "polled" /\ Locked(e)
  /\ ~plugged
  /\ Returns(e, "NO_DEVICE")
  /\ UNCHANGED <<handle, controlling, table, done, kernel, plugged>>

\* Mutant of WaitInterrupted: what arrived before the stop is not looked at.
WaitInterruptedBlindly(e) ==
  /\ pc[e] = "waiting"
  /\ Locked(e)
  /\ interrupted[e]
  /\ StopAndDrain(slot[e])
  /\ Returns(e, "INTERRUPTED")
  /\ UNCHANGED <<handle, controlling, table, kopen, ksize, plugged>>

\* Cancelled: stop it in the kernel, but keep what completed before the stop.
\* A device that goes away after poll() makes no difference.
WaitInterrupted(e) ==
  /\ pc[e] = "waiting"
  /\ Locked(e)
  /\ interrupted[e]
  /\ StopAndDrain(slot[e])
  /\ Returns(e, IF TableAfterStop(slot[e])[slot[e]] = "OK" THEN "OK" ELSE "INTERRUPTED")
  /\ UNCHANGED <<handle, controlling, table, kopen, ksize, plugged>>

\* Mutant of Translate: the kernel's code passed on.
TranslateRaw(status) == status

Translate(status) ==
  CASE status = "OK"      -> "OK"
    [] status = "TIMEOUT" -> "TIMEOUT"
    [] status = "STALLED" -> "PIPE"
    [] OTHER              -> "IO"

\* Mutant of WaitDrain: poll() without a time slice sleeps until something is
\* there to drain.
WaitDrainWoken(e) ==
  /\ pc[e] = "polled"
  /\ Locked(e)
  /\ plugged
  /\ \E r \in Slots : kcomp[r] # NULL
  /\ LET s == slot[e]
         d == Drained(s, kcomp) IN
     /\ kcomp' = [r \in Slots |-> NULL]
     /\ done' = [d EXCEPT ![s] = NULL]
     /\ IF d[s] # NULL THEN Returns(e, Translate(d[s]))
        ELSE /\ pc' = [pc EXCEPT ![e] = "late"]
             /\ UNCHANGED <<slot, timed, ret, interrupted>>
  /\ UNCHANGED <<handle, controlling, table, kopen, ksize, kbusy, plugged>>

\* No hangup in poll(), and the flag is not set at the check.
WaitPolled(e) ==
  /\ pc[e] = "waiting"
  /\ ~interrupted[e]
  /\ pc' = [pc EXCEPT ![e] = "polled"]
  /\ UNCHANGED <<handle, controlling, table, done, slot, timed, ret, interrupted,
                 kernel, plugged>>

\* Drain, and return if this thread's transfer is done, whether or not the flag
\* has been set by now.
WaitDrain(e) ==
  /\ pc[e] = "polled"
  /\ Locked(e)
  /\ plugged
  /\ LET s == slot[e]
         d == Drained(s, kcomp) IN
     /\ kcomp' = [r \in Slots |-> NULL]
     /\ done' = [d EXCEPT ![s] = NULL]
     /\ IF d[s] # NULL THEN Returns(e, Translate(d[s]))
        ELSE /\ pc' = [pc EXCEPT ![e] = "late"]
             /\ UNCHANGED <<slot, timed, ret, interrupted>>
  /\ UNCHANGED <<handle, controlling, table, kopen, ksize, kbusy, plugged>>

\* Not done, and no timeout or still time: poll again.
WaitAgain(e) ==
  /\ pc[e] = "late"
  /\ pc' = [pc EXCEPT ![e] = "waiting"]
  /\ UNCHANGED <<handle, controlling, table, done, slot, timed, ret, interrupted,
                 kernel, plugged>>

\* Mutant of WaitTimeout: the thread gives up, the transfer goes on.
WaitTimeoutNoStop(e) ==
  /\ pc[e] = "late"
  /\ Locked(e)
  /\ timed[e]
  /\ Returns(e, "TIMEOUT")
  /\ UNCHANGED <<handle, controlling, table, done, kernel, plugged>>

\* The software timeout: stop it in the kernel too.
WaitTimeout(e) ==
  /\ pc[e] = "late"
  /\ Locked(e)
  /\ timed[e]
  /\ StopAndDrain(slot[e])
  /\ Returns(e, "TIMEOUT")
  /\ UNCHANGED <<handle, controlling, table, kopen, ksize, plugged>>

-----------------------------------------------------------------------------
(***************************************************************************)
(* The kernel, the device and the program around.                          *)
(***************************************************************************)

\* Only a transfer with a timeout times out in the kernel.
Complete(e, status) ==
  /\ Busy(e)
  /\ kbusy[slot[e]]
  /\ status = "TIMEOUT" => timed[e]
  /\ status # "CANCELLED"
  /\ kbusy' = [kbusy EXCEPT ![slot[e]] = FALSE]
  /\ kcomp' = [kcomp EXCEPT ![slot[e]] = status]
  /\ UNCHANGED <<handle, controlling, table, done, thread, interrupted, kopen, ksize,
                 plugged>>

\* The node goes away and the kernel drops everything it has for it.
Unplug ==
  /\ plugged
  /\ plugged' = FALSE
  /\ KClosed(Slots)
  /\ UNCHANGED <<handle, controlling, table, done, thread, interrupted>>

\* A device plugged in again is a new one to libusb, opened anew.
Replug ==
  /\ ~plugged
  /\ handle = "closed"
  /\ plugged' = TRUE
  /\ UNCHANGED <<handle, controlling, table, done, thread, interrupted, kernel>>

\* sdk_aq_on_signal, in the thread that waits.
Interrupt(e) ==
  /\ Busy(e)
  /\ ~interrupted[e]
  /\ interrupted' = [interrupted EXCEPT ![e] = TRUE]
  /\ UNCHANGED <<handle, controlling, table, done, thread, kernel, plugged>>

-----------------------------------------------------------------------------
Begin(e, need) ==
  BeginReuse(e, need) \/ BeginOpen(e, need) \/ BeginOpenFails(e, need) \/ BeginNoSlot(e, need)

Wait(e) ==
  \/ WaitHangup(e)
  \/ WaitInterrupted(e)
  \/ WaitPolled(e)
  \/ WaitDrain(e)
  \/ WaitAgain(e)
  \/ WaitTimeout(e)

Next ==
  \/ Open
  \/ Close
  \/ ControlBegin
  \/ ControlEnd
  \/ \E e \in Endpoints :
       \/ \E need \in Lengths : Begin(e, need)
       \/ BeginUnsupported(e)
       \/ Wait(e)
       \/ \E status \in KStatuses : Complete(e, status)
       \/ Interrupt(e)
  \/ Unplug
  \/ Replug

Spec == Init /\ [][Next]_vars

(***************************************************************************)
(* A waiting thread goes round its loop; control requests end (the kernel  *)
(* bounds them) and do not keep the lock from a waiter for ever.           *)
(***************************************************************************)
Fairness == WF_vars(ControlEnd) /\ \A e \in Endpoints : SF_vars(Wait(e))

FairSpec == Spec /\ Fairness

-----------------------------------------------------------------------------
\* The waiter of a slot, and how its transfer ended if it has.
Waited(s) == \E e \in Endpoints : Busy(e) /\ slot[e] = s

Ended(e) == IF kcomp[slot[e]] # NULL THEN kcomp[slot[e]] ELSE done[slot[e]]

(***************************************************************************)
(* Safety.                                                                 *)
(***************************************************************************)

\* "so the slot is idle and no late completion is taken for the next
\* transfer": after any return, by timeout, cancel or completion, the slot is
\* free of kernel activity and of completions, its own or drained by others.
SlotIdle ==
  \A s \in Slots :
    plugged /\ handle = "ready" /\ ~Waited(s) =>
      ~kbusy[s] /\ kcomp[s] = NULL /\ done[s] = NULL

\* Threads drain one another's completions; none is lost or doubled: while a
\* thread waits, its transfer is under way, complete in the kernel or in the
\* table, and in one of these only.
CompletionNotLost ==
  \A e \in Endpoints :
    plugged /\ Busy(e) =>
      LET s == slot[e] IN
      /\ kbusy[s] \/ kcomp[s] # NULL \/ done[s] # NULL
      /\ kbusy[s] => kcomp[s] = NULL /\ done[s] = NULL
      /\ kcomp[s] # NULL => done[s] = NULL

\* The table agrees with the kernel about which slot is open for which
\* endpoint and how large, through failed opens, reopens and unplugging.
SlotsMatchKernel ==
  plugged /\ handle = "ready" =>
    /\ ep_no = kopen
    /\ \A s \in Slots : ep_no[s] # NULL => ep_bufsize[s] = ksize[s]

\* No endpoint has two slots, and no two waiting threads share one.
OneSlotEach ==
  /\ \A r, s \in Slots : ep_no[r] # NULL /\ ep_no[r] = ep_no[s] => r = s
  /\ \A e \in Endpoints : Busy(e) => ep_no[slot[e]] = e

\* The first endpoints to come get the slots and keep them, also when others
\* are refused for want of one: an open slot passes to no other endpoint, and
\* is given up only by a call of its own endpoint that wants it larger and
\* fails.
SlotsAreKept ==
  [][\A s \in Slots :
       ep_no[s] # NULL /\ handle' # "closed" =>
         \/ ep_no'[s] = ep_no[s]
         \/ ep_no'[s] = NULL /\ ret'[ep_no[s]] \in {"NO_MEM", "NO_DEVICE"}]_vars

\* "It completed before the stop: keep the data": a thread returns success
\* only for its own transfer's success, and never answers a cancel with
\* INTERRUPTED when its transfer has succeeded.
TruthfulReturn ==
  [][\A e \in Endpoints :
       Busy(e) /\ ~Busy(e)' /\ plugged =>
         /\ ret[e]' = "OK" => Ended(e) = "OK"
         /\ ret[e]' = "INTERRUPTED" => Ended(e) # "OK"]_vars

(***************************************************************************)
(* Liveness.                                                               *)
(***************************************************************************)

\* A thread whose transfer has ended, was cancelled or has lost its device
\* returns, also when another thread drained its completion.
WaitersReturn ==
  \A e \in Endpoints :
    Busy(e) /\ (interrupted[e] \/ ~plugged \/ Ended(e) # NULL) ~> ~Busy(e)

-----------------------------------------------------------------------------
(***************************************************************************)
(* The threads implement SyncSubmit.  A call runs while its thread waits,  *)
(* and its transfer has ended when its completion is in the kernel or in   *)
(* the table, whichever thread has put it there.                           *)
(***************************************************************************)
Submits == INSTANCE SyncSubmit WITH
  running <- [e \in Endpoints |-> Busy(e)],
  limited <- [e \in Endpoints |-> Busy(e) /\ timed[e]],
  cancelled <- [e \in Endpoints |-> Busy(e) /\ interrupted[e]],
  outcome <- [e \in Endpoints |-> IF Busy(e) THEN Ended(e) ELSE NULL],
  result <- ret,
  present <- plugged

\* Every call on an endpoint answers for its own transfer: its success is
\* returned with a cancel under way, INTERRUPTED and TIMEOUT only to a call
\* that was cancelled or has a timeout, NO_DEVICE only without a device, and
\* no other call's completion, cancel or timeout ends it.
ImplementsSubmit == Submits!Spec

=============================================================================
