-------------------------- MODULE FsBackend_proofs --------------------------
(***************************************************************************)
(* Proofs about FsBackend, for any endpoints, number of slots and lengths. *)
(* The inductive invariant adds to the four safety invariants what a       *)
(* handle that is not ready, or whose device is gone, has in the kernel:   *)
(* nothing.  The second part proves that the threads implement SyncSubmit. *)
(***************************************************************************)
EXTENDS FsBackend, TLAPS

WaitersReady == \A e \in Endpoints : Busy(e) => handle = "ready" /\ slot[e] \in Slots

KernelEmpty ==
  ~plugged \/ handle # "ready" =>
    \A s \in Slots : kopen[s] = NULL /\ ~kbusy[s] /\ kcomp[s] = NULL

IInv ==
  /\ TypeOK
  /\ WaitersReady
  /\ KernelEmpty
  /\ SlotIdle
  /\ CompletionNotLost
  /\ SlotsMatchKernel
  /\ OneSlotEach

\* NULL is none of the values it stands beside.
LEMMA NullIsNew == NULL \notin Endpoints /\ NULL \notin Slots /\ NULL \notin KStatuses
  BY NullAssumption

LEMMA InitIInv == Init => IInv
<1> SUFFICES ASSUME Init PROVE IInv
  OBVIOUS
<1>1. TypeOK
  BY DEF Init, TypeOK, Results
<1>2. ~plugged \/ handle # "ready" => \A s \in Slots : kopen[s] = NULL /\ ~kbusy[s] /\ kcomp[s] = NULL
  BY DEF Init
<1>3. handle # "ready" /\ \A e \in Endpoints : ~Busy(e)
  BY DEF Init, Busy
<1>4. \A s \in Slots : ep_no[s] = NULL
  BY DEF Init
<1> QED
  BY <1>1, <1>2, <1>3, <1>4
     DEF IInv, WaitersReady, KernelEmpty, SlotIdle, CompletionNotLost, SlotsMatchKernel, OneSlotEach

LEMMA OpenStep == IInv /\ Open => IInv'
  BY NullIsNew
     DEF Open, IInv, TypeOK, WaitersReady, KernelEmpty, SlotIdle, CompletionNotLost,
         SlotsMatchKernel, OneSlotEach, Busy, Waited, thread, kernel

LEMMA CloseStep == IInv /\ Close => IInv'
  BY NullIsNew
     DEF Close, AllIdle, KClosed, IInv, TypeOK, WaitersReady, KernelEmpty, SlotIdle,
         CompletionNotLost, SlotsMatchKernel, OneSlotEach, Busy, Waited, thread

LEMMA ControlStep ==
  ASSUME IInv, ControlBegin \/ ControlEnd
  PROVE  IInv'
<1> USE DEF IInv
<1>1. TypeOK'
  BY DEF ControlBegin, ControlEnd, table, thread, kernel, TypeOK, WaitersReady, Busy
<1>2. WaitersReady' /\ KernelEmpty'
  BY DEF ControlBegin, ControlEnd, table, thread, kernel, TypeOK, WaitersReady,
         KernelEmpty, Busy
<1>3. SlotIdle'
  BY DEF ControlBegin, ControlEnd, table, thread, kernel, SlotIdle, Waited, Busy
<1>4. CompletionNotLost'
  BY DEF ControlBegin, ControlEnd, thread, kernel, CompletionNotLost, Busy
<1>5. SlotsMatchKernel' /\ OneSlotEach'
  BY DEF ControlBegin, ControlEnd, table, thread, kernel, TypeOK, WaitersReady,
         KernelEmpty, SlotsMatchKernel, OneSlotEach, Busy
<1> QED
  BY <1>1, <1>2, <1>3, <1>4, <1>5

LEMMA UnplugStep ==
  ASSUME IInv, Unplug
  PROVE  IInv'
<1> USE DEF IInv
<1>1. TypeOK'
  BY NullIsNew DEF Unplug, KClosed, table, thread, TypeOK, WaitersReady, Busy
<1>2. WaitersReady' /\ KernelEmpty'
  BY NullIsNew DEF Unplug, KClosed, table, thread, TypeOK, WaitersReady, KernelEmpty, Busy
<1>3. SlotIdle'
  BY NullIsNew DEF Unplug, KClosed, table, thread, TypeOK, WaitersReady, KernelEmpty, OneSlotEach,
         SlotIdle, CompletionNotLost, Waited, Busy
<1>4. CompletionNotLost'
  BY NullIsNew DEF Unplug, KClosed, table, thread, TypeOK, WaitersReady, KernelEmpty, OneSlotEach,
         SlotIdle, CompletionNotLost, Waited, Busy
<1>5. SlotsMatchKernel' /\ OneSlotEach'
  BY NullIsNew DEF Unplug, KClosed, table, thread, TypeOK, WaitersReady, KernelEmpty,
         SlotsMatchKernel, OneSlotEach, Busy
<1> QED
  BY <1>1, <1>2, <1>3, <1>4, <1>5

LEMMA ReplugStep == IInv /\ Replug => IInv'
  BY NullIsNew
     DEF Replug, IInv, TypeOK, WaitersReady, KernelEmpty, SlotIdle, CompletionNotLost,
         SlotsMatchKernel, OneSlotEach, Busy, Waited, table, thread, kernel

LEMMA InterruptStep ==
  ASSUME IInv, NEW e \in Endpoints, Interrupt(e)
  PROVE  IInv'
  BY DEF Interrupt, IInv, TypeOK, WaitersReady, KernelEmpty, SlotIdle, CompletionNotLost,
         SlotsMatchKernel, OneSlotEach, Busy, Waited, table, thread, kernel

LEMMA CompleteStep ==
  ASSUME IInv, NEW e \in Endpoints, NEW status \in KStatuses, Complete(e, status)
  PROVE  IInv'
  BY NullIsNew
     DEF Complete, IInv, TypeOK, WaitersReady, KernelEmpty, SlotIdle, CompletionNotLost,
         SlotsMatchKernel, OneSlotEach, Busy, Waited, table, thread

LEMMA WaitHangupStep ==
  ASSUME IInv, NEW e \in Endpoints, WaitHangup(e)
  PROVE  IInv'
  BY NullIsNew
     DEF WaitHangup, Returns, Results, IInv, TypeOK, WaitersReady, KernelEmpty, SlotIdle,
         CompletionNotLost, SlotsMatchKernel, OneSlotEach, Busy, Waited, table, kernel

LEMMA WaitPolledStep ==
  ASSUME IInv, NEW e \in Endpoints, WaitPolled(e)
  PROVE  IInv'
  BY NullIsNew
     DEF WaitPolled, IInv, TypeOK, WaitersReady, KernelEmpty, SlotIdle,
         CompletionNotLost, SlotsMatchKernel, OneSlotEach, Busy, Waited, table, kernel

LEMMA WaitAgainStep ==
  ASSUME IInv, NEW e \in Endpoints, WaitAgain(e)
  PROVE  IInv'
  BY NullIsNew
     DEF WaitAgain, IInv, TypeOK, WaitersReady, KernelEmpty, SlotIdle,
         CompletionNotLost, SlotsMatchKernel, OneSlotEach, Busy, Waited, table, kernel

LEMMA WaitDrainStep ==
  ASSUME IInv, NEW e \in Endpoints, WaitDrain(e)
  PROVE  IInv'
<1> USE DEF IInv
<1>1. TypeOK'
  <2>1. Drained(slot[e], kcomp) \in [Slots -> KStatuses \cup {NULL}]
    BY DEF Drained, TypeOK
  <2>2. done' \in [Slots -> KStatuses \cup {NULL}] /\ kcomp' \in [Slots -> KStatuses \cup {NULL}]
    BY <2>1 DEF WaitDrain
  <2>3. UNCHANGED <<handle, controlling, table, kopen, ksize, kbusy, plugged>>
    BY DEF WaitDrain
  <2>4. \/ \E r \in Results : Returns(e, r)
        \/ pc' = [pc EXCEPT ![e] = "late"] /\ UNCHANGED <<slot, timed, ret, interrupted>>
    BY DEF WaitDrain, Translate, Results
  <2>5. /\ pc' \in [Endpoints -> {"idle", "waiting", "polled", "late"}]
        /\ slot' \in [Endpoints -> Slots \cup {NULL}]
        /\ timed' \in [Endpoints -> BOOLEAN] /\ interrupted' \in [Endpoints -> BOOLEAN]
        /\ ret' \in [Endpoints -> Results]
    <3>1. /\ pc \in [Endpoints -> {"idle", "waiting", "polled", "late"}]
          /\ slot \in [Endpoints -> Slots \cup {NULL}]
          /\ timed \in [Endpoints -> BOOLEAN] /\ interrupted \in [Endpoints -> BOOLEAN]
          /\ ret \in [Endpoints -> Results]
      BY DEF TypeOK
    <3>2. CASE \E r \in Results : Returns(e, r)
      BY <3>1, <3>2 DEF Returns
    <3>3. CASE pc' = [pc EXCEPT ![e] = "late"] /\ UNCHANGED <<slot, timed, ret, interrupted>>
      BY <3>1, <3>3
    <3> QED
      BY <2>4, <3>2, <3>3
  <2> QED
    BY <2>2, <2>3, <2>5 DEF TypeOK, table
<1>2. WaitersReady' /\ KernelEmpty'
  <2>1. \A f \in Endpoints : Busy(f)' => Busy(f) /\ slot'[f] = slot[f]
    <3>1. CASE \E r : Returns(e, r)
      BY <3>1 DEF Returns, TypeOK, Busy
    <3>2. CASE pc' = [pc EXCEPT ![e] = "late"] /\ slot' = slot
      BY <3>2 DEF WaitDrain, TypeOK, Busy
    <3> QED
      BY <3>1, <3>2 DEF WaitDrain
  <2>2. UNCHANGED <<handle, plugged, kopen, kbusy>> /\ \A s \in Slots : kcomp'[s] = NULL
    BY DEF WaitDrain
  <2> QED
    BY <2>1, <2>2 DEF WaitersReady, KernelEmpty
<1>3. SlotIdle'
  <2>1. \/ pc' = [pc EXCEPT ![e] = "idle"] /\ slot' = [slot EXCEPT ![e] = NULL]
        \/ pc' = [pc EXCEPT ![e] = "late"] /\ slot' = slot
    BY DEF WaitDrain, Returns
  <2>0. pc \in [Endpoints -> {"idle", "waiting", "polled", "late"}] /\ slot \in [Endpoints -> Slots \cup {NULL}]
    BY DEF TypeOK
  <2>2. slot[e] \in Slots /\ kcomp \in [Slots -> KStatuses \cup {NULL}] /\ handle = "ready"
    BY DEF WaitDrain, TypeOK, WaitersReady, Busy
  <2>3. /\ done' = [Drained(slot[e], kcomp) EXCEPT ![slot[e]] = NULL]
        /\ UNCHANGED <<kbusy, plugged, handle>> /\ \A s \in Slots : kcomp'[s] = NULL
    BY DEF WaitDrain
  <2>4. ASSUME NEW s \in Slots, s # slot[e], plugged, ~Waited(s)'
        PROVE  ~kbusy'[s] /\ done'[s] = NULL
    <3>1. ~Waited(s)
      BY <2>0, <2>1, <2>4 DEF Waited, Busy
    <3> QED
      BY <2>2, <2>3, <2>4, <3>1 DEF Drained, SlotIdle
  <2>5. ASSUME NEW s \in Slots, s = slot[e], plugged, ~Waited(s)'
        PROVE  ~kbusy'[s] /\ done'[s] = NULL
    <3>1. Drained(s, kcomp)[s] # NULL
      BY <2>0, <2>2, <2>5 DEF WaitDrain, Waited, Busy
    <3> QED
      BY <2>2, <2>3, <2>5, <3>1 DEF WaitDrain, Drained, CompletionNotLost, Busy
  <2> QED
    BY <2>3, <2>4, <2>5 DEF SlotIdle
<1>4. CompletionNotLost'
  <2>1. ASSUME NEW f \in Endpoints, f # e, Busy(f)' PROVE Busy(f) /\ slot'[f] = slot[f]
    <3>1. CASE \E r : Returns(e, r)
      BY <2>1, <3>1 DEF Returns, TypeOK, Busy
    <3>2. CASE pc' = [pc EXCEPT ![e] = "late"] /\ slot' = slot
      BY <2>1, <3>2 DEF WaitDrain, TypeOK, Busy
    <3> QED
      BY <3>1, <3>2 DEF WaitDrain
  <2>2. /\ done' = [Drained(slot[e], kcomp) EXCEPT ![slot[e]] = NULL]
        /\ UNCHANGED <<kbusy, plugged>> /\ \A s \in Slots : kcomp'[s] = NULL
    BY DEF WaitDrain
  <2>3. \A s \in Slots : s # slot[e] => done'[s] = IF kcomp[s] # NULL THEN kcomp[s] ELSE done[s]
    BY <2>2 DEF Drained
  <2>4. ASSUME NEW f \in Endpoints, f # e, Busy(f)', plugged
        PROVE  LET s == slot'[f] IN
               /\ kbusy'[s] \/ kcomp'[s] # NULL \/ done'[s] # NULL
               /\ kbusy'[s] => kcomp'[s] = NULL /\ done'[s] = NULL
               /\ kcomp'[s] # NULL => done'[s] = NULL
    <3>1. slot'[f] = slot[f] /\ slot[f] \in Slots /\ slot[f] # slot[e]
      BY <2>1, <2>4 DEF WaitDrain, WaitersReady, OneSlotEach, Busy
    <3> QED
      BY <2>1, <2>2, <2>3, <2>4, <3>1 DEF CompletionNotLost
  <2>5. ASSUME Busy(e)', plugged
        PROVE  slot'[e] = slot[e] /\ slot[e] \in Slots /\ kbusy[slot[e]] /\ done'[slot[e]] = NULL
    <3>1. slot[e] \in Slots /\ Drained(slot[e], kcomp)[slot[e]] = NULL /\ slot'[e] = slot[e]
      BY <2>5 DEF WaitDrain, Returns, TypeOK, WaitersReady, Busy
    <3> QED
      BY <2>2, <3>1 DEF WaitDrain, Drained, CompletionNotLost, Busy
  <2> QED
    BY <2>2, <2>4, <2>5 DEF CompletionNotLost
<1>5. SlotsMatchKernel' /\ OneSlotEach'
  BY NullIsNew DEF WaitDrain, Drained, Locked, Translate, Returns, Results, table, TypeOK,
         WaitersReady, KernelEmpty, SlotsMatchKernel, OneSlotEach, Busy
<1> QED
  BY <1>1, <1>2, <1>3, <1>4, <1>5

LEMMA WaitInterruptedStep ==
  ASSUME IInv, NEW e \in Endpoints, WaitInterrupted(e)
  PROVE  IInv'
<1> USE DEF IInv
<1>1. TypeOK'
  BY NullIsNew DEF WaitInterrupted, Locked, StopAndDrain, TableAfterStop, StoppedComp, Drained,
         KStatuses, Returns, Results, table, TypeOK, WaitersReady, Busy
<1>2. WaitersReady' /\ KernelEmpty'
  BY NullIsNew DEF WaitInterrupted, Locked, StopAndDrain, TableAfterStop, StoppedComp, Drained,
         KStatuses, Returns, Results, table, TypeOK, WaitersReady, KernelEmpty, Busy
<1>3. SlotIdle'
  BY NullIsNew DEF WaitInterrupted, Locked, StopAndDrain, TableAfterStop, StoppedComp, Drained,
         KStatuses, Returns, Results, table, TypeOK, WaitersReady, KernelEmpty,
         OneSlotEach, SlotIdle, CompletionNotLost, Waited, Busy
<1>4. CompletionNotLost'
  BY NullIsNew DEF WaitInterrupted, Locked, StopAndDrain, TableAfterStop, StoppedComp, Drained,
         KStatuses, Returns, Results, table, TypeOK, WaitersReady, KernelEmpty,
         OneSlotEach, SlotIdle, CompletionNotLost, Waited, Busy
<1>5. SlotsMatchKernel' /\ OneSlotEach'
  BY NullIsNew DEF WaitInterrupted, Locked, StopAndDrain, TableAfterStop, StoppedComp, Drained,
         KStatuses, Returns, Results, table, TypeOK, WaitersReady, KernelEmpty,
         SlotsMatchKernel, OneSlotEach, Busy
<1> QED
  BY <1>1, <1>2, <1>3, <1>4, <1>5

LEMMA WaitTimeoutStep ==
  ASSUME IInv, NEW e \in Endpoints, WaitTimeout(e)
  PROVE  IInv'
<1> USE DEF IInv
<1>1. TypeOK'
  BY NullIsNew DEF WaitTimeout, Locked, StopAndDrain, TableAfterStop, StoppedComp, Drained,
         KStatuses, Returns, Results, table, TypeOK, WaitersReady, Busy
<1>2. WaitersReady' /\ KernelEmpty'
  BY NullIsNew DEF WaitTimeout, Locked, StopAndDrain, TableAfterStop, StoppedComp, Drained,
         KStatuses, Returns, Results, table, TypeOK, WaitersReady, KernelEmpty, Busy
<1>3. SlotIdle'
  BY NullIsNew DEF WaitTimeout, Locked, StopAndDrain, TableAfterStop, StoppedComp, Drained,
         KStatuses, Returns, Results, table, TypeOK, WaitersReady, KernelEmpty,
         OneSlotEach, SlotIdle, CompletionNotLost, Waited, Busy
<1>4. CompletionNotLost'
  BY NullIsNew DEF WaitTimeout, Locked, StopAndDrain, TableAfterStop, StoppedComp, Drained,
         KStatuses, Returns, Results, table, TypeOK, WaitersReady, KernelEmpty,
         OneSlotEach, SlotIdle, CompletionNotLost, Waited, Busy
<1>5. SlotsMatchKernel' /\ OneSlotEach'
  BY NullIsNew DEF WaitTimeout, Locked, StopAndDrain, TableAfterStop, StoppedComp, Drained,
         KStatuses, Returns, Results, table, TypeOK, WaitersReady, KernelEmpty,
         SlotsMatchKernel, OneSlotEach, Busy
<1> QED
  BY <1>1, <1>2, <1>3, <1>4, <1>5

LEMMA BeginUnsupportedStep ==
  ASSUME IInv, NEW e \in Endpoints, BeginUnsupported(e)
  PROVE  IInv'
<1> USE DEF IInv
<1>1. TypeOK'
  BY NullIsNew DEF BeginUnsupported, Returns, Results, table, kernel, TypeOK, WaitersReady, Busy
<1>2. WaitersReady' /\ KernelEmpty'
  BY NullIsNew DEF BeginUnsupported, Returns, Results, table, kernel, TypeOK, WaitersReady,
         KernelEmpty, Busy
<1>3. SlotIdle'
  BY NullIsNew DEF BeginUnsupported, Returns, Results, table, kernel, TypeOK, WaitersReady,
         KernelEmpty, OneSlotEach, SlotIdle, CompletionNotLost, Waited, Busy
<1>4. CompletionNotLost'
  BY NullIsNew DEF BeginUnsupported, Returns, Results, table, kernel, TypeOK, WaitersReady,
         KernelEmpty, OneSlotEach, SlotIdle, CompletionNotLost, Waited, Busy
<1>5. SlotsMatchKernel' /\ OneSlotEach'
  BY NullIsNew DEF BeginUnsupported, Returns, Results, table, kernel, TypeOK, WaitersReady,
         KernelEmpty, SlotsMatchKernel, OneSlotEach, Busy
<1> QED
  BY <1>1, <1>2, <1>3, <1>4, <1>5

LEMMA BeginNoSlotStep ==
  ASSUME IInv, NEW e \in Endpoints, NEW need \in Lengths, BeginNoSlot(e, need)
  PROVE  IInv'
<1> USE DEF IInv
<1>1. TypeOK'
  BY NullIsNew DEF BeginNoSlot, CanBegin, Returns, Results, table, kernel, TypeOK, WaitersReady,
         Busy
<1>2. WaitersReady' /\ KernelEmpty'
  BY NullIsNew DEF BeginNoSlot, CanBegin, Returns, Results, table, kernel, TypeOK, WaitersReady,
         KernelEmpty, Busy
<1>3. SlotIdle'
  BY NullIsNew DEF BeginNoSlot, CanBegin, Returns, Results, table, kernel, TypeOK, WaitersReady,
         KernelEmpty, OneSlotEach, SlotIdle, CompletionNotLost, Waited, Busy
<1>4. CompletionNotLost'
  BY NullIsNew DEF BeginNoSlot, CanBegin, Returns, Results, table, kernel, TypeOK, WaitersReady,
         KernelEmpty, OneSlotEach, SlotIdle, CompletionNotLost, Waited, Busy
<1>5. SlotsMatchKernel' /\ OneSlotEach'
  BY NullIsNew DEF BeginNoSlot, CanBegin, Returns, Results, table, kernel, TypeOK, WaitersReady,
         KernelEmpty, SlotsMatchKernel, OneSlotEach, Busy
<1> QED
  BY <1>1, <1>2, <1>3, <1>4, <1>5

LEMMA BeginReuseStep ==
  ASSUME IInv, NEW e \in Endpoints, NEW need \in Lengths, BeginReuse(e, need)
  PROVE  IInv'
<1> USE DEF IInv
<1>1. TypeOK'
  <2>1. PICK s \in Slots : StartsOn(e, s, ~kbusy[s] /\ need <= ksize[s])
    BY DEF BeginReuse
  <2>2. CASE StartedOn(e, s)
    BY <2>2 DEF BeginReuse, CanBegin, StartedOn, Results, table, TypeOK
  <2>3. CASE ~StartedOn(e, s)
    BY <2>1, <2>3 DEF BeginReuse, CanBegin, StartsOn, Returns, Results, table, TypeOK
  <2> QED
    BY <2>2, <2>3
<1>2. WaitersReady' /\ KernelEmpty'
  BY NullIsNew DEF BeginReuse, CanBegin, Reuses, StartsOn, StartedOn, Returns, Results, table,
         TypeOK, WaitersReady, KernelEmpty, Busy
<1>3. SlotIdle'
  BY NullIsNew DEF BeginReuse, CanBegin, Reuses, StartsOn, StartedOn, Returns, Results, table,
         TypeOK, WaitersReady, KernelEmpty, OneSlotEach, SlotIdle, CompletionNotLost,
         Waited, Busy
<1>4. CompletionNotLost'
  BY NullIsNew DEF BeginReuse, CanBegin, Reuses, StartsOn, StartedOn, Returns, Results, table,
         TypeOK, WaitersReady, KernelEmpty, OneSlotEach, SlotIdle, CompletionNotLost,
         Waited, Busy
<1>5. SlotsMatchKernel' /\ OneSlotEach'
  BY NullIsNew DEF BeginReuse, CanBegin, Reuses, StartsOn, StartedOn, Returns, Results, table,
         TypeOK, WaitersReady, KernelEmpty, SlotsMatchKernel, OneSlotEach, Busy
<1> QED
  BY <1>1, <1>2, <1>3, <1>4, <1>5

LEMMA BeginOpenStep ==
  ASSUME IInv, NEW e \in Endpoints, NEW need \in Lengths, BeginOpen(e, need)
  PROVE  IInv'
<1> USE DEF IInv
<1>1. TypeOK'
  <2>1. PICK s \in Slots, size \in Granted(need) :
          /\ ep_no' = [ep_no EXCEPT ![s] = e]
          /\ ep_bufsize' = [ep_bufsize EXCEPT ![s] = size]
          /\ kopen' = [kopen EXCEPT ![s] = e]
          /\ ksize' = [ksize EXCEPT ![s] = size]
          /\ kcomp' = [kcomp EXCEPT ![s] = NULL]
          /\ StartsOn(e, s, need <= size)
    BY DEF BeginOpen
  <2>2. size \in Nat
    BY LengthsAssumption DEF Granted, Asked
  <2>3. CASE StartedOn(e, s)
    BY <2>1, <2>2, <2>3 DEF BeginOpen, CanBegin, StartedOn, Results, TypeOK
  <2>4. CASE ~StartedOn(e, s)
    <3>1. PICK r \in Results : Returns(e, r) /\ done' = [done EXCEPT ![s] = NULL] /\ kbusy' = kbusy
      BY <2>1, <2>4 DEF StartsOn, Results
    <3>2. /\ ep_no' \in [Slots -> Endpoints \cup {NULL}] /\ ep_bufsize' \in [Slots -> Nat]
          /\ kopen' \in [Slots -> Endpoints \cup {NULL}] /\ ksize' \in [Slots -> Nat]
          /\ kcomp' \in [Slots -> KStatuses \cup {NULL}]
      BY <2>1, <2>2 DEF BeginOpen, TypeOK
    <3>3. /\ done' \in [Slots -> KStatuses \cup {NULL}] /\ kbusy' \in [Slots -> BOOLEAN]
          /\ UNCHANGED <<handle, controlling, plugged>>
      BY <3>1 DEF BeginOpen, TypeOK
    <3>4. /\ pc' \in [Endpoints -> {"idle", "waiting", "polled", "late"}]
          /\ slot' \in [Endpoints -> Slots \cup {NULL}]
          /\ timed' \in [Endpoints -> BOOLEAN] /\ interrupted' \in [Endpoints -> BOOLEAN]
          /\ ret' \in [Endpoints -> Results]
      BY <3>1 DEF Returns, TypeOK
    <3> QED
      BY <3>2, <3>3, <3>4 DEF TypeOK
  <2> QED
    BY <2>3, <2>4
<1>2. WaitersReady' /\ KernelEmpty'
  BY NullIsNew, LengthsAssumption DEF BeginOpen, CanBegin, Opens, Granted, Asked, StartsOn, StartedOn, Returns,
         Results, table, TypeOK, WaitersReady, KernelEmpty, Busy
<1>3. SlotIdle'
  BY NullIsNew, LengthsAssumption DEF BeginOpen, CanBegin, Opens, Granted, Asked, StartsOn, StartedOn, Returns,
         Results, table, TypeOK, WaitersReady, KernelEmpty, OneSlotEach, SlotIdle,
         CompletionNotLost, Waited, Busy
<1>4. CompletionNotLost'
  BY NullIsNew, LengthsAssumption DEF BeginOpen, CanBegin, Opens, Granted, Asked, StartsOn, StartedOn, Returns,
         Results, table, TypeOK, WaitersReady, KernelEmpty, OneSlotEach, SlotIdle,
         CompletionNotLost, Waited, Busy
<1>5. SlotsMatchKernel' /\ OneSlotEach'
  BY NullIsNew, LengthsAssumption DEF BeginOpen, CanBegin, Opens, Range, Granted, Asked, StartsOn, StartedOn, Returns,
         Results, table, TypeOK, WaitersReady, KernelEmpty, SlotsMatchKernel,
         OneSlotEach, Busy
<1> QED
  BY <1>1, <1>2, <1>3, <1>4, <1>5

LEMMA BeginOpenFailsStep ==
  ASSUME IInv, NEW e \in Endpoints, NEW need \in Lengths, BeginOpenFails(e, need)
  PROVE  IInv'
<1> USE DEF IInv
<1>1. TypeOK'
  BY NullIsNew DEF BeginOpenFails, CanBegin, Opens, KClosed, Returns, Results, table, kernel,
         TypeOK, WaitersReady, Busy
<1>2. WaitersReady' /\ KernelEmpty'
  BY NullIsNew DEF BeginOpenFails, CanBegin, Opens, KClosed, Returns, Results, table, kernel,
         TypeOK, WaitersReady, KernelEmpty, Busy
<1>3. SlotIdle'
  BY NullIsNew DEF BeginOpenFails, CanBegin, Opens, KClosed, Returns, Results, table, kernel,
         TypeOK, WaitersReady, KernelEmpty, OneSlotEach, SlotIdle, CompletionNotLost,
         Waited, Busy
<1>4. CompletionNotLost'
  BY NullIsNew DEF BeginOpenFails, CanBegin, Opens, KClosed, Returns, Results, table, kernel,
         TypeOK, WaitersReady, KernelEmpty, OneSlotEach, SlotIdle, CompletionNotLost,
         Waited, Busy
<1>5. SlotsMatchKernel' /\ OneSlotEach'
  BY NullIsNew DEF BeginOpenFails, CanBegin, Opens, KClosed, Returns, Results, table, kernel,
         TypeOK, WaitersReady, KernelEmpty, SlotsMatchKernel, OneSlotEach, Busy
<1> QED
  BY <1>1, <1>2, <1>3, <1>4, <1>5

LEMMA StutterStep == IInv /\ UNCHANGED vars => IInv'
<1> SUFFICES ASSUME IInv, UNCHANGED vars PROVE IInv'
  OBVIOUS
<1> USE DEF vars, table, thread, kernel
<1>1. TypeOK' /\ WaitersReady' /\ KernelEmpty'
  BY DEF IInv, TypeOK, WaitersReady, KernelEmpty, Busy
<1>2. SlotIdle'
  BY DEF IInv, SlotIdle, Waited, Busy
<1>3. CompletionNotLost' /\ SlotsMatchKernel' /\ OneSlotEach'
  BY DEF IInv, CompletionNotLost, SlotsMatchKernel, OneSlotEach, Busy
<1> QED
  BY <1>1, <1>2, <1>3 DEF IInv

LEMMA NextStep == IInv /\ [Next]_vars => IInv'
<1> SUFFICES ASSUME IInv, [Next]_vars PROVE IInv'
  OBVIOUS
<1>1. CASE Open \/ Close \/ ControlBegin \/ ControlEnd \/ Unplug \/ Replug
  BY <1>1, OpenStep, CloseStep, ControlStep, UnplugStep, ReplugStep
<1>2. ASSUME NEW e \in Endpoints, NEW need \in Lengths, Begin(e, need) PROVE IInv'
  BY <1>2, BeginReuseStep, BeginOpenStep, BeginOpenFailsStep, BeginNoSlotStep DEF Begin
<1>3. ASSUME NEW e \in Endpoints, BeginUnsupported(e) \/ Wait(e) \/ Interrupt(e) PROVE IInv'
  BY <1>3, BeginUnsupportedStep, InterruptStep, WaitHangupStep, WaitInterruptedStep,
     WaitPolledStep, WaitDrainStep, WaitAgainStep, WaitTimeoutStep DEF Wait
<1>4. ASSUME NEW e \in Endpoints, NEW status \in KStatuses, Complete(e, status) PROVE IInv'
  BY <1>4, CompleteStep
<1>5. CASE UNCHANGED vars
  BY <1>5, StutterStep
<1> QED
  BY <1>1, <1>2, <1>3, <1>4, <1>5 DEF Next

LEMMA Invariance == Spec => []IInv
  BY InitIInv, NextStep, PTL DEF Spec

-----------------------------------------------------------------------------
(***************************************************************************)
(* What follows for _sync_gen_transfer.                                    *)
(***************************************************************************)

\* The slots, the threads and the kernel's side keep their types.
THEOREM TypeCorrect == Spec => []TypeOK
  BY Invariance, PTL DEF IInv

\* After every return of _sync_gen_transfer its slot is idle, so that a late
\* completion cannot be taken for the next transfer's.
THEOREM SlotsIdle == Spec => []SlotIdle
  BY Invariance, PTL DEF IInv

\* Whichever threads drain the completion queue, a waiting transfer is under
\* way or its one completion is still there for its own thread.
THEOREM NoCompletionLost == Spec => []CompletionNotLost
  BY Invariance, PTL DEF IInv

\* _fs_slot keeps the table as the kernel has it, also when USB_FS_OPEN fails.
THEOREM TableMatches == Spec => []SlotsMatchKernel
  BY Invariance, PTL DEF IInv

\* Endpoints and their waiting threads never share a slot.
THEOREM SlotsAreOwn == Spec => []OneSlotEach
  BY Invariance, PTL DEF IInv

\* What a step returns is how the thread's own transfer ended.
LEMMA ReturnStep ==
  ASSUME IInv, [Next]_vars, NEW e \in Endpoints, Busy(e), ~Busy(e)', plugged
  PROVE  /\ ret[e]' = "OK" => Ended(e) = "OK"
         /\ ret[e]' = "INTERRUPTED" => Ended(e) # "OK"
<1>1. pc \in [Endpoints -> {"idle", "waiting", "polled", "late"}] /\ pc[e] # "idle" /\ pc'[e] = "idle"
  BY DEF IInv, TypeOK, Busy
<1>2. Wait(e)
  <2>2. ASSUME NEW f \in Endpoints, NEW need \in Lengths, Begin(f, need) PROVE FALSE
    <3>1. pc[f] = "idle"
      BY <2>2 DEF Begin, BeginReuse, BeginOpen, BeginOpenFails, BeginNoSlot, CanBegin
    <3>2. \E v \in {"idle", "waiting"} : pc' = [pc EXCEPT ![f] = v]
      BY <2>2 DEF Begin, BeginReuse, BeginOpen, BeginOpenFails, BeginNoSlot, StartsOn,
         StartedOn, Returns
    <3> QED
      BY <1>1, <3>1, <3>2
  <2>3. ASSUME NEW f \in Endpoints, BeginUnsupported(f) PROVE FALSE
    BY <1>1, <2>3 DEF BeginUnsupported, Returns
  <2>4. ASSUME NEW f \in Endpoints, Wait(f) PROVE f = e
    <3>1. \E v \in {"idle", "waiting", "polled", "late"} : pc' = [pc EXCEPT ![f] = v]
      BY <2>4 DEF Wait, WaitHangup, WaitInterrupted, WaitPolled, WaitDrain, WaitAgain, WaitTimeout, Returns
    <3> QED
      BY <1>1, <3>1
  <2>5. ASSUME pc' = pc PROVE FALSE
    BY <1>1, <2>5
  <2>6. CASE \/ Open \/ Close \/ ControlBegin \/ ControlEnd \/ Unplug \/ Replug
             \/ UNCHANGED vars
    BY <2>5, <2>6 DEF Open, Close, ControlBegin, ControlEnd, Unplug, Replug, vars, thread
  <2>7. ASSUME NEW f \in Endpoints, Interrupt(f) \/ \E status \in KStatuses : Complete(f, status)
        PROVE  FALSE
    BY <2>5, <2>7 DEF Interrupt, Complete, thread
  <2> QED
    BY <2>2, <2>3, <2>4, <2>6, <2>7 DEF Next
<1>3. CASE WaitInterrupted(e)
  <2>1. slot[e] \in Slots /\ ret \in [Endpoints -> Results]
    BY DEF IInv, TypeOK, WaitersReady
  <2>2. ret'[e] = IF TableAfterStop(slot[e])[slot[e]] = "OK" THEN "OK" ELSE "INTERRUPTED"
    BY <1>3, <2>1 DEF WaitInterrupted, Returns
  <2>3. CASE kbusy[slot[e]]
    <3>1. Ended(e) = NULL
      BY <2>3 DEF IInv, CompletionNotLost, Ended
    <3>2. TableAfterStop(slot[e])[slot[e]] = "CANCELLED"
      BY <2>1, <2>3, NullIsNew DEF TableAfterStop, StoppedComp, Drained, KStatuses, IInv, TypeOK
    <3> QED
      BY <2>2, <3>1, <3>2, NullIsNew DEF KStatuses
  <2>4. CASE ~kbusy[slot[e]]
    <3>1. TableAfterStop(slot[e])[slot[e]] = Ended(e)
      BY <2>1, <2>4 DEF TableAfterStop, StoppedComp, Drained, Ended
    <3> QED
      BY <2>2, <3>1
  <2> QED
    BY <2>3, <2>4
<1>4. CASE WaitDrain(e)
  <2>1. slot[e] \in Slots /\ ret \in [Endpoints -> Results]
    BY DEF IInv, TypeOK, WaitersReady
  <2>2. Drained(slot[e], kcomp)[slot[e]] = Ended(e)
    BY <2>1 DEF Drained, Ended
  <2>3. ret'[e] = Translate(Ended(e))
    BY <1>1, <1>4, <2>1, <2>2 DEF WaitDrain, Returns
  <2> QED
    BY <2>3 DEF Translate
<1>5. CASE WaitTimeout(e)
  BY <1>5 DEF WaitTimeout, Returns, IInv, TypeOK
<1>6. ~WaitHangup(e) /\ ~WaitPolled(e) /\ ~WaitAgain(e)
  BY <1>1 DEF WaitHangup, WaitPolled, WaitAgain
<1> QED
  BY <1>2, <1>3, <1>4, <1>5, <1>6 DEF Wait

\* A handle that is not ready has no slots.
NoSlots == handle # "ready" => \A s \in Slots : ep_no[s] = NULL

LEMMA NextNoSlots == IInv /\ NoSlots /\ [Next]_vars => NoSlots'
<1> SUFFICES ASSUME IInv, NoSlots, [Next]_vars PROVE NoSlots'
  OBVIOUS
<1>1. CASE Open \/ Close
  BY <1>1 DEF Open, Close, NoSlots
<1>2. CASE UNCHANGED <<handle, ep_no>>
  BY <1>2 DEF NoSlots
<1>3. ASSUME NEW e \in Endpoints, NEW need \in Lengths, BeginOpen(e, need) \/ BeginOpenFails(e, need)
      PROVE  NoSlots'
  BY <1>3 DEF BeginOpen, BeginOpenFails, CanBegin, NoSlots
<1> QED
  BY <1>1, <1>2, <1>3
     DEF Next, Begin, BeginReuse, BeginNoSlot, BeginUnsupported, Wait, WaitHangup, WaitInterrupted,
         WaitPolled, WaitDrain, WaitAgain, WaitTimeout, ControlBegin, ControlEnd, Complete, Interrupt,
         Unplug, Replug, table, vars

\* No step but a failing call of the endpoint's own takes its slot away.
LEMMA KeptStep ==
  ASSUME IInv, NoSlots, [Next]_vars, NEW s \in Slots, ep_no[s] # NULL, handle' # "closed"
  PROVE  \/ ep_no'[s] = ep_no[s]
         \/ ep_no'[s] = NULL /\ ret'[ep_no[s]] \in {"NO_MEM", "NO_DEVICE"}
<1>1. ep_no \in [Slots -> Endpoints \cup {NULL}] /\ ret \in [Endpoints -> Results]
  BY DEF IInv, TypeOK
<1>2. CASE UNCHANGED ep_no
  BY <1>2
<1>3. ASSUME NEW e \in Endpoints, NEW need \in Lengths, BeginOpen(e, need)
      PROVE  ep_no'[s] = ep_no[s]
  BY <1>1, <1>3 DEF BeginOpen, Opens
<1>4. ASSUME NEW e \in Endpoints, NEW need \in Lengths, BeginOpenFails(e, need)
      PROVE  \/ ep_no'[s] = ep_no[s]
             \/ ep_no'[s] = NULL /\ ret'[ep_no[s]] \in {"NO_MEM", "NO_DEVICE"}
  BY <1>1, <1>4 DEF BeginOpenFails, Opens, Returns
<1>5. ~Open /\ ~Close
  BY DEF Open, Close, NoSlots
<1> QED
  BY <1>2, <1>3, <1>4, <1>5
     DEF Next, Begin, BeginReuse, BeginNoSlot, BeginUnsupported, Wait, WaitHangup, WaitInterrupted,
         WaitPolled, WaitDrain, WaitAgain, WaitTimeout, ControlBegin, ControlEnd, Complete, Interrupt,
         Unplug, Replug, table, vars

\* Whoever has a slot keeps it, for any number of endpoints and slots.
THEOREM SlotsStay == Spec => SlotsAreKept
<1>1. IInv /\ NoSlots /\ [Next]_vars =>
        \A s \in Slots :
          ep_no[s] # NULL /\ handle' # "closed" =>
            \/ ep_no'[s] = ep_no[s]
            \/ ep_no'[s] = NULL /\ ret'[ep_no[s]] \in {"NO_MEM", "NO_DEVICE"}
  BY KeptStep
<1>2. Init => NoSlots
  BY DEF Init, NoSlots
<1> QED
  BY <1>1, <1>2, InitIInv, NextStep, NextNoSlots, PTL DEF Spec, SlotsAreKept

\* Success is only told of a transfer that succeeded, and a cancelled one that
\* completed before USB_FS_STOP keeps its data.
THEOREM ReturnsTruthfully == Spec => TruthfulReturn
<1>1. IInv /\ [Next]_vars =>
        [\A e \in Endpoints :
           Busy(e) /\ ~Busy(e)' /\ plugged =>
             /\ ret[e]' = "OK" => Ended(e) = "OK"
             /\ ret[e]' = "INTERRUPTED" => Ended(e) # "OK"]_vars
  BY ReturnStep
<1> QED
  BY <1>1, Invariance, PTL DEF Spec, TruthfulReturn

-----------------------------------------------------------------------------
(***************************************************************************)
(* The threads implement SyncSubmit.  What the mapping shows of an         *)
(* endpoint, and how a step that concerns one endpoint changes it.         *)
(***************************************************************************)
Running == [e \in Endpoints |-> Busy(e)]
Limited == [e \in Endpoints |-> Busy(e) /\ timed[e]]
Cancelled == [e \in Endpoints |-> Busy(e) /\ interrupted[e]]
Outcome == [e \in Endpoints |-> IF Busy(e) THEN Ended(e) ELSE NULL]

\* CANCELLED, what USB_FS_STOP completes a transfer with, is gone from the
\* queue and the table when the thread that stopped it unlocks.
StopsUnseen == \A s \in Slots : kcomp[s] # "CANCELLED" /\ done[s] # "CANCELLED"

\* The worker has cleared its flag when it takes the next transfer.
FlagsCleared == \A e \in Endpoints : ~Busy(e) => ~interrupted[e]

SubmitInv == IInv /\ StopsUnseen /\ FlagsCleared

LEMMA InitStopsUnseen == Init => StopsUnseen
  BY NullIsNew DEF Init, StopsUnseen, KStatuses

\* A stop and the drain after it leave no CANCELLED, whoever stops.
LEMMA StopUnseen ==
  ASSUME IInv, StopsUnseen, NEW s \in Slots, StopAndDrain(s)
  PROVE  StopsUnseen'
<1>1. kcomp \in [Slots -> KStatuses \cup {NULL}] /\ done \in [Slots -> KStatuses \cup {NULL}]
  BY DEF IInv, TypeOK
<1>2. NULL # "CANCELLED"
  BY NullIsNew DEF KStatuses
<1>3. ASSUME NEW r \in Slots, r # s PROVE TableAfterStop(s)[r] # "CANCELLED"
  BY <1>1, <1>3 DEF TableAfterStop, Drained, StoppedComp, StopsUnseen
<1>4. TableAfterStop(s) \in [Slots -> KStatuses \cup {NULL}]
  BY <1>1 DEF TableAfterStop, Drained, StoppedComp, KStatuses
<1>5. \A r \in Slots : done'[r] # "CANCELLED"
  BY <1>2, <1>3, <1>4 DEF StopAndDrain
<1>6. \A r \in Slots : kcomp'[r] # "CANCELLED"
  BY <1>1, <1>2 DEF StopAndDrain, StopsUnseen
<1> QED
  BY <1>5, <1>6 DEF StopsUnseen

LEMMA NextStopsUnseen == IInv /\ StopsUnseen /\ [Next]_vars => StopsUnseen'
<1> SUFFICES ASSUME IInv, StopsUnseen, [Next]_vars PROVE StopsUnseen'
  OBVIOUS
<1>1. kcomp \in [Slots -> KStatuses \cup {NULL}] /\ done \in [Slots -> KStatuses \cup {NULL}]
  BY DEF IInv, TypeOK
<1>2. NULL # "CANCELLED"
  BY NullIsNew DEF KStatuses
<1>3. ASSUME NEW ss, KClosed(ss) PROVE \A s \in Slots : kcomp'[s] # "CANCELLED"
  BY <1>1, <1>2, <1>3 DEF KClosed, StopsUnseen
<1>4. CASE UNCHANGED <<done, kcomp>>
  BY <1>4 DEF StopsUnseen
<1>5. CASE Open \/ Close \/ Unplug
  BY <1>1, <1>2, <1>3, <1>5 DEF Open, Close, Unplug, kernel, StopsUnseen
<1>6. CASE ControlBegin \/ ControlEnd \/ Replug \/ UNCHANGED vars
  BY <1>4, <1>6 DEF ControlBegin, ControlEnd, Replug, vars, kernel
<1>7. ASSUME NEW e \in Endpoints, NEW need \in Lengths, Begin(e, need) PROVE StopsUnseen'
  <2>1. \A s \in Slots : kcomp'[s] # "CANCELLED"
    BY <1>1, <1>2, <1>3, <1>7
       DEF Begin, BeginReuse, BeginOpen, BeginOpenFails, BeginNoSlot, kernel, StopsUnseen
  <2>2. done' = done \/ \E s \in Slots : done' = [done EXCEPT ![s] = NULL]
    BY <1>7 DEF Begin, BeginReuse, BeginOpen, BeginOpenFails, BeginNoSlot, StartsOn, StartedOn
  <2> QED
    BY <1>1, <1>2, <2>1, <2>2 DEF StopsUnseen
<1>8. ASSUME NEW e \in Endpoints, WaitDrain(e) PROVE StopsUnseen'
  <2>1. slot[e] \in Slots
    BY <1>8 DEF WaitDrain, IInv, WaitersReady, Busy
  <2> DEFINE d == Drained(slot[e], kcomp)
  <2>2. d \in [Slots -> KStatuses \cup {NULL}] /\ \A r \in Slots : d[r] # "CANCELLED"
    BY <1>1 DEF Drained, StopsUnseen
  <2>3. done' = [d EXCEPT ![slot[e]] = NULL] /\ kcomp' = [r \in Slots |-> NULL]
    BY <1>8 DEF WaitDrain
  <2> HIDE DEF d
  <2> QED
    BY <1>2, <2>1, <2>2, <2>3 DEF StopsUnseen
<1>9. ASSUME NEW e \in Endpoints, WaitInterrupted(e) \/ WaitTimeout(e) PROVE StopsUnseen'
  <2>1. slot[e] \in Slots /\ StopAndDrain(slot[e])
    BY <1>9 DEF WaitInterrupted, WaitTimeout, IInv, WaitersReady, Busy
  <2> QED
    BY <2>1, StopUnseen
<1>10. ASSUME NEW e \in Endpoints,
              BeginUnsupported(e) \/ WaitHangup(e) \/ WaitPolled(e) \/ WaitAgain(e) \/ Interrupt(e)
       PROVE  StopsUnseen'
  BY <1>4, <1>10 DEF BeginUnsupported, WaitHangup, WaitPolled, WaitAgain, Interrupt, kernel
<1>11. ASSUME NEW e \in Endpoints, NEW status \in KStatuses, Complete(e, status)
       PROVE  StopsUnseen'
  BY <1>1, <1>11 DEF Complete, IInv, WaitersReady, StopsUnseen
<1> QED
  BY <1>5, <1>6, <1>7, <1>8, <1>9, <1>10, <1>11 DEF Next, Wait

LEMMA NextFlagsCleared == IInv /\ FlagsCleared /\ [Next]_vars => FlagsCleared'
<1> SUFFICES ASSUME IInv, FlagsCleared, [Next]_vars PROVE FlagsCleared'
  OBVIOUS
<1>1. pc \in [Endpoints -> {"idle", "waiting", "polled", "late"}] /\ interrupted \in [Endpoints -> BOOLEAN]
  BY DEF IInv, TypeOK
<1>2. CASE UNCHANGED <<pc, interrupted>>
  BY <1>2 DEF FlagsCleared, Busy
<1>3. ASSUME NEW e \in Endpoints, NEW r, Returns(e, r) PROVE FlagsCleared'
  BY <1>1, <1>3 DEF Returns, FlagsCleared, Busy
<1>4. ASSUME NEW e \in Endpoints, NEW v \in {"waiting", "polled", "late"}, pc' = [pc EXCEPT ![e] = v],
             interrupted' = interrupted
      PROVE  FlagsCleared'
  BY <1>1, <1>4 DEF FlagsCleared, Busy
<1>5. CASE Open \/ Close \/ ControlBegin \/ ControlEnd \/ Unplug \/ Replug \/ UNCHANGED vars
  BY <1>2, <1>5 DEF Open, Close, ControlBegin, ControlEnd, Unplug, Replug, vars, thread
<1>6. ASSUME NEW e \in Endpoints, NEW need \in Lengths, Begin(e, need) PROVE FlagsCleared'
  BY <1>3, <1>4, <1>6
     DEF Begin, BeginReuse, BeginOpen, BeginOpenFails, BeginNoSlot, StartsOn, StartedOn
<1>7. ASSUME NEW e \in Endpoints, BeginUnsupported(e) \/ Wait(e) PROVE FlagsCleared'
  BY <1>3, <1>4, <1>7 DEF BeginUnsupported, Wait, WaitHangup, WaitInterrupted, WaitPolled,
     WaitDrain, WaitAgain, WaitTimeout
<1>8. ASSUME NEW e \in Endpoints, Interrupt(e) PROVE FlagsCleared'
  BY <1>1, <1>8 DEF Interrupt, thread, FlagsCleared, Busy
<1>9. ASSUME NEW e \in Endpoints, NEW status \in KStatuses, Complete(e, status)
      PROVE  FlagsCleared'
  BY <1>2, <1>9 DEF Complete, thread
<1> QED
  BY <1>5, <1>6, <1>7, <1>8, <1>9 DEF Next

\* The calls on other endpoints end as they did.
OthersEnd(e) == \A f \in Endpoints : f # e /\ Busy(f) => Ended(f)' = Ended(f)

\* Storing away whatever is complete, and stopping e's own transfer, leave
\* every other transfer's end as it was.
LEMMA DrainKeepsOthers ==
  ASSUME IInv, NEW e \in Endpoints, Busy(e), NEW comp \in [Slots -> KStatuses \cup {NULL}],
         \A r \in Slots : r # slot[e] => comp[r] = kcomp[r],
         kcomp' = [r \in Slots |-> NULL],
         done' = [Drained(slot[e], comp) EXCEPT ![slot[e]] = NULL],
         \A f \in Endpoints : f # e => slot'[f] = slot[f]
  PROVE  OthersEnd(e)
<1> SUFFICES ASSUME NEW f \in Endpoints, f # e, Busy(f) PROVE Ended(f)' = Ended(f)
  BY DEF OthersEnd
<1>1. slot[f] \in Slots /\ slot[e] \in Slots /\ slot[f] # slot[e]
  BY DEF IInv, WaitersReady, OneSlotEach
<1>2. Drained(slot[e], comp) = [r \in Slots |-> IF comp[r] # NULL THEN comp[r] ELSE done[r]]
  BY DEF Drained
<1>3. done'[slot[f]] = IF comp[slot[f]] # NULL THEN comp[slot[f]] ELSE done[slot[f]]
  BY <1>1, <1>2
<1>4. slot'[f] = slot[f] /\ kcomp'[slot[f]] = NULL /\ comp[slot[f]] = kcomp[slot[f]]
  BY <1>1
<1> QED
  BY <1>3, <1>4 DEF Ended

LEMMA StopKeepsOthers ==
  ASSUME IInv, NEW e \in Endpoints, Busy(e), StopAndDrain(slot[e]),
         \A f \in Endpoints : f # e => slot'[f] = slot[f]
  PROVE  OthersEnd(e)
<1>1. kcomp \in [Slots -> KStatuses \cup {NULL}] /\ slot[e] \in Slots
  BY DEF IInv, TypeOK, WaitersReady
<1>2. CASE plugged
  <2>1. /\ StoppedComp(slot[e]) \in [Slots -> KStatuses \cup {NULL}]
        /\ \A r \in Slots : r # slot[e] => StoppedComp(slot[e])[r] = kcomp[r]
    BY <1>1 DEF StoppedComp, KStatuses
  <2> QED
    BY <1>2, <2>1, DrainKeepsOthers DEF StopAndDrain, TableAfterStop
<1>3. CASE ~plugged
  <2>1. \A f \in Endpoints : f # e /\ Busy(f) => slot[f] \in Slots /\ slot[f] # slot[e]
    BY DEF IInv, WaitersReady, OneSlotEach
  <2>2. kcomp' = kcomp /\ done' = [done EXCEPT ![slot[e]] = NULL]
    BY <1>3 DEF StopAndDrain, TableAfterStop
  <2> QED
    BY <1>1, <2>1, <2>2 DEF OthersEnd, Ended, IInv, TypeOK
<1> QED
  BY <1>2, <1>3

\* A thread that returns leaves the mapped state as SyncSubmit's Return does.
LEMMA ReturnsMaps ==
  ASSUME IInv, NEW e \in Endpoints, Busy(e), NEW r, Returns(e, r), OthersEnd(e),
         UNCHANGED plugged
  PROVE  Submits!Return(e, r)
<1>1. /\ pc \in [Endpoints -> {"idle", "waiting", "polled", "late"}]
      /\ timed \in [Endpoints -> BOOLEAN] /\ interrupted \in [Endpoints -> BOOLEAN]
      /\ ret \in [Endpoints -> Results]
  BY DEF IInv, TypeOK
<1>2. Running' = [Running EXCEPT ![e] = FALSE]
  BY <1>1 DEF Returns, Running, Busy
<1>3. Limited' = [Limited EXCEPT ![e] = FALSE]
  BY <1>1 DEF Returns, Limited, Busy
<1>4. Cancelled' = [Cancelled EXCEPT ![e] = FALSE]
  BY <1>1 DEF Returns, Cancelled, Busy
<1>5. Outcome' = [Outcome EXCEPT ![e] = NULL]
  BY <1>1 DEF Returns, Outcome, Busy, OthersEnd
<1>6. ret' = [ret EXCEPT ![e] = r]
  BY DEF Returns
<1>7. Running[e]
  BY DEF Running
<1> QED
  BY <1>2, <1>3, <1>4, <1>5, <1>6, <1>7
     DEF Submits!Return, Running, Limited, Cancelled, Outcome

LEMMA AnswerMaps ==
  ASSUME IInv, NEW e \in Endpoints, Busy(e), NEW r, Returns(e, r), OthersEnd(e),
         UNCHANGED plugged, Ended(e) \in DOMAIN Submits!Answer,
         r = Submits!Answer[Ended(e)]
  PROVE  Submits!ReturnAnswer(e)
<1>1. Submits!Return(e, r)
  BY ReturnsMaps
<1>2. Outcome[e] = Ended(e)
  BY DEF Outcome
<1>3. r = Submits!Answer[Outcome[e]]
  BY <1>2
<1> QED
  BY <1>1, <1>2, <1>3 DEF Submits!ReturnAnswer, Submits!Return, Outcome

\* What does not show: no thread starts or returns, and transfers end as before.
LEMMA Unseen ==
  ASSUME UNCHANGED <<timed, interrupted, ret, plugged>>,
         \A e \in Endpoints : Busy(e)' = Busy(e),
         \A e \in Endpoints : Busy(e) => Ended(e)' = Ended(e)
  PROVE  UNCHANGED Submits!vars
<1>1. Running' = Running /\ Limited' = Limited /\ Cancelled' = Cancelled
  BY DEF Running, Limited, Cancelled
<1>2. Outcome' = Outcome
  BY DEF Outcome
<1> QED
  BY <1>1, <1>2 DEF Submits!vars, Running, Limited, Cancelled, Outcome

\* A call that is refused, or loses its slot in the attempt, starts nothing.
LEMMA RefusalMaps ==
  ASSUME IInv, NEW e \in Endpoints, ~Busy(e), NEW r \in Submits!Refusals \cup {"NO_DEVICE"},
         r = "NO_DEVICE" => ~plugged, Returns(e, r), OthersEnd(e), UNCHANGED plugged
  PROVE  Submits!Refuse(e)
<1>1. /\ pc \in [Endpoints -> {"idle", "waiting", "polled", "late"}] /\ pc[e] = "idle"
      /\ timed \in [Endpoints -> BOOLEAN] /\ interrupted \in [Endpoints -> BOOLEAN]
  BY DEF IInv, TypeOK, Busy
<1>2. pc' = pc
  BY <1>1 DEF Returns
<1>3. Running' = Running
  BY <1>2 DEF Running, Busy
<1>4. Limited' = Limited /\ Cancelled' = Cancelled
  BY <1>1, <1>2 DEF Returns, Limited, Cancelled, Busy
<1>5. Outcome' = Outcome
  BY <1>1, <1>2 DEF Outcome, Busy, OthersEnd
<1>6. ret' = [ret EXCEPT ![e] = r] /\ ~Running[e]
  BY DEF Returns, Running
<1> QED
  BY <1>3, <1>4, <1>5, <1>6 DEF Submits!Refuse, Running, Limited, Cancelled, Outcome

LEMMA StartMaps ==
  ASSUME IInv, NEW e \in Endpoints, ~Busy(e), ~interrupted[e], plugged, NEW s \in Slots,
         StartedOn(e, s), kcomp'[s] = NULL, OthersEnd(e), UNCHANGED plugged
  PROVE  Submits!Submit(e)
<1>1. /\ pc \in [Endpoints -> {"idle", "waiting", "polled", "late"}] /\ pc[e] = "idle"
      /\ slot \in [Endpoints -> Slots \cup {NULL}]
      /\ timed \in [Endpoints -> BOOLEAN] /\ interrupted \in [Endpoints -> BOOLEAN]
      /\ done \in [Slots -> KStatuses \cup {NULL}]
  BY DEF IInv, TypeOK, Busy
<1>2. pc' = [pc EXCEPT ![e] = "waiting"] /\ interrupted' = interrupted
  BY DEF StartedOn
<1>3. Running' = [Running EXCEPT ![e] = TRUE]
  BY <1>1, <1>2 DEF Running, Busy
<1>4. PICK timeout \in BOOLEAN : timed' = [timed EXCEPT ![e] = timeout]
  BY DEF StartedOn
<1>5. Limited' = [Limited EXCEPT ![e] = timeout]
  BY <1>1, <1>2, <1>4 DEF Limited, Busy
<1>6. Cancelled' = Cancelled
  BY <1>1, <1>2 DEF Cancelled, Busy
<1>7. Ended(e)' = NULL
  BY <1>1 DEF StartedOn, Ended
<1>8. Outcome' = Outcome
  BY <1>1, <1>2, <1>7 DEF Outcome, Busy, OthersEnd
<1>9. ret' = [ret EXCEPT ![e] = "OK"] /\ ~Running[e]
  BY DEF StartedOn, Running
<1> QED
  BY <1>3, <1>5, <1>6, <1>8, <1>9 DEF Submits!Submit, Running, Limited, Cancelled, Outcome

\* Beginning a call does not touch the slots of the others.
LEMMA BeginMaps ==
  ASSUME SubmitInv, NEW e \in Endpoints, NEW need \in Lengths, Begin(e, need)
  PROVE  Submits!Submit(e) \/ Submits!Refuse(e)
<1>1. IInv /\ ~Busy(e) /\ ~interrupted[e] /\ UNCHANGED plugged
  BY DEF SubmitInv, FlagsCleared, Busy, Begin, BeginReuse, BeginOpen, BeginOpenFails,
         BeginNoSlot, CanBegin, table
<1>2. /\ slot \in [Endpoints -> Slots \cup {NULL}]
      /\ done \in [Slots -> KStatuses \cup {NULL}] /\ kcomp \in [Slots -> KStatuses \cup {NULL}]
  BY <1>1 DEF IInv, TypeOK
<1>3. \A f \in Endpoints : f # e => slot'[f] = slot[f]
  BY <1>2 DEF Begin, BeginReuse, BeginOpen, BeginOpenFails, BeginNoSlot, StartsOn, StartedOn,
              Returns
<1>4. ASSUME NEW s \in Slots, ep_no[s] = e \/ ep_no[s] = NULL,
             \A r \in Slots : r # s => kcomp'[r] = kcomp[r],
             \A r \in Slots : r # s => done'[r] = done[r]
      PROVE  OthersEnd(e)
  <2>1. \A f \in Endpoints : f # e /\ Busy(f) => slot[f] \in Slots /\ slot[f] # s
    BY <1>1, <1>4, NullIsNew DEF IInv, WaitersReady, OneSlotEach
  <2> QED
    BY <1>3, <1>4, <2>1 DEF OthersEnd, Ended
<1>5. ASSUME NEW s \in Slots, OthersEnd(e), kcomp'[s] = NULL, NEW acceptable,
             StartsOn(e, s, acceptable)
      PROVE  Submits!Submit(e) \/ Submits!Refuse(e)
  <2>1. CASE plugged /\ StartedOn(e, s)
    BY <1>1, <1>5, <2>1, StartMaps
  <2>2. CASE Returns(e, IF plugged THEN "OTHER" ELSE "NO_DEVICE")
    BY <1>1, <1>5, <2>2, RefusalMaps DEF Submits!Refusals
  <2> QED
    BY <1>5, <2>1, <2>2 DEF StartsOn
<1>6. CASE BeginReuse(e, need)
  <2>1. PICK s \in Slots :
          Reuses(e, s, need) /\ StartsOn(e, s, ~kbusy[s] /\ need <= ksize[s])
    BY <1>6 DEF BeginReuse
  <2>2. ep_no[s] = e /\ kcomp' = kcomp
    BY <1>6, <2>1 DEF Reuses, BeginReuse
  <2>3. \A r \in Slots : r # s => done'[r] = done[r]
    BY <1>2, <2>1 DEF StartsOn, StartedOn
  <2>4. OthersEnd(e)
    BY <1>4, <2>2, <2>3
  <2>5. kcomp[s] = NULL
    <3>1. ~Waited(s)
      BY <1>1, <2>2 DEF Waited, IInv, OneSlotEach
    <3> QED
      BY <1>1, <1>6, <3>1 DEF IInv, SlotIdle, KernelEmpty, BeginReuse, CanBegin
  <2> QED
    BY <1>5, <2>1, <2>2, <2>4, <2>5
<1>7. CASE BeginOpen(e, need)
  <2>1. PICK s \in Slots, size \in Granted(need) :
          /\ Opens(e, s, need)
          /\ kcomp' = [kcomp EXCEPT ![s] = NULL]
          /\ StartsOn(e, s, need <= size)
    BY <1>7 DEF BeginOpen
  <2>2. ep_no[s] = e \/ ep_no[s] = NULL
    BY <2>1 DEF Opens
  <2>3. \A r \in Slots : r # s => done'[r] = done[r] /\ kcomp'[r] = kcomp[r]
    BY <1>2, <2>1 DEF StartsOn, StartedOn
  <2>4. OthersEnd(e) /\ kcomp'[s] = NULL
    BY <1>2, <1>4, <2>1, <2>2, <2>3
  <2> QED
    BY <1>5, <2>1, <2>4
<1>8. CASE BeginOpenFails(e, need)
  <2>1. PICK s \in Slots :
          /\ Opens(e, s, need)
          /\ IF ep_no[s] = e /\ plugged THEN KClosed({s}) ELSE UNCHANGED kernel
    BY <1>8 DEF BeginOpenFails
  <2>2. ep_no[s] = e \/ ep_no[s] = NULL
    BY <2>1 DEF Opens
  <2>3. \A r \in Slots : r # s => done'[r] = done[r] /\ kcomp'[r] = kcomp[r]
    BY <1>2, <1>8, <2>1 DEF BeginOpenFails, KClosed, kernel
  <2>4. OthersEnd(e)
    BY <1>4, <2>2, <2>3
  <2> QED
    BY <1>1, <1>8, <2>4, RefusalMaps DEF BeginOpenFails, Submits!Refusals
<1>9. CASE BeginNoSlot(e, need)
  <2>1. OthersEnd(e)
    BY <1>3, <1>9 DEF BeginNoSlot, kernel, OthersEnd, Ended
  <2> QED
    BY <1>1, <1>9, <2>1, RefusalMaps DEF BeginNoSlot, Submits!Refusals
<1> QED
  BY <1>6, <1>7, <1>8, <1>9 DEF Begin

\* Each way out of the wait loop is one of SyncSubmit's returns.
LEMMA WaitMaps ==
  ASSUME SubmitInv, NEW e \in Endpoints, Wait(e)
  PROVE  Submits!Next \/ UNCHANGED Submits!vars
<1>1. IInv /\ Busy(e) /\ UNCHANGED plugged
  BY DEF SubmitInv, Busy, Wait, WaitHangup, WaitInterrupted, WaitPolled, WaitDrain, WaitAgain, WaitTimeout
<1>2. /\ pc \in [Endpoints -> {"idle", "waiting", "polled", "late"}]
      /\ slot \in [Endpoints -> Slots \cup {NULL}] /\ slot[e] \in Slots
      /\ timed \in [Endpoints -> BOOLEAN] /\ interrupted \in [Endpoints -> BOOLEAN]
      /\ done \in [Slots -> KStatuses \cup {NULL}] /\ kcomp \in [Slots -> KStatuses \cup {NULL}]
  BY <1>1 DEF IInv, TypeOK, WaitersReady
<1>3. \A f \in Endpoints : f # e => slot'[f] = slot[f]
  BY <1>2 DEF Wait, WaitHangup, WaitInterrupted, WaitPolled, WaitDrain, WaitAgain, WaitTimeout, Returns
<1>4. /\ Running[e] = Busy(e) /\ Limited[e] = timed[e] /\ Cancelled[e] = interrupted[e]
      /\ Outcome[e] = Ended(e)
  BY <1>1, <1>2 DEF Running, Limited, Cancelled, Outcome
<1>5. Ended(e) # NULL => Ended(e) \in DOMAIN Submits!Answer
  BY <1>2 DEF Ended, SubmitInv, StopsUnseen, KStatuses, Submits!Answer
<1>6. CASE WaitHangup(e)
  <2>1. OthersEnd(e)
    BY <1>3, <1>6 DEF WaitHangup, kernel, OthersEnd, Ended
  <2> QED
    BY <1>1, <1>6, <2>1, ReturnsMaps DEF WaitHangup, Submits!ReturnNoDevice, Submits!Next
<1>7. CASE WaitInterrupted(e)
  <2>1. OthersEnd(e)
    BY <1>1, <1>3, <1>7, StopKeepsOthers DEF WaitInterrupted
  <2>2. TableAfterStop(slot[e])[slot[e]] = "OK" <=> Ended(e) = "OK"
    <3>1. CASE kbusy[slot[e]]
      <4>1. Ended(e) = NULL /\ plugged
        BY <1>1, <1>2, <3>1 DEF IInv, CompletionNotLost, KernelEmpty, Ended
      <4>2. TableAfterStop(slot[e])[slot[e]] = "CANCELLED"
        BY <1>2, <3>1, <4>1, NullIsNew DEF TableAfterStop, StoppedComp, Drained, KStatuses
      <4> QED
        BY <4>1, <4>2, NullIsNew DEF KStatuses
    <3>2. CASE ~kbusy[slot[e]]
      <4>1. ~plugged => kcomp[slot[e]] = NULL
        BY <1>1, <1>2 DEF IInv, KernelEmpty
      <4> QED
        BY <1>2, <3>2, <4>1 DEF TableAfterStop, StoppedComp, Drained, Ended
    <3> QED
      BY <3>1, <3>2
  <2>3. CASE Ended(e) = "OK"
    <3>1. Returns(e, "OK")
      BY <1>7, <2>2, <2>3 DEF WaitInterrupted
    <3>2. Ended(e) \in DOMAIN Submits!Answer /\ "OK" = Submits!Answer[Ended(e)]
      BY <2>3 DEF Submits!Answer
    <3>3. Submits!ReturnAnswer(e)
      BY <1>1, <2>1, <2>3, <3>1, <3>2, AnswerMaps
    <3> QED
      BY <3>3 DEF Submits!Next
  <2>4. CASE Ended(e) # "OK"
    <3>1. Returns(e, "INTERRUPTED") /\ interrupted[e]
      BY <1>7, <2>2, <2>4 DEF WaitInterrupted
    <3>2. Submits!Return(e, "INTERRUPTED")
      BY <1>1, <2>1, <3>1, ReturnsMaps
    <3> QED
      BY <1>4, <2>4, <3>1, <3>2 DEF Submits!ReturnInterrupted, Submits!Next, Outcome, Cancelled
  <2> QED
    BY <2>3, <2>4
<1>8. CASE WaitDrain(e)
  <2>1. OthersEnd(e)
    BY <1>1, <1>2, <1>3, <1>8, DrainKeepsOthers DEF WaitDrain
  <2>2. Drained(slot[e], kcomp)[slot[e]] = Ended(e)
    BY <1>2 DEF Drained, Ended
  <2>3. CASE Ended(e) # NULL
    <3>1. Returns(e, Translate(Ended(e)))
      BY <1>8, <2>2, <2>3 DEF WaitDrain
    <3>2. Translate(Ended(e)) = Submits!Answer[Ended(e)]
      BY <1>5, <2>3 DEF Translate, Submits!Answer
    <3>3. Submits!ReturnAnswer(e)
      BY <1>1, <1>5, <2>1, <2>3, <3>1, <3>2, AnswerMaps
    <3> QED
      BY <3>3 DEF Submits!Next
  <2>4. CASE Ended(e) = NULL
    <3>1. /\ pc' = [pc EXCEPT ![e] = "late"]
          /\ UNCHANGED <<slot, timed, ret, interrupted>>
      BY <1>8, <2>2, <2>4 DEF WaitDrain
    <3>2. kcomp' = [r \in Slots |-> NULL] /\ done'[slot[e]] = NULL
      BY <1>2, <1>8 DEF WaitDrain, Drained
    <3>3. Ended(e)' = Ended(e)
      BY <1>2, <2>4, <3>1, <3>2 DEF Ended
    <3>4. \A f \in Endpoints : Busy(f)' = Busy(f)
      BY <1>1, <1>2, <3>1 DEF Busy
    <3> QED
      BY <1>1, <2>1, <3>1, <3>3, <3>4, Unseen DEF OthersEnd
  <2> QED
    BY <2>3, <2>4
<1>9. CASE WaitPolled(e) \/ WaitAgain(e)
  <2>1. \A f \in Endpoints : Busy(f)' = Busy(f) /\ Ended(f)' = Ended(f)
    BY <1>2, <1>9 DEF WaitPolled, WaitAgain, kernel, Busy, Ended
  <2> QED
    BY <1>9, <2>1, Unseen DEF WaitPolled, WaitAgain
<1>10. CASE WaitTimeout(e)
  <2>1. OthersEnd(e)
    BY <1>1, <1>3, <1>10, StopKeepsOthers DEF WaitTimeout
  <2>2. Submits!Return(e, "TIMEOUT") /\ timed[e]
    BY <1>1, <1>10, <2>1, ReturnsMaps DEF WaitTimeout
  <2> QED
    BY <1>4, <2>2 DEF Submits!ReturnTimeout, Submits!Next, Limited
<1> QED
  BY <1>6, <1>7, <1>8, <1>9, <1>10 DEF Wait

LEMMA CompleteMaps ==
  ASSUME SubmitInv, NEW e \in Endpoints, NEW status \in KStatuses, Complete(e, status)
  PROVE  Submits!Finish(e)
<1>1. IInv /\ Busy(e) /\ UNCHANGED <<thread, interrupted, plugged>>
  BY DEF SubmitInv, Complete
<1>2. /\ slot[e] \in Slots /\ kcomp \in [Slots -> KStatuses \cup {NULL}]
      /\ timed \in [Endpoints -> BOOLEAN]
  BY <1>1 DEF IInv, TypeOK, WaitersReady
<1>3. plugged /\ Ended(e) = NULL
  BY <1>1, <1>2 DEF IInv, KernelEmpty, CompletionNotLost, Ended, Complete
<1>4. status \in DOMAIN Submits!Answer /\ (status = "TIMEOUT" => timed[e])
  BY DEF Complete, KStatuses, Submits!Answer
<1>5. Ended(e)' = status
  BY <1>1, <1>2, NullIsNew DEF Complete, Ended, thread
<1>6. \A f \in Endpoints : f # e /\ Busy(f) => Ended(f)' = Ended(f)
  <2>1. \A f \in Endpoints : f # e /\ Busy(f) => slot[f] \in Slots /\ slot[f] # slot[e]
    BY <1>1 DEF IInv, WaitersReady, OneSlotEach
  <2> QED
    BY <1>1, <1>2, <2>1 DEF Complete, Ended, thread
<1>7. Running' = Running /\ Limited' = Limited /\ Cancelled' = Cancelled
  BY <1>1 DEF thread, Running, Limited, Cancelled, Busy
<1>8. Outcome' = [Outcome EXCEPT ![e] = status]
  BY <1>1, <1>5, <1>6 DEF thread, Outcome, Busy
<1>9. Running[e] /\ Limited[e] = timed[e] /\ Outcome[e] = NULL
  BY <1>1, <1>2, <1>3 DEF Running, Limited, Outcome
<1> QED
  BY <1>1, <1>3, <1>4, <1>7, <1>8, <1>9
     DEF Submits!Finish, thread, Running, Limited, Cancelled, Outcome

LEMMA InterruptMaps ==
  ASSUME SubmitInv, NEW e \in Endpoints, Interrupt(e)
  PROVE  Submits!Cancel(e)
<1>1. interrupted \in [Endpoints -> BOOLEAN]
  BY DEF SubmitInv, IInv, TypeOK
<1>2. Running' = Running /\ Limited' = Limited /\ Outcome' = Outcome
  BY DEF Interrupt, thread, kernel, Running, Limited, Outcome, Busy, Ended
<1>3. Cancelled' = [Cancelled EXCEPT ![e] = TRUE]
  BY <1>1 DEF Interrupt, thread, Cancelled, Busy
<1>4. Running[e] /\ ~Cancelled[e]
  BY DEF Interrupt, Running, Cancelled
<1> QED
  BY <1>2, <1>3, <1>4 DEF Interrupt, thread, Submits!Cancel, Running, Limited, Cancelled, Outcome

\* Completions the kernel still has go with the device; those in the table stay.
LEMMA UnplugMaps ==
  ASSUME SubmitInv, Unplug
  PROVE  Submits!Leave
<1>1. UNCHANGED <<thread, interrupted, done>> /\ \A s \in Slots : kcomp'[s] = NULL
  BY DEF Unplug, KClosed
<1>2. Running' = Running /\ Limited' = Limited /\ Cancelled' = Cancelled
  BY <1>1 DEF thread, Running, Limited, Cancelled, Busy
<1> DEFINE lost == {e \in Endpoints : Busy(e) /\ kcomp[slot[e]] # NULL}
<1>3. ASSUME NEW e \in Endpoints, Busy(e) PROVE Ended(e)' = IF e \in lost THEN NULL ELSE Ended(e)
  <2>1. slot[e] \in Slots /\ slot'[e] = slot[e]
    BY <1>1, <1>3 DEF thread, SubmitInv, IInv, WaitersReady
  <2>2. kcomp[slot[e]] # NULL => done[slot[e]] = NULL
    BY <1>3 DEF SubmitInv, IInv, CompletionNotLost, Unplug
  <2> QED
    BY <1>1, <1>3, <2>1, <2>2 DEF Ended
<1>4. Outcome' = [e \in Endpoints |-> IF e \in lost THEN NULL ELSE Outcome[e]]
  BY <1>1, <1>3 DEF thread, Outcome, Busy
<1>5. lost \in SUBSET Endpoints
  OBVIOUS
<1> HIDE DEF lost
<1> QED
  BY <1>1, <1>2, <1>4, <1>5
     DEF Unplug, thread, Submits!Leave, Running, Limited, Cancelled, Outcome

LEMMA HandleMaps ==
  ASSUME SubmitInv, Open \/ Close \/ ControlBegin \/ ControlEnd
  PROVE  UNCHANGED Submits!vars
<1>1. UNCHANGED <<pc, slot, timed, ret, interrupted, plugged>>
  BY DEF Open, Close, ControlBegin, ControlEnd, thread
<1>2. \A e \in Endpoints : Busy(e)' = Busy(e)
  BY <1>1 DEF Busy
<1>3. CASE Open \/ Close
  BY <1>1, <1>2, <1>3, Unseen DEF Open, Close, AllIdle, SubmitInv, IInv, WaitersReady
<1>4. CASE ControlBegin \/ ControlEnd
  <2>1. UNCHANGED <<kcomp, done>>
    BY <1>4 DEF ControlBegin, ControlEnd, kernel
  <2> QED
    BY <1>1, <1>2, <2>1, Unseen DEF Ended
<1> QED
  BY <1>3, <1>4

LEMMA ReplugMaps ==
  ASSUME SubmitInv, Replug
  PROVE  Submits!Arrive
<1>1. \A e \in Endpoints : ~Busy(e) /\ ~Busy(e)'
  BY DEF Replug, thread, Busy, SubmitInv, IInv, WaitersReady
<1>2. Running' = Running /\ Limited' = Limited /\ Cancelled' = Cancelled
  BY DEF Replug, thread, Running, Limited, Cancelled, Busy
<1>3. Outcome' = Outcome
  BY <1>1 DEF Outcome
<1>4. \A e \in Endpoints : ~Running[e]
  BY <1>1 DEF Running
<1> QED
  BY <1>2, <1>3, <1>4 DEF Replug, thread, Submits!Arrive, Running, Limited, Cancelled, Outcome

LEMMA UnsupportedMaps ==
  ASSUME SubmitInv, NEW e \in Endpoints, BeginUnsupported(e)
  PROVE  Submits!Refuse(e)
<1>1. ~Busy(e) /\ Returns(e, "NOT_SUPPORTED") /\ UNCHANGED <<kcomp, done, plugged>>
  BY DEF BeginUnsupported, Busy, kernel
<1>2. \A f \in Endpoints : f # e => slot'[f] = slot[f]
  BY DEF SubmitInv, IInv, TypeOK, BeginUnsupported, Returns
<1>3. OthersEnd(e)
  BY <1>1, <1>2 DEF OthersEnd, Ended
<1> QED
  BY <1>1, <1>3, RefusalMaps DEF SubmitInv, Submits!Refusals

LEMMA StepMaps == SubmitInv /\ [Next]_vars => [Submits!Next]_(Submits!vars)
<1> SUFFICES ASSUME SubmitInv, [Next]_vars PROVE Submits!Next \/ UNCHANGED Submits!vars
  OBVIOUS
<1>1. CASE Open \/ Close \/ ControlBegin \/ ControlEnd
  BY <1>1, HandleMaps
<1>2. CASE Unplug \/ Replug
  BY <1>2, UnplugMaps, ReplugMaps DEF Submits!Next
<1>3. ASSUME NEW e \in Endpoints, NEW need \in Lengths, Begin(e, need)
      PROVE  Submits!Next
  BY <1>3, BeginMaps DEF Submits!Next
<1>4. ASSUME NEW e \in Endpoints, BeginUnsupported(e) \/ Interrupt(e)
      PROVE  Submits!Next
  BY <1>4, UnsupportedMaps, InterruptMaps DEF Submits!Next
<1>5. ASSUME NEW e \in Endpoints, NEW status \in KStatuses, Complete(e, status)
      PROVE  Submits!Next
  BY <1>5, CompleteMaps DEF Submits!Next
<1>6. CASE UNCHANGED vars
  <2>1. \A e \in Endpoints : Busy(e)' = Busy(e) /\ Ended(e)' = Ended(e)
    BY <1>6 DEF vars, thread, kernel, Busy, Ended
  <2> QED
    BY <1>6, <2>1, Unseen DEF vars, thread
<1> QED
  BY <1>1, <1>2, <1>3, <1>4, <1>5, <1>6, WaitMaps DEF Next

LEMMA InitMaps == Init => Submits!Init /\ FlagsCleared
  BY DEF Init, Submits!Init, Busy, FlagsCleared

\* Whatever slots, drains and stops there are, a call of _sync_gen_transfer is
\* to its endpoint what SyncSubmit says: it answers for its own transfer, and
\* the calls on other endpoints neither end it nor take its answer.
THEOREM CallsImplementSubmit == Spec => ImplementsSubmit
<1>1. Init => SubmitInv /\ Submits!Init
  BY InitIInv, InitStopsUnseen, InitMaps DEF SubmitInv
<1>2. SubmitInv /\ [Next]_vars => SubmitInv'
  BY NextStep, NextStopsUnseen, NextFlagsCleared DEF SubmitInv
<1> QED
  BY <1>1, <1>2, StepMaps, PTL DEF Spec, ImplementsSubmit, Submits!Spec

=============================================================================
