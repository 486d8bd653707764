----------------------------- MODULE SyncSubmit -----------------------------
(***************************************************************************)
(* What SDK_AQ_SYNC_SUBMIT promises the asynchronous queue for a bulk or   *)
(* interrupt transfer, without slots, completion queue and lock: a call on *)
(* each endpoint at a time, whose result tells how its own transfer ended, *)
(* whatever the calls on the other endpoints do meanwhile.  INTERRUPTED is *)
(* an answer to a cancel, and only when there is no data to return; a call *)
(* told to stop when it is about to return answers for its transfer.  Only *)
(* the way out by timeout lets a success go unreported.                    *)
(***************************************************************************)

CONSTANTS Endpoints, NULL

VARIABLES
  running,   \* [Endpoints -> BOOLEAN]: the call has started its transfer
  limited,   \* [Endpoints -> BOOLEAN]: the transfer has a timeout
  cancelled, \* [Endpoints -> BOOLEAN]: the call was told to stop
  outcome,   \* [Endpoints -> how the transfer ended, or NULL]
  result,    \* [Endpoints -> what the last call returned]
  present    \* the device is there

vars == <<running, limited, cancelled, outcome, result, present>>

\* How the device or the host controller ends a transfer, and the answer.
Answer ==
  [OK |-> "OK", TIMEOUT |-> "TIMEOUT", STALLED |-> "PIPE", IOERROR |-> "IO"]

Refusals == {"NOT_SUPPORTED", "NO_MEM", "OTHER"}

Init ==
  /\ running = [e \in Endpoints |-> FALSE]
  /\ limited = [e \in Endpoints |-> FALSE]
  /\ cancelled = [e \in Endpoints |-> FALSE]
  /\ outcome = [e \in Endpoints |-> NULL]
  /\ result = [e \in Endpoints |-> "OK"]
  /\ present = TRUE

Submit(e) ==
  /\ ~running[e]
  /\ present
  /\ running' = [running EXCEPT ![e] = TRUE]
  /\ \E timeout \in BOOLEAN : limited' = [limited EXCEPT ![e] = timeout]
  /\ result' = [result EXCEPT ![e] = "OK"]
  /\ UNCHANGED <<cancelled, outcome, present>>

\* The transfer is not started.
Refuse(e) ==
  /\ ~running[e]
  /\ \E r \in Refusals \cup {"NO_DEVICE"} :
       /\ r = "NO_DEVICE" => ~present
       /\ result' = [result EXCEPT ![e] = r]
  /\ UNCHANGED <<running, limited, cancelled, outcome, present>>

\* A transfer ends once, and only one with a timeout ends by it.
Finish(e) ==
  /\ running[e]
  /\ present
  /\ outcome[e] = NULL
  /\ \E status \in DOMAIN Answer :
       /\ status = "TIMEOUT" => limited[e]
       /\ outcome' = [outcome EXCEPT ![e] = status]
  /\ UNCHANGED <<running, limited, cancelled, result, present>>

Cancel(e) ==
  /\ running[e]
  /\ ~cancelled[e]
  /\ cancelled' = [cancelled EXCEPT ![e] = TRUE]
  /\ UNCHANGED <<running, limited, outcome, result, present>>

Return(e, r) ==
  /\ running[e]
  /\ running' = [running EXCEPT ![e] = FALSE]
  /\ limited' = [limited EXCEPT ![e] = FALSE]
  /\ cancelled' = [cancelled EXCEPT ![e] = FALSE]
  /\ outcome' = [outcome EXCEPT ![e] = NULL]
  /\ result' = [result EXCEPT ![e] = r]
  /\ UNCHANGED present

\* The call returns how its transfer ended ...
ReturnAnswer(e) ==
  /\ outcome[e] \in DOMAIN Answer
  /\ Return(e, Answer[outcome[e]])

\* ... or is told to stop and has no data ...
ReturnInterrupted(e) ==
  /\ cancelled[e]
  /\ outcome[e] # "OK"
  /\ Return(e, "INTERRUPTED")

\* ... or gives up on the transfer, or has lost the device.
ReturnTimeout(e) == limited[e] /\ Return(e, "TIMEOUT")

ReturnNoDevice(e) == ~present /\ Return(e, "NO_DEVICE")

\* What had ended and was not yet reported may go with the device.
Leave ==
  /\ present
  /\ present' = FALSE
  /\ \E lost \in SUBSET Endpoints :
       outcome' = [e \in Endpoints |-> IF e \in lost THEN NULL ELSE outcome[e]]
  /\ UNCHANGED <<running, limited, cancelled, result>>

\* A device comes back when the calls on its old handle are over.
Arrive ==
  /\ ~present
  /\ \A e \in Endpoints : ~running[e]
  /\ present' = TRUE
  /\ UNCHANGED <<running, limited, cancelled, outcome, result>>

Next ==
  \/ \E e \in Endpoints :
       \/ Submit(e)
       \/ Refuse(e)
       \/ Finish(e)
       \/ Cancel(e)
       \/ ReturnAnswer(e)
       \/ ReturnInterrupted(e)
       \/ ReturnTimeout(e)
       \/ ReturnNoDevice(e)
  \/ Leave
  \/ Arrive

Spec == Init /\ [][Next]_vars

=============================================================================
