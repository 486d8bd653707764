-------------------------- MODULE TransferService --------------------------
(***************************************************************************)
(* What the asynchronous queue promises its clients, without its threads,  *)
(* lock and signals: each endpoint takes its transfers in the order they   *)
(* were submitted, one at a time; every accepted submission is reported    *)
(* once; one is reported as cancelled only if its cancel was accepted; and *)
(* an accepted cancel takes a waiting transfer out at once.                *)
(***************************************************************************)
EXTENDS Integers, Sequences, SequencesExt

CONSTANTS Transfers, Queues, EndpointsOf, Statuses, NULL

VARIABLES
  pending,   \* [Queues -> Seq(Transfers)]: accepted, the head may be under way
  done,      \* Seq([it, status]): reported, not yet handled
  handling,  \* the report the event thread handles, or NULL
  asked      \* accepted cancels of transfers not yet given back

vars == <<pending, done, handling, asked>>

Held ==
  (UNION {ToSet(pending[q]) : q \in Queues})
    \cup {done[i].it : i \in DOMAIN done}
    \cup {t \in Transfers : handling # NULL /\ handling.it = t}

Init ==
  /\ pending = [q \in Queues |-> <<>>]
  /\ done = <<>>
  /\ handling = NULL
  /\ asked = {}

Report(t, status) == done' = Append(done, [it |-> t, status |-> status])

Submit(q, t) ==
  /\ t \notin Held
  /\ q \in EndpointsOf[t]
  /\ pending' = [pending EXCEPT ![q] = Append(@, t)]
  /\ UNCHANGED <<done, handling, asked>>

\* A control transfer is over when its submission returns.
SubmitSync(t) ==
  /\ t \notin Held
  /\ EndpointsOf[t] = {}
  /\ Report(t, "COMPLETED")
  /\ UNCHANGED <<pending, handling, asked>>

\* The transfer at the head ends, in any way but an unasked cancel.
Finish(q) ==
  /\ pending[q] # <<>>
  /\ \E status \in Statuses :
       /\ status = "CANCELLED" => Head(pending[q]) \in asked
       /\ Report(Head(pending[q]), status)
  /\ pending' = [pending EXCEPT ![q] = Tail(@)]
  /\ UNCHANGED <<handling, asked>>

\* A waiting transfer is taken out of its place in the line.
CancelWaiting(q, t) ==
  /\ \E i \in DOMAIN pending[q] :
       /\ pending[q][i] = t
       /\ pending' = [pending EXCEPT ![q] = RemoveAt(@, i)]
  /\ Report(t, "CANCELLED")
  /\ asked' = asked \cup {t}
  /\ UNCHANGED handling

\* For the transfer under way, or one just over, the cancel is a request.
RequestCancel(t) ==
  /\ t \in Held
  /\ \A q \in Queues : Contains(pending[q], t) => Head(pending[q]) = t
  /\ asked' = asked \cup {t}
  /\ UNCHANGED <<pending, done, handling>>

Take ==
  /\ handling = NULL
  /\ done # <<>>
  /\ handling' = Head(done)
  /\ done' = Tail(done)
  /\ UNCHANGED <<pending, asked>>

GiveBack ==
  /\ handling # NULL
  /\ handling' = NULL
  /\ asked' = asked \ {handling.it}
  /\ UNCHANGED <<pending, done>>

Next ==
  \/ \E q \in Queues, t \in Transfers : Submit(q, t) \/ CancelWaiting(q, t)
  \/ \E t \in Transfers : SubmitSync(t) \/ RequestCancel(t)
  \/ \E q \in Queues : Finish(q)
  \/ Take
  \/ GiveBack

Spec == Init /\ [][Next]_vars

=============================================================================
