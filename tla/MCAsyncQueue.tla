--------------------------- MODULE MCAsyncQueue ---------------------------
(* The instances of AsyncQueue that TLC checks. *)
EXTENDS AsyncQueue

CONSTANTS t1, t2, t3, c1, q1, q2

\* Three transfers of one endpoint: an unlink in the middle of the list.
OneEndpoint == (t1 :> {q1}) @@ (t2 :> {q1}) @@ (t3 :> {q1})

\* Two transfers of one endpoint beside a control transfer.
WithControl == (t1 :> {q1}) @@ (t2 :> {q1}) @@ (c1 :> {})

\* A transfer on each of two endpoints.
TwoEndpoints == (t1 :> {q1}) @@ (t2 :> {q2})

\* A transfer structure that is filled again for another endpoint.
Refilled == (t1 :> {q1, q2}) @@ (t2 :> {q2})

===========================================================================
