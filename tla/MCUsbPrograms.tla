--------------------------- MODULE MCUsbPrograms ---------------------------
(* The instance of UsbPrograms that TLC checks. *)
EXTENDS UsbPrograms

CONSTANTS n1, n2, d1, d2, o1, o2

\* A device without a pair of bulk endpoints in its first configuration, and
\* one with two interfaces.
SomeInterfaces ==
  [dc \in Devices \X Configs |-> IF dc[1] = d1 THEN {{"in"}} ELSE {{"out"}, {"in", "out"}}]

============================================================================
