---------------------------- MODULE MCTermuxShim ----------------------------
(***************************************************************************)
(* An instance of TermuxShim: two devices, in one port or on two buses.    *)
(***************************************************************************)
EXTENDS TermuxShim

CONSTANTS phone, tablet, bus1, bus2, port1, port2

TwoDevices == {phone, tablet}

TwoBuses == {bus1, bus2}

TwoPorts == {port1, port2}

\* One after the other in one port, and the listing fails once.
OneByOne ==
  [bus |-> [d \in TwoDevices |-> bus1], port |-> [d \in TwoDevices |-> port1], failures |-> 1]

\* Side by side on two buses, and the listing works.
SideBySide ==
  [bus |-> [d \in TwoDevices |-> IF d = phone THEN bus1 ELSE bus2],
   port |-> [d \in TwoDevices |-> IF d = phone THEN port1 ELSE port2], failures |-> 0]

BothSettings == {OneByOne, SideBySide}

=============================================================================
