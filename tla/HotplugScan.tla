---------------------------- MODULE HotplugScan ----------------------------
(***************************************************************************)
(* adb's scan for devices on the BSDs, patches/sources/adb_libusb_scan.inc,*)
(* and the hotplug thread of adb it feeds (external code: a queue, an open *)
(* for an arrival, a close some time after a departure).                   *)
(***************************************************************************)
EXTENDS DeviceList, Sequences, FiniteSets, Functions

CONSTANT QueueBound \* bound of the model: events pending when a scan starts

ASSUME ObjectsAssumption == IsFiniteSet(Objects)
ASSUME QueueAssumption == QueueBound \in Nat

VARIABLES
  known,    \* the objects the scan holds, of devices that were there
  released, \* departed in the last scan
  queue,    \* hotplug_callback's queue of events
  handling  \* the event the hotplug thread is at, or NULL

scanVars == <<known, released, queue, handling>>

Events == [event : {"ARRIVED", "LEFT"}, of : Objects]

ASSUME EventsAssumption == NULL \notin Events

ScanTypeOK ==
  /\ known \subseteq Objects
  /\ released \subseteq Objects
  /\ queue \in Seq(Events)
  /\ handling \in Events \cup {NULL}

ScanInit ==
  /\ known = {}
  /\ released = {}
  /\ queue = <<>>
  /\ handling = NULL

\* The ways to name the objects of S one after the other.
Orders(S) == Bijection(1..Cardinality(S), S)

\* hotplug_callback for each of them.
Announce(event, s) == [i \in DOMAIN s |-> [event |-> event, of |-> s[i]]]

\* What the hotplug thread has still to do, in order.
Pending == (IF handling = NULL THEN <<>> ELSE <<handling>>) \o queue

(***************************************************************************)
(* The scan                                                                *)
(***************************************************************************)

\* Mutant: nothing is released.
OutgoingNone == {}

\* The references dropped before the devices are listed.
Outgoing == released

\* Two seconds have passed since the last scan, and that is all that is waited
\* for: events about the objects released may still be pending.
StartScan ==
  /\ ~Listing /\ Len(Pending) <= QueueBound
  /\ Count({}, Outgoing)
  /\ released' = released \ Outgoing
  /\ todo' = Nodes
  /\ UNCHANGED <<kernel, handle, found, known, queue, handling>>

\* opendir() fails: the list is not looked at.
StartScanFails ==
  /\ ~Listing
  /\ Count({}, Outgoing)
  /\ released' = released \ Outgoing
  /\ UNCHANGED <<kernel, handle, todo, found, known, queue, handling>>

\* Mutant: a departed object's reference is dropped with the list.
ScanDoneDrops ==
  /\ todo = {}
  /\ \E new \in Orders(found \ known), gone \in Orders(known \ found) :
       queue' = queue \o Announce("ARRIVED", new) \o Announce("LEFT", gone)
  /\ known' = found
  /\ Count(found \ known, found \cup (known \ found))
  /\ found' = {}
  /\ todo' = NULL
  /\ UNCHANGED <<kernel, handle, handling, released>>

\* Mutant: a departed object is not erased from known.
ScanDoneForgets ==
  /\ todo = {}
  /\ \E new \in Orders(found \ known), gone \in Orders(known \ found) :
       queue' = queue \o Announce("ARRIVED", new) \o Announce("LEFT", gone)
  /\ known' = known \cup found
  /\ Count(found \ known, found)
  /\ found' = {}
  /\ todo' = NULL
  /\ UNCHANGED <<kernel, handle, handling, released>>

\* Mutant: the list is looked at only if it has grown or shrunk.
ScanDoneByLength ==
  /\ todo = {}
  /\ LET now == IF Cardinality(found) = Cardinality(known) THEN known ELSE found
     IN /\ \E new \in Orders(now \ known), gone \in Orders(known \ now) :
             queue' = queue \o Announce("ARRIVED", new) \o Announce("LEFT", gone)
        /\ known' = now
        /\ released' = released \cup (known \ now)
        /\ Count(now \ known, found)
  /\ found' = {}
  /\ todo' = NULL
  /\ UNCHANGED <<kernel, handle, handling>>

\* The list is complete: arrivals are announced and held, then departures
\* announced and set aside; the list itself is given back.
ScanDone ==
  /\ todo = {}
  /\ \E new \in Orders(found \ known), gone \in Orders(known \ found) :
       queue' = queue \o Announce("ARRIVED", new) \o Announce("LEFT", gone)
  /\ known' = found
  /\ released' = released \cup (known \ found)
  /\ Count(found \ known, found)
  /\ found' = {}
  /\ todo' = NULL
  /\ UNCHANGED <<kernel, handle, handling>>

Scan ==
  \/ StartScan
  \/ StartScanFails
  \/ ScanDone
  \/ (\E n \in Nodes : ListNode(n) \/ ListNoMem(n)) /\ UNCHANGED scanVars

(***************************************************************************)
(* The hotplug thread                                                      *)
(***************************************************************************)

TakeEvent ==
  /\ handling = NULL /\ queue # <<>>
  /\ handling' = Head(queue)
  /\ queue' = Tail(queue)
  /\ UNCHANGED <<devVars, known, released>>

\* An arrival whose device adb opens.
Connect ==
  /\ handling # NULL /\ handling.event = "ARRIVED"
  /\ OpenHandle(handling.of)
  /\ handling' = NULL
  /\ UNCHANGED <<known, released, queue>>

\* A departure, which only marks the transport, or an arrival of no interest,
\* of a device that is open or that cannot be opened.
Disregard ==
  /\ handling # NULL
  /\ handling' = NULL
  /\ UNCHANGED <<devVars, known, released, queue>>

\* A transport ends.
Disconnect(o) == CloseHandle(o) /\ UNCHANGED scanVars

Adb == Scan \/ TakeEvent \/ Connect \/ Disregard \/ \E o \in Objects : Disconnect(o)

(***************************************************************************)
(* Properties                                                              *)
(***************************************************************************)

\* What the comment on known and released says: "a departed device is released
\* one scan later, once the hotplug thread has handled its LEFT event".  Then
\* an event that is pending names an object the scan still holds, and its
\* pointer is good.
EventsAlive == \A i \in DOMAIN Pending : Pending[i].of \in known \cup released

\* However far the hotplug thread is behind, and whatever device the memory of
\* an object has come to mean in between: the events about one object that are
\* pending are arrivals and departures by turns, and the last of them says what
\* the scan knows.  adb is told of no arrival twice running, and of every departure.
Alternating(p, S) ==
  /\ \A i, j \in DOMAIN p :
       i < j /\ p[i].of = p[j].of /\ (\A k \in (i + 1)..(j - 1) : p[k].of # p[i].of)
         => p[i].event # p[j].event
  /\ \A i \in DOMAIN p :
       (\A k \in (i + 1)..Len(p) : p[k].of # p[i].of)
         => (p[i].event = "ARRIVED" <=> p[i].of \in S)

EventsAlternate == Alternating(Pending, known)

=============================================================================
