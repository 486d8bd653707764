---------------------------- MODULE UsbPrograms ----------------------------
(***************************************************************************)
(* The programs over DeviceList: adb, fastboot, and a client of libusb     *)
(* that changes configurations, which neither of them does.  They do not   *)
(* run together: each has a libusb of its own, and program says which one  *)
(* this is.                                                                *)
(***************************************************************************)
EXTENDS HotplugScan, FastbootTransport

\* Bound of the model: the programs beside which another process changes
\* configurations.
CONSTANT Disturbed

VARIABLE program

vars == <<program, devVars, scanVars, fastVars>>

TypeOK ==
  /\ DevTypeOK
  /\ ScanTypeOK
  /\ FastTypeOK
  /\ program \in {"adb", "fastboot", "client"}

Init ==
  /\ DevInit
  /\ ScanInit
  /\ FastInit
  /\ program \in {"adb", "fastboot", "client"}

(***************************************************************************)
(* The client: it lists devices, keeps the references (known), and opens,  *)
(* configures and closes devices.                                          *)
(***************************************************************************)

ClientLists ==
  /\ ~Listing
  /\ todo' = Nodes
  /\ UNCHANGED <<kernel, objects, handle, found, scanVars>>

\* A list given back; of what was not held yet the reference is kept.
ClientKeeps ==
  /\ todo = {}
  /\ Count({}, found \cap known)
  /\ known' = known \cup found
  /\ found' = {}
  /\ todo' = NULL
  /\ UNCHANGED <<kernel, handle, released, queue, handling>>

ClientDrops(o) ==
  /\ o \in known
  /\ Count({}, {o})
  /\ known' = known \ {o}
  /\ UNCHANGED <<kernel, handle, todo, found, released, queue, handling>>

ClientConfigures(o) ==
  /\ \/ OpenHandle(o)
     \/ CloseHandle(o)
     \/ \E c \in Configs : SetConfiguration(o, c)
     \/ RefreshCache(o)
     \/ MissRefresh(o)
  /\ UNCHANGED scanVars

Client ==
  \/ ClientLists
  \/ ClientKeeps
  \/ (\E n \in Nodes : ListNode(n) \/ ListNoMem(n)) /\ UNCHANGED scanVars
  \/ \E o \in Objects : ClientDrops(o) \/ ClientConfigures(o)

(***************************************************************************)
(* Specification                                                           *)
(***************************************************************************)

Environment ==
  /\ \E n \in Nodes :
       \/ \E d \in Devices : Plug(n, d)
       \/ Unplug(n)
       \/ program \in Disturbed /\ \E c \in Configs : Reconfigure(n, c)
  /\ UNCHANGED <<scanVars, fastVars>>

Next ==
  /\ UNCHANGED program
  /\ \/ Environment
     \/ program = "adb" /\ Adb /\ UNCHANGED fastVars
     \/ program = "fastboot" /\ Fastboot /\ UNCHANGED scanVars
     \/ program = "client" /\ Client /\ UNCHANGED fastVars

Spec == Init /\ [][Next]_vars

Running(p, A) == program = p /\ A /\ UNCHANGED program

\* The scan and the hotplug thread loop; fastboot goes on with its transfer,
\* which the device, the timeout or unplugging ends.
Fairness ==
  /\ WF_vars(Running("adb", Scan) /\ UNCHANGED fastVars)
  /\ WF_vars(Running("adb", TakeEvent \/ Connect \/ Disregard) /\ UNCHANGED fastVars)
  /\ WF_vars(Running("fastboot", WriteChunk \/ WriteFails \/ WriteReturns) /\ UNCHANGED scanVars)

FairSpec == Spec /\ Fairness

(***************************************************************************)
(* Properties                                                              *)
(***************************************************************************)

One(b) == IF b THEN 1 ELSE 0

Holders(o) == One(o \in known) + One(o \in released) + One(o \in found) + One(handle[o] # NULL)

\* An object's reference count is the number of those who hold it: the scan
\* or the client, for the one scan after its departure, the list, an open
\* handle.  None is leaked and none dropped twice on any way out of
\* fbsd_get_device_list, the scan or usb_open; and when fastboot gives its
\* context back, nothing of it is left.
RefsAreHeld ==
  /\ \A o \in Objects : refs[o] = Holders(o)
  /\ program = "fastboot" /\ ~ctx => \A o \in Objects : refs[o] = 0

\* A listing takes an old object for the device at its node only while someone
\* has held the object since before: a reference the program keeps for a
\* device that was there at its last scan, or an open handle.  In particular a
\* departed device's object does not outlive the scan after.  (An object that
\* is held when another device gets the node keeps the descriptors of the one
\* before, and adb announces no arrival.)
ListedFresh ==
  [][\A o \in Objects :
       o \in found' \ found =>
         desc'[o] = at[node'[o]] \/ o \in known \/ handle[o] # NULL]_vars

\* opendir(), the ioctls and the allocations do not fail for good.
Steady == <>[][\A n \in Nodes : ~StartScanFails /\ ~SkipFailing(n) /\ ~ListNoMem(n)]_vars

\* When the system's calls work again, adb comes to hold an object for a device
\* that stays, and what departed is released whether they work or not; a Write
\* of fastboot returns.
Responsive ==
  /\ Steady => \A n \in Nodes, d \in Devices :
       (program = "adb" /\ at[n] = d)
         ~> (at[n] # d \/ \E o \in known : node[o] = n)
  /\ \A o \in Objects : (o \in released) ~> (o \notin released)
  /\ writing ~> ~writing

============================================================================
