------------------------- MODULE TermuxShim_proofs -------------------------
(***************************************************************************)
(* Proofs about TermuxShim, for any devices, buses, ports and bounds.      *)
(* Four inductive invariants, each resting on the first: the types with    *)
(* what fastboot's listener has still to receive, what a walk of fastboot  *)
(* may count on, whose descriptor is whose, and how often the user may     *)
(* have been asked.                                                        *)
(***************************************************************************)
EXTENDS TermuxShim, FiniteSetTheorems, WellFoundedInduction, TLAPS

\* The descriptor and the message of the iteration under way.
ListenerBusy ==
  /\ lpc = "recv" <=> usb_fd = 0
  /\ lpc # "recv" => socket # <<>> /\ (mode = "fastboot" => left > 0)

\* fastboot's listener ends after at least the messages that can still come:
\* those sent, one for each device to ask for, and one for the one asked for;
\* unless it failed to receive.
EnoughLeft ==
  mode = "fastboot" =>
    /\ spc # "sleep"
    /\ spc \in {"start", "list"} => socket = <<>> /\ left = 0
    /\ spc = "done" => lpc = "recv" /\ left = 0
    /\ spc = "done" /\ ~missed => socket = <<>>
    /\ spc # "request" => todo = {} /\ asking = NULL
    /\ ~missed => left >= Len(socket) + Cardinality(todo) + (IF asking = NULL THEN 0 ELSE 1)

TInv == TypeOK /\ ListenerBusy /\ EnoughLeft

\* A walk of fastboot is after termuxadb::start(), its reads at the start of
\* what it has not closed.
WalkInv ==
  mode = "fastboot" =>
    /\ ~Idle => spc = "done"
    /\ fd # 0 => fd \in at_start \/ files[fd] = NULL

\* The walk has a descriptor open for a device only, and fastboot has no handle,
\* and has closed nothing, before termuxadb::start() has returned.
FdsInv ==
  /\ FdsNotCrossed
  /\ fd # 0 => dev_name \in Devices
  /\ mode = "fastboot" /\ spc # "done" =>
       \A d \in Devices : handles[d] = 0 /\ (USB_FD_MAP[d] # 0 => files[USB_FD_MAP[d]] = d)

\* Who may have been asked for: nobody unseen, those in todo not since the
\* last failure, and of the others only those in the list that counts.
Listed == IF spc = "request" THEN usb_dev_list ELSE last_usb_list

AskInv ==
  /\ plugged \cap gone = {}
  /\ IF spc = "request" THEN todo \subseteq usb_dev_list ELSE todo = {}
  /\ \A d \in Devices :
       /\ requests[d] <= 1 + failures
       /\ d \in todo => requests[d] <= failures
       /\ requests[d] > 0 \/ d \in todo => d \in plugged \cup gone
       /\ spc \in {"start", "list", "request", "sleep"} /\ d \notin Listed \cup gone =>
            requests[d] <= failures

\* NULL is no device, and the kernel gives a descriptor that is free.
LEMMA NullIsNew == NULL \notin Devices
  BY NamesAssumption DEF Names

LEMMA LowestIsFree == FreeFds # {} => LowestFree \in FreeFds
<1> SUFFICES ASSUME FreeFds # {} PROVE \E n \in FreeFds : \A m \in FreeFds : n <= m
  BY DEF LowestFree
<1>1. FreeFds \subseteq Nat
  BY BoundsAssumption DEF FreeFds, Fds
<1>2. PICK n \in FreeFds : \A m \in FreeFds : ~(<<m, n>> \in OpToRel(<, Nat))
  BY <1>1, WFMin, NatLessThanWellFounded
<1>3. \A m \in FreeFds : ~(m < n)
  BY <1>1, <1>2 DEF OpToRel
<1> QED
  BY <1>1, <1>3

\* A set of devices is finite, and smaller without one of its members.
LEMMA DeviceSets ==
  ASSUME NEW S, S \subseteq Devices
  PROVE  /\ IsFiniteSet(S)
         /\ Cardinality(S) \in Nat
         /\ \A T \in SUBSET S : Cardinality(T) \in Nat /\ Cardinality(T) <= Cardinality(S)
         /\ \A d \in S : Cardinality(S \ {d}) = Cardinality(S) - 1
<1>1. IsFiniteSet(S)
  BY DevicesAssumption, FS_Subset
<1> QED
  BY <1>1, FS_Subset, FS_RemoveElement, FS_CardinalityType

\* One more message.
LEMMA AppendOne ==
  ASSUME NEW S, NEW s \in Seq(S), NEW x \in S
  PROVE  /\ Append(s, x) \in Seq(S)
         /\ Len(Append(s, x)) = Len(s) + 1
         /\ Append(s, x) # <<>>
<1>1. /\ Append(s, x) \in Seq(S)
      /\ Len(Append(s, x)) = Len(s) + 1
  OBVIOUS
<1>2. Len(<<>>) = 0 /\ Len(s) \in Nat
  OBVIOUS
<1> QED
  BY <1>1, <1>2

LEMMA EmptyCardinality == Cardinality({}) = 0
  BY FS_EmptySet

-----------------------------------------------------------------------------
(***************************************************************************)
(* Types, and the messages fastboot's listener waits for.                  *)
(***************************************************************************)
LEMMA InitTInv == Init => TInv
<1> SUFFICES ASSUME Init PROVE TInv
  OBVIOUS
<1>1. TypeOK
  <2>1. failures \in 0..MaxListFailures /\ requests \in [Devices -> Nat]
    BY DevicesAssumption DEF Init, MaxListFailures
  <2>2. plugged \subseteq Devices /\ setting \in Settings
    BY DEF Init
  <2>3. socket \in Seq(Devices) /\ left \in Nat
    BY DEF Init
  <2>4. /\ DIR_MAP \in [{Base} \cup Buses -> SUBSET Names]
        /\ USB_FD_MAP \in [Devices -> Fds \cup {0}]
        /\ USB_SERIAL_MAP \in [Ports -> Devices \cup {NULL}]
        /\ files \in [Fds -> Devices \cup {NULL}]
        /\ handles \in [Devices -> Fds \cup {0}]
    BY DEF Init
  <2>5. QED
    BY <2>1, <2>2, <2>3, <2>4 DEF Init, TypeOK
<1>2. ListenerBusy
  BY DEF Init, ListenerBusy
<1>3. EnoughLeft
  BY EmptyCardinality DEF Init, EnoughLeft
<1> QED
  BY <1>1, <1>2, <1>3 DEF TInv

LEMMA TInvNext ==
  ASSUME TInv, [Next]_vars
  PROVE  TInv'
<1> USE NullIsNew DEF TInv, MaxListFailures
<1>0. Cardinality(todo) \in Nat
  BY DeviceSets DEF TypeOK
<1>1. ASSUME NEW d \in Devices, Plug(d) PROVE TInv'
  BY <1>1 DEF Plug, scanner, history, listener, maps, walk, TypeOK, ListenerBusy, EnoughLeft
<1>2. ASSUME NEW d \in Devices, Unplug(d) PROVE TInv'
  BY <1>2 DEF Unplug, scanner, history, listener, maps, walk, TypeOK, ListenerBusy, EnoughLeft
<1>3. ASSUME NEW d \in Devices, RunUnderTermuxUsb(d) PROVE TInv'
  <2>1. Cardinality(todo') = Cardinality(todo) - 1
    BY <1>3, DeviceSets DEF RunUnderTermuxUsb, TypeOK
  <2>2. TypeOK'
    BY <1>3 DEF RunUnderTermuxUsb, env, listener, maps, walk, TypeOK
  <2>3. ListenerBusy' /\ EnoughLeft'
    BY <1>0, <1>3, <2>1 DEF RunUnderTermuxUsb, env, listener, maps, walk, TypeOK, ListenerBusy,
                            EnoughLeft
  <2>4. QED
    BY <2>2, <2>3
<1>4. ASSUME NEW d \in Devices, HandleLost(d) PROVE TInv'
  BY <1>4 DEF HandleLost, env, scanner, history, listener, maps, walk, Close, TypeOK,
         ListenerBusy, EnoughLeft
<1>5. CASE Start
  BY <1>5 DEF Start, env, history, listener, maps, walk, TypeOK, ListenerBusy, EnoughLeft
<1>6. CASE StartFails
  BY <1>6 DEF StartFails, env, history, listener, maps, walk, TypeOK, ListenerBusy, EnoughLeft
<1>7. CASE ListDevices
  <2>1. /\ usb_dev_list' \subseteq Devices
        /\ todo' \subseteq usb_dev_list'
    BY <1>7 DEF ListDevices, TypeOK
  <2>2. /\ Cardinality(usb_dev_list') \in Nat
        /\ Cardinality(todo') \in Nat
        /\ Cardinality(todo') <= Cardinality(usb_dev_list')
    BY <2>1, DeviceSets
  <2>3. failures' \in 0..MaxListFailures
    BY <1>7, DevicesAssumption DEF ListDevices, env, TypeOK
  <2>4. left' \in Nat
    BY <1>7, <2>2 DEF ListDevices, MessagesFor, TypeOK
  <2>5. TypeOK'
    BY <1>7, <2>1, <2>3, <2>4 DEF ListDevices, env, maps, walk, TypeOK
  <2>6. ListenerBusy'
    BY <1>7 DEF ListDevices, env, ListenerBusy, EnoughLeft
  <2>7. EnoughLeft'
    BY <1>7, <2>2 DEF ListDevices, env, MessagesFor, EnoughLeft, TypeOK
  <2>8. QED
    BY <2>5, <2>6, <2>7
<1>8. CASE Requested
  BY <1>8 DEF Requested, env, history, listener, maps, walk, TypeOK, ListenerBusy, EnoughLeft
<1>9. CASE Wake
  BY <1>9 DEF Wake, env, history, listener, maps, walk, TypeOK, ListenerBusy, EnoughLeft
<1>10. CASE Join
  <2>1. mode = "fastboot" => Cardinality(todo) = 0
    BY <1>10, EmptyCardinality DEF Join, EnoughLeft
  <2>2. mode = "fastboot" /\ ~missed => socket = <<>>
    BY <1>10, <2>1 DEF Join, EnoughLeft, TypeOK
  <2>3. QED
    BY <1>10, <2>2 DEF Join, env, history, listener, maps, walk, TypeOK, ListenerBusy, EnoughLeft
<1>11. CASE Granted
  <2>1. /\ socket' \in Seq(Devices)
        /\ Len(socket') = Len(socket) + 1
        /\ socket' # <<>>
    <3>1. /\ socket \in Seq(Devices)
          /\ asking \in Devices
          /\ socket' = Append(socket, asking)
      BY <1>11 DEF Granted, TypeOK
    <3>2. QED
      BY <3>1, AppendOne
  <2>2. TypeOK'
    BY <1>11, <2>1 DEF Granted, env, history, listener, maps, walk, TypeOK
  <2>3. ListenerBusy'
    BY <1>11, <2>1 DEF Granted, env, listener, ListenerBusy
  <2>4. EnoughLeft'
    BY <1>0, <1>11, <2>1 DEF Granted, env, listener, TypeOK, EnoughLeft
  <2>5. QED
    BY <2>2, <2>3, <2>4
<1>12. CASE Refused
  BY <1>0, <1>12 DEF Refused, env, listener, maps, walk, TypeOK, ListenerBusy, EnoughLeft
<1>13. CASE Receive
  <2>1. usb_fd' \in Fds /\ usb_fd' # 0 /\ usb_dev_path \in Devices
    BY <1>13, LowestIsFree, BoundsAssumption DEF Receive, FreeFds, Fds, usb_dev_path, TypeOK
  <2>2. DIR_MAP' \in [{Base} \cup Buses -> SUBSET Names]
    <3>1. DIR_MAP' = [DIR_MAP EXCEPT ![BusOf[usb_dev_path]] = @ \cup {usb_dev_path},
                                     ![Base] = @ \cup {BusOf[usb_dev_path]}]
      BY <1>13 DEF Receive, UpdateDirMap
    <3>2. BusOf[usb_dev_path] \in Buses
      BY <2>1, DevicesAssumption DEF BusOf, TypeOK
    <3>3. [DIR_MAP EXCEPT ![BusOf[usb_dev_path]] = @ \cup {usb_dev_path}]
            \in [{Base} \cup Buses -> SUBSET Names]
      BY <2>1 DEF Names, TypeOK
    <3>4. QED
      BY <3>1, <3>2, <3>3 DEF Names
  <2>3. files' \in [Fds -> Devices \cup {NULL}] /\ at_start' \subseteq Fds
    BY <1>13, <2>1 DEF Receive, TypeOK
  <2>4. TypeOK'
    BY <1>13, <2>1, <2>2, <2>3 DEF Receive, env, scanner, history, walk, TypeOK
  <2>5. ListenerBusy' /\ EnoughLeft'
    BY <1>13, <2>1 DEF Receive, env, scanner, ListenerBusy, EnoughLeft
  <2>6. QED
    BY <2>4, <2>5
<1>14. CASE ReceiveNoFd
  <2>1. /\ Tail(socket) \in Seq(Devices)
        /\ Len(Tail(socket)) = Len(socket) - 1
        /\ Len(socket) >= 1
    BY <1>14 DEF ReceiveNoFd, TypeOK
  <2>2. mode = "fastboot" => left - 1 \in Nat
    BY <1>14 DEF ReceiveNoFd, TypeOK
  <2>3. TypeOK'
    BY <1>14, <2>1, <2>2 DEF ReceiveNoFd, NextMessage, env, scanner, history, maps, walk, TypeOK
  <2>4. ListenerBusy' /\ EnoughLeft'
    BY <1>0, <1>14, <2>1 DEF ReceiveNoFd, NextMessage, env, scanner, ListenerBusy, EnoughLeft,
                     TypeOK
  <2>5. QED
    BY <2>3, <2>4
<1>15. CASE RecordFd
  BY <1>15 DEF RecordFd, env, scanner, history, walk, TypeOK, ListenerBusy, EnoughLeft,
         usb_dev_path
<1>16. CASE SeekForSerial
  BY <1>16 DEF SeekForSerial, env, scanner, history, maps, walk, TypeOK, ListenerBusy,
         EnoughLeft
<1>17. CASE ReadSerial
  <2>1. /\ Tail(socket) \in Seq(Devices)
        /\ Len(Tail(socket)) = Len(socket) - 1
        /\ Len(socket) >= 1
    BY <1>17 DEF ReadSerial, ListenerBusy, TypeOK
  <2>2. mode = "fastboot" => left - 1 \in Nat
    BY <1>17 DEF ReadSerial, ListenerBusy, TypeOK
  <2>3. TypeOK'
    BY <1>17, <2>1, <2>2 DEF ReadSerial, NextMessage, env, scanner, history, maps, walk, TypeOK
  <2>4. ListenerBusy' /\ EnoughLeft'
    BY <1>0, <1>17, <2>1 DEF ReadSerial, NextMessage, env, scanner, ListenerBusy, EnoughLeft,
                     TypeOK
  <2>5. QED
    BY <2>3, <2>4
<1>18. CASE RecordSerial
  <2>1. /\ Tail(socket) \in Seq(Devices)
        /\ Len(Tail(socket)) = Len(socket) - 1
        /\ Len(socket) >= 1
    BY <1>18 DEF RecordSerial, ListenerBusy, TypeOK
  <2>2. mode = "fastboot" => left - 1 \in Nat
    BY <1>18 DEF RecordSerial, ListenerBusy, TypeOK
  <2>3. USB_SERIAL_MAP' \in [Ports -> Devices \cup {NULL}]
    <3>1. usb_dev_path \in Devices
      BY <2>1 DEF usb_dev_path, TypeOK
    <3>2. PortOf[usb_dev_path] \in Ports
      BY <3>1, DevicesAssumption DEF PortOf, TypeOK
    <3>3. QED
      BY <1>18, <3>1, <3>2 DEF RecordSerial, TypeOK
  <2>4. TypeOK'
    BY <1>18, <2>1, <2>2, <2>3 DEF RecordSerial, NextMessage, env, scanner, history, walk, TypeOK
  <2>5. ListenerBusy' /\ EnoughLeft'
    BY <1>0, <1>18, <2>1 DEF RecordSerial, NextMessage, env, scanner, ListenerBusy, EnoughLeft,
                     TypeOK
  <2>6. QED
    BY <2>4, <2>5
<1>19. CASE OpenBase
  BY <1>19 DEF OpenBase, env, scanner, history, listener, maps, TypeOK, ListenerBusy, EnoughLeft
<1>20. CASE RegisterDevice
  BY <1>20 DEF RegisterDevice, env, scanner, history, listener, maps, TypeOK, ListenerBusy,
         EnoughLeft
<1>21. CASE PassOver
  BY <1>21 DEF PassOver, env, scanner, history, listener, maps, Close, TypeOK, ListenerBusy,
         EnoughLeft
<1>22. ASSUME NEW b \in Buses, OpenBus(b) PROVE TInv'
  BY <1>22 DEF OpenBus, env, scanner, history, listener, maps, TypeOK, ListenerBusy, EnoughLeft
<1>23. ASSUME NEW d \in Devices, SkipDevice(d) PROVE TInv'
  BY <1>23 DEF SkipDevice, env, scanner, history, listener, maps, TypeOK, ListenerBusy,
         EnoughLeft
<1>24. ASSUME NEW d \in Devices, OpenDevice(d) PROVE TInv'
  <2>1. fd' \in Fds /\ at_start' \subseteq Fds
    BY <1>24 DEF OpenDevice, Rewound, TypeOK
  <2>2. TypeOK'
    BY <1>24, <2>1 DEF OpenDevice, env, scanner, history, listener, maps, TypeOK
  <2>3. ListenerBusy' /\ EnoughLeft'
    BY <1>24 DEF OpenDevice, env, scanner, history, listener, ListenerBusy, EnoughLeft
  <2>4. QED
    BY <2>2, <2>3
<1>25. CASE UNCHANGED vars
  BY <1>25 DEF vars, env, scanner, history, listener, maps, walk, TypeOK, ListenerBusy,
         EnoughLeft
<1>26. ASSUME NEW d \in Devices, HandleClosed(d) PROVE TInv'
  BY <1>26 DEF HandleClosed, env, scanner, history, listener, maps, walk, TypeOK, ListenerBusy,
         EnoughLeft
<1>27. CASE ReceiveFails
  BY <1>27 DEF ReceiveFails, env, scanner, history, maps, walk, TypeOK, ListenerBusy, EnoughLeft
<1> QED
  BY <1>1, <1>2, <1>3, <1>4, <1>5, <1>6, <1>7, <1>8, <1>9, <1>10, <1>11, <1>12, <1>13, <1>14,
     <1>15, <1>16, <1>17, <1>18, <1>19, <1>20, <1>21, <1>22, <1>23, <1>24, <1>25, <1>26,
     <1>27 DEF Next

-----------------------------------------------------------------------------
(***************************************************************************)
(* The walks of fastboot.                                                  *)
(***************************************************************************)
LEMMA WalkInvNext ==
  ASSUME TInv, WalkInv, [Next]_vars
  PROVE  WalkInv'
<1> USE DEF TInv, EnoughLeft, ListenerBusy
<1>1. ASSUME NEW d \in Devices, Plug(d) PROVE WalkInv'
  BY <1>1 DEF Plug, scanner, history, listener, maps, walk, WalkInv, Idle
<1>2. ASSUME NEW d \in Devices, Unplug(d) PROVE WalkInv'
  BY <1>2 DEF Unplug, scanner, history, listener, maps, walk, WalkInv, Idle
<1>3. ASSUME NEW d \in Devices, RunUnderTermuxUsb(d) PROVE WalkInv'
  BY <1>3 DEF RunUnderTermuxUsb, env, listener, maps, walk, WalkInv, Idle
<1>4. ASSUME NEW d \in Devices, HandleLost(d) PROVE WalkInv'
  BY <1>4 DEF HandleLost, env, scanner, history, listener, maps, walk, Close, WalkInv, Idle
<1>5. CASE Start
  BY <1>5 DEF Start, env, history, listener, maps, walk, WalkInv, Idle
<1>6. CASE StartFails
  BY <1>6 DEF StartFails, env, history, listener, maps, walk, WalkInv, Idle
<1>7. CASE ListDevices
  BY <1>7 DEF ListDevices, env, maps, walk, WalkInv, Idle
<1>8. CASE Requested
  BY <1>8 DEF Requested, env, history, listener, maps, walk, WalkInv, Idle
<1>9. CASE Wake
  BY <1>9 DEF Wake, env, history, listener, maps, walk, WalkInv, Idle
<1>10. CASE Join
  BY <1>10 DEF Join, env, history, listener, maps, walk, WalkInv, Idle
<1>11. CASE Granted
  BY <1>11 DEF Granted, env, history, listener, maps, walk, WalkInv, Idle
<1>12. CASE Refused
  BY <1>12 DEF Refused, env, listener, maps, walk, WalkInv, Idle
<1>13. CASE Receive
  BY <1>13 DEF Receive, env, scanner, history, walk, WalkInv, Idle
<1>14. CASE ReceiveNoFd
  BY <1>14 DEF ReceiveNoFd, env, scanner, history, maps, walk, NextMessage, WalkInv, Idle
<1>15. CASE RecordFd
  BY <1>15 DEF RecordFd, env, scanner, history, walk, WalkInv, Idle
<1>16. CASE SeekForSerial
  BY <1>16 DEF SeekForSerial, env, scanner, history, maps, walk, WalkInv, Idle
<1>17. CASE ReadSerial
  BY <1>17 DEF ReadSerial, env, scanner, history, maps, walk, NextMessage, WalkInv, Idle
<1>18. CASE RecordSerial
  BY <1>18 DEF RecordSerial, env, scanner, history, walk, NextMessage, WalkInv, Idle
<1>19. CASE OpenBase
  BY <1>19 DEF OpenBase, env, scanner, history, listener, maps, WalkInv, Idle
<1>20. CASE RegisterDevice
  BY <1>20 DEF RegisterDevice, env, scanner, history, listener, maps, WalkInv, Idle
<1>21. CASE PassOver
  BY <1>21 DEF PassOver, env, scanner, history, listener, maps, Close, WalkInv, Idle
<1>22. ASSUME NEW b \in Buses, OpenBus(b) PROVE WalkInv'
  BY <1>22 DEF OpenBus, env, scanner, history, listener, maps, WalkInv, Idle
<1>23. ASSUME NEW d \in Devices, SkipDevice(d) PROVE WalkInv'
  BY <1>23 DEF SkipDevice, env, scanner, history, listener, maps, WalkInv, Idle
<1>24. ASSUME NEW d \in Devices, OpenDevice(d) PROVE WalkInv'
  BY <1>24 DEF OpenDevice, env, scanner, history, listener, maps, Rewound, WalkInv, Idle
<1>25. CASE UNCHANGED vars
  BY <1>25 DEF vars, env, scanner, history, listener, maps, walk, WalkInv, Idle
<1>26. ASSUME NEW d \in Devices, HandleClosed(d) PROVE WalkInv'
  BY <1>26 DEF HandleClosed, env, scanner, history, listener, maps, walk, WalkInv, Idle, TypeOK
<1>27. CASE ReceiveFails
  BY <1>27 DEF ReceiveFails, env, scanner, history, maps, walk, WalkInv, Idle
<1> QED
  BY <1>1, <1>2, <1>3, <1>4, <1>5, <1>6, <1>7, <1>8, <1>9, <1>10, <1>11, <1>12, <1>13, <1>14,
     <1>15, <1>16, <1>17, <1>18, <1>19, <1>20, <1>21, <1>22, <1>23, <1>24, <1>25, <1>26,
     <1>27 DEF Next

-----------------------------------------------------------------------------
(***************************************************************************)
(* Whose descriptor is whose.                                              *)
(***************************************************************************)
LEMMA FdsInvNext ==
  ASSUME TInv, WalkInv, FdsInv, [Next]_vars
  PROVE  FdsInv'
<1> USE NullIsNew DEF TInv, ListenerBusy, TypeOK, FdsInv, KeptFor, EnoughLeft, WalkInv, Idle
<1>1. ASSUME NEW d \in Devices, Plug(d) PROVE FdsInv'
  BY <1>1 DEF Plug, scanner, history, listener, maps, walk, FdsNotCrossed, usb_dev_path
<1>2. ASSUME NEW d \in Devices, Unplug(d) PROVE FdsInv'
  BY <1>2 DEF Unplug, scanner, history, listener, maps, walk, FdsNotCrossed, usb_dev_path
<1>3. ASSUME NEW d \in Devices, RunUnderTermuxUsb(d) PROVE FdsInv'
  BY <1>3 DEF RunUnderTermuxUsb, env, listener, maps, walk, FdsNotCrossed, usb_dev_path
<1>4. ASSUME NEW d \in Devices, HandleLost(d) PROVE FdsInv'
  BY <1>4 DEF HandleLost, env, scanner, history, listener, maps, walk, Close, FdsNotCrossed,
         usb_dev_path
<1>5. CASE Start
  BY <1>5 DEF Start, env, history, listener, maps, walk, FdsNotCrossed, usb_dev_path
<1>6. CASE StartFails
  BY <1>6 DEF StartFails, env, history, listener, maps, walk, FdsNotCrossed, usb_dev_path
<1>7. CASE ListDevices
  BY <1>7 DEF ListDevices, env, maps, walk, FdsNotCrossed, usb_dev_path
<1>8. CASE Requested
  BY <1>8 DEF Requested, env, history, listener, maps, walk, FdsNotCrossed, usb_dev_path
<1>9. CASE Wake
  BY <1>9 DEF Wake, env, history, listener, maps, walk, FdsNotCrossed, usb_dev_path
<1>10. CASE Join
  BY <1>10 DEF Join, env, history, listener, maps, walk, FdsNotCrossed, usb_dev_path
<1>11. CASE Granted
  BY <1>11 DEF Granted, env, history, listener, maps, walk, FdsNotCrossed, usb_dev_path
<1>12. CASE Refused
  BY <1>12 DEF Refused, env, listener, maps, walk, FdsNotCrossed, usb_dev_path
<1>13. CASE Receive
  <2>1. usb_fd' \in Fds /\ files[usb_fd'] = NULL
    BY <1>13, LowestIsFree DEF Receive, FreeFds
  <2>2. usb_dev_path \in Devices /\ usb_dev_path' = usb_dev_path
    BY <1>13 DEF Receive, usb_dev_path
  <2>3. files' = [files EXCEPT ![usb_fd'] = usb_dev_path]
    BY <1>13 DEF Receive
  <2>4. \A n \in Fds : files[n] \in Devices => files'[n] = files[n]
    BY <2>1, <2>3
  <2>5. files'[usb_fd'] = usb_dev_path'
    BY <2>1, <2>2, <2>3
  <2>6. mode = "fastboot" => spc # "done" /\ fd = 0
    BY <1>13 DEF Receive
  <2>7. /\ UNCHANGED <<mode, spc, fd, dev_name, handles, USB_FD_MAP>>
        /\ usb_fd' \in Fds
    BY <1>13, <2>1 DEF Receive, env, scanner, walk
  <2>8. \A d \in Devices : handles[d] # 0 => files'[handles[d]] = d
    BY <2>4 DEF FdsNotCrossed
  <2>9. \A d \in Devices : USB_FD_MAP[d] # 0 => files'[USB_FD_MAP[d]] = d
    BY <2>4, <2>6 DEF FdsNotCrossed
  <2>10. fd # 0 => files'[fd] = dev_name
    BY <2>4, <2>6 DEF FdsNotCrossed
  <2>11. FdsNotCrossed'
    BY <2>5, <2>7, <2>8, <2>9, <2>10 DEF FdsNotCrossed
  <2>12. QED
    BY <2>6, <2>7, <2>8, <2>9, <2>11
<1>14. CASE ReceiveNoFd
  BY <1>14 DEF ReceiveNoFd, env, scanner, history, maps, walk, NextMessage, FdsNotCrossed,
         usb_dev_path
<1>15. CASE RecordFd
  BY <1>15 DEF RecordFd, env, scanner, history, walk, FdsNotCrossed, usb_dev_path
<1>16. CASE SeekForSerial
  BY <1>16 DEF SeekForSerial, env, scanner, history, maps, walk, FdsNotCrossed, usb_dev_path
<1>17. CASE ReadSerial
  BY <1>17 DEF ReadSerial, env, scanner, history, maps, walk, NextMessage, FdsNotCrossed,
         usb_dev_path
<1>18. CASE RecordSerial
  BY <1>18 DEF RecordSerial, env, scanner, history, walk, NextMessage, FdsNotCrossed,
         usb_dev_path
<1>19. CASE OpenBase
  BY <1>19 DEF OpenBase, env, scanner, history, listener, maps, FdsNotCrossed, usb_dev_path
<1>20. CASE RegisterDevice
  <2>1. /\ fd # 0 /\ fd' = 0 /\ handles' = [handles EXCEPT ![dev_name] = fd]
        /\ UNCHANGED <<mode, spc, socket, usb_fd, USB_FD_MAP, files>>
        /\ files[fd] \in Devices
    BY <1>20 DEF RegisterDevice, ReadsWhole, env, scanner, listener, maps
  <2>2. files[fd] = dev_name /\ dev_name \in Devices
    BY <2>1 DEF FdsNotCrossed
  <2>3. \A d \in Devices : handles'[d] # 0 => files[handles'[d]] = d
    BY <2>1, <2>2 DEF FdsNotCrossed
  <2>4. mode = "fastboot" => spc = "done"
    BY <2>1
  <2>5. FdsNotCrossed'
    BY <2>1, <2>3 DEF FdsNotCrossed, usb_dev_path
  <2>6. QED
    BY <2>1, <2>4, <2>5
<1>21. CASE PassOver
  BY <1>21 DEF PassOver, env, scanner, history, listener, maps, Close, FdsNotCrossed,
         usb_dev_path
<1>22. ASSUME NEW b \in Buses, OpenBus(b) PROVE FdsInv'
  BY <1>22 DEF OpenBus, env, scanner, history, listener, maps, FdsNotCrossed, usb_dev_path
<1>23. ASSUME NEW d \in Devices, SkipDevice(d) PROVE FdsInv'
  BY <1>23 DEF SkipDevice, env, scanner, history, listener, maps, FdsNotCrossed, usb_dev_path
<1>24. ASSUME NEW d \in Devices, OpenDevice(d) PROVE FdsInv'
  BY <1>24 DEF OpenDevice, env, scanner, history, listener, maps, Rewound, FdsNotCrossed,
         usb_dev_path
<1>25. CASE UNCHANGED vars
  BY <1>25 DEF vars, env, scanner, history, listener, maps, walk, FdsNotCrossed, usb_dev_path
<1>26. ASSUME NEW d \in Devices, HandleClosed(d) PROVE FdsInv'
  BY <1>26 DEF HandleClosed, env, scanner, history, listener, maps, walk, FdsNotCrossed, KeptFor, usb_dev_path
<1>27. CASE ReceiveFails
  BY <1>27 DEF ReceiveFails, env, scanner, history, maps, walk, FdsNotCrossed, usb_dev_path
<1> QED
  BY <1>1, <1>2, <1>3, <1>4, <1>5, <1>6, <1>7, <1>8, <1>9, <1>10, <1>11, <1>12, <1>13, <1>14,
     <1>15, <1>16, <1>17, <1>18, <1>19, <1>20, <1>21, <1>22, <1>23, <1>24, <1>25, <1>26,
     <1>27 DEF Next

-----------------------------------------------------------------------------
(***************************************************************************)
(* How often the user is asked.                                            *)
(***************************************************************************)
LEMMA AskInvNext ==
  ASSUME TInv, AskInv, [Next]_vars
  PROVE  AskInv'
<1> USE DEF TInv, EnoughLeft, TypeOK, PortOf
<1>1. ASSUME NEW d \in Devices, Plug(d) PROVE AskInv'
  BY <1>1 DEF Plug, scanner, history, listener, maps, walk, AskInv, Listed
<1>2. ASSUME NEW d \in Devices, Unplug(d) PROVE AskInv'
  BY <1>2 DEF Unplug, scanner, history, listener, maps, walk, AskInv, Listed
<1>3. ASSUME NEW d \in Devices, RunUnderTermuxUsb(d) PROVE AskInv'
  <2>1. /\ d \in todo /\ todo' = todo \ {d}
        /\ spc = "request" /\ spc' = spc
        /\ requests' = [requests EXCEPT ![d] = @ + 1]
        /\ UNCHANGED <<plugged, gone, usb_dev_list, last_usb_list, failures>>
    BY <1>3 DEF RunUnderTermuxUsb, env
  <2>2. \A e \in Devices : e # d => requests'[e] = requests[e]
    BY <2>1
  <2>3. requests'[d] = requests[d] + 1
    BY <2>1
  <2>4. d \in Listed \cup gone
    BY <2>1 DEF AskInv, Listed
  <2>5. QED
    BY <2>1, <2>2, <2>3, <2>4 DEF AskInv, Listed
<1>4. ASSUME NEW d \in Devices, HandleLost(d) PROVE AskInv'
  BY <1>4 DEF HandleLost, env, scanner, history, listener, maps, walk, Close, AskInv, Listed
<1>5. CASE Start
  BY <1>5 DEF Start, env, history, listener, maps, walk, AskInv, Listed
<1>6. CASE StartFails
  BY <1>6 DEF StartFails, env, history, listener, maps, walk, AskInv, Listed
<1>7. CASE ListDevices
  BY <1>7 DEF ListDevices, env, maps, walk, AskInv, Listed
<1>8. CASE Requested
  BY <1>8 DEF Requested, env, history, listener, maps, walk, AskInv, Listed
<1>9. CASE Wake
  BY <1>9 DEF Wake, env, history, listener, maps, walk, AskInv, Listed
<1>10. CASE Join
  BY <1>10 DEF Join, env, history, listener, maps, walk, AskInv, Listed
<1>11. CASE Granted
  BY <1>11 DEF Granted, env, history, listener, maps, walk, AskInv, Listed
<1>12. CASE Refused
  BY <1>12 DEF Refused, env, listener, maps, walk, AskInv, Listed
<1>13. CASE Receive
  BY <1>13 DEF Receive, env, scanner, history, walk, AskInv, Listed
<1>14. CASE ReceiveNoFd
  BY <1>14 DEF ReceiveNoFd, env, scanner, history, maps, walk, NextMessage, AskInv, Listed
<1>15. CASE RecordFd
  BY <1>15 DEF RecordFd, env, scanner, history, walk, AskInv, Listed
<1>16. CASE SeekForSerial
  BY <1>16 DEF SeekForSerial, env, scanner, history, maps, walk, AskInv, Listed
<1>17. CASE ReadSerial
  BY <1>17 DEF ReadSerial, env, scanner, history, maps, walk, NextMessage, AskInv, Listed
<1>18. CASE RecordSerial
  BY <1>18 DEF RecordSerial, env, scanner, history, walk, NextMessage, AskInv, Listed
<1>19. CASE OpenBase
  BY <1>19 DEF OpenBase, env, scanner, history, listener, maps, AskInv, Listed
<1>20. CASE RegisterDevice
  BY <1>20 DEF RegisterDevice, env, scanner, history, listener, maps, AskInv, Listed
<1>21. CASE PassOver
  BY <1>21 DEF PassOver, env, scanner, history, listener, maps, Close, AskInv, Listed
<1>22. ASSUME NEW b \in Buses, OpenBus(b) PROVE AskInv'
  BY <1>22 DEF OpenBus, env, scanner, history, listener, maps, AskInv, Listed
<1>23. ASSUME NEW d \in Devices, SkipDevice(d) PROVE AskInv'
  BY <1>23 DEF SkipDevice, env, scanner, history, listener, maps, AskInv, Listed
<1>24. ASSUME NEW d \in Devices, OpenDevice(d) PROVE AskInv'
  BY <1>24 DEF OpenDevice, env, scanner, history, listener, maps, Rewound, AskInv, Listed
<1>25. CASE UNCHANGED vars
  BY <1>25 DEF vars, env, scanner, history, listener, maps, walk, AskInv, Listed
<1>26. ASSUME NEW d \in Devices, HandleClosed(d) PROVE AskInv'
  BY <1>26 DEF HandleClosed, env, scanner, history, listener, maps, walk, AskInv, Listed
<1>27. CASE ReceiveFails
  BY <1>27 DEF ReceiveFails, env, scanner, history, maps, walk, AskInv, Listed
<1> QED
  BY <1>1, <1>2, <1>3, <1>4, <1>5, <1>6, <1>7, <1>8, <1>9, <1>10, <1>11, <1>12, <1>13, <1>14,
     <1>15, <1>16, <1>17, <1>18, <1>19, <1>20, <1>21, <1>22, <1>23, <1>24, <1>25, <1>26,
     <1>27 DEF Next

-----------------------------------------------------------------------------
(***************************************************************************)
(* The theorems.                                                           *)
(***************************************************************************)
LEMMA TInvAlways == Spec => []TInv
BY InitTInv, TInvNext, PTL DEF Spec

LEMMA WalkInvAlways == Spec => []WalkInv
<1>1. Init => WalkInv
  BY DEF Init, WalkInv, Idle
<1>2. TInv /\ WalkInv /\ [Next]_vars => WalkInv'
  BY WalkInvNext
<1> QED
  BY <1>1, <1>2, TInvAlways, PTL DEF Spec

\* Every variable keeps its type: fastboot's count of messages is never
\* taken below zero, and only devices and descriptors get into the maps.
THEOREM TypeCorrect == Spec => []TypeOK
<1>1. TInv => TypeOK
  BY DEF TInv
<1> QED
  BY <1>1, TInvAlways, PTL

\* The descriptors in USB_FD_MAP, in the walk and in the handles stay open on
\* the devices they were received for, whatever is lost or replaced; what
\* fastboot closes itself does not become another device's.
THEOREM FdsStayApart == Spec => []FdsNotCrossed
<1>1. Init => FdsInv
  BY DEF Init, FdsInv, FdsNotCrossed
<1>2. TInv /\ WalkInv /\ FdsInv /\ [Next]_vars => FdsInv'
  BY FdsInvNext
<1>3. FdsInv => FdsNotCrossed
  BY DEF FdsInv
<1> QED
  BY <1>1, <1>2, <1>3, TInvAlways, WalkInvAlways, PTL DEF Spec

\* fastboot looks for a device only after the listener's last message, so
\* its walk shares no offset with the listener and misses none it was given,
\* unless it failed to receive.
THEOREM FastbootAlone == Spec => []FastbootWalksAlone
<1>1. TInv /\ WalkInv => FastbootWalksAlone
  BY DEF TInv, EnoughLeft, ListenerBusy, WalkInv, FastbootWalksAlone
<1> QED
  BY <1>1, TInvAlways, WalkInvAlways, PTL

\* The user is asked for a device at most once more than the listing failed.
THEOREM AskedOnceAlways == Spec => []AskedOnce
<1>1. Init => AskInv
  BY DEF Init, AskInv, Listed
<1>2. TInv /\ AskInv /\ [Next]_vars => AskInv'
  BY AskInvNext
<1>3. AskInv => AskedOnce
  BY DEF AskInv, AskedOnce
<1> QED
  BY <1>1, <1>2, <1>3, TInvAlways, PTL DEF Spec

=============================================================================
