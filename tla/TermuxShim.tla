----------------------------- MODULE TermuxShim -----------------------------
(***************************************************************************)
(* The shim of patches/termux/libtermuxadb that lets adb and fastboot use  *)
(* USB devices inside Termux: a scanner asks termux-usb for each new       *)
(* device, a child process sends the descriptor it is given over a socket, *)
(* a listener enters it in the maps of directories, descriptors and        *)
(* serials, and the program walks a /dev/bus/usb made from those maps.     *)
(*                                                                         *)
(* A device is one plugging in of a device: Linux gives each a path of its *)
(* own, while the path of its serial belongs to the port.  The walk is     *)
(* usb_linux.cpp, as scripts/patch-source.sh rewrites it.                  *)
(***************************************************************************)
EXTENDS Integers, Sequences, FiniteSets, SequencesExt

CONSTANTS
  Devices,         \* the paths /dev/bus/usb/<bus>/<device>
  Buses,           \* the directories they are in
  Base,            \* /dev/bus/usb
  Ports,           \* where devices are plugged in: a port's path names a serial
  Settings,        \* [bus : [Devices -> Buses], port : [Devices -> Ports],
                   \* failures : Nat]: a place for each device, and the times
                   \* "termux-usb -l" may fail
  MaxFds,          \* descriptors the process may have for devices
  NULL

Fds == 1..MaxFds
Names == Devices \cup Buses

ASSUME DevicesAssumption ==
  /\ IsFiniteSet(Devices)
  /\ Settings \subseteq [bus : [Devices -> Buses], port : [Devices -> Ports], failures : Nat]
ASSUME NamesAssumption ==
  /\ Base \notin Names
  /\ NULL \notin Names
ASSUME BoundsAssumption == MaxFds \in Nat

VARIABLES
  setting,        \* one of Settings, for good
  mode,           \* which program runs: "adb" or "fastboot"
  plugged,        \* the devices plugged in
  gone,           \* those plugged in and out again
  spc,            \* where scan_for_usb_devices or authorize_connected_devices is
  usb_dev_list,
  last_usb_list,
  todo,           \* what is left of usb_dev_list_iter
  asking,         \* the device termux-usb runs for, or NULL
  socket,         \* the datagrams: a path and a descriptor of its device
  lpc,            \* where start_socket_listener is
  left,           \* fastboot: the messages still to be received
  usb_fd,         \* the listener's, or 0
  DIR_MAP,        \* [{Base} \cup Buses -> SUBSET Names]; no key: {}
  USB_FD_MAP,     \* [Devices -> Fds or 0]; no key: 0
  USB_SERIAL_MAP, \* [Ports -> the device whose serial it holds, or NULL]
  files,          \* [Fds -> the device the descriptor is open on, or NULL]
  at_start,       \* the descriptors whose file offset is 0
  busdir,         \* find_usb_device: what readdir has still to return
  devdir,
  fd,             \* the descriptor it has open, or 0
  dev_name,
  handles,        \* [Devices -> Fds or 0]: the usb_handles registered
  failures,       \* history: failures of "termux-usb -l" so far
  requests,       \* history: [Devices -> Nat], how often the user was asked
  refused,        \* history: a request was refused or failed
  missed          \* history: fastboot's listener failed to receive

BusOf == setting.bus

PortOf == setting.port

MaxListFailures == setting.failures

env == <<setting, mode, plugged, gone>>
scanner == <<spc, usb_dev_list, last_usb_list, todo, asking>>
history == <<failures, requests, refused>>
listener == <<lpc, left, usb_fd, missed>>
maps == <<DIR_MAP, USB_FD_MAP, USB_SERIAL_MAP>>
walk == <<busdir, devdir, fd, dev_name>>
vars == <<env, scanner, history, socket, listener, maps, files, at_start, walk, handles>>

TypeOK ==
  /\ setting \in Settings
  /\ mode \in {"adb", "fastboot"}
  /\ plugged \subseteq Devices
  /\ gone \subseteq Devices
  /\ spc \in {"start", "list", "request", "sleep", "join", "done"}
  /\ usb_dev_list \subseteq Devices
  /\ last_usb_list \subseteq Devices
  /\ todo \subseteq Devices
  /\ asking \in Devices \cup {NULL}
  /\ failures \in 0..MaxListFailures
  /\ requests \in [Devices -> Nat]
  /\ refused \in BOOLEAN
  /\ missed \in BOOLEAN
  /\ socket \in Seq(Devices)
  /\ lpc \in {"recv", "fd", "seek", "read", "serial"}
  /\ left \in Nat
  /\ usb_fd \in Fds \cup {0}
  /\ DIR_MAP \in [{Base} \cup Buses -> SUBSET Names]
  /\ USB_FD_MAP \in [Devices -> Fds \cup {0}]
  /\ USB_SERIAL_MAP \in [Ports -> Devices \cup {NULL}]
  /\ files \in [Fds -> Devices \cup {NULL}]
  /\ at_start \subseteq Fds
  /\ busdir \subseteq Names
  /\ devdir \subseteq Names
  /\ fd \in Fds \cup {0}
  /\ dev_name \in Devices \cup {NULL}
  /\ handles \in [Devices -> Fds \cup {0}]

\* A port takes one device at a time.
OneToAPort(ds) == \A d, e \in ds : PortOf[d] = PortOf[e] => d = e

Init ==
  /\ setting \in Settings
  /\ mode \in {"adb", "fastboot"}
  /\ plugged \in {ds \in SUBSET Devices : OneToAPort(ds)}
  /\ gone = {}
  /\ spc = "start"
  /\ usb_dev_list = {}
  /\ last_usb_list = {}
  /\ todo = {}
  /\ asking = NULL
  /\ failures = 0
  /\ requests = [d \in Devices |-> 0]
  /\ refused = FALSE
  /\ missed = FALSE
  /\ socket = <<>>
  /\ lpc = "recv"
  /\ left = 0
  /\ usb_fd = 0
  /\ DIR_MAP = [n \in {Base} \cup Buses |-> {}]
  /\ USB_FD_MAP = [d \in Devices |-> 0]
  /\ USB_SERIAL_MAP = [p \in Ports |-> NULL]
  /\ files = [n \in Fds |-> NULL]
  /\ at_start = {}
  /\ busdir = {}
  /\ devdir = {}
  /\ fd = 0
  /\ dev_name = NULL
  /\ handles = [d \in Devices |-> 0]

-----------------------------------------------------------------------------
(***************************************************************************)
(* The user plugs devices in and out.                                      *)
(***************************************************************************)
Plug(d) ==
  /\ d \notin plugged \cup gone
  /\ plugged' = plugged \cup {d}
  /\ OneToAPort(plugged')
  /\ UNCHANGED <<setting, mode, gone, scanner, history, socket, listener, maps, files, at_start,
                 walk, handles>>

Unplug(d) ==
  /\ d \in plugged
  /\ plugged' = plugged \ {d}
  /\ gone' = gone \cup {d}
  /\ UNCHANGED <<setting, mode, scanner, history, socket, listener, maps, files, at_start,
                 walk, handles>>

-----------------------------------------------------------------------------
(***************************************************************************)
(* The scanner: for ever in a thread of adb, once in fastboot's main.      *)
(***************************************************************************)

\* start() and authorize_connected_devices() up to the first listing.
Start ==
  /\ spc = "start"
  /\ spc' = "list"
  /\ UNCHANGED <<env, usb_dev_list, last_usb_list, todo, asking, history, socket, listener,
                 maps, files, at_start, walk, handles>>

\* termux-usb is not installed, or there is no socket pair: the shim stays empty.
StartFails ==
  /\ spc = "start"
  /\ spc' = "done"
  /\ UNCHANGED <<env, usb_dev_list, last_usb_list, todo, asking, history, socket, listener,
                 maps, files, at_start, walk, handles>>

\* Mutant of MessagesFor: the range includes its end.
MessagesForOneMore(new) == Cardinality(new) + 1

\* Mutant of MessagesFor: the range stops one short.
MessagesForOneLess(new) == IF new = {} THEN 0 ELSE Cardinality(new) - 1

\* device_count of authorize_connected_devices
MessagesFor(new) == Cardinality(new)

\* get_termux_usb_list: a failure of any kind is an empty list.  fastboot
\* starts its listener with the length of the list.
ListDevices ==
  /\ spc = "list"
  /\ spc' = "request"
  /\ \/ usb_dev_list' = plugged /\ UNCHANGED failures
     \/ /\ failures < MaxListFailures
        /\ failures' = failures + 1
        /\ usb_dev_list' = {}
  /\ todo' = usb_dev_list' \ last_usb_list
  /\ left' = IF mode = "fastboot" THEN MessagesFor(usb_dev_list') ELSE left
  /\ UNCHANGED <<env, last_usb_list, asking, requests, refused, socket, lpc, usb_fd, missed,
                 maps, files, at_start, walk, handles>>

\* request_usb_fds, one device: run_under_termux_usb waits for the child.
RunUnderTermuxUsb(d) ==
  /\ spc = "request"
  /\ asking = NULL
  /\ d \in todo
  /\ todo' = todo \ {d}
  /\ asking' = d
  /\ requests' = [requests EXCEPT ![d] = @ + 1]
  /\ UNCHANGED <<env, spc, usb_dev_list, last_usb_list, failures, refused, socket, listener,
                 maps, files, at_start, walk, handles>>

\* The user grants it: the child, adb or fastboot run again by termux-usb,
\* sends path and descriptor (sendfd_to_adb) and ends.
Granted ==
  /\ asking # NULL
  /\ asking \in plugged
  /\ socket' = Append(socket, asking)
  /\ asking' = NULL
  /\ UNCHANGED <<env, spc, usb_dev_list, last_usb_list, todo, history, listener, maps, files,
                 at_start, walk, handles>>

\* The user refuses, the device is gone, or the child cannot send.
Refused ==
  /\ asking # NULL
  /\ refused' = TRUE
  /\ asking' = NULL
  /\ UNCHANGED <<env, spc, usb_dev_list, last_usb_list, todo, failures, requests, socket,
                 listener, maps, files, at_start, walk, handles>>

\* Mutant of Requested: the last list is kept.
RequestedKeepsLast ==
  /\ spc = "request"
  /\ asking = NULL
  /\ todo = {}
  /\ spc' = IF mode = "adb" THEN "sleep" ELSE "join"
  /\ usb_dev_list' = {}
  /\ UNCHANGED <<env, last_usb_list, todo, asking, history, socket, listener, maps,
                 files, at_start, walk, handles>>

\* All were asked for: adb moves the list to last_usb_list, fastboot has no
\* more use for it and waits for the listener.
Requested ==
  /\ spc = "request"
  /\ asking = NULL
  /\ todo = {}
  /\ spc' = IF mode = "adb" THEN "sleep" ELSE "join"
  /\ last_usb_list' = IF mode = "adb" THEN usb_dev_list ELSE last_usb_list
  /\ usb_dev_list' = {}
  /\ UNCHANGED <<env, todo, asking, history, socket, listener, maps, files,
                 at_start, walk, handles>>

\* The two seconds between scans are over.
Wake ==
  /\ spc = "sleep"
  /\ spc' = "list"
  /\ UNCHANGED <<env, usb_dev_list, last_usb_list, todo, asking, history, socket, listener,
                 maps, files, at_start, walk, handles>>

\* hnd.join(): the listener has received its last message and ended.
Join ==
  /\ spc = "join"
  /\ lpc = "recv"
  /\ left = 0
  /\ spc' = "done"
  /\ UNCHANGED <<env, usb_dev_list, last_usb_list, todo, asking, history, socket, listener,
                 maps, files, at_start, walk, handles>>

ScannerStep ==
  \/ Start \/ StartFails \/ ListDevices \/ Requested \/ Wake \/ Join
  \/ \E d \in todo : RunUnderTermuxUsb(d)

-----------------------------------------------------------------------------
(***************************************************************************)
(* The listener.  The message is at the head of socket until its iteration *)
(* is over, which gives usb_dev_path.                                      *)
(***************************************************************************)
usb_dev_path == Head(socket)

FreeFds == {n \in Fds : files[n] = NULL}

\* The kernel takes the lowest free descriptor.
LowestFree == CHOOSE n \in FreeFds : \A m \in FreeFds : n <= m

\* Mutant of NextMessage: adb's endless range counted down as well.
NextMessageCounts ==
  /\ lpc' = "recv"
  /\ usb_fd' = 0
  /\ socket' = Tail(socket)
  /\ left' = left - 1

NextMessage ==
  /\ lpc' = "recv"
  /\ usb_fd' = 0
  /\ socket' = Tail(socket)
  /\ left' = IF mode = "fastboot" THEN left - 1 ELSE left

\* update_dir_map: the device in its bus, the bus in the base directory.
UpdateDirMap(d) ==
  DIR_MAP' = [DIR_MAP EXCEPT ![BusOf[d]] = @ \cup {d}, ![Base] = @ \cup {BusOf[d]}]

\* recv_with_fd installs the descriptor; DIR_MAP is updated under its lock.
Receive ==
  /\ lpc = "recv"
  /\ socket # <<>>
  /\ mode = "adb" \/ left > 0
  /\ FreeFds # {}
  /\ usb_fd' = LowestFree
  /\ files' = [files EXCEPT ![usb_fd'] = usb_dev_path]
  /\ at_start' = at_start \cup {usb_fd'}
  /\ UpdateDirMap(usb_dev_path)
  /\ lpc' = "fd"
  /\ UNCHANGED <<env, scanner, history, socket, left, missed, USB_FD_MAP, USB_SERIAL_MAP, walk,
                 handles>>

\* The process has no descriptor left: the message comes without its own.
ReceiveNoFd ==
  /\ lpc = "recv"
  /\ socket # <<>>
  /\ mode = "adb" \/ left > 0
  /\ FreeFds = {}
  /\ NextMessage
  /\ UNCHANGED <<env, scanner, history, missed, maps, files, at_start, walk, handles>>

\* recv fails and takes no message, which is one fewer for fastboot to wait
\* for: adb, whose range has no end, receives again.
ReceiveFails ==
  /\ lpc = "recv"
  /\ mode = "fastboot" /\ left > 0
  /\ left' = left - 1
  /\ missed' = TRUE
  /\ UNCHANGED <<env, scanner, history, socket, lpc, usb_fd, maps, files, at_start, walk, handles>>

\* USB_FD_MAP.insert: a descriptor from before is replaced and stays open.
RecordFd ==
  /\ lpc = "fd"
  /\ USB_FD_MAP' = [USB_FD_MAP EXCEPT ![usb_dev_path] = usb_fd]
  /\ lpc' = "seek"
  /\ UNCHANGED <<env, scanner, history, socket, left, usb_fd, missed, DIR_MAP, USB_SERIAL_MAP,
                 files, at_start, walk, handles>>

\* init_libusb_device_serial: lseek to the start ...
SeekForSerial ==
  /\ lpc = "seek"
  /\ at_start' = at_start \cup {usb_fd}
  /\ lpc' = "read"
  /\ UNCHANGED <<env, scanner, history, socket, left, usb_fd, missed, maps, files, walk, handles>>

\* ... open_device_with_fd, which reads the descriptors to their end, and
\* the serial's string descriptor ...
ReadSerial ==
  /\ lpc = "read"
  /\ at_start' = at_start \ {usb_fd}
  /\ \/ /\ usb_fd \in at_start
        /\ usb_dev_path \in plugged
        /\ lpc' = "serial"
        /\ UNCHANGED <<socket, left, usb_fd>>
     \/ NextMessage
  /\ UNCHANGED <<env, scanner, history, missed, maps, files, walk, handles>>

\* ... USB_SERIAL_MAP.insert, under the path of the device's port.
RecordSerial ==
  /\ lpc = "serial"
  /\ USB_SERIAL_MAP' = [USB_SERIAL_MAP EXCEPT ![PortOf[usb_dev_path]] = usb_dev_path]
  /\ NextMessage
  /\ UNCHANGED <<env, scanner, history, missed, DIR_MAP, USB_FD_MAP, files, at_start, walk, handles>>

ListenerStep ==
  Receive \/ ReceiveNoFd \/ RecordFd \/ SeekForSerial \/ ReadSerial \/ RecordSerial

-----------------------------------------------------------------------------
(***************************************************************************)
(* The program: adb's device poll thread, or fastboot looking for a device *)
(* once termuxadb::start() returned.                                       *)
(***************************************************************************)

\* Mutant of Close: the descriptor is closed.
CloseReally(n) == files' = [files EXCEPT ![n] = NULL]

\* termuxadb_close does nothing while the shim is on.
Close(n) == UNCHANGED files

\* A walk is over, or none was begun.
Idle == fd = 0 /\ busdir = {} /\ devdir = {}

\* termuxadb_opendir of the base directory takes a copy of its entries.
OpenBase ==
  /\ Idle
  /\ mode = "fastboot" => spc = "done" /\ \A d \in Devices : handles[d] = 0
  /\ busdir' = DIR_MAP[Base]
  /\ UNCHANGED <<env, scanner, history, socket, listener, maps, files, at_start, devdir, fd,
                 dev_name, handles>>

\* readdir gives a bus; opendir takes a copy of its entries.
OpenBus(b) ==
  /\ fd = 0
  /\ devdir = {}
  /\ b \in busdir
  /\ busdir' = busdir \ {b}
  /\ devdir' = DIR_MAP[b]
  /\ UNCHANGED <<env, scanner, history, socket, listener, maps, files, at_start, fd, dev_name,
                 handles>>

\* A device adb knows already, or one without a descriptor in the map, for
\* which open() falls through to libc and fails, is passed over.
SkipDevice(d) ==
  /\ fd = 0
  /\ d \in devdir
  /\ handles[d] # 0 \/ USB_FD_MAP[d] = 0
  /\ devdir' = devdir \ {d}
  /\ UNCHANGED <<env, scanner, history, socket, listener, maps, files, at_start, busdir, fd,
                 dev_name, handles>>

\* Mutant of Rewound: the offset stays where the last read left it.
RewoundNot(n) == at_start

\* lseek(usb_fd, 0, SeekSet), which fails on a descriptor that is closed.
Rewound(n) == IF files[n] = NULL THEN at_start ELSE at_start \cup {n}

\* termuxadb_open returns the descriptor in the map.
OpenDevice(d) ==
  /\ fd = 0
  /\ d \in devdir
  /\ handles[d] = 0
  /\ USB_FD_MAP[d] # 0
  /\ devdir' = devdir \ {d}
  /\ fd' = USB_FD_MAP[d]
  /\ dev_name' = d
  /\ at_start' = Rewound(fd')
  /\ UNCHANGED <<env, scanner, history, socket, listener, maps, files, busdir, handles>>

\* A read from the start of a device that is there gives its descriptors.
ReadsWhole == fd \in at_start /\ files[fd] \in plugged

\* adb goes on with its walk, fastboot stops at the first device.
RegisterDevice ==
  /\ fd # 0
  /\ ReadsWhole
  /\ handles' = [handles EXCEPT ![dev_name] = fd]
  /\ at_start' = at_start \ {fd}
  /\ fd' = 0
  /\ dev_name' = NULL
  /\ IF mode = "adb" THEN UNCHANGED <<busdir, devdir>> ELSE busdir' = {} /\ devdir' = {}
  /\ UNCHANGED <<env, scanner, history, socket, listener, maps, files>>

\* Anything else is closed and passed over; for fastboot also a device it
\* has no use for or cannot claim.
PassOver ==
  /\ fd # 0
  /\ ReadsWhole => mode = "fastboot"
  /\ at_start' = at_start \ {fd}
  /\ Close(fd)
  /\ fd' = 0
  /\ dev_name' = NULL
  /\ UNCHANGED <<env, scanner, history, socket, listener, maps, busdir, devdir, handles>>

\* adb's transport of a device that is gone ends and closes its handle, by way
\* of the shim (patch-source.sh:1543).
HandleLost(d) ==
  /\ mode = "adb"
  /\ handles[d] # 0
  /\ files[handles[d]] \notin plugged
  /\ handles' = [handles EXCEPT ![d] = 0]
  /\ Close(handles[d])
  /\ UNCHANGED <<env, scanner, history, socket, listener, maps, at_start, walk>>

\* fastboot's transport closes its descriptor whenever it is done with the
\* device, and with libc's close: the map goes on handing it out.
HandleClosed(d) ==
  /\ mode = "fastboot"
  /\ handles[d] # 0
  /\ handles' = [handles EXCEPT ![d] = 0]
  /\ files' = [files EXCEPT ![handles[d]] = NULL]
  /\ UNCHANGED <<env, scanner, history, socket, listener, maps, at_start, walk>>

WalkStep ==
  \/ OpenBase \/ RegisterDevice \/ PassOver
  \/ \E b \in Buses : OpenBus(b)
  \/ \E d \in Devices : SkipDevice(d) \/ OpenDevice(d)

-----------------------------------------------------------------------------
Next ==
  \/ \E d \in Devices : Plug(d) \/ Unplug(d) \/ RunUnderTermuxUsb(d)
  \/ \E d \in Devices : HandleLost(d) \/ HandleClosed(d)
  \/ Start \/ StartFails \/ ListDevices \/ Requested \/ Wake \/ Join
  \/ Granted \/ Refused
  \/ Receive \/ ReceiveNoFd \/ ReceiveFails
  \/ RecordFd \/ SeekForSerial \/ ReadSerial \/ RecordSerial
  \/ OpenBase \/ RegisterDevice \/ PassOver
  \/ \E b \in Buses : OpenBus(b)
  \/ \E d \in Devices : SkipDevice(d) \/ OpenDevice(d)

(***************************************************************************)
(* The threads run when they can and the user answers; nobody need plug or *)
(* unplug anything.                                                        *)
(***************************************************************************)
Fairness ==
  /\ WF_vars(ScannerStep)
  /\ WF_vars(Granted \/ Refused)
  /\ WF_vars(ListenerStep)
  /\ WF_vars(WalkStep)

Spec == Init /\ [][Next]_vars

FairSpec == Spec /\ Fairness

-----------------------------------------------------------------------------
(***************************************************************************)
(* Safety.                                                                 *)
(***************************************************************************)

\* fastboot's own close leaves a number in the map that is nobody's.
KeptFor(n, d) == files[n] = d \/ (mode = "fastboot" /\ files[n] = NULL)

\* Every descriptor in the map, in the walk and in a handle is still open
\* on the device it is kept for: no close frees a number the others use.
\* Where fastboot has closed it itself, it is never another device's.
FdsNotCrossed ==
  /\ \A d \in Devices :
       /\ USB_FD_MAP[d] # 0 => KeptFor(USB_FD_MAP[d], d)
       /\ handles[d] # 0 => files[handles[d]] = d
  /\ fd # 0 => KeptFor(fd, dev_name)
  /\ usb_fd # 0 => files[usb_fd] = usb_dev_path

\* The user is asked once for a device as long as the listing works; each
\* failure of it may cost one request more, as every device looks new then.
AskedOnce == \A d \in Devices : requests[d] <= 1 + failures

\* fastboot walks only when the listener has ended, so nobody moves the offset
\* it reads at, and with every message, so no device it was given is missing,
\* unless it failed to receive one.
FastbootWalksAlone ==
  mode = "fastboot" /\ ~Idle =>
    /\ lpc = "recv" /\ left = 0
    /\ socket = <<>> \/ missed
    /\ fd # 0 => fd \in at_start \/ files[fd] = NULL

(***************************************************************************)
(* Liveness.                                                               *)
(***************************************************************************)

\* adb finds a device whose descriptor was sent, however its walk and the
\* listener's reading of the serial interleave, unless it is unplugged or
\* there is no descriptor left to receive.
GrantedIsFound ==
  \A d \in Devices :
    mode = "adb" /\ Contains(socket, d) ~>
      handles[d] # 0 \/ d \notin plugged \/ FreeFds = {}

\* fastboot gets past termuxadb::start() when no request was refused.
FastbootStarts == mode = "fastboot" ~> spc = "done" \/ refused

=============================================================================
