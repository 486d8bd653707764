---------------------------- MODULE DeviceList ----------------------------
(***************************************************************************)
(* The devices of patches/sources/libusb_freebsd_usb.c: enumeration of the *)
(* ugen nodes into reference-counted libusb_device objects, the cached     *)
(* descriptor of the active configuration, handles, and the change of a    *)
(* configuration.  The programs that call it are in HotplugScan,           *)
(* FastbootTransport and UsbPrograms.                                      *)
(*                                                                         *)
(* An object is a block of memory: once freed it may be allocated again    *)
(* for another device.  A device is one plugging in; the kernel gives it a *)
(* node, which an earlier device may have had.  The reference counts and   *)
(* the search by session id are libusb's, modelled from how the file uses  *)
(* them: an object is found by its session id as long as it is referenced. *)
(***************************************************************************)
EXTENDS Integers

CONSTANTS
  Nodes,    \* /dev/ugen<bus>.<addr>; bus and address are the session id
  Devices,
  Configs,  \* values of bConfigurationValue
  Objects,  \* struct libusb_device
  NULL

ASSUME NullAssumption ==
  /\ NULL \notin Nodes \cup Devices \cup Objects
  /\ \A s \in (SUBSET Nodes) \cup (SUBSET Objects) : s # NULL
ASSUME ConfigsAssumption == Configs # {}

VARIABLES
  at,      \* [Nodes -> Devices or NULL]: the device behind a node
  plugged, \* the devices that have been plugged in so far
  active,  \* [Devices -> Configs]: the configuration a device is in
  refs,    \* [Objects -> Nat]: refcnt, 0 when the object is free
  node,    \* [Objects -> Nodes or NULL]: devnode and session id
  desc,    \* [Objects -> Devices or NULL]: whose device_descriptor it holds
  cdesc,   \* [Objects -> Descriptors or NULL]: the cached configuration
  cache,   \* [Objects -> "current", "due" or "missed"]: set_configuration
           \* has to refresh cdesc; or it could not, or was not called
  handle,  \* [Objects -> Devices or NULL]: the device an open handle reaches
  todo,    \* the nodes readdir() has yet to return, NULL between two calls
  found    \* the objects listed so far, or in the list a program holds

kernel == <<at, plugged, active>>
objects == <<refs, node, desc, cdesc, cache>>
devVars == <<kernel, objects, handle, todo, found>>

Descriptors == [of : Devices, config : Configs]

DevTypeOK ==
  /\ at \in [Nodes -> Devices \cup {NULL}]
  /\ plugged \subseteq Devices
  /\ active \in [Devices -> Configs]
  /\ refs \in [Objects -> Nat]
  /\ node \in [Objects -> Nodes \cup {NULL}]
  /\ desc \in [Objects -> Devices \cup {NULL}]
  /\ cdesc \in [Objects -> Descriptors \cup {NULL}]
  /\ cache \in [Objects -> {"current", "due", "missed"}]
  /\ handle \in [Objects -> Devices \cup {NULL}]
  /\ todo \in (SUBSET Nodes) \cup {NULL}
  /\ found \subseteq Objects

\* The kernel puts a device that is plugged in into its first configuration.
FirstConfig == CHOOSE c \in Configs : TRUE

DevInit ==
  /\ at = [n \in Nodes |-> NULL]
  /\ plugged = {}
  /\ active = [d \in Devices |-> FirstConfig]
  /\ refs = [o \in Objects |-> 0]
  /\ node = [o \in Objects |-> NULL]
  /\ desc = [o \in Objects |-> NULL]
  /\ cdesc = [o \in Objects |-> NULL]
  /\ cache = [o \in Objects |-> "current"]
  /\ handle = [o \in Objects |-> NULL]
  /\ todo = NULL
  /\ found = {}

Listing == todo # NULL

(***************************************************************************)
(* References                                                              *)
(***************************************************************************)

\* One reference more for each object of added, one less for each of
\* dropped.  The last one frees the object and, in fbsd_destroy_device, cdesc.
Count(added, dropped) ==
  LET left == [o \in Objects |-> refs[o] + (IF o \in added THEN 1 ELSE 0)
                                         - (IF o \in dropped THEN 1 ELSE 0)]
  IN /\ refs' = left
     /\ node' = [o \in Objects |-> IF left[o] = 0 THEN NULL ELSE node[o]]
     /\ desc' = [o \in Objects |-> IF left[o] = 0 THEN NULL ELSE desc[o]]
     /\ cdesc' = [o \in Objects |-> IF left[o] = 0 THEN NULL ELSE cdesc[o]]
     /\ cache' = [o \in Objects |-> IF left[o] = 0 THEN "current" ELSE cache[o]]

(***************************************************************************)
(* Kernel                                                                  *)
(***************************************************************************)

Plug(n, d) ==
  /\ at[n] = NULL /\ d \notin plugged
  /\ at' = [at EXCEPT ![n] = d]
  /\ plugged' = plugged \cup {d}
  /\ UNCHANGED <<active, objects, handle, todo, found>>

Unplug(n) ==
  /\ at[n] # NULL
  /\ at' = [at EXCEPT ![n] = NULL]
  /\ UNCHANGED <<plugged, active, objects, handle, todo, found>>

\* Another process changes the configuration of a device: the objects of this
\* one are not told.
Reconfigure(n, c) ==
  /\ at[n] # NULL /\ active[at[n]] # c
  /\ active' = [active EXCEPT ![at[n]] = c]
  /\ cache' = [o \in Objects |->
                IF refs[o] > 0 /\ desc[o] = at[n] /\ cache[o] = "current"
                THEN "missed" ELSE cache[o]]
  /\ UNCHANGED <<at, plugged, refs, node, desc, cdesc, handle, todo, found>>

Present(d) == \E n \in Nodes : at[n] = d

(***************************************************************************)
(* fbsd_get_device_list, a node a step: the node is opened first, and all  *)
(* that is read then comes from the device opened, or fails.               *)
(***************************************************************************)

\* Mutant: the first configuration, whichever the device is in.
ReadFirst(d) == [of |-> d, config |-> FirstConfig]

\* _cache_active_config_descriptor: the configuration the device is in.
ReadActive(d) == [of |-> d, config |-> active[d]]

\* usbi_get_device_by_session_id finds o.
IsListedAs(o, n) == refs[o] > 0 /\ node[o] = n

\* readdir() does not return the node, or the device has just left.
SkipAbsent(n) ==
  /\ Listing /\ n \in todo /\ at[n] = NULL
  /\ todo' = todo \ {n}
  /\ UNCHANGED <<kernel, objects, handle, found>>

\* open(), an ioctl or usbi_sanitize_device fails: a new object is freed again.
SkipFailing(n) ==
  /\ Listing /\ n \in todo /\ at[n] # NULL
  /\ todo' = todo \ {n}
  /\ UNCHANGED <<kernel, objects, handle, found>>

\* The session id is known: nothing but USB_GET_DEVICEINFO is read.
ListKnown(n) ==
  /\ Listing /\ n \in todo /\ at[n] # NULL
  /\ \E o \in Objects :
       /\ IsListedAs(o, n)
       /\ refs' = [refs EXCEPT ![o] = @ + 1]
       /\ found' = found \cup {o}
  /\ todo' = todo \ {n}
  /\ UNCHANGED <<kernel, node, desc, cdesc, cache, handle>>

ListNew(n) ==
  /\ Listing /\ n \in todo /\ at[n] # NULL
  /\ \A o \in Objects : ~IsListedAs(o, n)
  /\ \E o \in Objects :
       /\ refs[o] = 0
       /\ refs' = [refs EXCEPT ![o] = 1]
       /\ node' = [node EXCEPT ![o] = n]
       /\ desc' = [desc EXCEPT ![o] = at[n]]
       /\ cdesc' = [cdesc EXCEPT ![o] = ReadActive(at[n])]
       /\ found' = found \cup {o}
  /\ todo' = todo \ {n}
  /\ UNCHANGED <<kernel, cache, handle>>

\* usbi_alloc_device or discovered_devs_append returns NULL: the call fails.
\* That what was listed so far is given back then, and given back once, is up
\* to libusb: discovered_devs_append frees the list it cannot extend.
ListNoMem(n) ==
  /\ Listing /\ n \in todo /\ at[n] # NULL
  /\ Count({}, found)
  /\ found' = {}
  /\ todo' = NULL
  /\ UNCHANGED <<kernel, handle>>

ListNode(n) == SkipAbsent(n) \/ SkipFailing(n) \/ ListKnown(n) \/ ListNew(n)

(***************************************************************************)
(* Handles and configurations.  An object is opened once at a time, and a  *)
(* call through its handle ends before the next: two set_configuration at  *)
(* a time would both free and replace cdesc, which nothing locks.          *)
(***************************************************************************)

\* libusb_open and fbsd_open, by the node's path: another device may be there
\* by now.
OpenHandle(o) ==
  /\ refs[o] > 0 /\ handle[o] = NULL /\ at[node[o]] # NULL
  /\ handle' = [handle EXCEPT ![o] = at[node[o]]]
  /\ refs' = [refs EXCEPT ![o] = @ + 1]
  /\ UNCHANGED <<kernel, node, desc, cdesc, cache, todo, found>>

\* libusb_close and fbsd_close.
CloseHandle(o) ==
  /\ handle[o] # NULL /\ cache[o] # "due"
  /\ handle' = [handle EXCEPT ![o] = NULL]
  /\ Count({}, {o})
  /\ UNCHANGED <<kernel, todo, found>>

\* fbsd_set_configuration up to the ioctl, which fails when the device is
\* gone.
SetConfiguration(o, c) ==
  /\ handle[o] # NULL /\ Present(handle[o]) /\ cache[o] # "due"
  /\ active' = [active EXCEPT ![handle[o]] = c]
  /\ cache' = [cache EXCEPT ![o] = "due"]
  /\ UNCHANGED <<at, plugged, refs, node, desc, cdesc, handle, todo, found>>

\* ... and the refresh, through the path once more.
RefreshCache(o) ==
  /\ cache[o] = "due" /\ at[node[o]] # NULL
  /\ cdesc' = [cdesc EXCEPT ![o] = ReadActive(at[node[o]])]
  /\ cache' = [cache EXCEPT ![o] = "current"]
  /\ UNCHANGED <<kernel, refs, node, desc, handle, todo, found>>

\* The node cannot be opened, which is not reported, or a descriptor cannot be
\* read, which is: the old one stays.
MissRefresh(o) ==
  /\ cache[o] = "due"
  /\ cache' = [cache EXCEPT ![o] = "missed"]
  /\ UNCHANGED <<kernel, refs, node, desc, cdesc, handle, todo, found>>

(***************************************************************************)
(* Properties                                                              *)
(***************************************************************************)

\* The active configuration that libusb reports for a device that is there is
\* the one it is in, unless set_configuration is under way or could not read
\* it, or it was another process that changed it (cache tells): what is cached
\* when an object is made, kept when it is listed again and refreshed when it
\* changes stays true, although nothing is read again
\* (fbsd_get_active_config_descriptor answers from cdesc).
ConfigCached ==
  \A o \in Objects :
    refs[o] > 0 /\ desc[o] = at[node[o]] /\ cache[o] = "current"
      => cdesc[o] = [of |-> desc[o], config |-> active[desc[o]]]

===========================================================================
