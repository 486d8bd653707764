# android-sdk-custom: verification project

This directory models the parts of android-sdk-custom that have logic of their
own, checks the models with TLC and proves what can be proved with TLAPS. Paths
below are relative to the repository unless they name a file of this directory.

The repository builds Google's Android SDK tools (adb, fastboot, aapt2, ...) for
systems Google does not ship them for: Linux on musl, FreeBSD, NetBSD, OpenBSD,
Termux, Windows and macOS. It fetches the AOSP sources, patches them, adds C, C++
and Rust code where a system lacks something, turns Soong's `Android.bp` files
into CMake with a builder written in Python, builds, and splices the result into
an official SDK package.

## 1. Inventory

### Components

| component | code | state it keeps | operations |
|---|---|---|---|
| Asynchronous transfer queue (`sdk_aq`) | `patches/sources/libusb_bsd_async.inc`; `scripts/patch-source.sh:1213-1231` puts it into libusb's NetBSD and OpenBSD backends | per (handle, endpoint): list `head`/`tail`, `cur`, `cancel_cur`, `running`, the thread; a list of results; a thread-local interrupt flag | submit, cancel, worker, kicker, SIGURG handler, completion handling |
| FreeBSD libusb backend | `patches/sources/libusb_freebsd_usb.c` | per handle: the lock, four USB-FS slots (`ep_no`, `ep_bufsize`), completions drained by any thread (`done`, `cstatus`, `cactlen`); per device: cached descriptors | open, close, bulk and interrupt transfers, control transfers, device list, descriptors and configurations |
| adb hotplug scan | `patches/sources/adb_libusb_scan.inc` | known and departed devices; the queue of events it fills | a scan every two seconds; arrived and left events |
| fastboot transport | `patches/sources/fastboot_usb_libusb.cpp` | a claimed handle and two endpoints | open, chunked read and write, reset, close |
| Termux adb shim | `patches/termux/libtermuxadb/src/lib.rs` | maps of directories, descriptors and serials under three locks; the last list of devices | scan, requests for access, listener thread, hooked `opendir`, `readdir`, `open`, `close` |
| Soong loader | `builder/soong.py` | modules by name, overlays, namespaces | load, lookup, flatten (defaults, arch and OS variants, product variables) |
| Blueprint evaluator | `builder/blueprint.py` | scopes of variables | parse, evaluate `select()`, append properties |
| Soong to CMake converter | `builder/convert.py`, driven by `builder/__main__.py` | targets by name, the order they are written in, the conversions under way | convert a module and, on demand, everything it depends on |
| CMake emission | `builder/cmake.py` | none | text of `CMakeLists.txt`; link lists, whole archives |
| Source fetching | `scripts/fetch-source.sh` | directories of clones | clone with retries, checkout by tag, replace libusb |
| SDK assembly | `scripts/make-sdk.sh`, `scripts/macos-sign.sh` | an unpacked SDK | choose versions, download and unpack with retries, splice tools |
| Build driver | `scripts/build.sh` | build directories | configure, build, strip, package |
| Source patching | `scripts/patch-source.sh`, `scripts/patch-bigendian.py` | the fetched sources | text substitutions |
| musl replacements | `patches/musl/...` | none | `resolv.conf` parsing, `faccessat`, `tmpfile`, `tmpnam` |
| libc fallbacks | `patches/misc/strl_compat.h`, `host_compat.h`, `bionic_wipeonfork_compat.c` | the table of ranges to wipe after a fork | `strlcpy`, `strlcat`, `getline`, `hasmntopt`, `qsort_r`, `madvise(MADV_WIPEONFORK)` |
| openscreen network interfaces | `patches/sources/openscreen_network_interface_bsd.cc` | none | what `getifaddrs` lists, as openscreen wants it |
| Glue | `patches/sources/adb_usb_bsd.cpp` and its neighbours | none | single calls into a system |

### How they interact

* adb's reader and writer call libusb. libusb calls the backend's
  `submit_transfer`, which is `sdk_aq_submit`. A worker thread of the queue takes
  one transfer of its endpoint at a time and runs the backend's *synchronous*
  transfer function without the queue's lock: `fbsd_submit_transfer` on FreeBSD
  (a `poll()` loop that watches `sdk_aq_interrupted`), a blocking `read()` or
  `write()` on NetBSD and OpenBSD.
* A cancel sets a flag and sends SIGURG to the worker; a kicker thread repeats the
  signal, because one that lands just before `read()` is lost.
* Completions go through libusb's own list to the event thread, which calls back
  `sdk_aq_handle_completion` and then the owner. The owner may submit the same
  transfer again from the callback.
* On FreeBSD the workers of all endpoints of a handle meet again at the handle's
  lock and at the one completion queue of the USB-FS interface: whichever thread
  drains it stores the completions of the others in the table.
* adb's scan and fastboot's `usb_open` list devices through the same enumeration,
  `fbsd_get_device_list`. libusb counts the references to a device: those of a list,
  of an open handle, and of the scan, which keeps one for each device it knows
  and gives it up a scan after the device has left. Events about arrivals and departures
  go to adb's hotplug thread by pointer.
* `builder/__main__.py` asks `Loader` for modules and `Converter` for targets.
  `convert()` asks the loader which module a name means *as seen from* the module
  that says it, and calls itself for each dependency. `Emitter` writes what
  `Converter.order` holds.
* The Termux shim's scanner runs `termux-usb` for each new device. That starts adb
  or fastboot a second time; the child sends the device's path and descriptor over
  a datagram socket and ends. A listener thread enters them in three maps, which the
  hooked `opendir`, `readdir` and `open` serve to the unchanged walk of
  `/dev/bus/usb`. Listener and walk read the same descriptor, at one file offset.
* The scripts talk through the file system: a directory that exists counts as
  fetched.

### Which behaviours are hard

* Interleaving: submit, cancel, kicker, worker, signal handler, event thread and
  the owner's callback on one transfer. A success is signalled before the worker
  takes the lock again.
* Shared completions: two threads drain one queue with a cancel, a timeout or an
  unplugged device in between.
* Lost and late signals.
* Reference counts on every way out of an enumeration; memory that is freed and used
  again for another device; nodes that another device gets.
* A fork between any two steps of another thread.
* Failing allocations and thread creation; failing ioctls half way through.
* Maps under three locks, updated one after the other; descriptors shared by
  threads; a thread that is joined after a number of messages.
* Recursion over cyclic dependencies, with records that are used while they are
  still being filled and that can be reached under two names.
* Retries and reruns of scripts over half-made directories.

### What makes each component correct

* Queue: a submitted transfer is reported exactly once, in the order of its
  endpoint, with how it really ended; an accepted cancel brings it back even if
  the device never answers; a list without a worker is empty.
* FreeBSD transfers: no completion is lost, doubled or taken for another transfer;
  a slot is idle after every return; the slot table agrees with the kernel; every
  wait ends.
* Converter: a module has one target, in any cycle and under any alias; a target
  is linked to what the loader finds; no half-filled list is copied; everything
  made is written; it ends.
* Devices: an object's reference count is the number of its holders; the cached
  configuration is the one the device is in.
* Hotplug: a device that is there is known, one that left is released once, and the
  hotplug thread is told of both in turn.
* fastboot: a write reports success only if every byte went out; `usb_open` gives back
  what it does not keep.
* Termux shim: a device whose descriptor was sent is found; a descriptor stays with its
  device; the user is not asked for a device again and again; fastboot starts.
* libc fallbacks: each call does what the manual page of the function it stands for
  says; a child finds nothing in a range that was to be wiped.
* Network: the resolver uses what `resolv.conf` configures; openscreen sees the active
  interfaces once each, with their prefixes.
* Loader: flattening applies each defaults module once and in order; a variant
  overrides what is more general.
* Fetching: a directory that a later run finds is complete and of this release.

The hazards behind these, each with its line, are in `PROJECT.json`.

## 2. Modules

| module | what it is |
|---|---|
| `TransferService` | abstract specification: what the queue promises its clients |
| `AsyncQueue` | the queue: threads, lock, signals, results |
| `MCAsyncQueue` | the queue's instances for TLC |
| `ListLemmas` | lemmas on sequences used as linked lists |
| `AsyncQueue_proofs` | theorems about the queue |
| `AsyncQueueService_proofs` | the queue implements the service |
| `SyncSubmit` | abstract specification: what a blocking call of the backend promises the queue |
| `FsBackend` | FreeBSD bulk and interrupt transfers of one handle |
| `MCFsBackend` | its instances for TLC |
| `FsBackend_proofs` | theorems about it |
| `Converter` | the builder's conversion |
| `MCConverter` | its trees for TLC |
| `Converter_proofs` | theorems about it |
| `TermuxShim` | the Termux shim's scanner and listener, and the walk they serve |
| `MCTermuxShim` | its instances for TLC |
| `TermuxShim_proofs` | theorems about it |
| `DeviceList` | the FreeBSD backend's enumeration, references, cached configurations |
| `HotplugScan` | adb's scan and hotplug thread over it |
| `FastbootTransport` | fastboot's `usb_open` and transport over it |
| `UsbPrograms` | the composition: adb, fastboot, or a client that changes configurations |
| `MCUsbPrograms` | its instance for TLC |
| `UsbPrograms_proofs` | theorems about it |
| `Resolver` | `__get_resolv_conf`, and `resolv.conf(5)` |
| `NetInterfaces` | openscreen's interfaces and prefixes |
| `CStrings` | `strlcpy`, `strlcat`, `hasmntopt`, `getline` |
| `WipeOnFork` | the emulated `MADV_WIPEONFORK` |
| `LibcShims` | the composition, and `faccessat` |
| `MCLibcShims` | its calls for TLC |
| `LibcShims_proofs` | theorems about the calls and the wiping |

Each component module also holds, under the comment "Mutant", the forms of some
definitions that a plausible bug would give them. No specification uses them.
`PROJECT.json` says which property finds which of them, so that every property is
known to be breakable.

### AsyncQueue

One action is one critical section of `sdk_aq_lock`, one step of the transfer
function a worker runs without it, or the arrival of a signal.

| code | model |
|---|---|
| `struct sdk_aq` (`head`, `tail`, `cur`, `cancel_cur`, `running`) | `items`, `tail`, `cur`, `cancel_cur`, `running`, by queue |
| `sdk_aqs`, newest first | `sdk_aqs` |
| where the worker thread is | `pc`: `none`, `created`, `starting`, `blocked`, `relock` |
| return value of `SDK_AQ_SYNC_SUBMIT` | `err` |
| `sdk_aq_interrupted`, thread local | `interrupted` |
| SIGURG pending | `sigurg` |
| kicker threads | `kickers` |
| `sdk_aq_results` | `results` |
| libusb's completed list, the event thread, the IN_FLIGHT flag | `completed`, `event`, `inflight` |
| `sdk_aq_submit` | `Submit`, `SubmitNoThread` (`pthread_create` fails), `SubmitSync` (control transfers) |
| `sdk_aq_worker` | `WorkerStart`, `WorkerBlock`, `WorkerRelock`, with `PopItem` and `ExitWorker` |
| `SDK_AQ_SYNC_SUBMIT` | `WorkerSucceeds`, `WorkerFails`, `WorkerInterrupted` |
| `sdk_aq_cancel` | `CancelQueued`, `CancelRunning` |
| `sdk_aq_kicker`, `sdk_aq_on_signal` | `Kick`, `DeliverSignal` |
| `sdk_aq_handle_completion` | `TakeResult`, then `Deliver` (libusb and the callback) |

`asked` and `outcome` are history variables: the accepted cancels, and how a
transfer really ended.

Three constants say which system is meant. `Polls` is TRUE on FreeBSD, where the
wait loop looks at the flag, and FALSE on NetBSD and OpenBSD, where a signal only
helps if it arrives inside `read()`. `LateSignals` allows a SIGURG to arrive after
the worker has left the transfer it was sent for. `Oom` names what may fail:
creating the worker, creating the kicker, allocating a result.

The kicker stops after 600 signals, a minute. The model keeps a kicker's last
signal for when it helps (`MinuteIsLong`): within a minute one signal of many meets
the worker in `read()`. That is an assumption about time, not about the order of
steps, and `CancelReturns` on NetBSD and OpenBSD rests on it. It also rests on the
kicker being there: where its thread or its memory cannot be had (`.inc:268-275`) the one
signal of the cancel may be lost, and the transfer then waits for the device;
`AsyncQueueBSD.cfg` lets neither fail.

### FsBackend

The queue runs one transfer per endpoint, so a thread is named by its endpoint.
One action is one critical section of the handle's lock.

| code | model |
|---|---|
| `handle_priv`: whether USB_FS_INIT worked, `ep_no`, `ep_bufsize`, `done` with `cstatus` | `handle`, `ep_no`, `ep_bufsize`, `done` |
| the thread in `_sync_gen_transfer` | `pc`, `slot`, `timed`, `ret`, `interrupted` |
| the kernel behind the ioctls | `kopen`, `ksize`, `kbusy`, `kcomp`, `plugged` |
| `fbsd_open`, `fbsd_close` | `Open`, `Close` |
| `_sync_control_transfer`, holding the lock meanwhile | `ControlBegin`, `ControlEnd` |
| `_fs_slot` and the start of `_sync_gen_transfer` | `BeginReuse`, `BeginOpen`, `BeginOpenFails`, `BeginNoSlot`, `BeginUnsupported` |
| the wait loop: `poll()` and the look at the flag, without the lock | `WaitPolled`, after which `pc` is `polled` |
| its ways out | `WaitHangup`, `WaitInterrupted`, `WaitDrain`, `WaitAgain`, `WaitTimeout` |
| device and kernel | `Complete`, `Unplug`, `Replug` |

The kernel is modelled from how the file uses it. When USB_FS_STOP returns, the
stopped transfer's completion is in the queue: the code relies on this at :706-721.
Data and lengths returned are left out; the lengths asked for are kept, because they
decide when a slot is reopened.

`SyncSubmit` says what is left of this when slots, drains and the lock are not seen: each
endpoint has at most one call, whose transfer ends once, and a result that tells how. One thing it has to
allow: a call that gives up on its timeout answers `TIMEOUT` even if its transfer has just
ended well, because the code stops the transfer at :754-765 without looking at what arrived.
And a call that is told to stop just after it has looked at its flag (:706) answers as if it
had not been told, with whatever the drain finds, an error included; one that finds
nothing sees the flag 50 ms later.

### Converter

`convert()` is recursive. The model runs the recursion on an explicit stack and
takes one dependency per step.

| code | model |
|---|---|
| `Loader.lookup` with namespaces and overlays | `Lookup` |
| `Converter.targets` | `targets`: what was asked for, a plain name or `//dir:name`, to a Target's number |
| `Target` objects; `t.link` and `t.objs`; what it copied | `objects` with `links` and `files` |
| the Python stack | `stack` |
| `Converter.order`, `built` | `order`, `built` |
| `convert()` | `ConvertKnown`, `ConvertAlias`, `ConvertNew`, `ConvertFails`, `ConvertEnds` |
| `_cc`'s `dep()` of a toolchain library | `SkipSystemLib` |
| `_host_tool` | `ExpandTool`, `ToolExpanded` |
| the loop over tools in `main()` | `ToolCalls`, `ToolsWanted`, `ToolLeftOut`, `Write` |

What is simplified: a file is named by the module it comes from, and a module's own
files are one file. Flags, include paths, output tags (`:gen{tag}`), libraries that
proto, yacc and lex sources add, and the references in a genrule's `$(location)`
are left out. `gensrcs` is a genrule. A prebuilt whose `srcs` were selected away is
a `headers` module without dependencies. Links are a set: their order is left out.
`flatten()` is taken to succeed: a tree gives each module's flattened dependencies
in the order the code walks them.

### TermuxShim

One program, adb or fastboot (`mode`, chosen by `Init`), with three threads of steps.

| code | model |
|---|---|
| `termuxadb_start`, `fastboot_start`, `start`, `authorize_connected_devices` | `Start`, `StartFails`, `Join` |
| `scan_for_usb_devices`, `get_termux_usb_list`, `request_usb_fds` | `ListDevices`, `RunUnderTermuxUsb`, `Requested`, `Wake` |
| the child: `termuxadb_sendfd`, `sendfd_to_adb` | `Granted`, `Refused` |
| `start_socket_listener`, one step for each lock and each use of the descriptor | `Receive`, `ReceiveNoFd`, `RecordFd`, `SeekForSerial`, `ReadSerial`, `RecordSerial` |
| `device_count` | `left` |
| `DIR_MAP`, `USB_FD_MAP`, `USB_SERIAL_MAP` | the same |
| `termuxadb_opendir`, `_readdir` | `OpenBase`, `OpenBus`: copies `busdir` and `devdir` |
| `termuxadb_open`, `_close` | `SkipDevice`, `OpenDevice`, `Rewound`, `Close` |
| descriptors and offsets in the kernel | `files`, `at_start` |
| a failing `recv`, which costs fastboot's listener one of its messages | `ReceiveFails` |
| the walk that calls the hooks (external) | `RegisterDevice`, `PassOver`, `HandleLost`, `HandleClosed` |

A `setting`, one of `Settings`, says where the devices are plugged in and how often the
listing may fail. `patch-source.sh` rewrites the closes of adb's handles (:1543) and of the walk
to the shim's, which does nothing; the close of fastboot's own transport stays libc's
(`HandleClosed`), and the map keeps the number. `missed`, `failures`, `requests` and `refused`
are history variables.

What is simplified: a device is one plugging in, with a path of its own, as Linux
counts device numbers up; that the number wraps after 127 is left out. A port holds
one device after another, and the serial's path belongs to the port. A directory
entry is its name. Every device is one adb wants; fastboot may pass over any. The shim
is on: when it is off each hook is the call it stands for. A file offset is at the start
or not. Reading the descriptors succeeds from the start of a device that is there and
fails otherwise. A failing `lseek` or `memfd_create` is left out.

What the code does that no property forbids, since no document promises
otherwise: fastboot hangs when a request is refused (`FastbootStarts` is about starts
without a refusal); fastboot never sees a device plugged in after its start; a device
put where another was can be opened by adb before the listener has read its serial,
and is then registered under the earlier one's, as `USB_SERIAL_MAP` is by port and
keeps what it has; and if adb reads a descriptor between the listener's `lseek` and
read, the serial is never read again.

### DeviceList, HotplugScan, FastbootTransport, UsbPrograms

`UsbPrograms` is one process: adb, fastboot, or a client of libusb that opens,
configures and closes devices, which neither of the two does. `program` says which.
Nodes, devices and memory are shared parts of `DeviceList`. An object is a block of
memory, allocated again once it is free; a device is one plugging in.

| code | model |
|---|---|
| `/dev/ugen*`, the devices behind them and their configuration | `at`, `plugged`, `active`; `Plug`, `Unplug`, `Reconfigure` (another process) |
| `struct libusb_device` with `device_priv` | `refs`, `node` (session id), `desc`, `cdesc` |
| an open handle | `handle` |
| `fbsd_get_device_list`, a directory entry a step | `todo`, `found`; `SkipAbsent`, `SkipFailing`, `ListKnown`, `ListNew`, `ListNoMem` |
| `fbsd_destroy_device` at the last reference | `Count` |
| `fbsd_open`, `fbsd_close` | `OpenHandle`, `CloseHandle` |
| `fbsd_set_configuration` | `SetConfiguration`, then `RefreshCache` or `MissRefresh`; `cache` is where it stands |
| the statics of `sdk_scan_usb_devices` | `known`, `released` |
| the scan | `StartScan`, `StartScanFails`, the enumeration, `ScanDone` |
| adb's hotplug queue and thread (external) | `queue`, `handling`; `TakeEvent`, `Connect`, `Disregard`, `Disconnect` |
| `usb_open` | `ctx`, `walk`, `probing`; `UsbOpen`, `HaveList`, `NoList`, `Probe`, `Take`, `Pass`, `NextDevice`, `EndOpen` |
| `LibusbTransport` | `transport`, `writing`, `asked`, `count`, `ret`; `Write`, `WriteClosed`, `WriteChunk`, `WriteFails`, `WriteReturns`, `Close` |
| the bytes the device got | `sent` |

What is simplified: the reference counts and the search by session id belong to
libusb and are modelled from how the file uses them. Descriptors are whose they are and of
which configuration. `Read` is one transfer and `Reset` one call; neither changes
anything the transport keeps, so they are no actions. Hot unplugging is the device
leaving its node; what a transfer then returns is FsBackend's matter.

The hotplug thread may be as late as it likes: `StartScan` waits for the two seconds
only, as the code does. `QueueBound` caps how many events may be pending when a scan
begins; it is a bound of the model. The scan's comment promises more than the
code keeps (finding 4). `Disturbed` says beside which programs another process changes
configurations.

What is assumed of code outside the repository: libusb gives the listed objects back, once,
when it cannot extend a list (`ListNoMem`); a client opens an object once at a
time and makes one call through the handle after the other, since `set_configuration`
replaces `cdesc` without a lock; and a transfer that succeeds takes at least one byte
(`WriteChunk`): on a device that takes none, the loop of `Write` goes round for ever.

What the code does that no property forbids: `fbsd_set_configuration` reports success
when the node cannot be opened for the refresh, and the old descriptor stays;
a device that gets the node of another while anybody holds the old one's object is listed as
that object, with the old descriptors, and adb announces no arrival.

### Resolver, NetInterfaces, CStrings, WipeOnFork, LibcShims

The pure functions are operators; a behaviour of `LibcShims` makes one call of `Calls`
and returns its `Answer`. Beside each is what it is checked against: `ResolvConf` says
what the same file gives when it is read as a whole, `Interfaces` and `PrefixOf` say what
openscreen is to know, `FirstLine`, `OptionStarts` and `OptionAt` what the manual pages say.

| code | model |
|---|---|
| `__get_resolv_conf` and its loop over lines | `GetResolvConf`, `ReadLines`, `ReadLine`, `ReadOptions`, `ReadNameserver`, `ReadSearch` |
| the caller's buffer for the search list, if any | `room` |
| `ToPrefixLength`; how often its last byte is shifted | `ToPrefixLength`; `Shifts` |
| `GetAllInterfaces` over `getifaddrs`; a failed `OSP_CHECK`, which ends the process | `GetAllInterfaces`, `Checked`, `AddEntries`, `AddEntry`, `AddAddress`, `TypeOf` |
| `strlcpy`, `strlcat`; how far their loops go | `Strlcpy`, `Strlcat`; `End` and the least of the places where they stop |
| `hasmntopt`, `getline` | `Hasmntopt` with `FindOption`, `Getline` with `Room` |
| `faccessat` and the child it clones | `Faccessat`, `Checker` |
| `regions`, `nregions` | the same |
| `wrap_madvise_wipeonfork` | `AdviseKernel`, `StoreRegion` then `CountRegion`, `NoRegion` |
| `wipe_child` at a fork | `Fork`, `Remembered` |
| the program's threads (external) | `Map`, `Write`, `Unmap` |

A line of `resolv.conf` is a record of what the parser can tell about it; a byte is
a sequence of `Width` bits. `ResolvConf` has the numbers as they are written, without the
code's caps of 15, 10 and 60, and the comparison makes both sides as good as the limits the manual page
has (`Limited`: 15, 5 and 30). Lines longer than the buffer of `fgets` are ignored on both
sides: that is musl's choice, and the manual has none. A fork may come
between filling a slot and counting it. `promised`, `dropped` and `reused` are
history variables.

What the code does that no property forbids: a full table, and a `madvise` that fails
with another error than EINVAL, answer success without remembering the range; a remembered range whose addresses are mapped again is wiped
although nobody asked for it; after a failed `realloc`, `getline` leaves `*n` at
twice the buffer's size; on Android `faccessat` with `AT_EACCESS` answers for the
real ids (`faccessat.c:19`).

## 3. Runs

`tlc -workers 2 -config X.cfg M` runs one of them.

| run | shows |
|---|---|
| `aq_freebsd` | Three transfers of one endpoint, so that an unlink from the middle of the list happens; worker and kicker may fail to start. Types; exactly one report each; no stranded item; the tail pointer; an accepted cancel is not left in a list; reports are truthful; a cancelled transfer comes back; the queue implements `TransferService`. |
| `aq_bsd` | NetBSD/OpenBSD with lost and late signals and two kicks, beside a synchronous control transfer: a cancelled transfer still comes back, and a signal never goes to a thread that is gone. |
| `fs_pair` | adb's reader and writer with a slot each; lengths 0 and the largest buffer, so slots are reopened; cancels, timeouts, control requests, failing ioctls, unplugging and a new open. Types; slots and completions; FsBackend implements `SyncSubmit`; waits end. |
| `fs_one_slot` | One slot for two endpoints and a transfer longer than the largest buffer: the slot passes to no other endpoint, and only its own gives it up, when it fails to open it larger. |
| `cv_trees` | 1536 trees with four requests: libraries that depend on each other and on themselves, the same module by name and by path, an overlay, filegroups, a genrule with `tool_files` and a Python tool, objects in sources and in `tool_files`, excludes, missing and refused modules. All of Converter's properties. |
| `shim` | Two devices, in two settings: one after the other in one port with a listing that may fail once, so that a device is asked for twice, and two descriptors, so that they can run out; and at once on two buses. Types; the user is asked at most once more than the listing fails; descriptors stay with their devices; fastboot walks after the last message and, if nothing is refused, starts; adb finds each device whose descriptor was sent. |
| `usb_programs` | Two nodes, two devices that may replace each other, memory for two objects, two configurations, writes of up to three bytes in chunks of two; adb, fastboot or a client of libusb. References; cached configurations; arrivals and departures by turns, also when a scan begins before the last one's event is handled; whole writes; nothing stale in a list; adb comes to know a device that stays, a departed one is released, a write returns. |
| `libc_shims` | Files of up to four lines with room for two name servers, lists of up to three entries, masks of three bytes of two bits, strings of up to six characters, every combination `faccessat` distinguishes; three ranges and a table of two for the wiping. |
| `aq_refilled_cancel` | finding 1 |
| `aq_result_lost` | finding 2 |
| `cv_twins` | finding 3 |
| `usb_overtaken` | finding 4 |

Why the bounds are enough. The queue's hazards need at most three items in a list
(a first, a middle and a last) and two kicks (one lost, one that helps); a transfer that
moves needs two queues, as in `aq_refilled_cancel`. FsBackend's need two threads that drain each other's
completions, and either a slot for each or too few; two lengths around the largest
buffer reach reuse, growth and the reopening of a slot whose buffer is never large
enough. The converter's need a cycle of two libraries, a chain of two copies and an alias
into an open conversion. The shim's need two devices, at once for crossed descriptors
and for fastboot's count, one after the other for replacement, one failing listing
(`failures` of a setting) and a table of two descriptors (`MaxFds`), full after a replacement
and a second device; a failing listing with both at once is past five minutes. `UsbPrograms`' need a device that
takes another's node, an object that takes another's memory, and a list that loses one
device as it gains one, so that its length stays, an event pending when a scan begins
(`QueueBound`, 1), so that a departure is announced behind it; another process that configures a device
beside the client only, as the others never do (`Disturbed`); and a write of a whole chunk and a
part. The functions' need one item more than there is room for, two of each kind in
either order, and lengths around the buffer's. What the safety proofs cover holds for every size.

No run uses a state constraint or symmetry. Deadlock is checked except in
`cv_trees` and `cv_twins`, where the builder stops when it is done, in
`shim`, where fastboot stops after its walk or waits for ever in `Join`, and in
`libc_shims`, where a program ends after its call.

### Fairness

* `AsyncQueue!Fairness`: the worker's steps, the delivery of a pending signal, each
  kicker and the event thread are weakly fair: they are threads of the
  program, and each of their steps stays enabled until it is taken. Clients need not submit or cancel, and a device
  need not answer: `WorkerSucceeds` and `WorkerFails` have no fairness.
* `FsBackend!Fairness`: control requests end, since the kernel bounds them. A
  waiting thread's steps are strongly fair: they need the handle's lock, which control
  requests take again and again; a mutex and a `poll()` with a 50 ms timeout let
  a waiter in eventually. A device need not complete anything.
* `Converter!FairSpec`: the builder is one sequential process; `WF_vars(Next)`.
* `TermuxShim!Fairness`: the scanner, the listener and the walk are threads that loop; the
  user answers a request one way or the other (only `FastbootStarts` needs it). Nobody
  need plug or unplug anything. The walk may be disturbed by the listener only as
  often as messages arrive, and adb walks again each second.
* `UsbPrograms!Fairness`: the scan and the hotplug thread are threads that loop;
  a transfer of fastboot is ended by the device, the timeout or unplugging. Nobody need plug
  anything in, and fastboot need not write. That adb comes to know a device is promised
  only where the system's calls do not fail for good (`Steady`).

### Findings

1. `aq_refilled_cancel`, at `libusb_bsd_async.inc:263`. `cur` names a transfer whose
   success was already signalled. If its owner fills it for another endpoint in the
   callback and then cancels it, `sdk_aq_cancel` may find the first queue's `cur`
   and return success while the transfer waits in the second queue's list. The
   header says a queued transfer is cancelled in place. adb and fastboot do not move a
   transfer between endpoints, so this needs another client of libusb.
2. `aq_result_lost`, at `libusb_bsd_async.inc:93`. If the allocation of a result
   fails, the transfer's completion is signalled without one, and an error is
   reported as a completion.
3. `cv_twins`, at `convert.py:213`. The loader is namespace aware, but targets are
   kept by name: with a module of one name in two namespaces, the second user is
   linked to the first one's.
4. `usb_overtaken`, at `adb_libusb_scan.inc:12`. The comment says that a departed device is
   released "once the hotplug thread has handled its LEFT event"; the scan sleeps two
   seconds and does not ask. A hotplug thread that takes longer, say to open a device, then
   finds an event about an object that the scan no longer holds. `EventsAlternate` is what
   stays true of the events themselves.

## 4. Proofs

`tlapm M.tla` checks the proofs of a module. They hold for every value of the
constants that satisfies the named assumptions of the component's module:
`EndpointsAssumption`, `ErrorsAssumption`, `BuildAssumption`, `KicksAssumption`
and `NullAssumption` for the queue; `SlotsAssumption`, `LengthsAssumption` and
`NullAssumption` for the backend's transfers; `NullAssumption`, `ConfigsAssumption`,
`ObjectsAssumption`, `QueueAssumption`, `EventsAssumption` and `ChunkAssumption` for the programs over its devices;
`WipeAssumption` for the wiping; `ConstantsAssumption`, `TreesAssumption` and
`RequestsAssumption` for the converter; `DevicesAssumption`, `NamesAssumption` and
`BoundsAssumption` for the shim. TLC evaluates each on the runs' values.

**AsyncQueue_proofs.** `TypeCorrect`, `ReportedExactlyOnce`, `TailAlwaysLast`,
`NoThreadEmptyQueue`, `SignalsAreSafe`. `ExactlyOnce` is not inductive alone: a
worker may only report `cur`, and whether it still has to depends on where it is. `WorkerInv` ties
`running`, `pc`, `cur` and the list of known queues together. `ListLemmas` says what an append, a pop and an
unlink do to a list without repeats; a cancel that unlinks needs the tail to be
the last item, so `TailIsLast` is part of the invariant.
`ReportsAreTruthful` and `CancelTakesOut` need what findings 1 and 2 are without, and say so:
a result can be allocated, or a transfer is only submitted to one endpoint. The first
adds `ResultsKept` (a result says how its transfer ended and is there for each signalled
one that did not complete), the second `OwnEndpoint` (a transfer on a list or a worker is
on the list or worker of its endpoint).

**AsyncQueueService_proofs.** `QueueImplementsService`: `Spec => ImplementsService` under
`Regular`, which is the two conditions above, no late signals, and no device error that looks like
an interrupt. An endpoint's line is the transfer on its worker, until that is
reported, followed by its list; what the event thread will find is how each
signalled transfer ended. The proof has a lemma for each step of the service that
says which change of lines and reports it is, and shows for each action of the queue
that it makes that change or none. `CancelMarks` is the invariant it needs beyond
the others: a signal, an interrupt flag and a cancel mark belong to the transfer that is on the worker
now, and that one was asked to be cancelled.

**FsBackend_proofs.** `TypeCorrect`, `SlotsIdle`, `NoCompletionLost`,
`TableMatches`, `SlotsAreOwn`, `SlotsStay`, `CallsImplementSubmit`, `ReturnsTruthfully`. The four state properties
strengthen each other and are inductive together with `WaitersReady` (a
waiting thread has a slot of a ready handle) and `KernelEmpty` (without a device or a
ready handle the kernel has nothing open). `SlotIdle` is what makes a reused slot's
completion the thread's own, `OneSlotEach` what keeps a stop from hitting
another thread's transfer. `CallsImplementSubmit` is `Spec => ImplementsSubmit`: for each action
it says which step of `SyncSubmit` it is, or that nothing shows. The work is in
`OthersEnd`, that a drain or a stop by one thread leaves how every other thread's transfer
ended as it was, only elsewhere. It adds two facts to the invariant: the
`CANCELLED` that a stop leaves never outlives the critical section (`StopsUnseen`), and an
idle thread's flag is clear (`FlagsCleared`), so that a cancel does not reach the next
call. `ReturnsTruthfully` is the part of it a caller sees as one sentence, proved
directly for each way out of the wait loop: success is only told of the thread's own
success, and a cancel does not hide one.

**Converter_proofs.** `TypeCorrect`, `BuiltOnce`, `EverythingEmitted`, `LinksAsFound`,
`CopiesAsFound`. The first three's invariant: a Target is registered under its module's name for good
(`Registered`); a frame was asked for under the name of its module (`FramesNamed`);
inner conversions have younger Targets (`Nested`); a Target is on the
stack or in order, never both (`Placed`). Ending a conversion overwrites
`targets[name]`, and `FramesNamed` is what shows that this never replaces another
Target. That the test `if t not in self.order` never finds `t` is part
of the proof. `LookupName` is the one fact about the loader they need.

`LinksAsFound` has a hypothesis: `OneMeaning`, that in the trees considered a reference means
one module, wherever it is seen from, and the one its plain name means. Without it the
property is false (finding 3). `MCConverter` assumes `OneMeaning` of the trees of
`cv_trees`, so TLC checks there that the hypothesis can be met. The invariant `LInv` adds to the one above
that a registered Target is of the module its name means (`Meant`), that each frame is what
the dependency its caller stands at asked for (`Asked`), that a Target on the stack is linked to exactly what
its module's dependencies so far ask for (`LinkedSoFar`), and one in order to all of them
(`LinkedWhole`). A library that is reached again while it is still being converted is
linked by its number, which is why cycles do no harm.

A filegroup that is reached again while it is still being filled is copied as it is, half
filled, so `CopiesAsFound` asks for more: `WalkedInOrder`, that a tree lists dependencies in the
order `_filegroup`, `_genrule`, `_cc` and `_host_tool` walk them (the order decides what
`exclude_srcs` takes away), and `NoSourceCycle`, that a rank falls along the references of
filegroups, genrules and host tools to each other, which Soong demands of any module.
`MCConverter` assumes both of the trees of `cv_trees`. That is not all of it, because such
a source may still be found half filled: it refers to a library, which is converted, and the library
refers back to the source. What it copies is wrong then, and does not matter, because a source
may not refer to a library: when the library's conversion ends, `expand_srcs` raises
`ResolveError`. The invariant `CInv` says this without a look ahead. A frame of a source whose
callee is none is `Doomed`; a Target on or above such a frame's is `Lost`, it will never be
filled; and a Target is `Settled`, it gives what it always will, if it is no source, is in
order, or is lost. `RanksFall` says that along the stack the rank falls until a frame is doomed,
so what is found half filled is lost (`FoundSettled`); `FramesSettled` and
`OrderSettled` say that all that has been copied was settled, so that filling
a Target changes no file list made before (`FillSettled`). `FilesSoFar` and `FilesWhole` are then the
file lists as functions of the dependencies walked. No induction along the sources is needed: at
any moment a list is right in terms of what its sources give now.

**TermuxShim_proofs.** `TypeCorrect`, `FdsStayApart`, `FastbootAlone`,
`AskedOnceAlways`. `EnoughLeft` counts: fastboot's listener has still to receive at least
the messages sent, one for each device to ask for and one for the device asked for.
So when the join finds it finished nothing is under way (`FastbootAlone`), unless a receive
failed, and the count does not go below zero (`TypeCorrect`). `FdsStayApart` rests on the
kernel giving free descriptors only (`LowestIsFree`), on no close of adb's freeing one, and on
the listener's having ended when fastboot's does. `AskInv` says of
a device that has not been listed since the last failure that it was asked for no more
often than listings failed.

**UsbPrograms_proofs.** `TypeCorrect`, `ReferencesHeld`, `EventsStayInTurn`,
`ConfigStaysCached`, `WriteIsWhole`, `ListingIsFresh`. Counts are only right together
with who holds what: `Apart` (a node has one live object, and one already listed is not
listed again) makes an enumeration count an object once, `Uses` says which program uses which
part and when (no list outside a listing, a handle for each object probed, a context
for each transport), and `Full` that a live object has its node and descriptors.
For the cached configuration `Reached` is decisive: the device a handle reaches is
behind its object's node or nowhere, since a node is not given away while its
device is there and a device that left does not come back. What another process
reconfigures is excepted (`cache` tells). `EventsStayInTurn` needs nothing about time:
a scan announces an arrival of what was not known and a departure of what was, so that
each event it appends is the other kind than the last one about the same object, however
many are pending before it. A write's counts agree
because `count` advances by what was sent (`WInv`).

**LibcShims_proofs.** `EveryCallAgrees`, `NetworkKnown`, `ShimChildrenWiped`. The first: whatever is passed to them, the C functions do
what their manual pages say. The invariant (`Answered`) only says that what was returned is
`Answer(call)`; the work is in a lemma about each function. A loop that only advances
is modelled as the first place where it stops, so that `strlcpy`, `strlcat` and the
loop of `getline` are facts about the least element of a set (`MinIs`, from the least
number principle of the library's `WellFoundedInduction`). `hasmntopt` and `getline`'s growing buffer
are recursive functions. For the first, the options' places are shown to satisfy the recursion
(`HasmntoptFinds`): between an occurrence that is no option and the next comma no option
begins. For the second, runs of every length exist and a least one that leaves no
room for the NUL would follow one that does (`RoomIs`). Assumed (`CallsAssumption`): strings
have no NUL in them, and an option's name is not empty and has no `,` or `=`, without which
`hasmntopt` finds something else.

`NetworkKnown` compares two loops, over the lines of `resolv.conf` and over the entries of
`getifaddrs`, with what their results select from the whole sequence: the first name
servers, the last of each option, an interface's addresses. `ResolvConf` and `Interfaces` say
it with sets of places (`Given`, `Firsts`, `Addresses`), their r-th (`Nth`) and their last.
What is known after i steps is the same selection from the places up to i (`Before`), and
each step adds one place or none (`NthOfMore`, `LastBeforeNext`): `ReadLinesKnows` and
`ListedNext` show that these selections satisfy the loop's recursion, whose solution is
unique (`ReadLinesAre`, `AddEntriesAre`: two solutions would differ at a first place). For
`GetAllInterfaces` an entry finds its interface in the list exactly if it is not the
first of that name. `PrefixFound`: the only length that a mask can fit is the one `ToPrefixLength` computes, and
it fits if the checks pass. The code's caps and the manual's limits come together only in the end: what is capped and then limited
is what is limited. Assumed (`CallsAssumption`): a line's numbers are numbers or missing, and an entry with an IP address has a netmask, of any number of bytes and of
bits in a byte (`WidthAssumption`); a `struct resolvconf` has room for a name server
(`MaxnsAssumption`).

`ShimChildrenWiped`, from `ChildrenWiped`. `Marking`: the slot of the call under way is
filled before it is counted. `Kept`: what was promised is advised, remembered or dropped, and what is
remembered was promised or has been unmapped since.

Only model-checked: every liveness property (`CancelReturns`, `WaitersReturn`, `Ends`,
`GrantedIsFound`, `FastbootStarts`, `Responsive`), since liveness under
fairness is out of the prover's reach.

## 5. What is not modelled, and the plan

Left of the plan, in this order:

1. `SoongMerge` (`soong.py`, `blueprint.py`): `flatten` and `select()` as functions,
   against a reference definition by priority; defaults once and in order. Until then
   Converter takes flattened trees as its input.
2. `FetchSources` (`fetch-source.sh`): retries, a crash at any command, reruns for this
   and for another release, over the state of the directories. No document promises that a rerun
   repairs a half-made clone, so the property is about a run in an empty tree and about the
   manifest, whose `.tag` is written last.
3. `MakeSdk` (`make-sdk.sh`): the choice of versions and what a retry unpacks over.
4. The composition of AsyncQueue and FsBackend in one module. `SyncSubmit` stands between
   them: FsBackend implements it, and AsyncQueue's workers ask less of the call than it
   promises (`WorkerSucceeds` and `WorkerFails` may happen to any call,
   `WorkerInterrupted` only to one whose flag is set).

Left out for good:

* vendored headers and generated data: `jni.h`, `jvmti.h`, `jawt.h`,
  `jdwpTransport.h`, `classfile_constants.h` and OpenBSD's `usb.h` are declarations
  of other projects and about two thirds of the C lines here; there is nothing in
  them that runs;
* most of `host_compat.h`: macros, declarations and one-line stubs; and `qsort_r`
  there and in `strl_compat.h`, which keeps its comparator in statics around one
  call (`host_compat.h:388` restores them for a nested call, `strl_compat.h:73` does not);
* `tmpfile` and `tmpnam`: random names until one is free, nothing kept;
* `adb_usb_bsd.cpp`, `adbwinapi_static.cpp` and the other glue: single calls into a
  system, without state;
* `patch-source.sh`, `patch-bigendian.py`: text substitutions on upstream sources
  that are not here;
* `cmake.py`, parsing of `Android.bp`: formatting and syntax;
* CI workflows and the Dockerfile.
