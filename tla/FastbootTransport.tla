------------------------- MODULE FastbootTransport -------------------------
(***************************************************************************)
(* fastboot's USB transport on the BSDs,                                   *)
(* patches/sources/fastboot_usb_libusb.cpp: usb_open's walk over the       *)
(* devices, with the handles, the list and the context it has to give      *)
(* back, and the chunked transfers of the transport it returns.            *)
(***************************************************************************)
EXTENDS DeviceList

CONSTANTS
  Interfaces, \* [Devices \X Configs -> sets of sets of bulk directions]: the
              \* interfaces of a configuration, every alternate setting
  MaxLen,     \* the longest write
  Chunk       \* kBulkChunk

ASSUME ChunkAssumption == MaxLen \in Nat /\ Chunk \in Nat \ {0}

VARIABLES
  ctx,       \* libusb_init has succeeded and libusb_exit is due
  walk,      \* the devices usb_open has not looked at yet, NULL outside it
  probing,   \* the object whose handle usb_open has open, or NULL
  transport, \* the object of the LibusbTransport, or NULL
  writing,   \* a Write is under way
  asked,     \* the length of the last Write,
  count,     \* what it takes for written,
  sent,      \* the bytes the device got,
  ret        \* and what it returned

fastVars == <<ctx, walk, probing, transport, writing, asked, count, sent, ret>>

FastTypeOK ==
  /\ ctx \in BOOLEAN
  /\ walk \in (SUBSET Objects) \cup {NULL}
  /\ probing \in Objects \cup {NULL}
  /\ transport \in Objects \cup {NULL}
  /\ writing \in BOOLEAN
  /\ asked \in 0..MaxLen
  /\ count \in 0..MaxLen
  /\ sent \in 0..MaxLen
  /\ ret \in -1..MaxLen

FastInit ==
  /\ ctx = FALSE
  /\ walk = NULL
  /\ probing = NULL
  /\ transport = NULL
  /\ writing = FALSE
  /\ asked = 0 /\ count = 0 /\ sent = 0 /\ ret = 0

io == <<writing, asked, count, sent, ret>>

(***************************************************************************)
(* usb_open                                                                *)
(***************************************************************************)

\* libusb_init, and the first step of libusb_get_device_list.  fastboot calls
\* usb_open again until it finds a device.
UsbOpen ==
  /\ ~ctx
  /\ ctx' = TRUE
  /\ todo' = Nodes
  /\ UNCHANGED <<kernel, objects, handle, found, walk, probing, transport, io>>

\* The list, or none (opendir() or an allocation failed, and n < 0).
HaveList ==
  /\ ctx /\ walk = NULL /\ transport = NULL
  /\ todo \in {{}, NULL}
  /\ todo' = NULL
  /\ walk' = found
  /\ UNCHANGED <<kernel, objects, handle, found, ctx, probing, transport, io>>

\* opendir() fails.
NoList ==
  /\ ctx /\ todo = Nodes /\ found = {}
  /\ todo' = NULL
  /\ UNCHANGED <<kernel, objects, handle, found, fastVars>>

\* libusb_open for an interface or an alternate setting.
Probe(o) ==
  /\ walk # NULL /\ o \in walk
  /\ probing = NULL /\ transport = NULL
  /\ OpenHandle(o)
  /\ probing' = o
  /\ UNCHANGED <<ctx, walk, transport, io>>

\* fill_ifc_info: both bulk directions are among an interface's endpoints.
HasBulkPair(o) == \E i \in Interfaces[<<cdesc[o].of, cdesc[o].config>>] : {"in", "out"} \subseteq i

\* The callback matches, and the interface is claimed.
Take ==
  /\ probing # NULL
  /\ HasBulkPair(probing)
  /\ transport' = probing
  /\ probing' = NULL
  /\ UNCHANGED <<devVars, ctx, walk, io>>

\* Mutant: the handle is left open.
PassOpen ==
  /\ probing # NULL
  /\ probing' = NULL
  /\ handle' = [handle EXCEPT ![probing] = NULL]
  /\ UNCHANGED <<kernel, objects, todo, found, ctx, walk, transport, io>>

\* It does not, has no pair of bulk endpoints or cannot be claimed.
Pass ==
  /\ probing # NULL
  /\ CloseHandle(probing)
  /\ probing' = NULL
  /\ UNCHANGED <<ctx, walk, transport, io>>

\* The last interface is behind, or there was none, no descriptor of the
\* device, or no way to open it.
NextDevice(o) ==
  /\ walk # NULL /\ o \in walk /\ probing = NULL
  /\ walk' = walk \ {o}
  /\ UNCHANGED <<devVars, ctx, probing, transport, io>>

\* libusb_free_device_list, and libusb_exit unless the transport has the
\* context.
EndOpen ==
  /\ walk # NULL /\ probing = NULL
  /\ walk = {} \/ transport # NULL
  /\ Count({}, found)
  /\ found' = {}
  /\ walk' = NULL
  /\ ctx' = (transport # NULL)
  /\ UNCHANGED <<kernel, handle, todo, probing, transport, io>>

(***************************************************************************)
(* LibusbTransport                                                         *)
(***************************************************************************)

Opened == transport # NULL /\ walk = NULL

Write(len) ==
  /\ Opened /\ ~writing
  /\ writing' = TRUE
  /\ asked' = len
  /\ count' = 0
  /\ sent' = 0
  /\ ret' = 0
  /\ UNCHANGED <<devVars, ctx, walk, probing, transport>>

\* A Write or Read after Close.
WriteClosed(len) ==
  /\ ~Opened /\ ~writing
  /\ asked' = len
  /\ sent' = 0
  /\ ret' = -1
  /\ UNCHANGED <<devVars, ctx, walk, probing, transport, writing, count>>

Smaller(a, b) == IF a < b THEN a ELSE b

\* Mutant: always a whole chunk.
FullChunk == Chunk

\* min(len - count, kBulkChunk)
ThisChunk == Smaller(asked - count, Chunk)

\* Mutant: the loop goes on by the chunk.
AdvanceChunk(t) == count + ThisChunk

\* The loop goes on by what libusb_bulk_transfer says it transferred.
Advance(t) == count + t

\* libusb_bulk_transfer succeeds.  It is taken to have transferred something:
\* the loop would go round for ever on a device that takes nothing.
WriteChunk ==
  /\ writing /\ count < asked /\ Present(handle[transport])
  /\ \E t \in 1..ThisChunk :
       /\ count' = Advance(t)
       /\ sent' = sent + t
  /\ UNCHANGED <<devVars, ctx, walk, probing, transport, writing, asked, ret>>

\* It fails, after a part of the chunk perhaps.
WriteFails ==
  /\ writing /\ count < asked
  /\ \E t \in 0..ThisChunk : sent' = sent + t
  /\ writing' = FALSE
  /\ ret' = -1
  /\ UNCHANGED <<devVars, ctx, walk, probing, transport, asked, count>>

WriteReturns ==
  /\ writing /\ count >= asked
  /\ writing' = FALSE
  /\ ret' = count
  /\ UNCHANGED <<devVars, ctx, walk, probing, transport, asked, count, sent>>

\* libusb_close, then libusb_exit.
Close ==
  /\ Opened /\ ~writing
  /\ CloseHandle(transport)
  /\ transport' = NULL
  /\ ctx' = FALSE
  /\ UNCHANGED <<walk, probing, io>>

Fastboot ==
  \/ UsbOpen
  \/ HaveList
  \/ NoList
  \/ (\E n \in Nodes : ListNode(n) \/ ListNoMem(n)) /\ UNCHANGED fastVars
  \/ \E o \in Objects : Probe(o) \/ NextDevice(o)
  \/ Take
  \/ Pass
  \/ EndOpen
  \/ \E len \in 0..MaxLen : Write(len) \/ WriteClosed(len)
  \/ WriteChunk
  \/ WriteFails
  \/ WriteReturns
  \/ Close

(***************************************************************************)
(* Properties                                                              *)
(***************************************************************************)

\* A Write that returns its length has put every byte out, also after chunks
\* that went out in part.
WholeOrError == ~writing /\ ret # -1 => sent = asked

============================================================================
