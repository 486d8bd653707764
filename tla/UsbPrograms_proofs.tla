------------------------ MODULE UsbPrograms_proofs ------------------------
(***************************************************************************)
(* Proofs about UsbPrograms, for any nodes, devices, objects, interfaces,  *)
(* lengths and chunk.  Three inductive invariants: what the objects hold   *)
(* and who holds them, on which the others rest; that two live objects     *)
(* never share a node and that a handle's device is found nowhere else,    *)
(* from which the cached configurations are right; and the counts of a     *)
(* Write.                                                                  *)
(***************************************************************************)
EXTENDS UsbPrograms, SequenceTheorems, FiniteSetTheorems, TLAPS

Counted == \A o \in Objects : refs[o] = Holders(o)

\* What a live object holds, and an object being configured is open.
Full ==
  /\ \A o \in Objects : refs[o] > 0 => node[o] \in Nodes /\ desc[o] \in Devices /\ cdesc[o] \in Descriptors
  /\ \A o \in Objects : cache[o] = "due" => handle[o] # NULL

\* A node has one live object, and an object is listed once.
Apart ==
  /\ \A o, p \in Objects : refs[o] > 0 /\ refs[p] > 0 /\ node[o] = node[p] => o = p
  /\ \A o \in found : Listing => node[o] \notin todo

\* Which program uses what, and when.
Uses ==
  /\ program # "fastboot" =>
       ~ctx /\ walk = NULL /\ probing = NULL /\ transport = NULL /\ (~Listing => found = {})
  /\ program # "adb" => released = {} /\ queue = <<>> /\ handling = NULL
  /\ Listing => released = {}
  /\ known \cap released = {}
  /\ program = "fastboot" =>
       /\ known = {}
       /\ walk # NULL => walk \subseteq found
       /\ ~ctx => ~Listing /\ walk = NULL /\ probing = NULL /\ transport = NULL
       /\ Listing => walk = NULL /\ probing = NULL /\ transport = NULL
       /\ ~Listing /\ walk = NULL => found = {}
       /\ walk = NULL => probing = NULL
       /\ probing # NULL => transport = NULL
       /\ \A o \in Objects : handle[o] # NULL => o \in {probing, transport}

\* NULL is none of the model's values.
LEMMA NullIsNew ==
  /\ NULL \notin Nodes /\ NULL \notin Devices /\ NULL \notin Objects
  /\ \A S \in SUBSET Nodes : S # NULL
  /\ \A S \in SUBSET Objects : S # NULL
  BY NullAssumption

\* Types of the parts of a state that HInv is about.
Typed ==
  /\ DevTypeOK
  /\ ScanTypeOK
  /\ walk \in (SUBSET Objects) \cup {NULL}
  /\ probing \in Objects \cup {NULL} /\ transport \in Objects \cup {NULL}
  /\ ctx \in BOOLEAN
  /\ program \in {"adb", "fastboot", "client"}

HInv == Typed /\ Counted /\ Full /\ Apart /\ Uses

\* What Count does when no reference is dropped that nobody holds: an object
\* that is live afterwards was live before, and holds what it held.
Recount(added, dropped) ==
  /\ refs' \in [Objects -> Nat]
  /\ node' \in [Objects -> Nodes \cup {NULL}]
  /\ desc' \in [Objects -> Devices \cup {NULL}]
  /\ cdesc' \in [Objects -> Descriptors \cup {NULL}]
  /\ cache' \in [Objects -> {"current", "due", "missed"}]
  /\ \A o \in Objects :
       /\ refs'[o] = refs[o] + One(o \in added) - One(o \in dropped)
       /\ cache'[o] \in {cache[o], "current"}
  /\ \A o \in Objects :
       refs'[o] > 0 =>
         /\ refs[o] > 0
         /\ node'[o] = node[o] /\ desc'[o] = desc[o] /\ cdesc'[o] = cdesc[o]
         /\ cache'[o] = cache[o]

LEMMA CountStep ==
  ASSUME DevTypeOK,
         NEW added \in SUBSET Objects, NEW dropped \in SUBSET Objects,
         Count(added, dropped),
         \A o \in Objects : refs[o] + One(o \in added) - One(o \in dropped) >= 0,
         \A o \in added : refs[o] > 0
  PROVE  Recount(added, dropped)
<1> DEFINE left == [o \in Objects |-> refs[o] + One(o \in added) - One(o \in dropped)]
<1>1. /\ refs' = left
      /\ node' = [o \in Objects |-> IF left[o] = 0 THEN NULL ELSE node[o]]
      /\ desc' = [o \in Objects |-> IF left[o] = 0 THEN NULL ELSE desc[o]]
      /\ cdesc' = [o \in Objects |-> IF left[o] = 0 THEN NULL ELSE cdesc[o]]
      /\ cache' = [o \in Objects |-> IF left[o] = 0 THEN "current" ELSE cache[o]]
  BY DEF Count, One
<1>2. left \in [Objects -> Nat]
  BY DEF One, DevTypeOK
<1>3. \A o \in Objects : left[o] = refs[o] + One(o \in added) - One(o \in dropped)
  OBVIOUS
<1>4. \A o \in Objects : left[o] > 0 => refs[o] > 0
  BY <1>3 DEF One, DevTypeOK
<1> HIDE DEF left
<1>5. refs' \in [Objects -> Nat] /\ node' \in [Objects -> Nodes \cup {NULL}]
  BY <1>1, <1>2 DEF DevTypeOK
<1>6. desc' \in [Objects -> Devices \cup {NULL}] /\ cdesc' \in [Objects -> Descriptors \cup {NULL}]
  BY <1>1, <1>2 DEF DevTypeOK
<1>7. cache' \in [Objects -> {"current", "due", "missed"}]
  BY <1>1, <1>2 DEF DevTypeOK
<1>8. \A o \in Objects : left[o] > 0 => ~(left[o] = 0)
  BY <1>2
<1> QED
  BY <1>1, <1>3, <1>4, <1>5, <1>6, <1>7, <1>8 DEF Recount

LEMMA HeldIsLive ==
  ASSUME HInv
  PROVE  /\ \A o \in known \cup released \cup found : refs[o] > 0
         /\ \A o \in Objects : handle[o] # NULL => refs[o] > 0
<1>1. \A o \in Objects : o \in known \cup released \cup found \/ handle[o] # NULL => Holders(o) > 0
  BY DEF Holders, One
<1> QED
  BY <1>1 DEF HInv, Typed, DevTypeOK, ScanTypeOK, Counted

\* The same after a step.
LEMMA ListedIsLive ==
  ASSUME Typed', Counted'
  PROVE  \A o \in found' : refs'[o] > 0
<1>1. \A o \in Objects : o \in found' => Holders(o)' > 0
  BY DEF Holders, One
<1> QED
  BY <1>1 DEF Typed, DevTypeOK, Counted

LEMMA ReadType ==
  ASSUME DevTypeOK, NEW d \in Devices
  PROVE  ReadActive(d) \in Descriptors /\ ReadActive(d).of = d
  BY DEF DevTypeOK, ReadActive, Descriptors

\* The events of a finished scan.
LEMMA AnnounceType ==
  ASSUME NEW S \in SUBSET Objects, NEW s \in Orders(S), NEW e \in {"ARRIVED", "LEFT"}
  PROVE  /\ Announce(e, s) \in Seq(Events)
         /\ \A i \in DOMAIN Announce(e, s) : Announce(e, s)[i].of \in S
<1>1. PICK k \in Nat : s \in [1..k -> S]
  BY ObjectsAssumption, FS_Subset, FS_CardinalityType DEF Orders, Bijection, Injection
<1>2. Announce(e, s) \in [1..k -> Events] /\ \A i \in 1..k : Announce(e, s)[i].of \in S
  BY <1>1 DEF Announce, Events
<1> QED
  BY <1>2, SeqDef

LEMMA InitHInv == Init => HInv
<1> SUFFICES ASSUME Init PROVE HInv
  OBVIOUS
<1>1. FirstConfig \in Configs
  BY ConfigsAssumption DEF FirstConfig
<1>2. Typed
  BY <1>1, EmptySeq DEF Init, DevInit, ScanInit, FastInit, Typed, DevTypeOK, ScanTypeOK
<1>3. Counted /\ Full /\ Apart
  BY DEF Init, DevInit, ScanInit, Counted, Holders, One, Full, Apart
<1>4. Uses
  BY DEF Init, DevInit, ScanInit, FastInit, Uses, Listing
<1> QED
  BY <1>2, <1>3, <1>4 DEF HInv

LEMMA HInvNext ==
  ASSUME HInv, [Next]_vars
  PROVE  HInv'
<1> USE NullIsNew DEF HInv
<1>1. ASSUME NEW n \in Nodes, NEW d \in Devices, UNCHANGED <<program, scanVars, fastVars>>, Plug(n,
           d)
       PROVE  HInv'
  <2>1. Typed'
    BY <1>1 DEF Plug, Typed, DevTypeOK, ScanTypeOK, Counted, Holders, One, Full,
         Apart, Uses, devVars, kernel, objects, scanVars, fastVars, io, Listing
  <2>2. Counted'
    BY <1>1 DEF Plug, Typed, DevTypeOK, ScanTypeOK, Counted, Holders, One, Full,
         Apart, Uses, devVars, kernel, objects, scanVars, fastVars, io, Listing
  <2>3. Full'
    BY <1>1 DEF Plug, Typed, DevTypeOK, ScanTypeOK, Counted, Holders, One, Full,
         Apart, Uses, devVars, kernel, objects, scanVars, fastVars, io, Listing
  <2>4. Apart'
    BY <1>1 DEF Plug, Typed, DevTypeOK, ScanTypeOK, Counted, Holders, One, Full,
         Apart, Uses, devVars, kernel, objects, scanVars, fastVars, io, Listing
  <2>5. Uses'
    BY <1>1 DEF Plug, Typed, DevTypeOK, ScanTypeOK, Counted, Holders, One, Full,
         Apart, Uses, devVars, kernel, objects, scanVars, fastVars, io, Listing
  <2> QED
    BY <2>1, <2>2, <2>3, <2>4, <2>5
<1>2. ASSUME NEW n \in Nodes, UNCHANGED <<program, scanVars, fastVars>>, Unplug(n)
       PROVE  HInv'
  BY <1>2 DEF Unplug, Typed, DevTypeOK, ScanTypeOK, Counted, Holders, One, Full, Apart, Uses,
         devVars, kernel, objects, scanVars, fastVars, io, Listing
<1>3. ASSUME NEW n \in Nodes, UNCHANGED <<program, scanVars, fastVars>>, SkipAbsent(n)
       PROVE  HInv'
  BY <1>3 DEF SkipAbsent, Typed, DevTypeOK, ScanTypeOK, Counted, Holders, One, Full, Apart, Uses,
         devVars, kernel, objects, scanVars, fastVars, io, Listing
<1>4. ASSUME NEW n \in Nodes, UNCHANGED <<program, scanVars, fastVars>>, SkipFailing(n)
       PROVE  HInv'
  BY <1>4 DEF SkipFailing, Typed, DevTypeOK, ScanTypeOK, Counted, Holders, One, Full, Apart, Uses,
         devVars, kernel, objects, scanVars, fastVars, io, Listing
<1>5. ASSUME NEW n \in Nodes, UNCHANGED <<program, scanVars, fastVars>>, ListKnown(n)
       PROVE  HInv'
  <2>1. Typed'
    BY <1>5 DEF ListKnown, IsListedAs, Typed, DevTypeOK, ScanTypeOK, Counted,
         Holders, One, Full, Apart, Uses, devVars, kernel, objects, scanVars, fastVars, io, Listing
  <2>2. Counted'
    BY <1>5 DEF ListKnown, IsListedAs, Typed, DevTypeOK, ScanTypeOK, Counted,
         Holders, One, Full, Apart, Uses, devVars, kernel, objects, scanVars, fastVars, io, Listing
  <2>3. Full'
    BY <1>5 DEF ListKnown, IsListedAs, Typed, DevTypeOK, ScanTypeOK, Counted, Holders,
         One, Full, Apart, Uses, devVars, kernel, objects, scanVars, fastVars, io, Listing
  <2>4. Apart'
    BY <1>5 DEF ListKnown, IsListedAs, Typed, DevTypeOK, ScanTypeOK, Counted,
         Holders, One, Full, Apart, Uses, devVars, kernel, objects, scanVars, fastVars, io, Listing
  <2>5. Uses'
    BY <1>5 DEF ListKnown, IsListedAs, Typed, DevTypeOK, ScanTypeOK, Counted, Holders,
         One, Full, Apart, Uses, devVars, kernel, objects, scanVars, fastVars, io, Listing
  <2> QED
    BY <2>1, <2>2, <2>3, <2>4, <2>5
<1>6. ASSUME NEW n \in Nodes, UNCHANGED <<program, scanVars, fastVars>>, ListNew(n)
       PROVE  HInv'
  <2>1. Typed'
    BY <1>6, ReadType DEF ListNew, IsListedAs, Typed, DevTypeOK, ScanTypeOK, Full,
         Counted, Holders, One, devVars, kernel, objects, scanVars, fastVars, io, Listing
  <2>2. Counted'
    BY <1>6 DEF ListNew, IsListedAs, ReadActive, Typed, DevTypeOK, ScanTypeOK,
         Counted, Holders, One, Full, Apart, Uses, devVars, kernel, objects, scanVars, fastVars, io,
         Listing
  <2>3. Full'
    BY <1>6, ReadType DEF ListNew, IsListedAs, Typed, DevTypeOK, ScanTypeOK, Full,
         Counted, Holders, One, devVars, kernel, objects, scanVars, fastVars, io, Listing
  <2>4. Apart'
    BY <1>6 DEF ListNew, IsListedAs, ReadActive, Typed, DevTypeOK, ScanTypeOK,
         Counted, Holders, One, Full, Apart, Uses, devVars, kernel, objects, scanVars, fastVars, io,
         Listing
  <2>5. Uses'
    BY <1>6 DEF ListNew, IsListedAs, ReadActive, Typed, DevTypeOK, ScanTypeOK,
         Counted, Holders, One, Full, Apart, Uses, devVars, kernel, objects, scanVars, fastVars, io,
         Listing
  <2> QED
    BY <2>1, <2>2, <2>3, <2>4, <2>5
<1>7. ASSUME NEW n \in Nodes, UNCHANGED <<program, scanVars, fastVars>>, ListNoMem(n)
       PROVE  HInv'
  <2>1. Count({}, found)
    BY <1>7 DEF ListNoMem
  <2>2. \A x \in Objects : refs[x] + One(x \in {}) - One(x \in found) >= 0
    <3>1. \A x \in found : refs[x] > 0
      BY HeldIsLive, <1>7 DEF
         ListNoMem, Typed, DevTypeOK, ScanTypeOK, Listing
    <3> QED
      BY <3>1 DEF Typed, DevTypeOK, ScanTypeOK, One
  <2>3. \A x \in {} : refs[x] > 0
    BY HeldIsLive, <1>7 DEF Typed, DevTypeOK, ScanTypeOK
  <2>4. {} \in SUBSET Objects /\ found \in SUBSET Objects
    BY <1>7 DEF ListNoMem, Typed,
         DevTypeOK, ScanTypeOK
  <2>5. Recount({}, found)
    BY <2>1, <2>2, <2>3, <2>4, CountStep DEF Typed
  <2>6. Typed'
    BY <2>5, <1>7 DEF ListNoMem, Recount, Typed, DevTypeOK, ScanTypeOK, devVars,
         kernel, objects, scanVars, fastVars, io
  <2>7. Counted'
    BY <2>5, <1>7 DEF ListNoMem, Recount, Typed, DevTypeOK, ScanTypeOK, Counted,
         Holders, One, Uses, devVars, kernel, objects, scanVars, fastVars, io, Listing
  <2>8. Full'
    BY <2>5, <1>7 DEF ListNoMem, Recount, Typed, DevTypeOK, ScanTypeOK, Full, devVars,
         kernel, objects, scanVars, fastVars, io
  <2>9. Apart'
    <3>1. \A x \in found' : refs'[x] > 0
      BY <2>6, <2>7, ListedIsLive
    <3> QED
      BY <2>5, <3>1, <1>7 DEF
           ListNoMem, Recount, Typed, DevTypeOK, ScanTypeOK, Apart, Uses, devVars, kernel, objects,
           scanVars, fastVars, io, Listing
  <2>10. Uses'
    BY <1>7 DEF ListNoMem, Typed, DevTypeOK, ScanTypeOK, Uses, devVars, kernel,
         objects, scanVars, fastVars, io, Listing
  <2> QED
    BY <2>6, <2>7, <2>8, <2>9, <2>10
<1>8. ASSUME program = "adb", UNCHANGED <<program, fastVars>>, StartScan
       PROVE  HInv'
  <2>1. Count({}, released)
    BY <1>8 DEF StartScan, Outgoing
  <2>2. \A x \in Objects : refs[x] + One(x \in {}) - One(x \in released) >= 0
    <3>1. \A x \in released : refs[x] > 0
      BY HeldIsLive, <1>8 DEF
         StartScan, Outgoing, Typed, DevTypeOK, ScanTypeOK, Listing
    <3> QED
      BY <3>1 DEF Typed, DevTypeOK, ScanTypeOK, One
  <2>3. \A x \in {} : refs[x] > 0
    BY HeldIsLive, <1>8 DEF Typed, DevTypeOK, ScanTypeOK
  <2>4. {} \in SUBSET Objects /\ released \in SUBSET Objects
    BY <1>8 DEF StartScan, Outgoing,
         Typed, DevTypeOK, ScanTypeOK
  <2>5. Recount({}, released)
    BY <2>1, <2>2, <2>3, <2>4, CountStep DEF Typed
  <2>6. Typed'
    BY <2>5, <1>8 DEF StartScan, Outgoing, Recount, Typed, DevTypeOK, ScanTypeOK,
         devVars, kernel, objects, scanVars, fastVars, io
  <2>7. Counted'
    BY <2>5, <1>8 DEF StartScan, Outgoing, Recount, Typed, DevTypeOK, ScanTypeOK,
         Counted, Holders, One, Uses, devVars, kernel, objects, scanVars, fastVars, io, Listing
  <2>8. Full'
    BY <2>5, <1>8 DEF StartScan, Outgoing, Recount, Typed, DevTypeOK, ScanTypeOK,
         Full, devVars, kernel, objects, scanVars, fastVars, io
  <2>9. Apart'
    <3>1. \A x \in found' : refs'[x] > 0
      BY <2>6, <2>7, ListedIsLive
    <3> QED
      BY <2>5, <3>1, <1>8 DEF
           StartScan, Outgoing, Recount, Typed, DevTypeOK, ScanTypeOK, Apart, Uses, devVars, kernel,
           objects, scanVars, fastVars, io, Listing
  <2>10. Uses'
    BY <1>8 DEF StartScan, Outgoing, Typed, DevTypeOK, ScanTypeOK, Uses, devVars,
         kernel, objects, scanVars, fastVars, io, Listing
  <2> QED
    BY <2>6, <2>7, <2>8, <2>9, <2>10
<1>9. ASSUME program = "adb", UNCHANGED <<program, fastVars>>, StartScanFails
       PROVE  HInv'
  <2>1. Count({}, released)
    BY <1>9 DEF StartScanFails, Outgoing
  <2>2. \A x \in Objects : refs[x] + One(x \in {}) - One(x \in released) >= 0
    <3>1. \A x \in released : refs[x] > 0
      BY HeldIsLive, <1>9 DEF
         StartScanFails, Outgoing, Typed, DevTypeOK, ScanTypeOK, Listing
    <3> QED
      BY <3>1 DEF Typed, DevTypeOK, ScanTypeOK, One
  <2>3. \A x \in {} : refs[x] > 0
    BY HeldIsLive, <1>9 DEF Typed, DevTypeOK, ScanTypeOK
  <2>4. {} \in SUBSET Objects /\ released \in SUBSET Objects
    BY <1>9 DEF StartScanFails,
         Outgoing, Typed, DevTypeOK, ScanTypeOK
  <2>5. Recount({}, released)
    BY <2>1, <2>2, <2>3, <2>4, CountStep DEF Typed
  <2>6. Typed'
    BY <2>5, <1>9 DEF StartScanFails, Outgoing, Recount, Typed, DevTypeOK,
         ScanTypeOK, devVars, kernel, objects, scanVars, fastVars, io
  <2>7. Counted'
    BY <2>5, <1>9 DEF StartScanFails, Outgoing, Recount, Typed, DevTypeOK,
         ScanTypeOK, Counted, Holders, One, Uses, devVars, kernel, objects, scanVars, fastVars, io,
         Listing
  <2>8. Full'
    BY <2>5, <1>9 DEF StartScanFails, Outgoing, Recount, Typed, DevTypeOK, ScanTypeOK,
         Full, devVars, kernel, objects, scanVars, fastVars, io
  <2>9. Apart'
    <3>1. \A x \in found' : refs'[x] > 0
      BY <2>6, <2>7, ListedIsLive
    <3> QED
      BY <2>5, <3>1, <1>9 DEF
           StartScanFails, Outgoing, Recount, Typed, DevTypeOK, ScanTypeOK, Apart, Uses, devVars,
           kernel, objects, scanVars, fastVars, io, Listing
  <2>10. Uses'
    BY <1>9 DEF StartScanFails, Outgoing, Typed, DevTypeOK, ScanTypeOK, Uses,
         devVars, kernel, objects, scanVars, fastVars, io, Listing
  <2> QED
    BY <2>6, <2>7, <2>8, <2>9, <2>10
<1>10. ASSUME program = "adb", UNCHANGED <<program, fastVars>>, ScanDone
       PROVE  HInv'
  <2>1. Count(found \ known, found)
    BY <1>10 DEF ScanDone
  <2>2. \A x \in Objects : refs[x] + One(x \in found \ known) - One(x \in found) >= 0
    <3>1. \A x \in found : refs[x] > 0
      BY HeldIsLive, <1>10 DEF
         ScanDone, Typed, DevTypeOK, ScanTypeOK, Listing
    <3> QED
      BY <3>1 DEF Typed, DevTypeOK, ScanTypeOK, One
  <2>3. \A x \in found \ known : refs[x] > 0
    BY HeldIsLive, <1>10 DEF Typed, DevTypeOK,
         ScanTypeOK
  <2>4. found \ known \in SUBSET Objects /\ found \in SUBSET Objects
    BY <1>10 DEF ScanDone,
         Typed, DevTypeOK, ScanTypeOK
  <2>5. Recount(found \ known, found)
    BY <2>1, <2>2, <2>3, <2>4, CountStep DEF Typed
  <2>6. Typed'
    <3>1. queue' \in Seq(Events)
      <4>1. PICK new \in Orders(found \ known), gone \in Orders(known \ found) :
              queue' = queue \o Announce("ARRIVED", new) \o Announce("LEFT", gone)
        BY <1>10 DEF ScanDone
      <4>2. Announce("ARRIVED", new) \in Seq(Events) /\ Announce("LEFT", gone) \in Seq(Events)
        BY AnnounceType DEF Typed, DevTypeOK, ScanTypeOK
      <4> QED
        BY <4>1, <4>2, ConcatProperties DEF Typed, ScanTypeOK
    <3> QED
      BY <2>5, <3>1, <1>10 DEF ScanDone, Recount, Typed, DevTypeOK, ScanTypeOK, devVars, kernel, objects,
        fastVars, io
  <2>7. Counted'
    BY <2>5, <1>10 DEF ScanDone, Recount, Typed, DevTypeOK, ScanTypeOK, Counted,
         Holders, One, Uses, devVars, kernel, objects, scanVars, fastVars, io, Listing
  <2>8. Full'
    BY <2>5, <1>10 DEF ScanDone, Recount, Typed, DevTypeOK, ScanTypeOK, Full, devVars,
         kernel, objects, scanVars, fastVars, io
  <2>9. Apart'
    <3>1. \A x \in found' : refs'[x] > 0
      BY <2>6, <2>7, ListedIsLive
    <3> QED
      BY <2>5, <3>1, <1>10 DEF
           ScanDone, Recount, Typed, DevTypeOK, ScanTypeOK, Apart, Uses, devVars, kernel, objects,
           scanVars, fastVars, io, Listing
  <2>10. Uses'
    BY <1>10 DEF ScanDone, Typed, DevTypeOK, ScanTypeOK, Uses, devVars, kernel,
         objects, scanVars, fastVars, io, Listing
  <2> QED
    BY <2>6, <2>7, <2>8, <2>9, <2>10
<1>11. ASSUME program = "adb", UNCHANGED <<program, fastVars>>, TakeEvent
       PROVE  HInv'
  BY <1>11 DEF TakeEvent, Typed, DevTypeOK, ScanTypeOK, Counted, Holders, One, Full, Apart, Uses,
         devVars, kernel, objects, scanVars, fastVars, io, Listing
<1>12. ASSUME program = "adb", UNCHANGED <<program, fastVars>>, Connect
       PROVE  HInv'
  <2>1. Typed'
    <3>1. handling.of \in Objects
      BY <1>12 DEF Connect, Events, Typed, ScanTypeOK
    <3> QED
      BY <1>12, <3>1 DEF Connect, OpenHandle, Typed, DevTypeOK, ScanTypeOK, Full, devVars, kernel,
           objects, scanVars, fastVars, io, Listing
  <2>2. Counted'
    BY <1>12 DEF Connect, OpenHandle, Typed, DevTypeOK, ScanTypeOK, Counted,
         Holders, One, Full, Apart, Uses, devVars, kernel, objects, scanVars, fastVars, io, Listing
  <2>3. Full'
    BY <1>12 DEF Connect, OpenHandle, Typed, DevTypeOK, ScanTypeOK, Counted, Holders,
         One, Full, Apart, Uses, devVars, kernel, objects, scanVars, fastVars, io, Listing
  <2>4. Apart'
    BY <1>12 DEF Connect, OpenHandle, Typed, DevTypeOK, ScanTypeOK, Counted, Holders,
         One, Full, Apart, Uses, devVars, kernel, objects, scanVars, fastVars, io, Listing
  <2>5. Uses'
    BY <1>12 DEF Connect, OpenHandle, Typed, DevTypeOK, ScanTypeOK, Counted, Holders,
         One, Full, Apart, Uses, devVars, kernel, objects, scanVars, fastVars, io, Listing
  <2> QED
    BY <2>1, <2>2, <2>3, <2>4, <2>5
<1>13. ASSUME program = "adb", UNCHANGED <<program, fastVars>>, Disregard
       PROVE  HInv'
  BY <1>13 DEF Disregard, Typed, DevTypeOK, ScanTypeOK, Counted, Holders, One, Full, Apart, Uses,
         devVars, kernel, objects, scanVars, fastVars, io, Listing
<1>14. ASSUME NEW o \in Objects, program = "adb", UNCHANGED <<program, fastVars>>, Disconnect(o)
       PROVE  HInv'
  <2>1. Count({}, {o})
    BY <1>14 DEF Disconnect, CloseHandle
  <2>2. \A x \in Objects : refs[x] + One(x \in {}) - One(x \in {o}) >= 0
    <3>1. \A x \in {o} : refs[x] > 0
      BY HeldIsLive, <1>14 DEF
         Disconnect, CloseHandle, Typed, DevTypeOK, ScanTypeOK, Listing
    <3> QED
      BY <3>1 DEF Typed, DevTypeOK, ScanTypeOK, One
  <2>3. \A x \in {} : refs[x] > 0
    BY HeldIsLive, <1>14 DEF Typed, DevTypeOK, ScanTypeOK
  <2>4. {} \in SUBSET Objects /\ {o} \in SUBSET Objects
    BY <1>14 DEF Disconnect, CloseHandle,
         Typed, DevTypeOK, ScanTypeOK
  <2>5. Recount({}, {o})
    BY <2>1, <2>2, <2>3, <2>4, CountStep DEF Typed
  <2>6. Typed'
    BY <2>5, <1>14 DEF Disconnect, CloseHandle, Recount, Typed, DevTypeOK,
         ScanTypeOK, devVars, kernel, objects, scanVars, fastVars, io
  <2>7. Counted'
    BY <2>5, <1>14 DEF Disconnect, CloseHandle, Recount, Typed, DevTypeOK,
         ScanTypeOK, Counted, Holders, One, Uses, devVars, kernel, objects, scanVars, fastVars, io,
         Listing
  <2>8. Full'
    BY <2>5, <1>14 DEF Disconnect, CloseHandle, Recount, Typed, DevTypeOK, ScanTypeOK,
         Full, devVars, kernel, objects, scanVars, fastVars, io
  <2>9. Apart'
    <3>1. \A x \in found' : refs'[x] > 0
      BY <2>6, <2>7, ListedIsLive
    <3> QED
      BY <2>5, <3>1, <1>14 DEF
           Disconnect, CloseHandle, Recount, Typed, DevTypeOK, ScanTypeOK, Apart, Uses, devVars,
           kernel, objects, scanVars, fastVars, io, Listing
  <2>10. Uses'
    BY <1>14 DEF Disconnect, CloseHandle, Typed, DevTypeOK, ScanTypeOK, Uses,
         devVars, kernel, objects, scanVars, fastVars, io, Listing
  <2> QED
    BY <2>6, <2>7, <2>8, <2>9, <2>10
<1>15. ASSUME program = "fastboot", UNCHANGED <<program, scanVars>>, UsbOpen
       PROVE  HInv'
  BY <1>15 DEF UsbOpen, Typed, DevTypeOK, ScanTypeOK, Counted, Holders, One, Full, Apart, Uses,
         devVars, kernel, objects, scanVars, fastVars, io, Listing
<1>16. ASSUME program = "fastboot", UNCHANGED <<program, scanVars>>, HaveList
       PROVE  HInv'
  BY <1>16 DEF HaveList, Typed, DevTypeOK, ScanTypeOK, Counted, Holders, One, Full, Apart, Uses,
         devVars, kernel, objects, scanVars, fastVars, io, Listing
<1>17. ASSUME program = "fastboot", UNCHANGED <<program, scanVars>>, NoList
       PROVE  HInv'
  BY <1>17 DEF NoList, Typed, DevTypeOK, ScanTypeOK, Counted, Holders, One, Full, Apart, Uses,
         devVars, kernel, objects, scanVars, fastVars, io, Listing
<1>18. ASSUME NEW o \in Objects, program = "fastboot", UNCHANGED <<program, scanVars>>, Probe(o)
       PROVE  HInv'
  <2>1. Typed'
    BY <1>18 DEF Probe, OpenHandle, Typed, DevTypeOK, ScanTypeOK, Counted, Holders,
         One, Full, Apart, Uses, devVars, kernel, objects, scanVars, fastVars, io, Listing
  <2>2. Counted'
    BY <1>18 DEF Probe, OpenHandle, Typed, DevTypeOK, ScanTypeOK, Counted, Holders,
         One, Full, Apart, Uses, devVars, kernel, objects, scanVars, fastVars, io, Listing
  <2>3. Full'
    BY <1>18 DEF Probe, OpenHandle, Typed, DevTypeOK, ScanTypeOK, Counted, Holders,
         One, Full, Apart, Uses, devVars, kernel, objects, scanVars, fastVars, io, Listing
  <2>4. Apart'
    BY <1>18 DEF Probe, OpenHandle, Typed, DevTypeOK, ScanTypeOK, Counted, Holders,
         One, Full, Apart, Uses, devVars, kernel, objects, scanVars, fastVars, io, Listing
  <2>5. Uses'
    BY <1>18 DEF Probe, OpenHandle, Typed, DevTypeOK, ScanTypeOK, Counted, Holders,
         One, Full, Apart, Uses, devVars, kernel, objects, scanVars, fastVars, io, Listing
  <2> QED
    BY <2>1, <2>2, <2>3, <2>4, <2>5
<1>19. ASSUME NEW o \in Objects, program = "fastboot", UNCHANGED <<program, scanVars>>,
           NextDevice(o)
       PROVE  HInv'
  BY <1>19 DEF NextDevice, Typed, DevTypeOK, ScanTypeOK, Counted, Holders, One, Full, Apart, Uses,
         devVars, kernel, objects, scanVars, fastVars, io, Listing
<1>20. ASSUME program = "fastboot", UNCHANGED <<program, scanVars>>, Take
       PROVE  HInv'
  BY <1>20 DEF Take, Typed, DevTypeOK, ScanTypeOK, Counted, Holders, One, Full, Apart, Uses,
         devVars, kernel, objects, scanVars, fastVars, io, Listing
<1>21. ASSUME program = "fastboot", UNCHANGED <<program, scanVars>>, Pass
       PROVE  HInv'
  <2>1. Count({}, {probing})
    BY <1>21 DEF Pass, CloseHandle
  <2>2. \A x \in Objects : refs[x] + One(x \in {}) - One(x \in {probing}) >= 0
    <3>1. \A x \in {probing} : refs[x] > 0
      BY HeldIsLive, <1>21 DEF
         Pass, CloseHandle, Typed, DevTypeOK, ScanTypeOK, Listing
    <3> QED
      BY <3>1 DEF Typed, DevTypeOK, ScanTypeOK, One
  <2>3. \A x \in {} : refs[x] > 0
    BY HeldIsLive, <1>21 DEF Typed, DevTypeOK, ScanTypeOK
  <2>4. {} \in SUBSET Objects /\ {probing} \in SUBSET Objects
    BY <1>21 DEF Pass, CloseHandle,
         Typed, DevTypeOK, ScanTypeOK
  <2>5. Recount({}, {probing})
    BY <2>1, <2>2, <2>3, <2>4, CountStep DEF Typed
  <2>6. Typed'
    BY <2>5, <1>21 DEF Pass, CloseHandle, Recount, Typed, DevTypeOK, ScanTypeOK,
         devVars, kernel, objects, scanVars, fastVars, io
  <2>7. Counted'
    BY <2>5, <1>21 DEF Pass, CloseHandle, Recount, Typed, DevTypeOK, ScanTypeOK,
         Counted, Holders, One, Uses, devVars, kernel, objects, scanVars, fastVars, io, Listing
  <2>8. Full'
    BY <2>5, <1>21 DEF Pass, CloseHandle, Recount, Typed, DevTypeOK, ScanTypeOK, Full,
         devVars, kernel, objects, scanVars, fastVars, io
  <2>9. Apart'
    <3>1. \A x \in found' : refs'[x] > 0
      BY <2>6, <2>7, ListedIsLive
    <3> QED
      BY <2>5, <3>1, <1>21 DEF
           Pass, CloseHandle, Recount, Typed, DevTypeOK, ScanTypeOK, Apart, Uses, devVars, kernel,
           objects, scanVars, fastVars, io, Listing
  <2>10. Uses'
    BY <1>21 DEF Pass, CloseHandle, Typed, DevTypeOK, ScanTypeOK, Uses, devVars,
         kernel, objects, scanVars, fastVars, io, Listing
  <2> QED
    BY <2>6, <2>7, <2>8, <2>9, <2>10
<1>22. ASSUME program = "fastboot", UNCHANGED <<program, scanVars>>, EndOpen
       PROVE  HInv'
  <2>1. Count({}, found)
    BY <1>22 DEF EndOpen
  <2>2. \A x \in Objects : refs[x] + One(x \in {}) - One(x \in found) >= 0
    <3>1. \A x \in found : refs[x] > 0
      BY HeldIsLive, <1>22 DEF
         EndOpen, Typed, DevTypeOK, ScanTypeOK, Listing
    <3> QED
      BY <3>1 DEF Typed, DevTypeOK, ScanTypeOK, One
  <2>3. \A x \in {} : refs[x] > 0
    BY HeldIsLive, <1>22 DEF Typed, DevTypeOK, ScanTypeOK
  <2>4. {} \in SUBSET Objects /\ found \in SUBSET Objects
    BY <1>22 DEF EndOpen, Typed,
         DevTypeOK, ScanTypeOK
  <2>5. Recount({}, found)
    BY <2>1, <2>2, <2>3, <2>4, CountStep DEF Typed
  <2>6. Typed'
    BY <2>5, <1>22 DEF EndOpen, Recount, Typed, DevTypeOK, ScanTypeOK, devVars,
         kernel, objects, scanVars, fastVars, io
  <2>7. Counted'
    BY <2>5, <1>22 DEF EndOpen, Recount, Typed, DevTypeOK, ScanTypeOK, Counted,
         Holders, One, Uses, devVars, kernel, objects, scanVars, fastVars, io, Listing
  <2>8. Full'
    BY <2>5, <1>22 DEF EndOpen, Recount, Typed, DevTypeOK, ScanTypeOK, Full, devVars,
         kernel, objects, scanVars, fastVars, io
  <2>9. Apart'
    <3>1. \A x \in found' : refs'[x] > 0
      BY <2>6, <2>7, ListedIsLive
    <3> QED
      BY <2>5, <3>1, <1>22 DEF
           EndOpen, Recount, Typed, DevTypeOK, ScanTypeOK, Apart, Uses, devVars, kernel, objects,
           scanVars, fastVars, io, Listing
  <2>10. Uses'
    BY <1>22 DEF EndOpen, Typed, DevTypeOK, ScanTypeOK, Uses, devVars, kernel,
         objects, scanVars, fastVars, io, Listing
  <2> QED
    BY <2>6, <2>7, <2>8, <2>9, <2>10
<1>23. ASSUME NEW len \in 0..MaxLen, program = "fastboot", UNCHANGED <<program, scanVars>>,
           Write(len)
       PROVE  HInv'
  BY <1>23 DEF Write, Opened, Typed, DevTypeOK, ScanTypeOK, Counted, Holders, One, Full, Apart,
         Uses, devVars, kernel, objects, scanVars, fastVars, io, Listing
<1>24. ASSUME NEW len \in 0..MaxLen, program = "fastboot", UNCHANGED <<program, scanVars>>,
           WriteClosed(len)
       PROVE  HInv'
  BY <1>24 DEF WriteClosed, Opened, Typed, DevTypeOK, ScanTypeOK, Counted, Holders, One, Full,
         Apart, Uses, devVars, kernel, objects, scanVars, fastVars, io, Listing
<1>25. ASSUME program = "fastboot", UNCHANGED <<program, scanVars>>, WriteChunk
       PROVE  HInv'
  BY <1>25 DEF WriteChunk, Typed, DevTypeOK, ScanTypeOK, Counted, Holders, One, Full, Apart, Uses,
         devVars, kernel, objects, scanVars, fastVars, io, Listing
<1>26. ASSUME program = "fastboot", UNCHANGED <<program, scanVars>>, WriteFails
       PROVE  HInv'
  BY <1>26 DEF WriteFails, Typed, DevTypeOK, ScanTypeOK, Counted, Holders, One, Full, Apart, Uses,
         devVars, kernel, objects, scanVars, fastVars, io, Listing
<1>27. ASSUME program = "fastboot", UNCHANGED <<program, scanVars>>, WriteReturns
       PROVE  HInv'
  BY <1>27 DEF WriteReturns, Typed, DevTypeOK, ScanTypeOK, Counted, Holders, One, Full, Apart, Uses,
         devVars, kernel, objects, scanVars, fastVars, io, Listing
<1>28. ASSUME program = "fastboot", UNCHANGED <<program, scanVars>>, Close
       PROVE  HInv'
  <2>1. Count({}, {transport})
    BY <1>28 DEF Close, CloseHandle, Opened
  <2>2. \A x \in Objects : refs[x] + One(x \in {}) - One(x \in {transport}) >= 0
    <3>1. \A x \in {transport} : refs[x] > 0
      BY HeldIsLive, <1>28 DEF
         Close, CloseHandle, Opened, Typed, DevTypeOK, ScanTypeOK, Listing
    <3> QED
      BY <3>1 DEF Typed, DevTypeOK, ScanTypeOK, One
  <2>3. \A x \in {} : refs[x] > 0
    BY HeldIsLive, <1>28 DEF Typed, DevTypeOK, ScanTypeOK
  <2>4. {} \in SUBSET Objects /\ {transport} \in SUBSET Objects
    BY <1>28 DEF Close, CloseHandle,
         Opened, Typed, DevTypeOK, ScanTypeOK
  <2>5. Recount({}, {transport})
    BY <2>1, <2>2, <2>3, <2>4, CountStep DEF Typed
  <2>6. Typed'
    BY <2>5, <1>28 DEF Close, CloseHandle, Opened, Recount, Typed, DevTypeOK,
         ScanTypeOK, devVars, kernel, objects, scanVars, fastVars, io
  <2>7. Counted'
    BY <2>5, <1>28 DEF Close, CloseHandle, Opened, Recount, Typed, DevTypeOK,
         ScanTypeOK, Counted, Holders, One, Uses, devVars, kernel, objects, scanVars, fastVars, io,
         Listing
  <2>8. Full'
    BY <2>5, <1>28 DEF Close, CloseHandle, Opened, Recount, Typed, DevTypeOK,
         ScanTypeOK, Full, devVars, kernel, objects, scanVars, fastVars, io
  <2>9. Apart'
    <3>1. \A x \in found' : refs'[x] > 0
      BY <2>6, <2>7, ListedIsLive
    <3> QED
      BY <2>5, <3>1, <1>28 DEF
           Close, CloseHandle, Opened, Recount, Typed, DevTypeOK, ScanTypeOK, Apart, Uses, devVars,
           kernel, objects, scanVars, fastVars, io, Listing
  <2>10. Uses'
    BY <1>28 DEF Close, CloseHandle, Opened, Typed, DevTypeOK, ScanTypeOK, Uses,
         devVars, kernel, objects, scanVars, fastVars, io, Listing
  <2> QED
    BY <2>6, <2>7, <2>8, <2>9, <2>10
<1>29. ASSUME program = "client", UNCHANGED <<program, fastVars>>, ClientLists
       PROVE  HInv'
  BY <1>29 DEF ClientLists, Typed, DevTypeOK, ScanTypeOK, Counted, Holders, One, Full, Apart, Uses,
         devVars, kernel, objects, scanVars, fastVars, io, Listing
<1>30. ASSUME program = "client", UNCHANGED <<program, fastVars>>, ClientKeeps
       PROVE  HInv'
  <2>1. Count({}, found \cap known)
    BY <1>30 DEF ClientKeeps
  <2>2. \A x \in Objects : refs[x] + One(x \in {}) - One(x \in found \cap known) >= 0
    <3>1. \A x \in found \cap known : refs[x] > 0
      BY HeldIsLive, <1>30 DEF
         ClientKeeps, Typed, DevTypeOK, ScanTypeOK, Listing
    <3> QED
      BY <3>1 DEF Typed, DevTypeOK, ScanTypeOK, One
  <2>3. \A x \in {} : refs[x] > 0
    BY HeldIsLive, <1>30 DEF Typed, DevTypeOK, ScanTypeOK
  <2>4. {} \in SUBSET Objects /\ found \cap known \in SUBSET Objects
    BY <1>30 DEF ClientKeeps,
         Typed, DevTypeOK, ScanTypeOK
  <2>5. Recount({}, found \cap known)
    BY <2>1, <2>2, <2>3, <2>4, CountStep DEF Typed
  <2>6. Typed'
    BY <2>5, <1>30 DEF ClientKeeps, Recount, Typed, DevTypeOK, ScanTypeOK, devVars,
         kernel, objects, scanVars, fastVars, io
  <2>7. Counted'
    BY <2>5, <1>30 DEF ClientKeeps, Recount, Typed, DevTypeOK, ScanTypeOK, Counted,
         Holders, One, Uses, devVars, kernel, objects, scanVars, fastVars, io, Listing
  <2>8. Full'
    BY <2>5, <1>30 DEF ClientKeeps, Recount, Typed, DevTypeOK, ScanTypeOK, Full,
         devVars, kernel, objects, scanVars, fastVars, io
  <2>9. Apart'
    <3>1. \A x \in found' : refs'[x] > 0
      BY <2>6, <2>7, ListedIsLive
    <3> QED
      BY <2>5, <3>1, <1>30 DEF
           ClientKeeps, Recount, Typed, DevTypeOK, ScanTypeOK, Apart, Uses, devVars, kernel,
           objects, scanVars, fastVars, io, Listing
  <2>10. Uses'
    BY <1>30 DEF ClientKeeps, Typed, DevTypeOK, ScanTypeOK, Uses, devVars, kernel,
         objects, scanVars, fastVars, io, Listing
  <2> QED
    BY <2>6, <2>7, <2>8, <2>9, <2>10
<1>31. ASSUME NEW o \in Objects, program = "client", UNCHANGED <<program, fastVars>>, ClientDrops(o)
       PROVE  HInv'
  <2>1. Count({}, {o})
    BY <1>31 DEF ClientDrops
  <2>2. \A x \in Objects : refs[x] + One(x \in {}) - One(x \in {o}) >= 0
    <3>1. \A x \in {o} : refs[x] > 0
      BY HeldIsLive, <1>31 DEF
         ClientDrops, Typed, DevTypeOK, ScanTypeOK, Listing
    <3> QED
      BY <3>1 DEF Typed, DevTypeOK, ScanTypeOK, One
  <2>3. \A x \in {} : refs[x] > 0
    BY HeldIsLive, <1>31 DEF Typed, DevTypeOK, ScanTypeOK
  <2>4. {} \in SUBSET Objects /\ {o} \in SUBSET Objects
    BY <1>31 DEF ClientDrops, Typed,
         DevTypeOK, ScanTypeOK
  <2>5. Recount({}, {o})
    BY <2>1, <2>2, <2>3, <2>4, CountStep DEF Typed
  <2>6. Typed'
    BY <2>5, <1>31 DEF ClientDrops, Recount, Typed, DevTypeOK, ScanTypeOK, devVars,
         kernel, objects, scanVars, fastVars, io
  <2>7. Counted'
    BY <2>5, <1>31 DEF ClientDrops, Recount, Typed, DevTypeOK, ScanTypeOK, Counted,
         Holders, One, Uses, devVars, kernel, objects, scanVars, fastVars, io, Listing
  <2>8. Full'
    BY <2>5, <1>31 DEF ClientDrops, Recount, Typed, DevTypeOK, ScanTypeOK, Full,
         devVars, kernel, objects, scanVars, fastVars, io
  <2>9. Apart'
    <3>1. \A x \in found' : refs'[x] > 0
      BY <2>6, <2>7, ListedIsLive
    <3> QED
      BY <2>5, <3>1, <1>31 DEF
           ClientDrops, Recount, Typed, DevTypeOK, ScanTypeOK, Apart, Uses, devVars, kernel,
           objects, scanVars, fastVars, io, Listing
  <2>10. Uses'
    BY <1>31 DEF ClientDrops, Typed, DevTypeOK, ScanTypeOK, Uses, devVars, kernel,
         objects, scanVars, fastVars, io, Listing
  <2> QED
    BY <2>6, <2>7, <2>8, <2>9, <2>10
<1>32. ASSUME NEW o \in Objects, program = "client", UNCHANGED <<program, fastVars>>,
           UNCHANGED scanVars, OpenHandle(o)
       PROVE  HInv'
  <2>1. Typed'
    BY <1>32 DEF OpenHandle, Typed, DevTypeOK, ScanTypeOK, Counted, Holders, One,
         Full, Apart, Uses, devVars, kernel, objects, scanVars, fastVars, io, Listing
  <2>2. Counted'
    BY <1>32 DEF OpenHandle, Typed, DevTypeOK, ScanTypeOK, Counted, Holders, One,
         Full, Apart, Uses, devVars, kernel, objects, scanVars, fastVars, io, Listing
  <2>3. Full'
    BY <1>32 DEF OpenHandle, Typed, DevTypeOK, ScanTypeOK, Counted, Holders, One,
         Full, Apart, Uses, devVars, kernel, objects, scanVars, fastVars, io, Listing
  <2>4. Apart'
    BY <1>32 DEF OpenHandle, Typed, DevTypeOK, ScanTypeOK, Counted, Holders, One,
         Full, Apart, Uses, devVars, kernel, objects, scanVars, fastVars, io, Listing
  <2>5. Uses'
    BY <1>32 DEF OpenHandle, Typed, DevTypeOK, ScanTypeOK, Counted, Holders, One,
         Full, Apart, Uses, devVars, kernel, objects, scanVars, fastVars, io, Listing
  <2> QED
    BY <2>1, <2>2, <2>3, <2>4, <2>5
<1>33. ASSUME NEW o \in Objects, program = "client", UNCHANGED <<program, fastVars>>,
           UNCHANGED scanVars, CloseHandle(o)
       PROVE  HInv'
  <2>1. Count({}, {o})
    BY <1>33 DEF CloseHandle
  <2>2. \A x \in Objects : refs[x] + One(x \in {}) - One(x \in {o}) >= 0
    <3>1. \A x \in {o} : refs[x] > 0
      BY HeldIsLive, <1>33 DEF
         CloseHandle, Typed, DevTypeOK, ScanTypeOK, Listing
    <3> QED
      BY <3>1 DEF Typed, DevTypeOK, ScanTypeOK, One
  <2>3. \A x \in {} : refs[x] > 0
    BY HeldIsLive, <1>33 DEF Typed, DevTypeOK, ScanTypeOK
  <2>4. {} \in SUBSET Objects /\ {o} \in SUBSET Objects
    BY <1>33 DEF CloseHandle, Typed,
         DevTypeOK, ScanTypeOK
  <2>5. Recount({}, {o})
    BY <2>1, <2>2, <2>3, <2>4, CountStep DEF Typed
  <2>6. Typed'
    BY <2>5, <1>33 DEF CloseHandle, Recount, Typed, DevTypeOK, ScanTypeOK, devVars,
         kernel, objects, scanVars, fastVars, io
  <2>7. Counted'
    BY <2>5, <1>33 DEF CloseHandle, Recount, Typed, DevTypeOK, ScanTypeOK, Counted,
         Holders, One, Uses, devVars, kernel, objects, scanVars, fastVars, io, Listing
  <2>8. Full'
    BY <2>5, <1>33 DEF CloseHandle, Recount, Typed, DevTypeOK, ScanTypeOK, Full,
         devVars, kernel, objects, scanVars, fastVars, io
  <2>9. Apart'
    <3>1. \A x \in found' : refs'[x] > 0
      BY <2>6, <2>7, ListedIsLive
    <3> QED
      BY <2>5, <3>1, <1>33 DEF
           CloseHandle, Recount, Typed, DevTypeOK, ScanTypeOK, Apart, Uses, devVars, kernel,
           objects, scanVars, fastVars, io, Listing
  <2>10. Uses'
    BY <1>33 DEF CloseHandle, Typed, DevTypeOK, ScanTypeOK, Uses, devVars, kernel,
         objects, scanVars, fastVars, io, Listing
  <2> QED
    BY <2>6, <2>7, <2>8, <2>9, <2>10
<1>34. ASSUME NEW o \in Objects, NEW c \in Configs, program = "client", UNCHANGED <<program,
           fastVars>>, UNCHANGED scanVars, SetConfiguration(o, c)
       PROVE  HInv'
  <2>1. Typed'
    BY <1>34 DEF SetConfiguration, Typed, DevTypeOK, ScanTypeOK, Counted, Holders,
         One, Full, Apart, Uses, devVars, kernel, objects, scanVars, fastVars, io, Listing
  <2>2. Counted'
    BY <1>34 DEF SetConfiguration, Typed, DevTypeOK, ScanTypeOK, Counted, Holders,
         One, Full, Apart, Uses, devVars, kernel, objects, scanVars, fastVars, io, Listing
  <2>3. Full'
    BY <1>34 DEF SetConfiguration, Typed, DevTypeOK, ScanTypeOK, Counted, Holders,
         One, Full, Apart, Uses, devVars, kernel, objects, scanVars, fastVars, io, Listing
  <2>4. Apart'
    BY <1>34 DEF SetConfiguration, Typed, DevTypeOK, ScanTypeOK, Counted, Holders,
         One, Full, Apart, Uses, devVars, kernel, objects, scanVars, fastVars, io, Listing
  <2>5. Uses'
    BY <1>34 DEF SetConfiguration, Typed, DevTypeOK, ScanTypeOK, Counted, Holders,
         One, Full, Apart, Uses, devVars, kernel, objects, scanVars, fastVars, io, Listing
  <2> QED
    BY <2>1, <2>2, <2>3, <2>4, <2>5
<1>35. ASSUME NEW o \in Objects, program = "client", UNCHANGED <<program, fastVars>>,
           UNCHANGED scanVars, RefreshCache(o)
       PROVE  HInv'
  <2>1. Typed'
    <3>1. node[o] \in Nodes /\ at[node[o]] \in Devices
      BY <1>35, HeldIsLive DEF RefreshCache, Full, Typed, DevTypeOK
    <3>2. ReadActive(at[node[o]]) \in Descriptors
      BY <3>1, ReadType DEF Typed
    <3> QED
      BY <1>35, <3>2 DEF RefreshCache, Typed, DevTypeOK, ScanTypeOK, kernel, scanVars, fastVars
  <2>2. Counted'
    BY <1>35 DEF RefreshCache, ReadActive, Typed, DevTypeOK, ScanTypeOK, Counted,
         Holders, One, Full, Apart, Uses, devVars, kernel, objects, scanVars, fastVars, io, Listing
  <2>3. Full'
    BY <1>35, ReadType DEF RefreshCache, Typed, DevTypeOK, ScanTypeOK, Full, Counted,
         Holders, One, devVars, kernel, objects, scanVars, fastVars, io, Listing
  <2>4. Apart'
    BY <1>35 DEF RefreshCache, ReadActive, Typed, DevTypeOK, ScanTypeOK, Counted,
         Holders, One, Full, Apart, Uses, devVars, kernel, objects, scanVars, fastVars, io, Listing
  <2>5. Uses'
    BY <1>35 DEF RefreshCache, ReadActive, Typed, DevTypeOK, ScanTypeOK, Counted,
         Holders, One, Full, Apart, Uses, devVars, kernel, objects, scanVars, fastVars, io, Listing
  <2> QED
    BY <2>1, <2>2, <2>3, <2>4, <2>5
<1>36. ASSUME NEW o \in Objects, program = "client", UNCHANGED <<program, fastVars>>,
           UNCHANGED scanVars, MissRefresh(o)
       PROVE  HInv'
  BY <1>36 DEF MissRefresh, Typed, DevTypeOK, ScanTypeOK, Counted, Holders, One, Full, Apart, Uses,
         devVars, kernel, objects, scanVars, fastVars, io, Listing
<1>38. ASSUME NEW n \in Nodes, NEW c \in Configs, UNCHANGED <<program, scanVars, fastVars>>,
              Reconfigure(n, c)
       PROVE  HInv'
  <2>1. /\ active' = [active EXCEPT ![at[n]] = c]
        /\ cache' = [o \in Objects |->
                      IF refs[o] > 0 /\ desc[o] = at[n] /\ cache[o] = "current"
                      THEN "missed" ELSE cache[o]]
        /\ UNCHANGED <<at, plugged, refs, node, desc, cdesc, handle, todo, found>>
    BY <1>38 DEF Reconfigure
  <2>2. active' \in [Devices -> Configs] /\ cache' \in [Objects -> {"current", "due", "missed"}]
    BY <2>1 DEF Typed, DevTypeOK
  <2>3. Typed'
    BY <1>38, <2>1, <2>2 DEF Typed, DevTypeOK, ScanTypeOK, scanVars, fastVars, io
  <2>4. Counted' /\ Full' /\ Apart'
    BY <1>38, <2>1 DEF Counted, Holders, One, Full, Apart, scanVars, fastVars, Listing
  <2>5. Uses'
    BY <1>38, <2>1 DEF Uses, scanVars, fastVars, Listing
  <2> QED
    BY <2>3, <2>4, <2>5
<1>37. CASE UNCHANGED vars
  BY <1>37 DEF vars, Typed, DevTypeOK, ScanTypeOK, Counted, Holders, One, Full, Apart, Uses,
         devVars, kernel, objects, scanVars, fastVars, io, Listing
<1> QED
  BY
     <1>1, <1>2, <1>3, <1>4, <1>5, <1>6, <1>7, <1>8, <1>9, <1>10, <1>11, <1>12, <1>13, <1>14, <1>15, <1>16, <1>17, <1>18, <1>19, <1>20, <1>21, <1>22, <1>23, <1>24, <1>25, <1>26, <1>27, <1>28, <1>29, <1>30, <1>31, <1>32, <1>33, <1>34, <1>35, <1>36, <1>37, <1>38 DEF Next, Environment, Adb, Scan, Fastboot, Client, ClientConfigures, ListNode

-----------------------------------------------------------------------------
(***************************************************************************)
(* The pending events.                                                     *)
(***************************************************************************)

\* a is an event e about each object of S.
AnnouncesEach(a, e, S) ==
  /\ a \in Seq(Events)
  /\ \A i \in 1..Len(a) : a[i].event = e /\ a[i].of \in S
  /\ \A i, j \in 1..Len(a) : a[i].of = a[j].of => i = j
  /\ \A x \in S : \E i \in 1..Len(a) : a[i].of = x

\* The events about S that are announced: each object of S has one of them.
LEMMA AnnounceEach ==
  ASSUME NEW S \in SUBSET Objects, NEW s \in Orders(S), NEW e \in {"ARRIVED", "LEFT"}
  PROVE  AnnouncesEach(Announce(e, s), e, S)
<1>1. PICK k \in Nat : /\ s \in [1..k -> S]
                       /\ \A i, j \in 1..k : s[i] = s[j] => i = j
                       /\ \A x \in S : \E i \in 1..k : s[i] = x
  BY ObjectsAssumption, FS_Subset, FS_CardinalityType
  DEF Orders, Bijection, Injection, Surjection, IsInjective
<1>2. /\ DOMAIN Announce(e, s) = 1..k
      /\ \A i \in 1..k : Announce(e, s)[i] = [event |-> e, of |-> s[i]]
  BY <1>1 DEF Announce
<1>3. Announce(e, s) \in Seq(Events)
  BY AnnounceType
<1>4. Len(Announce(e, s)) = k
  BY <1>1, <1>2, <1>3, LenProperties
<1> QED
  BY <1>1, <1>2, <1>3, <1>4 DEF AnnouncesEach

\* The first event is done with.
LEMMA TailAlternates ==
  ASSUME NEW p \in Seq(Events), p # <<>>, NEW S, Alternating(p, S)
  PROVE  Alternating(Tail(p), S)
<1> DEFINE q == Tail(p)
<1>1. /\ q \in Seq(Events) /\ Len(q) = Len(p) - 1 /\ Len(p) \in Nat
      /\ DOMAIN p = 1..Len(p) /\ DOMAIN q = 1..Len(q)
      /\ \A i \in 1..Len(q) : q[i] = p[i + 1]
  BY HeadTailProperties, LenProperties
<1> HIDE DEF q
<1>2. ASSUME NEW i \in 1..Len(q), NEW j \in 1..Len(q), i < j, q[i].of = q[j].of,
             \A k \in (i + 1)..(j - 1) : q[k].of # q[i].of
      PROVE  q[i].event # q[j].event
  <2>1. i + 1 \in DOMAIN p /\ j + 1 \in DOMAIN p /\ q[i] = p[i + 1] /\ q[j] = p[j + 1]
    BY <1>1
  <2>2. ASSUME NEW k \in ((i + 1) + 1)..((j + 1) - 1) PROVE p[k].of # p[i + 1].of
    <3>1. k - 1 \in (i + 1)..(j - 1) /\ k - 1 \in 1..Len(q) /\ (k - 1) + 1 = k
      BY <1>1
    <3> QED
      BY <1>1, <1>2, <2>1, <3>1
  <2> QED
    BY <1>2, <2>1, <2>2 DEF Alternating
<1>3. ASSUME NEW i \in 1..Len(q), \A k \in (i + 1)..Len(q) : q[k].of # q[i].of
      PROVE  q[i].event = "ARRIVED" <=> q[i].of \in S
  <2>1. i + 1 \in DOMAIN p /\ q[i] = p[i + 1]
    BY <1>1
  <2>2. ASSUME NEW k \in ((i + 1) + 1)..Len(p) PROVE p[k].of # p[i + 1].of
    <3>1. k - 1 \in (i + 1)..Len(q) /\ k - 1 \in 1..Len(q) /\ (k - 1) + 1 = k
      BY <1>1
    <3> QED
      BY <1>1, <1>3, <2>1, <3>1
  <2> QED
    BY <2>1, <2>2 DEF Alternating
<1>4. Alternating(q, S)
  BY <1>1, <1>2, <1>3 DEF Alternating
<1> QED
  BY <1>4 DEF q

\* Events are announced about objects whose standing changes.
LEMMA ConcatAlternates ==
  ASSUME NEW p \in Seq(Events), NEW a \in Seq(Events), NEW S, NEW T, Alternating(p, S),
         \A i, j \in 1..Len(a) : a[i].of = a[j].of => i = j,
         \A i \in 1..Len(a) : /\ a[i].event = "ARRIVED" <=> a[i].of \in T
                              /\ a[i].event = "ARRIVED" <=> a[i].of \notin S,
         \A x \in Objects : (\A i \in 1..Len(a) : a[i].of # x) => (x \in S <=> x \in T)
  PROVE  Alternating(p \o a, T)
<1> DEFINE q == p \o a
           m == Len(p)
           n == Len(a)
<1>1. /\ m \in Nat /\ n \in Nat /\ DOMAIN p = 1..m /\ q \in Seq(Events)
      /\ Len(q) = m + n /\ DOMAIN q = 1..(m + n)
      /\ \A i \in 1..(m + n) : q[i] = IF i <= m THEN p[i] ELSE a[i - m]
  BY ConcatProperties, LenProperties
<1> HIDE DEF q
<1>2. /\ \A i \in 1..m : q[i] = p[i]
      /\ \A i \in 1..n : q[m + i] = a[i]
      /\ \A i \in 1..(m + n) : i > m => i - m \in 1..n /\ q[i] = a[i - m]
  BY <1>1
<1>3. \A i \in 1..m : p[i].of \in Objects
  <2>1. \A i \in 1..m : p[i] \in Events
    BY <1>1, LenProperties
  <2> QED
    BY <2>1 DEF Events
<1>4. ASSUME NEW i \in 1..(m + n), NEW j \in 1..(m + n), i < j, q[i].of = q[j].of,
             \A k \in (i + 1)..(j - 1) : q[k].of # q[i].of
      PROVE  q[i].event # q[j].event
  <2>1. CASE j <= m
    <3>1. i \in 1..m /\ j \in 1..m /\ q[i] = p[i] /\ q[j] = p[j]
      BY <1>1, <1>2, <1>4, <2>1
    <3>2. \A k \in (i + 1)..(j - 1) : k \in 1..m
      BY <1>1, <3>1
    <3>3. \A k \in (i + 1)..(j - 1) : p[k].of # p[i].of
      BY <1>2, <1>4, <3>1, <3>2
    <3>4. i \in DOMAIN p /\ j \in DOMAIN p /\ i < j /\ p[i].of = p[j].of
      BY <1>1, <1>4, <3>1
    <3>5. p[i].event # p[j].event
      BY <3>3, <3>4 DEF Alternating
    <3> QED
      BY <3>1, <3>5
  <2>2. CASE i > m
    <3>1. i - m \in 1..n /\ j - m \in 1..n /\ q[i] = a[i - m] /\ q[j] = a[j - m]
      BY <1>1, <1>2, <1>4, <2>2
    <3>2. i - m = j - m
      BY <1>4, <3>1
    <3> QED
      BY <1>1, <1>4, <3>2
  <2>3. CASE i <= m /\ j > m
    <3>1. i \in 1..m /\ q[i] = p[i] /\ j - m \in 1..n /\ q[j] = a[j - m]
      BY <1>1, <1>2, <2>3
    <3>2. \A k \in (i + 1)..m : k \in (i + 1)..(j - 1) /\ k \in 1..m
      BY <1>1, <2>3, <3>1
    <3>3. \A k \in (i + 1)..m : p[k].of # p[i].of
      BY <1>2, <1>4, <3>1, <3>2
    <3>4. p[i].event = "ARRIVED" <=> p[i].of \in S
      BY <1>1, <3>1, <3>3 DEF Alternating
    <3>5. a[j - m].event = "ARRIVED" <=> a[j - m].of \notin S
      BY <3>1
    <3> QED
      BY <1>4, <3>1, <3>4, <3>5
  <2> QED
    BY <1>1, <2>1, <2>2, <2>3
<1>5. ASSUME NEW i \in 1..(m + n), \A k \in (i + 1)..(m + n) : q[k].of # q[i].of
      PROVE  q[i].event = "ARRIVED" <=> q[i].of \in T
  <2>1. CASE i <= m
    <3>1. i \in 1..m /\ q[i] = p[i]
      BY <1>1, <1>2, <2>1
    <3>2. \A k \in (i + 1)..m : k \in (i + 1)..(m + n) /\ k \in 1..m
      BY <1>1, <3>1
    <3>3. \A k \in (i + 1)..m : p[k].of # p[i].of
      BY <1>2, <1>5, <3>1, <3>2
    <3>4. p[i].event = "ARRIVED" <=> p[i].of \in S
      BY <1>1, <3>1, <3>3 DEF Alternating
    <3>5. \A k \in 1..n : m + k \in (i + 1)..(m + n)
      BY <1>1, <3>1
    <3>6. \A k \in 1..n : a[k].of # p[i].of
      BY <1>2, <1>5, <3>1, <3>5
    <3> QED
      BY <1>3, <3>1, <3>4, <3>6
  <2>2. CASE i > m
    BY <1>2, <2>2
  <2> QED
    BY <1>1, <2>1, <2>2
<1>6. Alternating(q, T)
  BY <1>1, <1>4, <1>5 DEF Alternating
<1> QED
  BY <1>6 DEF q

\* The pending events, with and without one in hand.
LEMMA PendingIs ==
  ASSUME ScanTypeOK
  PROVE  /\ Pending \in Seq(Events)
         /\ handling = NULL => Pending = queue
         /\ handling # NULL => Pending # <<>> /\ Tail(Pending) = queue
<1>1. queue \in Seq(Events) /\ handling \in Events \cup {NULL}
  BY DEF ScanTypeOK
<1>2. CASE handling = NULL
  BY <1>1, <1>2, ConcatEmptySeq DEF Pending
<1>3. CASE handling # NULL
  <2>1. <<handling>> \in Seq(Events) /\ Pending = <<handling>> \o queue
    BY <1>1, <1>3 DEF Pending
  <2>2. /\ Pending \in Seq(Events) /\ Len(Pending) = 1 + Len(queue) /\ Len(queue) \in Nat
        /\ \A i \in 1..(1 + Len(queue)) : Pending[i] = IF i <= 1 THEN handling ELSE queue[i - 1]
    BY <1>1, <2>1, ConcatProperties, LenProperties
  <2>3. Pending # <<>>
    BY <2>2, EmptySeq
  <2>4. /\ Tail(Pending) \in Seq(Events) /\ Len(Tail(Pending)) = Len(queue)
        /\ \A i \in 1..Len(queue) : Tail(Pending)[i] = queue[i]
    BY <2>2, <2>3, HeadTailProperties
  <2>5. Tail(Pending) = queue
    BY <1>1, <2>4, SeqEqual
  <2> QED
    BY <1>3, <2>2, <2>3, <2>5
<1> QED
  BY <1>2, <1>3

\* The thread takes an event in hand: nothing else is pending than before.
LEMMA HeadInHand ==
  ASSUME NEW q \in Seq(Events), q # <<>>
  PROVE  <<Head(q)>> \o Tail(q) = q
<1>1. /\ Head(q) \in Events /\ Tail(q) \in Seq(Events) /\ Len(Tail(q)) = Len(q) - 1
      /\ \A i \in 1..Len(Tail(q)) : Tail(q)[i] = q[i + 1]
      /\ Len(q) \in Nat \ {0} /\ q[1] = Head(q)
  BY HeadTailProperties, EmptySeq
<1>2. <<Head(q)>> \in Seq(Events) /\ Len(<<Head(q)>>) = 1 /\ <<Head(q)>>[1] = Head(q)
  BY <1>1
<1>3. /\ <<Head(q)>> \o Tail(q) \in Seq(Events) /\ Len(<<Head(q)>> \o Tail(q)) = Len(q)
      /\ \A i \in 1..Len(q) :
           (<<Head(q)>> \o Tail(q))[i] = IF i <= 1 THEN <<Head(q)>>[i] ELSE Tail(q)[i - 1]
  BY <1>1, <1>2, ConcatProperties
<1>4. ASSUME NEW i \in 1..Len(q) PROVE (<<Head(q)>> \o Tail(q))[i] = q[i]
  BY <1>1, <1>2, <1>3
<1> QED
  BY <1>3, <1>4, SeqEqual

LEMMA EventsAlternateNext ==
  ASSUME HInv, HInv', EventsAlternate, [Next]_vars
  PROVE  EventsAlternate'
<1>1. /\ Pending \in Seq(Events)
      /\ handling = NULL => Pending = queue
      /\ handling # NULL => Pending # <<>> /\ Tail(Pending) = queue
  BY PendingIs DEF HInv, Typed
<1>2. CASE UNCHANGED <<known, queue, handling>>
  BY <1>2 DEF EventsAlternate, Pending
<1>3. CASE program' # "adb"
  <2>1. Pending' = <<>>
    BY <1>3, EmptySeq, ConcatEmptySeq DEF HInv, Uses, Pending
  <2> QED
    BY <2>1 DEF EventsAlternate, Alternating
<1>4. CASE ScanDone
  <2>1. PICK new \in Orders(found \ known), gone \in Orders(known \ found) :
          queue' = queue \o Announce("ARRIVED", new) \o Announce("LEFT", gone)
    BY <1>4 DEF ScanDone
  <2>2. known' = found /\ handling' = handling
    BY <1>4 DEF ScanDone
  <2> DEFINE a == Announce("ARRIVED", new)
             b == Announce("LEFT", gone)
  <2>3. found \ known \in SUBSET Objects /\ known \ found \in SUBSET Objects
    BY DEF HInv, Typed, DevTypeOK, ScanTypeOK
  <2>4. /\ a \in Seq(Events)
        /\ \A i \in 1..Len(a) : a[i].event = "ARRIVED" /\ a[i].of \in found \ known
        /\ \A i, j \in 1..Len(a) : a[i].of = a[j].of => i = j
        /\ \A x \in found \ known : \E i \in 1..Len(a) : a[i].of = x
    <3>1. AnnouncesEach(a, "ARRIVED", found \ known)
      BY <2>3, AnnounceEach
    <3> QED
      BY <3>1 DEF AnnouncesEach
  <2>5. /\ b \in Seq(Events)
        /\ \A i \in 1..Len(b) : b[i].event = "LEFT" /\ b[i].of \in known \ found
        /\ \A i, j \in 1..Len(b) : b[i].of = b[j].of => i = j
        /\ \A x \in known \ found : \E i \in 1..Len(b) : b[i].of = x
    <3>1. AnnouncesEach(b, "LEFT", known \ found)
      BY <2>3, AnnounceEach
    <3> QED
      BY <3>1 DEF AnnouncesEach
  <2> HIDE DEF a, b
  <2>6. Alternating(Pending \o a, known \cup found)
    <3>1. \A i \in 1..Len(a) : /\ a[i].event = "ARRIVED" <=> a[i].of \in known \cup found
                               /\ a[i].event = "ARRIVED" <=> a[i].of \notin known
      BY <2>4
    <3>2. \A x \in Objects :
            (\A i \in 1..Len(a) : a[i].of # x) => (x \in known <=> x \in known \cup found)
      BY <2>4
    <3> QED
      BY <1>1, <2>4, <3>1, <3>2, ConcatAlternates DEF EventsAlternate
  <2>7. Pending \o a \in Seq(Events)
    BY <1>1, <2>4, ConcatProperties
  <2>8. Alternating((Pending \o a) \o b, found)
    <3>1. \A i \in 1..Len(b) : /\ b[i].event = "ARRIVED" <=> b[i].of \in found
                               /\ b[i].event = "ARRIVED" <=> b[i].of \notin known \cup found
      BY <2>5
    <3>2. \A x \in Objects :
            (\A i \in 1..Len(b) : b[i].of # x) => (x \in known \cup found <=> x \in found)
      BY <2>5
    <3> QED
      BY <2>5, <2>6, <2>7, <3>1, <3>2, ConcatAlternates
  <2>9. Pending' = (Pending \o a) \o b
    <3> DEFINE h == IF handling = NULL THEN <<>> ELSE <<handling>>
    <3>1. h \in Seq(Events) /\ queue \in Seq(Events) /\ queue \o a \in Seq(Events)
      BY <2>4, ConcatProperties, EmptySeq DEF HInv, Typed, ScanTypeOK
    <3>2. Pending = h \o queue
      BY DEF Pending
    <3>3. Pending' = h \o ((queue \o a) \o b)
      BY <2>1, <2>2 DEF Pending, a, b
    <3> HIDE DEF h
    <3>4. h \o ((queue \o a) \o b) = (h \o (queue \o a)) \o b
      BY <2>5, <3>1, ConcatAssociative
    <3>5. h \o (queue \o a) = (h \o queue) \o a
      BY <2>4, <3>1, ConcatAssociative
    <3> QED
      BY <3>2, <3>3, <3>4, <3>5
  <2> QED
    BY <2>2, <2>8, <2>9 DEF EventsAlternate
<1>5. CASE TakeEvent
  <2>1. queue \in Seq(Events) /\ queue # <<>> /\ Head(queue) \in Events
    BY <1>5, HeadTailProperties DEF TakeEvent, HInv, Typed, ScanTypeOK
  <2>2. Pending' = <<Head(queue)>> \o Tail(queue)
    BY <1>5, <2>1, EventsAssumption DEF TakeEvent, Pending
  <2>3. Pending' = Pending /\ known' = known
    BY <1>1, <1>5, <2>1, <2>2, HeadInHand DEF TakeEvent
  <2> QED
    BY <2>3 DEF EventsAlternate
<1>6. CASE Connect \/ Disregard
  <2>1. handling # NULL /\ handling' = NULL /\ queue' = queue /\ known' = known
    BY <1>6 DEF Connect, Disregard
  <2>2. Pending' = Tail(Pending)
    <3>1. Pending' = queue
      BY <2>1, ConcatEmptySeq DEF Pending, HInv, Typed, ScanTypeOK
    <3> QED
      BY <1>1, <2>1, <3>1
  <2> QED
    BY <1>1, <2>1, <2>2, TailAlternates DEF EventsAlternate
<1>7. CASE Adb
  BY <1>2, <1>4, <1>5, <1>6, <1>7
  DEF Adb, Scan, StartScan, StartScanFails, Disconnect, scanVars
<1> QED
  BY <1>2, <1>3, <1>7 DEF Next, Environment, Fastboot, Client, vars, scanVars

-----------------------------------------------------------------------------
(***************************************************************************)
(* A listing takes a known object only while somebody holds it.            *)
(***************************************************************************)
LEMMA FreshStep ==
  ASSUME HInv, [Next]_vars, NEW o \in Objects, o \in found' \ found
  PROVE  desc'[o] = at[node'[o]] \/ o \in known \/ handle[o] # NULL
<1>1. CASE \E n \in Nodes : ListKnown(n)
  <2>1. refs[o] > 0 /\ Listing
    BY <1>1 DEF ListKnown, IsListedAs
  <2>2. o \notin released
    BY <2>1 DEF HInv, Uses
  <2>3. Holders(o) > 0
    BY <2>1 DEF HInv, Counted
  <2> QED
    BY <2>2, <2>3 DEF Holders, One
<1>2. CASE \E n \in Nodes : ListNew(n)
  BY <1>2 DEF ListNew, HInv, Typed, DevTypeOK
<1>3. CASE UNCHANGED found
  BY <1>3
<1>4. CASE found' = {}
  BY <1>4
<1> QED
  BY <1>1, <1>2, <1>3, <1>4
  DEF Next, Environment, Plug, Unplug, Reconfigure, Adb, Scan, StartScan, StartScanFails, ScanDone, ListNode, SkipAbsent,
      SkipFailing, ListNoMem, TakeEvent, Connect, Disregard, Disconnect, Fastboot, UsbOpen, HaveList, NoList,
      Probe, NextDevice, Take, Pass, EndOpen, Write, WriteClosed, WriteChunk, WriteFails, WriteReturns, Close,
      Client, ClientLists, ClientKeeps, ClientDrops, ClientConfigures, OpenHandle, CloseHandle,
      SetConfiguration, RefreshCache, MissRefresh, vars, devVars

-----------------------------------------------------------------------------
(***************************************************************************)
(* The counts of a Write.                                                  *)
(***************************************************************************)
WInv ==
  /\ writing \in BOOLEAN
  /\ asked \in 0..MaxLen /\ count \in 0..MaxLen /\ sent \in 0..MaxLen /\ ret \in -1..MaxLen
  /\ writing => count = sent /\ count <= asked
  /\ WholeOrError

LEMMA InitWInv == Init => WInv
<1> SUFFICES ASSUME Init PROVE WInv
  OBVIOUS
<1>1. writing = FALSE /\ asked = 0 /\ count = 0 /\ sent = 0 /\ ret = 0
  BY DEF Init, FastInit
<1>2. asked \in 0..MaxLen /\ count \in 0..MaxLen /\ sent \in 0..MaxLen /\ ret \in -1..MaxLen
  BY <1>1, ChunkAssumption
<1>3. writing \in BOOLEAN /\ ~writing /\ sent = asked
  BY <1>1
<1> QED
  BY <1>2, <1>3 DEF WInv, WholeOrError

LEMMA ChunkFits ==
  ASSUME WInv, writing, count < asked, NEW t \in 0..ThisChunk
  PROVE  t \in Nat /\ count + t <= asked
  BY ChunkAssumption DEF WInv, ThisChunk, Smaller

LEMMA WInvNext ==
  ASSUME WInv, [Next]_vars
  PROVE  WInv'
<1>1. CASE UNCHANGED io
  BY <1>1 DEF io, WInv, WholeOrError
<1>2. ASSUME NEW len \in 0..MaxLen, Write(len) PROVE WInv'
  BY <1>2, ChunkAssumption DEF Write, WInv, WholeOrError
<1>3. ASSUME NEW len \in 0..MaxLen, WriteClosed(len) PROVE WInv'
  BY <1>3, ChunkAssumption DEF WriteClosed, WInv, WholeOrError
<1>4. CASE WriteChunk
  <2>1. PICK t \in 1..ThisChunk : count' = count + t /\ sent' = sent + t
    BY <1>4 DEF WriteChunk, Advance
  <2>2. t \in 0..ThisChunk /\ t \in Nat
    BY <2>1
  <2>3. count + t <= asked
    BY <1>4, <2>2, ChunkFits DEF WriteChunk
  <2> QED
    BY <1>4, <2>1, <2>2, <2>3, ChunkAssumption DEF WriteChunk, WInv, WholeOrError
<1>5. CASE WriteFails
  <2>1. PICK t \in 0..ThisChunk : sent' = sent + t
    BY <1>5 DEF WriteFails
  <2>2. t \in Nat /\ count + t <= asked
    BY <1>5, <2>1, ChunkFits DEF WriteFails
  <2>3. sent' \in 0..MaxLen
    BY <1>5, <2>1, <2>2, ChunkAssumption DEF WriteFails, WInv
  <2>4. writing' = FALSE /\ ret' = -1 /\ asked' = asked /\ count' = count
    BY <1>5 DEF WriteFails
  <2>5. asked' \in 0..MaxLen /\ count' \in 0..MaxLen /\ ret' \in -1..MaxLen
    BY <2>4, ChunkAssumption DEF WInv
  <2>6. writing' \in BOOLEAN /\ ~writing' /\ ret' = -1
    BY <2>4
  <2> QED
    BY <2>3, <2>5, <2>6 DEF WInv, WholeOrError
<1>6. CASE WriteReturns
  <2>1. count = asked /\ sent = asked /\ asked \in 0..MaxLen
    BY <1>6, ChunkAssumption DEF WriteReturns, WInv
  <2>2. writing' = FALSE /\ ret' = count /\ asked' = asked /\ count' = count /\ sent' = sent
    BY <1>6 DEF WriteReturns
  <2>3. /\ asked' \in 0..MaxLen /\ count' \in 0..MaxLen
        /\ sent' \in 0..MaxLen /\ ret' \in -1..MaxLen
    BY <2>1, <2>2, ChunkAssumption
  <2>4. writing' \in BOOLEAN /\ ~writing' /\ sent' = asked'
    BY <2>1, <2>2
  <2> QED
    BY <2>3, <2>4 DEF WInv, WholeOrError
<1> QED
  BY <1>1, <1>2, <1>3, <1>4, <1>5, <1>6
  DEF Next, Environment, Fastboot, UsbOpen, HaveList, NoList, Probe, NextDevice, Take, Pass, EndOpen, Close,
      fastVars, io, vars
-----------------------------------------------------------------------------
(***************************************************************************)
(* The cached configuration.                                               *)
(***************************************************************************)

\* A device is at one node at most, and one that has left does not return.
Once ==
  /\ \A n \in Nodes : at[n] # NULL => at[n] \in plugged
  /\ \A n, m \in Nodes : at[n] # NULL /\ at[n] = at[m] => n = m

\* The device a handle reaches is behind the object's node or behind none.
Reached ==
  \A o \in Objects :
    handle[o] # NULL =>
      handle[o] \in plugged /\ \A n \in Nodes : at[n] = handle[o] => n = node[o]

Described == \A o \in Objects : refs[o] > 0 => desc[o] \in plugged

CInv == Once /\ Reached /\ Described /\ ConfigCached

\* No live object is new and none holds anything new; handles are closed at most.
Kept ==
  /\ UNCHANGED kernel
  /\ \A o \in Objects : handle'[o] \in {handle[o], NULL}
  /\ \A o \in Objects :
       refs'[o] > 0 =>
         /\ refs[o] > 0
         /\ node'[o] = node[o] /\ desc'[o] = desc[o] /\ cdesc'[o] = cdesc[o]
         /\ cache'[o] = cache[o]

LEMMA KeptCInv ==
  ASSUME HInv, HInv', CInv, Kept
  PROVE  CInv'
<1>1. \A o \in Objects : handle'[o] # NULL => handle'[o] = handle[o] /\ node'[o] = node[o]
  <2>1. \A o \in Objects : handle'[o] # NULL => Holders(o)' > 0
    BY DEF Holders, One
  <2>2. \A o \in Objects : refs'[o] = Holders(o)'
    BY DEF HInv, Counted
  <2> QED
    BY <2>1, <2>2 DEF Kept
<1>2. Once' /\ Reached'
  BY <1>1 DEF CInv, Once, Reached, Kept, kernel
<1>3. Described' /\ ConfigCached'
  BY DEF CInv, Described, ConfigCached, Kept, kernel
<1> QED
  BY <1>2, <1>3 DEF CInv

LEMMA CountKeeps ==
  ASSUME HInv, NEW added \in SUBSET Objects, NEW dropped, Count(added, dropped),
         \A o \in added : refs[o] > 0
  PROVE  \A o \in Objects :
           refs'[o] > 0 =>
             /\ refs[o] > 0
             /\ node'[o] = node[o] /\ desc'[o] = desc[o] /\ cdesc'[o] = cdesc[o]
             /\ cache'[o] = cache[o]
  BY DEF Count, HInv, Typed, DevTypeOK

LEMMA InitCInv == Init => CInv
  BY DEF Init, DevInit, CInv, Once, Reached, Described, ConfigCached

LEMMA CInvNext ==
  ASSUME HInv, HInv', CInv, [Next]_vars
  PROVE  CInv'
<1> USE NullIsNew
<1>t. DevTypeOK /\ DevTypeOK'
  BY DEF HInv, Typed
<1>1. ASSUME NEW n \in Nodes, NEW d \in Devices, Plug(n, d) PROVE CInv'
  BY <1>1, <1>t DEF Plug, objects, CInv, Once, Reached, Described, ConfigCached, DevTypeOK, HInv, Full
<1>2. ASSUME NEW n \in Nodes, Unplug(n) PROVE CInv'
  BY <1>2, <1>t DEF Unplug, objects, CInv, Once, Reached, Described, ConfigCached, DevTypeOK, HInv, Full
<1>3. CASE UNCHANGED <<kernel, objects, handle>>
  BY <1>3 DEF kernel, objects, CInv, Once, Reached, Described, ConfigCached
<1>4. ASSUME NEW n \in Nodes, ListKnown(n) PROVE CInv'
  BY <1>4, <1>t, KeptCInv DEF ListKnown, IsListedAs, Kept, kernel, DevTypeOK
<1>5. ASSUME NEW n \in Nodes, ListNew(n) PROVE CInv'
  <2>1. PICK o \in Objects :
          /\ refs[o] = 0
          /\ refs' = [refs EXCEPT ![o] = 1]
          /\ node' = [node EXCEPT ![o] = n]
          /\ desc' = [desc EXCEPT ![o] = at[n]]
          /\ cdesc' = [cdesc EXCEPT ![o] = ReadActive(at[n])]
    BY <1>5 DEF ListNew
  <2>2. at[n] # NULL /\ UNCHANGED <<kernel, cache, handle>>
    BY <1>5 DEF ListNew
  <2>3. handle[o] = NULL
    BY <2>1, HeldIsLive DEF HInv
  <2>4. Once' /\ Reached'
    BY <1>t, <2>1, <2>2, <2>3 DEF CInv, Once, Reached, kernel, DevTypeOK
  <2>5. Described'
    BY <1>t, <2>1, <2>2 DEF CInv, Once, Described, kernel, DevTypeOK
  <2>6. ConfigCached'
    BY <1>t, <2>1, <2>2 DEF CInv, ConfigCached, ReadActive, kernel, DevTypeOK
  <2> QED
    BY <2>4, <2>5, <2>6 DEF CInv
<1>6. ASSUME NEW o \in Objects, OpenHandle(o) PROVE CInv'
  <2>1. node[o] \in Nodes /\ at[node[o]] \in plugged
    BY <1>6 DEF OpenHandle, HInv, Full, CInv, Once
  <2>2. Once' /\ Described' /\ ConfigCached'
    BY <1>6, <1>t DEF OpenHandle, CInv, Once, Described, ConfigCached, kernel, DevTypeOK
  <2>3. Reached'
    BY <1>6, <1>t, <2>1 DEF OpenHandle, CInv, Once, Reached, kernel, DevTypeOK
  <2> QED
    BY <2>2, <2>3 DEF CInv
<1>7. ASSUME NEW o \in Objects, CloseHandle(o) PROVE CInv'
  <2>1. Count({}, {o}) /\ UNCHANGED kernel /\ handle' = [handle EXCEPT ![o] = NULL]
    BY <1>7 DEF CloseHandle
  <2>2. Kept
    BY <1>t, <2>1, CountKeeps DEF Kept, DevTypeOK
  <2> QED
    BY <2>2, KeptCInv
<1>8. ASSUME NEW o \in Objects, NEW c \in Configs, SetConfiguration(o, c) PROVE CInv'
  <2>1. /\ active' = [active EXCEPT ![handle[o]] = c] /\ cache' = [cache EXCEPT ![o] = "due"]
        /\ UNCHANGED <<at, plugged, refs, node, desc, cdesc, handle>>
        /\ handle[o] # NULL /\ refs[o] > 0
    BY <1>8, HeldIsLive DEF SetConfiguration, HInv
  <2>2. Once' /\ Reached' /\ Described'
    BY <2>1 DEF CInv, Once, Reached, Described
  <2>3. ASSUME NEW p \in Objects, refs[p] > 0, desc[p] = at[node[p]], desc[p] = handle[o]
        PROVE  p = o
    <3>1. node[p] \in Nodes
      BY <2>3 DEF HInv, Full
    <3>2. node[p] = node[o]
      BY <2>1, <2>3, <3>1 DEF CInv, Reached
    <3> QED
      BY <2>1, <2>3, <3>2 DEF HInv, Apart
  <2>4. ConfigCached'
    BY <1>t, <2>1, <2>3 DEF CInv, ConfigCached, DevTypeOK, HInv, Full
  <2> QED
    BY <2>2, <2>4 DEF CInv
<1>9. ASSUME NEW o \in Objects, RefreshCache(o) PROVE CInv'
  BY <1>9, <1>t DEF RefreshCache, ReadActive, kernel, CInv, Once, Reached, Described, ConfigCached, DevTypeOK
<1>10. ASSUME NEW o \in Objects, MissRefresh(o) PROVE CInv'
  BY <1>10, <1>t DEF MissRefresh, kernel, CInv, Once, Reached, Described, ConfigCached, DevTypeOK
<1>25. ASSUME NEW n \in Nodes, NEW c \in Configs, Reconfigure(n, c) PROVE CInv'
  <2>1. /\ active' = [active EXCEPT ![at[n]] = c]
        /\ cache' = [o \in Objects |->
                      IF refs[o] > 0 /\ desc[o] = at[n] /\ cache[o] = "current"
                      THEN "missed" ELSE cache[o]]
        /\ UNCHANGED <<at, plugged, refs, node, desc, cdesc, handle>>
    BY <1>25 DEF Reconfigure
  <2>2. Once' /\ Reached' /\ Described'
    BY <2>1 DEF CInv, Once, Reached, Described
  <2>3. ASSUME NEW p \in Objects, refs'[p] > 0, desc'[p] = at'[node'[p]], cache'[p] = "current"
        PROVE  cdesc'[p] = [of |-> desc'[p], config |-> active'[desc'[p]]]
    <3>1. refs[p] > 0 /\ desc[p] = at[node[p]] /\ cache[p] = "current" /\ desc[p] # at[n]
      BY <2>1, <2>3
    <3>2. cdesc[p] = [of |-> desc[p], config |-> active[desc[p]]]
      BY <3>1 DEF CInv, ConfigCached
    <3>3. active'[desc[p]] = active[desc[p]]
      BY <1>t, <2>1, <3>1 DEF DevTypeOK, HInv, Full
    <3> QED
      BY <2>1, <3>2, <3>3
  <2>4. ConfigCached'
    BY <2>3 DEF ConfigCached
  <2> QED
    BY <2>2, <2>4 DEF CInv
<1>11. ASSUME NEW added \in SUBSET Objects, NEW dropped, Count(added, dropped),
              \A o \in added : refs[o] > 0, UNCHANGED <<kernel, handle>>
       PROVE  CInv'
  <2>1. Kept
    BY <1>11, CountKeeps DEF Kept
  <2> QED
    BY <2>1, KeptCInv
<1>12. CASE StartScan \/ StartScanFails
  BY <1>11, <1>12 DEF StartScan, StartScanFails
<1>13. CASE ScanDone
  <2>1. \A o \in found \ known : refs[o] > 0
    BY HeldIsLive
  <2>2. found \ known \in SUBSET Objects
    BY <1>t DEF DevTypeOK
  <2> QED
    BY <1>11, <1>13, <2>1, <2>2 DEF ScanDone
<1>14. ASSUME NEW n \in Nodes, ListNoMem(n) PROVE CInv'
  BY <1>11, <1>14 DEF ListNoMem
<1>15. CASE EndOpen
  BY <1>11, <1>15 DEF EndOpen
<1>16. CASE ClientKeeps
  BY <1>11, <1>16 DEF ClientKeeps
<1>17. ASSUME NEW o \in Objects, ClientDrops(o) PROVE CInv'
  BY <1>11, <1>17 DEF ClientDrops
<1>18. handling # NULL => handling.of \in Objects
  BY DEF HInv, Typed, ScanTypeOK, Events
<1>19. CASE Connect
  BY <1>6, <1>18, <1>19 DEF Connect
<1>20. CASE Pass \/ Close
  <2>1. probing # NULL => probing \in Objects
    BY DEF HInv, Typed
  <2>2. transport # NULL => transport \in Objects
    BY DEF HInv, Typed
  <2> QED
    BY <1>7, <1>20, <2>1, <2>2 DEF Pass, Close, Opened
<1>21. ASSUME NEW n \in Nodes, SkipAbsent(n) \/ SkipFailing(n) PROVE CInv'
  BY <1>3, <1>21 DEF SkipAbsent, SkipFailing
<1>22. CASE Adb
  BY <1>3, <1>4, <1>5, <1>7, <1>12, <1>13, <1>14, <1>19, <1>21, <1>22
  DEF Adb, Scan, ListNode, TakeEvent, Disregard, Disconnect, devVars
<1>23. CASE Fastboot
  BY <1>3, <1>4, <1>5, <1>6, <1>14, <1>15, <1>20, <1>21, <1>23
  DEF Fastboot, ListNode, UsbOpen, HaveList, NoList, Probe, NextDevice, Take, Write, WriteClosed, WriteChunk,
      WriteFails, WriteReturns, devVars
<1>24. CASE Client
  BY <1>3, <1>4, <1>5, <1>6, <1>7, <1>8, <1>9, <1>10, <1>14, <1>16, <1>17, <1>21, <1>24
  DEF Client, ClientLists, ClientConfigures, ListNode
<1> QED
  BY <1>1, <1>2, <1>3, <1>22, <1>23, <1>24, <1>25 DEF Next, Environment, vars, devVars

-----------------------------------------------------------------------------
(***************************************************************************)
(* Theorems                                                                *)
(***************************************************************************)

\* Every variable of UsbPrograms keeps its type.
THEOREM TypeCorrect == Spec => []TypeOK
<1>1. Init => HInv /\ WInv
  BY InitHInv, InitWInv
<1>2. HInv /\ WInv /\ [Next]_vars => HInv' /\ WInv'
  BY HInvNext, WInvNext
<1>3. HInv /\ WInv => TypeOK
  BY DEF HInv, Typed, WInv, TypeOK, FastTypeOK
<1> QED
  BY <1>1, <1>2, <1>3, PTL DEF Spec

\* Every reference is held by somebody, and fastboot keeps none once it has
\* given back its context.
THEOREM ReferencesHeld == Spec => []RefsAreHeld
<1>1. HInv => RefsAreHeld
  <2> SUFFICES ASSUME HInv PROVE RefsAreHeld
    OBVIOUS
  <2>1. ASSUME program = "fastboot", ~ctx, NEW o \in Objects PROVE refs[o] = 0
    <3>1. o \notin known /\ o \notin released /\ o \notin found
      BY <2>1 DEF HInv, Uses
    <3>2. handle[o] = NULL
      BY <2>1, NullIsNew DEF HInv, Uses
    <3> QED
      BY <3>1, <3>2 DEF HInv, Counted, Holders, One
  <2> QED
    BY <2>1 DEF HInv, Counted, RefsAreHeld
<1> QED
  BY <1>1, InitHInv, HInvNext, PTL DEF Spec

\* The pending events about an object alternate and end in what the scan knows,
\* for queues of any length: a scan waits for nothing.
THEOREM EventsStayInTurn == Spec => []EventsAlternate
<1>1. Init => EventsAlternate
  BY ConcatEmptySeq, EmptySeq DEF Init, ScanInit, EventsAlternate, Pending, Alternating
<1>2. HInv /\ HInv' /\ EventsAlternate /\ [Next]_vars => EventsAlternate'
  BY EventsAlternateNext
<1> QED
  BY <1>1, <1>2, InitHInv, HInvNext, PTL DEF Spec

\* What libusb reports as a device's active configuration is the one it is in.
THEOREM ConfigStaysCached == Spec => []ConfigCached
<1>1. CInv => ConfigCached
  BY DEF CInv
<1> QED
  BY <1>1, InitHInv, InitCInv, HInvNext, CInvNext, PTL DEF Spec

\* A Write returns its length only when all of it is out.
THEOREM WriteIsWhole == Spec => []WholeOrError
<1>1. WInv => WholeOrError
  BY DEF WInv
<1> QED
  BY <1>1, InitWInv, WInvNext, PTL DEF Spec

\* An old object is listed for a node only while somebody holds it.
THEOREM ListingIsFresh == Spec => ListedFresh
<1>1. HInv /\ [Next]_vars =>
        \A o \in Objects :
          o \in found' \ found => desc'[o] = at[node'[o]] \/ o \in known \/ handle[o] # NULL
  BY FreshStep
<1> QED
  BY <1>1, InitHInv, HInvNext, PTL DEF Spec, ListedFresh


===========================================================================
