-------------------------- MODULE Converter_proofs --------------------------
(***************************************************************************)
(* Proofs about Converter, for any modules, dependencies and requests.     *)
(* The inductive invariant says where a Target is registered, that the     *)
(* conversions on the stack are younger the further in they are, and that  *)
(* a Target is on the stack or in order, never both. The second part is    *)
(* about what Targets are linked to, in trees where a name has one meaning, *)
(* the third about the files they copy, where sources have no cycle.       *)
(***************************************************************************)
EXTENDS Converter, TLAPS

\* _new() registers a Target under its module's name, for good.
Registered == \A i \in DOMAIN objects : targets[Plain(objects[i].mod.name)] = i

\* What a conversion was asked for ends in the name of its module.
FramesNamed ==
  \A k \in DOMAIN stack : stack[k].obj # 0 => stack[k].ref.name = objects[stack[k].obj].mod.name

Nested ==
  \A j, k \in DOMAIN stack : j < k /\ stack[j].obj # 0 /\ stack[k].obj # 0
                               => stack[j].obj < stack[k].obj

\* A conversion that waits for another one is not done.
Waiting == \A k \in DOMAIN stack : k < Len(stack) => stack[k].at <= Len(DepsOf(stack[k]))

OnStack(i) == \E k \in DOMAIN stack : stack[k].obj = i
InOrder(i) == \E p \in DOMAIN order : order[p] = i

Placed == \A i \in DOMAIN objects : InOrder(i) <=> ~OnStack(i)

OrderOnce == \A p, q \in DOMAIN order : order[p] = order[q] => p = q

BuiltInOrder == \A i \in built : InOrder(i)

Written == phase = "written" => stack = <<>>

ToolUnderWay == stack # <<>> => tool <= Len(request.tools)

IInv ==
  /\ TypeOK /\ Waiting /\ ToolUnderWay
  /\ Registered /\ FramesNamed /\ Nested
  /\ Placed /\ OrderOnce /\ BuiltInOrder /\ Written

-----------------------------------------------------------------------------
\* lookup() returns a module of the name asked for, or nothing.
LEMMA LookupName ==
  ASSUME NEW ref \in Refs, NEW frm, Lookup(ref, frm) # NULL
  PROVE  Lookup(ref, frm) \in Mods /\ Lookup(ref, frm).name = ref.name
<1> DEFINE cands == {m \in Mods : m.name = ref.name /\ ref.path \in {NULL, m.dir}}
           hits == {h \in (1..4) \X cands :
                      \A m \in cands : Fits(m, h[1], ref, frm) <=> m = h[2]}
           First(h) == \A g \in hits : h[1] <= g[1]
<1>1. hits # {} /\ Lookup(ref, frm) = (CHOOSE h \in hits : First(h))[2]
  BY DEF Lookup
<1>2. \E h \in hits : First(h)
  <2>1. hits \subseteq (1..4) \X cands
    OBVIOUS
  <2> DEFINE Hit(i) == \E h \in hits : h[1] = i
  <2>2. Hit(1) \/ Hit(2) \/ Hit(3) \/ Hit(4)
    BY <1>1, <2>1
  <2> QED
    BY <2>1, <2>2
<1>3. (CHOOSE h \in hits : First(h)) \in hits
  BY <1>2
<1>4. (CHOOSE h \in hits : First(h)) \in (1..4) \X cands
  BY <1>3
<1> HIDE DEF hits
<1>5. Lookup(ref, frm) \in cands
  BY <1>1, <1>4
<1> QED
  BY <1>5

LEMMA FrameFields ==
  ASSUME NEW f \in Frames
  PROVE  f.mod \in Mods /\ f.obj \in Nat /\ f.ref \in Refs /\ f.at \in Nat \ {0} /\ f.files \in SUBSET Mods
  BY DEF Frames

\* A frame moved on to its next dependency.
LEMMA FrameMoved ==
  ASSUME NEW f \in Frames, NEW F \in SUBSET Mods
  PROVE  /\ Moved(f, F) \in Frames /\ Moved(f, F).mod = f.mod /\ Moved(f, F).obj = f.obj
         /\ Moved(f, F).ref = f.ref /\ Moved(f, F).at = f.at + 1
<1> DEFINE a == f.at + 1
           g == [f EXCEPT !.at = a, !.files = F]
<1>1. a \in Nat \ {0}
  BY FrameFields
<1> HIDE DEF a
<1> DEFINE h == [f EXCEPT !.at = a]
<1>2. h \in Frames /\ h.mod = f.mod /\ h.obj = f.obj /\ h.ref = f.ref /\ h.at = a
  BY <1>1 DEF Frames
<1>3. g = [h EXCEPT !.files = F]
  OBVIOUS
<1> HIDE DEF h, g
<1>4. g \in Frames /\ g.mod = h.mod /\ g.obj = h.obj /\ g.ref = h.ref /\ g.at = h.at
  BY <1>2, <1>3 DEF Frames
<1>5. Moved(f, F) = g
  BY DEF Moved, a, g
<1> QED
  BY <1>2, <1>4, <1>5 DEF a

LEMMA TargetFields ==
  ASSUME NEW t \in TargetRecords
  PROVE  /\ t.mod \in Mods /\ t.kind \in TargetKinds /\ t.files \in SUBSET Mods
         /\ t.links \in SUBSET (Nat \X Modes)
  BY DEF TargetRecords

LEMMA TargetLinked ==
  ASSUME NEW t \in TargetRecords, NEW o \in Nat, NEW use
  PROVE  /\ Linked(t, o, use) \in TargetRecords /\ Linked(t, o, use).mod = t.mod
         /\ Linked(t, o, use).links = t.links \cup {<<o, Mode(t.kind, use)>>}
<1> DEFINE L == t.links \cup {<<o, Mode(t.kind, use)>>}
<1>1. Mode(t.kind, use) \in Modes
  BY DEF Mode, Modes
<1>2. L \in SUBSET (Nat \X Modes)
  BY <1>1, TargetFields
<1>3. Linked(t, o, use) = [t EXCEPT !.links = L]
  BY DEF Linked
<1> HIDE DEF L
<1>4. [t EXCEPT !.links = L] \in TargetRecords /\ [t EXCEPT !.links = L].mod = t.mod
        /\ [t EXCEPT !.links = L].links = L
  BY <1>2 DEF TargetRecords
<1> QED
  BY <1>3, <1>4 DEF L

\* What GoOn leaves: only the caller's frame and its links change.
LEMMA GoOnShape ==
  ASSUME deps \in [Mods -> Seq(Deps)],
         NEW objs \in Seq(TargetRecords),
         \A i \in DOMAIN objs : \A l \in objs[i].links : l[1] \in DOMAIN objs,
         NEW stk \in Seq(Frames),
         \A k \in DOMAIN stk : stk[k].obj <= Len(objs),
         \A k \in DOMAIN stk : stk[k].at <= Len(DepsOf(stk[k])),
         NEW o \in DOMAIN objs,
         GoOn(stk, objs, o)
  PROVE  /\ objects' \in Seq(TargetRecords) /\ Len(objects') = Len(objs)
         /\ \A i \in DOMAIN objs : objects'[i].mod = objs[i].mod
         /\ \A i \in DOMAIN objs : \A l \in objects'[i].links : l[1] \in DOMAIN objs
         /\ stack' \in Seq(Frames) /\ Len(stack') = Len(stk)
         /\ \A k \in DOMAIN stk :
              /\ stack'[k].mod = stk[k].mod /\ stack'[k].obj = stk[k].obj
              /\ stack'[k].ref = stk[k].ref
              /\ k < Len(stk) => stack'[k].at = stk[k].at
              /\ stack'[k].at <= stk[k].at + 1
         /\ phase' \in {phase, "failed"}
         /\ stk = <<>> => built' = built \cup {o} /\ tool' = tool + 1
         /\ stk # <<>> => built' = built /\ tool' = tool
<1>1. CASE stk = <<>>
  BY <1>1 DEF GoOn
<1>2. CASE stk # <<>>
  <2> DEFINE n == Len(stk)
             f == stk[n]
             d == DepsOf(f)[f.at]
             t == objs[o]
  <2>1. n \in DOMAIN stk /\ f \in Frames /\ t \in TargetRecords /\ Len(objs) \in Nat
    BY <1>2
  <2>2. d \in Deps
    BY <2>1 DEF DepsOf, Frames
  <2>3. Gives(t) \subseteq Mods /\ Outputs(t) \subseteq Mods
    BY <2>1, TargetFields DEF Gives, Outputs
  <2>4. FilesAfter(f, d, t) \in SUBSET Mods
    BY <2>1, <2>3, FrameFields DEF FilesAfter
  <2>5. CASE Usable(f, d, t)
    <3> DEFINE g == Used(f, d, t)
               u == objs[f.obj]
               v == Linked(u, o, d.use)
    <3>1. /\ stack' = [stk EXCEPT ![n] = g]
          /\ objects' = IF Links(f, d, t) THEN [objs EXCEPT ![f.obj] = v] ELSE objs
          /\ phase' = phase /\ built' = built /\ tool' = tool
      BY <1>2, <2>5 DEF GoOn
    <3>2. g \in Frames /\ g.mod = f.mod /\ g.obj = f.obj /\ g.ref = f.ref /\ g.at = f.at + 1
      BY <2>1, <2>4, FrameMoved DEF Used
    <3>3. ASSUME f.obj \in DOMAIN objs
          PROVE  v \in TargetRecords /\ v.mod = u.mod /\ (\A l \in v.links : l[1] \in DOMAIN objs)
      <4>1. u \in TargetRecords /\ o \in Nat /\ \A l \in u.links : l[1] \in DOMAIN objs
        BY <3>3
      <4> QED
        BY <4>1, TargetLinked
    <3>4. stack' \in Seq(Frames) /\ Len(stack') = Len(stk)
      BY <3>1, <3>2, <2>1
    <3>5. \A k \in DOMAIN stk :
              /\ stack'[k].mod = stk[k].mod /\ stack'[k].obj = stk[k].obj
              /\ stack'[k].ref = stk[k].ref
              /\ k < Len(stk) => stack'[k].at = stk[k].at
              /\ stack'[k].at <= stk[k].at + 1
      <4> SUFFICES ASSUME NEW k \in DOMAIN stk
                   PROVE  /\ stack'[k].mod = stk[k].mod /\ stack'[k].obj = stk[k].obj
                          /\ stack'[k].ref = stk[k].ref
                          /\ k < Len(stk) => stack'[k].at = stk[k].at
                          /\ stack'[k].at <= stk[k].at + 1
        OBVIOUS
      <4>1. stk[k] \in Frames
        OBVIOUS
      <4>2. stk[k].at \in Nat
        BY <4>1, FrameFields
      <4> HIDE DEF g
      <4> QED
        BY <3>1, <3>2, <4>1, <4>2, <2>1
    <3>6. /\ objects' \in Seq(TargetRecords) /\ Len(objects') = Len(objs)
          /\ \A i \in DOMAIN objs : objects'[i].mod = objs[i].mod
          /\ \A i \in DOMAIN objs : \A l \in objects'[i].links : l[1] \in DOMAIN objs
      <4>1. CASE Links(f, d, t) /\ f.obj \in DOMAIN objs
        <5> HIDE DEF v
        <5> QED
          BY <4>1, <3>1, <3>3
      <4>2. CASE ~(Links(f, d, t) /\ f.obj \in DOMAIN objs)
        <5>1. objects' = objs
          BY <4>2, <3>1
        <5> QED
          BY <5>1
      <4> QED
        BY <4>1, <4>2
    <3> QED
      BY <3>1, <3>4, <3>5, <3>6, <1>2
  <2>6. CASE ~Usable(f, d, t)
    <3>1. phase' = "failed" /\ stack' = stk /\ objects' = objs /\ built' = built /\ tool' = tool
      BY <1>2, <2>6 DEF GoOn
    <3>2. \A k \in DOMAIN stk : stk[k] \in Frames
      OBVIOUS
    <3>3. \A k \in DOMAIN stk : stk[k].at \in Nat
      BY <3>2, FrameFields
    <3> QED
      BY <3>1, <3>3, <2>1, <1>2
  <2> QED
    BY <2>5, <2>6
<1> QED
  BY <1>1, <1>2

-----------------------------------------------------------------------------
LEMMA InitIInv == Init => IInv
<1> SUFFICES ASSUME Init PROVE IInv
  OBVIOUS
<1>1. request.tools \in Seq(Names) /\ deps \in [Mods -> Seq(Deps)]
  BY RequestsAssumption, TreesAssumption DEF Init
<1>2. TypeOK
  BY <1>1 DEF Init, TypeOK
<1> QED
  BY <1>2 DEF Init, IInv, Waiting, ToolUnderWay, Registered, FramesNamed, Nested, Placed,
              OrderOnce, BuiltInOrder, Written, InOrder, OnStack

LEMMA RequestTyped == ASSUME IInv PROVE request.tools \in Seq(Names) /\ tool \in Nat
  BY RequestsAssumption DEF IInv, TypeOK

\* What is known of the frames on the stack.
LEMMA StackTyped ==
  ASSUME IInv
  PROVE  /\ stack \in Seq(Frames) /\ deps \in [Mods -> Seq(Deps)] /\ Len(objects) \in Nat
         /\ \A k \in DOMAIN stack :
              /\ stack[k] \in Frames /\ stack[k].mod \in Mods /\ stack[k].obj \in Nat
              /\ stack[k].ref \in Refs /\ stack[k].at \in Nat \ {0}
              /\ stack[k].obj <= Len(objects)
              /\ DepsOf(stack[k]) \in Seq(Deps)
              /\ stack[k].at <= Len(DepsOf(stack[k])) + 1
<1>1. stack \in Seq(Frames) /\ deps \in [Mods -> Seq(Deps)] /\ Len(objects) \in Nat
  BY DEF IInv, TypeOK
<1>2. \A k \in DOMAIN stack : stack[k] \in Frames
  BY <1>1
<1>3. \A k \in DOMAIN stack : DepsOf(stack[k]) \in Seq(Deps)
  BY <1>1, <1>2, FrameFields DEF DepsOf
<1>4. \A k \in DOMAIN stack :
        stack[k].obj <= Len(objects) /\ stack[k].at <= Len(DepsOf(stack[k])) + 1
  BY DEF IInv, TypeOK
<1> QED
  BY <1>1, <1>2, <1>3, <1>4, FrameFields

\* While the innermost conversion has a dependency left, every frame has one.
LEMMA AllWait ==
  ASSUME IInv, HasDep
  PROVE  /\ stack # <<>> /\ phase = "convert" /\ Dep \in Deps
         /\ \A k \in DOMAIN stack : stack[k].at <= Len(DepsOf(stack[k]))
<1>1. stack # <<>> /\ phase = "convert" /\ stack[Len(stack)].at <= Len(DepsOf(stack[Len(stack)]))
  BY DEF HasDep, Walking, Top
<1>2. Len(stack) \in DOMAIN stack /\ \A k \in DOMAIN stack : k # Len(stack) => k < Len(stack)
  BY <1>1, StackTyped
<1>3. Dep \in Deps
  BY <1>1, <1>2, StackTyped DEF Dep, Top
<1> QED
  BY <1>1, <1>2, <1>3 DEF IInv, Waiting

LEMMA CallTyped ==
  ASSUME IInv, NEW c \in Calls
  PROVE  /\ c.ref \in Refs /\ phase = "convert"
         /\ \A k \in DOMAIN stack : stack[k].at <= Len(DepsOf(stack[k]))
         /\ tool <= Len(request.tools)
<1>1. CASE c \in ToolsWanted
  <2>1. /\ phase = "convert" /\ stack = <<>> /\ tool <= Len(request.tools)
        /\ c = [ref |-> Plain(request.tools[tool]), frm |-> NULL]
    BY <1>1 DEF ToolsWanted, ToolCalls
  <2>2. request.tools[tool] \in Names
    BY <2>1, RequestTyped DEF IInv, TypeOK
  <2> QED
    BY <2>1, <2>2 DEF Plain, Refs
<1>2. CASE c \in DepCalls
  <2>1. HasDep /\ c = [ref |-> Dep.ref, frm |-> Top.mod]
    BY <1>2 DEF DepCalls
  <2>2. Dep \in Deps
    BY <2>1, AllWait
  <2> QED
    BY <2>1, <2>2, AllWait DEF Deps, IInv, ToolUnderWay
<1> QED
  BY <1>1, <1>2 DEF Calls

LEMMA PlainRef == \A m \in Mods : m.name \in Names /\ Plain(m.name) \in Refs /\ Plain(m.name).name = m.name
  BY ConstantsAssumption DEF Plain, Refs

LEMMA ModsOfObjects == ASSUME IInv, NEW i \in DOMAIN objects PROVE objects[i] \in TargetRecords /\ objects[i].mod \in Mods
<1>1. objects[i] \in TargetRecords
  BY DEF IInv, TypeOK
<1> QED
  BY <1>1, TargetFields

\* A known or aliased Target is used: the caller goes on.
LEMMA UseStep ==
  ASSUME IInv, NEW c \in Calls, NEW o \in DOMAIN objects,
         targets' \in [Refs -> 0..Len(objects)],
         \A i \in DOMAIN objects : targets'[Plain(objects[i].mod.name)] = i,
         GoOn(stack, objects, o),
         UNCHANGED <<order, deps, request>>
  PROVE  IInv'
<1>1. /\ objects' \in Seq(TargetRecords) /\ Len(objects') = Len(objects)
      /\ \A i \in DOMAIN objects : objects'[i].mod = objects[i].mod
      /\ \A i \in DOMAIN objects : \A l \in objects'[i].links : l[1] \in DOMAIN objects
  BY CallTyped, StackTyped, GoOnShape DEF IInv, TypeOK
<1>2. /\ stack' \in Seq(Frames) /\ Len(stack') = Len(stack)
      /\ \A k \in DOMAIN stack :
           /\ stack'[k].mod = stack[k].mod /\ stack'[k].obj = stack[k].obj
           /\ stack'[k].ref = stack[k].ref
           /\ k < Len(stack) => stack'[k].at = stack[k].at
           /\ stack'[k].at <= stack[k].at + 1
  BY CallTyped, StackTyped, GoOnShape DEF IInv, TypeOK
<1>3. /\ phase' \in {phase, "failed"}
      /\ stack = <<>> => built' = built \cup {o} /\ tool' = tool + 1
      /\ stack # <<>> => built' = built /\ tool' = tool
  BY CallTyped, StackTyped, GoOnShape DEF IInv, TypeOK
<1>4. DOMAIN objects' = DOMAIN objects /\ DOMAIN stack' = DOMAIN stack /\ phase = "convert"
      /\ tool <= Len(request.tools) /\ objects \in Seq(TargetRecords)
  BY <1>1, <1>2, CallTyped DEF IInv, TypeOK
<1>5. \A k \in DOMAIN stack : DepsOf(stack[k])' = DepsOf(stack[k])
  BY <1>2 DEF DepsOf
<1>6. TypeOK'
  <2>1. \A k \in DOMAIN stack' :
          stack'[k].obj <= Len(objects') /\ stack'[k].at <= Len(DepsOf(stack[k])') + 1
    <3> SUFFICES ASSUME NEW k \in DOMAIN stack
                 PROVE  stack'[k].obj <= Len(objects') /\ stack'[k].at <= Len(DepsOf(stack[k])') + 1
      BY <1>4
    <3>1. stack[k].at \in Nat /\ stack'[k].at \in Nat /\ Len(DepsOf(stack[k])) \in Nat
      <4>1. stack'[k] \in Frames
        BY <1>2, <1>4
      <4> QED
        BY <4>1, StackTyped, FrameFields
    <3>2. stack[k].at <= Len(DepsOf(stack[k])) /\ stack[k].obj <= Len(objects)
      BY CallTyped, StackTyped
    <3> QED
      BY <1>1, <1>2, <1>5, <3>1, <3>2
  <2>2. tool' \in 1..(Len(request'.tools) + 1)
    BY <1>3, <1>4, RequestTyped DEF IInv, TypeOK
  <2> QED
    BY <1>1, <1>2, <1>3, <1>4, <2>1, <2>2 DEF IInv, TypeOK
<1>7. Waiting' /\ ToolUnderWay' /\ Written'
  <2>1. Waiting'
    BY <1>2, <1>4, <1>5 DEF IInv, Waiting
  <2>2. stack' # <<>> => stack # <<>>
    BY <1>2, StackTyped
  <2> QED
    BY <1>3, <1>4, <2>1, <2>2 DEF Written, ToolUnderWay
<1>8. Registered' /\ FramesNamed'
  <2>1. \A k \in DOMAIN stack : stack[k].obj # 0 => stack[k].obj \in DOMAIN objects
    BY StackTyped, <1>4
  <2>2. Registered'
    BY <1>1, <1>4 DEF Registered, Plain
  <2> QED
    BY <1>1, <1>2, <1>4, <2>1, <2>2 DEF IInv, FramesNamed
<1>9. Nested'
  BY <1>2, <1>4 DEF IInv, Nested
<1>10. \A i : (OnStack(i)' <=> OnStack(i)) /\ (InOrder(i)' <=> InOrder(i))
  BY <1>2, <1>4 DEF OnStack, InOrder
<1>11. Placed' /\ OrderOnce'
  BY <1>4, <1>10 DEF IInv, Placed, OrderOnce
<1>12. BuiltInOrder'
  <2>1. stack = <<>> => InOrder(o)
    BY DEF IInv, Placed, OnStack
  <2> QED
    BY <1>3, <1>10, <2>1 DEF IInv, BuiltInOrder
<1> QED
  BY <1>6, <1>7, <1>8, <1>9, <1>11, <1>12 DEF IInv

LEMMA ConvertKnownStep ==
  ASSUME IInv, NEW c \in Calls, ConvertKnown(c.ref, c.frm), UNCHANGED <<deps, request>>
  PROVE  IInv'
<1>1. targets[c.ref] \in DOMAIN objects
  BY CallTyped DEF ConvertKnown, IInv, TypeOK
<1>2. targets' = targets /\ targets \in [Refs -> 0..Len(objects)]
  BY DEF ConvertKnown, IInv, TypeOK
<1>3. \A i \in DOMAIN objects : targets'[Plain(objects[i].mod.name)] = i
  BY <1>2 DEF IInv, Registered
<1>4. GoOn(stack, objects, targets[c.ref]) /\ UNCHANGED <<order, deps, request>>
  BY DEF ConvertKnown
<1> QED
  BY <1>1, <1>2, <1>3, <1>4, UseStep

LEMMA ConvertAliasStep ==
  ASSUME IInv, NEW c \in Calls, ConvertAlias(c.ref, c.frm), UNCHANGED <<deps, request>>
  PROVE  IInv'
<1> DEFINE m == Lookup(c.ref, c.frm)
           o == targets[Plain(m.name)]
<1>1. /\ targets[c.ref] = 0 /\ m # NULL /\ o # 0
      /\ targets' = [targets EXCEPT ![c.ref] = o]
      /\ GoOn(stack, objects, o) /\ UNCHANGED <<order, deps, request>>
  BY DEF ConvertAlias
<1>2. m \in Mods /\ c.ref \in Refs
  BY <1>1, CallTyped, LookupName
<1>3. targets \in [Refs -> 0..Len(objects)] /\ Plain(m.name) \in Refs
  BY <1>2, PlainRef DEF IInv, TypeOK
<1> HIDE DEF m
<1>4. o \in DOMAIN objects
  BY <1>1, <1>3 DEF IInv, TypeOK
<1>5. targets' \in [Refs -> 0..Len(objects)]
  BY <1>1, <1>2, <1>3
<1>6. \A i \in DOMAIN objects : targets'[Plain(objects[i].mod.name)] = i
  <2> SUFFICES ASSUME NEW i \in DOMAIN objects
               PROVE  targets'[Plain(objects[i].mod.name)] = i
    OBVIOUS
  <2>1. targets[Plain(objects[i].mod.name)] = i /\ i # 0
    BY DEF IInv, Registered, TypeOK
  <2>2. Plain(objects[i].mod.name) \in Refs
    BY ModsOfObjects, PlainRef
  <2> QED
    BY <1>1, <1>3, <2>1, <2>2
<1> HIDE DEF o
<1> QED
  BY <1>1, <1>4, <1>5, <1>6, UseStep

\* A frame that starts a module.
LEMMA FrameStarts ==
  ASSUME NEW m \in Mods, NEW o \in Nat, NEW ref \in Refs
  PROVE  /\ Frame(m, o, ref) \in Frames /\ Frame(m, o, ref).obj = o
         /\ Frame(m, o, ref).ref = ref /\ Frame(m, o, ref).mod = m /\ Frame(m, o, ref).at = 1
  BY DEF Frame, Frames

LEMMA ConvertNewStep ==
  ASSUME IInv, NEW c \in Calls, ConvertNew(c.ref, c.frm), UNCHANGED <<deps, request>>
  PROVE  IInv'
<1> PICK n \in Nat, s \in Nat : n = Len(objects) /\ s = Len(stack)
  BY StackTyped
<1> DEFINE m == Lookup(c.ref, c.frm)
           o == n + 1
           f == Frame(m, o, c.ref)
           k0 == s + 1
<1>1. /\ m # NULL /\ targets[Plain(m.name)] = 0 /\ Kind[m] \in TargetKinds
      /\ objects' = Append(objects, Target(m))
      /\ targets' = [targets EXCEPT ![Plain(m.name)] = o]
      /\ stack' = Append(stack, f)
      /\ UNCHANGED <<phase, tool, order, built, deps, request>>
  BY DEF ConvertNew
<1>2. /\ m \in Mods /\ m.name = c.ref.name /\ c.ref \in Refs /\ Plain(m.name) \in Refs
      /\ tool <= Len(request.tools) /\ phase = "convert"
  BY <1>1, CallTyped, LookupName, PlainRef
<1> HIDE DEF m
<1>3. Target(m) \in TargetRecords /\ Target(m).mod = m /\ Target(m).links = {}
  BY <1>1, <1>2 DEF Target, TargetRecords
<1>4. n \in Nat /\ o \in Nat /\ objects \in Seq(TargetRecords) /\ stack \in Seq(Frames)
  BY StackTyped DEF IInv, TypeOK
<1>5. f \in Frames /\ f.obj = o /\ f.ref = c.ref /\ f.mod = m /\ f.at = 1
  BY <1>2, <1>4, FrameStarts
<1> HIDE DEF f
<1>6. /\ objects' \in Seq(TargetRecords) /\ Len(objects') = o /\ objects'[o].mod = m
      /\ objects'[o].links = {}
      /\ \A i \in DOMAIN objects : objects'[i] = objects[i]
      /\ DOMAIN objects' = 1..o /\ DOMAIN objects = 1..n
  BY <1>1, <1>3, <1>4
<1>7. /\ stack' \in Seq(Frames) /\ Len(stack') = k0 /\ stack'[k0] = f
      /\ \A k \in DOMAIN stack : stack'[k] = stack[k]
      /\ DOMAIN stack' = 1..k0 /\ DOMAIN stack = 1..s
  BY <1>1, <1>4, <1>5
<1>8. \A k \in DOMAIN stack : DepsOf(stack[k])' = DepsOf(stack[k])
  BY <1>1, <1>7 DEF DepsOf
<1>9. DepsOf(stack[k0])' \in Seq(Deps)
  BY <1>1, <1>2, <1>5, <1>7, StackTyped DEF DepsOf
<1>10. TypeOK'
  <2>1. \A i \in DOMAIN objects' : \A l \in objects'[i].links : l[1] \in DOMAIN objects'
    <3> SUFFICES ASSUME NEW i \in 1..o, NEW l \in objects'[i].links PROVE l[1] \in 1..o
      BY <1>6
    <3>1. i \in DOMAIN objects
      BY <1>4, <1>6
    <3>2. l[1] \in DOMAIN objects
      BY <3>1, <1>6 DEF IInv, TypeOK
    <3> QED
      BY <3>2, <1>4, <1>6
  <2>2. targets' \in [Refs -> 0..Len(objects')]
    <3>1. targets \in [Refs -> 0..n]
      BY DEF IInv, TypeOK
    <3>2. 0..n \subseteq 0..o /\ o \in 0..o
      BY <1>4
    <3> QED
      BY <3>1, <3>2, <1>1, <1>2, <1>6
  <2>3. \A k \in DOMAIN stack' :
          stack'[k].obj <= Len(objects') /\ stack'[k].at <= Len(DepsOf(stack[k])') + 1
    <3> SUFFICES ASSUME NEW k \in 1..k0
                 PROVE  stack'[k].obj <= o /\ stack'[k].at <= Len(DepsOf(stack[k])') + 1
      BY <1>6, <1>7
    <3>1. CASE k = k0
      BY <3>1, <1>4, <1>5, <1>7, <1>9
    <3>2. CASE k # k0
      <4>1. k \in DOMAIN stack
        BY <3>2, <1>7
      <4> QED
        BY <4>1, <1>4, <1>7, <1>8, StackTyped
    <3> QED
      BY <3>1, <3>2
  <2>4. order' \in Seq(DOMAIN objects')
    <3>1. order \in Seq(1..n) /\ 1..n \subseteq 1..o
      BY <1>4, <1>6 DEF IInv, TypeOK
    <3>2. \A k \in DOMAIN order : order[k] \in 1..o
      BY <3>1
    <3> QED
      BY <3>1, <3>2, <1>1, <1>6
  <2>5. built' \subseteq DOMAIN objects'
    BY <1>1, <1>4, <1>6 DEF IInv, TypeOK
  <2> QED
    BY <1>1, <1>6, <1>7, <2>1, <2>2, <2>3, <2>4, <2>5 DEF IInv, TypeOK
<1>11. Waiting' /\ ToolUnderWay' /\ Written'
  <2>1. Waiting'
    <3> SUFFICES ASSUME NEW k \in 1..k0, k < k0
                 PROVE  stack'[k].at <= Len(DepsOf(stack[k])')
      BY <1>7 DEF Waiting
    <3>1. k \in DOMAIN stack
      BY <1>7
    <3> QED
      BY <3>1, <1>7, <1>8, CallTyped
  <2> QED
    BY <1>1, <1>2, <2>1 DEF ToolUnderWay, Written
<1>12. Registered'
  <2> SUFFICES ASSUME NEW i \in 1..o PROVE targets'[Plain(objects'[i].mod.name)] = i
    BY <1>6 DEF Registered, Plain
  <2>1. targets \in [Refs -> 0..n]
    BY DEF IInv, TypeOK
  <2>2. CASE i = o
    BY <2>1, <2>2, <1>1, <1>2, <1>6
  <2>3. CASE i # o
    <3>1. i \in DOMAIN objects
      BY <2>3, <1>4, <1>6
    <3>2. targets[Plain(objects[i].mod.name)] = i /\ Plain(objects[i].mod.name) \in Refs /\ i # 0
      BY <3>1, <1>6, ModsOfObjects, PlainRef DEF IInv, Registered
    <3>3. Plain(objects[i].mod.name) # Plain(m.name)
      BY <3>2, <1>1
    <3> QED
      BY <2>1, <3>1, <3>2, <3>3, <1>1, <1>2, <1>6
  <2> QED
    BY <2>2, <2>3
<1>13. FramesNamed'
  <2> SUFFICES ASSUME NEW k \in 1..k0, stack'[k].obj # 0
               PROVE  stack'[k].ref.name = objects'[stack'[k].obj].mod.name
    BY <1>7 DEF FramesNamed
  <2>1. CASE k = k0
    BY <2>1, <1>2, <1>5, <1>6, <1>7
  <2>2. CASE k # k0
    <3>1. k \in DOMAIN stack
      BY <2>2, <1>7
    <3>2. stack[k].obj \in DOMAIN objects
      BY <3>1, <1>6, <1>7, StackTyped
    <3> QED
      BY <3>1, <3>2, <1>6, <1>7 DEF IInv, FramesNamed
  <2> QED
    BY <2>1, <2>2
<1>14. Nested'
  <2> SUFFICES ASSUME NEW j \in 1..k0, NEW k \in 1..k0, j < k,
                      stack'[j].obj # 0, stack'[k].obj # 0
               PROVE  stack'[j].obj < stack'[k].obj
    BY <1>7 DEF Nested
  <2>1. j \in DOMAIN stack /\ stack[j].obj \in Nat /\ stack[j].obj <= n
    BY <1>7, StackTyped
  <2>2. CASE k = k0
    BY <2>1, <2>2, <1>4, <1>5, <1>7
  <2>3. CASE k # k0
    BY <2>1, <2>3, <1>7 DEF IInv, Nested
  <2> QED
    BY <2>2, <2>3
<1>15. /\ \A i \in DOMAIN objects : OnStack(i)' <=> OnStack(i)
       /\ OnStack(o)' /\ \A i : InOrder(i)' <=> InOrder(i)
  <2>1. OnStack(o)'
    BY <1>5, <1>7 DEF OnStack
  <2>2. \A i : InOrder(i)' <=> InOrder(i)
    BY <1>1 DEF InOrder
  <2>3. ASSUME NEW i \in DOMAIN objects PROVE OnStack(i)' <=> OnStack(i)
    <3>1. i # o
      BY <1>4, <1>6
    <3>2. OnStack(i) => OnStack(i)'
      BY <1>7 DEF OnStack
    <3>3. ASSUME NEW k \in 1..k0, stack'[k].obj = i PROVE OnStack(i)
      <4>1. k \in DOMAIN stack
        BY <3>1, <3>3, <1>5, <1>7
      <4> QED
        BY <4>1, <3>3, <1>7 DEF OnStack
    <3> QED
      BY <3>2, <3>3, <1>7 DEF OnStack
  <2> QED
    BY <2>1, <2>2, <2>3
<1>16. Placed' /\ OrderOnce' /\ BuiltInOrder'
  <2>1. ~InOrder(o)
    BY <1>4, <1>6 DEF IInv, TypeOK, InOrder
  <2>2. Placed'
    <3> SUFFICES ASSUME NEW i \in 1..o PROVE InOrder(i)' <=> ~OnStack(i)'
      BY <1>6 DEF Placed
    <3>1. i = o \/ i \in DOMAIN objects
      BY <1>4, <1>6
    <3> QED
      BY <2>1, <3>1, <1>15 DEF IInv, Placed
  <2> QED
    BY <2>2, <1>1, <1>15 DEF IInv, OrderOnce, BuiltInOrder
<1> QED
  BY <1>10, <1>11, <1>12, <1>13, <1>14, <1>16 DEF IInv

\* Only main()'s own state changes.
LEMMA MainStep ==
  ASSUME IInv, phase' \in {"convert", "written", "failed"},
         phase' = "written" => stack = <<>>,
         tool' \in 1..(Len(request.tools) + 1),
         stack # <<>> => tool' = tool,
         UNCHANGED <<targets, objects, stack, order, built, deps, request>>
  PROVE  IInv'
<1>1. TypeOK'
  BY DEF IInv, TypeOK, DepsOf
<1>2. Waiting' /\ ToolUnderWay' /\ Written'
  BY DEF IInv, Waiting, ToolUnderWay, Written, DepsOf
<1>3. Registered' /\ FramesNamed' /\ Nested'
  BY DEF IInv, Registered, FramesNamed, Nested, Plain
<1>4. Placed' /\ OrderOnce' /\ BuiltInOrder'
  BY DEF IInv, Placed, OrderOnce, BuiltInOrder, OnStack, InOrder
<1> QED
  BY <1>1, <1>2, <1>3, <1>4 DEF IInv

LEMMA FailStep ==
  ASSUME IInv, Fail, UNCHANGED <<deps, request>>
  PROVE  IInv'
<1>1. tool \in 1..(Len(request.tools) + 1)
  BY DEF IInv, TypeOK
<1> QED
  BY <1>1, MainStep DEF Fail

LEMMA ToolLeftOutStep ==
  ASSUME IInv, ToolLeftOut, UNCHANGED <<deps, request>>
  PROVE  IInv'
<1>1. phase = "convert" /\ stack = <<>> /\ tool <= Len(request.tools)
  BY DEF ToolLeftOut, ToolCalls
<1>2. CASE request.strict
  BY <1>2, FailStep DEF ToolLeftOut
<1>3. CASE ~request.strict
  <2>1. tool' = tool + 1 /\ UNCHANGED <<phase, targets, objects, stack, order, built>>
    BY <1>3 DEF ToolLeftOut
  <2>2. tool' \in 1..(Len(request.tools) + 1)
    BY <1>1, <2>1, RequestTyped DEF IInv, TypeOK
  <2> QED
    BY <1>1, <2>1, <2>2, MainStep
<1> QED
  BY <1>2, <1>3

LEMMA WriteStep ==
  ASSUME IInv, Write, UNCHANGED <<deps, request>>
  PROVE  IInv'
<1>1. tool \in 1..(Len(request.tools) + 1)
  BY DEF IInv, TypeOK
<1> QED
  BY <1>1, MainStep DEF Write

\* Only frames move on, and those of a host tool may be gone.
LEMMA StackStep ==
  ASSUME IInv, phase = "convert",
         NEW s \in Nat, s <= Len(stack),
         stack' \in Seq(Frames), Len(stack') = s,
         \A k \in DOMAIN stack : k > s => stack[k].obj = 0,
         \A k \in 1..s :
           /\ stack'[k].mod = stack[k].mod /\ stack'[k].obj = stack[k].obj
           /\ stack'[k].ref = stack[k].ref
           /\ stack'[k].at <= Len(DepsOf(stack[k])) + 1
           /\ k < s => stack'[k].at <= Len(DepsOf(stack[k])),
         UNCHANGED <<phase, tool, targets, objects, order, built, deps, request>>
  PROVE  IInv'
<1>1. DOMAIN stack' = 1..s /\ 1..s \subseteq DOMAIN stack /\ Len(stack) \in Nat
  BY StackTyped
<1>2. \A k \in 1..s : DepsOf(stack[k])' = DepsOf(stack[k])
  BY DEF DepsOf
<1>3. \A k \in 1..s : stack'[k].obj <= Len(objects)
  BY <1>1, StackTyped
<1>4. TypeOK'
  BY <1>1, <1>2, <1>3 DEF IInv, TypeOK
<1>5. Waiting' /\ ToolUnderWay' /\ Written'
  <2>1. Waiting'
    BY <1>1, <1>2 DEF Waiting
  <2>2. stack' # <<>> => stack # <<>>
    BY <1>1
  <2> QED
    BY <2>1, <2>2 DEF IInv, ToolUnderWay, Written
<1>6. Registered' /\ FramesNamed' /\ Nested'
  <2>1. Registered'
    BY DEF IInv, Registered, Plain
  <2>2. FramesNamed'
    BY <1>1 DEF IInv, FramesNamed
  <2>3. Nested'
    BY <1>1 DEF IInv, Nested
  <2> QED
    BY <2>1, <2>2, <2>3
<1>7. \A i \in DOMAIN objects : OnStack(i)' <=> OnStack(i)
  <2> SUFFICES ASSUME NEW i \in DOMAIN objects PROVE OnStack(i)' <=> OnStack(i)
    OBVIOUS
  <2>1. i # 0
    BY DEF IInv, TypeOK
  <2>2. ASSUME NEW k \in DOMAIN stack, stack[k].obj = i PROVE OnStack(i)'
    <3>1. k \in 1..s
      BY <2>1, <2>2, StackTyped
    <3> QED
      BY <2>2, <3>1, <1>1 DEF OnStack
  <2>3. OnStack(i)' => OnStack(i)
    BY <1>1 DEF OnStack
  <2> QED
    BY <2>2, <2>3 DEF OnStack
<1>8. Placed' /\ OrderOnce' /\ BuiltInOrder'
  BY <1>7 DEF IInv, Placed, OrderOnce, BuiltInOrder, InOrder
<1> QED
  BY <1>4, <1>5, <1>6, <1>8 DEF IInv

LEMMA SkipSystemLibStep ==
  ASSUME IInv, SkipSystemLib, UNCHANGED <<deps, request>>
  PROVE  IInv'
<1> PICK s \in Nat : s = Len(stack)
  BY StackTyped
<1> DEFINE f == stack[s]
           g == Moved(f, f.files)
<1>1. /\ HasDep /\ stack' = [stack EXCEPT ![s] = g]
      /\ UNCHANGED <<phase, tool, targets, objects, order, built>>
  BY DEF SkipSystemLib
<1>2. /\ stack # <<>> /\ phase = "convert"
      /\ \A k \in DOMAIN stack : stack[k].at <= Len(DepsOf(stack[k]))
  BY <1>1, AllWait
<1>3. s \in DOMAIN stack /\ stack \in Seq(Frames) /\ DOMAIN stack = 1..s
  BY <1>2, StackTyped
<1>4. f \in Frames /\ f.at \in Nat \ {0}
  BY <1>3, StackTyped
<1> HIDE DEF f
<1>5. g \in Frames /\ g.mod = f.mod /\ g.obj = f.obj /\ g.ref = f.ref /\ g.at = f.at + 1
  BY <1>4, FrameFields, FrameMoved
<1> HIDE DEF g
<1>6. stack' \in Seq(Frames) /\ Len(stack') = s
  BY <1>1, <1>3, <1>5
<1>7. ASSUME NEW k \in 1..s
      PROVE  /\ stack'[k].mod = stack[k].mod /\ stack'[k].obj = stack[k].obj
             /\ stack'[k].ref = stack[k].ref
             /\ stack'[k].at <= Len(DepsOf(stack[k])) + 1
             /\ k < s => stack'[k].at <= Len(DepsOf(stack[k]))
  <2>1. Len(DepsOf(stack[k])) \in Nat /\ stack[k].at \in Nat
        /\ stack[k].at <= Len(DepsOf(stack[k]))
    BY <1>2, <1>3, StackTyped
  <2>2. CASE k = s
    BY <2>1, <2>2, <1>1, <1>3, <1>5 DEF f
  <2>3. CASE k # s
    BY <2>1, <2>3, <1>1, <1>3
  <2> QED
    BY <2>2, <2>3
<1>8. s <= Len(stack) /\ \A k \in DOMAIN stack : k > s => stack[k].obj = 0
  BY <1>3
<1>9. UNCHANGED <<phase, tool, targets, objects, order, built, deps, request>>
  BY <1>1
<1> QED
  BY <1>2, <1>6, <1>7, <1>8, <1>9, StackStep

\* The host tool's expansion ends: its caller's frame moves on.
LEMMA ToolExpandedStep ==
  ASSUME IInv, ToolExpanded, UNCHANGED <<deps, request>>
  PROVE  IInv'
<1>1. stack # <<>> /\ phase = "convert" /\ stack[Len(stack)].obj = 0
  BY DEF ToolExpanded, Finished, Walking, Top
<1>a. Len(stack) \in Nat /\ Len(stack) # 0 /\ stack \in Seq(Frames)
  BY <1>1, StackTyped
<1> PICK s \in Nat : s = Len(stack) - 1
  BY <1>a
<1> DEFINE f == stack[s]
           F == f.files \cup stack[s + 1].files
           g == Moved(f, F)
<1>2. Len(stack) = s + 1 /\ stack \in Seq(Frames) /\ DOMAIN stack = 1..(s + 1)
  BY <1>a
<1>3. /\ Below \in Seq(Frames) /\ Len(Below) = s
      /\ \A k \in 1..s : Below[k] = stack[k]
  BY <1>2 DEF Below
<1>4. /\ stack' = [Below EXCEPT ![s] = Moved(@, @.files \cup stack[s + 1].files)]
      /\ UNCHANGED <<phase, tool, targets, objects, order, built>>
  BY <1>2 DEF ToolExpanded, Top
<1>5. ASSUME NEW k \in 1..s
      PROVE  /\ stack[k] \in Frames /\ stack[k].at \in Nat /\ Len(DepsOf(stack[k])) \in Nat
             /\ stack[k].at <= Len(DepsOf(stack[k]))
  <2>1. k \in DOMAIN stack /\ k < Len(stack)
    BY <1>2
  <2>2. stack[k].at \in Nat /\ stack[k] \in Frames /\ DepsOf(stack[k]) \in Seq(Deps)
    BY <2>1, StackTyped
  <2> QED
    BY <2>1, <2>2 DEF IInv, Waiting
<1>b. UNCHANGED <<phase, tool, targets, objects, order, built, deps, request>>
  BY <1>4
<1>c. s <= Len(stack) /\ \A k \in DOMAIN stack : k > s => stack[k].obj = 0
  BY <1>1, <1>2
<1>6. CASE s = 0
  <2>1. stack' = Below
    BY <1>3, <1>4, <1>6
  <2> QED
    BY <2>1, <1>1, <1>3, <1>6, <1>b, <1>c, StackStep
<1>7. CASE s # 0
  <2>1. f \in Frames /\ stack[s + 1] \in Frames
    BY <1>2, <1>7
  <2>2. F \in SUBSET Mods
    BY <2>1, FrameFields
  <2>3. g \in Frames /\ g.mod = f.mod /\ g.obj = f.obj /\ g.ref = f.ref /\ g.at = f.at + 1
    BY <2>1, <2>2, FrameMoved
  <2>4. stack' = [Below EXCEPT ![s] = g]
    <3>1. s \in 1..s
      BY <1>7
    <3>2. Below[s] = f
      BY <3>1, <1>3
    <3> QED
      BY <3>2, <1>4
  <2> HIDE DEF g, f
  <2>5. stack' \in Seq(Frames) /\ Len(stack') = s
    <3>1. Below \in Seq(Frames) /\ Len(Below) = s /\ DOMAIN Below = 1..s /\ s \in 1..s
      BY <1>3, <1>7
    <3> HIDE DEF F
    <3> QED
      BY <3>1, <2>3, <2>4
  <2>6. ASSUME NEW k \in 1..s
        PROVE  /\ stack'[k].mod = stack[k].mod /\ stack'[k].obj = stack[k].obj
               /\ stack'[k].ref = stack[k].ref
               /\ stack'[k].at <= Len(DepsOf(stack[k])) + 1
               /\ k < s => stack'[k].at <= Len(DepsOf(stack[k]))
    <3>1. CASE k = s
      BY <3>1, <1>3, <1>5, <2>3, <2>4 DEF f
    <3>2. CASE k # s
      BY <3>2, <1>3, <1>5, <2>4
    <3> QED
      BY <3>1, <3>2
  <2> QED
    BY <1>1, <2>5, <2>6, <1>b, <1>c, StackStep
<1> QED
  BY <1>6, <1>7

\* A host tool's sources are expanded on a frame with no Target.
LEMMA ExpandToolStep ==
  ASSUME IInv, ExpandTool, UNCHANGED <<deps, request>>
  PROVE  IInv'
<1> PICK s \in Nat : s = Len(stack)
  BY StackTyped
<1> DEFINE m == Lookup(Dep.ref, Top.mod)
<1>1. /\ stack # <<>> /\ phase = "convert" /\ Dep \in Deps
      /\ \A k \in DOMAIN stack : stack[k].at <= Len(DepsOf(stack[k]))
  BY AllWait DEF ExpandTool
<1>2. CASE ~(m # NULL /\ Kind[m] = "tool")
  BY <1>2, FailStep DEF ExpandTool
<1>3. CASE m # NULL /\ Kind[m] = "tool"
  <2>1. stack' = Append(stack, Frame(m, 0, Dep.ref))
    BY <1>3 DEF ExpandTool
  <2>2. UNCHANGED <<phase, tool, targets, objects, order, built, deps, request>>
    BY <1>3 DEF ExpandTool
  <2>3. Dep.ref \in Refs
    BY <1>1 DEF Deps
  <2>4. m \in Mods
    BY <2>3, <1>3, LookupName
  <2>5. PICK f \in Frames : f = Frame(m, 0, Dep.ref) /\ f.obj = 0 /\ f.at = 1
    BY <2>3, <2>4, FrameStarts
  <2>6. stack \in Seq(Frames) /\ DOMAIN stack = 1..s
    BY StackTyped
  <2>7. /\ stack' \in Seq(Frames) /\ Len(stack') = s + 1 /\ DOMAIN stack' = 1..(s + 1)
        /\ stack'[s + 1] = f /\ \A k \in 1..s : stack'[k] = stack[k]
    BY <2>1, <2>5, <2>6
  <2>8. \A k \in 1..s : DepsOf(stack[k])' = DepsOf(stack[k])
    BY <2>2, <2>7 DEF DepsOf
  <2>9. Len(DepsOf(stack[s + 1])') \in Nat
    <3>1. f.mod \in Mods /\ deps \in [Mods -> Seq(Deps)]
      BY <2>5, FrameFields, StackTyped
    <3>2. DepsOf(stack[s + 1])' = deps[f.mod]
      BY <2>2, <2>7 DEF DepsOf
    <3> QED
      BY <3>1, <3>2
  <2>10. \A k \in 1..(s + 1) :
           stack'[k].obj <= Len(objects) /\ stack'[k].at <= Len(DepsOf(stack[k])') + 1
    <3> SUFFICES ASSUME NEW k \in 1..(s + 1)
                 PROVE  stack'[k].obj <= Len(objects) /\ stack'[k].at <= Len(DepsOf(stack[k])') + 1
      OBVIOUS
    <3>1. CASE k = s + 1
      BY <3>1, <2>5, <2>7, <2>9, StackTyped
    <3>2. CASE k # s + 1
      <4>1. k \in 1..s /\ k \in DOMAIN stack
        BY <3>2, <2>6
      <4>2. stack[k].obj <= Len(objects) /\ stack[k].at <= Len(DepsOf(stack[k])) + 1
        BY <4>1, StackTyped
      <4>3. stack'[k] = stack[k] /\ DepsOf(stack[k])' = DepsOf(stack[k])
        BY <4>1, <2>7, <2>8
      <4> QED
        BY <4>2, <4>3
    <3> QED
      BY <3>1, <3>2
  <2>11. TypeOK'
    BY <2>2, <2>7, <2>10 DEF IInv, TypeOK
  <2>12. Waiting' /\ ToolUnderWay' /\ Written'
    <3>1. Waiting'
      <4> SUFFICES ASSUME NEW k \in 1..(s + 1), k < s + 1
                   PROVE  stack'[k].at <= Len(DepsOf(stack[k])')
        BY <2>7 DEF Waiting
      <4> QED
        BY <1>1, <2>6, <2>7, <2>8
    <3> QED
      BY <1>1, <2>2, <3>1 DEF IInv, ToolUnderWay, Written
  <2>13. Registered' /\ FramesNamed' /\ Nested'
    <3>1. Registered'
      BY <2>2 DEF IInv, Registered, Plain
    <3>2. FramesNamed'
      BY <2>2, <2>5, <2>6, <2>7 DEF IInv, FramesNamed
    <3>3. Nested'
      BY <2>2, <2>5, <2>6, <2>7 DEF IInv, Nested
    <3> QED
      BY <3>1, <3>2, <3>3
  <2>14. \A i \in DOMAIN objects : OnStack(i)' <=> OnStack(i)
    <3> SUFFICES ASSUME NEW i \in DOMAIN objects PROVE OnStack(i)' <=> OnStack(i)
      OBVIOUS
    <3>1. i # 0
      BY DEF IInv, TypeOK
    <3>2. OnStack(i) => OnStack(i)'
      BY <2>6, <2>7 DEF OnStack
    <3>3. ASSUME NEW k \in 1..(s + 1), stack'[k].obj = i PROVE OnStack(i)
      <4>1. k \in 1..s
        BY <3>1, <3>3, <2>5, <2>7
      <4> QED
        BY <4>1, <3>3, <2>6, <2>7 DEF OnStack
    <3> QED
      BY <3>2, <3>3, <2>7 DEF OnStack
  <2>15. Placed' /\ OrderOnce' /\ BuiltInOrder'
    BY <2>2, <2>14 DEF IInv, Placed, OrderOnce, BuiltInOrder, InOrder
  <2> QED
    BY <2>11, <2>12, <2>13, <2>15 DEF IInv
<1> QED
  BY <1>2, <1>3

\* A conversion ends: its Target is put in order, and its caller goes on.
LEMMA ConvertEndsStep ==
  ASSUME IInv, ConvertEnds, UNCHANGED <<deps, request>>
  PROVE  IInv'
<1>1. /\ stack # <<>> /\ phase = "convert" /\ Top.obj # 0
      /\ targets' = [targets EXCEPT ![Top.ref] = Top.obj]
      /\ order' = IF Top.obj \in Range(order) THEN order ELSE Append(order, Top.obj)
      /\ GoOn(Below, Fill(objects, Top), Top.obj)
  BY DEF ConvertEnds, Finished, Walking
<1>2. Len(stack) \in Nat \ {0} /\ stack \in Seq(Frames) /\ objects \in Seq(TargetRecords)
  BY <1>1, StackTyped DEF IInv, TypeOK
<1> PICK s \in Nat, n \in Nat : Len(stack) = s + 1 /\ Len(objects) = n
  <2>1. Len(stack) - 1 \in Nat /\ Len(objects) \in Nat
    BY <1>2
  <2> QED
    BY <2>1, <1>2
<1>3. DOMAIN stack = 1..(s + 1) /\ DOMAIN objects = 1..n /\ Top = stack[s + 1]
  BY <1>2 DEF Top
<1> PICK f \in Frames : f = Top
  BY <1>2, <1>3
<1> PICK o \in 1..n : o = f.obj
  <2>1. Top.obj \in Nat /\ Top.obj <= n
    BY <1>3, StackTyped
  <2> QED
    BY <2>1, <1>1
<1>4. f.ref \in Refs /\ f.ref.name = objects[o].mod.name /\ f.files \in SUBSET Mods
  <2>1. f.ref \in Refs /\ f.files \in SUBSET Mods
    BY FrameFields
  <2>2. stack[s + 1].obj # 0
    BY <1>1, <1>3
  <2>3. f.ref.name = objects[o].mod.name
    BY <2>2, <1>3 DEF IInv, FramesNamed
  <2> QED
    BY <2>1, <2>3
<1>5. /\ Below \in Seq(Frames) /\ Len(Below) = s /\ DOMAIN Below = 1..s
      /\ \A k \in 1..s : Below[k] = stack[k]
  BY <1>2 DEF Below
<1> DEFINE u == [objects[o] EXCEPT !.files = f.files]
<1>6. u \in TargetRecords /\ u.mod = objects[o].mod /\ u.links = objects[o].links
  <2>1. objects[o] \in TargetRecords
    BY <1>2, <1>3
  <2> QED
    BY <2>1, <1>4 DEF TargetRecords
<1>7. PICK objs \in Seq(TargetRecords) : objs = Fill(objects, Top) /\ objs = [objects EXCEPT ![o] = u]
  <2>1. Fill(objects, Top) = [objects EXCEPT ![o] = u]
    BY DEF Fill
  <2> HIDE DEF u
  <2>2. [objects EXCEPT ![o] = u] \in Seq(TargetRecords)
    BY <1>2, <1>3, <1>6
  <2> QED
    BY <2>1, <2>2
<1>8. /\ Len(objs) = n /\ DOMAIN objs = 1..n
      /\ \A i \in 1..n : objs[i].mod = objects[i].mod /\ objs[i].links = objects[i].links
  <2> HIDE DEF u
  <2> QED
    BY <1>2, <1>3, <1>6, <1>7
<1> HIDE DEF u
<1>9. \A k \in 1..s : /\ stack[k].at \in Nat /\ Len(DepsOf(stack[k])) \in Nat
                      /\ stack[k].at <= Len(DepsOf(stack[k])) /\ stack[k].obj <= n
  <2> SUFFICES ASSUME NEW k \in 1..s
               PROVE  /\ stack[k].at \in Nat /\ Len(DepsOf(stack[k])) \in Nat
                      /\ stack[k].at <= Len(DepsOf(stack[k])) /\ stack[k].obj <= n
    OBVIOUS
  <2>1. k \in DOMAIN stack /\ k < Len(stack)
    BY <1>3
  <2>2. stack[k].at \in Nat /\ stack[k].obj <= n /\ DepsOf(stack[k]) \in Seq(Deps)
    BY <2>1, StackTyped
  <2> QED
    BY <2>1, <2>2 DEF IInv, Waiting
<1>10. /\ \A i \in DOMAIN objs : \A l \in objs[i].links : l[1] \in DOMAIN objs
       /\ \A k \in DOMAIN Below : Below[k].obj <= Len(objs)
       /\ \A k \in DOMAIN Below : Below[k].at <= Len(DepsOf(Below[k]))
       /\ o \in DOMAIN objs /\ GoOn(Below, objs, o) /\ deps \in [Mods -> Seq(Deps)]
  <2>1. \A i \in 1..n : \A l \in objects[i].links : l[1] \in 1..n
    BY <1>3 DEF IInv, TypeOK
  <2>2. \A k \in 1..s : DepsOf(Below[k]) = DepsOf(stack[k])
    BY <1>5 DEF DepsOf
  <2> QED
    BY <1>1, <1>5, <1>7, <1>8, <1>9, <2>1, <2>2 DEF IInv, TypeOK
<1>11. /\ objects' \in Seq(TargetRecords) /\ Len(objects') = Len(objs)
       /\ \A i \in DOMAIN objs : objects'[i].mod = objs[i].mod
       /\ \A i \in DOMAIN objs : \A l \in objects'[i].links : l[1] \in DOMAIN objs
  BY <1>5, <1>10, GoOnShape
<1>12. /\ stack' \in Seq(Frames) /\ Len(stack') = Len(Below)
       /\ \A k \in DOMAIN Below :
            /\ stack'[k].mod = Below[k].mod /\ stack'[k].obj = Below[k].obj
            /\ stack'[k].ref = Below[k].ref
            /\ k < Len(Below) => stack'[k].at = Below[k].at
            /\ stack'[k].at <= Below[k].at + 1
  BY <1>5, <1>10, GoOnShape
<1>13. /\ phase' \in {phase, "failed"}
       /\ Below = <<>> => built' = built \cup {o} /\ tool' = tool + 1
       /\ Below # <<>> => built' = built /\ tool' = tool
  BY <1>5, <1>10, GoOnShape
<1>14. /\ DOMAIN objects' = 1..n /\ Len(objects') = n
       /\ \A i \in 1..n : objects'[i].mod = objects[i].mod
       /\ \A i \in 1..n : \A l \in objects'[i].links : l[1] \in 1..n
  <2>1. DOMAIN objects' = 1..n /\ Len(objects') = n
    BY <1>8, <1>11
  <2>2. \A i \in 1..n : objects'[i].mod = objects[i].mod
    BY <1>8, <1>11
  <2>3. \A i \in 1..n : \A l \in objects'[i].links : l[1] \in 1..n
    BY <1>8, <1>11
  <2> QED
    BY <2>1, <2>2, <2>3
<1>15. /\ DOMAIN stack' = 1..s /\ Len(stack') = s
       /\ \A k \in 1..s :
            /\ stack'[k].mod = stack[k].mod /\ stack'[k].obj = stack[k].obj
            /\ stack'[k].ref = stack[k].ref
            /\ k < s => stack'[k].at = stack[k].at
            /\ stack'[k].at <= stack[k].at + 1
  <2>1. DOMAIN stack' = 1..s /\ Len(stack') = s
    BY <1>5, <1>12
  <2> SUFFICES ASSUME NEW k \in 1..s
               PROVE  /\ stack'[k].mod = stack[k].mod /\ stack'[k].obj = stack[k].obj
                      /\ stack'[k].ref = stack[k].ref
                      /\ k < s => stack'[k].at = stack[k].at
                      /\ stack'[k].at <= stack[k].at + 1
    BY <2>1
  <2>2. Below[k] = stack[k] /\ k \in DOMAIN Below /\ Len(Below) = s
    BY <1>5
  <2>3. /\ stack'[k].mod = Below[k].mod /\ stack'[k].obj = Below[k].obj
        /\ stack'[k].ref = Below[k].ref
        /\ k < Len(Below) => stack'[k].at = Below[k].at
        /\ stack'[k].at <= Below[k].at + 1
    BY <2>2, <1>12
  <2> QED
    BY <2>2, <2>3
<1>16. tool <= Len(request.tools) /\ request.tools \in Seq(Names) /\ tool \in Nat
  BY <1>1, RequestTyped DEF IInv, ToolUnderWay
<1>17. \A k \in 1..s : DepsOf(stack[k])' = DepsOf(stack[k])
  BY <1>15 DEF DepsOf
<1>18. order \in Seq(1..n) /\ order' = Append(order, o)
  <2>1. order \in Seq(1..n)
    BY <1>3 DEF IInv, TypeOK
  <2>2. OnStack(o) /\ ~InOrder(o)
    BY <1>3 DEF IInv, Placed, OnStack
  <2>3. o \notin Range(order)
    BY <2>2 DEF InOrder, Range
  <2> QED
    BY <2>1, <2>3, <1>1
<1> USE <1>3
<1>19. TypeOK'
  <2>1. \A k \in 1..s : stack'[k].obj <= n /\ stack'[k].at <= Len(DepsOf(stack[k])') + 1
    <3> SUFFICES ASSUME NEW k \in 1..s
                 PROVE  stack'[k].obj <= n /\ stack'[k].at <= Len(DepsOf(stack[k])) + 1
      BY <1>17
    <3>1. stack'[k].at \in Nat
      <4>1. stack'[k] \in Frames
        BY <1>12, <1>15
      <4> QED
        BY <4>1, FrameFields
    <3>2. /\ stack[k].at \in Nat /\ Len(DepsOf(stack[k])) \in Nat
          /\ stack[k].at <= Len(DepsOf(stack[k])) /\ stack[k].obj <= n
      BY <1>9
    <3>3. stack'[k].obj = stack[k].obj /\ stack'[k].at <= stack[k].at + 1
      BY <1>15
    <3> QED
      BY <3>1, <3>2, <3>3
  <2>2. tool' \in 1..(Len(request'.tools) + 1)
    BY <1>13, <1>16 DEF IInv, TypeOK
  <2>3. targets' \in [Refs -> 0..n]
    BY <1>1, <1>4 DEF IInv, TypeOK
  <2>4. order' \in Seq(1..n)
    BY <1>18
  <2>5. built' \subseteq 1..n
    BY <1>13 DEF IInv, TypeOK
  <2>6. phase' \in {"convert", "written", "failed"}
    BY <1>1, <1>13
  <2> QED
    BY <1>11, <1>12, <1>14, <1>15, <2>1, <2>2, <2>3, <2>4, <2>5, <2>6 DEF IInv, TypeOK
<1>20. Waiting' /\ ToolUnderWay' /\ Written'
  <2>1. Waiting'
    <3> SUFFICES ASSUME NEW k \in 1..s, k < s PROVE stack'[k].at <= Len(DepsOf(stack[k])')
      BY <1>15 DEF Waiting
    <3> QED
      BY <1>9, <1>15, <1>17
  <2>2. stack' # <<>> => Below # <<>>
    BY <1>5, <1>15
  <2> QED
    BY <1>1, <1>13, <1>16, <2>1, <2>2 DEF ToolUnderWay, Written
<1>21. Registered'
  <2> SUFFICES ASSUME NEW i \in 1..n PROVE targets'[Plain(objects[i].mod.name)] = i
    BY <1>14 DEF Registered, Plain
  <2>1. Plain(objects[i].mod.name) \in Refs /\ targets \in [Refs -> 0..n]
    BY ModsOfObjects, PlainRef DEF IInv, TypeOK
  <2>2. targets[Plain(objects[i].mod.name)] = i /\ targets[Plain(objects[o].mod.name)] = o
    BY DEF IInv, Registered
  <2>3. CASE Plain(objects[i].mod.name) = f.ref
    <3>1. objects[i].mod.name = f.ref.name
      BY <2>3 DEF Plain
    <3>2. i = o
      BY <3>1, <1>4, <2>2
    <3> QED
      BY <3>2, <2>1, <2>3, <1>1
  <2>4. CASE Plain(objects[i].mod.name) # f.ref
    BY <2>1, <2>2, <2>4, <1>1
  <2> QED
    BY <2>3, <2>4
<1>22. FramesNamed' /\ Nested'
  <2>1. \A k \in 1..s : stack[k].obj \in Nat /\ stack[k].obj <= n
    BY StackTyped
  <2>2. FramesNamed'
    <3> SUFFICES ASSUME NEW k \in 1..s, stack'[k].obj # 0
                 PROVE  stack'[k].ref.name = objects'[stack'[k].obj].mod.name
      BY <1>15 DEF FramesNamed
    <3>1. stack'[k].obj = stack[k].obj /\ stack'[k].ref = stack[k].ref
      BY <1>15
    <3>2. stack[k].obj \in 1..n
      BY <2>1, <3>1
    <3>3. stack[k].ref.name = objects[stack[k].obj].mod.name
      BY <3>1 DEF IInv, FramesNamed
    <3> QED
      BY <3>1, <3>2, <3>3, <1>14
  <2>3. Nested'
    BY <1>15 DEF IInv, Nested
  <2> QED
    BY <2>2, <2>3
<1>23. OnStack(o) /\ ~InOrder(o)
  BY DEF IInv, Placed, OnStack
<1>24. ~OnStack(o)'
  <2> SUFFICES ASSUME NEW k \in 1..s, stack[k].obj = o PROVE FALSE
    BY <1>15 DEF OnStack
  <2>1. stack[k].obj < stack[s + 1].obj
    BY <1>1 DEF IInv, Nested
  <2> QED
    BY <2>1
<1>25. \A i \in 1..n : i # o => (OnStack(i)' <=> OnStack(i))
  <2> SUFFICES ASSUME NEW i \in 1..n, i # o PROVE OnStack(i)' <=> OnStack(i)
    OBVIOUS
  <2>1. OnStack(i)' => OnStack(i)
    BY <1>15 DEF OnStack
  <2>2. ASSUME NEW k \in 1..(s + 1), stack[k].obj = i PROVE OnStack(i)'
    <3>1. k \in 1..s
      BY <2>2
    <3> QED
      BY <3>1, <2>2, <1>15 DEF OnStack
  <2> QED
    BY <2>1, <2>2 DEF OnStack
<1>26. \A i \in 1..n : InOrder(i)' <=> InOrder(i) \/ i = o
  <2>1. /\ DOMAIN order' = 1..(Len(order) + 1) /\ DOMAIN order = 1..Len(order)
        /\ order'[Len(order) + 1] = o /\ Len(order) \in Nat
        /\ \A p \in 1..Len(order) : order'[p] = order[p]
    BY <1>18
  <2> SUFFICES ASSUME NEW i \in 1..n PROVE InOrder(i)' <=> InOrder(i) \/ i = o
    OBVIOUS
  <2>2. InOrder(i)' => InOrder(i) \/ i = o
    <3> SUFFICES ASSUME NEW p \in 1..(Len(order) + 1), order'[p] = i, i # o PROVE InOrder(i)
      BY <2>1 DEF InOrder
    <3>1. p \in 1..Len(order)
      BY <2>1
    <3> QED
      BY <3>1, <2>1 DEF InOrder
  <2>3. InOrder(i) => InOrder(i)'
    BY <2>1 DEF InOrder
  <2>4. InOrder(o)'
    BY <2>1 DEF InOrder
  <2> QED
    BY <2>2, <2>3, <2>4
<1>27. Placed'
  BY <1>14, <1>23, <1>24, <1>25, <1>26 DEF IInv, Placed
<1>28. OrderOnce'
  <2>1. /\ DOMAIN order' = 1..(Len(order) + 1) /\ DOMAIN order = 1..Len(order)
        /\ order'[Len(order) + 1] = o /\ Len(order) \in Nat
        /\ \A p \in DOMAIN order : order'[p] = order[p] /\ order[p] # o
    BY <1>18, <1>23 DEF InOrder
  <2> SUFFICES ASSUME NEW p \in 1..(Len(order) + 1), NEW q \in 1..(Len(order) + 1),
                      order'[p] = order'[q]
               PROVE  p = q
    BY <2>1 DEF OrderOnce
  <2>2. CASE p = Len(order) + 1 \/ q = Len(order) + 1
    BY <2>1, <2>2
  <2>3. CASE p # Len(order) + 1 /\ q # Len(order) + 1
    BY <2>1, <2>3 DEF IInv, OrderOnce
  <2> QED
    BY <2>2, <2>3
<1>29. BuiltInOrder'
  <2>1. built \subseteq 1..n
    BY DEF IInv, TypeOK
  <2> QED
    BY <2>1, <1>13, <1>26 DEF IInv, BuiltInOrder
<1> QED
  BY <1>19, <1>20, <1>21, <1>22, <1>27, <1>28, <1>29 DEF IInv

-----------------------------------------------------------------------------
LEMMA NextIInv == IInv /\ [Next]_vars => IInv'
<1> SUFFICES ASSUME IInv, [Next]_vars PROVE IInv'
  OBVIOUS
<1>1. CASE Next
  <2>1. ASSUME NEW c \in Calls, Convert(c.ref, c.frm), UNCHANGED <<deps, request>> PROVE IInv'
    <3>1. CASE ConvertFails(c.ref, c.frm)
      BY <3>1, <2>1, FailStep DEF ConvertFails
    <3> QED
      BY <2>1, <3>1, ConvertKnownStep, ConvertAliasStep, ConvertNewStep DEF Convert
  <2> QED
    BY <1>1, <2>1, SkipSystemLibStep, ExpandToolStep, ConvertEndsStep, ToolExpandedStep,
       ToolLeftOutStep, WriteStep DEF Next
<1>2. CASE UNCHANGED vars
  <2>1. /\ UNCHANGED <<targets, objects, stack, order, built, deps, request>>
        /\ phase' = phase /\ tool' = tool
    BY <1>2 DEF vars
  <2> QED
    BY <2>1, MainStep DEF IInv, TypeOK, Written
<1> QED
  BY <1>1, <1>2

THEOREM SafetyIInv == Spec => []IInv
BY InitIInv, NextIInv, PTL DEF Spec

\* The types of the conversion, for any tree and request: no Target is named
\* before it is made, and no conversion runs past its module's dependencies.
THEOREM TypeCorrect == Spec => []TypeOK
<1>1. IInv => TypeOK
  BY DEF IInv
<1> QED
  BY <1>1, SafetyIInv, PTL

\* convert() and _new() make one Target of a module's name, under any aliases
\* and dependency cycles, and the recursion enters no conversion twice.
THEOREM BuiltOnce == Spec => []OneTarget
<1>1. IInv => OneTarget
  <2> SUFFICES ASSUME IInv PROVE OneTarget
    OBVIOUS
  <2>1. \A i, j \in DOMAIN objects : objects[i].mod.name = objects[j].mod.name => i = j
    <3> SUFFICES ASSUME NEW i \in DOMAIN objects, NEW j \in DOMAIN objects,
                        objects[i].mod.name = objects[j].mod.name
                 PROVE  i = j
      OBVIOUS
    <3>1. /\ targets[Plain(objects[i].mod.name)] = i
          /\ targets[Plain(objects[j].mod.name)] = j
      BY DEF IInv, Registered
    <3> QED
      BY <3>1
  <2>2. \A i, j \in DOMAIN stack : stack[i].obj = stack[j].obj /\ stack[i].obj # 0 => i = j
    <3> SUFFICES ASSUME NEW i \in DOMAIN stack, NEW j \in DOMAIN stack,
                        stack[i].obj = stack[j].obj, stack[i].obj # 0
                 PROVE  i = j
      OBVIOUS
    <3>1. stack[i].obj \in Nat /\ i \in Nat /\ j \in Nat
      BY StackTyped
    <3>2. ~(i < j) /\ ~(j < i)
      BY <3>1 DEF IInv, Nested
    <3> QED
      BY <3>1, <3>2
  <2> QED
    BY <2>1, <2>2 DEF OneTarget
<1> QED
  BY <1>1, SafetyIInv, PTL

\* What main() writes is complete: every Target made is in Converter.order
\* exactly once when the file is written, the tools' among them.
THEOREM EverythingEmitted == Spec => []AllEmitted
<1>1. IInv => AllEmitted
  <2> SUFFICES ASSUME IInv, phase = "written"
               PROVE  /\ \A i \in DOMAIN objects : InOrder(i)
                      /\ OrderOnce
                      /\ built \subseteq Range(order)
    BY DEF AllEmitted, InOrder, OrderOnce
  <2>1. \A i \in DOMAIN objects : InOrder(i)
    BY DEF IInv, Written, Placed, OnStack
  <2>2. built \subseteq Range(order)
    BY DEF IInv, BuiltInOrder, InOrder, Range
  <2> QED
    BY <2>1, <2>2 DEF IInv
<1> QED
  BY <1>1, SafetyIInv, PTL
-----------------------------------------------------------------------------
(***************************************************************************)
(* Links.  Where every name means one module, a Target is linked, as far   *)
(* as its dependencies have been walked, to what the loader finds.         *)
(***************************************************************************)

\* m's i-th dependency is one to link.
LinkDep(m, i) ==
  \/ deps[m][i].use \in LinkUses /\ ~OfSystem(deps[m][i])
  \/ deps[m][i].use = "src" /\ Kind[Lookup(deps[m][i].ref, m)] = "object"

\* What m's dependencies before the n-th are to link it to.
Libs(m, n) ==
  {Lookup(deps[m][i].ref, m) : i \in {j \in DOMAIN deps[m] : j < n /\ LinkDep(m, j)}}

\* What Target number o is linked to.
LinkMods(objs, o) == {objs[l[1]].mod : l \in objs[o].links}

KindsKept == \A i \in DOMAIN objects : objects[i].kind = Kind[objects[i].mod]

\* A Target registered under a name is of the module that the name means.
Meant == \A r \in Refs : targets[r] # 0 => objects[targets[r]].mod = Lookup(r, NULL)

\* The conversions of a stack are of the modules that were asked for,
FramesMeant(objs, stk) ==
  \A k \in DOMAIN stk :
    stk[k].obj # 0 =>
      objs[stk[k].obj].mod = stk[k].mod /\ Lookup(stk[k].ref, NULL) = stk[k].mod

\* one is what the dependency its caller waits for asks for,
Asked(stk) ==
  \A k \in DOMAIN stk :
    k < Len(stk) =>
      /\ DepsOf(stk[k])[stk[k].at].ref = stk[k + 1].ref
      /\ ~OfSystem(DepsOf(stk[k])[stk[k].at])
      /\ stk[k + 1].obj = 0 => DepsOf(stk[k])[stk[k].at].use = "tool"

\* and each has linked what it has walked.
LinkedSoFar(objs, stk) ==
  \A k \in DOMAIN stk :
    stk[k].obj # 0 => LinkMods(objs, stk[k].obj) = Libs(stk[k].mod, stk[k].at)

LinkedWhole ==
  \A p \in DOMAIN order :
    LET m == objects[order[p]].mod
    IN  LinkMods(objects, order[p]) = Libs(m, Len(deps[m]) + 1)

OfTree == deps \in Trees

LInv ==
  /\ IInv /\ OfTree /\ KindsKept /\ Meant
  /\ FramesMeant(objects, stack) /\ Asked(stack) /\ LinkedSoFar(objects, stack)
  /\ LinkedWhole

LEMMA LibsKept == ASSUME UNCHANGED deps PROVE \A m, n : Libs(m, n)' = Libs(m, n)
BY DEF Libs, LinkDep

LEMMA SaidMeans ==
  ASSUME OneMeaning, OfTree, NEW r \in Said(deps), NEW f \in Mods \cup {NULL}
  PROVE  /\ Lookup(r, f) = Lookup(r, NULL)
         /\ Lookup(r, f) # NULL => Lookup(Plain(r.name), NULL) = Lookup(r, f)
BY DEF OneMeaning, OfTree

LEMMA DepSaid ==
  ASSUME NEW m \in Mods, NEW i \in DOMAIN deps[m]
  PROVE  deps[m][i].ref \in Said(deps)
BY DEF Said

\* One dependency further there is one module more to link, or none.
LEMMA LibsNext ==
  ASSUME NEW m, NEW n \in DOMAIN deps[m], deps[m] \in Seq(Deps)
  PROVE  Libs(m, n + 1) = IF LinkDep(m, n) THEN Libs(m, n) \cup {Lookup(deps[m][n].ref, m)}
                                           ELSE Libs(m, n)
<1>1. DOMAIN deps[m] \subseteq Nat
  OBVIOUS
<1> DEFINE Before(k) == {j \in DOMAIN deps[m] : j < k /\ LinkDep(m, j)}
<1>2. Before(n + 1) = IF LinkDep(m, n) THEN Before(n) \cup {n} ELSE Before(n)
  BY <1>1
<1> DEFINE Found(S) == {Lookup(deps[m][i].ref, m) : i \in S}
<1>3. Libs(m, n) = Found(Before(n)) /\ Libs(m, n + 1) = Found(Before(n + 1))
  BY DEF Libs
<1>4. \A S : Found(S \cup {n}) = Found(S) \cup {Lookup(deps[m][n].ref, m)}
  OBVIOUS
<1> HIDE DEF Before, Found
<1> QED
  BY <1>2, <1>3, <1>4

\* The caller links the Target it goes on with exactly if its dependency is one to link.
LEMMA LinksAsSaid ==
  ASSUME NEW f \in Frames, NEW t \in TargetRecords, f.obj # 0, f.at \in DOMAIN deps[f.mod],
         ~OfSystem(deps[f.mod][f.at]), Usable(f, deps[f.mod][f.at], t),
         Lookup(deps[f.mod][f.at].ref, f.mod) = t.mod, t.kind = Kind[t.mod]
  PROVE  Links(f, deps[f.mod][f.at], t) <=> LinkDep(f.mod, f.at)
BY DEF Links, LinkDep, Usable, SourceKinds, TakesObject, LinkUses

LEMMA LinkModsSame ==
  ASSUME NEW A, NEW B, NEW i, A[i].links = B[i].links,
         \A l \in B[i].links : A[l[1]].mod = B[l[1]].mod
  PROVE  LinkMods(A, i) = LinkMods(B, i)
<1>1. \A S : (\A l \in S : A[l[1]].mod = B[l[1]].mod)
               => {A[l[1]].mod : l \in S} = {B[l[1]].mod : l \in S}
  OBVIOUS
<1> QED
  BY <1>1 DEF LinkMods

\* Target number i of B has one link more in A.
Grows(A, B, i, q) ==
  /\ A[i].links = B[i].links \cup {q}
  /\ \A l \in B[i].links : A[l[1]].mod = B[l[1]].mod

LEMMA LinkModsGrow ==
  ASSUME NEW A, NEW B, NEW i, NEW q, Grows(A, B, i, q)
  PROVE  LinkMods(A, i) = LinkMods(B, i) \cup {A[q[1]].mod}
<1> DEFINE G(l) == A[l[1]].mod
           Of(S) == {G(l) : l \in S}
<1>1. Of(B[i].links) = {B[l[1]].mod : l \in B[i].links} /\ A[i].links = B[i].links \cup {q}
  BY DEF Grows
<1>2. LinkMods(A, i) = Of(A[i].links) /\ LinkMods(B, i) = {B[l[1]].mod : l \in B[i].links}
  BY DEF LinkMods
<1>3. G(q) = A[q[1]].mod
  OBVIOUS
<1> HIDE DEF G
<1>4. \A S : Of(S \cup {q}) = Of(S) \cup {G(q)}
  OBVIOUS
<1> HIDE DEF Of
<1> QED
  BY <1>1, <1>2, <1>3, <1>4

\* What GoOn does to the links: the caller's dependency is linked if it is one to link.
LEMMA GoOnLinks ==
  ASSUME deps \in [Mods -> Seq(Deps)],
         NEW objs \in Seq(TargetRecords),
         \A i \in DOMAIN objs : \A l \in objs[i].links : l[1] \in DOMAIN objs,
         \A i \in DOMAIN objs : objs[i].kind = Kind[objs[i].mod],
         NEW stk \in Seq(Frames), NEW n \in DOMAIN stk, n = Len(stk),
         stk[n].obj <= Len(objs),
         stk[n].at \in DOMAIN DepsOf(stk[n]),
         ~OfSystem(DepsOf(stk[n])[stk[n].at]),
         NEW o \in DOMAIN objs,
         objs[o].mod = Lookup(DepsOf(stk[n])[stk[n].at].ref, stk[n].mod),
         stk[n].obj # 0 => LinkMods(objs, stk[n].obj) = Libs(stk[n].mod, stk[n].at),
         GoOn(stk, objs, o)
  PROVE  /\ \A i \in DOMAIN objs : objects'[i].mod = objs[i].mod /\ objects'[i].kind = objs[i].kind
         /\ \A i \in DOMAIN objs : i # stk[n].obj => objects'[i].links = objs[i].links
         /\ stk[n].obj # 0 => LinkMods(objects', stk[n].obj) = Libs(stk[n].mod, stack'[n].at)
         /\ \A k \in DOMAIN stk : k # n => stack'[k] = stk[k]
<1> DEFINE f == stk[n]
           d == DepsOf(f)[f.at]
           t == objs[o]
           u == objs[f.obj]
           v == Linked(u, o, d.use)
<1>1. f \in Frames /\ t \in TargetRecords /\ f.mod \in Mods /\ f.at \in Nat /\ f.obj \in Nat
  BY FrameFields
<1>2. stk # <<>> /\ d = deps[f.mod][f.at] /\ f.at \in DOMAIN deps[f.mod] /\ deps[f.mod] \in Seq(Deps)
  BY <1>1 DEF DepsOf
<1>3. CASE Usable(f, d, t)
  <2>1. /\ stack' = [stk EXCEPT ![n] = Used(f, d, t)]
        /\ objects' = IF Links(f, d, t) THEN [objs EXCEPT ![f.obj] = v] ELSE objs
    BY <1>2, <1>3 DEF GoOn
  <2>2. stack'[n].at = f.at + 1
    <3>1. Gives(t) \subseteq Mods /\ Outputs(t) \subseteq Mods
      BY <1>1, TargetFields DEF Gives, Outputs
    <3>2. FilesAfter(f, d, t) \in SUBSET Mods
      BY <1>1, <3>1, FrameFields DEF FilesAfter
    <3>3. Used(f, d, t).at = f.at + 1
      BY <1>1, <3>2, FrameMoved DEF Used
    <3> QED
      BY <2>1, <3>3
  <2>3. \A k \in DOMAIN stk : k # n => stack'[k] = stk[k]
    BY <2>1
  <2>4. CASE f.obj # 0 /\ Links(f, d, t)
    <3>1. f.obj \in DOMAIN objs /\ u \in TargetRecords /\ o \in Nat
      BY <1>1, <2>4
    <3>2. /\ v.mod = u.mod /\ v.links = u.links \cup {<<o, Mode(u.kind, d.use)>>}
          /\ v.kind = u.kind
      BY <3>1, TargetLinked DEF Linked
    <3> HIDE DEF v
    <3>3. \A i \in DOMAIN objs : objects'[i] = IF i = f.obj THEN v ELSE objs[i]
      BY <2>1, <2>4, <3>1
    <3>4. \A i \in DOMAIN objs : objects'[i].mod = objs[i].mod /\ objects'[i].kind = objs[i].kind
      BY <3>2, <3>3
    <3>5. LinkMods(objects', f.obj) = LinkMods(objs, f.obj) \cup {t.mod}
      <4>1. PICK q : objects'[f.obj].links = objs[f.obj].links \cup {q} /\ q[1] = o
        <5>1. <<o, Mode(u.kind, d.use)>>[1] = o
          OBVIOUS
        <5> QED
          BY <3>1, <3>2, <3>3, <5>1
      <4>2. \A l \in objs[f.obj].links : objects'[l[1]].mod = objs[l[1]].mod
        BY <3>1, <3>4
      <4>3. objects'[o].mod = t.mod
        BY <3>4
      <4> HIDE DEF f, d, t, u
      <4>4. Grows(objects', objs, f.obj, q)
        BY <4>1, <4>2 DEF Grows
      <4>5. LinkMods(objects', f.obj) = LinkMods(objs, f.obj) \cup {objects'[q[1]].mod}
        BY <4>4, LinkModsGrow
      <4> QED
        BY <4>1, <4>3, <4>5
    <3>6. LinkDep(f.mod, f.at)
      BY <1>1, <1>2, <1>3, <2>4, LinksAsSaid
    <3>7. Libs(f.mod, f.at + 1) = Libs(f.mod, f.at) \cup {t.mod}
      BY <1>2, <3>6, LibsNext
    <3> QED
      BY <2>2, <2>3, <2>4, <3>3, <3>4, <3>5, <3>7
  <2>5. CASE ~(f.obj # 0 /\ Links(f, d, t))
    <3>1. objects' = objs
      <4>1. f.obj \notin DOMAIN objs \/ ~Links(f, d, t)
        BY <2>5
      <4> HIDE DEF v
      <4> QED
        BY <2>1, <4>1
    <3>2. f.obj # 0 => Libs(f.mod, f.at + 1) = Libs(f.mod, f.at)
      <4>1. f.obj # 0 => ~LinkDep(f.mod, f.at)
        BY <1>1, <1>2, <1>3, <2>5, LinksAsSaid
      <4> QED
        BY <1>2, <4>1, LibsNext
    <3> QED
      BY <2>2, <2>3, <3>1, <3>2
  <2> QED
    BY <2>4, <2>5
<1>4. CASE ~Usable(f, d, t)
  <2>1. stack' = stk /\ objects' = objs
    BY <1>2, <1>4 DEF GoOn
  <2> QED
    BY <2>1
<1> QED
  BY <1>3, <1>4

\* The invariant of the next state, said of its deps, which are the same.
LEMMA SameDeps ==
  ASSUME UNCHANGED deps
  PROVE  /\ FramesMeant(objects, stack)' <=> FramesMeant(objects', stack')
         /\ Asked(stack)' <=> Asked(stack')
         /\ LinkedSoFar(objects, stack)' <=> LinkedSoFar(objects', stack')
<1>1. \A f : DepsOf(f)' = DepsOf(f)
  BY DEF DepsOf
<1>2. \A m, n : Libs(m, n)' = Libs(m, n)
  BY LibsKept
<1>3. FramesMeant(objects, stack)' <=> FramesMeant(objects', stack')
  BY DEF FramesMeant
<1>4. Asked(stack)' <=> Asked(stack')
  BY DEF Asked, DepsOf, OfSystem
<1>5. LinkedSoFar(objects, stack)' <=> LinkedSoFar(objects', stack')
  BY <1>2 DEF LinkedSoFar, LinkMods
<1> QED
  BY <1>3, <1>4, <1>5

LEMMA WholeNext ==
  ASSUME UNCHANGED deps
  PROVE  LinkedWhole' <=>
           \A p \in DOMAIN order' :
             LinkMods(objects', order'[p])
               = Libs(objects'[order'[p]].mod, Len(deps[objects'[order'[p]].mod]) + 1)
<1>1. \A m : Libs(m, Len(deps[m]) + 1)' = Libs(m, Len(deps[m]) + 1)
  BY LibsKept
<1>2. LinkedWhole' <=>
        \A p \in DOMAIN order' :
          \A m : m = objects'[order'[p]].mod =>
                   LinkMods(objects', order'[p]) = Libs(m, Len(deps[m]) + 1)'
  BY DEF LinkedWhole, LinkMods
<1> QED
  BY <1>1, <1>2

\* The conversions on a stack are apart.
LEMMA FramesApart ==
  ASSUME IInv, NEW j \in DOMAIN stack, NEW k \in DOMAIN stack,
         stack[j].obj = stack[k].obj, stack[j].obj # 0
  PROVE  j = k
<1>1. j \in Nat /\ k \in Nat /\ stack[j].obj \in Nat
  BY StackTyped
<1>2. ~(j < k) /\ ~(k < j)
  BY <1>1 DEF IInv, Nested
<1> QED
  BY <1>1, <1>2

\* A caller that goes on keeps what is known of the stack, and leaves the
\* links of every Target that is not on it alone.
LEMMA GoOnKeeps ==
  ASSUME deps \in [Mods -> Seq(Deps)],
         NEW objs \in Seq(TargetRecords),
         \A i \in DOMAIN objs : \A l \in objs[i].links : l[1] \in DOMAIN objs,
         \A i \in DOMAIN objs : objs[i].kind = Kind[objs[i].mod],
         NEW stk \in Seq(Frames),
         \A k \in DOMAIN stk : stk[k].obj <= Len(objs),
         \A k \in DOMAIN stk : stk[k].at <= Len(DepsOf(stk[k])),
         \A j, k \in DOMAIN stk : stk[j].obj = stk[k].obj /\ stk[j].obj # 0 => j = k,
         FramesMeant(objs, stk), Asked(stk), LinkedSoFar(objs, stk),
         NEW o \in DOMAIN objs,
         stk # <<>> =>
           /\ ~OfSystem(DepsOf(stk[Len(stk)])[stk[Len(stk)].at])
           /\ objs[o].mod = Lookup(DepsOf(stk[Len(stk)])[stk[Len(stk)].at].ref, stk[Len(stk)].mod),
         GoOn(stk, objs, o)
  PROVE  /\ FramesMeant(objects', stack') /\ Asked(stack') /\ LinkedSoFar(objects', stack')
         /\ DOMAIN objects' = DOMAIN objs
         /\ \A i \in DOMAIN objs : objects'[i].mod = objs[i].mod /\ objects'[i].kind = objs[i].kind
         /\ \A i \in DOMAIN objs :
              (\A k \in DOMAIN stk : stk[k].obj # i) => LinkMods(objects', i) = LinkMods(objs, i)
<1>1. CASE stk = <<>>
  BY <1>1 DEF GoOn, FramesMeant, Asked, LinkedSoFar, LinkMods
<1>2. CASE stk # <<>>
  <2> PICK n \in Nat : n = Len(stk)
    OBVIOUS
  <2>1. n \in DOMAIN stk /\ DOMAIN stk = 1..n /\ stk[n] \in Frames
    BY <1>2
  <2>2. stk[n].at \in DOMAIN DepsOf(stk[n])
    BY <2>1, FrameFields DEF DepsOf
  <2>3. /\ \A i \in DOMAIN objs : objects'[i].mod = objs[i].mod /\ objects'[i].kind = objs[i].kind
        /\ \A i \in DOMAIN objs : i # stk[n].obj => objects'[i].links = objs[i].links
        /\ stk[n].obj # 0 => LinkMods(objects', stk[n].obj) = Libs(stk[n].mod, stack'[n].at)
        /\ \A k \in DOMAIN stk : k # n => stack'[k] = stk[k]
    <3>1. /\ stk[n].obj <= Len(objs) /\ ~OfSystem(DepsOf(stk[n])[stk[n].at])
          /\ objs[o].mod = Lookup(DepsOf(stk[n])[stk[n].at].ref, stk[n].mod)
      BY <1>2, <2>1
    <3>2. stk[n].obj # 0 => LinkMods(objs, stk[n].obj) = Libs(stk[n].mod, stk[n].at)
      BY <2>1 DEF LinkedSoFar
    <3> QED
      BY <2>1, <2>2, <3>1, <3>2, GoOnLinks
  <2>4. /\ Len(objects') = Len(objs) /\ objects' \in Seq(TargetRecords)
        /\ stack' \in Seq(Frames) /\ Len(stack') = n
        /\ \A k \in DOMAIN stk : stack'[k].mod = stk[k].mod /\ stack'[k].obj = stk[k].obj
                                 /\ stack'[k].ref = stk[k].ref
    BY GoOnShape
  <2>5. DOMAIN objects' = DOMAIN objs /\ DOMAIN stack' = 1..n
    BY <2>4
  <2>6. \A k \in 1..n : stk[k].obj # 0 => stk[k].obj \in DOMAIN objs
    <3> SUFFICES ASSUME NEW k \in 1..n, stk[k].obj # 0 PROVE stk[k].obj \in DOMAIN objs
      OBVIOUS
    <3>1. stk[k] \in Frames
      BY <2>1
    <3> QED
      BY <3>1, <2>1, FrameFields
  <2>7. ASSUME NEW i \in DOMAIN objs, i # stk[n].obj PROVE LinkMods(objects', i) = LinkMods(objs, i)
    <3>1. objects'[i].links = objs[i].links
      BY <2>3, <2>7
    <3>2. \A l \in objs[i].links : objects'[l[1]].mod = objs[l[1]].mod
      BY <2>3
    <3> QED
      BY <3>1, <3>2, LinkModsSame
  <2>8. FramesMeant(objects', stack')
    <3> SUFFICES ASSUME NEW k \in 1..n, stack'[k].obj # 0
                 PROVE  /\ objects'[stack'[k].obj].mod = stack'[k].mod
                        /\ Lookup(stack'[k].ref, NULL) = stack'[k].mod
      BY <2>5 DEF FramesMeant
    <3>1. /\ stack'[k].obj = stk[k].obj /\ stack'[k].mod = stk[k].mod
          /\ stack'[k].ref = stk[k].ref /\ stk[k].obj \in DOMAIN objs
      BY <2>1, <2>4, <2>6
    <3>2. objs[stk[k].obj].mod = stk[k].mod /\ Lookup(stk[k].ref, NULL) = stk[k].mod
      BY <2>1, <3>1 DEF FramesMeant
    <3> QED
      BY <3>1, <3>2, <2>3
  <2>9. Asked(stack')
    <3> SUFFICES ASSUME NEW k \in 1..n, k < n
                 PROVE  /\ DepsOf(stack'[k])[stack'[k].at].ref = stack'[k + 1].ref
                        /\ ~OfSystem(DepsOf(stack'[k])[stack'[k].at])
                        /\ stack'[k + 1].obj = 0 => DepsOf(stack'[k])[stack'[k].at].use = "tool"
      BY <2>4, <2>5 DEF Asked
    <3>1. k + 1 \in DOMAIN stk /\ k \in DOMAIN stk /\ k # n
      BY <2>1
    <3>2. stack'[k] = stk[k] /\ stack'[k + 1].ref = stk[k + 1].ref /\ stack'[k + 1].obj = stk[k + 1].obj
      BY <3>1, <2>3, <2>4
    <3> QED
      BY <3>1, <3>2 DEF Asked
  <2>10. LinkedSoFar(objects', stack')
    <3> SUFFICES ASSUME NEW k \in 1..n, stack'[k].obj # 0
                 PROVE  LinkMods(objects', stack'[k].obj) = Libs(stack'[k].mod, stack'[k].at)
      BY <2>5 DEF LinkedSoFar
    <3>1. stack'[k].obj = stk[k].obj /\ stack'[k].mod = stk[k].mod /\ stk[k].obj \in DOMAIN objs
      BY <2>1, <2>4, <2>6
    <3>2. CASE k = n
      BY <3>1, <3>2, <2>3
    <3>3. CASE k # n
      <4>1. stk[k].obj # stk[n].obj /\ stack'[k] = stk[k]
        BY <3>1, <3>3, <2>1, <2>3
      <4> QED
        BY <3>1, <4>1, <2>1, <2>7 DEF LinkedSoFar
    <3> QED
      BY <3>2, <3>3
  <2> QED
    BY <2>1, <2>3, <2>5, <2>7, <2>8, <2>9, <2>10
<1> QED
  BY <1>1, <1>2

\* A step that changes no links, Targets or order, and stays where it is.
LEMMA StayLinked ==
  ASSUME LInv, IInv', UNCHANGED <<deps, targets, objects, stack, order>>
  PROVE  LInv'
<1>1. OfTree' /\ KindsKept' /\ Meant'
  BY DEF LInv, OfTree, KindsKept, Meant
<1>2. FramesMeant(objects', stack') /\ Asked(stack') /\ LinkedSoFar(objects', stack')
  BY DEF LInv
<1>3. LinkedWhole'
  BY WholeNext DEF LInv, LinkedWhole
<1> QED
  BY <1>1, <1>2, <1>3, SameDeps DEF LInv

\* What a call asks for means the same seen from anywhere.
LEMMA CallMeans ==
  ASSUME LInv, OneMeaning, NEW c \in Calls
  PROVE  /\ c.ref \in Refs /\ Lookup(c.ref, c.frm) = Lookup(c.ref, NULL)
         /\ Lookup(c.ref, c.frm) # NULL => Lookup(Plain(c.ref.name), NULL) = Lookup(c.ref, c.frm)
         /\ stack # <<>> =>
              /\ HasDep /\ c.ref = Dep.ref /\ ~OfSystem(Dep) /\ Dep.use # "tool"
              /\ Dep = DepsOf(stack[Len(stack)])[stack[Len(stack)].at]
              /\ Lookup(Dep.ref, stack[Len(stack)].mod) = Lookup(c.ref, NULL)
<1>1. c.ref \in Refs
  BY CallTyped DEF LInv
<1>2. CASE c \in ToolsWanted
  <2>1. /\ stack = <<>> /\ tool <= Len(request.tools)
        /\ c = [ref |-> Plain(request.tools[tool]), frm |-> NULL]
    BY <1>2 DEF ToolsWanted, ToolCalls
  <2>2. request.tools[tool] \in Names
    BY <2>1, RequestTyped DEF LInv, IInv, TypeOK
  <2>3. c.ref \in Said(deps) /\ c.frm = NULL
    BY <2>1, <2>2 DEF Said
  <2> QED
    BY <1>1, <2>1, <2>3, SaidMeans DEF LInv
<1>3. CASE c \in DepCalls
  <2>1. HasDep /\ c = [ref |-> Dep.ref, frm |-> Top.mod] /\ ~OfSystem(Dep) /\ Dep.use # "tool"
    BY <1>3 DEF DepCalls
  <2>2. /\ Len(stack) \in DOMAIN stack /\ Top = stack[Len(stack)] /\ Top.mod \in Mods
        /\ Top.at \in DOMAIN deps[Top.mod] /\ Dep = deps[Top.mod][Top.at]
    <3>1. stack # <<>> /\ stack[Len(stack)].at <= Len(DepsOf(stack[Len(stack)]))
      BY <2>1 DEF HasDep, Walking, Top
    <3>2. Len(stack) \in DOMAIN stack
      BY <3>1, StackTyped DEF LInv
    <3> QED
      BY <3>1, <3>2, StackTyped DEF LInv, Top, Dep, DepsOf
  <2>3. c.ref \in Said(deps) /\ c.frm \in Mods
    BY <2>1, <2>2, DepSaid
  <2> QED
    BY <1>1, <2>1, <2>2, <2>3, SaidMeans DEF LInv, Dep, Top
<1> QED
  BY <1>2, <1>3 DEF Calls

\* A known or aliased Target is used.
LEMMA UseLinks ==
  ASSUME LInv, IInv', OneMeaning, NEW c \in Calls, NEW o \in DOMAIN objects,
         objects[o].mod = Lookup(c.ref, NULL),
         targets' \in [Refs -> 0..Len(objects)],
         \A r \in Refs : targets'[r] # 0 => objects[targets'[r]].mod = Lookup(r, NULL),
         GoOn(stack, objects, o),
         UNCHANGED <<order, deps, request>>
  PROVE  LInv'
<1>1. /\ deps \in [Mods -> Seq(Deps)] /\ objects \in Seq(TargetRecords)
      /\ \A i \in DOMAIN objects : \A l \in objects[i].links : l[1] \in DOMAIN objects
      /\ \A i \in DOMAIN objects : objects[i].kind = Kind[objects[i].mod]
      /\ stack \in Seq(Frames)
      /\ \A k \in DOMAIN stack : stack[k].obj <= Len(objects)
      /\ \A k \in DOMAIN stack : stack[k].at <= Len(DepsOf(stack[k]))
    BY CallTyped DEF LInv, IInv, TypeOK, KindsKept
<1>2. \A j, k \in DOMAIN stack : stack[j].obj = stack[k].obj /\ stack[j].obj # 0 => j = k
  BY FramesApart DEF LInv
<1>3. stack # <<>> =>
        /\ ~OfSystem(DepsOf(stack[Len(stack)])[stack[Len(stack)].at])
        /\ objects[o].mod = Lookup(DepsOf(stack[Len(stack)])[stack[Len(stack)].at].ref, stack[Len(stack)].mod)
  BY CallMeans
<1>4. /\ FramesMeant(objects', stack') /\ Asked(stack') /\ LinkedSoFar(objects', stack')
      /\ DOMAIN objects' = DOMAIN objects
      /\ \A i \in DOMAIN objects : objects'[i].mod = objects[i].mod /\ objects'[i].kind = objects[i].kind
      /\ \A i \in DOMAIN objects :
           (\A k \in DOMAIN stack : stack[k].obj # i) => LinkMods(objects', i) = LinkMods(objects, i)
  BY <1>1, <1>2, <1>3, GoOnKeeps DEF LInv
<1>5. OfTree' /\ KindsKept'
  BY <1>4 DEF LInv, OfTree, KindsKept
<1>6. Meant'
  <2>1. \A r \in Refs : targets'[r] # 0 => targets'[r] \in DOMAIN objects
    BY <1>1
  <2> QED
    BY <2>1, <1>4 DEF Meant
<1>7. LinkedWhole'
  <2> SUFFICES ASSUME NEW p \in DOMAIN order
               PROVE  LinkMods(objects', order[p])
                        = Libs(objects'[order[p]].mod, Len(deps[objects'[order[p]].mod]) + 1)
    BY WholeNext
  <2>1. order[p] \in DOMAIN objects /\ \A k \in DOMAIN stack : stack[k].obj # order[p]
    <3>1. order[p] \in DOMAIN objects /\ InOrder(order[p])
      BY DEF LInv, IInv, TypeOK, InOrder
    <3> QED
      BY <3>1 DEF LInv, IInv, Placed, OnStack
  <2> QED
    BY <2>1, <1>4 DEF LInv, LinkedWhole
<1> QED
  BY <1>4, <1>5, <1>6, <1>7, SameDeps DEF LInv

LEMMA ConvertKnownLinks ==
  ASSUME LInv, IInv', OneMeaning, NEW c \in Calls, ConvertKnown(c.ref, c.frm), UNCHANGED <<deps, request>>
  PROVE  LInv'
<1>1. /\ targets[c.ref] # 0 /\ GoOn(stack, objects, targets[c.ref])
      /\ UNCHANGED <<targets, order>>
  BY DEF ConvertKnown
<1>2. /\ c.ref \in Refs /\ targets \in [Refs -> 0..Len(objects)] /\ objects \in Seq(TargetRecords)
  BY CallMeans DEF LInv, IInv, TypeOK
<1>3. targets[c.ref] \in DOMAIN objects
  BY <1>1, <1>2
<1>4. \A r \in Refs : targets[r] # 0 => objects[targets[r]].mod = Lookup(r, NULL)
  BY DEF LInv, Meant
<1> QED
  BY <1>1, <1>2, <1>3, <1>4, UseLinks

LEMMA ConvertAliasLinks ==
  ASSUME LInv, IInv', OneMeaning, NEW c \in Calls, ConvertAlias(c.ref, c.frm), UNCHANGED <<deps, request>>
  PROVE  LInv'
<1> PICK m : m = Lookup(c.ref, c.frm)
  OBVIOUS
<1> PICK o : o = targets[Plain(m.name)]
  OBVIOUS
<1>1. /\ m # NULL /\ o # 0
      /\ targets' = [targets EXCEPT ![c.ref] = o]
      /\ GoOn(stack, objects, o) /\ UNCHANGED order
  BY DEF ConvertAlias
<1>2. /\ c.ref \in Refs /\ targets \in [Refs -> 0..Len(objects)] /\ objects \in Seq(TargetRecords)
      /\ m \in Mods /\ m.name = c.ref.name /\ Plain(m.name) \in Refs
  BY <1>1, CallMeans, LookupName, PlainRef DEF LInv, IInv, TypeOK
<1>3. o \in DOMAIN objects
  BY <1>1, <1>2
<1>4. objects[o].mod = Lookup(c.ref, NULL)
  <2>1. objects[o].mod = Lookup(Plain(m.name), NULL)
    BY <1>1, <1>2 DEF LInv, Meant
  <2> QED
    BY <1>1, <1>2, <2>1, CallMeans
<1>5. targets' \in [Refs -> 0..Len(objects)]
  BY <1>1, <1>2, <1>3
<1>6. \A r \in Refs : targets'[r] # 0 => objects[targets'[r]].mod = Lookup(r, NULL)
  BY <1>1, <1>2, <1>4 DEF LInv, Meant
<1> QED
  BY <1>1, <1>3, <1>4, <1>5, <1>6, UseLinks

\* A conversion, of a module or of a tool's sources, is put on the stack.
LEMMA PushKeeps ==
  ASSUME LInv, NEW g \in Frames, g.at = 1, stack' = Append(stack, g),
         DOMAIN objects \subseteq DOMAIN objects',
         \A i \in DOMAIN objects : objects'[i] = objects[i],
         g.obj # 0 => /\ objects'[g.obj].mod = g.mod /\ Lookup(g.ref, NULL) = g.mod
                      /\ objects'[g.obj].links = {},
         stack # <<>> =>
           /\ DepsOf(stack[Len(stack)])[stack[Len(stack)].at].ref = g.ref
           /\ ~OfSystem(DepsOf(stack[Len(stack)])[stack[Len(stack)].at])
           /\ g.obj = 0 => DepsOf(stack[Len(stack)])[stack[Len(stack)].at].use = "tool"
  PROVE  FramesMeant(objects', stack') /\ Asked(stack') /\ LinkedSoFar(objects', stack')
<1> PICK s \in Nat : s = Len(stack)
  BY StackTyped DEF LInv
<1>1. /\ DOMAIN stack = 1..s /\ DOMAIN stack' = 1..(s + 1) /\ Len(stack') = s + 1
      /\ stack'[s + 1] = g /\ \A k \in 1..s : stack'[k] = stack[k]
  BY StackTyped DEF LInv
<1>2. \A k \in 1..s : stack[k].obj # 0 => stack[k].obj \in DOMAIN objects
  <2> SUFFICES ASSUME NEW k \in 1..s, stack[k].obj # 0 PROVE stack[k].obj \in DOMAIN objects
    OBVIOUS
  <2>1. stack[k].obj \in Nat /\ stack[k].obj <= Len(objects) /\ objects \in Seq(TargetRecords)
    BY <1>1, StackTyped DEF LInv, IInv, TypeOK
  <2> QED
    BY <2>1
<1>3. FramesMeant(objects', stack')
  BY <1>1, <1>2 DEF LInv, FramesMeant
<1>4. Asked(stack')
  <2> SUFFICES ASSUME NEW k \in 1..(s + 1), k < s + 1
               PROVE  /\ DepsOf(stack'[k])[stack'[k].at].ref = stack'[k + 1].ref
                      /\ ~OfSystem(DepsOf(stack'[k])[stack'[k].at])
                      /\ stack'[k + 1].obj = 0 => DepsOf(stack'[k])[stack'[k].at].use = "tool"
    BY <1>1 DEF Asked
  <2>1. CASE k = s
    <3>1. stack # <<>> /\ stack'[k] = stack[s] /\ stack'[k + 1] = g
      BY <2>1, <1>1
    <3> QED
      BY <3>1
  <2>2. CASE k # s
    <3>1. k \in 1..s /\ k + 1 \in 1..s
      BY <2>2
    <3>2. stack'[k] = stack[k] /\ stack'[k + 1] = stack[k + 1]
      BY <3>1, <1>1
    <3> QED
      BY <2>2, <3>1, <3>2, <1>1 DEF LInv, Asked
  <2> QED
    BY <2>1, <2>2
<1>5. LinkedSoFar(objects', stack')
  <2> SUFFICES ASSUME NEW k \in 1..(s + 1), stack'[k].obj # 0
               PROVE  LinkMods(objects', stack'[k].obj) = Libs(stack'[k].mod, stack'[k].at)
    BY <1>1 DEF LinkedSoFar
  <2>1. CASE k = s + 1
    <3>1. g.mod \in Mods /\ deps[g.mod] \in Seq(Deps)
      BY FrameFields DEF LInv, IInv, TypeOK
    <3>2. Libs(g.mod, 1) = {}
      BY <3>1 DEF Libs
    <3>3. LinkMods(objects', g.obj) = {}
      BY <2>1, <1>1 DEF LinkMods
    <3> QED
      BY <2>1, <3>2, <3>3, <1>1
  <2>2. CASE k # s + 1
    <3>1. k \in 1..s /\ stack'[k] = stack[k] /\ stack[k].obj \in DOMAIN objects
      BY <2>2, <1>1, <1>2
    <3>2. LinkMods(objects', stack[k].obj) = LinkMods(objects, stack[k].obj)
      <4>1. \A l \in objects[stack[k].obj].links : l[1] \in DOMAIN objects
        BY <3>1 DEF LInv, IInv, TypeOK
      <4> QED
        BY <3>1, <4>1 DEF LinkMods
    <3> QED
      BY <3>1, <3>2, <1>1 DEF LInv, LinkedSoFar
  <2> QED
    BY <2>1, <2>2
<1> QED
  BY <1>3, <1>4, <1>5

LEMMA ConvertNewLinks ==
  ASSUME LInv, IInv', OneMeaning, NEW c \in Calls, ConvertNew(c.ref, c.frm), UNCHANGED <<deps, request>>
  PROVE  LInv'
<1> PICK n \in Nat : n = Len(objects)
  BY StackTyped DEF LInv
<1> PICK m : m = Lookup(c.ref, c.frm)
  OBVIOUS
<1> PICK o \in Nat : o = n + 1
  OBVIOUS
<1>1. /\ m # NULL
      /\ objects' = Append(objects, Target(m))
      /\ targets' = [targets EXCEPT ![Plain(m.name)] = o]
      /\ stack' = Append(stack, Frame(m, o, c.ref))
      /\ UNCHANGED <<order, deps, request>>
  BY DEF ConvertNew
<1>2. /\ m \in Mods /\ m.name = c.ref.name /\ c.ref \in Refs /\ Plain(m.name) \in Refs
      /\ Lookup(c.ref, NULL) = m /\ Lookup(Plain(m.name), NULL) = m
  BY <1>1, CallMeans, LookupName, PlainRef
<1>3. Target(m).mod = m /\ Target(m).kind = Kind[m] /\ Target(m).links = {}
  BY DEF Target
<1>4. /\ objects \in Seq(TargetRecords) /\ targets \in [Refs -> 0..n]
      /\ DOMAIN objects = 1..n /\ DOMAIN objects' = 1..o
      /\ objects'[o] = Target(m) /\ \A i \in 1..n : objects'[i] = objects[i]
  BY <1>1 DEF LInv, IInv, TypeOK
<1> PICK g \in Frames : g = Frame(m, o, c.ref) /\ g.obj = o /\ g.ref = c.ref /\ g.mod = m /\ g.at = 1
  BY <1>2, FrameStarts
<1>5. FramesMeant(objects', stack') /\ Asked(stack') /\ LinkedSoFar(objects', stack')
  <2>1. stack # <<>> =>
          /\ DepsOf(stack[Len(stack)])[stack[Len(stack)].at].ref = g.ref
          /\ ~OfSystem(DepsOf(stack[Len(stack)])[stack[Len(stack)].at])
          /\ g.obj # 0
    BY CallMeans
  <2>2. DOMAIN objects \subseteq DOMAIN objects'
    BY <1>4
  <2> QED
    BY <1>1, <1>2, <1>3, <1>4, <2>1, <2>2, PushKeeps
<1>6. OfTree' /\ KindsKept' /\ Meant'
  <2>1. OfTree' /\ KindsKept'
    BY <1>1, <1>3, <1>4 DEF LInv, OfTree, KindsKept
  <2>2. Meant'
    <3> SUFFICES ASSUME NEW r \in Refs, targets'[r] # 0
                 PROVE  objects'[targets'[r]].mod = Lookup(r, NULL)
      BY DEF Meant
    <3>1. CASE r = Plain(m.name)
      BY <3>1, <1>1, <1>2, <1>3, <1>4
    <3>2. CASE r # Plain(m.name)
      <4>1. targets'[r] = targets[r] /\ targets[r] \in 1..n
        BY <3>2, <1>1, <1>4
      <4> QED
        BY <4>1, <1>4 DEF LInv, Meant
    <3> QED
      BY <3>1, <3>2
  <2> QED
    BY <2>1, <2>2
<1>7. LinkedWhole'
  <2> SUFFICES ASSUME NEW p \in DOMAIN order
               PROVE  LinkMods(objects', order[p])
                        = Libs(objects'[order[p]].mod, Len(deps[objects'[order[p]].mod]) + 1)
    BY <1>1, WholeNext
  <2>1. order[p] \in 1..n /\ \A l \in objects[order[p]].links : l[1] \in 1..n
    BY <1>4 DEF LInv, IInv, TypeOK
  <2>2. objects'[order[p]] = objects[order[p]] /\ LinkMods(objects', order[p]) = LinkMods(objects, order[p])
    BY <2>1, <1>4 DEF LinkMods
  <2> QED
    BY <2>2 DEF LInv, LinkedWhole
<1> QED
  BY <1>1, <1>5, <1>6, <1>7, SameDeps DEF LInv

LEMMA ExpandToolLinks ==
  ASSUME LInv, IInv', ExpandTool, UNCHANGED <<deps, request>>
  PROVE  LInv'
<1> PICK m : m = Lookup(Dep.ref, Top.mod)
  OBVIOUS
<1>1. HasDep /\ Dep.use = "tool"
  BY DEF ExpandTool
<1>2. Dep \in Deps /\ Dep = DepsOf(stack[Len(stack)])[stack[Len(stack)].at]
  BY <1>1, AllWait DEF LInv, Dep, Top
<1>3. CASE m # NULL /\ Kind[m] = "tool"
  <2>1. /\ stack' = Append(stack, Frame(m, 0, Dep.ref))
        /\ UNCHANGED <<phase, tool, targets, objects, order, built>>
    BY <1>3 DEF ExpandTool
  <2>2. Dep.ref \in Refs
    BY <1>2 DEF Deps
  <2>3. m \in Mods
    BY <1>3, <2>2, LookupName
  <2> PICK g \in Frames : g = Frame(m, 0, Dep.ref) /\ g.obj = 0 /\ g.ref = Dep.ref /\ g.at = 1
    BY <2>2, <2>3, FrameStarts
  <2>4. ~OfSystem(Dep)
    BY <1>1 DEF OfSystem, LinkUses
  <2>5. FramesMeant(objects', stack') /\ Asked(stack') /\ LinkedSoFar(objects', stack')
    <3>1. /\ stack' = Append(stack, g) /\ g.obj = 0 /\ g.at = 1
          /\ DOMAIN objects \subseteq DOMAIN objects'
          /\ \A i \in DOMAIN objects : objects'[i] = objects[i]
      BY <2>1
    <3>2. /\ DepsOf(stack[Len(stack)])[stack[Len(stack)].at].ref = g.ref
          /\ ~OfSystem(DepsOf(stack[Len(stack)])[stack[Len(stack)].at])
          /\ DepsOf(stack[Len(stack)])[stack[Len(stack)].at].use = "tool"
      BY <1>1, <1>2, <2>4
    <3> QED
      BY <3>1, <3>2, PushKeeps
  <2>6. OfTree' /\ KindsKept' /\ Meant'
    BY <2>1 DEF LInv, OfTree, KindsKept, Meant
  <2>7. LinkedWhole'
    BY <2>1, WholeNext DEF LInv, LinkedWhole
  <2> QED
    BY <2>5, <2>6, <2>7, SameDeps DEF LInv
<1>4. CASE ~(m # NULL /\ Kind[m] = "tool")
  <2>1. Fail
    BY <1>4 DEF ExpandTool
  <2> QED
    BY <2>1, StayLinked DEF Fail
<1> QED
  BY <1>3, <1>4

\* A frame moves on over a dependency that is not one to link.
LEMMA MoveKeeps ==
  ASSUME LInv, IInv', NEW s \in Nat, s <= Len(stack),
         Len(stack') = s,
         s # 0 => /\ stack[s].at \in DOMAIN DepsOf(stack[s]) /\ ~LinkDep(stack[s].mod, stack[s].at)
                  /\ stack'[s].mod = stack[s].mod /\ stack'[s].obj = stack[s].obj
                  /\ stack'[s].ref = stack[s].ref /\ stack'[s].at = stack[s].at + 1,
         \A k \in 1..s : k # s => stack'[k] = stack[k],
         UNCHANGED <<targets, objects, order, deps, request>>
  PROVE  LInv'
<1>1. DOMAIN stack' = 1..s /\ 1..s \subseteq DOMAIN stack /\ Len(stack) \in Nat
  <2>1. Len(stack) \in Nat /\ DOMAIN stack = 1..Len(stack) /\ stack' \in Seq(Frames)
    BY StackTyped DEF LInv, IInv, TypeOK
  <2> QED
    BY <2>1
<1>2. FramesMeant(objects', stack')
  BY <1>1 DEF LInv, FramesMeant
<1>3. Asked(stack')
  <2> SUFFICES ASSUME NEW k \in 1..s, k < s
               PROVE  /\ DepsOf(stack'[k])[stack'[k].at].ref = stack'[k + 1].ref
                      /\ ~OfSystem(DepsOf(stack'[k])[stack'[k].at])
                      /\ stack'[k + 1].obj = 0 => DepsOf(stack'[k])[stack'[k].at].use = "tool"
    BY <1>1 DEF Asked
  <2>1. k \in DOMAIN stack /\ k < Len(stack) /\ stack'[k] = stack[k] /\ k + 1 \in 1..s
    BY <1>1
  <2>2. stack'[k + 1].ref = stack[k + 1].ref /\ stack'[k + 1].obj = stack[k + 1].obj
    BY <2>1
  <2> QED
    BY <2>1, <2>2 DEF LInv, Asked
<1>4. LinkedSoFar(objects', stack')
  <2> SUFFICES ASSUME NEW k \in 1..s, stack'[k].obj # 0
               PROVE  LinkMods(objects, stack'[k].obj) = Libs(stack'[k].mod, stack'[k].at)
    BY <1>1 DEF LinkedSoFar
  <2>1. CASE k = s
    <3>1. deps[stack[s].mod] \in Seq(Deps) /\ stack[s].at \in DOMAIN deps[stack[s].mod] /\ s # 0
      BY <2>1, <1>1, StackTyped DEF LInv, DepsOf
    <3>2. Libs(stack[s].mod, stack[s].at + 1) = Libs(stack[s].mod, stack[s].at)
      BY <3>1, LibsNext
    <3> QED
      BY <2>1, <3>1, <3>2, <1>1 DEF LInv, LinkedSoFar
  <2>2. CASE k # s
    BY <2>2, <1>1 DEF LInv, LinkedSoFar
  <2> QED
    BY <2>1, <2>2
<1>5. OfTree' /\ KindsKept' /\ Meant'
  BY DEF LInv, OfTree, KindsKept, Meant
<1>6. LinkedWhole'
  BY WholeNext DEF LInv, LinkedWhole
<1> QED
  BY <1>2, <1>3, <1>4, <1>5, <1>6, SameDeps DEF LInv

LEMMA SkipSystemLibLinks ==
  ASSUME LInv, IInv', SkipSystemLib, UNCHANGED <<deps, request>>
  PROVE  LInv'
<1> PICK s \in Nat : s = Len(stack)
  BY StackTyped DEF LInv
<1>1. /\ HasDep /\ OfSystem(Dep)
      /\ stack' = [stack EXCEPT ![s] = Moved(@, @.files)]
      /\ UNCHANGED <<targets, objects, order>>
  BY DEF SkipSystemLib
<1>2. /\ stack # <<>> /\ stack \in Seq(Frames) /\ stack[s].at <= Len(DepsOf(stack[s]))
      /\ Dep = DepsOf(stack[s])[stack[s].at]
  BY <1>1, StackTyped DEF LInv, HasDep, Walking, Top, Dep
<1>3. s \in DOMAIN stack /\ DOMAIN stack = 1..s /\ stack[s] \in Frames
  BY <1>2
<1>4. stack[s].at \in DOMAIN DepsOf(stack[s]) /\ stack[s].files \in SUBSET Mods
  BY <1>2, <1>3, StackTyped, FrameFields DEF LInv
<1>5. ~LinkDep(stack[s].mod, stack[s].at)
  BY <1>1, <1>2 DEF LinkDep, OfSystem, DepsOf, LinkUses
<1> PICK g : g = Moved(stack[s], stack[s].files)
  OBVIOUS
<1>6. g.mod = stack[s].mod /\ g.obj = stack[s].obj /\ g.ref = stack[s].ref /\ g.at = stack[s].at + 1
  BY <1>3, <1>4, FrameMoved
<1>7. stack' = [stack EXCEPT ![s] = g]
  BY <1>1, <1>3
<1>8. Len(stack') = s /\ stack'[s] = g /\ \A k \in 1..s : k # s => stack'[k] = stack[k]
  BY <1>2, <1>3, <1>7
<1> QED
  BY <1>1, <1>3, <1>4, <1>5, <1>6, <1>8, MoveKeeps

LEMMA ToolExpandedLinks ==
  ASSUME LInv, IInv', ToolExpanded, UNCHANGED <<deps, request>>
  PROVE  LInv'
<1>1. stack # <<>> /\ stack[Len(stack)].obj = 0
  BY DEF ToolExpanded, Finished, Walking, Top
<1>2. Len(stack) \in Nat /\ Len(stack) # 0 /\ stack \in Seq(Frames)
  BY <1>1, StackTyped DEF LInv
<1> PICK s \in Nat : s = Len(stack) - 1
  BY <1>2
<1>3. Len(stack) = s + 1 /\ DOMAIN stack = 1..(s + 1)
  BY <1>2
<1>4. Below \in Seq(Frames) /\ Len(Below) = s /\ DOMAIN Below = 1..s /\ \A k \in 1..s : Below[k] = stack[k]
  BY <1>2, <1>3 DEF Below
<1> PICK F : F = stack[s].files \cup stack[s + 1].files
  OBVIOUS
<1> PICK g : g = Moved(stack[s], F)
  OBVIOUS
<1>5. /\ stack' = [Below EXCEPT ![s] = Moved(@, @.files \cup stack[s + 1].files)]
      /\ UNCHANGED <<targets, objects, order>>
  BY <1>3 DEF ToolExpanded, Top
<1>6. stack' = [Below EXCEPT ![s] = g]
  <2>1. CASE s \in DOMAIN Below
    BY <2>1, <1>4, <1>5
  <2>2. CASE s \notin DOMAIN Below
    BY <2>2, <1>4, <1>5
  <2> QED
    BY <2>1, <2>2
<1>7. Len(stack') = s /\ \A k \in 1..s : k # s => stack'[k] = stack[k]
  <2>1. stack' \in Seq(Frames) /\ DOMAIN stack' = 1..s
    BY <1>4, <1>6 DEF IInv, TypeOK
  <2>2. \A k \in 1..s : k # s => stack'[k] = stack[k]
    BY <1>4, <1>6
  <2> QED
    BY <2>1, <2>2
<1>8. ASSUME s # 0
      PROVE  /\ stack[s].at \in DOMAIN DepsOf(stack[s]) /\ ~LinkDep(stack[s].mod, stack[s].at)
             /\ stack'[s].mod = stack[s].mod /\ stack'[s].obj = stack[s].obj
             /\ stack'[s].ref = stack[s].ref /\ stack'[s].at = stack[s].at + 1
  <2>1. s \in DOMAIN stack /\ s < Len(stack) /\ stack[s] \in Frames /\ stack[s + 1] \in Frames
    BY <1>2, <1>3, <1>8
  <2>2. stack[s].at \in DOMAIN DepsOf(stack[s])
    <3>1. stack[s].at <= Len(DepsOf(stack[s]))
      BY <2>1 DEF LInv, IInv, Waiting
    <3> QED
      BY <2>1, <3>1, StackTyped DEF LInv
  <2>3. DepsOf(stack[s])[stack[s].at].use = "tool"
    BY <1>1, <1>3, <2>1 DEF LInv, Asked
  <2>4. ~LinkDep(stack[s].mod, stack[s].at)
    BY <2>3 DEF LinkDep, DepsOf, LinkUses
  <2>5. F \in SUBSET Mods
    BY <2>1, FrameFields
  <2>6. g.mod = stack[s].mod /\ g.obj = stack[s].obj /\ g.ref = stack[s].ref /\ g.at = stack[s].at + 1
    BY <2>1, <2>5, FrameMoved
  <2>7. s \in DOMAIN Below
    BY <1>4, <1>8
  <2>8. stack'[s] = g
    BY <1>6, <2>7
  <2> QED
    BY <2>2, <2>4, <2>6, <2>8
<1>9. s <= Len(stack) /\ UNCHANGED <<targets, objects, order, deps, request>>
  BY <1>3, <1>5
<1> QED
  BY <1>7, <1>8, <1>9, MoveKeeps

\* A conversion ends: its Target is linked to all it depends on, and its caller goes on.
LEMMA ConvertEndsLinks ==
  ASSUME LInv, IInv', OneMeaning, ConvertEnds, UNCHANGED <<deps, request>>
  PROVE  LInv'
<1>1. /\ stack # <<>> /\ Top.obj # 0 /\ Top.at > Len(DepsOf(Top))
      /\ targets' = [targets EXCEPT ![Top.ref] = Top.obj]
      /\ order' = IF Top.obj \in Range(order) THEN order ELSE Append(order, Top.obj)
      /\ GoOn(Below, Fill(objects, Top), Top.obj)
  BY DEF ConvertEnds, Finished, Walking
<1>2. /\ Len(stack) \in Nat \ {0} /\ stack \in Seq(Frames)
      /\ objects \in Seq(TargetRecords) /\ deps \in [Mods -> Seq(Deps)]
  BY <1>1, StackTyped DEF LInv, IInv, TypeOK
<1> PICK s \in Nat, n \in Nat : Len(stack) = s + 1 /\ Len(objects) = n
  <2>1. Len(stack) - 1 \in Nat /\ Len(objects) \in Nat
    BY <1>2
  <2> QED
    BY <2>1, <1>2
<1>3. DOMAIN stack = 1..(s + 1) /\ DOMAIN objects = 1..n /\ Top = stack[s + 1]
  BY <1>2 DEF Top
<1> PICK f \in Frames : f = Top
  BY <1>2, <1>3
<1> PICK o \in 1..n : o = f.obj
  <2>1. Top.obj \in Nat /\ Top.obj <= n
    BY <1>3, StackTyped DEF LInv
  <2> QED
    BY <2>1, <1>1
<1>4. /\ f.ref \in Refs /\ f.files \in SUBSET Mods /\ f.mod \in Mods
      /\ objects[o].mod = f.mod /\ Lookup(f.ref, NULL) = f.mod
  <2>1. f.ref \in Refs /\ f.files \in SUBSET Mods /\ f.mod \in Mods
    BY FrameFields
  <2>2. s + 1 \in DOMAIN stack /\ stack[s + 1].obj # 0
    BY <1>1, <1>3
  <2>3. objects[stack[s + 1].obj].mod = stack[s + 1].mod /\ Lookup(stack[s + 1].ref, NULL) = stack[s + 1].mod
    BY <2>2 DEF LInv, FramesMeant
  <2> QED
    BY <2>1, <2>3, <1>3
<1>5. /\ Below \in Seq(Frames) /\ Len(Below) = s /\ DOMAIN Below = 1..s
      /\ \A k \in 1..s : Below[k] = stack[k]
  BY <1>2 DEF Below
<1> DEFINE u == [objects[o] EXCEPT !.files = f.files]
<1>6. u \in TargetRecords /\ u.mod = objects[o].mod /\ u.kind = objects[o].kind /\ u.links = objects[o].links
  <2>1. objects[o] \in TargetRecords
    BY <1>2, <1>3
  <2> QED
    BY <2>1, <1>4 DEF TargetRecords
<1>7. PICK objs \in Seq(TargetRecords) : objs = Fill(objects, Top) /\ objs = [objects EXCEPT ![o] = u]
  <2>1. Fill(objects, Top) = [objects EXCEPT ![o] = u]
    BY DEF Fill
  <2> HIDE DEF u
  <2>2. [objects EXCEPT ![o] = u] \in Seq(TargetRecords)
    BY <1>2, <1>3, <1>6
  <2> QED
    BY <2>1, <2>2
<1>8. /\ Len(objs) = n /\ DOMAIN objs = 1..n
      /\ \A i \in 1..n : /\ objs[i].mod = objects[i].mod /\ objs[i].kind = objects[i].kind
                         /\ objs[i].links = objects[i].links
  <2> HIDE DEF u
  <2> QED
    BY <1>2, <1>3, <1>6, <1>7
<1> HIDE DEF u
<1>9. \A i \in 1..n : \A l \in objs[i].links : l[1] \in 1..n
  BY <1>3, <1>8 DEF LInv, IInv, TypeOK
<1>10. \A i \in 1..n : LinkMods(objs, i) = LinkMods(objects, i)
  BY <1>8, <1>9 DEF LinkMods
<1>11. \A k \in 1..s : /\ k \in DOMAIN stack /\ k < Len(stack)
                       /\ stack[k].obj # 0 => stack[k].obj \in 1..n
  <2> SUFFICES ASSUME NEW k \in 1..s
               PROVE  k \in DOMAIN stack /\ k < Len(stack) /\ (stack[k].obj # 0 => stack[k].obj \in 1..n)
    OBVIOUS
  <2>1. k \in DOMAIN stack /\ k < Len(stack)
    BY <1>3
  <2>2. stack[k].obj \in Nat /\ stack[k].obj <= n
    BY <2>1, StackTyped DEF LInv
  <2> QED
    BY <2>1, <2>2
<1>12. /\ \A k \in DOMAIN Below : Below[k].obj <= Len(objs)
       /\ \A k \in DOMAIN Below : Below[k].at <= Len(DepsOf(Below[k]))
  <2> SUFFICES ASSUME NEW k \in 1..s PROVE stack[k].obj <= n /\ stack[k].at <= Len(DepsOf(stack[k]))
    BY <1>5, <1>8
  <2>1. stack[k].obj <= n
    BY <1>11, StackTyped DEF LInv
  <2>2. stack[k].at <= Len(DepsOf(stack[k]))
    BY <1>11 DEF LInv, IInv, Waiting
  <2> QED
    BY <2>1, <2>2
<1>13. \A j, k \in DOMAIN Below : Below[j].obj = Below[k].obj /\ Below[j].obj # 0 => j = k
  BY <1>5, <1>11, FramesApart DEF LInv
<1>14. FramesMeant(objs, Below) /\ Asked(Below) /\ LinkedSoFar(objs, Below)
  <2>1. FramesMeant(objs, Below)
    BY <1>5, <1>8, <1>11 DEF LInv, FramesMeant
  <2>2. Asked(Below)
    <3> SUFFICES ASSUME NEW k \in 1..s, k < s
                 PROVE  /\ DepsOf(stack[k])[stack[k].at].ref = stack[k + 1].ref
                        /\ ~OfSystem(DepsOf(stack[k])[stack[k].at])
                        /\ stack[k + 1].obj = 0 => DepsOf(stack[k])[stack[k].at].use = "tool"
      BY <1>5 DEF Asked
    <3> QED
      BY <1>11 DEF LInv, Asked
  <2>3. LinkedSoFar(objs, Below)
    BY <1>5, <1>10, <1>11 DEF LInv, LinkedSoFar
  <2> QED
    BY <2>1, <2>2, <2>3
<1>15. Below # <<>> =>
         /\ ~OfSystem(DepsOf(Below[Len(Below)])[Below[Len(Below)].at])
         /\ objs[o].mod = Lookup(DepsOf(Below[Len(Below)])[Below[Len(Below)].at].ref, Below[Len(Below)].mod)
  <2> SUFFICES ASSUME Below # <<>>
               PROVE  /\ ~OfSystem(DepsOf(stack[s])[stack[s].at])
                      /\ f.mod = Lookup(DepsOf(stack[s])[stack[s].at].ref, stack[s].mod)
    <3>1. Below # <<>> => Below[Len(Below)] = stack[s]
      BY <1>5
    <3>2. objs[o].mod = f.mod
      BY <1>4, <1>8
    <3> QED
      BY <3>1, <3>2
  <2>1. s \in 1..s
    BY <1>5
  <2>2. s \in DOMAIN stack /\ s < Len(stack) /\ stack[s].mod \in Mods
    BY <2>1, <1>11, StackTyped DEF LInv
  <2>3. DepsOf(stack[s])[stack[s].at].ref = f.ref /\ ~OfSystem(DepsOf(stack[s])[stack[s].at])
    BY <2>2, <1>3 DEF LInv, Asked
  <2>4. stack[s].at \in DOMAIN deps[stack[s].mod]
    <3>1. stack[s].at <= Len(DepsOf(stack[s]))
      BY <2>2 DEF LInv, IInv, Waiting
    <3> QED
      BY <2>2, <3>1, StackTyped DEF LInv, DepsOf
  <2>5. f.ref \in Said(deps)
    BY <2>2, <2>3, <2>4, DepSaid DEF DepsOf
  <2>6. Lookup(f.ref, stack[s].mod) = Lookup(f.ref, NULL)
    BY <2>2, <2>5, SaidMeans DEF LInv
  <2> QED
    BY <2>3, <2>6, <1>4
<1>16. \A i \in DOMAIN objs : objs[i].kind = Kind[objs[i].mod]
  BY <1>3, <1>8 DEF LInv, KindsKept
<1>17. /\ FramesMeant(objects', stack') /\ Asked(stack') /\ LinkedSoFar(objects', stack')
       /\ DOMAIN objects' = 1..n
       /\ \A i \in 1..n : objects'[i].mod = objects[i].mod /\ objects'[i].kind = objects[i].kind
       /\ \A i \in 1..n : (\A k \in 1..s : stack[k].obj # i) => LinkMods(objects', i) = LinkMods(objects, i)
  <2>1. GoOn(Below, objs, o)
    BY <1>1, <1>7
  <2>2. /\ FramesMeant(objects', stack') /\ Asked(stack') /\ LinkedSoFar(objects', stack')
        /\ DOMAIN objects' = DOMAIN objs
        /\ \A i \in DOMAIN objs : objects'[i].mod = objs[i].mod /\ objects'[i].kind = objs[i].kind
        /\ \A i \in DOMAIN objs :
             (\A k \in DOMAIN Below : Below[k].obj # i) => LinkMods(objects', i) = LinkMods(objs, i)
    BY <1>2, <1>5, <1>8, <1>9, <1>12, <1>13, <1>14, <1>15, <1>16, <2>1, GoOnKeeps
  <2> QED
    BY <2>2, <1>5, <1>8, <1>10
<1>18. OfTree' /\ KindsKept'
  BY <1>3, <1>17 DEF LInv, OfTree, KindsKept
<1>19. Meant'
  <2> SUFFICES ASSUME NEW r \in Refs, targets'[r] # 0
               PROVE  objects'[targets'[r]].mod = Lookup(r, NULL)
    BY DEF Meant
  <2>1. targets \in [Refs -> 0..n]
    BY DEF LInv, IInv, TypeOK
  <2>2. CASE r = f.ref
    BY <2>1, <2>2, <1>1, <1>4, <1>17
  <2>3. CASE r # f.ref
    <3>1. targets'[r] = targets[r] /\ targets[r] \in 1..n
      BY <2>1, <2>3, <1>1
    <3> QED
      BY <3>1, <1>17 DEF LInv, Meant
  <2> QED
    BY <2>2, <2>3
<1>20. \A k \in 1..s : stack[k].obj # o
  BY <1>3, <1>11, FramesApart DEF LInv
<1>21. LinkMods(objects', o) = Libs(f.mod, Len(deps[f.mod]) + 1)
  <2>1. LinkMods(objects, o) = Libs(f.mod, f.at)
    BY <1>1, <1>3 DEF LInv, LinkedSoFar
  <2>2. f.at = Len(deps[f.mod]) + 1
    <3>1. f.at <= Len(deps[f.mod]) + 1 /\ f.at > Len(deps[f.mod])
      <4>1. s + 1 \in DOMAIN stack /\ TypeOK
        BY <1>3 DEF LInv, IInv
      <4>2. stack[s + 1].at <= Len(DepsOf(stack[s + 1])) + 1
        BY <4>1 DEF TypeOK
      <4> QED
        BY <4>2, <1>1, <1>3 DEF DepsOf
    <3>2. f.at \in Nat /\ Len(deps[f.mod]) \in Nat
      BY <1>2, <1>4, FrameFields
    <3> QED
      BY <3>1, <3>2
  <2> QED
    BY <2>1, <2>2, <1>17, <1>20
<1>22. LinkedWhole'
  <2>1. \A p \in DOMAIN order' : order'[p] = o \/ (p \in DOMAIN order /\ order'[p] = order[p])
    <3>1. order \in Seq(1..n)
      BY <1>3 DEF LInv, IInv, TypeOK
    <3>2. CASE order' = order
      BY <3>2
    <3>3. CASE order' = Append(order, o)
      <4>1. /\ DOMAIN order' = 1..(Len(order) + 1) /\ DOMAIN order = 1..Len(order)
            /\ Len(order) \in Nat /\ order'[Len(order) + 1] = o
            /\ \A p \in 1..Len(order) : order'[p] = order[p]
        BY <3>1, <3>3
      <4>2. \A p \in DOMAIN order' : p = Len(order) + 1 \/ p \in 1..Len(order)
        BY <4>1
      <4> QED
        BY <4>1, <4>2
    <3> QED
      BY <1>1, <3>2, <3>3
  <2> SUFFICES ASSUME NEW p \in DOMAIN order'
               PROVE  LinkMods(objects', order'[p])
                        = Libs(objects'[order'[p]].mod, Len(deps[objects'[order'[p]].mod]) + 1)
    BY WholeNext
  <2>2. CASE order'[p] = o
    BY <2>2, <1>4, <1>17, <1>21
  <2>3. CASE p \in DOMAIN order /\ order'[p] = order[p]
    <3>1. order[p] \in 1..n /\ InOrder(order[p])
      <4>1. order \in Seq(1..n)
        BY <1>3 DEF LInv, IInv, TypeOK
      <4>2. order[p] \in 1..n
        BY <2>3, <4>1
      <4> QED
        BY <2>3, <4>2 DEF InOrder
    <3>2. \A k \in 1..s : stack[k].obj # order[p]
      BY <3>1, <1>3, <1>11 DEF LInv, IInv, Placed, OnStack
    <3> QED
      BY <2>3, <3>1, <3>2, <1>17 DEF LInv, LinkedWhole
  <2> QED
    BY <2>1, <2>2, <2>3
<1> QED
  BY <1>17, <1>18, <1>19, <1>22, SameDeps DEF LInv

LEMMA InitLInv == Init => LInv
<1> SUFFICES ASSUME Init PROVE LInv
  OBVIOUS
<1>1. IInv
  BY InitIInv
<1>2. OfTree /\ KindsKept /\ Meant /\ LinkedWhole
  BY DEF Init, OfTree, KindsKept, Meant, LinkedWhole
<1>3. FramesMeant(objects, stack) /\ Asked(stack) /\ LinkedSoFar(objects, stack)
  BY DEF Init, FramesMeant, Asked, LinkedSoFar
<1> QED
  BY <1>1, <1>2, <1>3 DEF LInv

LEMMA NextLInv == OneMeaning /\ LInv /\ [Next]_vars => LInv'
<1> SUFFICES ASSUME OneMeaning, LInv, [Next]_vars PROVE LInv'
  OBVIOUS
<1>1. IInv'
  BY NextIInv DEF LInv
<1>2. CASE Next
  <2>1. ASSUME NEW c \in Calls, Convert(c.ref, c.frm), UNCHANGED <<deps, request>> PROVE LInv'
    <3>1. CASE ConvertFails(c.ref, c.frm)
      BY <3>1, <2>1, <1>1, StayLinked DEF ConvertFails, Fail
    <3> QED
      BY <2>1, <3>1, <1>1, ConvertKnownLinks, ConvertAliasLinks, ConvertNewLinks DEF Convert
  <2>2. CASE ToolLeftOut /\ UNCHANGED <<deps, request>>
    BY <2>2, <1>1, StayLinked DEF ToolLeftOut, Fail
  <2>3. CASE Write /\ UNCHANGED <<deps, request>>
    BY <2>3, <1>1, StayLinked DEF Write
  <2> QED
    BY <1>1, <1>2, <2>1, <2>2, <2>3, SkipSystemLibLinks, ExpandToolLinks, ConvertEndsLinks,
       ToolExpandedLinks DEF Next
<1>3. CASE UNCHANGED vars
  BY <1>1, <1>3, StayLinked DEF vars
<1> QED
  BY <1>2, <1>3

\* Where every name means one module, a finished Target is linked to what
\* Loader.lookup finds as seen from its own module, in dependency cycles and
\* under aliases too, and to nothing else (add() in convert.py).
THEOREM LinksAsFound == ASSUME OneMeaning PROVE Spec => []LinksFound
<1>1. LInv => LinksFound
  <2> SUFFICES ASSUME LInv, NEW p \in DOMAIN order, NEW m, m = objects[order[p]].mod
               PROVE  LinkMods(objects, order[p]) =
                        {Lookup(deps[m][i].ref, m) : i \in
                           {j \in IndexesOf(m, LinkUses) :
                              deps[m][j].ref.path # NULL \/ deps[m][j].ref.name \notin SystemLibs}
                           \cup {j \in IndexesOf(m, {"src"}) : Kind[Lookup(deps[m][j].ref, m)] = "object"}}
    BY DEF LinksFound, LinkMods
  <2>1. LinkMods(objects, order[p]) = Libs(m, Len(deps[m]) + 1)
    BY DEF LInv, LinkedWhole
  <2>2. deps[m] \in Seq(Deps)
    BY ModsOfObjects DEF LInv, IInv, TypeOK
  <2>3. \A j \in DOMAIN deps[m] : j < Len(deps[m]) + 1
    BY <2>2
  <2>4. \A j \in DOMAIN deps[m] :
          LinkDep(m, j) <=> \/ j \in IndexesOf(m, LinkUses)
                               /\ (deps[m][j].ref.path # NULL \/ deps[m][j].ref.name \notin SystemLibs)
                            \/ j \in IndexesOf(m, {"src"})
                               /\ Kind[Lookup(deps[m][j].ref, m)] = "object"
    BY DEF LinkDep, OfSystem, IndexesOf
  <2>5. {j \in DOMAIN deps[m] : j < Len(deps[m]) + 1 /\ LinkDep(m, j)} =
          {j \in IndexesOf(m, LinkUses) :
             deps[m][j].ref.path # NULL \/ deps[m][j].ref.name \notin SystemLibs}
          \cup {j \in IndexesOf(m, {"src"}) : Kind[Lookup(deps[m][j].ref, m)] = "object"}
    BY <2>3, <2>4 DEF IndexesOf
  <2> QED
    BY <2>1, <2>5 DEF Libs
<1> QED
  BY <1>1, InitLInv, NextLInv, PTL DEF Spec

-----------------------------------------------------------------------------
(***************************************************************************)
(* Copies.  Where source references have no cycle, what a Target has       *)
(* copied from is complete: a filegroup or genrule that is found while it  *)
(* is still being filled will never be, because a conversion in between    *)
(* is of a module that may not stand where it is referred to.              *)
(***************************************************************************)

\* What the Target of module x gives to a source reference, and to
\* generated_sources.
GivesOf(objs, x) == UNION {Gives(objs[o]) : o \in {i \in DOMAIN objs : objs[i].mod = x}}
OutputsOf(objs, x) == UNION {Outputs(objs[o]) : o \in {i \in DOMAIN objs : objs[i].mod = x}}

UseAt(m, i) == deps[m][i].use
Before(m, n, use) == {i \in DOMAIN deps[m] : i < n /\ UseAt(m, i) = use}
Found(m, i) == Lookup(deps[m][i].ref, m)

GivenBy(objs, m, I) == UNION {GivesOf(objs, Found(m, i)) : i \in I}
Given(objs, m, n, use) == GivenBy(objs, m, Before(m, n, use))
Generated(objs, m, n) == UNION {OutputsOf(objs, Found(m, i)) : i \in Before(m, n, "gensrc")}

\* A host tool's files are its own and those of its srcs.
ToolFiles(objs, x) == {x} \cup GivenBy(objs, x, IndexesOf(x, {"src"}))
OfTools(objs, m, n) == UNION {ToolFiles(objs, Found(m, i)) : i \in Before(m, n, "tool")}

\* The files m is to have after its dependencies before the n-th.
Files(objs, m, n) ==
  (({m} \cup Given(objs, m, n, "src")) \ Given(objs, m, n, "exclude"))
    \cup Given(objs, m, n, "toolfile") \cup OfTools(objs, m, n) \cup Generated(objs, m, n)

Copies(k) == Kind[stack[k].mod] \in Copying

\* The k-th conversion waits for one that it may not use.
Doomed(k) == k \in DOMAIN stack /\ k + 1 \in DOMAIN stack /\ Copies(k) /\ ~Copies(k + 1)

\* Target number o will never be filled: the builder fails before.
Lost(o) == \E k, d \in DOMAIN stack : stack[k].obj = o /\ k <= d /\ Doomed(d)

\* Target number o gives what it always will.
Settled(o) == Kind[objects[o].mod] \notin SourceKinds \/ InOrder(o) \/ Lost(o)
SettledMods == {objects[o].mod : o \in {i \in DOMAIN objects : Settled(i)}}

\* The modules that m's dependencies before the n-th have copied from.
CopyUses == {"src", "exclude", "toolfile", "gensrc"}
SourcesOf(m) == {Found(m, i) : i \in IndexesOf(m, {"src"})}
CopiedFrom(m, n) ==
  {Found(m, i) : i \in {j \in DOMAIN deps[m] : j < n /\ UseAt(m, j) \in CopyUses}}
    \cup UNION {SourcesOf(Found(m, i)) : i \in Before(m, n, "tool")}

\* One rank for each tree.
RankOf(tree) == CHOOSE rank \in [Mods -> Nat] : FallsAlong(rank, tree)

\* On the stack the ranks fall, up to a conversion that is doomed.
RanksFall ==
  \A j, k \in DOMAIN stack :
    j < k /\ Copies(j) =>
      \/ Copies(k) /\ RankOf(deps)[stack[k].mod] < RankOf(deps)[stack[j].mod]
      \/ \E d \in DOMAIN stack : j <= d /\ d < k /\ Doomed(d)

\* A conversion without a Target is a host tool's, which its caller's
\* dependency names as a tool; any other is not.
ToolsAsked(stk) ==
  \A k \in DOMAIN stk :
    /\ stk[k].obj = 0 =>
         Kind[stk[k].mod] = "tool" /\ Lookup(stk[k].ref, NULL) = stk[k].mod /\ k # 1
    /\ k < Len(stk) /\ stk[k + 1].obj # 0 => DepsOf(stk[k])[stk[k].at].use # "tool"

\* Files are set when the conversion ends.
FilledAtEnd(objs, stk) == \A k \in DOMAIN stk : stk[k].obj # 0 => objs[stk[k].obj].files = {}

FilesSoFar(objs, stk) == \A k \in DOMAIN stk : stk[k].files = Files(objs, stk[k].mod, stk[k].at)

FilesWhole ==
  \A p \in DOMAIN order :
    LET m == objects[order[p]].mod
    IN  objects[order[p]].files = Files(objects, m, Len(deps[m]) + 1)

FramesSettled == \A k \in DOMAIN stack : CopiedFrom(stack[k].mod, stack[k].at) \subseteq SettledMods
OrderSettled ==
  \A p \in DOMAIN order :
    LET m == objects[order[p]].mod
    IN  CopiedFrom(m, Len(deps[m]) + 1) \subseteq SettledMods

\* What is about the way on, which a failure ends.
Copyable == RanksFall /\ FramesSettled /\ OrderSettled

CInv ==
  /\ LInv /\ ToolsAsked(stack)
  /\ FilledAtEnd(objects, stack) /\ FilesSoFar(objects, stack) /\ FilesWhole
  /\ phase # "failed" => Copyable

Sources == OneMeaning /\ WalkedInOrder /\ NoSourceCycle

-----------------------------------------------------------------------------
\* The tree's rank falls along every reference among sources and tools.
LEMMA RankFalls ==
  ASSUME NoSourceCycle, OfTree, NEW m \in Mods, NEW i \in DOMAIN deps[m],
         Kind[m] \in Copying, Found(m, i) # NULL, Kind[Found(m, i)] \in Copying
  PROVE  RankOf(deps)[Found(m, i)] < RankOf(deps)[m]
<1>1. \E rank \in [Mods -> Nat] : FallsAlong(rank, deps)
  BY DEF NoSourceCycle, OfTree
<1>2. FallsAlong(RankOf(deps), deps)
  BY <1>1 DEF RankOf
<1> QED
  BY <1>2 DEF FallsAlong, Found

LEMMA RankTyped ==
  ASSUME NoSourceCycle, OfTree
  PROVE  \A m \in Mods : RankOf(deps)[m] \in Nat
<1>1. \E rank \in [Mods -> Nat] : FallsAlong(rank, deps)
  BY DEF NoSourceCycle, OfTree
<1>2. RankOf(deps) \in [Mods -> Nat]
  BY <1>1 DEF RankOf
<1> QED
  BY <1>2

\* What the dependencies say does not change.
LEMMA DepsKept ==
  ASSUME UNCHANGED deps
  PROVE  /\ RankOf(deps)' = RankOf(deps)
         /\ \A m, n : CopiedFrom(m, n)' = CopiedFrom(m, n)
         /\ \A objs, m, n : Files(objs, m, n)' = Files(objs, m, n)
<1>1. RankOf(deps)' = RankOf(deps)
  BY DEF RankOf, FallsAlong
<1>2. \A m, i : Found(m, i)' = Found(m, i)
  BY DEF Found
<1>3. \A m, n, use : Before(m, n, use)' = Before(m, n, use)
  BY DEF Before, UseAt
<1>4. \A m, uses : IndexesOf(m, uses)' = IndexesOf(m, uses)
  BY DEF IndexesOf
<1>5. \A m : SourcesOf(m)' = SourcesOf(m)
  BY <1>2, <1>4 DEF SourcesOf
<1>6. \A m, n : CopiedFrom(m, n)' = CopiedFrom(m, n)
  BY <1>2, <1>3, <1>5 DEF CopiedFrom, UseAt
<1>7. \A objs, m, I : GivenBy(objs, m, I)' = GivenBy(objs, m, I)
  BY <1>2 DEF GivenBy, GivesOf
<1>8. \A objs, m, n, use : Given(objs, m, n, use)' = Given(objs, m, n, use)
  BY <1>3, <1>7 DEF Given
<1>9. \A objs, m, n : Generated(objs, m, n)' = Generated(objs, m, n)
  BY <1>2, <1>3 DEF Generated, OutputsOf
<1>10. \A objs, x : ToolFiles(objs, x)' = ToolFiles(objs, x)
  BY <1>4, <1>7 DEF ToolFiles
<1>11. \A objs, m, n : OfTools(objs, m, n)' = OfTools(objs, m, n)
  BY <1>2, <1>3, <1>10 DEF OfTools
<1> QED
  BY <1>1, <1>6, <1>8, <1>9, <1>11 DEF Files

\* A reference that no one sees differently finds the same module.
LEMMA FoundMeans ==
  ASSUME OneMeaning, OfTree, NEW m \in Mods, NEW i \in DOMAIN deps[m]
  PROVE  Found(m, i) = Lookup(deps[m][i].ref, NULL)
BY DepSaid, SaidMeans DEF Found

-----------------------------------------------------------------------------
\* Module x gives the same in A and in B.
SameGiven(A, B, x) == GivesOf(A, x) = GivesOf(B, x) /\ OutputsOf(A, x) = OutputsOf(B, x)

\* A module gives what its one Target gives.
LEMMA GivenOnce ==
  ASSUME NEW objs, NEW o \in DOMAIN objs, \A i \in DOMAIN objs : objs[i].mod = objs[o].mod => i = o
  PROVE  GivesOf(objs, objs[o].mod) = Gives(objs[o]) /\ OutputsOf(objs, objs[o].mod) = Outputs(objs[o])
<1>1. {i \in DOMAIN objs : objs[i].mod = objs[o].mod} = {o}
  OBVIOUS
<1> QED
  BY <1>1 DEF GivesOf, OutputsOf

\* A has the Targets of B, more that have no files yet, and of x nothing else.
LEMMA GivenSame ==
  ASSUME NEW A, NEW B, NEW x, DOMAIN B \subseteq DOMAIN A,
         \A i \in DOMAIN B : A[i].mod = B[i].mod,
         \A i \in DOMAIN B : B[i].mod = x => Gives(A[i]) = Gives(B[i]) /\ Outputs(A[i]) = Outputs(B[i]),
         \A i \in DOMAIN A : i \notin DOMAIN B => Gives(A[i]) = {} /\ Outputs(A[i]) = {}
  PROVE  SameGiven(A, B, x)
<1>1. \A y : y \in GivesOf(A, x) <=> y \in GivesOf(B, x)
  BY DEF GivesOf
<1>2. \A y : y \in OutputsOf(A, x) <=> y \in OutputsOf(B, x)
  BY DEF OutputsOf
<1> QED
  BY <1>1, <1>2 DEF SameGiven, GivesOf, OutputsOf

\* What a Target gives is of its files.
LEMMA GivesFiles ==
  ASSUME NEW t
  PROVE  /\ t.files = {} => Gives(t) = {} /\ Outputs(t) = {}
         /\ t.kind \notin SourceKinds => Gives(t) = {} /\ Outputs(t) = {}
BY DEF Gives, Outputs, SourceKinds

LEMMA GivesKept ==
  ASSUME NEW t, NEW u, t.mod = u.mod, t.kind = u.kind, t.files = u.files
  PROVE  Gives(t) = Gives(u) /\ Outputs(t) = Outputs(u)
BY DEF Gives, Outputs

\* The files of m depend on nothing but what it has copied from.
LEMMA FilesKept ==
  ASSUME NEW A, NEW B, NEW m, NEW n, \A x \in CopiedFrom(m, n) : SameGiven(A, B, x)
  PROVE  Files(A, m, n) = Files(B, m, n)
<1>1. \A i \in DOMAIN deps[m] : i < n /\ UseAt(m, i) \in CopyUses => SameGiven(A, B, Found(m, i))
  BY DEF CopiedFrom
<1>2. ASSUME NEW use \in {"src", "exclude", "toolfile"} PROVE Given(A, m, n, use) = Given(B, m, n, use)
  <2>1. \A i \in Before(m, n, use) : GivesOf(A, Found(m, i)) = GivesOf(B, Found(m, i))
    BY <1>1, <1>2 DEF Before, CopyUses, SameGiven
  <2> QED
    BY <2>1 DEF Given, GivenBy
<1>3. Generated(A, m, n) = Generated(B, m, n)
  <2>1. \A i \in Before(m, n, "gensrc") : OutputsOf(A, Found(m, i)) = OutputsOf(B, Found(m, i))
    BY <1>1 DEF Before, CopyUses, SameGiven
  <2> QED
    BY <2>1 DEF Generated
<1>4. OfTools(A, m, n) = OfTools(B, m, n)
  <2>1. ASSUME NEW i \in Before(m, n, "tool")
        PROVE  ToolFiles(A, Found(m, i)) = ToolFiles(B, Found(m, i))
    <3> DEFINE x == Found(m, i)
    <3>1. SourcesOf(x) \subseteq CopiedFrom(m, n)
      BY <2>1 DEF CopiedFrom
    <3> HIDE DEF x
    <3>2. \A j \in IndexesOf(x, {"src"}) : GivesOf(A, Found(x, j)) = GivesOf(B, Found(x, j))
      BY <3>1 DEF SourcesOf, SameGiven
    <3>3. ToolFiles(A, x) = ToolFiles(B, x)
      BY <3>2 DEF ToolFiles, GivenBy
    <3> QED
      BY <3>3 DEF x
  <2> QED
    BY <2>1 DEF OfTools
<1>5. /\ Given(A, m, n, "src") = Given(B, m, n, "src")
      /\ Given(A, m, n, "exclude") = Given(B, m, n, "exclude")
      /\ Given(A, m, n, "toolfile") = Given(B, m, n, "toolfile")
  BY <1>2
<1> QED
  BY <1>3, <1>4, <1>5 DEF Files

\* m's n-th dependency is of this use, and given with it.
Adds(m, n, use) == Before(m, n + 1, use) = Before(m, n, use) \cup {n}

LEMMA BeforeNext ==
  ASSUME NEW m, NEW n \in DOMAIN deps[m], deps[m] \in Seq(Deps), NEW use
  PROVE  /\ UseAt(m, n) = use => Adds(m, n, use)
         /\ UseAt(m, n) # use => Before(m, n + 1, use) = Before(m, n, use)
<1>1. DOMAIN deps[m] \subseteq Nat
  OBVIOUS
<1> QED
  BY <1>1 DEF Before, Adds

\* What the next dependency gives,
LEMMA GivenNext ==
  ASSUME NEW m, NEW n, NEW use, Adds(m, n, use), NEW objs
  PROVE  /\ Given(objs, m, n + 1, use) = Given(objs, m, n, use) \cup GivesOf(objs, Found(m, n))
         /\ use = "gensrc" =>
              Generated(objs, m, n + 1) = Generated(objs, m, n) \cup OutputsOf(objs, Found(m, n))
         /\ use = "tool" =>
              OfTools(objs, m, n + 1) = OfTools(objs, m, n) \cup ToolFiles(objs, Found(m, n))
<1>1. Before(m, n + 1, use) = Before(m, n, use) \cup {n}
  BY DEF Adds
<1>2. GivenBy(objs, m, Before(m, n, use) \cup {n}) = GivenBy(objs, m, Before(m, n, use)) \cup GivesOf(objs, Found(m, n))
  BY DEF GivenBy
<1> QED
  BY <1>1, <1>2 DEF Given, Generated, OfTools

\* and what stays.
LEMMA GivenStays ==
  ASSUME NEW m, NEW n, NEW use, Before(m, n + 1, use) = Before(m, n, use), NEW objs
  PROVE  /\ Given(objs, m, n + 1, use) = Given(objs, m, n, use)
         /\ use = "gensrc" => Generated(objs, m, n + 1) = Generated(objs, m, n)
         /\ use = "tool" => OfTools(objs, m, n + 1) = OfTools(objs, m, n)
BY DEF Given, Generated, OfTools

\* What has not been walked yet has given nothing.
LEMMA GivenNone ==
  ASSUME NEW m, NEW n, NEW use, Before(m, n, use) = {}, NEW objs
  PROVE  /\ Given(objs, m, n, use) = {}
         /\ use = "gensrc" => Generated(objs, m, n) = {}
         /\ use = "tool" => OfTools(objs, m, n) = {}
BY DEF Given, GivenBy, Generated, OfTools

\* Files are added and left out in the order the code walks the dependencies.
LEMMA FilesNext ==
  ASSUME WalkedInOrder, OfTree, deps \in [Mods -> Seq(Deps)], NEW m \in Mods, NEW n \in DOMAIN deps[m],
         NEW objs, NEW x, x = Found(m, n), NEW use, use = UseAt(m, n)
  PROVE  /\ use \in {"src", "toolfile"} => Files(objs, m, n + 1) = Files(objs, m, n) \cup GivesOf(objs, x)
         /\ use = "exclude" => Files(objs, m, n + 1) = Files(objs, m, n) \ GivesOf(objs, x)
         /\ use = "gensrc" => Files(objs, m, n + 1) = Files(objs, m, n) \cup OutputsOf(objs, x)
         /\ use = "tool" => Files(objs, m, n + 1) = Files(objs, m, n) \cup ToolFiles(objs, x)
         /\ use \in LinkUses => Files(objs, m, n + 1) = Files(objs, m, n)
<1>1. deps[m] \in Seq(Deps) /\ DOMAIN deps[m] \subseteq Nat /\ n \in Nat
  OBVIOUS
<1>2. \A i \in DOMAIN deps[m] :
        i < n =>
          /\ use = "src" => UseAt(m, i) \notin {"exclude", "toolfile", "tool", "gensrc"}
          /\ use = "exclude" => UseAt(m, i) \notin {"toolfile", "tool", "gensrc"}
  BY DEF WalkedInOrder, OfTree, UseAt
<1>3. use = "src" => Before(m, n, "exclude") = {}
  BY <1>2 DEF Before
<1>4. use = "exclude" =>
        Before(m, n, "toolfile") = {} /\ Before(m, n, "tool") = {} /\ Before(m, n, "gensrc") = {}
  BY <1>2 DEF Before
<1>5. ASSUME NEW v
      PROVE  /\ use = v => Adds(m, n, v)
             /\ use # v => Before(m, n + 1, v) = Before(m, n, v)
  BY <1>1, BeforeNext
<1>6. \A v : use # v => Given(objs, m, n + 1, v) = Given(objs, m, n, v)
  BY <1>5, GivenStays
<1>7. Given(objs, m, n + 1, use) = Given(objs, m, n, use) \cup GivesOf(objs, x)
  <2>1. Adds(m, n, use)
    BY <1>5
  <2> QED
    BY <2>1, GivenNext
<1>8. /\ use # "gensrc" => Generated(objs, m, n + 1) = Generated(objs, m, n)
      /\ use # "tool" => OfTools(objs, m, n + 1) = OfTools(objs, m, n)
  BY <1>5, GivenStays
<1>9. use \in {"src", "toolfile"} => Files(objs, m, n + 1) = Files(objs, m, n) \cup GivesOf(objs, x)
  <2>1. CASE use = "src"
    <3>1. Given(objs, m, n + 1, "src") = Given(objs, m, n, "src") \cup GivesOf(objs, x)
      BY <1>7, <2>1
    <3>2. Given(objs, m, n, "exclude") = {}
      BY <1>3, <2>1, GivenNone
    <3> QED
      BY <2>1, <3>1, <3>2, <1>6, <1>8 DEF Files
  <2>2. CASE use = "toolfile"
    <3>1. Given(objs, m, n + 1, "toolfile") = Given(objs, m, n, "toolfile") \cup GivesOf(objs, x)
      BY <1>7, <2>2
    <3> QED
      BY <2>2, <3>1, <1>6, <1>8 DEF Files
  <2> QED
    BY <2>1, <2>2
<1>10. CASE use = "exclude"
  <2>1. Given(objs, m, n + 1, "exclude") = Given(objs, m, n, "exclude") \cup GivesOf(objs, x)
    BY <1>7, <1>10
  <2>2. Given(objs, m, n, "toolfile") = {} /\ OfTools(objs, m, n) = {} /\ Generated(objs, m, n) = {}
    BY <1>4, <1>10, GivenNone
  <2> QED
    BY <1>10, <2>1, <2>2, <1>6, <1>8 DEF Files, LinkUses
<1>11. CASE use = "gensrc"
  <2>1. Generated(objs, m, n + 1) = Generated(objs, m, n) \cup OutputsOf(objs, x)
    BY <1>5, <1>11, GivenNext
  <2> QED
    BY <1>11, <2>1, <1>6, <1>8 DEF Files, LinkUses
<1>12. CASE use = "tool"
  <2>1. OfTools(objs, m, n + 1) = OfTools(objs, m, n) \cup ToolFiles(objs, x)
    BY <1>5, <1>12, GivenNext
  <2> QED
    BY <1>12, <2>1, <1>6, <1>8 DEF Files, LinkUses
<1>13. use \in LinkUses => Files(objs, m, n + 1) = Files(objs, m, n)
  BY <1>6, <1>8 DEF Files, LinkUses
<1> QED
  BY <1>9, <1>10, <1>11, <1>12, <1>13

\* Before the first dependency a module has its own file only.
LEMMA FilesFirst ==
  ASSUME NEW m, NEW objs, deps[m] \in Seq(Deps)
  PROVE  Files(objs, m, 1) = {m} /\ CopiedFrom(m, 1) = {}
<1>1. \A use : Before(m, 1, use) = {}
  BY DEF Before
<1>2. CopiedFrom(m, 1) = {}
  BY <1>1 DEF CopiedFrom
<1> QED
  BY <1>1, <1>2, GivenNone DEF Files

\* One dependency further m has copied from one module more, or from a tool's.
LEMMA CopiedNext ==
  ASSUME NEW m, NEW n \in DOMAIN deps[m], deps[m] \in Seq(Deps), NEW S, CopiedFrom(m, n) \subseteq S,
         UseAt(m, n) \in CopyUses => Found(m, n) \in S,
         UseAt(m, n) = "tool" => SourcesOf(Found(m, n)) \subseteq S
  PROVE  CopiedFrom(m, n + 1) \subseteq S
<1>1. DOMAIN deps[m] \subseteq Nat
  OBVIOUS
<1>2. \A j \in DOMAIN deps[m] : j < n + 1 => j < n \/ j = n
  BY <1>1
<1>3. ASSUME NEW j \in DOMAIN deps[m], j < n + 1, UseAt(m, j) \in CopyUses PROVE Found(m, j) \in S
  BY <1>2, <1>3 DEF CopiedFrom
<1>4. ASSUME NEW j \in Before(m, n + 1, "tool") PROVE SourcesOf(Found(m, j)) \subseteq S
  <2>1. j \in DOMAIN deps[m] /\ (j < n \/ j = n) /\ UseAt(m, j) = "tool"
    BY <1>2, <1>4 DEF Before
  <2>2. j < n => SourcesOf(Found(m, j)) \subseteq CopiedFrom(m, n)
    BY <2>1 DEF CopiedFrom, Before
  <2> QED
    BY <2>1, <2>2
<1> QED
  BY <1>3, <1>4 DEF CopiedFrom

-----------------------------------------------------------------------------
\* A step that takes no Target back, nor a conversion that makes one doomed.
StackKept ==
  \A k \in DOMAIN stack \cap DOMAIN stack' : stack'[k].mod = stack[k].mod /\ stack'[k].obj = stack[k].obj
DoomsKept == \A d : Doomed(d) => d + 1 \in DOMAIN stack'
TargetsKept ==
  DOMAIN objects \subseteq DOMAIN objects' /\ \A i \in DOMAIN objects : objects'[i].mod = objects[i].mod
Onward == StackKept /\ DoomsKept /\ TargetsKept /\ (\A i : InOrder(i) => InOrder(i)')

LEMMA SettledStays ==
  ASSUME IInv, IInv', Onward
  PROVE  (\A d : Doomed(d) => Doomed(d)') /\ SettledMods \subseteq SettledMods'
<1> PICK s, t \in Nat : s = Len(stack) /\ t = Len(stack')
  BY StackTyped DEF IInv, TypeOK
<1>1. DOMAIN stack = 1..s /\ DOMAIN stack' = 1..t
  BY DEF IInv, TypeOK
<1>2. ASSUME NEW d, Doomed(d) PROVE Doomed(d)' /\ d \in DOMAIN stack'
  <2>1. d \in 1..s /\ d + 1 \in 1..s /\ d + 1 \in 1..t /\ Copies(d) /\ ~Copies(d + 1)
    BY <1>1, <1>2 DEF Doomed, Onward, DoomsKept
  <2>2. d \in 1..t
    BY <2>1
  <2>3. stack'[d].mod = stack[d].mod /\ stack'[d + 1].mod = stack[d + 1].mod
    BY <1>1, <2>1, <2>2 DEF Onward, StackKept
  <2> QED
    BY <1>1, <2>1, <2>2, <2>3 DEF Doomed, Copies
<1>3. ASSUME NEW i \in DOMAIN objects, Lost(i) PROVE Lost(i)'
  <2> PICK k \in 1..s, d \in 1..s : stack[k].obj = i /\ k <= d /\ Doomed(d)
    BY <1>1, <1>3 DEF Lost
  <2>1. Doomed(d)' /\ d \in 1..t
    BY <1>1, <1>2
  <2>2. k \in 1..t
    BY <2>1
  <2>3. stack'[k].obj = i
    BY <1>1, <2>2 DEF Onward, StackKept
  <2> QED
    BY <1>1, <2>1, <2>2, <2>3 DEF Lost
<1>4. ASSUME NEW i \in DOMAIN objects, Settled(i) PROVE i \in DOMAIN objects' /\ Settled(i)'
  BY <1>3, <1>4 DEF Settled, Onward, TargetsKept
<1>5. SettledMods \subseteq SettledMods'
  BY <1>4 DEF SettledMods, Onward, TargetsKept
<1> QED
  BY <1>2, <1>5

LEMMA RanksKept ==
  ASSUME IInv, IInv', Onward, RanksFall, UNCHANGED deps, DOMAIN stack' \subseteq DOMAIN stack
  PROVE  RanksFall'
<1> SUFFICES ASSUME NEW j \in DOMAIN stack', NEW k \in DOMAIN stack', j < k, Copies(j)'
             PROVE  \/ Copies(k)' /\ RankOf(deps)[stack'[k].mod] < RankOf(deps)[stack'[j].mod]
                    \/ \E d \in DOMAIN stack' : j <= d /\ d < k /\ Doomed(d)'
  BY DepsKept DEF RanksFall
<1>1. j \in DOMAIN stack /\ k \in DOMAIN stack /\ stack'[j].mod = stack[j].mod /\ stack'[k].mod = stack[k].mod
  BY DEF Onward, StackKept
<1>2. Copies(j) /\ (Copies(k) => Copies(k)')
  BY <1>1 DEF Copies
<1>3. CASE Copies(k) /\ RankOf(deps)[stack[k].mod] < RankOf(deps)[stack[j].mod]
  BY <1>1, <1>2, <1>3
<1>4. CASE \E d \in DOMAIN stack : j <= d /\ d < k /\ Doomed(d)
  <2> PICK d \in DOMAIN stack : j <= d /\ d < k /\ Doomed(d)
    BY <1>4
  <2>1. Doomed(d)' /\ d \in DOMAIN stack'
    BY SettledStays DEF Doomed
  <2> QED
    BY <2>1
<1> QED
  BY <1>1, <1>2, <1>3, <1>4 DEF RanksFall

\* What a conversion asks for is of a lower rank, or dooms it.
LEMMA RanksPushed ==
  ASSUME LInv, NoSourceCycle, RanksFall, UNCHANGED deps, NEW g \in Frames, stack' = Append(stack, g),
         stack # <<>> =>
           LET f == stack[Len(stack)] IN f.at \in DOMAIN deps[f.mod] /\ Found(f.mod, f.at) = g.mod
  PROVE  RanksFall'
<1> PICK s \in Nat : s = Len(stack)
  BY StackTyped DEF LInv
<1>1. /\ DOMAIN stack = 1..s /\ DOMAIN stack' = 1..(s + 1)
      /\ stack'[s + 1] = g /\ \A k \in 1..s : stack'[k] = stack[k]
  BY StackTyped DEF LInv
<1>2. \A k \in 1..s : stack[k].mod \in Mods
  BY <1>1, StackTyped DEF LInv
<1>3. g.mod \in Mods
  BY FrameFields
<1>4. \A k \in 1..s : Copies(k)' <=> Copies(k)
  BY <1>1 DEF Copies
<1>5. \A d \in 1..s : Doomed(d) => Doomed(d)'
  BY <1>1, <1>4 DEF Doomed
<1>6. \A m \in Mods : RankOf(deps)[m] \in Nat
  BY RankTyped DEF LInv
<1>7. s # 0 => \/ ~Copies(s)
               \/ Doomed(s)'
               \/ Copies(s + 1)' /\ RankOf(deps)[g.mod] < RankOf(deps)[stack[s].mod]
  <2> SUFFICES ASSUME s # 0, Copies(s), ~Doomed(s)'
               PROVE  Copies(s + 1)' /\ RankOf(deps)[g.mod] < RankOf(deps)[stack[s].mod]
    OBVIOUS
  <2>1. s \in 1..s /\ s + 1 \in 1..(s + 1) /\ stack # <<>>
    BY <1>1
  <2>2. Copies(s + 1)'
    BY <1>1, <1>4, <2>1 DEF Doomed
  <2>3. Kind[g.mod] \in Copying /\ Kind[stack[s].mod] \in Copying
    BY <1>1, <2>2 DEF Copies
  <2>4. g.mod # NULL
    BY <1>3, ConstantsAssumption
  <2>5. RankOf(deps)[Found(stack[s].mod, stack[s].at)] < RankOf(deps)[stack[s].mod]
    BY <1>2, <2>1, <2>3, <2>4, RankFalls DEF LInv
  <2> QED
    BY <2>1, <2>2, <2>5
<1> SUFFICES ASSUME NEW j \in 1..(s + 1), NEW k \in 1..(s + 1), j < k, Copies(j)'
             PROVE  \/ Copies(k)' /\ RankOf(deps)[stack'[k].mod] < RankOf(deps)[stack'[j].mod]
                    \/ \E d \in 1..(s + 1) : j <= d /\ d < k /\ Doomed(d)'
  BY <1>1, DepsKept DEF RanksFall
<1>8. j \in 1..s /\ Copies(j) /\ stack'[j] = stack[j]
  BY <1>1, <1>4
<1>9. CASE k \in 1..s
  BY <1>1, <1>4, <1>5, <1>8, <1>9 DEF RanksFall
<1>10. CASE k = s + 1 /\ j = s
  <2>1. s # 0 /\ s \in 1..(s + 1) /\ stack'[k] = g
    BY <1>1, <1>8, <1>10
  <2> QED
    BY <1>7, <1>8, <1>10, <2>1
<1>11. CASE k = s + 1 /\ j # s
  <2>1. s \in 1..s /\ j < s /\ stack'[k] = g
    BY <1>1, <1>8, <1>11
  <2>2. CASE \E d \in 1..s : j <= d /\ d < s /\ Doomed(d)
    BY <1>5, <1>11, <2>2
  <2>3. CASE Copies(s) /\ RankOf(deps)[stack[s].mod] < RankOf(deps)[stack[j].mod]
    <3>1. CASE Doomed(s)'
      BY <3>1, <2>1, <1>11
    <3>2. CASE ~Doomed(s)'
      <4>1. Copies(s + 1)' /\ RankOf(deps)[g.mod] < RankOf(deps)[stack[s].mod]
        BY <1>7, <2>1, <2>3, <3>2
      <4>2. /\ RankOf(deps)[g.mod] \in Nat /\ RankOf(deps)[stack[s].mod] \in Nat
            /\ RankOf(deps)[stack[j].mod] \in Nat
        BY <1>2, <1>3, <1>6, <1>8, <2>1
      <4> QED
        BY <4>1, <4>2, <2>1, <2>3, <1>8, <1>11
    <3> QED
      BY <3>1, <3>2
  <2> QED
    BY <1>1, <1>8, <2>1, <2>2, <2>3 DEF RanksFall
<1> QED
  BY <1>9, <1>10, <1>11

\* The modules a frame or a finished Target has copied from stay settled.
LEMMA CopyableKept ==
  ASSUME IInv, IInv', Onward, Copyable, UNCHANGED deps, RanksFall',
         \A k \in DOMAIN stack' :
           \/ k \in DOMAIN stack /\ stack'[k].at = stack[k].at
           \/ CopiedFrom(stack'[k].mod, stack'[k].at) \subseteq SettledMods',
         \A p \in DOMAIN order' :
           \/ p \in DOMAIN order /\ order'[p] = order[p]
           \/ \A m : m = objects'[order'[p]].mod =>
                CopiedFrom(m, Len(deps[m]) + 1) \subseteq SettledMods'
  PROVE  Copyable'
<1>1. SettledMods \subseteq SettledMods'
  BY SettledStays
<1>2. FramesSettled'
  <2> SUFFICES ASSUME NEW k \in DOMAIN stack'
               PROVE  CopiedFrom(stack'[k].mod, stack'[k].at) \subseteq SettledMods'
    BY DepsKept DEF FramesSettled
  <2>1. CASE k \in DOMAIN stack /\ stack'[k].at = stack[k].at
    <3>1. stack'[k].mod = stack[k].mod
      BY <2>1 DEF Onward, StackKept
    <3> QED
      BY <1>1, <2>1, <3>1 DEF Copyable, FramesSettled
  <2> QED
    BY <2>1
<1>3. OrderSettled'
  <2>1. \A m : CopiedFrom(m, Len(deps[m]) + 1)' = CopiedFrom(m, Len(deps[m]) + 1)
    BY DepsKept
  <2> SUFFICES ASSUME NEW p \in DOMAIN order', NEW m, m = objects'[order'[p]].mod
               PROVE  CopiedFrom(m, Len(deps[m]) + 1) \subseteq SettledMods'
    BY <2>1 DEF OrderSettled
  <2>2. CASE p \in DOMAIN order /\ order'[p] = order[p]
    <3>1. order[p] \in DOMAIN objects
      BY <2>2 DEF IInv, TypeOK
    <3>2. m = objects[order[p]].mod
      BY <2>2, <3>1 DEF Onward, TargetsKept
    <3> QED
      BY <1>1, <2>2, <3>2 DEF Copyable, OrderSettled
  <2> QED
    BY <2>2
<1> QED
  BY <1>2, <1>3 DEF Copyable

-----------------------------------------------------------------------------
\* Two lists of the same Targets, but for their links.
SameFiles(A, B) ==
  /\ DOMAIN A = DOMAIN B
  /\ \A i \in DOMAIN B : A[i].mod = B[i].mod /\ A[i].kind = B[i].kind /\ A[i].files = B[i].files

LEMMA FilesSame ==
  ASSUME NEW A, NEW B, SameFiles(A, B)
  PROVE  \A m, n : Files(A, m, n) = Files(B, m, n)
<1>1. \A i \in DOMAIN B : Gives(A[i]) = Gives(B[i]) /\ Outputs(A[i]) = Outputs(B[i])
  BY GivesKept DEF SameFiles
<1>2. ASSUME NEW x PROVE SameGiven(A, B, x)
  BY <1>1, GivenSame DEF SameFiles
<1> QED
  BY <1>2, FilesKept

\* A module has one Target.
ModsApart(objs) == \A i, j \in DOMAIN objs : objs[i].mod = objs[j].mod => i = j

\* What a caller does with a Target adds to its files what the Target gives.
LEMMA FilesUsed ==
  ASSUME WalkedInOrder, OfTree, deps \in [Mods -> Seq(Deps)],
         NEW objs, ModsApart(objs), NEW o \in DOMAIN objs,
         NEW f \in Frames, f.at \in DOMAIN deps[f.mod],
         objs[o].mod = Found(f.mod, f.at), UseAt(f.mod, f.at) # "tool",
         f.files = Files(objs, f.mod, f.at)
  PROVE  FilesAfter(f, deps[f.mod][f.at], objs[o]) = Files(objs, f.mod, f.at + 1)
<1> PICK x, d, use : x = Found(f.mod, f.at) /\ d = deps[f.mod][f.at] /\ use = UseAt(f.mod, f.at)
  OBVIOUS
<1>1. f.mod \in Mods /\ deps[f.mod] \in Seq(Deps)
  BY FrameFields
<1>2. d \in Deps /\ d.use = use
  BY <1>1 DEF UseAt
<1>3. use \in Uses
  BY <1>2 DEF Deps
<1>4. GivesOf(objs, x) = Gives(objs[o]) /\ OutputsOf(objs, x) = Outputs(objs[o])
  BY GivenOnce DEF ModsApart
<1>5. /\ use \in {"src", "toolfile"} => Files(objs, f.mod, f.at + 1) = f.files \cup Gives(objs[o])
      /\ use = "exclude" => Files(objs, f.mod, f.at + 1) = f.files \ Gives(objs[o])
      /\ use = "gensrc" => Files(objs, f.mod, f.at + 1) = f.files \cup Outputs(objs[o])
      /\ use \in LinkUses => Files(objs, f.mod, f.at + 1) = f.files
  BY <1>1, <1>4, FilesNext
<1> QED
  BY <1>2, <1>3, <1>5 DEF FilesAfter, Uses, LinkUses

\* A caller that goes on has the files of one dependency more, and fills no Target.
LEMMA GoOnFiles ==
  ASSUME WalkedInOrder, OfTree, deps \in [Mods -> Seq(Deps)],
         NEW objs \in Seq(TargetRecords),
         \A i \in DOMAIN objs : \A l \in objs[i].links : l[1] \in DOMAIN objs,
         ModsApart(objs),
         NEW stk \in Seq(Frames),
         \A k \in DOMAIN stk : stk[k].obj <= Len(objs),
         \A k \in DOMAIN stk : stk[k].at <= Len(DepsOf(stk[k])),
         FilledAtEnd(objs, stk), FilesSoFar(objs, stk),
         NEW o \in DOMAIN objs,
         stk # <<>> =>
           LET f == stk[Len(stk)] IN objs[o].mod = Found(f.mod, f.at) /\ UseAt(f.mod, f.at) # "tool",
         GoOn(stk, objs, o)
  PROVE  /\ SameFiles(objects', objs)
         /\ FilledAtEnd(objects', stack') /\ FilesSoFar(objects', stack')
         /\ \A k \in DOMAIN stk : k # Len(stk) => stack'[k] = stk[k]
         /\ \A k \in DOMAIN stk : stack'[k].at \in {stk[k].at, stk[k].at + 1}
<1> PICK n \in Nat : n = Len(stk) /\ DOMAIN stk = 1..n
  OBVIOUS
<1>1. /\ objects' \in Seq(TargetRecords) /\ Len(objects') = Len(objs)
      /\ stack' \in Seq(Frames) /\ Len(stack') = n
      /\ \A k \in DOMAIN stk : stack'[k].mod = stk[k].mod /\ stack'[k].obj = stk[k].obj
  BY GoOnShape
<1>2. DOMAIN objects' = DOMAIN objs /\ DOMAIN stack' = 1..n
  BY <1>1
<1>3. \A k \in 1..n : stk[k] \in Frames /\ stk[k].obj \in Nat
  BY FrameFields
<1>4. CASE stk = <<>> \/ (stack' = stk /\ objects' = objs)
  <2>1. stack' = stk /\ objects' = objs
    BY <1>4 DEF GoOn
  <2> QED
    BY <2>1 DEF SameFiles
<1>5. CASE stk # <<>> /\ ~(stack' = stk /\ objects' = objs)
  <2> PICK f, d, t : f = stk[n] /\ d = DepsOf(f)[f.at] /\ t = objs[o]
    OBVIOUS
  <2>1. n \in DOMAIN stk /\ f \in Frames /\ t \in TargetRecords /\ f.mod \in Mods /\ f.at \in Nat
    BY <1>3, <1>5, FrameFields
  <2>2. f.at \in DOMAIN deps[f.mod] /\ d = deps[f.mod][f.at] /\ Len(objs) \in Nat
    BY <2>1, FrameFields DEF DepsOf
  <2> PICK g : g = Used(f, d, t)
    OBVIOUS
  <2> PICK v : v = Linked(objs[f.obj], o, d.use)
    OBVIOUS
  <2>3. /\ stack' = [stk EXCEPT ![n] = g]
        /\ objects' = IF Links(f, d, t) THEN [objs EXCEPT ![f.obj] = v] ELSE objs
    BY <1>5 DEF GoOn
  <2>4. FilesAfter(f, d, t) = Files(objs, f.mod, f.at + 1)
    <3>1. objs[o].mod = Found(f.mod, f.at) /\ UseAt(f.mod, f.at) # "tool" /\ f.files = Files(objs, f.mod, f.at)
      BY <1>5, <2>1 DEF FilesSoFar
    <3>2. FilesAfter(f, deps[f.mod][f.at], objs[o]) = Files(objs, f.mod, f.at + 1)
      BY <2>1, <2>2, <3>1, FilesUsed
    <3> QED
      BY <2>2, <3>2
  <2>5. Gives(t) \subseteq Mods /\ Outputs(t) \subseteq Mods
    BY <2>1, TargetFields DEF Gives, Outputs
  <2>6. FilesAfter(f, d, t) \in SUBSET Mods
    BY <2>1, <2>5, FrameFields DEF FilesAfter
  <2>7. g.mod = f.mod /\ g.at = f.at + 1 /\ g.files = FilesAfter(f, d, t)
    <3>1. g.mod = f.mod /\ g.at = f.at + 1
      BY <2>1, <2>6, FrameMoved DEF Used
    <3> QED
      BY <2>1, <3>1 DEF Used, Moved, Frames
  <2>8. SameFiles(objects', objs)
    <3>1. CASE Links(f, d, t) /\ f.obj \in DOMAIN objs
      <4>1. objs[f.obj] \in TargetRecords /\ o \in Nat
        BY <3>1
      <4>2. v.mod = objs[f.obj].mod /\ v.kind = objs[f.obj].kind /\ v.files = objs[f.obj].files
        BY <4>1 DEF Linked, TargetRecords
      <4> QED
        BY <2>3, <3>1, <4>2 DEF SameFiles
    <3>2. CASE ~(Links(f, d, t) /\ f.obj \in DOMAIN objs)
      <4>1. objects' = objs
        BY <2>3, <3>2
      <4> QED
        BY <4>1 DEF SameFiles
    <3> QED
      BY <3>1, <3>2
  <2>9. FilledAtEnd(objects', stack')
    <3> SUFFICES ASSUME NEW k \in 1..n, stack'[k].obj # 0 PROVE objects'[stack'[k].obj].files = {}
      BY <1>2 DEF FilledAtEnd
    <3>1. stack'[k].obj = stk[k].obj /\ stk[k].obj \in Nat /\ stk[k].obj <= Len(objs)
      BY <1>1, <1>3
    <3>2. stk[k].obj \in DOMAIN objs
      BY <3>1, <2>2
    <3> QED
      BY <3>2, <2>8, <3>1 DEF FilledAtEnd, SameFiles
  <2>10. FilesSoFar(objects', stack')
    <3> SUFFICES ASSUME NEW k \in 1..n PROVE stack'[k].files = Files(objs, stack'[k].mod, stack'[k].at)
      BY <1>2, <2>8, FilesSame DEF FilesSoFar
    <3>1. CASE k = n
      BY <2>1, <2>3, <2>4, <2>7, <3>1
    <3>2. CASE k # n
      <4>1. stack'[k] = stk[k]
        BY <2>3, <3>2
      <4> QED
        BY <4>1 DEF FilesSoFar
    <3> QED
      BY <3>1, <3>2
  <2>11. /\ \A k \in 1..n : k # n => stack'[k] = stk[k]
         /\ \A k \in 1..n : stack'[k].at \in {stk[k].at, stk[k].at + 1}
    BY <2>1, <2>3, <2>7
  <2> QED
    BY <2>8, <2>9, <2>10, <2>11
<1> QED
  BY <1>4, <1>5

-----------------------------------------------------------------------------
\* The invariant of the next state, said of the same deps.
LEMMA SameDepsCopied ==
  ASSUME UNCHANGED deps
  PROVE  /\ ToolsAsked(stack)' <=> ToolsAsked(stack')
         /\ FilledAtEnd(objects, stack)' <=> FilledAtEnd(objects', stack')
         /\ FilesSoFar(objects, stack)' <=> FilesSoFar(objects', stack')
<1>1. \A objs, m, n : Files(objs, m, n)' = Files(objs, m, n)
  BY DepsKept
<1>2. ToolsAsked(stack)' <=> ToolsAsked(stack')
  BY DEF ToolsAsked, DepsOf
<1>3. FilledAtEnd(objects, stack)' <=> FilledAtEnd(objects', stack')
  BY DEF FilledAtEnd
<1>4. FilesSoFar(objects, stack)' <=> FilesSoFar(objects', stack')
  BY <1>1 DEF FilesSoFar
<1> QED
  BY <1>2, <1>3, <1>4

LEMMA FilesWholeNext ==
  ASSUME UNCHANGED deps,
         \A p \in DOMAIN order' : \A m : m = objects'[order'[p]].mod =>
           objects'[order'[p]].files = Files(objects', m, Len(deps[m]) + 1)
  PROVE  FilesWhole'
<1>1. \A m : Files(objects, m, Len(deps[m]) + 1)' = Files(objects', m, Len(deps[m]) + 1)
  BY DepsKept
<1> QED
  BY <1>1 DEF FilesWhole

LEMMA ObjectsApart == ASSUME IInv PROVE ModsApart(objects)
<1> SUFFICES ASSUME NEW i \in DOMAIN objects, NEW j \in DOMAIN objects, objects[i].mod = objects[j].mod
             PROVE  i = j
  BY DEF ModsApart
<1>1. targets[Plain(objects[i].mod.name)] = i /\ targets[Plain(objects[j].mod.name)] = j
  BY DEF IInv, Registered
<1> QED
  BY <1>1

\* The finished Targets, where no Target's files change.
LEMMA WholeKept ==
  ASSUME IInv, FilesWhole, UNCHANGED <<deps, order>>,
         \A i \in DOMAIN objects : objects'[i].mod = objects[i].mod /\ objects'[i].files = objects[i].files,
         \A m, n : Files(objects', m, n) = Files(objects, m, n)
  PROVE  FilesWhole'
<1> SUFFICES ASSUME NEW p \in DOMAIN order, NEW m, m = objects'[order[p]].mod
             PROVE  objects'[order[p]].files = Files(objects, m, Len(deps[m]) + 1)
  BY FilesWholeNext
<1>1. order[p] \in DOMAIN objects
  BY DEF IInv, TypeOK
<1> QED
  BY <1>1 DEF FilesWhole

\* A step that leaves Targets, conversions and order as they are.
LEMMA StayCopied ==
  ASSUME CInv, LInv', UNCHANGED <<deps, objects, stack, order>>, phase = "failed" => phase' = "failed"
  PROVE  CInv'
<1>1. IInv /\ IInv'
  BY DEF CInv, LInv
<1>2. ToolsAsked(stack') /\ FilledAtEnd(objects', stack') /\ FilesSoFar(objects', stack')
  BY DEF CInv
<1>3. FilesWhole'
  BY <1>1, WholeKept DEF CInv
<1>4. ASSUME phase' # "failed" PROVE Copyable'
  <2>1. Copyable
    BY <1>4 DEF CInv
  <2>2. Onward
    BY DEF Onward, StackKept, DoomsKept, Doomed, TargetsKept, InOrder
  <2>3. RanksFall'
    BY <1>1, <2>1, <2>2, RanksKept DEF Copyable
  <2> QED
    BY <1>1, <2>1, <2>2, <2>3, CopyableKept
<1> QED
  BY <1>2, <1>3, <1>4, SameDepsCopied DEF CInv

\* The innermost conversion, which waits at a dependency.
LEMMA AtDep ==
  ASSUME IInv, HasDep, NEW s, s = Len(stack)
  PROVE  /\ s \in Nat /\ s \in DOMAIN stack /\ DOMAIN stack = 1..s /\ stack # <<>>
         /\ Top = stack[s] /\ Top \in Frames /\ Top.mod \in Mods /\ Top.at \in Nat
         /\ deps[Top.mod] \in Seq(Deps) /\ Top.at \in DOMAIN deps[Top.mod]
         /\ Dep = deps[Top.mod][Top.at] /\ Dep.use = UseAt(Top.mod, Top.at)
<1>1. stack # <<>> /\ stack \in Seq(Frames) /\ deps \in [Mods -> Seq(Deps)]
  BY StackTyped DEF HasDep, Walking
<1>2. s \in Nat /\ s \in DOMAIN stack /\ DOMAIN stack = 1..s /\ Top = stack[s]
  BY <1>1 DEF Top
<1>3. Top \in Frames
  BY <1>1, <1>2
<1>4. Top.mod \in Mods /\ Top.at \in Nat \ {0}
  BY <1>3, FrameFields
<1>5. deps[Top.mod] \in Seq(Deps) /\ Top.at <= Len(deps[Top.mod])
  BY <1>1, <1>4 DEF HasDep, DepsOf
<1>6. Top.at \in DOMAIN deps[Top.mod]
  BY <1>4, <1>5
<1> QED
  BY <1>1, <1>2, <1>3, <1>4, <1>5, <1>6 DEF Dep, DepsOf, UseAt

\* A Target that is found while it is being filled is lost: its conversion
\* waits for one that it may not use.
LEMMA FoundSettled ==
  ASSUME CInv, Sources, Copyable, HasDep, NEW o \in DOMAIN objects,
         objects[o].mod = Found(Top.mod, Top.at)
  PROVE  objects[o].mod \in SettledMods
<1> PICK s : s = Len(stack)
  OBVIOUS
<1>1. IInv /\ LInv /\ NoSourceCycle /\ OfTree
  BY DEF CInv, LInv, Sources
<1>2. /\ s \in Nat /\ s \in DOMAIN stack /\ DOMAIN stack = 1..s
      /\ Top = stack[s] /\ Top.mod \in Mods /\ Top.at \in DOMAIN deps[Top.mod]
  BY <1>1, AtDep
<1>3. objects[o].mod \in Mods /\ objects[o].mod # NULL
  BY <1>1, ModsOfObjects, ConstantsAssumption
<1>4. ASSUME ~Settled(o) PROVE FALSE
  <2>1. Kind[objects[o].mod] \in SourceKinds /\ ~InOrder(o) /\ ~Lost(o)
    BY <1>4 DEF Settled
  <2> PICK j \in 1..s : stack[j].obj = o
    BY <1>1, <1>2, <2>1 DEF IInv, Placed, OnStack
  <2>2. o # 0
    BY <1>1 DEF IInv, TypeOK
  <2>3. stack[j].mod = objects[o].mod
    BY <1>1, <1>2, <2>2 DEF LInv, FramesMeant
  <2>4. Copies(j) /\ Kind[objects[o].mod] \in Copying
    BY <2>1, <2>3 DEF Copies, Copying
  <2>5. ASSUME Copies(s) PROVE RankOf(deps)[stack[j].mod] < RankOf(deps)[stack[s].mod]
    BY <1>1, <1>2, <1>3, <2>3, <2>4, <2>5, RankFalls DEF Copies
  <2>6. RankOf(deps)[stack[j].mod] \in Nat /\ RankOf(deps)[stack[s].mod] \in Nat
    BY <1>1, <1>2, <1>3, <2>3, RankTyped
  <2>7. CASE j = s
    BY <2>4, <2>5, <2>6, <2>7
  <2>8. CASE j # s
    <3>1. j < s
      BY <2>8, <1>2
    <3>2. CASE \E d \in DOMAIN stack : j <= d /\ d < s /\ Doomed(d)
      BY <1>2, <2>1, <3>2 DEF Lost
    <3>3. CASE Copies(s) /\ RankOf(deps)[stack[s].mod] < RankOf(deps)[stack[j].mod]
      BY <2>5, <2>6, <3>3
    <3> QED
      BY <1>2, <2>4, <3>1, <3>2, <3>3 DEF Copyable, RanksFall
  <2> QED
    BY <2>7, <2>8
<1> QED
  BY <1>4 DEF SettledMods

\* A known or aliased Target is used.
LEMMA UseCopies ==
  ASSUME CInv, LInv', Sources, NEW c \in Calls, NEW o \in DOMAIN objects,
         objects[o].mod = Lookup(c.ref, NULL),
         GoOn(stack, objects, o),
         UNCHANGED <<order, deps, request>>
  PROVE  CInv'
<1> PICK s \in Nat : s = Len(stack)
  BY StackTyped DEF CInv, LInv
<1>1. IInv /\ IInv' /\ LInv /\ OfTree /\ OneMeaning /\ WalkedInOrder /\ NoSourceCycle
  BY DEF CInv, LInv, Sources
<1>2. /\ deps \in [Mods -> Seq(Deps)] /\ objects \in Seq(TargetRecords)
      /\ \A i \in DOMAIN objects : \A l \in objects[i].links : l[1] \in DOMAIN objects
      /\ stack \in Seq(Frames) /\ DOMAIN stack = 1..s
      /\ \A k \in DOMAIN stack : stack[k].obj <= Len(objects)
      /\ \A k \in DOMAIN stack : stack[k].at <= Len(DepsOf(stack[k]))
  BY <1>1, CallTyped DEF IInv, TypeOK
<1>3. ASSUME stack # <<>>
      PROVE  /\ HasDep /\ Top = stack[s] /\ s \in DOMAIN stack
             /\ objects[o].mod = Found(Top.mod, Top.at) /\ UseAt(Top.mod, Top.at) # "tool"
  <2>1. HasDep /\ Dep.use # "tool" /\ Lookup(Dep.ref, stack[s].mod) = Lookup(c.ref, NULL)
    BY <1>1, <1>3, CallMeans
  <2>2. Top = stack[s] /\ s \in DOMAIN stack /\ Dep = deps[Top.mod][Top.at] /\ Dep.use = UseAt(Top.mod, Top.at)
    BY <1>1, <2>1, AtDep
  <2> QED
    BY <2>1, <2>2 DEF Found
<1>4. /\ SameFiles(objects', objects)
      /\ FilledAtEnd(objects', stack') /\ FilesSoFar(objects', stack')
      /\ \A k \in DOMAIN stack : k # s => stack'[k] = stack[k]
      /\ \A k \in DOMAIN stack : stack'[k].at \in {stack[k].at, stack[k].at + 1}
  <2>1. stack # <<>> =>
          LET f == stack[Len(stack)] IN objects[o].mod = Found(f.mod, f.at) /\ UseAt(f.mod, f.at) # "tool"
    BY <1>3
  <2> QED
    BY <1>1, <1>2, <2>1, ObjectsApart, GoOnFiles DEF CInv
<1>5. /\ Len(stack') = s /\ DOMAIN stack' = 1..s /\ DOMAIN objects' = DOMAIN objects
      /\ \A k \in 1..s : stack'[k].mod = stack[k].mod /\ stack'[k].obj = stack[k].obj /\ stack'[k].ref = stack[k].ref
  <2>1. /\ stack' \in Seq(Frames) /\ Len(stack') = Len(stack)
        /\ \A k \in DOMAIN stack :
             stack'[k].mod = stack[k].mod /\ stack'[k].obj = stack[k].obj /\ stack'[k].ref = stack[k].ref
    BY <1>2, GoOnShape
  <2> QED
    BY <1>2, <1>4, <2>1 DEF SameFiles
<1>6. ToolsAsked(stack')
  <2> SUFFICES ASSUME NEW k \in 1..s
               PROVE  /\ stack'[k].obj = 0 =>
                           Kind[stack'[k].mod] = "tool" /\ Lookup(stack'[k].ref, NULL) = stack'[k].mod /\ k # 1
                      /\ k < s /\ stack'[k + 1].obj # 0 => DepsOf(stack'[k])[stack'[k].at].use # "tool"
    BY <1>5 DEF ToolsAsked
  <2>1. stack'[k].obj = 0 =>
          Kind[stack'[k].mod] = "tool" /\ Lookup(stack'[k].ref, NULL) = stack'[k].mod /\ k # 1
    BY <1>2, <1>5 DEF CInv, ToolsAsked
  <2>2. ASSUME k < s, stack'[k + 1].obj # 0 PROVE DepsOf(stack'[k])[stack'[k].at].use # "tool"
    <3>1. stack'[k] = stack[k] /\ stack[k + 1].obj # 0
      BY <1>2, <1>4, <1>5, <2>2
    <3> QED
      BY <1>2, <2>2, <3>1 DEF CInv, ToolsAsked
  <2> QED
    BY <2>1, <2>2
<1>7. FilesWhole'
  <2>1. \A m, n : Files(objects', m, n) = Files(objects, m, n)
    BY <1>4, FilesSame
  <2> QED
    BY <1>1, <1>4, <2>1, WholeKept DEF CInv, SameFiles
<1>8. ASSUME phase' # "failed" PROVE Copyable'
  <2>1. phase = "convert" /\ Copyable
    BY <1>1, CallTyped DEF CInv
  <2>2. Onward
    BY <1>2, <1>4, <1>5 DEF Onward, StackKept, DoomsKept, Doomed, TargetsKept, InOrder, SameFiles
  <2>3. RanksFall'
    BY <1>1, <1>2, <1>5, <2>1, <2>2, RanksKept DEF Copyable
  <2>4. ASSUME NEW k \in DOMAIN stack', stack'[k].at # stack[k].at
        PROVE  CopiedFrom(stack'[k].mod, stack'[k].at) \subseteq SettledMods'
    <3>1. k = s /\ stack # <<>> /\ stack'[k].at = stack[s].at + 1 /\ stack'[k].mod = Top.mod /\ Top = stack[s]
      BY <1>2, <1>3, <1>4, <1>5, <2>4
    <3>2. SettledMods \subseteq SettledMods'
      BY <1>1, <2>2, SettledStays
    <3>3. Found(Top.mod, Top.at) \in SettledMods'
      BY <1>3, <2>1, <3>1, <3>2, FoundSettled
    <3>4. CopiedFrom(Top.mod, Top.at) \subseteq SettledMods'
      BY <1>3, <2>1, <3>1, <3>2 DEF Copyable, FramesSettled
    <3>5. Top.at \in DOMAIN deps[Top.mod] /\ deps[Top.mod] \in Seq(Deps)
      BY <1>1, <1>3, <3>1, AtDep
    <3>6. CopiedFrom(Top.mod, Top.at + 1) \subseteq SettledMods'
      BY <1>3, <3>1, <3>3, <3>4, <3>5, CopiedNext
    <3> QED
      BY <3>1, <3>6
  <2> QED
    BY <1>1, <1>2, <1>5, <2>1, <2>2, <2>3, <2>4, CopyableKept
<1> QED
  BY <1>4, <1>6, <1>7, <1>8, SameDepsCopied DEF CInv

LEMMA ConvertKnownCopies ==
  ASSUME CInv, LInv', Sources, NEW c \in Calls, ConvertKnown(c.ref, c.frm), UNCHANGED <<deps, request>>
  PROVE  CInv'
<1>1. targets[c.ref] # 0 /\ GoOn(stack, objects, targets[c.ref]) /\ UNCHANGED order
  BY DEF ConvertKnown
<1>2. c.ref \in Refs /\ targets \in [Refs -> 0..Len(objects)] /\ objects \in Seq(TargetRecords)
  BY CallTyped DEF CInv, LInv, IInv, TypeOK
<1>3. targets[c.ref] \in DOMAIN objects
  BY <1>1, <1>2
<1>4. objects[targets[c.ref]].mod = Lookup(c.ref, NULL)
  BY <1>1, <1>2 DEF CInv, LInv, Meant
<1> QED
  BY <1>1, <1>3, <1>4, UseCopies

LEMMA ConvertAliasCopies ==
  ASSUME CInv, LInv', Sources, NEW c \in Calls, ConvertAlias(c.ref, c.frm), UNCHANGED <<deps, request>>
  PROVE  CInv'
<1> PICK m : m = Lookup(c.ref, c.frm)
  OBVIOUS
<1> PICK o : o = targets[Plain(m.name)]
  OBVIOUS
<1>1. m # NULL /\ o # 0 /\ GoOn(stack, objects, o) /\ UNCHANGED order
  BY DEF ConvertAlias
<1>2. LInv /\ IInv /\ OneMeaning
  BY DEF CInv, LInv, Sources
<1>3. /\ c.ref \in Refs /\ targets \in [Refs -> 0..Len(objects)] /\ objects \in Seq(TargetRecords)
      /\ m \in Mods /\ m.name = c.ref.name /\ Plain(m.name) \in Refs
  BY <1>1, <1>2, CallMeans, LookupName, PlainRef DEF IInv, TypeOK
<1>4. o \in DOMAIN objects
  BY <1>1, <1>3
<1>5. objects[o].mod = Lookup(c.ref, NULL)
  <2>1. objects[o].mod = Lookup(Plain(m.name), NULL)
    BY <1>1, <1>2, <1>3 DEF LInv, Meant
  <2> QED
    BY <1>1, <1>2, <1>3, <2>1, CallMeans
<1> QED
  BY <1>1, <1>4, <1>5, UseCopies

\* A conversion, of a module or of a tool's sources, is put on the stack.
LEMMA PushCopies ==
  ASSUME CInv, LInv', Sources, NEW g \in Frames, g.at = 1, g.files = {g.mod},
         stack' = Append(stack, g), UNCHANGED <<deps, order, phase>>, phase = "convert",
         DOMAIN objects \subseteq DOMAIN objects',
         \A i \in DOMAIN objects : objects'[i] = objects[i],
         \A i \in DOMAIN objects' : i \notin DOMAIN objects => objects'[i].files = {},
         g.obj # 0 => objects'[g.obj].files = {},
         g.obj = 0 => Kind[g.mod] = "tool" /\ Lookup(g.ref, NULL) = g.mod /\ stack # <<>>,
         stack # <<>> =>
           /\ HasDep /\ Found(Top.mod, Top.at) = g.mod
           /\ g.obj # 0 => UseAt(Top.mod, Top.at) # "tool"
  PROVE  CInv'
<1> PICK s \in Nat : s = Len(stack)
  BY StackTyped DEF CInv, LInv
<1>1. IInv /\ IInv' /\ LInv /\ NoSourceCycle /\ Copyable
  BY DEF CInv, LInv, Sources
<1>2. /\ stack \in Seq(Frames) /\ deps \in [Mods -> Seq(Deps)] /\ objects \in Seq(TargetRecords)
      /\ DOMAIN stack = 1..s /\ DOMAIN stack' = 1..(s + 1) /\ Len(stack') = s + 1
      /\ stack'[s + 1] = g /\ \A k \in 1..s : stack'[k] = stack[k]
  BY <1>1, StackTyped DEF IInv, TypeOK
<1>3. s # 0 => /\ Top = stack[s] /\ DepsOf(stack[s])[stack[s].at].use = UseAt(Top.mod, Top.at)
               /\ Top.at \in DOMAIN deps[Top.mod] /\ stack # <<>>
  <2> SUFFICES ASSUME s # 0
               PROVE  /\ Top = stack[s] /\ DepsOf(stack[s])[stack[s].at].use = UseAt(Top.mod, Top.at)
                      /\ Top.at \in DOMAIN deps[Top.mod] /\ stack # <<>>
    OBVIOUS
  <2>1. HasDep
    BY <1>2
  <2> QED
    BY <1>1, <2>1, AtDep DEF DepsOf, UseAt
<1>4. \A m, n : Files(objects', m, n) = Files(objects, m, n)
  <2>1. \A i \in DOMAIN objects' : i \notin DOMAIN objects => Gives(objects'[i]) = {} /\ Outputs(objects'[i]) = {}
    BY GivesFiles
  <2>2. ASSUME NEW x PROVE SameGiven(objects', objects, x)
    BY <2>1, GivenSame
  <2> QED
    BY <2>2, FilesKept
<1>5. ToolsAsked(stack')
  <2> SUFFICES ASSUME NEW k \in 1..(s + 1)
               PROVE  /\ stack'[k].obj = 0 =>
                           Kind[stack'[k].mod] = "tool" /\ Lookup(stack'[k].ref, NULL) = stack'[k].mod /\ k # 1
                      /\ k < s + 1 /\ stack'[k + 1].obj # 0 => DepsOf(stack'[k])[stack'[k].at].use # "tool"
    BY <1>2 DEF ToolsAsked
  <2>1. CASE k = s + 1
    <3>1. g.obj = 0 => k # 1
      BY <1>2, <2>1
    <3> QED
      BY <1>2, <2>1, <3>1
  <2>2. CASE k = s /\ s # 0
    BY <1>2, <1>3, <2>2 DEF CInv, ToolsAsked
  <2>3. CASE k \in 1..s /\ k + 1 \in 1..s
    BY <1>2, <2>3 DEF CInv, ToolsAsked
  <2> QED
    BY <2>1, <2>2, <2>3
<1>6. FilledAtEnd(objects', stack')
  <2> SUFFICES ASSUME NEW k \in 1..(s + 1), stack'[k].obj # 0 PROVE objects'[stack'[k].obj].files = {}
    BY <1>2 DEF FilledAtEnd
  <2>1. CASE k = s + 1
    BY <1>2, <2>1
  <2>2. CASE k \in 1..s
    <3>1. stack'[k] = stack[k] /\ stack[k].obj \in Nat /\ stack[k].obj <= Len(objects)
      BY <1>1, <1>2, <2>2, StackTyped
    <3>2. stack[k].obj \in DOMAIN objects
      BY <1>2, <3>1
    <3> QED
      BY <1>2, <2>2, <3>1, <3>2 DEF CInv, FilledAtEnd
  <2> QED
    BY <2>1, <2>2
<1>7. FilesSoFar(objects', stack')
  <2> SUFFICES ASSUME NEW k \in 1..(s + 1)
               PROVE  stack'[k].files = Files(objects, stack'[k].mod, stack'[k].at)
    BY <1>2, <1>4 DEF FilesSoFar
  <2>1. CASE k = s + 1
    <3>1. deps[g.mod] \in Seq(Deps)
      BY <1>2, FrameFields
    <3>2. Files(objects, g.mod, 1) = {g.mod}
      BY <3>1, FilesFirst
    <3> QED
      BY <1>2, <2>1, <3>2
  <2>2. CASE k \in 1..s
    BY <1>2, <2>2 DEF CInv, FilesSoFar
  <2> QED
    BY <2>1, <2>2
<1>8. FilesWhole'
  BY <1>1, <1>4, WholeKept DEF CInv
<1>9. Copyable'
  <2>1. Onward
    BY <1>2 DEF Onward, StackKept, DoomsKept, Doomed, TargetsKept, InOrder
  <2>2. RanksFall'
    <3>1. stack # <<>> =>
            LET f == stack[Len(stack)] IN f.at \in DOMAIN deps[f.mod] /\ Found(f.mod, f.at) = g.mod
      BY <1>2, <1>3
    <3> QED
      BY <1>1, <3>1, RanksPushed DEF Copyable
  <2>3. CopiedFrom(g.mod, 1) = {}
    <3>1. deps[g.mod] \in Seq(Deps)
      BY <1>2, FrameFields
    <3> QED
      BY <3>1, FilesFirst
  <2> QED
    BY <1>1, <1>2, <2>1, <2>2, <2>3, CopyableKept
<1> QED
  BY <1>5, <1>6, <1>7, <1>8, <1>9, SameDepsCopied DEF CInv

LEMMA ConvertNewCopies ==
  ASSUME CInv, LInv', Sources, NEW c \in Calls, ConvertNew(c.ref, c.frm), UNCHANGED <<deps, request>>
  PROVE  CInv'
<1> PICK n \in Nat : n = Len(objects)
  BY StackTyped DEF CInv, LInv
<1> PICK m : m = Lookup(c.ref, c.frm)
  OBVIOUS
<1> PICK o \in Nat : o = n + 1
  OBVIOUS
<1>1. /\ m # NULL
      /\ objects' = Append(objects, Target(m)) /\ stack' = Append(stack, Frame(m, o, c.ref))
      /\ UNCHANGED <<deps, order, phase>>
  BY DEF ConvertNew
<1>2. LInv /\ IInv /\ OneMeaning
  BY DEF CInv, LInv, Sources
<1>3. m \in Mods /\ c.ref \in Refs /\ Lookup(c.ref, NULL) = m /\ phase = "convert"
  BY <1>1, <1>2, CallMeans, CallTyped, LookupName
<1>4. objects \in Seq(TargetRecords)
  BY <1>2 DEF IInv, TypeOK
<1>5. DOMAIN objects = 1..n /\ DOMAIN objects' = 1..o /\ objects'[o] = Target(m) /\ \A i \in 1..n : objects'[i] = objects[i]
  BY <1>1, <1>4
<1> PICK g \in Frames : g = Frame(m, o, c.ref) /\ g.obj = o /\ g.ref = c.ref /\ g.mod = m /\ g.at = 1
  BY <1>3, FrameStarts
<1>6. g.files = {g.mod}
  BY DEF Frame
<1>7. \A i \in DOMAIN objects' : i \notin DOMAIN objects => i = o
  BY <1>5
<1>8. objects'[o].files = {}
  BY <1>5 DEF Target
<1>9. stack # <<>> => HasDep /\ Found(Top.mod, Top.at) = g.mod /\ UseAt(Top.mod, Top.at) # "tool"
  <2> SUFFICES ASSUME stack # <<>>
               PROVE  HasDep /\ Found(Top.mod, Top.at) = g.mod /\ UseAt(Top.mod, Top.at) # "tool"
    OBVIOUS
  <2>1. HasDep /\ Dep.use # "tool" /\ Lookup(Dep.ref, stack[Len(stack)].mod) = Lookup(c.ref, NULL)
    BY <1>2, CallMeans
  <2>2. Top = stack[Len(stack)] /\ Dep = deps[Top.mod][Top.at] /\ Dep.use = UseAt(Top.mod, Top.at)
    BY <1>2, <2>1, AtDep
  <2> QED
    BY <1>3, <2>1, <2>2 DEF Found
<1> QED
  BY <1>1, <1>3, <1>5, <1>6, <1>7, <1>8, <1>9, PushCopies

LEMMA ExpandToolCopies ==
  ASSUME CInv, LInv', Sources, ExpandTool, UNCHANGED <<deps, request>>
  PROVE  CInv'
<1> PICK m : m = Lookup(Dep.ref, Top.mod)
  OBVIOUS
<1>1. HasDep /\ Dep.use = "tool" /\ phase = "convert"
  BY DEF ExpandTool, HasDep, Walking
<1>2. IInv /\ OneMeaning /\ OfTree
  BY DEF CInv, LInv, Sources
<1>3. /\ Top.mod \in Mods /\ Top.at \in DOMAIN deps[Top.mod] /\ Dep = deps[Top.mod][Top.at] /\ stack # <<>>
      /\ Dep \in Deps
  BY <1>1, <1>2, AtDep, AllWait
<1>4. m = Found(Top.mod, Top.at) /\ m = Lookup(Dep.ref, NULL) /\ Dep.ref \in Refs
  BY <1>2, <1>3, FoundMeans DEF Found, Deps
<1>5. CASE m # NULL /\ Kind[m] = "tool"
  <2>1. stack' = Append(stack, Frame(m, 0, Dep.ref)) /\ UNCHANGED <<phase, objects, order>>
    BY <1>5 DEF ExpandTool
  <2>2. m \in Mods
    BY <1>4, <1>5, LookupName
  <2> PICK g \in Frames : g = Frame(m, 0, Dep.ref) /\ g.obj = 0 /\ g.ref = Dep.ref /\ g.mod = m /\ g.at = 1
    BY <1>4, <2>2, FrameStarts
  <2>3. g.files = {g.mod}
    BY DEF Frame
  <2> QED
    BY <1>1, <1>3, <1>4, <1>5, <2>1, <2>3, PushCopies
<1>6. CASE ~(m # NULL /\ Kind[m] = "tool")
  <2>1. Fail
    BY <1>6 DEF ExpandTool
  <2> QED
    BY <2>1, StayCopied DEF Fail
<1> QED
  BY <1>5, <1>6

\* A frame moves on: over a library that is not linked, or past a tool.
LEMMA MoveCopies ==
  ASSUME CInv, LInv', NEW s \in Nat, s <= Len(stack), phase = "convert",
         Len(stack') = s,
         s # 0 => /\ stack[s].at \in DOMAIN deps[stack[s].mod]
                  /\ stack'[s].mod = stack[s].mod /\ stack'[s].obj = stack[s].obj
                  /\ stack'[s].ref = stack[s].ref /\ stack'[s].at = stack[s].at + 1
                  /\ stack'[s].files = Files(objects, stack[s].mod, stack[s].at + 1)
                  /\ UseAt(stack[s].mod, stack[s].at) \notin CopyUses
                  /\ UseAt(stack[s].mod, stack[s].at) = "tool" =>
                       SourcesOf(Found(stack[s].mod, stack[s].at)) \subseteq SettledMods,
         \A k \in 1..s : k # s => stack'[k] = stack[k],
         \A k \in DOMAIN stack : k > s => Copies(k),
         UNCHANGED <<objects, order, deps, request>>
  PROVE  CInv'
<1>1. IInv /\ IInv' /\ LInv /\ Copyable
  BY DEF CInv, LInv
<1>2. DOMAIN stack' = 1..s /\ 1..s \subseteq DOMAIN stack /\ Len(stack) \in Nat /\ DOMAIN stack = 1..Len(stack)
  BY <1>1 DEF IInv, TypeOK
<1>3. \A k \in 1..s : stack'[k].mod = stack[k].mod /\ stack'[k].obj = stack[k].obj /\ stack'[k].ref = stack[k].ref
  BY <1>2
<1>4. ToolsAsked(stack')
  <2> SUFFICES ASSUME NEW k \in 1..s
               PROVE  /\ stack'[k].obj = 0 =>
                           Kind[stack'[k].mod] = "tool" /\ Lookup(stack'[k].ref, NULL) = stack'[k].mod /\ k # 1
                      /\ k < s /\ stack'[k + 1].obj # 0 => DepsOf(stack'[k])[stack'[k].at].use # "tool"
    BY <1>2 DEF ToolsAsked
  <2>1. k \in DOMAIN stack
    BY <1>2
  <2>2. ASSUME k < s, stack'[k + 1].obj # 0 PROVE DepsOf(stack'[k])[stack'[k].at].use # "tool"
    <3>1. stack'[k] = stack[k] /\ stack[k + 1].obj # 0 /\ k < Len(stack)
      BY <1>2, <1>3, <2>2
    <3> QED
      BY <2>1, <3>1 DEF CInv, ToolsAsked
  <2> QED
    BY <1>3, <2>1, <2>2 DEF CInv, ToolsAsked
<1>5. FilledAtEnd(objects', stack')
  BY <1>2, <1>3 DEF CInv, FilledAtEnd
<1>6. FilesSoFar(objects', stack')
  <2> SUFFICES ASSUME NEW k \in 1..s PROVE stack'[k].files = Files(objects, stack'[k].mod, stack'[k].at)
    BY <1>2 DEF FilesSoFar
  <2>1. CASE k = s
    BY <2>1
  <2>2. CASE k # s
    BY <1>2, <2>2 DEF CInv, FilesSoFar
  <2> QED
    BY <2>1, <2>2
<1>7. FilesWhole'
  BY <1>1, WholeKept DEF CInv
<1>8. Copyable'
  <2>1. DoomsKept
    BY <1>2 DEF DoomsKept, Doomed
  <2>2. Onward
    BY <1>2, <1>3, <2>1 DEF Onward, StackKept, TargetsKept, InOrder
  <2>3. RanksFall'
    BY <1>1, <1>2, <2>2, RanksKept DEF Copyable
  <2>4. ASSUME s # 0 PROVE CopiedFrom(stack'[s].mod, stack'[s].at) \subseteq SettledMods'
    <3>1. s \in DOMAIN stack /\ stack[s].mod \in Mods /\ deps[stack[s].mod] \in Seq(Deps)
      <4>1. s \in 1..s
        BY <2>4
      <4>2. stack[s].mod \in Mods /\ deps \in [Mods -> Seq(Deps)]
        BY <1>1, <1>2, <4>1, StackTyped
      <4> QED
        BY <1>2, <4>1, <4>2
    <3>2. CopiedFrom(stack[s].mod, stack[s].at) \subseteq SettledMods
      BY <1>1, <3>1 DEF Copyable, FramesSettled
    <3>3. CopiedFrom(stack[s].mod, stack[s].at + 1) \subseteq SettledMods
      BY <2>4, <3>1, <3>2, CopiedNext
    <3>4. SettledMods \subseteq SettledMods'
      BY <1>1, <2>2, SettledStays
    <3> QED
      BY <2>4, <3>3, <3>4
  <2> QED
    BY <1>1, <1>2, <2>2, <2>3, <2>4, CopyableKept
<1> QED
  BY <1>4, <1>5, <1>6, <1>7, <1>8, SameDepsCopied DEF CInv

LEMMA SkipSystemLibCopies ==
  ASSUME CInv, LInv', Sources, SkipSystemLib, UNCHANGED <<deps, request>>
  PROVE  CInv'
<1> PICK s : s = Len(stack)
  OBVIOUS
<1>1. /\ HasDep /\ OfSystem(Dep) /\ phase = "convert"
      /\ stack' = [stack EXCEPT ![s] = Moved(@, @.files)] /\ UNCHANGED <<objects, order>>
  BY DEF SkipSystemLib, HasDep, Walking
<1>2. IInv /\ WalkedInOrder /\ OfTree /\ stack \in Seq(Frames) /\ deps \in [Mods -> Seq(Deps)]
  BY StackTyped DEF CInv, LInv, Sources
<1>3. /\ s \in Nat /\ s \in DOMAIN stack /\ DOMAIN stack = 1..s /\ Top = stack[s]
      /\ Top \in Frames /\ Top.mod \in Mods /\ Top.at \in DOMAIN deps[Top.mod]
      /\ Dep.use = UseAt(Top.mod, Top.at)
  BY <1>1, <1>2, AtDep
<1>4. UseAt(Top.mod, Top.at) \in LinkUses
  BY <1>1, <1>3 DEF OfSystem
<1> PICK g : g = Moved(Top, Top.files)
  OBVIOUS
<1>5. g.mod = Top.mod /\ g.obj = Top.obj /\ g.ref = Top.ref /\ g.at = Top.at + 1 /\ g.files = Top.files
  <2>1. Top.files \in SUBSET Mods
    BY <1>3, FrameFields
  <2>2. g.mod = Top.mod /\ g.obj = Top.obj /\ g.ref = Top.ref /\ g.at = Top.at + 1
    BY <1>3, <2>1, FrameMoved
  <2> QED
    BY <1>3, <2>2 DEF Moved, Frames
<1>6. Len(stack') = s /\ stack'[s] = g /\ \A k \in 1..s : k # s => stack'[k] = stack[k]
  BY <1>1, <1>2, <1>3
<1>7. g.files = Files(objects, Top.mod, Top.at + 1)
  <2>1. Top.files = Files(objects, Top.mod, Top.at)
    BY <1>3 DEF CInv, FilesSoFar
  <2>2. Files(objects, Top.mod, Top.at + 1) = Files(objects, Top.mod, Top.at)
    BY <1>2, <1>3, <1>4, FilesNext
  <2> QED
    BY <1>5, <2>1, <2>2
<1>8. UseAt(Top.mod, Top.at) \notin CopyUses /\ UseAt(Top.mod, Top.at) # "tool"
  BY <1>4 DEF LinkUses, CopyUses
<1> QED
  BY <1>1, <1>3, <1>5, <1>6, <1>7, <1>8, MoveCopies

\* All a host tool's dependencies are sources, which its files are of.
LEMMA ToolFilesWhole ==
  ASSUME WalkedInOrder, OfTree, NEW x \in Mods, Kind[x] = "tool", deps[x] \in Seq(Deps), NEW objs,
         NEW n, n = Len(deps[x]) + 1
  PROVE  Files(objs, x, n) = ToolFiles(objs, x) /\ SourcesOf(x) \subseteq CopiedFrom(x, n)
<1>1. \A i \in DOMAIN deps[x] : i < n /\ UseAt(x, i) = "src"
  <2>1. \A i \in DOMAIN deps[x] : UseAt(x, i) = "src"
    BY DEF WalkedInOrder, OfTree, UseAt
  <2> QED
    BY <2>1
<1>2. Before(x, n, "src") = IndexesOf(x, {"src"})
  BY <1>1 DEF Before, IndexesOf, UseAt
<1>3. \A use : use # "src" => Before(x, n, use) = {}
  BY <1>1 DEF Before
<1>4. /\ Given(objs, x, n, "exclude") = {} /\ Given(objs, x, n, "toolfile") = {}
      /\ OfTools(objs, x, n) = {} /\ Generated(objs, x, n) = {}
  BY <1>3, GivenNone
<1>5. Given(objs, x, n, "src") = GivenBy(objs, x, IndexesOf(x, {"src"}))
  BY <1>2 DEF Given
<1>6. Files(objs, x, n) = ToolFiles(objs, x)
  BY <1>4, <1>5 DEF Files, ToolFiles
<1>7. SourcesOf(x) \subseteq CopiedFrom(x, n)
  BY <1>1 DEF SourcesOf, CopiedFrom, IndexesOf, CopyUses
<1> QED
  BY <1>6, <1>7

\* A host tool's sources have been expanded: its files become its genrule's.
LEMMA ToolExpandedCopies ==
  ASSUME CInv, LInv', Sources, ToolExpanded, UNCHANGED <<deps, request>>
  PROVE  CInv'
<1>1. IInv /\ IInv' /\ LInv /\ OneMeaning /\ WalkedInOrder /\ OfTree
  BY DEF CInv, LInv, Sources
<1>2. /\ stack # <<>> /\ phase = "convert" /\ Top.obj = 0 /\ Top.at > Len(DepsOf(Top))
      /\ stack' = [Below EXCEPT ![Len(stack) - 1] = Moved(@, @.files \cup Top.files)]
      /\ UNCHANGED <<objects, order>>
  BY DEF ToolExpanded, Finished, Walking
<1>3. /\ Len(stack) \in Nat \ {0} /\ stack \in Seq(Frames) /\ deps \in [Mods -> Seq(Deps)]
  BY <1>1, <1>2, StackTyped
<1> PICK s \in Nat : Len(stack) = s + 1
  <2>1. Len(stack) - 1 \in Nat /\ Len(stack) \in Nat
    BY <1>3
  <2>2. Len(stack) = (Len(stack) - 1) + 1
    BY <2>1
  <2> QED
    BY <2>1, <2>2
<1>4. DOMAIN stack = 1..(s + 1) /\ Top = stack[s + 1]
  BY <1>3 DEF Top
<1> PICK t \in Frames : t = Top
  BY <1>3, <1>4
<1>5. Kind[t.mod] = "tool" /\ Lookup(t.ref, NULL) = t.mod /\ s # 0
  <2>1. s + 1 \in DOMAIN stack /\ stack[s + 1].obj = 0
    BY <1>2, <1>4
  <2>2. /\ Kind[stack[s + 1].mod] = "tool" /\ Lookup(stack[s + 1].ref, NULL) = stack[s + 1].mod
        /\ s + 1 # 1
    BY <2>1 DEF CInv, ToolsAsked
  <2> QED
    BY <2>2, <1>4
<1>6. s \in 1..s /\ s \in DOMAIN stack /\ s < Len(stack) /\ s + 1 \in DOMAIN stack
  BY <1>4, <1>5
<1> PICK f \in Frames : f = stack[s]
  BY <1>3, <1>6
<1>7. f.mod \in Mods /\ t.mod \in Mods /\ f.files \in SUBSET Mods /\ t.files \in SUBSET Mods
  BY FrameFields
<1>8. f.at \in DOMAIN deps[f.mod] /\ UseAt(f.mod, f.at) = "tool" /\ deps[f.mod][f.at].ref = t.ref
  <2>1. DepsOf(stack[s])[stack[s].at].use = "tool" /\ DepsOf(stack[s])[stack[s].at].ref = t.ref
    BY <1>1, <1>2, <1>4, <1>6 DEF LInv, Asked
  <2>2. stack[s].at <= Len(DepsOf(stack[s]))
    BY <1>1, <1>6 DEF IInv, Waiting
  <2>3. DepsOf(stack[s]) \in Seq(Deps) /\ stack[s].at \in Nat \ {0}
    BY <1>1, <1>6, StackTyped
  <2>4. stack[s].at \in DOMAIN DepsOf(stack[s])
    BY <2>2, <2>3
  <2> QED
    BY <2>1, <2>4 DEF DepsOf, UseAt
<1>9. Found(f.mod, f.at) = t.mod
  BY <1>1, <1>5, <1>7, <1>8, FoundMeans
<1>10. t.at = Len(deps[t.mod]) + 1
  <2>1. stack[s + 1].at <= Len(DepsOf(stack[s + 1])) + 1 /\ stack[s + 1].at \in Nat
        /\ DepsOf(stack[s + 1]) \in Seq(Deps)
    BY <1>1, <1>6, StackTyped
  <2> QED
    BY <2>1, <1>2, <1>4 DEF DepsOf
<1>11. Files(objects, t.mod, t.at) = ToolFiles(objects, t.mod) /\ SourcesOf(t.mod) \subseteq CopiedFrom(t.mod, t.at)
  <2>1. deps[t.mod] \in Seq(Deps)
    BY <1>3, <1>7
  <2> QED
    BY <2>1, <1>1, <1>5, <1>7, <1>10, ToolFilesWhole
<1>12. t.files = ToolFiles(objects, t.mod) /\ f.files = Files(objects, f.mod, f.at)
  BY <1>4, <1>6, <1>11 DEF CInv, FilesSoFar
<1>13. SourcesOf(t.mod) \subseteq SettledMods
  BY <1>2, <1>4, <1>6, <1>11 DEF CInv, Copyable, FramesSettled
<1>14. Files(objects, f.mod, f.at + 1) = f.files \cup t.files
  <2>1. Files(objects, f.mod, f.at + 1) = Files(objects, f.mod, f.at) \cup ToolFiles(objects, t.mod)
    BY <1>1, <1>3, <1>7, <1>8, <1>9, FilesNext
  <2> QED
    BY <2>1, <1>12
<1>15. Below \in Seq(Frames) /\ Len(Below) = s /\ DOMAIN Below = 1..s /\ \A k \in 1..s : Below[k] = stack[k]
  BY <1>3 DEF Below
<1> PICK F : F = f.files \cup t.files
  OBVIOUS
<1> PICK g : g = Moved(f, F)
  OBVIOUS
<1>16. g.mod = f.mod /\ g.obj = f.obj /\ g.ref = f.ref /\ g.at = f.at + 1 /\ g.files = F
  <2>1. F \in SUBSET Mods
    BY <1>7
  <2>2. g.mod = f.mod /\ g.obj = f.obj /\ g.ref = f.ref /\ g.at = f.at + 1
    BY <2>1, FrameMoved
  <2> QED
    BY <2>2 DEF Moved, Frames
<1>17. stack' = [Below EXCEPT ![s] = g]
  <2>1. Len(stack) - 1 = s
    OBVIOUS
  <2>2. Below[s] = f
    BY <1>6, <1>15
  <2> QED
    BY <2>1, <2>2, <1>2, <1>6, <1>15
<1>18. Len(stack') = s /\ stack'[s] = g /\ \A k \in 1..s : k # s => stack'[k] = stack[k]
  BY <1>6, <1>15, <1>17
<1>19. UseAt(f.mod, f.at) \notin CopyUses
  BY <1>8 DEF CopyUses
<1>20. \A k \in DOMAIN stack : k > s => Copies(k)
  BY <1>4, <1>5 DEF Copies, Copying
<1>21. s <= Len(stack)
  BY <1>6
<1>22. /\ stack[s].at \in DOMAIN deps[stack[s].mod]
       /\ stack'[s].mod = stack[s].mod /\ stack'[s].obj = stack[s].obj
       /\ stack'[s].ref = stack[s].ref /\ stack'[s].at = stack[s].at + 1
       /\ stack'[s].files = Files(objects, stack[s].mod, stack[s].at + 1)
       /\ UseAt(stack[s].mod, stack[s].at) \notin CopyUses
       /\ UseAt(stack[s].mod, stack[s].at) = "tool" =>
            SourcesOf(Found(stack[s].mod, stack[s].at)) \subseteq SettledMods
  BY <1>8, <1>9, <1>13, <1>14, <1>16, <1>18, <1>19
<1> QED
  BY <1>2, <1>18, <1>20, <1>21, <1>22, MoveCopies

\* The innermost conversion, which has walked its last dependency, fills its
\* Target's files and touches no other.
LEMMA EndsShape ==
  ASSUME LInv, Finished, NEW o, o = Top.obj, o # 0, NEW f, f = Top, NEW objs, objs = Fill(objects, f),
         NEW s, s = Len(stack) - 1
  PROVE  /\ s \in Nat /\ Len(stack) = s + 1 /\ DOMAIN stack = 1..(s + 1) /\ stack[s + 1] = f
         /\ f \in Frames /\ f.mod \in Mods /\ f.at = Len(deps[f.mod]) + 1 /\ deps[f.mod] \in Seq(Deps)
         /\ o \in DOMAIN objects /\ objects[o].mod = f.mod /\ Lookup(f.ref, NULL) = f.mod
         /\ objs \in Seq(TargetRecords) /\ DOMAIN objs = DOMAIN objects
         /\ \A i \in DOMAIN objects :
              /\ objs[i].mod = objects[i].mod /\ objs[i].kind = objects[i].kind
              /\ objs[i].links = objects[i].links
              /\ i # o => objs[i].files = objects[i].files
         /\ objs[o].files = f.files
<1>1. stack # <<>> /\ Top.at > Len(DepsOf(Top)) /\ IInv
  BY DEF Finished, Walking, LInv
<1>2. stack \in Seq(Frames) /\ deps \in [Mods -> Seq(Deps)] /\ objects \in Seq(TargetRecords)
  BY <1>1, StackTyped DEF IInv, TypeOK
<1>3. s \in Nat /\ Len(stack) = s + 1
  <2>1. Len(stack) \in Nat \ {0}
    BY <1>1, <1>2
  <2> QED
    BY <2>1
<1>4. DOMAIN stack = 1..(s + 1) /\ stack[s + 1] = f /\ s + 1 \in DOMAIN stack
  BY <1>2, <1>3 DEF Top
<1>5. f \in Frames
  BY <1>2, <1>4
<1>6. f.mod \in Mods /\ f.files \in SUBSET Mods /\ f.at \in Nat /\ f.obj \in Nat /\ deps[f.mod] \in Seq(Deps)
  BY <1>2, <1>5, FrameFields
<1>7. f.at = Len(deps[f.mod]) + 1
  <2>1. stack[s + 1].at <= Len(DepsOf(stack[s + 1])) + 1
    BY <1>1, <1>4, StackTyped
  <2> QED
    BY <2>1, <1>1, <1>4, <1>6 DEF DepsOf
<1>8. o \in DOMAIN objects
  <2>1. f.obj <= Len(objects) /\ Len(objects) \in Nat
    BY <1>1, <1>4, StackTyped
  <2> QED
    BY <2>1, <1>2, <1>6
<1>9. objects[o].mod = f.mod /\ Lookup(f.ref, NULL) = f.mod
  BY <1>4 DEF LInv, FramesMeant
<1> PICK u : u = [objects[o] EXCEPT !.files = f.files]
  OBVIOUS
<1>10. /\ u \in TargetRecords /\ u.mod = objects[o].mod /\ u.kind = objects[o].kind
       /\ u.links = objects[o].links /\ u.files = f.files
  <2>1. objects[o] \in TargetRecords
    BY <1>2, <1>8
  <2> QED
    BY <2>1, <1>6 DEF TargetRecords
<1>11. objs = [objects EXCEPT ![o] = u]
  BY DEF Fill
<1>12. objs \in Seq(TargetRecords) /\ DOMAIN objs = DOMAIN objects
  BY <1>2, <1>8, <1>10, <1>11
<1>13. objs[o] = u /\ \A i \in DOMAIN objects : i # o => objs[i] = objects[i]
  BY <1>2, <1>8, <1>11
<1>14. \A i \in DOMAIN objects :
         /\ objs[i].mod = objects[i].mod /\ objs[i].kind = objects[i].kind
         /\ objs[i].links = objects[i].links
         /\ i # o => objs[i].files = objects[i].files
  <2> SUFFICES ASSUME NEW i \in DOMAIN objects
               PROVE  /\ objs[i].mod = objects[i].mod /\ objs[i].kind = objects[i].kind
                      /\ objs[i].links = objects[i].links
                      /\ i # o => objs[i].files = objects[i].files
    OBVIOUS
  <2>1. CASE i = o
    BY <2>1, <1>10, <1>13
  <2>2. CASE i # o
    BY <2>2, <1>13
  <2> QED
    BY <2>1, <2>2
<1>15. objs[o].files = f.files
  BY <1>10, <1>13
<1> QED
  BY <1>3, <1>4, <1>5, <1>6, <1>7, <1>8, <1>9, <1>12, <1>14, <1>15

\* The Target of the innermost conversion is on no other frame, and not in order.
LEMMA EndsAlone ==
  ASSUME LInv, Finished, NEW o, o = Top.obj, o # 0, NEW s, s = Len(stack) - 1
  PROVE  /\ \A k \in 1..s : stack[k].obj # o
         /\ ~InOrder(o)
         /\ ~Lost(o)
<1>1. IInv
  BY DEF LInv
<1>2. /\ s \in Nat /\ DOMAIN stack = 1..(s + 1) /\ o \in DOMAIN objects /\ stack[s + 1].obj = o
  BY EndsShape
<1>3. \A k \in 1..(s + 1) : stack[k].obj = o => k = s + 1
  <2>1. s + 1 \in DOMAIN stack
    BY <1>2
  <2> QED
    BY <2>1, <1>1, <1>2, FramesApart
<1>4. ~InOrder(o)
  BY <1>1, <1>2 DEF IInv, Placed, OnStack
<1>5. ~Lost(o)
  <2> SUFFICES ASSUME NEW k \in 1..(s + 1), NEW d \in 1..(s + 1), stack[k].obj = o, k <= d, Doomed(d)
               PROVE  FALSE
    BY <1>2 DEF Lost
  <2>1. k = s + 1
    BY <1>3
  <2>2. d + 1 \in 1..(s + 1)
    BY <1>2 DEF Doomed
  <2> QED
    BY <2>1, <2>2, <1>2
<1>6. \A k \in 1..s : stack[k].obj # o
  <2> SUFFICES ASSUME NEW k \in 1..s, stack[k].obj = o PROVE FALSE
    OBVIOUS
  <2>1. k \in 1..(s + 1) /\ k # s + 1
    BY <1>2
  <2> QED
    BY <2>1, <1>3
<1> QED
  BY <1>4, <1>5, <1>6

\* What is copied already does not change when a Target's files are filled.
LEMMA FillSettled ==
  ASSUME LInv, Finished, NEW o, o = Top.obj, o # 0, NEW objs, objs = Fill(objects, Top),
         NEW m, NEW n, CopiedFrom(m, n) \subseteq SettledMods
  PROVE  Files(objs, m, n) = Files(objects, m, n)
<1> PICK f, s : f = Top /\ s = Len(stack) - 1
  OBVIOUS
<1>1. /\ o \in DOMAIN objects /\ objs \in Seq(TargetRecords) /\ DOMAIN objs = DOMAIN objects
      /\ \A i \in DOMAIN objects :
           /\ objs[i].mod = objects[i].mod /\ objs[i].kind = objects[i].kind
           /\ i # o => objs[i].files = objects[i].files
  BY EndsShape
<1>2. ModsApart(objects)
  BY ObjectsApart DEF LInv
<1>3. ASSUME NEW x \in SettledMods PROVE SameGiven(objs, objects, x)
  <2>1. ASSUME NEW i \in DOMAIN objects, objects[i].mod = x
        PROVE  Gives(objs[i]) = Gives(objects[i]) /\ Outputs(objs[i]) = Outputs(objects[i])
    <3>1. CASE i # o
      BY <3>1, <1>1, GivesKept
    <3>2. CASE i = o
      <4>1. Settled(o)
        BY <3>2, <2>1, <1>1, <1>2 DEF SettledMods, ModsApart
      <4>2. ~InOrder(o) /\ ~Lost(o)
        BY EndsAlone
      <4>3. objects[o].kind \notin SourceKinds
        BY <4>1, <4>2, <1>1 DEF Settled, LInv, KindsKept
      <4>4. Gives(objs[o]) = {} /\ Outputs(objs[o]) = {}
        BY <4>3, <1>1, GivesFiles
      <4>5. Gives(objects[o]) = {} /\ Outputs(objects[o]) = {}
        BY <4>3, GivesFiles
      <4> QED
        BY <3>2, <4>4, <4>5
    <3> QED
      BY <3>1, <3>2
  <2> QED
    BY <2>1, <1>1, GivenSame
<1> QED
  BY <1>3, FilesKept

\* A conversion that its caller may not use ends the builder's run.
LEMMA DoomFails ==
  ASSUME LInv, WalkedInOrder, NEW s \in DOMAIN stack, Copies(s),
         NEW at \in DOMAIN deps[stack[s].mod], at = stack[s].at, UseAt(stack[s].mod, at) # "tool",
         NEW t, t.kind \notin SourceKinds
  PROVE  ~Usable(stack[s], deps[stack[s].mod][at], t)
<1> PICK c, use : c = stack[s] /\ use = UseAt(c.mod, at)
  OBVIOUS
<1>1. c.mod \in Mods /\ Kind[c.mod] \in Copying
  BY StackTyped DEF LInv, Copies
<1>2. use \in {"src", "exclude", "toolfile"}
  <2>1. use \in {"src", "exclude", "toolfile", "tool"}
    BY <1>1 DEF LInv, OfTree, WalkedInOrder, Copying, UseAt
  <2> QED
    BY <2>1
<1>3. ~IsCc(c)
  <2> SUFFICES ASSUME c.obj # 0 PROVE objects[c.obj].kind \notin CcKinds
    BY DEF IsCc
  <2>1. objects[c.obj].mod = c.mod
    BY DEF LInv, FramesMeant
  <2>2. c.obj \in DOMAIN objects
    <3>1. c.obj \in Nat /\ c.obj <= Len(objects) /\ Len(objects) \in Nat /\ objects \in Seq(TargetRecords)
      BY StackTyped DEF LInv, IInv, TypeOK
    <3> QED
      BY <3>1
  <2>3. objects[c.obj].kind = Kind[c.mod]
    BY <2>1, <2>2 DEF LInv, KindsKept
  <2> QED
    BY <2>3, <1>1 DEF Copying, SourceKinds, CcKinds
<1> QED
  BY <1>2, <1>3 DEF Usable, TakesObject, UseAt

\* A conversion ends: its Target has its files, and its caller goes on.
LEMMA ConvertEndsCopies ==
  ASSUME CInv, LInv', Sources, ConvertEnds, UNCHANGED <<deps, request>>
  PROVE  CInv'
<1> PICK f, o, objs, s : f = Top /\ o = Top.obj /\ objs = Fill(objects, f) /\ s = Len(stack) - 1
  OBVIOUS
<1>1. o = Top.obj /\ objs = Fill(objects, Top)
  OBVIOUS
<1>2. /\ Finished /\ o # 0 /\ phase = "convert" /\ GoOn(Below, objs, o)
      /\ order' = IF o \in Range(order) THEN order ELSE Append(order, o)
  BY DEF ConvertEnds, Finished, Walking
<1>3. /\ IInv /\ IInv' /\ LInv /\ OneMeaning /\ WalkedInOrder /\ OfTree /\ Copyable
      /\ stack \in Seq(Frames) /\ deps \in [Mods -> Seq(Deps)] /\ order \in Seq(DOMAIN objects)
  BY <1>2, StackTyped DEF CInv, LInv, Sources, IInv, TypeOK
<1>4. /\ s \in Nat /\ Len(stack) = s + 1 /\ DOMAIN stack = 1..(s + 1) /\ stack[s + 1] = f
      /\ f \in Frames /\ f.mod \in Mods /\ f.at = Len(deps[f.mod]) + 1
      /\ o \in DOMAIN objects /\ objects[o].mod = f.mod /\ Lookup(f.ref, NULL) = f.mod
      /\ objs \in Seq(TargetRecords) /\ DOMAIN objs = DOMAIN objects
      /\ \A i \in DOMAIN objects :
           /\ objs[i].mod = objects[i].mod /\ objs[i].kind = objects[i].kind
           /\ objs[i].links = objects[i].links
           /\ i # o => objs[i].files = objects[i].files
      /\ objs[o].files = f.files
  BY <1>2, <1>3, EndsShape
<1>5. (\A k \in 1..s : stack[k].obj # o) /\ ~InOrder(o) /\ ~Lost(o)
  BY <1>2, <1>3, EndsAlone
<1>6. ASSUME NEW y, NEW i, CopiedFrom(y, i) \subseteq SettledMods PROVE Files(objs, y, i) = Files(objects, y, i)
  BY <1>1, <1>2, <1>3, <1>6, FillSettled
<1>7. \A k \in 1..(s + 1) : Files(objs, stack[k].mod, stack[k].at) = stack[k].files
  <2> SUFFICES ASSUME NEW k \in 1..(s + 1) PROVE Files(objs, stack[k].mod, stack[k].at) = stack[k].files
    OBVIOUS
  <2>1. CopiedFrom(stack[k].mod, stack[k].at) \subseteq SettledMods /\ stack[k].files = Files(objects, stack[k].mod, stack[k].at)
    BY <1>3, <1>4 DEF CInv, Copyable, FramesSettled, FilesSoFar
  <2> QED
    BY <2>1, <1>6
<1>8. /\ Below \in Seq(Frames) /\ Len(Below) = s /\ DOMAIN Below = 1..s
      /\ \A k \in 1..s : Below[k] = stack[k]
  BY <1>3, <1>4 DEF Below
<1>9. \A k \in 1..s : k \in DOMAIN stack /\ k < Len(stack) /\ k + 1 \in DOMAIN stack
  BY <1>4
<1>10. \A k \in 1..s :
        /\ stack[k].obj <= Len(objects) /\ stack[k].at \in DOMAIN deps[stack[k].mod]
        /\ stack[k].at <= Len(DepsOf(stack[k])) /\ stack[k].mod \in Mods
  <2> SUFFICES ASSUME NEW k \in 1..s
               PROVE  /\ stack[k].obj <= Len(objects) /\ stack[k].at \in DOMAIN deps[stack[k].mod]
                      /\ stack[k].at <= Len(DepsOf(stack[k])) /\ stack[k].mod \in Mods
    OBVIOUS
  <2>1. /\ stack[k].obj <= Len(objects) /\ DepsOf(stack[k]) \in Seq(Deps) /\ stack[k].at \in Nat \ {0}
        /\ stack[k].mod \in Mods
    BY <1>3, <1>9, StackTyped
  <2>2. stack[k].at <= Len(DepsOf(stack[k]))
    BY <1>3, <1>9 DEF IInv, Waiting
  <2>3. stack[k].at \in DOMAIN DepsOf(stack[k])
    BY <2>1, <2>2
  <2> QED
    BY <2>1, <2>2, <2>3 DEF DepsOf
<1> PICK c, x, at : c = stack[s] /\ x = c.mod /\ at = c.at
  OBVIOUS
<1>11. ASSUME s # 0
      PROVE  /\ s \in 1..s /\ x \in Mods /\ deps[x] \in Seq(Deps) /\ at \in DOMAIN deps[x]
             /\ Found(x, at) = f.mod /\ UseAt(x, at) # "tool"
  <2>1. s \in 1..s
    BY <1>4, <1>11
  <2>2. x \in Mods /\ deps[x] \in Seq(Deps) /\ at \in DOMAIN deps[x]
    BY <1>3, <1>10, <2>1
  <2>3. DepsOf(stack[s])[stack[s].at].ref = stack[s + 1].ref
    BY <1>3, <1>9, <2>1 DEF LInv, Asked
  <2>4. deps[x][at].ref = f.ref
    BY <2>3, <1>4 DEF DepsOf
  <2>5. Found(x, at) = Lookup(f.ref, NULL)
    BY <1>3, <2>2, <2>4, FoundMeans
  <2>6. stack[s + 1].obj # 0
    BY <1>2, <1>4
  <2>7. DepsOf(stack[s])[stack[s].at].use # "tool"
    BY <1>9, <2>1, <2>6 DEF CInv, ToolsAsked
  <2> QED
    BY <1>4, <2>1, <2>2, <2>5, <2>7 DEF DepsOf, UseAt
<1>12. ModsApart(objs)
  BY <1>3, <1>4, ObjectsApart DEF ModsApart
<1>13. FilledAtEnd(objs, Below) /\ FilesSoFar(objs, Below)
  <2>1. FilesSoFar(objs, Below)
    <3>1. \A k \in 1..s : k \in 1..(s + 1)
      BY <1>4
    <3> QED
      BY <3>1, <1>7, <1>8 DEF FilesSoFar
  <2>2. ASSUME NEW k \in 1..s, stack[k].obj # 0 PROVE objs[stack[k].obj].files = {}
    <3>1. stack[k].obj \in DOMAIN objects /\ stack[k].obj # o
      <4>1. objects \in Seq(TargetRecords) /\ stack[k].obj \in Nat /\ Len(objects) \in Nat
        BY <1>3, <1>9, StackTyped DEF IInv, TypeOK
      <4> QED
        BY <4>1, <1>5, <1>10, <2>2
    <3>2. objects[stack[k].obj].files = {}
      BY <1>9, <2>2 DEF CInv, FilledAtEnd
    <3> QED
      BY <3>1, <3>2, <1>4
  <2> QED
    BY <2>1, <2>2, <1>8 DEF FilledAtEnd
<1>14. /\ \A i \in DOMAIN objs : \A l \in objs[i].links : l[1] \in DOMAIN objs
       /\ \A k \in DOMAIN Below : Below[k].obj <= Len(objs)
       /\ \A k \in DOMAIN Below : Below[k].at <= Len(DepsOf(Below[k]))
  <2>1. Len(objs) = Len(objects)
    BY <1>3, <1>4 DEF IInv, TypeOK
  <2>2. \A i \in DOMAIN objs : \A l \in objs[i].links : l[1] \in DOMAIN objs
    BY <1>3, <1>4 DEF IInv, TypeOK
  <2> QED
    BY <2>1, <2>2, <1>8, <1>10
<1>15. Below # <<>> =>
         LET g == Below[Len(Below)] IN objs[o].mod = Found(g.mod, g.at) /\ UseAt(g.mod, g.at) # "tool"
  <2>1. ASSUME Below # <<>> PROVE s # 0 /\ Below[Len(Below)] = c
    BY <1>8, <2>1
  <2> QED
    BY <2>1, <1>4, <1>11
<1>16. /\ SameFiles(objects', objs)
       /\ FilledAtEnd(objects', stack') /\ FilesSoFar(objects', stack')
       /\ \A k \in 1..s : k # s => stack'[k] = stack[k]
       /\ \A k \in 1..s : stack'[k].at \in {stack[k].at, stack[k].at + 1}
  <2>1. /\ SameFiles(objects', objs)
        /\ FilledAtEnd(objects', stack') /\ FilesSoFar(objects', stack')
        /\ \A k \in DOMAIN Below : k # Len(Below) => stack'[k] = Below[k]
        /\ \A k \in DOMAIN Below : stack'[k].at \in {Below[k].at, Below[k].at + 1}
    BY <1>2, <1>3, <1>4, <1>8, <1>12, <1>13, <1>14, <1>15, GoOnFiles
  <2>2. \A k \in 1..s : k # s => stack'[k] = stack[k]
    BY <2>1, <1>8
  <2>3. \A k \in 1..s : stack'[k].at \in {stack[k].at, stack[k].at + 1}
    BY <2>1, <1>8
  <2> QED
    BY <2>1, <2>2, <2>3
<1>17. /\ Len(stack') = s /\ DOMAIN stack' = 1..s
       /\ \A k \in 1..s : stack'[k].mod = stack[k].mod /\ stack'[k].obj = stack[k].obj /\ stack'[k].ref = stack[k].ref
  <2>1. /\ stack' \in Seq(Frames) /\ Len(stack') = s
        /\ \A k \in DOMAIN Below :
             stack'[k].mod = Below[k].mod /\ stack'[k].obj = Below[k].obj /\ stack'[k].ref = Below[k].ref
    BY <1>2, <1>3, <1>4, <1>8, <1>14, GoOnShape
  <2>2. DOMAIN stack' = 1..s
    BY <2>1
  <2> QED
    BY <2>1, <2>2, <1>8
<1>18. /\ DOMAIN objects' = DOMAIN objects
       /\ \A i \in DOMAIN objects : objects'[i].mod = objects[i].mod /\ (i # o => objects'[i].files = objects[i].files)
       /\ objects'[o].files = f.files
       /\ \A m, n : Files(objects', m, n) = Files(objs, m, n)
  <2>1. \A m, n : Files(objects', m, n) = Files(objs, m, n)
    BY <1>16, FilesSame
  <2>2. DOMAIN objects' = DOMAIN objects
    BY <1>4, <1>16 DEF SameFiles
  <2>3. \A i \in DOMAIN objects : objects'[i].mod = objs[i].mod /\ objects'[i].files = objs[i].files
    BY <1>4, <1>16 DEF SameFiles
  <2>4. \A i \in DOMAIN objects : objects'[i].mod = objects[i].mod /\ (i # o => objects'[i].files = objects[i].files)
    BY <2>3, <1>4
  <2>5. objects'[o].files = f.files
    BY <2>3, <1>4
  <2> QED
    BY <2>1, <2>2, <2>4, <2>5
<1>19. ToolsAsked(stack')
  <2> SUFFICES ASSUME NEW k \in 1..s
               PROVE  /\ stack'[k].obj = 0 =>
                           Kind[stack'[k].mod] = "tool" /\ Lookup(stack'[k].ref, NULL) = stack'[k].mod /\ k # 1
                      /\ k < s /\ stack'[k + 1].obj # 0 => DepsOf(stack'[k])[stack'[k].at].use # "tool"
    BY <1>17 DEF ToolsAsked
  <2>1. stack'[k].obj = 0 =>
          Kind[stack'[k].mod] = "tool" /\ Lookup(stack'[k].ref, NULL) = stack'[k].mod /\ k # 1
    BY <1>9, <1>17 DEF CInv, ToolsAsked
  <2>2. ASSUME k < s, stack'[k + 1].obj # 0 PROVE DepsOf(stack'[k])[stack'[k].at].use # "tool"
    <3>1. k + 1 \in 1..s /\ k # s
      BY <1>4, <2>2
    <3>2. stack'[k] = stack[k] /\ stack[k + 1].obj # 0
      BY <1>16, <1>17, <2>2, <3>1
    <3> QED
      BY <1>9, <3>2 DEF CInv, ToolsAsked
  <2> QED
    BY <2>1, <2>2
<1>20. \A p \in DOMAIN order' : order'[p] = o \/ (p \in DOMAIN order /\ order'[p] = order[p])
  <2>1. CASE order' = order
    BY <2>1
  <2>2. CASE order' = Append(order, o)
    <3>1. /\ DOMAIN order' = 1..(Len(order) + 1) /\ DOMAIN order = 1..Len(order)
          /\ Len(order) \in Nat /\ order'[Len(order) + 1] = o
          /\ \A p \in 1..Len(order) : order'[p] = order[p]
      BY <1>3, <1>4, <2>2
    <3>2. \A p \in DOMAIN order' : p = Len(order) + 1 \/ p \in 1..Len(order)
      BY <3>1
    <3> QED
      BY <3>1, <3>2
  <2> QED
    BY <1>2, <2>1, <2>2
<1>21. InOrder(o)' /\ \A i : InOrder(i) => InOrder(i)'
  <2>1. o \notin Range(order)
    BY <1>5 DEF InOrder, Range
  <2>2. order' = Append(order, o)
    BY <1>2, <2>1
  <2>3. /\ DOMAIN order' = 1..(Len(order) + 1) /\ DOMAIN order = 1..Len(order)
        /\ Len(order) \in Nat /\ order'[Len(order) + 1] = o
        /\ \A p \in 1..Len(order) : order'[p] = order[p]
    BY <1>3, <1>4, <2>2
  <2>4. Len(order) + 1 \in DOMAIN order' /\ \A p \in 1..Len(order) : p \in DOMAIN order'
    BY <2>3
  <2> QED
    BY <2>3, <2>4 DEF InOrder
<1>22. FilesWhole'
  <2> SUFFICES ASSUME NEW p \in DOMAIN order', NEW m, m = objects'[order'[p]].mod
               PROVE  objects'[order'[p]].files = Files(objects', m, Len(deps[m]) + 1)
    BY FilesWholeNext
  <2>1. CASE order'[p] = o
    <3>1. m = f.mod /\ f.at = Len(deps[m]) + 1
      BY <2>1, <1>4, <1>18
    <3>2. s + 1 \in 1..(s + 1)
      BY <1>4
    <3>3. Files(objs, f.mod, f.at) = f.files
      BY <1>4, <1>7, <3>2
    <3>4. Files(objects', f.mod, f.at) = f.files
      BY <3>3, <1>18
    <3> QED
      BY <2>1, <3>1, <3>4, <1>18
  <2>2. CASE p \in DOMAIN order /\ order'[p] = order[p]
    <3>1. order[p] \in DOMAIN objects /\ order[p] # o
      BY <2>2, <1>3, <1>5 DEF InOrder
    <3>2. m = objects[order[p]].mod
      BY <2>2, <3>1, <1>18
    <3> PICK end : end = Len(deps[m]) + 1
      OBVIOUS
    <3>3. CopiedFrom(m, end) \subseteq SettledMods
      BY <2>2, <3>2, <1>3 DEF Copyable, OrderSettled
    <3>4. Files(objs, m, end) = Files(objects, m, end)
      BY <3>3, <1>6
    <3>5. objects[order[p]].files = Files(objects, m, end)
      BY <2>2, <3>2 DEF CInv, FilesWhole
    <3>6. objects'[order[p]].files = objects[order[p]].files
      BY <3>1, <1>18
    <3>7. Files(objects', m, end) = Files(objs, m, end)
      BY <1>18
    <3> QED
      BY <2>2, <3>4, <3>5, <3>6, <3>7
  <2> QED
    BY <2>1, <2>2, <1>20
<1>23. ASSUME phase' # "failed" PROVE Copyable'
  <2>1. ASSUME s # 0, Doomed(s) PROVE FALSE
    <3>1. Copies(s) /\ ~Copies(s + 1)
      BY <2>1 DEF Doomed
    <3>2. objs[o].kind \notin SourceKinds
      <4>1. objs[o].kind = Kind[f.mod]
        BY <1>3, <1>4 DEF LInv, KindsKept
      <4> QED
        BY <4>1, <3>1, <1>4 DEF Copies, Copying
    <3>3. ~Usable(c, deps[x][at], objs[o])
      BY <1>3, <1>9, <1>11, <2>1, <3>1, <3>2, DoomFails
    <3>4. Below # <<>> /\ Below[Len(Below)] = c
      BY <1>8, <1>11, <2>1
    <3>5. phase' = "failed"
      BY <1>2, <3>3, <3>4 DEF GoOn, DepsOf
    <3> QED
      BY <3>5, <1>23
  <2>2. DoomsKept
    <3> SUFFICES ASSUME NEW d, Doomed(d) PROVE d + 1 \in 1..s
      BY <1>17 DEF DoomsKept
    <3>1. d \in 1..(s + 1) /\ d + 1 \in 1..(s + 1)
      BY <1>4 DEF Doomed
    <3>2. d # s
      BY <2>1, <3>1
    <3>3. s \in Nat
      BY <1>4
    <3> QED
      BY <3>1, <3>2, <3>3
  <2>3. Onward
    <3>1. StackKept
      BY <1>4, <1>17 DEF StackKept
    <3>2. TargetsKept
      BY <1>18 DEF TargetsKept
    <3> QED
      BY <2>2, <3>1, <3>2, <1>21 DEF Onward
  <2>4. SettledMods \subseteq SettledMods'
    BY <1>3, <2>3, SettledStays
  <2>5. RanksFall'
    <3>1. DOMAIN stack' \subseteq DOMAIN stack
      BY <1>9, <1>17
    <3> QED
      BY <3>1, <1>3, <2>3, RanksKept DEF Copyable
  <2>6. f.mod \in SettledMods'
    BY <1>4, <1>18, <1>21 DEF SettledMods, Settled
  <2>7. ASSUME NEW k \in 1..s, stack'[k].at # stack[k].at
        PROVE  CopiedFrom(stack'[k].mod, stack'[k].at) \subseteq SettledMods'
    <3>1. k = s /\ s # 0 /\ stack'[k].at = at + 1 /\ stack'[k].mod = x
      <4>1. k = s
        BY <1>16, <2>7
      <4>2. s # 0
        BY <4>1, <2>7
      <4>3. stack'[k].at = at + 1
        BY <1>16, <2>7, <4>1
      <4> QED
        BY <1>17, <4>1, <4>2, <4>3
    <3>2. CopiedFrom(x, at) \subseteq SettledMods'
      BY <1>3, <1>9, <2>4, <3>1 DEF Copyable, FramesSettled
    <3>3. CopiedFrom(x, at + 1) \subseteq SettledMods'
      BY <1>11, <2>6, <3>1, <3>2, CopiedNext
    <3> QED
      BY <3>1, <3>3
  <2>8. ASSUME NEW p \in DOMAIN order', order'[p] = o, NEW m, m = objects'[order'[p]].mod
        PROVE  CopiedFrom(m, Len(deps[m]) + 1) \subseteq SettledMods'
    <3>1. m = f.mod /\ s + 1 \in DOMAIN stack
      BY <1>4, <1>18, <2>8
    <3>2. CopiedFrom(f.mod, f.at) \subseteq SettledMods
      BY <1>3, <1>4, <3>1 DEF Copyable, FramesSettled
    <3> QED
      BY <1>4, <2>4, <3>1, <3>2
  <2> QED
    BY <1>3, <1>9, <1>17, <1>20, <2>3, <2>5, <2>7, <2>8, CopyableKept
<1> QED
  BY <1>16, <1>19, <1>22, <1>23, SameDepsCopied DEF CInv

LEMMA InitCInv == Init => CInv
<1> SUFFICES ASSUME Init PROVE CInv
  OBVIOUS
<1>1. LInv
  BY InitLInv
<1>2. stack = <<>> /\ order = <<>> /\ objects = <<>>
  BY DEF Init
<1>3. ToolsAsked(stack) /\ FilledAtEnd(objects, stack) /\ FilesSoFar(objects, stack) /\ FilesWhole
  BY <1>2 DEF ToolsAsked, FilledAtEnd, FilesSoFar, FilesWhole
<1>4. Copyable
  BY <1>2 DEF Copyable, RanksFall, FramesSettled, OrderSettled
<1> QED
  BY <1>1, <1>3, <1>4 DEF CInv

LEMMA NextCInv == Sources /\ CInv /\ [Next]_vars => CInv'
<1> SUFFICES ASSUME Sources, CInv, [Next]_vars PROVE CInv'
  OBVIOUS
<1>1. LInv'
  BY NextLInv DEF CInv, Sources
<1>2. CASE Next
  <2>1. ASSUME NEW c \in Calls, Convert(c.ref, c.frm), UNCHANGED <<deps, request>> PROVE CInv'
    <3>1. CASE ConvertFails(c.ref, c.frm)
      BY <3>1, <2>1, <1>1, StayCopied DEF ConvertFails, Fail
    <3> QED
      BY <2>1, <3>1, <1>1, ConvertKnownCopies, ConvertAliasCopies, ConvertNewCopies DEF Convert
  <2>2. CASE ToolLeftOut /\ UNCHANGED <<deps, request>>
    BY <2>2, <1>1, StayCopied DEF ToolLeftOut, Fail
  <2>3. CASE Write /\ UNCHANGED <<deps, request>>
    BY <2>3, <1>1, StayCopied DEF Write
  <2> QED
    BY <1>1, <1>2, <2>1, <2>2, <2>3, SkipSystemLibCopies, ExpandToolCopies, ConvertEndsCopies,
       ToolExpandedCopies DEF Next
<1>3. CASE UNCHANGED vars
  BY <1>1, <1>3, StayCopied DEF vars
<1> QED
  BY <1>2, <1>3

\* Where every name means one module and no filegroup, genrule or host tool is
\* among its own sources, a finished Target has every file of the modules that
\* its sources name, as they are at the end: expand_srcs() copies no list that
\* another conversion is still filling (_filegroup, _genrule, _cc and
\* _host_tool in convert.py).
THEOREM CopiesAsFound ==
  ASSUME OneMeaning, WalkedInOrder, NoSourceCycle
  PROVE  Spec => []CopiesComplete
<1>1. CInv => CopiesComplete
  <2> SUFFICES ASSUME CInv, NEW p \in DOMAIN order
               PROVE  objects[order[p]].files = AllCopied(objects[order[p]].mod)
    BY DEF CopiesComplete
  <2> PICK m : m = objects[order[p]].mod
    OBVIOUS
  <2>1. objects[order[p]].files = Files(objects, m, Len(deps[m]) + 1)
    BY DEF CInv, FilesWhole
  <2>2. deps[m] \in Seq(Deps)
    BY ModsOfObjects DEF CInv, LInv, IInv, TypeOK
  <2>3. \A j \in DOMAIN deps[m] : j < Len(deps[m]) + 1
    BY <2>2
  <2>4. \A use : Before(m, Len(deps[m]) + 1, use) = IndexesOf(m, {use})
    BY <2>3 DEF Before, IndexesOf, UseAt
  <2>5. \A x, i : /\ GivesOf(objects, Found(x, i)) = UNION {Gives(objects[o]) : o \in TargetsFor(deps[x][i].ref, x)}
                  /\ OutputsOf(objects, Found(x, i)) = UNION {Outputs(objects[o]) : o \in TargetsFor(deps[x][i].ref, x)}
    BY DEF GivesOf, OutputsOf, Found, TargetsFor
  <2>6. ASSUME NEW x, NEW use, use # "gensrc" PROVE Copied(x, use) = GivenBy(objects, x, IndexesOf(x, {use}))
    <3>1. Copied(x, use) =
            UNION {UNION {Gives(objects[o]) : o \in TargetsFor(deps[x][i].ref, x)} : i \in IndexesOf(x, {use})}
      BY <2>6 DEF Copied
    <3>2. GivenBy(objects, x, IndexesOf(x, {use})) = UNION {GivesOf(objects, Found(x, i)) : i \in IndexesOf(x, {use})}
      BY DEF GivenBy
    <3> QED
      BY <3>1, <3>2, <2>5
  <2>7. Copied(m, "gensrc") = Generated(objects, m, Len(deps[m]) + 1)
    BY <2>4, <2>5 DEF Copied, Generated
  <2>8. \A t : ToolFiles(objects, t) = {t} \cup Copied(t, "src")
    BY <2>6 DEF ToolFiles
  <2>9. OfTools(objects, m, Len(deps[m]) + 1) = ToolsCopied(m)
    BY <2>4, <2>8 DEF OfTools, Found, ToolsCopied
  <2>10. ASSUME NEW use, use # "gensrc" PROVE Given(objects, m, Len(deps[m]) + 1, use) = Copied(m, use)
    <3>1. Given(objects, m, Len(deps[m]) + 1, use) = GivenBy(objects, m, IndexesOf(m, {use}))
      BY <2>4 DEF Given
    <3> QED
      BY <3>1, <2>6, <2>10
  <2>11. /\ Given(objects, m, Len(deps[m]) + 1, "src") = Copied(m, "src")
         /\ Given(objects, m, Len(deps[m]) + 1, "exclude") = Copied(m, "exclude")
         /\ Given(objects, m, Len(deps[m]) + 1, "toolfile") = Copied(m, "toolfile")
    BY <2>10
  <2>12. Files(objects, m, Len(deps[m]) + 1) =
           (({m} \cup Copied(m, "src")) \ Copied(m, "exclude"))
             \cup Copied(m, "toolfile") \cup OfTools(objects, m, Len(deps[m]) + 1) \cup Copied(m, "gensrc")
    BY <2>7, <2>11 DEF Files
  <2> QED
    BY <2>1, <2>9, <2>12 DEF AllCopied
<1>2. Sources
  BY DEF Sources
<1> QED
  BY <1>1, <1>2, InitCInv, NextCInv, PTL DEF Spec

=============================================================================
