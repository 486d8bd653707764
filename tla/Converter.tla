----------------------------- MODULE Converter -----------------------------
(***************************************************************************)
(* The builder's conversion of resolved Soong modules into CMake targets   *)
(* (builder/convert.py, called from builder/__main__.py).                  *)
(*                                                                         *)
(* convert() is recursive: a module's sources, generated sources and       *)
(* libraries are converted on demand while the module itself is being      *)
(* filled, and libraries may depend on each other in cycles.  The model    *)
(* runs that recursion on an explicit stack, one dependency at a time.  A  *)
(* file is named by the module it comes from; flags, include paths and the *)
(* generated text are left out.                                            *)
(***************************************************************************)
EXTENDS Naturals, Sequences, Functions

CONSTANTS
  Names,       \* module names
  Dirs,        \* directories with an Android.bp, and Overlay
  Overlay,     \* where overlay modules live
  Namespace,   \* the soong_namespace of each directory, NULL for the root one
  SystemLibs,  \* libraries the toolchain provides
  Mods,        \* the modules of the fetched release and of the overlays
  Kind,        \* what each of them is
  Trees,       \* what they may depend on
  Requests,    \* the tools that may be asked for
  NULL

SourceKinds == {"filegroup", "gen"}
CcKinds == {"static", "object", "headers", "binary", "prebuilt"}
TargetKinds == SourceKinds \cup CcKinds
\* "tool" is a python or shell host binary, "other" what convert() refuses
Kinds == TargetKinds \cup {"tool", "other"}

\* What a module says of another: "a" (path NULL), ":a" or "//dir:a", and where.
Refs == [path : (Dirs \ {Overlay}) \cup {NULL}, name : Names]
LinkUses == {"whole", "static", "shared", "header", "genhdr", "objs"}
Uses == LinkUses \cup {"src", "exclude", "toolfile", "tool", "gensrc"}
Deps == [ref : Refs, use : Uses]

ASSUME ConstantsAssumption ==
  /\ Overlay \in Dirs
  /\ NULL \notin Dirs
  /\ NULL \notin Mods
  /\ Namespace \in [Dirs -> Dirs \cup {NULL}]
  /\ SystemLibs \subseteq Names
  /\ Mods \subseteq [name : Names, dir : Dirs]
  /\ Kind \in [Mods -> Kinds]

\* A tree: every module's dependencies, in the order they are walked.
ASSUME TreesAssumption == Trees \subseteq [Mods -> Seq(Deps)]

\* A request: the tools, whether --tools named them, and the modules that are
\* disabled for the target.
ASSUME RequestsAssumption ==
  \A r \in Requests :
    /\ r.tools \in Seq(Names)
    /\ r.strict \in BOOLEAN
    /\ r.disabled \subseteq Mods

VARIABLES
  deps,     \* the tree
  request,  \* what main() is asked to build
  phase,    \* "convert", then "written" or "failed"
  tool,     \* the tool being converted
  targets,  \* Converter.targets: what was asked for -> number of the Target, 0 for none
  objects,  \* every Target made so far
  stack,    \* the conversions under way, innermost last
  order,    \* Converter.order
  built     \* the tools' Targets, for the sdk_tools goal

vars == <<deps, request, phase, tool, targets, objects, stack, order, built>>

-----------------------------------------------------------------------------
(* Loader.lookup *)

Plain(n) == [path |-> NULL, name |-> n]

\* The namespace of a module; an overlay module has none.
NsOf(m) == IF m = NULL \/ m.dir = Overlay THEN NULL ELSE Namespace[m.dir]

\* What singles a candidate out, in the order lookup() tries it: it is an
\* overlay's ("//dir:name" is no overlay's name), the only one, of the
\* namespace the reference is seen from, or of the root namespace.
Fits(m, i, ref, frm) ==
  CASE i = 1 -> ref.path = NULL /\ m.dir = Overlay
    [] i = 2 -> TRUE
    [] i = 3 -> NsOf(m) = NsOf(frm)
    [] i = 4 -> NsOf(m) = NULL

\* The module a reference names as seen from `frm`, NULL when there is none or
\* it is ambiguous.
Lookup(ref, frm) ==
  LET cands == {m \in Mods : m.name = ref.name /\ ref.path \in {NULL, m.dir}}
      hits == {h \in (1..4) \X cands :
                 \A m \in cands : Fits(m, h[1], ref, frm) <=> m = h[2]}
  IN  IF hits = {} THEN NULL ELSE (CHOOSE h \in hits : \A g \in hits : h[1] <= g[1])[2]

-----------------------------------------------------------------------------
(* The state of one conversion *)

\* A stack entry: the module walked, the Target it fills (0 when only a host
\* tool's sources are expanded), what was asked for, the next dependency and
\* the files gathered so far.
Frame(m, o, ref) == [mod |-> m, obj |-> o, ref |-> ref, at |-> 1, files |-> {m}]

Top == stack[Len(stack)]
Below == SubSeq(stack, 1, Len(stack) - 1)
Walking == phase = "convert" /\ stack # <<>>
DepsOf(f) == deps[f.mod]
HasDep == Walking /\ Top.at <= Len(DepsOf(Top))
Dep == DepsOf(Top)[Top.at]

Target(m) == [mod |-> m, kind |-> Kind[m], files |-> {}, links |-> {}]

\* A genrule's outputs, once they are set; no other Target has any.
Outputs(t) == IF t.kind = "gen" THEN t.files \cap {t.mod} ELSE {}

\* What a source reference to Target t copies.
Gives(t) == IF t.kind = "filegroup" THEN t.files ELSE Outputs(t)

\* Mutant: the property's name is kept as the mode.
ModeRaw(kind, use) == use

\* whole_static_libs are linked whole into a binary only.
Mode(kind, use) ==
  CASE use = "whole" /\ kind = "binary" -> "whole"
    [] use = "header" -> "headers"
    [] use \in {"objs", "src"} -> "object"
    [] OTHER -> "link"

\* An object may stand in a cc module's srcs; in a filegroup's, a genrule's or
\* an excludes or tool_files list it may not.
IsCc(f) == f.obj # 0 /\ objects[f.obj].kind \in CcKinds
TakesObject(f, d) == d.use = "src" /\ IsCc(f)

Usable(f, d, t) ==
  d.use \in {"src", "exclude", "toolfile"} =>
    t.kind \in SourceKinds \/ (t.kind = "object" /\ TakesObject(f, d))

\* Mutant: an object named in srcs is not linked.
LinksLibsOnly(f, d, t) == d.use \in LinkUses

Links(f, d, t) == d.use \in LinkUses \/ (t.kind = "object" /\ TakesObject(f, d))

\* The files the caller has after using Target t.
FilesAfter(f, d, t) ==
  CASE d.use \in {"src", "toolfile"} -> f.files \cup Gives(t)
    [] d.use = "gensrc" -> f.files \cup Outputs(t)
    [] d.use = "exclude" -> f.files \ Gives(t)
    [] OTHER -> f.files

\* A frame goes on to its next dependency, with these files.
Moved(f, files) == [f EXCEPT !.at = @ + 1, !.files = files]

Used(f, d, t) == Moved(f, FilesAfter(f, d, t))

Linked(t, o, use) == [t EXCEPT !.links = @ \cup {<<o, Mode(t.kind, use)>>}]

\* The caller goes on with Target number o: the frame on top of stk uses it as
\* its current dependency says, or the main loop takes it as a tool.
GoOn(stk, objs, o) ==
  IF stk = <<>>
  THEN /\ built' = built \cup {o} /\ tool' = tool + 1
       /\ stack' = stk /\ objects' = objs /\ UNCHANGED phase
  ELSE LET n == Len(stk)
           f == stk[n]
           d == DepsOf(f)[f.at]
           t == objs[o]
       IN  /\ IF Usable(f, d, t)
              THEN /\ stack' = [stk EXCEPT ![n] = Used(f, d, t)]
                   /\ objects' = IF Links(f, d, t)
                                 THEN [objs EXCEPT ![f.obj] = Linked(@, o, d.use)]
                                 ELSE objs
                   /\ UNCHANGED phase
              ELSE phase' = "failed" /\ stack' = stk /\ objects' = objs
           /\ UNCHANGED <<built, tool>>

Fail == phase' = "failed" /\ UNCHANGED <<tool, targets, objects, stack, order, built>>

-----------------------------------------------------------------------------
(* convert(ref, frm), called for the next tool or the next dependency *)

\* The call to be made next, if any: by the main loop for a tool, seen from no
\* module, or by the innermost conversion for a dependency.
ToolCalls ==
  IF phase = "convert" /\ stack = <<>> /\ tool <= Len(request.tools)
  THEN {[ref |-> Plain(request.tools[tool]), frm |-> NULL]}
  ELSE {}

ToolsWanted ==
  {c \in ToolCalls :
     LET m == Lookup(c.ref, NULL)
     IN  m # NULL /\ (request.strict \/ m \notin request.disabled)}

OfSystem(d) == d.use \in LinkUses /\ d.ref.path = NULL /\ d.ref.name \in SystemLibs

DepCalls ==
  IF HasDep /\ Dep.use # "tool" /\ ~OfSystem(Dep)
  THEN {[ref |-> Dep.ref, frm |-> Top.mod]}
  ELSE {}

Calls == ToolsWanted \cup DepCalls

\* Mutant: a Target is taken once it is in order: a cycle waits for itself.
ConvertKnownFinished(ref, frm) ==
  /\ targets[ref] \in Range(order)
  /\ GoOn(stack, objects, targets[ref])
  /\ UNCHANGED <<targets, order>>

\* The name has been asked for before: its Target, finished or still filling.
ConvertKnown(ref, frm) ==
  /\ targets[ref] # 0
  /\ GoOn(stack, objects, targets[ref])
  /\ UNCHANGED <<targets, order>>

\* A //dir:name of a module that has been asked for by its name.
ConvertAlias(ref, frm) ==
  LET m == Lookup(ref, frm)
  IN  /\ targets[ref] = 0 /\ m # NULL
      /\ targets[Plain(m.name)] # 0
      /\ targets' = [targets EXCEPT ![ref] = targets[Plain(m.name)]]
      /\ GoOn(stack, objects, targets[Plain(m.name)])
      /\ UNCHANGED order

\* Mutant: a Target is registered under what was asked for only.
ConvertNewByRef(ref, frm) ==
  LET m == Lookup(ref, frm)
      o == Len(objects) + 1
  IN  /\ targets[ref] = 0 /\ m # NULL
      /\ Kind[m] \in TargetKinds
      /\ objects' = Append(objects, Target(m))
      /\ targets' = [targets EXCEPT ![ref] = o]
      /\ stack' = Append(stack, Frame(m, o, ref))
      /\ UNCHANGED <<phase, tool, order, built>>

\* _new() registers the Target before the module's dependencies are walked.
ConvertNew(ref, frm) ==
  LET m == Lookup(ref, frm)
      o == Len(objects) + 1
  IN  /\ targets[ref] = 0 /\ m # NULL
      /\ targets[Plain(m.name)] = 0
      /\ Kind[m] \in TargetKinds
      /\ objects' = Append(objects, Target(m))
      /\ targets' = [targets EXCEPT ![Plain(m.name)] = o]
      /\ stack' = Append(stack, Frame(m, o, ref))
      /\ UNCHANGED <<phase, tool, order, built>>

\* ResolveError: no such module, or one that convert() does not build.
ConvertFails(ref, frm) ==
  LET m == Lookup(ref, frm)
  IN  /\ targets[ref] = 0
      /\ m # NULL => targets[Plain(m.name)] = 0 /\ Kind[m] \notin TargetKinds
      /\ Fail

\* dep() of a library the toolchain has.
SkipSystemLib ==
  /\ HasDep /\ OfSystem(Dep)
  /\ stack' = [stack EXCEPT ![Len(stack)] = Moved(@, @.files)]
  /\ UNCHANGED <<phase, tool, targets, objects, order, built>>

\* A genrule's tool runs from source: only its sources are expanded, and it
\* gets no Target.
ExpandTool ==
  /\ HasDep /\ Dep.use = "tool"
  /\ LET m == Lookup(Dep.ref, Top.mod)
     IN  IF m # NULL /\ Kind[m] = "tool"
         THEN /\ stack' = Append(stack, Frame(m, 0, Dep.ref))
              /\ UNCHANGED <<phase, tool, targets, objects, order, built>>
         ELSE Fail

-----------------------------------------------------------------------------
(* The end of a conversion *)

Finished == Walking /\ Top.at > Len(DepsOf(Top))

\* Sources and outputs are set at the end: until then a Target gives nothing.
Fill(objs, f) == [objs EXCEPT ![f.obj].files = f.files]

\* Mutant: only what was asked for by its plain name is put in order.
ConvertEndsPlain ==
  /\ Finished /\ Top.obj # 0
  /\ targets' = [targets EXCEPT ![Top.ref] = Top.obj]
  /\ order' = IF Top.ref.path = NULL THEN Append(order, Top.obj) ELSE order
  /\ GoOn(Below, Fill(objects, Top), Top.obj)

ConvertEnds ==
  /\ Finished /\ Top.obj # 0
  /\ targets' = [targets EXCEPT ![Top.ref] = Top.obj]
  /\ order' = IF Top.obj \in Range(order) THEN order ELSE Append(order, Top.obj)
  /\ GoOn(Below, Fill(objects, Top), Top.obj)

\* Mutant: the tool's files are forgotten.
ToolForgotten ==
  /\ Finished /\ Top.obj = 0
  /\ stack' = [Below EXCEPT ![Len(stack) - 1] = Moved(@, @.files)]
  /\ UNCHANGED <<phase, tool, targets, objects, order, built>>

\* The tool's files become the genrule's.
ToolExpanded ==
  /\ Finished /\ Top.obj = 0
  /\ stack' = [Below EXCEPT ![Len(stack) - 1] = Moved(@, @.files \cup Top.files)]
  /\ UNCHANGED <<phase, tool, targets, objects, order, built>>

-----------------------------------------------------------------------------
(* main() *)

\* A tool that this release does not have, or has disabled, is left out unless
\* --tools named it.
ToolLeftOut ==
  /\ ToolCalls \ ToolsWanted # {}
  /\ IF request.strict
     THEN Fail
     ELSE /\ tool' = tool + 1
          /\ UNCHANGED <<phase, targets, objects, stack, order, built>>

Write ==
  /\ phase = "convert" /\ stack = <<>> /\ tool > Len(request.tools)
  /\ phase' = "written"
  /\ UNCHANGED <<tool, targets, objects, stack, order, built>>

Init ==
  /\ deps \in Trees /\ request \in Requests
  /\ phase = "convert" /\ tool = 1
  /\ targets = [r \in Refs |-> 0]
  /\ objects = <<>> /\ stack = <<>> /\ order = <<>> /\ built = {}

Convert(ref, frm) ==
  \/ ConvertKnown(ref, frm)
  \/ ConvertAlias(ref, frm)
  \/ ConvertNew(ref, frm)
  \/ ConvertFails(ref, frm)

Next ==
  /\ UNCHANGED <<deps, request>>
  /\ \/ \E c \in Calls : Convert(c.ref, c.frm)
     \/ SkipSystemLib
     \/ ExpandTool
     \/ ConvertEnds
     \/ ToolExpanded
     \/ ToolLeftOut
     \/ Write

Spec == Init /\ [][Next]_vars

FairSpec == Spec /\ WF_vars(Next)

-----------------------------------------------------------------------------
(* Properties *)

Modes == {"link", "headers", "whole", "object"}

TargetRecords ==
  [mod : Mods, kind : TargetKinds, files : SUBSET Mods, links : SUBSET (Nat \X Modes)]

Frames == [mod : Mods, obj : Nat, ref : Refs, at : Nat \ {0}, files : SUBSET Mods]

\* Every field keeps its type; links, stack, order and built name Targets that
\* exist, and no conversion runs past its last dependency.
TypeOK ==
  /\ deps \in [Mods -> Seq(Deps)] /\ request \in Requests
  /\ phase \in {"convert", "written", "failed"}
  /\ tool \in 1..(Len(request.tools) + 1)
  /\ objects \in Seq(TargetRecords)
  /\ \A i \in DOMAIN objects : \A l \in objects[i].links : l[1] \in DOMAIN objects
  /\ targets \in [Refs -> 0..Len(objects)]
  /\ stack \in Seq(Frames)
  /\ \A k \in DOMAIN stack :
       stack[k].obj <= Len(objects) /\ stack[k].at <= Len(DepsOf(stack[k])) + 1
  /\ order \in Seq(DOMAIN objects)
  /\ built \subseteq DOMAIN objects

\* A module has one Target however often, under whichever of its names and in
\* whatever cycles it is asked for (convert() and _new()): CMakeLists.txt never
\* defines a target twice, and the recursion enters no module again.
OneTarget ==
  /\ \A i, j \in DOMAIN objects : objects[i].mod.name = objects[j].mod.name => i = j
  /\ \A i, j \in DOMAIN stack : stack[i].obj = stack[j].obj /\ stack[i].obj # 0 => i = j

\* When the file is written, every Target made is in Converter.order once, and
\* whatever a Target links or sdk_tools builds is written with it.
AllEmitted ==
  phase = "written" =>
    /\ \A i \in DOMAIN objects : \E p \in DOMAIN order : order[p] = i
    /\ \A p, q \in DOMAIN order : order[p] = order[q] => p = q
    /\ built \subseteq Range(order)

\* The Target of the module a reference names as seen from m, if it has one.
TargetsFor(ref, m) == {o \in DOMAIN objects : objects[o].mod = Lookup(ref, m)}

IndexesOf(m, uses) == {i \in DOMAIN deps[m] : deps[m][i].use \in uses}

\* What m is given by the Targets it uses so.
Copied(m, use) ==
  UNION {UNION {IF use = "gensrc" THEN Outputs(objects[o]) ELSE Gives(objects[o]) :
                  o \in TargetsFor(deps[m][i].ref, m)} :
           i \in IndexesOf(m, {use})}

\* The files of the host tools m runs,
ToolsCopied(m) ==
  UNION {{t} \cup Copied(t, "src") : t \in {Lookup(deps[m][i].ref, m) : i \in IndexesOf(m, {"tool"})}}

\* and all the files m is to have.
AllCopied(m) ==
  (({m} \cup Copied(m, "src")) \ Copied(m, "exclude"))
    \cup Copied(m, "toolfile") \cup ToolsCopied(m) \cup Copied(m, "gensrc")

\* What the code asks of a module and when: srcs, then exclude_srcs, then a
\* genrule's tool_files and tools or a cc module's generated sources
\* (_filegroup, _genrule, _cc), and a host tool for its srcs alone (_host_tool).
WalkedInOrder ==
  \A tree \in Trees, m \in Mods :
    /\ Kind[m] = "tool" => \A i \in DOMAIN tree[m] : tree[m][i].use = "src"
    /\ Kind[m] \in SourceKinds =>
         \A i \in DOMAIN tree[m] : tree[m][i].use \in {"src", "exclude", "toolfile", "tool"}
    /\ \A i, j \in DOMAIN tree[m] :
         i < j =>
           /\ tree[m][j].use = "src" => tree[m][i].use \notin {"exclude", "toolfile", "tool", "gensrc"}
           /\ tree[m][j].use = "exclude" => tree[m][i].use \notin {"toolfile", "tool", "gensrc"}

\* Filegroups, genrules and host tools, which files are copied along.
Copying == SourceKinds \cup {"tool"}

\* The rank falls along every reference of one of these to another: their
\* references have no cycle.
FallsAlong(rank, tree) ==
  \A m \in Mods : \A i \in DOMAIN tree[m] :
    LET n == Lookup(tree[m][i].ref, m)
    IN  n # NULL /\ Kind[m] \in Copying /\ Kind[n] \in Copying => rank[n] < rank[m]

NoSourceCycle == \A tree \in Trees : \E rank \in [Mods -> Nat] : FallsAlong(rank, tree)

\* A finished Target has every file of the modules its sources name, as they
\* are at the end: expand_srcs() copies lists that other conversions are still
\* filling, and must not copy a half-filled one.
CopiesComplete ==
  \A p \in DOMAIN order : objects[order[p]].files = AllCopied(objects[order[p]].mod)

\* The references a tree may make: its modules' and the tools'.
Said(tree) == {Plain(n) : n \in Names} \cup UNION {{tree[m][i].ref : i \in DOMAIN tree[m]} : m \in Mods}

\* A reference means the same module wherever it is seen from, and the one
\* its plain name means: no namespaces that share a name, and no //dir:name of
\* a module that an overlay replaces.
OneMeaning ==
  \A r \in UNION {Said(tree) : tree \in Trees}, f, g \in Mods \cup {NULL} :
    /\ Lookup(r, f) = Lookup(r, g)
    /\ Lookup(r, f) # NULL => Lookup(Plain(r.name), g) = Lookup(r, f)

\* A finished Target is linked to the modules that Loader.lookup finds as seen
\* from its own module (convert(name, m)), in cycles too, and to nothing else.
LinksFound ==
  \A p \in DOMAIN order :
    LET t == objects[order[p]]
        libs == {i \in IndexesOf(t.mod, LinkUses) :
                   LET r == deps[t.mod][i].ref
                   IN  r.path # NULL \/ r.name \notin SystemLibs}
        objs == {i \in IndexesOf(t.mod, {"src"}) :
                   LET m == Lookup(deps[t.mod][i].ref, t.mod)
                   IN  Kind[m] = "object"}
    IN  {objects[l[1]].mod : l \in t.links} =
          {Lookup(deps[t.mod][i].ref, t.mod) : i \in libs \cup objs}

\* The builder ends, whatever the modules depend on.
Ends == <>(phase \in {"written", "failed"})
=============================================================================
