---------------------------- MODULE MCConverter ----------------------------
(***************************************************************************)
(* Instances of Converter: trees whose libraries depend on each other in   *)
(* every way, cycles included, and trees with two modules of one name.     *)
(***************************************************************************)
EXTENDS Converter

U(n, use) == [ref |-> Plain(n), use |-> use]
P(d, n, use) == [ref |-> [path |-> d, name |-> n], use |-> use]
Up(n) == [name |-> n, dir |-> "p"]

TreeDirs == {"p", "overlay"}
TreeNames == {"tool", "a", "b", "fg", "fg2", "gen", "obj", "py",
              "libc", "gone"}
TreeNamespace == [d \in TreeDirs |-> NULL]

\* The tool links a and b, which link each other and themselves; sources go
\* from fg to gen and from gen's python tool to fg2, and b is replaced in the overlay.
TreeMods == {Up(n) : n \in {"tool", "a", "b", "fg", "fg2", "gen", "obj", "py"}}
              \cup {[name |-> "b", dir |-> "overlay"]}

TreeKind == [tool |-> "binary", a |-> "static", b |-> "static", fg |-> "filegroup",
             fg2 |-> "filegroup", gen |-> "gen", obj |-> "object", py |-> "tool"]

TreeDeps ==
  [tool : {<<U("a", "static")>>, <<P("p", "a", "whole"), U("b", "static")>>,
           <<U("obj", "src"), U("b", "whole"), U("gone", "static")>>,
           <<U("fg", "src"), U("fg", "exclude"), U("b", "shared"), P("p", "a", "static")>>},
   a : {<<>>, <<U("b", "static"), U("libc", "shared")>>,
        <<P("p", "fg", "src"), U("gen", "genhdr"), U("b", "static")>>, <<U("obj", "src"), U("a", "static")>>},
   b : {<<>>, <<P("p", "a", "static")>>, <<U("gen", "gensrc"), U("a", "whole")>>,
        <<U("py", "static")>>},
   fg : {<<>>, <<U("gen", "src")>>, <<U("obj", "src")>>},
   gen : {<<>>, <<U("fg2", "src"), U("fg2", "exclude"), U("fg2", "toolfile"), U("py", "tool")>>,
          <<U("obj", "tool")>>, <<U("obj", "toolfile")>>},
   obj : {<<>>, <<U("a", "header"), U("fg", "src")>>},
   fg2 : {<<>>},
   py : {<<U("fg2", "src")>>}]

TreeTrees == {[m \in TreeMods |-> d[m.name]] : d \in TreeDeps}
TreeKinds == [m \in TreeMods |-> TreeKind[m.name]]
Request(ts, strict, disabled) == [tools |-> ts, strict |-> strict, disabled |-> disabled]
TreeRequests ==
  {Request(<<"tool">>, TRUE, {}), Request(<<"b", "gone", "tool">>, FALSE, {}),
   Request(<<"tool", "b">>, FALSE, {Up("tool")}), Request(<<"b", "gone">>, TRUE, {})}

\* In these trees a reference has one meaning, as the theorem on links asks.
ASSUME TreesHaveOneMeaning == Mods = TreeMods => OneMeaning

\* They are walked as the code walks them, and a filegroup may take files of a
\* genrule and that of a host tool, but not the other way around.
TreeRank == [m \in TreeMods |-> CASE m.name = "fg" -> 3 [] m.name = "gen" -> 2
                                  [] m.name = "py" -> 1 [] OTHER -> 0]
ASSUME TreesAreWalkedInOrder == Mods = TreeMods => WalkedInOrder
ASSUME TreesHaveNoSourceCycle ==
  Mods = TreeMods => \A tree \in Trees : FallsAlong(TreeRank, tree)

-----------------------------------------------------------------------------
\* Two libraries of one name, each in a namespace of its own, with a user each.
TwinDirs == {"p", "q", "overlay"}
TwinNames == {"t1", "t2", "a", "b"}
TwinNamespace == [d \in TwinDirs |-> IF d = "overlay" THEN NULL ELSE d]
TwinMods == {[name |-> "t1", dir |-> "p"], [name |-> "t2", dir |-> "q"],
             [name |-> "a", dir |-> "p"], [name |-> "a", dir |-> "q"],
             [name |-> "b", dir |-> "p"]}
TwinKinds == [m \in TwinMods |-> IF m.name \in {"t1", "t2"} THEN "binary" ELSE "static"]
TwinDeps == [t1 : {<<U("a", "static")>>, <<U("b", "static"), U("a", "static")>>},
             t2 : {<<U("a", "static")>>, <<P("p", "b", "static"), U("a", "static")>>}]
TwinTrees ==
  {[m \in TwinMods |-> IF TwinKinds[m] = "binary" THEN d[m.name] ELSE <<>>] : d \in TwinDeps}
TwinRequests == {Request(<<"t1", "t2">>, TRUE, {})}

=============================================================================
