\* Every name means one module; the builder stops when it is done
SPECIFICATION FairSpec
CONSTANTS
  Names <- TreeNames
  Dirs <- TreeDirs
  Overlay = "overlay"
  Namespace <- TreeNamespace
  SystemLibs = {"libc"}
  Mods <- TreeMods
  Kind <- TreeKinds
  Trees <- TreeTrees
  Requests <- TreeRequests
  NULL = NULL
CHECK_DEADLOCK FALSE
INVARIANTS
  TypeOK
  OneTarget
  AllEmitted
  CopiesComplete
  LinksFound
PROPERTIES
  Ends
