\* Two modules of one name in two namespaces
SPECIFICATION FairSpec
CONSTANTS
  Names <- TwinNames
  Dirs <- TwinDirs
  Overlay = "overlay"
  Namespace <- TwinNamespace
  SystemLibs = {}
  Mods <- TwinMods
  Kind <- TwinKinds
  Trees <- TwinTrees
  Requests <- TwinRequests
  NULL = NULL
CHECK_DEADLOCK FALSE
INVARIANTS
  LinksFound
