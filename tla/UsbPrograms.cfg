\* Two nodes, devices that replace each other, memory for an object per node.
SPECIFICATION FairSpec
CONSTANTS
  n1 = n1
  n2 = n2
  d1 = d1
  d2 = d2
  o1 = o1
  o2 = o2
  NULL = NULL
  Nodes = {n1, n2}
  Devices = {d1, d2}
  Configs = {1, 2}
  Objects = {o1, o2}
  Interfaces <- SomeInterfaces
  QueueBound = 1
  Disturbed = {"client"}
  MaxLen = 3
  Chunk = 2
INVARIANTS
  TypeOK
  RefsAreHeld
  ConfigCached
  EventsAlternate
  WholeOrError
PROPERTIES
  ListedFresh
  Responsive
