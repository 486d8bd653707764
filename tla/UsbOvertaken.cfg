\* The hotplug thread takes longer than the two seconds to the next scan.
SPECIFICATION Spec
CONSTANTS
  n1 = n1
  n2 = n2
  d1 = d1
  d2 = d2
  o1 = o1
  o2 = o2
  NULL = NULL
  Nodes = {n1, n2}
  Devices = {d1, d2}
  Configs = {1, 2}
  Objects = {o1, o2}
  Interfaces <- SomeInterfaces
  QueueBound = 1
  Disturbed = {}
  MaxLen = 3
  Chunk = 2
INVARIANTS
  EventsAlive
