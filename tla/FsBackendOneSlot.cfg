\* two endpoints, one slot, and transfers longer than the largest buffer
SPECIFICATION Spec
CONSTANTS
  in = in
  out = out
  Endpoints <- BulkPair
  NSlots = 1
  Lengths <- TooLong
  MaxBufsize = 1
  NULL = NULL
PROPERTIES
  SlotsAreKept
