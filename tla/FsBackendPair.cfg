\* adb's reader and writer on one handle, a slot each, buffers that grow
SPECIFICATION FairSpec
CONSTANTS
  in = in
  out = out
  Endpoints <- BulkPair
  NSlots = 2
  Lengths <- Grows
  MaxBufsize = 2
  NULL = NULL
INVARIANTS
  TypeOK
  SlotIdle
  CompletionNotLost
  SlotsMatchKernel
  OneSlotEach
PROPERTIES
  ImplementsSubmit
  WaitersReturn
