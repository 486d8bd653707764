\* Every file of up to four lines, four characters or the like, and three
\* ranges for a table of two.
SPECIFICATION Spec
CONSTANTS
  r1 = r1
  r2 = r2
  r3 = r3
  NULL = NULL
  NoRange = NoRange
  NUL = NUL
  Chars <- SomeChars
  MAXNS = 2
  Width = 2
  Media <- SomeMedia
  Loopbacks = {"lo"}
  Ranges = {r1, r2, r3}
  MAX_REGIONS = 2
  Calls <- SomeCalls
  First = 2
INVARIANTS
  NetworkAsConfigured
  CallsAgree
PROPERTY
  ChildWiped
CHECK_DEADLOCK FALSE
