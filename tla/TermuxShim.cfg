\* two devices, one after the other in one port with a listing that fails once,
\* or side by side on two buses
SPECIFICATION FairSpec
CONSTANTS
  phone = phone
  tablet = tablet
  bus1 = bus1
  bus2 = bus2
  port1 = port1
  port2 = port2
  Base = base
  Devices <- TwoDevices
  Buses <- TwoBuses
  Ports <- TwoPorts
  Settings <- BothSettings
  MaxFds = 2
  NULL = NULL
CHECK_DEADLOCK FALSE
INVARIANTS
  TypeOK
  AskedOnce
  FdsNotCrossed
  FastbootWalksAlone
PROPERTIES
  GrantedIsFound
  FastbootStarts
