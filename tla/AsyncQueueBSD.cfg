\* NetBSD/OpenBSD: only a signal that arrives in read() breaks it, signals may
\* be late, and the kicker makes up for a lost one.
SPECIFICATION FairSpec
CONSTANTS
  t1 = t1
  t2 = t2
  t3 = t3
  c1 = c1
  q1 = q1
  q2 = q2
  NULL = NULL
  Transfers = {t1, t2, c1}
  Queues = {q1}
  EndpointsOf <- WithControl
  DeviceErrors = {"NO_DEVICE"}
  Polls = FALSE
  LateSignals = TRUE
  Oom = {"worker"}
  MaxKicks = 2
INVARIANTS
  SignalsReachWorkers
PROPERTIES
  CancelReturns
