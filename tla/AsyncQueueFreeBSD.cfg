\* FreeBSD: the wait loop polls the flag, worker and kicker may fail to start.
SPECIFICATION FairSpec
CONSTANTS
  t1 = t1
  t2 = t2
  t3 = t3
  c1 = c1
  q1 = q1
  q2 = q2
  NULL = NULL
  Transfers = {t1, t2, t3}
  Queues = {q1}
  EndpointsOf <- OneEndpoint
  DeviceErrors = {"TIMEOUT"}
  Polls = TRUE
  LateSignals = FALSE
  Oom = {"worker", "kicker"}
  MaxKicks = 1
INVARIANTS
  TypeOK
  ExactlyOnce
  NoWorkerNoQueue
  TailIsLast
  CancelledNotQueued
  TruthfulReport
PROPERTIES
  CancelReturns
  ImplementsService
