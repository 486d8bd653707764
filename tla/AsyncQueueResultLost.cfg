\* The malloc of a result fails.
SPECIFICATION Spec
CONSTANTS
  t1 = t1
  t2 = t2
  t3 = t3
  c1 = c1
  q1 = q1
  q2 = q2
  NULL = NULL
  Transfers = {t1, t2}
  Queues = {q1, q2}
  EndpointsOf <- TwoEndpoints
  DeviceErrors = {"NO_DEVICE"}
  Polls = TRUE
  LateSignals = FALSE
  Oom = {"result"}
  MaxKicks = 1
INVARIANTS
  TruthfulReport
