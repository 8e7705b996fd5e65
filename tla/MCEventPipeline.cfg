SPECIFICATION FairSpec
CONSTANTS
  e1 = e1  e2 = e2  e3 = e3  q1 = q1  q2 = q2  w1 = w1  w2 = w2
  Event = {e1, e2}
  Request = {q1}
  Brings <- EitherSource
  Worker = {w1, w2}
  MaxAttempts = 2
  BatchSize = 2
  Patience = 1
  Backoff = 1
  Takeover = 3
  LockTimeout = 4
  Mortal <- Everyone
  Overrun = FALSE
INVARIANTS TypeOK OneEvaluator SucceededMeansProcessed
PROPERTIES ProcessedIsFinal JobsSettle
CHECK_DEADLOCK FALSE
