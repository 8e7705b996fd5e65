SPECIFICATION Spec
CONSTANTS
  e1 = e1  e2 = e2  e3 = e3  q1 = q1  q2 = q2  w1 = w1  w2 = w2
  Event = {e1}
  Request = {q1}
  Brings <- Uploaded
  Worker = {w1}
  MaxAttempts = 5
  BatchSize = 1
  Patience = 1
  Backoff = 2
  Takeover = 20
  LockTimeout = 60
  Mortal = {q1}
  Overrun = FALSE
INVARIANT FailureIsRetried
CHECK_DEADLOCK FALSE
