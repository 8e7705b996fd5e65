SPECIFICATION CaptureSpec
CONSTANTS
  Request = {r1, r2}
  Body = {b1}
  Unsaved = unsaved
  FirstUnits = 1
  MaxUnits = 1
INVARIANT RetryReplacesIndex
CHECK_DEADLOCK FALSE
