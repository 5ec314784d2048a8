\* Connect with timeouts around its bounds, up to five attempts, callbacks
\* and sleeps that take longer than they should: attempts are spaced, none is
\* lost to rounding, and the timeout is exceeded by no more than one of them.

CONSTANTS
  Timeouts = {400, 500, 1499, 1500, 2000, 3001}
  AttemptNos = {0, 1, 2, 3, 4, 5, 1024}
  UIntRange = 2048
  Delays = {0, 50, 150, 400}

SPECIFICATION Spec
INVARIANT
  AttemptsAreSpaced
  OverrunBounded
  NoAttemptLost
CHECK_DEADLOCK FALSE
