\* A BarrierAppDROP with two inputs completing at the same time on their own
\* threads.
CONSTANTS
  Inputs = {i1, i2}
  Executors = {x1, x2}
  Cancellers = {}
  NEffChoices <- BarrierOnly
  Thresholds = {0}
  NTries = 1
  InputOutcomes = {"COMPLETED"}
  RunMayFail = FALSE
  Concurrent = TRUE

SPECIFICATION Spec
INVARIANT FinishNotifiedOnce
CHECK_DEADLOCK FALSE
