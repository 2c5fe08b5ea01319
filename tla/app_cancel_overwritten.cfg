\* One input and a session thread that cancels the app before or while it
\* executes.
CONSTANTS
  Inputs = {i1}
  Executors = {x1}
  Cancellers = {c1}
  NEffChoices <- BarrierOnly
  Thresholds = {0}
  NTries = 1
  InputOutcomes = {"COMPLETED"}
  RunMayFail = FALSE
  Concurrent = FALSE

SPECIFICATION Spec
PROPERTY CancelledStaysCancelled
CHECK_DEADLOCK FALSE
