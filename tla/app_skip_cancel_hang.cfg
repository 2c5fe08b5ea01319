\* One skipped input: the app skips itself while a session thread cancels it.
CONSTANTS
  Inputs = {i1}
  Executors = {x1}
  Cancellers = {c1}
  NEffChoices <- BarrierOnly
  Thresholds = {0}
  NTries = 2
  InputOutcomes = {"SKIPPED"}
  RunMayFail = TRUE
  Concurrent = FALSE

SPECIFICATION Spec
PROPERTY DownstreamEventuallyNotified
\* The app's life ends once its input has been handled and it has finished.
CHECK_DEADLOCK FALSE
