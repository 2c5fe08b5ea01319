\* One input and a session thread that may cancel the app at any point of
\* its decision, execution or notification.
CONSTANTS
  Inputs = {i1}
  Executors = {x1}
  Cancellers = {c1}
  NEffChoices <- BarrierOnly
  Thresholds = {0}
  NTries = 2
  InputOutcomes = {"COMPLETED", "ERROR"}
  RunMayFail = TRUE
  Concurrent = FALSE

SPECIFICATION Spec
PROPERTY DownstreamEventuallyNotified
\* The app's life ends once its input has been handled and it has finished.
CHECK_DEADLOCK FALSE
