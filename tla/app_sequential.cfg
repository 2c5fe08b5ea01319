\* Two inputs whose drops complete one after the other (one upstream thread),
\* an app that is a barrier or proceeds after the first input, with an error
\* threshold of 0% or 50% and two tries of a run() that may raise.
CONSTANTS
  Inputs = {i1, i2}
  Executors = {x1, x2}
  Cancellers = {}
  NEffChoices <- BarrierOrFirst
  Thresholds = {0, 50}
  NTries = 2
  InputOutcomes = {"COMPLETED", "ERROR", "SKIPPED"}
  RunMayFail = TRUE
  Concurrent = FALSE

SPECIFICATION Spec
INVARIANT TypeOK
INVARIANT DecisionFollowsThreshold
INVARIANT RetryOutcome
INVARIANT OutputFollowsApp
PROPERTY AppImplementsDropStatus
PROPERTY DownstreamEventuallyNotified
\* The app's life ends once its inputs have been handled and it has finished.
CHECK_DEADLOCK FALSE
