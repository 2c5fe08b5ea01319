\* Two producer applications writing into the same drop concurrently and
\* each calling producerFinished; the last one completes or fails the drop.
CONSTANTS
  Producers = {p1, p2}
  Cancellers = {}
  Readers = {}
  Describers = {x1}
  ExpectedSizes <- NoExpectedSize
  MaxWrites = 2
  Outcomes = {"COMPLETED", "ERROR"}
  OpenMayFail = FALSE
  ChecksumDisabled = FALSE

SPECIFICATION Spec
PROPERTY FinishedProducersNotified
PROPERTY ImplementsDropStatus
\* The drop's life ends once its producers are done.
CHECK_DEADLOCK FALSE
