\* Two producers writing into a drop that may declare an expected size, so
\* that write() can complete the drop by itself before or between the
\* producers' own producerFinished calls, either producer may fail, and a
\* session manager thread may cancel the drop at any point, also between a
\* write()'s status check and its store.
CONSTANTS
  Producers = {p1, p2}
  Cancellers = {c1}
  Readers = {}
  Describers = {}
  ExpectedSizes <- AnyExpectedSize
  MaxWrites = 2
  Outcomes = {"COMPLETED", "ERROR"}
  OpenMayFail = FALSE
  ChecksumDisabled = FALSE

SPECIFICATION Spec
PROPERTY FinishedProducersNotified
\* The drop's life ends once its producers and the canceller are done.
CHECK_DEADLOCK FALSE
