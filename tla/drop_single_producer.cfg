\* One producer application driving its output drop through every path the
\* code takes without races: writes, a failing write-session open, skip,
\* success and failure, then producerFinished; and one consumer app that
\* opens, reads and closes the drop once it is told it has ended.
CONSTANTS
  Producers = {p1}
  Cancellers = {}
  Readers = {r1}
  Describers = {}
  ExpectedSizes <- NoExpectedSize
  MaxWrites = 4
  Outcomes = {"COMPLETED", "ERROR", "SKIPPED"}
  OpenMayFail = TRUE
  ChecksumDisabled = TRUE

SPECIFICATION Spec
INVARIANT TypeOK
INVARIANT ProvenanceRecordsFinalStatus
PROPERTY FinishedProducersNotified
PROPERTY ImplementsDropStatus
\* The drop's life ends once its producer is done.
CHECK_DEADLOCK FALSE
