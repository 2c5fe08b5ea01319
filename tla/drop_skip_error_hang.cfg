\* Two producers of one drop: one application is skipped (and skips the
\* drop), the other fails; the drop's consumers must still be told.
CONSTANTS
  Producers = {p1, p2}
  Cancellers = {}
  Readers = {}
  Describers = {}
  ExpectedSizes <- NoExpectedSize
  MaxWrites = 1
  Outcomes = {"SKIPPED", "ERROR"}
  OpenMayFail = FALSE
  ChecksumDisabled = FALSE

SPECIFICATION Spec
PROPERTY FinishedProducersNotified
CHECK_DEADLOCK FALSE
