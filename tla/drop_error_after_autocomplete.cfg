\* A producer writes the drop's whole expected size, so write() completes
\* the drop, and its application then fails: producerFinished(ERROR)
\* calls setError() on the COMPLETED drop.
CONSTANTS
  Producers = {p1}
  Cancellers = {}
  Readers = {}
  Describers = {}
  ExpectedSizes <- TwoBytesExpected
  MaxWrites = 2
  Outcomes = {"ERROR"}
  OpenMayFail = FALSE
  ChecksumDisabled = FALSE

SPECIFICATION Spec
PROPERTY TerminalStatusStable
CHECK_DEADLOCK FALSE
