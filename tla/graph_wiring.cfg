\* Two data drops, two apps (AppDROP or InputFiredAppDROP), one plain
\* container, data drops in either execution mode; up to five wiring
\* calls from any side, in any order.
CONSTANTS
  Data = {d1, d2}
  Apps = {a1, a2}
  Boxes = {k1}
  AppClasses = {"AppDROP", "InputFiredAppDROP"}
  Modes = {"DROP", "EXTERNAL"}
  MaxCalls = 5
  NONE = NONE

SPECIFICATION Spec
SYMMETRY DropSymmetry
INVARIANT TypeOK
INVARIANT RegistrationIdempotent
INVARIANT ConsumerKindsExclusive
INVARIANT ProducersMatchOutputs
INVARIANT ConsumersRegisteredBothWays
INVARIANT ParentKnowsChild
\* Graph construction ends after the last call.
CHECK_DEADLOCK FALSE
