\* A drop whose level starts at NOTHING (the constructor's REPRO_DEFAULT) and
\* is changed up to twice to any level, before or after the drop ends and
\* commits; an AbstractDROP or an NgasDROP ending COMPLETED, ERROR or
\* CANCELLED (its file status lookup may fail), with or without a configured
\* ngasFileId.  The setter and commit() are called one at a time.
CONSTANTS
  NONE = NONE
  EMPTYLIST = EMPTYLIST
  InitLevel = "NOTHING"
  Levels <- AnyLevel
  MaxLevelChanges = 2
  DropClasses = {"AbstractDROP", "NgasDROP"}
  EndStatuses = {"COMPLETED", "ERROR", "CANCELLED"}
  Concurrent = FALSE
  FieldCategories <- SomeCategories
  CustomFields <- SomeCustomFields

SPECIFICATION Spec
INVARIANT TypeOK
INVARIANT FingerprintOfLevel
INVARIANT RecordsFollowUnionRule
INVARIANT FieldsFollowUnionRule
\* An NgasDROP whose fileStatus() lookup raised stays unfinished: once the
\* CLIENT has made its level changes nothing is left to do.
CHECK_DEADLOCK FALSE
