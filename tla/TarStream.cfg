SPECIFICATION Spec
CONSTANTS
  Tars <- SmallTars
  Cap = 2
INVARIANTS CopiesWhole FailuresReported
