SPECIFICATION Spec
CONSTANTS
  Goroutines = {g1, g2}
  MaxCalls = 2
  MaxSetups = 1
CHECK_DEADLOCK FALSE
INVARIANTS ResultsFollowArgs RecordsAgree
PROPERTIES CallsReturn
