SPECIFICATION Spec
CONSTANTS
  empty = 0
  Name = {1, 2}
  Text = {0, 1}
  MaxBlocks = 3
  MaxCells = 3
  MaxLen = 2
INVARIANTS OwnedOnce AssignmentsCopy ArraysSplice ObjectsKeepFirst
CHECK_DEADLOCK FALSE
