CONSTANTS
  FilteredPageSize = 2
  FilteredHardCap = 3
  Limits = {1, 4}
  Sinces = {0, 2}
  MaxTime = 5
  Starts = {{1, 2, 4}}
  MaxChanges = 1
SPECIFICATION Spec
INVARIANTS SinceWalkComplete
