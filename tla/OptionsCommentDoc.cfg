CONSTANTS
  Callers = {c1, c2}
  Labels = {x, y}
  OtherItems = {}
  MaxArgs = 2
  MaxId = 5
SPECIFICATION Spec
PROPERTIES ExistingOptionsKept
