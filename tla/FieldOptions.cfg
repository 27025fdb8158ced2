CONSTANTS
  Callers = {c1, c2}
  Labels = {x, y, z}
  OtherItems = {other}
  MaxArgs = 2
  MaxId = 6
SPECIFICATION Spec
INVARIANTS TypeOK LabelsUnique ConfirmedLabelsKept
