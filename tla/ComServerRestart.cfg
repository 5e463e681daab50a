SPECIFICATION Spec
CONSTANTS
  Path = {p}
  New = new
  None = None
  Cut = Cut
  Wrapper = {w1, w2}
  MaxDocs = 2
  MaxChanges = 3
  MaxRestarts = 1
PROPERTY RecordsAreKept
SYMMETRY WrapperSymmetry
CHECK_DEADLOCK FALSE
