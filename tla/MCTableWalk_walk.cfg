CONSTANTS
  NColumns = 3
  Rows = {2, 10}
  Malformed = {1}
  Odd = {3}
  Faults = {"enumerate", "read"}
SPECIFICATION Spec
INVARIANT NothingSkipped
