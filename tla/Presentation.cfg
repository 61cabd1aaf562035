CONSTANTS
  Frames = {f1, f2, f3, f4}
  Drawables = {d1, d2}
  Results = {"Presented", "Dropped", "Failed", "Lost"}
  MaxToggles = 2
  None = None
SYMMETRY Symmetry
SPECIFICATION Spec
INVARIANT DrawablesAccounted
PROPERTY WindowKeepsNewest
CHECK_DEADLOCK FALSE
