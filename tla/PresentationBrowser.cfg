CONSTANTS
  Frames = {f1, f2}
  Drawables = {d1, d2}
  Results = {"Presented"}
  MaxToggles = 1
  None = None
SYMMETRY Symmetry
SPECIFICATION Spec
INVARIANT BrowserUncovered
CHECK_DEADLOCK FALSE
