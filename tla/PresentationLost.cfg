CONSTANTS
  Frames = {f1, f2}
  Drawables = {d1, d2}
  Results = {"Presented", "Dropped", "Failed", "Lost"}
  MaxToggles = 0
  None = None
SPECIFICATION FairSpec
PROPERTIES EveryDrawableReleased
CHECK_DEADLOCK FALSE
