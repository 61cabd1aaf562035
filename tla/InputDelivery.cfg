CONSTANTS
  Buttons = {1}
  Size = 2
  Rounds = 3
  MaxInput = 3
  MaxFocus = 2
SPECIFICATION Spec
INVARIANT NothingHeldInactive
CHECK_DEADLOCK FALSE
