CONSTANTS
  None = None
  t1 = t1
  t2 = t2
  t3 = t3
  Updaters = {t1, t2}
  Versions = {1, 2}
  MaxRuns = 3
  MaxKills = 1
SYMMETRY Symmetry
SPECIFICATION Spec
INVARIANTS ShimsSound CapturesExact BrowserAnswers InputFollowsWindow InputDelivered TasksAnswered VideoRetained ClientKeptWhole
CHECK_DEADLOCK FALSE
