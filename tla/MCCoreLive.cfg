CONSTANTS
  Pollers = {p1}
  Semaphores = {s1, s2}
  Callbacks = {c1, c2}
  MaxWakes = 1
  Pools = {k1, k2}
  Waiters = {w1}
  Readers = {}
  Calls = {"scheduled", "completed"}
  Stuck = {c2}
  MaxHandlers = 1
  SemCapacity = 0
  PoolCapacity = 0
  MaxCount = 2
  Frames = {f1, f2}
  Drawables = {d1, d2}
  Results = {"Presented", "Dropped"}
  MaxToggles = 2
  None = None
SPECIFICATION Spec
CHECK_DEADLOCK FALSE
PROPERTIES CompletionsDelivered HandlersIndependent EveryDrawableReleased
