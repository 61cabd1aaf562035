CONSTANTS
  Pollers = {p1}
  Semaphores = {s1, s2, s3}
  Callbacks = {c1, c2}
  Pools = {k1, k2}
  Waiters = {w1}
  Readers = {r1}
  Calls = {"discard", "encoder", "present", "scheduled", "completed"}
  Stuck = {}
  MaxHandlers = 1
  SemCapacity = 1
  PoolCapacity = 1
  MaxCount = 2
  None = None
SYMMETRY Symmetry
SPECIFICATION Spec
INVARIANTS RecyclingSafe ReadsAndSerialsInOrder
PROPERTIES HeldUntilDone ImplementsLifecycle
CHECK_DEADLOCK FALSE
