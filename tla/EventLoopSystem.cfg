CONSTANTS
  Pollers = {p1, p2}
  Semaphores = {s1, s2}
  Callbacks = {c1, c2, c3}
  MaxWakes = 1
SYMMETRY Symmetry
SPECIFICATION Spec
INVARIANTS TypeOK SnapshotIsFront RunsAfterSignal NoSleepOverWork WakeValueAhead RunsOnceInOrder
CHECK_DEADLOCK FALSE
