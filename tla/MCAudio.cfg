CONSTANTS
  None = None
  m1 = m1
  m2 = m2
SYMMETRY Symmetry
SPECIFICATION Spec
INVARIANTS LoopEventsSound PlaybackSound HostSound
