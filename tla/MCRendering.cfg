CONSTANTS
  None = None
  m1 = m1
  m2 = m2
  m3 = m3
  Compilers = {"c1", "c2", "c3"}
  GroupSizes = {"s1", "s2"}
  MaxTries = 2
  Savers = {"s1", "s2"}
  Drivers = {"d1", "d2"}
  Pipelines = {"p1", "p2", "p3"}
  MaxStarts = 2
  MaxTicks = 2
  Ring = 2
  Block = 4
  Align = 2
  MaxOps = 2
  \* Copies that fit and copies that exceed a block.
  StagingSizes = {1, 5}
  StagedImages = {"i1"}
  Pollers = {"p1"}
  MaxStaged = 6
  \* Frames are interchangeable, and one more than the three drawables.
  Frames = {m1, m2, m3, "f4"}
  MaxImports = 2
  MaxContexts = 1
  \* A window size the surface does not support is asked for again and again.
  FrameSlots = 2
  Images = 3
  Extents = {1, 3}
  MinExtent = 1
  MaxExtent = 2
  MaxPresents = 6
  MaxChains = 3
SYMMETRY Symmetry
SPECIFICATION Spec
INVARIANTS EncodersSound DrawStateCurrent DeviceChoicesAgree MemorySound ComputeShared PresentsReuseSafely UploadsSound
PROPERTY CacheKept
CHECK_DEADLOCK FALSE
