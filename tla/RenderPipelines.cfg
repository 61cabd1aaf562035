SPECIFICATION Spec
CONSTANTS
    DrawThreads = {d1, d2}
    Workers = {w1}
    Variants = {tri, line, clamped}
    Prepared = tri
    Clamped = {clamped}
    MaxJobs = 1
    MaxCalls = 2
    MaxOthers = 1
    None = None
INVARIANT PipelinesSound
PROPERTIES OnlyForward CallsEnd
CHECK_DEADLOCK FALSE
