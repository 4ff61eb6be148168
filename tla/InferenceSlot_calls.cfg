SPECIFICATION SlotSpec
CONSTANTS
    Callers = {s1, s2, h1}
    Streams = {s1, s2}
    Capacity = 1
INVARIANT CallsWithinCapacity
CHECK_DEADLOCK FALSE
