\* No fault at all, one edit: the engine is enabled while it is on the panel.
CONSTANTS
    Workers = {w1, w2}
    Budget = 1
    MaxEdits = 1
    Faults = {}
SPECIFICATION Spec
PROPERTY EnabledIsServed
CHECK_DEADLOCK FALSE
