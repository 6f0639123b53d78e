\* Two workers, windows of one and three ticks, two commands in flight.
CONSTANTS
    Workers = {w1, w2}
    TailWindow = 1
    ColdWindow = 3
    Room = 2
SPECIFICATION Spec
INVARIANT RegisterTruthful
INVARIANT ShortenedOnlyInReset
PROPERTY WindowEnds
CHECK_DEADLOCK FALSE
