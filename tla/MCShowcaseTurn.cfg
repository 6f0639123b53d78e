\* Two tasks, turns of two items, two edits, every fault.
CONSTANTS
    Workers = {w1, w2}
    Budget = 2
    MaxEdits = 2
    Faults = {"late", "spawn", "heap", "slots"}
SPECIFICATION Spec
INVARIANTS OneWorker ScratchSafe Surrendered FollowUpKeepsCard
PROPERTY TurnEnds
CHECK_DEADLOCK FALSE
