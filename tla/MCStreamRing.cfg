\* Four bytes of ring, reads of two, passes of three, a batch of three.
CONSTANTS
    Capacity = 4
    Frames <- MCFrames
    Batch = 3
    Chunk = 2
    Pass = 3
    Trigger = 2
    Noise <- MCNoise
SPECIFICATION Spec
PROPERTIES ImplementsChannel EveryFrameShown
CHECK_DEADLOCK FALSE
