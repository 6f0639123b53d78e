\* Three items, so that every kind follows every kind.
CONSTANT Items = 3
SPECIFICATION Spec
INVARIANTS PosterNotDangling RingThereWhenDecoded CardWhole PosterBesideItsCard
PROPERTIES CutEnds
CHECK_DEADLOCK FALSE
