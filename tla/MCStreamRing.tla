------------------------------ MODULE MCStreamRing -----------------------------
EXTENDS StreamRing
\* A frame that fills the ring, one longer than the ring, an empty one.
MCFrames == <<2, 5, 0>>
\* An empty frame, a short one, one longer than the ring.
MCNoise == {0, 1, 5}
================================================================================
