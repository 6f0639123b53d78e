--------------------------- MODULE MCConfigSnapshot ---------------------------
(* Two borrows pin the two slots that are not published, which is what makes a *)
(* publication wait; one writer and the worker compete for the mutex.          *)
EXTENDS ConfigSnapshot, TLC

CONSTANTS g1, g2, w1

MCGuards == {g1, g2}
MCWriters == {w1}
=============================================================================
