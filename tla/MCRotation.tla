------------------------------ MODULE MCRotation ------------------------------
(* Two instances: a clock, and a GIF player that gives up its memory.             *)
EXTENDS Rotation, TLC

CONSTANTS clock, gifs

MCInstances == {clock, gifs}
MCLists == {<<clock, gifs>>, <<gifs>>}
===============================================================================
