---------------------------- MODULE MCConfigStorage ----------------------------
(* ConfigStorage with three of the four domains: one that gates the boot, the    *)
(* one that is healed, with the connections in the same file, and one that is    *)
(* neither.  A save is of all of them, or of the file with two items.            *)
EXTENDS ConfigStorage

MCOrder == <<"hardware", "network", "playlist">>
MCMasks == {{"hardware", "network", "playlist"}, {"network"}}
================================================================================
