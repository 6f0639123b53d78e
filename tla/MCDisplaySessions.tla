--------------------------- MODULE MCDisplaySessions ---------------------------
(* Three alerts, the WEBUI_SYNC window and a rotation of two screens, one         *)
(* of which is the instance "gifs_main" that the handle of GIF names as well.     *)
EXTENDS DisplaySessions, TLC

CONSTANTS gif, marquee, mqtt, webui, clock, gifs_main

MCPriority == gif :> 20 @@ marquee :> 30 @@ mqtt :> 40 @@ webui :> 110
MCAlias == gif :> gifs_main @@ marquee :> None @@ mqtt :> None @@ webui :> None
NoAlias == [s \in Sources |-> None]
================================================================================
