-------------------------- MODULE MCDisplayArbiter --------------------------
(* Two engines of the real scale, one of them with two priorities as the GIF     *)
(* engine has, and the WEBUI_SYNC source.                                        *)
EXTENDS DisplayArbiter

MCEngines == {"MQTT", "GIF"}
MCOrder == <<"MQTT", "GIF">>
MCForms == [MQTT |-> {"message"}, GIF |-> {"gif", "marquee"}, WEBUI_SYNC |-> {"webui"},
            ROTATION |-> {"rotation"}]
MCPriority == [message |-> 40, gif |-> 20, marquee |-> 40, webui |-> 110, rotation |-> 10]
=============================================================================
