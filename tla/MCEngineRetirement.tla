-------------------------- MODULE MCEngineRetirement --------------------------
(* Four engines through a ring of three slots: it fills up, refuses and wraps, *)
(* and the quarantine of one engine overflows.                                 *)
EXTENDS EngineRetirement, TLC

CONSTANTS e1, e2, e3, e4

MCEngines == {e1, e2, e3, e4}
=============================================================================
