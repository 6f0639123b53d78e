---------------------------- MODULE MCInGameSession ----------------------------
EXTENDS InGameSession
================================================================================
