----------------------------- MODULE MCShowcaseTurn ----------------------------
EXTENDS ShowcaseTurn
================================================================================
