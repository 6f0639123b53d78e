----------------------------- MODULE MCShowcaseCard ----------------------------
EXTENDS ShowcaseCard
================================================================================
