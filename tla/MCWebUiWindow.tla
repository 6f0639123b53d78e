----------------------------- MODULE MCWebUiWindow -----------------------------
EXTENDS WebUiWindow
================================================================================
