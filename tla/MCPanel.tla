------------------------------- MODULE MCPanel -------------------------------
EXTENDS Panel
=============================================================================
