----------------------------- MODULE MCRealtime -----------------------------
(* Realtime for TLC.  There is no symmetry: its run checks liveness.       *)
EXTENDS Realtime
=============================================================================
