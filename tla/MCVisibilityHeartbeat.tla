----------------------- MODULE MCVisibilityHeartbeat -----------------------
(* VisibilityHeartbeat for TLC.                                              *)
EXTENDS VisibilityHeartbeat
=============================================================================
