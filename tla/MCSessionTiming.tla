---------------------------- MODULE MCSessionTiming ----------------------------
(* The two streams of a session for TLC: the constants come from the cfg.   *)
EXTENDS SessionTiming

=============================================================================
