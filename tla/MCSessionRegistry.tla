-------------------------- MODULE MCSessionRegistry --------------------------
(* Small instances of SessionRegistry for model checking: three sessions    *)
(* for two slots, so that the table fills up.                               *)
EXTENDS SessionRegistry
=============================================================================
