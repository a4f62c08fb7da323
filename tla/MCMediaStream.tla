--------------------------- MODULE MCMediaStream ---------------------------
(* Small instances of MediaStream for model checking: three configurations, *)
(* so that one can wait, be replaced, and be followed by another.           *)
EXTENDS MediaStream
=============================================================================
