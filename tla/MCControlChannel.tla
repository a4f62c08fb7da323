--------------------------- MODULE MCControlChannel ---------------------------
(* Two buttons, two keys with one code, two sessions, a queue of two: the    *)
(* second of each is what the first can be confused with.                    *)
EXTENDS ControlChannel
=============================================================================
