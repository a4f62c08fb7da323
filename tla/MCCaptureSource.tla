--------------------------- MODULE MCCaptureSource ---------------------------
(* A small instance of CaptureSource: two devices to choose from, so that   *)
(* settings can change the connection, the video, the audio, or nothing.    *)
EXTENDS CaptureSource, TLC

Symmetry == Permutations(Targets)
=============================================================================
