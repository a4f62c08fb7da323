-------------------------- MODULE MCCaptureSession --------------------------
(* Small instances of CaptureSession for model checking.                   *)
EXTENDS CaptureSession, TLC

Symmetry == Permutations(Retirers) \cup Permutations(Senders)
=============================================================================
