--------------------------- MODULE SessionContract ---------------------------
(***************************************************************************)
(* What sc_capture_session promises its owner, whatever its threads do:    *)
(* its health only gets worse, a retirement that was asked for is never    *)
(* taken back, blame sticks, and once it has retired it does nothing more  *)
(* by itself.  CaptureSession implements it, thread by thread; the         *)
(* sessions of CaptureSource are exactly this.                             *)
(***************************************************************************)
VARIABLES
  health,   \* "starting", "running", "faulted", "stopping" or "retired"
  blamed,   \* retired_failed(): somebody retired the session as failed
  silent    \* audio_ended(): the audio stream is over, or never was

vars == <<health, blamed, silent>>

Init == health = "starting" /\ blamed = FALSE /\ silent = FALSE

(* mark_running(), at the end of start().                                   *)
MarkRunning ==
  /\ health = "starting"
  /\ health' = "running"
  /\ UNCHANGED <<blamed, silent>>

(* report_fault(), by a thread of the session.                              *)
ReportFault ==
  /\ health \in {"starting", "running"}
  /\ health' = "faulted"
  /\ UNCHANGED <<blamed, silent>>

(* on_audio_ended().                                                        *)
AudioEnded ==
  /\ health # "retired"
  /\ silent' = TRUE
  /\ UNCHANGED <<health, blamed>>

(* request_retire(), by anybody and as often as they like.                  *)
RequestRetire(failed) ==
  /\ health' = IF health = "retired" THEN health ELSE "stopping"
  /\ blamed' = (blamed \/ failed)
  /\ UNCHANGED silent

(* The reaper publishes the end.                                            *)
Retire ==
  /\ health = "stopping"
  /\ health' = "retired"
  /\ UNCHANGED <<blamed, silent>>

Next ==
  \/ MarkRunning \/ ReportFault \/ AudioEnded \/ Retire
  \/ \E failed \in BOOLEAN : RequestRetire(failed)

Spec == Init /\ [][Next]_vars
=============================================================================
