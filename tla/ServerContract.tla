--------------------------- MODULE ServerContract ---------------------------
(***************************************************************************)
(* What sc_server promises its owner about its three callbacks: exactly    *)
(* one verdict, on_connected or on_connection_failed; on_disconnected at   *)
(* most once, only after the device process has died, and never once a     *)
(* failure has been announced; nothing after the worker thread has ended.  *)
(* ServerWorker implements it.                                             *)
(***************************************************************************)
VARIABLES
  device,    \* the device-side server process
  verdict,   \* the verdict announced so far
  lost,      \* on_disconnected has been called
  ended      \* the worker thread has returned

vars == <<device, verdict, lost, ended>>

Init == device = "none" /\ verdict = "none" /\ lost = FALSE /\ ended = FALSE

Launch ==
  /\ device = "none" /\ verdict = "none"
  /\ device' = "alive"
  /\ UNCHANGED <<verdict, lost, ended>>

Die ==
  /\ device = "alive"
  /\ device' = "dead"
  /\ UNCHANGED <<verdict, lost, ended>>

(* The process may have died while the last handshake was being read.       *)
Connected ==
  /\ verdict = "none" /\ device # "none"
  /\ verdict' = "connected"
  /\ UNCHANGED <<device, lost, ended>>

Failed ==
  /\ verdict = "none" /\ device # "alive"
  /\ verdict' = "failed"
  /\ UNCHANGED <<device, lost, ended>>

Lost ==
  /\ device = "dead" /\ ~lost /\ ~ended /\ verdict # "failed"
  /\ lost' = TRUE
  /\ UNCHANGED <<device, verdict, ended>>

End ==
  /\ verdict # "none" /\ device # "alive" /\ ~ended
  /\ ended' = TRUE
  /\ UNCHANGED <<device, verdict, lost>>

Next == Launch \/ Die \/ Connected \/ Failed \/ Lost \/ End

Spec == Init /\ [][Next]_vars
=============================================================================
