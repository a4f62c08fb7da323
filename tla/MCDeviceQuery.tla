---------------------------- MODULE MCDeviceQuery ----------------------------
(* Two devices: one may be listed and the other probed, or one probed after *)
(* the other; a third would meet no new state of the loop.                  *)
EXTENDS DeviceQuery
=============================================================================
