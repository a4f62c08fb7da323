---------------------------- MODULE MCPairingTask ----------------------------
(* Two addresses; a child says up to three pieces, one more than the text   *)
(* keeps and than one poll reads.                                           *)
EXTENDS PairingTask
=============================================================================
