--------------------------- MODULE MCServerWorker ---------------------------
(* Small instances of ServerWorker for model checking: three ports and      *)
(* three attempts, so that the first, a middle and the last one differ.     *)
EXTENDS ServerWorker
=============================================================================
