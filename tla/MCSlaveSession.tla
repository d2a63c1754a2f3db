--------------------------- MODULE MCSlaveSession ---------------------------
(* SlaveSession for each kind of request.                                   *)
EXTENDS SlaveSession

MCOps == {"Get", "Set", "Del"}
=============================================================================
