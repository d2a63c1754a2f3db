-------------------------- MODULE MCClientSession --------------------------
(* ClientSession with two commands of a kind around one of another.         *)
EXTENDS ClientSession

MCKind == <<"Set", "Set", "Get", "Set">>
=============================================================================
