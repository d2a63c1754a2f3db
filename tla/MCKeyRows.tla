------------------------------ MODULE MCKeyRows ------------------------------
(* KeyRows on a few writes and slaves.                                      *)
EXTENDS KeyRows
=============================================================================
