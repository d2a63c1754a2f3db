---------------------------- MODULE MCElogAsync -----------------------------
(* ElogAsync on a buffer of four bytes that is polled three at a time.      *)
EXTENDS ElogAsync

\* One log fits always, one at times, one never.
MCLogs == {<<1>>, <<2, 1, 3>>, <<3, 2, 1, 2, 3>>}
=============================================================================
