----------------------------- MODULE MCElogFile -----------------------------
(* One process with the thread of a caller and the output thread, and one   *)
(* with a single thread.                                                    *)
EXTENDS ElogFile

CONSTANTS caller, output, other, p1, p2

MCProcessOf == [t \in Threads |-> IF t = other THEN p2 ELSE p1]

MCEarlier == <<p2, p1, p1, p2>>
=============================================================================
