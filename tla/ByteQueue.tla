------------------------------ MODULE ByteQueue ------------------------------
(***************************************************************************)
(* What the ring buffer of log/elog_async.cpp promises: a first-in first-  *)
(* out queue of Capacity bytes.  A log that does not fit is cut off where  *)
(* the space ends.                                                         *)
(***************************************************************************)
EXTENDS Naturals, Sequences

CONSTANTS
    Capacity,   \* bytes the queue holds
    Logs,       \* the logs that may be put
    Sizes       \* the sizes of the buffers that may be passed to get

VARIABLES
    content,    \* the bytes in the queue
    received    \* the bytes that the last get copied out

vars == <<content, received>>

Init == content = <<>> /\ received = <<>>

Least(m, n) == IF m <= n THEN m ELSE n

Put(log) ==
    LET fits == Least(Len(log), Capacity - Len(content))
    IN  content' = content \o SubSeq(log, 1, fits)
    /\ UNCHANGED received

Get(size) ==
    LET n == Least(size, Len(content))
    IN  /\ received' = SubSeq(content, 1, n)
        /\ content' = SubSeq(content, n + 1, Len(content))

Next ==
    \/ \E log \in Logs : Put(log)
    \/ \E size \in Sizes : Get(size)

Spec == Init /\ [][Next]_vars
=============================================================================
