----------------------------- MODULE RingBuffer -----------------------------
(***************************************************************************)
(* The ring buffer of log/elog_async.cpp: two indices, a full flag and an  *)
(* empty flag.  Its callers hold the output lock, so each operation is one *)
(* step.                                                                   *)
(***************************************************************************)
EXTENDS Integers, Sequences

CONSTANTS
    OUTPUT_BUF_SIZE,
    Byte,
    Zero,       \* what log_buf holds at the start
    Logs,       \* the logs that are put
    Sizes       \* the sizes of the buffers that get fills

\* elog_output and elog_hexdump end every log with a newline: none is empty.
\* (An empty raw log has level ASSERT and does not pass through the buffer.)
ASSUME RingAssumption ==
    /\ OUTPUT_BUF_SIZE \in Nat \ {0}
    /\ Zero \in Byte
    /\ Logs \subseteq Seq(Byte) \ {<<>>}
    /\ Sizes \subseteq Nat

VARIABLES
    log_buf,
    write_index,
    read_index,
    buf_is_full,
    buf_is_empty,
    poll_get_buf    \* what the last get copied out

vars == <<log_buf, write_index, read_index, buf_is_full, buf_is_empty,
          poll_get_buf>>

Index == 0..OUTPUT_BUF_SIZE - 1

Init ==
    /\ log_buf = [j \in Index |-> Zero]
    /\ write_index = 0
    /\ read_index = 0
    /\ buf_is_full = FALSE
    /\ buf_is_empty = TRUE
    /\ poll_get_buf = <<>>

\* elog_async_get_buf_used
Used ==
    IF write_index > read_index THEN write_index - read_index
    ELSE IF buf_is_full THEN OUTPUT_BUF_SIZE
    ELSE IF buf_is_empty THEN 0
    ELSE OUTPUT_BUF_SIZE - (read_index - write_index)

Space == OUTPUT_BUF_SIZE - Used

\* Faulty variant: <= for <.
AdvancePastEnd(i, n) ==
    IF i + n <= OUTPUT_BUF_SIZE THEN i + n ELSE i + n - OUTPUT_BUF_SIZE

\* An index moved on by n, from one end of log_buf to the other.
Advance(i, n) == IF i + n < OUTPUT_BUF_SIZE THEN i + n ELSE i + n - OUTPUT_BUF_SIZE

\* Where in a sequence of bytes that starts at index i the index j lies.
Offset(i, j) == IF j >= i THEN j - i + 1 ELSE j - i + OUTPUT_BUF_SIZE + 1

\* Copy the first n bytes of log to the buffer, from write_index on.
CopyIn(log, n) ==
    [j \in Index |-> IF Offset(write_index, j) <= n
                        THEN log[Offset(write_index, j)] ELSE log_buf[j]]

\* Copy n bytes out, from read_index on.
CopyOut(n) == [k \in 1..n |-> log_buf[Advance(read_index, k - 1)]]

\* Faulty variant: the full flag is not lowered.
get_log_stays_full(size) ==
    /\ Used > 0 /\ size > 0
    /\ LET n == IF Used <= size THEN Used ELSE size
       IN  /\ poll_get_buf' = CopyOut(n)
           /\ read_index' = Advance(read_index, n)
           /\ buf_is_empty' = (buf_is_empty \/ Used <= size)
    /\ UNCHANGED <<log_buf, write_index, buf_is_full>>

\* A log that fills the space exactly sets the full flag too.
async_put_log(log) ==
    /\ Space > 0
    /\ LET size == IF Space <= Len(log) THEN Space ELSE Len(log)
       IN  /\ buf_is_full' = (buf_is_full \/ Space <= Len(log))
           /\ log_buf' = CopyIn(log, size)
           /\ write_index' = Advance(write_index, size)
    /\ buf_is_empty' = FALSE
    /\ UNCHANGED <<read_index, poll_get_buf>>

\* A get of everything there is sets the empty flag.
elog_async_get_log(size) ==
    /\ Used > 0 /\ size > 0
    /\ LET n == IF Used <= size THEN Used ELSE size
       IN  /\ poll_get_buf' = CopyOut(n)
           /\ read_index' = Advance(read_index, n)
           /\ buf_is_empty' = (buf_is_empty \/ Used <= size)
    /\ buf_is_full' = FALSE
    /\ UNCHANGED <<log_buf, write_index>>

\* No log, or no room for one: get returns 0.
get_log_nothing(size) ==
    /\ Used = 0 \/ size = 0
    /\ poll_get_buf' = <<>>
    /\ UNCHANGED <<log_buf, write_index, read_index, buf_is_full, buf_is_empty>>

Next ==
    \/ \E log \in Logs : async_put_log(log)
    \/ \E size \in Sizes : elog_async_get_log(size) \/ get_log_nothing(size)

Spec == Init /\ [][Next]_vars

------------------------------------------------------------------------------
TypeOK ==
    /\ log_buf \in [Index -> Byte]
    /\ write_index \in Index
    /\ read_index \in Index
    /\ buf_is_full \in BOOLEAN
    /\ buf_is_empty \in BOOLEAN
    /\ poll_get_buf \in Seq(Byte)

\* Equal indices leave open whether the buffer is full or empty.  The flags
\* settle it: exactly one of them is set then, and none of them otherwise.
FlagsInv ==
    /\ write_index = read_index <=> buf_is_full \/ buf_is_empty
    /\ ~(buf_is_full /\ buf_is_empty)

\* The ring buffer implements a queue of bytes: whatever the wrap-arounds, bytes
\* come out once, unchanged and in the order in which they went in.
BQ == INSTANCE ByteQueue WITH
        Capacity <- OUTPUT_BUF_SIZE,
        content <- CopyOut(Used),
        received <- poll_get_buf
ImplementsByteQueue == BQ!Spec
=============================================================================
