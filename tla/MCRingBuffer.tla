---------------------------- MODULE MCRingBuffer ----------------------------
(* RingBuffer on a buffer of four bytes; logs shorter, as long and longer.  *)
EXTENDS RingBuffer

\* Logs of one to five bytes in which neighbouring bytes differ.
MCLogs == UNION {{s \in [1..n -> {1, 2}] : \A k \in 1..n - 1 : s[k] # s[k + 1]} : n \in 1..5}
=============================================================================
