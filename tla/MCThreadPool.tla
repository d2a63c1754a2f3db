---------------------------- MODULE MCThreadPool ----------------------------
(* ThreadPool on a few threads and tasks.  No symmetry is used, because the *)
(* run that checks safety checks liveness too.                              *)
EXTENDS ThreadPool
=============================================================================
