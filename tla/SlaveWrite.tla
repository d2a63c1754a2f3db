------------------------------ MODULE SlaveWrite ------------------------------
(***************************************************************************)
(* What the handlers of gen-cpp/Master_server.cpp rely on when they send   *)
(* one write to one slave and then try, in one or more attempts, to finish *)
(* its transaction: an answer "success" is never untrue, while any other   *)
(* end of a call (an answer "fail", a timeout, a broken connection) says   *)
(* nothing about what the slave has done or will still do.                 *)
(*                                                                         *)
(* MasterHandler, which takes each call to a slave for one step, and       *)
(* SlaveSession, which takes the connection and its messages apart, are    *)
(* both shown to implement this module.                                    *)
(***************************************************************************)

VARIABLES
    wrote,      \* the write: "unsent", "pending", "success" or "fail"
    call_func,  \* the decision: "none", "commit" or "rollback"
    fin,        \* the answer to the current attempt: "none", "success" or "fail"
    tx          \* the slave's transaction

vars == <<wrote, call_func, fin, tx>>

Init ==
    /\ wrote = "unsent"
    /\ call_func = "none"
    /\ fin = "none"
    /\ tx = "none"

Outcome == IF call_func = "commit" THEN "committed" ELSE "rolledback"

\* The slave executes the write, which opens the transaction.
Opens == tx = "none" /\ tx' = "open"

\* The slave executes a finish.  It finds the transaction only by the
\* connection_id in the answer to the write.
Ends == wrote = "success" /\ tx = "open" /\ tx' = Outcome

SendWrite ==
    /\ wrote = "unsent" /\ call_func = "none"
    /\ wrote' = "pending"
    /\ UNCHANGED <<call_func, fin, tx>>

\* The slave may execute the write before its caller has an answer, or after it
\* has given up, but not after it has answered.
Execute ==
    /\ wrote \in {"pending", "fail"}
    /\ Opens
    /\ UNCHANGED <<wrote, call_func, fin>>

AnswerWrite ==
    /\ wrote = "pending"
    /\ Opens \/ UNCHANGED tx
    /\ \/ wrote' = "success" /\ tx' # "none"
       \/ wrote' = "fail"
    /\ UNCHANGED <<call_func, fin>>

\* The answers of all slaves decide.
Decide ==
    /\ call_func = "none" /\ wrote # "pending"
    /\ \/ call_func' = "rollback"
       \/ call_func' = "commit" /\ wrote # "fail"
    /\ UNCHANGED <<wrote, fin, tx>>

\* Nothing more is to be done for the transaction.
Settled ==
    \/ tx = Outcome
    \/ call_func = "rollback" /\ (tx = "lost" \/ wrote = "fail")

AnswerFinish ==
    /\ call_func # "none" /\ fin = "none"
    /\ Ends \/ UNCHANGED tx
    /\ \/ fin' = "success" /\ Settled'
       \/ fin' = "fail"
    /\ UNCHANGED <<wrote, call_func>>

\* A finish is executed before its caller has an answer, or after it has given up.
Finish ==
    /\ call_func # "none"
    /\ Ends
    /\ UNCHANGED <<wrote, call_func, fin>>

\* One more attempt.
Retry ==
    /\ fin # "none"
    /\ fin' = "none"
    /\ UNCHANGED <<wrote, call_func, tx>>

\* The slave's database drops an open transaction.
Lose ==
    /\ tx = "open"
    /\ tx' = "lost"
    /\ UNCHANGED <<wrote, call_func, fin>>

Next ==
    \/ SendWrite \/ Execute \/ AnswerWrite
    \/ Decide
    \/ AnswerFinish \/ Finish \/ Retry
    \/ Lose

Spec == Init /\ [][Next]_vars
=============================================================================
