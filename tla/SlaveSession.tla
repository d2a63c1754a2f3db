---------------------------- MODULE SlaveSession ----------------------------
(***************************************************************************)
(* One connection of the master to a slave, for the one request it is made *)
(* for: the calls that pool threads make on it one after the other         *)
(* (client/slave_client.h, gen-cpp/Master_server.cpp), the generated stubs *)
(* of gen-cpp/Slave.cpp on both ends, timeouts, and a slave that crashes.  *)
(* A get is one call; a set or del is a Try, the write, and up to three    *)
(* attempts at Finish.  Calls and replies carry what Wire writes.          *)
(***************************************************************************)
EXTENDS Wire

CONSTANTS
    Ops,                \* the kinds of request
    MaxAttempts         \* of Finish; the code has 3

ASSUME SessionAssumption ==
    /\ Ops \subseteq {"Get", "Set", "Del"}
    /\ MaxAttempts \in Nat \ {0}

Calls == 1..MaxAttempts + 2

VARIABLES
    op,                 \* the request
    pc,                 \* what the master does next with the connection
    call,               \* the number of the current call, 0 before the first
    result,             \* what became of each call
    connection_id,      \* the connection_id in the answer to the write, or 0
    call_func,          \* the decision that Finish carries
    socket,             \* "open", "eof", "reset" or "closed"
    requests,           \* the calls on their way to the slave
    working,            \* external: the replies the slave is about to write, at most one
    replies,            \* the replies on their way to the master
    tx,                 \* external: the transaction of the write
    written             \* history: the func_call that the slave's Set was told

wire == <<requests, working, replies>>
slave == <<tx, written>>
vars == <<op, pc, call, result, connection_id, call_func, socket, wire, slave>>

Method(n) ==
    CASE op = "Get" -> "Get"
      [] op # "Get" /\ n = 1 -> "Try"
      [] op # "Get" /\ n = 2 -> op
      [] op # "Get" /\ n > 2 -> "Finish"

Answered == {"yes", "no"}
Results == Answered \cup {"none", "timeout", "broken", "exception"}

Init ==
    /\ op \in Ops
    /\ pc = "idle"
    /\ call = 0
    /\ result = [n \in Calls |-> "none"]
    /\ connection_id = 0
    /\ call_func = "none"
    /\ socket = "open"
    /\ requests = <<>>
    /\ working = <<>>
    /\ replies = <<>>
    /\ tx = "none"
    /\ written = "none"

------------------------------------------------------------------------------
(* The master: MGet; MTry, MSet or MDel, and MMFinish.                      *)

Begin ==
    /\ call' = call + 1
    /\ pc' = "send"

\* The first call: Get or Try.
FirstCall ==
    /\ pc = "idle" /\ call = 0
    /\ Begin
    /\ UNCHANGED <<op, result, connection_id, call_func, socket, wire, slave>>

\* MSet writes whatever Try answered, MDel only where the key was found.
WriteCall ==
    /\ pc = "idle" /\ call = 1 /\ op # "Get"
    /\ op = "Set" \/ result[1] = "yes"
    /\ Begin
    /\ UNCHANGED <<op, result, connection_id, call_func, socket, wire, slave>>

\* The answers of all slaves decide; MMFinish begins.
Decide ==
    /\ pc = "idle" /\ call = 2
    /\ \/ call_func' = "rollback"
       \/ call_func' = "commit" /\ result[2] = "yes"
    /\ Begin
    /\ UNCHANGED <<op, result, connection_id, socket, wire, slave>>

\* Faulty: one attempt too many.
RetryFinishFourth ==
    /\ pc = "idle" /\ call \in 3..MaxAttempts + 2
    /\ Begin
    /\ UNCHANGED <<op, result, connection_id, call_func, socket, wire, slave>>

\* MFinish once more, for every slave if one of them failed.
RetryFinish ==
    /\ pc = "idle" /\ call \in 3..MaxAttempts + 1
    /\ Begin
    /\ UNCHANGED <<op, result, connection_id, call_func, socket, wire, slave>>

\* The last use of the connection is over.
Done ==
    /\ pc = "idle"
    /\ \/ op = "Get" /\ call = 1
       \/ op = "Del" /\ call = 1 /\ result[1] # "yes"
       \/ call > 2 /\ (result[call] = "yes" \/ call = MaxAttempts + 2)
    /\ pc' = "over"
    /\ UNCHANGED <<op, call, result, connection_id, call_func, socket, wire, slave>>

\* The promise of the current call is set.
Promise(x) == result' = [result EXCEPT ![call] = x] /\ pc' = "idle"

\* An exception that the pool's tasks do not catch ends the process.
Terminate(x) == result' = [result EXCEPT ![call] = x] /\ pc' = "terminated"

------------------------------------------------------------------------------
(* The stubs of the master.                                                 *)

\* The func_call of a Set.
set_func(found) == IF found THEN "update" ELSE "insert"

\* Faulty: a Finish is sent without the connection_id.
RequestUnnamed(n) ==
    LET m == Method(n)
        request == Initial(SignatureOf(m).request)
    IN  CASE m \in {"Get", "Try", "Del"} -> [request EXCEPT !.key = "key"]
          [] m = "Set" ->
                [request EXCEPT !.key = "key", !.value = "value",
                                !.func_call = set_func(result[1] = "yes")]
          [] m = "Finish" -> [request EXCEPT !.call_func = call_func]

\* The request of a call.  A Finish names the transaction by the connection_id in the
\* answer to the write; without an answer that is 0.
Request(n) ==
    LET m == Method(n)
        request == Initial(SignatureOf(m).request)
    IN  CASE m \in {"Get", "Try", "Del"} -> [request EXCEPT !.key = "key"]
          [] m = "Set" ->
                [request EXCEPT !.key = "key", !.value = "value",
                                !.func_call = set_func(result[1] = "yes")]
          [] m = "Finish" ->
                [request EXCEPT !.connection_id = connection_id, !.call_func = call_func]

Message == [call |-> call, name |-> Method(call), body |-> Arguments(Method(call), Request(call))]

\* send_X.  A peer that is gone answers the data with a reset, which may come
\* before the end of the stream is seen.
Send ==
    /\ pc = "send"
    /\ \/ socket = "open" /\ requests' = Append(requests, Message) /\ UNCHANGED socket
       \/ socket = "eof" /\ socket' \in {"eof", "reset"} /\ UNCHANGED requests
    /\ pc' = "recv"
    /\ UNCHANGED <<op, call, result, connection_id, call_func, working, replies, slave>>

\* The socket closes itself when a write fails.
SendFails ==
    /\ pc = "send"
    /\ socket \in {"reset", "closed"}
    /\ socket' = "closed"
    /\ Promise("broken")
    /\ UNCHANGED <<op, call, connection_id, call_func, wire, slave>>

Arrived == replies # <<>> /\ socket # "reset"
Frame == Head(replies)
ReadFrame == replies' = Tail(replies)

\* Faulty: the sequence number is looked at, and the reply skipped all the same.
IsOwnBySeqid(f) == f.type = "reply" /\ f.call = call

IsOwn(f) == f.type = "reply" /\ f.name = Method(call)

\* What the master's handler makes of a response.
Verdict(m, response) ==
    IF m = "Try" THEN response.check_key ELSE response.message = "success"

Decoded == Success(Method(call), Frame.body)

\* recv_X: a reply of this method, which holds a result; if it did not, the call would end
\* with a TApplicationException.
RecvReply ==
    /\ pc = "recv" /\ Arrived
    /\ IsOwn(Frame)
    /\ ReadFrame
    /\ IF HasSuccess(Method(call), Frame.body)
       THEN Promise(IF Verdict(Method(call), Decoded) THEN "yes" ELSE "no")
       ELSE Terminate("exception")
    /\ connection_id' = IF Method(call) \in {"Set", "Del"} THEN Decoded.connection_id
                                                         ELSE connection_id
    /\ UNCHANGED <<op, call, call_func, socket, requests, working, slave>>

\* A TApplicationException.
RecvException ==
    /\ pc = "recv" /\ Arrived
    /\ Frame.type = "exception"
    /\ ReadFrame
    /\ Terminate("exception")
    /\ UNCHANGED <<op, call, connection_id, call_func, socket, requests, working, slave>>

\* Faulty: recv_X starts again after the skip.
RecvOtherAgain ==
    /\ pc = "recv" /\ Arrived
    /\ Frame.type = "reply" /\ ~IsOwn(Frame)
    /\ ReadFrame
    /\ UNCHANGED <<op, pc, call, result, connection_id, call_func, socket, requests, working, slave>>

\* A reply of another method is skipped; recv_X goes on to read a result ...
RecvOther ==
    /\ pc = "recv" /\ Arrived
    /\ Frame.type = "reply" /\ ~IsOwn(Frame)
    /\ ReadFrame
    /\ pc' = "rest"
    /\ UNCHANGED <<op, call, result, connection_id, call_func, socket, requests, working, slave>>

\* ... from the next frame, whose first byte is no type of a field: skip throws a
\* TProtocolException.
RecvRest ==
    /\ pc = "rest" /\ Arrived
    /\ ReadFrame
    /\ Terminate("none")
    /\ UNCHANGED <<op, call, connection_id, call_func, socket, requests, working, slave>>

\* Faulty: no timeout is set.
TimeoutUnset == FALSE /\ UNCHANGED vars

\* The timeout of two seconds.  The connection stays.
RecvTimeout ==
    /\ pc \in {"recv", "rest"}
    /\ replies = <<>> /\ socket = "open"
    /\ Promise("timeout")
    /\ UNCHANGED <<op, call, connection_id, call_func, socket, wire, slave>>

\* The end of the stream, or a reset.
RecvBroken ==
    /\ pc \in {"recv", "rest"}
    /\ \/ socket = "eof" /\ replies = <<>>
       \/ socket = "reset"
    /\ Promise("broken")
    /\ UNCHANGED <<op, call, connection_id, call_func, socket, wire, slave>>

CallStep ==
    \/ Send \/ SendFails
    \/ RecvReply \/ RecvException \/ RecvOther \/ RecvRest
    \/ RecvTimeout \/ RecvBroken
MasterStep == FirstCall \/ WriteCall \/ Decide \/ RetryFinish \/ Done \/ CallStep

------------------------------------------------------------------------------
(* The slave: one call of a connection after the other.                     *)

\* What the slave's handler answers.
Answer(m, ok) ==
    LET response == Initial(SignatureOf(m).response)
    IN  CASE m = "Try" -> [response EXCEPT !.message = "success", !.check_key = ok]
          [] m \in {"Set", "Del"} /\ ok ->
                [response EXCEPT !.message = "success", !.connection_id = 1]
          [] m \in {"Get", "Finish"} /\ ok -> [response EXCEPT !.message = "success"]
          [] m # "Try" /\ ~ok -> [response EXCEPT !.message = "fail"]

Outcome(func) == IF func = "commit" THEN "committed" ELSE "rolledback"

\* What it does with its transaction when its answer is ok.  A Finish that names no
\* transaction does nothing.
Effect(m, request, ok) ==
    CASE m \in {"Get", "Try"} -> UNCHANGED tx
      [] m \in {"Set", "Del"} -> tx' = IF ok THEN "open" ELSE tx
      [] m = "Finish" ->
            IF ~ok \/ request.connection_id = 0 THEN UNCHANGED tx
            ELSE LET outcome == Outcome(request.call_func)
                 IN  \/ tx \in {"open", outcome} /\ tx' = outcome
                     \/ tx = "lost" /\ outcome = "rolledback" /\ UNCHANGED tx

\* process_X reads its arguments and runs the handler, ...
Execute ==
    /\ requests # <<>> /\ working = <<>>
    /\ requests' = Tail(requests)
    /\ LET m == Head(requests).name
           request == Argument(m, Head(requests).body)
       IN  /\ \E ok \in BOOLEAN, type \in {"reply", "exception"} :
                 /\ working' = <<[call |-> Head(requests).call, name |-> m, type |-> type,
                                  body |-> IF type = "reply" THEN Result(m, Answer(m, ok))
                                                             ELSE <<>>]>>
                 /\ Effect(m, request, ok)
           /\ written' = IF m = "Set" THEN request.func_call ELSE written
    /\ UNCHANGED <<op, pc, call, result, connection_id, call_func, socket, replies>>

\* ... and writes its result or its exception.
Reply ==
    /\ working # <<>>
    /\ replies' = replies \o working
    /\ working' = <<>>
    /\ UNCHANGED <<op, pc, call, result, connection_id, call_func, socket, requests, slave>>

\* The database drops an open transaction.
Lose ==
    /\ tx = "open"
    /\ tx' = "lost"
    /\ UNCHANGED <<op, pc, call, result, connection_id, call_func, socket, wire, written>>

\* A crash takes the connection and what is not committed with it.
Crash ==
    /\ socket = "open"
    /\ socket' \in {"eof", "reset"}
    /\ requests' = <<>> /\ working' = <<>>
    /\ tx' = IF tx = "open" THEN "lost" ELSE tx
    /\ UNCHANGED <<op, pc, call, result, connection_id, call_func, replies, written>>

SlaveStep == Execute \/ Reply \/ Lose \/ Crash

Next == MasterStep \/ SlaveStep
Spec == Init /\ [][Next]_vars

\* The pool thread in a call goes on; without an answer the call times out.
FairSpec == Spec /\ WF_vars(CallStep)

------------------------------------------------------------------------------
IsMessage(m) == m.call \in Calls /\ m.name = Method(m.call) /\ Len(m.body) <= 1

TypeOK ==
    /\ op \in {"Get", "Set", "Del"}
    /\ pc \in {"idle", "send", "recv", "rest", "over", "terminated"}
    /\ call \in {0} \cup Calls
    /\ result \in [Calls -> Results]
    /\ connection_id \in {0, 1}
    /\ call_func \in {"none", "commit", "rollback"}
    /\ socket \in {"open", "eof", "reset", "closed"}
    /\ \A i \in DOMAIN requests : IsMessage(requests[i])
    /\ \A s \in {working, replies} : \A i \in DOMAIN s :
          IsMessage(s[i]) /\ s[i].type \in {"reply", "exception"}
    /\ Len(working) <= 1
    /\ tx \in {"none", "open", "committed", "rolledback", "lost"}
    /\ written \in {"none", "insert", "update"}

\* What MasterHandler takes an answer for (gen-cpp/Master_server.cpp:235, :397): a
\* write that is answered "success" was executed, and if the answer to a Finish is
\* "success", be it the late answer to an earlier attempt, the transaction has
\* its outcome, or was lost before a rollback.
SuccessIsTrue ==
    op # "Get" /\ result[2] = "yes" =>
        /\ tx # "none"
        /\ \A n \in 3..MaxAttempts + 2 : result[n] = "yes" =>
              tx = Outcome(call_func) \/ (call_func = "rollback" /\ tx = "lost")

\* A failed Try looks like an absent key (Master_server.cpp:157), and Set goes on
\* to insert it; but that write is never answered, because the late reply to Try is
\* in its way or the connection is gone, so that it is never committed.  A Set
\* that is answered was told what Try found.
TriedFirst ==
    op # "Get" /\ result[2] \in Answered =>
        /\ result[1] \in Answered
        /\ op = "Set" => written = IF result[1] = "yes" THEN "update" ELSE "insert"

\* The process of the master ends on an exception of the slave, or on the reply to
\* a Try or a write that timed out; a Finish that times out never ends it.
EndsOnLateReply ==
    pc = "terminated" =>
        \/ result[call] = "exception"
        \/ \E n \in {1, 2} : n < call /\ result[n] = "timeout"

\* The session as MasterHandler sees it: what its caller knows of the write and of the
\* current attempt at Finish.
Calling == pc \in {"send", "recv", "rest"}
Wrote ==
    CASE call < 2 -> "unsent"
      [] call = 2 /\ Calling -> "pending"
      [] call >= 2 /\ ~(call = 2 /\ Calling) -> IF result[2] = "yes" THEN "success" ELSE "fail"
Fin ==
    IF call < 3 \/ Calling THEN "none"
    ELSE IF result[call] = "yes" THEN "success" ELSE "fail"

SW == INSTANCE SlaveWrite WITH wrote <- Wrote, fin <- Fin

\* Whatever becomes of the connection and its messages, the answers to a write and to
\* the attempts at its Finish tell the truth about the slave's transaction, which the
\* slave opens, ends or loses at any moment of a call, or after it.
ImplementsSlaveWrite == SW!Spec

\* Every call ends, however slow or silent the slave is.
CallEnds == pc \in {"send", "recv", "rest"} ~> pc \in {"idle", "terminated"}
=============================================================================
