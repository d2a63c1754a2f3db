---------------------------- MODULE ClientSession ----------------------------
(***************************************************************************)
(* The interactive client (client/client.cpp) over its connections to the  *)
(* masters: the generated stubs of gen-cpp/Master.cpp on both ends of a    *)
(* TCP connection, timeouts, masters that crash, and the goto that repeats *)
(* a command at the last master of the configuration.                      *)
(*                                                                         *)
(* A call sends its request and reads the next reply on the connection.    *)
(* Replies carry the name of their method and a sequence number that nobody*)
(* reads, so a reply that comes after its call has timed out is read by the*)
(* next call.                                                              *)
(***************************************************************************)
EXTENDS Integers, Sequences, FiniteSets

CONSTANTS
    Kind,           \* the commands that the user types: a sequence of methods
    Home,           \* the address of the first master, a literal
    Back,           \* MasterConf::master_address.back()
    MaxLinks        \* names for connections; a name is free again when nothing of
                    \* its connection is left, at either end or on the way

ASSUME SessionAssumption ==
    /\ Kind \in Seq({"Get", "Set", "Del"})
    /\ MaxLinks \in Nat \ {0}

Commands == 1..Len(Kind)
Links == 1..MaxLinks
Masters == {Home, Back}
None == 0
Error == -1

VARIABLES
    pc,             \* what the client does next
    cur,            \* the command it works on, 0 before the first
    link,           \* its connection, 0 before the first
    peer,           \* the master of each connection
    socket,         \* "none", "open", "eof", "reset" or "closed"
    requests,       \* per connection, the commands on their way
    working,        \* per connection, the command that the master executes, or 0
    replies,        \* per connection, the replies on their way
    up,             \* the masters that run
    shown,          \* per command: None, Error, or the command whose reply was printed
    executions      \* history: the commands that masters have begun to execute, one
                    \* that is begun again right away once

client == <<pc, cur, link>>
wire == <<requests, working, replies>>
vars == <<client, peer, socket, wire, up, shown, executions>>

PCs == {"connect", "read", "send", "recv", "rest", "exited", "aborted"}

Init ==
    /\ pc = "connect"
    /\ cur = 0
    /\ link = 0
    /\ peer = [k \in Links |-> Home]
    /\ socket = [k \in Links |-> "none"]
    /\ requests = [k \in Links |-> <<>>]
    /\ working = [k \in Links |-> 0]
    /\ replies = [k \in Links |-> <<>>]
    /\ up = Masters
    /\ shown = [c \in Commands |-> None]
    /\ executions = <<>>

------------------------------------------------------------------------------
(* The client.                                                              *)

\* A connection that is gone at both ends.
Free(k) ==
    /\ socket[k] \in {"none", "closed"}
    /\ requests[k] = <<>> /\ working[k] = 0

\* The constructor of masterClient, at the start and after "change master
\* server".  Its exception is not caught.
Connect ==
    /\ pc = "connect"
    /\ LET m == IF link = 0 THEN Home ELSE Back
       IN  \/ /\ m \in up
              /\ \E k \in Links :
                    /\ Free(k)
                    /\ link' = k
                    /\ peer' = [peer EXCEPT ![k] = m]
                    /\ socket' = [socket EXCEPT ![k] = "open"]
                    /\ replies' = [replies EXCEPT ![k] = <<>>]
              /\ pc' = IF cur = 0 THEN "read" ELSE "send"
           \/ /\ pc' = "aborted"
              /\ UNCHANGED <<link, peer, socket, replies>>
    /\ UNCHANGED <<cur, requests, working, up, shown, executions>>

\* Faulty: one command too many.
ReadCommandPastEnd ==
    /\ pc = "read"
    /\ cur <= Len(Kind) /\ cur' = cur + 1 /\ pc' = "send"
    /\ UNCHANGED <<link, peer, socket, wire, up, shown, executions>>

\* getline: the next command, or "exit".  The loop is back here after every call.
ReadCommand ==
    /\ pc = "read"
    /\ \/ cur < Len(Kind) /\ cur' = cur + 1 /\ pc' = "send"
       \/ cur = Len(Kind) /\ cur' = cur /\ pc' = "exited"
    /\ UNCHANGED <<link, peer, socket, wire, up, shown, executions>>

\* The catch of a TTransportException other than "No more data to read.", and
\* the catch of a TApplicationException: print the error, stay with the master.
PrintError ==
    /\ shown' = [shown EXCEPT ![cur] = Error]
    /\ pc' = "read"
    /\ UNCHANGED <<cur, link>>

\* send_Get, send_Set, send_Del.  A master that is gone answers the data with a
\* reset, which may come before the client sees the end of the stream.
Send ==
    /\ pc = "send"
    /\ socket[link] \in {"open", "eof"}
    /\ \/ /\ socket[link] = "open"
          /\ requests' = [requests EXCEPT ![link] = Append(@, cur)]
          /\ UNCHANGED socket
       \/ /\ socket[link] = "eof"
          /\ \E s \in {"eof", "reset"} : socket' = [socket EXCEPT ![link] = s]
          /\ UNCHANGED requests
    /\ pc' = "recv"
    /\ UNCHANGED <<cur, link, peer, working, replies, up, shown, executions>>

\* The socket closes itself when a write fails, and stays closed.
SendFails ==
    /\ pc = "send"
    /\ socket[link] \in {"reset", "closed"}
    /\ socket' = [socket EXCEPT ![link] = "closed"]
    /\ PrintError
    /\ UNCHANGED <<peer, wire, up, executions>>

Arrived == replies[link] # <<>> /\ socket[link] # "reset"
Frame == Head(replies[link])
ReadFrame == replies' = [replies EXCEPT ![link] = Tail(@)]

\* recv_Get, recv_Set, recv_Del: a reply of this method is taken for the reply to
\* this call.
RecvReply ==
    /\ pc = "recv" /\ Arrived
    /\ Frame.type = "reply"
    /\ Kind[Frame.cmd] = Kind[cur]
    /\ ReadFrame
    /\ shown' = [shown EXCEPT ![cur] = Frame.cmd]
    /\ pc' = "read"
    /\ UNCHANGED <<cur, link, peer, socket, requests, working, up, executions>>

\* An exception is thrown whatever method it answers.
RecvException ==
    /\ pc = "recv" /\ Arrived
    /\ Frame.type = "exception"
    /\ ReadFrame
    /\ PrintError
    /\ UNCHANGED <<peer, socket, requests, working, up, executions>>

\* A reply of another method is skipped, but the call goes on to read a result
\* from what follows it on the connection.
RecvOther ==
    /\ pc = "recv" /\ Arrived
    /\ Frame.type = "reply"
    /\ Kind[Frame.cmd] # Kind[cur]
    /\ ReadFrame
    /\ pc' = "rest"
    /\ UNCHANGED <<cur, link, peer, socket, requests, working, up, shown, executions>>

\* That is a whole message and no result.  Its first byte is no type of a field,
\* and skip throws a TProtocolException, which nobody catches.
RecvRest ==
    /\ pc = "rest" /\ Arrived
    /\ ReadFrame
    /\ pc' = "aborted"
    /\ UNCHANGED <<cur, link, peer, socket, requests, working, up, shown,
                   executions>>

\* Faulty: every transport error leads to the next master.
TimeoutTurnsToBack ==
    /\ pc \in {"recv", "rest"}
    /\ replies[link] = <<>>
    /\ socket[link] = "open"
    /\ socket' = [socket EXCEPT ![link] = "closed"]
    /\ pc' = "connect"
    /\ UNCHANGED <<cur, link, peer, wire, up, shown, executions>>

\* Faulty: the command is sent again on the connection it timed out on.
TimeoutRepeats ==
    /\ pc \in {"recv", "rest"}
    /\ replies[link] = <<>>
    /\ socket[link] = "open"
    /\ pc' = "send"
    /\ UNCHANGED <<cur, link, peer, socket, wire, up, shown, executions>>

\* Faulty: no timeout is set.
TimeoutUnset ==
    /\ FALSE
    /\ UNCHANGED vars

\* The timeout of one second.  The connection stays.
RecvTimeout ==
    /\ pc \in {"recv", "rest"}
    /\ replies[link] = <<>>
    /\ socket[link] = "open"
    /\ PrintError
    /\ UNCHANGED <<peer, socket, wire, up, executions>>

\* "No more data to read.": the client turns to Back and repeats the command.
RecvEnd ==
    /\ pc \in {"recv", "rest"}
    /\ replies[link] = <<>>
    /\ socket[link] = "eof"
    /\ socket' = [socket EXCEPT ![link] = "closed"]
    /\ pc' = "connect"
    /\ UNCHANGED <<cur, link, peer, wire, up, shown, executions>>

\* Faulty: a reset leads to the next master, whatever its text.
ResetTurnsToBack ==
    /\ pc \in {"recv", "rest"}
    /\ socket[link] = "reset"
    /\ socket' = [socket EXCEPT ![link] = "closed"]
    /\ pc' = "connect"
    /\ UNCHANGED <<cur, link, peer, wire, up, shown, executions>>

RecvReset ==
    /\ pc \in {"recv", "rest"}
    /\ socket[link] = "reset"
    /\ PrintError
    /\ UNCHANGED <<peer, socket, wire, up, executions>>

ClientStep ==
    \/ Connect \/ ReadCommand \/ Send \/ SendFails
    \/ RecvReply \/ RecvException \/ RecvOther \/ RecvRest
    \/ RecvTimeout \/ RecvEnd \/ RecvReset

------------------------------------------------------------------------------
(* The masters: one request of a connection after the other.                *)

Begin(c) ==
    executions' = IF executions # <<>> /\ executions[Len(executions)] = c
                    THEN executions ELSE Append(executions, c)

\* process_Get, process_Set, process_Del: the handler runs, ...
Execute(k) ==
    /\ requests[k] # <<>>
    /\ working[k] = 0
    /\ working' = [working EXCEPT ![k] = Head(requests[k])]
    /\ requests' = [requests EXCEPT ![k] = Tail(@)]
    /\ Begin(Head(requests[k]))
    /\ UNCHANGED <<client, peer, socket, replies, up, shown>>

\* ... and its response, or its exception, is written.
Reply(k) ==
    /\ working[k] # 0
    /\ \E type \in {"reply", "exception"} :
          replies' = [replies EXCEPT ![k] = Append(@, [cmd |-> working[k], type |-> type])]
    /\ working' = [working EXCEPT ![k] = 0]
    /\ UNCHANGED <<client, peer, socket, requests, up, shown, executions>>

\* Connections end: with the end of the stream, or with a reset.
End(lost) ==
    /\ \E s \in {"eof", "reset"} :
          socket' = [k \in Links |-> IF k \in lost THEN s ELSE socket[k]]
    /\ requests' = [k \in Links |-> IF k \in lost THEN <<>> ELSE requests[k]]
    /\ working' = [k \in Links |-> IF k \in lost THEN 0 ELSE working[k]]

\* A master that runs closes a connection, when it is not working for it.
Close(k) ==
    /\ socket[k] = "open" /\ working[k] = 0
    /\ End({k})
    /\ UNCHANGED <<client, peer, replies, up, shown, executions>>

\* A crash takes what the master has not answered with it.
Crash(m) ==
    /\ m \in up
    /\ up' = up \ {m}
    /\ End({k \in Links : peer[k] = m /\ socket[k] = "open"})
    /\ UNCHANGED <<client, peer, replies, shown, executions>>

Restart(m) ==
    /\ m \notin up
    /\ up' = up \cup {m}
    /\ UNCHANGED <<client, peer, socket, wire, shown, executions>>

MasterStep ==
    \/ \E k \in Links : Execute(k) \/ Reply(k) \/ Close(k)
    \/ \E m \in Masters : Crash(m) \/ Restart(m)

Next == ClientStep \/ MasterStep
Spec == Init /\ [][Next]_vars

\* The client goes on; a call that gets no answer times out.
FairSpec == Spec /\ WF_vars(ClientStep)

------------------------------------------------------------------------------
TypeOK ==
    /\ pc \in PCs
    /\ cur \in 0..Len(Kind)
    /\ link \in 0..MaxLinks
    /\ peer \in [Links -> Masters]
    /\ socket \in [Links -> {"none", "open", "eof", "reset", "closed"}]
    /\ requests \in [Links -> Seq(Commands)]
    /\ working \in [Links -> 0..Len(Kind)]
    /\ replies \in [Links -> Seq([cmd : Commands, type : {"reply", "exception"}])]
    /\ up \subseteq Masters
    /\ shown \in [Commands -> {Error, None} \cup Commands]
    /\ executions \in Seq(Commands)

\* Whose reply a command shows (client.cpp:74, :97, :126; recv_X ignores the
\* sequence number): its own, or that of an earlier command of the same kind; every
\* reply at most once, and in the order of the commands, so that a reply is late by
\* no more commands than the user has been told had failed.
RepliesInOrder ==
    \A c \in Commands :
        shown[c] \in Commands =>
            /\ Kind[shown[c]] = Kind[c]
            /\ shown[c] <= c
            /\ Cardinality({d \in 1..c - 1 : shown[d] = Error}) >= c - shown[c]
            /\ \A d \in 1..c - 1 : shown[d] \in Commands => shown[d] < shown[c]

\* What the masters between them begin to execute: commands repeated at another
\* master (client.cpp:68, :91, :120) and commands that timed out come in the order
\* typed, and none begins after a later one has.  (What a slave does with it comes
\* later still: MasterHandler and KeyRows.)
ExecutedInOrder ==
    \A i, j \in 1..Len(executions) : i < j => executions[i] <= executions[j]

\* The connection is gone, ended by its master, and the client does not turn to the next master: a reset
\* or a failed write, whose text is not the one compared (client.cpp:64, :86, :112);
\* or the next master was down as well, which ended the client (client.cpp:66).
Broken ==
    link # 0 /\ (socket[link] = "reset" \/ (socket[link] = "closed" /\ pc # "connect"))

\* From then on no master begins to execute anything for this client, neither what
\* it still types nor what was on its way on any earlier connection, and every
\* command ends in an error.  (What a master has begun is another matter: it may
\* have asked slaves to finish, and they may still do so.)
FailsForGood ==
    [][Broken => /\ Broken'
                 /\ \A k \in Links : working'[k] \in {0, working[k]}
                 /\ executions' = executions
                 /\ \A c \in Commands : shown'[c] # shown[c] => shown'[c] = Error]_vars

\* However slow or silent masters are, a command comes to an end: an answer or an
\* error is printed, or the client aborts.  The goto is bounded by nothing
\* (client.cpp:68, :91, :120), so there is one way out: every connection ends again,
\* for ever, each time that the command is repeated.
CommandEnds ==
    \/ []<><<RecvEnd>>_vars
    \/ pc \in {"connect", "send", "recv", "rest"} ~> pc \in {"read", "exited", "aborted"}
=============================================================================
