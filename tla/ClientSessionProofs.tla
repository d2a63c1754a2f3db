------------------------ MODULE ClientSessionProofs -------------------------
(* Proofs about ClientSession: types, the order of the executions, and      *)
(* whose replies are shown.                                                 *)
EXTENDS ClientSession, FiniteSetTheorems, SequenceTheorems, TLAPS

(* Types.  A call is made for a command, and on a connection.               *)

AtWork ==
    /\ pc \in {"send", "recv", "rest"} => cur # 0
    /\ pc \in {"read", "send", "recv", "rest"} => link # 0
    /\ cur # 0 => link # 0

TypeInv == TypeOK /\ AtWork

LEMMA KindType == Len(Kind) \in Nat /\ MaxLinks \in Nat
  BY SessionAssumption

LEMMA TypeInit == ASSUME Init PROVE TypeInv
<1>1. /\ cur \in 0..Len(Kind) /\ link \in 0..MaxLinks
      /\ 0 \in 0..Len(Kind)
  BY KindType DEF Init
<1>2. \A S : <<>> \in Seq(S)
  OBVIOUS
<1>3. TypeOK
  BY <1>1, <1>2 DEF Init, TypeOK, PCs, Masters, None
<1> QED  BY <1>3 DEF TypeInv, AtWork, Init

LEMMA TypeStep == ASSUME TypeInv, [Next]_vars PROVE TypeInv'
<1> USE DEF TypeInv, TypeOK, AtWork, client, wire
<1> USE KindType
<1>1. link # 0 => link \in Links
  BY DEF Links
<1>2. cur # 0 => cur \in Commands
  BY DEF Commands
<1>3. CASE Connect
  <2>1. UNCHANGED <<cur, requests, working, up, shown, executions>>
    BY <1>3 DEF Connect
  <2>2. CASE UNCHANGED <<link, peer, socket, replies>> /\ pc' = "aborted"
    BY <2>1, <2>2 DEF PCs
  <2>3. ASSUME NEW k \in Links, link' = k,
               NEW m \in Masters, peer' = [peer EXCEPT ![k] = m],
               socket' = [socket EXCEPT ![k] = "open"], replies' = [replies EXCEPT ![k] = <<>>],
               pc' = IF cur = 0 THEN "read" ELSE "send"
        PROVE  TypeInv'
    <3>1. k \in 0..MaxLinks /\ k # 0
      BY DEF Links
    <3>2. replies' \in [Links -> Seq([cmd : Commands, type : {"reply", "exception"}])]
      <4> DEFINE R == [cmd : Commands, type : {"reply", "exception"}]
      <4>1. replies \in [Links -> Seq(R)]
        OBVIOUS
      <4> HIDE DEF R
      <4>2. replies' \in [Links -> Seq(R)]
        BY <2>3, <4>1, EmptySeq
      <4> QED  BY <4>2 DEF R
    <3> QED  BY <2>1, <2>3, <3>1, <3>2 DEF PCs
  <2>4. Home \in Masters /\ Back \in Masters
    BY DEF Masters
  <2> QED  BY <1>3, <2>2, <2>3, <2>4 DEF Connect
<1>4. CASE ReadCommand
  <2>1. cur \in Nat /\ cur' \in 0..Len(Kind) /\ pc' \in PCs /\ AtWork'
    BY <1>4 DEF ReadCommand, PCs
  <2> QED  BY <1>4, <2>1 DEF ReadCommand
<1>5. CASE Send
  <2>1. Append(requests[link], cur) \in Seq(Commands)
    BY <1>1, <1>2, <1>5 DEF Send
  <2>2. requests' \in [Links -> Seq(Commands)]
    BY <1>5, <2>1 DEF Send
  <2> QED  BY <1>5, <2>2 DEF Send, PCs
<1>6. ASSUME PrintError, pc \in {"send", "recv", "rest"},
             UNCHANGED <<peer, up, executions>>,
             socket' \in [Links -> {"none", "open", "eof", "reset", "closed"}],
             requests' = requests, working' = working,
             replies' \in [Links -> Seq([cmd : Commands, type : {"reply", "exception"}])]
      PROVE  TypeInv'
  BY <1>2, <1>6 DEF PrintError, PCs
<1>7. CASE SendFails
  BY <1>6, <1>7 DEF SendFails
<1>8. ASSUME ReadFrame, Arrived, link # 0
      PROVE  /\ replies' \in [Links -> Seq([cmd : Commands, type : {"reply", "exception"}])]
             /\ Frame \in [cmd : Commands, type : {"reply", "exception"}]
  <2> DEFINE R == [cmd : Commands, type : {"reply", "exception"}]
             r == replies[link]
  <2>1. r \in Seq(R) /\ r # <<>>
    BY <1>1, <1>8 DEF Arrived
  <2> HIDE DEF R, r
  <2>2. Tail(r) \in Seq(R) /\ Head(r) \in R
    BY <2>1
  <2> USE DEF R, r
  <2> QED  BY <1>8, <2>2 DEF ReadFrame, Frame
<1>9. CASE RecvReply
  <2>1. Frame.cmd \in Commands
    BY <1>8, <1>9 DEF RecvReply
  <2>2. shown' \in [Commands -> {Error, None} \cup Commands]
    BY <1>9, <2>1 DEF RecvReply
  <2> QED  BY <1>8, <1>9, <2>2 DEF RecvReply, PCs
<1>10. CASE RecvException
  BY <1>6, <1>8, <1>10 DEF RecvException
<1>11. CASE RecvOther
  BY <1>8, <1>11 DEF RecvOther, PCs
<1>12. CASE RecvRest
  BY <1>8, <1>12 DEF RecvRest, PCs
<1>13. CASE RecvTimeout
  BY <1>6, <1>13 DEF RecvTimeout
<1>14. CASE RecvEnd
  BY <1>14 DEF RecvEnd, PCs
<1>15. CASE RecvReset
  BY <1>6, <1>15 DEF RecvReset
<1>16. ASSUME NEW k \in Links, Execute(k) PROVE TypeInv'
  <2>1. Head(requests[k]) \in Commands /\ Tail(requests[k]) \in Seq(Commands)
    BY <1>16 DEF Execute
  <2>2. Head(requests[k]) \in 0..Len(Kind)
    BY <2>1 DEF Commands
  <2>3. executions' \in Seq(Commands)
    BY <1>16, <2>1 DEF Execute, Begin
  <2> QED  BY <1>16, <2>1, <2>2, <2>3 DEF Execute
<1>17. ASSUME NEW k \in Links, Reply(k) PROVE TypeInv'
  <2>1. working[k] \in Commands /\ 0 \in 0..Len(Kind)
    BY <1>17 DEF Reply, Commands
  <2>2. \A type \in {"reply", "exception"} :
           Append(replies[k], [cmd |-> working[k], type |-> type])
               \in Seq([cmd : Commands, type : {"reply", "exception"}])
    <3> DEFINE R == [cmd : Commands, type : {"reply", "exception"}]
               r == replies[k]
    <3>1. r \in Seq(R) /\ \A type \in {"reply", "exception"} : [cmd |-> working[k], type |-> type] \in R
      BY <2>1
    <3> HIDE DEF R, r
    <3>2. \A x \in R : Append(r, x) \in Seq(R)
      BY <3>1
    <3> QED  BY <3>1, <3>2 DEF R, r
  <2>3. replies' \in [Links -> Seq([cmd : Commands, type : {"reply", "exception"}])]
    BY <1>17, <2>2 DEF Reply
  <2> QED  BY <1>17, <2>1, <2>3 DEF Reply
<1>18. ASSUME NEW lost, End(lost), UNCHANGED <<client, peer, replies, shown, executions>>,
              up' \subseteq Masters
       PROVE  TypeInv'
  <2>1. <<>> \in Seq(Commands) /\ 0 \in 0..Len(Kind)
    OBVIOUS
  <2>2. socket' \in [Links -> {"none", "open", "eof", "reset", "closed"}]
    BY <1>18 DEF End
  <2>3. requests' \in [Links -> Seq(Commands)] /\ working' \in [Links -> 0..Len(Kind)]
    BY <1>18, <2>1 DEF End
  <2> QED  BY <1>18, <2>2, <2>3
<1>19. ASSUME NEW m \in Masters, Restart(m) PROVE TypeInv'
  BY <1>19 DEF Restart
<1>20. CASE UNCHANGED vars
  BY <1>20 DEF vars
<1>21. ASSUME NEW k \in Links, Close(k) PROVE TypeInv'
  BY <1>18, <1>21 DEF Close
<1>22. ASSUME NEW m \in Masters, Crash(m) PROVE TypeInv'
  BY <1>18, <1>22 DEF Crash
<1> QED
  BY <1>3, <1>4, <1>5, <1>7, <1>9, <1>10, <1>11, <1>12, <1>13, <1>14, <1>15, <1>16, <1>17,
     <1>19, <1>20, <1>21, <1>22 DEF Next, ClientStep, MasterStep

\* Every variable keeps its type, for any commands, masters and connections.
THEOREM TypeCorrect == Spec => []TypeOK
<1>1. TypeInv => TypeOK
  BY DEF TypeInv
<1> QED  BY <1>1, TypeInit, TypeStep, PTL DEF Spec

------------------------------------------------------------------------------
(* The order of the executions.  Only the client's connection is open, and  *)
(* only an open one holds requests; what has been executed, what is on its  *)
(* way, and the command at hand follow each other.                          *)

Ascending(s) == \A i, j \in 1..Len(s) : i < j => s[i] <= s[j]

OneOpen ==
    \A k \in Links :
        /\ socket[k] # "open" => requests[k] = <<>>
        /\ socket[k] = "open" => k = link /\ pc # "connect"

OrderInv ==
    /\ OneOpen
    /\ Ascending(executions)
    /\ \A i \in 1..Len(executions) : executions[i] <= cur
    /\ \A k \in Links :
          /\ Ascending(requests[k])
          /\ \A j \in 1..Len(requests[k]) :
                /\ requests[k][j] <= cur
                /\ \A i \in 1..Len(executions) : executions[i] <= requests[k][j]

LEMMA OrderInit == ASSUME Init PROVE OrderInv
  BY DEF Init, OrderInv, OneOpen, Ascending

\* Steps that send and execute nothing, and open no connection.
LEMMA OrderSame ==
    ASSUME TypeInv, OrderInv, UNCHANGED <<requests, executions, link>>,
           cur' \in 0..Len(Kind), cur <= cur',
           \A k \in Links : (socket'[k] = "open") <=> (socket[k] = "open"),
           pc' = "connect" => \A k \in Links : socket'[k] # "open"
    PROVE  OrderInv'
<1>1. OneOpen'
  BY DEF OrderInv, OneOpen
<1>2. cur \in Nat /\ cur' \in Nat
  BY KindType DEF TypeInv, TypeOK
<1>3. \A i \in 1..Len(executions) : executions[i] \in Nat
  BY DEF TypeInv, TypeOK, Commands
<1>4. \A k \in Links : \A j \in 1..Len(requests[k]) : requests[k][j] \in Nat
  BY DEF TypeInv, TypeOK, Commands
<1> QED  BY <1>1, <1>2, <1>3, <1>4 DEF OrderInv, Ascending

LEMMA OrderStep == ASSUME TypeInv, OrderInv, [Next]_vars PROVE OrderInv'
<1> USE DEF client, wire
<1>1. cur \in 0..Len(Kind) /\ link \in 0..MaxLinks /\ Len(Kind) \in Nat /\ MaxLinks \in Nat
  BY KindType DEF TypeInv, TypeOK
<1>2. executions \in Seq(Commands) /\ requests \in [Links -> Seq(Commands)]
  BY DEF TypeInv, TypeOK
<1>3. \A c \in Commands : c \in Nat
  BY DEF Commands
<1>4. ASSUME cur' = cur, link' = link, requests' = requests, executions' = executions,
             \A k \in Links : (socket'[k] = "open") <=> (socket[k] = "open"),
             pc' = "connect" => \A k \in Links : socket'[k] # "open"
      PROVE  OrderInv'
  BY <1>1, <1>4, OrderSame
<1>5. socket \in [Links -> {"none", "open", "eof", "reset", "closed"}]
  BY DEF TypeInv, TypeOK
<1>6. pc = "connect" => \A k \in Links : socket[k] # "open"
  BY DEF OrderInv, OneOpen
<1>7. CASE Connect
  <2>1. cur' = cur /\ requests' = requests /\ executions' = executions /\ pc = "connect"
    BY <1>7 DEF Connect
  <2>2. ASSUME NEW k \in Links, Free(k), link' = k, socket' = [socket EXCEPT ![k] = "open"],
               pc' = IF cur = 0 THEN "read" ELSE "send"
        PROVE  OrderInv'
    <3>1. OneOpen'
      BY <1>5, <1>6, <2>1, <2>2 DEF OrderInv, OneOpen
    <3> QED  BY <2>1, <3>1 DEF OrderInv, Ascending
  <2>3. CASE pc' = "aborted" /\ UNCHANGED <<link, socket>>
    BY <1>4, <2>1, <2>3
  <2> QED  BY <1>7, <2>2, <2>3 DEF Connect
<1>8. CASE ReadCommand
  <2>1. cur' \in 0..Len(Kind) /\ cur <= cur'
    BY <1>1, <1>8 DEF ReadCommand
  <2> QED  BY <1>8, <2>1, OrderSame DEF ReadCommand
<1>9. CASE Send
  <2>1. CASE socket[link] = "open" /\ requests' = [requests EXCEPT ![link] = Append(@, cur)]
             /\ UNCHANGED socket
    <3>1. link \in Links /\ cur \in Commands
      BY <1>1, <1>9 DEF Send, TypeInv, AtWork, Links, Commands
    <3>2. OneOpen'
      BY <1>2, <1>9, <2>1, <3>1 DEF Send, OrderInv, OneOpen
    <3>3. executions' = executions /\ cur' = cur
      BY <1>9 DEF Send
    <3>4. ASSUME NEW k \in Links
          PROVE  /\ Ascending(requests[k])'
                 /\ \A j \in 1..Len(requests'[k]) :
                       /\ requests'[k][j] <= cur
                       /\ \A i \in 1..Len(executions) : executions[i] <= requests'[k][j]
      <4>1. CASE k # link
        BY <1>2, <2>1, <4>1 DEF OrderInv, Ascending
      <4>2. CASE k = link
        <5> DEFINE r == requests[link]
                   s == requests'[link]
        <5>1. r \in Seq(Commands) /\ Len(r) \in Nat
          BY <1>2, <3>1
        <5>2. s = Append(r, cur)
          BY <1>2, <2>1, <3>1
        <5>3. /\ Len(s) = Len(r) + 1 /\ s[Len(r) + 1] = cur
              /\ \A j \in 1..Len(r) : s[j] = r[j]
          BY <5>1, <5>2, <3>1
        <5>4. /\ \A i, j \in 1..Len(r) : i < j => r[i] <= r[j]
              /\ \A j \in 1..Len(r) :
                    /\ r[j] <= cur /\ r[j] \in Nat
                    /\ \A i \in 1..Len(executions) : executions[i] <= r[j]
              /\ \A i \in 1..Len(executions) : executions[i] <= cur
          BY <1>3, <3>1, <5>1 DEF OrderInv, Ascending
        <5>5. cur \in Nat /\ cur <= cur
          BY <1>3, <3>1
        <5> HIDE DEF r, s
        <5>6. \A j \in 1..Len(s) : j \in 1..Len(r) \/ j = Len(r) + 1
          BY <5>1, <5>3
        <5>7. \A j \in 1..Len(s) :
                 s[j] <= cur /\ \A i \in 1..Len(executions) : executions[i] <= s[j]
          BY <5>3, <5>4, <5>5, <5>6
        <5>8. \A i, j \in 1..Len(s) : i < j => s[i] <= s[j]
          BY <5>1, <5>3, <5>4, <5>5, <5>6
        <5> QED  BY <4>2, <5>7, <5>8 DEF s, Ascending
      <4> QED  BY <4>1, <4>2
    <3> QED  BY <3>2, <3>3, <3>4 DEF OrderInv, Ascending
  <2>2. CASE socket[link] = "eof" /\ requests' = requests
             /\ \E s \in {"eof", "reset"} : socket' = [socket EXCEPT ![link] = s]
    <3>1. \A k \in Links : (socket'[k] = "open") <=> (socket[k] = "open")
      BY <1>5, <2>2
    <3> QED  BY <1>4, <1>9, <3>1, <2>2 DEF Send
  <2> QED  BY <1>9, <2>1, <2>2 DEF Send
<1>10. CASE SendFails
  <2>1. \A k \in Links : (socket'[k] = "open") <=> (socket[k] = "open")
    BY <1>5, <1>10 DEF SendFails
  <2> QED  BY <1>4, <1>10, <2>1 DEF SendFails, PrintError
<1>11. CASE RecvReply \/ RecvException \/ RecvOther \/ RecvRest \/ RecvTimeout \/ RecvReset
  BY <1>4, <1>11
     DEF RecvReply, RecvException, RecvOther, RecvRest, RecvTimeout, RecvReset, PrintError
<1>12. CASE RecvEnd
  <2>1. \A k \in Links : socket'[k] # "open" /\ socket[k] # "open"
    BY <1>5, <1>12 DEF RecvEnd, OrderInv, OneOpen
  <2> QED  BY <1>4, <1>12, <2>1 DEF RecvEnd
<1>13. ASSUME NEW k \in Links, Execute(k) PROVE OrderInv'
  <2> DEFINE r == requests[k]
             c == Head(r)
             e == executions'
  <2>1. r \in Seq(Commands) /\ r # <<>> /\ Len(r) \in Nat
    BY <1>2, <1>13 DEF Execute
  <2>2. c = r[1] /\ 1 \in 1..Len(r) /\ c \in Nat
    BY <1>3, <2>1
  <2>3. /\ Len(Tail(r)) = Len(r) - 1 /\ Tail(r) \in Seq(Commands)
        /\ \A j \in 1..Len(Tail(r)) : Tail(r)[j] = r[j + 1] /\ j + 1 \in 1..Len(r) /\ 1 < j + 1
    BY <2>1
  <2>4. /\ Len(executions) \in Nat /\ Len(e) \in Nat
        /\ \A i \in 1..Len(e) :
              \/ i \in 1..Len(executions) /\ e[i] = executions[i]
              \/ e[i] = c /\ \A j \in 1..Len(e) : j <= i
    <3>1. CASE e = executions
      BY <1>2, <3>1
    <3>2. CASE e = Append(executions, c)
      <4>1. /\ Len(executions) \in Nat /\ Len(e) = Len(executions) + 1
            /\ e[Len(executions) + 1] = c
            /\ \A i \in 1..Len(executions) : e[i] = executions[i]
        BY <1>2, <2>1, <3>2
      <4> HIDE DEF e, c
      <4> QED  BY <4>1
    <3> QED  BY <1>13, <3>1, <3>2 DEF Execute, Begin
  <2>5. /\ requests' = [requests EXCEPT ![k] = Tail(r)]
        /\ cur' = cur /\ link' = link /\ pc' = pc /\ socket' = socket
    BY <1>13 DEF Execute
  <2>6. /\ \A i, j \in 1..Len(r) : i < j => r[i] <= r[j]
        /\ \A j \in 1..Len(r) :
              r[j] <= cur /\ \A i \in 1..Len(executions) : executions[i] <= r[j]
        /\ \A i, j \in 1..Len(executions) : i < j => executions[i] <= executions[j]
        /\ \A i \in 1..Len(executions) : executions[i] <= cur
    BY DEF OrderInv, Ascending
  <2>7. OneOpen'
    <3>1. socket[k] = "open"
      BY <2>1 DEF OrderInv, OneOpen
    <3> QED  BY <1>2, <2>5, <3>1 DEF OrderInv, OneOpen
  <2> HIDE DEF c, e
  <2>8. \A i \in 1..Len(executions) : executions[i] <= c
    BY <2>2, <2>6
  <2>9. \A i \in 1..Len(e) : e[i] <= cur
    BY <2>2, <2>4, <2>6
  <2>10. c <= c
    BY <2>2
  <2>11. \A i, j \in 1..Len(e) : i < j => e[i] <= e[j]
    BY <2>2, <2>4, <2>6, <2>8, <2>10
  <2>12. ASSUME NEW l \in Links
         PROVE  /\ Ascending(requests[l])'
                /\ \A j \in 1..Len(requests'[l]) :
                      /\ requests'[l][j] <= cur
                      /\ \A i \in 1..Len(e) : e[i] <= requests'[l][j]
    <3>1. CASE l = k
      <4>1. requests'[l] = Tail(r)
        BY <1>2, <2>5, <3>1
      <4> DEFINE t == Tail(r)
      <4>2. \A i, j \in 1..Len(t) : i < j => t[i] <= t[j]
        BY <2>3, <2>6
      <4>3. \A j \in 1..Len(t) : t[j] <= cur /\ c <= t[j]
        BY <2>2, <2>3, <2>6
      <4>4. \A j \in 1..Len(t) : \A i \in 1..Len(e) : e[i] <= t[j]
        BY <2>3, <2>4, <2>6, <4>3
      <4> HIDE DEF t
      <4> QED  BY <4>1, <4>2, <4>3, <4>4 DEF Ascending, t
    <3>2. CASE l # k
      <4>1. socket[k] = "open" /\ requests[l] = <<>>
        BY <2>1, <3>2 DEF OrderInv, OneOpen
      <4>2. requests'[l] = <<>>
        BY <1>2, <2>5, <3>2, <4>1
      <4> QED  BY <4>2 DEF Ascending
    <3> QED  BY <3>1, <3>2
  <2> QED  BY <2>5, <2>7, <2>9, <2>11, <2>12 DEF OrderInv, Ascending, e
<1>14. ASSUME NEW k \in Links, Reply(k) PROVE OrderInv'
  BY <1>4, <1>6, <1>14 DEF Reply
<1>15. ASSUME NEW lost, End(lost), UNCHANGED <<client, executions>>
       PROVE  OrderInv'
  <2>1. cur' = cur /\ link' = link /\ pc' = pc /\ executions' = executions
    BY <1>15
  <2>2. \A k \in Links : (requests'[k] = requests[k] /\ socket'[k] = socket[k])
                           \/ (requests'[k] = <<>> /\ socket'[k] # "open")
    BY <1>15 DEF End
  <2>3. OneOpen'
    BY <2>1, <2>2 DEF OrderInv, OneOpen
  <2>4. ASSUME NEW k \in Links
        PROVE  /\ Ascending(requests[k])'
               /\ \A j \in 1..Len(requests'[k]) :
                     /\ requests'[k][j] <= cur
                     /\ \A i \in 1..Len(executions) : executions[i] <= requests'[k][j]
    BY <2>2 DEF OrderInv, Ascending
  <2> QED  BY <2>1, <2>3, <2>4 DEF OrderInv, Ascending
<1>16. ASSUME NEW m \in Masters, Restart(m) PROVE OrderInv'
  BY <1>4, <1>6, <1>16 DEF Restart
<1>17. CASE UNCHANGED vars
  BY <1>4, <1>6, <1>17 DEF vars
<1>18. ASSUME NEW k \in Links, Close(k) PROVE OrderInv'
  BY <1>15, <1>18 DEF Close
<1>19. ASSUME NEW m \in Masters, Crash(m) PROVE OrderInv'
  BY <1>15, <1>19 DEF Crash
<1> QED
  BY <1>7, <1>8, <1>9, <1>10, <1>11, <1>12, <1>13, <1>14, <1>16, <1>17, <1>18, <1>19
     DEF Next, ClientStep, MasterStep

\* However often masters crash, connections end and calls time out, the masters between them begin
\* to execute the commands in the order typed.
THEOREM CommandsInOrder == Spec => []ExecutedInOrder
<1>1. OrderInv => ExecutedInOrder
  BY DEF OrderInv, Ascending, ExecutedInOrder
<1> QED  BY <1>1, TypeInit, TypeStep, OrderInit, OrderStep, PTL DEF Spec

------------------------------------------------------------------------------
(* Whose reply is shown.  On every connection the replies, the command that *)
(* the master works on and the requests are in line, and on the client's    *)
(* own the line lies between the replies shown and the command at hand.     *)

InLine(k) ==
    /\ \A i, j \in 1..Len(replies[k]) : i < j => replies[k][i].cmd < replies[k][j].cmd
    /\ \A i \in 1..Len(replies[k]) : working[k] # 0 => replies[k][i].cmd < working[k]
    /\ \A i \in 1..Len(replies[k]), j \in 1..Len(requests[k]) :
          replies[k][i].cmd < requests[k][j]
    /\ \A j \in 1..Len(requests[k]) : working[k] # 0 => working[k] < requests[k][j]
    /\ \A i, j \in 1..Len(requests[k]) : i < j => requests[k][i] < requests[k][j]

Line(k) ==
    {replies[k][i].cmd : i \in 1..Len(replies[k])}
        \cup {requests[k][j] : j \in 1..Len(requests[k])}
        \cup ({working[k]} \ {0})

LinkInv ==
    \A k \in Links :
        /\ socket[k] = "none" => replies[k] = <<>>
        /\ socket[k] # "open" => requests[k] = <<>> /\ working[k] = 0
        /\ InLine(k)

\* The last command that may have been sent on the client's connection, and the
\* last whose call has ended.
Sent == IF pc \in {"send", "connect"} THEN cur - 1 ELSE cur
Ended == IF pc \in {"read", "exited"} THEN cur ELSE cur - 1

Between ==
    link # 0 => \A c \in Line(link) :
        /\ c <= Sent
        /\ \A d \in Commands : shown[d] \in Commands => shown[d] < c

ShownInv ==
    \A c \in Commands :
        /\ c <= Ended <=> shown[c] # None
        /\ shown[c] \in Commands =>
              /\ Kind[shown[c]] = Kind[c]
              /\ shown[c] <= c
              /\ \A d \in 1..c - 1 : shown[d] \in Commands => shown[d] < shown[c]

ReplyInv == LinkInv /\ Between /\ ShownInv

LEMMA ReplyInit == ASSUME Init PROVE ReplyInv
<1>1. LinkInv
  BY DEF Init, LinkInv, InLine
<1>2. Between
  BY DEF Init, Between
<1>3. ShownInv
  BY DEF Init, ShownInv, Ended, Commands, None
<1> QED  BY <1>1, <1>2, <1>3 DEF ReplyInv

\* Steps that leave the lines alone and open no connection.
LEMMA LinkSame ==
    ASSUME LinkInv, UNCHANGED <<link, requests, working, replies>>,
           \A k \in Links : /\ (socket'[k] = "open") <=> (socket[k] = "open")
                            /\ (socket'[k] = "none") <=> (socket[k] = "none")
    PROVE  LinkInv' /\ Line(link)' = Line(link)
  BY DEF LinkInv, InLine, Line

LEMMA LineType == ASSUME TypeInv, NEW k \in Links PROVE Line(k) \subseteq Commands
<1> DEFINE R == [cmd : Commands, type : {"reply", "exception"}]
           r == replies[k]
           q == requests[k]
<1>1. r \in Seq(R) /\ q \in Seq(Commands) /\ working[k] \in 0..Len(Kind)
  BY DEF TypeInv, TypeOK
<1> HIDE DEF R, r, q
<1>2. \A i \in 1..Len(r) : r[i] \in R
  BY <1>1
<1>3. \A i \in 1..Len(r) : r[i].cmd \in Commands
  BY <1>2 DEF R
<1>4. \A j \in 1..Len(q) : q[j] \in Commands
  BY <1>1
<1>5. {working[k]} \ {0} \subseteq Commands
  BY <1>1, KindType DEF Commands
<1> QED  BY <1>3, <1>4, <1>5 DEF Line, r, q

\* Steps that put nothing on the line of its connection and show no reply.
LEMMA BetweenSame ==
    ASSUME TypeInv, TypeInv', Between, link' = link, Line(link)' \subseteq Line(link),
           Sent <= Sent',
           \A d \in Commands : shown'[d] \in Commands => shown'[d] = shown[d]
    PROVE  Between'
<1>1. Sent \in Int /\ Sent' \in Int
  BY KindType DEF TypeInv, TypeOK, Sent
<1>2. \A c \in Line(link) : link # 0 => c \in Int
  <2>1. link # 0 => link \in Links
    BY KindType DEF TypeInv, TypeOK, Links
  <2> QED  BY <2>1, LineType DEF Commands
<1> QED  BY <1>1, <1>2 DEF Between

LEMMA ShownSame ==
    ASSUME ShownInv, shown' = shown,
           \A c \in Commands : c <= Ended' <=> c <= Ended
    PROVE  ShownInv'
  BY DEF ShownInv

LEMMA ShownError ==
    ASSUME TypeInv, ShownInv, PrintError, pc \in {"send", "recv", "rest"}
    PROVE  /\ ShownInv'
           /\ \A d \in Commands : shown'[d] \in Commands => shown'[d] = shown[d]
<1>1. cur \in Commands /\ cur' = cur /\ \A c \in Commands : c \in Nat \ {0}
  BY KindType DEF TypeInv, TypeOK, AtWork, Commands, PrintError
<1>2. \A d \in Commands : shown'[d] = IF d = cur THEN Error ELSE shown[d]
  BY <1>1 DEF TypeInv, TypeOK, PrintError
<1>3. Error # None /\ Error \notin Commands /\ None \notin Commands
  BY <1>1 DEF Error, None
<1>4. Ended = cur - 1 /\ Ended' = cur
  BY <1>1 DEF Ended, PrintError
<1>5. \A c \in Commands : c <= Ended' <=> c <= Ended \/ c = cur
  BY <1>1, <1>4
<1>6. \A c \in Commands : \A d \in 1..c - 1 : d \in Commands
  BY KindType DEF Commands
<1> QED  BY <1>1, <1>2, <1>3, <1>5, <1>6 DEF ShownInv

\* A frame read is the first in line.
LEMMA FrameFirst ==
    ASSUME TypeInv, LinkInv, Arrived, ReadFrame, link # 0,
           UNCHANGED <<link, socket, requests, working>>
    PROVE  /\ LinkInv'
           /\ Line(link)' \subseteq Line(link)
           /\ Frame.cmd \in Line(link)
           /\ \A c \in Line(link)' : Frame.cmd < c
<1> DEFINE R == [cmd : Commands, type : {"reply", "exception"}]
           r == replies[link]
           q == requests[link]
           w == working[link]
           t == replies'[link]
<1>1. link \in Links
  BY KindType DEF TypeInv, TypeOK, Links
<1>2. r \in Seq(R) /\ r # <<>>
  BY <1>1 DEF TypeInv, TypeOK, Arrived
<1>3. t = Tail(r) /\ Frame = r[1]
  BY <1>1, <1>2 DEF TypeInv, TypeOK, ReadFrame, Frame
<1>4. \A k \in Links \ {link} : replies'[k] = replies[k]
  BY <1>1 DEF TypeInv, TypeOK, ReadFrame
<1> HIDE DEF R
<1>5. Len(r) \in Nat /\ 1 \in 1..Len(r)
  BY <1>2
<1>6. \A i \in 1..Len(t) : t[i] = r[i + 1] /\ i + 1 \in 1..Len(r) /\ i \in Nat
  BY <1>2, <1>3
<1>7. InLine(link)
  BY <1>1 DEF LinkInv
<1>8. /\ \A i, j \in 1..Len(r) : i < j => r[i].cmd < r[j].cmd
      /\ \A i \in 1..Len(r) : w # 0 => r[i].cmd < w
      /\ \A i \in 1..Len(r), j \in 1..Len(q) : r[i].cmd < q[j]
      /\ \A j \in 1..Len(q) : w # 0 => w < q[j]
      /\ \A i, j \in 1..Len(q) : i < j => q[i] < q[j]
  BY <1>7 DEF InLine
<1> HIDE DEF r, t
<1>9. \A i, j \in 1..Len(t) : i < j => t[i].cmd < t[j].cmd
  BY <1>6, <1>8
<1>10. /\ \A i \in 1..Len(t) : w # 0 => t[i].cmd < w
       /\ \A i \in 1..Len(t), j \in 1..Len(q) : t[i].cmd < q[j]
  BY <1>6, <1>8
<1>11. InLine(link)'
  BY <1>8, <1>9, <1>10 DEF InLine, t
<1>12. \A k \in Links \ {link} : InLine(k) => InLine(k)'
  BY <1>4 DEF InLine
<1>13. socket[link] # "none"
  BY <1>1, <1>2 DEF LinkInv, r
<1>14. LinkInv'
  BY <1>4, <1>11, <1>12, <1>13 DEF LinkInv
<1>15. \A i \in 1..Len(t) : r[1].cmd < t[i].cmd
  BY <1>5, <1>6, <1>8
<1>16. Line(link)' = {t[i].cmd : i \in 1..Len(t)} \cup {q[j] : j \in 1..Len(q)} \cup ({w} \ {0})
  BY DEF Line, t
<1>17. Line(link) = {r[i].cmd : i \in 1..Len(r)} \cup {q[j] : j \in 1..Len(q)} \cup ({w} \ {0})
  BY DEF Line, r
<1>18. \A i \in 1..Len(t) : t[i].cmd \in {r[n].cmd : n \in 1..Len(r)}
  BY <1>6
<1> HIDE DEF q, w
<1>19. \A c \in Line(link)' : Frame.cmd < c
  BY <1>3, <1>5, <1>8, <1>15, <1>16
<1>20. Line(link)' \subseteq Line(link)
  BY <1>16, <1>17, <1>18
<1>21. Frame.cmd \in Line(link)
  BY <1>3, <1>5, <1>17
<1> QED  BY <1>14, <1>19, <1>20, <1>21

\* A request sent is the last in line.
LEMMA SendLast ==
    ASSUME TypeInv, LinkInv, Between, pc = "send", socket[link] = "open",
           requests' = [requests EXCEPT ![link] = Append(@, cur)],
           UNCHANGED <<link, socket, replies, working>>
    PROVE  /\ LinkInv'
           /\ Line(link)' \subseteq Line(link) \cup {cur}
<1> DEFINE r == replies[link]
           q == requests[link]
           w == working[link]
           s == requests'[link]
<1>1. link \in Links /\ cur \in Commands /\ cur \in Nat
  BY KindType DEF TypeInv, TypeOK, AtWork, Links, Commands
<1>2. q \in Seq(Commands) /\ s = Append(q, cur)
  BY <1>1 DEF TypeInv, TypeOK
<1>3. /\ Len(q) \in Nat /\ Len(s) = Len(q) + 1 /\ s[Len(q) + 1] = cur
      /\ \A j \in 1..Len(q) : s[j] = q[j]
  BY <1>1, <1>2
<1>4. \A c \in Line(link) : c < cur
  <2>1. \A c \in Line(link) : c <= cur - 1 /\ c \in Nat
    BY <1>1, LineType DEF Between, Sent, Links, Commands
  <2> QED  BY <1>1, <2>1
<1>5. /\ \A i \in 1..Len(r) : r[i].cmd < cur
      /\ \A j \in 1..Len(q) : q[j] < cur
      /\ w # 0 => w < cur
  BY <1>4 DEF Line
<1>6. \A k \in Links \ {link} : requests'[k] = requests[k]
  BY DEF TypeInv, TypeOK
<1>7. /\ \A i, j \in 1..Len(r) : i < j => r[i].cmd < r[j].cmd
      /\ \A i \in 1..Len(r) : w # 0 => r[i].cmd < w
      /\ \A i \in 1..Len(r), j \in 1..Len(q) : r[i].cmd < q[j]
      /\ \A j \in 1..Len(q) : w # 0 => w < q[j]
      /\ \A i, j \in 1..Len(q) : i < j => q[i] < q[j]
  BY <1>1 DEF LinkInv, InLine
<1> HIDE DEF r, q, w, s
<1>8. \A j \in 1..Len(s) : j \in 1..Len(q) \/ j = Len(q) + 1
  BY <1>3
<1>9. /\ \A i \in 1..Len(r), j \in 1..Len(s) : r[i].cmd < s[j]
      /\ \A j \in 1..Len(s) : w # 0 => w < s[j]
  BY <1>3, <1>5, <1>7, <1>8
<1>10. \A i, j \in 1..Len(s) : i < j => s[i] < s[j]
  BY <1>3, <1>5, <1>7, <1>8
<1>11. InLine(link)'
  BY <1>7, <1>9, <1>10 DEF InLine, r, q, w, s
<1>12. \A k \in Links \ {link} : InLine(k) => InLine(k)'
  BY <1>6 DEF InLine
<1>13. LinkInv'
  BY <1>6, <1>11, <1>12 DEF LinkInv
<1>14. \A j \in 1..Len(s) : s[j] \in {q[n] : n \in 1..Len(q)} \cup {cur}
  BY <1>3, <1>8
<1>15. Line(link)' \subseteq Line(link) \cup {cur}
  BY <1>14 DEF Line, r, q, w, s
<1> QED  BY <1>13, <1>15

\* What a master does to a line: take the first request, put the last reply.
LEMMA ExecuteInLine ==
    ASSUME TypeInv, LinkInv, NEW k \in Links, Execute(k)
    PROVE  LinkInv' /\ \A l \in Links : Line(l)' \subseteq Line(l)
<1> DEFINE r == replies[k]
           q == requests[k]
           h == Head(q)
           t == requests'[k]
<1>1. q \in Seq(Commands) /\ q # <<>> /\ Len(q) \in Nat
  BY DEF TypeInv, TypeOK, Execute
<1>2. /\ t = Tail(q) /\ working'[k] = h /\ working[k] = 0
      /\ UNCHANGED <<link, socket, replies>>
      /\ \A l \in Links \ {k} : requests'[l] = requests[l] /\ working'[l] = working[l]
  BY DEF TypeInv, TypeOK, Execute, client
<1>3. /\ h = q[1] /\ 1 \in 1..Len(q)
      /\ \A j \in 1..Len(t) : t[j] = q[j + 1] /\ j + 1 \in 1..Len(q) /\ j \in Nat /\ 1 < j + 1
  BY <1>1, <1>2
<1>4. /\ \A i, j \in 1..Len(r) : i < j => r[i].cmd < r[j].cmd
      /\ \A i \in 1..Len(r), j \in 1..Len(q) : r[i].cmd < q[j]
      /\ \A i, j \in 1..Len(q) : i < j => q[i] < q[j]
  BY DEF LinkInv, InLine
<1> HIDE DEF r, q, h, t
<1>5. /\ \A i \in 1..Len(r) : r[i].cmd < h
      /\ \A i \in 1..Len(r), j \in 1..Len(t) : r[i].cmd < t[j]
      /\ \A j \in 1..Len(t) : h < t[j]
  BY <1>3, <1>4
<1>6. \A i, j \in 1..Len(t) : i < j => t[i] < t[j]
  BY <1>3, <1>4
<1>7. InLine(k)'
  BY <1>2, <1>4, <1>5, <1>6 DEF InLine, r, t
<1>8. \A l \in Links \ {k} : (InLine(l) => InLine(l)') /\ Line(l)' = Line(l)
  BY <1>2 DEF InLine, Line
<1>9. socket[k] = "open"
  BY <1>1 DEF LinkInv, q
<1>10. LinkInv'
  BY <1>2, <1>7, <1>8, <1>9 DEF LinkInv
<1>11. \A j \in 1..Len(t) : t[j] \in {q[n] : n \in 1..Len(q)}
  BY <1>3
<1>12. h \in {q[n] : n \in 1..Len(q)}
  BY <1>3
<1>13. Line(k)' \subseteq Line(k)
  BY <1>2, <1>11, <1>12 DEF Line, q, t
<1> QED  BY <1>8, <1>10, <1>13

LEMMA ReplyInLine ==
    ASSUME TypeInv, LinkInv, NEW k \in Links, Reply(k)
    PROVE  LinkInv' /\ \A l \in Links : Line(l)' \subseteq Line(l)
<1> DEFINE R == [cmd : Commands, type : {"reply", "exception"}]
           r == replies[k]
           q == requests[k]
           w == working[k]
           s == replies'[k]
<1>1. r \in Seq(R) /\ w # 0 /\ w \in Commands /\ q \in Seq(Commands)
  <2>1. w # 0 /\ w \in 0..Len(Kind)
    BY DEF TypeInv, TypeOK, Reply
  <2>2. w \in Commands
    BY <2>1, KindType DEF Commands
  <2>3. r \in Seq(R) /\ q \in Seq(Commands)
    BY DEF TypeInv, TypeOK
  <2> QED  BY <2>1, <2>2, <2>3
<1>2. PICK type \in {"reply", "exception"} :
         replies' = [replies EXCEPT ![k] = Append(@, [cmd |-> working[k], type |-> type])]
  BY DEF Reply
<1> DEFINE x == [cmd |-> w, type |-> type]
<1>3. /\ s = Append(r, x) /\ working'[k] = 0 /\ UNCHANGED <<link, socket, requests>>
      /\ \A l \in Links \ {k} : replies'[l] = replies[l] /\ working'[l] = working[l]
  BY <1>2 DEF TypeInv, TypeOK, Reply, client
<1>4. x \in R /\ x.cmd = w
  BY <1>1
<1> HIDE DEF R, x
<1>5. /\ Len(r) \in Nat /\ Len(s) = Len(r) + 1 /\ s[Len(r) + 1] = x
      /\ \A i \in 1..Len(r) : s[i] = r[i]
  BY <1>1, <1>3, <1>4
<1>6. /\ \A i, j \in 1..Len(r) : i < j => r[i].cmd < r[j].cmd
      /\ \A i \in 1..Len(r) : r[i].cmd < w
      /\ \A i \in 1..Len(r), j \in 1..Len(q) : r[i].cmd < q[j]
      /\ \A j \in 1..Len(q) : w < q[j]
      /\ \A i, j \in 1..Len(q) : i < j => q[i] < q[j]
  BY <1>1 DEF LinkInv, InLine
<1> HIDE DEF r, q, w, s
<1>7. \A i \in 1..Len(s) : i \in 1..Len(r) \/ i = Len(r) + 1
  BY <1>5
<1>8. \A i \in 1..Len(s), j \in 1..Len(q) : s[i].cmd < q[j]
  BY <1>4, <1>5, <1>6, <1>7
<1>9. \A i, j \in 1..Len(s) : i < j => s[i].cmd < s[j].cmd
  BY <1>4, <1>5, <1>6, <1>7
<1>10. InLine(k)'
  BY <1>3, <1>6, <1>8, <1>9 DEF InLine, q, s
<1>11. \A l \in Links \ {k} : (InLine(l) => InLine(l)') /\ Line(l)' = Line(l)
  BY <1>3 DEF InLine, Line
<1>12. socket[k] = "open"
  BY <1>1 DEF LinkInv, w
<1>13. LinkInv'
  BY <1>3, <1>10, <1>11, <1>12 DEF LinkInv
<1>14. \A i \in 1..Len(s) : s[i].cmd \in {r[n].cmd : n \in 1..Len(r)} \cup {w}
  BY <1>4, <1>5, <1>7
<1>15. Line(k)' \subseteq Line(k)
  BY <1>1, <1>3, <1>14 DEF Line, r, w, s
<1> QED  BY <1>11, <1>13, <1>15

LEMMA EndInLine ==
    ASSUME TypeInv, LinkInv, NEW lost, End(lost), \A k \in lost : socket[k] = "open",
           UNCHANGED <<link, replies>>
    PROVE  LinkInv' /\ \A l \in Links : Line(l)' \subseteq Line(l)
<1>1. link' = link /\ replies' = replies
  OBVIOUS
<1>2. \A k \in Links :
         \/ UNCHANGED <<requests[k], working[k], socket[k]>>
         \/ /\ requests'[k] = <<>> /\ working'[k] = 0
            /\ socket[k] = "open" /\ socket'[k] \in {"eof", "reset"}
  BY DEF End
<1>3. \A k \in Links : replies'[k] = replies[k]
  BY <1>1
<1>4. \A k \in Links : InLine(k) => InLine(k)'
  BY <1>2, <1>3 DEF InLine
<1>5. \A k \in Links : Line(k)' \subseteq Line(k)
  BY <1>2, <1>3 DEF Line
<1>6. LinkInv'
  BY <1>1, <1>2, <1>3, <1>4 DEF LinkInv
<1> QED  BY <1>5, <1>6

LEMMA ReplyStep == ASSUME TypeInv, TypeInv', ReplyInv, [Next]_vars PROVE ReplyInv'
<1> USE DEF ReplyInv, client, wire
<1>1. cur \in 0..Len(Kind) /\ link \in 0..MaxLinks /\ Len(Kind) \in Nat /\ MaxLinks \in Nat
  BY KindType DEF TypeInv, TypeOK
<1>2. socket \in [Links -> {"none", "open", "eof", "reset", "closed"}]
  BY DEF TypeInv, TypeOK
<1>3. link # 0 => link \in Links
  BY <1>1 DEF Links
<1>4. pc \in {"send", "recv", "rest"} => link \in Links
  BY <1>3 DEF TypeInv, AtWork
<1>5. CASE Connect
  <2>0. UNCHANGED <<cur, requests, working, shown>> /\ pc = "connect"
    BY <1>5 DEF Connect
  <2>1. ASSUME NEW k \in Links, Free(k), link' = k, socket' = [socket EXCEPT ![k] = "open"],
               replies' = [replies EXCEPT ![k] = <<>>],
               pc' = IF cur = 0 THEN "read" ELSE "send"
        PROVE  ReplyInv'
    <3>1. requests[k] = <<>> /\ working[k] = 0 /\ replies'[k] = <<>>
      BY <2>1 DEF Free, TypeInv, TypeOK
    <3>2. \A l \in Links \ {k} : replies'[l] = replies[l] /\ socket'[l] = socket[l]
      BY <1>2, <2>1 DEF TypeInv, TypeOK
    <3>3. \A l \in Links \ {k} : InLine(l)' <=> InLine(l)
      BY <2>0, <3>2 DEF InLine
    <3>4. InLine(k)'
      BY <2>0, <3>1 DEF InLine
    <3>5. LinkInv'
      BY <1>2, <2>0, <2>1, <3>1, <3>2, <3>3, <3>4 DEF LinkInv
    <3>6. Line(k)' = {}
      BY <2>0, <2>1, <3>1 DEF Line
    <3>7. Between'
      BY <2>1, <3>6 DEF Between
    <3>8. \A c \in Commands : c <= Ended' <=> c <= Ended
      BY <1>1, <2>0, <2>1 DEF Ended, Commands
    <3> QED  BY <2>0, <3>5, <3>7, <3>8, ShownSame
  <2>2. CASE pc' = "aborted" /\ UNCHANGED <<link, socket, replies>>
    <3>2. LinkInv' /\ Line(link)' = Line(link)
      BY <2>0, <2>2, LinkSame
    <3>3. Sent <= Sent' /\ Ended' = Ended
      BY <1>1, <2>0, <2>2 DEF Sent, Ended
    <3> QED  BY <2>0, <2>2, <3>2, <3>3, BetweenSame, ShownSame
  <2> QED  BY <1>5, <2>1, <2>2 DEF Connect
<1>6. CASE ReadCommand
  <2>1. UNCHANGED <<link, socket, requests, working, replies, shown>>
    BY <1>6 DEF ReadCommand
  <2>2. LinkInv' /\ Line(link)' = Line(link)
    BY <2>1, LinkSame
  <2>3. Sent <= Sent' /\ Ended' = Ended
    BY <1>1, <1>6 DEF ReadCommand, Sent, Ended
  <2> QED  BY <2>1, <2>2, <2>3, BetweenSame, ShownSame
<1>7. CASE Send
  <2>1. /\ UNCHANGED <<cur, link, working, replies, shown>>
        /\ pc = "send" /\ pc' = "recv"
    BY <1>7 DEF Send
  <2>2. Sent = cur - 1 /\ Sent' = cur /\ Ended' = Ended
    BY <2>1 DEF Sent, Ended
  <2>3. ShownInv'
    BY <2>1, <2>2, ShownSame
  <2>4. CASE /\ socket[link] = "open" /\ requests' = [requests EXCEPT ![link] = Append(@, cur)]
             /\ UNCHANGED socket
    <3>1. LinkInv' /\ Line(link)' \subseteq Line(link) \cup {cur}
      BY <2>1, <2>4, SendLast
    <3>2. \A c \in Line(link) : c <= cur /\ \A d \in Commands : shown[d] \in Commands => shown[d] < c
      BY <1>1, <1>4, <2>1, <2>2, LineType DEF Between, Links, Commands
    <3>3. \A d \in Commands : shown[d] \in Commands => shown[d] < cur
      <4>1. \A d \in Commands : shown[d] \in Commands => shown[d] <= d /\ d <= Ended
        BY DEF ShownInv, None, Commands
      <4>2. Ended = cur - 1
        BY <2>1 DEF Ended
      <4> QED  BY <1>1, <4>1, <4>2 DEF Commands
    <3>4. cur <= cur
      BY <1>1
    <3>5. Between'
      BY <2>1, <2>2, <3>1, <3>2, <3>3, <3>4 DEF Between
    <3> QED  BY <2>3, <3>1, <3>5
  <2>5. CASE socket[link] = "eof" /\ requests' = requests
             /\ \E s \in {"eof", "reset"} : socket' = [socket EXCEPT ![link] = s]
    <3>1. LinkInv' /\ Line(link)' = Line(link)
      BY <1>2, <2>1, <2>5, LinkSame
    <3>2. Sent <= Sent'
      BY <1>1, <2>2
    <3> QED  BY <2>1, <2>3, <3>1, <3>2, BetweenSame
  <2> QED  BY <1>7, <2>4, <2>5 DEF Send
<1>8. ASSUME PrintError, pc \in {"send", "recv", "rest"}, LinkInv',
             Line(link)' \subseteq Line(link)
      PROVE  ReplyInv'
  <2>1. link' = link /\ Sent <= Sent'
    BY <1>1, <1>8 DEF PrintError, Sent
  <2> QED  BY <1>8, <2>1, ShownError, BetweenSame
<1>9. CASE SendFails \/ RecvTimeout \/ RecvReset
  <2>1. /\ PrintError /\ pc \in {"send", "recv", "rest"}
        /\ UNCHANGED <<link, requests, working, replies>>
    BY <1>9 DEF SendFails, RecvTimeout, RecvReset, PrintError
  <2>2. \A k \in Links : /\ (socket'[k] = "open") <=> (socket[k] = "open")
                         /\ (socket'[k] = "none") <=> (socket[k] = "none")
    BY <1>2, <1>9 DEF SendFails, RecvTimeout, RecvReset
  <2> QED  BY <1>8, <2>1, <2>2, LinkSame
<1>10. CASE RecvReply
  <2>1. /\ UNCHANGED <<cur, link, socket, requests, working>>
        /\ Arrived /\ ReadFrame /\ pc = "recv" /\ pc' = "read" /\ Kind[Frame.cmd] = Kind[cur]
        /\ shown' = [shown EXCEPT ![cur] = Frame.cmd] /\ link # 0
    BY <1>10 DEF RecvReply, TypeInv, AtWork
  <2> DEFINE x == Frame.cmd
  <2>2. /\ LinkInv' /\ Line(link)' \subseteq Line(link)
        /\ x \in Line(link) /\ \A c \in Line(link)' : x < c
    BY <2>1, FrameFirst
  <2> HIDE DEF x
  <2>3. x \in Commands /\ cur \in Commands
    BY <1>1, <1>4, <2>1, <2>2, LineType DEF TypeInv, AtWork, Commands
  <2>4. Sent = cur /\ Sent' = cur /\ Ended = cur - 1 /\ Ended' = cur
    BY <2>1 DEF Sent, Ended
  <2>5. x <= cur /\ \A d \in Commands : shown[d] \in Commands => shown[d] < x
    BY <2>1, <2>2, <2>4 DEF Between
  <2>6. \A d \in Commands : shown'[d] = IF d = cur THEN x ELSE shown[d]
    BY <2>1, <2>3 DEF TypeInv, TypeOK, x
  <2>7. Between'
    BY <2>1, <2>2, <2>4, <2>6 DEF Between
  <2>8. ShownInv'
    <3>1. \A c \in Commands : c \in Nat \ {0}
      BY DEF Commands
    <3>2. \A c \in Commands : c <= Ended' <=> c <= Ended \/ c = cur
      BY <2>3, <2>4, <3>1
    <3>3. None \notin Commands /\ None # x
      BY <2>3, <3>1 DEF None
    <3>4. \A c \in Commands : \A d \in 1..c - 1 : d \in Commands /\ d < c
      BY <1>1 DEF Commands
    <3>5. \A c \in Commands : c <= Ended' <=> shown'[c] # None
      BY <2>6, <3>2, <3>3 DEF ShownInv
    <3>6. \A c \in Commands : shown'[c] \in Commands =>
             Kind[shown'[c]] = Kind[c] /\ shown'[c] <= c
      BY <2>1, <2>5, <2>6 DEF ShownInv, x
    <3>7. ASSUME NEW c \in Commands, NEW d \in 1..c - 1,
                 shown'[c] \in Commands, shown'[d] \in Commands
          PROVE  shown'[d] < shown'[c]
      <4>1. d \in Commands /\ d < c
        BY <3>4
      <4>2. CASE c = cur
        BY <2>5, <2>6, <3>1, <3>7, <4>1, <4>2
      <4>3. CASE c # cur
        <5>1. c <= cur - 1
          BY <2>6, <2>4, <3>3, <3>7, <4>3 DEF ShownInv
        <5>2. d # cur
          BY <2>3, <3>1, <4>1, <5>1
        <5> QED  BY <2>6, <3>7, <4>1, <4>3, <5>2 DEF ShownInv
      <4> QED  BY <4>2, <4>3
    <3> QED  BY <3>5, <3>6, <3>7 DEF ShownInv
  <2> QED  BY <2>2, <2>7, <2>8
<1>11. CASE RecvException
  <2>1. /\ UNCHANGED <<link, socket, requests, working>> /\ link # 0
        /\ Arrived /\ ReadFrame /\ PrintError /\ pc = "recv"
    BY <1>11 DEF RecvException, PrintError, TypeInv, AtWork
  <2> QED  BY <1>8, <2>1, FrameFirst
<1>12. CASE RecvOther \/ RecvRest
  <2>1. /\ UNCHANGED <<cur, link, socket, requests, working, shown>> /\ link # 0
        /\ Arrived /\ ReadFrame /\ pc \in {"recv", "rest"} /\ pc' \in {"rest", "aborted"}
    BY <1>12 DEF RecvOther, RecvRest, TypeInv, AtWork
  <2>2. LinkInv' /\ Line(link)' \subseteq Line(link)
    BY <2>1, FrameFirst
  <2>3. Sent <= Sent' /\ Ended' = Ended
    BY <1>1, <2>1 DEF Sent, Ended
  <2> QED  BY <2>1, <2>2, <2>3, BetweenSame, ShownSame
<1>13. CASE RecvEnd
  <2>1. /\ UNCHANGED <<cur, link, requests, working, replies, shown>> /\ link \in Links
        /\ pc \in {"recv", "rest"} /\ pc' = "connect"
        /\ replies[link] = <<>> /\ socket[link] = "eof"
    BY <1>4, <1>13 DEF RecvEnd
  <2>2. LinkInv' /\ Line(link)' = Line(link)
    BY <1>2, <1>13, <2>1, LinkSame DEF RecvEnd
  <2>3. Line(link) = {}
    BY <2>1 DEF LinkInv, Line
  <2>4. Between'
    BY <2>1, <2>2, <2>3 DEF Between
  <2>5. Ended' = Ended
    BY <2>1 DEF Ended
  <2> QED  BY <2>1, <2>2, <2>4, <2>5, ShownSame
<1>14. ASSUME LinkInv', \A l \in Links : Line(l)' \subseteq Line(l),
              UNCHANGED <<pc, cur, link, shown>>
       PROVE  ReplyInv'
  <2>1. Sent' = Sent /\ Ended' = Ended /\ Sent <= Sent'
    BY <1>1, <1>14 DEF Sent, Ended
  <2>2. ShownInv'
    BY <1>14, <2>1, ShownSame
  <2>3. link # 0 => Between'
    BY <1>3, <1>14, <2>1, BetweenSame
  <2>4. link = 0 => Between'
    BY <1>14 DEF Between
  <2> QED  BY <1>14, <2>2, <2>3, <2>4
<1>15. ASSUME NEW k \in Links, Execute(k) PROVE ReplyInv'
  BY <1>14, <1>15, ExecuteInLine DEF Execute
<1>16. ASSUME NEW k \in Links, Reply(k) PROVE ReplyInv'
  BY <1>14, <1>16, ReplyInLine DEF Reply
<1>17. ASSUME NEW m \in Masters, Crash(m) PROVE ReplyInv'
  <2>1. \A k \in {k \in Links : peer[k] = m /\ socket[k] = "open"} : socket[k] = "open"
    OBVIOUS
  <2> QED  BY <1>14, <1>17, <2>1, EndInLine DEF Crash
<1>18. ASSUME NEW m \in Masters, Restart(m) PROVE ReplyInv'
  <2>1. UNCHANGED <<pc, cur, link, shown, socket, requests, working, replies>>
    BY <1>18 DEF Restart
  <2> QED  BY <1>14, <2>1 DEF LinkInv, InLine, Line
<1>19. CASE UNCHANGED vars
  <2>1. UNCHANGED <<pc, cur, link, shown, socket, requests, working, replies>>
    BY <1>19 DEF vars
  <2> QED  BY <1>14, <2>1 DEF LinkInv, InLine, Line
<1>20. ASSUME NEW k \in Links, Close(k) PROVE ReplyInv'
  <2>1. \A l \in {k} : socket[l] = "open"
    BY <1>20 DEF Close
  <2> QED  BY <1>14, <1>20, <2>1, EndInLine DEF Close
<1> QED
  BY <1>5, <1>6, <1>7, <1>9, <1>10, <1>11, <1>12, <1>13, <1>15, <1>16, <1>17, <1>18, <1>19,
     <1>20
     DEF Next, ClientStep, MasterStep

\* The commands before c that were not told to have failed show as many replies,
\* all of commands before shown[c].
LEMMA LateByErrors ==
    ASSUME TypeInv, ShownInv, NEW c \in Commands, shown[c] \in Commands
    PROVE  Cardinality({d \in 1..c - 1 : shown[d] = Error}) >= c - shown[c]
<1> DEFINE B == 1..c - 1
           E == {d \in B : shown[d] = Error}
           A == B \ E
           V == 1..shown[c] - 1
           f == [d \in A |-> shown[d]]
<1>1. c \in Nat \ {0} /\ shown[c] \in Nat \ {0} /\ shown[c] <= c
  BY DEF ShownInv, Commands
<1>2. IsFiniteSet(B) /\ Cardinality(B) = c - 1
  <2>1. c - 1 \in Nat /\ 1 \in Int /\ c - 1 \in Int
    BY <1>1
  <2>2. IsFiniteSet(B) /\ Cardinality(B) = IF 1 > c - 1 THEN 0 ELSE c - 1 - 1 + 1
    BY <2>1, FS_Interval
  <2> QED  BY <2>1, <2>2
<1>3. IsFiniteSet(V) /\ Cardinality(V) = shown[c] - 1
  <2> DEFINE n == shown[c] - 1
  <2>1. n \in Nat /\ 1 \in Int /\ n \in Int
    BY <1>1
  <2> HIDE DEF n
  <2>2. IsFiniteSet(1..n) /\ Cardinality(1..n) = IF 1 > n THEN 0 ELSE n - 1 + 1
    BY <2>1, FS_Interval
  <2>3. Cardinality(1..n) = n
    BY <2>1, <2>2
  <2> QED  BY <2>2, <2>3 DEF n
<1>4. IsFiniteSet(E) /\ IsFiniteSet(A)
  BY <1>2, FS_Subset
<1>5. Cardinality(A) = Cardinality(B) - Cardinality(E)
  <2>1. B \cap E = E
    OBVIOUS
  <2> HIDE DEF B, E
  <2> QED  BY <1>2, <2>1, FS_Difference
<1>6. \A d \in B : d \in Commands /\ d < c
  BY <1>1, KindType DEF Commands
<1>7. \A d \in A : shown[d] \in Commands /\ shown[d] \in V
  <2>1. c <= Ended
    BY <1>1 DEF ShownInv, None
  <2>2. Ended \in Int
    BY KindType DEF TypeInv, TypeOK, Ended
  <2>3. \A d \in B : d <= Ended
    BY <1>1, <1>6, <2>1, <2>2
  <2>4. \A d \in A : shown[d] # None /\ shown[d] # Error /\ d \in Commands
    BY <1>6, <2>3 DEF ShownInv
  <2>5. \A d \in A : shown[d] \in Commands
    BY <2>4 DEF TypeInv, TypeOK
  <2>6. \A d \in A : shown[d] < shown[c]
    BY <2>5 DEF ShownInv
  <2> QED  BY <1>1, <2>5, <2>6 DEF Commands
<1>8. f \in Injection(A, V)
  <2>1. f \in [A -> V]
    BY <1>7
  <2>2. \A d, e \in A : f[d] = f[e] => d = e
    <3>1. ASSUME NEW d \in A, NEW e \in A, d < e PROVE shown[d] < shown[e]
      <4>1. e \in Commands /\ d \in 1..e - 1
        BY <1>1, <1>6, <3>1
      <4> QED  BY <1>7, <4>1 DEF ShownInv
    <3>2. \A d \in A : d \in Nat /\ shown[d] \in Nat
      BY <1>1, <1>7
    <3>3. \A d, e \in A : d < e => shown[d] # shown[e]
      BY <3>1, <3>2
    <3>4. \A d, e \in A : d = e \/ d < e \/ e < d
      BY <3>2
    <3> QED  BY <3>3, <3>4
  <2> QED  BY <2>1, <2>2 DEF Injection, IsInjective
<1>9. Cardinality(A) <= Cardinality(V)
  BY <1>3, <1>8, FS_Injection
<1>10. Cardinality(E) \in Nat
  BY <1>4, FS_CardinalityType
<1> HIDE DEF A, B, E, V, f
<1>11. Cardinality(E) >= c - shown[c]
  BY <1>1, <1>2, <1>3, <1>5, <1>9, <1>10
<1> QED  BY <1>11 DEF E, B

\* A command shows its own reply or that of an earlier one, no reply is shown
\* twice or out of order, and a reply is late by no more commands than have been
\* told to have failed.
THEOREM RepliesStayInOrder == Spec => []RepliesInOrder
<1>1. TypeInv /\ ReplyInv => RepliesInOrder
  BY LateByErrors DEF ReplyInv, ShownInv, RepliesInOrder
<1> QED  BY <1>1, TypeInit, TypeStep, ReplyInit, ReplyStep, PTL DEF Spec

------------------------------------------------------------------------------
(* After a reset.  The client waits for a reply only on a connection that is *)
(* not closed, and looks for the next master only when it has closed one.   *)

ClosedInv ==
    link # 0 =>
        /\ socket[link] = "closed" => pc \notin {"recv", "rest"}
        /\ pc = "connect" => socket[link] = "closed"

LEMMA ClosedInit == ASSUME Init PROVE ClosedInv
  BY DEF Init, ClosedInv

LEMMA ClosedStep == ASSUME TypeInv, ClosedInv, [Next]_vars PROVE ClosedInv'
<1> USE DEF client, wire
<1>1. link \in 0..MaxLinks /\ MaxLinks \in Nat /\ (link # 0 => link \in Links)
  BY KindType DEF TypeInv, TypeOK, Links
<1>2. socket \in [Links -> {"none", "open", "eof", "reset", "closed"}]
  BY DEF TypeInv, TypeOK
<1>3. pc \in {"read", "send", "recv", "rest"} => link # 0
  BY DEF TypeInv, AtWork
<1>4. CASE Connect
  <2>1. ASSUME NEW k \in Links, link' = k, socket' = [socket EXCEPT ![k] = "open"],
               pc' = IF cur = 0 THEN "read" ELSE "send"
        PROVE  ClosedInv'
    BY <1>2, <2>1 DEF ClosedInv
  <2>2. CASE pc' = "aborted" /\ UNCHANGED <<link, socket>>
    BY <2>2 DEF ClosedInv
  <2> QED  BY <1>4, <2>1, <2>2 DEF Connect
<1>5. CASE ReadCommand
  BY <1>5 DEF ReadCommand, ClosedInv
<1>6. CASE Send
  BY <1>1, <1>2, <1>6 DEF Send, ClosedInv
<1>7. CASE SendFails
  BY <1>1, <1>2, <1>7 DEF SendFails, PrintError, ClosedInv
<1>8. CASE RecvReply \/ RecvException \/ RecvOther \/ RecvRest
  BY <1>8 DEF RecvReply, RecvException, RecvOther, RecvRest, PrintError, ClosedInv
<1>9. CASE RecvTimeout \/ RecvReset
  BY <1>9 DEF RecvTimeout, RecvReset, PrintError, ClosedInv
<1>10. CASE RecvEnd
  BY <1>1, <1>2, <1>3, <1>10 DEF RecvEnd, ClosedInv
<1>11. CASE MasterStep
  <2>1. ASSUME NEW k \in Links, Execute(k) \/ Reply(k) PROVE ClosedInv'
    BY <2>1 DEF Execute, Reply, ClosedInv
  <2>2. ASSUME NEW lost, End(lost), \A k \in lost : socket[k] = "open", UNCHANGED client
        PROVE  ClosedInv'
    <3>1. \A k \in Links : (socket'[k] = "closed") <=> (socket[k] = "closed")
      BY <1>2, <2>2 DEF End
    <3> QED  BY <1>1, <2>2, <3>1 DEF ClosedInv
  <2>4. ASSUME NEW k \in Links, Close(k) PROVE ClosedInv'
    BY <2>2, <2>4 DEF Close
  <2>5. ASSUME NEW m \in Masters, Crash(m) PROVE ClosedInv'
    BY <2>2, <2>5 DEF Crash
  <2>3. ASSUME NEW m \in Masters, Restart(m) PROVE ClosedInv'
    BY <2>3 DEF Restart, ClosedInv
  <2> QED  BY <1>11, <2>1, <2>3, <2>4, <2>5 DEF MasterStep
<1>12. CASE UNCHANGED vars
  BY <1>12 DEF vars, ClosedInv
<1> QED  BY <1>4, <1>5, <1>6, <1>7, <1>8, <1>9, <1>10, <1>11, <1>12
         DEF Next, ClientStep

BrokenStep ==
    /\ Broken'
    /\ \A k \in Links : working'[k] \in {0, working[k]}
    /\ executions' = executions
    /\ \A c \in Commands : shown'[c] # shown[c] => shown'[c] = Error

LEMMA NothingExecuted ==
    ASSUME TypeInv, OrderInv, Broken, NEW k \in Links PROVE ~Execute(k)
<1>1. socket[link] # "open"
  BY DEF Broken
<1>2. socket[k] # "open"
  BY <1>1 DEF OrderInv, OneOpen
<1> QED  BY <1>2 DEF OrderInv, OneOpen, Execute

LEMMA BrokenStays ==
    ASSUME TypeInv, OrderInv, ClosedInv, Broken, [Next]_vars PROVE BrokenStep
<1> USE DEF client, wire
<1>1. link \in Links /\ link # 0
  BY KindType DEF Broken, TypeInv, TypeOK, Links
<1>2. socket \in [Links -> {"none", "open", "eof", "reset", "closed"}]
  BY DEF TypeInv, TypeOK
<1>3. shown \in [Commands -> {Error, None} \cup Commands]
  BY DEF TypeInv, TypeOK
<1>4. pc # "connect"
  BY <1>1 DEF Broken, ClosedInv
<1>5. pc \in {"recv", "rest"} => socket[link] = "reset"
  BY <1>1 DEF Broken, ClosedInv
<1>6. socket[link] \notin {"open", "eof"}
  BY DEF Broken
<1>7. ~Connect /\ ~Send /\ ~RecvTimeout /\ ~RecvEnd
  BY <1>4, <1>5, <1>6 DEF Connect, Send, RecvTimeout, RecvEnd
<1>8. ~RecvReply /\ ~RecvException /\ ~RecvOther /\ ~RecvRest
  BY <1>5 DEF RecvReply, RecvException, RecvOther, RecvRest, Arrived
<1>9. CASE ReadCommand
  BY <1>4, <1>9 DEF ReadCommand, BrokenStep, Broken
<1>10. CASE SendFails
  BY <1>1, <1>2, <1>3, <1>10 DEF SendFails, PrintError, BrokenStep, Broken
<1>11. CASE RecvReset
  BY <1>1, <1>3, <1>11 DEF RecvReset, PrintError, BrokenStep, Broken
<1>12. CASE MasterStep
  <2>1. ASSUME NEW k \in Links, Reply(k) PROVE BrokenStep
    <3>1. \A l \in Links : working'[l] \in {0, working[l]}
      BY <2>1 DEF Reply, TypeInv, TypeOK
    <3> QED  BY <2>1, <3>1 DEF Reply, BrokenStep, Broken
  <2>2. ASSUME NEW lost, End(lost), \A k \in lost : socket[k] = "open",
               UNCHANGED <<client, shown, executions>>
        PROVE  BrokenStep
    <3>1. socket'[link] = socket[link]
      BY <1>1, <1>2, <1>6, <2>2 DEF End
    <3>2. \A k \in Links : working'[k] \in {0, working[k]}
      BY <2>2 DEF End
    <3> QED  BY <2>2, <3>1, <3>2 DEF BrokenStep, Broken
  <2>4. ASSUME NEW k \in Links, Close(k) PROVE BrokenStep
    BY <2>2, <2>4 DEF Close
  <2>5. ASSUME NEW m \in Masters, Crash(m) PROVE BrokenStep
    BY <2>2, <2>5 DEF Crash
  <2>3. ASSUME NEW m \in Masters, Restart(m) PROVE BrokenStep
    BY <2>3 DEF Restart, BrokenStep, Broken
  <2> QED  BY <1>12, <2>1, <2>3, <2>4, <2>5, NothingExecuted DEF MasterStep
<1>13. CASE UNCHANGED vars
  BY <1>13 DEF vars, BrokenStep, Broken
<1> QED  BY <1>7, <1>8, <1>9, <1>10, <1>11, <1>12, <1>13 DEF Next, ClientStep

\* Once a connection was reset, or the next master was down as well, no master
\* begins to execute anything for this client and all it shows are errors.
THEOREM FailuresAreFinal == Spec => FailsForGood
<1>1. TypeInv /\ OrderInv /\ ClosedInv /\ [Next]_vars => [Broken => BrokenStep]_vars
  BY BrokenStays
<1>2. Init => TypeInv /\ OrderInv /\ ClosedInv
  BY TypeInit, OrderInit, ClosedInit
<1>3. TypeInv /\ OrderInv /\ ClosedInv /\ [Next]_vars
        => TypeInv' /\ OrderInv' /\ ClosedInv'
  BY TypeStep, OrderStep, ClosedStep
<1>4. [Broken => BrokenStep]_vars =>
        [Broken => /\ Broken'
                   /\ \A k \in Links : working'[k] \in {0, working[k]}
                   /\ executions' = executions
                   /\ \A c \in Commands : shown'[c] # shown[c] => shown'[c] = Error]_vars
  BY DEF BrokenStep
<1> QED  BY <1>1, <1>2, <1>3, <1>4, PTL DEF Spec, FailsForGood
=============================================================================
