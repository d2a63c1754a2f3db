------------------------- MODULE SlaveSessionProofs -------------------------
(***************************************************************************)
(* What the generated structs carry from one end of a connection to the    *)
(* other, and what a session with a slave makes of it.                     *)
(***************************************************************************)
EXTENDS SlaveSession, SequenceTheorems, TLAPS

(***************************************************************************)
(* A declaration as the Thrift compiler accepts it: no id and no name      *)
(* twice.                                                                  *)
(***************************************************************************)
IsStruct(S) ==
    /\ Len(S) \in Nat /\ DOMAIN S = 1..Len(S)
    /\ \A i, j \in DOMAIN S : S[i].id = S[j].id \/ S[i].name = S[j].name => i = j

Names(S) == {S[i].name : i \in DOMAIN S}

LEMMA MaxOfOne == ASSUME NEW i \in Int PROVE Max({i}) = i
  BY DEF Max

LEMMA InitialNames == ASSUME NEW S PROVE DOMAIN Initial(S) = Names(S)
  BY DEF Initial, Names

LEMMA InitialField ==
    ASSUME NEW S, IsStruct(S), NEW i \in DOMAIN S
    PROVE  Initial(S)[S[i].name] = Default(S[i].type)
<1>1. (CHOOSE j \in DOMAIN S : S[j].name = S[i].name) = i
  BY DEF IsStruct
<1> QED  BY <1>1 DEF Initial

\* Whatever struct it is, with whatever values: what one end writes is what the
\* other end reads.
THEOREM ReadsWhatIsWritten ==
    ASSUME NEW S, IsStruct(S), NEW v, v = [name \in Names(S) |-> v[name]]
    PROVE  Read(S, Write(S, v)) = v
<1> DEFINE W == Write(S, v)
<1>1. DOMAIN W = DOMAIN S /\ DOMAIN S \subseteq Int
  BY DEF Write, IsStruct
<1>2. \A k \in DOMAIN S : W[k].id = S[k].id /\ W[k].type = S[k].type /\ W[k].data = v[S[k].name]
  BY DEF Write
<1>3. ASSUME NEW i \in DOMAIN S PROVE Places(S, i, W) = {i}
  BY <1>1, <1>2 DEF Places, IsStruct
<1> HIDE DEF W
<1>4. ASSUME NEW name \in Names(S) PROVE Read(S, W)[name] = v[name]
  <2>1. PICK i \in DOMAIN S : S[i].name = name
    BY DEF Names
  <2>2. (CHOOSE j \in DOMAIN S : S[j].name = name) = i
    BY <2>1 DEF IsStruct
  <2>3. Places(S, i, W) = {i} /\ Max({i}) = i
    BY <1>1, <1>3, MaxOfOne
  <2>4. Read(S, W)[name] = W[i].data
    BY <2>2, <2>3, InitialNames DEF Read
  <2> QED  BY <1>2, <2>1, <2>4
<1>5. Read(S, W) = [name \in Names(S) |-> Read(S, W)[name]]
  BY InitialNames DEF Read
<1> QED  BY <1>4, <1>5 DEF W

\* The same for a struct inside the argument or the result of a method, which is
\* found to be set.
LEMMA UnwrapsWhatIsWrapped ==
    ASSUME NEW outer, IsStruct(outer), Len(outer) = 1,
           NEW inner, IsStruct(inner), NEW v, v = [name \in Names(inner) |-> v[name]]
    PROVE  /\ Unwrap(outer, inner, Wrap(outer, inner, v)) = v
           /\ Isset(outer, Wrap(outer, inner, v))
<1> DEFINE w == [name \in DOMAIN Initial(outer) |-> Write(inner, v)]
<1>1. DOMAIN outer = 1..1 /\ outer[1].name \in Names(outer)
  BY DEF IsStruct, Names
<1>2. w = [name \in Names(outer) |-> w[name]] /\ w[outer[1].name] = Write(inner, v)
  BY <1>1, InitialNames
<1> HIDE DEF w
<1>3. Read(outer, Write(outer, w)) = w
  BY <1>2, ReadsWhatIsWritten
<1>4. Places(outer, 1, Write(outer, w)) # {}
  <2>1. 1 \in DOMAIN Write(outer, w)
    BY <1>1 DEF Write
  <2>2. Write(outer, w)[1].id = outer[1].id /\ Write(outer, w)[1].type = outer[1].type
    BY <1>1 DEF Write
  <2> QED  BY <2>1, <2>2 DEF Places
<1>5. Read(inner, Write(inner, v)) = v
  BY ReadsWhatIsWritten
<1> QED  BY <1>2, <1>3, <1>4, <1>5 DEF w, Wrap, Unwrap, Isset

------------------------------------------------------------------------------
(* The structs of the service Slave.                                        *)

Methods == {"Try", "Finish", "Get", "Set", "Del"}

LEMMA OneField ==
    ASSUME NEW k, NEW a, NEW t
    PROVE  IsStruct(<<Field(k, a, t)>>) /\ Len(<<Field(k, a, t)>>) = 1
  BY DEF IsStruct, Field

LEMMA TwoFields ==
    ASSUME NEW k, NEW a, NEW t,
           NEW l, NEW b, NEW u,
           k # l, a # b
    PROVE  IsStruct(<<Field(k, a, t), Field(l, b, u)>>)
<1> DEFINE S == <<Field(k, a, t), Field(l, b, u)>>
<1>1. Len(S) = 2 /\ DOMAIN S = 1..2
  OBVIOUS
<1>2. DOMAIN S = {1, 2} /\ S[1] = Field(k, a, t) /\ S[2] = Field(l, b, u)
  OBVIOUS
<1> HIDE DEF S
<1>3. \A i, j \in DOMAIN S : S[i].id = S[j].id \/ S[i].name = S[j].name => i = j
  BY <1>2 DEF Field
<1> QED  BY <1>1, <1>3 DEF IsStruct, S

LEMMA ThreeFields ==
    ASSUME NEW k, NEW a, NEW t,
           NEW l, NEW b, NEW u,
           NEW m, NEW c, NEW v,
           k # l, k # m, l # m, a # b, a # c, b # c
    PROVE  IsStruct(<<Field(k, a, t), Field(l, b, u), Field(m, c, v)>>)
<1> DEFINE S == <<Field(k, a, t), Field(l, b, u), Field(m, c, v)>>
<1>1. Len(S) = 3 /\ DOMAIN S = 1..3
  OBVIOUS
<1>2. DOMAIN S = {1, 2, 3}
  OBVIOUS
<1>3. S[1] = Field(k, a, t) /\ S[2] = Field(l, b, u) /\ S[3] = Field(m, c, v)
  OBVIOUS
<1> HIDE DEF S
<1>4. \A i, j \in DOMAIN S : S[i].id = S[j].id \/ S[i].name = S[j].name => i = j
  BY <1>2, <1>3 DEF Field
<1> QED  BY <1>1, <1>4 DEF IsStruct, S

LEMMA RequestStructs ==
    /\ IsStruct(TryRequest) /\ IsStruct(FinishRequest) /\ IsStruct(GetRequest)
    /\ IsStruct(SetRequest) /\ IsStruct(DelRequest)
<1>1. IsStruct(TryRequest)
  BY TwoFields DEF TryRequest
<1>2. IsStruct(FinishRequest)
  BY ThreeFields DEF FinishRequest
<1>3. IsStruct(GetRequest) /\ IsStruct(DelRequest)
  BY OneField DEF GetRequest, DelRequest
<1>4. IsStruct(SetRequest)
  BY ThreeFields DEF SetRequest
<1> QED  BY <1>1, <1>2, <1>3, <1>4

LEMMA ResponseStructs ==
    /\ IsStruct(TryResponse) /\ IsStruct(FinishResponse) /\ IsStruct(GetResponse)
    /\ IsStruct(SetResponse) /\ IsStruct(DelResponse)
<1>1. IsStruct(TryResponse)
  BY TwoFields DEF TryResponse
<1>2. IsStruct(FinishResponse)
  BY OneField DEF FinishResponse
<1>3. IsStruct(GetResponse)
  BY ThreeFields DEF GetResponse
<1>4. IsStruct(SetResponse) /\ IsStruct(DelResponse)
  BY TwoFields DEF SetResponse, DelResponse
<1> QED  BY <1>1, <1>2, <1>3, <1>4

LEMMA ArgsStructs ==
    \A S \in {Slave_Try_args, Slave_Finish_args, Slave_Get_args, Slave_Set_args,
              Slave_Del_args, Slave_Try_result, Slave_Finish_result, Slave_Get_result,
              Slave_Set_result, Slave_Del_result} :
        IsStruct(S) /\ Len(S) = 1
  BY OneField
     DEF Slave_Try_args, Slave_Finish_args, Slave_Get_args, Slave_Set_args,
         Slave_Del_args, Slave_Try_result, Slave_Finish_result, Slave_Get_result,
         Slave_Set_result, Slave_Del_result

LEMMA SignatureStructs ==
    ASSUME NEW m \in Methods
    PROVE  /\ IsStruct(SignatureOf(m).args) /\ Len(SignatureOf(m).args) = 1
           /\ IsStruct(SignatureOf(m).request)
           /\ IsStruct(SignatureOf(m).result) /\ Len(SignatureOf(m).result) = 1
           /\ IsStruct(SignatureOf(m).response)
  BY RequestStructs, ResponseStructs, ArgsStructs
     DEF Methods, SignatureOf, Signature, Try, Finish, Get, Set, Del

\* Whatever the arguments of a call, the slave reads those; whatever its answer, the
\* master reads that, and finds that there is one.
LEMMA CallCarries ==
    ASSUME NEW m \in Methods,
           NEW v, v = [name \in Names(SignatureOf(m).request) |-> v[name]]
    PROVE  Argument(m, Arguments(m, v)) = v
  BY SignatureStructs, UnwrapsWhatIsWrapped DEF Argument, Arguments

LEMMA ReplyCarries ==
    ASSUME NEW m \in Methods,
           NEW v, v = [name \in Names(SignatureOf(m).response) |-> v[name]]
    PROVE  Success(m, Result(m, v)) = v /\ HasSuccess(m, Result(m, v))
  BY SignatureStructs, UnwrapsWhatIsWrapped DEF Success, Result, HasSuccess

LEMMA BodyLength ==
    ASSUME NEW m \in Methods, NEW v
    PROVE  Len(Arguments(m, v)) = 1 /\ Len(Result(m, v)) = 1
<1>1. ASSUME NEW S, IsStruct(S), Len(S) = 1, NEW w PROVE Len(Write(S, w)) = 1
  BY <1>1 DEF Write, IsStruct
<1> QED  BY <1>1, SignatureStructs DEF Arguments, Result, Wrap

LEMMA AnswerNames ==
    /\ {"message", "check_key"} = Names(TryResponse)
    /\ {"message"} = Names(FinishResponse)
    /\ {"value", "message", "connection_id"} = Names(GetResponse)
    /\ {"connection_id", "message"} = Names(SetResponse)
    /\ {"connection_id", "message"} = Names(DelResponse)
  BY DEF Names, Field, TryResponse, FinishResponse, GetResponse, SetResponse, DelResponse

LEMMA NoConnectionId ==
    /\ Initial(SetResponse)["connection_id"] = 0
    /\ Initial(DelResponse)["connection_id"] = 0
<1>1. /\ 1 \in DOMAIN SetResponse /\ SetResponse[1].name = "connection_id"
      /\ SetResponse[1].type = "i64"
      /\ 1 \in DOMAIN DelResponse /\ DelResponse[1].name = "connection_id"
      /\ DelResponse[1].type = "i64"
  BY DEF SetResponse, DelResponse, Field
<1>2. Default("i64") = 0
  BY DEF Default
<1> QED  BY <1>1, <1>2, ResponseStructs, InitialField

\* The handler's answer, read by the master.
LEMMA AnswerForm ==
    ASSUME NEW m \in Methods, NEW ok \in BOOLEAN
    PROVE  Answer(m, ok) = [name \in Names(SignatureOf(m).response) |-> Answer(m, ok)[name]]
<1> DEFINE I == Initial(SignatureOf(m).response)
<1>1. I = [name \in Names(SignatureOf(m).response) |-> I[name]]
  BY DEF Initial, Names
<1> QED  BY <1>1 DEF Answer, Methods

LEMMA AnswerVerdict ==
    ASSUME NEW m \in Methods, NEW ok \in BOOLEAN
    PROVE  /\ Verdict(m, Answer(m, ok)) = ok
           /\ m \in {"Set", "Del"} => Answer(m, ok).connection_id = IF ok THEN 1 ELSE 0
<1> DEFINE I == Initial(SignatureOf(m).response)
<1>1. DOMAIN I = Names(SignatureOf(m).response)
  BY InitialNames
<1>2. "message" \in DOMAIN I /\ (m = "Try" => "check_key" \in DOMAIN I)
  BY <1>1, AnswerNames DEF Methods, SignatureOf, Signature, Try, Finish, Get, Set, Del
<1>3. m \in {"Set", "Del"} => "connection_id" \in DOMAIN I /\ I["connection_id"] = 0
  BY <1>1, AnswerNames, NoConnectionId DEF SignatureOf, Signature, Set, Del
<1> HIDE DEF I
<1>4. CASE m = "Try"
  BY <1>2, <1>4 DEF Answer, Verdict, I
<1>5. CASE m \in {"Get", "Finish"}
  BY <1>2, <1>5 DEF Answer, Verdict, I
<1>6. CASE m \in {"Set", "Del"}
  BY <1>2, <1>3, <1>6 DEF Answer, Verdict, I
<1> QED  BY <1>4, <1>5, <1>6 DEF Methods

------------------------------------------------------------------------------
(* What is on the connection.                                               *)

Items(s) == {s[i] : i \in DOMAIN s}
CallsOf(s) == {f.call : f \in Items(s)}
Ascending(s) == \A i, j \in DOMAIN s : i < j => s[i].call < s[j].call
Before(s, t) == \A m \in CallsOf(s), n \in CallsOf(t) : m < n

\* The call as it was sent, and the reply or exception it may get.
MessageOf(n) == [call |-> n, name |-> Method(n), body |-> Arguments(Method(n), Request(n))]
FrameOf(n, type, ok) ==
    [call |-> n, name |-> Method(n), type |-> type,
     body |-> IF type = "reply" THEN Result(Method(n), Answer(Method(n), ok)) ELSE <<>>]

Sent == {MessageOf(n) : n \in 1..call}
Frames == {FrameOf(n, type, ok) :
              n \in 1..call, type \in {"reply", "exception"}, ok \in BOOLEAN}

Answers == Items(working) \cup Items(replies)
AnswerCalls == CallsOf(working) \cup CallsOf(replies)
Pending == CallsOf(requests) \cup AnswerCalls

\* The calls whose reply is under way and says success.
Successes == {n \in Calls : FrameOf(n, "reply", TRUE) \in Answers}

Contents ==
    /\ requests \in Seq(Sent)
    /\ replies \in Seq(Frames)
    /\ working = <<>> \/ \E f \in Frames : working = <<f>>

\* A connection is a queue: the slave answers the calls in their order, each once,
\* and what is lost is lost from its end.
Queue ==
    /\ Ascending(requests) /\ Ascending(replies)
    /\ Before(replies, working) /\ Before(replies, requests) /\ Before(working, requests)

Connection ==
    /\ pc = "send" => call \notin Pending
    /\ socket # "open" => requests = <<>> /\ working = <<>>
    /\ pc \in {"recv", "rest"} => socket # "closed"

\* The master goes through the calls one by one.
Ended == Answered \cup {"timeout", "broken"}
Progress ==
    /\ op = "Get" => call <= 1
    /\ op \in {"Get", "Set", "Del"}
    /\ pc \in {"idle", "send", "recv", "rest", "over", "terminated"}
    /\ call \in {0} \cup Calls
    /\ call = 0 => pc = "idle"
    /\ result \in [Calls -> Results]
    /\ \A n \in Calls :
          /\ n < call => result[n] \in Ended
          /\ n > call => result[n] = "none"
          /\ n = call =>
                /\ pc \in {"send", "recv", "rest"} => result[n] = "none"
                /\ pc \in {"idle", "over"} => result[n] \in Ended
                /\ pc = "terminated" => result[n] \in {"none", "exception"}
    /\ connection_id \in {0, 1}
    /\ call_func \in {"none", "commit", "rollback"}
    /\ call > 2 => call_func # "none"
    /\ socket \in {"open", "eof", "reset", "closed"}
    /\ tx \in {"none", "open", "committed", "rolledback", "lost"}
    /\ written \in {"none", "insert", "update"}

\* The transaction that a Finish names is the one that the write answered for.
Finished == tx = Outcome(call_func) \/ (call_func = "rollback" /\ tx = "lost")

Transactions ==
    op # "Get" =>
        /\ connection_id = 1 <=> result[2] = "yes"
        /\ 2 \in Successes => tx # "none"
        /\ connection_id = 1 =>
              /\ tx # "none"
              /\ \A n \in 3..MaxAttempts + 2 :
                    n \in Successes \/ result[n] = "yes" => Finished

\* Nothing overtakes the answer to Try.
Tries ==
    op # "Get" =>
        /\ \/ call = 1 /\ pc \in {"recv", "idle"} /\ result[1] \notin Answered
           \/ call = 2 /\ pc \in {"send", "recv"} /\ result[1] \notin Answered
           => 1 \in Pending \/ (socket # "open" /\ replies = <<>>)
        /\ result[2] \in Answered => result[1] \in Answered
        /\ op = "Set" =>
              (2 \in AnswerCalls \/ result[2] \in Answered =>
                  written = set_func(result[1] = "yes"))

\* A call that has its answer is no longer on the connection; what can still arrive
\* was given up.  A Finish may take the reply to an earlier one.
Late ==
    /\ \A n \in {1, 2} :
          /\ result[n] \in Answered => \A m \in Pending : n < m
          /\ n \in Pending => \/ result[n] \in {"none", "timeout"}
                              \/ socket \in {"reset", "closed"}
                              \/ pc = "terminated"
    /\ pc = "rest" => \E n \in {1, 2} : n < call /\ result[n] = "timeout"

IInv ==
    Contents /\ Queue /\ Connection /\ Progress /\ Transactions /\ Tries /\ Late /\ EndsOnLateReply

------------------------------------------------------------------------------
(* Sequences of calls and replies.                                          *)

LEMMA NoItems ==
    /\ Items(<<>>) = {} /\ CallsOf(<<>>) = {}
    /\ Ascending(<<>>)
    /\ \A S : \A s \in Seq(S) : s # <<>> => CallsOf(s) # {}
<1>1. Items(<<>>) = {} /\ CallsOf(<<>>) = {} /\ Ascending(<<>>)
  BY DEF Items, CallsOf, Ascending
<1>2. ASSUME NEW S, NEW s \in Seq(S), s # <<>> PROVE CallsOf(s) # {}
  <2>1. 1 \in DOMAIN s
    BY <1>2
  <2> QED  BY <2>1 DEF CallsOf, Items
<1> QED  BY <1>1, <1>2

LEMMA OneItem ==
    ASSUME NEW f
    PROVE  Items(<<f>>) = {f} /\ CallsOf(<<f>>) = {f.call} /\ Ascending(<<f>>)
<1>1. Items(<<f>>) = {f}
  BY DEF Items
<1>2. DOMAIN <<f>> = 1..1
  OBVIOUS
<1> QED  BY <1>1, <1>2 DEF CallsOf, Ascending

LEMMA ItemsOf ==
    ASSUME NEW S, NEW s \in Seq(S)
    PROVE  Items(s) \subseteq S
  BY DEF Items

LEMMA HeadAndTail ==
    ASSUME NEW S, NEW s \in Seq(S), s # <<>>
    PROVE  /\ Head(s) \in S /\ Tail(s) \in Seq(S)
           /\ Items(s) = {Head(s)} \cup Items(Tail(s))
           /\ CallsOf(s) = {Head(s).call} \cup CallsOf(Tail(s))
           /\ Ascending(s) => /\ Ascending(Tail(s))
                              /\ \A n \in CallsOf(Tail(s)) : Head(s).call < n
<1> DEFINE t == Tail(s)
<1>1. /\ Head(s) = s[1] /\ s[1] \in S /\ t \in Seq(S)
      /\ Len(s) \in Nat \ {0} /\ DOMAIN s = 1..Len(s) /\ DOMAIN t = 1..Len(s) - 1
      /\ \A i \in DOMAIN t : t[i] = s[i + 1]
  OBVIOUS
<1> HIDE DEF t
<1>2. Items(s) = {Head(s)} \cup Items(t)
  <2>1. \A i \in DOMAIN s : i = 1 \/ (i - 1 \in DOMAIN t /\ s[i] = t[i - 1])
    BY <1>1
  <2>2. 1 \in DOMAIN s /\ \A i \in DOMAIN t : i + 1 \in DOMAIN s
    BY <1>1
  <2>3. ASSUME NEW f \in Items(s) PROVE f = Head(s) \/ f \in Items(t)
    <3>1. PICK i \in DOMAIN s : f = s[i]
      BY DEF Items
    <3> QED  BY <1>1, <2>1, <3>1 DEF Items
  <2>4. Items(t) \subseteq Items(s) /\ Head(s) \in Items(s)
    BY <1>1, <2>2 DEF Items
  <2> QED  BY <2>3, <2>4
<1>3. CallsOf(s) = {Head(s).call} \cup CallsOf(t)
  BY <1>2 DEF CallsOf
<1>4. ASSUME Ascending(s) PROVE Ascending(t) /\ \A n \in CallsOf(t) : Head(s).call < n
  <2>1. 1 \in DOMAIN s /\ \A i \in DOMAIN t : i + 1 \in DOMAIN s /\ 1 < i + 1
    BY <1>1
  <2>2. \A i, j \in DOMAIN t : i < j => i + 1 < j + 1
    BY <1>1
  <2>3. Ascending(t)
    BY <1>1, <1>4, <2>1, <2>2 DEF Ascending
  <2>4. ASSUME NEW i \in DOMAIN t PROVE Head(s).call < t[i].call
    BY <1>1, <1>4, <2>1 DEF Ascending
  <2> QED  BY <2>3, <2>4 DEF CallsOf, Items
<1> QED  BY <1>1, <1>2, <1>3, <1>4 DEF t

LEMMA AppendItem ==
    ASSUME NEW S, NEW s \in Seq(S), NEW f \in S
    PROVE  /\ Append(s, f) \in Seq(S)
           /\ Items(Append(s, f)) = Items(s) \cup {f}
           /\ CallsOf(Append(s, f)) = CallsOf(s) \cup {f.call}
           /\ Ascending(s) /\ (\A n \in CallsOf(s) : n < f.call) => Ascending(Append(s, f))
           /\ s \o <<f>> = Append(s, f)
<1> DEFINE t == Append(s, f)
<1>1. /\ t \in Seq(S) /\ Len(s) \in Nat /\ DOMAIN s = 1..Len(s)
      /\ DOMAIN t = 1..Len(s) + 1
      /\ \A i \in DOMAIN s : t[i] = s[i]
      /\ t[Len(s) + 1] = f
  OBVIOUS
<1>2. s \o <<f>> = t
  OBVIOUS
<1> HIDE DEF t
<1>3. Items(t) = Items(s) \cup {f}
  <2>1. \A i \in DOMAIN t : i = Len(s) + 1 \/ i \in DOMAIN s
    BY <1>1
  <2>2. Len(s) + 1 \in DOMAIN t /\ \A i \in DOMAIN s : i \in DOMAIN t
    BY <1>1
  <2> QED  BY <1>1, <2>1, <2>2 DEF Items
<1>4. CallsOf(t) = CallsOf(s) \cup {f.call}
  BY <1>3 DEF CallsOf
<1>5. ASSUME Ascending(s), \A n \in CallsOf(s) : n < f.call PROVE Ascending(t)
  <2> SUFFICES ASSUME NEW i \in DOMAIN t, NEW j \in DOMAIN t, i < j
               PROVE  t[i].call < t[j].call
    BY DEF Ascending
  <2>1. i \in DOMAIN s /\ t[i] = s[i] /\ s[i].call \in CallsOf(s)
    BY <1>1 DEF CallsOf, Items
  <2> QED  BY <1>1, <1>5, <2>1 DEF Ascending
<1> QED  BY <1>1, <1>2, <1>3, <1>4, <1>5 DEF t

------------------------------------------------------------------------------
(* Calls and frames of a session.                                           *)

LEMMA MethodOf ==
    ASSUME Progress, NEW n \in Calls, op = "Get" => n = 1
    PROVE  /\ Method(n) \in Methods
           /\ op # "Get" => /\ n = 1 <=> Method(n) = "Try"
                            /\ n = 2 <=> Method(n) = op
                            /\ n > 2 <=> Method(n) = "Finish"
                            /\ n = 2 <=> Method(n) \in {"Set", "Del"}
           /\ op = "Get" => Method(n) = "Get"
  BY DEF Progress, Method, Methods, Calls

LEMMA FramesStay ==
    ASSUME op' = op, call \in Int, call' \in Int, call <= call'
    PROVE  /\ \A n, type, ok : FrameOf(n, type, ok)' = FrameOf(n, type, ok)
           /\ Frames \subseteq Frames'
<1>1. \A n, type, ok : FrameOf(n, type, ok)' = FrameOf(n, type, ok)
  BY DEF FrameOf, Method
<1>2. 1..call \subseteq 1..call'
  OBVIOUS
<1> QED  BY <1>1, <1>2 DEF Frames

LEMMA MessagesStay ==
    ASSUME Progress, op' = op, call' \in Int, call <= call',
           call > 1 => result'[1] = result[1],
           call > 2 => connection_id' = connection_id /\ call_func' = call_func
    PROVE  Sent \subseteq Sent'
<1>1. call \in 0..MaxAttempts + 2
  BY SessionAssumption DEF Progress, Calls
<1>2. 1..call \subseteq 1..call'
  BY <1>1
<1>3. ASSUME NEW n \in 1..call PROVE MessageOf(n)' = MessageOf(n)
  <2>1. n \in Calls /\ (op = "Get" => n = 1) /\ Method(n)' = Method(n)
    BY <1>1, SessionAssumption DEF Calls, Progress, Method
  <2>2. Request(n)' = Request(n)
    <3>1. CASE Method(n) \in {"Get", "Try", "Del"}
      BY <2>1, <3>1 DEF Request
    <3>2. CASE Method(n) = "Set"
      <4>1. n = 2
        BY <2>1, <3>2, MethodOf DEF Progress
      <4> QED  BY <1>1, <2>1, <3>2, <4>1 DEF Request
    <3>3. CASE Method(n) = "Finish"
      <4>1. n > 2
        BY <2>1, <3>3, MethodOf DEF Progress
      <4> QED  BY <1>1, <2>1, <3>3, <4>1 DEF Request
    <3> QED  BY <2>1, <3>1, <3>2, <3>3, MethodOf DEF Methods
  <2> QED  BY <2>1, <2>2 DEF MessageOf
<1> QED  BY <1>2, <1>3 DEF Sent

LEMMA SequencesGrow ==
    ASSUME NEW S, NEW T, S \subseteq T PROVE Seq(S) \subseteq Seq(T)
  OBVIOUS

------------------------------------------------------------------------------
(* What the steps do to the connection.                                     *)

LEMMA PendingCalls ==
    ASSUME Contents
    PROVE  /\ Pending \subseteq 1..call
           /\ AnswerCalls \subseteq Pending
           /\ replies = <<>> <=> CallsOf(replies) = {}
           /\ working \in Seq(Frames)
<1>1. working \in Seq(Frames)
  <2>1. \A f \in Frames : <<f>> \in Seq(Frames)
    OBVIOUS
  <2>2. <<>> \in Seq(Frames)
    OBVIOUS
  <2> QED  BY <2>1, <2>2 DEF Contents
<1>2. \A f \in Sent \cup Frames : f.call \in 1..call
  BY DEF Sent, Frames, MessageOf, FrameOf
<1>3. /\ CallsOf(requests) \subseteq 1..call /\ CallsOf(replies) \subseteq 1..call
      /\ CallsOf(working) \subseteq 1..call
  BY <1>1, <1>2, ItemsOf DEF Contents, CallsOf
<1>4. replies = <<>> <=> CallsOf(replies) = {}
  BY NoItems DEF Contents
<1> QED  BY <1>1, <1>3, <1>4 DEF Pending, AnswerCalls

LEMMA WireStays ==
    ASSUME UNCHANGED wire
    PROVE  /\ Pending' = Pending /\ Answers' = Answers /\ AnswerCalls' = AnswerCalls
           /\ Queue' = Queue
  BY DEF wire, Pending, Answers, AnswerCalls, Queue, CallsOf, Items, Ascending, Before

LEMMA WireSends ==
    ASSUME Contents, Queue, call \in Int, call > 0, call \notin Pending,
           requests' = Append(requests, Message), UNCHANGED <<op, call, working, replies>>,
           Sent \subseteq Sent'
    PROVE  /\ Pending' = Pending \cup {call}
           /\ Answers' = Answers /\ AnswerCalls' = AnswerCalls
           /\ Queue' /\ requests' \in Seq(Sent)
<1>1. Message \in Sent /\ Message.call = call
  BY DEF Message, MessageOf, Sent
<1>2. \A n \in Pending : n < call
  BY PendingCalls
<1>3. /\ requests' \in Seq(Sent) /\ CallsOf(requests') = CallsOf(requests) \cup {call}
      /\ Ascending(requests')
  BY <1>1, <1>2, AppendItem DEF Contents, Queue, Pending
<1>4. Pending' = Pending \cup {call} /\ Answers' = Answers /\ AnswerCalls' = AnswerCalls
  BY <1>3 DEF Pending, Answers, AnswerCalls
<1>5. Queue'
  BY <1>2, <1>3 DEF Queue, Before, Pending, AnswerCalls
<1> QED  BY <1>3, <1>4, <1>5

LEMMA WireReads ==
    ASSUME Contents, Queue, replies # <<>>, ReadFrame, UNCHANGED <<requests, working>>
    PROVE  /\ Frame \in Frames /\ Frame \in Answers
           /\ Frame.call \in AnswerCalls
           /\ Answers' \subseteq Answers /\ AnswerCalls' \subseteq AnswerCalls
           /\ Pending' \subseteq Pending /\ Pending = Pending' \cup {Frame.call}
           /\ \A n \in Pending' : Frame.call < n
           /\ Queue' /\ replies' \in Seq(Frames)
<1>1. /\ Frame \in Frames /\ replies' \in Seq(Frames)
      /\ Items(replies) = {Frame} \cup Items(replies')
      /\ CallsOf(replies) = {Frame.call} \cup CallsOf(replies')
      /\ Ascending(replies') /\ \A n \in CallsOf(replies') : Frame.call < n
  BY HeadAndTail DEF Contents, Queue, Frame, ReadFrame
<1>2. /\ Answers' \subseteq Answers /\ AnswerCalls' \subseteq AnswerCalls
      /\ Pending' \subseteq Pending /\ Pending = Pending' \cup {Frame.call}
      /\ Frame \in Answers /\ Frame.call \in AnswerCalls
  BY <1>1 DEF Answers, AnswerCalls, Pending
<1>3. \A n \in Pending' : Frame.call < n
  BY <1>1 DEF Queue, Before, Pending, AnswerCalls
<1>4. Queue'
  BY <1>1 DEF Queue, Before
<1> QED  BY <1>1, <1>2, <1>3, <1>4

LEMMA WireExecutes ==
    ASSUME Contents, Queue, requests # <<>>, working = <<>>,
           requests' = Tail(requests), UNCHANGED replies,
           NEW g \in Frames, working' = <<g>>, g.call = Head(requests).call
    PROVE  /\ Head(requests) \in Sent /\ g.call \notin AnswerCalls
           /\ g.call \notin CallsOf(requests')
           /\ Pending' = Pending /\ g.call \in Pending
           /\ Answers' = Answers \cup {g} /\ AnswerCalls' = AnswerCalls \cup {g.call}
           /\ Queue' /\ requests' \in Seq(Sent)
<1> DEFINE h == Head(requests)
<1>1. /\ h \in Sent /\ requests' \in Seq(Sent)
      /\ CallsOf(requests) = {h.call} \cup CallsOf(requests')
      /\ Ascending(requests') /\ \A n \in CallsOf(requests') : h.call < n
  BY HeadAndTail DEF Contents, Queue
<1>2. /\ Items(working) = {} /\ CallsOf(working) = {}
      /\ Items(working') = {g} /\ CallsOf(working') = {h.call}
  BY NoItems, OneItem
<1>3. h.call \in 1..call
  BY <1>1 DEF Sent, MessageOf
<1>4. /\ Pending' = Pending /\ g.call \in Pending
      /\ Answers' = Answers \cup {g} /\ AnswerCalls' = AnswerCalls \cup {g.call}
  BY <1>1, <1>2 DEF Pending, Answers, AnswerCalls
<1>5. h.call \notin AnswerCalls /\ h.call \notin CallsOf(requests')
  BY <1>1, <1>2, <1>3 DEF Queue, Before, AnswerCalls
<1>6. Queue'
  BY <1>1, <1>2 DEF Queue, Before
<1> QED  BY <1>1, <1>4, <1>5, <1>6

LEMMA WireReplies ==
    ASSUME Contents, Queue, Reply
    PROVE  /\ Pending' = Pending /\ Answers' = Answers /\ AnswerCalls' = AnswerCalls
           /\ Queue' /\ replies' \in Seq(Frames) /\ replies' # <<>>
<1>1. PICK g \in Frames : working = <<g>>
  BY DEF Reply, Contents
<1>2. /\ replies \in Seq(Frames) /\ replies' = Append(replies, g) /\ working' = <<>>
      /\ requests' = requests
  BY <1>1, AppendItem DEF Reply, Contents
<1>3. /\ Items(working) = {g} /\ CallsOf(working) = {g.call}
      /\ Items(working') = {} /\ CallsOf(working') = {}
  BY <1>1, <1>2, NoItems, OneItem
<1>4. \A n \in CallsOf(replies) : n < g.call
  BY <1>3 DEF Queue, Before
<1>5. /\ replies' \in Seq(Frames) /\ Items(replies') = Items(replies) \cup {g}
      /\ CallsOf(replies') = CallsOf(replies) \cup {g.call} /\ Ascending(replies')
  BY <1>2, <1>4, AppendItem DEF Queue
<1>6. Pending' = Pending /\ Answers' = Answers /\ AnswerCalls' = AnswerCalls
  BY <1>2, <1>3, <1>5 DEF Pending, Answers, AnswerCalls
<1>7. Queue'
  BY <1>2, <1>3, <1>5 DEF Queue, Before
<1>8. replies' # <<>>
  BY <1>2
<1> QED  BY <1>5, <1>6, <1>7, <1>8

LEMMA WireCrashes ==
    ASSUME Contents, Queue, requests' = <<>>, working' = <<>>, UNCHANGED replies
    PROVE  /\ Pending' \subseteq Pending /\ Answers' \subseteq Answers
           /\ AnswerCalls' \subseteq AnswerCalls
           /\ \A n \in Pending : \/ n \in Pending' \/ replies = <<>>
                                 \/ \E m \in Pending' : m < n
           /\ Queue'
<1>1. /\ Items(working') = {} /\ CallsOf(working') = {} /\ CallsOf(requests') = {}
      /\ Ascending(requests')
  BY NoItems
<1>2. /\ Pending' = CallsOf(replies) /\ AnswerCalls' = CallsOf(replies)
      /\ Answers' = Items(replies)
  BY <1>1 DEF Pending, Answers, AnswerCalls
<1>3. replies # <<>> => CallsOf(replies) # {}
  BY PendingCalls
<1>4. \A n \in Pending : n \in CallsOf(replies) \/ \A m \in CallsOf(replies) : m < n
  BY DEF Queue, Before, Pending, AnswerCalls
<1>5. Queue'
  BY <1>1 DEF Queue, Before
<1> QED  BY <1>2, <1>3, <1>4, <1>5 DEF Pending, Answers, AnswerCalls

LEMMA CallRange ==
    ASSUME Progress
    PROVE  /\ Calls = 1..MaxAttempts + 2 /\ MaxAttempts \in Nat /\ call \in 0..MaxAttempts + 2
           /\ op = "Get" => call \in 0..1
  BY SessionAssumption DEF Progress, Calls

LEMMA SuccessesStay ==
    /\ Successes \subseteq AnswerCalls
    /\ op' = op /\ Answers' \subseteq Answers => Successes' \subseteq Successes
<1>1. Successes \subseteq AnswerCalls
  <2> SUFFICES ASSUME NEW n \in Successes PROVE n \in AnswerCalls
    OBVIOUS
  <2>1. FrameOf(n, "reply", TRUE) \in Answers /\ FrameOf(n, "reply", TRUE).call = n
    BY DEF Successes, FrameOf
  <2> QED  BY <2>1 DEF Answers, AnswerCalls, CallsOf
<1>2. ASSUME op' = op, Answers' \subseteq Answers PROVE Successes' \subseteq Successes
  <2>1. \A n \in Calls : FrameOf(n, "reply", TRUE)' = FrameOf(n, "reply", TRUE)
    BY <1>2 DEF FrameOf, Method
  <2>2. Successes' = {n \in Calls : FrameOf(n, "reply", TRUE)' \in Answers'}
    BY DEF Successes
  <2> QED  BY <1>2, <2>1, <2>2 DEF Successes
<1> QED  BY <1>1, <1>2

LEMMA ContentsStay ==
    ASSUME Contents, UNCHANGED wire, Sent \subseteq Sent', Frames \subseteq Frames'
    PROVE  Contents'
<1>1. Seq(Sent) \subseteq Seq(Sent') /\ Seq(Frames) \subseteq Seq(Frames')
  BY SequencesGrow
<1> QED  BY <1>1 DEF Contents, wire

------------------------------------------------------------------------------
(* The steps of the master.                                                 *)

\* The next call begins, with the decision if it is the first Finish.
LEMMA BeginKeeps ==
    ASSUME IInv, FirstCall \/ WriteCall \/ Decide \/ RetryFinish
    PROVE  IInv'
<1>1. /\ pc = "idle" /\ pc' = "send" /\ call' = call + 1 /\ call \in 0..MaxAttempts + 1
      /\ call' \in Calls /\ call \in 0..MaxAttempts + 2 /\ call' \in 1..MaxAttempts + 2
      /\ UNCHANGED <<op, result, connection_id, socket, wire, slave>>
      /\ call > 2 => call_func' = call_func
      /\ call_func' \in {"none", "commit", "rollback"}
      /\ call' > 2 => call_func' # "none"
      /\ op = "Get" => call' = 1
  BY CallRange, SessionAssumption DEF IInv, FirstCall, WriteCall, Decide, RetryFinish, Begin, Progress
<1>2. Sent \subseteq Sent' /\ Frames \subseteq Frames'
  BY <1>1, MessagesStay, FramesStay DEF IInv
<1>3. Contents'
  BY <1>1, <1>2, ContentsStay DEF IInv
<1>4. /\ Pending' = Pending /\ Answers' = Answers /\ AnswerCalls' = AnswerCalls
      /\ Queue' /\ Pending \subseteq 1..call /\ replies' = replies
  BY <1>1, WireStays, PendingCalls DEF IInv, wire
<1>5. Connection'
  BY <1>1, <1>4 DEF IInv, Connection, wire
<1>6. Progress'
  BY <1>1 DEF IInv, Progress, Calls, slave, Ended, Answered
<1>7. Transactions'
  <2>1. Successes' \subseteq Successes /\ Successes \subseteq 1..call
    BY <1>1, <1>4, PendingCalls, SuccessesStay DEF IInv
  <2>2. call = 2 => \A n \in 3..MaxAttempts + 2 : n \notin Successes' /\ result[n] = "none"
    BY <1>1, <2>1, CallRange DEF IInv, Progress
  <2>3. call # 2 => call_func' = call_func
    BY DEF FirstCall, WriteCall, Decide, RetryFinish
  <2> QED  BY <1>1, <2>1, <2>2, <2>3 DEF IInv, Transactions, Finished, slave
<1>8. Tries'
  BY <1>1, <1>4 DEF IInv, Tries, Progress, slave
<1>9. Late' /\ EndsOnLateReply'
  BY <1>1, <1>4 DEF IInv, Late, EndsOnLateReply
<1> QED  BY <1>3, <1>4, <1>5, <1>6, <1>7, <1>8, <1>9 DEF IInv

LEMMA DoneKeeps == ASSUME IInv, Done PROVE IInv'
<1>1. /\ pc = "idle" /\ pc' = "over" /\ call \in 1..MaxAttempts + 2
      /\ UNCHANGED <<op, call, result, connection_id, call_func, socket, wire, slave>>
  BY CallRange DEF IInv, Done
<1>2. Sent \subseteq Sent' /\ Frames \subseteq Frames'
  BY <1>1, MessagesStay, FramesStay DEF IInv
<1>3. Contents'
  BY <1>1, <1>2, ContentsStay DEF IInv
<1>4. /\ Pending' = Pending /\ Answers' = Answers /\ AnswerCalls' = AnswerCalls
      /\ Queue' /\ replies' = replies
  BY <1>1, WireStays DEF IInv, wire
<1>5. Connection' /\ Progress'
  BY <1>1, <1>4 DEF IInv, Connection, Progress, wire, slave
<1>6. Transactions'
  BY <1>1, <1>4, SuccessesStay DEF IInv, Transactions, Finished, slave
<1>7. Tries' /\ Late' /\ EndsOnLateReply'
  BY <1>1, <1>4 DEF IInv, Tries, Late, EndsOnLateReply, Progress, slave
<1> QED  BY <1>3, <1>4, <1>5, <1>6, <1>7 DEF IInv

LEMMA SendKeeps == ASSUME IInv, Send PROVE IInv'
<1>1. /\ pc = "send" /\ pc' = "recv" /\ call \in 1..MaxAttempts + 2 /\ call \in Calls
      /\ UNCHANGED <<op, call, result, connection_id, call_func, working, replies, slave>>
  BY CallRange DEF IInv, Send, Progress
<1>2. Sent \subseteq Sent' /\ Frames \subseteq Frames'
  BY <1>1, MessagesStay, FramesStay DEF IInv
<1>3. call \notin Pending
  BY <1>1 DEF IInv, Connection
<1>4. CASE socket = "open" /\ requests' = Append(requests, Message) /\ UNCHANGED socket
  <2>1. /\ Pending' = Pending \cup {call} /\ Answers' = Answers
        /\ AnswerCalls' = AnswerCalls /\ Queue' /\ requests' \in Seq(Sent)
    BY <1>1, <1>2, <1>3, <1>4, WireSends DEF IInv
  <2>2. Contents'
    BY <1>1, <1>2, <2>1, SequencesGrow DEF IInv, Contents
  <2>3. Connection' /\ Progress'
    BY <1>1, <1>4 DEF IInv, Connection, Progress, slave
  <2>4. Transactions'
    BY <1>1, <2>1, SuccessesStay DEF IInv, Transactions, Finished, slave
  <2>5. Tries'
    <3>1. CASE call = 1
      BY <1>1, <2>1, <3>1 DEF IInv, Tries, slave
    <3>2. CASE call # 1
      BY <1>1, <1>4, <2>1, <3>2 DEF IInv, Tries, slave
    <3> QED  BY <3>1, <3>2
  <2>6. Late'
    <3>1. \A n \in {1, 2} : /\ result[n] \in Answered => n < call
                            /\ n = call => result[n] = "none"
      BY <1>1, CallRange DEF IInv, Progress, Answered
    <3>2. ASSUME NEW n \in {1, 2}, result[n] \in Answered, NEW m \in Pending \cup {call}
          PROVE  n < m
      <4>1. CASE m = call
        BY <3>1, <3>2, <4>1
      <4>2. CASE m \in Pending
        BY <3>2, <4>2 DEF IInv, Late
      <4> QED  BY <4>1, <4>2
    <3>3. ASSUME NEW n \in {1, 2}, n \in Pending \cup {call}
          PROVE  result[n] \in {"none", "timeout"} \/ socket \in {"reset", "closed"}
      <4>1. CASE n = call
        BY <3>1, <4>1
      <4>2. CASE n \in Pending
        BY <1>1, <4>2 DEF IInv, Late
      <4> QED  BY <3>3, <4>1, <4>2
    <3> QED  BY <1>1, <1>4, <2>1, <3>2, <3>3 DEF Late
  <2>7. EndsOnLateReply'
    BY <1>1 DEF EndsOnLateReply
  <2> QED  BY <2>1, <2>2, <2>3, <2>4, <2>5, <2>6, <2>7 DEF IInv
<1>5. CASE socket = "eof" /\ socket' \in {"eof", "reset"} /\ UNCHANGED requests
  <2>1. /\ Pending' = Pending /\ Answers' = Answers /\ AnswerCalls' = AnswerCalls
        /\ Queue' /\ UNCHANGED wire
    BY <1>1, <1>5, WireStays DEF IInv, wire
  <2>2. Contents'
    BY <1>2, <2>1, ContentsStay DEF IInv
  <2>3. Connection' /\ Progress'
    BY <1>1, <1>5 DEF IInv, Connection, Progress, slave
  <2>4. Transactions'
    BY <1>1, <2>1, SuccessesStay DEF IInv, Transactions, Finished, slave
  <2>5. Tries'
    <3>1. CASE call = 1
      <4>1. Pending = {}
        BY <1>3, <3>1, PendingCalls DEF IInv
      <4>2. CallsOf(replies) = {}
        BY <4>1 DEF Pending, AnswerCalls
      <4>3. replies' = <<>>
        BY <1>1, <4>2, PendingCalls DEF IInv
      <4> QED  BY <1>1, <1>5, <2>1, <3>1, <4>3 DEF IInv, Tries, slave
    <3>2. CASE call # 1
      BY <1>1, <1>5, <2>1, <3>2 DEF IInv, Tries, slave
    <3> QED  BY <3>1, <3>2
  <2>6. Late'
    BY <1>1, <1>5, <2>1 DEF IInv, Late
  <2>7. EndsOnLateReply'
    BY <1>1 DEF EndsOnLateReply
  <2> QED  BY <2>1, <2>2, <2>3, <2>4, <2>5, <2>6, <2>7 DEF IInv
<1> QED  BY <1>4, <1>5 DEF Send

\* A call that gets no answer.
LEMMA GiveUpKeeps ==
    ASSUME IInv, SendFails \/ RecvTimeout \/ RecvBroken
    PROVE  IInv'
<1>1. /\ pc \in {"send", "recv", "rest"} /\ pc' = "idle" /\ call \in 1..MaxAttempts + 2 /\ call \in Calls
      /\ UNCHANGED <<op, call, connection_id, call_func, wire, slave>>
  BY CallRange DEF IInv, Progress, SendFails, RecvTimeout, RecvBroken, Promise
<1>2. PICK x \in {"timeout", "broken"} : result' = [result EXCEPT ![call] = x]
  BY DEF SendFails, RecvTimeout, RecvBroken, Promise
<1>3. /\ result[call] = "none" /\ result'[call] = x /\ result' \in [Calls -> Results]
      /\ \A n \in Calls : n # call => result'[n] = result[n]
  BY <1>1, <1>2 DEF IInv, Progress, Results
<1>4. /\ Pending' = Pending /\ Answers' = Answers /\ AnswerCalls' = AnswerCalls
      /\ Queue' /\ replies' = replies
  BY <1>1, WireStays DEF IInv, wire
<1>5. Contents'
  <2>1. call > 1 => result'[1] = result[1]
    BY <1>1, <1>3, CallRange DEF IInv
  <2>2. Sent \subseteq Sent' /\ Frames \subseteq Frames'
    BY <1>1, <2>1, MessagesStay, FramesStay DEF IInv
  <2> QED  BY <1>1, <2>2, ContentsStay DEF IInv
<1>6. /\ socket' \in {"open", "eof", "reset", "closed"}
      /\ socket # "open" => socket' # "open"
      /\ socket \in {"reset", "closed"} => socket' \in {"reset", "closed"}
  BY DEF IInv, Progress, SendFails, RecvTimeout, RecvBroken
<1>7. Connection'
  BY <1>1, <1>6 DEF IInv, Connection, SendFails, RecvTimeout, RecvBroken, wire
<1>8. Progress'
  BY <1>1, <1>3, <1>6 DEF IInv, Progress, slave, Ended
<1>9. Transactions'
  BY <1>1, <1>3, <1>4, SuccessesStay, CallRange DEF IInv, Transactions, Finished, slave
<1>10. Tries'
  <2>1. CASE call = 1
    <3>1. pc # "rest"
      BY <2>1 DEF IInv, Late
    <3>2. op # "Get" => 1 \in Pending \/ (socket' # "open" /\ replies = <<>>)
      <4>1. CASE RecvTimeout
        BY <1>1, <2>1, <3>1, <4>1 DEF IInv, Tries, RecvTimeout, Progress, Answered
      <4>2. CASE RecvBroken
        BY <1>1, <1>3, <1>6, <2>1, <3>1, <4>2 DEF IInv, Tries, RecvBroken, Progress, Answered
      <4>3. CASE SendFails
        <5>1. Pending = {}
          BY <2>1, <4>3, PendingCalls DEF IInv, Connection, SendFails
        <5>2. CallsOf(replies) = {}
          BY <5>1 DEF Pending, AnswerCalls
        <5> QED  BY <4>3, <5>2, PendingCalls DEF IInv, SendFails
      <4> QED  BY <4>1, <4>2, <4>3
    <3>3. 2 \notin AnswerCalls
      BY <2>1, PendingCalls DEF IInv
    <3>4. /\ call' = 1 /\ pc' = "idle" /\ op' = op
          /\ result'[2] \notin Answered
      BY <1>1, <1>3, <2>1, CallRange DEF IInv, Progress, Answered
    <3> QED  BY <1>1, <1>4, <2>1, <3>2, <3>3, <3>4 DEF Tries
  <2>2. CASE call # 1
    <3>1. /\ result'[1] = result[1] /\ call' # 1 /\ pc' = "idle" /\ tx' = tx /\ written' = written
          /\ result'[2] \in Answered => result[2] \in Answered
      BY <1>1, <1>3, <2>2, CallRange DEF IInv, slave, Answered
    <3> QED  BY <1>1, <1>4, <3>1 DEF IInv, Tries
  <2> QED  BY <2>1, <2>2
<1>11. Late'
  <2>1. ASSUME NEW n \in {1, 2}, result'[n] \in Answered, NEW m \in Pending
        PROVE  n < m
    <3>1. n \in Calls /\ result[n] \in Answered
      BY <1>1, <1>3, <2>1, CallRange DEF IInv, Answered
    <3> QED  BY <3>1 DEF IInv, Late
  <2>2. ASSUME NEW n \in {1, 2}, n \in Pending
        PROVE  result'[n] \in {"none", "timeout"} \/ socket' \in {"reset", "closed"}
    <3>1. n \in Calls /\ pc # "terminated"
      BY <1>1, CallRange DEF IInv
    <3>2. CASE n # call
      BY <1>3, <1>6, <2>2, <3>1, <3>2 DEF IInv, Late
    <3>3. CASE n = call /\ x = "timeout"
      BY <1>3, <3>3
    <3>4. CASE n = call /\ x = "broken"
      <4>1. SendFails \/ RecvBroken
        BY <1>1, <1>2, <1>3, <3>4 DEF SendFails, RecvTimeout, RecvBroken, Promise
      <4>2. socket = "eof" /\ replies = <<>> => Pending = {}
        BY NoItems DEF IInv, Connection, Pending, AnswerCalls
      <4> QED  BY <1>6, <2>2, <4>1, <4>2 DEF SendFails, RecvBroken
    <3> QED  BY <3>2, <3>3, <3>4
  <2> QED  BY <1>1, <1>4, <2>1, <2>2 DEF Late
<1>12. EndsOnLateReply'
  BY <1>1 DEF EndsOnLateReply
<1> QED  BY <1>4, <1>5, <1>7, <1>8, <1>9, <1>10, <1>11, <1>12 DEF IInv

\* The reply to a Try or a write is taken for its own; any Finish takes the reply to
\* another.  What the slave's handler said is what the master makes of it.
LEMMA OwnReply ==
    ASSUME IInv, pc = "recv", Frame \in Frames, IsOwn(Frame), call \in 1..MaxAttempts + 2
    PROVE  /\ HasSuccess(Method(call), Frame.body)
           /\ \E n \in 1..call, ok \in BOOLEAN :
                 /\ Frame = FrameOf(n, "reply", ok) /\ Frame.call = n
                 /\ call \in {1, 2} => n = call
                 /\ call > 2 => n > 2
                 /\ Verdict(Method(call), Decoded) = ok
                 /\ Method(call) \in {"Set", "Del"} =>
                       Decoded.connection_id = IF ok THEN 1 ELSE 0
<1>1. PICK n \in 1..call, type \in {"reply", "exception"}, ok \in BOOLEAN :
        Frame = FrameOf(n, type, ok)
  BY DEF Frames
<1>2. /\ Frame.call = n /\ Frame.type = type /\ Frame.name = Method(n)
      /\ type = "reply" => Frame.body = Result(Method(n), Answer(Method(n), ok))
  BY <1>1 DEF FrameOf
<1>3. type = "reply" /\ Method(n) = Method(call)
  BY <1>2 DEF IsOwn
<1>4. /\ Method(call) \in Methods
      /\ call \in {1, 2} => n = call
      /\ call > 2 => n > 2
  <2>1. n \in Calls /\ call \in Calls /\ (op = "Get" => n = 1 /\ call = 1)
    BY CallRange DEF IInv
  <2>2. op # "Get" => /\ n = 1 <=> call = 1
                      /\ n = 2 <=> call = 2
    BY <1>3, <2>1, MethodOf DEF IInv
  <2> QED  BY <2>1, <2>2, MethodOf DEF IInv
<1> DEFINE a == Answer(Method(call), ok)
<1>5. HasSuccess(Method(call), Frame.body) /\ Decoded = a
  <2>1. a = [name \in Names(SignatureOf(Method(call)).response) |-> a[name]]
    BY <1>4, AnswerForm
  <2> HIDE DEF a
  <2>2. Success(Method(call), Result(Method(call), a)) = a /\ HasSuccess(Method(call), Result(Method(call), a))
    BY <1>4, <2>1, ReplyCarries
  <2> QED  BY <1>2, <1>3, <2>2 DEF Decoded, a
<1> QED  BY <1>1, <1>2, <1>3, <1>4, <1>5, AnswerVerdict

LEMMA RecvReplyKeeps == ASSUME IInv, RecvReply PROVE IInv'
<1>1. /\ pc = "recv" /\ call \in 1..MaxAttempts + 2 /\ call \in Calls /\ replies # <<>>
      /\ UNCHANGED <<op, call, call_func, socket, requests, working, slave>>
      /\ ReadFrame /\ IsOwn(Frame)
  BY CallRange DEF IInv, Progress, RecvReply, Arrived
<1>2. /\ Frame \in Frames /\ Frame \in Answers /\ Frame.call \in AnswerCalls
      /\ Answers' \subseteq Answers /\ AnswerCalls' \subseteq AnswerCalls
      /\ Pending' \subseteq Pending /\ Pending = Pending' \cup {Frame.call}
      /\ \A n \in Pending' : Frame.call < n
      /\ Queue' /\ replies' \in Seq(Frames)
  BY <1>1, WireReads DEF IInv
<1>3. PICK n \in 1..call, ok \in BOOLEAN :
        /\ Frame = FrameOf(n, "reply", ok) /\ Frame.call = n
        /\ call \in {1, 2} => n = call
        /\ call > 2 => n > 2
        /\ Verdict(Method(call), Decoded) = ok
        /\ Method(call) \in {"Set", "Del"} => Decoded.connection_id = IF ok THEN 1 ELSE 0
  BY <1>1, <1>2, OwnReply
<1>4. HasSuccess(Method(call), Frame.body)
  BY <1>1, <1>2, OwnReply
<1> DEFINE x == IF ok THEN "yes" ELSE "no"
<1>5. pc' = "idle" /\ result' = [result EXCEPT ![call] = x]
  BY <1>3, <1>4 DEF RecvReply, Promise
<1>6. /\ result[call] = "none" /\ result'[call] = x /\ x \in Answered
      /\ result' \in [Calls -> Results]
      /\ \A m \in Calls : m # call => result'[m] = result[m]
  BY <1>1, <1>5 DEF IInv, Progress, Results, Answered
<1>7. /\ op # "Get" /\ call = 2 => connection_id' = IF ok THEN 1 ELSE 0
      /\ op = "Get" \/ call # 2 => connection_id' = connection_id
  <2>1. /\ op = "Get" => call = 1 /\ Method(call) = "Get"
        /\ op # "Get" => (call = 2 <=> Method(call) \in {"Set", "Del"})
    BY <1>1, MethodOf, CallRange DEF IInv
  <2> QED  BY <1>3, <2>1 DEF RecvReply
<1>8. Contents'
  <2>1. call > 1 => result'[1] = result[1]
    BY <1>1, <1>6, CallRange DEF IInv
  <2>2. call > 2 => connection_id' = connection_id
    BY <1>7
  <2>3. Sent \subseteq Sent' /\ Frames \subseteq Frames'
    BY <1>1, <2>1, <2>2, MessagesStay, FramesStay DEF IInv
  <2> QED  BY <1>1, <1>2, <2>3, SequencesGrow DEF IInv, Contents
<1>9. Connection'
  BY <1>1, <1>2, <1>5 DEF IInv, Connection
<1>10. Progress'
  BY <1>1, <1>5, <1>6, <1>7 DEF IInv, Progress, slave, Ended
<1>11. Successes' \subseteq Successes /\ (ok => n \in Successes)
  <2>1. Successes' \subseteq Successes
    BY <1>1, <1>2, SuccessesStay
  <2>2. ASSUME ok PROVE FrameOf(n, "reply", TRUE) \in Answers
    <3>1. ok = TRUE
      BY <2>2
    <3> QED  BY <1>2, <1>3, <3>1, Zenon
  <2>3. n \in Calls
    BY <1>1, <1>3, CallRange DEF IInv
  <2> QED  BY <2>1, <2>2, <2>3 DEF Successes
<1>12. call \in {1, 2} => Pending' = {} /\ AnswerCalls' = {}
  BY <1>2, <1>3, PendingCalls DEF IInv, Pending
<1>13. Transactions'
  <2> SUFFICES ASSUME op # "Get" PROVE Transactions'
    BY <1>1 DEF Transactions
  <2>1. CASE call = 1
    <3>1. result'[2] = result[2] /\ \A m \in 3..MaxAttempts + 2 : result'[m] = result[m]
      BY <1>6, <2>1, CallRange DEF IInv
    <3> QED  BY <1>1, <1>7, <1>11, <2>1, <3>1 DEF IInv, Transactions, Finished, slave
  <2>2. CASE call = 2
    <3>1. \A m \in 3..MaxAttempts + 2 : result'[m] = "none" /\ m \notin Successes
      BY <1>1, <1>6, <2>2, PendingCalls, SuccessesStay, CallRange DEF IInv, Progress
    <3>2. connection_id' = 1 <=> result'[2] = "yes"
      BY <1>6, <1>7, <2>2
    <3>3. connection_id' = 1 => tx # "none"
      BY <1>3, <1>7, <1>11, <2>2 DEF IInv, Transactions
    <3> QED  BY <1>1, <1>11, <3>1, <3>2, <3>3 DEF IInv, Transactions, slave
  <2>3. CASE call > 2
    <3>1. result'[2] = result[2] /\ connection_id' = connection_id
      BY <1>6, <1>7, <2>3, CallRange DEF IInv
    <3>2. n \in 3..MaxAttempts + 2
      BY <1>1, <1>3, <2>3, CallRange DEF IInv
    <3>3. \A m \in 3..MaxAttempts + 2 : result'[m] = "yes" =>
             m \in Successes \/ result[m] = "yes" \/ n \in Successes
      BY <1>6, <1>11, <2>3, CallRange DEF IInv
    <3> QED  BY <1>1, <1>11, <3>1, <3>2, <3>3 DEF IInv, Transactions, Finished, slave
  <2> QED  BY <1>1, <2>1, <2>2, <2>3
<1>14. Tries'
  <2> SUFFICES ASSUME op # "Get" PROVE Tries'
    BY <1>1 DEF Tries
  <2>1. CASE call = 1
    <3>1. result'[1] \in Answered /\ result'[2] \notin Answered
      BY <1>6, <2>1, CallRange DEF IInv, Progress, Answered
    <3> QED  BY <1>1, <1>12, <2>1, <3>1 DEF Tries
  <2>2. CASE call = 2
    <3>1. result[1] \in Answered
      BY <1>1, <1>2, <1>3, <2>2 DEF IInv, Tries
    <3>2. op = "Set" => written = set_func(result[1] = "yes")
      BY <1>2, <1>3, <2>2 DEF IInv, Tries
    <3>3. result'[1] = result[1]
      BY <1>6, <2>2, CallRange DEF IInv
    <3> QED  BY <1>1, <1>5, <2>2, <3>1, <3>2, <3>3 DEF Tries, slave
  <2>3. CASE call > 2
    <3>1. result'[1] = result[1] /\ result'[2] = result[2]
      BY <1>6, <2>3, CallRange DEF IInv
    <3> QED  BY <1>1, <1>2, <2>3, <3>1 DEF IInv, Tries, slave
  <2> QED  BY <1>1, <2>1, <2>2, <2>3
<1>15. Late'
  <2>1. ASSUME NEW k \in {1, 2}, result'[k] \in Answered, NEW m \in Pending'
        PROVE  k < m
    <3>1. call > 2 /\ k \in Calls /\ k # call
      BY <1>1, <1>12, <2>1, CallRange DEF IInv
    <3>2. result[k] \in Answered /\ m \in Pending
      BY <1>2, <1>6, <2>1, <3>1
    <3> QED  BY <3>2 DEF IInv, Late
  <2>2. ASSUME NEW k \in {1, 2}, k \in Pending'
        PROVE  result'[k] \in {"none", "timeout"} \/ socket \in {"reset", "closed"}
    <3>1. call > 2 /\ k \in Calls /\ k # call
      BY <1>1, <1>12, <2>2, CallRange DEF IInv
    <3>2. result'[k] = result[k] /\ k \in Pending
      BY <1>2, <1>6, <2>2, <3>1
    <3> QED  BY <1>1, <3>2 DEF IInv, Late
  <2> QED  BY <1>1, <1>5, <2>1, <2>2 DEF Late
<1>16. EndsOnLateReply'
  BY <1>5 DEF EndsOnLateReply
<1> QED  BY <1>2, <1>8, <1>9, <1>10, <1>13, <1>14, <1>15, <1>16 DEF IInv

\* The process ends.
LEMMA TerminateKeeps == ASSUME IInv, RecvException \/ RecvRest PROVE IInv'
<1>1. /\ pc \in {"recv", "rest"} /\ pc' = "terminated" /\ call \in 1..MaxAttempts + 2 /\ call \in Calls
      /\ replies # <<>> /\ ReadFrame
      /\ UNCHANGED <<op, call, connection_id, call_func, socket, requests, working, slave>>
  BY CallRange DEF IInv, Progress, RecvException, RecvRest, Arrived, Terminate
<1>2. PICK x \in {"none", "exception"} : result' = [result EXCEPT ![call] = x]
  BY DEF RecvException, RecvRest, Terminate
<1>3. /\ result[call] = "none" /\ result'[call] = x /\ x \notin Answered
      /\ result' \in [Calls -> Results]
      /\ \A m \in Calls : m # call => result'[m] = result[m]
  BY <1>1, <1>2 DEF IInv, Progress, Results, Answered
<1>4. /\ Answers' \subseteq Answers /\ AnswerCalls' \subseteq AnswerCalls
      /\ Pending' \subseteq Pending /\ Queue' /\ replies' \in Seq(Frames)
  BY <1>1, WireReads DEF IInv
<1>5. Contents'
  <2>1. call > 1 => result'[1] = result[1]
    BY <1>1, <1>3, CallRange DEF IInv
  <2>2. Sent \subseteq Sent' /\ Frames \subseteq Frames'
    BY <1>1, <2>1, MessagesStay, FramesStay DEF IInv
  <2> QED  BY <1>1, <1>4, <2>2, SequencesGrow DEF IInv, Contents
<1>6. Connection'
  BY <1>1, <1>4 DEF IInv, Connection
<1>7. Progress'
  BY <1>1, <1>3 DEF IInv, Progress, slave
<1>8. Transactions'
  <2>1. \A m \in 2..MaxAttempts + 2 : result'[m] = "yes" <=> result[m] = "yes"
    BY <1>1, <1>3, CallRange DEF IInv, Answered
  <2>2. Successes' \subseteq Successes
    BY <1>1, <1>4, SuccessesStay
  <2> QED  BY <1>1, <2>1, <2>2, CallRange DEF IInv, Transactions, Finished, slave
<1>9. Tries'
  <2>1. /\ result'[2] \in Answered => result[2] \in Answered /\ call # 2
        /\ call # 1 => result'[1] = result[1]
        /\ call = 1 => result'[2] \notin Answered /\ result[1] = "none"
    BY <1>1, <1>3, CallRange DEF IInv, Progress, Answered
  <2>2. call = 1 => 2 \notin AnswerCalls
    BY PendingCalls DEF IInv
  <2> QED  BY <1>1, <1>4, <2>1, <2>2 DEF IInv, Tries, slave
<1>10. Late'
  <2>1. ASSUME NEW k \in {1, 2}, result'[k] \in Answered, NEW m \in Pending'
        PROVE  k < m
    <3>1. k \in Calls /\ result[k] \in Answered
      BY <1>1, <1>3, <2>1, CallRange DEF IInv
    <3> QED  BY <1>4, <3>1 DEF IInv, Late
  <2> QED  BY <1>1, <2>1 DEF Late
<1>11. EndsOnLateReply'
  <2>1. CASE RecvException
    <3>1. result'[call] = "exception"
      BY <1>1, <2>1 DEF IInv, Progress, RecvException, Terminate
    <3> QED  BY <1>1, <3>1 DEF EndsOnLateReply
  <2>2. CASE RecvRest
    <3>1. PICK n \in {1, 2} : n < call /\ result[n] = "timeout"
      BY <2>2 DEF IInv, Late, RecvRest
    <3>2. result'[n] = "timeout"
      BY <1>3, <3>1, CallRange DEF IInv
    <3> QED  BY <1>1, <3>1, <3>2 DEF EndsOnLateReply
  <2> QED  BY <2>1, <2>2
<1> QED  BY <1>4, <1>5, <1>6, <1>7, <1>8, <1>9, <1>10, <1>11 DEF IInv

\* A frame that is not the call's own is the reply to a call that timed out.
LEMMA RecvOtherKeeps == ASSUME IInv, RecvOther PROVE IInv'
<1>1. /\ pc = "recv" /\ pc' = "rest" /\ call \in 1..MaxAttempts + 2 /\ call \in Calls
      /\ replies # <<>> /\ ReadFrame /\ socket # "reset"
      /\ Frame.type = "reply" /\ ~IsOwn(Frame)
      /\ UNCHANGED <<op, call, result, connection_id, call_func, socket, requests, working,
                     slave>>
  BY CallRange DEF IInv, Progress, RecvOther, Arrived
<1>2. /\ Frame \in Frames /\ Frame.call \in Pending
      /\ Answers' \subseteq Answers /\ AnswerCalls' \subseteq AnswerCalls
      /\ Pending' \subseteq Pending /\ Queue' /\ replies' \in Seq(Frames)
  BY <1>1, WireReads, PendingCalls DEF IInv
<1>3. Sent \subseteq Sent' /\ Frames \subseteq Frames'
  BY <1>1, MessagesStay, FramesStay DEF IInv
<1>4. Contents'
  BY <1>1, <1>2, <1>3, SequencesGrow DEF IInv, Contents
<1>5. Connection' /\ Progress'
  BY <1>1, <1>2 DEF IInv, Connection, Progress, slave
<1>6. Transactions' /\ Tries' /\ EndsOnLateReply'
  BY <1>1, <1>2, SuccessesStay
     DEF IInv, Transactions, Finished, Tries, EndsOnLateReply, slave
<1>7. \E n \in {1, 2} : n < call /\ result[n] = "timeout"
  <2>1. PICK n \in 1..call : Frame.call = n /\ Frame.name = Method(n)
    BY <1>2 DEF Frames, FrameOf
  <2>2. Method(n) # Method(call)
    BY <1>1, <2>1 DEF IsOwn
  <2>3. n \in {1, 2} /\ n < call
    <3>1. n \in Calls /\ call \in Calls /\ n <= call /\ (op = "Get" => n = call)
      BY <1>1, <2>1, CallRange DEF IInv
    <3>2. n # call
      BY <2>2
    <3>3. n > 2 => Method(n) = "Finish" /\ Method(call) = "Finish"
      BY <3>1, <3>2, MethodOf, CallRange DEF IInv
    <3> QED  BY <2>2, <3>1, <3>2, <3>3, CallRange DEF IInv
  <2>4. result[n] \in {"none", "timeout"}
    BY <1>1, <1>2, <2>1, <2>3 DEF IInv, Late, Connection, Progress
  <2>5. result[n] # "none"
    BY <1>1, <2>1, <2>3, CallRange DEF IInv, Progress, Ended, Answered
  <2> QED  BY <2>3, <2>4, <2>5
<1>8. Late'
  BY <1>1, <1>2, <1>7 DEF IInv, Late
<1> QED  BY <1>2, <1>4, <1>5, <1>6, <1>8 DEF IInv

------------------------------------------------------------------------------
(* The steps of the slave.                                                  *)

\* The request, as the slave reads it.
LEMMA RequestRead ==
    ASSUME Progress, NEW n \in Calls, op = "Get" => n = 1
    PROVE  LET request == Argument(Method(n), MessageOf(n).body)
           IN  /\ Method(n) = "Finish" => /\ request.connection_id = connection_id
                                          /\ request.call_func = call_func
               /\ Method(n) = "Set" => request.func_call = set_func(result[1] = "yes")
<1> DEFINE I == Initial(SignatureOf(Method(n)).request)
           N == Names(SignatureOf(Method(n)).request)
<1>1. Method(n) \in Methods
  BY MethodOf
<1>2. I = [name \in N |-> I[name]]
  BY DEF Initial, Names
<1> HIDE DEF I
<1>3. Request(n) = [name \in N |-> Request(n)[name]]
  BY <1>1, <1>2 DEF Request, I, Methods
<1>4. Argument(Method(n), MessageOf(n).body) = Request(n)
  BY <1>1, <1>3, CallCarries DEF MessageOf
<1>5. Method(n) = "Finish" => "connection_id" \in N /\ "call_func" \in N
  BY DEF SignatureOf, Signature, Finish, FinishRequest, Names, Field
<1>6. Method(n) = "Set" => "func_call" \in N
  BY DEF SignatureOf, Signature, Set, SetRequest, Names, Field
<1>7. Method(n) = "Finish" => /\ Request(n).connection_id = connection_id
                              /\ Request(n).call_func = call_func
  BY <1>2, <1>5 DEF Request, I
<1>8. Method(n) = "Set" => Request(n).func_call = set_func(result[1] = "yes")
  BY <1>2, <1>6 DEF Request, I
<1> QED  BY <1>4, <1>7, <1>8

LEMMA EffectOnTransaction ==
    ASSUME Progress, NEW m \in Methods, NEW request, NEW ok \in BOOLEAN,
           Effect(m, request, ok), call_func' = call_func,
           m = "Finish" => /\ request.connection_id = connection_id
                           /\ request.call_func = call_func /\ call_func # "none"
    PROVE  /\ tx' \in {"none", "open", "committed", "rolledback", "lost"}
           /\ tx # "none" => tx' # "none"
           /\ m \in {"Set", "Del"} /\ ok => tx' = "open"
           /\ m = "Finish" /\ ok /\ connection_id = 1 => Finished'
           /\ m = "Finish" /\ Finished => Finished'
<1>1. CASE m \in {"Get", "Try"}
  BY <1>1 DEF Effect, Progress
<1>2. CASE m \in {"Set", "Del"}
  BY <1>2 DEF Effect, Progress
<1>3. CASE m = "Finish"
  <2>1. IF ~ok \/ connection_id = 0 THEN tx' = tx
        ELSE \/ tx \in {"open", Outcome(call_func)} /\ tx' = Outcome(call_func)
             \/ tx = "lost" /\ Outcome(call_func) = "rolledback" /\ tx' = tx
    BY <1>3 DEF Effect
  <2>2. Outcome(call_func) \in {"committed", "rolledback"}
    BY DEF Outcome
  <2>3. Outcome(call_func) = "rolledback" => call_func = "rollback"
    BY <1>3 DEF Outcome, Progress
  <2>4. Finished' <=> tx' = Outcome(call_func) \/ (call_func = "rollback" /\ tx' = "lost")
    BY DEF Finished, Outcome
  <2>5. tx' \in {tx, Outcome(call_func)} /\ (Finished => Finished')
    BY <2>1, <2>4 DEF Finished
  <2>6. ok /\ connection_id = 1 => Finished'
    BY <2>1, <2>3, <2>4
  <2> QED  BY <1>3, <2>2, <2>5, <2>6 DEF Progress
<1> QED  BY <1>1, <1>2, <1>3 DEF Methods

LEMMA SuccessesDiffer ==
    ASSUME NEW k, NEW n, Method(n) \in Methods,
           NEW type \in {"reply", "exception"}, NEW ok \in BOOLEAN,
           FrameOf(k, "reply", TRUE) = FrameOf(n, type, ok)
    PROVE  k = n /\ ok
<1>1. k = n /\ type = "reply"
  <2>1. /\ FrameOf(k, "reply", TRUE).call = k /\ FrameOf(k, "reply", TRUE).type = "reply"
        /\ FrameOf(n, type, ok).call = n /\ FrameOf(n, type, ok).type = type
    BY DEF FrameOf
  <2> QED  BY <2>1
<1> DEFINE m == Method(n)
<1>2. Result(m, Answer(m, TRUE)) = Result(m, Answer(m, ok))
  <2>1. FrameOf(k, "reply", TRUE).body = FrameOf(n, type, ok).body
    OBVIOUS
  <2> QED  BY <1>1, <2>1 DEF FrameOf
<1> HIDE DEF m
<1>3. ASSUME NEW b \in BOOLEAN PROVE Success(m, Result(m, Answer(m, b))) = Answer(m, b)
  BY AnswerForm, ReplyCarries DEF m
<1>4. Verdict(m, Answer(m, TRUE)) = Verdict(m, Answer(m, ok))
  BY <1>2, <1>3
<1>5. Verdict(m, Answer(m, TRUE)) = TRUE /\ Verdict(m, Answer(m, ok)) = ok
  BY AnswerVerdict DEF m
<1> QED  BY <1>1, <1>4, <1>5

LEMMA ExecuteKeeps == ASSUME IInv, Execute PROVE IInv'
<1> DEFINE h == Head(requests)
<1>1. /\ requests # <<>> /\ working = <<>> /\ requests' = Tail(requests)
      /\ UNCHANGED <<op, pc, call, result, connection_id, call_func, socket, replies>>
  BY DEF Execute
<1>2. PICK n \in 1..call : h = MessageOf(n)
  BY <1>1, HeadAndTail DEF IInv, Contents, Sent
<1>3. /\ n \in Calls /\ call \in 1..MaxAttempts + 2 /\ (op = "Get" => n = 1)
      /\ h.call = n /\ h.name = Method(n) /\ Method(n) \in Methods
  BY <1>2, MethodOf, CallRange DEF IInv, MessageOf
<1> DEFINE request == Argument(Method(n), h.body)
<1>4. PICK ok \in BOOLEAN, type \in {"reply", "exception"} :
        working' = <<FrameOf(n, type, ok)>> /\ Effect(Method(n), request, ok)
  BY <1>3 DEF Execute, FrameOf
<1>5. written' = IF Method(n) = "Set" THEN request.func_call ELSE written
  BY <1>3 DEF Execute
<1>6. /\ Method(n) = "Finish" => /\ request.connection_id = connection_id
                                 /\ request.call_func = call_func /\ call_func # "none"
      /\ Method(n) = "Set" => request.func_call = set_func(result[1] = "yes")
  <2>1. Method(n) = "Finish" => call > 2
    BY <1>3, MethodOf DEF IInv, Progress
  <2> QED  BY <1>2, <1>3, <2>1, RequestRead DEF IInv, Progress
<1> HIDE DEF request
<1> DEFINE g == FrameOf(n, type, ok)
<1>7. g \in Frames /\ g.call = n
  BY <1>2 DEF Frames, FrameOf
<1> HIDE DEF g
<1>8. /\ n \notin AnswerCalls /\ Pending' = Pending /\ n \in Pending
      /\ Answers' = Answers \cup {g} /\ AnswerCalls' = AnswerCalls \cup {n}
      /\ Queue' /\ requests' \in Seq(Sent)
  <2>1. working' = <<g>>
    BY <1>4 DEF g
  <2> QED  BY <1>1, <1>3, <1>7, <2>1, WireExecutes DEF IInv
<1> HIDE DEF h
<1>9. Sent \subseteq Sent' /\ Frames \subseteq Frames'
  BY <1>1, <1>3, MessagesStay, FramesStay DEF IInv
<1>10. Contents'
  <2>1. working' = <<g>> /\ g \in Frames'
    BY <1>4, <1>7, <1>9 DEF g
  <2> QED  BY <1>1, <1>8, <1>9, <2>1, SequencesGrow DEF IInv, Contents
<1>11. /\ tx' \in {"none", "open", "committed", "rolledback", "lost"}
       /\ tx # "none" => tx' # "none"
       /\ Method(n) \in {"Set", "Del"} /\ ok => tx' = "open"
       /\ Method(n) = "Finish" /\ ok /\ connection_id = 1 => Finished'
       /\ Method(n) = "Finish" /\ Finished => Finished'
  BY <1>1, <1>3, <1>4, <1>6, EffectOnTransaction DEF IInv
<1>12. written' \in {"none", "insert", "update"}
  BY <1>5, <1>6 DEF IInv, Progress, set_func
<1>13. Connection'
  <2>1. socket = "open"
    BY <1>1 DEF IInv, Connection
  <2> QED  BY <1>1, <1>8, <2>1 DEF IInv, Connection
<1>14. Progress'
  BY <1>1, <1>11, <1>12 DEF IInv, Progress
<1>15. ASSUME NEW k \in Successes' PROVE k \in Successes \/ (k = n /\ ok)
  <2>1. k \in Calls /\ FrameOf(k, "reply", TRUE) \in Answers \cup {g}
    <3>1. FrameOf(k, "reply", TRUE)' = FrameOf(k, "reply", TRUE)
      BY <1>1 DEF FrameOf, Method
    <3>2. k \in Calls /\ FrameOf(k, "reply", TRUE)' \in Answers'
      BY <1>15 DEF Successes
    <3> QED  BY <1>8, <3>1, <3>2
  <2>2. CASE FrameOf(k, "reply", TRUE) = g
    BY <1>3, <2>2, SuccessesDiffer DEF g
  <2>3. CASE FrameOf(k, "reply", TRUE) \in Answers
    BY <2>1, <2>3 DEF Successes
  <2> QED  BY <2>1, <2>2, <2>3
<1>16. Transactions'
  <2> SUFFICES ASSUME op # "Get" PROVE Transactions'
    BY <1>1 DEF Transactions
  <2>1. 2 \in Successes' => tx' # "none"
    <3>1. n = 2 => Method(n) \in {"Set", "Del"}
      BY <1>3, MethodOf DEF IInv
    <3> QED  BY <1>11, <1>15, <3>1 DEF IInv, Transactions
  <2>2. ASSUME connection_id = 1
        PROVE  /\ tx' # "none"
               /\ \A k \in 3..MaxAttempts + 2 :
                     k \in Successes' \/ result[k] = "yes" => Finished'
    <3>1. n > 2
      BY <1>3, <1>8, <2>2 DEF IInv, Transactions, Late, Answered
    <3>2. Method(n) = "Finish"
      BY <1>3, <3>1, MethodOf DEF IInv
    <3> QED  BY <1>11, <1>15, <2>2, <3>2 DEF IInv, Transactions
  <2> QED  BY <1>1, <2>1, <2>2 DEF IInv, Transactions
<1>17. Tries'
  <2> SUFFICES ASSUME op # "Get" PROVE Tries'
    BY <1>1 DEF Tries
  <2>1. ASSUME op = "Set", 2 \in AnswerCalls' \/ result[2] \in Answered
        PROVE  written' = set_func(result[1] = "yes")
    <3>1. CASE n = 2
      <4>1. Method(n) = "Set"
        BY <1>3, <2>1, <3>1, MethodOf DEF IInv
      <4> QED  BY <1>5, <1>6, <4>1
    <3>2. CASE n # 2
      <4>1. Method(n) # "Set"
        BY <1>3, <2>1, <3>2, MethodOf DEF IInv
      <4> QED  BY <1>5, <1>8, <2>1, <3>2, <4>1 DEF IInv, Tries
    <3> QED  BY <3>1, <3>2
  <2> QED  BY <1>1, <1>8, <2>1 DEF IInv, Tries
<1>18. Late' /\ EndsOnLateReply'
  BY <1>1, <1>8 DEF IInv, Late, EndsOnLateReply
<1> QED  BY <1>8, <1>10, <1>13, <1>14, <1>16, <1>17, <1>18 DEF IInv

LEMMA ReplyKeeps == ASSUME IInv, Reply PROVE IInv'
<1>1. /\ working # <<>> /\ working' = <<>>
      /\ UNCHANGED <<op, pc, call, result, connection_id, call_func, socket, requests, slave>>
  BY DEF Reply
<1>2. /\ Pending' = Pending /\ Answers' = Answers /\ AnswerCalls' = AnswerCalls
      /\ Queue' /\ replies' \in Seq(Frames) /\ replies' # <<>>
  BY WireReplies DEF IInv
<1>3. socket = "open"
  BY <1>1 DEF IInv, Connection
<1>4. call \in 0..MaxAttempts + 2
  BY CallRange DEF IInv
<1>5. Sent \subseteq Sent' /\ Frames \subseteq Frames'
  BY <1>1, <1>4, MessagesStay, FramesStay DEF IInv
<1>6. Contents'
  BY <1>1, <1>2, <1>5, SequencesGrow DEF IInv, Contents
<1>7. Connection' /\ Progress'
  BY <1>1, <1>2, <1>3 DEF IInv, Connection, Progress, slave
<1>8. Transactions'
  BY <1>1, <1>2, SuccessesStay DEF IInv, Transactions, Finished, slave
<1>9. Tries' /\ Late' /\ EndsOnLateReply'
  BY <1>1, <1>2, <1>3 DEF IInv, Tries, Late, EndsOnLateReply, slave
<1> QED  BY <1>2, <1>6, <1>7, <1>8, <1>9 DEF IInv

LEMMA LoseKeeps == ASSUME IInv, Lose PROVE IInv'
<1>1. /\ tx = "open" /\ tx' = "lost"
      /\ UNCHANGED <<op, pc, call, result, connection_id, call_func, socket, wire, written>>
  BY DEF Lose
<1>2. /\ Pending' = Pending /\ Answers' = Answers /\ AnswerCalls' = AnswerCalls
      /\ Queue' /\ replies' = replies
  BY <1>1, WireStays DEF IInv, wire
<1>3. call \in 0..MaxAttempts + 2
  BY CallRange DEF IInv
<1>4. Sent \subseteq Sent' /\ Frames \subseteq Frames'
  BY <1>1, <1>3, MessagesStay, FramesStay DEF IInv
<1>5. Contents'
  BY <1>1, <1>4, ContentsStay DEF IInv
<1>6. Connection' /\ Progress'
  BY <1>1, <1>2 DEF IInv, Connection, Progress, wire
<1>7. Transactions'
  <2>1. ~Finished
    BY <1>1 DEF Finished, Outcome
  <2> QED  BY <1>1, <1>2, <2>1, SuccessesStay DEF IInv, Transactions
<1>8. Tries' /\ Late' /\ EndsOnLateReply'
  BY <1>1, <1>2 DEF IInv, Tries, Late, EndsOnLateReply
<1> QED  BY <1>2, <1>5, <1>6, <1>7, <1>8 DEF IInv

\* The end of the replies is lost with the calls; what the master may still read is a
\* beginning of them.
LEMMA CrashKeeps == ASSUME IInv, Crash PROVE IInv'
<1>1. /\ socket = "open" /\ socket' \in {"eof", "reset"}
      /\ requests' = <<>> /\ working' = <<>>
      /\ tx' = IF tx = "open" THEN "lost" ELSE tx
      /\ UNCHANGED <<op, pc, call, result, connection_id, call_func, replies, written>>
  BY DEF Crash
<1>2. /\ Pending' \subseteq Pending /\ Answers' \subseteq Answers
      /\ AnswerCalls' \subseteq AnswerCalls
      /\ \A n \in Pending : n \in Pending' \/ replies = <<>> \/ \E m \in Pending' : m < n
      /\ Queue'
  BY <1>1, WireCrashes DEF IInv
<1>3. call \in 0..MaxAttempts + 2
  BY CallRange DEF IInv
<1>4. Sent \subseteq Sent' /\ Frames \subseteq Frames'
  BY <1>1, <1>3, MessagesStay, FramesStay DEF IInv
<1>5. Contents'
  <2>1. requests' \in Seq(Sent')
    BY <1>1
  <2> QED  BY <1>1, <1>4, <2>1, SequencesGrow DEF IInv, Contents
<1>6. Connection' /\ Progress'
  BY <1>1, <1>2 DEF IInv, Connection, Progress
<1>7. Transactions'
  <2>1. Finished => tx # "open"
    BY DEF Finished, Outcome
  <2>2. Finished => Finished'
    BY <1>1, <2>1 DEF Finished, Outcome
  <2> QED  BY <1>1, <1>2, <2>2, SuccessesStay DEF IInv, Transactions
<1>8. Tries'
  <2>1. 1 \in Pending => 1 \in Pending' \/ replies = <<>>
    BY <1>2, PendingCalls DEF IInv
  <2> QED  BY <1>1, <1>2, <2>1 DEF IInv, Tries
<1>9. Late' /\ EndsOnLateReply'
  BY <1>1, <1>2 DEF IInv, Late, EndsOnLateReply
<1> QED  BY <1>2, <1>5, <1>6, <1>7, <1>8, <1>9 DEF IInv

------------------------------------------------------------------------------
(* The theorems.                                                            *)

LEMMA InitHolds == ASSUME Init PROVE IInv
<1> USE DEF Init
<1>1. /\ CallsOf(<<>>) = {} /\ Items(<<>>) = {} /\ Ascending(<<>>)
  BY NoItems
<1>2. Pending = {} /\ Answers = {} /\ AnswerCalls = {}
  BY <1>1 DEF Pending, Answers, AnswerCalls
<1>3. Successes = {}
  BY <1>2 DEF Successes
<1>4. Contents /\ Queue
  BY <1>1 DEF Contents, Queue, Before
<1>5. Connection /\ Progress
  BY SessionAssumption DEF Connection, Progress, Calls, Results
<1>6. result[1] = "none" /\ result[2] = "none"
  BY SessionAssumption DEF Calls
<1>7. Transactions /\ Tries /\ Late /\ EndsOnLateReply
  BY <1>2, <1>3, <1>6 DEF Transactions, Tries, Late, EndsOnLateReply, Answered
<1> QED  BY <1>4, <1>5, <1>7 DEF IInv

LEMMA StutterKeeps == ASSUME IInv, UNCHANGED vars PROVE IInv'
<1>1. UNCHANGED <<op, pc, call, result, connection_id, call_func, socket, wire, slave>>
  BY DEF vars
<1>2. /\ Pending' = Pending /\ Answers' = Answers /\ AnswerCalls' = AnswerCalls
      /\ Queue' /\ replies' = replies
  BY <1>1, WireStays DEF IInv, wire
<1>3. call \in 0..MaxAttempts + 2
  BY CallRange DEF IInv
<1>4. Sent \subseteq Sent' /\ Frames \subseteq Frames'
  BY <1>1, <1>3, MessagesStay, FramesStay DEF IInv
<1>5. Contents'
  BY <1>1, <1>4, ContentsStay DEF IInv
<1>6. Connection' /\ Progress'
  BY <1>1, <1>2 DEF IInv, Connection, Progress, wire, slave
<1>7. Transactions'
  BY <1>1, <1>2, SuccessesStay DEF IInv, Transactions, Finished, slave
<1>8. Tries' /\ Late' /\ EndsOnLateReply'
  BY <1>1, <1>2 DEF IInv, Tries, Late, EndsOnLateReply, slave
<1> QED  BY <1>2, <1>5, <1>6, <1>7, <1>8 DEF IInv

\* What lies on the connection, how far the master is and what the slave's transaction
\* went through fit together, from the first call to the last.
THEOREM Invariant == Spec => []IInv
<1>1. Init => IInv
  BY InitHolds
<1>2. IInv /\ [Next]_vars => IInv'
  <2> SUFFICES ASSUME IInv, [Next]_vars PROVE IInv'
    OBVIOUS
  <2>1. CASE FirstCall \/ WriteCall \/ Decide \/ RetryFinish
    BY <2>1, BeginKeeps
  <2>2. CASE Done
    BY <2>2, DoneKeeps
  <2>3. CASE Send
    BY <2>3, SendKeeps
  <2>4. CASE SendFails \/ RecvTimeout \/ RecvBroken
    BY <2>4, GiveUpKeeps
  <2>5. CASE RecvReply
    BY <2>5, RecvReplyKeeps
  <2>6. CASE RecvException \/ RecvRest
    BY <2>6, TerminateKeeps
  <2>7. CASE RecvOther
    BY <2>7, RecvOtherKeeps
  <2>8. CASE Execute
    BY <2>8, ExecuteKeeps
  <2>9. CASE Reply
    BY <2>9, ReplyKeeps
  <2>10. CASE Lose
    BY <2>10, LoseKeeps
  <2>11. CASE Crash
    BY <2>11, CrashKeeps
  <2>12. CASE UNCHANGED vars
    BY <2>12, StutterKeeps
  <2> QED  BY <2>1, <2>2, <2>3, <2>4, <2>5, <2>6, <2>7, <2>8, <2>9, <2>10, <2>11, <2>12
           DEF Next, MasterStep, CallStep, SlaveStep
<1> QED  BY <1>1, <1>2, PTL DEF Spec

\* What travels is a call of the session, its reply or its exception, and a slave works
\* on one call at a time.
THEOREM TypeCorrect == Spec => []TypeOK
<1>1. IInv => TypeOK
  <2> SUFFICES ASSUME IInv PROVE TypeOK
    OBVIOUS
  <2>1. ASSUME NEW n \in 1..call
        PROVE  n \in Calls /\ Method(n) \in Methods
    BY <2>1, CallRange, MethodOf DEF IInv
  <2>2. ASSUME NEW f \in Sent PROVE IsMessage(f)
    <3>1. PICK n \in 1..call : f = MessageOf(n)
      BY DEF Sent
    <3>2. f.call = n /\ f.name = Method(n) /\ Len(f.body) = 1
      BY <2>1, <3>1, BodyLength DEF MessageOf
    <3> QED  BY <2>1, <3>2 DEF IsMessage
  <2>3. ASSUME NEW f \in Frames PROVE IsMessage(f) /\ f.type \in {"reply", "exception"}
    <3>1. PICK n \in 1..call, type \in {"reply", "exception"}, ok \in BOOLEAN :
            f = FrameOf(n, type, ok)
      BY DEF Frames
    <3>2. f.call = n /\ f.name = Method(n) /\ f.type = type
      BY <3>1 DEF FrameOf
    <3>3. Len(f.body) <= 1
      <4>1. CASE type = "reply"
        <5>1. f.body = Result(Method(n), Answer(Method(n), ok))
          BY <3>1, <4>1 DEF FrameOf
        <5>2. Len(f.body) = 1
          BY <2>1, <5>1, BodyLength
        <5> QED  BY <5>2
      <4>2. CASE type = "exception"
        <5>1. f.body = <<>>
          BY <3>1, <4>2 DEF FrameOf
        <5>2. Len(<<>>) = 0
          OBVIOUS
        <5> QED  BY <5>1, <5>2
      <4> QED  BY <4>1, <4>2
    <3> QED  BY <2>1, <3>2, <3>3 DEF IsMessage
  <2>4. \A i \in DOMAIN requests : requests[i] \in Sent
    BY DEF IInv, Contents
  <2>5. \A i \in DOMAIN replies : replies[i] \in Frames
    BY DEF IInv, Contents
  <2>6. \A i \in DOMAIN working : working[i] \in Frames
    BY PendingCalls DEF IInv
  <2>7. Len(working) <= 1
    <3>1. ASSUME NEW f, working = <<f>> PROVE Len(working) <= 1
      BY <3>1
    <3>2. working = <<>> => Len(working) <= 1
      OBVIOUS
    <3> QED  BY <3>1, <3>2 DEF IInv, Contents
  <2> QED  BY <2>2, <2>3, <2>4, <2>5, <2>6, <2>7 DEF IInv, Progress, TypeOK
<1> QED  BY <1>1, Invariant, PTL

\* A write or a Finish that is answered "success" was done, however late the answer and
\* whatever the session lost on the way.
THEOREM SuccessesAreTrue == Spec => []SuccessIsTrue
<1>1. IInv => SuccessIsTrue
  BY DEF IInv, Transactions, Finished, SuccessIsTrue
<1> QED  BY <1>1, Invariant, PTL

\* A write that is answered was sent after its Try was answered, and does what the
\* answer to the Try called for.
THEOREM TriesComeFirst == Spec => []TriedFirst
<1>1. IInv => TriedFirst
  BY DEF IInv, Tries, TriedFirst, set_func
<1> QED  BY <1>1, Invariant, PTL

\* Only an exception of the slave, or the late reply to a Try or a write, ends the
\* process of the master.
THEOREM LateRepliesEnd == Spec => []EndsOnLateReply
<1>1. IInv => EndsOnLateReply
  BY DEF IInv
<1> QED  BY <1>1, Invariant, PTL

------------------------------------------------------------------------------
(* The session implements SlaveWrite.                                       *)

\* The write is executed once, and what is committed was answered for.
Once ==
    /\ call <= 2 => call_func = "none"
    /\ call_func = "commit" => result[2] = "yes"
    /\ \/ call < 2
       \/ call = 2 /\ pc = "send"
       \/ 2 \in CallsOf(requests)
       => tx = "none"

LEMMA RequestCalls == ASSUME Contents PROVE CallsOf(requests) \subseteq Pending \cap (1..call)
  BY PendingCalls DEF Pending

\* The calls of the master.
LEMMA MasterOnce == ASSUME IInv, Once, MasterStep PROVE Once'
<1>1. /\ tx' = tx /\ call \in 0..MaxAttempts + 2 /\ MaxAttempts \in Nat \ {0}
      /\ CallsOf(requests) \subseteq 1..call /\ 2 \in Calls
  BY CallRange, RequestCalls, SessionAssumption
     DEF IInv, MasterStep, CallStep, FirstCall, WriteCall, Decide, RetryFinish, Done, Send,
         SendFails, RecvReply, RecvException, RecvOther, RecvRest, RecvTimeout, RecvBroken, slave
<1>2. CASE FirstCall \/ WriteCall \/ Decide \/ RetryFinish
  <2>1. /\ call' = call + 1 /\ pc' = "send" /\ result' = result /\ requests' = requests
    BY <1>2 DEF FirstCall, WriteCall, Decide, RetryFinish, Begin, wire
  <2>2. call' <= 2 => call_func' = "none"
    BY <1>1, <1>2, <2>1 DEF Once, FirstCall, WriteCall, Decide, RetryFinish
  <2>3. call_func' = "commit" => result'[2] = "yes"
    BY <1>2, <2>1 DEF Once, FirstCall, WriteCall, Decide, RetryFinish
  <2>4. CallsOf(requests') = CallsOf(requests)
    BY <2>1
  <2>5. call < 2 => tx = "none"
    BY DEF Once
  <2> QED  BY <1>1, <2>1, <2>2, <2>3, <2>4, <2>5 DEF Once
<1>3. CASE Send
  <2>1. /\ pc = "send" /\ pc' = "recv" /\ UNCHANGED <<call, result, call_func>>
        /\ CallsOf(requests') \subseteq CallsOf(requests) \cup {call}
    <3>1. Message.call = call /\ Message \in Sent
      <4>1. call \in 1..call
        BY <1>1, <1>3 DEF Send, IInv, Progress
      <4> QED  BY <4>1 DEF Message, MessageOf, Sent
    <3>2. CASE requests' = Append(requests, Message)
      <4>1. CallsOf(requests') = CallsOf(requests) \cup {call}
        BY <3>1, <3>2, AppendItem DEF IInv, Contents
      <4> QED  BY <1>3, <4>1 DEF Send
    <3>3. CASE requests' = requests
      BY <1>3, <3>3 DEF Send
    <3> QED  BY <1>3, <3>2, <3>3 DEF Send
  <2> QED  BY <1>1, <2>1 DEF Once
<1>4. CASE Done \/ SendFails \/ RecvReply \/ RecvException \/ RecvOther \/ RecvRest
           \/ RecvTimeout \/ RecvBroken
  <2>1. /\ UNCHANGED <<call, call_func, requests>> /\ pc' # "send"
        /\ \/ result' = result /\ pc = "idle"
           \/ pc \in {"send", "recv", "rest"} /\ \E x : result' = [result EXCEPT ![call] = x]
           \/ result' = result /\ pc = "recv"
    BY <1>4 DEF Done, SendFails, RecvReply, RecvException, RecvOther, RecvRest, RecvTimeout,
                RecvBroken, Promise, Terminate, wire
  <2>2. result[2] = "yes" => result'[2] = "yes"
    BY <1>1, <2>1 DEF IInv, Progress
  <2>3. CallsOf(requests') = CallsOf(requests)
    BY <2>1
  <2> QED  BY <1>1, <2>1, <2>2, <2>3 DEF Once
<1> QED  BY <1>2, <1>3, <1>4 DEF MasterStep, CallStep

\* The write leaves the requests when it is executed.
LEMMA SlaveOnce == ASSUME IInv, Once, SlaveStep PROVE Once'
<1>1. /\ UNCHANGED <<pc, call, result, call_func>> /\ call \in 0..MaxAttempts + 2
  BY CallRange DEF IInv, SlaveStep, Execute, Reply, Lose, Crash
<1>2. CASE Execute
  <2>1. PICK n \in 1..call : Head(requests) = MessageOf(n)
    BY <1>2, HeadAndTail DEF IInv, Contents, Sent, Execute
  <2>2. /\ CallsOf(requests) = {n} \cup CallsOf(requests')
        /\ \A m \in CallsOf(requests') : n < m
    <3>1. Head(requests).call = n
      BY <2>1 DEF MessageOf
    <3> QED  BY <1>2, <3>1, HeadAndTail DEF IInv, Contents, Queue, Execute
  <2>3. Head(requests).name = Method(n) /\ n \in Calls /\ (op = "Get" => n = 1)
    BY <2>1, CallRange DEF IInv, MessageOf
  <2>4. n = 1 => Method(n) \in {"Get", "Try"}
    BY <2>3, MethodOf DEF IInv
  <2>5. n = 1 => tx' = tx
    BY <1>2, <2>3, <2>4 DEF Execute, Effect
  <2>6. call < 2 => n = 1
    BY <1>1, <2>1
  <2>7. 2 \in CallsOf(requests') => n = 1 /\ 2 \in CallsOf(requests)
    BY <2>1, <2>2
  <2>8. call = 2 /\ pc = "send" => n = 1
    <3>1. pc = "send" => n # call
      BY <2>2, RequestCalls DEF IInv, Connection
    <3> QED  BY <2>1, <3>1
  <2> QED  BY <1>1, <2>5, <2>6, <2>7, <2>8 DEF Once
<1>3. CASE Reply
  BY <1>1, <1>3 DEF Once, Reply, slave
<1>4. CASE Lose \/ Crash
  <2>1. CallsOf(requests') \subseteq CallsOf(requests) /\ (tx = "none" => tx' = tx)
    BY <1>4, NoItems DEF Lose, Crash, wire
  <2> QED  BY <1>1, <2>1 DEF Once
<1> QED  BY <1>2, <1>3, <1>4 DEF SlaveStep

LEMMA OnceHolds == Spec => []Once
<1>1. Init => Once
  BY NoItems DEF Init, Once
<1>2. IInv /\ Once /\ [Next]_vars => Once'
  <2> SUFFICES ASSUME IInv, Once, [Next]_vars PROVE Once'
    OBVIOUS
  <2>1. CASE UNCHANGED vars
    BY <2>1 DEF Once, vars, wire, slave
  <2> QED  BY <2>1, MasterOnce, SlaveOnce DEF Next
<1> QED  BY <1>1, <1>2, Invariant, PTL DEF Spec

\* The values that the caller sees.
LEMMA Seen ==
    ASSUME IInv
    PROVE  /\ call \in 0..MaxAttempts + 2 /\ 2 \in Calls
           /\ Wrote = "unsent" <=> call < 2
           /\ Wrote = "pending" <=> call = 2 /\ Calling
           /\ Wrote = "success" <=> call >= 2 /\ result[2] = "yes"
           /\ Wrote \in {"unsent", "pending", "success", "fail"}
           /\ Fin = "none" <=> call < 3 \/ Calling
           /\ Fin = "success" <=> call > 2 /\ ~Calling /\ result[call] = "yes"
           /\ Fin \in {"none", "success", "fail"}
<1>1. call \in 0..MaxAttempts + 2 /\ 2 \in Calls
  BY CallRange, SessionAssumption DEF IInv
<1>2. call = 2 /\ Calling => result[2] = "none"
  BY <1>1 DEF IInv, Progress, Calling
<1> QED  BY <1>1, <1>2 DEF Wrote, Fin

\* The next call begins.
LEMMA BeginImplements ==
    ASSUME IInv, IInv', Once, FirstCall \/ WriteCall \/ Decide \/ RetryFinish
    PROVE  SW!Next \/ UNCHANGED SW!vars
<1> USE Seen
<1>1. /\ call' = call + 1 /\ ~Calling /\ Calling' /\ result' = result /\ tx' = tx
  BY DEF FirstCall, WriteCall, Decide, RetryFinish, Begin, Calling, slave
<1>2. Fin' = "none"
  BY <1>1 DEF Fin
<1>3. CASE FirstCall
  <2>1. Wrote' = Wrote /\ Fin' = Fin /\ call_func' = call_func
    BY <1>1, <1>3 DEF FirstCall, Wrote, Fin
  <2> QED  BY <1>1, <2>1 DEF SW!vars
<1>4. CASE WriteCall
  <2>1. Wrote = "unsent" /\ Wrote' = "pending" /\ Fin' = Fin /\ call_func = "none" /\ call_func' = "none"
    BY <1>1, <1>4 DEF WriteCall, Wrote, Fin, Once
  <2> QED  BY <1>1, <2>1 DEF SW!Next, SW!SendWrite
<1>5. CASE Decide
  <2>1. Wrote # "pending" /\ Wrote' = Wrote /\ Fin' = Fin /\ call_func = "none"
    BY <1>1, <1>5 DEF Decide, Wrote, Fin, Once
  <2>2. call_func' = "commit" => Wrote # "fail"
    BY <1>5 DEF Decide, Wrote, Once
  <2> QED  BY <1>1, <1>5, <2>1, <2>2 DEF SW!Next, SW!Decide, Decide
<1>6. CASE RetryFinish
  <2>1. Fin # "none" /\ Wrote' = Wrote /\ call_func' = call_func
    BY <1>1, <1>6 DEF RetryFinish, Wrote
  <2> QED  BY <1>1, <1>2, <2>1 DEF SW!Next, SW!Retry
<1> QED  BY <1>3, <1>4, <1>5, <1>6

\* A call ends, whether it is answered or not.
LEMMA EndImplements ==
    ASSUME IInv, IInv', Once, Once', Calling, ~Calling', UNCHANGED <<op, call, call_func, tx>>,
           NEW x, result' = [result EXCEPT ![call] = x]
    PROVE  SW!Next \/ UNCHANGED SW!vars
<1> USE Seen
<1>1. call \in 1..MaxAttempts + 2 /\ call \in Calls
  BY DEF IInv, Progress, Calling
<1>2. result \in [Calls -> Results]
  BY DEF IInv, Progress
<1>3. CASE call < 2
  BY <1>3 DEF SW!vars, Wrote, Fin
<1>4. CASE call = 2
  <2>1. Wrote = "pending" /\ Wrote' \in {"success", "fail"} /\ Fin' = Fin
    BY <1>4 DEF Wrote, Fin
  <2>2. Wrote' = "success" => tx' # "none"
    <3>1. Wrote' = "success" => result'[2] = "yes"
      BY DEF Wrote
    <3>2. op # "Get"
      BY <1>4, CallRange DEF IInv
    <3> QED  BY <3>1, <3>2 DEF IInv, Transactions
  <2> QED  BY <2>1, <2>2 DEF SW!Next, SW!AnswerWrite
<1>5. CASE call > 2
  <2>1. Fin = "none" /\ Fin' \in {"success", "fail"} /\ call_func # "none"
    BY <1>5 DEF Fin, IInv, Progress
  <2>2. result'[2] = result[2]
    BY <1>1, <1>2, <1>5
  <2>3. Wrote' = Wrote
    BY <1>1, <1>5, <2>2 DEF Wrote
  <2>4. Fin' = "success" => SW!Settled'
    <3> SUFFICES ASSUME Fin' = "success" PROVE SW!Settled'
      OBVIOUS
    <3>1. result'[call] = "yes" /\ op # "Get"
      BY <1>5, CallRange DEF Fin, IInv
    <3>2. CASE result[2] = "yes"
      <4>1. Finished'
        BY <1>1, <1>5, <2>2, <3>1, <3>2, CallRange DEF IInv, Transactions
      <4> QED  BY <4>1 DEF Finished, SW!Settled, SW!Outcome, Outcome
    <3>3. CASE result[2] # "yes"
      <4>1. Wrote' = "fail"
        BY <1>1, <1>5, <2>2, <3>3 DEF Wrote
      <4>2. call_func' = "rollback"
        BY <2>1, <2>2, <3>3 DEF IInv, Progress, Once
      <4> QED  BY <4>1, <4>2 DEF SW!Settled
    <3> QED  BY <3>2, <3>3
  <2> QED  BY <2>1, <2>3, <2>4 DEF SW!Next, SW!AnswerFinish
<1> QED  BY <1>1, <1>3, <1>4, <1>5

\* The calls of the master.
LEMMA MasterImplements ==
    ASSUME IInv, IInv', Once, Once', MasterStep
    PROVE  SW!Next \/ UNCHANGED SW!vars
<1>1. CASE FirstCall \/ WriteCall \/ Decide \/ RetryFinish
  BY <1>1, BeginImplements
<1>2. CASE Done \/ Send \/ RecvOther
  <2>1. UNCHANGED <<call, result, call_func, tx>> /\ (Calling' <=> Calling)
    BY <1>2 DEF Done, Send, RecvOther, Calling, slave
  <2> QED  BY <2>1 DEF SW!vars, Wrote, Fin
<1>3. CASE SendFails \/ RecvReply \/ RecvException \/ RecvRest \/ RecvTimeout \/ RecvBroken
  <2>1. /\ Calling /\ ~Calling' /\ UNCHANGED <<op, call, call_func, tx>>
        /\ \E x : result' = [result EXCEPT ![call] = x]
    BY <1>3 DEF SendFails, RecvReply, RecvException, RecvRest, RecvTimeout, RecvBroken,
                Promise, Terminate, Calling, slave
  <2> QED  BY <2>1, EndImplements
<1> QED  BY <1>1, <1>2, <1>3 DEF MasterStep, CallStep

\* What the slave does, whether or not its caller still waits.
LEMMA SlaveImplements ==
    ASSUME IInv, IInv', Once, SlaveStep
    PROVE  SW!Next \/ UNCHANGED SW!vars
<1> USE Seen
<1>1. UNCHANGED <<op, pc, call, result, connection_id, call_func>>
  BY DEF SlaveStep, Execute, Reply, Lose, Crash
<1>2. Wrote' = Wrote /\ Fin' = Fin
  BY <1>1 DEF Wrote, Fin, Calling
<1>3. CASE Execute
  <2>1. PICK n \in 1..call : Head(requests) = MessageOf(n)
    BY <1>3, HeadAndTail DEF IInv, Contents, Sent, Execute
  <2>2. n \in Calls /\ (op = "Get" => n = 1) /\ n \in CallsOf(requests) /\ Method(n) \in Methods
    <3>1. Head(requests).call = n
      BY <2>1 DEF MessageOf
    <3> QED  BY <1>3, <2>1, <3>1, HeadAndTail, CallRange, MethodOf DEF IInv, Contents, Execute
  <2> DEFINE request == Argument(Method(n), MessageOf(n).body)
  <2>3. PICK ok \in BOOLEAN : Effect(Method(n), request, ok)
    <3>1. Head(requests).name = Method(n)
      BY <2>1 DEF MessageOf
    <3> QED  BY <1>3, <2>1, <3>1 DEF Execute
  <2>4. CASE n = 1
    <3>1. Method(n) \in {"Get", "Try"}
      BY <2>2, <2>4, MethodOf DEF IInv
    <3> QED  BY <1>1, <1>2, <2>3, <3>1 DEF Effect, SW!vars
  <2>5. CASE n = 2
    <3>1. tx = "none" /\ Method(n) \in {"Set", "Del"}
      BY <2>2, <2>5, MethodOf DEF IInv, Once
    <3>2. tx' \in {tx, "open"}
      BY <2>3, <3>1 DEF Effect
    <3>3. result[2] # "yes"
      <4>1. 2 \in Pending
        BY <2>2, <2>5, RequestCalls DEF IInv
      <4> QED  BY <4>1 DEF IInv, Late, Answered
    <3>4. Wrote \in {"pending", "fail"}
      BY <2>1, <2>5, <3>3
    <3> QED  BY <1>1, <1>2, <3>1, <3>2, <3>4 DEF SW!vars, SW!Next, SW!Execute, SW!Opens
  <2>6. CASE n > 2
    <3>1. Method(n) = "Finish" /\ op # "Get"
      BY <2>2, <2>6, MethodOf DEF IInv
    <3>2. request.connection_id = connection_id /\ request.call_func = call_func
      BY <2>2, <3>1, RequestRead DEF IInv
    <3>3. call > 2 /\ call_func # "none"
      BY <2>1, <2>6 DEF IInv, Progress
    <3> HIDE DEF request
    <3>4. \/ tx' = tx
          \/ connection_id # 0 /\ tx = "open" /\ tx' = Outcome(call_func)
      BY <2>3, <3>1, <3>2 DEF Effect
    <3>5. connection_id # 0 => Wrote = "success"
      BY <3>1, <3>3 DEF IInv, Progress, Transactions
    <3> QED  BY <1>1, <1>2, <3>3, <3>4, <3>5
             DEF SW!vars, SW!Next, SW!Finish, SW!Ends, SW!Outcome, Outcome
  <2> QED  BY <2>1, <2>4, <2>5, <2>6
<1>4. CASE Reply
  BY <1>1, <1>2, <1>4 DEF Reply, SW!vars, slave
<1>5. CASE Lose \/ Crash
  BY <1>1, <1>2, <1>5 DEF Lose, Crash, SW!vars, SW!Next, SW!Lose
<1> QED  BY <1>3, <1>4, <1>5 DEF SlaveStep

\* A session is one write to one slave as MasterHandler takes it: an answer tells the
\* truth, and what is not answered may be done or not.
THEOREM SessionImplementsSlaveWrite == Spec => ImplementsSlaveWrite
<1>1. Init => SW!Init
  BY DEF Init, SW!Init, Wrote, Fin
<1>2. IInv /\ IInv' /\ Once /\ Once' /\ [Next]_vars => [SW!Next]_SW!vars
  <2> SUFFICES ASSUME IInv, IInv', Once, Once', [Next]_vars PROVE [SW!Next]_SW!vars
    OBVIOUS
  <2>1. CASE UNCHANGED vars
    BY <2>1 DEF SW!vars, Wrote, Fin, Calling, vars, slave
  <2> QED  BY <2>1, MasterImplements, SlaveImplements DEF Next
<1> QED  BY <1>1, <1>2, Invariant, OnceHolds, PTL DEF Spec, SW!Spec, ImplementsSlaveWrite
=============================================================================
