-------------------------------- MODULE Wire --------------------------------
(***************************************************************************)
(* What the generated structs of gen-cpp write to a connection and read    *)
(* from it.  The declaration of a struct is the sequence of its fields.  On *)
(* the wire a field has its id and its type but not its name, so that a    *)
(* reader finds a value only where both ends declare the same field.       *)
(***************************************************************************)
EXTENDS Integers, Sequences, FiniteSetsExt

Field(id, name, type) == [id |-> id, name |-> name, type |-> type]

\* A member before anything is read into it.
Default(type) ==
    CASE type = "string" -> ""
      [] type = "bool" -> FALSE
      [] type = "i64" -> 0
      [] type = "struct" -> <<>>

Initial(S) ==
    [name \in {S[i].name : i \in DOMAIN S} |->
        Default(S[CHOOSE i \in DOMAIN S : S[i].name = name].type)]

\* write: every field, in the order of the declaration.
Write(S, v) ==
    [i \in DOMAIN S |-> [id |-> S[i].id, type |-> S[i].type, data |-> v[S[i].name]]]

\* The places of a stream that read takes the i-th field from: a field of another id or
\* type is skipped.
Places(S, i, stream) ==
    {k \in DOMAIN stream : stream[k].id = S[i].id /\ stream[k].type = S[i].type}

\* read: the last occurrence of a field counts, and what is not there stays as it was.
Read(S, stream) ==
    [name \in DOMAIN Initial(S) |->
        LET i == CHOOSE j \in DOMAIN S : S[j].name = name
            P == Places(S, i, stream)
        IN  IF P = {} THEN Initial(S)[name] ELSE stream[Max(P)].data]

\* __isset of the only field of a result.
Isset(S, stream) == Places(S, 1, stream) # {}

------------------------------------------------------------------------------
(* The requests and the responses.                                          *)

TryRequest == <<Field(1, "call_func", "string"), Field(2, "key", "string")>>
TryResponse == <<Field(1, "message", "string"), Field(2, "check_key", "bool")>>

FinishRequest ==
    <<Field(1, "connection_id", "i64"), Field(2, "message", "string"),
      Field(3, "call_func", "string")>>
FinishResponse == <<Field(1, "message", "string")>>

GetRequest == <<Field(1, "key", "string")>>
GetResponse ==
    <<Field(1, "value", "string"), Field(2, "message", "string"),
      Field(3, "connection_id", "i64")>>

SetRequest ==
    <<Field(1, "key", "string"), Field(2, "value", "string"),
      Field(3, "func_call", "string")>>
SetResponse == <<Field(1, "connection_id", "i64"), Field(2, "message", "string")>>

DelRequest == <<Field(1, "key", "string")>>
DelResponse == <<Field(1, "connection_id", "i64"), Field(2, "message", "string")>>

------------------------------------------------------------------------------
(* The arguments and the result of each method of the service Slave.        *)

Slave_Try_args == <<Field(1, "tryRequest", "struct")>>
Slave_Try_result == <<Field(0, "success", "struct")>>
Slave_Finish_args == <<Field(1, "finishRequest", "struct")>>
Slave_Finish_result == <<Field(0, "success", "struct")>>
Slave_Get_args == <<Field(1, "getRequest", "struct")>>
Slave_Get_result == <<Field(0, "success", "struct")>>
Slave_Set_args == <<Field(1, "setRequest", "struct")>>
Slave_Set_result == <<Field(0, "success", "struct")>>
Slave_Del_args == <<Field(1, "delRequest", "struct")>>
Slave_Del_result == <<Field(0, "success", "struct")>>

Signature(args, request, result, response) ==
    [args |-> args, request |-> request, result |-> result, response |-> response]

Try == Signature(Slave_Try_args, TryRequest, Slave_Try_result, TryResponse)
Finish == Signature(Slave_Finish_args, FinishRequest, Slave_Finish_result, FinishResponse)
Get == Signature(Slave_Get_args, GetRequest, Slave_Get_result, GetResponse)
Set == Signature(Slave_Set_args, SetRequest, Slave_Set_result, SetResponse)
Del == Signature(Slave_Del_args, DelRequest, Slave_Del_result, DelResponse)

SignatureOf(method) ==
    CASE method = "Try" -> Try
      [] method = "Finish" -> Finish
      [] method = "Get" -> Get
      [] method = "Set" -> Set
      [] method = "Del" -> Del

\* A struct as the only field of another.
Wrap(outer, inner, v) == Write(outer, [name \in DOMAIN Initial(outer) |-> Write(inner, v)])
Unwrap(outer, inner, stream) == Read(inner, Read(outer, stream)[outer[1].name])

\* The body of a call and of its reply, as the one end writes and the other reads it.
Arguments(method, v) ==
    LET s == SignatureOf(method) IN Wrap(s.args, s.request, v)
Argument(method, stream) ==
    LET s == SignatureOf(method) IN Unwrap(s.args, s.request, stream)
Result(method, v) ==
    LET s == SignatureOf(method) IN Wrap(s.result, s.response, v)
HasSuccess(method, stream) ==
    LET s == SignatureOf(method) IN Isset(s.result, stream)
Success(method, stream) ==
    LET s == SignatureOf(method) IN Unwrap(s.result, s.response, stream)
=============================================================================
