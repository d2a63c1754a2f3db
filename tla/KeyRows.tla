------------------------------- MODULE KeyRows -------------------------------
(***************************************************************************)
(* What writes of one key leave in the tables of the slaves.               *)
(*                                                                         *)
(* A table has no unique key (`infoTable' is indexed by a row number), so  *)
(* the master asks every slave first whether it has the key (MTry) and     *)
(* sends an update or an insert accordingly (set_func of conf/conf.cpp);   *)
(* a Del goes only to the slaves that have it (MDel).  Between the answer  *)
(* to a try and the commit of the write lies the whole protocol of the     *)
(* write, which is AtomicWrite here: MasterHandler implements it.          *)
(*                                                                         *)
(* The writes may come from any number of clients and masters.  A row has  *)
(* effect when its transaction commits; until then InnoDB hides it.        *)
(***************************************************************************)
EXTENDS Naturals, Sequences, FiniteSets

CONSTANTS
    Writes,     \* the Sets and Dels of the key; a Set's own name is its value
    Slaves,     \* SlaveConf::slave_address
    OldValue,   \* the value of a row from before
    NoString    \* the value "", which a Set may carry like any other

ASSUME RowsAssumption ==
    /\ OldValue \notin Writes \cup {NoString}
    /\ NoString \notin Writes

VARIABLES
    asked, verdict, effect,     \* of AtomicWrite
    op,         \* what each write does
    exist,      \* the character of MTry's string for each slave
    failed,     \* the tries that ended without an answer
    rows,       \* the values of the key's rows at each slave, oldest first
    misled      \* the slaves that answered a try beside a pending write, or
                \* without having read the table

W == INSTANCE AtomicWrite WITH Requests <- Writes

writeVars == <<asked, verdict, effect>>
tryVars == <<exist, failed, misled>>
vars == <<writeVars, op, tryVars, rows>>

Values == Writes \cup {OldValue, NoString}

Init ==
    /\ W!Init
    /\ op = [r \in Writes |-> "none"]
    /\ exist = [r \in Writes |-> [s \in Slaves |-> "?"]]
    /\ failed = {}
    /\ \E old \in {<<>>, <<OldValue>>} : rows = [s \in Slaves |-> old]
    /\ misled = {}

------------------------------------------------------------------------------
(* The rows of one slave.                                                   *)

\* MysqlClient::get: the first row, or the empty string if there is none or if
\* the query fails (the second alternative of MTryFromSlave).
get(s) == IF rows[s] = <<>> THEN NoString ELSE Head(rows[s])

\* Faulty variant: the test for an empty answer the wrong way round.
check_key_inverted(s) == get(s) = NoString

\* MysqlClient::check_key: a key whose value is "" passes for absent.
check_key(s) == get(s) # NoString

\* MysqlClient::put and MysqlClient::del, on the rows that they find.
put(s, v) == Append(rows[s], v)
del(s) == <<>>

\* Faulty variant: the row is given another field of the request.
ValueOfFuncCall(r) == op[r]

Value(r) == IF op[r] = "setEmpty" THEN NoString ELSE r

\* Faulty variant: every Set inserts.
set_func_insert(flag) == "insert"

set_func(flag) == IF flag = "1" THEN "update" ELSE "insert"

\* The rows once write r has committed at s.  An update sets the value of every
\* row of the key.
Written(r, s) ==
    IF op[r] = "del" THEN del(s)
    ELSE IF set_func(exist[r][s]) = "update" THEN [i \in DOMAIN rows[s] |-> Value(r)]
    ELSE put(s, Value(r))

\* What is left of write r at s: its try was answered, and it may still commit.
Pending(r, s) ==
    /\ exist[r][s] # "?"
    /\ <<r, s>> \notin failed
    /\ effect[r][s] \in {"none", "tentative"}
    /\ verdict[r] # "fail"
    /\ verdict[r] = "success" => s \in asked[r]

------------------------------------------------------------------------------
(* The handlers and the slaves.                                             *)

\* A client sends a Set, of some value or of the empty string, or a Del.
Call(r) ==
    /\ op[r] = "none"
    /\ \E o \in {"set", "setEmpty", "del"} : op' = [op EXCEPT ![r] = o]
    /\ UNCHANGED <<writeVars, tryVars, rows>>

\* MTryFromSlave.  The slave answers from its rows; or its query fails, which
\* get answers like an absent key; or no answer comes (a timeout, a lost
\* connection) and TryResponse's check_key keeps its default, which reads "0".
MTryFromSlave(r, s) ==
    /\ op[r] # "none"
    /\ verdict[r] = "none"
    /\ exist[r][s] = "?"
    /\ \/ /\ exist' = [exist EXCEPT ![r][s] = IF check_key(s) THEN "1" ELSE "0"]
          /\ misled' = IF \E q \in Writes : Pending(q, s) THEN misled \cup {s} ELSE misled
          /\ UNCHANGED failed
       \/ /\ exist' = [exist EXCEPT ![r][s] = "0"]
          /\ misled' = misled \cup {s}
          /\ UNCHANGED failed
       \/ /\ exist' = [exist EXCEPT ![r][s] = "0"]
          /\ failed' = failed \cup {<<r, s>>}
          /\ UNCHANGED misled
    /\ UNCHANGED <<writeVars, op, rows>>

\* Faulty variant: the writes go out while tries are under way.
TriedSome(r) == op[r] # "none" /\ \E s \in Slaves : exist[r][s] # "?"

\* MTry returns when every try has ended.
Tried(r) == op[r] # "none" /\ \A s \in Slaves : exist[r][s] # "?"

\* A Set goes to every slave, a Del to those that have the key.
Targets(r) ==
    IF op[r] = "del" THEN {s \in Slaves : exist[r][s] = "1"} ELSE Slaves

Ask(r, s) ==
    /\ Tried(r)
    /\ s \in Targets(r)
    /\ W!Ask(r, s)
    /\ UNCHANGED <<op, tryVars, rows>>

Execute(r, s) == W!Execute(r, s) /\ UNCHANGED <<op, tryVars, rows>>

\* Every target has been asked and has answered; or no connection could be made
\* and nobody was asked anything.  A slave whose try failed answers no Set on
\* the same connection: that is TriedFirst of SlaveSession.
Judge(r, v) ==
    /\ op[r] # "none"
    /\ \/ Tried(r) /\ asked[r] = Targets(r)
       \/ v = "fail" /\ \A s \in Slaves : exist[r][s] = "?"
    /\ v = "success" => \A s \in asked[r] : <<r, s>> \notin failed
    /\ W!Judge(r, v)
    /\ UNCHANGED <<op, tryVars, rows>>

\* Finish with "commit": the rows change.
Apply(r, s) ==
    /\ W!Apply(r, s)
    /\ rows' = [rows EXCEPT ![s] = Written(r, s)]
    /\ UNCHANGED <<op, tryVars>>

Undo(r, s) == W!Undo(r, s) /\ UNCHANGED <<op, tryVars, rows>>

Lose(r, s) == W!Lose(r, s) /\ UNCHANGED <<op, tryVars, rows>>

Next ==
    \E r \in Writes :
        \/ Call(r)
        \/ \E v \in {"success", "fail"} : Judge(r, v)
        \/ \E s \in Slaves :
              \/ MTryFromSlave(r, s) \/ Ask(r, s) \/ Execute(r, s)
              \/ Apply(r, s) \/ Undo(r, s) \/ Lose(r, s)

Spec == Init /\ [][Next]_vars

------------------------------------------------------------------------------
(* What the tries achieve, and what they do not.                            *)

TypeOK ==
    /\ asked \in [Writes -> SUBSET Slaves]
    /\ verdict \in [Writes -> {"none", "success", "fail"}]
    /\ effect \in [Writes -> [Slaves ->
                      {"none", "tentative", "applied", "undone", "lost"}]]
    /\ op \in [Writes -> {"none", "set", "setEmpty", "del"}]
    /\ exist \in [Writes -> [Slaves -> {"?", "0", "1"}]]
    /\ failed \subseteq Writes \X Slaves
    /\ rows \in [Slaves -> Seq(Values)]
    /\ misled \subseteq Slaves

\* A first row with the value "" hides the key from every later try.
Hidden(s) == rows[s] # <<>> /\ Head(rows[s]) = NoString

\* A key has one row at most, unless a slave was misled (it answered a try while
\* another write was pending, or its query failed), or the empty string hides the
\* key: nothing else, no try that timed out and no interleaving of the writes of
\* several masters, makes a Set insert beside a row.
OneRow == \A s \in Slaves : s \in misled \/ Hidden(s) \/ Len(rows[s]) <= 1

\* Under the same two conditions a committed write is what the slave has from
\* then on: a Set's value, alone, or no row after a Del.
LastWriteShows ==
    [][\A r \in Writes, s \in Slaves :
          (effect[r][s] # "applied" /\ effect'[r][s] = "applied"
             /\ s \notin misled /\ ~Hidden(s))
          => rows'[s] = IF op[r] = "del" THEN <<>> ELSE <<Value(r)>>]_vars

\* A slave is behind when it lost the transaction of a successful write, or when
\* a successful Del passed it by because its try had failed.
Behind(s) ==
    \E r \in Writes :
        /\ verdict[r] = "success"
        /\ effect[r][s] = "lost" \/ (op[r] = "del" /\ <<r, s>> \in failed)

\* Two slaves with no write pending hold the same rows, in the same order,
\* unless one of them was misled or is behind.  MGet, which answers only if all
\* slaves give the same value, depends on it.
ReplicasAgree ==
    \A s, t \in Slaves :
        (/\ \A r \in Writes : ~Pending(r, s) /\ ~Pending(r, t)
         /\ misled \cap {s, t} = {}
         /\ ~Behind(s) /\ ~Behind(t))
        => rows[s] = rows[t]
=============================================================================
