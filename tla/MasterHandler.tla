---------------------------- MODULE MasterHandler ----------------------------
(***************************************************************************)
(* The handlers of gen-cpp/Master_server.cpp: Get, Set and Del requests on *)
(* the RPC threads, the tasks they hand to the thread pool, and MMFinish,  *)
(* which runs on a pool thread and hands further tasks to the same pool.   *)
(*                                                                         *)
(* The pool is the queue of TaskQueue, which ThreadPool implements while it*)
(* is open.  The slaves are not in the repository: they are modelled from  *)
(* what the handlers send them and make of their answers.                  *)
(***************************************************************************)
EXTENDS Integers, Sequences, FiniteSets

CONSTANTS
    Requests,       \* the requests that are being served
    Op,             \* "get", "set" or "del", for each request
    NumSlaves,      \* slave_address.size()
    MaxAttempts,    \* MMFinish's loop bound; the code has 3
    Workers,        \* the threads of pool 1
    Values,         \* the <message, value> answers a slave gives to a get
    Failed,         \* the answer that stands for a failed get
    Idle            \* what a pool thread runs when it runs nothing

ASSUME HandlerAssumption ==
    /\ IsFiniteSet(Requests)
    /\ Op \in [Requests -> {"get", "set", "del"}]
    /\ NumSlaves \in Nat \ {0}
    /\ MaxAttempts \in Nat \ {0}
    /\ IsFiniteSet(Workers)
    /\ Failed \notin Values
    /\ (Values \cup {Failed}) \cap {"unsent", "pending", "abandoned"} = {}

Slaves == 1..NumSlaves

\* A ThreadTask: its call_name, whose it is, and the slave its client talks to.
\* A "_finish" task talks to several slaves and is filed under slave 0.
Task == [call_name : {"get", "try", "set", "del", "finish", "_finish"},
         req : Requests, slave : 0..NumSlaves]
TaskOf(name, r, i) == [call_name |-> name, req |-> r, slave |-> i]

ASSUME IdleAssumption == Idle \notin Task

VARIABLES
    queue,      \* the tasks in the pool
    running,    \* what each pool thread runs
    hpc,        \* where each handler is
    flag,       \* MGet's flag: every connection so far was made
    got,        \* the future of each get
    exist,      \* the future of each try
    wrote,      \* the future of each set or del
    reply,      \* _return
    call_func,  \* the decision handed to MMFinish
    fin,        \* the future of each finish of the current attempt
    attempt,    \* 1 + the loop counter of MMFinish
    ending,     \* how MMFinish ended
    db,         \* external: the transaction of a request on a slave
    late        \* external: the timed-out call a slave has yet to execute

poolVars == <<queue, running>>
finishVars == <<fin, attempt, ending>>
slaveVars == <<db, late>>
vars == <<poolVars, hpc, flag, got, exist, wrote, reply, call_func, finishVars,
          slaveVars>>

PerSlave(x) == [r \in Requests |-> [i \in Slaves |-> x]]
IsWrite(r) == Op[r] \in {"set", "del"}

Init ==
    /\ queue = <<>>
    /\ running = [w \in Workers |-> Idle]
    /\ hpc = [r \in Requests |-> "connect"]
    /\ flag = [r \in Requests |-> TRUE]
    /\ got = PerSlave("unsent")
    /\ exist = PerSlave("unsent")
    /\ wrote = PerSlave("unsent")
    /\ reply = [r \in Requests |-> "none"]
    /\ call_func = [r \in Requests |-> "none"]
    /\ fin = PerSlave("unsent")
    /\ attempt = [r \in Requests |-> 1]
    /\ ending = [r \in Requests |-> "none"]
    /\ db = PerSlave("none")
    /\ late = PerSlave("none")

addTask(name, r, i) == queue' = Append(queue, TaskOf(name, r, i))

\* The future, or the slave's state, of request r and slave i becomes x.
With(f, r, i, x) == [f EXCEPT ![r][i] = x]

\* i is the first slave of S whose future f has not been made: the loops of the
\* handlers visit the slaves in the order of slave_address.
NextIn(S, f, i) ==
    /\ i \in S
    /\ f[i] = "unsent"
    /\ \A j \in S : j < i => f[j] # "unsent"

\* Every future of the slaves in S has been set.
Resolved(S, f) == \A i \in S : f[i] \notin {"unsent", "pending"}

Return(r, answer) ==
    /\ hpc' = [hpc EXCEPT ![r] = "returned"]
    /\ reply' = [reply EXCEPT ![r] = answer]

------------------------------------------------------------------------------
(* MGet                                                                     *)

\* One iteration of the loop over the slaves.  The handler connects to the
\* slave in every case, but hands out the task only if no connection has failed
\* so far; the future of a task that is not handed out is abandoned.
MGetConnect(r, i, up) ==
    /\ hpc[r] = "connect" /\ Op[r] = "get"
    /\ NextIn(Slaves, got[r], i)
    /\ flag' = [flag EXCEPT ![r] = @ /\ up]
    /\ IF flag'[r]
          THEN /\ got' = With(got, r, i, "pending")
               /\ addTask("get", r, i)
          ELSE /\ got' = With(got, r, i, "abandoned")
               /\ UNCHANGED queue
    /\ UNCHANGED <<running, hpc, exist, wrote, reply, call_func, finishVars,
                   slaveVars>>

\* if (!flag): the tasks already handed out keep running.
MGetFail(r) ==
    /\ hpc[r] = "connect" /\ Op[r] = "get"
    /\ \A i \in Slaves : got[r][i] # "unsent"
    /\ ~flag[r]
    /\ Return(r, Failed)
    /\ UNCHANGED <<poolVars, flag, got, exist, wrote, call_func, finishVars,
                   slaveVars>>

\* The answer is the slaves' common answer, or a failure.
MGetReturn(r) ==
    /\ hpc[r] = "connect" /\ Op[r] = "get"
    /\ flag[r]
    /\ Resolved(Slaves, got[r])
    /\ Return(r, IF \A i \in Slaves : got[r][i] = got[r][1]
                    THEN got[r][1] ELSE Failed)
    /\ UNCHANGED <<poolVars, flag, got, exist, wrote, call_func, finishVars,
                   slaveVars>>

------------------------------------------------------------------------------
(* MSet and MDel                                                            *)

\* The loop that connects to every slave has no effect outside the handler but
\* its outcome: all connections, or at least one failure.
Connect(r) ==
    /\ hpc[r] = "connect" /\ IsWrite(r)
    /\ \/ /\ hpc' = [hpc EXCEPT ![r] = "try"]
          /\ UNCHANGED reply
       \/ Return(r, "fail")
    /\ UNCHANGED <<poolVars, flag, got, exist, wrote, call_func, finishVars,
                   slaveVars>>

\* MTry hands out one try per slave ...
MTryAdd(r, i) ==
    /\ hpc[r] = "try"
    /\ NextIn(Slaves, exist[r], i)
    /\ exist' = With(exist, r, i, "pending")
    /\ addTask("try", r, i)
    /\ UNCHANGED <<running, hpc, flag, got, wrote, reply, call_func,
                   finishVars, slaveVars>>

\* ... and waits for all of them.
MTryReturn(r) ==
    /\ hpc[r] = "try"
    /\ Resolved(Slaves, exist[r])
    /\ hpc' = [hpc EXCEPT ![r] = "write"]
    /\ UNCHANGED <<poolVars, flag, got, exist, wrote, reply, call_func,
                   finishVars, slaveVars>>

\* The slaves that get the set or the del: a del skips those without the key.
Targets(r) == {i \in Slaves : Op[r] = "del" => exist[r][i] = "1"}

MWriteAdd(r, i) ==
    /\ hpc[r] = "write"
    /\ NextIn(Targets(r), wrote[r], i)
    /\ wrote' = With(wrote, r, i, "pending")
    /\ addTask(Op[r], r, i)
    /\ UNCHANGED <<running, hpc, flag, got, exist, reply, call_func,
                   finishVars, slaveVars>>

\* Faulty variant: success |= instead of success &=.
SomeWritten(r) == \E i \in Targets(r) : wrote[r][i] = "success"

AllWritten(r) == \A i \in Targets(r) : wrote[r][i] = "success"

\* Faulty variants: the decision does not follow the answers; the handler waits
\* for the futures of the slaves that a del skipped.
MWriteReturnCommit(r) ==
    /\ hpc[r] = "write"
    /\ Resolved(Targets(r), wrote[r])
    /\ Return(r, IF AllWritten(r) THEN "success" ELSE "fail")
    /\ call_func' = [call_func EXCEPT ![r] = "commit"]
    /\ addTask("_finish", r, 0)
    /\ UNCHANGED <<running, flag, got, exist, wrote, finishVars, slaveVars>>
MWriteReturnAll(r) ==
    /\ hpc[r] = "write"
    /\ Resolved(Slaves, wrote[r])
    /\ Return(r, IF AllWritten(r) THEN "success" ELSE "fail")
    /\ call_func' = [call_func EXCEPT ![r] =
                        IF AllWritten(r) THEN "commit" ELSE "rollback"]
    /\ addTask("_finish", r, 0)
    /\ UNCHANGED <<running, flag, got, exist, wrote, finishVars, slaveVars>>

\* All answers are in: decide, hand MMFinish to the pool, and answer the client
\* without waiting for it.
MWriteReturn(r) ==
    /\ hpc[r] = "write"
    /\ Resolved(Targets(r), wrote[r])
    /\ Return(r, IF AllWritten(r) THEN "success" ELSE "fail")
    /\ call_func' = [call_func EXCEPT ![r] =
                        IF AllWritten(r) THEN "commit" ELSE "rollback"]
    /\ addTask("_finish", r, 0)
    /\ UNCHANGED <<running, flag, got, exist, wrote, finishVars, slaveVars>>

------------------------------------------------------------------------------
(* The pool threads                                                         *)

\* Faulty variant: the task stays in the queue.
TakeWithoutPop(w) ==
    /\ running[w] = Idle
    /\ queue # <<>>
    /\ running' = [running EXCEPT ![w] = Head(queue)]
    /\ UNCHANGED <<queue, hpc, flag, got, exist, wrote, reply, call_func,
                   finishVars, slaveVars>>

\* run() takes the task at the head of the queue.
Take(w) ==
    /\ running[w] = Idle
    /\ queue # <<>>
    /\ running' = [running EXCEPT ![w] = Head(queue)]
    /\ queue' = Tail(queue)
    /\ UNCHANGED <<hpc, flag, got, exist, wrote, reply, call_func, finishVars,
                   slaveVars>>

Runs(w, names, r, i) ==
    /\ running[w] # Idle
    /\ running[w].call_name \in names
    /\ running[w].req = r
    /\ running[w].slave = i

BecomeIdle(w) == running' = [running EXCEPT ![w] = Idle]

\* MGetFromSlaves: a timeout sets the future to a failure.
MGetFromSlaves(w, r, i) ==
    /\ Runs(w, {"get"}, r, i)
    /\ \E a \in Values \cup {Failed} : got' = With(got, r, i, a)
    /\ BecomeIdle(w)
    /\ UNCHANGED <<queue, hpc, flag, exist, wrote, reply, call_func, finishVars,
                   slaveVars>>

\* MTryFromSlave: check_key stays false when the call times out, so a failed
\* try and an absent key look the same.
MTryFromSlave(w, r, i) ==
    /\ Runs(w, {"try"}, r, i)
    /\ \E a \in {"0", "1"} : exist' = With(exist, r, i, a)
    /\ BecomeIdle(w)
    /\ UNCHANGED <<queue, hpc, flag, got, wrote, reply, call_func, finishVars,
                   slaveVars>>

\* MSetFromSlave and MDelFromSlave.  The slave answers, having opened a
\* transaction if the answer is "success"; or the call times out, and the slave
\* may execute it later.
MWriteFromSlave(w, r, i) ==
    /\ Runs(w, {"set", "del"}, r, i)
    /\ \/ /\ db' = With(db, r, i, "open")
          /\ wrote' = With(wrote, r, i, "success")
          /\ UNCHANGED late
       \/ /\ wrote' = With(wrote, r, i, "fail")
          /\ UNCHANGED <<db, late>>
       \/ /\ wrote' = With(wrote, r, i, "fail")
          /\ late' = With(late, r, i, "write")
          /\ UNCHANGED db
    /\ BecomeIdle(w)
    /\ UNCHANGED <<queue, hpc, flag, got, exist, reply, call_func, finishVars>>

------------------------------------------------------------------------------
(* MMFinish and MFinish, on a pool thread                                   *)

\* The slaves of finishRequests.
Contacted(r) == {i \in Slaves : wrote[r][i] # "unsent"}

\* Faulty variant: the future is made and its task is not handed out.
MFinishForget(w, r, i) ==
    /\ Runs(w, {"_finish"}, r, 0)
    /\ NextIn(Contacted(r), fin[r], i)
    /\ fin' = With(fin, r, i, "pending")
    /\ UNCHANGED <<poolVars, hpc, flag, got, exist, wrote, reply, call_func,
                   attempt, ending, slaveVars>>

\* One iteration of MFinish's first loop.
MFinishAdd(w, r, i) ==
    /\ Runs(w, {"_finish"}, r, 0)
    /\ NextIn(Contacted(r), fin[r], i)
    /\ fin' = With(fin, r, i, "pending")
    /\ addTask("finish", r, i)
    /\ UNCHANGED <<running, hpc, flag, got, exist, wrote, reply, call_func,
                   attempt, ending, slaveVars>>

\* Faulty variant: ret = instead of ret &=.
LastFinished(r) ==
    \A i \in Contacted(r) :
        (\A j \in Contacted(r) : j <= i) => fin[r][i] = "success"

AllFinished(r) == \A i \in Contacted(r) : fin[r][i] = "success"

\* MFinish has all its answers and MMFinish leaves its loop, by the break or by
\* the bound.
MMFinishReturn(w, r) ==
    /\ Runs(w, {"_finish"}, r, 0)
    /\ Resolved(Contacted(r), fin[r])
    /\ AllFinished(r) \/ attempt[r] = MaxAttempts
    /\ ending' = [ending EXCEPT ![r] =
                    IF AllFinished(r) THEN "finished" ELSE "abandoned"]
    /\ BecomeIdle(w)
    /\ UNCHANGED <<queue, hpc, flag, got, exist, wrote, reply, call_func, fin,
                   attempt, slaveVars>>

\* Faulty variants: one attempt too many; the retry queues MMFinish anew beside
\* the one that goes on.
MMFinishRetryFourth(w, r) ==
    /\ Runs(w, {"_finish"}, r, 0)
    /\ Resolved(Contacted(r), fin[r])
    /\ ~AllFinished(r)
    /\ attempt[r] <= MaxAttempts
    /\ attempt' = [attempt EXCEPT ![r] = @ + 1]
    /\ fin' = [fin EXCEPT ![r] = [i \in Slaves |-> "unsent"]]
    /\ UNCHANGED <<poolVars, hpc, flag, got, exist, wrote, reply, call_func,
                   ending, slaveVars>>
MMFinishRetryQueued(w, r) ==
    /\ Runs(w, {"_finish"}, r, 0)
    /\ Resolved(Contacted(r), fin[r])
    /\ ~AllFinished(r)
    /\ attempt[r] < MaxAttempts
    /\ attempt' = [attempt EXCEPT ![r] = @ + 1]
    /\ fin' = [fin EXCEPT ![r] = [i \in Slaves |-> "unsent"]]
    /\ addTask("_finish", r, 0)
    /\ UNCHANGED <<running, hpc, flag, got, exist, wrote, reply, call_func,
                   ending, slaveVars>>

\* MMFinish calls MFinish once more, for every slave again.
MMFinishRetry(w, r) ==
    /\ Runs(w, {"_finish"}, r, 0)
    /\ Resolved(Contacted(r), fin[r])
    /\ ~AllFinished(r)
    /\ attempt[r] < MaxAttempts
    /\ attempt' = [attempt EXCEPT ![r] = @ + 1]
    /\ fin' = [fin EXCEPT ![r] = [i \in Slaves |-> "unsent"]]
    /\ UNCHANGED <<poolVars, hpc, flag, got, exist, wrote, reply, call_func,
                   ending, slaveVars>>

\* The request names the transaction by the connection_id of the answer to the
\* set or del; without that answer it is 0 and finds no transaction.
Named(r, i) == wrote[r][i] = "success"

\* What a finish makes of an open transaction.
Outcome(r) == IF call_func[r] = "commit" THEN "committed" ELSE "rolledback"

\* MFinishFromSlave: the slave answers "success" to the commit of a transaction
\* only if the transaction is then committed, and to a rollback also if there
\* is nothing to roll back; it may answer "fail" to any call, and the call may
\* time out.
MFinishFromSlave(w, r, i) ==
    /\ Runs(w, {"finish"}, r, i)
    /\ \/ /\ Named(r, i) /\ db[r][i] \in {"open", Outcome(r)}
          /\ db' = With(db, r, i, Outcome(r))
          /\ fin' = With(fin, r, i, "success")
          /\ UNCHANGED late
       \/ /\ ~Named(r, i) \/ (call_func[r] = "rollback" /\ db[r][i] = "lost")
          /\ fin' = With(fin, r, i, "success")
          /\ UNCHANGED slaveVars
       \/ /\ fin' = With(fin, r, i, "fail")
          /\ UNCHANGED slaveVars
       \/ /\ fin' = With(fin, r, i, "fail")
          /\ Named(r, i)
          /\ late' = With(late, r, i, "finish")
          /\ UNCHANGED db
    /\ BecomeIdle(w)
    /\ UNCHANGED <<queue, hpc, flag, got, exist, wrote, reply, call_func,
                   attempt, ending>>

------------------------------------------------------------------------------
(* The slaves on their own                                                  *)

\* A slave executes a call whose caller has timed out, or drops it.
SlaveLate(r, i) ==
    /\ late[r][i] # "none"
    /\ late' = With(late, r, i, "none")
    /\ \/ UNCHANGED db
       \/ late[r][i] = "write" /\ db' = With(db, r, i, "open")
       \/ /\ late[r][i] = "finish" /\ db[r][i] = "open"
          /\ db' = With(db, r, i, Outcome(r))
    /\ UNCHANGED <<poolVars, hpc, flag, got, exist, wrote, reply, call_func,
                   finishVars>>

\* A slave's database drops an open transaction (crash, closed connection).
SlaveLoses(r, i) ==
    /\ db[r][i] = "open"
    /\ db' = With(db, r, i, "lost")
    /\ UNCHANGED <<poolVars, hpc, flag, got, exist, wrote, reply, call_func,
                   finishVars, late>>

------------------------------------------------------------------------------
HandlerStep(r) ==
    \/ \E i \in Slaves :
          \/ \E up \in BOOLEAN : MGetConnect(r, i, up)
          \/ MTryAdd(r, i)
          \/ MWriteAdd(r, i)
    \/ MGetFail(r) \/ MGetReturn(r) \/ Connect(r) \/ MTryReturn(r)
    \/ MWriteReturn(r)

RunStep(w) ==
    \E r \in Requests :
        \/ \E i \in Slaves :
              \/ MGetFromSlaves(w, r, i) \/ MTryFromSlave(w, r, i)
              \/ MWriteFromSlave(w, r, i) \/ MFinishFromSlave(w, r, i)
              \/ MFinishAdd(w, r, i)
        \/ MMFinishReturn(w, r) \/ MMFinishRetry(w, r)

SlaveStep == \E r \in Requests, i \in Slaves : SlaveLate(r, i) \/ SlaveLoses(r, i)

Next ==
    \/ \E r \in Requests : HandlerStep(r)
    \/ \E w \in Workers : Take(w) \/ RunStep(w)
    \/ SlaveStep

Spec == Init /\ [][Next]_vars

\* Every thread that can run does; a call to a slave ends, at the latest when
\* its timeout of two seconds has passed.
Fairness ==
    /\ \A r \in Requests : WF_vars(HandlerStep(r))
    /\ WF_vars(\E w \in Workers : Take(w))
    /\ \A w \in Workers : WF_vars(RunStep(w))

FairSpec == Spec /\ Fairness

------------------------------------------------------------------------------
(* What the handlers guarantee.                                             *)

PerSlaveOf(S) == [Requests -> [Slaves -> S]]
Futures(answers) == PerSlaveOf({"unsent", "pending"} \cup answers)

TypeOK ==
    /\ queue \in Seq(Task)
    /\ running \in [Workers -> Task \cup {Idle}]
    /\ hpc \in [Requests -> {"connect", "try", "write", "returned"}]
    /\ flag \in [Requests -> BOOLEAN]
    /\ got \in Futures(Values \cup {Failed, "abandoned"})
    /\ exist \in Futures({"0", "1"})
    /\ wrote \in Futures({"success", "fail"})
    /\ reply \in [Requests -> Values \cup {Failed, "none", "success", "fail"}]
    /\ call_func \in [Requests -> {"none", "commit", "rollback"}]
    /\ fin \in Futures({"success", "fail"})
    /\ attempt \in [Requests -> 1..MaxAttempts]
    /\ ending \in [Requests -> {"none", "finished", "abandoned"}]
    /\ db \in PerSlaveOf({"none", "open", "committed", "rolledback", "lost"})
    /\ late \in PerSlaveOf({"none", "write", "finish"})

\* A slave commits a write only if every slave that was asked to execute it
\* answered "success"; then the client is told "success" and no slave is made to
\* roll the write back, in whatever order answers, timeouts and retries fall.
Agreement ==
    \A r \in Requests : \A i \in Slaves :
        db[r][i] = "committed" =>
            /\ reply[r] = "success"
            /\ \A j \in Contacted(r) :
                  wrote[r][j] = "success" /\ db[r][j] # "rolledback"

\* MMFinish leaves its loop before the bound only if every transaction that the
\* master can name has reached its outcome (a rollback may find it lost): no
\* answer of an earlier attempt is taken for one of the last.
FinishedIsDone ==
    \A r \in Requests : ending[r] = "finished" =>
        \A i \in Contacted(r) :
            \/ db[r][i] = Outcome(r)
            \/ call_func[r] = "rollback" /\ (db[r][i] = "lost" \/ ~Named(r, i))

\* The tasks in the pool, waiting or running.
Pooled == {queue[k] : k \in 1..Len(queue)} \cup ({running[w] : w \in Workers} \ {Idle})

NoneTwice ==
    /\ \A j, k \in 1..Len(queue) : queue[j] = queue[k] => j = k
    /\ \A v, w \in Workers : running[v] = running[w] => v = w \/ running[v] = Idle
    /\ \A k \in 1..Len(queue), w \in Workers : queue[k] # running[w]

\* Somebody waits for the future that task t sets; or t is the MMFinish of a
\* write that is decided and not finished.
IsDue(t) ==
    \/ /\ t.slave \in Slaves
       /\ \/ t.call_name = "get" /\ got[t.req][t.slave] = "pending"
          \/ t.call_name = "try" /\ exist[t.req][t.slave] = "pending"
          \/ t.call_name = Op[t.req] /\ wrote[t.req][t.slave] = "pending"
          \/ t.call_name = "finish" /\ fin[t.req][t.slave] = "pending"
    \/ /\ t.slave = 0
       /\ t.call_name = "_finish"
       /\ call_func[t.req] # "none" /\ ending[t.req] = "none"

\* Every future that a handler or MFinish waits for has a task in the pool that
\* will set it, and one only, so that none is waited for in vain or set twice;
\* and the MMFinish of a decided write is in the pool until it ends.
PendingHasTask == NoneTwice /\ \A t \in Task : t \in Pooled <=> IsDue(t)

\* A pool thread inside MMFinish waits for tasks of the same pool.
Finishing(w) == running[w] # Idle /\ running[w].call_name = "_finish"

\* Some pool thread is left to run the finish tasks that MMFinish waits for.
\* True with fewer writes in progress than pool threads; nothing in the code
\* keeps them fewer.
NotStarved == \E w \in Workers : ~Finishing(w)

\* Every request is answered, and every decided write is finished or given up,
\* unless all pool threads end up inside MMFinish, each waiting for a task that
\* none of them will run.
Served ==
    \A r \in Requests :
        hpc[r] = "returned" /\ (call_func[r] # "none" => ending[r] # "none")
ServedOrStarved == <>Served \/ <>[](~NotStarved)

\* With fewer writes than pool threads, they are served in every case.
AllServed == <>Served

\* The handlers and MMFinish implement the promise about one write.
EffectOf(d) ==
    CASE d = "none" -> "none"
      [] d = "open" -> "tentative"
      [] d = "committed" -> "applied"
      [] d = "rolledback" -> "undone"
      [] d = "lost" -> "lost"
Effect == [r \in Requests |-> [i \in Slaves |-> EffectOf(db[r][i])]]
Verdict == [r \in Requests |->
    IF IsWrite(r) THEN reply[r] ELSE "none"]
AW == INSTANCE AtomicWrite WITH
        asked <- [r \in Requests |-> Contacted(r)],
        verdict <- Verdict, effect <- Effect
ImplementsAtomicWrite == AW!Spec
=============================================================================
