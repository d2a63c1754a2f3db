------------------------- MODULE MasterHandlerProofs -------------------------
(***************************************************************************)
(* Safety of MasterHandler for any number of requests, slaves and pool     *)
(* threads.                                                                *)
(***************************************************************************)
EXTENDS MasterHandler, FiniteSetTheorems, SequenceTheorems, TLAPS

(***************************************************************************)
(* Types.  An answer is made of abandoned futures in no case, because flag  *)
(* is lowered with the first future that MGet abandons.                     *)
(***************************************************************************)
FlagInv == \A r \in Requests : flag[r] => \A i \in Slaves : got[r][i] # "abandoned"

TypeInv == TypeOK /\ FlagInv

LEMMA TaskOfType ==
    ASSUME NEW r \in Requests, NEW i \in 0..NumSlaves,
           NEW name \in {"get", "try", "set", "del", "finish", "_finish"}
    PROVE  TaskOf(name, r, i) \in Task
BY DEF TaskOf, Task

LEMMA AddTaskType ==
    ASSUME TypeOK, NEW r \in Requests, NEW i \in 0..NumSlaves,
           NEW name \in {"get", "try", "set", "del", "finish", "_finish"},
           addTask(name, r, i)
    PROVE  queue' \in Seq(Task)
<1>1. TaskOf(name, r, i) \in Task BY TaskOfType
<1> QED BY <1>1, AppendProperties DEF addTask, TypeOK

LEMMA SlaveIndex == Slaves \subseteq 0..NumSlaves /\ 0 \in 0..NumSlaves /\ 1 \in Slaves
BY HandlerAssumption DEF Slaves

(* One future, or one slave's state, of one request is set.                 *)
LEMMA SetOne ==
    ASSUME NEW X, NEW f \in PerSlaveOf(X),
           NEW r \in Requests, NEW i \in Slaves, NEW x \in X
    PROVE  /\ With(f, r, i, x) \in PerSlaveOf(X)
           /\ \A s \in Requests, j \in Slaves :
                 With(f, r, i, x)[s][j] =
                    IF s = r /\ j = i THEN x ELSE f[s][j]
BY DEF PerSlaveOf, With

LEMMA SetFuture ==
    ASSUME NEW A, NEW f \in Futures(A),
           NEW r \in Requests, NEW i \in Slaves, NEW x \in {"unsent", "pending"} \cup A
    PROVE  /\ With(f, r, i, x) \in Futures(A)
           /\ \A s \in Requests, j \in Slaves :
                 With(f, r, i, x)[s][j] =
                    IF s = r /\ j = i THEN x ELSE f[s][j]
BY SetOne DEF Futures

LEMMA InitType == ASSUME Init PROVE TypeInv
BY HandlerAssumption
   DEF Init, TypeInv, TypeOK, FlagInv, Futures, PerSlaveOf, PerSlave

LEMMA NextType == ASSUME TypeInv, [Next]_vars PROVE TypeInv'
<1> USE DEF TypeInv
<1>1. ASSUME NEW r \in Requests, NEW i \in Slaves, NEW up \in BOOLEAN,
             MGetConnect(r, i, up)
      PROVE  TypeInv'
  <2>1. CASE flag'[r]
    <3>1. queue' \in Seq(Task)
      BY <1>1, <2>1, AddTaskType, SlaveIndex DEF MGetConnect
    <3>2. got' = With(got, r, i, "pending")
      BY <1>1, <2>1 DEF MGetConnect
    <3>3. /\ got' \in Futures(Values \cup {Failed, "abandoned"})
          /\ \A s \in Requests, j \in Slaves :
                got'[s][j] = IF s = r /\ j = i THEN "pending" ELSE got[s][j]
      BY <3>2, SetFuture DEF TypeOK
    <3>4. flag' \in [Requests -> BOOLEAN] /\ \A s \in Requests : flag'[s] => flag[s]
      BY <1>1 DEF MGetConnect, TypeOK
    <3>5. FlagInv' BY <3>3, <3>4 DEF FlagInv
    <3> QED BY <1>1, <3>1, <3>3, <3>4, <3>5 DEF TypeOK, poolVars, finishVars, slaveVars,
        MGetConnect
  <2>2. CASE ~flag'[r]
    <3>1. got' = With(got, r, i, "abandoned") /\ queue' = queue
      BY <1>1, <2>2 DEF MGetConnect
    <3>2. /\ got' \in Futures(Values \cup {Failed, "abandoned"})
          /\ \A s \in Requests, j \in Slaves :
                got'[s][j] = IF s = r /\ j = i THEN "abandoned" ELSE got[s][j]
      BY <3>1, SetFuture DEF TypeOK
    <3>3. /\ flag' \in [Requests -> BOOLEAN]
          /\ \A s \in Requests : flag'[s] => flag[s] /\ s # r
      BY <1>1, <2>2 DEF MGetConnect, TypeOK
    <3>4. FlagInv' BY <3>2, <3>3 DEF FlagInv
    <3> QED BY <1>1, <3>1, <3>2, <3>3, <3>4 DEF TypeOK, poolVars, finishVars, slaveVars,
        MGetConnect
  <2> QED BY <2>1, <2>2
<1>2. ASSUME NEW r \in Requests, NEW i \in Slaves, MTryAdd(r, i)
      PROVE  TypeInv'
  <2>1. queue' \in Seq(Task) BY <1>2, AddTaskType, SlaveIndex DEF MTryAdd
  <2>2. exist' \in Futures({"0", "1"}) BY <1>2, SetFuture DEF MTryAdd, TypeOK
  <2> QED BY <1>2, <2>1, <2>2 DEF TypeOK, FlagInv, poolVars, finishVars, slaveVars,
        MTryAdd
<1>3. ASSUME NEW r \in Requests, NEW i \in Slaves, MWriteAdd(r, i)
      PROVE  TypeInv'
  <2>1. queue' \in Seq(Task)
    <3>1. Op[r] \in {"get", "try", "set", "del", "finish", "_finish"}
      BY HandlerAssumption
    <3> QED BY <1>3, <3>1, AddTaskType, SlaveIndex DEF MWriteAdd
  <2>2. wrote' \in Futures({"success", "fail"})
    BY <1>3, SetFuture DEF MWriteAdd, TypeOK
  <2> QED BY <1>3, <2>1, <2>2 DEF TypeOK, FlagInv, poolVars, finishVars, slaveVars,
        MWriteAdd
<1>4. ASSUME NEW r \in Requests, MGetFail(r) PROVE TypeInv'
  BY <1>4 DEF TypeOK, FlagInv, poolVars, finishVars, slaveVars,
        MGetFail, Return
<1>5. ASSUME NEW r \in Requests, MGetReturn(r) PROVE TypeInv'
  <2>1. got[r][1] \in Values \cup {Failed}
    <3>1. got[r][1] \in {"unsent", "pending", "abandoned", Failed} \cup Values
      BY SlaveIndex DEF TypeOK, Futures, PerSlaveOf
    <3>2. got[r][1] \notin {"unsent", "pending", "abandoned"}
      BY <1>5, SlaveIndex DEF MGetReturn, Resolved, FlagInv
    <3> QED BY <3>1, <3>2
  <2> QED BY <1>5, <2>1 DEF TypeOK, FlagInv, poolVars, finishVars, slaveVars,
        MGetReturn, Return
<1>6. ASSUME NEW r \in Requests, Connect(r) \/ MTryReturn(r) PROVE TypeInv'
  BY <1>6 DEF TypeOK, FlagInv, poolVars, finishVars, slaveVars,
        Connect, MTryReturn, Return
<1>7. ASSUME NEW r \in Requests, MWriteReturn(r) PROVE TypeInv'
  <2>1. queue' \in Seq(Task) BY <1>7, AddTaskType, SlaveIndex DEF MWriteReturn
  <2>2. /\ hpc' \in [Requests -> {"connect", "try", "write", "returned"}]
        /\ reply' \in [Requests -> Values \cup {Failed, "none", "success", "fail"}]
        /\ call_func' \in [Requests -> {"none", "commit", "rollback"}]
    BY <1>7 DEF MWriteReturn, Return, TypeOK
  <2> QED BY <1>7, <2>1, <2>2 DEF TypeOK, FlagInv, poolVars, finishVars, slaveVars,
        MWriteReturn, Return
<1>8. ASSUME NEW w \in Workers, Take(w) PROVE TypeInv'
  <2>1. Head(queue) \in Task /\ Tail(queue) \in Seq(Task)
    BY <1>8, HeadTailProperties DEF Take, TypeOK
  <2> QED BY <1>8, <2>1 DEF TypeOK, FlagInv, poolVars, finishVars, slaveVars,
        Take, BecomeIdle
<1>9. ASSUME NEW w \in Workers, NEW r \in Requests, NEW i \in Slaves,
             MGetFromSlaves(w, r, i)
      PROVE  TypeInv'
  <2>1. PICK a \in Values \cup {Failed} : got' = With(got, r, i, a)
    BY <1>9 DEF MGetFromSlaves
  <2>2. /\ got' \in Futures(Values \cup {Failed, "abandoned"})
        /\ \A s \in Requests, j \in Slaves :
              got'[s][j] = IF s = r /\ j = i THEN a ELSE got[s][j]
    <3>1. got \in Futures(Values \cup {Failed, "abandoned"})
      BY DEF TypeOK
    <3>2. a \in {"unsent", "pending"} \cup (Values \cup {Failed, "abandoned"})
      OBVIOUS
    <3> QED BY <2>1, <3>1, <3>2, SetFuture
  <2>3. a # "abandoned" BY HandlerAssumption
  <2>4. FlagInv' BY <1>9, <2>2, <2>3 DEF MGetFromSlaves, FlagInv
  <2> QED BY <1>9, <2>2, <2>4 DEF TypeOK, poolVars, finishVars, slaveVars,
        MGetFromSlaves, BecomeIdle
<1>10. ASSUME NEW w \in Workers, NEW r \in Requests, NEW i \in Slaves,
              MTryFromSlave(w, r, i)
       PROVE  TypeInv'
  <2>1. exist' \in Futures({"0", "1"})
    BY <1>10, SetFuture DEF MTryFromSlave, TypeOK
  <2> QED BY <1>10, <2>1 DEF TypeOK, FlagInv, poolVars, finishVars, slaveVars,
        MTryFromSlave, BecomeIdle
<1>11. ASSUME NEW w \in Workers, NEW r \in Requests, NEW i \in Slaves,
              MWriteFromSlave(w, r, i)
       PROVE  TypeInv'
  <2>1. wrote' \in Futures({"success", "fail"})
    BY <1>11, SetFuture DEF MWriteFromSlave, TypeOK
  <2>2. /\ db' \in PerSlaveOf({"none", "open", "committed", "rolledback", "lost"})
        /\ late' \in PerSlaveOf({"none", "write", "finish"})
    BY <1>11, SetOne DEF MWriteFromSlave, TypeOK, slaveVars
  <2> QED BY <1>11, <2>1, <2>2 DEF TypeOK, FlagInv, poolVars, finishVars, slaveVars,
        MWriteFromSlave, BecomeIdle
<1>12. ASSUME NEW w \in Workers, NEW r \in Requests, NEW i \in Slaves,
              MFinishFromSlave(w, r, i)
       PROVE  TypeInv'
  <2>1. fin' \in Futures({"success", "fail"})
    BY <1>12, SetFuture DEF MFinishFromSlave, TypeOK
  <2>2. /\ db' \in PerSlaveOf({"none", "open", "committed", "rolledback", "lost"})
        /\ late' \in PerSlaveOf({"none", "write", "finish"})
    BY <1>12, SetOne DEF MFinishFromSlave, Outcome, TypeOK, slaveVars
  <2> QED BY <1>12, <2>1, <2>2 DEF TypeOK, FlagInv, poolVars, finishVars, slaveVars,
        MFinishFromSlave, BecomeIdle
<1>13. ASSUME NEW w \in Workers, NEW r \in Requests, NEW i \in Slaves,
              MFinishAdd(w, r, i)
       PROVE  TypeInv'
  <2>1. queue' \in Seq(Task) BY <1>13, AddTaskType, SlaveIndex DEF MFinishAdd
  <2>2. fin' \in Futures({"success", "fail"})
    BY <1>13, SetFuture DEF MFinishAdd, TypeOK
  <2> QED BY <1>13, <2>1, <2>2 DEF TypeOK, FlagInv, poolVars, finishVars, slaveVars,
        MFinishAdd
<1>14. ASSUME NEW w \in Workers, NEW r \in Requests, MMFinishReturn(w, r)
       PROVE  TypeInv'
  BY <1>14 DEF TypeOK, FlagInv, poolVars, finishVars, slaveVars,
        MMFinishReturn, BecomeIdle
<1>15. ASSUME NEW w \in Workers, NEW r \in Requests, MMFinishRetry(w, r)
       PROVE  TypeInv'
  <2>1. fin' \in Futures({"success", "fail"})
    BY <1>15 DEF MMFinishRetry, TypeOK, Futures, PerSlaveOf
  <2>2. attempt' \in [Requests -> 1..MaxAttempts]
    BY <1>15, HandlerAssumption DEF MMFinishRetry, TypeOK
  <2> QED BY <1>15, <2>1, <2>2 DEF TypeOK, FlagInv, poolVars, finishVars, slaveVars,
        MMFinishRetry
<1>16. ASSUME NEW r \in Requests, NEW i \in Slaves, SlaveLate(r, i) \/ SlaveLoses(r, i)
       PROVE  TypeInv'
  <2>1. /\ db' \in PerSlaveOf({"none", "open", "committed", "rolledback", "lost"})
        /\ late' \in PerSlaveOf({"none", "write", "finish"})
    BY <1>16, SetOne DEF SlaveLate, SlaveLoses, Outcome, TypeOK, slaveVars
  <2> QED BY <1>16, <2>1 DEF TypeOK, FlagInv, poolVars, finishVars, slaveVars,
        SlaveLate, SlaveLoses
<1>17. CASE UNCHANGED vars
  BY <1>17 DEF vars, poolVars, finishVars, slaveVars, TypeOK, FlagInv
<1> QED
  BY <1>1, <1>2, <1>3, <1>4, <1>5, <1>6, <1>7, <1>8, <1>9, <1>10, <1>11, <1>12,
     <1>13, <1>14, <1>15, <1>16, <1>17
     DEF Next, HandlerStep, RunStep, SlaveStep

THEOREM TypeCorrect == Spec => []TypeOK
<1>1. TypeInv => TypeOK BY DEF TypeInv
<1> QED BY <1>1, InitType, NextType, PTL DEF Spec

------------------------------------------------------------------------------
(***************************************************************************)
(* The tasks of the handlers: every future that somebody waits for has one *)
(* task in the pool, and MMFinish leaves a pool thread to run those tasks  *)
(* if there are fewer writes than pool threads.                            *)
(***************************************************************************)
DueInv == \A t \in Task : t \in Pooled <=> IsDue(t)

(* The order in which the phases of one request set its futures.            *)
PhaseInv ==
    \A r \in Requests :
        /\ hpc[r] \in {"try", "write"} => IsWrite(r)
        /\ call_func[r] # "none" => hpc[r] = "returned" /\ IsWrite(r)
        /\ ending[r] # "none" => call_func[r] # "none"
        /\ \A i \in Slaves :
              /\ wrote[r][i] # "unsent" => IsWrite(r)
              /\ fin[r][i] # "unsent" => wrote[r][i] # "unsent"

PoolInv == TypeInv /\ PhaseInv /\ NoneTwice /\ DueInv

------------------------------------------------------------------------------
(* What happens to the pool when a task is added, taken or finished.        *)

LEMMA PoolSame ==
    ASSUME UNCHANGED poolVars, NoneTwice
    PROVE  NoneTwice' /\ Pooled' = Pooled
BY DEF poolVars, NoneTwice, Pooled

LEMMA PoolAdd ==
    ASSUME TypeOK, NoneTwice, NEW t \in Task, t \notin Pooled,
           queue' = Append(queue, t), running' = running
    PROVE  NoneTwice' /\ Pooled' = Pooled \cup {t}
<1> DEFINE n == Len(queue)
<1>1. /\ queue \in Seq(Task) /\ n \in Nat /\ Len(queue') = n + 1
      /\ \A k \in 1..n : queue'[k] = queue[k]
      /\ queue'[n + 1] = t
  BY AppendProperties, LenProperties DEF TypeOK
<1>2. \A k \in 1..(n + 1) : k \in 1..n \/ k = n + 1
  BY <1>1
<1>3. /\ \A k \in 1..n : queue[k] # t
      /\ \A w \in Workers : running[w] # t
  BY IdleAssumption DEF Pooled
<1>4. 1..n \subseteq 1..(n + 1) /\ n + 1 \in 1..(n + 1)
  BY <1>1
<1> HIDE DEF n
<1>5. NoneTwice'
  <2>1. \A j, k \in 1..(n + 1) : queue'[j] = queue'[k] => j = k
    BY <1>1, <1>2, <1>3 DEF NoneTwice, n
  <2>2. \A k \in 1..(n + 1), w \in Workers : queue'[k] # running'[w]
    BY <1>1, <1>2, <1>3 DEF NoneTwice, n
  <2> QED BY <1>1, <2>1, <2>2 DEF NoneTwice
<1>6. {queue'[k] : k \in 1..(n + 1)} = {queue[k] : k \in 1..n} \cup {t}
  BY <1>1, <1>2, <1>4
<1> QED BY <1>1, <1>5, <1>6 DEF Pooled, n

LEMMA PoolTake ==
    ASSUME TypeOK, NoneTwice, NEW w \in Workers, Take(w)
    PROVE  NoneTwice' /\ Pooled' = Pooled
<1> DEFINE n == Len(queue)
<1>1. /\ running[w] = Idle /\ queue # <<>> /\ queue \in Seq(Task)
      /\ queue' = Tail(queue)
      /\ running' = [running EXCEPT ![w] = queue[1]]
      /\ running \in [Workers -> Task \cup {Idle}]
  BY DEF Take, TypeOK
<1>2. /\ n \in Nat /\ n > 0 /\ Len(queue') = n - 1
      /\ \A k \in 1..(n - 1) : queue'[k] = queue[k + 1]
      /\ \A k \in 1..n : queue[k] \in Task
  BY <1>1, HeadTailProperties, EmptySeq, ElementOfSeq, LenProperties
<1>3. /\ \A k \in 1..(n - 1) : k + 1 \in 1..n /\ k + 1 # 1
      /\ \A k \in 1..n : k = 1 \/ (k - 1 \in 1..(n - 1) /\ (k - 1) + 1 = k)
      /\ 1 \in 1..n
  BY <1>2
<1> HIDE DEF n
<1>4. queue[1] # Idle
  BY <1>2, <1>3, IdleAssumption
<1>5. NoneTwice'
  <2>1. \A j, k \in 1..(n - 1) : queue'[j] = queue'[k] => j = k
    BY <1>2, <1>3 DEF NoneTwice, n
  <2>2. \A u, v \in Workers : running'[u] = running'[v] => u = v \/ running'[u] = Idle
    BY <1>1, <1>3 DEF NoneTwice, n
  <2>3. \A k \in 1..(n - 1), v \in Workers : queue'[k] # running'[v]
    BY <1>1, <1>2, <1>3 DEF NoneTwice, n
  <2> QED BY <1>2, <2>1, <2>2, <2>3 DEF NoneTwice
<1>6. {queue[k] : k \in 1..n} = {queue'[k] : k \in 1..(n - 1)} \cup {queue[1]}
  <2>1. \A k \in 1..n : k = 1 \/ queue'[k - 1] = queue[k]
    BY <1>2, <1>3
  <2>2. \A k \in 1..n : queue[k] \in {queue'[j] : j \in 1..(n - 1)} \cup {queue[1]}
    BY <1>3, <2>1
  <2>3. \A k \in 1..(n - 1) : queue'[k] \in {queue[j] : j \in 1..n}
    BY <1>2, <1>3
  <2> QED BY <1>3, <2>2, <2>3
<1>7. {running'[v] : v \in Workers} \ {Idle}
         = ({running[v] : v \in Workers} \ {Idle}) \cup {queue[1]}
  BY <1>1, <1>4
<1> QED BY <1>2, <1>5, <1>6, <1>7 DEF Pooled, n

LEMMA PoolDone ==
    ASSUME TypeOK, NoneTwice, NEW w \in Workers, running[w] # Idle,
           BecomeIdle(w), queue' = queue
    PROVE  NoneTwice' /\ Pooled' = Pooled \ {running[w]}
<1>1. /\ running' = [running EXCEPT ![w] = Idle]
      /\ running \in [Workers -> Task \cup {Idle}]
      /\ \A k \in 1..Len(queue) : queue[k] \in Task
  BY ElementOfSeq DEF BecomeIdle, TypeOK
<1>2. NoneTwice'
  BY <1>1, IdleAssumption DEF NoneTwice
<1>3. \A v \in Workers : v # w => running[v] # running[w]
  BY DEF NoneTwice
<1>4. {running'[v] : v \in Workers} \ {Idle}
         = ({running[v] : v \in Workers} \ {Idle}) \ {running[w]}
  BY <1>1, <1>3
<1>5. running[w] \notin {queue[k] : k \in 1..Len(queue)}
  BY DEF NoneTwice
<1> QED BY <1>2, <1>4, <1>5 DEF Pooled

------------------------------------------------------------------------------
(* How an action keeps DueInv: the tasks that are due change as the pool    *)
(* does.                                                                    *)

LEMMA DueSame ==
    ASSUME NoneTwice, DueInv, UNCHANGED poolVars,
           \A t \in Task : IsDue(t)' <=> IsDue(t)
    PROVE  NoneTwice' /\ DueInv'
BY PoolSame DEF DueInv

LEMMA DueAdd ==
    ASSUME TypeOK, NoneTwice, DueInv,
           NEW r \in Requests, NEW i \in 0..NumSlaves,
           NEW name \in {"get", "try", "set", "del", "finish", "_finish"},
           addTask(name, r, i), running' = running,
           ~IsDue(TaskOf(name, r, i)),
           \A t \in Task : IsDue(t)' <=> IsDue(t) \/ t = TaskOf(name, r, i)
    PROVE  NoneTwice' /\ DueInv'
<1>1. TaskOf(name, r, i) \in Task
  BY TaskOfType
<1>2. TaskOf(name, r, i) \notin Pooled
  BY <1>1 DEF DueInv
<1>3. NoneTwice' /\ Pooled' = Pooled \cup {TaskOf(name, r, i)}
  BY <1>1, <1>2, PoolAdd DEF addTask
<1> QED BY <1>3 DEF DueInv

LEMMA DueDone ==
    ASSUME TypeOK, NoneTwice, DueInv, NEW w \in Workers, running[w] # Idle,
           BecomeIdle(w), queue' = queue,
           \A t \in Task : IsDue(t)' <=> IsDue(t) /\ t # running[w]
    PROVE  NoneTwice' /\ DueInv'
BY PoolDone DEF DueInv

(* What a pool thread runs is due.                                          *)
LEMMA RunsDue ==
    ASSUME TypeOK, DueInv, NEW w \in Workers, NEW r \in Requests,
           NEW i \in 0..NumSlaves, NEW names, Runs(w, names, r, i)
    PROVE  /\ running[w] \in Task
           /\ IsDue(running[w])
           /\ running[w] # Idle
           /\ running[w] = TaskOf(running[w].call_name, r, i)
<1>1. running[w] \in Task /\ running[w] # Idle
  BY DEF Runs, TypeOK
<1>2. running[w] \in Pooled
  BY <1>1 DEF Pooled
<1>3. running[w] = TaskOf(running[w].call_name, r, i)
  BY <1>1 DEF Task, TaskOf, Runs
<1> QED BY <1>1, <1>2, <1>3 DEF DueInv

LEMMA SameTask ==
    ASSUME NEW t \in Task, NEW name, NEW r, NEW i
    PROVE  t = TaskOf(name, r, i) <=> t.call_name = name /\ t.req = r /\ t.slave = i
BY DEF Task, TaskOf

------------------------------------------------------------------------------
LEMMA InitPool == ASSUME Init PROVE PoolInv
<1>1. TypeInv BY InitType
<1>2. queue = <<>> /\ \A w \in Workers : running[w] = Idle
  BY DEF Init
<1>3. 1..Len(queue) = {}
  BY <1>2, EmptySeq
<1>4. NoneTwice
  BY <1>2, <1>3 DEF NoneTwice
<1>5. Pooled = {}
  BY <1>2, <1>3 DEF Pooled
<1>6. DueInv
  BY <1>5 DEF DueInv, IsDue, Task, Init, PerSlave
<1>7. PhaseInv
  BY DEF PhaseInv, Init, PerSlave
<1> QED BY <1>1, <1>4, <1>6, <1>7 DEF PoolInv

LEMMA NextPool == ASSUME PoolInv, [Next]_vars PROVE PoolInv'
<1> SUFFICES PhaseInv' /\ NoneTwice' /\ DueInv'
  BY NextType DEF PoolInv
<1> USE DEF PoolInv, TypeInv
<1>0. /\ "get" \in {"get", "try", "set", "del", "finish", "_finish"}
      /\ "try" \in {"get", "try", "set", "del", "finish", "_finish"}
      /\ \A r \in Requests : Op[r] \in {"get", "try", "set", "del", "finish", "_finish"}
  BY HandlerAssumption
<1>1. ASSUME NEW r \in Requests, NEW i \in Slaves, NEW up \in BOOLEAN,
             MGetConnect(r, i, up)
      PROVE  PhaseInv' /\ NoneTwice' /\ DueInv'
  <2>1. PhaseInv' BY <1>1 DEF MGetConnect, PhaseInv, finishVars
  <2>2. UNCHANGED <<running, exist, wrote, call_func, fin, ending>> /\ got[r][i] = "unsent"
    BY <1>1 DEF MGetConnect, finishVars, NextIn
  <2>3. CASE flag'[r]
    <3>1. got' = With(got, r, i, "pending") /\ addTask("get", r, i)
      BY <1>1, <2>3 DEF MGetConnect
    <3>2. \A s \in Requests, j \in Slaves :
             got'[s][j] = IF s = r /\ j = i THEN "pending" ELSE got[s][j]
      BY <3>1, SetFuture DEF TypeOK
    <3>3. ~IsDue(TaskOf("get", r, i))
      BY <2>2 DEF IsDue, TaskOf, Slaves, PhaseInv, IsWrite
    <3>4. \A t \in Task : IsDue(t)' <=> IsDue(t) \/ t = TaskOf("get", r, i)
      BY <2>2, <3>2, SameTask DEF IsDue, Task
    <3> QED BY <2>1, <2>2, <3>1, <3>3, <3>4, <1>0, SlaveIndex, DueAdd
  <2>4. CASE ~flag'[r]
    <3>1. got' = With(got, r, i, "abandoned") /\ queue' = queue
      BY <1>1, <2>4 DEF MGetConnect
    <3>2. \A s \in Requests, j \in Slaves :
             got'[s][j] = IF s = r /\ j = i THEN "abandoned" ELSE got[s][j]
      BY <3>1, SetFuture DEF TypeOK
    <3>3. \A t \in Task : IsDue(t)' <=> IsDue(t)
      BY <2>2, <3>2 DEF IsDue, Task
    <3> QED BY <2>1, <2>2, <3>1, <3>3, DueSame DEF poolVars
  <2> QED BY <2>3, <2>4
<1>2. ASSUME NEW r \in Requests, NEW i \in Slaves, MTryAdd(r, i)
      PROVE  PhaseInv' /\ NoneTwice' /\ DueInv'
  <2>1. PhaseInv' BY <1>2 DEF MTryAdd, PhaseInv, finishVars
  <2>2. /\ UNCHANGED <<running, got, wrote, call_func, fin, ending>>
        /\ exist[r][i] = "unsent"
        /\ exist' = With(exist, r, i, "pending") /\ addTask("try", r, i)
        /\ hpc[r] = "try"
    BY <1>2 DEF MTryAdd, finishVars, NextIn
  <2>3. \A s \in Requests, j \in Slaves :
           exist'[s][j] = IF s = r /\ j = i THEN "pending" ELSE exist[s][j]
    BY <2>2, SetFuture DEF TypeOK
  <2>4. ~IsDue(TaskOf("try", r, i))
    BY <2>2, HandlerAssumption DEF IsDue, TaskOf, Slaves
  <2>5. \A t \in Task : IsDue(t)' <=> IsDue(t) \/ t = TaskOf("try", r, i)
    BY <2>2, <2>3, SameTask DEF IsDue, Task
  <2> QED BY <2>1, <2>2, <2>4, <2>5, <1>0, SlaveIndex, DueAdd
<1>3. ASSUME NEW r \in Requests, NEW i \in Slaves, MWriteAdd(r, i)
      PROVE  PhaseInv' /\ NoneTwice' /\ DueInv'
  <2>1. /\ UNCHANGED <<running, hpc, got, exist, call_func, fin, ending>>
        /\ wrote[r][i] = "unsent"
        /\ wrote' = With(wrote, r, i, "pending") /\ addTask(Op[r], r, i)
        /\ hpc[r] = "write"
    BY <1>3 DEF MWriteAdd, finishVars, NextIn
  <2>2. IsWrite(r)
    BY <2>1 DEF PhaseInv
  <2>3. \A s \in Requests, j \in Slaves :
           wrote'[s][j] = IF s = r /\ j = i THEN "pending" ELSE wrote[s][j]
    BY <2>1, SetFuture DEF TypeOK
  <2>4. PhaseInv' BY <2>1, <2>2, <2>3 DEF PhaseInv
  <2>5. ~IsDue(TaskOf(Op[r], r, i))
    BY <2>1, <2>2, HandlerAssumption DEF IsDue, TaskOf, Slaves, IsWrite
  <2>6. \A t \in Task : IsDue(t)' <=> IsDue(t) \/ t = TaskOf(Op[r], r, i)
    BY <2>1, <2>3, SameTask DEF IsDue, Task
  <2> QED BY <2>1, <2>4, <2>5, <2>6, <1>0, SlaveIndex, DueAdd
<1>4. ASSUME NEW r \in Requests,
             MGetFail(r) \/ MGetReturn(r) \/ Connect(r) \/ MTryReturn(r)
      PROVE  PhaseInv' /\ NoneTwice' /\ DueInv'
  <2>1. UNCHANGED <<poolVars, got, exist, wrote, call_func, finishVars>>
    BY <1>4 DEF MGetFail, MGetReturn, Connect, MTryReturn
  <2>2. PhaseInv'
    BY <1>4, <2>1 DEF MGetFail, MGetReturn, Connect, MTryReturn, Return, PhaseInv,
          TypeOK, finishVars
  <2>3. \A t \in Task : IsDue(t)' <=> IsDue(t)
    BY <2>1 DEF IsDue, finishVars
  <2> QED BY <2>1, <2>2, <2>3, DueSame
<1>5. ASSUME NEW r \in Requests, MWriteReturn(r)
      PROVE  PhaseInv' /\ NoneTwice' /\ DueInv'
  <2>1. /\ UNCHANGED <<running, got, exist, wrote, fin, ending>>
        /\ addTask("_finish", r, 0)
        /\ hpc[r] = "write"
        /\ hpc' = [hpc EXCEPT ![r] = "returned"]
        /\ \E d \in {"commit", "rollback"} : call_func' = [call_func EXCEPT ![r] = d]
    BY <1>5 DEF MWriteReturn, Return, finishVars
  <2>2. call_func[r] = "none" /\ ending[r] = "none" /\ IsWrite(r)
    BY <2>1 DEF PhaseInv
  <2>3. /\ call_func'[r] # "none"
        /\ \A s \in Requests : s # r => call_func'[s] = call_func[s] /\ hpc'[s] = hpc[s]
        /\ hpc'[r] = "returned"
    BY <2>1 DEF TypeOK
  <2>4. PhaseInv' BY <2>1, <2>2, <2>3 DEF PhaseInv
  <2>5. ~IsDue(TaskOf("_finish", r, 0))
    BY <2>2 DEF IsDue, TaskOf, Slaves
  <2>6. \A t \in Task : IsDue(t)' <=> IsDue(t) \/ t = TaskOf("_finish", r, 0)
    BY <2>1, <2>2, <2>3, SameTask DEF IsDue, Task
  <2> QED BY <2>1, <2>4, <2>5, <2>6, SlaveIndex, DueAdd
<1>6. ASSUME NEW w \in Workers, Take(w)
      PROVE  PhaseInv' /\ NoneTwice' /\ DueInv'
  <2>1. UNCHANGED <<hpc, got, exist, wrote, call_func, fin, ending>>
    BY <1>6 DEF Take, finishVars
  <2>2. PhaseInv' BY <2>1 DEF PhaseInv
  <2>3. \A t \in Task : IsDue(t)' <=> IsDue(t)
    BY <2>1 DEF IsDue
  <2> QED BY <1>6, <2>2, <2>3, PoolTake DEF DueInv
<1>7. ASSUME NEW w \in Workers, NEW r \in Requests, NEW i \in Slaves,
             MGetFromSlaves(w, r, i)
      PROVE  PhaseInv' /\ NoneTwice' /\ DueInv'
  <2>1. /\ Runs(w, {"get"}, r, i) /\ BecomeIdle(w)
        /\ UNCHANGED <<queue, hpc, exist, wrote, call_func, fin, ending>>
    BY <1>7 DEF MGetFromSlaves, finishVars
  <2>2. PICK a \in Values \cup {Failed} : got' = With(got, r, i, a)
    BY <1>7 DEF MGetFromSlaves
  <2>3. \A s \in Requests, j \in Slaves :
           got'[s][j] = IF s = r /\ j = i THEN a ELSE got[s][j]
    <3>1. got \in Futures(Values \cup {Failed, "abandoned"})
      BY DEF TypeOK
    <3>2. a \in {"unsent", "pending"} \cup (Values \cup {Failed, "abandoned"})
      OBVIOUS
    <3> QED BY <2>2, <3>1, <3>2, SetFuture
  <2>4. a # "pending" BY HandlerAssumption
  <2>5. running[w] # Idle /\ running[w] = TaskOf("get", r, i)
    BY <2>1, RunsDue, SlaveIndex DEF Runs
  <2>6. \A t \in Task : IsDue(t)' <=> IsDue(t) /\ t # running[w]
    <3>1. ~(Op[r] = "get" /\ wrote[r][i] = "pending")
      BY DEF PhaseInv, IsWrite
    <3>2. \A t \in Task : t # running[w] <=>
                            ~(t.call_name = "get" /\ t.req = r /\ t.slave = i)
      BY <2>5, SameTask
    <3> QED BY <2>1, <2>3, <2>4, <3>1, <3>2 DEF IsDue, Task, Slaves
  <2>7. PhaseInv' BY <2>1 DEF PhaseInv
  <2> QED BY <2>1, <2>5, <2>6, <2>7, DueDone
<1>8. ASSUME NEW w \in Workers, NEW r \in Requests, NEW i \in Slaves,
             MTryFromSlave(w, r, i)
      PROVE  PhaseInv' /\ NoneTwice' /\ DueInv'
  <2>1. /\ Runs(w, {"try"}, r, i) /\ BecomeIdle(w)
        /\ UNCHANGED <<queue, hpc, got, wrote, call_func, fin, ending>>
    BY <1>8 DEF MTryFromSlave, finishVars
  <2>2. PICK a \in {"0", "1"} : exist' = With(exist, r, i, a)
    BY <1>8 DEF MTryFromSlave
  <2>3. \A s \in Requests, j \in Slaves :
           exist'[s][j] = IF s = r /\ j = i THEN a ELSE exist[s][j]
    <3>1. exist \in Futures({"0", "1"}) BY DEF TypeOK
    <3> QED BY <2>2, <3>1, SetFuture
  <2>4. running[w] # Idle /\ running[w] = TaskOf("try", r, i)
    BY <2>1, RunsDue, SlaveIndex DEF Runs
  <2>5. \A t \in Task : IsDue(t)' <=> IsDue(t) /\ t # running[w]
    <3>1. Op[r] # "try" BY HandlerAssumption
    <3>2. \A t \in Task : t # running[w] <=>
                            ~(t.call_name = "try" /\ t.req = r /\ t.slave = i)
      BY <2>4, SameTask
    <3> QED BY <2>1, <2>3, <3>1, <3>2 DEF IsDue, Task, Slaves
  <2>6. PhaseInv' BY <2>1 DEF PhaseInv
  <2> QED BY <2>1, <2>4, <2>5, <2>6, DueDone
<1>9. ASSUME NEW w \in Workers, NEW r \in Requests, NEW i \in Slaves,
             MWriteFromSlave(w, r, i)
      PROVE  PhaseInv' /\ NoneTwice' /\ DueInv'
  <2>1. /\ Runs(w, {"set", "del"}, r, i) /\ BecomeIdle(w)
        /\ UNCHANGED <<queue, hpc, got, exist, call_func, fin, ending>>
    BY <1>9 DEF MWriteFromSlave, finishVars
  <2>2. PICK a \in {"success", "fail"} : wrote' = With(wrote, r, i, a)
    BY <1>9 DEF MWriteFromSlave
  <2>3. \A s \in Requests, j \in Slaves :
           wrote'[s][j] = IF s = r /\ j = i THEN a ELSE wrote[s][j]
    <3>1. wrote \in Futures({"success", "fail"}) BY DEF TypeOK
    <3> QED BY <2>2, <3>1, SetFuture
  <2>4. /\ running[w] # Idle
        /\ running[w] = TaskOf(Op[r], r, i)
        /\ wrote[r][i] = "pending"
    <3>1. /\ running[w] # Idle /\ IsDue(running[w])
          /\ running[w] = TaskOf(running[w].call_name, r, i)
          /\ running[w].call_name \in {"set", "del"}
      BY <2>1, RunsDue, SlaveIndex DEF Runs
    <3>2. running[w].req = r /\ running[w].slave = i
      BY <2>1 DEF Runs
    <3>3. running[w].call_name = Op[r] /\ wrote[r][i] = "pending"
      BY <3>1, <3>2 DEF IsDue
    <3> QED BY <3>1, <3>3
  <2>5. \A t \in Task : IsDue(t)' <=> IsDue(t) /\ t # running[w]
    <3>1. IsWrite(r) BY <2>4 DEF PhaseInv
    <3>2. \A t \in Task : t # running[w] <=>
                            ~(t.call_name = Op[r] /\ t.req = r /\ t.slave = i)
      BY <2>4, SameTask
    <3> QED BY <2>1, <2>3, <3>1, <3>2 DEF IsDue, Task, Slaves, IsWrite
  <2>6. PhaseInv' BY <2>1, <2>3, <2>4 DEF PhaseInv
  <2> QED BY <2>1, <2>4, <2>5, <2>6, DueDone
<1>10. ASSUME NEW w \in Workers, NEW r \in Requests, NEW i \in Slaves,
              MFinishFromSlave(w, r, i)
       PROVE  PhaseInv' /\ NoneTwice' /\ DueInv'
  <2>1. /\ Runs(w, {"finish"}, r, i) /\ BecomeIdle(w)
        /\ UNCHANGED <<queue, hpc, got, exist, wrote, call_func, ending>>
    BY <1>10 DEF MFinishFromSlave
  <2>2. PICK a \in {"success", "fail"} : fin' = With(fin, r, i, a)
    BY <1>10 DEF MFinishFromSlave
  <2>3. \A s \in Requests, j \in Slaves :
           fin'[s][j] = IF s = r /\ j = i THEN a ELSE fin[s][j]
    <3>1. fin \in Futures({"success", "fail"}) BY DEF TypeOK
    <3> QED BY <2>2, <3>1, SetFuture
  <2>4. running[w] # Idle /\ running[w] = TaskOf("finish", r, i) /\ fin[r][i] = "pending"
    <3>1. /\ running[w] # Idle /\ IsDue(running[w])
          /\ running[w] = TaskOf("finish", r, i)
      BY <2>1, RunsDue, SlaveIndex DEF Runs
    <3>2. Op[r] # "finish" BY HandlerAssumption
    <3> QED BY <3>1, <3>2 DEF IsDue, TaskOf, Slaves
  <2>5. \A t \in Task : IsDue(t)' <=> IsDue(t) /\ t # running[w]
    <3>1. Op[r] # "finish" BY HandlerAssumption
    <3>2. \A t \in Task : t # running[w] <=>
                            ~(t.call_name = "finish" /\ t.req = r /\ t.slave = i)
      BY <2>4, SameTask
    <3> QED BY <2>1, <2>3, <3>1, <3>2 DEF IsDue, Task, Slaves
  <2>6. PhaseInv' BY <2>1, <2>3, <2>4 DEF PhaseInv
  <2> QED BY <2>1, <2>4, <2>5, <2>6, DueDone
<1>11. ASSUME NEW w \in Workers, NEW r \in Requests, NEW i \in Slaves,
              MFinishAdd(w, r, i)
       PROVE  PhaseInv' /\ NoneTwice' /\ DueInv'
  <2>1. /\ UNCHANGED <<running, hpc, got, exist, wrote, call_func, ending>>
        /\ fin[r][i] = "unsent" /\ wrote[r][i] # "unsent"
        /\ fin' = With(fin, r, i, "pending") /\ addTask("finish", r, i)
    BY <1>11 DEF MFinishAdd, NextIn, Contacted
  <2>2. \A s \in Requests, j \in Slaves :
           fin'[s][j] = IF s = r /\ j = i THEN "pending" ELSE fin[s][j]
    BY <2>1, SetFuture DEF TypeOK
  <2>3. PhaseInv' BY <2>1, <2>2 DEF PhaseInv
  <2>4. ~IsDue(TaskOf("finish", r, i))
    BY <2>1, HandlerAssumption DEF IsDue, TaskOf, Slaves
  <2>5. \A t \in Task : IsDue(t)' <=> IsDue(t) \/ t = TaskOf("finish", r, i)
    BY <2>1, <2>2, SameTask DEF IsDue, Task
  <2> QED BY <2>1, <2>3, <2>4, <2>5, SlaveIndex, DueAdd
<1>12. ASSUME NEW w \in Workers, NEW r \in Requests, MMFinishReturn(w, r)
       PROVE  PhaseInv' /\ NoneTwice' /\ DueInv'
  <2>1. /\ Runs(w, {"_finish"}, r, 0) /\ BecomeIdle(w)
        /\ UNCHANGED <<queue, hpc, got, exist, wrote, call_func, fin>>
        /\ \E e \in {"finished", "abandoned"} : ending' = [ending EXCEPT ![r] = e]
    BY <1>12 DEF MMFinishReturn
  <2>2. /\ running[w] # Idle /\ IsDue(running[w])
        /\ running[w] = TaskOf("_finish", r, 0)
    <3>1. 0 \in 0..NumSlaves BY SlaveIndex
    <3>2. /\ running[w] # Idle /\ IsDue(running[w])
          /\ running[w] = TaskOf(running[w].call_name, r, 0)
      BY <2>1, <3>1, RunsDue
    <3>3. running[w].call_name = "_finish" BY <2>1 DEF Runs
    <3> QED BY <3>2, <3>3
  <2>3. call_func[r] # "none"
    BY <2>2 DEF IsDue, TaskOf, Slaves
  <2>4. /\ ending'[r] # "none"
        /\ \A s \in Requests : s # r => ending'[s] = ending[s]
    BY <2>1 DEF TypeOK
  <2>5. \A t \in Task : IsDue(t)' <=> IsDue(t) /\ t # running[w]
    <3>1. \A t \in Task : t # running[w] <=>
                            ~(t.call_name = "_finish" /\ t.req = r /\ t.slave = 0)
      BY <2>2, SameTask
    <3> QED BY <2>1, <2>4, <3>1 DEF IsDue, Task, Slaves
  <2>6. PhaseInv' BY <2>1, <2>3, <2>4 DEF PhaseInv
  <2> QED BY <2>1, <2>2, <2>5, <2>6, DueDone
<1>13. ASSUME NEW w \in Workers, NEW r \in Requests, MMFinishRetry(w, r)
       PROVE  PhaseInv' /\ NoneTwice' /\ DueInv'
  <2>1. /\ UNCHANGED <<poolVars, hpc, got, exist, wrote, call_func, ending>>
        /\ fin' = [fin EXCEPT ![r] = [i \in Slaves |-> "unsent"]]
        /\ \A i \in Slaves : wrote[r][i] # "unsent" => fin[r][i] # "pending"
    BY <1>13 DEF MMFinishRetry, Resolved, Contacted
  <2>2. \A i \in Slaves : fin[r][i] # "pending"
    BY <2>1 DEF PhaseInv
  <2>3. /\ \A i \in Slaves : fin'[r][i] = "unsent"
        /\ \A s \in Requests : s # r => fin'[s] = fin[s]
    BY <2>1 DEF TypeOK, Futures, PerSlaveOf
  <2>4. PhaseInv' BY <2>1, <2>3 DEF PhaseInv
  <2>5. \A t \in Task : IsDue(t)' <=> IsDue(t)
    BY <2>1, <2>2, <2>3 DEF IsDue, Task
  <2> QED BY <2>1, <2>4, <2>5, DueSame
<1>14. ASSUME UNCHANGED <<poolVars, hpc, got, exist, wrote, call_func, finishVars>>
       PROVE  PhaseInv' /\ NoneTwice' /\ DueInv'
  <2>1. PhaseInv' BY <1>14 DEF PhaseInv, finishVars
  <2>2. \A t \in Task : IsDue(t)' <=> IsDue(t)
    BY <1>14 DEF IsDue, finishVars
  <2> QED BY <1>14, <2>1, <2>2, DueSame
<1>15. ASSUME NEW r \in Requests, NEW i \in Slaves, SlaveLate(r, i) \/ SlaveLoses(r, i)
       PROVE  PhaseInv' /\ NoneTwice' /\ DueInv'
  BY <1>14, <1>15 DEF SlaveLate, SlaveLoses
<1>16. CASE UNCHANGED vars
  BY <1>14, <1>16 DEF vars
<1> QED
  BY <1>1, <1>2, <1>3, <1>4, <1>5, <1>6, <1>7, <1>8, <1>9, <1>10, <1>11, <1>12,
     <1>13, <1>15, <1>16
     DEF Next, HandlerStep, RunStep, SlaveStep

(***************************************************************************)
(* Every future that a handler or MFinish waits for has one task in the    *)
(* pool that will set it, and the MMFinish of a decided write is in the    *)
(* pool until it ends.                                                     *)
(***************************************************************************)
THEOREM EveryWaitIsServed == Spec => []PendingHasTask
<1>1. PoolInv => PendingHasTask
  BY DEF PoolInv, DueInv, PendingHasTask
<1> QED BY <1>1, InitPool, NextPool, PTL DEF Spec

(***************************************************************************)
(* The bound that the code does not enforce: with fewer writes than pool   *)
(* threads, MMFinish never occupies all of them.                           *)
(***************************************************************************)
Writes == {r \in Requests : IsWrite(r)}

THEOREM FewWritesSuffice ==
    ASSUME Cardinality(Writes) < Cardinality(Workers)
    PROVE  Spec => []NotStarved
<1>1. PoolInv => NotStarved
  <2> SUFFICES ASSUME PoolInv, \A w \in Workers : Finishing(w)
               PROVE  FALSE
    BY DEF NotStarved
  <2> USE DEF PoolInv, TypeInv
  <2> DEFINE f == [w \in Workers |-> running[w].req]
  <2>1. \A w \in Workers : /\ running[w] \in Task /\ IsDue(running[w])
                           /\ running[w].call_name = "_finish"
    <3>1. \A w \in Workers : running[w] \in Task
      BY DEF Finishing, TypeOK
    <3>2. \A w \in Workers : running[w] \in Pooled
      BY DEF Finishing, Pooled
    <3> QED BY <3>1, <3>2 DEF DueInv, Finishing
  <2>2. \A w \in Workers : /\ running[w].slave = 0
                           /\ call_func[running[w].req] # "none"
                           /\ running[w].req \in Requests
    BY <2>1, HandlerAssumption DEF IsDue, Task
  <2>3. f \in [Workers -> Writes]
    BY <2>2 DEF PhaseInv, Writes
  <2>4. IsFiniteSet(Writes)
    BY HandlerAssumption, FS_Subset DEF Writes
  <2>5. PICK v, w \in Workers : v # w /\ f[v] = f[w]
    <3> HIDE DEF f
    <3>1. IsFiniteSet(Workers) BY HandlerAssumption
    <3> QED BY <2>3, <2>4, <3>1, FS_PigeonHole
  <2>6. running[v] = TaskOf("_finish", running[v].req, 0)
        /\ running[w] = TaskOf("_finish", running[w].req, 0)
    BY <2>1, <2>2, SameTask
  <2>7. running[v] = running[w] /\ running[v] # Idle
    BY <2>1, <2>5, <2>6, IdleAssumption
  <2> QED BY <2>5, <2>7 DEF NoneTwice
<1> QED BY <1>1, InitPool, NextPool, PTL DEF Spec

------------------------------------------------------------------------------
(***************************************************************************)
(* No circular wait but one: the only way in which every handler and every *)
(* pool thread can wait for another is all pool threads inside MMFinish.   *)
(***************************************************************************)
(* future::get() on the futures f of S, all of them handed out, blocks.     *)
Awaits(S, f) == (\A i \in S : f[i] # "unsent") /\ (\E i \in S : f[i] = "pending")

(* HandlerStep(r) has nothing to do until a pool thread sets a future.      *)
HandlerWaits(r) ==
    \/ hpc[r] = "returned"
    \/ hpc[r] = "connect" /\ Op[r] = "get" /\ flag[r] /\ Awaits(Slaves, got[r])
    \/ hpc[r] = "try" /\ Awaits(Slaves, exist[r])
    \/ hpc[r] = "write" /\ Awaits(Targets(r), wrote[r])

(* Nor have Take(w) and RunStep(w).                                         *)
WorkerWaits(w) ==
    \/ running[w] = Idle /\ queue = <<>>
    \/ Finishing(w) /\ Awaits(Contacted(running[w].req), fin[running[w].req])

Stuck == (\A r \in Requests : HandlerWaits(r)) /\ (\A w \in Workers : WorkerWaits(w))

(* A task that is due while all threads wait is an MMFinish, on a thread.   *)
LEMMA StuckTasks ==
    ASSUME PoolInv, Stuck, NotStarved, NEW t \in Task, IsDue(t)
    PROVE  t.call_name = "_finish" /\ \E w \in Workers : running[w] = t /\ Finishing(w)
<1>1. queue = <<>>
  <2>1. PICK w \in Workers : ~Finishing(w) BY DEF NotStarved
  <2> QED BY <2>1 DEF Stuck, WorkerWaits
<1>2. 1..Len(queue) = {} BY <1>1, EmptySeq
<1>3. t \in Pooled BY DEF PoolInv, DueInv
<1>4. PICK w \in Workers : running[w] = t BY <1>2, <1>3 DEF Pooled
<1>5. t # Idle BY IdleAssumption
<1>6. Finishing(w) BY <1>4, <1>5 DEF Stuck, WorkerWaits
<1> QED BY <1>4, <1>6 DEF Finishing

LEMMA StuckServed == ASSUME PoolInv, Stuck, NotStarved PROVE Served
<1>1. ASSUME NEW name \in {"get", "try", "set", "del", "finish"},
             NEW r \in Requests, NEW i \in Slaves, IsDue(TaskOf(name, r, i))
      PROVE  FALSE
  <2>1. TaskOf(name, r, i) \in Task /\ TaskOf(name, r, i).call_name = name
    BY SlaveIndex, TaskOfType DEF TaskOf
  <2> QED BY <1>1, <2>1, StuckTasks
<1>2. ASSUME NEW r \in Requests, hpc[r] # "returned" PROVE FALSE
  <2>0. HandlerWaits(r) /\ Op[r] \in {"get", "set", "del"}
    BY HandlerAssumption DEF Stuck
  <2>1. CASE hpc[r] = "connect" /\ Awaits(Slaves, got[r])
    <3>1. PICK i \in Slaves : got[r][i] = "pending" BY <2>1 DEF Awaits
    <3>2. IsDue(TaskOf("get", r, i)) BY <3>1 DEF IsDue, TaskOf
    <3> QED BY <1>1, <3>2
  <2>2. CASE hpc[r] = "try" /\ Awaits(Slaves, exist[r])
    <3>1. PICK i \in Slaves : exist[r][i] = "pending" BY <2>2 DEF Awaits
    <3>2. IsDue(TaskOf("try", r, i)) BY <3>1 DEF IsDue, TaskOf
    <3> QED BY <1>1, <3>2
  <2>3. CASE hpc[r] = "write" /\ Awaits(Targets(r), wrote[r])
    <3>1. PICK i \in Slaves : wrote[r][i] = "pending" BY <2>3 DEF Awaits, Targets
    <3>2. IsDue(TaskOf(Op[r], r, i)) BY <3>1 DEF IsDue, TaskOf
    <3> QED BY <1>1, <2>0, <3>2
  <2> QED BY <1>2, <2>0, <2>1, <2>2, <2>3 DEF HandlerWaits
<1>3. ASSUME NEW r \in Requests, call_func[r] # "none", ending[r] = "none"
      PROVE  FALSE
  <2>1. IsDue(TaskOf("_finish", r, 0)) BY <1>3 DEF IsDue, TaskOf
  <2>2. TaskOf("_finish", r, 0) \in Task BY SlaveIndex, TaskOfType
  <2>3. PICK w \in Workers : running[w] = TaskOf("_finish", r, 0) /\ Finishing(w)
    BY <2>1, <2>2, StuckTasks
  <2>4. running[w].req = r BY <2>3 DEF TaskOf
  <2>5. running[w] # Idle BY <2>3 DEF Finishing
  <2>6. Awaits(Contacted(r), fin[r]) BY <2>4, <2>5 DEF Stuck, WorkerWaits
  <2>7. PICK i \in Slaves : fin[r][i] = "pending" BY <2>6 DEF Awaits, Contacted
  <2>8. IsDue(TaskOf("finish", r, i)) BY <2>7 DEF IsDue, TaskOf
  <2> QED BY <1>1, <2>8
<1> QED BY <1>2, <1>3 DEF Served

(***************************************************************************)
(* Every deadlock of handlers and pool is a starvation: whenever no handler*)
(* and no pool thread can go on, everything is served or all pool threads  *)
(* are inside MMFinish.                                                    *)
(***************************************************************************)
THEOREM StuckOnlyIfStarved == Spec => [](Stuck => Served \/ ~NotStarved)
<1>1. PoolInv => (Stuck => Served \/ ~NotStarved)
  BY StuckServed
<1> QED BY <1>1, InitPool, NextPool, PTL DEF Spec

(***************************************************************************)
(* So with fewer writes than pool threads, the service never gets stuck    *)
(* before it has served everything.                                        *)
(***************************************************************************)
THEOREM FewWritesNeverStuck ==
    ASSUME Cardinality(Writes) < Cardinality(Workers)
    PROVE  Spec => [](Stuck => Served)
<1>1. Spec => []NotStarved
  BY FewWritesSuffice
<1> QED BY <1>1, StuckOnlyIfStarved, PTL

------------------------------------------------------------------------------
(***************************************************************************)
(* What becomes of a write on several slaves: the slaves that commit agree  *)
(* with each other and with the reply, an MMFinish that ends well has       *)
(* finished every transaction, and the handlers implement AtomicWrite.      *)
(***************************************************************************)
(* The decision about request r, and the answers it stands on.              *)
DecisionInv(r) ==
    /\ IsWrite(r) /\ hpc[r] # "returned" => reply[r] = "none"
    /\ IsWrite(r) => reply[r] \in {"none", "success", "fail"}
    /\ IsWrite(r) /\ reply[r] = "success" => call_func[r] = "commit"
    /\ call_func[r] = "commit" => reply[r] = "success"
    /\ call_func[r] = "rollback" => reply[r] = "fail"

(* What the master knows of slave i, and what has become of the write there.*)
SlaveInv(r, i) ==
    /\ exist[r][i] = "pending" => hpc[r] = "try"
    /\ wrote[r][i] # "unsent" =>
          /\ hpc[r] \in {"write", "returned"}
          /\ Op[r] = "del" => exist[r][i] = "1"
    /\ call_func[r] # "none" => wrote[r][i] # "pending"
    /\ call_func[r] = "commit" => wrote[r][i] \in {"unsent", "success"}
    /\ db[r][i] # "none" \/ late[r][i] # "none" => wrote[r][i] \in {"success", "fail"}
    /\ wrote[r][i] = "success" => db[r][i] # "none"
    /\ late[r][i] = "write" => wrote[r][i] = "fail" /\ db[r][i] = "none"
    /\ late[r][i] = "finish" \/ fin[r][i] # "unsent" => call_func[r] # "none"
    /\ late[r][i] = "finish" => Named(r, i)
    /\ db[r][i] \in {"committed", "rolledback"} =>
          call_func[r] # "none" /\ db[r][i] = Outcome(r)

(* Slave i needs no further finish.                                         *)
Settled(r, i) ==
    \/ db[r][i] = Outcome(r)
    \/ call_func[r] = "rollback" /\ (db[r][i] = "lost" \/ ~Named(r, i))

SettledInv(r, i) ==
    /\ fin[r][i] = "success" => Settled(r, i)
    /\ ending[r] = "finished" /\ wrote[r][i] # "unsent" => Settled(r, i)

WriteInv ==
    \A r \in Requests :
        DecisionInv(r) /\ \A i \in Slaves : SlaveInv(r, i) /\ SettledInv(r, i)

AgreeInv == PoolInv /\ WriteInv

LEMMA InitAgree == ASSUME Init PROVE AgreeInv
<1>1. WriteInv
  BY DEF WriteInv, DecisionInv, SlaveInv, SettledInv, Settled, Init, PerSlave, IsWrite
<1> QED BY <1>1, InitPool DEF AgreeInv

(* A request and a slave that an action leaves alone.                       *)
LEMMA DecisionSame ==
    ASSUME NEW r, DecisionInv(r),
           hpc'[r] = hpc[r], reply'[r] = reply[r], call_func'[r] = call_func[r]
    PROVE  DecisionInv(r)'
BY DEF DecisionInv, IsWrite

LEMMA SlaveSame ==
    ASSUME NEW r, NEW i, SlaveInv(r, i), SettledInv(r, i),
           hpc'[r] = hpc[r], call_func'[r] = call_func[r], ending'[r] = ending[r],
           exist'[r][i] = exist[r][i], wrote'[r][i] = wrote[r][i],
           fin'[r][i] = fin[r][i], db'[r][i] = db[r][i], late'[r][i] = late[r][i]
    PROVE  SlaveInv(r, i)' /\ SettledInv(r, i)'
BY DEF SlaveInv, SettledInv, Settled, Outcome, Named

(* With at every request and slave.                                         *)
LEMMA WithAt ==
    ASSUME TypeOK, NEW r \in Requests, NEW i \in Slaves
    PROVE  \A x : \A s \in Requests, j \in Slaves :
              LET at(f) == IF s = r /\ j = i THEN x ELSE f[s][j]
              IN  /\ With(wrote, r, i, x)[s][j] = at(wrote)
                  /\ With(fin, r, i, x)[s][j] = at(fin)
                  /\ With(db, r, i, x)[s][j] = at(db)
                  /\ With(late, r, i, x)[s][j] = at(late)
BY DEF TypeOK, Futures, PerSlaveOf, With

LEMMA NextAgree == ASSUME AgreeInv, [Next]_vars PROVE AgreeInv'
<1> SUFFICES WriteInv'
  BY NextPool DEF AgreeInv
<1> USE DEF AgreeInv, PoolInv, TypeInv
<1>1. ASSUME UNCHANGED <<hpc, exist, wrote, reply, call_func, fin, ending, slaveVars>>
      PROVE  WriteInv'
  BY <1>1, DecisionSame, SlaveSame DEF WriteInv, slaveVars
<1>2. ASSUME NEW r \in Requests, NEW i \in Slaves, NEW up \in BOOLEAN,
             MGetConnect(r, i, up)
      PROVE  WriteInv'
  BY <1>1, <1>2 DEF MGetConnect, finishVars
<1>3. ASSUME NEW r \in Requests, MGetFail(r) \/ MGetReturn(r)
      PROVE  WriteInv'
  <2>1. /\ UNCHANGED <<exist, wrote, call_func, fin, ending, slaveVars>>
        /\ hpc[r] = "connect" /\ ~IsWrite(r)
        /\ hpc' = [hpc EXCEPT ![r] = "returned"]
        /\ \A s \in Requests : s # r => reply'[s] = reply[s]
    BY <1>3 DEF MGetFail, MGetReturn, Return, finishVars, IsWrite, TypeOK
  <2>2. \A s \in Requests : s # r => hpc'[s] = hpc[s]
    BY <2>1 DEF TypeOK
  <2>3. hpc'[r] = "returned" /\ call_func[r] = "none"
    BY <2>1 DEF TypeOK, PhaseInv
  <2>4. \A s \in Requests : DecisionInv(s)'
    BY <2>1, <2>2, <2>3 DEF WriteInv, DecisionInv, IsWrite
  <2>5. \A s \in Requests, j \in Slaves : SlaveInv(s, j)' /\ SettledInv(s, j)'
    BY <2>1, <2>2, <2>3, SlaveSame DEF WriteInv, SlaveInv, SettledInv, Settled,
       Outcome, Named, slaveVars
  <2> QED BY <2>4, <2>5 DEF WriteInv
<1>4. ASSUME NEW r \in Requests, Connect(r)
      PROVE  WriteInv'
  <2>1. /\ UNCHANGED <<exist, wrote, call_func, fin, ending, slaveVars>>
        /\ hpc[r] = "connect" /\ IsWrite(r)
        /\ \A s \in Requests : s # r => reply'[s] = reply[s] /\ hpc'[s] = hpc[s]
        /\ \/ hpc'[r] = "try" /\ reply'[r] = reply[r]
           \/ hpc'[r] = "returned" /\ reply'[r] = "fail"
    BY <1>4 DEF Connect, Return, finishVars, TypeOK
  <2>2. call_func[r] = "none"
    BY <2>1 DEF TypeOK, PhaseInv
  <2>3. \A s \in Requests : DecisionInv(s)'
    BY <2>1, <2>2 DEF WriteInv, DecisionInv, IsWrite
  <2>4. \A s \in Requests, j \in Slaves : SlaveInv(s, j)' /\ SettledInv(s, j)'
    BY <2>1, <2>2, SlaveSame DEF WriteInv, SlaveInv, SettledInv, Settled,
       Outcome, Named, slaveVars
  <2> QED BY <2>3, <2>4 DEF WriteInv
<1>5. ASSUME NEW r \in Requests, NEW i \in Slaves, MTryAdd(r, i)
      PROVE  WriteInv'
  <2>1. /\ UNCHANGED <<hpc, wrote, reply, call_func, fin, ending, slaveVars>>
        /\ hpc[r] = "try"
        /\ exist' = With(exist, r, i, "pending")
    BY <1>5 DEF MTryAdd, finishVars
  <2>2. \A s \in Requests, j \in Slaves :
           exist'[s][j] = IF s = r /\ j = i THEN "pending" ELSE exist[s][j]
    BY <2>1, SetFuture DEF TypeOK
  <2>3. \A s \in Requests : DecisionInv(s)'
    BY <2>1, DecisionSame DEF WriteInv
  <2>4. \A s \in Requests, j \in Slaves : SlaveInv(s, j)' /\ SettledInv(s, j)'
    BY <2>1, <2>2 DEF WriteInv, SlaveInv, SettledInv, Settled,
       Outcome, Named, slaveVars
  <2> QED BY <2>3, <2>4 DEF WriteInv
<1>6. ASSUME NEW r \in Requests, MTryReturn(r)
      PROVE  WriteInv'
  <2>1. /\ UNCHANGED <<exist, wrote, reply, call_func, fin, ending, slaveVars>>
        /\ hpc[r] = "try" /\ hpc'[r] = "write"
        /\ \A s \in Requests : s # r => hpc'[s] = hpc[s]
        /\ \A i \in Slaves : exist[r][i] # "pending"
    BY <1>6 DEF MTryReturn, Resolved, finishVars, TypeOK
  <2>2. \A s \in Requests : DecisionInv(s)'
    BY <2>1 DEF WriteInv, DecisionInv, IsWrite
  <2>3. \A s \in Requests, j \in Slaves : SlaveInv(s, j)' /\ SettledInv(s, j)'
    BY <2>1 DEF WriteInv, SlaveInv, SettledInv, Settled, Outcome, Named, slaveVars
  <2> QED BY <2>2, <2>3 DEF WriteInv
<1>7. ASSUME NEW r \in Requests, NEW i \in Slaves, MWriteAdd(r, i)
      PROVE  WriteInv'
  <2>1. /\ UNCHANGED <<hpc, exist, reply, call_func, fin, ending, slaveVars>>
        /\ hpc[r] = "write" /\ wrote[r][i] = "unsent"
        /\ Op[r] = "del" => exist[r][i] = "1"
        /\ wrote' = With(wrote, r, i, "pending")
    BY <1>7 DEF MWriteAdd, finishVars, NextIn, Targets
  <2>2. \A s \in Requests, j \in Slaves :
           wrote'[s][j] = IF s = r /\ j = i THEN "pending" ELSE wrote[s][j]
    BY <2>1, SetFuture DEF TypeOK
  <2>3. call_func[r] = "none" /\ ending[r] = "none" /\ fin[r][i] = "unsent"
    BY <2>1 DEF PhaseInv
  <2>4. \A s \in Requests : DecisionInv(s)'
    BY <2>1, DecisionSame DEF WriteInv
  <2>5. \A s \in Requests, j \in Slaves : SlaveInv(s, j)' /\ SettledInv(s, j)'
    BY <2>1, <2>2, <2>3 DEF WriteInv, SlaveInv, SettledInv, Settled,
       Outcome, Named, slaveVars
  <2> QED BY <2>4, <2>5 DEF WriteInv
<1>8. ASSUME NEW r \in Requests, MWriteReturn(r)
      PROVE  WriteInv'
  <2>1. /\ UNCHANGED <<exist, wrote, fin, ending, slaveVars>>
        /\ hpc[r] = "write" /\ hpc'[r] = "returned"
        /\ \A s \in Requests :
              s # r => /\ hpc'[s] = hpc[s] /\ reply'[s] = reply[s]
                       /\ call_func'[s] = call_func[s]
        /\ \/ reply'[r] = "success" /\ call_func'[r] = "commit" /\ AllWritten(r)
           \/ reply'[r] = "fail" /\ call_func'[r] = "rollback"
    BY <1>8 DEF MWriteReturn, Return, finishVars, TypeOK
  <2>2. /\ call_func[r] = "none" /\ ending[r] = "none" /\ IsWrite(r)
        /\ \A i \in Slaves : fin[r][i] = "unsent"
    BY <2>1 DEF PhaseInv, WriteInv, SlaveInv
  <2>3. \A i \in Slaves :
           /\ wrote[r][i] # "pending"
           /\ call_func'[r] = "commit" => wrote[r][i] \in {"unsent", "success"}
    BY <1>8, <2>1 DEF MWriteReturn, Resolved, AllWritten, Targets, WriteInv, SlaveInv
  <2>4. \A s \in Requests : DecisionInv(s)'
    BY <2>1 DEF WriteInv, DecisionInv, IsWrite
  <2>5. \A s \in Requests, j \in Slaves : SlaveInv(s, j)' /\ SettledInv(s, j)'
    BY <2>1, <2>2, <2>3 DEF WriteInv, SlaveInv, SettledInv, Settled,
       Outcome, Named, slaveVars
  <2> QED BY <2>4, <2>5 DEF WriteInv
<1>9. ASSUME NEW w \in Workers, NEW r \in Requests, NEW i \in Slaves,
             MTryFromSlave(w, r, i)
      PROVE  WriteInv'
  <2>1. /\ UNCHANGED <<hpc, wrote, reply, call_func, fin, ending, slaveVars>>
        /\ Runs(w, {"try"}, r, i)
    BY <1>9 DEF MTryFromSlave, finishVars
  <2>2. PICK a \in {"0", "1"} : exist' = With(exist, r, i, a)
    BY <1>9 DEF MTryFromSlave
  <2>3. \A s \in Requests, j \in Slaves :
           exist'[s][j] = IF s = r /\ j = i THEN a ELSE exist[s][j]
    <3>1. exist \in Futures({"0", "1"}) BY DEF TypeOK
    <3> QED BY <2>2, <3>1, SetFuture
  <2>4. hpc[r] = "try"
    <3>1. IsDue(running[w]) /\ running[w].call_name = "try"
          /\ running[w].req = r /\ running[w].slave = i
      BY <2>1, RunsDue, SlaveIndex DEF Runs
    <3>2. exist[r][i] = "pending"
      BY <3>1, HandlerAssumption DEF IsDue
    <3> QED BY <3>2 DEF WriteInv, SlaveInv
  <2>5. \A s \in Requests : DecisionInv(s)'
    BY <2>1, DecisionSame DEF WriteInv
  <2>6. \A s \in Requests, j \in Slaves : SlaveInv(s, j)' /\ SettledInv(s, j)'
    BY <2>1, <2>3, <2>4 DEF WriteInv, SlaveInv, SettledInv, Settled,
       Outcome, Named, slaveVars
  <2> QED BY <2>5, <2>6 DEF WriteInv
<1>10. ASSUME NEW w \in Workers, NEW r \in Requests, NEW i \in Slaves,
              MWriteFromSlave(w, r, i)
       PROVE  WriteInv'
  <2>1. /\ UNCHANGED <<hpc, exist, reply, call_func, fin, ending>>
        /\ Runs(w, {"set", "del"}, r, i)
    BY <1>10 DEF MWriteFromSlave, finishVars
  <2>2. /\ wrote[r][i] = "pending"
        /\ db[r][i] = "none" /\ late[r][i] = "none" /\ call_func[r] = "none"
        /\ fin[r][i] = "unsent" /\ ending[r] = "none"
    <3>1. IsDue(running[w]) /\ running[w].call_name \in {"set", "del"}
          /\ running[w].req = r /\ running[w].slave = i
      BY <2>1, RunsDue, SlaveIndex DEF Runs
    <3>2. wrote[r][i] = "pending"
      BY <3>1 DEF IsDue
    <3> QED BY <3>2 DEF WriteInv, SlaveInv, PhaseInv
  <2>3. \A s \in Requests, j \in Slaves :
           s # r \/ j # i => /\ wrote'[s][j] = wrote[s][j]
                             /\ db'[s][j] = db[s][j] /\ late'[s][j] = late[s][j]
    BY <1>10, WithAt DEF MWriteFromSlave
  <2>4. \/ wrote'[r][i] = "success" /\ db'[r][i] = "open" /\ late'[r][i] = "none"
        \/ wrote'[r][i] = "fail" /\ db'[r][i] = "none" /\ late'[r][i] = "none"
        \/ wrote'[r][i] = "fail" /\ db'[r][i] = "none" /\ late'[r][i] = "write"
    BY <1>10, <2>2, WithAt DEF MWriteFromSlave
  <2>5. \A s \in Requests : DecisionInv(s)'
    BY <2>1, DecisionSame DEF WriteInv
  <2>6. SlaveInv(r, i)' /\ SettledInv(r, i)'
    BY <2>1, <2>2, <2>4 DEF WriteInv, SlaveInv, SettledInv, Settled, Outcome, Named
  <2>7. \A s \in Requests, j \in Slaves : SlaveInv(s, j)' /\ SettledInv(s, j)'
    BY <2>1, <2>3, <2>6, SlaveSame DEF WriteInv
  <2> QED BY <2>5, <2>7 DEF WriteInv
<1>11. ASSUME NEW w \in Workers, NEW r \in Requests, NEW i \in Slaves,
              MFinishFromSlave(w, r, i)
       PROVE  WriteInv'
  <2>1. /\ UNCHANGED <<hpc, exist, wrote, reply, call_func, ending>>
        /\ Runs(w, {"finish"}, r, i)
    BY <1>11 DEF MFinishFromSlave
  <2>2. fin[r][i] = "pending" /\ call_func[r] # "none" /\ wrote[r][i] # "unsent"
    <3>1. IsDue(running[w]) /\ running[w].call_name = "finish"
          /\ running[w].req = r /\ running[w].slave = i
      BY <2>1, RunsDue, SlaveIndex DEF Runs
    <3>2. fin[r][i] = "pending"
      BY <3>1, HandlerAssumption DEF IsDue, Slaves
    <3> QED BY <3>2 DEF WriteInv, SlaveInv, PhaseInv
  <2>3. \A s \in Requests, j \in Slaves :
           s # r \/ j # i => /\ fin'[s][j] = fin[s][j]
                             /\ db'[s][j] = db[s][j] /\ late'[s][j] = late[s][j]
    BY <1>11, WithAt DEF MFinishFromSlave, slaveVars
  <2>4. \/ /\ Named(r, i) /\ db[r][i] \in {"open", Outcome(r)}
           /\ db'[r][i] = Outcome(r) /\ fin'[r][i] = "success"
           /\ late'[r][i] = late[r][i]
        \/ /\ ~Named(r, i) \/ (call_func[r] = "rollback" /\ db[r][i] = "lost")
           /\ fin'[r][i] = "success"
           /\ late'[r][i] = late[r][i] /\ db'[r][i] = db[r][i]
        \/ /\ fin'[r][i] = "fail"
           /\ late'[r][i] = late[r][i] /\ db'[r][i] = db[r][i]
        \/ /\ fin'[r][i] = "fail"
           /\ Named(r, i)
           /\ late'[r][i] = "finish" /\ db'[r][i] = db[r][i]
    BY <1>11, WithAt DEF MFinishFromSlave, slaveVars
  <2>5. \A s \in Requests : DecisionInv(s)'
    BY <2>1, DecisionSame DEF WriteInv
  <2>6. call_func[r] \in {"commit", "rollback"} BY <2>2 DEF TypeOK
  <2>7. SlaveInv(r, i)' /\ SettledInv(r, i)'
    BY <2>1, <2>2, <2>4, <2>6
       DEF WriteInv, SlaveInv, SettledInv, Settled, Outcome, Named
  <2>8. \A s \in Requests, j \in Slaves : SlaveInv(s, j)' /\ SettledInv(s, j)'
    BY <2>1, <2>3, <2>7, SlaveSame DEF WriteInv
  <2> QED BY <2>5, <2>8 DEF WriteInv
<1>12. ASSUME NEW w \in Workers, NEW r \in Requests, NEW i \in Slaves,
              MFinishAdd(w, r, i)
       PROVE  WriteInv'
  <2>1. /\ UNCHANGED <<hpc, exist, wrote, reply, call_func, ending, slaveVars>>
        /\ Runs(w, {"_finish"}, r, 0)
        /\ fin' = With(fin, r, i, "pending")
    BY <1>12 DEF MFinishAdd
  <2>2. call_func[r] # "none"
    <3>1. 0 \in 0..NumSlaves BY SlaveIndex
    <3>2. IsDue(running[w])
      BY <2>1, <3>1, RunsDue
    <3> QED BY <2>1, <3>2 DEF IsDue, Runs, Slaves
  <2>3. \A s \in Requests, j \in Slaves :
           fin'[s][j] = IF s = r /\ j = i THEN "pending" ELSE fin[s][j]
    BY <2>1, SetFuture DEF TypeOK
  <2>4. \A s \in Requests : DecisionInv(s)'
    BY <2>1, DecisionSame DEF WriteInv
  <2>5. \A s \in Requests, j \in Slaves : SlaveInv(s, j)' /\ SettledInv(s, j)'
    BY <2>1, <2>2, <2>3 DEF WriteInv, SlaveInv, SettledInv, Settled,
       Outcome, Named, slaveVars
  <2> QED BY <2>4, <2>5 DEF WriteInv
<1>13. ASSUME NEW w \in Workers, NEW r \in Requests, MMFinishReturn(w, r)
       PROVE  WriteInv'
  <2>1. /\ UNCHANGED <<hpc, exist, wrote, reply, call_func, fin, slaveVars>>
        /\ \A s \in Requests : s # r => ending'[s] = ending[s]
        /\ ending'[r] = "finished" => AllFinished(r)
    BY <1>13 DEF MMFinishReturn, TypeOK
  <2>2. \A s \in Requests : DecisionInv(s)'
    BY <2>1, DecisionSame DEF WriteInv
  <2>3. \A s \in Requests, j \in Slaves : SlaveInv(s, j)' /\ SettledInv(s, j)'
    BY <2>1 DEF WriteInv, SlaveInv, SettledInv, Settled, Outcome, Named, slaveVars,
       AllFinished, Contacted
  <2> QED BY <2>2, <2>3 DEF WriteInv
<1>14. ASSUME NEW w \in Workers, NEW r \in Requests, MMFinishRetry(w, r)
       PROVE  WriteInv'
  <2>1. /\ UNCHANGED <<hpc, exist, wrote, reply, call_func, ending, slaveVars>>
        /\ \A s \in Requests, j \in Slaves :
              fin'[s][j] = IF s = r THEN "unsent" ELSE fin[s][j]
    BY <1>14 DEF MMFinishRetry, TypeOK, Futures, PerSlaveOf
  <2>2. \A s \in Requests : DecisionInv(s)'
    BY <2>1, DecisionSame DEF WriteInv
  <2>3. \A s \in Requests, j \in Slaves : SlaveInv(s, j)' /\ SettledInv(s, j)'
    BY <2>1 DEF WriteInv, SlaveInv, SettledInv, Settled, Outcome, Named, slaveVars
  <2> QED BY <2>2, <2>3 DEF WriteInv
<1>15. ASSUME NEW r \in Requests, NEW i \in Slaves, SlaveLate(r, i) \/ SlaveLoses(r, i)
       PROVE  WriteInv'
  <2>1. UNCHANGED <<hpc, exist, wrote, reply, call_func, fin, ending>>
    BY <1>15 DEF SlaveLate, SlaveLoses, finishVars
  <2>2. \A s \in Requests, j \in Slaves :
           s # r \/ j # i => db'[s][j] = db[s][j] /\ late'[s][j] = late[s][j]
    BY <1>15, WithAt DEF SlaveLate, SlaveLoses
  <2>3. \/ late'[r][i] = "none" /\ db'[r][i] = db[r][i]
        \/ /\ late[r][i] = "write"
           /\ late'[r][i] = "none" /\ db'[r][i] = "open"
        \/ /\ late[r][i] = "finish" /\ db[r][i] = "open"
           /\ late'[r][i] = "none" /\ db'[r][i] = Outcome(r)
        \/ /\ db[r][i] = "open"
           /\ late'[r][i] = late[r][i] /\ db'[r][i] = "lost"
    BY <1>15, WithAt DEF SlaveLate, SlaveLoses
  <2>4. \A s \in Requests : DecisionInv(s)'
    BY <2>1, DecisionSame DEF WriteInv
  <2>5. call_func[r] \in {"none", "commit", "rollback"} BY DEF TypeOK
  <2>6. SlaveInv(r, i)' /\ SettledInv(r, i)'
    BY <2>1, <2>3, <2>5 DEF WriteInv, SlaveInv, SettledInv, Settled, Outcome, Named
  <2>7. \A s \in Requests, j \in Slaves : SlaveInv(s, j)' /\ SettledInv(s, j)'
    BY <2>1, <2>2, <2>6, SlaveSame DEF WriteInv
  <2> QED BY <2>4, <2>7 DEF WriteInv
<1>16. ASSUME NEW w \in Workers,
              Take(w) \/ \E r \in Requests, i \in Slaves : MGetFromSlaves(w, r, i)
       PROVE  WriteInv'
  BY <1>1, <1>16 DEF Take, MGetFromSlaves, finishVars
<1>17. CASE UNCHANGED vars
  BY <1>1, <1>17 DEF vars, finishVars
<1> QED
  BY <1>2, <1>3, <1>4, <1>5, <1>6, <1>7, <1>8, <1>9, <1>10, <1>11, <1>12,
     <1>13, <1>14, <1>15, <1>16, <1>17
     DEF Next, HandlerStep, RunStep, SlaveStep

LEMMA AgreeAlways == Spec => []AgreeInv
BY InitAgree, NextAgree, PTL DEF Spec

(***************************************************************************)
(* A slave commits only what every slave that was asked has executed, after*)
(* the client was told "success", and then none is made to roll it back.   *)
(***************************************************************************)
THEOREM SlavesAgree == Spec => []Agreement
<1>1. AgreeInv => Agreement
  <2> SUFFICES ASSUME AgreeInv, NEW r \in Requests, NEW i \in Slaves,
                      db[r][i] = "committed"
               PROVE  /\ reply[r] = "success"
                      /\ \A j \in Contacted(r) :
                            wrote[r][j] = "success" /\ db[r][j] # "rolledback"
    BY DEF Agreement
  <2>1. call_func[r] = "commit"
    BY DEF AgreeInv, WriteInv, SlaveInv, Outcome
  <2> QED BY <2>1 DEF AgreeInv, WriteInv, DecisionInv, SlaveInv, Outcome, Contacted
<1> QED BY <1>1, AgreeAlways, PTL

(***************************************************************************)
(* When MMFinish ends before its bound, every transaction that the master  *)
(* can name has reached its outcome.                                       *)
(***************************************************************************)
THEOREM FinishedMeansDone == Spec => []FinishedIsDone
<1>1. AgreeInv => FinishedIsDone
  BY DEF AgreeInv, WriteInv, SettledInv, Settled, FinishedIsDone, Contacted
<1> QED BY <1>1, AgreeAlways, PTL

------------------------------------------------------------------------------
(* The handlers implement AtomicWrite.                                      *)

LEMMA InitAtomic == ASSUME Init PROVE AW!Init
BY DEF Init, AW!Init, PerSlave, Contacted, Verdict, Effect, EffectOf

(* A step that leaves alone what AtomicWrite sees.                          *)
LEMMA AtomicSame ==
    ASSUME UNCHANGED <<wrote, db>>,
           \A r \in Requests : IsWrite(r) => reply'[r] = reply[r]
    PROVE  UNCHANGED AW!vars
<1>1. \A r \in Requests : Contacted(r)' = Contacted(r)
  BY DEF Contacted
<1>2. Verdict' = Verdict
  BY DEF Verdict, IsWrite
<1>3. Effect' = Effect
  BY DEF Effect
<1> QED BY <1>1, <1>2, <1>3 DEF AW!vars

(* The effect of a step at one slave.                                       *)
LEMMA EffectAt ==
    ASSUME TypeOK, NEW r \in Requests, NEW i \in Slaves,
           \A s \in Requests, j \in Slaves : s # r \/ j # i => db'[s][j] = db[s][j],
           db[r][i] # db'[r][i]
    PROVE  /\ Effect' = [Effect EXCEPT ![r] = [@ EXCEPT ![i] = Effect'[r][i]]]
           /\ db'[r][i] = "open" => Effect'[r][i] = "tentative"
           /\ db'[r][i] = "committed" => Effect'[r][i] = "applied"
           /\ db'[r][i] = "rolledback" => Effect'[r][i] = "undone"
           /\ db'[r][i] = "lost" => Effect'[r][i] = "lost"
           /\ db[r][i] = "none" => Effect[r][i] = "none"
           /\ db[r][i] = "open" => Effect[r][i] = "tentative"
<1>1. /\ Effect = [s \in Requests |-> Effect[s]]
      /\ Effect' = [s \in Requests |-> Effect'[s]]
  BY DEF Effect
<1>2. \A s \in Requests :
         /\ Effect[s] = [j \in Slaves |-> Effect[s][j]]
         /\ Effect'[s] = [j \in Slaves |-> Effect'[s][j]]
  BY DEF Effect
<1>3. \A s \in Requests, j \in Slaves :
         s # r \/ j # i => Effect'[s][j] = Effect[s][j]
  BY DEF Effect
<1> DEFINE new == [Effect[r] EXCEPT ![i] = Effect'[r][i]]
<1>4. Effect'[r] = new
  <2>1. new = [j \in Slaves |-> IF j = i THEN Effect'[r][i] ELSE Effect[r][j]]
    BY <1>2
  <2> QED BY <1>2, <1>3, <2>1
<1>5. \A s \in Requests : s # r => Effect'[s] = Effect[s]
  <2> SUFFICES ASSUME NEW s \in Requests, s # r PROVE Effect'[s] = Effect[s]
    OBVIOUS
  <2>1. /\ Effect[s] = [j \in Slaves |-> Effect[s][j]]
        /\ Effect'[s] = [j \in Slaves |-> Effect'[s][j]]
        /\ \A j \in Slaves : Effect'[s][j] = Effect[s][j]
    BY <1>2, <1>3
  <2> DEFINE a == Effect[s]
             b == Effect'[s]
  <2>2. a = [j \in Slaves |-> a[j]] /\ b = [j \in Slaves |-> b[j]]
        /\ \A j \in Slaves : b[j] = a[j]
    BY <2>1
  <2> HIDE DEF a, b
  <2>3. a = b BY <2>2
  <2> QED BY <2>3 DEF a, b
<1>6. Effect' = [Effect EXCEPT ![r] = new]
  <2> HIDE DEF new
  <2>1. [Effect EXCEPT ![r] = new] = [s \in Requests |-> IF s = r THEN new ELSE Effect[s]]
    BY <1>1
  <2> QED BY <1>1, <1>4, <1>5, <2>1
<1> QED BY <1>6 DEF Effect, EffectOf

LEMMA NextAtomic == ASSUME AgreeInv, [Next]_vars PROVE [AW!Next]_(AW!vars)
<1> USE DEF AgreeInv, PoolInv, TypeInv
<1>1. ASSUME NEW r \in Requests, NEW i \in Slaves, MWriteAdd(r, i)
      PROVE  AW!Next
  <2>1. /\ UNCHANGED <<reply, db>>
        /\ hpc[r] = "write"
        /\ wrote' = With(wrote, r, i, "pending")
    BY <1>1 DEF MWriteAdd, slaveVars
  <2>2. \A s \in Requests, j \in Slaves :
           wrote'[s][j] = IF s = r /\ j = i THEN "pending" ELSE wrote[s][j]
    BY <2>1, WithAt
  <2>3. /\ Contacted(r)' = Contacted(r) \cup {i}
        /\ \A s \in Requests : s # r => Contacted(s)' = Contacted(s)
    BY <2>2 DEF Contacted
  <2>4. Verdict[r] = "none" /\ Verdict' = Verdict /\ Effect' = Effect
    BY <2>1 DEF Verdict, Effect, IsWrite, WriteInv, DecisionInv, PhaseInv
  <2>5. AW!Ask(r, i)
    BY <2>3, <2>4 DEF AW!Ask
  <2> QED BY <2>5 DEF AW!Next
<1>2. ASSUME NEW r \in Requests, NEW v \in {"success", "fail"},
             UNCHANGED <<wrote, db>>, IsWrite(r), hpc[r] # "returned",
             reply' = [reply EXCEPT ![r] = v],
             v = "success" => /\ AllWritten(r)
                              /\ hpc[r] = "write"
      PROVE  AW!Next
  <2>1. Effect' = Effect /\ \A s \in Requests : Contacted(s)' = Contacted(s)
    BY <1>2 DEF Effect, Contacted
  <2>2. Verdict[r] = "none"
    BY <1>2 DEF Verdict, WriteInv, DecisionInv
  <2>3. Verdict' = [Verdict EXCEPT ![r] = v]
    BY <1>2 DEF Verdict, IsWrite, TypeOK
  <2>4. v = "success" => \A i \in Contacted(r) : Effect[r][i] \in {"tentative", "lost"}
    <3> SUFFICES ASSUME v = "success", NEW i \in Slaves, wrote[r][i] # "unsent"
                 PROVE  Effect[r][i] \in {"tentative", "lost"}
      BY DEF Contacted
    <3>1. i \in Targets(r) /\ wrote[r][i] = "success"
      BY <1>2 DEF AllWritten, Targets, WriteInv, SlaveInv
    <3>2. call_func[r] = "none"
      BY <1>2 DEF PhaseInv
    <3>3. db[r][i] \in {"open", "lost"}
      BY <3>1, <3>2 DEF WriteInv, SlaveInv, TypeOK, PerSlaveOf
    <3> QED BY <3>3 DEF Effect, EffectOf
  <2>5. AW!Judge(r, v)
    BY <2>1, <2>2, <2>3, <2>4 DEF AW!Judge
  <2> QED BY <2>5 DEF AW!Next
<1>3. ASSUME NEW r \in Requests, Connect(r)
      PROVE  [AW!Next]_(AW!vars)
  <2>1. UNCHANGED <<wrote, db>> /\ IsWrite(r) /\ hpc[r] = "connect"
    BY <1>3 DEF Connect, slaveVars
  <2>2. CASE UNCHANGED reply BY <2>1, <2>2, AtomicSame
  <2>3. CASE reply' = [reply EXCEPT ![r] = "fail"] BY <2>1, <2>3, <1>2
  <2> QED BY <1>3, <2>2, <2>3 DEF Connect, Return
<1>4. ASSUME NEW r \in Requests, MWriteReturn(r)
      PROVE  AW!Next
  <2>1. UNCHANGED <<wrote, db>> /\ hpc[r] = "write"
    BY <1>4 DEF MWriteReturn, slaveVars
  <2>2. IsWrite(r) BY <2>1 DEF PhaseInv
  <2>3. PICK v \in {"success", "fail"} : /\ reply' = [reply EXCEPT ![r] = v]
                                         /\ v = "success" => AllWritten(r)
    BY <1>4 DEF MWriteReturn, Return
  <2> QED BY <2>1, <2>2, <2>3, <1>2
<1>5. ASSUME NEW r \in Requests, MGetFail(r) \/ MGetReturn(r)
      PROVE  UNCHANGED AW!vars
  <2>1. UNCHANGED <<wrote, db>> /\ ~IsWrite(r)
    BY <1>5 DEF MGetFail, MGetReturn, slaveVars, IsWrite
  <2>2. \A s \in Requests : s # r => reply'[s] = reply[s]
    BY <1>5 DEF MGetFail, MGetReturn, Return, TypeOK
  <2> QED BY <2>1, <2>2, AtomicSame
(* A slave's transaction changes.                                           *)
<1>6. ASSUME NEW r \in Requests, NEW i \in Slaves,
             UNCHANGED reply,
             \A s \in Requests : Contacted(s)' = Contacted(s),
             \A s \in Requests, j \in Slaves : s # r \/ j # i => db'[s][j] = db[s][j],
             \/ /\ db[r][i] = "none" /\ db'[r][i] = "open"
                /\ wrote[r][i] # "unsent" /\ IsWrite(r) /\ reply[r] # "success"
             \/ /\ db[r][i] = "open" /\ db'[r][i] = "committed"
                /\ IsWrite(r) /\ reply[r] = "success"
             \/ /\ db[r][i] = "open" /\ db'[r][i] = "rolledback"
                /\ IsWrite(r) /\ reply[r] = "fail"
             \/ db[r][i] = "open" /\ db'[r][i] = "lost"
      PROVE  AW!Next
  <2>1. Verdict' = Verdict BY <1>6 DEF Verdict, IsWrite
  <2>2. IsWrite(r) => Verdict[r] = reply[r] BY DEF Verdict
  <2>3. /\ Effect' = [Effect EXCEPT ![r] = [@ EXCEPT ![i] = Effect'[r][i]]]
        /\ db'[r][i] = "open" => Effect'[r][i] = "tentative"
        /\ db'[r][i] = "committed" => Effect'[r][i] = "applied"
        /\ db'[r][i] = "rolledback" => Effect'[r][i] = "undone"
        /\ db'[r][i] = "lost" => Effect'[r][i] = "lost"
        /\ db[r][i] = "none" => Effect[r][i] = "none"
        /\ db[r][i] = "open" => Effect[r][i] = "tentative"
    BY <1>6, EffectAt
  <2>4. AW!Execute(r, i) \/ AW!Apply(r, i) \/ AW!Undo(r, i) \/ AW!Lose(r, i)
    BY <1>6, <2>1, <2>2, <2>3
       DEF AW!Execute, AW!Apply, AW!Undo, AW!Lose, AW!Become, Contacted
  <2> QED BY <2>4 DEF AW!Next
(* What is known of a request that a slave is asked to finish, or of which  *)
(* it executes a late call.                                                 *)
<1>7. ASSUME NEW r \in Requests, call_func[r] # "none"
      PROVE  /\ IsWrite(r)
             /\ Outcome(r) = "committed" => reply[r] = "success"
             /\ Outcome(r) = "rolledback" => reply[r] = "fail"
             /\ Outcome(r) \in {"committed", "rolledback"}
  BY <1>7 DEF PhaseInv, WriteInv, DecisionInv, Outcome, TypeOK
<1>8. ASSUME NEW w \in Workers, NEW r \in Requests, NEW i \in Slaves,
             MWriteFromSlave(w, r, i)
      PROVE  [AW!Next]_(AW!vars)
  <2>1. UNCHANGED reply /\ Runs(w, {"set", "del"}, r, i)
    BY <1>8 DEF MWriteFromSlave
  <2>2. wrote[r][i] = "pending"
    <3>1. IsDue(running[w]) /\ running[w].call_name \in {"set", "del"}
          /\ running[w].req = r /\ running[w].slave = i
      BY <2>1, RunsDue, SlaveIndex DEF Runs
    <3> QED BY <3>1 DEF IsDue
  <2>3. db[r][i] = "none" /\ call_func[r] = "none" /\ IsWrite(r) /\ reply[r] # "success"
    BY <2>2 DEF WriteInv, SlaveInv, DecisionInv, PhaseInv
  <2>4. \A s \in Requests : Contacted(s)' = Contacted(s)
    BY <1>8, <2>2, WithAt DEF MWriteFromSlave, Contacted
  <2>5. CASE db' = With(db, r, i, "open")
    <3>1. /\ db'[r][i] = "open"
          /\ \A s \in Requests, j \in Slaves : s # r \/ j # i => db'[s][j] = db[s][j]
      BY <2>5, WithAt
    <3> QED BY <1>6, <2>1, <2>2, <2>3, <2>4, <3>1
  <2>6. CASE UNCHANGED db
    BY <2>1, <2>4, <2>6 DEF AW!vars, Verdict, Effect, IsWrite
  <2> QED BY <1>8, <2>5, <2>6 DEF MWriteFromSlave
<1>9. ASSUME NEW w \in Workers, NEW r \in Requests, NEW i \in Slaves,
             MFinishFromSlave(w, r, i)
      PROVE  [AW!Next]_(AW!vars)
  <2>1. UNCHANGED <<reply, wrote>> /\ Runs(w, {"finish"}, r, i)
    BY <1>9 DEF MFinishFromSlave
  <2>2. call_func[r] # "none"
    <3>1. IsDue(running[w]) /\ running[w].call_name = "finish"
          /\ running[w].req = r /\ running[w].slave = i
      BY <2>1, RunsDue, SlaveIndex DEF Runs
    <3>2. fin[r][i] = "pending"
      BY <3>1, HandlerAssumption DEF IsDue, Slaves
    <3> QED BY <3>2 DEF WriteInv, SlaveInv
  <2>3. \A s \in Requests : Contacted(s)' = Contacted(s)
    BY <2>1 DEF Contacted
  <2>4. CASE UNCHANGED db BY <2>1, <2>4, AtomicSame
  <2>5. CASE db[r][i] \in {"open", Outcome(r)} /\ db' = With(db, r, i, Outcome(r))
    <3>1. /\ db'[r][i] = Outcome(r)
          /\ \A s \in Requests, j \in Slaves : s # r \/ j # i => db'[s][j] = db[s][j]
      BY <2>5, WithAt
    <3>2. CASE db[r][i] = "open"
      BY <1>6, <1>7, <2>1, <2>2, <2>3, <3>1, <3>2
    <3>3. CASE db[r][i] = Outcome(r)
      <4>1. db' = db BY <2>5, <3>3 DEF With, TypeOK, PerSlaveOf
      <4> QED BY <2>1, <4>1, AtomicSame
    <3> QED BY <2>5, <3>2, <3>3
  <2> QED BY <1>9, <2>4, <2>5 DEF MFinishFromSlave, slaveVars
<1>10. ASSUME NEW r \in Requests, NEW i \in Slaves, SlaveLate(r, i) \/ SlaveLoses(r, i)
       PROVE  [AW!Next]_(AW!vars)
  <2>1. UNCHANGED <<reply, wrote>>
    BY <1>10 DEF SlaveLate, SlaveLoses
  <2>2. \A s \in Requests : Contacted(s)' = Contacted(s)
    BY <2>1 DEF Contacted
  <2>3. CASE UNCHANGED db BY <2>1, <2>3, AtomicSame
  <2>4. CASE late[r][i] = "write" /\ db' = With(db, r, i, "open")
    <3>1. /\ db'[r][i] = "open"
          /\ \A s \in Requests, j \in Slaves : s # r \/ j # i => db'[s][j] = db[s][j]
      BY <2>4, WithAt
    <3>2. wrote[r][i] = "fail" /\ db[r][i] = "none" /\ IsWrite(r) /\ reply[r] # "success"
      BY <2>4 DEF WriteInv, SlaveInv, DecisionInv, PhaseInv
    <3> QED BY <1>6, <2>1, <2>2, <3>1, <3>2
  <2>5. CASE late[r][i] = "finish" /\ db[r][i] = "open" /\ db' = With(db, r, i, Outcome(r))
    <3>1. /\ db'[r][i] = Outcome(r)
          /\ \A s \in Requests, j \in Slaves : s # r \/ j # i => db'[s][j] = db[s][j]
      BY <2>5, WithAt
    <3>2. call_func[r] # "none" BY <2>5 DEF WriteInv, SlaveInv
    <3> QED BY <1>6, <1>7, <2>1, <2>2, <2>5, <3>1, <3>2
  <2>6. CASE db[r][i] = "open" /\ db' = With(db, r, i, "lost")
    <3>1. /\ db'[r][i] = "lost"
          /\ \A s \in Requests, j \in Slaves : s # r \/ j # i => db'[s][j] = db[s][j]
      BY <2>6, WithAt
    <3> QED BY <1>6, <2>1, <2>2, <2>6, <3>1
  <2> QED BY <1>10, <2>3, <2>4, <2>5, <2>6 DEF SlaveLate, SlaveLoses
<1>11. ASSUME UNCHANGED <<wrote, reply, db>>
       PROVE  UNCHANGED AW!vars
  BY <1>11, AtomicSame
<1>12. ASSUME NEW r \in Requests,
              \/ \E i \in Slaves :
                    MTryAdd(r, i) \/ \E up \in BOOLEAN : MGetConnect(r, i, up)
              \/ MTryReturn(r)
       PROVE  UNCHANGED AW!vars
  BY <1>11, <1>12 DEF MGetConnect, MTryAdd, MTryReturn, slaveVars
<1>13. ASSUME NEW w \in Workers, NEW r \in Requests, NEW i \in Slaves,
              \/ MGetFromSlaves(w, r, i) \/ MTryFromSlave(w, r, i)
              \/ MFinishAdd(w, r, i)
       PROVE  UNCHANGED AW!vars
  BY <1>11, <1>13 DEF MGetFromSlaves, MTryFromSlave, MFinishAdd, slaveVars
<1>14. ASSUME NEW w \in Workers,
              \/ Take(w)
              \/ \E r \in Requests : MMFinishReturn(w, r) \/ MMFinishRetry(w, r)
       PROVE  UNCHANGED AW!vars
  BY <1>11, <1>14 DEF MMFinishReturn, MMFinishRetry, Take, slaveVars
<1>15. CASE UNCHANGED vars
  BY <1>11, <1>15 DEF vars, slaveVars
<1> QED
  BY <1>1, <1>3, <1>4, <1>5, <1>8, <1>9, <1>10, <1>12, <1>13, <1>14, <1>15
     DEF Next, HandlerStep, RunStep, SlaveStep

(***************************************************************************)
(* The handlers and MMFinish keep the promise of AtomicWrite.              *)
(***************************************************************************)
THEOREM HandlersImplementAtomicWrite == Spec => ImplementsAtomicWrite
<1>1. Spec => []AgreeInv BY AgreeAlways
<1> QED BY <1>1, InitAtomic, NextAtomic, PTL DEF Spec, ImplementsAtomicWrite, AW!Spec

------------------------------------------------------------------------------
(***************************************************************************)
(* The handlers use the pool as TaskQueue promises it: what they add, the  *)
(* pool threads take in that order, each once, and what runs is finished   *)
(* once.  A job of the queue is a task, and, for a finish, the attempt it  *)
(* belongs to, since MFinish makes its tasks anew for each attempt.        *)
(***************************************************************************)
Jobs == Task \X (1..MaxAttempts)
JobOf(t) == <<t, IF t.call_name = "finish" THEN attempt[t.req] ELSE 1>>
NoJob == <<Idle, 1>>

JobsQueued == [k \in DOMAIN queue |-> JobOf(queue[k])]
JobsRunning == [w \in Workers |-> IF running[w] = Idle THEN NoJob ELSE JobOf(running[w])]
JobsPooled == {JobOf(t) : t \in Pooled}

(* A pool thread has set the future f.                                      *)
Answered(f) == f \notin {"unsent", "pending", "abandoned"}

(* Attempt a of task t has been run.  An earlier attempt to finish a write  *)
(* ended when all its answers were in.                                      *)
IsDone(t, a) ==
    \/ /\ t.slave \in Slaves /\ a = 1
       /\ \/ t.call_name = "get" /\ Answered(got[t.req][t.slave])
          \/ t.call_name = "try" /\ Answered(exist[t.req][t.slave])
          \/ t.call_name = Op[t.req] /\ Answered(wrote[t.req][t.slave])
    \/ /\ t.slave \in Slaves /\ t.call_name = "finish"
       /\ \/ a < attempt[t.req] /\ wrote[t.req][t.slave] # "unsent"
          \/ a = attempt[t.req] /\ Answered(fin[t.req][t.slave])
    \/ /\ t.slave = 0 /\ a = 1
       /\ t.call_name = "_finish" /\ ending[t.req] # "none"

JobsDone == {j \in Jobs : IsDone(j[1], j[2])}
JobsUnsent == Jobs \ (JobsDone \cup JobsPooled)

TQ == INSTANCE TaskQueue WITH
        Tasks <- Jobs, NoTask <- NoJob, unsent <- JobsUnsent,
        queue <- JobsQueued, running <- JobsRunning, done <- JobsDone, open <- TRUE

(* No second attempt before there is a decision.                            *)
AttemptInv == \A r \in Requests : call_func[r] = "none" => attempt[r] = 1

JobInv == PoolInv /\ AttemptInv

LEMMA NextAttempt == ASSUME PoolInv, AttemptInv, [Next]_vars PROVE AttemptInv'
<1> USE DEF PoolInv, TypeInv
<1>1. ASSUME NEW r \in Requests, MWriteReturn(r) PROVE AttemptInv'
  <2>1. /\ attempt' = attempt
        /\ \E d \in {"commit", "rollback"} : call_func' = [call_func EXCEPT ![r] = d]
    BY <1>1 DEF MWriteReturn, finishVars
  <2> QED BY <2>1 DEF AttemptInv, TypeOK
<1>2. ASSUME NEW w \in Workers, NEW r \in Requests, MMFinishRetry(w, r) PROVE AttemptInv'
  <2>1. /\ Runs(w, {"_finish"}, r, 0) /\ call_func' = call_func
        /\ attempt' = [attempt EXCEPT ![r] = @ + 1]
    BY <1>2 DEF MMFinishRetry
  <2>2. IsDue(running[w]) /\ running[w].req = r /\ running[w].slave = 0
    BY <2>1, RunsDue, SlaveIndex DEF Runs
  <2>3. call_func[r] # "none" BY <2>2 DEF IsDue, Slaves
  <2> QED BY <2>1, <2>3 DEF AttemptInv, TypeOK
<1>3. ASSUME UNCHANGED <<call_func, attempt>> PROVE AttemptInv'
  BY <1>3 DEF AttemptInv
<1>4. ASSUME NEW r \in Requests, NEW i \in Slaves, NEW up \in BOOLEAN,
             MGetConnect(r, i, up) \/ MTryAdd(r, i) \/ MWriteAdd(r, i)
      PROVE  AttemptInv'
  BY <1>3, <1>4 DEF MGetConnect, MTryAdd, MWriteAdd, finishVars
<1>5. ASSUME NEW r \in Requests,
             MGetFail(r) \/ MGetReturn(r) \/ Connect(r) \/ MTryReturn(r)
      PROVE  AttemptInv'
  BY <1>3, <1>5 DEF MGetFail, MGetReturn, Connect, MTryReturn, finishVars
<1>6. ASSUME NEW w \in Workers, Take(w) PROVE AttemptInv'
  BY <1>3, <1>6 DEF Take, finishVars
<1>7. ASSUME NEW w \in Workers, NEW r \in Requests, NEW i \in Slaves,
             \/ MGetFromSlaves(w, r, i) \/ MTryFromSlave(w, r, i)
             \/ MWriteFromSlave(w, r, i) \/ MFinishFromSlave(w, r, i)
             \/ MFinishAdd(w, r, i)
      PROVE  AttemptInv'
  BY <1>3, <1>7 DEF MGetFromSlaves, MTryFromSlave, MWriteFromSlave, MFinishFromSlave,
     MFinishAdd, finishVars
<1>8. ASSUME NEW r \in Requests, NEW i \in Slaves, SlaveLate(r, i) \/ SlaveLoses(r, i)
      PROVE  AttemptInv'
  BY <1>3, <1>8 DEF SlaveLate, SlaveLoses, finishVars
<1>9. ASSUME NEW w \in Workers, NEW r \in Requests, MMFinishReturn(w, r) PROVE AttemptInv'
  BY <1>3, <1>9 DEF MMFinishReturn
<1>10. CASE UNCHANGED vars
  BY <1>3, <1>10 DEF vars, finishVars
<1> QED
  BY <1>1, <1>2, <1>4, <1>5, <1>6, <1>7, <1>8, <1>9, <1>10
     DEF Next, HandlerStep, RunStep, SlaveStep

------------------------------------------------------------------------------
(* What the queue's variables make of a task added, taken or finished.      *)

LEMMA MakeSeq ==
    ASSUME NEW S, NEW n \in Nat, NEW f \in [1..n -> S]
    PROVE  f \in Seq(S) /\ Len(f) = n
<1>1. f \in Seq(S) BY SeqDef
<1>2. DOMAIN f = 1..n OBVIOUS
<1> QED BY <1>1, <1>2, LenProperties

LEMMA JobType ==
    ASSUME TypeOK, NEW t \in Task
    PROVE  JobOf(t) \in Jobs
<1>1. t.req \in Requests BY DEF Task
<1>2. attempt[t.req] \in 1..MaxAttempts /\ 1 \in 1..MaxAttempts
  BY <1>1, HandlerAssumption DEF TypeOK
<1> QED BY <1>2 DEF JobOf, Jobs

LEMMA QueuedJobs ==
    ASSUME TypeOK
    PROVE  /\ JobsQueued \in Seq(Jobs) /\ Len(JobsQueued) = Len(queue)
           /\ \A k \in 1..Len(queue) : JobsQueued[k] = JobOf(queue[k])
<1>1. /\ DOMAIN queue = 1..Len(queue) /\ Len(queue) \in Nat
      /\ \A k \in 1..Len(queue) : queue[k] \in Task
  BY LenProperties, ElementOfSeq DEF TypeOK
<1>2. \A k \in 1..Len(queue) : JobOf(queue[k]) \in Jobs
  BY <1>1, JobType
<1>3. JobsQueued = [k \in 1..Len(queue) |-> JobOf(queue[k])]
  BY <1>1 DEF JobsQueued
<1>4. JobsQueued \in [1..Len(queue) -> Jobs]
  BY <1>2, <1>3
<1> QED BY <1>1, <1>3, <1>4, MakeSeq

LEMMA JobsSame ==
    ASSUME TypeOK, UNCHANGED poolVars, JobsDone' = JobsDone,
           \A t \in Task : t \in Pooled => JobOf(t)' = JobOf(t)
    PROVE  UNCHANGED TQ!vars
<1>1. \A k \in DOMAIN queue : queue[k] \in Task /\ queue[k] \in Pooled
  BY LenProperties, ElementOfSeq DEF TypeOK, Pooled
<1>2. \A w \in Workers : running[w] # Idle => running[w] \in Task /\ running[w] \in Pooled
  BY DEF TypeOK, Pooled
<1>3. Pooled' = Pooled /\ queue' = queue /\ running' = running
  BY DEF Pooled, poolVars
<1>4. JobsQueued' = JobsQueued
  BY <1>1, <1>3 DEF JobsQueued
<1>5. JobsRunning' = JobsRunning
  BY <1>2, <1>3 DEF JobsRunning
<1>6. \A t \in Pooled : t \in Task
  BY <1>1, LenProperties DEF Pooled, TypeOK
<1>7. JobsPooled' = JobsPooled
  BY <1>3, <1>6 DEF JobsPooled
<1> QED BY <1>4, <1>5, <1>7 DEF TQ!vars, JobsUnsent

LEMMA JobsAdd ==
    ASSUME TypeOK, NoneTwice, NEW t \in Task, t \notin Pooled,
           queue' = Append(queue, t), UNCHANGED <<running, attempt>>,
           JobsDone' = JobsDone, JobOf(t) \notin JobsDone
    PROVE  TQ!Submit(JobOf(t))
<1>1. /\ queue \in Seq(Task) /\ Len(queue) \in Nat /\ Len(queue') = Len(queue) + 1
      /\ queue' \in Seq(Task)
      /\ DOMAIN queue = 1..Len(queue) /\ DOMAIN queue' = 1..(Len(queue) + 1)
      /\ \A k \in 1..Len(queue) : queue'[k] = queue[k]
      /\ queue'[Len(queue) + 1] = t
  BY AppendProperties, LenProperties DEF TypeOK
<1>2. Pooled' = Pooled \cup {t}
  BY PoolAdd
<1>3. JobsPooled' = JobsPooled \cup {JobOf(t)}
  BY <1>2 DEF JobsPooled, JobOf
<1>4. JobOf(t) \in Jobs /\ JobOf(t) \notin JobsPooled
  BY HandlerAssumption DEF Jobs, JobsPooled, JobOf, TypeOK, Task
<1>5. JobsQueued' = Append(JobsQueued, JobOf(t))
  <2> DEFINE n == Len(queue)
  <2>1. /\ JobsQueued \in Seq(Jobs) /\ Len(JobsQueued) = n
        /\ \A k \in 1..n : JobsQueued[k] = JobOf(queue[k])
    BY QueuedJobs
  <2>2. JobsQueued' = [k \in 1..(n + 1) |-> JobOf(queue'[k])]
    BY <1>1 DEF JobsQueued, JobOf
  <2>3. \A k \in 1..(n + 1) : queue'[k] \in Task
    BY <1>1, ElementOfSeq
  <2>4. \A k \in 1..(n + 1) : JobOf(queue'[k]) \in Jobs
    BY <2>3, JobType
  <2>5. JobsQueued' \in Seq(Jobs) /\ Len(JobsQueued') = n + 1
    BY <1>1, <2>2, <2>4, MakeSeq
  <2>6. /\ Append(JobsQueued, JobOf(t)) \in Seq(Jobs)
        /\ Len(Append(JobsQueued, JobOf(t))) = n + 1
        /\ \A k \in 1..n : Append(JobsQueued, JobOf(t))[k] = JobsQueued[k]
        /\ Append(JobsQueued, JobOf(t))[n + 1] = JobOf(t)
    BY <1>4, <2>1, AppendProperties
  <2>7. \A k \in 1..(n + 1) : JobsQueued'[k] = Append(JobsQueued, JobOf(t))[k]
    <3>1. \A k \in 1..(n + 1) : k \in 1..n \/ k = n + 1
      BY <1>1
    <3> QED BY <1>1, <2>1, <2>2, <2>6, <3>1
  <2> QED BY <2>5, <2>6, <2>7, SeqEqual
<1>6. JobsRunning' = JobsRunning
  BY DEF JobsRunning, JobOf
<1>7. JobsUnsent' = JobsUnsent \ {JobOf(t)} /\ JobOf(t) \in JobsUnsent
  BY <1>3, <1>4 DEF JobsUnsent
<1> QED BY <1>5, <1>6, <1>7 DEF TQ!Submit

LEMMA JobsTake ==
    ASSUME TypeOK, NoneTwice, NEW w \in Workers, Take(w), JobsDone' = JobsDone
    PROVE  TQ!Take(w)
<1> DEFINE n == Len(queue)
<1>1. /\ queue \in Seq(Task) /\ queue # <<>> /\ queue' = Tail(queue)
      /\ running[w] = Idle /\ running' = [running EXCEPT ![w] = Head(queue)]
      /\ attempt' = attempt /\ running \in [Workers -> Task \cup {Idle}]
  BY DEF Take, TypeOK, finishVars
<1>2. /\ n \in Nat /\ n > 0
      /\ queue' \in Seq(Task) /\ Len(queue') = n - 1 /\ DOMAIN queue' = 1..(n - 1)
      /\ \A k \in 1..(n - 1) : queue'[k] = queue[k + 1]
      /\ Head(queue) = queue[1] /\ queue[1] \in Task
  BY <1>1, HeadTailProperties, EmptySeq, ElementOfSeq, LenProperties
<1>3. /\ JobsQueued \in Seq(Jobs) /\ Len(JobsQueued) = n
      /\ \A k \in 1..n : JobsQueued[k] = JobOf(queue[k])
  BY QueuedJobs
<1>4. JobsQueued # <<>>
  BY <1>2, <1>3, EmptySeq
<1>5. JobsQueued' = Tail(JobsQueued)
  <2>1. JobsQueued' = [k \in 1..(n - 1) |-> JobOf(queue'[k])]
    BY <1>1, <1>2 DEF JobsQueued, JobOf
  <2>2. \A k \in 1..(n - 1) : queue'[k] \in Task
    BY <1>2, ElementOfSeq
  <2>3. \A k \in 1..(n - 1) : JobOf(queue'[k]) \in Jobs
    BY <2>2, JobType
  <2>4. JobsQueued' \in Seq(Jobs) /\ Len(JobsQueued') = n - 1
    BY <1>2, <2>1, <2>3, MakeSeq
  <2>5. /\ Tail(JobsQueued) \in Seq(Jobs) /\ Len(Tail(JobsQueued)) = n - 1
        /\ \A k \in 1..(n - 1) : Tail(JobsQueued)[k] = JobsQueued[k + 1]
    BY <1>3, <1>4, HeadTailProperties
  <2>6. \A k \in 1..(n - 1) : k + 1 \in 1..n
    BY <1>2
  <2>7. \A k \in 1..(n - 1) : JobsQueued'[k] = Tail(JobsQueued)[k]
    BY <1>2, <1>3, <2>1, <2>5, <2>6
  <2> QED BY <2>4, <2>5, <2>7, SeqEqual
<1>6. Head(JobsQueued) = JobOf(queue[1])
  BY <1>2, <1>3
<1>7. JobsRunning' = [JobsRunning EXCEPT ![w] = Head(JobsQueued)]
  <2>1. queue[1] # Idle
    BY <1>2, IdleAssumption
  <2>2. JobsRunning' = [v \in Workers |->
                          IF v = w THEN JobOf(queue[1]) ELSE JobsRunning[v]]
    BY <1>1, <1>2, <2>1 DEF JobsRunning, JobOf
  <2> QED BY <1>6, <2>2 DEF JobsRunning
<1>8. JobsRunning[w] = NoJob
  BY <1>1 DEF JobsRunning
<1>9. JobsUnsent' = JobsUnsent
  <2>1. Pooled' = Pooled BY PoolTake
  <2>2. JobsPooled' = JobsPooled BY <1>1, <2>1 DEF JobsPooled, JobOf
  <2> QED BY <2>2 DEF JobsUnsent
<1> QED BY <1>4, <1>5, <1>7, <1>8, <1>9 DEF TQ!Take

LEMMA JobsFinish ==
    ASSUME TypeOK, NoneTwice, NEW w \in Workers, running[w] # Idle, BecomeIdle(w),
           UNCHANGED <<queue, attempt>>, JobsDone' = JobsDone \cup {JobOf(running[w])}
    PROVE  TQ!Finish(w)
<1>1. /\ running' = [running EXCEPT ![w] = Idle]
      /\ running \in [Workers -> Task \cup {Idle}] /\ running[w] \in Task
      /\ running[w] \in Pooled
  BY DEF BecomeIdle, TypeOK, Pooled
<1>2. JobsQueued' = JobsQueued
  BY DEF JobsQueued, JobOf
<1>3. JobsRunning' = [JobsRunning EXCEPT ![w] = NoJob]
  BY <1>1 DEF JobsRunning, JobOf
<1>4. JobsRunning[w] = JobOf(running[w]) /\ JobsRunning[w] # NoJob
  BY <1>1 DEF JobsRunning, JobOf, NoJob
<1>5. JobsUnsent' = JobsUnsent
  <2>1. Pooled' = Pooled \ {running[w]} BY PoolDone
  <2>2. JobsPooled' = JobsPooled \ {JobOf(running[w])}
    BY <2>1 DEF JobsPooled, JobOf
  <2>3. JobOf(running[w]) \in JobsPooled BY <1>1 DEF JobsPooled
  <2> QED BY <2>2, <2>3 DEF JobsUnsent
<1> QED BY <1>2, <1>3, <1>4, <1>5 DEF TQ!Finish

------------------------------------------------------------------------------
(* When the set of finished jobs stays, and when it gains one.              *)

LEMMA DoneSame ==
    ASSUME \A t \in Task : \A a \in 1..MaxAttempts : IsDone(t, a)' <=> IsDone(t, a)
    PROVE  JobsDone' = JobsDone
BY DEF JobsDone, Jobs

LEMMA DoneGains ==
    ASSUME TypeOK, NEW s \in Task,
           \A t \in Task : \A a \in 1..MaxAttempts :
              IsDone(t, a)' <=> IsDone(t, a) \/ <<t, a>> = JobOf(s)
    PROVE  JobsDone' = JobsDone \cup {JobOf(s)}
<1>1. JobOf(s) \in Jobs BY JobType
<1>2. \A j \in Jobs : j = <<j[1], j[2]>> /\ j[1] \in Task /\ j[2] \in 1..MaxAttempts
  BY DEF Jobs
<1> QED BY <1>1, <1>2 DEF JobsDone

LEMMA InitJobs == ASSUME Init PROVE JobInv /\ TQ!Init
<1>1. PoolInv BY InitPool
<1>2. AttemptInv BY DEF AttemptInv, Init
<1>3. queue = <<>> /\ DOMAIN queue = {} /\ \A w \in Workers : running[w] = Idle
  BY DEF Init
<1>4. Len(queue) = 0 BY <1>3
<1>5. Pooled = {} BY <1>3, <1>4 DEF Pooled
<1>6. JobsPooled = {} BY <1>5 DEF JobsPooled
<1>7. JobsDone = {}
  <2> SUFFICES ASSUME NEW t \in Task, NEW a \in 1..MaxAttempts PROVE ~IsDone(t, a)
    BY DEF JobsDone, Jobs
  <2>1. t.req \in Requests BY DEF Task
  <2>2. a >= 1 OBVIOUS
  <2> QED BY <2>1, <2>2 DEF IsDone, Answered, Init, PerSlave
<1>8. JobsQueued = <<>>
  <2>1. JobsQueued \in Seq(Jobs) /\ Len(JobsQueued) = 0
    BY <1>1, <1>4, QueuedJobs DEF PoolInv, TypeInv
  <2> QED BY <2>1, EmptySeq
<1>9. JobsRunning = [w \in Workers |-> NoJob] BY <1>3 DEF JobsRunning
<1> QED BY <1>1, <1>2, <1>6, <1>7, <1>8, <1>9 DEF JobInv, TQ!Init, JobsUnsent

------------------------------------------------------------------------------
(* Steps of the handlers and of the pool threads as steps of the queue.     *)

LEMMA StepSame ==
    ASSUME PoolInv, UNCHANGED <<poolVars, attempt>>, JobsDone' = JobsDone
    PROVE  UNCHANGED TQ!vars
<1>1. \A t \in Task : t \in Pooled => JobOf(t)' = JobOf(t)
  BY DEF JobOf
<1> QED BY <1>1, JobsSame DEF PoolInv, TypeInv

LEMMA StepAdd ==
    ASSUME PoolInv, NEW r \in Requests, NEW i \in 0..NumSlaves,
           NEW name \in {"get", "try", "set", "del", "finish", "_finish"},
           addTask(name, r, i), UNCHANGED <<running, attempt>>,
           ~IsDue(TaskOf(name, r, i)), JobsDone' = JobsDone,
           JobOf(TaskOf(name, r, i)) \notin JobsDone
    PROVE  TQ!Next
<1>1. TaskOf(name, r, i) \in Task
  BY TaskOfType
<1>2. TaskOf(name, r, i) \notin Pooled
  BY <1>1 DEF PoolInv, DueInv
<1>3. TQ!Submit(JobOf(TaskOf(name, r, i)))
  BY <1>1, <1>2, JobsAdd DEF PoolInv, TypeInv, addTask
<1>4. JobOf(TaskOf(name, r, i)) \in Jobs
  BY <1>1, JobType DEF PoolInv, TypeInv
<1> QED BY <1>3, <1>4 DEF TQ!Next

LEMMA StepFinish ==
    ASSUME PoolInv, NEW w \in Workers, running[w] # Idle, BecomeIdle(w),
           UNCHANGED <<queue, attempt>>,
           \A t \in Task : \A a \in 1..MaxAttempts :
              IsDone(t, a)' <=> IsDone(t, a) \/ <<t, a>> = JobOf(running[w])
    PROVE  TQ!Next
<1>1. running[w] \in Task BY DEF PoolInv, TypeInv, TypeOK
<1>2. JobsDone' = JobsDone \cup {JobOf(running[w])}
  BY <1>1, DoneGains DEF PoolInv, TypeInv
<1>3. TQ!Finish(w)
  BY <1>2, JobsFinish DEF PoolInv, TypeInv
<1> QED BY <1>3 DEF TQ!Next

LEMMA NotDone ==
    ASSUME NEW name, NEW r, NEW i, NEW a, JobOf(TaskOf(name, r, i)) = <<TaskOf(name, r, i), a>>,
           ~IsDone(TaskOf(name, r, i), a)
    PROVE  JobOf(TaskOf(name, r, i)) \notin JobsDone
BY DEF JobsDone

(* Which jobs of a request a future of slave i finishes.                    *)
LEMMA JobIs ==
    ASSUME TypeOK, NEW r \in Requests, NEW i \in 0..NumSlaves,
           NEW name \in {"get", "try", "set", "del", "finish", "_finish"}
    PROVE  /\ JobOf(TaskOf(name, r, i)) =
                 <<TaskOf(name, r, i), IF name = "finish" THEN attempt[r] ELSE 1>>
           /\ \A t \in Task : \A a \in 1..MaxAttempts :
                 <<t, a>> = JobOf(TaskOf(name, r, i)) <=>
                    /\ t.call_name = name /\ t.req = r /\ t.slave = i
                    /\ a = IF name = "finish" THEN attempt[r] ELSE 1
<1>1. JobOf(TaskOf(name, r, i)) =
         <<TaskOf(name, r, i), IF name = "finish" THEN attempt[r] ELSE 1>>
  BY DEF JobOf, TaskOf
<1> QED BY <1>1, SameTask

LEMMA NextJobs == ASSUME JobInv, [Next]_vars PROVE [TQ!Next]_(TQ!vars)
<1> USE DEF JobInv, PoolInv, TypeInv
<1>0. /\ \A r \in Requests : Op[r] \in {"get", "set", "del"}
      /\ \A t \in Task : t.req \in Requests
  BY HandlerAssumption DEF Task
<1>1. ASSUME NEW r \in Requests, NEW i \in Slaves, NEW up \in BOOLEAN,
             MGetConnect(r, i, up)
      PROVE  [TQ!Next]_(TQ!vars)
  <2>1. UNCHANGED <<running, exist, wrote, fin, attempt, ending>> /\ got[r][i] = "unsent"
    BY <1>1 DEF MGetConnect, finishVars, NextIn
  <2>2. PICK x \in {"pending", "abandoned"} : got' = With(got, r, i, x)
    BY <1>1 DEF MGetConnect
  <2>3. \A s \in Requests, j \in Slaves :
           got'[s][j] = IF s = r /\ j = i THEN x ELSE got[s][j]
    <3>1. got \in Futures(Values \cup {Failed, "abandoned"})
      BY DEF TypeOK
    <3>2. x \in {"unsent", "pending"} \cup (Values \cup {Failed, "abandoned"})
      OBVIOUS
    <3> QED BY <2>2, <3>1, <3>2, SetFuture
  <2>4. \A t \in Task : \A a \in 1..MaxAttempts : IsDone(t, a)' <=> IsDone(t, a)
    BY <1>0, <2>1, <2>3 DEF IsDone, Answered
  <2>5. JobsDone' = JobsDone BY <2>4, DoneSame
  <2>6. CASE flag'[r]
    <3>1. addTask("get", r, i) BY <1>1, <2>6 DEF MGetConnect
    <3>2. ~IsDue(TaskOf("get", r, i)) /\ ~IsDone(TaskOf("get", r, i), 1)
      BY <2>1 DEF IsDue, IsDone, Answered, TaskOf, Slaves, PhaseInv, IsWrite
    <3>3. JobOf(TaskOf("get", r, i)) \notin JobsDone
      BY <3>2, SlaveIndex, JobIs, NotDone
    <3> QED BY <2>1, <2>5, <3>1, <3>2, <3>3, SlaveIndex, StepAdd
  <2>7. CASE ~flag'[r]
    <3>1. queue' = queue BY <1>1, <2>7 DEF MGetConnect
    <3> QED BY <2>1, <2>5, <3>1, StepSame DEF poolVars
  <2> QED BY <2>6, <2>7
<1>2. ASSUME NEW r \in Requests, NEW i \in Slaves, MTryAdd(r, i)
      PROVE  [TQ!Next]_(TQ!vars)
  <2>1. /\ UNCHANGED <<running, got, wrote, fin, attempt, ending>>
        /\ exist[r][i] = "unsent"
        /\ exist' = With(exist, r, i, "pending") /\ addTask("try", r, i)
    BY <1>2 DEF MTryAdd, finishVars, NextIn
  <2>2. \A s \in Requests, j \in Slaves :
           exist'[s][j] = IF s = r /\ j = i THEN "pending" ELSE exist[s][j]
    BY <2>1, SetFuture DEF TypeOK
  <2>3. \A t \in Task : \A a \in 1..MaxAttempts : IsDone(t, a)' <=> IsDone(t, a)
    BY <1>0, <2>1, <2>2 DEF IsDone, Answered
  <2>4. JobsDone' = JobsDone BY <2>3, DoneSame
  <2>5. ~IsDue(TaskOf("try", r, i)) /\ ~IsDone(TaskOf("try", r, i), 1)
    BY <1>0, <2>1 DEF IsDue, IsDone, Answered, TaskOf, Slaves
  <2>6. JobOf(TaskOf("try", r, i)) \notin JobsDone
    BY <2>5, SlaveIndex, JobIs, NotDone
  <2> QED BY <2>1, <2>4, <2>5, <2>6, SlaveIndex, StepAdd
<1>3. ASSUME NEW r \in Requests, NEW i \in Slaves, MWriteAdd(r, i)
      PROVE  [TQ!Next]_(TQ!vars)
  <2>1. /\ UNCHANGED <<running, got, exist, fin, attempt, ending>>
        /\ wrote[r][i] = "unsent"
        /\ wrote' = With(wrote, r, i, "pending") /\ addTask(Op[r], r, i)
        /\ hpc[r] = "write"
    BY <1>3 DEF MWriteAdd, finishVars, NextIn
  <2>2. \A s \in Requests, j \in Slaves :
           wrote'[s][j] = IF s = r /\ j = i THEN "pending" ELSE wrote[s][j]
    BY <2>1, SetFuture DEF TypeOK
  <2>3. IsWrite(r) /\ call_func[r] = "none" BY <2>1 DEF PhaseInv
  <2>4. attempt[r] = 1 BY <2>3 DEF AttemptInv
  <2>5. \A a \in 1..MaxAttempts : ~(a < attempt[r]) BY <2>4
  <2>6. \A t \in Task : \A a \in 1..MaxAttempts : IsDone(t, a)' <=> IsDone(t, a)
    BY <1>0, <2>1, <2>2, <2>5 DEF IsDone, Answered
  <2>7. JobsDone' = JobsDone BY <2>6, DoneSame
  <2>8. ~IsDue(TaskOf(Op[r], r, i)) /\ ~IsDone(TaskOf(Op[r], r, i), 1)
    BY <1>0, <2>1, <2>3 DEF IsDue, IsDone, Answered, TaskOf, Slaves, IsWrite
  <2>9. JobOf(TaskOf(Op[r], r, i)) \notin JobsDone
    <3>1. Op[r] \in {"get", "try", "set", "del", "finish", "_finish"} /\ Op[r] # "finish"
      BY <1>0
    <3> QED BY <2>8, <3>1, SlaveIndex, JobIs, NotDone
  <2>10. Op[r] \in {"get", "try", "set", "del", "finish", "_finish"} BY <1>0
  <2> QED BY <2>1, <2>7, <2>8, <2>9, <2>10, SlaveIndex, StepAdd
<1>4. ASSUME UNCHANGED <<poolVars, got, exist, wrote, finishVars>>
      PROVE  [TQ!Next]_(TQ!vars)
  <2>1. \A t \in Task : \A a \in 1..MaxAttempts : IsDone(t, a)' <=> IsDone(t, a)
    BY <1>4 DEF IsDone, finishVars
  <2> QED BY <1>4, <2>1, DoneSame, StepSame DEF finishVars
<1>5. ASSUME NEW r \in Requests,
             MGetFail(r) \/ MGetReturn(r) \/ Connect(r) \/ MTryReturn(r)
      PROVE  [TQ!Next]_(TQ!vars)
  BY <1>4, <1>5 DEF MGetFail, MGetReturn, Connect, MTryReturn
<1>6. ASSUME NEW r \in Requests, MWriteReturn(r)
      PROVE  [TQ!Next]_(TQ!vars)
  <2>1. /\ UNCHANGED <<running, got, exist, wrote, fin, attempt, ending>>
        /\ addTask("_finish", r, 0) /\ hpc[r] = "write"
    BY <1>6 DEF MWriteReturn, finishVars
  <2>2. call_func[r] = "none" /\ ending[r] = "none"
    BY <2>1 DEF PhaseInv
  <2>3. \A t \in Task : \A a \in 1..MaxAttempts : IsDone(t, a)' <=> IsDone(t, a)
    BY <2>1 DEF IsDone
  <2>4. JobsDone' = JobsDone BY <2>3, DoneSame
  <2>5. ~IsDue(TaskOf("_finish", r, 0)) /\ ~IsDone(TaskOf("_finish", r, 0), 1)
    BY <2>2 DEF IsDue, IsDone, TaskOf, Slaves
  <2>6. JobOf(TaskOf("_finish", r, 0)) \notin JobsDone
    BY <2>5, SlaveIndex, JobIs, NotDone
  <2> QED BY <2>1, <2>4, <2>5, <2>6, SlaveIndex, StepAdd
<1>7. ASSUME NEW w \in Workers, Take(w)
      PROVE  [TQ!Next]_(TQ!vars)
  <2>1. UNCHANGED <<got, exist, wrote, fin, attempt, ending>>
    BY <1>7 DEF Take, finishVars
  <2>2. \A t \in Task : \A a \in 1..MaxAttempts : IsDone(t, a)' <=> IsDone(t, a)
    BY <2>1 DEF IsDone
  <2>3. TQ!Take(w) BY <1>7, <2>2, DoneSame, JobsTake
  <2> QED BY <2>3 DEF TQ!Next
<1>8. ASSUME NEW w \in Workers, NEW r \in Requests, NEW i \in Slaves,
             MGetFromSlaves(w, r, i)
      PROVE  [TQ!Next]_(TQ!vars)
  <2>1. /\ Runs(w, {"get"}, r, i) /\ BecomeIdle(w)
        /\ UNCHANGED <<queue, exist, wrote, fin, attempt, ending>>
    BY <1>8 DEF MGetFromSlaves, finishVars
  <2>2. PICK x \in Values \cup {Failed} : got' = With(got, r, i, x)
    BY <1>8 DEF MGetFromSlaves
  <2>3. \A s \in Requests, j \in Slaves :
           got'[s][j] = IF s = r /\ j = i THEN x ELSE got[s][j]
    <3>1. got \in Futures(Values \cup {Failed, "abandoned"})
      BY DEF TypeOK
    <3>2. x \in {"unsent", "pending"} \cup (Values \cup {Failed, "abandoned"})
      OBVIOUS
    <3> QED BY <2>2, <3>1, <3>2, SetFuture
  <2>4. Answered(x) BY HandlerAssumption DEF Answered
  <2>5. /\ running[w] # Idle /\ running[w] = TaskOf("get", r, i)
    BY <2>1, RunsDue, SlaveIndex DEF Runs
  <2>6. \A t \in Task : \A a \in 1..MaxAttempts :
           IsDone(t, a)' <=> IsDone(t, a) \/ <<t, a>> = JobOf(running[w])
    <3>1. \A t \in Task : \A a \in 1..MaxAttempts :
             <<t, a>> = JobOf(running[w]) <=>
                t.call_name = "get" /\ t.req = r /\ t.slave = i /\ a = 1
      BY <2>5, SlaveIndex, JobIs
    <3> QED BY <1>0, <2>1, <2>3, <2>4, <3>1 DEF IsDone
  <2> QED BY <2>1, <2>5, <2>6, StepFinish
<1>9. ASSUME NEW w \in Workers, NEW r \in Requests, NEW i \in Slaves,
             MTryFromSlave(w, r, i)
      PROVE  [TQ!Next]_(TQ!vars)
  <2>1. /\ Runs(w, {"try"}, r, i) /\ BecomeIdle(w)
        /\ UNCHANGED <<queue, got, wrote, fin, attempt, ending>>
    BY <1>9 DEF MTryFromSlave, finishVars
  <2>2. PICK x \in {"0", "1"} : exist' = With(exist, r, i, x)
    BY <1>9 DEF MTryFromSlave
  <2>3. \A s \in Requests, j \in Slaves :
           exist'[s][j] = IF s = r /\ j = i THEN x ELSE exist[s][j]
    <3>1. exist \in Futures({"0", "1"}) BY DEF TypeOK
    <3> QED BY <2>2, <3>1, SetFuture
  <2>4. Answered(x) BY DEF Answered
  <2>5. running[w] # Idle /\ running[w] = TaskOf("try", r, i)
    BY <2>1, RunsDue, SlaveIndex DEF Runs
  <2>6. \A t \in Task : \A a \in 1..MaxAttempts :
           IsDone(t, a)' <=> IsDone(t, a) \/ <<t, a>> = JobOf(running[w])
    <3>1. \A t \in Task : \A a \in 1..MaxAttempts :
             <<t, a>> = JobOf(running[w]) <=>
                t.call_name = "try" /\ t.req = r /\ t.slave = i /\ a = 1
      BY <2>5, SlaveIndex, JobIs
    <3> QED BY <1>0, <2>1, <2>3, <2>4, <3>1 DEF IsDone
  <2> QED BY <2>1, <2>5, <2>6, StepFinish
<1>10. ASSUME NEW w \in Workers, NEW r \in Requests, NEW i \in Slaves,
              MWriteFromSlave(w, r, i)
       PROVE  [TQ!Next]_(TQ!vars)
  <2>1. /\ Runs(w, {"set", "del"}, r, i) /\ BecomeIdle(w)
        /\ UNCHANGED <<queue, got, exist, fin, attempt, ending>>
    BY <1>10 DEF MWriteFromSlave, finishVars
  <2>2. PICK x \in {"success", "fail"} : wrote' = With(wrote, r, i, x)
    BY <1>10 DEF MWriteFromSlave
  <2>3. \A s \in Requests, j \in Slaves :
           wrote'[s][j] = IF s = r /\ j = i THEN x ELSE wrote[s][j]
    <3>1. wrote \in Futures({"success", "fail"}) BY DEF TypeOK
    <3> QED BY <2>2, <3>1, SetFuture
  <2>4. Answered(x) /\ x # "unsent" BY DEF Answered
  <2>5. /\ running[w] # Idle
        /\ running[w] = TaskOf(Op[r], r, i)
        /\ wrote[r][i] = "pending"
    <3>1. /\ running[w] # Idle /\ IsDue(running[w])
          /\ running[w] = TaskOf(running[w].call_name, r, i)
          /\ running[w].call_name \in {"set", "del"}
      BY <2>1, RunsDue, SlaveIndex DEF Runs
    <3>2. running[w].req = r /\ running[w].slave = i
      BY <2>1 DEF Runs
    <3>3. running[w].call_name = Op[r] /\ wrote[r][i] = "pending"
      BY <3>1, <3>2 DEF IsDue
    <3> QED BY <3>1, <3>3
  <2>6. IsWrite(r) BY <2>5 DEF PhaseInv
  <2>7. \A t \in Task : \A a \in 1..MaxAttempts :
           IsDone(t, a)' <=> IsDone(t, a) \/ <<t, a>> = JobOf(running[w])
    <3>1. /\ Op[r] \in {"get", "try", "set", "del", "finish", "_finish"}
          /\ Op[r] # "finish"
      BY <1>0
    <3>2. \A t \in Task : \A a \in 1..MaxAttempts :
             <<t, a>> = JobOf(running[w]) <=>
                t.call_name = Op[r] /\ t.req = r /\ t.slave = i /\ a = 1
      BY <2>5, <3>1, SlaveIndex, JobIs
    <3> QED BY <1>0, <2>1, <2>3, <2>4, <2>5, <2>6, <3>2 DEF IsDone, IsWrite, Answered
  <2> QED BY <2>1, <2>5, <2>7, StepFinish
<1>11. ASSUME NEW w \in Workers, NEW r \in Requests, NEW i \in Slaves,
              MFinishFromSlave(w, r, i)
       PROVE  [TQ!Next]_(TQ!vars)
  <2>1. /\ Runs(w, {"finish"}, r, i) /\ BecomeIdle(w)
        /\ UNCHANGED <<queue, got, exist, wrote, attempt, ending>>
    BY <1>11 DEF MFinishFromSlave
  <2>2. PICK x \in {"success", "fail"} : fin' = With(fin, r, i, x)
    BY <1>11 DEF MFinishFromSlave
  <2>3. \A s \in Requests, j \in Slaves :
           fin'[s][j] = IF s = r /\ j = i THEN x ELSE fin[s][j]
    <3>1. fin \in Futures({"success", "fail"}) BY DEF TypeOK
    <3> QED BY <2>2, <3>1, SetFuture
  <2>4. Answered(x) BY DEF Answered
  <2>5. running[w] # Idle /\ running[w] = TaskOf("finish", r, i)
    BY <2>1, RunsDue, SlaveIndex DEF Runs
  <2>6. \A t \in Task : \A a \in 1..MaxAttempts :
           IsDone(t, a)' <=> IsDone(t, a) \/ <<t, a>> = JobOf(running[w])
    <3>1. \A t \in Task : \A a \in 1..MaxAttempts :
             <<t, a>> = JobOf(running[w]) <=>
                t.call_name = "finish" /\ t.req = r /\ t.slave = i /\ a = attempt[r]
      BY <2>5, SlaveIndex, JobIs
    <3> QED BY <1>0, <2>1, <2>3, <2>4, <3>1 DEF IsDone
  <2> QED BY <2>1, <2>5, <2>6, StepFinish
<1>12. ASSUME NEW w \in Workers, NEW r \in Requests, NEW i \in Slaves,
              MFinishAdd(w, r, i)
       PROVE  [TQ!Next]_(TQ!vars)
  <2>1. /\ UNCHANGED <<running, got, exist, wrote, attempt, ending>>
        /\ fin[r][i] = "unsent"
        /\ fin' = With(fin, r, i, "pending") /\ addTask("finish", r, i)
    BY <1>12 DEF MFinishAdd, NextIn
  <2>2. \A s \in Requests, j \in Slaves :
           fin'[s][j] = IF s = r /\ j = i THEN "pending" ELSE fin[s][j]
    BY <2>1, SetFuture DEF TypeOK
  <2>3. \A t \in Task : \A a \in 1..MaxAttempts : IsDone(t, a)' <=> IsDone(t, a)
    BY <1>0, <2>1, <2>2 DEF IsDone, Answered
  <2>4. JobsDone' = JobsDone BY <2>3, DoneSame
  <2>5. ~IsDue(TaskOf("finish", r, i)) /\ ~IsDone(TaskOf("finish", r, i), attempt[r])
    <3>1. attempt[r] \in Int BY DEF TypeOK
    <3> QED BY <1>0, <2>1, <3>1 DEF IsDue, IsDone, Answered, TaskOf, Slaves
  <2>6. JobOf(TaskOf("finish", r, i)) \notin JobsDone
    BY <2>5, SlaveIndex, JobIs, NotDone
  <2> QED BY <2>1, <2>4, <2>5, <2>6, SlaveIndex, StepAdd
<1>13. ASSUME NEW w \in Workers, NEW r \in Requests, MMFinishReturn(w, r)
       PROVE  [TQ!Next]_(TQ!vars)
  <2>1. /\ Runs(w, {"_finish"}, r, 0) /\ BecomeIdle(w)
        /\ UNCHANGED <<queue, got, exist, wrote, fin, attempt>>
        /\ \E e \in {"finished", "abandoned"} : ending' = [ending EXCEPT ![r] = e]
    BY <1>13 DEF MMFinishReturn
  <2>2. /\ running[w] # Idle /\ running[w] = TaskOf("_finish", r, 0)
    <3>1. 0 \in 0..NumSlaves BY SlaveIndex
    <3>2. running[w] # Idle /\ running[w] = TaskOf(running[w].call_name, r, 0)
      BY <2>1, <3>1, RunsDue
    <3> QED BY <2>1, <3>2 DEF Runs
  <2>3. /\ ending'[r] # "none"
        /\ \A s \in Requests : s # r => ending'[s] = ending[s]
    BY <2>1 DEF TypeOK
  <2>4. \A t \in Task : \A a \in 1..MaxAttempts :
           IsDone(t, a)' <=> IsDone(t, a) \/ <<t, a>> = JobOf(running[w])
    <3>1. \A t \in Task : \A a \in 1..MaxAttempts :
             <<t, a>> = JobOf(running[w]) <=>
                t.call_name = "_finish" /\ t.req = r /\ t.slave = 0 /\ a = 1
      BY <2>2, SlaveIndex, JobIs
    <3> QED BY <1>0, <2>1, <2>3, <3>1 DEF IsDone
  <2> QED BY <2>1, <2>2, <2>4, StepFinish
<1>14. ASSUME NEW w \in Workers, NEW r \in Requests, MMFinishRetry(w, r)
       PROVE  [TQ!Next]_(TQ!vars)
  <2>1. /\ UNCHANGED <<poolVars, got, exist, wrote, ending>>
        /\ fin' = [fin EXCEPT ![r] = [i \in Slaves |-> "unsent"]]
        /\ attempt' = [attempt EXCEPT ![r] = @ + 1]
        /\ \A i \in Slaves : wrote[r][i] # "unsent" => fin[r][i] \notin {"unsent", "pending"}
    BY <1>14 DEF MMFinishRetry, Resolved, Contacted
  <2>2. \A i \in Slaves : /\ fin[r][i] # "pending"
                          /\ fin[r][i] # "unsent" <=> wrote[r][i] # "unsent"
                          /\ Answered(fin[r][i]) <=> wrote[r][i] # "unsent"
    <3>1. fin \in [Requests -> [Slaves -> {"unsent", "pending"} \cup {"success", "fail"}]]
      BY DEF TypeOK, Futures, PerSlaveOf
    <3>2. \A i \in Slaves : fin[r][i] \in {"unsent", "pending", "success", "fail"}
      BY <3>1
    <3>3. \A i \in Slaves : fin[r][i] # "abandoned"
      BY <3>2
    <3> QED BY <2>1, <3>3 DEF PhaseInv, Answered
  <2>3. /\ \A i \in Slaves : fin'[r][i] = "unsent"
        /\ \A s \in Requests : s # r => fin'[s] = fin[s] /\ attempt'[s] = attempt[s]
        /\ attempt'[r] = attempt[r] + 1 /\ attempt[r] \in Nat
    BY <2>1 DEF TypeOK, Futures, PerSlaveOf
  <2>4. \A a \in 1..MaxAttempts : a < attempt[r] + 1 <=> a < attempt[r] \/ a = attempt[r]
    BY <2>3
  <2>5. ASSUME NEW t \in Task, NEW a \in 1..MaxAttempts
        PROVE  IsDone(t, a)' <=> IsDone(t, a)
    <3>1. CASE t.req = r
      BY <2>1, <2>2, <2>3, <2>4, <3>1 DEF IsDone, Answered
    <3>2. CASE t.req # r
      BY <1>0, <2>1, <2>3, <3>2 DEF IsDone
    <3> QED BY <3>1, <3>2
  <2>6. JobsDone' = JobsDone BY <2>5, DoneSame
  <2>7. \A t \in Task : t \in Pooled => ~(t.call_name = "finish" /\ t.req = r)
    <3> SUFFICES ASSUME NEW t \in Task, t \in Pooled, t.call_name = "finish", t.req = r
                 PROVE  FALSE
      OBVIOUS
    <3>1. IsDue(t) BY DEF DueInv
    <3> QED BY <1>0, <2>2, <3>1 DEF IsDue
  <2>8. \A t \in Task : t \in Pooled => JobOf(t)' = JobOf(t)
    BY <1>0, <2>3, <2>7 DEF JobOf
  <2> QED BY <2>1, <2>6, <2>8, JobsSame
<1>15. ASSUME NEW r \in Requests, NEW i \in Slaves, SlaveLate(r, i) \/ SlaveLoses(r, i)
       PROVE  [TQ!Next]_(TQ!vars)
  BY <1>4, <1>15 DEF SlaveLate, SlaveLoses
<1>16. CASE UNCHANGED vars
  BY <1>4, <1>16 DEF vars
<1> QED
  BY <1>1, <1>2, <1>3, <1>5, <1>6, <1>7, <1>8, <1>9, <1>10, <1>11, <1>12, <1>13,
     <1>14, <1>15, <1>16
     DEF Next, HandlerStep, RunStep, SlaveStep

(***************************************************************************)
(* The handlers see the pool as a TaskQueue that stays open: every task is *)
(* added at the tail, taken from the head by an idle thread, and finished  *)
(* once by the thread that took it; a task is not added again before it is *)
(* finished, and the finish of an earlier attempt is not taken for one of  *)
(* a later attempt.                                                        *)
(***************************************************************************)
THEOREM HandlersUseTaskQueue == Spec => TQ!Init /\ [][TQ!Next]_(TQ!vars)
<1>1. ASSUME JobInv, [Next]_vars PROVE JobInv'
  BY <1>1, NextPool, NextAttempt DEF JobInv
<1>2. Init => JobInv /\ TQ!Init
  BY InitJobs
<1> QED BY <1>1, <1>2, NextJobs, PTL DEF Spec

------------------------------------------------------------------------------
(***************************************************************************)
(* A write on one slave keeps SlaveWrite, which a session of SlaveSession   *)
(* implements with its connection and messages: the calls to a slave that   *)
(* the handlers make are as good as MasterHandler takes them for.           *)
(***************************************************************************)
FinAnswer(r, i) == IF fin[r][i] \in {"success", "fail"} THEN fin[r][i] ELSE "none"

SW(r, i) == INSTANCE SlaveWrite WITH
    wrote <- wrote[r][i], call_func <- call_func[r], fin <- FinAnswer(r, i), tx <- db[r][i]

LEMMA InitOnSlave ==
    ASSUME Init, NEW r \in Requests, NEW i \in Slaves PROVE SW(r, i)!Init
BY DEF Init, SW!Init, PerSlave, FinAnswer

(* A step that leaves alone what SlaveWrite sees.                           *)
LEMMA OnSlaveSame ==
    ASSUME NEW r, NEW i,
           wrote'[r][i] = wrote[r][i], call_func'[r] = call_func[r],
           fin'[r][i] = fin[r][i] \/ (fin[r][i] = "unsent" /\ fin'[r][i] = "pending"),
           db'[r][i] = db[r][i]
    PROVE  UNCHANGED SW(r, i)!vars
BY DEF SW!vars, FinAnswer

(* The write and the decision.                                              *)
LEMMA WriteOnSlave ==
    ASSUME AgreeInv, AgreeInv', NEW r \in Requests, NEW i \in Slaves,
           \/ MWriteAdd(r, i)
           \/ MWriteReturn(r)
           \/ \E w \in Workers : MWriteFromSlave(w, r, i)
    PROVE  SW(r, i)!Next
<1> USE DEF AgreeInv, PoolInv, TypeInv
<1>1. CASE MWriteAdd(r, i)
  <2>1. wrote[r][i] = "unsent" /\ wrote'[r][i] = "pending" /\ call_func[r] = "none"
    BY <1>1, WithAt DEF MWriteAdd, NextIn, PhaseInv
  <2> QED BY <1>1, <2>1
          DEF MWriteAdd, SW!Next, SW!SendWrite, FinAnswer, finishVars, slaveVars
<1>2. CASE MWriteReturn(r)
  <2>1. /\ call_func[r] = "none" /\ call_func'[r] \in {"commit", "rollback"}
        /\ UNCHANGED <<wrote, fin, db>>
    BY <1>2 DEF MWriteReturn, PhaseInv, TypeOK, finishVars, slaveVars
  <2>2. wrote'[r][i] # "pending" /\ (call_func'[r] = "commit" => wrote'[r][i] # "fail")
    BY <2>1 DEF WriteInv, SlaveInv
  <2> QED BY <2>1, <2>2 DEF SW!Next, SW!Decide, FinAnswer
<1>3. ASSUME NEW w \in Workers, MWriteFromSlave(w, r, i) PROVE SW(r, i)!Next
  <2>1. IsDue(running[w]) /\ running[w].call_name \in {"set", "del"}
        /\ running[w].req = r /\ running[w].slave = i
    BY <1>3, RunsDue, SlaveIndex DEF Runs, MWriteFromSlave
  <2>2. wrote[r][i] = "pending"
    BY <2>1 DEF IsDue
  <2>3. db[r][i] = "none"
    BY <2>2 DEF WriteInv, SlaveInv
  <2>4. \/ wrote'[r][i] = "success" /\ db'[r][i] = "open"
        \/ wrote'[r][i] = "fail" /\ db'[r][i] = db[r][i]
    BY <1>3, WithAt DEF MWriteFromSlave
  <2>5. UNCHANGED <<call_func, fin>>
    BY <1>3 DEF MWriteFromSlave, finishVars
  <2> QED BY <2>2, <2>3, <2>4, <2>5 DEF SW!Next, SW!AnswerWrite, SW!Opens, FinAnswer
<1> QED BY <1>1, <1>2, <1>3

(* The attempts at Finish.                                                  *)
LEMMA FinishOnSlave ==
    ASSUME AgreeInv, NEW r \in Requests, NEW i \in Slaves, NEW w \in Workers,
           MFinishFromSlave(w, r, i) \/ MMFinishRetry(w, r)
    PROVE  SW(r, i)!Next \/ UNCHANGED SW(r, i)!vars
<1> USE DEF AgreeInv, PoolInv, TypeInv
<1>1. CASE MFinishFromSlave(w, r, i)
  <2>1. IsDue(running[w]) /\ running[w].call_name = "finish"
        /\ running[w].req = r /\ running[w].slave = i
    BY <1>1, RunsDue, SlaveIndex DEF Runs, MFinishFromSlave
  <2>2. fin[r][i] = "pending"
    BY <2>1, HandlerAssumption DEF IsDue, Slaves
  <2>3. call_func[r] # "none" /\ UNCHANGED <<wrote, call_func>>
    BY <1>1, <2>2 DEF WriteInv, SlaveInv, MFinishFromSlave
  <2>4. \/ /\ wrote[r][i] = "success" /\ db[r][i] \in {"open", Outcome(r)}
           /\ db'[r][i] = Outcome(r) /\ fin'[r][i] = "success"
        \/ /\ wrote[r][i] # "success" \/ (call_func[r] = "rollback" /\ db[r][i] = "lost")
           /\ fin'[r][i] = "success" /\ db'[r][i] = db[r][i]
        \/ fin'[r][i] = "fail" /\ db'[r][i] = db[r][i]
    BY <1>1, WithAt DEF MFinishFromSlave, slaveVars, Named
  <2>5. FinAnswer(r, i) = "none" /\ FinAnswer(r, i)' = fin'[r][i]
    BY <2>2, <2>4 DEF FinAnswer
  <2>6. Outcome(r)' = Outcome(r)
    BY <2>3 DEF Outcome
  <2>7. wrote[r][i] # "success" => wrote[r][i] = "fail" /\ call_func[r] = "rollback"
    BY <2>2, <2>3 DEF WriteInv, SlaveInv, PhaseInv, TypeOK, Futures, PerSlaveOf
  <2>8. SW(r, i)!Ends \/ UNCHANGED db[r][i]
    BY <2>4 DEF SW!Ends, SW!Outcome, Outcome
  <2>9. fin'[r][i] = "success" => SW(r, i)!Settled'
    BY <2>3, <2>4, <2>6, <2>7 DEF SW!Settled, SW!Outcome, Outcome
  <2> QED BY <2>3, <2>4, <2>5, <2>8, <2>9 DEF SW!Next, SW!AnswerFinish
<1>2. CASE MMFinishRetry(w, r)
  <2>1. fin'[r][i] = "unsent" /\ UNCHANGED <<wrote, call_func, db>>
    BY <1>2 DEF MMFinishRetry, TypeOK, Futures, PerSlaveOf, slaveVars
  <2> QED BY <2>1 DEF SW!Next, SW!Retry, SW!vars, FinAnswer
<1> QED BY <1>1, <1>2

(* The slaves on their own.                                                 *)
LEMMA AloneOnSlave ==
    ASSUME AgreeInv, NEW r \in Requests, NEW i \in Slaves,
           SlaveLate(r, i) \/ SlaveLoses(r, i)
    PROVE  SW(r, i)!Next \/ UNCHANGED SW(r, i)!vars
<1> USE DEF AgreeInv, PoolInv, TypeInv
<1>1. UNCHANGED <<wrote, call_func, fin>>
  BY DEF SlaveLate, SlaveLoses, finishVars
<1>2. \/ db'[r][i] = db[r][i]
      \/ late[r][i] = "write" /\ db'[r][i] = "open"
      \/ late[r][i] = "finish" /\ db[r][i] = "open" /\ db'[r][i] = Outcome(r)
      \/ db[r][i] = "open" /\ db'[r][i] = "lost"
  BY WithAt DEF SlaveLate, SlaveLoses
<1>3. /\ late[r][i] = "write" => wrote[r][i] = "fail" /\ db[r][i] = "none"
      /\ late[r][i] = "finish" => wrote[r][i] = "success" /\ call_func[r] # "none"
  BY DEF WriteInv, SlaveInv, Named
<1> QED BY <1>1, <1>2, <1>3
        DEF SW!Next, SW!Execute, SW!Opens, SW!Finish, SW!Ends, SW!Outcome, SW!Lose,
            SW!vars, FinAnswer, Outcome

LEMMA NextOnSlave ==
    ASSUME AgreeInv, AgreeInv', [Next]_vars, NEW s \in Requests, NEW j \in Slaves
    PROVE  SW(s, j)!Next \/ UNCHANGED SW(s, j)!vars
<1> USE DEF AgreeInv, PoolInv, TypeInv
<1>1. ASSUME UNCHANGED <<wrote, call_func, fin, db>> PROVE UNCHANGED SW(s, j)!vars
  BY <1>1, OnSlaveSame
<1>2. ASSUME NEW r \in Requests, HandlerStep(r)
      PROVE  SW(s, j)!Next \/ UNCHANGED SW(s, j)!vars
  <2>1. ASSUME NEW i \in Slaves, MWriteAdd(r, i)
        PROVE  SW(s, j)!Next \/ UNCHANGED SW(s, j)!vars
    <3>1. s # r \/ j # i => wrote'[s][j] = wrote[s][j]
      BY <2>1, WithAt DEF MWriteAdd
    <3>2. UNCHANGED <<call_func, fin, db>>
      BY <2>1 DEF MWriteAdd, finishVars, slaveVars
    <3> QED BY <2>1, <3>1, <3>2, WriteOnSlave, OnSlaveSame
  <2>2. CASE MWriteReturn(r)
    <3>1. UNCHANGED <<wrote, fin, db>> /\ (s # r => call_func'[s] = call_func[s])
      BY <2>2 DEF MWriteReturn, TypeOK, finishVars, slaveVars
    <3> QED BY <2>2, <3>1, WriteOnSlave, OnSlaveSame
  <2>3. CASE \/ MGetFail(r) \/ MGetReturn(r) \/ Connect(r) \/ MTryReturn(r)
             \/ \E i \in Slaves : \/ MTryAdd(r, i)
                                  \/ \E up \in BOOLEAN : MGetConnect(r, i, up)
    BY <1>1, <2>3 DEF MGetFail, MGetReturn, Connect, MTryReturn, MTryAdd, MGetConnect,
                      finishVars, slaveVars
  <2> QED BY <1>2, <2>1, <2>2, <2>3 DEF HandlerStep
<1>3. ASSUME NEW w \in Workers, NEW r \in Requests, NEW i \in Slaves,
             \/ MGetFromSlaves(w, r, i) \/ MTryFromSlave(w, r, i)
             \/ MWriteFromSlave(w, r, i) \/ MFinishFromSlave(w, r, i)
             \/ MFinishAdd(w, r, i)
      PROVE  SW(s, j)!Next \/ UNCHANGED SW(s, j)!vars
  <2>1. CASE MGetFromSlaves(w, r, i) \/ MTryFromSlave(w, r, i)
    BY <1>1, <2>1 DEF MGetFromSlaves, MTryFromSlave, finishVars, slaveVars
  <2>2. CASE MWriteFromSlave(w, r, i)
    <3>1. s # r \/ j # i => wrote'[s][j] = wrote[s][j] /\ db'[s][j] = db[s][j]
      BY <2>2, WithAt DEF MWriteFromSlave
    <3>2. UNCHANGED <<call_func, fin>>
      BY <2>2 DEF MWriteFromSlave, finishVars
    <3> QED BY <2>2, <3>1, <3>2, WriteOnSlave, OnSlaveSame
  <2>3. CASE MFinishFromSlave(w, r, i)
    <3>1. s # r \/ j # i => fin'[s][j] = fin[s][j] /\ db'[s][j] = db[s][j]
      BY <2>3, WithAt DEF MFinishFromSlave, slaveVars
    <3>2. UNCHANGED <<call_func, wrote>>
      BY <2>3 DEF MFinishFromSlave
    <3> QED BY <2>3, <3>1, <3>2, FinishOnSlave, OnSlaveSame
  <2>4. CASE MFinishAdd(w, r, i)
    <3>1. UNCHANGED <<wrote, call_func, db>> /\ fin[r][i] = "unsent"
      BY <2>4 DEF MFinishAdd, NextIn, slaveVars
    <3>2. fin'[s][j] = IF s = r /\ j = i THEN "pending" ELSE fin[s][j]
      BY <2>4, WithAt DEF MFinishAdd
    <3> QED BY <3>1, <3>2, OnSlaveSame
  <2> QED BY <1>3, <2>1, <2>2, <2>3, <2>4
<1>4. ASSUME NEW w \in Workers, NEW r \in Requests, MMFinishRetry(w, r)
      PROVE  SW(s, j)!Next \/ UNCHANGED SW(s, j)!vars
  <2>1. UNCHANGED <<wrote, call_func, db>> /\ (s # r => fin'[s] = fin[s])
    BY <1>4 DEF MMFinishRetry, TypeOK, Futures, PerSlaveOf, slaveVars
  <2> QED BY <1>4, <2>1, FinishOnSlave, OnSlaveSame
<1>5. ASSUME NEW w \in Workers, Take(w) \/ \E r \in Requests : MMFinishReturn(w, r)
      PROVE  UNCHANGED SW(s, j)!vars
  BY <1>1, <1>5 DEF Take, MMFinishReturn, finishVars, slaveVars
<1>6. ASSUME NEW r \in Requests, NEW i \in Slaves, SlaveLate(r, i) \/ SlaveLoses(r, i)
      PROVE  SW(s, j)!Next \/ UNCHANGED SW(s, j)!vars
  <2>1. UNCHANGED <<wrote, call_func, fin>>
    BY <1>6 DEF SlaveLate, SlaveLoses, finishVars
  <2>2. s # r \/ j # i => db'[s][j] = db[s][j]
    BY <1>6, WithAt DEF SlaveLate, SlaveLoses
  <2> QED BY <1>6, <2>1, <2>2, AloneOnSlave, OnSlaveSame
<1>7. CASE UNCHANGED vars
  BY <1>1, <1>7 DEF vars, finishVars, slaveVars
<1> QED BY <1>2, <1>3, <1>4, <1>5, <1>6, <1>7 DEF Next, RunStep, SlaveStep

(***************************************************************************)
(* Whatever the interleaving of requests, tasks and slaves: what becomes of *)
(* one write on one slave is a behaviour of SlaveWrite.                     *)
(***************************************************************************)
THEOREM HandlersImplementSlaveWrite ==
    Spec => \A r \in Requests, i \in Slaves : SW(r, i)!Spec
<1>1. ASSUME NEW r \in Requests, NEW i \in Slaves PROVE Spec => SW(r, i)!Spec
  <2>1. Init => SW(r, i)!Init
    BY InitOnSlave
  <2>2. AgreeInv /\ AgreeInv' /\ [Next]_vars => [SW(r, i)!Next]_(SW(r, i)!vars)
    BY NextOnSlave
  <2> QED BY <2>1, <2>2, AgreeAlways, PTL DEF Spec, SW!Spec
<1> QED BY <1>1
=============================================================================
