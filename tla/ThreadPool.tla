------------------------------ MODULE ThreadPool ------------------------------
(***************************************************************************)
(* The thread pool of thread/threadpool.{h,cpp}, at the grain of its mutex,*)
(* its condition variable (thread/mutex.h) and its two atomic counters.    *)
(*                                                                         *)
(* Three kinds of threads share a pool: the workers, which execute run();  *)
(* the callers of addTask (RPC threads, and pool threads inside a callback *)
(* that adds tasks); and the owner, which constructs the pool, and may stop*)
(* it and start it again.  A program counter per thread says which         *)
(* statement the thread executes next.                                     *)
(***************************************************************************)
EXTENDS Integers, Sequences, FiniteSets

CONSTANTS
    Workers,    \* the threads that start() creates, m_threadCount of them
    Callers,    \* the threads that call addTask
    Owner,      \* the thread that constructs, stops and restarts the pool
    Tasks,      \* the ThreadTask objects that are ever created
    NoTask,     \* no task at hand
    NoThread    \* the mutex is free

\* QML_ASSERT(threads > 0) in the constructor, and one identity per thread.
ASSUME PoolAssumption ==
    /\ IsFiniteSet(Workers)
    /\ Workers # {}
    /\ IsFiniteSet(Callers)
    /\ Workers \cap Callers = {}
    /\ Owner \notin Workers \cup Callers
    /\ NoThread \notin Workers \cup Callers \cup {Owner}
    /\ NoTask \notin Tasks

VARIABLES
    m_taskQueue,        \* std::queue of tasks
    m_taskCount,        \* atomic, read by hasTaskCount()
    m_idleThreadCount,  \* atomic, read by hasIdleThreads()
    m_stopping,         \* plain bool, read and written without the mutex too
    holder,             \* the thread that holds m_cond's mutex
    wpc,                \* what each worker executes next
    task,               \* the local variable `task' of run()
    cpc,                \* what each caller executes next
    arg,                \* the argument of a caller's addTask
    opc,                \* what the owner executes next
    unsent,             \* tasks no caller has created yet
    done,               \* tasks whose callback has returned
    status              \* "ok", or how the process came to its end

counters == <<m_taskCount, m_idleThreadCount>>
workerVars == <<wpc, task>>
callerVars == <<cpc, arg>>
vars == <<m_taskQueue, counters, m_stopping, holder, workerVars, callerVars,
          opc, unsent, done, status>>

Threads == Workers \cup Callers \cup {Owner}

WorkerPC == {"unborn", "lock", "stop1", "count", "wait", "waiting", "wake",
             "stop2", "front", "unlock", "decCount", "decIdle", "run",
             "incIdle", "exited"}
\* The statements a worker executes with the mutex in its hands.
WorkerLocked == {"stop1", "count", "wait", "stop2", "front", "unlock"}

CallerPC == {"idle", "push", "inc", "notify", "unlock"}
CallerLocked == CallerPC \ {"idle"}

OwnerPC == {"start", "check", "create", "unlock", "up", "notify", "join",
            "stopped"}
OwnerLocked == {"check", "create", "unlock"}

Running == status = "ok"

------------------------------------------------------------------------------
(* The constructor's start(), and stop().                                   *)

Init ==
    /\ m_taskQueue = <<>>
    /\ m_taskCount = 0
    /\ m_idleThreadCount = Cardinality(Workers)
    /\ m_stopping = TRUE
    /\ holder = NoThread
    /\ wpc = [w \in Workers |-> "unborn"]
    /\ task = [w \in Workers |-> NoTask]
    /\ cpc = [c \in Callers |-> "idle"]
    /\ arg = [c \in Callers |-> NoTask]
    /\ opc = "start"
    /\ unsent = Tasks
    /\ done = {}
    /\ status = "ok"

Acquire(t) == holder = NoThread /\ holder' = t
Release(t) == holder = t /\ holder' = NoThread

\* start(): the Cond object takes the mutex.
StartLock ==
    /\ Running
    /\ opc = "start"
    /\ Acquire(Owner)
    /\ opc' = "check"
    /\ UNCHANGED <<m_taskQueue, counters, m_stopping, workerVars, callerVars,
                   unsent, done, status>>

\* if (!m_stopping) return; m_stopping = false; QML_ASSERT(m_threads.empty()).
\* stop() leaves the joined threads in m_threads, so the assertion aborts the
\* process when the pool has been started before.
StartCheck ==
    /\ Running
    /\ opc = "check"
    /\ \/ /\ ~m_stopping
          /\ opc' = "unlock"
          /\ UNCHANGED <<m_stopping, status>>
       \/ /\ m_stopping
          /\ m_stopping' = FALSE
          /\ opc' = "create"
          /\ status' = IF \A w \in Workers : wpc[w] = "unborn"
                          THEN "ok" ELSE "asserted"
    /\ UNCHANGED <<m_taskQueue, counters, holder, workerVars, callerVars,
                   unsent, done>>

\* One iteration of the loop that creates the threads: Thread's constructor
\* returns when the new thread has posted its semaphore and is about to run().
StartCreate(w) ==
    /\ Running
    /\ opc = "create"
    /\ wpc[w] = "unborn"
    /\ wpc' = [wpc EXCEPT ![w] = "lock"]
    /\ opc' = IF \A v \in Workers \ {w} : wpc[v] # "unborn"
                 THEN "unlock" ELSE "create"
    /\ UNCHANGED <<m_taskQueue, counters, m_stopping, holder, task, callerVars,
                   unsent, done, status>>

StartUnlock ==
    /\ Running
    /\ opc = "unlock"
    /\ Release(Owner)
    /\ opc' = "up"
    /\ UNCHANGED <<m_taskQueue, counters, m_stopping, workerVars, callerVars,
                   unsent, done, status>>

\* A call of start() on a pool that is up or was stopped.
StartAgain ==
    /\ Running
    /\ opc \in {"up", "stopped"}
    /\ opc' = "start"
    /\ UNCHANGED <<m_taskQueue, counters, m_stopping, holder, workerVars,
                   callerVars, unsent, done, status>>

\* stop(), up to the flag: it takes no mutex.
StopFlag ==
    /\ Running
    /\ opc = "up"
    /\ ~m_stopping
    /\ m_stopping' = TRUE
    /\ opc' = "notify"
    /\ UNCHANGED <<m_taskQueue, counters, holder, workerVars, callerVars,
                   unsent, done, status>>

\* m_cond.notify_all(), again without the mutex.
StopNotifyAll ==
    /\ Running
    /\ opc = "notify"
    /\ wpc' = [w \in Workers |-> IF wpc[w] = "waiting" THEN "wake" ELSE wpc[w]]
    /\ opc' = "join"
    /\ UNCHANGED <<m_taskQueue, counters, m_stopping, holder, task, callerVars,
                   unsent, done, status>>

\* Faulty variant: stop() detaches the threads.
StopDetached ==
    /\ Running
    /\ opc = "join"
    /\ opc' = "stopped"
    /\ UNCHANGED <<m_taskQueue, counters, m_stopping, holder, workerVars,
                   callerVars, unsent, done, status>>

\* The joins of stop(), one thread after the other, are over.
StopJoined ==
    /\ Running
    /\ opc = "join"
    /\ \A w \in Workers : wpc[w] = "exited"
    /\ opc' = "stopped"
    /\ UNCHANGED <<m_taskQueue, counters, m_stopping, holder, workerVars,
                   callerVars, unsent, done, status>>

------------------------------------------------------------------------------
(* run(), the loop of a worker.                                             *)

Goto(w, from, to) == wpc[w] = from /\ wpc' = [wpc EXCEPT ![w] = to]

\* The Cond object of the iteration takes the mutex; or pthread_cond_wait,
\* woken up, takes it back.
WorkerLock(w) ==
    /\ Running
    /\ wpc[w] \in {"lock", "wake"}
    /\ Acquire(w)
    /\ wpc' = [wpc EXCEPT ![w] = "stop1"]
    /\ UNCHANGED <<m_taskQueue, counters, m_stopping, task, callerVars, opc,
                   unsent, done, status>>

\* Faulty variant: the loop's condition does not look at the flag.
TestStoppingIgnored(w) ==
    /\ Running
    /\ Goto(w, "stop1", "count")
    /\ UNCHANGED <<m_taskQueue, counters, m_stopping, holder, task, callerVars,
                   opc, unsent, done, status>>

\* while (!stopping() && ...
TestStopping(w) ==
    /\ Running
    /\ Goto(w, "stop1", IF m_stopping THEN "stop2" ELSE "count")
    /\ UNCHANGED <<m_taskQueue, counters, m_stopping, holder, task, callerVars,
                   opc, unsent, done, status>>

\* ... !hasTaskCount())
TestTaskCount(w) ==
    /\ Running
    /\ Goto(w, "count", IF m_taskCount > 0 THEN "stop2" ELSE "wait")
    /\ UNCHANGED <<m_taskQueue, counters, m_stopping, holder, task, callerVars,
                   opc, unsent, done, status>>

\* cond.wait() gives the mutex back and sleeps, in one step.
Wait(w) ==
    /\ Running
    /\ Goto(w, "wait", "waiting")
    /\ Release(w)
    /\ UNCHANGED <<m_taskQueue, counters, m_stopping, task, callerVars, opc,
                   unsent, done, status>>

\* POSIX lets pthread_cond_wait return without a signal.
SpuriousWakeup(w) ==
    /\ Running
    /\ Goto(w, "waiting", "wake")
    /\ UNCHANGED <<m_taskQueue, counters, m_stopping, holder, task, callerVars,
                   opc, unsent, done, status>>

\* if (stopping()) break: the destructor of cond gives the mutex back.
ExitIfStopping(w) ==
    /\ Running
    /\ wpc[w] = "stop2"
    /\ \/ /\ m_stopping
          /\ wpc' = [wpc EXCEPT ![w] = "exited"]
          /\ Release(w)
       \/ /\ ~m_stopping
          /\ wpc' = [wpc EXCEPT ![w] = "front"]
          /\ UNCHANGED holder
    /\ UNCHANGED <<m_taskQueue, counters, m_stopping, task, callerVars, opc,
                   unsent, done, status>>

\* Faulty variant: front() without pop().
FrontWithoutPop(w) ==
    /\ Running
    /\ m_taskQueue # <<>>
    /\ Goto(w, "front", "unlock")
    /\ task' = [task EXCEPT ![w] = Head(m_taskQueue)]
    /\ UNCHANGED <<m_taskQueue, counters, m_stopping, holder, callerVars, opc,
                   unsent, done, status>>

\* task = m_taskQueue.front(); m_taskQueue.pop().  On an empty std::queue both
\* are undefined: front() copies a shared_ptr from a slot that holds none, and
\* pop() leaves a queue of size -1.  What follows runs from a segmentation
\* fault at task->call_name to a task run twice; nothing is claimed after it.
TakeFront(w) ==
    /\ Running
    /\ \/ /\ m_taskQueue # <<>>
          /\ Goto(w, "front", "unlock")
          /\ task' = [task EXCEPT ![w] = Head(m_taskQueue)]
          /\ m_taskQueue' = Tail(m_taskQueue)
          /\ UNCHANGED status
       \/ /\ m_taskQueue = <<>>
          /\ wpc[w] = "front"
          /\ status' = "undefined"
          /\ UNCHANGED <<wpc, task, m_taskQueue>>
    /\ UNCHANGED <<counters, m_stopping, holder, callerVars, opc, unsent, done>>

\* cond.unlock()
WorkerUnlock(w) ==
    /\ Running
    /\ Goto(w, "unlock", "decCount")
    /\ Release(w)
    /\ UNCHANGED <<m_taskQueue, counters, m_stopping, task, callerVars, opc,
                   unsent, done, status>>

\* Faulty variant: the task is taken and never discounted.
DecTaskCountMissing(w) ==
    /\ Running
    /\ Goto(w, "decCount", "decIdle")
    /\ UNCHANGED <<m_taskQueue, counters, m_stopping, holder, task, callerVars,
                   opc, unsent, done, status>>

\* --m_taskCount, after the mutex is free again
DecTaskCount(w) ==
    /\ Running
    /\ Goto(w, "decCount", "decIdle")
    /\ m_taskCount' = m_taskCount - 1
    /\ UNCHANGED <<m_taskQueue, m_idleThreadCount, m_stopping, holder, task,
                   callerVars, opc, unsent, done, status>>

\* --m_idleThreadCount
DecIdle(w) ==
    /\ Running
    /\ Goto(w, "decIdle", "run")
    /\ m_idleThreadCount' = m_idleThreadCount - 1
    /\ UNCHANGED <<m_taskQueue, m_taskCount, m_stopping, holder, task,
                   callerVars, opc, unsent, done, status>>

\* Faulty variant: the task is given up before it is accounted for.
RunCallbackMoved(w) ==
    /\ Running
    /\ Goto(w, "run", "incIdle")
    /\ task' = [task EXCEPT ![w] = NoTask]
    /\ done' = done \cup {task'[w]}
    /\ UNCHANGED <<m_taskQueue, counters, m_stopping, holder, callerVars, opc,
                   unsent, status>>

\* The callback that call_name selects runs and returns.  An exception that it
\* lets escape reaches the top of the thread and terminates the process.
RunCallback(w) ==
    /\ Running
    /\ \/ /\ Goto(w, "run", "incIdle")
          /\ done' = done \cup {task[w]}
          /\ task' = [task EXCEPT ![w] = NoTask]
          /\ UNCHANGED status
       \/ /\ wpc[w] = "run"
          /\ status' = "terminated"
          /\ UNCHANGED <<wpc, done, task>>
    /\ UNCHANGED <<m_taskQueue, counters, m_stopping, holder, callerVars, opc,
                   unsent>>

\* ++m_idleThreadCount, and round again
IncIdle(w) ==
    /\ Running
    /\ Goto(w, "incIdle", "lock")
    /\ m_idleThreadCount' = m_idleThreadCount + 1
    /\ UNCHANGED <<m_taskQueue, m_taskCount, m_stopping, holder, task,
                   callerVars, opc, unsent, done, status>>

------------------------------------------------------------------------------
(* addTask()                                                                *)

CallerGoto(c, from, to) == cpc[c] = from /\ cpc' = [cpc EXCEPT ![c] = to]

\* A caller that got the pool from getPool creates a task and enters addTask.
\* It cannot have the pool before the constructor has returned.
AddLock(c, t) ==
    /\ Running
    /\ \A w \in Workers : wpc[w] # "unborn"
    /\ t \in unsent
    /\ CallerGoto(c, "idle", "push")
    /\ Acquire(c)
    /\ arg' = [arg EXCEPT ![c] = t]
    /\ unsent' = unsent \ {t}
    /\ UNCHANGED <<m_taskQueue, counters, m_stopping, workerVars, opc, done,
                   status>>

\* Faulty variant: a stack instead of a queue.
AddPushFront(c) ==
    /\ Running
    /\ CallerGoto(c, "push", "inc")
    /\ m_taskQueue' = <<arg[c]>> \o m_taskQueue
    /\ arg' = [arg EXCEPT ![c] = NoTask]
    /\ UNCHANGED <<counters, m_stopping, holder, workerVars, opc, unsent, done,
                   status>>

\* m_taskQueue.push(task)
AddPush(c) ==
    /\ Running
    /\ CallerGoto(c, "push", "inc")
    /\ m_taskQueue' = Append(m_taskQueue, arg[c])
    /\ arg' = [arg EXCEPT ![c] = NoTask]
    /\ UNCHANGED <<counters, m_stopping, holder, workerVars, opc, unsent, done,
                   status>>

\* ++m_taskCount
AddCount(c) ==
    /\ Running
    /\ CallerGoto(c, "inc", "notify")
    /\ m_taskCount' = m_taskCount + 1
    /\ UNCHANGED <<m_taskQueue, m_idleThreadCount, m_stopping, holder,
                   workerVars, arg, opc, unsent, done, status>>

\* Faulty variant: the task is added silently.
AddSilently(c) ==
    /\ Running
    /\ CallerGoto(c, "notify", "unlock")
    /\ UNCHANGED <<m_taskQueue, counters, m_stopping, holder, workerVars, arg,
                   opc, unsent, done, status>>

\* cond.notify(): pthread_cond_signal wakes one of the sleepers, if any.
AddNotify(c) ==
    /\ Running
    /\ CallerGoto(c, "notify", "unlock")
    /\ \/ \E w \in Workers : Goto(w, "waiting", "wake")
       \/ (\A w \in Workers : wpc[w] # "waiting") /\ UNCHANGED wpc
    /\ UNCHANGED <<m_taskQueue, counters, m_stopping, holder, task, arg, opc,
                   unsent, done, status>>

AddUnlock(c) ==
    /\ Running
    /\ CallerGoto(c, "unlock", "idle")
    /\ Release(c)
    /\ UNCHANGED <<m_taskQueue, counters, m_stopping, workerVars, arg, opc,
                   unsent, done, status>>

------------------------------------------------------------------------------
OwnerStep ==
    \/ StartLock \/ StartCheck \/ StartUnlock \/ StartAgain
    \/ StopFlag \/ StopNotifyAll \/ StopJoined
    \/ \E w \in Workers : StartCreate(w)

RunStep(w) ==
    \/ WorkerLock(w) \/ TestStopping(w) \/ TestTaskCount(w) \/ Wait(w)
    \/ ExitIfStopping(w) \/ TakeFront(w) \/ WorkerUnlock(w)
    \/ DecTaskCount(w) \/ DecIdle(w) \/ RunCallback(w) \/ IncIdle(w)

AddStep(c) ==
    \/ \E t \in Tasks : AddLock(c, t)
    \/ AddPush(c) \/ AddCount(c) \/ AddNotify(c) \/ AddUnlock(c)

Next ==
    \/ OwnerStep
    \/ \E w \in Workers : RunStep(w) \/ SpuriousWakeup(w)
    \/ \E c \in Callers : AddStep(c)

Spec == Init /\ [][Next]_vars

\* The operating system keeps running every thread that can run.  Nobody has
\* to call addTask, stop or start, and nobody has to wake a sleeper.  Nor does a
\* callback have to return: some wait for other tasks of the pool.
AddReturns(c) == AddPush(c) \/ AddCount(c) \/ AddNotify(c) \/ AddUnlock(c)
OwnerReturns ==
    \/ StartLock \/ StartCheck \/ StartUnlock \/ StopNotifyAll \/ StopJoined
    \/ \E w \in Workers : StartCreate(w)

Fairness ==
    /\ \A w \in Workers : WF_vars(wpc[w] # "run" /\ RunStep(w))
    /\ \A c \in Callers : WF_vars(AddReturns(c))
    /\ WF_vars(OwnerReturns)

\* Nobody calls start() for ever: the program calls it once per pool.
FewStarts == <>[][~StartAgain]_vars

FairSpec == Spec /\ Fairness /\ FewStarts

------------------------------------------------------------------------------
(* What the pool guarantees.                                                *)

TypeOK ==
    /\ m_taskQueue \in Seq(Tasks)
    /\ m_taskCount \in Int
    /\ m_idleThreadCount \in Int
    /\ m_stopping \in BOOLEAN
    /\ holder \in Threads \cup {NoThread}
    /\ wpc \in [Workers -> WorkerPC]
    /\ task \in [Workers -> Tasks \cup {NoTask}]
    /\ cpc \in [Callers -> CallerPC]
    /\ arg \in [Callers -> Tasks \cup {NoTask}]
    /\ opc \in OwnerPC
    /\ unsent \subseteq Tasks
    /\ done \subseteq Tasks
    /\ status \in {"ok", "undefined", "terminated", "asserted"}

\* Every thread that is inside a critical section of the mutex holds it, so
\* front(), pop() and push() of the std::queue never overlap.  The exits from
\* the sections (break, the hand-written unlock, cond.wait) all give it back.
MutexInv ==
    /\ \A w \in Workers : wpc[w] \in WorkerLocked <=> holder = w
    /\ \A c \in Callers : cpc[c] \in CallerLocked <=> holder = c
    /\ opc \in OwnerLocked <=> holder = Owner

\* Workers that have popped a task and not yet lowered m_taskCount.
Lagging == {w \in Workers : wpc[w] \in {"unlock", "decCount"}}
\* Callers that have pushed a task and not yet raised m_taskCount.
Leading == {c \in Callers : cpc[c] = "inc"}

\* m_taskCount is changed next to the queue and not together with it: it runs
\* ahead of the queue by exactly the lagging workers, and behind it by the
\* leading caller.  In particular the size_t never wraps below zero.
CountInv ==
    /\ m_taskCount = Len(m_taskQueue) + Cardinality(Lagging)
                                        - Cardinality(Leading)
    /\ m_taskCount >= 0

\* m_idleThreadCount counts the workers that are not inside a callback, up to
\* the two statements around the callback, and counts exited workers as idle.
Busy == {w \in Workers : wpc[w] \in {"run", "incIdle"}}
IdleInv == m_idleThreadCount = Cardinality(Workers) - Cardinality(Busy)

\* Both counters are right up to the threads that stand between two updates, so
\* that whenever nobody does they are exact: m_taskCount is the length of the
\* queue and m_idleThreadCount the number of workers without a callback.
CountersInv == CountInv /\ IdleInv

\* A worker that has decided to sleep has seen an empty queue, and the queue
\* stays empty until the worker is asleep.
SleepInv == \A w \in Workers : wpc[w] = "wait" => m_taskQueue = <<>>

\* addTask's one signal per task is enough: when nobody is inside addTask and
\* the pool is not stopping, a queued task has a worker that is awake.
NoLostWakeup ==
    (/\ Running
     /\ ~m_stopping
     /\ m_taskQueue # <<>>
     /\ \A c \in Callers : cpc[c] \notin {"inc", "notify"})
    => \E w \in Workers : wpc[w] \notin {"unborn", "waiting", "exited"}

\* Where a task can be: not created, in a caller's hands, queued, in a
\* worker's hands, finished.
InHand == {arg[c] : c \in Callers} \ {NoTask}
Queued == {m_taskQueue[i] : i \in 1..Len(m_taskQueue)}
InRun == {task[w] : w \in Workers} \ {NoTask}

\* No interleaving loses a task or hands it out twice: every task is in
\* exactly one place, in one slot of the queue and with one thread.
OnePlace ==
    /\ unsent \cup InHand \cup Queued \cup InRun \cup done = Tasks
    /\ unsent \cap (InHand \cup Queued \cup InRun \cup done) = {}
    /\ InHand \cap (Queued \cup InRun \cup done) = {}
    /\ Queued \cap (InRun \cup done) = {}
    /\ InRun \cap done = {}
    /\ \A i, j \in 1..Len(m_taskQueue) :
          m_taskQueue[i] = m_taskQueue[j] => i = j
    /\ \A v, w \in Workers : task[v] = task[w] /\ v # w => task[v] = NoTask
    /\ \A c, d \in Callers : arg[c] = arg[d] /\ c # d => arg[c] = NoTask

\* run() takes from an empty queue in no state of the pool.  True of a pool of
\* one thread, the constructor's default; not of the ten that getPool makes.
FrontHasTask == status # "undefined"

\* start() may abort on a pool that was stopped, but never beside a thread that
\* still works: every worker has left run() and been joined, so no task is cut
\* short and no thread is about to touch a pool that has started anew.
AbortsAtRest ==
    status = "asserted" => \A w \in Workers : wpc[w] = "exited" /\ task[w] = NoTask

\* stop() returns: once its broadcast is out, it joins every worker, unless one
\* has gone to sleep, or is about to, on a flag read before stop() set it (stop()
\* takes no mutex, so that worker misses the broadcast), or one runs a callback
\* that never returns.  Workers leave without draining the queue, so the second
\* is at hand: MMFinish waits for tasks of its own pool.  Nothing else keeps it.
MissedBroadcast ==
    \E w \in Workers : wpc[w] \in {"count", "wait", "waiting"}
StopReturns ==
    \/ (opc = "join" /\ ~MissedBroadcast) ~> (opc = "stopped" \/ ~Running)
    \/ \E w \in Workers : <>[](wpc[w] = "run")

\* The pool implements the queue of tasks that its callers rely on.  The queue
\* is open until stop() raises the flag or the process comes to its end.
Stopped == m_stopping /\ \E w \in Workers : wpc[w] # "unborn"
TQ == INSTANCE TaskQueue WITH
        unsent <- unsent \cup InHand, queue <- m_taskQueue, running <- task,
        open <- Running /\ ~Stopped
ImplementsTaskQueue == TQ!Spec
=============================================================================
