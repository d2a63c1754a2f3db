------------------------------ MODULE TaskQueue ------------------------------
(***************************************************************************)
(* What the thread pool of thread/threadpool.{h,cpp} promises to the code  *)
(* that calls addTask: a first-in first-out queue whose tasks are handed,  *)
(* one at a time, to idle workers, each task to one worker and once.  The  *)
(* promise is withdrawn when the pool closes: when stop() raises the       *)
(* stopping flag, or when the process ends.                                *)
(*                                                                         *)
(* ThreadPool is shown to implement this module; the transaction layer     *)
(* (MasterHandler) is built on it.                                             *)
(***************************************************************************)
EXTENDS Sequences

CONSTANTS
    Workers,    \* the threads of the pool
    Tasks,      \* the ThreadTask objects that are ever created
    NoTask      \* what a worker runs when it runs nothing

VARIABLES
    unsent,     \* tasks nobody has passed to addTask yet
    queue,      \* tasks added and not yet taken
    running,    \* the task each worker has taken and not finished
    done,       \* finished tasks
    open        \* the promise holds: not stopping, process alive

vars == <<unsent, queue, running, done, open>>

Init ==
    /\ unsent = Tasks
    /\ queue = <<>>
    /\ running = [w \in Workers |-> NoTask]
    /\ done = {}
    /\ open = TRUE

\* A thread adds a task at the tail.
Submit(t) ==
    /\ t \in unsent
    /\ unsent' = unsent \ {t}
    /\ queue' = Append(queue, t)
    /\ UNCHANGED <<running, done, open>>

\* An idle worker takes the task at the head.
Take(w) ==
    /\ running[w] = NoTask
    /\ queue # <<>>
    /\ running' = [running EXCEPT ![w] = Head(queue)]
    /\ queue' = Tail(queue)
    /\ UNCHANGED <<unsent, done, open>>

\* A worker's callback returns.
Finish(w) ==
    /\ running[w] # NoTask
    /\ done' = done \cup {running[w]}
    /\ running' = [running EXCEPT ![w] = NoTask]
    /\ UNCHANGED <<unsent, queue, open>>

Close ==
    /\ open
    /\ open' = FALSE
    /\ UNCHANGED <<unsent, queue, running, done>>

Next ==
    \/ \E t \in Tasks : Submit(t)
    \/ \E w \in Workers : Take(w) \/ Finish(w)
    \/ Close

\* While the pool is open, a queued task is taken as soon as a worker is free
\* for it, whatever the other workers are doing.  When a running task ends is the
\* task's own affair: it may wait for others, and for ever.
Fairness == WF_vars(open /\ \E w \in Workers : Take(w))

Spec == Init /\ [][Next]_vars /\ Fairness
=============================================================================
