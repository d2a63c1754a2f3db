# A verification of Master_Rpc

TLA+ specifications of Master_Rpc, a master that spreads Get, Set and Del
requests over MySQL-backed slaves, with the TLC configurations that check them
on small instances and the TLAPS proofs that hold for every instance.
`PROJECT.json` lists every component with its files, every run, the lines that
each definition translates, the hazards of the code at their lines and the
findings.

## The system

| Component | State | Operations | Talks to |
|---|---|---|---|
| Thread pool (`thread/threadpool.{h,cpp}`) | task queue, task count, idle count, stopping flag, one mutex with a condition variable | constructor/`start`, `stop`, `addTask`, `run` of each worker | `Thread`, `Condition`, the callbacks of the tasks |
| Pool registry (`getThreadPool`) | map from id to pool | `getPool` | constructs pools on first use, without a lock |
| Thread start (`thread/thread.cpp`, `thread/mutex.h`) | semaphore, thread id | constructor, `run`, `join` | pthreads |
| Master handlers (`gen-cpp/Master_server.cpp`) | locals of each request: clients, promises and futures, the string of tries, the decision | `Get`, `Set`, `Del`, and on pool threads `MGetFromSlaves`, `MTryFromSlave`, `MSetFromSlave`, `MDelFromSlave`, `MMFinish`/`MFinish`/`MFinishFromSlave` | RPC threads call the handlers; the handlers add tasks to pool 1; `MMFinish` adds tasks to the pool it runs on |
| Slave clients (`client/master_client_base.h`, `client/slave_client.h`) | one connection per request and slave, 2 s timeouts | `Get`, `Try`, `Set`, `Del`, `Finish` | the generated stubs |
| Generated stubs (`gen-cpp/Master.cpp`, `gen-cpp/Slave.cpp`) | a transport | `send_X`, `recv_X`, `process_X` | Thrift |
| Client (`client/client.cpp`) | current master | the loop with the `goto` to the next master | the masters |
| Slaves | tables and open transactions by connection id | Get, Try, Set, Del, Finish | not in the repository (only a skeleton, `gen-cpp/Slave_server.cpp`, and the MySQL helpers in `db/`) |
| MySQL access, configuration (`db/mysql_client.cpp`, `conf/`) | the rows of `infoTable` | `get`, `put`, `del`, `check_key`, `set_func` | the slaves' database |
| Logger (`log/elog.cpp`, `log/elog_async.cpp`) | output lock, ring buffer and its thread | `elog_output`, `elog_init`, `elog_start`, `elog_stop`, `elog_deinit`, the output thread | every component logs |
| Log file (`log/elog_file.cpp`) | the file and its rotated parts, a System V semaphore that all processes share | `elog_file_init`, `elog_file_write` with its rotation, `elog_file_deinit` | the output thread and writers call it; other processes use the same file |

### What is hard here, and what makes each part correct

- **Thread pool.** The atomic counters are changed next to the queue and not
  together with it, `stop()` takes no mutex, and one signal is sent per task.
  Correct means: the mutex protects the queue, the count and the queue differ
  only by the threads between their two updates, no task is lost, doubled or
  left while everyone sleeps, tasks start first in, first out.
- **Master handlers.** Tasks wait for tasks of the same pool; a write spreads
  over several slaves, any of which may time out and execute later, be asked to
  finish three times, or lose its transaction; the answer is sent before the
  commit. Correct means: slaves that commit agree with each other and with the
  answer, every awaited future is set once, every request ends.
- **Rows.** The table has no unique key: whether a Set updates or inserts is
  decided by a try that other writes may overtake, and one empty string stands
  for an absent key, an empty value and a failed query. Correct means: a key has
  one row, a committed write is what is read next, resting slaves agree.
- **Asynchronous log output.** A full and an empty ring buffer have equal
  indices; writers, the output thread and an application that stops and
  deinitializes interleave around a semaphore and unguarded flags. Correct
  means: bytes come out once and in order, no log sleeps in the buffer.
- **Log file.** A rotation is a chain of removes and renames, and a process may be
  killed between any two; the others keep the file open under its old name.
  Correct means: the semaphore always comes back whole, and what is on disk are
  the last logs of every process, with no gap that a failed call does not explain.
- **Client and stubs.** Late replies stay on the connection and nobody reads
  sequence numbers; a command is repeated at another master. Correct means:
  replies and executions keep the order of the commands, and a command ends unless
  every connection on which it is repeated does.

## The modules

`X` is a specification, `MCX` instantiates it for TLC, `XProofs` proves theorems
about it. The last column is what it is shown to implement.

| Module | Models | Abstract specification |
|---|---|---|
| `ThreadPool` | `thread/threadpool.{h,cpp}` | `TaskQueue` |
| `MasterHandler` | `gen-cpp/Master_server.cpp`, using the pool as `TaskQueue` promises it | `AtomicWrite`, `SlaveWrite` |
| `KeyRows` | `db/mysql_client.cpp`, `set_func` and what the handlers make of tries; the write itself as `AtomicWrite` promises it | - |
| `RingBuffer` | `log/elog_async.cpp`'s put and get on `log_buf` | `ByteQueue` |
| `ElogAsync` | writers, output thread, start/stop/init/deinit; uses the buffer as a `ByteQueue` | - |
| `ElogFile` | `log/elog_file.cpp` in several threads and processes | - |
| `SlaveSession` | one of those calls of a slave taken apart: `client/slave_client.h` and both ends of the Slave stubs | `SlaveWrite` |
| `Wire` | what the generated structs of `slave_types.cpp`, `master_types.cpp` and `Slave.cpp` write and read; no state of its own, used by `SlaveSession` | - |
| `ClientSession` | `client/client.cpp` and both ends of the Master stubs | - |

The layers compose through the abstract specifications: `ThreadPool` implements
`TaskQueue` and `MasterHandler` uses the pool only through a first-in-first-out
queue and a `Take` per worker, which is `TaskQueue`'s interface
(`HandlersUseTaskQueue` proves it); `RingBuffer`
implements `ByteQueue` and `ElogAsync` puts and gets on that queue; `KeyRows`
takes each write of a key as one `AtomicWrite`, which `MasterHandler` implements,
and adds the tries before it and the rows behind it. Between the handlers and a
connection stands `SlaveWrite`, which `MasterHandler` and `SlaveSession` both implement.

### ThreadPool and TaskQueue

One variable per field: `m_taskQueue`, `m_taskCount`, `m_idleThreadCount`,
`m_stopping`, with `holder` for the mutex. `wpc`, `cpc` and `opc` are the places
of the workers in `run()`, of the callers in `addTask()` and of the owner in the
constructor, `start()` and `stop()`. One action is one statement that another
thread could see: locking, each change of a counter, `wait`, each unlock, the
callback. The scope object of the mutex is modelled by `Acquire` and `Release`:
after the hand-written unlock its destructor does nothing. A worker
between its test of the count and `pthread_cond_wait` still holds the mutex;
`AddNotify` picks any sleeper, or nobody. `SpuriousWakeup` is POSIX's.
Taking from an empty `std::queue` is undefined behaviour: `status` becomes
"undefined" and nothing is said of what follows. A failed assertion makes it
"asserted", after which nothing happens. `RunCallback` is a whole callback, and
nothing makes it return: `MMFinish` waits for tasks of the pool it runs on, and
workers that see the stop flag leave without draining the queue.

`TaskQueue` knows tasks that are not yet added, a queue, what each worker runs
and what is done. Its `open` says that nobody has stopped it. Its one promise of
progress is that while it is open, a queued task is taken as soon as a worker is
free for it, whatever the other workers do. It promises neither that a running task
ends nor, consequently, that a queued one is ever run: `TxnStarved` shows tasks that
wait for others for ever.

### MasterHandler and AtomicWrite

A handler is a program counter `hpc` and the promises it made: `got` (Get),
`exist` (the tries), `wrote` (the writes), each per slave, "unsent" until the
task is added, "pending" until it is set, and then its value. `queue` and
`running` are the pool. `call_func`, `fin`, `attempt` and `ending` are what
`MMFinish` does with a decided write: up to three attempts at asking every slave
that was contacted to finish.

`db` is what the slave's database did with the write, and `late` a call whose
caller timed out before the slave executed it. A call of a slave is one step
with every outcome that the code distinguishes: executed and answered, executed
and timed out, not executed yet and timed out, refused. Slaves also lose open
transactions. The slave's own program is external (the repository has only its
generated skeleton): it is what the handlers expect of it, executed at most once
per call.

The file `Master_server.cpp` ends inside `MFinishFromSlave`; its last statements
follow its four siblings, which set the promise from the answer. `SendBinLog` is
a stub that changes nothing.

What this leaves out of a call, its connection, is `SlaveSession`'s. Both modules
implement `SlaveWrite`: one write to one slave, the answers to it and to the
attempts at Finish, the decision, and the slave's transaction, which the slave
may open or end before the answer, without one, or after it was given up. An
answer "success" must be true; nothing else says anything. The one difference is when: in
`MasterHandler` a slave executes a call when it is answered or after it was given
up, in `SlaveSession` also before the answer is on its way; no handler can tell,
since it looks at nothing but answers. (That reduction is argued here, not
proved; what is proved is that both keep `SlaveWrite`.) `SlaveSession` shows one more
outcome: the process may end. `MasterHandler` has no such step. That takes nothing from its
safety properties, which hold up to any moment; its liveness properties
(`AllServed`, `ServedOrStarved`) speak of processes that do not end so.

`AtomicWrite` is the promise about one write on all slaves: a slave applies it only if every
slave asked has executed it and the verdict is "success", and what is applied is
never undone.

### KeyRows

Any number of writes of one key, from any clients and masters, with their tries
(`exist`, one character per slave as in MTry's string; `failed`, the tries without
an answer) and the rows that each slave holds for the key, as a sequence because
nothing in `infoTable` forbids a second one. `asked`, `verdict` and `effect` are
`AtomicWrite`'s: the actions `Ask`, `Execute`, `Judge`, `Apply`, `Undo` and `Lose`
are that module's, restricted by what the code asks (`Tried`, `Targets`) and
extended by what a commit does to the rows (`Written`). InnoDB hides a row until
its transaction commits, so a try sees committed rows only.

A try is answered from the rows; or the slave's query fails, which
`MysqlClient::get` answers with the same empty string as an absent key; or no
answer comes. `misled` collects the slaves that answered a try while another write
was pending there, or without having read the table. The properties hold at every other slave,
and the model has all of these behaviours: `misled` and `Hidden` are exactly
what the code leaves to chance.

### RingBuffer, ByteQueue and ElogAsync

`RingBuffer` has the buffer's bytes, both indices and both flags; `put_log` and
`get_log` are one step each, under the output lock, with the wrap-around and the
cut of a log that does not fit. `ByteQueue` is a sequence that `Put` extends by
the prefix that fits and `Get` shortens.

`ElogAsync` interleaves writers in `elog_output` (test `output_enabled`, take the
lock, format, put, post the notice, release), the output thread (wait for the
notice, drain in polls, test `thread_running`) and an application that starts,
stops, deinitializes and initializes again. `accepted` and `printed` are
histories. Flags are read where the code reads them.

### ElogFile

`part` is the directory (`part[0]` is the log, `part[n + 1]` its part n), `data` the
contents of each file ever made, `fp` the file each process has open, which may by
now have another name or none. One action is one call that another process can
see: semget, the first semop, each down and up, each remove, each rename, each
fopen, the write. The semaphore has its value, the adjustment that the kernel
keeps per process for SEM_UNDO, and `sem_otime`, by which a process that finds
the semaphore knows that its creator has raised it. `Crash` kills a process at
any step of any of its threads and applies the adjustment; a fault may instead
be an error of fopen, remove or rename, or an interrupted wait for the semaphore.

The rotation asks with `fopen(path, "r")` whether a part is there, and that can
fail for other reasons. A part that cannot be opened when it should move stays
where it is, `err` stays 0, and the next round removes it unless the same fault meets
that round as well: `misread` collects these files. (`xxx.log` itself is the last of
the chain; misread, it just goes on growing.) A part that cannot be opened or
removed when it should go is replaced by the rename.

Nobody looks at semop's result. A thread whose wait is interrupted, by a signal
with a handler or by a stop and a continuation of the process, goes on as if it
had the semaphore and raises it in the end, so that two fit inside from then on
(`interrupted`). A process that gave up its wait for the creator goes on without
the lock too; `unlocked` records both. Two threads without the lock may close the
stream under each other, which ends the process (`UseNoStream`).

### SlaveSession and Wire

One connection of the master to one slave, made for one request and used for its
calls one after the other: Get; or Try, the write, and up to three Finishes.
`result` is what each promise was set to, `connection_id` what the answer to the
write named, which every Finish sends back. What the master sends and receives is
what `Wire` encodes: a struct is declared as its fields, and `Write` and `Read` do with the
declaration what the generated code does line by line. Names are not on the wire, a field of another
id or type is skipped, and a member that is not read keeps its default; so a Finish after a
write without an answer names transaction 0, and the slave knows none of that name.
Execution at the slave and its reply are two steps, so that a crash or the
timeout falls between. Replies carry no more identity than in `ClientSession`:
Finish may read the late reply to an earlier Finish, and a call of another method
that meets a late reply ends in a TProtocolException, which the tasks of the pool do not
catch: `ThreadPool::run` lets it end the process, as it does a TApplicationException of
the slave's handler (`Terminate`).

### ClientSession

The client has a program counter, the command it works on and its connection.
Per connection there are the requests and replies on their way and the request
the master executes; each reply names the command it answers, which the client
cannot see: `recv_X` compares only the name of the method. `shown` records per
command what was printed, and `executions` which commands masters began; a
command that is begun again right after itself counts once, which loses nothing of
the order. Masters crash and come back as often as they like, and a running
master may close a connection that it is not working for (`Close`). Either ends
connections with an end of stream or a reset, and only the first carries the text
that client.cpp compares with. The number of connections is not bounded, only
their names are: `Connect` takes a name of which nothing is left at either end.

A reply of another method is skipped, but the generated `recv_X` then goes on to
read a result from the next bytes of the stream: that is the header of another
message, whose first byte is no type of a field, and the skip of Thrift 0.11 throws a
TProtocolException that nobody catches (`RecvRest`).

## The runs

| Run | Asks | Instance |
|---|---|---|
| `Pool` | Does any interleaving break the two counters or the wakeups, lose or double a task, or restart the pool beside a live worker? Does the pool implement `TaskQueue` with its liveness; what can keep `stop()` from returning? | three workers, two callers, three tasks |
| `PoolEmptyFront` | *violation*: a worker takes from an empty queue | two workers, one task |
| `TxnReplicas` | Do slaves that commit agree with each other and the answer; does `MMFinish` stop only when it may; do the handlers implement `AtomicWrite`? | one set, two slaves, two workers |
| `TxnDelGet` | Has every awaited future one task; is every request served? | a del and a get, two slaves, two workers |
| `TxnStarved` | What becomes of as many writes as pool threads? | a set and a del, one slave, two workers |
| `Calls` | Does a session implement `SlaveWrite`: is a success that a call reports true of the slave, whoever's reply it was; what follows a failed Try; what can end the process; does every call end? | every kind of request; nothing is bounded |
| `KeyRows` | Has a key one row, is a committed write what is read, do resting slaves agree? | two writes, each a Set, a Set of the empty string or a Del; two slaves, with and without an old row |
| `RingQueue` | Is the ring buffer a byte queue? | four bytes; logs of one to five, gets of zero, one and three |
| `AsyncLog` | Do logs come out in order, is none slept on, is each printed, does deinit return? | two writers, three logs, two inits |
| `AsyncDeinit` | *violation*: a log stays in the buffer at deinit | one writer, two logs, one init |
| `LogFile` | Is the semaphore ever lost or doubled, does it always come back, what of the last logs is on disk, and what makes a gap? | two processes, one with two threads; three parts, two writes, two faults |
| `Session` | Do late replies, repeats, crashes and closed connections keep the order; is a failure final; what can keep a command from ending? | four commands, two names for connections; crashes and restarts without bound |

Why the bounds are enough to be of interest:

- *Pool.* Three workers are the least where one lags behind the queue, one sleeps
  and one is about to; two callers contend for the mutex; three tasks fill the
  queue while a worker is busy.
- *Transactions.* Two slaves are the least that can disagree, and one of them can
  fail while the other has executed. `MaxAttempts` is the code's own three (the
  proofs take any number). Two
  workers let a task of one run beside `MMFinish` on the other; `TxnStarved` has
  as many writes as workers, which is the boundary of `NotStarved`.
- *Calls.* The code itself bounds the calls on a connection, so this run is
  exhaustive for the code's three attempts; the proofs hold for any number.
- *Rows.* Two writes are the least of which one overtakes the other's try, two
  slaves the least that can disagree; all four properties are proved for any
  number of either.
- *Log file.* Two threads of one process share a stream, the other process has
  one of its own that goes stale. `MAX_ROTATE` is three (the code's is five), the least
  at which a part in the middle can be misread and removed by the next round
  while an older one stays: with two no gap can show. All parts are full at the
  start, so that the first write rotates and removes. Two writes let a
  damaged rotation be followed by a whole one, and two faults may fall on any
  steps of either. The safety half is proved for any number of each.
- *Logs.* The buffer holds four bytes, so that logs of one to five bytes fit,
  fill it exactly, wrap and are cut; a poll of three is neither a divisor nor the
  whole. Two inits are one restart of the logger.
- *Client.* Two names for connections suffice for any number of connections: the
  client holds one, and the other may still have a request under way at its
  master. Commands Set, Set, Get, Set put two
  of a kind next to each other and one of another kind between, so that a late
  reply meets a call of its own and of another method.

Deadlock is not checked where the system may stop: tasks, logs and commands run
out, and a stopped pool has exited. `RingQueue` and `LogFile` check it.

### Findings

- `PoolEmptyFront`: `m_taskCount` is lowered after the mutex is given back, so
  that a second worker passes the test and takes `front()` of an empty queue.
  `SoloPoolSafe` proves that this needs a second worker.
- `AsyncDeinit`: the output thread ends without a last look at the buffer, so that
  a log accepted before `elog_deinit` is never printed.

Some runs show things that no line of the repository speaks of either way; they
are part of properties that hold:

- *Pool.* `stop()` leaves the joined threads in `m_threads`, so that the assertion of
  a later `start()`, which its first test admits, fails. `AbortsAtRest` says that
  this happens only when every worker has left and no task is half done. `stop()`
  does not return when a worker misses its broadcast, nor when one runs a callback that
  never returns, and the code has one: `MMFinish` waits for tasks of its own
  pool, whose workers leave on the stop flag without draining the queue.
  `StopReturns` says that there is no third way.
- *Rows.* A Del skips a slave whose try failed and still answers "success"; two Sets
  whose tries precede both commits both insert; the answer precedes the commit,
  so even one client's next try may be misled; and a first row with
  the value "" makes every later Set insert. The three properties do not hold
  where one of these happened; they name it (`misled`, `Hidden`, `Behind`), and say that
  nothing else breaks them.
- *Client.* A reset, or a failed write, gives another text than the one that leads to the
  next master, so the client stays with a dead connection for good; and it
  ends when the next master is down too. `FailsForGood` says that from then on no
  master begins anything more for it. What a master has begun before may still take effect:
  a write whose answer was lost, or its Finish, may be under way to the slaves. The
  goto repeats a command without bound: a peer that accepts and
  closes, or a command that brings down each master it meets, holds the client for
  ever. `CommandEnds` says that this endless chain of ended connections is the only way.
- *Log file.* A process with a stale stream finds its old file too large and rotates
  once more, so parts may be small, and a log may go into a part that has
  been rotated away or removed: it then is gone at once, though no gap appears among
  those that are there. A gap comes from a part that fopen could not open when it
  was to move, at most one file for each such fault (`LogsKept`). An interrupted
  wait for the semaphore raises it for good: two threads fit inside from then on. A creator that is killed between semget and its first
  semop leaves a semaphore that nobody will ever use: all others give up and
  write without it.

`Calls` also follows the data through both ends: the connection_id from the answer to a write
into Finish (`ImplementsSlaveWrite`: without it a rollback or commit would be reported done and
the transaction left open), and what Try found into the func_call of Set
(`TriedFirst`). It shows two things that no line of the repository speaks of either way.
A Set whose Try failed is never answered, so the row it inserts on the false
belief that the key is absent is never committed (`TriedFirst`; a change of the
stubs that read on after a foreign reply would break it, as its mutant does). And
one reply that is later than two seconds can end the master's process
(`EndsOnLateReply` says that nothing else does, exceptions of the slave apart).

`TxnStarved` shows a deadlock that no doc or comment rules out, so it is stated
as a property that holds: every request is served, *or* all pool threads end up
inside `MMFinish`, waiting for tasks that only they could run. `FewWritesSuffice`
is the exact complement.

### Fairness

- *Pool.* Weak fairness for every thread that is inside a method: the operating
  system runs it. There is none for a worker inside a callback, which may wait for
  anything, tasks of its own pool included. There is none for calling `addTask`, `stop` or `start`, for spurious
  wakeups, nor for acquiring the mutex in `addTask`, which starts a call.
  `FewStarts` says that `start()` is not called for ever, as nobody does.
- *Handlers.* Weak fairness for each handler, each pool thread and for some
  thread taking a task. A call of a slave is one step that is always possible
  because its outcome "timed out" is: `slave_client.h` sets two seconds. Slaves
  have none.
- *Calls.* Weak fairness for the pool thread inside a call; none for the slave.
- *Logger.* Weak fairness for writers inside `elog_output`, for the output thread
  and for `elog_deinit`, which has begun.
- *Log file.* Weak fairness for each thread inside a call, except for its wait at the
  semaphore, and none for beginning a call. Fairness of the wait is not needed: `LockComesBack` says that
  whoever holds the semaphore gives it back or is killed, and the kernel serves
  waiting threads first come, first served.
- *Client.* Weak fairness for the client: `RecvTimeout` is its receive timeout of
  one second. Masters have none: they may be silent for ever, and what they do end
  is unbounded.

## The proofs

All theorems hold for every value of the constants that satisfies the named
assumption of its module. `PoolAssumption`, `HandlerAssumption` and
`IdleAssumption`, `RingAssumption`, `AsyncAssumption`, `SessionAssumption`, `RowsAssumption` and `FileAssumption` ask
only for finite sets where something is counted, for sizes above zero, for
markers that are no values, and for logs that are not empty (the logger's lines
end in a newline).

**ThreadPoolProofs.** `TypeCorrect`; `MutualExclusion`; `CountersCorrect`, with
`TaskCountCorrect` as its harder half; `WakeupsSuffice`; `SleepersSawNothing`;
`TasksStayWhole`; `AbortsOnlyAtRest`; `SoloPoolSafe`; `PoolRefinesTaskQueue`, the
safety half of `ImplementsTaskQueue`. `CountInv` alone is not inductive: it needs that a
worker's hands are full exactly between taking and finishing (`HandsInv`), that a
caller's argument is pushed once (`PushedInv`), and that who changes the queue
holds the mutex (`MutexInv`). `NoLostWakeup` needs `LifeInv` (who is born and who
has exited) and that a worker decides to sleep on an empty queue. `SoloInv`
adds that one worker never overtakes its own late decrement. `AbortsAtRest` needs
that threads are joined only after all of them have exited (`RestInv`). The refinement has
`StartInv`: the task a caller holds has left the tasks not yet added, and the
flag is down while workers are created.

**MasterHandlerProofs.** `TypeCorrect`
strengthens typing by `FlagInv` (MGet's flag is false only after a failed
connection). `EveryWaitIsServed` and `FewWritesSuffice` rest on `PhaseInv`, which says which
futures can be pending in which phase of a handler, so that a task is due in one
phase only, and on `NoneTwice`. `SlavesAgree`,
`FinishedMeansDone` and `HandlersImplementAtomicWrite` rest on `DecisionInv` (the
decision and the answer to the client say the same), `SlaveInv` (a commit is
decided only when every slave asked has answered "success"; what each database
can hold, and which late calls can still change it, given the decision) and
`SettledInv` (an attempt's "success" comes from a database that has finished).

`StuckOnlyIfStarved` and `FewWritesNeverStuck` are what safety says about progress. `Stuck`
spells out, guard by guard, that neither a `HandlerStep` nor a `Take` nor a `RunStep` can be taken (ENABLED
being out of the prover's reach): every handler has returned or waits for a future, and every pool
thread is idle before an empty queue or waits inside MMFinish. Whoever waits has a task in the pool
(`PoolInv`), and when all wait that task can only be an MMFinish; so the cycle of all pool threads
inside MMFinish is the only deadlock, and `TxnStarved` reaches it.
`HandlersUseTaskQueue` is the other end of `PoolRefinesTaskQueue`: under `TQ`, in
which a job is a task with the attempt that made it, every step of the handlers is one of
`Submit`, `Take` and `Finish` of `TaskQueue` or leaves the queue alone, so that what `MasterHandler`
assumes of the pool is what `ThreadPool` implements while it is open. Which jobs are done is
read off the futures; that a retry leaves them as they are needs `AttemptInv` (a second
attempt only after the decision) and that no finish of the last attempt is still in the pool.

`HandlersImplementSlaveWrite` says of each request and slave what `SessionImplementsSlaveWrite` says
of a session, with `wrote`, `call_func`, `fin` and `db` at that request and slave. Here the lateness
is in `late`, for which `SlaveInv` says that a late write was answered "fail" and has not begun, and that a late
finish names a transaction. The theorem quantifies over all requests and slaves, so that no run
checks it as it stands.

**KeyRowsProofs.** All four properties of the run, for any number of writes and
slaves. `WriteInv` says how tries, verdict and effect of one write go together (who has an
effect was asked, who was asked has tried, a success has no failed try behind
it). `CalmInv` is the heart: at a slave that was not misled at most one write is
pending, and what its try found is still what the rows say, because a
second try beside it would have misled the slave. So the one write that can
commit updates or removes the one row, or inserts the first (`OneRowEach`, `CommitShows`). Agreement is an
invariant of pairs (`PairInv`): two slaves hold the same rows, or one is ahead by exactly
the write that is still pending at the other, which then leads to the same
rows. `ReplicasAgree` is the case where nothing is pending.

**ElogFileProofs.** `TypeCorrect`, for any number of parts;
`SemaphoreStaysWhole` from `CallInv` (a process whose thread is initializing or closing has no
other thread inside, and who is inside has a semid) and `GuardInv`: until a wait was
interrupted, `SemInv` holds: either the semaphore is 1 and nobody's adjustment is
pending, or it is 0 and one thread is inside, whose process's adjustment is 1; so that the
kernel's undo at a crash gives back exactly what is missing. `RotationKeepsLogs` has two
more invariants. `FileInv` holds even for those who go on without the semaphore: a
file with a larger part number is older, and the logs of a process ascend through
all the files ever made, none missing, with none behind the stream it has open; so
a stale stream can lose a log only together with everything before it. `RotInv` is
what the semaphore adds: the place that a round fills was left empty by the round
before, or holds a file that round took for absent (`Rounds`), so that only the oldest part
and such files are ever removed and the files with a name are the youngest but for
those (`Upper`); the place of the youngest file, unless it is one of those, is at most the
number of faults, and one more while a rotation that has moved it is under way
(`Young`); and without faults every file is where its age says, one further behind the
place that n points at (`Whole`). That each process finds on disk the end of what it
wrote, but for the files taken for absent, follows from order, completeness and
`Upper`; that there is at most one for each fault is `MissInv`. At the start completeness is
a statement about a count (`Before`), proved by the least-number principle.

**SlaveSessionProofs.** `ReadsWhatIsWritten` is about `Wire`: whatever struct is
declared, what one end writes is what the other end reads, by the ids and types of the
fields. The invariants of the run, `SuccessIsTrue` (any attempt's "success", not only the current
one's, is true) and the refinement are proved for any number of Finish
attempts. `Contents` says what can be on the wire in each direction, `Queue` that
the calls ascend through the replies, the call that the slave works on and the
requests, `Connection` and `Progress` which call is under way and what the earlier
ones left. `Transactions`: connection_id is 1 if and only if the write was answered yes, and
then a Finish that succeeds, or whose success is under way, has finished the
transaction. `Tries`: a Try without an answer is still on the connection, before
everything behind it, so that the answer to the write is never reached. `Late`:
whatever can still arrive beside the current call was given up before.
`SessionImplementsSlaveWrite` maps the result of the write and of the current call to the two answers
and every step to one of `SlaveWrite` or to none. It needs `Once`: the
transaction has not begun while the write is still to be executed, and only a write that was
answered yes is committed.

**RingBufferProofs.** `RingTypeCorrect` and `FlagsDecide` from `IndexInv`;
`RingImplementsQueue` maps the used bytes, read from the read index round the
end, to the queue. `UsedBounds` and `UsedIs` are the lemmas on the length between
two indices that wrap around, where equal indices mean full or empty.

**ElogAsyncProofs.** `OutputInOrder` from `OrderInv` (accepted is printed, then in
the thread's hands, then buffered; and no thread is at work while the logger is
down); `NoNoticeLost` from `NoticeInv` (a log in the buffer has a posted notice, a
writer about to post one, or a thread that polls).

**ClientSessionProofs.** `CommandsInOrder` from `OrderInv`: only the
client's connection is open, and what masters executed, execute and are still to execute
on it is one ascending sequence. `RepliesStayInOrder` from `ReplyInv`: on the
current connection what is shown, arrived, executed and sent form one strictly
ascending line (`InLine`) that lies behind every reply already shown (`Between`).
The bound on lateness (`LateByErrors`) then is counted with an injection: the
earlier commands that were not told of an error show different, earlier replies,
so there are fewer of them than there are earlier replies. `FailuresAreFinal` adds
`ClosedInv`: the client closes a connection only to look for the next master or
because a write failed, and never waits for a reply on a closed one.

**Out of the prover's reach.** Liveness and ENABLED: `StopReturns`, the fairness
half of `ImplementsTaskQueue`, `AllServed`, `ServedOrStarved`, `EverythingPrinted`,
`DeinitReturns`, `CommandEnds`, `CallEnds` and `LockComesBack` are
model-checked only. Every invariant and every action property of the runs is proved. No module
declares a RECURSIVE operator.

## Assumptions about what is outside

- Thrift 0.11: a stream's end gives "No more data to read.", a reset or a
  failed write another text; a socket closes itself on a failed write; its `skip`
  throws on a byte that is no type.
- The network ends no connection by itself: an end of stream or a reset comes from
  the master's end, which then has dropped what it had not begun.
- pthreads: a signal wakes one sleeper if there is one; wakeups may be spurious.
- InnoDB shows a row from the commit of its transaction on. The slave's Set and Del,
  which are not in the repository, use `MysqlClient` as `set_func`'s answer tells them;
  an update sets every row of the key.
- System V semaphores: semop is atomic, `SEM_UNDO` is undone when a process ends
  however it ends and never below zero, `sem_otime` is 0 until the first semop. The `up`, which
  never waits, does not fail. rename replaces its target
  atomically; a write by `fwrite` and `fflush` is whole.
- A slave executes a call at most once, in one of its own transactions, and drops
  a transaction only whole.
- `elog_deinit` is called after `elog_stop`, with no writer inside `elog_output`;
  otherwise it frees what writers use.

## What is not modelled

Every part is listed in `PROJECT.json` with its reason; they are of four kinds.

- *No caller, or not built:* the binary log sender, the client pool, the thread
  group, the buffered log output, Rsync and SendBinLog of the stubs, the older
  `Master_client.cpp`. Nothing in the repository says what they should promise.
- *Depends on a program that is not there:* the pool registry. `getPool` changes a
  `std::map` without a lock, which is undefined if two RPC threads do so at once;
  whether two can is decided by the server that the master's `main()` starts, and
  neither it nor the shutdown is in the repository. Both hazards are listed.
- *No control:* SQL texts, configuration tables, log formats and filters, data
  definitions. `elog_output_lock_enabled` would switch the output lock off
  (and `elog_get_filter_tag_lvl`, which every log calls, then locks a mutex that
  it does not release); the repository calls it with `true` only.
- *Left out of a modelled part:* the argument and result structs of the service
  Master, which `ClientSession` abstracts (those of the service Slave are in `Wire`); in the log
  file, a semget that fails for another reason than that the semaphore is there, and a
  semop that fails other than by an interruption of its wait.
