------------------------------ MODULE ElogFile ------------------------------
(***************************************************************************)
(* The log file of log/elog_file.cpp: `xxx.log', its rotated parts         *)
(* `xxx.log.0' ... and the System V semaphore around them.                 *)
(*                                                                         *)
(* The file and the semaphore have fixed names, so all programs that are   *)
(* linked with the logger share them.  Within a process the threads that   *)
(* output a log themselves meet the output thread of elog_async, which     *)
(* writes without the output lock: the semaphore is all they have.         *)
(* Any process may be killed between any two steps; the kernel then undoes *)
(* its SEM_UNDO operations, and the semaphore itself outlives everyone.    *)
(***************************************************************************)
EXTENDS Integers, Sequences, FiniteSets

CONSTANTS
    Threads, Processes,
    ProcessOf,      \* the process of each thread
    MAX_SIZE,       \* ELOG_FILE_MAX_SIZE, in logs
    MAX_ROTATE,     \* ELOG_FILE_MAX_ROTATE
    Earlier,        \* who wrote the parts found at the start, oldest first
    MaxLogs,        \* bound: calls of elog_file_write
    MaxFaults       \* bound: processes that are killed, and calls of fopen,
                    \* remove, rename and semop that fail

ASSUME FileAssumption ==
    /\ ProcessOf \in [Threads -> Processes]
    /\ MAX_SIZE \in Nat /\ MAX_ROTATE \in Nat \ {0}
    /\ Earlier \in Seq(Processes) /\ Len(Earlier) <= MAX_ROTATE + 1
    /\ MaxLogs \in Nat /\ MaxFaults \in Nat

VARIABLES
    sem,        \* the semaphore's value
    sem_otime,  \* "absent": no semaphore; "zero" until the first semop; "set"
    semadj,     \* what the kernel adds to the semaphore when a process ends
    semid,      \* the processes whose semid is not -1
    init_ok,    \* the processes between elog_file_init and elog_file_deinit
    fp,         \* the file each process has open, NULL if none
    part,       \* the directory: part[0] is xxx.log, part[n + 1] is xxx.log.n
    data,       \* the logs in each file, in the order the files were created
    pc,         \* what a thread executes next
    n,          \* the loop variable of elog_file_rotate
    calls, faults,   \* for the bounds
    written,    \* history: the logs that each process has passed to fwrite
    misread,    \* history: the parts that a rotation took for absent
    interrupted,\* history: some thread stopped waiting for the semaphore
    unlocked    \* history: some thread or process went on without the semaphore

semVars == <<sem, sem_otime, semadj, semid, interrupted, unlocked>>
fileVars == <<part, data, written, misread>>
bounds == <<calls, faults>>
vars == <<semVars, init_ok, fp, fileVars, pc, n, bounds>>

NULL == 0       \* no file; the files are numbered from 1

\* The number of logs of process p in the first i of the earlier parts.
Before(p, i) == (MAX_SIZE + 1) * Cardinality({j \in 1..i : Earlier[j] = p})

\* Nobody runs.  Full parts are there from earlier runs.
Init ==
    /\ sem = 0 /\ sem_otime = "absent"
    /\ semadj = [p \in Processes |-> 0]
    /\ semid = {} /\ init_ok = {}
    /\ fp = [p \in Processes |-> NULL]
    /\ data = [i \in DOMAIN Earlier |-> [j \in 1..(MAX_SIZE + 1) |->
                  <<Earlier[i], Before(Earlier[i], i - 1) + j>>]]
    /\ part = [k \in 0..MAX_ROTATE |-> IF k < Len(data) THEN Len(data) - k ELSE NULL]
    /\ pc = [t \in Threads |-> "idle"]
    /\ n = [t \in Threads |-> 0]
    /\ calls = 0 /\ faults = 0
    /\ written = [p \in Processes |-> Before(p, Len(Earlier))]
    /\ misread = {}
    /\ interrupted = FALSE /\ unlocked = FALSE

ThreadsOf(p) == {t \in Threads : ProcessOf[t] = p}
Goto(t, l) == pc' = [pc EXCEPT ![t] = l]

------------------------------------------------------------------------------
(* The semaphore: lock_init, lock_open, elog_file_port_lock and _unlock.    *)

\* elog_file_init, before the process outputs anything.  semget creates the
\* semaphore, with the value 0, or finds it.
elog_file_init(t) ==
    LET p == ProcessOf[t] IN
    /\ p \notin init_ok
    /\ \A u \in ThreadsOf(p) : pc[u] = "idle"
    /\ IF sem_otime = "absent"
         THEN sem_otime' = "zero" /\ Goto(t, "post")
         ELSE UNCHANGED sem_otime /\ Goto(t, "poll")
    /\ UNCHANGED <<sem, semadj, semid, interrupted, unlocked, init_ok, fp, fileVars,
                   n, bounds>>

\* The creator sets the value to 0 and adds 1, without SEM_UNDO.
lock_init(t) ==
    /\ pc[t] = "post"
    /\ sem' = 1
    /\ sem_otime' = "set"
    /\ semid' = semid \cup {ProcessOf[t]}
    /\ Goto(t, "lockInit")
    /\ UNCHANGED <<semadj, interrupted, unlocked, init_ok, fp, fileVars, n, bounds>>

\* The others look ten times, for a tenth of a second, whether the creator has
\* done so.  If not they go on without the lock, now and for good.
lock_open(t) ==
    /\ pc[t] = "poll"
    /\ IF sem_otime = "set"
         THEN semid' = semid \cup {ProcessOf[t]} /\ UNCHANGED unlocked
         ELSE unlocked' = TRUE /\ UNCHANGED semid
    /\ Goto(t, "lockInit")
    /\ UNCHANGED <<sem, sem_otime, semadj, interrupted, init_ok, fp, fileVars, n,
                   bounds>>

Locking == [lockInit |-> "open", lockWrite |-> "size", lockClose |-> "close"]
Unlocking == {"unlockInit", "unlockWrite", "unlockClose"}

\* Something goes wrong.
Fault == faults < MaxFaults /\ faults' = faults + 1 /\ UNCHANGED calls

\* semop(down) waits for a value above 0.  Nobody looks at its result: a thread
\* whose wait is interrupted, by a signal or by a stop of the process, goes on as
\* if it had the semaphore, and raises it in the end.
elog_file_port_lock(t) ==
    LET p == ProcessOf[t] IN
    /\ pc[t] \in DOMAIN Locking
    /\ Goto(t, Locking[pc[t]])
    /\ \/ /\ p \in semid /\ sem > 0
          /\ sem' = sem - 1 /\ semadj' = [semadj EXCEPT ![p] = @ + 1]
          /\ UNCHANGED <<interrupted, unlocked, bounds>>
       \/ /\ p \notin semid
          /\ UNCHANGED <<sem, semadj, interrupted, unlocked, bounds>>
       \/ /\ p \in semid /\ sem = 0
          /\ Fault
          /\ interrupted' = TRUE /\ unlocked' = TRUE
          /\ UNCHANGED <<sem, semadj>>
    /\ UNCHANGED <<sem_otime, semid, init_ok, fp, fileVars, n>>

\* Faulty variant: `up' without SEM_UNDO.
UpForGood(p) == sem' = sem + 1 /\ UNCHANGED semadj

up(p) == sem' = sem + 1 /\ semadj' = [semadj EXCEPT ![p] = @ - 1]

\* The end of a call: elog_file_init sets init_ok, elog_file_deinit takes it
\* back and forgets the semaphore.
elog_file_port_unlock(t) ==
    LET p == ProcessOf[t] IN
    /\ pc[t] \in Unlocking
    /\ Goto(t, "idle")
    /\ IF p \in semid THEN up(p) ELSE UNCHANGED <<sem, semadj>>
    /\ init_ok' = CASE pc[t] = "unlockInit" -> init_ok \cup {p}
                    [] pc[t] = "unlockClose" -> init_ok \ {p}
                    [] OTHER -> init_ok
    /\ semid' = IF pc[t] = "unlockClose" THEN semid \ {p} ELSE semid
    /\ UNCHANGED <<sem_otime, interrupted, unlocked, fp, fileVars, n, bounds>>

\* A process ends, in whatever its threads are doing.
Exit(p) ==
    /\ pc' = [t \in Threads |-> IF ProcessOf[t] = p THEN "idle" ELSE pc[t]]
    /\ sem' = IF sem + semadj[p] < 0 THEN 0 ELSE sem + semadj[p]
    /\ semadj' = [semadj EXCEPT ![p] = 0]
    /\ semid' = semid \ {p}
    /\ init_ok' = init_ok \ {p}
    /\ fp' = [fp EXCEPT ![p] = NULL]
    /\ UNCHANGED <<sem_otime, interrupted, unlocked, fileVars, n>>

\* A process is killed, or ends with operations left to undo.
Crash(p) ==
    /\ p \in init_ok \/ semadj[p] # 0 \/ \E t \in ThreadsOf(p) : pc[t] # "idle"
    /\ Fault
    /\ Exit(p)

------------------------------------------------------------------------------
(* The file: elog_file_config, elog_file_write, elog_file_rotate.           *)

\* fopen(local_cfg.name, "a+") makes the file if the name is free.
OpenLog(p) ==
    \/ /\ part[0] # NULL
       /\ fp' = [fp EXCEPT ![p] = part[0]]
       /\ UNCHANGED <<part, data, bounds>>
    \/ /\ part[0] = NULL
       /\ data' = Append(data, <<>>)
       /\ part' = [part EXCEPT ![0] = Len(data')]
       /\ fp' = [fp EXCEPT ![p] = Len(data')]
       /\ UNCHANGED bounds
    \/ /\ Fault
       /\ fp' = [fp EXCEPT ![p] = NULL]
       /\ UNCHANGED <<part, data>>

\* elog_file_config, called by elog_file_init and by elog_file_deinit.
ConfigOpen(t) ==
    /\ pc[t] = "open"
    /\ OpenLog(ProcessOf[t])
    /\ Goto(t, "unlockInit")
    /\ UNCHANGED <<semVars, init_ok, written, misread, n>>

ConfigClose(t) ==
    /\ pc[t] = "close"
    /\ fp' = [fp EXCEPT ![ProcessOf[t]] = NULL]
    /\ Goto(t, "unlockClose")
    /\ UNCHANGED <<semVars, init_ok, fileVars, n, bounds>>

elog_file_deinit(t) ==
    LET p == ProcessOf[t] IN
    /\ p \in init_ok
    /\ \A u \in ThreadsOf(p) : pc[u] = "idle"
    /\ Goto(t, "lockClose")
    /\ UNCHANGED <<semVars, init_ok, fp, fileVars, n, bounds>>

elog_file_write(t) ==
    LET p == ProcessOf[t] IN
    /\ pc[t] = "idle"
    /\ p \in init_ok
    /\ \A u \in ThreadsOf(p) : pc[u] \notin {"lockClose", "close", "unlockClose"}
    /\ calls < MaxLogs
    /\ calls' = calls + 1
    /\ Goto(t, "lockWrite")
    /\ UNCHANGED <<semVars, init_ok, fp, fileVars, n, faults>>

\* The size is that of the file the process has open, whatever its name is by
\* now.  If it is too large elog_file_rotate closes it and starts its loop.
TestSize(t) ==
    LET p == ProcessOf[t] IN
    /\ pc[t] = "size"
    /\ fp[p] # NULL
    /\ IF Len(data[fp[p]]) > MAX_SIZE
         THEN /\ fp' = [fp EXCEPT ![p] = NULL]
              /\ n' = [n EXCEPT ![t] = MAX_ROTATE - 1]
              /\ Goto(t, "remove")
         ELSE Goto(t, "fwrite") /\ UNCHANGED <<fp, n>>
    /\ UNCHANGED <<semVars, init_ok, fileVars, bounds>>

\* if (fopen(newpath, "r")) remove(newpath).  When the file cannot be opened, or
\* not removed, it stays.
RemovePart(t) ==
    /\ pc[t] = "remove"
    /\ \/ /\ part' = [part EXCEPT ![n[t] + 1] = NULL]
          /\ UNCHANGED bounds
       \/ /\ part[n[t] + 1] # NULL
          /\ Fault
          /\ UNCHANGED part
    /\ Goto(t, "rename")
    /\ UNCHANGED <<semVars, init_ok, fp, data, written, misread, n>>

\* Faulty variant: the loop goes one round too far.
LoopTooFar(t) ==
    /\ n' = [n EXCEPT ![t] = @ - 1]
    /\ Goto(t, IF n[t] < 0 THEN "reopen" ELSE "remove")

\* Faulty variant: the loop ends one round too early.
LoopTooShort(t) ==
    IF n[t] > 1
      THEN n' = [n EXCEPT ![t] = @ - 1] /\ Goto(t, "remove")
      ELSE Goto(t, "reopen") /\ UNCHANGED n

\* Faulty variant: n is not lowered.
LoopForever(t) ==
    IF n[t] > 0 THEN Goto(t, "remove") /\ UNCHANGED n
    ELSE Goto(t, "reopen") /\ UNCHANGED n

\* --n, until the round of n = 0 has been done.
Loop(t) ==
    IF n[t] > 0
      THEN n' = [n EXCEPT ![t] = @ - 1] /\ Goto(t, "remove")
      ELSE Goto(t, "reopen") /\ UNCHANGED n

\* if (fopen(oldpath, "r")) rename(oldpath, newpath).  An error of rename ends the
\* loop.  A file that cannot be opened counts as absent: the loop goes on, and the
\* next round removes it; xxx.log itself, which is the last, just goes on growing.
RenamePart(t) ==
    /\ pc[t] = "rename"
    /\ \/ /\ part' = IF part[n[t]] = NULL THEN part
                     ELSE [part EXCEPT ![n[t] + 1] = part[n[t]], ![n[t]] = NULL]
          /\ Loop(t)
          /\ UNCHANGED <<misread, bounds>>
       \/ /\ part[n[t]] # NULL
          /\ Fault
          /\ misread' = IF n[t] > 0 THEN misread \cup {part[n[t]]} ELSE misread
          /\ Loop(t)
          /\ UNCHANGED part
       \/ /\ part[n[t]] # NULL
          /\ Fault
          /\ Goto(t, "reopenFailed")
          /\ UNCHANGED <<part, misread, n>>
    /\ UNCHANGED <<semVars, init_ok, fp, data, written>>

\* After a rename that failed the log is not written.
Reopen(t) ==
    /\ pc[t] \in {"reopen", "reopenFailed"}
    /\ OpenLog(ProcessOf[t])
    /\ Goto(t, IF pc[t] = "reopen" THEN "fwrite" ELSE "unlockWrite")
    /\ UNCHANGED <<semVars, init_ok, written, misread, n>>

\* fwrite and fflush.
Fwrite(t) ==
    LET p == ProcessOf[t] IN
    /\ pc[t] = "fwrite"
    /\ fp[p] # NULL
    /\ written' = [written EXCEPT ![p] = @ + 1]
    /\ data' = [data EXCEPT ![fp[p]] = Append(@, <<p, written'[p]>>)]
    /\ Goto(t, "unlockWrite")
    /\ UNCHANGED <<semVars, init_ok, fp, part, misread, n, bounds>>

\* A stream that could not be opened, or that another thread of a process
\* without the lock has just closed, ends the process.
UseNoStream(t) ==
    /\ pc[t] \in {"size", "fwrite"}
    /\ fp[ProcessOf[t]] = NULL
    /\ Exit(ProcessOf[t])
    /\ UNCHANGED bounds

------------------------------------------------------------------------------
CallStep(t) ==
    \/ lock_init(t) \/ lock_open(t) \/ elog_file_port_unlock(t)
    \/ ConfigOpen(t) \/ ConfigClose(t)
    \/ TestSize(t) \/ RemovePart(t) \/ RenamePart(t) \/ Reopen(t) \/ Fwrite(t)
    \/ UseNoStream(t)

Next ==
    \/ \E t \in Threads :
          \/ elog_file_init(t) \/ elog_file_deinit(t) \/ elog_file_write(t)
          \/ elog_file_port_lock(t) \/ CallStep(t)
    \/ \E p \in Processes : Crash(p)

Spec == Init /\ [][Next]_vars

\* A thread that is not waiting for the semaphore goes on.  Nothing makes a
\* thread call the logger, or a process die.
FairSpec == Spec /\ \A t \in Threads : WF_vars(CallStep(t))

------------------------------------------------------------------------------
(* Properties.                                                              *)

Labels ==
    {"idle", "post", "poll", "remove", "rename", "reopen", "reopenFailed", "fwrite"}
    \cup DOMAIN Locking \cup {Locking[l] : l \in DOMAIN Locking} \cup Unlocking

\* Every variable keeps its type; the loop of a rotation stays inside the array
\* of the parts.
TypeOK ==
    /\ sem \in Nat /\ sem_otime \in {"absent", "zero", "set"}
    /\ semadj \in [Processes -> Int]
    /\ semid \subseteq Processes /\ init_ok \subseteq Processes
    /\ fp \in [Processes -> 0..Len(data)]
    /\ part \in [0..MAX_ROTATE -> 0..Len(data)]
    /\ data \in Seq(Seq(Processes \X Nat))
    /\ pc \in [Threads -> Labels]
    /\ n \in [Threads -> 0..(MAX_ROTATE - 1)]
    /\ calls \in 0..MaxLogs /\ faults \in 0..MaxFaults
    /\ written \in [Processes -> Nat]
    /\ misread \subseteq 1..Len(data)
    /\ interrupted \in BOOLEAN /\ unlocked \in BOOLEAN

\* The threads between the semaphore's down and its up.
Inside ==
    {t \in Threads :
        /\ ProcessOf[t] \in semid
        /\ pc[t] \notin {"idle", "post", "poll"} \cup DOMAIN Locking}

\* The semaphore is neither lost nor doubled, whichever process is killed at
\* whichever step, the creator's included: once created it is free, or one
\* thread of those that found it is inside.  That is over when the wait of a
\* thread is interrupted, whose result elog_file_port_lock does not look at.
SemaphoreWhole ==
    sem_otime = "set" /\ ~interrupted => sem + Cardinality(Inside) = 1

Kept(i) == \E k \in DOMAIN part : part[k] = i

\* The logs in the files that have a name.
OnDisk ==
    UNION {{data[part[k]][a] : a \in DOMAIN data[part[k]]} :
              k \in {k \in DOMAIN part : part[k] # NULL}}

\* Who reads the files from the oldest part to the newest finds the logs of each
\* process in the order in which it wrote them, each of them once.
DiskInOrder ==
    \A k, l \in {k \in DOMAIN part : part[k] # NULL} :
        \A a \in DOMAIN data[part[k]], b \in DOMAIN data[part[l]] :
            LET first == data[part[k]][a]
                next  == data[part[l]][b]
            IN  first[1] = next[1] /\ (l < k \/ (l = k /\ a < b)) => first[2] < next[2]

\* The logs in the files that a rotation took for absent.
Misread == UNION {{data[i][a] : a \in DOMAIN data[i]} : i \in misread}

\* They are the last logs that it wrote, without a gap but for those in a file
\* that could not be opened when its turn to be moved had come.
DiskHasTheLast ==
    \A e \in OnDisk :
        /\ e[2] \in 1..written[e[1]]
        /\ \A x \in e[2]..written[e[1]] : <<e[1], x>> \in OnDisk \cup Misread

\* As long as everybody found the semaphore and waited for it:
\*  - the logs of a process that are on disk are the last it wrote, in order,
\*    across rotations by others, failed removes and renames, and restarts; a
\*    failed fopen costs one file in the middle, and nothing else makes a gap;
\*  - the youngest file is on disk at every moment, as long as fewer rotations
\*    than there are parts were killed or failed before the file was made anew,
\*    and it was not itself the file taken for absent;
\*  - between rotations the youngest MAX_ROTATE + 1 files are all there, if
\*    nothing went wrong.
LogsKept ==
    ~unlocked =>
        /\ DiskInOrder /\ DiskHasTheLast
        /\ Cardinality(misread) <= faults
        /\ (/\ data # <<>> /\ faults < MAX_ROTATE
            /\ Len(data) \notin misread) => Kept(Len(data))
        /\ (Inside = {} /\ faults = 0) =>
              \A i \in DOMAIN data : i + MAX_ROTATE >= Len(data) => Kept(i)

\* The semaphore comes back from whoever holds it, who may have been killed in
\* the middle of a rotation; so whoever waits for it is served, since the kernel
\* wakes the waiting threads first come, first served.
LockComesBack == (sem_otime = "set" /\ sem = 0) ~> sem > 0
=============================================================================
