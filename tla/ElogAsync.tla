------------------------------ MODULE ElogAsync ------------------------------
(***************************************************************************)
(* The asynchronous output of the logger: log/elog_async.cpp with the part *)
(* of log/elog.cpp that calls it.  Writers put logs into the ring buffer   *)
(* under the output lock and post a semaphore; the output thread waits for *)
(* the semaphore and empties the buffer; the application starts and stops  *)
(* both.  The ring buffer is the byte queue that RingBuffer implements.    *)
(***************************************************************************)
EXTENDS Integers, Sequences, FiniteSets

CONSTANTS
    Writers,            \* the threads that call elog_output
    NoThread,           \* the output lock is free
    Byte,
    Logs,               \* the logs they output
    OUTPUT_BUF_SIZE,
    POLL_SIZE,          \* ELOG_ASYNC_POLL_GET_LOG_BUF_SIZE
    MaxLogs,            \* bound: logs that reach the output
    MaxInits            \* bound: calls of elog_init

ASSUME AsyncAssumption ==
    /\ NoThread \notin Writers
    /\ Logs \subseteq Seq(Byte) \ {<<>>}
    /\ OUTPUT_BUF_SIZE \in Nat \ {0}
    /\ POLL_SIZE \in Nat \ {0}
    /\ MaxLogs \in Nat
    /\ MaxInits \in Nat

VARIABLES
    output_enabled,     \* elog_output tests it before it takes the lock
    is_enabled,         \* elog_async_output tests it
    thread_running,
    output_notice,      \* the semaphore
    content,            \* the bytes in the ring buffer
    poll_get_buf,       \* what the output thread's last get copied out
    lock,               \* the writer that holds the output lock, or NoThread
    wpc,                \* what each writer executes next
    tpc,                \* what the output thread executes next
    apc,                \* what the application executes next
    calls, inits,       \* logs, and calls of elog_init, so far
    accepted,           \* history: the bytes put into the ring buffer
    printed,            \* history: the bytes the output thread has output
    earlier             \* history: how many bytes elog_init found accepted

flags == <<output_enabled, is_enabled, thread_running>>
ring == <<content, poll_get_buf>>
counts == <<calls, inits>>
history == <<accepted, printed, earlier>>
vars == <<flags, output_notice, ring, lock, wpc, tpc, apc, counts, history>>

Q == INSTANCE ByteQueue WITH
        Capacity <- OUTPUT_BUF_SIZE,
        Sizes <- {POLL_SIZE},
        received <- poll_get_buf

Init ==
    /\ output_enabled = FALSE
    /\ is_enabled = FALSE
    /\ thread_running = FALSE
    /\ output_notice = 0
    /\ Q!Init
    /\ lock = NoThread
    /\ wpc = [w \in Writers |-> "idle"]
    /\ tpc = "none"
    /\ apc = "down"
    /\ calls = 0
    /\ inits = 0
    /\ accepted = <<>>
    /\ printed = <<>>
    /\ earlier = 0

------------------------------------------------------------------------------
(* A writer: elog_output with elog_async_output.                            *)

\* A call that finds the output disabled, or its log filtered out, returns.
Enter(w) ==
    /\ calls < MaxLogs
    /\ wpc[w] = "idle"
    /\ output_enabled
    /\ wpc' = [wpc EXCEPT ![w] = "lock"]
    /\ calls' = calls + 1
    /\ UNCHANGED <<flags, output_notice, ring, lock, tpc, apc, inits, history>>

TakeLock(w) ==
    /\ wpc[w] = "lock"
    /\ lock = NoThread
    /\ lock' = w
    /\ wpc' = [wpc EXCEPT ![w] = "output"]
    /\ UNCHANGED <<flags, output_notice, ring, tpc, apc, counts, history>>

\* A log of level OUTPUT_LVL or above goes to the ring buffer; the notice is due
\* if any of it found room.
PutLog(w, log) ==
    /\ wpc[w] = "output"
    /\ is_enabled
    /\ Q!Put(log)
    /\ accepted' = accepted \o SubSeq(content', Len(content) + 1, Len(content'))
    /\ wpc' = [wpc EXCEPT ![w] = IF content' # content THEN "notify" ELSE "unlock"]
    /\ UNCHANGED <<flags, output_notice, lock, tpc, apc, counts, printed, earlier>>

\* Any other log, and every log while the mode is off, is output at once; a log
\* that the keyword filter stops is not output at all.
OutputDirectly(w) ==
    /\ wpc[w] = "output"
    /\ wpc' = [wpc EXCEPT ![w] = "unlock"]
    /\ UNCHANGED <<flags, output_notice, ring, lock, tpc, apc, counts, history>>

\* Faulty variant: a notice only if the thread is seen waiting.
NoticeUnlessPolling(w) ==
    /\ wpc[w] = "notify"
    /\ output_notice' = IF tpc = "wait" THEN output_notice + 1 ELSE output_notice
    /\ wpc' = [wpc EXCEPT ![w] = "unlock"]
    /\ UNCHANGED <<flags, ring, lock, tpc, apc, counts, history>>

elog_async_output_notice(w) ==
    /\ wpc[w] = "notify"
    /\ output_notice' = output_notice + 1
    /\ wpc' = [wpc EXCEPT ![w] = "unlock"]
    /\ UNCHANGED <<flags, ring, lock, tpc, apc, counts, history>>

\* elog_hexdump outputs one log for each line of its dump under the same lock.
NextLine(w) ==
    /\ calls < MaxLogs
    /\ wpc[w] = "unlock"
    /\ wpc' = [wpc EXCEPT ![w] = "output"]
    /\ calls' = calls + 1
    /\ UNCHANGED <<flags, output_notice, ring, lock, tpc, apc, inits, history>>

ReleaseLock(w) ==
    /\ wpc[w] = "unlock"
    /\ lock' = NoThread
    /\ wpc' = [wpc EXCEPT ![w] = "idle"]
    /\ UNCHANGED <<flags, output_notice, ring, tpc, apc, counts, history>>

WriterStep(w) ==
    \/ TakeLock(w)
    \/ \E log \in Logs : PutLog(w, log)
    \/ OutputDirectly(w)
    \/ elog_async_output_notice(w)
    \/ ReleaseLock(w)

------------------------------------------------------------------------------
(* The output thread: async_output.                                         *)

TestRunning ==
    /\ tpc = "test"
    /\ tpc' = IF thread_running THEN "wait" ELSE "exited"
    /\ UNCHANGED <<flags, output_notice, ring, lock, wpc, apc, counts, history>>

\* Faulty variant: a wait that gives up.
WaitNoticeBriefly ==
    /\ tpc = "wait"
    /\ output_notice' = output_notice - 1
    /\ tpc' = "get"
    /\ UNCHANGED <<flags, ring, lock, wpc, apc, counts, history>>

WaitNotice ==
    /\ tpc = "wait"
    /\ output_notice > 0
    /\ output_notice' = output_notice - 1
    /\ tpc' = "get"
    /\ UNCHANGED <<flags, ring, lock, wpc, apc, counts, history>>

\* elog_async_get_log takes and gives the output lock itself.  A get that
\* returns nothing ends the polling.
GetLog ==
    /\ tpc = "get"
    /\ lock = NoThread
    /\ Q!Get(POLL_SIZE)
    /\ tpc' = IF poll_get_buf' = <<>> THEN "test" ELSE "output"
    /\ UNCHANGED <<flags, output_notice, lock, wpc, apc, counts, history>>

\* Faulty variants: one poll for each notice; nothing is output after the stop.
OutputPolledOnce ==
    /\ tpc = "output"
    /\ printed' = printed \o poll_get_buf
    /\ tpc' = "test"
    /\ UNCHANGED <<flags, output_notice, ring, lock, wpc, apc, counts,
                   accepted, earlier>>
OutputPolledUnlessStopped ==
    /\ tpc = "output"
    /\ printed' = IF thread_running THEN printed \o poll_get_buf ELSE printed
    /\ tpc' = "get"
    /\ UNCHANGED <<flags, output_notice, ring, lock, wpc, apc, counts,
                   accepted, earlier>>

\* elog_port_output, outside the output lock.
OutputPolled ==
    /\ tpc = "output"
    /\ printed' = printed \o poll_get_buf
    /\ tpc' = "get"
    /\ UNCHANGED <<flags, output_notice, ring, lock, wpc, apc, counts,
                   accepted, earlier>>

ThreadStep == TestRunning \/ WaitNotice \/ GetLog \/ OutputPolled

------------------------------------------------------------------------------
(* The application.  It stops the logger, and deinitializes it when its     *)
(* writers are done.                                                        *)

elog_init ==
    /\ inits < MaxInits
    /\ apc = "down"
    /\ output_notice' = 0
    /\ thread_running' = TRUE
    /\ tpc' = "test"
    /\ earlier' = Len(accepted)
    /\ inits' = inits + 1
    /\ apc' = "ready"
    /\ UNCHANGED <<output_enabled, is_enabled, ring, lock, wpc, calls, accepted,
                   printed>>

\* elog_start and elog_stop set the two flags one after the other.
SetOutputEnabled ==
    /\ apc \in {"ready", "up"}
    /\ output_enabled' = (apc = "ready")
    /\ apc' = IF apc = "ready" THEN "starting" ELSE "stopping"
    /\ UNCHANGED <<is_enabled, thread_running, output_notice, ring, lock, wpc,
                   tpc, counts, history>>

elog_async_enabled ==
    /\ apc \in {"starting", "stopping"}
    /\ is_enabled' = (apc = "starting")
    /\ apc' = IF apc = "starting" THEN "up" ELSE "ready"
    /\ UNCHANGED <<output_enabled, thread_running, output_notice, ring, lock, wpc,
                   tpc, counts, history>>

StopThread ==
    /\ apc = "ready"
    /\ \A w \in Writers : wpc[w] = "idle"
    /\ thread_running' = FALSE
    /\ apc' = "notify"
    /\ UNCHANGED <<output_enabled, is_enabled, output_notice, ring, lock, wpc,
                   tpc, counts, history>>

\* Faulty variant: nobody wakes the output thread.
StopSilently ==
    /\ apc = "notify"
    /\ apc' = "join"
    /\ UNCHANGED <<flags, output_notice, ring, lock, wpc, tpc, counts, history>>

NoticeStop ==
    /\ apc = "notify"
    /\ output_notice' = output_notice + 1
    /\ apc' = "join"
    /\ UNCHANGED <<flags, ring, lock, wpc, tpc, counts, history>>

JoinThread ==
    /\ apc = "join"
    /\ tpc = "exited"
    /\ apc' = "down"
    /\ UNCHANGED <<flags, output_notice, ring, lock, wpc, tpc, counts, history>>

Deinit == NoticeStop \/ JoinThread
Application == elog_init \/ SetOutputEnabled \/ elog_async_enabled \/ StopThread

Next ==
    \/ \E w \in Writers : Enter(w) \/ NextLine(w) \/ WriterStep(w)
    \/ ThreadStep
    \/ Application \/ Deinit

Spec == Init /\ [][Next]_vars

\* Every thread that can go on does; nobody is bound to log or to stop.
Fairness ==
    /\ \A w \in Writers : WF_vars(WriterStep(w))
    /\ WF_vars(ThreadStep)
    /\ WF_vars(Deinit)
FairSpec == Spec /\ Fairness

------------------------------------------------------------------------------
TypeOK ==
    /\ output_enabled \in BOOLEAN /\ is_enabled \in BOOLEAN
    /\ thread_running \in BOOLEAN
    /\ output_notice \in Nat
    /\ content \in Seq(Byte) /\ poll_get_buf \in Seq(Byte)
    /\ lock \in Writers \cup {NoThread}
    /\ wpc \in [Writers -> {"idle", "lock", "output", "notify", "unlock"}]
    /\ tpc \in {"none", "test", "wait", "get", "output", "exited"}
    /\ apc \in {"down", "ready", "starting", "up", "stopping", "notify", "join"}
    /\ calls \in Nat /\ inits \in Nat
    /\ accepted \in Seq(Byte) /\ printed \in Seq(Byte)
    /\ earlier \in Nat

InHand == IF tpc = "output" THEN poll_get_buf ELSE <<>>

\* What the ring buffer accepted is output once and in order: what is not yet
\* printed is in the thread's hands or in the buffer.  No stop, exit or restart
\* of the thread changes that.
InOrder == accepted = printed \o InHand \o content

Notifying == \E w \in Writers : wpc[w] = "notify"

\* The output thread does not sleep on a log: while it waits with no notice due,
\* nothing that came in since elog_init is left in the buffer.
NoLostNotice ==
    tpc = "wait" /\ output_notice = 0 /\ ~Notifying /\ Len(accepted) > earlier
        => content = <<>>

\* Once the writers are done, every accepted log is printed, unless the thread is
\* told to end.
EverythingPrinted ==
    Len(accepted) > earlier /\ thread_running
        ~> printed = accepted \/ ~thread_running

\* elog_async_deinit returns.
DeinitReturns == apc = "join" ~> apc = "down"

\* log/elog_async.cpp:136, "the log which beyond ring buffer space will be
\* dropped": only that one, so that the thread leaves nothing in the buffer.
NothingLeftBehind == tpc = "exited" => content = <<>>
=============================================================================
