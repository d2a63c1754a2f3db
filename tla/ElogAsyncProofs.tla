--------------------------- MODULE ElogAsyncProofs ---------------------------
(* Proofs about ElogAsync: types, the order of the output and the notices.  *)
EXTENDS ElogAsync, SequenceTheorems, TLAPS

LEMMA Regroup == \A a, b, c \in Seq(Byte) : (a \o b) \o c = a \o (b \o c)
  BY ConcatAssociative

\* What a put and a get do to the bytes of the queue.
LEMMA PutFacts ==
    ASSUME NEW log \in Logs, AsyncAssumption, content \in Seq(Byte),
           Len(content) <= OUTPUT_BUF_SIZE, Q!Put(log)
    PROVE  /\ content' \in Seq(Byte)
           /\ Len(content') <= OUTPUT_BUF_SIZE
           /\ Len(content) <= Len(content')
           /\ SubSeq(content', Len(content) + 1, Len(content')) \in Seq(Byte)
           /\ content' = content \o SubSeq(content', Len(content) + 1, Len(content'))
           /\ poll_get_buf' = poll_get_buf
<1> DEFINE fits == Q!Least(Len(log), OUTPUT_BUF_SIZE - Len(content))
           cut == SubSeq(log, 1, fits)
<1>1. log \in Seq(Byte) /\ Len(log) \in Nat /\ Len(content) \in Nat /\ OUTPUT_BUF_SIZE \in Nat
  BY DEF AsyncAssumption
<1>2. fits \in 0..Len(log) /\ fits <= OUTPUT_BUF_SIZE - Len(content)
  BY <1>1 DEF Q!Least
<1>3. cut \in Seq(Byte) /\ Len(cut) = fits
  BY <1>1, <1>2
<1>4. content' = content \o cut /\ poll_get_buf' = poll_get_buf
  BY DEF Q!Put
<1>5. content' \in Seq(Byte) /\ Len(content') = Len(content) + fits
  BY <1>3, <1>4
<1>6. SubSeq(content', Len(content) + 1, Len(content')) = cut
  <2> DEFINE S == SubSeq(content', Len(content) + 1, Len(content'))
  <2>1. S \in Seq(Byte) /\ Len(S) = fits
    BY <1>1, <1>2, <1>5
  <2>2. \A k \in 1..fits : S[k] = cut[k]
    BY <1>1, <1>2, <1>3, <1>4, <1>5
  <2> QED  BY <2>1, <2>2, <1>3, SeqEqual
<1>7. content' = content \o SubSeq(content', Len(content) + 1, Len(content'))
  BY <1>4, <1>6
<1>8. Len(content') <= OUTPUT_BUF_SIZE /\ Len(content) <= Len(content')
  BY <1>1, <1>2, <1>5
<1>9. SubSeq(content', Len(content) + 1, Len(content')) \in Seq(Byte)
  BY <1>3, <1>6
<1> HIDE DEF fits, cut
<1> QED  BY <1>4, <1>5, <1>7, <1>8, <1>9

LEMMA GetFacts ==
    ASSUME AsyncAssumption, content \in Seq(Byte),
           Len(content) <= OUTPUT_BUF_SIZE, Q!Get(POLL_SIZE)
    PROVE  /\ content' \in Seq(Byte)
           /\ Len(content') <= OUTPUT_BUF_SIZE
           /\ poll_get_buf' \in Seq(Byte)
           /\ content = poll_get_buf' \o content'
           /\ poll_get_buf' = <<>> => content' = <<>>
<1> DEFINE n == Q!Least(POLL_SIZE, Len(content))
<1>1. Len(content) \in Nat /\ OUTPUT_BUF_SIZE \in Nat /\ POLL_SIZE \in Nat \ {0}
  BY DEF AsyncAssumption
<1>2. n \in 0..Len(content) /\ (n = 0 => Len(content) = 0)
  BY <1>1 DEF Q!Least
<1>3. poll_get_buf' = SubSeq(content, 1, n) /\ content' = SubSeq(content, n + 1, Len(content))
  BY DEF Q!Get
<1>4. /\ poll_get_buf' \in Seq(Byte) /\ Len(poll_get_buf') = n
      /\ content' \in Seq(Byte) /\ Len(content') = Len(content) - n
  BY <1>1, <1>2, <1>3
<1>5. content = poll_get_buf' \o content'
  <2>1. SubSeq(content, 1, n) \o SubSeq(content, n + 1, Len(content))
            = SubSeq(content, 1, Len(content))
    BY <1>1, <1>2, ConcatAdjacentSubSeq
  <2>2. SubSeq(content, 1, Len(content)) = content
    BY <1>1
  <2> QED  BY <2>1, <2>2, <1>3
<1>6. poll_get_buf' = <<>> => content' = <<>>
  BY <1>2, <1>4
<1> QED  BY <1>1, <1>2, <1>4, <1>5, <1>6

------------------------------------------------------------------------------
(* Types, and a buffer that is never over its size.                         *)

TypeInv == TypeOK /\ Len(content) <= OUTPUT_BUF_SIZE

LEMMA TypeInit == ASSUME AsyncAssumption, Init PROVE TypeInv
<1>1. content = <<>> /\ poll_get_buf = <<>>
  BY DEF Init, Q!Init
<1>2. Len(content) <= OUTPUT_BUF_SIZE
  BY <1>1 DEF AsyncAssumption
<1>3. \A S : <<>> \in Seq(S)
  OBVIOUS
<1>4. TypeOK
  BY <1>1, <1>3 DEF Init, TypeOK
<1> QED  BY <1>2, <1>4 DEF TypeInv

LEMMA TypeStep ==
    ASSUME AsyncAssumption, TypeInv, [Next]_vars
    PROVE  TypeInv'
<1> USE DEF TypeInv, TypeOK, flags, ring, counts, history
<1>1. ASSUME NEW w \in Writers, Enter(w) \/ NextLine(w) PROVE TypeInv'
  <2>1. calls + 1 \in Nat
    OBVIOUS
  <2>2. CASE Enter(w)
    BY <2>1, <2>2 DEF Enter
  <2>3. CASE NextLine(w)
    BY <2>1, <2>3 DEF NextLine
  <2> QED  BY <1>1, <2>2, <2>3
<1>2. ASSUME NEW w \in Writers, WriterStep(w) PROVE TypeInv'
  <2>1. CASE TakeLock(w)
    BY <2>1 DEF TakeLock
  <2>2. ASSUME NEW log \in Logs, PutLog(w, log) PROVE TypeInv'
    <3>1. /\ content' \in Seq(Byte) /\ Len(content') <= OUTPUT_BUF_SIZE
          /\ SubSeq(content', Len(content) + 1, Len(content')) \in Seq(Byte)
          /\ poll_get_buf' = poll_get_buf
      BY <2>2, PutFacts DEF PutLog
    <3>2. accepted' \in Seq(Byte)
      BY <2>2, <3>1 DEF PutLog
    <3> QED  BY <2>2, <3>1, <3>2 DEF PutLog
  <2>3. CASE OutputDirectly(w)
    BY <2>3 DEF OutputDirectly
  <2>4. CASE elog_async_output_notice(w)
    BY <2>4 DEF elog_async_output_notice
  <2>5. CASE ReleaseLock(w)
    BY <2>5 DEF ReleaseLock
  <2> QED  BY <1>2, <2>1, <2>2, <2>3, <2>4, <2>5 DEF WriterStep
<1>3. CASE ThreadStep
  <2>1. CASE TestRunning
    BY <2>1 DEF TestRunning
  <2>2. CASE WaitNotice
    BY <2>2 DEF WaitNotice
  <2>3. CASE GetLog
    <3>1. /\ content' \in Seq(Byte) /\ Len(content') <= OUTPUT_BUF_SIZE
          /\ poll_get_buf' \in Seq(Byte)
      BY <2>3, GetFacts DEF GetLog
    <3> QED  BY <2>3, <3>1 DEF GetLog
  <2>4. CASE OutputPolled
    BY <2>4 DEF OutputPolled
  <2> QED  BY <1>3, <2>1, <2>2, <2>3, <2>4 DEF ThreadStep
<1>4. CASE Application
  <2>1. CASE elog_init
    <3>1. inits + 1 \in Nat /\ Len(accepted) \in Nat
      OBVIOUS
    <3> QED  BY <2>1, <3>1 DEF elog_init
  <2>2. CASE SetOutputEnabled
    <3>1. /\ output_enabled' \in BOOLEAN
          /\ apc' \in {"starting", "stopping"}
      BY <2>2 DEF SetOutputEnabled
    <3> QED  BY <2>2, <3>1 DEF SetOutputEnabled
  <2>3. CASE elog_async_enabled
    <3>1. is_enabled' \in BOOLEAN /\ apc' \in {"up", "ready"}
      BY <2>3 DEF elog_async_enabled
    <3> QED  BY <2>3, <3>1 DEF elog_async_enabled
  <2>4. CASE StopThread
    BY <2>4 DEF StopThread
  <2> QED  BY <1>4, <2>1, <2>2, <2>3, <2>4 DEF Application
<1>5. CASE Deinit
  BY <1>5 DEF Deinit, NoticeStop, JoinThread
<1>6. CASE UNCHANGED vars
  BY <1>6 DEF vars
<1> QED  BY <1>1, <1>2, <1>3, <1>4, <1>5, <1>6 DEF Next

LEMMA TypeAlways == Spec => []TypeInv
  BY TypeInit, TypeStep, AsyncAssumption, PTL DEF Spec

\* Every variable keeps its type, for any writers, logs and sizes.
THEOREM TypeCorrect == Spec => []TypeOK
<1>1. TypeInv => TypeOK
  BY DEF TypeInv
<1> QED  BY <1>1, TypeAlways, PTL

------------------------------------------------------------------------------
(* The order of the bytes.                                                  *)

\* While the application is down no output thread is at work.
DownInv == apc = "down" => tpc \in {"none", "exited"}

OrderInv == InOrder /\ DownInv

LEMMA OrderInit == ASSUME Init PROVE OrderInv
  BY DEF Init, Q!Init, OrderInv, InOrder, InHand, DownInv

\* A step that leaves the bytes alone, and the thread's hands empty or as they
\* were, keeps the order.
LEMMA BytesStay ==
    ASSUME InOrder, UNCHANGED <<ring, accepted, printed>>, InHand' = InHand
    PROVE  InOrder'
  BY DEF InOrder, ring

LEMMA OrderStep ==
    ASSUME AsyncAssumption, TypeInv, OrderInv, [Next]_vars
    PROVE  OrderInv'
<1> USE DEF flags, ring, counts, history
<1>0. InOrder /\ DownInv
  BY DEF OrderInv
<1>a. /\ accepted \in Seq(Byte) /\ printed \in Seq(Byte) /\ content \in Seq(Byte)
      /\ poll_get_buf \in Seq(Byte) /\ InHand \in Seq(Byte)
      /\ Len(content) <= OUTPUT_BUF_SIZE
  BY DEF TypeInv, TypeOK, InHand
<1>1. ASSUME NEW w \in Writers,
             Enter(w) \/ NextLine(w) \/ TakeLock(w) \/ OutputDirectly(w)
                \/ elog_async_output_notice(w) \/ ReleaseLock(w)
      PROVE  OrderInv'
  <2>1. UNCHANGED <<ring, accepted, printed, tpc, apc>>
    BY <1>1 DEF Enter, NextLine, TakeLock, OutputDirectly,
                elog_async_output_notice, ReleaseLock
  <2> QED  BY <1>0, <2>1, BytesStay DEF OrderInv, DownInv, InHand
<1>2. ASSUME NEW w \in Writers, NEW log \in Logs, PutLog(w, log) PROVE OrderInv'
  <2> DEFINE new == SubSeq(content', Len(content) + 1, Len(content'))
  <2>1. content' = content \o new /\ poll_get_buf' = poll_get_buf /\ new \in Seq(Byte)
    BY <1>2, <1>a, PutFacts DEF PutLog
  <2>2. /\ accepted' = accepted \o new /\ printed' = printed
        /\ tpc' = tpc /\ apc' = apc
    BY <1>2 DEF PutLog
  <2>3. InHand' = InHand
    BY <2>1, <2>2 DEF InHand
  <2> HIDE DEF new
  <2>4. accepted' = ((printed \o InHand) \o content) \o new
    BY <1>0, <2>2 DEF InOrder
  <2>5. printed \o InHand \in Seq(Byte)
    BY <1>a
  <2>6. accepted' = (printed \o InHand) \o (content \o new)
    <3> DEFINE before == printed \o InHand
    <3>1. before \in Seq(Byte)
      BY <2>5
    <3> HIDE DEF before
    <3>2. (before \o content) \o new = before \o (content \o new)
      BY <2>1, <3>1, <1>a, Regroup
    <3> QED  BY <2>4, <3>2 DEF before
  <2>7. InOrder'
    BY <2>1, <2>2, <2>3, <2>6 DEF InOrder
  <2>8. DownInv'
    BY <1>0, <2>2 DEF DownInv
  <2> QED  BY <2>7, <2>8 DEF OrderInv
<1>3. CASE TestRunning \/ WaitNotice
  <2>1. UNCHANGED <<ring, accepted, printed, apc>> /\ InHand' = InHand
    BY <1>3 DEF TestRunning, WaitNotice, InHand
  <2>2. tpc \notin {"none", "exited"}
    BY <1>3 DEF TestRunning, WaitNotice
  <2> QED  BY <1>0, <2>1, <2>2, BytesStay DEF OrderInv, DownInv
<1>4. CASE GetLog
  <2>1. content = poll_get_buf' \o content' /\ poll_get_buf' \in Seq(Byte)
        /\ content' \in Seq(Byte)
    BY <1>4, <1>a, GetFacts DEF GetLog
  <2>2. /\ tpc = "get" /\ apc' = apc /\ accepted' = accepted /\ printed' = printed
        /\ tpc' = IF poll_get_buf' = <<>> THEN "test" ELSE "output"
    BY <1>4 DEF GetLog
  <2>3. InHand = <<>> /\ InHand' = poll_get_buf'
    BY <2>2 DEF InHand
  <2>4. accepted = printed \o content
    BY <1>0, <1>a, <2>3, ConcatEmptySeq DEF InOrder
  <2>5. accepted = (printed \o poll_get_buf') \o content'
    <3>1. printed \in Seq(Byte) /\ poll_get_buf' \in Seq(Byte) /\ content' \in Seq(Byte)
      BY <2>1, <1>a
    <3>2. (printed \o poll_get_buf') \o content' = printed \o (poll_get_buf' \o content')
      BY <3>1, Regroup
    <3> QED  BY <2>1, <2>4, <3>2
  <2> QED  BY <1>0, <2>2, <2>3, <2>5 DEF OrderInv, InOrder, DownInv
<1>5. CASE OutputPolled
  <2>1. /\ tpc = "output" /\ printed' = printed \o poll_get_buf /\ tpc' = "get"
        /\ UNCHANGED <<ring, accepted, apc>>
    BY <1>5 DEF OutputPolled
  <2>2. InHand = poll_get_buf /\ InHand' = <<>>
    BY <2>1 DEF InHand
  <2>3. printed' \in Seq(Byte)
    BY <2>1, <1>a
  <2>4. accepted' = (printed' \o InHand') \o content'
    BY <1>0, <2>1, <2>2, <2>3, ConcatEmptySeq DEF InOrder
  <2> QED  BY <1>0, <2>1, <2>4 DEF OrderInv, InOrder, DownInv
<1>6. CASE elog_init
  <2>1. /\ apc = "down" /\ tpc' = "test" /\ apc' = "ready"
        /\ UNCHANGED <<ring, accepted, printed>>
    BY <1>6 DEF elog_init
  <2>2. InHand' = InHand
    BY <1>0, <2>1 DEF DownInv, InHand
  <2> QED  BY <1>0, <2>1, <2>2, BytesStay DEF OrderInv, DownInv
<1>7. CASE SetOutputEnabled \/ elog_async_enabled \/ StopThread \/ NoticeStop
  <2>1. UNCHANGED <<ring, accepted, printed, tpc>> /\ apc' # "down"
    BY <1>7 DEF SetOutputEnabled, elog_async_enabled, StopThread, NoticeStop
  <2> QED  BY <1>0, <2>1, BytesStay DEF OrderInv, DownInv, InHand
<1>8. CASE JoinThread
  <2>1. UNCHANGED <<ring, accepted, printed, tpc>> /\ tpc = "exited"
    BY <1>8 DEF JoinThread
  <2> QED  BY <1>0, <2>1, BytesStay DEF OrderInv, DownInv, InHand
<1>9. CASE UNCHANGED vars
  BY <1>0, <1>9, BytesStay DEF vars, OrderInv, DownInv, InHand
<1> QED
  BY <1>1, <1>2, <1>3, <1>4, <1>5, <1>6, <1>7, <1>8, <1>9
  DEF Next, WriterStep, ThreadStep, Application, Deinit

\* What the ring buffer accepts is output once and in order, through every stop,
\* exit and restart of the output thread.
THEOREM OutputInOrder == Spec => []InOrder
<1>1. OrderInv => InOrder
  BY DEF OrderInv
<1> QED  BY <1>1, OrderInit, OrderStep, TypeAlways, AsyncAssumption, PTL DEF Spec

------------------------------------------------------------------------------
(* The notices.                                                             *)

\* A log that came in since elog_init has a notice: posted, about to be posted,
\* or taken by a thread that goes on to poll.
NoticeInv ==
    content # <<>> /\ Len(accepted) > earlier
        => output_notice > 0 \/ Notifying \/ tpc \in {"get", "output"}

LEMMA NoticeInit == ASSUME Init PROVE NoticeInv
  BY DEF Init, Q!Init, NoticeInv

LEMMA NoticeStep ==
    ASSUME AsyncAssumption, TypeInv, NoticeInv, [Next]_vars
    PROVE  NoticeInv'
<1> USE DEF flags, ring, counts, history, NoticeInv
<1>a. /\ output_notice \in Nat /\ content \in Seq(Byte) /\ accepted \in Seq(Byte)
      /\ Len(content) <= OUTPUT_BUF_SIZE
      /\ wpc \in [Writers -> {"idle", "lock", "output", "notify", "unlock"}]
  BY DEF TypeInv, TypeOK
<1>1. ASSUME NEW w \in Writers,
             Enter(w) \/ NextLine(w) \/ TakeLock(w) \/ OutputDirectly(w) \/ ReleaseLock(w)
      PROVE  NoticeInv'
  <2>1. UNCHANGED <<content, accepted, earlier, output_notice, tpc>>
    BY <1>1 DEF Enter, NextLine, TakeLock, OutputDirectly, ReleaseLock
  <2>2. wpc[w] # "notify" /\ \A v \in Writers \ {w} : wpc'[v] = wpc[v]
    BY <1>1, <1>a DEF Enter, NextLine, TakeLock, OutputDirectly, ReleaseLock
  <2>3. Notifying => Notifying'
    BY <2>2 DEF Notifying
  <2> QED  BY <2>1, <2>3
<1>2. ASSUME NEW w \in Writers, NEW log \in Logs, PutLog(w, log) PROVE NoticeInv'
  <2>1. CASE content' # content
    <3>1. wpc'[w] = "notify"
      BY <1>2, <2>1, <1>a DEF PutLog
    <3> QED  BY <3>1 DEF Notifying
  <2>2. CASE content' = content
    <3>1. SubSeq(content', Len(content) + 1, Len(content')) = <<>>
      BY <2>2, <1>a
    <3>2. accepted' = accepted
      BY <1>2, <1>a, <3>1, ConcatEmptySeq DEF PutLog
    <3>3. wpc[w] = "output" /\ \A v \in Writers \ {w} : wpc'[v] = wpc[v]
      BY <1>2, <1>a DEF PutLog
    <3>4. Notifying => Notifying'
      BY <3>3 DEF Notifying
    <3> QED  BY <1>2, <2>2, <3>2, <3>4 DEF PutLog
  <2> QED  BY <2>1, <2>2
<1>3. ASSUME NEW w \in Writers, elog_async_output_notice(w) PROVE NoticeInv'
  BY <1>3, <1>a DEF elog_async_output_notice
<1>4. CASE TestRunning
  BY <1>4 DEF TestRunning, Notifying
<1>5. CASE WaitNotice
  BY <1>5 DEF WaitNotice
<1>6. CASE GetLog
  BY <1>6, <1>a, GetFacts DEF GetLog
<1>7. CASE OutputPolled
  BY <1>7 DEF OutputPolled
<1>8. CASE elog_init
  <2>1. accepted' = accepted /\ earlier' = Len(accepted)
    BY <1>8 DEF elog_init
  <2> QED  BY <2>1, <1>a
<1>9. CASE SetOutputEnabled \/ elog_async_enabled \/ StopThread \/ JoinThread
  BY <1>9 DEF SetOutputEnabled, elog_async_enabled, StopThread, JoinThread, Notifying
<1>10. CASE NoticeStop
  BY <1>10, <1>a DEF NoticeStop
<1>11. CASE UNCHANGED vars
  BY <1>11 DEF vars, Notifying
<1> QED
  BY <1>1, <1>2, <1>3, <1>4, <1>5, <1>6, <1>7, <1>8, <1>9, <1>10, <1>11
  DEF Next, WriterStep, ThreadStep, Application, Deinit

\* The output thread never sleeps on a log that came in since elog_init.
THEOREM NoNoticeLost == Spec => []NoLostNotice
<1>1. TypeInv /\ NoticeInv => NoLostNotice
  BY DEF NoticeInv, NoLostNotice, TypeInv, TypeOK
<1> QED
  BY <1>1, NoticeInit, NoticeStep, TypeAlways, AsyncAssumption, PTL DEF Spec
=============================================================================
