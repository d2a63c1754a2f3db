-------------------------- MODULE RingBufferProofs --------------------------
(* RingBuffer implements ByteQueue, for every size of the buffer, every set *)
(* of logs and every size of the buffers that get fills.                    *)
EXTENDS RingBuffer, SequenceTheorems, TLAPS

N == OUTPUT_BUF_SIZE

LEMMA SizeType == N \in Nat \ {0}
  BY RingAssumption DEF N

IndexInv ==
    /\ write_index \in Index /\ read_index \in Index
    /\ buf_is_full \in BOOLEAN /\ buf_is_empty \in BOOLEAN
    /\ FlagsInv

\* Used is what lies between the indices, and the flags tell its two ends.
LEMMA UsedBounds ==
  ASSUME IndexInv
  PROVE  /\ Used \in 0..N
         /\ Space \in 0..N
         /\ Space = N - Used
         /\ write_index = Advance(read_index, Used)
         /\ buf_is_full <=> Used = N
         /\ buf_is_empty <=> Used = 0
<1>1. write_index \in 0..N - 1 /\ read_index \in 0..N - 1 /\ N \in Nat \ {0}
  BY SizeType DEF IndexInv, Index, N
<1>2. CASE write_index > read_index
  <2>1. ~buf_is_full /\ ~buf_is_empty /\ Used = write_index - read_index
    BY <1>1, <1>2 DEF Used, IndexInv, FlagsInv
  <2> QED BY <1>1, <1>2, <2>1 DEF Space, Advance, N
<1>3. CASE write_index < read_index
  <2>1. ~buf_is_full /\ ~buf_is_empty /\ Used = N - (read_index - write_index)
    BY <1>1, <1>3 DEF Used, IndexInv, FlagsInv, N
  <2> QED BY <1>1, <1>3, <2>1 DEF Space, Advance, N
<1>4. CASE write_index = read_index
  <2>1. \/ buf_is_full /\ ~buf_is_empty /\ Used = N
        \/ ~buf_is_full /\ buf_is_empty /\ Used = 0
    BY <1>1, <1>4 DEF Used, IndexInv, FlagsInv, N
  <2> QED BY <1>1, <1>4, <2>1 DEF Space, Advance, N
<1> QED BY <1>1, <1>2, <1>3, <1>4

LEMMA AdvanceDistance ==
  ASSUME NEW i \in Index, NEW n \in 0..N
  PROVE  /\ Advance(i, n) = i <=> n = N \/ n = 0
         /\ Advance(i, n) > i => n = Advance(i, n) - i
         /\ Advance(i, n) < i => n = N - (i - Advance(i, n))
  BY SizeType DEF N, Advance, Index

\* Conversely, indices n apart and flags that agree with n make Used n.
LEMMA UsedIs ==
  ASSUME NEW n \in 0..N,
         write_index' \in Index, read_index' \in Index,
         write_index' = Advance(read_index', n),
         buf_is_full' \in BOOLEAN, buf_is_empty' \in BOOLEAN,
         buf_is_full' <=> n = N,
         buf_is_empty' <=> n = 0
  PROVE  Used' = n /\ IndexInv'
<1>1. write_index' \in 0..N - 1 /\ read_index' \in 0..N - 1 /\ N \in Nat \ {0}
  BY SizeType DEF Index, N
<1>2. /\ write_index' = read_index' <=> n = N \/ n = 0
      /\ write_index' > read_index' => n = write_index' - read_index'
      /\ write_index' < read_index' => n = N - (read_index' - write_index')
  BY AdvanceDistance
<1>3. FlagsInv'
  <2>1. ~(n = N /\ n = 0)
    BY <1>1
  <2> QED BY <1>2, <2>1 DEF FlagsInv
<1>4. Used' = n
  <2>1. CASE n = N
    BY <1>1, <1>2, <2>1 DEF Used, N
  <2>2. CASE n = 0
    <3>1. ~buf_is_full' /\ buf_is_empty' /\ write_index' = read_index'
      BY <1>1, <1>2, <2>2
    <3> QED BY <1>1, <2>2, <3>1 DEF Used, N
  <2>3. CASE n # N /\ n # 0
    <3>1. ~buf_is_full' /\ ~buf_is_empty' /\ write_index' # read_index'
      BY <1>2, <2>3
    <3> QED BY <1>1, <1>2, <3>1 DEF Used, N
  <2> QED BY <2>1, <2>2, <2>3
<1> QED BY <1>3, <1>4 DEF IndexInv

LEMMA AdvanceType ==
  ASSUME NEW i \in Index, NEW n \in 0..N
  PROVE  Advance(i, n) \in Index
  BY SizeType DEF N, Advance, Index

LEMMA AdvanceTwice ==
  ASSUME NEW i \in Index, NEW m \in 0..N, NEW k \in 0..N, m + k <= N
  PROVE  Advance(Advance(i, m), k) = Advance(i, m + k)
  BY SizeType DEF N, Advance, Index

\* The bytes that CopyIn writes are the ones behind the bytes in use.
LEMMA OffsetBehind ==
  ASSUME IndexInv, NEW k \in 1..N
  PROVE  LET j == Advance(read_index, k - 1)
         IN  /\ j \in Index
             /\ k <= Used => Offset(write_index, j) > Space
             /\ k > Used => Offset(write_index, j) = k - Used
<1>1. read_index \in 0..N - 1 /\ N \in Nat \ {0}
  BY SizeType DEF IndexInv, Index, N
<1>2. Used \in 0..N /\ Space = N - Used /\ write_index = Advance(read_index, Used)
  BY UsedBounds
<1> QED BY <1>1, <1>2 DEF Advance, Offset, Index, N

------------------------------------------------------------------------------
(* The bytes.                                                               *)

\* The number of bytes a log adds and a get takes.
Fits(log) == IF Space <= Len(log) THEN Space ELSE Len(log)
Taken(size) == IF Used <= size THEN Used ELSE size

LEMMA CopyOutType ==
  ASSUME TypeOK, NEW n \in 0..N
  PROVE  /\ CopyOut(n) \in Seq(Byte)
         /\ Len(CopyOut(n)) = n
         /\ \A k \in 1..n : CopyOut(n)[k] = log_buf[Advance(read_index, k - 1)]
<1>1. \A k \in 1..n : log_buf[Advance(read_index, k - 1)] \in Byte
  <2> TAKE k \in 1..n
  <2>1. Advance(read_index, k - 1) \in Index
    BY SizeType, AdvanceType DEF TypeOK
  <2> QED BY <2>1 DEF TypeOK
<1>2. n \in Nat
  BY SizeType
<1> QED BY <1>1, <1>2 DEF CopyOut

LEMMA PutPreserves ==
  ASSUME TypeOK, FlagsInv, NEW log \in Logs, async_put_log(log)
  PROVE  /\ Fits(log) \in 1..Space
         /\ Used' = Used + Fits(log)
         /\ IndexInv'
<1> DEFINE n == Fits(log)
<1>1. IndexInv
  BY DEF TypeOK, IndexInv
<1>2. log \in Seq(Byte) /\ Len(log) \in Nat \ {0}
  <2>1. log \in Seq(Byte) /\ log # <<>>
    BY RingAssumption
  <2> QED BY <2>1, EmptySeq
<1>3. Space > 0
  BY DEF async_put_log
<1>4. Used \in 0..N /\ Space = N - Used /\ N \in Nat \ {0}
  BY <1>1, UsedBounds, SizeType
<1>5. n \in 1..Space
  BY <1>2, <1>3, <1>4 DEF Fits
<1>6. /\ write_index' = Advance(write_index, n)
      /\ read_index' = read_index
      /\ buf_is_full' <=> n = Space
      /\ buf_is_full' \in BOOLEAN
      /\ buf_is_empty' = FALSE
  <2>1. ~buf_is_full
    BY <1>1, <1>3, <1>4, UsedBounds
  <2>2. Space <= Len(log) <=> n = Space
    BY <1>2, <1>4 DEF Fits
  <2>3. buf_is_full' = (buf_is_full \/ Space <= Len(log))
    BY DEF async_put_log
  <2> QED BY <2>1, <2>2, <2>3 DEF async_put_log, Fits
<1>7. write_index' = Advance(read_index, Used + n)
  <2>1. write_index = Advance(read_index, Used)
    BY <1>1, UsedBounds
  <2>2. n \in 0..N /\ Used + n <= N /\ read_index \in Index
    BY <1>4, <1>5 DEF TypeOK
  <2> QED BY <1>4, <1>6, <2>1, <2>2, AdvanceTwice
<1>8. Used + n \in 0..N /\ (n = Space <=> Used + n = N) /\ Used + n # 0
  BY <1>4, <1>5
<1>9. write_index' \in Index /\ read_index' \in Index
  BY <1>6, <1>7, <1>8, AdvanceType DEF TypeOK
<1> HIDE DEF n
<1>10. Used' = Used + n /\ IndexInv'
  BY <1>6, <1>7, <1>8, <1>9, UsedIs
<1> QED BY <1>5, <1>10 DEF n

\* A put appends what fits of the log to the bytes in use.
LEMMA PutContent ==
  ASSUME TypeOK, FlagsInv, NEW log \in Logs, async_put_log(log)
  PROVE  /\ log_buf' \in [Index -> Byte]
         /\ CopyOut(Used)' = CopyOut(Used) \o SubSeq(log, 1, Fits(log))
<1> DEFINE n == Fits(log)
           whole == CopyOut(Used) \o SubSeq(log, 1, n)
<1>1. IndexInv /\ n \in 1..Space /\ Used' = Used + n
  BY PutPreserves DEF TypeOK, IndexInv
<1>2. Used \in 0..N /\ Space = N - Used /\ N \in Nat \ {0}
  BY <1>1, UsedBounds, SizeType
<1>3. log \in Seq(Byte) /\ Len(log) \in Nat /\ n <= Len(log) /\ n \in Nat
  <2>1. log \in Seq(Byte)
    BY RingAssumption
  <2> QED BY <1>1, <1>2, <2>1 DEF Fits
<1> HIDE DEF n
<1>4. log_buf' = CopyIn(log, n) /\ read_index' = read_index
  BY DEF async_put_log, n, Fits
<1>5. log_buf' \in [Index -> Byte]
  <2>1. ASSUME NEW j \in Index
        PROVE  Offset(write_index, j) \in 1..N
    BY <1>2 DEF TypeOK, Index, Offset, N
  <2>2. ASSUME NEW j \in Index, Offset(write_index, j) <= n
        PROVE  log[Offset(write_index, j)] \in Byte
    BY <1>2, <1>3, <2>1, <2>2, ElementOfSeq
  <2> QED BY <1>4, <2>2 DEF CopyIn, TypeOK
<1>6. /\ CopyOut(Used) \in Seq(Byte)
      /\ Len(CopyOut(Used)) = Used
      /\ \A k \in 1..Used : CopyOut(Used)[k] = log_buf[Advance(read_index, k - 1)]
  BY <1>2, CopyOutType
<1>7. /\ SubSeq(log, 1, n) \in Seq(Byte)
      /\ Len(SubSeq(log, 1, n)) = n
      /\ \A k \in 1..n : SubSeq(log, 1, n)[k] = log[k]
  BY <1>1, <1>2, <1>3, SubSeqProperties
<1>8. /\ whole \in Seq(Byte)
      /\ Len(whole) = Used + n
      /\ \A k \in 1..Used + n : whole[k] =
            IF k <= Used THEN CopyOut(Used)[k] ELSE SubSeq(log, 1, n)[k - Used]
  BY <1>6, <1>7, ConcatProperties
<1> HIDE DEF whole
<1>9. ASSUME NEW k \in 1..Used + n
      PROVE  log_buf'[Advance(read_index, k - 1)] = whole[k]
  <2> DEFINE j == Advance(read_index, k - 1)
  <2>1. k \in 1..N
    BY <1>1, <1>2
  <2>2. /\ j \in Index
        /\ k <= Used => Offset(write_index, j) > Space
        /\ k > Used => Offset(write_index, j) = k - Used
    BY <1>1, <2>1, OffsetBehind
  <2>3. log_buf'[j] = IF Offset(write_index, j) <= n
                         THEN log[Offset(write_index, j)] ELSE log_buf[j]
    BY <1>4, <2>2 DEF CopyIn
  <2>4. CASE k <= Used
    <3>1. Offset(write_index, j) > Space /\ n <= Space
      BY <1>1, <1>2, <2>2, <2>4
    <3>2. ~(Offset(write_index, j) <= n)
      <4>1. Offset(write_index, j) \in Int
        BY <2>2, <1>2 DEF Offset, TypeOK, Index, N
      <4> QED BY <1>2, <1>3, <3>1, <4>1
    <3>3. k \in 1..Used
      BY <1>2, <2>4
    <3> QED BY <1>6, <1>8, <2>3, <2>4, <3>2, <3>3
  <2>5. CASE k > Used
    <3>1. k - Used \in 1..n
      BY <1>1, <1>2, <2>5
    <3>2. Offset(write_index, j) = k - Used /\ k - Used <= n
      BY <2>2, <2>5, <3>1
    <3>3. ~(k <= Used)
      BY <1>2, <2>5
    <3>4. log_buf'[j] = log[k - Used]
      BY <2>3, <3>2
    <3> QED BY <1>7, <1>8, <3>1, <3>3, <3>4
  <2> QED BY <1>2, <2>4, <2>5
<1>10. CopyOut(Used)' = whole
  <2>1. CopyOut(Used)' = [k \in 1..Used + n |-> log_buf'[Advance(read_index, k - 1)]]
    BY <1>1, <1>4 DEF CopyOut, Advance
  <2>2. whole = [k \in 1..Used + n |-> whole[k]]
    BY <1>8
  <2> QED BY <1>9, <2>1, <2>2
<1> QED BY <1>5, <1>10 DEF whole, n

LEMMA GetPreserves ==
  ASSUME TypeOK, FlagsInv, NEW size \in Sizes, elog_async_get_log(size)
  PROVE  /\ Taken(size) \in 1..Used
         /\ Used' = Used - Taken(size)
         /\ IndexInv'
<1> DEFINE n == Taken(size)
<1>1. IndexInv
  BY DEF TypeOK, IndexInv
<1>2. Used \in 0..N /\ N \in Nat \ {0} /\ size \in Nat
  BY <1>1, UsedBounds, SizeType, RingAssumption
<1>3. Used > 0 /\ size > 0
  BY DEF elog_async_get_log
<1>4. n \in 1..Used
  BY <1>2, <1>3 DEF Taken
<1>5. /\ write_index' = write_index
      /\ read_index' = Advance(read_index, n)
      /\ buf_is_full' = FALSE
      /\ buf_is_empty' \in BOOLEAN
      /\ buf_is_empty' <=> n = Used
  <2>1. ~buf_is_empty
    BY <1>1, <1>3, <1>2, UsedBounds
  <2>2. Used <= size <=> n = Used
    BY <1>2 DEF Taken
  <2>3. buf_is_empty' = (buf_is_empty \/ Used <= size)
    BY DEF elog_async_get_log
  <2> QED BY <2>1, <2>2, <2>3 DEF elog_async_get_log, Taken
<1>6. write_index' = Advance(read_index', Used - n)
  <2>1. write_index = Advance(read_index, Used)
    BY <1>1, UsedBounds
  <2>2. Used - n \in 0..N /\ n \in 0..N /\ n + (Used - n) = Used /\ read_index \in Index
    BY <1>2, <1>4 DEF TypeOK
  <2> QED BY <1>2, <1>5, <2>1, <2>2, AdvanceTwice
<1>7. Used - n \in 0..N /\ (n = Used <=> Used - n = 0) /\ Used - n # N
  BY <1>2, <1>4
<1>8. write_index' \in Index /\ read_index' \in Index
  <2>1. n \in 0..N
    BY <1>2, <1>4
  <2> QED BY <1>5, <2>1, AdvanceType DEF TypeOK
<1> HIDE DEF n
<1>9. Used' = Used - n /\ IndexInv'
  BY <1>5, <1>6, <1>7, <1>8, UsedIs
<1> QED BY <1>4, <1>9 DEF n

\* A get copies out the first of the bytes in use and leaves the others.
LEMMA GetContent ==
  ASSUME TypeOK, FlagsInv, NEW size \in Sizes, elog_async_get_log(size)
  PROVE  /\ poll_get_buf' = SubSeq(CopyOut(Used), 1, Taken(size))
         /\ CopyOut(Used)' = SubSeq(CopyOut(Used), Taken(size) + 1, Used)
<1> DEFINE n == Taken(size)
           rest == SubSeq(CopyOut(Used), n + 1, Used)
           first == SubSeq(CopyOut(Used), 1, n)
<1>1. IndexInv /\ n \in 1..Used /\ Used' = Used - n
  BY GetPreserves DEF TypeOK, IndexInv
<1>2. Used \in 0..N /\ N \in Nat \ {0}
  BY <1>1, UsedBounds, SizeType
<1>3. /\ poll_get_buf' = CopyOut(n)
      /\ read_index' = Advance(read_index, n)
      /\ log_buf' = log_buf
  BY DEF elog_async_get_log, Taken
<1> HIDE DEF n
<1>4. /\ CopyOut(Used) \in Seq(Byte)
      /\ Len(CopyOut(Used)) = Used
      /\ \A k \in 1..Used : CopyOut(Used)[k] = log_buf[Advance(read_index, k - 1)]
  BY <1>2, CopyOutType
<1>5. \A k \in 1..Used : CopyOut(Used)[k] \in Byte
  BY <1>4, ElementOfSeq
<1>6. poll_get_buf' = first
  <2>1. /\ CopyOut(n) \in Seq(Byte)
        /\ Len(CopyOut(n)) = n
        /\ \A k \in 1..n : CopyOut(n)[k] = log_buf[Advance(read_index, k - 1)]
    <3>1. n \in 0..N
      BY <1>1, <1>2
    <3> QED BY <3>1, CopyOutType
  <2>2. /\ first \in Seq(Byte)
        /\ Len(first) = n
        /\ \A k \in 1..n : first[k] = CopyOut(Used)[k]
    <3>1. n \in Int /\ 1 <= n /\ \A k \in 1..n : k \in 1..Used
      BY <1>1, <1>2
    <3> QED BY <1>5, <3>1, SubSeqProperties
  <2>3. \A k \in 1..n : CopyOut(n)[k] = first[k]
    <3> TAKE k \in 1..n
    <3>1. k \in 1..Used
      BY <1>1, <1>2
    <3> QED BY <1>4, <2>1, <2>2, <3>1
  <2> HIDE DEF first
  <2> QED BY <1>3, <2>1, <2>2, <2>3, SeqEqual
<1>7. /\ rest \in Seq(Byte)
      /\ Len(rest) = Used - n
      /\ \A k \in 1..Used - n : rest[k] = CopyOut(Used)[n + k]
  <2>1. n + 1 \in Int /\ Used \in Int /\ \A k \in n + 1..Used : k \in 1..Used
    BY <1>1, <1>2
  <2>2. /\ rest \in Seq(Byte)
        /\ Len(rest) = IF n + 1 <= Used THEN Used - (n + 1) + 1 ELSE 0
        /\ \A k \in 1..Used - (n + 1) + 1 : rest[k] = CopyOut(Used)[n + 1 + k - 1]
    BY <1>5, <2>1, SubSeqProperties
  <2> HIDE DEF rest
  <2>3. Used - (n + 1) + 1 = Used - n /\ \A k \in 1..Used - n : n + 1 + k - 1 = n + k
    BY <1>1, <1>2
  <2>4. Len(rest) = Used - n
    BY <1>1, <1>2, <2>2
  <2> QED BY <2>2, <2>3, <2>4
<1>8. ASSUME NEW k \in 1..Used - n
      PROVE  log_buf[Advance(Advance(read_index, n), k - 1)] = CopyOut(Used)[n + k]
  <2>1. n \in 0..N /\ k - 1 \in 0..N /\ n + (k - 1) <= N /\ n + (k - 1) = (n + k) - 1
    BY <1>1, <1>2
  <2>2. n + k \in 1..Used
    BY <1>1, <1>2
  <2>3. Advance(Advance(read_index, n), k - 1) = Advance(read_index, (n + k) - 1)
    BY <2>1, AdvanceTwice DEF TypeOK
  <2> QED BY <1>4, <2>2, <2>3
<1>9. CopyOut(Used)' = rest
  <2>1. CopyOut(Used)' = [k \in 1..Used - n |-> log_buf[Advance(Advance(read_index, n), k - 1)]]
    BY <1>1, <1>3 DEF CopyOut, Advance
  <2> HIDE DEF rest
  <2>2. rest = [k \in 1..Used - n |-> rest[k]]
    BY <1>7
  <2> QED BY <1>7, <1>8, <2>1, <2>2
<1> QED BY <1>6, <1>9 DEF n

------------------------------------------------------------------------------
(* The theorems.                                                            *)

RingInv == TypeOK /\ FlagsInv

LEMMA RingInit == Init => RingInv
<1> SUFFICES ASSUME Init PROVE RingInv
  OBVIOUS
<1>1. 0 \in Index /\ [j \in Index |-> Zero] \in [Index -> Byte]
  BY SizeType, RingAssumption DEF Index, N
<1>2. <<>> \in Seq(Byte)
  BY EmptySeq
<1> QED BY <1>1, <1>2 DEF Init, RingInv, TypeOK, FlagsInv

LEMMA RingStep == RingInv /\ [Next]_vars => RingInv'
<1> SUFFICES ASSUME RingInv, [Next]_vars PROVE RingInv'
  OBVIOUS
<1> USE DEF RingInv
<1>1. ASSUME NEW log \in Logs, async_put_log(log)
      PROVE  RingInv'
  <2>1. IndexInv' /\ log_buf' \in [Index -> Byte]
    BY <1>1, PutPreserves, PutContent
  <2>2. poll_get_buf' \in Seq(Byte)
    BY <1>1 DEF async_put_log, TypeOK
  <2> QED BY <2>1, <2>2 DEF IndexInv, TypeOK
<1>2. ASSUME NEW size \in Sizes, elog_async_get_log(size)
      PROVE  RingInv'
  <2>1. IndexInv' /\ log_buf' \in [Index -> Byte]
    BY <1>2, GetPreserves DEF elog_async_get_log, TypeOK
  <2>2. poll_get_buf' \in Seq(Byte)
    <3>1. Taken(size) \in 0..N
      BY <1>2, GetPreserves, UsedBounds, SizeType DEF TypeOK, IndexInv
    <3> QED BY <1>2, <3>1, CopyOutType DEF elog_async_get_log, Taken
  <2> QED BY <2>1, <2>2 DEF IndexInv, TypeOK
<1>3. ASSUME NEW size \in Sizes, get_log_nothing(size)
      PROVE  RingInv'
  <2>1. <<>> \in Seq(Byte)
    BY EmptySeq
  <2> QED BY <1>3, <2>1 DEF get_log_nothing, TypeOK, FlagsInv
<1>4. CASE UNCHANGED vars
  BY <1>4 DEF vars, TypeOK, FlagsInv
<1> QED BY <1>1, <1>2, <1>3, <1>4 DEF Next

\* The indices stay inside log_buf, and what get copies out is made of bytes.
THEOREM RingTypeCorrect == Spec => []TypeOK
<1>1. RingInv => TypeOK
  BY DEF RingInv
<1> QED BY RingInit, RingStep, <1>1, PTL DEF Spec

\* Equal indices always carry exactly one of the two flags, so Used never takes
\* a full buffer for an empty one.
THEOREM FlagsDecide == Spec => []FlagsInv
<1>1. RingInv => FlagsInv
  BY DEF RingInv
<1> QED BY RingInit, RingStep, <1>1, PTL DEF Spec

LEMMA QueueInit == Init => BQ!Init
<1> SUFFICES ASSUME Init PROVE BQ!Init
  OBVIOUS
<1>1. RingInv
  BY RingInit
<1>2. Used = 0
  BY DEF Init, Used
<1>3. 0 \in 0..N
  BY SizeType
<1>4. CopyOut(0) \in Seq(Byte) /\ Len(CopyOut(0)) = 0
  BY <1>1, <1>3, CopyOutType DEF RingInv
<1>5. CopyOut(0) = <<>>
  BY <1>4, EmptySeq
<1> QED BY <1>2, <1>5 DEF Init, BQ!Init

LEMMA QueueStep == RingInv /\ [Next]_vars => [BQ!Next]_(BQ!vars)
<1> SUFFICES ASSUME RingInv, [Next]_vars PROVE [BQ!Next]_(BQ!vars)
  OBVIOUS
<1>1. IndexInv /\ TypeOK /\ FlagsInv
  BY DEF RingInv, IndexInv, TypeOK
<1>2. Used \in 0..N /\ Space = OUTPUT_BUF_SIZE - Used /\ N \in Nat \ {0}
  BY <1>1, UsedBounds, SizeType DEF N
<1>3. CopyOut(Used) \in Seq(Byte) /\ Len(CopyOut(Used)) = Used
  BY <1>1, <1>2, CopyOutType
<1>4. ASSUME NEW log \in Logs, async_put_log(log)
      PROVE  BQ!Next
  <2>1. Len(log) \in Nat
    BY RingAssumption, LenProperties
  <2>2. BQ!Least(Len(log), OUTPUT_BUF_SIZE - Len(CopyOut(Used))) = Fits(log)
    BY <1>2, <1>3, <2>1 DEF BQ!Least, Fits, N
  <2>3. CopyOut(Used)' = CopyOut(Used) \o SubSeq(log, 1, Fits(log))
    BY <1>1, <1>4, PutContent
  <2>4. poll_get_buf' = poll_get_buf
    BY <1>4 DEF async_put_log
  <2>5. BQ!Put(log)
    BY <2>2, <2>3, <2>4 DEF BQ!Put
  <2> QED BY <2>5 DEF BQ!Next
<1>5. ASSUME NEW size \in Sizes, elog_async_get_log(size)
      PROVE  BQ!Next
  <2>1. size \in Nat
    BY RingAssumption
  <2>2. BQ!Least(size, Len(CopyOut(Used))) = Taken(size)
    BY <1>2, <1>3, <2>1 DEF BQ!Least, Taken
  <2>3. /\ poll_get_buf' = SubSeq(CopyOut(Used), 1, Taken(size))
        /\ CopyOut(Used)' = SubSeq(CopyOut(Used), Taken(size) + 1, Used)
    BY <1>1, <1>5, GetContent
  <2>4. BQ!Get(size)
    BY <1>3, <2>2, <2>3 DEF BQ!Get
  <2> QED BY <2>4 DEF BQ!Next
<1>6. ASSUME NEW size \in Sizes, get_log_nothing(size)
      PROVE  BQ!Next
  <2>1. size \in Nat /\ (Used = 0 \/ size = 0) /\ poll_get_buf' = <<>>
    BY <1>6, RingAssumption DEF get_log_nothing
  <2>2. BQ!Least(size, Len(CopyOut(Used))) = 0
    BY <1>2, <1>3, <2>1 DEF BQ!Least
  <2>3. CopyOut(Used)' = CopyOut(Used)
    BY <1>6 DEF get_log_nothing, CopyOut, Used, Advance
  <2>4. SubSeq(CopyOut(Used), 1, 0) = <<>>
    BY SubSeqEmpty
  <2>5. SubSeq(CopyOut(Used), 0 + 1, Len(CopyOut(Used))) = CopyOut(Used)
    BY <1>3, SubSeqFull
  <2>6. BQ!Get(size)
    BY <2>1, <2>2, <2>3, <2>4, <2>5 DEF BQ!Get
  <2> QED BY <2>6 DEF BQ!Next
<1>7. CASE UNCHANGED vars
  BY <1>7 DEF vars, BQ!vars, CopyOut, Used, Advance
<1> QED BY <1>4, <1>5, <1>6, <1>7 DEF Next

\* Whatever the size of the buffer, the lengths of the logs and the moments at
\* which the indices wrap around, the ring buffer is a queue of bytes.
THEOREM RingImplementsQueue == Spec => ImplementsByteQueue
<1> QED BY RingInit, RingStep, QueueInit, QueueStep, PTL DEF Spec, BQ!Spec, ImplementsByteQueue
=============================================================================
