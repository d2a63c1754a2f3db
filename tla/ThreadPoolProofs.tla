--------------------------- MODULE ThreadPoolProofs ---------------------------
(***************************************************************************)
(* Safety of ThreadPool for any number of workers, callers and tasks.      *)
(***************************************************************************)
EXTENDS ThreadPool, FiniteSetTheorems, SequenceTheorems, TLAPS

USE DEF Running

(***************************************************************************)
(* A worker has a task at hand exactly from front() to the end of the      *)
(* callback, and a caller exactly until push().  TypeOK is not inductive   *)
(* without it: the callback would finish a task nobody has.                *)
(***************************************************************************)
HandsInv ==
    /\ \A w \in Workers :
          task[w] # NoTask <=> wpc[w] \in {"unlock", "decCount", "decIdle", "run"}
    /\ \A c \in Callers : arg[c] # NoTask <=> cpc[c] = "push"

TypeInv == TypeOK /\ HandsInv

(* The initial state has the types, and no thread has a task at hand.       *)
LEMMA InitType == ASSUME Init PROVE TypeInv
BY PoolAssumption, FS_CardinalityType
   DEF Init, TypeInv, HandsInv, TypeOK, Threads, WorkerPC, CallerPC, OwnerPC

(* Every step of every thread keeps the types: in particular a task that a  *)
(* thread has at hand is one of Tasks wherever the pool stores it.          *)
LEMMA NextType == ASSUME TypeInv, [Next]_vars PROVE TypeInv'
<1> USE PoolAssumption
           DEF TypeInv, HandsInv, TypeOK, Threads, WorkerPC, CallerPC, OwnerPC, counters,
               workerVars, callerVars, Acquire, Release, Goto, CallerGoto
<1>1. ASSUME OwnerStep PROVE TypeInv'
  <2>1. CASE StartLock BY <2>1 DEF StartLock
  <2>2. CASE StartCheck BY <2>2 DEF StartCheck
  <2>3. CASE StartUnlock BY <2>3 DEF StartUnlock
  <2>4. CASE StartAgain BY <2>4 DEF StartAgain
  <2>5. CASE StopFlag BY <2>5 DEF StopFlag
  <2>6. CASE StopNotifyAll BY <2>6 DEF StopNotifyAll
  <2>7. CASE StopJoined BY <2>7 DEF StopJoined
  <2>8. ASSUME NEW w \in Workers, StartCreate(w) PROVE TypeInv'
    BY <2>8 DEF StartCreate
  <2> QED BY <1>1, <2>1, <2>2, <2>3, <2>4, <2>5, <2>6, <2>7, <2>8 DEF OwnerStep
<1>2. ASSUME NEW w \in Workers, RunStep(w) PROVE TypeInv'
  <2>1. CASE WorkerLock(w) BY <2>1 DEF WorkerLock
  <2>2. CASE TestStopping(w) BY <2>2 DEF TestStopping
  <2>3. CASE TestTaskCount(w) BY <2>3 DEF TestTaskCount
  <2>4. CASE Wait(w) BY <2>4 DEF Wait
  <2>5. CASE ExitIfStopping(w) BY <2>5 DEF ExitIfStopping
  <2>6. CASE TakeFront(w)
    <3>1. CASE m_taskQueue = <<>> BY <2>6, <3>1 DEF TakeFront
    <3>2. CASE m_taskQueue # <<>>
      <4>1. Head(m_taskQueue) \in Tasks /\ Tail(m_taskQueue) \in Seq(Tasks)
        BY <3>2, HeadTailProperties
      <4> QED BY <2>6, <3>2, <4>1 DEF TakeFront
    <3> QED BY <3>1, <3>2
  <2>7. CASE WorkerUnlock(w) BY <2>7 DEF WorkerUnlock
  <2>8. CASE DecTaskCount(w) BY <2>8 DEF DecTaskCount
  <2>9. CASE DecIdle(w) BY <2>9 DEF DecIdle
  <2>10. CASE RunCallback(w) BY <2>10 DEF RunCallback
  <2>11. CASE IncIdle(w) BY <2>11 DEF IncIdle
  <2> QED BY <1>2, <2>1, <2>2, <2>3, <2>4, <2>5, <2>6, <2>7, <2>8, <2>9, <2>10,
             <2>11 DEF RunStep
<1>3. ASSUME NEW w \in Workers, SpuriousWakeup(w) PROVE TypeInv'
  BY <1>3 DEF SpuriousWakeup
<1>4. ASSUME NEW c \in Callers, AddStep(c) PROVE TypeInv'
  <2>1. ASSUME NEW t \in Tasks, AddLock(c, t) PROVE TypeInv' BY <2>1 DEF AddLock
  <2>2. CASE AddPush(c) BY <2>2 DEF AddPush
  <2>3. CASE AddCount(c) BY <2>3 DEF AddCount
  <2>4. CASE AddNotify(c) BY <2>4 DEF AddNotify
  <2>5. CASE AddUnlock(c) BY <2>5 DEF AddUnlock
  <2> QED BY <1>4, <2>1, <2>2, <2>3, <2>4, <2>5 DEF AddStep
<1>5. CASE UNCHANGED vars BY <1>5 DEF vars
<1> QED BY <1>1, <1>2, <1>3, <1>4, <1>5 DEF Next

THEOREM TypeCorrect == Spec => []TypeOK
<1>1. TypeInv => TypeOK BY DEF TypeInv
<1> QED BY <1>1, InitType, NextType, PTL DEF Spec

------------------------------------------------------------------------------
(***************************************************************************)
(* The mutex.                                                               *)
(***************************************************************************)
LEMMA InitMutex == ASSUME Init PROVE MutexInv
BY PoolAssumption
   DEF Init, MutexInv, WorkerLocked, CallerLocked, CallerPC, OwnerLocked

(* Every way into a critical section acquires the mutex and every way out   *)
(* gives it back, so no step leaves two threads inside.                     *)
LEMMA NextMutex ==
    ASSUME TypeOK, MutexInv, [Next]_vars PROVE MutexInv'
<1> USE PoolAssumption
    DEF TypeOK, MutexInv, Threads, WorkerPC, CallerPC, OwnerPC, WorkerLocked,
        CallerLocked, OwnerLocked, counters, workerVars, callerVars, Acquire,
        Release, Goto, CallerGoto
<1>1. ASSUME OwnerStep PROVE MutexInv'
  <2>1. CASE StartLock BY <2>1 DEF StartLock
  <2>2. CASE StartCheck BY <2>2 DEF StartCheck
  <2>3. CASE StartUnlock BY <2>3 DEF StartUnlock
  <2>4. CASE StartAgain BY <2>4 DEF StartAgain
  <2>5. CASE StopFlag BY <2>5 DEF StopFlag
  <2>6. CASE StopNotifyAll BY <2>6 DEF StopNotifyAll
  <2>7. CASE StopJoined BY <2>7 DEF StopJoined
  <2>8. ASSUME NEW w \in Workers, StartCreate(w) PROVE MutexInv'
    BY <2>8 DEF StartCreate
  <2> QED BY <1>1, <2>1, <2>2, <2>3, <2>4, <2>5, <2>6, <2>7, <2>8 DEF OwnerStep
<1>2. ASSUME NEW w \in Workers, RunStep(w) PROVE MutexInv'
  <2>1. CASE WorkerLock(w) BY <2>1 DEF WorkerLock
  <2>2. CASE TestStopping(w) BY <2>2 DEF TestStopping
  <2>3. CASE TestTaskCount(w) BY <2>3 DEF TestTaskCount
  <2>4. CASE Wait(w) BY <2>4 DEF Wait
  <2>5. CASE ExitIfStopping(w) BY <2>5 DEF ExitIfStopping
  <2>6. CASE TakeFront(w) BY <2>6 DEF TakeFront
  <2>7. CASE WorkerUnlock(w) BY <2>7 DEF WorkerUnlock
  <2>8. CASE DecTaskCount(w) BY <2>8 DEF DecTaskCount
  <2>9. CASE DecIdle(w) BY <2>9 DEF DecIdle
  <2>10. CASE RunCallback(w) BY <2>10 DEF RunCallback
  <2>11. CASE IncIdle(w) BY <2>11 DEF IncIdle
  <2> QED BY <1>2, <2>1, <2>2, <2>3, <2>4, <2>5, <2>6, <2>7, <2>8, <2>9, <2>10,
             <2>11 DEF RunStep
<1>3. ASSUME NEW w \in Workers, SpuriousWakeup(w) PROVE MutexInv'
  BY <1>3 DEF SpuriousWakeup
<1>4. ASSUME NEW c \in Callers, AddStep(c) PROVE MutexInv'
  <2>1. ASSUME NEW t \in Tasks, AddLock(c, t) PROVE MutexInv' BY <2>1 DEF AddLock
  <2>2. CASE AddPush(c) BY <2>2 DEF AddPush
  <2>3. CASE AddCount(c) BY <2>3 DEF AddCount
  <2>4. CASE AddNotify(c) BY <2>4 DEF AddNotify
  <2>5. CASE AddUnlock(c) BY <2>5 DEF AddUnlock
  <2> QED BY <1>4, <2>1, <2>2, <2>3, <2>4, <2>5 DEF AddStep
<1>5. CASE UNCHANGED vars BY <1>5 DEF vars
<1> QED BY <1>1, <1>2, <1>3, <1>4, <1>5 DEF Next

THEOREM MutualExclusion == Spec => [](TypeInv /\ MutexInv)
<1>1. TypeInv => TypeOK BY DEF TypeInv
<1> QED BY <1>1, InitType, NextType, InitMutex, NextMutex, PTL DEF Spec

------------------------------------------------------------------------------
(***************************************************************************)
(* The task count.  CountInv says how far m_taskCount may be from the size  *)
(* of the queue; that it stays a natural number needs the fact that a task  *)
(* that is pushed and not yet counted is still in the queue.                *)
(***************************************************************************)
PushedInv == \A c \in Callers : cpc[c] = "inc" => m_taskQueue # <<>>

CountIInv == CountInv /\ PushedInv

LEMMA FiniteSides == IsFiniteSet(Lagging) /\ IsFiniteSet(Leading)
BY PoolAssumption, FS_Subset DEF Lagging, Leading

(* The mutex is held between push() and the increment, so one caller at most*)
(* is between them.                                                         *)
LEMMA OneLeader ==
    ASSUME TypeOK, MutexInv PROVE Leading = {} \/ \E c \in Callers : Leading = {c}
BY DEF TypeOK, MutexInv, Leading, CallerLocked, CallerPC

LEMMA InitCount == ASSUME Init PROVE CountIInv
<1>1. Lagging = {} /\ Leading = {}
  BY DEF Init, Lagging, Leading
<1> QED BY <1>1, FS_EmptySet DEF Init, CountIInv, CountInv, PushedInv

(* The count's part that is arithmetic: how the sides and the queue move    *)
(* together.  One of them at most moves in a step.                          *)
LEMMA CountSame ==
    ASSUME CountInv, Lagging' = Lagging, Leading' = Leading,
           Len(m_taskQueue') = Len(m_taskQueue), m_taskCount' = m_taskCount
    PROVE  CountInv'
BY DEF CountInv

(* Taking a task puts the worker on the lagging side.                       *)
LEMMA CountTake ==
    ASSUME TypeOK, CountInv, NEW w \in Workers, TakeFront(w) PROVE CountInv'
<1>1. Leading' = Leading /\ m_taskCount' = m_taskCount
  BY DEF TakeFront, Leading, callerVars, counters
<1>2. CASE m_taskQueue = <<>>
  BY <1>1, <1>2, CountSame DEF TakeFront, Lagging
<1>3. CASE m_taskQueue # <<>>
  <2>1. Lagging' = Lagging \cup {w} /\ w \notin Lagging
    BY <1>3 DEF TypeOK, TakeFront, Goto, Lagging
  <2>2. Cardinality(Lagging') = Cardinality(Lagging) + 1
    BY <2>1, FS_AddElement, FiniteSides
  <2>3. Len(m_taskQueue') = Len(m_taskQueue) - 1
    BY <1>3, HeadTailProperties DEF TypeOK, TakeFront
  <2>4. Cardinality(Lagging) \in Nat /\ Len(m_taskQueue) \in Nat
    BY FiniteSides, FS_CardinalityType, LenProperties DEF TypeOK
  <2>5. Cardinality(Leading) \in Nat
    BY FiniteSides, FS_CardinalityType
  <2> QED BY <1>1, <2>2, <2>3, <2>4, <2>5 DEF TypeOK, CountInv
<1> QED BY <1>2, <1>3

(* Lowering the count takes the worker off the lagging side.                *)
LEMMA CountDec ==
    ASSUME TypeOK, MutexInv, CountIInv, NEW w \in Workers, DecTaskCount(w)
    PROVE  CountInv'
<1>1. /\ Leading' = Leading
      /\ m_taskQueue' = m_taskQueue
      /\ m_taskCount' = m_taskCount - 1
  BY DEF DecTaskCount, Leading, callerVars
<1>2. Lagging' = Lagging \ {w} /\ w \in Lagging
  BY DEF TypeOK, DecTaskCount, Goto, Lagging
<1>3. Cardinality(Lagging') = Cardinality(Lagging) - 1
  BY <1>2, FS_RemoveElement, FiniteSides
<1>4. /\ Cardinality(Lagging) \in Nat
      /\ Cardinality(Lagging') \in Nat
      /\ Cardinality(Leading) \in Nat
      /\ Len(m_taskQueue) \in Nat
  <2>1. IsFiniteSet(Lagging')
    BY <1>2, FS_RemoveElement, FiniteSides
  <2> QED BY <2>1, FiniteSides, FS_CardinalityType, LenProperties DEF TypeOK
<1>5. \/ Cardinality(Leading) = 0
      \/ Cardinality(Leading) = 1 /\ Len(m_taskQueue) > 0
  <2>1. CASE Leading = {}
    <3>1. Cardinality(Leading) = 0 BY <2>1, FS_EmptySet
    <3> QED BY <3>1
  <2>2. ASSUME NEW c \in Callers, Leading = {c}
        PROVE  Cardinality(Leading) = 1 /\ Len(m_taskQueue) > 0
    <3>1. m_taskQueue # <<>>
      BY <2>2 DEF CountIInv, PushedInv, Leading
    <3>2. Len(m_taskQueue) > 0
      BY <3>1, <1>4, EmptySeq DEF TypeOK
    <3> QED BY <2>2, <3>2, FS_Singleton
  <2> QED BY <2>1, <2>2, OneLeader
<1> QED BY <1>1, <1>3, <1>4, <1>5 DEF TypeOK, CountIInv, CountInv

(* push() puts the caller on the leading side, and the increment takes it   *)
(* off.                                                                     *)
LEMMA CountAdd ==
    ASSUME TypeOK, CountInv, NEW c \in Callers, AddPush(c) \/ AddCount(c),
           arg[c] \in Tasks \/ AddCount(c)
    PROVE  CountInv'
<1>1. Lagging' = Lagging
  BY DEF AddPush, AddCount, Lagging, workerVars
<1>2. /\ Cardinality(Lagging) \in Nat
      /\ Cardinality(Leading) \in Nat
      /\ Len(m_taskQueue) \in Nat
  BY FiniteSides, FS_CardinalityType, LenProperties DEF TypeOK
<1>3. CASE AddPush(c) /\ arg[c] \in Tasks
  <2>1. Leading' = Leading \cup {c} /\ c \notin Leading
    BY <1>3 DEF TypeOK, AddPush, CallerGoto, Leading
  <2>2. Cardinality(Leading') = Cardinality(Leading) + 1
    BY <2>1, FS_AddElement, FiniteSides
  <2>3. Len(m_taskQueue') = Len(m_taskQueue) + 1
    BY <1>3, AppendProperties DEF TypeOK, AddPush
  <2>4. m_taskCount' = m_taskCount
    BY <1>3 DEF AddPush, counters
  <2> QED BY <1>1, <1>2, <2>2, <2>3, <2>4 DEF TypeOK, CountInv
<1>4. CASE AddCount(c)
  <2>1. Leading' = Leading \ {c} /\ c \in Leading
    BY <1>4 DEF TypeOK, AddCount, CallerGoto, Leading
  <2>2. Cardinality(Leading') = Cardinality(Leading) - 1
    BY <2>1, FS_RemoveElement, FiniteSides
  <2>3. m_taskQueue' = m_taskQueue /\ m_taskCount' = m_taskCount + 1
    BY <1>4 DEF AddCount
  <2> QED BY <1>1, <1>2, <2>2, <2>3 DEF TypeOK, CountInv
<1> QED BY <1>3, <1>4

(* Every step keeps the relation: most touch neither the queue, the count   *)
(* nor a side.                                                              *)
LEMMA NextCount ==
    ASSUME TypeInv, MutexInv, CountIInv, [Next]_vars PROVE CountIInv'
<1> USE DEF TypeInv, TypeOK, CountIInv, Lagging, Leading, counters, workerVars,
            callerVars
<1>1. CountInv'
  <2>1. ASSUME OwnerStep PROVE CountInv'
    <3>1. CASE StopNotifyAll
      BY <3>1, CountSame DEF StopNotifyAll
    <3>2. ASSUME NEW w \in Workers, StartCreate(w) PROVE CountInv'
      BY <3>2, CountSame DEF StartCreate
    <3>3. CASE StartLock \/ StartCheck \/ StartUnlock \/ StartAgain \/ StopFlag
                 \/ StopJoined
      BY <3>3, CountSame DEF StartLock, StartCheck, StartUnlock, StartAgain,
                             StopFlag, StopJoined
    <3> QED BY <2>1, <3>1, <3>2, <3>3 DEF OwnerStep
  <2>2. ASSUME NEW w \in Workers, RunStep(w) PROVE CountInv'
    <3>1. CASE TakeFront(w) BY <3>1, CountTake
    <3>2. CASE DecTaskCount(w) BY <3>2, CountDec
    <3>3. CASE WorkerLock(w) \/ TestStopping(w) \/ TestTaskCount(w) \/ Wait(w)
      BY <3>3, CountSame DEF WorkerLock, TestStopping, TestTaskCount, Wait, Goto
    <3>4. CASE ExitIfStopping(w) \/ WorkerUnlock(w)
      BY <3>4, CountSame DEF ExitIfStopping, WorkerUnlock, Goto
    <3>5. CASE DecIdle(w) \/ RunCallback(w) \/ IncIdle(w)
      BY <3>5, CountSame DEF DecIdle, RunCallback, IncIdle, Goto
    <3> QED BY <2>2, <3>1, <3>2, <3>3, <3>4, <3>5 DEF RunStep
  <2>3. ASSUME NEW w \in Workers, SpuriousWakeup(w) PROVE CountInv'
    BY <2>3, CountSame DEF SpuriousWakeup, Goto
  <2>4. ASSUME NEW c \in Callers, AddStep(c) PROVE CountInv'
    <3>1. ASSUME NEW t \in Tasks, AddLock(c, t) PROVE CountInv'
      BY <3>1, CountSame DEF AddLock, CallerGoto
    <3>2. CASE AddPush(c)
      <4>1. arg[c] \in Tasks BY <3>2 DEF AddPush, CallerGoto, HandsInv
      <4> QED BY <3>2, <4>1, CountAdd
    <3>3. CASE AddCount(c) BY <3>3, CountAdd
    <3>4. CASE AddNotify(c)
      BY <3>4, CountSame DEF AddNotify, Goto, CallerGoto
    <3>5. CASE AddUnlock(c) BY <3>5, CountSame DEF AddUnlock, CallerGoto
    <3> QED BY <2>4, <3>1, <3>2, <3>3, <3>4, <3>5 DEF AddStep
  <2>5. CASE UNCHANGED vars BY <2>5, CountSame DEF vars
  <2> QED BY <2>1, <2>2, <2>3, <2>4, <2>5 DEF Next
<1>2. PushedInv'
  <2> USE DEF PushedInv
  <2>1. ASSUME NEW w \in Workers, TakeFront(w) PROVE PushedInv'
    <3>1. CASE m_taskQueue = <<>> BY <2>1, <3>1 DEF TakeFront
    <3>2. CASE m_taskQueue # <<>>
      <4>1. holder = w
        BY <2>1, <3>2 DEF TakeFront, Goto, MutexInv, WorkerLocked
      <4>2. \A c \in Callers : cpc[c] # "inc"
        BY <4>1, PoolAssumption DEF MutexInv, CallerLocked, CallerPC
      <4> QED BY <2>1, <4>2 DEF TakeFront
    <3> QED BY <3>1, <3>2
  <2>2. ASSUME NEW c \in Callers, AddPush(c) PROVE PushedInv'
    <3>1. arg[c] \in Tasks BY <2>2 DEF AddPush, CallerGoto, HandsInv
    <3>2. m_taskQueue' # <<>> BY <2>2, <3>1, AppendProperties DEF AddPush
    <3> QED BY <3>2
  <2>3. ASSUME NEW c \in Callers, NEW t \in Tasks, AddLock(c, t)
        PROVE  PushedInv'
    BY <2>3 DEF AddLock, CallerGoto
  <2>4. ASSUME NEW c \in Callers, AddCount(c) \/ AddNotify(c) \/ AddUnlock(c)
        PROVE  PushedInv'
    BY <2>4 DEF AddCount, AddNotify, AddUnlock, CallerGoto
  <2>5. ASSUME OwnerStep PROVE PushedInv'
    BY <2>5 DEF OwnerStep, StartLock, StartCheck, StartCreate, StartUnlock,
                StartAgain, StopFlag, StopNotifyAll, StopJoined
  <2>6. ASSUME NEW w \in Workers, RunStep(w), ~TakeFront(w) PROVE PushedInv'
    BY <2>6 DEF RunStep, WorkerLock, TestStopping, TestTaskCount, Wait,
                ExitIfStopping, WorkerUnlock, DecTaskCount, DecIdle,
                RunCallback, IncIdle
  <2>7. ASSUME NEW w \in Workers, SpuriousWakeup(w) PROVE PushedInv'
    BY <2>7 DEF SpuriousWakeup
  <2>8. CASE UNCHANGED vars BY <2>8 DEF vars
  <2> QED BY <2>1, <2>2, <2>3, <2>4, <2>5, <2>6, <2>7, <2>8 DEF Next, AddStep
<1> QED BY <1>1, <1>2

SafeInv == TypeInv /\ MutexInv /\ CountIInv

(* m_taskCount is off by the lagging workers and the leading caller, in     *)
(* every state of every pool.                                               *)
THEOREM TaskCountCorrect == Spec => [](SafeInv /\ CountInv)
<1>1. TypeInv => TypeOK BY DEF TypeInv
<1>2. Init => SafeInv BY InitType, InitMutex, InitCount DEF SafeInv
<1>3. SafeInv /\ [Next]_vars => SafeInv'
  BY <1>1, NextType, NextMutex, NextCount DEF SafeInv
<1>4. SafeInv => CountInv BY DEF SafeInv, CountIInv
<1> QED BY <1>2, <1>3, <1>4, PTL DEF Spec

------------------------------------------------------------------------------
(***************************************************************************)
(* Sleeping.  The count that a worker reads before it decides to sleep is   *)
(* exact, because the worker holds the mutex and no caller is then between  *)
(* push() and the increment.                                                *)
(***************************************************************************)
LEMMA ZeroCountEmptyQueue ==
    ASSUME SafeInv, NEW w \in Workers, wpc[w] \in WorkerLocked, m_taskCount = 0
    PROVE  m_taskQueue = <<>>
<1> USE DEF SafeInv, TypeInv, CountIInv
<1>1. Leading = {}
  BY PoolAssumption DEF MutexInv, Leading, CallerLocked, CallerPC, WorkerLocked
<1>2. Cardinality(Leading) = 0
  BY <1>1, FS_EmptySet
<1>3. Cardinality(Lagging) \in Nat /\ Len(m_taskQueue) \in Nat
  BY FiniteSides, FS_CardinalityType, LenProperties DEF TypeOK
<1>4. Len(m_taskQueue) = 0
  BY <1>2, <1>3 DEF CountInv
<1> QED BY <1>4, EmptySeq DEF TypeOK

LEMMA InitSleep == ASSUME Init PROVE SleepInv
BY DEF Init, SleepInv

LEMMA NextSleep == ASSUME SafeInv, SleepInv, [Next]_vars PROVE SleepInv'
<1> USE DEF SleepInv, SafeInv, TypeInv, TypeOK, counters, workerVars, callerVars
<1>1. ASSUME NEW w \in Workers, TestTaskCount(w) PROVE SleepInv'
  <2>1. CASE m_taskCount > 0
    BY <1>1, <2>1 DEF TestTaskCount, Goto
  <2>2. CASE ~(m_taskCount > 0)
    <3>1. m_taskCount = 0
      BY <2>2 DEF CountIInv, CountInv
    <3>2. wpc[w] \in WorkerLocked
      BY <1>1 DEF TestTaskCount, Goto, WorkerLocked
    <3>3. m_taskQueue = <<>>
      BY <3>1, <3>2, ZeroCountEmptyQueue
    <3> QED BY <1>1, <3>3 DEF TestTaskCount
  <2> QED BY <2>1, <2>2
<1>2. ASSUME NEW w \in Workers, TakeFront(w) PROVE SleepInv'
  BY <1>2 DEF TakeFront, Goto, MutexInv, WorkerLocked
<1>3. ASSUME NEW w \in Workers, RunStep(w), ~TestTaskCount(w), ~TakeFront(w)
      PROVE  SleepInv'
  BY <1>3 DEF RunStep, WorkerLock, TestStopping, Wait, ExitIfStopping,
              WorkerUnlock, DecTaskCount, DecIdle, RunCallback, IncIdle, Goto
<1>4. ASSUME NEW w \in Workers, SpuriousWakeup(w) PROVE SleepInv'
  BY <1>4 DEF SpuriousWakeup, Goto
<1>5. ASSUME NEW c \in Callers, AddPush(c) PROVE SleepInv'
  <2>1. holder = c
    BY <1>5 DEF AddPush, CallerGoto, MutexInv, CallerLocked, CallerPC
  <2>2. \A w \in Workers : wpc[w] # "wait"
    BY <2>1, PoolAssumption DEF MutexInv, WorkerLocked
  <2> QED BY <1>5, <2>2 DEF AddPush
<1>6. ASSUME NEW c \in Callers, NEW t \in Tasks, AddLock(c, t) PROVE SleepInv'
  BY <1>6 DEF AddLock
<1>7. ASSUME NEW c \in Callers, AddCount(c) \/ AddNotify(c) \/ AddUnlock(c)
      PROVE  SleepInv'
  BY <1>7 DEF AddCount, AddNotify, AddUnlock, Goto
<1>8. ASSUME OwnerStep PROVE SleepInv'
  BY <1>8 DEF OwnerStep, StartLock, StartCheck, StartCreate, StartUnlock,
              StartAgain, StopFlag, StopNotifyAll, StopJoined
<1>9. CASE UNCHANGED vars BY <1>9 DEF vars
<1> QED BY <1>1, <1>2, <1>3, <1>4, <1>5, <1>6, <1>7, <1>8, <1>9
        DEF Next, AddStep

(***************************************************************************)
(* Nobody adds a task before every worker has been created, and no worker   *)
(* exits before the flag is up.                                             *)
(***************************************************************************)
LifeInv ==
    /\ (m_taskQueue # <<>> \/ \E c \in Callers : cpc[c] # "idle")
          => \A w \in Workers : wpc[w] # "unborn"
    /\ (Running /\ ~m_stopping) => \A w \in Workers : wpc[w] # "exited"

LEMMA InitLife == ASSUME Init PROVE LifeInv
BY DEF Init, LifeInv

LEMMA NextLife == ASSUME TypeOK, LifeInv, [Next]_vars PROVE LifeInv'
<1> USE DEF LifeInv, TypeOK, counters, workerVars, callerVars
<1>1. ASSUME OwnerStep PROVE LifeInv'
  <2>1. CASE StartCheck BY <1>1, <2>1 DEF StartCheck
  <2>2. ASSUME NEW w \in Workers, StartCreate(w) PROVE LifeInv'
    BY <2>2 DEF StartCreate
  <2>3. CASE StopNotifyAll BY <2>3 DEF StopNotifyAll
  <2>4. CASE StartLock \/ StartUnlock \/ StartAgain \/ StopFlag \/ StopJoined
    BY <2>4 DEF StartLock, StartUnlock, StartAgain, StopFlag, StopJoined
  <2> QED BY <1>1, <2>1, <2>2, <2>3, <2>4 DEF OwnerStep
<1>2. ASSUME NEW w \in Workers, RunStep(w) PROVE LifeInv'
  <2>1. CASE TakeFront(w) BY <2>1 DEF TakeFront, Goto
  <2>2. CASE ExitIfStopping(w) BY <2>2 DEF ExitIfStopping
  <2>3. CASE ~TakeFront(w) /\ ~ExitIfStopping(w)
    BY <1>2, <2>3 DEF RunStep, WorkerLock, TestStopping, TestTaskCount, Wait,
                WorkerUnlock, DecTaskCount, DecIdle, RunCallback, IncIdle, Goto
  <2> QED BY <2>1, <2>2, <2>3
<1>3. ASSUME NEW w \in Workers, SpuriousWakeup(w) PROVE LifeInv'
  BY <1>3 DEF SpuriousWakeup, Goto
<1>4. ASSUME NEW c \in Callers, AddStep(c) PROVE LifeInv'
  BY <1>4 DEF AddStep, AddLock, AddPush, AddCount, AddNotify, AddUnlock,
              CallerGoto, Goto
<1>5. CASE UNCHANGED vars BY <1>5 DEF vars
<1> QED BY <1>1, <1>2, <1>3, <1>4, <1>5 DEF Next

LEMMA InitWakeup == ASSUME Init PROVE NoLostWakeup
BY DEF Init, NoLostWakeup

(* The signal of addTask finds a sleeper, or there is a worker that does not*)
(* sleep; and a worker falls asleep beside an empty queue only.             *)
LEMMA NextWakeup ==
    ASSUME TypeOK, SleepInv, LifeInv, NoLostWakeup, [Next]_vars
    PROVE  NoLostWakeup'
<1> USE DEF NoLostWakeup, TypeOK, counters, workerVars, callerVars
<1>1. ASSUME OwnerStep PROVE NoLostWakeup'
  <2>1. CASE StartCheck BY <2>1, PoolAssumption DEF StartCheck, LifeInv
  <2>2. ASSUME NEW w \in Workers, StartCreate(w) PROVE NoLostWakeup'
    BY <2>2 DEF StartCreate, LifeInv
  <2>3. CASE StopNotifyAll BY <2>3 DEF StopNotifyAll
  <2>4. CASE StartLock \/ StartUnlock \/ StartAgain \/ StopFlag \/ StopJoined
    BY <2>4 DEF StartLock, StartUnlock, StartAgain, StopFlag, StopJoined
  <2> QED BY <1>1, <2>1, <2>2, <2>3, <2>4 DEF OwnerStep
<1>2. ASSUME NEW w \in Workers, RunStep(w) PROVE NoLostWakeup'
  <2>1. CASE Wait(w) BY <2>1 DEF Wait, Goto, SleepInv
  <2>2. CASE ExitIfStopping(w) BY <2>2 DEF ExitIfStopping
  <2>3. CASE TakeFront(w) BY <2>3 DEF TakeFront, Goto
  <2>4. CASE ~Wait(w) /\ ~ExitIfStopping(w) /\ ~TakeFront(w)
    BY <1>2, <2>4 DEF RunStep, WorkerLock, TestStopping, TestTaskCount,
                WorkerUnlock, DecTaskCount, DecIdle, RunCallback, IncIdle, Goto
  <2> QED BY <2>1, <2>2, <2>3, <2>4
<1>3. ASSUME NEW w \in Workers, SpuriousWakeup(w) PROVE NoLostWakeup'
  BY <1>3 DEF SpuriousWakeup, Goto
<1>4. ASSUME NEW c \in Callers, NEW t \in Tasks, AddLock(c, t)
      PROVE  NoLostWakeup'
  BY <1>4 DEF AddLock, CallerGoto
<1>5. ASSUME NEW c \in Callers, AddPush(c) \/ AddCount(c) PROVE NoLostWakeup'
  BY <1>5 DEF AddPush, AddCount, CallerGoto
<1>6. ASSUME NEW c \in Callers, AddNotify(c) PROVE NoLostWakeup'
  BY <1>6, PoolAssumption DEF AddNotify, CallerGoto, Goto, LifeInv
<1>7. ASSUME NEW c \in Callers, AddUnlock(c) PROVE NoLostWakeup'
  BY <1>7 DEF AddUnlock, CallerGoto
<1>8. CASE UNCHANGED vars BY <1>8 DEF vars
<1> QED BY <1>1, <1>2, <1>3, <1>4, <1>5, <1>6, <1>7, <1>8 DEF Next, AddStep

(* A queued task always has a worker awake to take it.                      *)
THEOREM WakeupsSuffice == Spec => []NoLostWakeup
<1> DEFINE Inv == SafeInv /\ SleepInv /\ LifeInv /\ NoLostWakeup
<1>1. Init => Inv
  BY InitType, InitMutex, InitCount, InitSleep, InitLife, InitWakeup DEF SafeInv
<1>2. Inv /\ [Next]_vars => Inv'
  <2> SUFFICES ASSUME Inv, [Next]_vars PROVE Inv'
    OBVIOUS
  <2>1. TypeOK BY DEF SafeInv, TypeInv
  <2>2. SafeInv'
    BY <2>1, NextType, NextMutex, NextCount DEF SafeInv
  <2> QED BY <2>1, <2>2, NextSleep, NextLife, NextWakeup
<1> QED BY <1>1, <1>2, PTL DEF Spec

------------------------------------------------------------------------------
(***************************************************************************)
(* A pool of one thread, the default of the constructor.  The only worker   *)
(* cannot be lagging when it reads the count, so a positive count means a   *)
(* task in the queue, and nobody else can take it before front().           *)
(***************************************************************************)
SoloInv ==
    /\ \A w \in Workers :
          wpc[w] = "front" \/ (wpc[w] = "stop2" /\ ~m_stopping)
            => m_taskQueue # <<>>
    /\ status # "undefined"

LEMMA PositiveCountFullQueue ==
    ASSUME SafeInv, NEW w, Workers = {w}, wpc[w] = "count", m_taskCount > 0
    PROVE  m_taskQueue # <<>>
<1> USE DEF SafeInv, TypeInv, CountIInv
<1>1. Lagging = {}
  BY DEF Lagging
<1>2. Cardinality(Lagging) = 0
  BY <1>1, FS_EmptySet
<1>3. Cardinality(Leading) \in Nat /\ Len(m_taskQueue) \in Nat
  BY FiniteSides, FS_CardinalityType, LenProperties DEF TypeOK
<1>4. Len(m_taskQueue) > 0
  BY <1>2, <1>3 DEF CountInv, TypeOK
<1> QED BY <1>4, EmptySeq

LEMMA NextSolo ==
    ASSUME SafeInv, SoloInv, NEW v, Workers = {v}, [Next]_vars PROVE SoloInv'
<1> USE DEF SoloInv, SafeInv, TypeInv, TypeOK, counters, workerVars, callerVars
<1>1. ASSUME NEW w \in Workers, TestTaskCount(w) PROVE SoloInv'
  BY <1>1, PositiveCountFullQueue DEF TestTaskCount, Goto
<1>2. ASSUME NEW w \in Workers, TakeFront(w) PROVE SoloInv'
  <2>1. m_taskQueue # <<>> BY <1>2 DEF TakeFront, Goto
  <2> QED BY <1>2, <2>1 DEF TakeFront, Goto
<1>3. ASSUME NEW w \in Workers, ExitIfStopping(w) PROVE SoloInv'
  BY <1>3 DEF ExitIfStopping
<1>4. ASSUME NEW w \in Workers, RunStep(w), ~TestTaskCount(w), ~TakeFront(w),
             ~ExitIfStopping(w)
      PROVE  SoloInv'
  BY <1>4 DEF RunStep, WorkerLock, TestStopping, Wait, WorkerUnlock,
              DecTaskCount, DecIdle, RunCallback, IncIdle, Goto
<1>5. ASSUME NEW w \in Workers, SpuriousWakeup(w) PROVE SoloInv'
  BY <1>5 DEF SpuriousWakeup, Goto
<1>6. ASSUME NEW c \in Callers, AddPush(c) PROVE SoloInv'
  <2>1. arg[c] \in Tasks BY <1>6 DEF AddPush, CallerGoto, HandsInv
  <2>2. m_taskQueue' # <<>> BY <1>6, <2>1, AppendProperties DEF AddPush
  <2> QED BY <1>6, <2>2 DEF AddPush
<1>7. ASSUME NEW c \in Callers, NEW t \in Tasks, AddLock(c, t) PROVE SoloInv'
  BY <1>7 DEF AddLock
<1>8. ASSUME NEW c \in Callers, AddCount(c) \/ AddNotify(c) \/ AddUnlock(c)
      PROVE  SoloInv'
  BY <1>8 DEF AddCount, AddNotify, AddUnlock, Goto
<1>9. ASSUME StartCheck PROVE SoloInv'
  <2>1. \A w \in Workers : wpc[w] # "stop2"
    BY <1>9, PoolAssumption DEF StartCheck, MutexInv, WorkerLocked, OwnerLocked
  <2> QED BY <1>9, <2>1 DEF StartCheck
<1>10. ASSUME OwnerStep, ~StartCheck PROVE SoloInv'
  BY <1>10 DEF OwnerStep, StartLock, StartCreate, StartUnlock, StartAgain,
               StopFlag, StopNotifyAll, StopJoined
<1>11. CASE UNCHANGED vars BY <1>11 DEF vars
<1> QED BY <1>1, <1>2, <1>3, <1>4, <1>5, <1>6, <1>7, <1>8, <1>9, <1>10, <1>11
        DEF Next, AddStep

(* A pool of one thread never takes from an empty queue.                    *)
THEOREM SoloPoolSafe ==
    ASSUME Cardinality(Workers) = 1 PROVE Spec => []FrontHasTask
<1> DEFINE Inv == SafeInv /\ SoloInv
<1>1. PICK v : Workers = {v}
  BY PoolAssumption, FS_Singleton
<1>2. Init => Inv
  BY InitType, InitMutex, InitCount DEF SafeInv, SoloInv, Init
<1>3. Inv /\ [Next]_vars => Inv'
  <2> SUFFICES ASSUME Inv, [Next]_vars PROVE Inv'
    OBVIOUS
  <2>1. TypeOK BY DEF SafeInv, TypeInv
  <2>2. SafeInv'
    BY <2>1, NextType, NextMutex, NextCount DEF SafeInv
  <2> QED BY <1>1, <2>2, NextSolo
<1>4. Inv => FrontHasTask BY DEF SoloInv, FrontHasTask
<1> QED BY <1>2, <1>3, <1>4, PTL DEF Spec

------------------------------------------------------------------------------
(***************************************************************************)
(* The pool implements TaskQueue, as far as safety goes.  A task that a     *)
(* caller has in hand is still unsent for the queue, and leaves that set    *)
(* once, because no other caller and not the pool of new tasks has it.      *)
(***************************************************************************)
StartInv ==
    /\ \A c \in Callers : arg[c] \notin unsent
    /\ opc = "create" => ~m_stopping

LEMMA InitStart == ASSUME Init PROVE StartInv
BY PoolAssumption DEF Init, StartInv

LEMMA NextStart == ASSUME TypeInv, StartInv, [Next]_vars PROVE StartInv'
<1> USE PoolAssumption
    DEF StartInv, TypeInv, TypeOK, counters, workerVars, callerVars
<1>1. ASSUME OwnerStep PROVE StartInv'
  BY <1>1 DEF OwnerStep, StartLock, StartCheck, StartCreate, StartUnlock,
              StartAgain, StopFlag, StopNotifyAll, StopJoined
<1>2. ASSUME NEW w \in Workers, RunStep(w) \/ SpuriousWakeup(w) PROVE StartInv'
  BY <1>2 DEF RunStep, WorkerLock, TestStopping, TestTaskCount, Wait,
              ExitIfStopping, TakeFront, WorkerUnlock, DecTaskCount, DecIdle,
              RunCallback, IncIdle, SpuriousWakeup
<1>3. ASSUME NEW c \in Callers, AddStep(c) PROVE StartInv'
  BY <1>3 DEF AddStep, AddLock, AddPush, AddCount, AddNotify, AddUnlock
<1>4. CASE UNCHANGED vars BY <1>4 DEF vars
<1> QED BY <1>1, <1>2, <1>3, <1>4 DEF Next

LEMMA InitRefines == ASSUME Init PROVE TQ!Init
BY PoolAssumption DEF Init, TQ!Init, InHand, Stopped

LEMMA NextRefines ==
    ASSUME TypeInv, MutexInv, StartInv, [Next]_vars PROVE [TQ!Next]_(TQ!vars)
<1> USE PoolAssumption
    DEF TypeInv, TypeOK, counters, workerVars, callerVars, TQ!vars
<1>1. ASSUME NEW c \in Callers, NEW t \in Tasks, AddLock(c, t)
      PROVE  UNCHANGED TQ!vars
  <2>1. arg[c] = NoTask /\ t # NoTask
    BY <1>1 DEF AddLock, CallerGoto, HandsInv
  <2>2. InHand' = InHand \cup {t}
    BY <1>1, <2>1 DEF AddLock, InHand
  <2>3. unsent' \cup InHand' = unsent \cup InHand
    BY <1>1, <2>2 DEF AddLock
  <2> QED BY <1>1, <2>3 DEF AddLock, Stopped
<1>2. ASSUME NEW c \in Callers, AddPush(c) PROVE TQ!Submit(arg[c]) /\ arg[c] \in Tasks
  <2>1. arg[c] # NoTask /\ arg[c] \in Tasks
    BY <1>2 DEF AddPush, CallerGoto, HandsInv
  <2>2. \A d \in Callers : d # c => arg[d] = NoTask
    BY <1>2 DEF AddPush, CallerGoto, HandsInv, MutexInv, CallerLocked, CallerPC
  <2>3. InHand = {arg[c]} /\ InHand' = {}
    BY <1>2, <2>1, <2>2 DEF AddPush, InHand
  <2>4. unsent' \cup InHand' = (unsent \cup InHand) \ {arg[c]}
    BY <1>2, <2>3 DEF AddPush, StartInv
  <2> QED BY <1>2, <2>1, <2>3, <2>4 DEF AddPush, TQ!Submit, Stopped
<1>3. ASSUME NEW c \in Callers, AddCount(c) \/ AddNotify(c) \/ AddUnlock(c)
      PROVE  UNCHANGED TQ!vars
  <2>1. Stopped' = Stopped
    BY <1>3 DEF AddCount, AddNotify, AddUnlock, Goto, Stopped
  <2> QED BY <1>3, <2>1 DEF AddCount, AddNotify, AddUnlock, InHand
<1>4. ASSUME NEW w \in Workers, TakeFront(w)
      PROVE  TQ!Take(w) \/ TQ!Close \/ UNCHANGED TQ!vars
  <2>1. InHand' = InHand BY <1>4 DEF TakeFront, InHand
  <2>2. CASE m_taskQueue = <<>>
    BY <1>4, <2>1, <2>2 DEF TakeFront, Stopped, TQ!Close
  <2>3. CASE m_taskQueue # <<>>
    <3>1. Stopped' = Stopped /\ task[w] = NoTask
      BY <1>4, <2>3 DEF TakeFront, Goto, HandsInv, Stopped
    <3> QED BY <1>4, <2>1, <2>3, <3>1 DEF TakeFront, TQ!Take
  <2> QED BY <2>2, <2>3
<1>5. ASSUME NEW w \in Workers, RunCallback(w)
      PROVE  TQ!Finish(w) \/ TQ!Close \/ UNCHANGED TQ!vars
  <2>1. InHand' = InHand BY <1>5 DEF RunCallback, InHand
  <2>2. Stopped' = Stopped BY <1>5 DEF RunCallback, Goto, Stopped
  <2>3. task[w] # NoTask BY <1>5 DEF RunCallback, Goto, HandsInv
  <2> QED BY <1>5, <2>1, <2>2, <2>3 DEF RunCallback, TQ!Finish, TQ!Close
<1>6. ASSUME NEW w \in Workers, RunStep(w) \/ SpuriousWakeup(w), ~TakeFront(w),
             ~RunCallback(w)
      PROVE  UNCHANGED TQ!vars
  <2>1. Stopped' = Stopped
    BY <1>6 DEF RunStep, WorkerLock, TestStopping, TestTaskCount, Wait,
                ExitIfStopping, WorkerUnlock, DecTaskCount, DecIdle, IncIdle,
                SpuriousWakeup, Goto, Stopped
  <2> QED
    BY <1>6, <2>1
       DEF RunStep, WorkerLock, TestStopping, TestTaskCount, Wait,
           ExitIfStopping, WorkerUnlock, DecTaskCount, DecIdle, IncIdle,
           SpuriousWakeup, InHand
<1>7. ASSUME OwnerStep PROVE TQ!Close \/ UNCHANGED TQ!vars
  <2>1. CASE StopFlag BY <2>1 DEF StopFlag, InHand, Stopped, TQ!Close
  <2>2. CASE StartCheck BY <2>2 DEF StartCheck, InHand, Stopped
  <2>3. ASSUME NEW w \in Workers, StartCreate(w) PROVE UNCHANGED TQ!vars
    <3>1. Stopped' = Stopped BY <2>3 DEF StartCreate, StartInv, Stopped
    <3> QED BY <2>3, <3>1 DEF StartCreate, InHand
  <2>4. CASE StopNotifyAll
    <3>1. Stopped' = Stopped BY <2>4 DEF StopNotifyAll, Stopped
    <3> QED BY <2>4, <3>1 DEF StopNotifyAll, InHand
  <2>5. CASE StartLock \/ StartUnlock \/ StartAgain \/ StopJoined
    BY <2>5 DEF StartLock, StartUnlock, StartAgain, StopJoined, InHand, Stopped
  <2> QED BY <1>7, <2>1, <2>2, <2>3, <2>4, <2>5 DEF OwnerStep
<1>8. CASE UNCHANGED vars BY <1>8 DEF vars, InHand, Stopped
<1> QED BY <1>1, <1>2, <1>3, <1>4, <1>5, <1>6, <1>7, <1>8
        DEF Next, AddStep, TQ!Next

(* Every step of the threads is a step of the task queue or leaves it alone:*)
(* tasks are taken in the order of addTask, each once and by one worker.    *)
THEOREM PoolRefinesTaskQueue == Spec => TQ!Init /\ [][TQ!Next]_(TQ!vars)
<1> DEFINE Inv == TypeInv /\ MutexInv /\ StartInv
<1>1. Init => Inv /\ TQ!Init
  BY InitType, InitMutex, InitStart, InitRefines
<1>2. Inv /\ [Next]_vars => Inv'
  <2>1. TypeInv => TypeOK BY DEF TypeInv
  <2> QED BY <2>1, NextType, NextMutex, NextStart
<1>3. Inv /\ [Next]_vars => [TQ!Next]_(TQ!vars)
  BY NextRefines
<1> QED BY <1>1, <1>2, <1>3, PTL DEF Spec

------------------------------------------------------------------------------
(***************************************************************************)
(* No task is lost or handed out twice.  The four steps that move a task    *)
(* from one place to the next each get a lemma.                             *)
(***************************************************************************)
LEMMA InitPlace == ASSUME Init PROVE OnePlace
BY PoolAssumption DEF Init, OnePlace, InHand, Queued, InRun

(* Steps that touch no place.                                               *)
LEMMA PlaceSame ==
    ASSUME OnePlace, UNCHANGED <<unsent, arg, m_taskQueue, task, done>>
    PROVE  OnePlace'
<1>1. InHand' = InHand /\ Queued' = Queued /\ InRun' = InRun
  BY DEF InHand, Queued, InRun
<1> QED BY <1>1 DEF OnePlace

(* A new task goes into the caller's hands.                                 *)
LEMMA PlaceLock ==
    ASSUME TypeInv, OnePlace, NEW c \in Callers, NEW t \in Tasks, AddLock(c, t)
    PROVE  OnePlace'
<1> USE PoolAssumption DEF TypeInv, TypeOK, OnePlace, workerVars
<1>1. arg[c] = NoTask /\ t # NoTask
  BY DEF AddLock, CallerGoto, HandsInv
<1>2. InHand' = InHand \cup {t}
  BY <1>1 DEF AddLock, InHand
<1>3. Queued' = Queued /\ InRun' = InRun /\ unsent' = unsent \ {t} /\ done' = done
  BY DEF AddLock, Queued, InRun
<1>4. t \in unsent /\ \A d \in Callers : arg[d] # t
  BY <1>1 DEF AddLock, InHand
<1>5. m_taskQueue' = m_taskQueue /\ task' = task /\ arg' = [arg EXCEPT ![c] = t]
  BY DEF AddLock
<1>6. \A d, e \in Callers : arg'[d] = arg'[e] /\ d # e => arg'[d] = NoTask
  BY <1>4, <1>5
<1> QED BY <1>2, <1>3, <1>4, <1>5, <1>6

(* push(): out of the caller's hands, to the end of the queue.              *)
LEMMA PlacePush ==
    ASSUME TypeInv, OnePlace, NEW c \in Callers, AddPush(c) PROVE OnePlace'
<1> USE PoolAssumption DEF TypeInv, TypeOK, OnePlace, workerVars
<1> DEFINE t == arg[c]
<1>1. t \in Tasks /\ t # NoTask /\ t \in InHand
  BY DEF AddPush, CallerGoto, HandsInv, InHand
<1>2. InHand' = InHand \ {t}
  BY <1>1 DEF AddPush, InHand
<1>3. /\ Len(m_taskQueue') = Len(m_taskQueue) + 1
      /\ Len(m_taskQueue) \in Nat
      /\ m_taskQueue'[Len(m_taskQueue) + 1] = t
      /\ \A i \in 1..Len(m_taskQueue) : m_taskQueue'[i] = m_taskQueue[i]
  BY <1>1, AppendProperties, LenProperties DEF AddPush
<1>4. Queued' = Queued \cup {t}
  BY <1>3 DEF Queued
<1>5. InRun' = InRun /\ unsent' = unsent /\ done' = done /\ task' = task
  BY DEF AddPush, InRun
<1>6. \A i, j \in 1..Len(m_taskQueue') : m_taskQueue'[i] = m_taskQueue'[j] => i = j
  <2>1. \A i \in 1..Len(m_taskQueue) : m_taskQueue[i] # t
    BY <1>1 DEF Queued
  <2> QED BY <1>3, <2>1
<1>7. \A d, e \in Callers : arg'[d] = arg'[e] /\ d # e => arg'[d] = NoTask
  BY DEF AddPush
<1> QED BY <1>1, <1>2, <1>4, <1>5, <1>6, <1>7

(* front() and pop(): from the queue into the worker's hands.               *)
LEMMA PlaceTake ==
    ASSUME TypeInv, OnePlace, NEW w \in Workers, TakeFront(w) PROVE OnePlace'
<1> USE PoolAssumption DEF TypeInv, TypeOK, OnePlace, callerVars
<1>1. CASE m_taskQueue = <<>>
  BY <1>1, PlaceSame DEF TakeFront
<1>2. CASE m_taskQueue # <<>>
  <2> DEFINE t == Head(m_taskQueue)
             q == m_taskQueue'
  <2>1. /\ Len(m_taskQueue) \in Nat \ {0}
        /\ t \in Tasks
        /\ t = m_taskQueue[1]
        /\ Len(q) = Len(m_taskQueue) - 1
        /\ \A i \in 1..Len(q) : q[i] = m_taskQueue[i + 1]
    <3>1. q = Tail(m_taskQueue)
      BY <1>2 DEF TakeFront
    <3>2. Len(m_taskQueue) \in Nat /\ Len(m_taskQueue) # 0
      BY <1>2, LenProperties, EmptySeq
    <3>3. t \in Tasks /\ Len(q) = Len(m_taskQueue) - 1
      BY <1>2, <3>1, HeadTailProperties
    <3>5. t = m_taskQueue[1]
      BY <1>2
    <3>4. \A i \in 1..Len(q) : q[i] = m_taskQueue[i + 1]
      BY <1>2, <3>1, HeadTailProperties
    <3> QED BY <3>2, <3>3, <3>4, <3>5
  <2>2. \A i, j \in 1..Len(q) : q[i] = q[j] => i = j
    BY <2>1
  <2>3. Queued' = Queued \ {t} /\ t \in Queued
    <3>1. t \in Queued BY <2>1 DEF Queued
    <3>2. ASSUME NEW u \in Queued' PROVE u \in Queued /\ u # t
      <4>1. PICK i \in 1..Len(q) : u = q[i] BY <3>2 DEF Queued
      <4>2. i + 1 \in 1..Len(m_taskQueue) /\ i + 1 # 1 /\ 1 \in 1..Len(m_taskQueue)
        BY <2>1, <4>1
      <4> QED BY <2>1, <4>1, <4>2 DEF Queued
    <3>3. ASSUME NEW u \in Queued, u # t PROVE u \in Queued'
      <4>1. PICK i \in 1..Len(m_taskQueue) : u = m_taskQueue[i] BY <3>3 DEF Queued
      <4>2. i # 1 BY <2>1, <3>3, <4>1
      <4>3. i - 1 \in 1..Len(q) /\ (i - 1) + 1 = i BY <2>1, <4>1, <4>2
      <4>4. q[i - 1] = u BY <2>1, <4>1, <4>3
      <4> QED BY <4>3, <4>4 DEF Queued
    <3> QED BY <3>1, <3>2, <3>3
  <2>4. task[w] = NoTask /\ t # NoTask /\ task' = [task EXCEPT ![w] = t]
    BY <1>2, <2>1 DEF TakeFront, Goto, HandsInv
  <2>5. InRun' = InRun \cup {t}
    BY <2>4 DEF InRun
  <2>6. InHand' = InHand /\ unsent' = unsent /\ done' = done /\ arg' = arg
    BY DEF TakeFront, InHand
  <2>7. \A v \in Workers : task[v] # t
    BY <2>3, <2>4 DEF InRun
  <2>8. \A u, v \in Workers : task'[u] = task'[v] /\ u # v => task'[u] = NoTask
    BY <2>4, <2>7
  <2> QED BY <2>1, <2>2, <2>3, <2>5, <2>6, <2>8
<1> QED BY <1>1, <1>2

(* The callback returns: out of the worker's hands, done.                   *)
LEMMA PlaceRun ==
    ASSUME TypeInv, OnePlace, NEW w \in Workers, RunCallback(w) PROVE OnePlace'
<1> USE PoolAssumption DEF TypeInv, TypeOK, OnePlace, callerVars
<1>1. CASE status' = "terminated" /\ UNCHANGED <<wpc, done, task>>
  BY <1>1, PlaceSame DEF RunCallback
<1>2. CASE wpc[w] = "run" /\ done' = done \cup {task[w]}
           /\ task' = [task EXCEPT ![w] = NoTask]
  <2> DEFINE t == task[w]
  <2>1. t \in Tasks /\ t # NoTask /\ t \in InRun
    BY <1>2 DEF HandsInv, InRun
  <2>2. InRun' = InRun \ {t}
    BY <1>2, <2>1 DEF InRun
  <2>3. /\ InHand' = InHand /\ unsent' = unsent /\ Queued' = Queued
        /\ arg' = arg /\ m_taskQueue' = m_taskQueue
    BY DEF RunCallback, InHand, Queued
  <2>4. \A u, v \in Workers : task'[u] = task'[v] /\ u # v => task'[u] = NoTask
    BY <1>2
  <2> QED BY <1>2, <2>1, <2>2, <2>3, <2>4
<1> QED BY <1>1, <1>2 DEF RunCallback, Goto

LEMMA NextPlace == ASSUME TypeInv, OnePlace, [Next]_vars PROVE OnePlace'
<1> USE DEF counters, workerVars, callerVars
<1>1. ASSUME OwnerStep PROVE OnePlace'
  BY <1>1, PlaceSame DEF OwnerStep, StartLock, StartCheck, StartCreate, StartUnlock,
              StartAgain, StopFlag, StopNotifyAll, StopJoined
<1>2. ASSUME NEW w \in Workers, RunStep(w) PROVE OnePlace'
  <2>1. CASE TakeFront(w) BY <2>1, PlaceTake
  <2>2. CASE RunCallback(w) BY <2>2, PlaceRun
  <2>3. CASE ~TakeFront(w) /\ ~RunCallback(w)
    BY <1>2, <2>3, PlaceSame DEF RunStep, WorkerLock, TestStopping, TestTaskCount,
                Wait, ExitIfStopping, WorkerUnlock, DecTaskCount, DecIdle, IncIdle
  <2> QED BY <2>1, <2>2, <2>3
<1>3. ASSUME NEW w \in Workers, SpuriousWakeup(w) PROVE OnePlace'
  BY <1>3, PlaceSame DEF SpuriousWakeup
<1>4. ASSUME NEW c \in Callers, NEW t \in Tasks, AddLock(c, t) PROVE OnePlace'
  BY <1>4, PlaceLock
<1>5. ASSUME NEW c \in Callers, AddPush(c) PROVE OnePlace'
  BY <1>5, PlacePush
<1>6. ASSUME NEW c \in Callers, AddCount(c) \/ AddNotify(c) \/ AddUnlock(c)
      PROVE  OnePlace'
  BY <1>6, PlaceSame DEF AddCount, AddNotify, AddUnlock
<1>7. CASE UNCHANGED vars BY <1>7, PlaceSame DEF vars
<1> QED BY <1>1, <1>2, <1>3, <1>4, <1>5, <1>6, <1>7 DEF Next, AddStep

(* Every task is in one place, whatever the threads do and however the      *)
(* process ends.                                                            *)
THEOREM TasksStayWhole == Spec => []OnePlace
BY InitType, NextType, InitPlace, NextPlace, PTL DEF Spec

------------------------------------------------------------------------------
(***************************************************************************)
(* The two counts of what the workers do: how many are idle, and, when the  *)
(* pool is stopped, that all are gone.                                      *)
(***************************************************************************)
LEMMA InitIdle == ASSUME Init PROVE IdleInv
<1>1. Busy = {} BY DEF Init, Busy
<1>2. Cardinality(Workers) \in Nat BY PoolAssumption, FS_CardinalityType
<1> QED BY <1>1, <1>2, FS_EmptySet DEF Init, IdleInv

(* Only the statements around the callback change the busy workers, each by *)
(* one, and the count with them.                                            *)
LEMMA NextIdle == ASSUME TypeOK, IdleInv, [Next]_vars PROVE IdleInv'
<1> USE DEF TypeOK, counters, workerVars, callerVars
<1>1. IsFiniteSet(Busy)
  BY PoolAssumption, FS_Subset DEF Busy
<1>2. ASSUME Busy' = Busy, m_idleThreadCount' = m_idleThreadCount PROVE IdleInv'
  BY <1>2 DEF IdleInv
<1>3. ASSUME OwnerStep PROVE IdleInv'
  <2>1. Busy' = Busy
    BY <1>3 DEF OwnerStep, StartLock, StartCheck, StartCreate, StartUnlock,
                StartAgain, StopFlag, StopNotifyAll, StopJoined, Busy
  <2> QED BY <1>2, <1>3, <2>1
          DEF OwnerStep, StartLock, StartCheck, StartCreate, StartUnlock,
              StartAgain, StopFlag, StopNotifyAll, StopJoined
<1>4. ASSUME NEW w \in Workers, DecIdle(w) PROVE IdleInv'
  <2>1. Busy' = Busy \cup {w} /\ w \notin Busy
    BY <1>4 DEF DecIdle, Goto, Busy
  <2>2. Cardinality(Busy') = Cardinality(Busy) + 1
    BY <1>1, <2>1, FS_AddElement
  <2>3. Cardinality(Busy) \in Nat /\ Cardinality(Workers) \in Nat
    BY <1>1, PoolAssumption, FS_CardinalityType
  <2> QED BY <1>4, <2>2, <2>3 DEF IdleInv, DecIdle
<1>5. ASSUME NEW w \in Workers, IncIdle(w) PROVE IdleInv'
  <2>1. Busy' = Busy \ {w} /\ w \in Busy
    BY <1>5 DEF IncIdle, Goto, Busy
  <2>2. Cardinality(Busy') = Cardinality(Busy) - 1
    BY <1>1, <2>1, FS_RemoveElement
  <2>3. Cardinality(Busy) \in Nat /\ Cardinality(Workers) \in Nat
    BY <1>1, PoolAssumption, FS_CardinalityType
  <2> QED BY <1>5, <2>2, <2>3 DEF IdleInv, IncIdle
<1>6. ASSUME NEW w \in Workers, RunStep(w) \/ SpuriousWakeup(w), ~DecIdle(w), ~IncIdle(w)
      PROVE  IdleInv'
  <2>1. Busy' = Busy
    BY <1>6 DEF RunStep, WorkerLock, TestStopping, TestTaskCount, Wait,
                ExitIfStopping, TakeFront, WorkerUnlock, DecTaskCount, RunCallback,
                SpuriousWakeup, Goto, Busy
  <2> QED
    BY <1>2, <1>6, <2>1
       DEF RunStep, WorkerLock, TestStopping, TestTaskCount, Wait,
           ExitIfStopping, TakeFront, WorkerUnlock, DecTaskCount, RunCallback,
           SpuriousWakeup
<1>7. ASSUME NEW c \in Callers, AddStep(c) PROVE IdleInv'
  <2>1. Busy' = Busy
    BY <1>7 DEF AddStep, AddLock, AddPush, AddCount, AddNotify, AddUnlock, Goto, Busy
  <2> QED BY <1>2, <1>7, <2>1
          DEF AddStep, AddLock, AddPush, AddCount, AddNotify, AddUnlock
<1>8. CASE UNCHANGED vars BY <1>2, <1>8 DEF vars, Busy
<1> QED BY <1>3, <1>4, <1>5, <1>6, <1>7, <1>8 DEF Next

(* What hasIdleThreads() reads is the number of workers outside a callback. *)
THEOREM IdleCountCorrect == Spec => []IdleInv
<1>1. TypeInv => TypeOK BY DEF TypeInv
<1> QED BY <1>1, InitType, NextType, InitIdle, NextIdle, PTL DEF Spec

\* Both counters are right up to the threads between two updates: run() and
\* addTask() change them without the mutex that protects the queue.
THEOREM CountersCorrect == Spec => []CountersInv
<1>1. SafeInv /\ CountInv /\ IdleInv => CountersInv BY DEF CountersInv
<1> QED BY <1>1, TaskCountCorrect, IdleCountCorrect, PTL

(* The flag is up before the first start and from stop() to the next start; *)
(* in between the owner stands where stop() joins.                          *)
AllExited == \A w \in Workers : wpc[w] = "exited"
RestInv ==
    /\ (m_stopping /\ opc \in {"start", "check"}) =>
          AllExited \/ \A w \in Workers : wpc[w] = "unborn"
    /\ opc = "stopped" => m_stopping /\ AllExited
    /\ opc \in {"notify", "join"} => m_stopping
    /\ opc \in {"create", "unlock", "up"} => ~m_stopping
    /\ status = "asserted" => AllExited

LEMMA NextRest == ASSUME TypeInv, RestInv, [Next]_vars PROVE RestInv'
<1> USE DEF RestInv, AllExited, TypeInv, TypeOK, counters, workerVars, callerVars
<1>1. ASSUME OwnerStep PROVE RestInv'
  <2>1. CASE StartCheck BY <2>1 DEF StartCheck
  <2>2. ASSUME NEW w \in Workers, StartCreate(w) PROVE RestInv' BY <2>2 DEF StartCreate
  <2>3. CASE StopNotifyAll BY <2>3 DEF StopNotifyAll
  <2>4. CASE StartLock \/ StartAgain BY <2>4 DEF StartLock, StartAgain
  <2>5. CASE StartUnlock BY <2>5 DEF StartUnlock
  <2>6. CASE StopFlag BY <2>6 DEF StopFlag
  <2>7. CASE StopJoined BY <2>7 DEF StopJoined
  <2> QED BY <1>1, <2>1, <2>2, <2>3, <2>4, <2>5, <2>6, <2>7 DEF OwnerStep
<1>2. ASSUME NEW w \in Workers, RunStep(w) \/ SpuriousWakeup(w) PROVE RestInv'
  BY <1>2 DEF RunStep, WorkerLock, TestStopping, TestTaskCount, Wait,
              ExitIfStopping, TakeFront, WorkerUnlock, DecTaskCount, DecIdle,
              RunCallback, IncIdle, SpuriousWakeup, Goto
<1>3. ASSUME NEW c \in Callers, AddStep(c) PROVE RestInv'
  BY <1>3 DEF AddStep, AddLock, AddPush, AddCount, AddNotify, AddUnlock, Goto
<1>4. CASE UNCHANGED vars BY <1>4 DEF vars
<1> QED BY <1>1, <1>2, <1>3, <1>4 DEF Next

(* start() aborts only where stop() has seen every worker out.              *)
THEOREM AbortsOnlyAtRest == Spec => []AbortsAtRest
<1>1. Init => RestInv
  BY DEF Init, RestInv
<1>2. TypeInv /\ RestInv => AbortsAtRest
  BY DEF RestInv, AllExited, AbortsAtRest, TypeInv, HandsInv
<1> QED BY <1>1, <1>2, InitType, NextType, NextRest, PTL DEF Spec

(* SleepInv, the fact under WakeupsSuffice, on its own.                     *)
THEOREM SleepersSawNothing == Spec => []SleepInv
<1> DEFINE Inv == SafeInv /\ SleepInv
<1>1. Init => Inv
  BY InitType, InitMutex, InitCount, InitSleep DEF SafeInv
<1>2. Inv /\ [Next]_vars => Inv'
  <2> SUFFICES ASSUME Inv, [Next]_vars PROVE Inv'
    OBVIOUS
  <2>1. TypeOK BY DEF SafeInv, TypeInv
  <2>2. SafeInv'
    BY <2>1, NextType, NextMutex, NextCount DEF SafeInv
  <2> QED BY <2>2, NextSleep
<1> QED BY <1>1, <1>2, PTL DEF Spec
=============================================================================
