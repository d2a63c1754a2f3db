--------------------------- MODULE ElogFileProofs ---------------------------
(***************************************************************************)
(* The semaphore of the log file and the logs that its rotation keeps, for  *)
(* any processes and threads, any number of processes that are killed and   *)
(* any parts.                                                               *)
(***************************************************************************)
EXTENDS ElogFile, FiniteSetTheorems, SequenceTheorems, WellFoundedInduction, TLAPS

(***************************************************************************)
(* Labels.                                                                  *)
(***************************************************************************)
LEMMA LockLabels ==
    /\ DOMAIN Locking = {"lockInit", "lockWrite", "lockClose"}
    /\ Locking["lockInit"] = "open"
    /\ Locking["lockWrite"] = "size"
    /\ Locking["lockClose"] = "close"
BY DEF Locking

LEMMA AllLabels ==
    Labels = {"idle", "post", "poll", "remove", "rename", "reopen", "reopenFailed",
              "fwrite", "lockInit", "lockWrite", "lockClose", "open", "size", "close",
              "unlockInit", "unlockWrite", "unlockClose"}
BY LockLabels DEF Labels, Unlocking

LEMMA GotoType ==
    ASSUME pc \in [Threads -> Labels], NEW t \in Threads, NEW l \in Labels, Goto(t, l)
    PROVE  /\ pc' \in [Threads -> Labels]
           /\ pc'[t] = l
           /\ \A u \in Threads : u # t => pc'[u] = pc[u]
BY DEF Goto

(***************************************************************************)
(* Types.                                                                   *)
(***************************************************************************)
LEMMA BeforeType == ASSUME NEW p, NEW i \in Nat PROVE Before(p, i) \in Nat
<1>0. {j \in 1..i : Earlier[j] = p} \in SUBSET (1..i) OBVIOUS
<1>1. IsFiniteSet({j \in 1..i : Earlier[j] = p})
  <2>1. IsFiniteSet(1..i) BY FS_Interval
  <2> QED BY <1>0, <2>1, FS_Subset
<1>2. Cardinality({j \in 1..i : Earlier[j] = p}) \in Nat
  BY <1>1, FS_CardinalityType
<1> QED BY <1>2, FileAssumption DEF Before

LEMMA InitType == ASSUME Init PROVE TypeOK
<1>1. Earlier \in Seq(Processes) /\ Len(Earlier) \in Nat /\ DOMAIN Earlier = 1..Len(Earlier)
  BY FileAssumption, LenProperties
<1>2. data \in Seq(Seq(Processes \X Nat)) /\ Len(data) = Len(Earlier)
  <2> DEFINE log(i, j) == <<Earlier[i], Before(Earlier[i], i - 1) + j>>
             file(i) == [j \in 1..(MAX_SIZE + 1) |-> log(i, j)]
  <2>1. ASSUME NEW i \in 1..Len(Earlier), NEW j \in 1..(MAX_SIZE + 1)
        PROVE  log(i, j) \in Processes \X Nat
    <3>1. Earlier[i] \in Processes BY <1>1, ElementOfSeq
    <3>2. i - 1 \in Nat BY <1>1
    <3>3. Before(Earlier[i], i - 1) \in Nat BY <3>2, BeforeType
    <3>4. Before(Earlier[i], i - 1) + j \in Nat BY <3>3, FileAssumption
    <3> QED BY <3>1, <3>4
  <2>2. ASSUME NEW i \in 1..Len(Earlier) PROVE file(i) \in Seq(Processes \X Nat)
    <3> HIDE DEF log
    <3> QED BY <2>1, FileAssumption, IsASeq
  <2> HIDE DEF file
  <2>3. data = [i \in 1..Len(Earlier) |-> file(i)] BY <1>1 DEF Init, file
  <2>4. data \in Seq(Seq(Processes \X Nat)) BY <1>1, <2>2, <2>3, IsASeq
  <2> QED BY <1>1, <2>3, <2>4, LenProperties
<1>3. part \in [0..MAX_ROTATE -> 0..Len(data)]
  BY <1>1, <1>2 DEF Init, NULL
<1>4. written \in [Processes -> Nat]
  BY <1>1, BeforeType DEF Init
<1>5. fp \in [Processes -> 0..Len(data)]
  BY <1>1, <1>2 DEF Init, NULL
<1>6. pc \in [Threads -> Labels] /\ n \in [Threads -> 0..(MAX_ROTATE - 1)]
  BY AllLabels, FileAssumption DEF Init
<1>7. /\ sem \in Nat /\ sem_otime \in {"absent", "zero", "set"}
      /\ semadj \in [Processes -> Int]
      /\ semid \subseteq Processes /\ init_ok \subseteq Processes
      /\ calls \in 0..MaxLogs /\ faults \in 0..MaxFaults
  BY FileAssumption DEF Init
<1>8. misread \subseteq 1..Len(data) /\ interrupted \in BOOLEAN /\ unlocked \in BOOLEAN
  BY DEF Init
<1> QED BY <1>2, <1>3, <1>4, <1>5, <1>6, <1>7, <1>8 DEF TypeOK

LEMMA FaultType == ASSUME TypeOK, Fault PROVE faults' \in 0..MaxFaults /\ calls' = calls
BY FileAssumption DEF TypeOK, Fault

LEMMA ExitType ==
    ASSUME TypeOK, NEW p \in Processes, Exit(p),
           calls' = calls, faults' \in 0..MaxFaults
    PROVE  TypeOK'
<1>1. pc' \in [Threads -> Labels] BY AllLabels DEF Exit, TypeOK
<1>2. sem' \in Nat /\ semadj' \in [Processes -> Int] BY DEF Exit, TypeOK
<1>3. fp' \in [Processes -> 0..Len(data')]
  <2>1. Len(data) \in Nat BY LenProperties DEF TypeOK
  <2> QED BY <2>1 DEF Exit, TypeOK, NULL, fileVars
<1>4. semid' \subseteq Processes /\ init_ok' \subseteq Processes BY DEF Exit, TypeOK
<1> QED BY <1>1, <1>2, <1>3, <1>4 DEF Exit, TypeOK, fileVars

LEMMA OpenLogType ==
    ASSUME TypeOK, NEW p \in Processes, OpenLog(p)
    PROVE  /\ fp' \in [Processes -> 0..Len(data')]
           /\ part' \in [0..MAX_ROTATE -> 0..Len(data')]
           /\ data' \in Seq(Seq(Processes \X Nat))
           /\ 1..Len(data) \subseteq 1..Len(data')
           /\ calls' = calls /\ faults' \in 0..MaxFaults
<1>1. Len(data) \in Nat BY LenProperties DEF TypeOK
<1>2. 0 \in 0..MAX_ROTATE BY FileAssumption
<1>3. CASE UNCHANGED <<part, data, bounds>> /\ fp' = [fp EXCEPT ![p] = part[0]]
  BY <1>1, <1>2, <1>3 DEF TypeOK, bounds
<1>4. CASE /\ data' = Append(data, <<>>)
           /\ part' = [part EXCEPT ![0] = Len(data')]
           /\ fp' = [fp EXCEPT ![p] = Len(data')]
           /\ UNCHANGED bounds
  <2>1. <<>> \in Seq(Processes \X Nat) BY EmptySeq
  <2>2. data' \in Seq(Seq(Processes \X Nat)) /\ Len(data') = Len(data) + 1
    BY <1>4, <2>1, AppendProperties DEF TypeOK
  <2>3. /\ 0..Len(data) \subseteq 0..Len(data') /\ Len(data') \in 0..Len(data')
        /\ 1..Len(data) \subseteq 1..Len(data')
    BY <1>1, <2>2
  <2>4. part' \in [0..MAX_ROTATE -> 0..Len(data')] /\ fp' \in [Processes -> 0..Len(data')]
    BY <1>2, <1>4, <2>3 DEF TypeOK
  <2> QED BY <1>4, <2>2, <2>3, <2>4 DEF TypeOK, bounds
<1>5. CASE Fault /\ fp' = [fp EXCEPT ![p] = NULL] /\ UNCHANGED <<part, data>>
  <2>1. fp' \in [Processes -> 0..Len(data')] BY <1>1, <1>5 DEF TypeOK, NULL
  <2> QED BY <1>5, <2>1, FaultType DEF TypeOK
<1> QED BY <1>3, <1>4, <1>5 DEF OpenLog

LEMMA NextType == ASSUME TypeOK, [Next]_vars PROVE TypeOK'
<1> USE FileAssumption DEF semVars, fileVars, bounds
<1>0. /\ \A l \in {"idle", "post", "poll", "remove", "rename", "reopen", "reopenFailed",
                   "fwrite", "lockInit", "lockWrite", "lockClose", "open", "size", "close",
                   "unlockInit", "unlockWrite", "unlockClose"} : l \in Labels
      /\ \A t \in Threads : ProcessOf[t] \in Processes
  BY AllLabels
<1>1. ASSUME NEW t \in Threads, elog_file_init(t) PROVE TypeOK'
  <2>1. pc' \in [Threads -> Labels] BY <1>0, <1>1, GotoType DEF elog_file_init, TypeOK
  <2>2. sem_otime' \in {"absent", "zero", "set"} BY <1>1 DEF elog_file_init, TypeOK
  <2> QED BY <1>1, <2>1, <2>2 DEF elog_file_init, TypeOK
<1>2. ASSUME NEW t \in Threads, elog_file_deinit(t) PROVE TypeOK'
  <2>1. pc' \in [Threads -> Labels] BY <1>0, <1>2, GotoType DEF elog_file_deinit, TypeOK
  <2> QED BY <1>2, <2>1 DEF elog_file_deinit, TypeOK
<1>3. ASSUME NEW t \in Threads, elog_file_write(t) PROVE TypeOK'
  <2>1. pc' \in [Threads -> Labels] BY <1>0, <1>3, GotoType DEF elog_file_write, TypeOK
  <2>2. calls' \in 0..MaxLogs BY <1>3 DEF elog_file_write, TypeOK
  <2> QED BY <1>3, <2>1, <2>2 DEF elog_file_write, TypeOK
<1>4. ASSUME NEW t \in Threads, elog_file_port_lock(t) PROVE TypeOK'
  <2>1. Locking[pc[t]] \in Labels BY <1>0, <1>4, LockLabels DEF elog_file_port_lock
  <2>2. pc' \in [Threads -> Labels] BY <1>4, <2>1, GotoType DEF elog_file_port_lock, TypeOK
  <2>3. sem' \in Nat /\ semadj' \in [Processes -> Int]
    <3>1. ProcessOf[t] \in Processes BY <1>0
    <3>2. sem \in Nat /\ semadj \in [Processes -> Int] BY DEF TypeOK
    <3>3. CASE ProcessOf[t] \in semid
      <4>1. \/ UNCHANGED <<sem, semadj>>
            \/ /\ sem > 0 /\ sem' = sem - 1
               /\ semadj' = [semadj EXCEPT ![ProcessOf[t]] = @ + 1]
        BY <1>4, <3>3 DEF elog_file_port_lock
      <4>2. sem' \in Nat BY <3>2, <4>1
      <4>3. semadj[ProcessOf[t]] + 1 \in Int BY <3>1, <3>2
      <4> QED BY <3>2, <4>1, <4>2, <4>3
    <3>4. CASE ProcessOf[t] \notin semid
      <4>1. sem' = sem /\ semadj' = semadj
        BY <1>4, <3>4 DEF elog_file_port_lock
      <4> QED BY <3>2, <4>1
    <3> QED BY <3>3, <3>4
  <2>4. /\ interrupted' \in BOOLEAN /\ unlocked' \in BOOLEAN
        /\ calls' \in 0..MaxLogs /\ faults' \in 0..MaxFaults
    BY <1>4, FaultType DEF elog_file_port_lock, TypeOK
  <2> QED BY <1>4, <2>2, <2>3, <2>4 DEF elog_file_port_lock, TypeOK
<1>5. ASSUME NEW t \in Threads, lock_init(t) PROVE TypeOK'
  <2>1. pc' \in [Threads -> Labels] BY <1>0, <1>5, GotoType DEF lock_init, TypeOK
  <2>2. semid' \subseteq Processes /\ sem' \in Nat BY <1>0, <1>5 DEF lock_init, TypeOK
  <2> QED BY <1>5, <2>1, <2>2 DEF lock_init, TypeOK
<1>6. ASSUME NEW t \in Threads, lock_open(t) PROVE TypeOK'
  <2>1. pc' \in [Threads -> Labels] BY <1>0, <1>6, GotoType DEF lock_open, TypeOK
  <2>2. semid' \subseteq Processes BY <1>0, <1>6 DEF lock_open, TypeOK
  <2>3. unlocked' \in BOOLEAN BY <1>6 DEF lock_open, TypeOK
  <2> QED BY <1>6, <2>1, <2>2, <2>3 DEF lock_open, TypeOK
<1>7. ASSUME NEW t \in Threads, elog_file_port_unlock(t) PROVE TypeOK'
  <2>1. pc' \in [Threads -> Labels] BY <1>0, <1>7, GotoType DEF elog_file_port_unlock, TypeOK
  <2>2. sem' \in Nat /\ semadj' \in [Processes -> Int]
    <3>1. CASE ProcessOf[t] \in semid
      <4>1. up(ProcessOf[t]) BY <1>7, <3>1 DEF elog_file_port_unlock
      <4> QED BY <1>0, <4>1 DEF up, TypeOK
    <3>2. CASE ProcessOf[t] \notin semid
      BY <1>7, <3>2 DEF elog_file_port_unlock, TypeOK
    <3> QED BY <3>1, <3>2
  <2>3. semid' \subseteq Processes BY <1>7 DEF elog_file_port_unlock, TypeOK
  <2>4. init_ok' \in {init_ok, init_ok \cup {ProcessOf[t]}, init_ok \ {ProcessOf[t]}}
    BY <1>7 DEF elog_file_port_unlock
  <2>5. init_ok' \subseteq Processes BY <1>0, <2>4 DEF TypeOK
  <2> QED BY <1>7, <2>1, <2>2, <2>3, <2>5 DEF elog_file_port_unlock, TypeOK
<1>8. ASSUME NEW t \in Threads, ConfigOpen(t) PROVE TypeOK'
  <2>1. pc' \in [Threads -> Labels] BY <1>0, <1>8, GotoType DEF ConfigOpen, TypeOK
  <2>2. misread' \subseteq 1..Len(data')
    BY <1>0, <1>8, OpenLogType DEF ConfigOpen, TypeOK
  <2> QED BY <1>0, <1>8, <2>1, <2>2, OpenLogType DEF ConfigOpen, TypeOK
<1>9. ASSUME NEW t \in Threads, ConfigClose(t) PROVE TypeOK'
  <2>1. pc' \in [Threads -> Labels] BY <1>0, <1>9, GotoType DEF ConfigClose, TypeOK
  <2>2. fp' \in [Processes -> 0..Len(data)]
    BY <1>9, LenProperties DEF ConfigClose, TypeOK, NULL
  <2> QED BY <1>9, <2>1, <2>2 DEF ConfigClose, TypeOK
<1>10. ASSUME NEW t \in Threads, TestSize(t) PROVE TypeOK'
  <2>1. pc' \in [Threads -> Labels] BY <1>0, <1>10, GotoType DEF TestSize, TypeOK
  <2>2. fp' \in [Processes -> 0..Len(data)]
    <3>1. 0 \in 0..Len(data) BY LenProperties DEF TypeOK
    <3>2. fp' = fp \/ fp' = [fp EXCEPT ![ProcessOf[t]] = 0] BY <1>10 DEF TestSize, NULL
    <3> QED BY <3>1, <3>2 DEF TypeOK
  <2>3. n' \in [Threads -> 0..(MAX_ROTATE - 1)]
    <3>1. MAX_ROTATE - 1 \in 0..(MAX_ROTATE - 1) OBVIOUS
    <3>2. n' = n \/ n' = [n EXCEPT ![t] = MAX_ROTATE - 1] BY <1>10 DEF TestSize
    <3> QED BY <3>1, <3>2 DEF TypeOK
  <2> QED BY <1>10, <2>1, <2>2, <2>3 DEF TestSize, TypeOK
<1>11. ASSUME NEW t \in Threads, RemovePart(t) PROVE TypeOK'
  <2>1. pc' \in [Threads -> Labels] BY <1>0, <1>11, GotoType DEF RemovePart, TypeOK
  <2>2. part' \in [0..MAX_ROTATE -> 0..Len(data)]
    <3>1. 0 \in 0..Len(data) BY LenProperties DEF TypeOK
    <3>2. part' = part \/ part' = [part EXCEPT ![n[t] + 1] = 0]
      BY <1>11 DEF RemovePart, NULL
    <3> QED BY <3>1, <3>2 DEF TypeOK
  <2>3. faults' \in 0..MaxFaults /\ calls' = calls
    BY <1>11, FaultType DEF RemovePart, TypeOK
  <2> QED BY <1>11, <2>1, <2>2, <2>3 DEF RemovePart, TypeOK
<1>12. ASSUME NEW t \in Threads, RenamePart(t) PROVE TypeOK'
  <2>1. pc' \in [Threads -> Labels] /\ n' \in [Threads -> 0..(MAX_ROTATE - 1)]
    <3>1. CASE Loop(t)
      <4>1. pc' \in [Threads -> Labels] BY <1>0, <3>1, GotoType DEF Loop, TypeOK
      <4>2. n[t] \in 0..(MAX_ROTATE - 1) BY DEF TypeOK
      <4>3. n' = n \/ (n[t] > 0 /\ n' = [n EXCEPT ![t] = n[t] - 1]) BY <3>1 DEF Loop
      <4>4. n[t] > 0 => n[t] - 1 \in 0..(MAX_ROTATE - 1) BY <4>2
      <4>5. n' \in [Threads -> 0..(MAX_ROTATE - 1)] BY <4>3, <4>4 DEF TypeOK
      <4> QED BY <4>1, <4>5
    <3>2. CASE Goto(t, "reopenFailed") /\ UNCHANGED n
      BY <1>0, <3>2, GotoType DEF TypeOK
    <3> QED BY <1>12, <3>1, <3>2 DEF RenamePart
  <2>2. part' \in [0..MAX_ROTATE -> 0..Len(data)]
    <3>1. n[t] \in 0..(MAX_ROTATE - 1) BY DEF TypeOK
    <3>2. n[t] \in 0..MAX_ROTATE /\ n[t] + 1 \in 0..MAX_ROTATE BY <3>1
    <3>3. part[n[t]] \in 0..Len(data) /\ NULL \in 0..Len(data)
      BY <3>2, LenProperties DEF TypeOK, NULL
    <3> QED BY <1>12, <3>2, <3>3 DEF RenamePart, TypeOK
  <2>3. faults' \in 0..MaxFaults /\ calls' = calls
    BY <1>12, FaultType DEF RenamePart, TypeOK
  <2>4. misread' \subseteq 1..Len(data')
    <3>1. n[t] \in 0..MAX_ROTATE BY DEF TypeOK
    <3>2. part[n[t]] \in 0..Len(data) /\ Len(data) \in Nat
      BY <3>1, LenProperties DEF TypeOK
    <3>3. part[n[t]] # NULL => part[n[t]] \in 1..Len(data) BY <3>2 DEF NULL
    <3>4. /\ data' = data
          /\ misread' = misread
             \/ (part[n[t]] # NULL /\ misread' = misread \cup {part[n[t]]})
      BY <1>12 DEF RenamePart
    <3> QED BY <3>3, <3>4 DEF TypeOK
  <2> QED BY <1>12, <2>1, <2>2, <2>3, <2>4 DEF RenamePart, TypeOK
<1>13. ASSUME NEW t \in Threads, Reopen(t) PROVE TypeOK'
  <2>1. pc' \in [Threads -> Labels] BY <1>0, <1>13, GotoType DEF Reopen, TypeOK
  <2>2. misread' \subseteq 1..Len(data')
    BY <1>0, <1>13, OpenLogType DEF Reopen, TypeOK
  <2> QED BY <1>0, <1>13, <2>1, <2>2, OpenLogType DEF Reopen, TypeOK
<1>14. ASSUME NEW t \in Threads, Fwrite(t) PROVE TypeOK'
  <2> DEFINE p == ProcessOf[t]
             i == fp[p]
  <2>1. pc' \in [Threads -> Labels] BY <1>0, <1>14, GotoType DEF Fwrite, TypeOK
  <2>2. p \in Processes BY <1>0
  <2>3. written' \in [Processes -> Nat] /\ written'[p] \in Nat
    BY <1>14, <2>2 DEF Fwrite, TypeOK
  <2>4. i \in 1..Len(data)
    BY <1>14, <2>2, LenProperties DEF Fwrite, TypeOK, NULL
  <2>5. data[i] \in Seq(Processes \X Nat) BY <2>4, ElementOfSeq DEF TypeOK
  <2>6. Append(data[i], <<p, written'[p]>>) \in Seq(Processes \X Nat)
    BY <2>2, <2>3, <2>5, AppendProperties
  <2>7. data' \in Seq(Seq(Processes \X Nat)) /\ Len(data') = Len(data)
    BY <1>14, <2>4, <2>6, ExceptSeq DEF Fwrite, TypeOK
  <2> QED BY <1>14, <2>1, <2>3, <2>7 DEF Fwrite, TypeOK
<1>15. ASSUME NEW t \in Threads, UseNoStream(t) PROVE TypeOK'
  BY <1>0, <1>15, ExitType DEF UseNoStream, TypeOK
<1>16. ASSUME NEW p \in Processes, Crash(p) PROVE TypeOK'
  BY <1>16, ExitType, FaultType DEF Crash
<1>17. CASE UNCHANGED vars
  BY <1>17 DEF vars, TypeOK
<1> QED
  BY <1>1, <1>2, <1>3, <1>4, <1>5, <1>6, <1>7, <1>8, <1>9, <1>10, <1>11, <1>12,
     <1>13, <1>14, <1>15, <1>16, <1>17 DEF Next, CallStep

\* Every variable keeps its type; in particular the loop of a rotation never
\* leaves the array of the parts, and nobody's file has a number out of range.
THEOREM TypeCorrect == Spec => []TypeOK
BY InitType, NextType, PTL DEF Spec

(***************************************************************************)
(* The calls of one process.  It finds or makes the semaphore in its first  *)
(* call and forgets it in its last, and runs no other call beside these.    *)
(***************************************************************************)
InitLabels == {"post", "poll", "lockInit", "open", "unlockInit"}
CloseLabels == {"lockClose", "close", "unlockClose"}

CallInv ==
    /\ \A t \in Threads :
          /\ pc[t] = "post" => sem_otime = "zero"
          /\ pc[t] \in InitLabels => ProcessOf[t] \notin init_ok
          /\ pc[t] \notin InitLabels \cup {"idle"} => ProcessOf[t] \in init_ok
          /\ pc[t] \in {"post", "poll"} => ProcessOf[t] \notin semid
    /\ \A t, u \in Threads :
          /\ pc[t] = "post" /\ pc[u] = "post" => t = u
          /\ t # u /\ ProcessOf[t] = ProcessOf[u] /\ pc[t] \in InitLabels \cup CloseLabels
                => pc[u] = "idle"
    /\ \A p \in semid :
          p \in init_ok \/ \E t \in Threads : ProcessOf[t] = p /\ pc[t] \in InitLabels

LEMMA InitCall == ASSUME Init PROVE CallInv
BY DEF Init, CallInv, InitLabels, CloseLabels

(* A step of one thread inside a call that is neither its first nor last.   *)
LEMMA StepCall ==
    ASSUME TypeOK, CallInv, NEW t \in Threads, NEW l \in Labels, Goto(t, l),
           UNCHANGED <<sem_otime, semid, init_ok>>,
           \/ pc[t] \in InitLabels \ {"post", "poll"} /\ l \in InitLabels \ {"post", "poll"}
           \/ pc[t] \in CloseLabels /\ l \in CloseLabels
           \/ /\ pc[t] \notin InitLabels \cup CloseLabels \cup {"idle"}
              /\ l \notin InitLabels \cup CloseLabels
    PROVE  CallInv'
<1>1. pc'[t] = l /\ \A u \in Threads : u # t => pc'[u] = pc[u]
  BY GotoType DEF TypeOK
<1> QED BY <1>1 DEF CallInv, InitLabels, CloseLabels

LEMMA ExitCall == ASSUME TypeOK, CallInv, NEW p \in Processes, Exit(p) PROVE CallInv'
<1>1. \A t \in Threads : pc'[t] = IF ProcessOf[t] = p THEN "idle" ELSE pc[t]
  BY DEF Exit
<1>2. semid' = semid \ {p} /\ init_ok' = init_ok \ {p} /\ sem_otime' = sem_otime
  BY DEF Exit
<1> QED BY <1>1, <1>2 DEF CallInv, InitLabels, CloseLabels

LEMMA NextCall == ASSUME TypeOK, CallInv, [Next]_vars PROVE CallInv'
<1>0. \A t \in Threads : ProcessOf[t] \in Processes BY FileAssumption
<1>1. ASSUME NEW t \in Threads, elog_file_init(t) PROVE CallInv'
  <2>1. /\ \A u \in Threads : u # t => pc'[u] = pc[u]
        /\ pc'[t] = (IF sem_otime = "absent" THEN "post" ELSE "poll")
    BY <1>1, GotoType, AllLabels DEF elog_file_init, TypeOK
  <2>2. /\ ProcessOf[t] \notin init_ok /\ UNCHANGED <<semid, init_ok>>
        /\ \A u \in Threads : ProcessOf[u] = ProcessOf[t] => pc[u] = "idle"
        /\ sem_otime' = (IF sem_otime = "absent" THEN "zero" ELSE sem_otime)
    BY <1>1 DEF elog_file_init, ThreadsOf
  <2>3. ProcessOf[t] \notin semid BY <2>2 DEF CallInv, InitLabels
  <2> QED BY <2>1, <2>2, <2>3 DEF CallInv, InitLabels, CloseLabels
<1>2. ASSUME NEW t \in Threads, elog_file_deinit(t) PROVE CallInv'
  <2>1. pc'[t] = "lockClose" /\ \A u \in Threads : u # t => pc'[u] = pc[u]
    BY <1>2, GotoType, AllLabels DEF elog_file_deinit, TypeOK
  <2>2. /\ ProcessOf[t] \in init_ok /\ UNCHANGED <<semid, init_ok, sem_otime>>
        /\ \A u \in Threads : ProcessOf[u] = ProcessOf[t] => pc[u] = "idle"
    BY <1>2 DEF elog_file_deinit, ThreadsOf, semVars
  <2> QED BY <2>1, <2>2 DEF CallInv, InitLabels, CloseLabels
<1>3. ASSUME NEW t \in Threads, elog_file_write(t) PROVE CallInv'
  <2>1. pc'[t] = "lockWrite" /\ \A u \in Threads : u # t => pc'[u] = pc[u]
    BY <1>3, GotoType, AllLabels DEF elog_file_write, TypeOK
  <2>2. /\ ProcessOf[t] \in init_ok /\ UNCHANGED <<semid, init_ok, sem_otime>>
        /\ pc[t] = "idle"
        /\ \A u \in Threads : ProcessOf[u] = ProcessOf[t] => pc[u] \notin CloseLabels
    BY <1>3 DEF elog_file_write, ThreadsOf, semVars, CloseLabels
  <2>3. \A u \in Threads : ProcessOf[u] = ProcessOf[t] => pc[u] \notin InitLabels
    BY <2>2 DEF CallInv
  <2> QED BY <2>1, <2>2, <2>3 DEF CallInv, InitLabels, CloseLabels
<1>4. ASSUME NEW t \in Threads, elog_file_port_lock(t) PROVE CallInv'
  <2>1. /\ pc[t] \in {"lockInit", "lockWrite", "lockClose"}
        /\ pc[t] = "lockInit" => Locking[pc[t]] = "open"
        /\ pc[t] = "lockWrite" => Locking[pc[t]] = "size"
        /\ pc[t] = "lockClose" => Locking[pc[t]] = "close"
    BY <1>4, LockLabels DEF elog_file_port_lock
  <2>2. Locking[pc[t]] \in Labels BY <2>1, AllLabels
  <2> QED BY <1>4, <2>1, <2>2, StepCall DEF elog_file_port_lock, InitLabels, CloseLabels
<1>5. ASSUME NEW t \in Threads, lock_init(t) PROVE CallInv'
  <2>1. pc'[t] = "lockInit" /\ \A u \in Threads : u # t => pc'[u] = pc[u]
    BY <1>5, GotoType, AllLabels DEF lock_init, TypeOK
  <2>2. \A u \in Threads : u # t => pc[u] # "post"
    BY <1>5 DEF lock_init, CallInv
  <2>3. /\ semid' = semid \cup {ProcessOf[t]} /\ init_ok' = init_ok /\ sem_otime' = "set"
        /\ pc[t] = "post"
    BY <1>5 DEF lock_init
  <2> QED BY <2>1, <2>2, <2>3 DEF CallInv, InitLabels, CloseLabels
<1>6. ASSUME NEW t \in Threads, lock_open(t) PROVE CallInv'
  <2>1. pc'[t] = "lockInit" /\ \A u \in Threads : u # t => pc'[u] = pc[u]
    BY <1>6, GotoType, AllLabels DEF lock_open, TypeOK
  <2>2. /\ semid' \in {semid, semid \cup {ProcessOf[t]}} /\ pc[t] = "poll"
        /\ UNCHANGED <<init_ok, sem_otime>>
    BY <1>6 DEF lock_open
  <2> QED BY <2>1, <2>2 DEF CallInv, InitLabels, CloseLabels
<1>7. ASSUME NEW t \in Threads, elog_file_port_unlock(t) PROVE CallInv'
  <2>1. pc'[t] = "idle" /\ \A u \in Threads : u # t => pc'[u] = pc[u]
    BY <1>7, GotoType, AllLabels DEF elog_file_port_unlock, TypeOK
  <2>2. CASE pc[t] = "unlockInit"
    <3>1. init_ok' = init_ok \cup {ProcessOf[t]} /\ UNCHANGED <<semid, sem_otime>>
      BY <1>7, <2>2 DEF elog_file_port_unlock
    <3> QED BY <2>1, <2>2, <3>1 DEF CallInv, InitLabels, CloseLabels
  <2>3. CASE pc[t] = "unlockWrite"
    <3>1. UNCHANGED <<semid, sem_otime, init_ok>>
      BY <1>7, <2>3 DEF elog_file_port_unlock
    <3> QED BY <2>1, <2>3, <3>1 DEF CallInv, InitLabels, CloseLabels
  <2>4. CASE pc[t] = "unlockClose"
    <3>1. /\ init_ok' = init_ok \ {ProcessOf[t]} /\ semid' = semid \ {ProcessOf[t]}
          /\ UNCHANGED sem_otime
      BY <1>7, <2>4 DEF elog_file_port_unlock
    <3> QED BY <2>1, <2>4, <3>1 DEF CallInv, InitLabels, CloseLabels
  <2> QED BY <1>7, <2>2, <2>3, <2>4 DEF elog_file_port_unlock, Unlocking
<1>8. ASSUME NEW t \in Threads, ConfigOpen(t) PROVE CallInv'
  BY <1>8, AllLabels, StepCall DEF ConfigOpen, semVars, InitLabels, CloseLabels
<1>9. ASSUME NEW t \in Threads, ConfigClose(t) PROVE CallInv'
  BY <1>9, AllLabels, StepCall DEF ConfigClose, semVars, InitLabels, CloseLabels
<1>10. ASSUME NEW t \in Threads,
              TestSize(t) \/ RemovePart(t) \/ RenamePart(t) \/ Reopen(t) \/ Fwrite(t)
       PROVE  CallInv'
  <2>1. /\ pc[t] \in {"size", "remove", "rename", "reopen", "reopenFailed", "fwrite"}
        /\ UNCHANGED <<sem_otime, semid, init_ok>>
        /\ \E l \in {"remove", "fwrite", "rename", "reopen", "reopenFailed", "unlockWrite"} :
              Goto(t, l)
    BY <1>10 DEF TestSize, RemovePart, RenamePart, Loop, Reopen, Fwrite, semVars
  <2> QED BY <2>1, AllLabels, StepCall DEF InitLabels, CloseLabels
<1>11. ASSUME NEW t \in Threads, UseNoStream(t) PROVE CallInv'
  BY <1>0, <1>11, ExitCall DEF UseNoStream
<1>12. ASSUME NEW p \in Processes, Crash(p) PROVE CallInv'
  BY <1>12, ExitCall DEF Crash
<1>13. CASE UNCHANGED vars
  BY <1>13 DEF vars, semVars, CallInv
<1> QED
  BY <1>1, <1>2, <1>3, <1>4, <1>5, <1>6, <1>7, <1>8, <1>9, <1>10, <1>11, <1>12, <1>13
     DEF Next, CallStep

(***************************************************************************)
(* The semaphore is free and nobody has anything to undo, or one thread is  *)
(* inside and its process has one operation to undo.                        *)
(***************************************************************************)
In(t) ==
    /\ ProcessOf[t] \in semid
    /\ pc[t] \notin {"idle", "post", "poll", "lockInit", "lockWrite", "lockClose"}

LEMMA InsideIn == \A t \in Threads : t \in Inside <=> In(t)
BY LockLabels DEF Inside, In

Free ==
    /\ sem = 1
    /\ \A t \in Threads : ~In(t)
    /\ \A p \in Processes : semadj[p] = 0

HeldBy(h) ==
    /\ sem = 0
    /\ \A t \in Threads : In(t) <=> t = h
    /\ \A p \in Processes : semadj[p] = IF p = ProcessOf[h] THEN 1 ELSE 0

SemInv ==
    /\ sem_otime # "set" =>
          sem = 0 /\ semid = {} /\ \A p \in Processes : semadj[p] = 0
    /\ sem_otime = "set" => Free \/ \E h \in Threads : HeldBy(h)

LEMMA InitSem == ASSUME Init PROVE SemInv
BY DEF Init, SemInv

(* A step that does not change who is inside.                               *)
LEMMA StaySem ==
    ASSUME SemInv, UNCHANGED <<sem, sem_otime, semadj>>,
           sem_otime # "set" => semid' = semid,
           \A t \in Threads : In(t)' <=> In(t)
    PROVE  SemInv'
<1>1. Free => Free' BY DEF Free
<1>2. ASSUME NEW h \in Threads, HeldBy(h) PROVE HeldBy(h)'
  BY <1>2 DEF HeldBy
<1> QED BY <1>1, <1>2 DEF SemInv

LEMMA StepSem ==
    ASSUME TypeOK, SemInv, NEW t \in Threads, NEW l \in Labels, Goto(t, l), UNCHANGED semVars,
           LET outside == {"idle", "post", "poll", "lockInit", "lockWrite", "lockClose"}
           IN  pc[t] \in outside <=> l \in outside
    PROVE  SemInv'
<1>1. pc'[t] = l /\ \A u \in Threads : u # t => pc'[u] = pc[u]
  BY GotoType DEF TypeOK
<1>2. \A u \in Threads : In(u)' <=> In(u)
  BY <1>1 DEF In, semVars
<1> QED BY <1>2, StaySem DEF semVars

(* The end of a process undoes what its thread inside has done, if any.     *)
LEMMA ExitSem == ASSUME TypeOK, SemInv, NEW p \in Processes, Exit(p) PROVE SemInv'
<1>1. /\ \A t \in Threads : pc'[t] = IF ProcessOf[t] = p THEN "idle" ELSE pc[t]
      /\ semid' = semid \ {p} /\ sem_otime' = sem_otime
      /\ \A q \in Processes : semadj'[q] = IF q = p THEN 0 ELSE semadj[q]
      /\ sem' = IF sem + semadj[p] < 0 THEN 0 ELSE sem + semadj[p]
  BY DEF Exit, TypeOK
<1>2. \A t \in Threads : In(t)' <=> In(t) /\ ProcessOf[t] # p
  BY <1>1 DEF In
<1>3. CASE sem_otime # "set"
  <2>1. sem' = 0 BY <1>1, <1>3 DEF SemInv
  <2> QED BY <1>1, <1>3, <2>1 DEF SemInv
<1>4. CASE sem_otime = "set" /\ Free
  <2>1. sem' = 1 BY <1>1, <1>4 DEF Free
  <2>2. Free' BY <1>1, <1>2, <1>4, <2>1 DEF Free
  <2> QED BY <1>1, <1>4, <2>2 DEF SemInv
<1>5. ASSUME sem_otime = "set", NEW h \in Threads, HeldBy(h) PROVE SemInv'
  <2>1. CASE ProcessOf[h] = p
    <3>1. sem' = 1 BY <1>1, <1>5, <2>1 DEF HeldBy
    <3>2. Free' BY <1>1, <1>2, <1>5, <2>1, <3>1 DEF HeldBy, Free
    <3> QED BY <1>1, <1>5, <3>2 DEF SemInv
  <2>2. CASE ProcessOf[h] # p
    <3>1. sem' = 0 BY <1>1, <1>5, <2>2 DEF HeldBy
    <3>2. HeldBy(h)' BY <1>1, <1>2, <1>5, <2>2, <3>1 DEF HeldBy
    <3> QED BY <1>1, <1>5, <3>2 DEF SemInv
  <2> QED BY <2>1, <2>2
<1> QED BY <1>3, <1>4, <1>5 DEF SemInv

LEMMA NextSem ==
    ASSUME TypeOK, CallInv, SemInv, [Next]_vars, ~interrupted'
    PROVE  SemInv'
<1>0. \A t \in Threads : ProcessOf[t] \in Processes BY FileAssumption
<1>1. ASSUME NEW t \in Threads, elog_file_init(t) PROVE SemInv'
  <2>1. /\ \A u \in Threads : u # t => pc'[u] = pc[u]
        /\ pc'[t] \in {"post", "poll"} /\ pc[t] = "idle"
    BY <1>1, GotoType, AllLabels DEF elog_file_init, TypeOK, ThreadsOf
  <2>2. /\ UNCHANGED <<sem, semadj, semid>>
        /\ sem_otime' = (IF sem_otime = "absent" THEN "zero" ELSE sem_otime)
    BY <1>1 DEF elog_file_init
  <2>3. \A u \in Threads : In(u)' <=> In(u) BY <2>1, <2>2 DEF In
  <2>4. CASE sem_otime = "set" BY <2>2, <2>3, <2>4, StaySem
  <2>5. CASE sem_otime # "set" BY <2>2, <2>5 DEF SemInv
  <2> QED BY <2>4, <2>5
<1>2. ASSUME NEW t \in Threads, elog_file_deinit(t) PROVE SemInv'
  <2>1. pc[t] = "idle" BY <1>2 DEF elog_file_deinit, ThreadsOf
  <2> QED BY <1>2, <2>1, AllLabels, StepSem DEF elog_file_deinit
<1>3. ASSUME NEW t \in Threads, elog_file_write(t) PROVE SemInv'
  BY <1>3, AllLabels, StepSem DEF elog_file_write
<1>4. ASSUME NEW t \in Threads, elog_file_port_lock(t) PROVE SemInv'
  <2> DEFINE p == ProcessOf[t]
  <2>1. /\ pc[t] \in {"lockInit", "lockWrite", "lockClose"}
        /\ Locking[pc[t]] \in {"open", "size", "close"}
    BY <1>4, LockLabels DEF elog_file_port_lock
  <2>2. /\ pc'[t] \in {"open", "size", "close"}
        /\ \A u \in Threads : u # t => pc'[u] = pc[u]
    BY <1>4, <2>1, GotoType, AllLabels DEF elog_file_port_lock, TypeOK
  <2>3. UNCHANGED <<semid, sem_otime>> BY <1>4 DEF elog_file_port_lock
  <2>4. CASE p \notin semid
    <3>1. UNCHANGED <<sem, semadj>> BY <1>4, <2>4 DEF elog_file_port_lock
    <3>2. \A u \in Threads : In(u)' <=> In(u) BY <2>2, <2>3, <2>4 DEF In
    <3> QED BY <2>3, <3>1, <3>2, StaySem
  <2>5. CASE p \in semid
    <3>1. /\ sem > 0 /\ sem' = sem - 1
          /\ \A q \in Processes : semadj'[q] = IF q = p THEN semadj[p] + 1 ELSE semadj[q]
      BY <1>0, <1>4, <2>5 DEF elog_file_port_lock, TypeOK
    <3>2. sem_otime = "set" /\ Free BY <2>5, <3>1 DEF SemInv, HeldBy
    <3>3. \A u \in Threads : In(u)' <=> u = t
      BY <2>2, <2>3, <2>5, <3>2 DEF In, Free
    <3>4. sem' = 0 BY <3>1, <3>2 DEF Free
    <3>5. HeldBy(t)' BY <1>0, <3>1, <3>2, <3>3, <3>4 DEF HeldBy, Free
    <3> QED BY <2>3, <3>2, <3>5 DEF SemInv
  <2> QED BY <2>4, <2>5
<1>5. ASSUME NEW t \in Threads, lock_init(t) PROVE SemInv'
  <2>1. pc'[t] = "lockInit" /\ \A u \in Threads : u # t => pc'[u] = pc[u]
    BY <1>5, GotoType, AllLabels DEF lock_init, TypeOK
  <2>2. /\ sem' = 1 /\ sem_otime' = "set" /\ semadj' = semadj
        /\ semid' = semid \cup {ProcessOf[t]} /\ pc[t] = "post"
    BY <1>5 DEF lock_init
  <2>3. semid = {} /\ \A p \in Processes : semadj[p] = 0
    BY <2>2 DEF CallInv, SemInv
  <2>4. \A u \in Threads : u # t /\ ProcessOf[u] = ProcessOf[t] => pc[u] = "idle"
    BY <2>2 DEF CallInv, InitLabels
  <2>5. \A u \in Threads : ~In(u)' BY <2>1, <2>2, <2>3, <2>4 DEF In
  <2> QED BY <2>2, <2>3, <2>5 DEF SemInv, Free
<1>6. ASSUME NEW t \in Threads, lock_open(t) PROVE SemInv'
  <2>1. pc'[t] = "lockInit" /\ \A u \in Threads : u # t => pc'[u] = pc[u]
    BY <1>6, GotoType, AllLabels DEF lock_open, TypeOK
  <2>2. /\ UNCHANGED <<sem, sem_otime, semadj>> /\ pc[t] = "poll"
        /\ semid' = (IF sem_otime = "set" THEN semid \cup {ProcessOf[t]} ELSE semid)
    BY <1>6 DEF lock_open
  <2>3. \A u \in Threads : u # t /\ ProcessOf[u] = ProcessOf[t] => pc[u] = "idle"
    BY <2>2 DEF CallInv, InitLabels
  <2>4. \A u \in Threads : In(u)' <=> In(u) BY <2>1, <2>2, <2>3 DEF In
  <2> QED BY <2>2, <2>4, StaySem
<1>7. ASSUME NEW t \in Threads, elog_file_port_unlock(t) PROVE SemInv'
  <2> DEFINE p == ProcessOf[t]
  <2>1. pc'[t] = "idle" /\ \A u \in Threads : u # t => pc'[u] = pc[u]
    BY <1>7, GotoType, AllLabels DEF elog_file_port_unlock, TypeOK
  <2>2. /\ sem_otime' = sem_otime /\ pc[t] \in {"unlockInit", "unlockWrite", "unlockClose"}
        /\ semid' = semid \/ (pc[t] = "unlockClose" /\ semid' = semid \ {p})
    BY <1>7 DEF elog_file_port_unlock, Unlocking
  <2>3. pc[t] = "unlockClose" =>
           \A u \in Threads : u # t /\ ProcessOf[u] = p => pc[u] = "idle"
    BY DEF CallInv, CloseLabels
  <2>4. \A u \in Threads : In(u)' <=> In(u) /\ u # t
    BY <2>1, <2>2, <2>3 DEF In
  <2>5. CASE p \notin semid
    <3>1. UNCHANGED <<sem, semadj>> /\ semid' = semid
      BY <1>7, <2>2, <2>5 DEF elog_file_port_unlock
    <3>2. \A u \in Threads : In(u)' <=> In(u) BY <2>4, <2>5 DEF In
    <3> QED BY <2>2, <3>1, <3>2, StaySem
  <2>6. CASE p \in semid
    <3>1. In(t) BY <2>2, <2>6 DEF In
    <3>2. sem_otime = "set" /\ HeldBy(t) BY <2>6, <3>1 DEF SemInv, Free, HeldBy
    <3>3. up(p) BY <1>7, <2>6 DEF elog_file_port_unlock
    <3>4. /\ sem' = 1
          /\ \A q \in Processes : semadj'[q] = IF q = p THEN semadj[p] - 1 ELSE semadj[q]
      BY <1>0, <3>2, <3>3 DEF up, HeldBy, TypeOK
    <3>5. Free' BY <1>0, <2>4, <3>2, <3>4 DEF Free, HeldBy
    <3> QED BY <2>2, <3>2, <3>5 DEF SemInv
  <2> QED BY <2>5, <2>6
<1>8. ASSUME NEW t \in Threads,
             \/ ConfigOpen(t) \/ ConfigClose(t) \/ TestSize(t) \/ RemovePart(t)
             \/ RenamePart(t) \/ Reopen(t) \/ Fwrite(t)
      PROVE  SemInv'
  <2>1. /\ pc[t] \in {"open", "close", "size", "remove", "rename", "reopen",
                       "reopenFailed", "fwrite"}
        /\ UNCHANGED semVars
        /\ \E l \in {"unlockInit", "unlockClose", "remove", "fwrite", "rename",
                     "reopen", "reopenFailed", "unlockWrite"} : Goto(t, l)
    BY <1>8 DEF ConfigOpen, ConfigClose, TestSize, RemovePart, RenamePart, Loop, Reopen, Fwrite
  <2> QED BY <2>1, AllLabels, StepSem
<1>9. ASSUME NEW t \in Threads, UseNoStream(t) PROVE SemInv'
  BY <1>0, <1>9, ExitSem DEF UseNoStream
<1>10. ASSUME NEW p \in Processes, Crash(p) PROVE SemInv'
  BY <1>10, ExitSem DEF Crash
<1>11. CASE UNCHANGED vars
  <2>1. \A t \in Threads : In(t)' <=> In(t) BY <1>11 DEF vars, semVars, In
  <2> QED BY <1>11, <2>1, StaySem DEF vars, semVars
<1> QED
  BY <1>1, <1>2, <1>3, <1>4, <1>5, <1>6, <1>7, <1>8, <1>9, <1>10, <1>11
     DEF Next, CallStep

(* What happened once stays in the histories.                               *)
LEMMA NextHistory ==
    ASSUME [Next]_vars
    PROVE  /\ interrupted' = interrupted \/ (interrupted' /\ unlocked')
           /\ unlocked' = unlocked \/ unlocked'
<1>1. ASSUME NEW t \in Threads,
             \/ elog_file_init(t) \/ elog_file_deinit(t) \/ elog_file_write(t)
             \/ lock_init(t) \/ elog_file_port_unlock(t) \/ ConfigOpen(t)
             \/ ConfigClose(t) \/ TestSize(t) \/ RemovePart(t) \/ RenamePart(t)
             \/ Reopen(t) \/ Fwrite(t) \/ UseNoStream(t)
      PROVE  interrupted' = interrupted /\ unlocked' = unlocked
  BY <1>1 DEF elog_file_init, elog_file_deinit, elog_file_write, lock_init,
              elog_file_port_unlock, ConfigOpen, ConfigClose, TestSize, RemovePart,
              RenamePart, Reopen, Fwrite, UseNoStream, Exit, semVars
<1>2. ASSUME NEW t \in Threads, lock_open(t)
      PROVE  interrupted' = interrupted /\ (unlocked' = unlocked \/ unlocked' = TRUE)
  BY <1>2 DEF lock_open
<1>3. ASSUME NEW t \in Threads, elog_file_port_lock(t)
      PROVE  \/ interrupted' = interrupted /\ unlocked' = unlocked
             \/ interrupted' = TRUE /\ unlocked' = TRUE
  BY <1>3 DEF elog_file_port_lock
<1>4. ASSUME NEW p \in Processes, Crash(p)
      PROVE  interrupted' = interrupted /\ unlocked' = unlocked
  BY <1>4 DEF Crash, Exit
<1>5. CASE UNCHANGED vars BY <1>5 DEF vars, semVars
<1> QED BY <1>1, <1>2, <1>3, <1>4, <1>5 DEF Next, CallStep

GuardInv == (interrupted => unlocked) /\ (~interrupted => SemInv)

LEMMA InitGuard == ASSUME Init PROVE GuardInv
<1>1. ~interrupted BY DEF Init
<1> QED BY <1>1, InitSem DEF GuardInv

LEMMA NextGuard == ASSUME TypeOK, CallInv, GuardInv, [Next]_vars PROVE GuardInv'
<1>1. interrupted' => unlocked' BY NextHistory DEF GuardInv
<1>2. ASSUME ~interrupted' PROVE SemInv'
  <2>1. ~interrupted BY <1>2, NextHistory
  <2> QED BY <1>2, <2>1, NextSem DEF GuardInv
<1> QED BY <1>1, <1>2 DEF GuardInv

LEMMA WholeSem == ASSUME GuardInv PROVE SemaphoreWhole
<1> SUFFICES ASSUME sem_otime = "set", ~interrupted PROVE sem + Cardinality(Inside) = 1
  BY DEF SemaphoreWhole
<1>0. SemInv BY DEF GuardInv
<1>1. Inside \subseteq Threads BY DEF Inside
<1>2. CASE Free
  <2>1. Inside = {} BY <1>1, <1>2, InsideIn DEF Free
  <2> QED BY <1>2, <2>1, FS_EmptySet DEF Free
<1>3. ASSUME NEW h \in Threads, HeldBy(h) PROVE sem + Cardinality(Inside) = 1
  <2>1. Inside = {h} BY <1>1, <1>3, InsideIn DEF HeldBy
  <2>2. Cardinality(Inside) = 1 BY <2>1, FS_Singleton
  <2> QED BY <1>3, <2>2 DEF HeldBy
<1> QED BY <1>0, <1>2, <1>3 DEF SemInv

\* The semaphore is neither lost nor doubled, for any threads and processes,
\* however many are killed and wherever they are killed: lock_init adds 1 without
\* SEM_UNDO, up and down have SEM_UNDO.  Only an interrupted wait, of which
\* elog_file_port_lock takes no notice, ends that.
THEOREM SemaphoreStaysWhole == Spec => []SemaphoreWhole
<1>1. Init => TypeOK /\ CallInv /\ GuardInv BY InitType, InitCall, InitGuard
<1>2. TypeOK /\ CallInv /\ GuardInv /\ [Next]_vars => (TypeOK /\ CallInv /\ GuardInv)'
  BY NextType, NextCall, NextGuard
<1>3. GuardInv => SemaphoreWhole BY WholeSem
<1> QED BY <1>1, <1>2, <1>3, PTL DEF Spec

(***************************************************************************)
(* The files.  The invariant comes in two parts: what is true of the names  *)
(* and of the logs even when somebody went on without the semaphore, and    *)
(* what only those who hold the semaphore keep true.                        *)
(***************************************************************************)

\* The older of two files has the larger part number.
Decreasing ==
    \A k, l \in DOMAIN part :
        k < l /\ part[k] # NULL /\ part[l] # NULL => part[l] < part[k]

Newest == part[0] \in {NULL, Len(data)}

\* The logs of a process ascend in the order of the files, those without a name
\* included: a stream that has gone stale is behind nothing that its process wrote.
Ascending ==
    \A i, j \in DOMAIN data : \A a \in DOMAIN data[i], b \in DOMAIN data[j] :
        data[i][a][1] = data[j][b][1] /\ (i < j \/ (i = j /\ a < b))
            => data[i][a][2] < data[j][b][2]

Streams ==
    \A i \in DOMAIN data : \A a \in DOMAIN data[i] :
        LET p == data[i][a][1]
        IN  data[i][a][2] \in 1..written[p] /\ (fp[p] # NULL => i <= fp[p])

Complete ==
    \A p \in Processes : \A x \in 1..written[p] :
        \E i \in DOMAIN data : \E a \in DOMAIN data[i] : data[i][a] = <<p, x>>

FileInv == Decreasing /\ Newest /\ Ascending /\ Streams /\ Complete

LEMMA FileTypes ==
    ASSUME TypeOK
    PROVE  /\ Len(data) \in Nat /\ DOMAIN data = 1..Len(data)
           /\ \A i \in DOMAIN data :
                 /\ data[i] \in Seq(Processes \X Nat)
                 /\ Len(data[i]) \in Nat /\ DOMAIN data[i] = 1..Len(data[i])
                 /\ \A a \in DOMAIN data[i] :
                       /\ data[i][a][1] \in Processes /\ data[i][a][2] \in Nat
                       /\ data[i][a] = <<data[i][a][1], data[i][a][2]>>
           /\ DOMAIN part = 0..MAX_ROTATE
           /\ \A k \in DOMAIN part : part[k] \in 0..Len(data)
           /\ \A t \in Threads : n[t] \in 0..(MAX_ROTATE - 1) /\ ProcessOf[t] \in Processes
<1>1. Len(data) \in Nat /\ DOMAIN data = 1..Len(data) BY LenProperties DEF TypeOK
<1>2. ASSUME NEW i \in DOMAIN data
      PROVE  /\ data[i] \in Seq(Processes \X Nat)
             /\ Len(data[i]) \in Nat /\ DOMAIN data[i] = 1..Len(data[i])
             /\ \A a \in DOMAIN data[i] :
                   /\ data[i][a][1] \in Processes /\ data[i][a][2] \in Nat
                   /\ data[i][a] = <<data[i][a][1], data[i][a][2]>>
  <2>1. data[i] \in Seq(Processes \X Nat) BY <1>1, ElementOfSeq DEF TypeOK
  <2>2. Len(data[i]) \in Nat /\ DOMAIN data[i] = 1..Len(data[i]) BY <2>1, LenProperties
  <2>3. \A a \in DOMAIN data[i] : data[i][a] \in Processes \X Nat
    BY <2>1, <2>2, ElementOfSeq
  <2> QED BY <2>1, <2>2, <2>3
<1> QED BY <1>1, <1>2, FileAssumption DEF TypeOK

(* Most steps change no file and close a stream at most.                    *)
LEMMA QuietFile ==
    ASSUME TypeOK, FileInv, UNCHANGED fileVars,
           \A p \in Processes : fp'[p] \in {NULL, fp[p]}
    PROVE  FileInv'
<1> USE DEF fileVars
<1>1. Decreasing' BY DEF FileInv, Decreasing
<1>2. Newest' BY DEF FileInv, Newest
<1>3. Ascending' BY DEF FileInv, Ascending
<1>4. Streams' BY FileTypes DEF FileInv, Streams
<1>5. Complete' BY DEF FileInv, Complete
<1> QED BY <1>1, <1>2, <1>3, <1>4, <1>5 DEF FileInv

LEMMA OpenFile ==
    ASSUME TypeOK, TypeOK', FileInv, NEW p \in Processes, OpenLog(p),
           UNCHANGED <<written, misread>>
    PROVE  FileInv'
<1>1. CASE part[0] # NULL /\ fp' = [fp EXCEPT ![p] = part[0]] /\ UNCHANGED <<part, data>>
  <2>1. part[0] = Len(data) BY <1>1 DEF FileInv, Newest
  <2>2. \A q \in Processes : fp'[q] = IF q = p THEN Len(data) ELSE fp[q]
    BY <1>1, <2>1 DEF TypeOK
  <2>3. Streams' BY <1>1, <2>2, FileTypes DEF FileInv, Streams
  <2>4. Decreasing' /\ Newest' BY <1>1 DEF FileInv, Decreasing, Newest
  <2>5. Ascending' /\ Complete' BY <1>1 DEF FileInv, Ascending, Complete
  <2> QED BY <2>3, <2>4, <2>5 DEF FileInv
<1>2. CASE /\ part[0] = NULL /\ data' = Append(data, <<>>)
           /\ part' = [part EXCEPT ![0] = Len(data')]
           /\ fp' = [fp EXCEPT ![p] = Len(data')]
  <2> DEFINE m == Len(data) + 1
  <2>1. /\ Len(data') = m /\ DOMAIN data' = 1..m
        /\ data'[m] = <<>> /\ DOMAIN data'[m] = {}
        /\ \A i \in DOMAIN data : data'[i] = data[i]
    <3>1. <<>> \in Seq(Processes \X Nat) BY EmptySeq
    <3>2. /\ Len(data') = m /\ data'[m] = <<>>
          /\ \A i \in 1..Len(data) : data'[i] = data[i]
      BY <1>2, <3>1, AppendProperties DEF TypeOK
    <3>3. DOMAIN data' = 1..m BY <3>2, LenProperties DEF TypeOK
    <3>4. DOMAIN data'[m] = {} BY <3>2, EmptySeq
    <3> QED BY <3>2, <3>3, <3>4, FileTypes
  <2>2. \A k \in DOMAIN part : part'[k] = IF k = 0 THEN m ELSE part[k]
    BY <1>2, <2>1 DEF TypeOK
  <2>3. DOMAIN part' = DOMAIN part BY <1>2 DEF TypeOK
  <2>4. \A q \in Processes : fp'[q] = IF q = p THEN m ELSE fp[q]
    BY <1>2, <2>1 DEF TypeOK
  <2>5. \A i \in DOMAIN data' : \A a \in DOMAIN data'[i] :
           i \in DOMAIN data /\ a \in DOMAIN data[i] /\ data'[i] = data[i]
    BY <2>1, FileTypes
  <2> HIDE DEF m
  <2>6. Len(data) < m /\ m \in Nat BY FileTypes DEF m
  <2>7. Decreasing'
    <3>1. \A k \in DOMAIN part : k # 0 => part'[k] = part[k] /\ part[k] < m
      BY <2>2, <2>6, FileTypes
    <3>2. part'[0] = m BY <2>2, FileTypes, FileAssumption
    <3>3. \A k \in DOMAIN part : k \in Nat BY FileTypes, FileAssumption
    <3> QED BY <2>3, <3>1, <3>2, <3>3 DEF FileInv, Decreasing
  <2>8. Newest' BY <2>1, <2>2, FileTypes, FileAssumption DEF Newest
  <2>9. Ascending' BY <2>5 DEF FileInv, Ascending
  <2>10. Streams'
    <3> SUFFICES ASSUME NEW i \in DOMAIN data', NEW a \in DOMAIN data'[i]
                 PROVE  LET q == data'[i][a][1]
                        IN  data'[i][a][2] \in 1..written'[q] /\ (fp'[q] # NULL => i <= fp'[q])
      BY DEF Streams
    <3>1. i \in DOMAIN data /\ a \in DOMAIN data[i] /\ data'[i] = data[i] BY <2>5
    <3>2. data[i][a][1] \in Processes /\ i \in Nat /\ i < m BY <2>6, <3>1, FileTypes
    <3>3. /\ data[i][a][2] \in 1..written[data[i][a][1]]
          /\ fp[data[i][a][1]] # NULL => i <= fp[data[i][a][1]]
      BY <3>1 DEF FileInv, Streams
    <3> QED BY <2>4, <2>6, <3>1, <3>2, <3>3
  <2>11. Complete'
    <3> SUFFICES ASSUME NEW q \in Processes, NEW x \in 1..written[q]
                 PROVE  \E i \in DOMAIN data' : \E a \in DOMAIN data'[i] : data'[i][a] = <<q, x>>
      BY DEF Complete
    <3>1. PICK i \in DOMAIN data : \E a \in DOMAIN data[i] : data[i][a] = <<q, x>>
      BY DEF FileInv, Complete
    <3>2. i \in DOMAIN data' /\ data'[i] = data[i] BY <2>1, <2>6, FileTypes
    <3> QED BY <3>1, <3>2
  <2> QED BY <2>7, <2>8, <2>9, <2>10, <2>11 DEF FileInv
<1>3. CASE fp' = [fp EXCEPT ![p] = NULL] /\ UNCHANGED <<part, data>>
  <2>1. \A q \in Processes : fp'[q] \in {NULL, fp[q]} BY <1>3 DEF TypeOK
  <2> QED BY <1>3, <2>1, QuietFile DEF fileVars
<1> QED BY <1>1, <1>2, <1>3 DEF OpenLog

LEMMA RemoveFile ==
    ASSUME TypeOK, FileInv, NEW t \in Threads, RemovePart(t)
    PROVE  FileInv'
<1>1. /\ UNCHANGED <<data, written, fp>> /\ DOMAIN part' = DOMAIN part
      /\ \A k \in DOMAIN part : part'[k] \in {NULL, part[k]}
  <2>1. part' = part \/ part' = [part EXCEPT ![n[t] + 1] = NULL] BY DEF RemovePart
  <2> QED BY <2>1 DEF RemovePart, TypeOK
<1>2. Decreasing' BY <1>1 DEF FileInv, Decreasing
<1>3. Newest' BY <1>1, FileTypes, FileAssumption DEF FileInv, Newest
<1>4. Ascending' BY <1>1 DEF FileInv, Ascending
<1>5. Streams' BY <1>1 DEF FileInv, Streams
<1>6. Complete' BY <1>1 DEF FileInv, Complete
<1> QED BY <1>2, <1>3, <1>4, <1>5, <1>6 DEF FileInv

(* The part takes the next place, where no other part is between.           *)
LEMMA RenameFile ==
    ASSUME TypeOK, FileInv, NEW t \in Threads, RenamePart(t)
    PROVE  FileInv'
<1> DEFINE m == n[t]
<1>1. m \in Nat /\ m \in DOMAIN part /\ m + 1 \in DOMAIN part
  BY FileTypes, FileAssumption
<1>2. UNCHANGED <<data, written, fp>> BY DEF RenamePart
<1>3. /\ DOMAIN part' = DOMAIN part
      /\ \/ part' = part
         \/ /\ part[m] # NULL
            /\ \A k \in DOMAIN part :
                  part'[k] = IF k = m THEN NULL ELSE IF k = m + 1 THEN part[m] ELSE part[k]
  <2>1. part' = part \/ (part[m] # NULL /\ part' = [part EXCEPT ![m + 1] = part[m], ![m] = NULL])
    BY DEF RenamePart
  <2> HIDE DEF m
  <2>2. CASE part' = part BY <2>2
  <2>3. CASE part[m] # NULL /\ part' = [part EXCEPT ![m + 1] = part[m], ![m] = NULL]
    <3>1. DOMAIN part' = DOMAIN part BY <2>3
    <3>2. \A k \in DOMAIN part :
             part'[k] = IF k = m THEN NULL ELSE IF k = m + 1 THEN part[m] ELSE part[k]
      BY <2>3
    <3> QED BY <1>1, <2>3, <3>1, <3>2
  <2> QED BY <2>1, <2>2, <2>3
<1> HIDE DEF m
<1>4. \A k \in DOMAIN part : k \in Nat /\ part[k] \in Nat BY FileTypes, FileAssumption
<1>5. Decreasing' BY <1>1, <1>3, <1>4 DEF FileInv, Decreasing
<1>6. Newest'
  <2>1. 0 \in DOMAIN part BY FileTypes, FileAssumption
  <2>2. part'[0] \in {NULL, part[0]} BY <1>1, <1>3, <2>1
  <2> QED BY <1>2, <2>2 DEF FileInv, Newest
<1>7. Ascending' BY <1>2 DEF FileInv, Ascending
<1>8. Streams' BY <1>2 DEF FileInv, Streams
<1>9. Complete' BY <1>2 DEF FileInv, Complete
<1> QED BY <1>5, <1>6, <1>7, <1>8, <1>9 DEF FileInv

(* The new log is the last of its process, and no file behind the stream's  *)
(* has one of them.                                                         *)
LEMMA WriteFile ==
    ASSUME TypeOK, FileInv, NEW t \in Threads, Fwrite(t)
    PROVE  FileInv'
<1> DEFINE p == ProcessOf[t]
           f == fp[p]
           w == written[p] + 1
           last == Len(data[f]) + 1
<1>0. p \in Processes /\ written[p] \in Nat BY FileTypes DEF TypeOK
<1>1. f \in DOMAIN data /\ f # NULL
  <2>1. f \in 0..Len(data) BY <1>0 DEF TypeOK
  <2>2. f # NULL BY DEF Fwrite
  <2> QED BY <2>1, <2>2, FileTypes DEF NULL
<1>2. /\ UNCHANGED <<part, fp>>
      /\ \A q \in Processes : written'[q] = IF q = p THEN w ELSE written[q]
      /\ data' = [data EXCEPT ![f] = Append(data[f], <<p, w>>)]
  BY <1>0 DEF Fwrite, TypeOK
<1>3. /\ DOMAIN data' = DOMAIN data /\ Len(data') = Len(data)
      /\ \A i \in DOMAIN data : i # f => data'[i] = data[i]
      /\ DOMAIN data'[f] = 1..last /\ data'[f][last] = <<p, w>>
      /\ \A a \in DOMAIN data[f] : data'[f][a] = data[f][a]
  <2>1. <<p, w>> \in Processes \X Nat BY <1>0
  <2>2. data[f] \in Seq(Processes \X Nat) BY <1>1, FileTypes
  <2>3. /\ Append(data[f], <<p, w>>) \in Seq(Processes \X Nat)
        /\ Len(Append(data[f], <<p, w>>)) = last
        /\ \A a \in 1..Len(data[f]) : Append(data[f], <<p, w>>)[a] = data[f][a]
        /\ Append(data[f], <<p, w>>)[last] = <<p, w>>
    BY <2>1, <2>2, AppendProperties
  <2>4. DOMAIN Append(data[f], <<p, w>>) = 1..last BY <2>3, LenProperties
  <2>5. data'[f] = Append(data[f], <<p, w>>) /\ DOMAIN data' = DOMAIN data
    BY <1>1, <1>2
  <2>6. Len(data') = Len(data) BY <1>1, <1>2, <2>3, FileTypes, ExceptSeq DEF TypeOK
  <2>7. \A i \in DOMAIN data : i # f => data'[i] = data[i] BY <1>2
  <2> QED BY <1>1, <2>3, <2>4, <2>5, <2>6, <2>7, FileTypes
<1>4. \A i \in DOMAIN data : \A a \in DOMAIN data'[i] :
         \/ i = f /\ a = last /\ data'[i][a] = <<p, w>>
         \/ a \in DOMAIN data[i] /\ data'[i][a] = data[i][a]
  BY <1>1, <1>3, FileTypes
<1>5. \A i \in DOMAIN data : \A a \in DOMAIN data[i] :
         /\ data[i][a][1] = p => i <= f /\ data[i][a][2] < w
         /\ i = f => a < last
  <2> SUFFICES ASSUME NEW i \in DOMAIN data, NEW a \in DOMAIN data[i]
               PROVE  /\ data[i][a][1] = p => i <= f /\ data[i][a][2] < w
                      /\ i = f => a < last
    OBVIOUS
  <2>1. i = f => a < last BY FileTypes
  <2>2. data[i][a][1] = p => i <= f /\ data[i][a][2] \in 1..written[p]
    BY <1>1 DEF FileInv, Streams
  <2> QED BY <1>0, <2>1, <2>2
<1>6. DOMAIN data \subseteq Nat /\ f \in Nat /\ last \in Nat /\ w \in Nat
  BY <1>0, <1>1, FileTypes
<1>7. \A i \in DOMAIN data : DOMAIN data[i] \subseteq Nat BY FileTypes
<1> HIDE DEF p, f, w, last
<1>8. Ascending'
  <2> SUFFICES ASSUME NEW i \in DOMAIN data, NEW j \in DOMAIN data,
                      NEW a \in DOMAIN data'[i], NEW b \in DOMAIN data'[j],
                      data'[i][a][1] = data'[j][b][1], i < j \/ (i = j /\ a < b)
               PROVE  data'[i][a][2] < data'[j][b][2]
    BY <1>3 DEF Ascending
  <2>1. CASE a \in DOMAIN data[i] /\ data'[i][a] = data[i][a]
    <3>1. CASE b \in DOMAIN data[j] /\ data'[j][b] = data[j][b]
      BY <2>1, <3>1 DEF FileInv, Ascending
    <3>2. CASE data'[j][b] = <<p, w>>
      BY <1>5, <2>1, <3>2
    <3> QED BY <1>4, <3>1, <3>2
  <2>2. CASE i = f /\ a = last /\ data'[i][a] = <<p, w>>
    <3>1. CASE b \in DOMAIN data[j] /\ data'[j][b] = data[j][b]
      <4>1. j <= f /\ (j = f => b < last) BY <1>5, <2>2, <3>1
      <4>2. j \in Nat /\ b \in Nat BY <1>6, <1>7, <3>1
      <4> QED BY <1>6, <2>2, <4>1, <4>2
    <3>2. CASE j = f /\ b = last
      BY <1>6, <2>2, <3>2
    <3> QED BY <1>4, <3>1, <3>2
  <2> QED BY <1>4, <2>1, <2>2
<1>9. Streams'
  <2> SUFFICES ASSUME NEW i \in DOMAIN data, NEW a \in DOMAIN data'[i]
               PROVE  LET q == data'[i][a][1]
                      IN  data'[i][a][2] \in 1..written'[q] /\ (fp'[q] # NULL => i <= fp'[q])
    BY <1>3 DEF Streams
  <2>1. CASE i = f /\ data'[i][a] = <<p, w>>
    <3>1. written'[p] = w /\ w \in 1..w /\ fp'[p] = f
      BY <1>0, <1>2 DEF f, w
    <3> QED BY <1>6, <2>1, <3>1
  <2>2. CASE a \in DOMAIN data[i] /\ data'[i][a] = data[i][a]
    <3> DEFINE q == data[i][a][1]
    <3>1. data[i][a][2] \in 1..written[q] /\ (fp[q] # NULL => i <= fp[q])
      BY <2>2 DEF FileInv, Streams
    <3>2. q \in Processes BY <2>2, FileTypes
    <3>3. written[q] \in Nat /\ written'[q] \in Nat /\ written[q] <= written'[q]
      <4>1. written[q] \in Nat BY <3>2 DEF TypeOK
      <4>2. written'[q] = written[q] \/ written'[q] = written[q] + 1
        BY <1>2, <3>2 DEF w
      <4> QED BY <4>1, <4>2
    <3> QED BY <1>2, <2>2, <3>1, <3>3
  <2> QED BY <1>4, <2>1, <2>2
<1>10. Complete'
  <2> SUFFICES ASSUME NEW q \in Processes, NEW x \in 1..written'[q]
               PROVE  \E i \in DOMAIN data' : \E a \in DOMAIN data'[i] : data'[i][a] = <<q, x>>
    BY DEF Complete
  <2>1. CASE q = p /\ x = w
    <3>1. last \in DOMAIN data'[f] BY <1>3, <1>6, FileTypes, <1>1 DEF last
    <3> QED BY <1>1, <1>3, <2>1, <3>1
  <2>2. CASE x \in 1..written[q]
    <3>1. PICK i \in DOMAIN data : \E a \in DOMAIN data[i] : data[i][a] = <<q, x>>
      BY <2>2 DEF FileInv, Complete
    <3>2. PICK a \in DOMAIN data[i] : data[i][a] = <<q, x>> BY <3>1
    <3>3. a \in DOMAIN data'[i] /\ data'[i][a] = data[i][a]
      <4>1. CASE i # f BY <1>3, <4>1
      <4>2. CASE i = f
        <5>1. a \in 1..Len(data[f]) /\ Len(data[f]) \in Nat BY <1>1, <4>2, FileTypes
        <5>2. a \in 1..last BY <5>1 DEF last
        <5> QED BY <1>3, <4>2, <5>2
      <4> QED BY <4>1, <4>2
    <3> QED BY <1>3, <3>2, <3>3
  <2>3. (q = p /\ x = w) \/ x \in 1..written[q]
    BY <1>0, <1>2 DEF w
  <2> QED BY <2>1, <2>2, <2>3
<1>11. Decreasing' BY <1>2 DEF FileInv, Decreasing
<1>12. Newest' BY <1>2, <1>3 DEF FileInv, Newest
<1> QED BY <1>8, <1>9, <1>10, <1>11, <1>12 DEF FileInv

LEMMA NextFile == ASSUME TypeOK, TypeOK', FileInv, [Next]_vars PROVE FileInv'
<1>0. \A t \in Threads : ProcessOf[t] \in Processes BY FileAssumption
<1>1. ASSUME NEW p \in Processes, Exit(p) PROVE FileInv'
  <2>1. \A q \in Processes : fp'[q] \in {NULL, fp[q]} BY <1>1 DEF Exit, TypeOK
  <2> QED BY <1>1, <2>1, QuietFile DEF Exit
<1>2. ASSUME NEW t \in Threads,
             \/ elog_file_init(t) \/ elog_file_deinit(t) \/ elog_file_write(t)
             \/ elog_file_port_lock(t) \/ lock_init(t) \/ lock_open(t)
             \/ elog_file_port_unlock(t) \/ ConfigClose(t) \/ TestSize(t)
      PROVE  FileInv'
  <2>1. UNCHANGED fileVars /\ (fp' = fp \/ fp' = [fp EXCEPT ![ProcessOf[t]] = NULL])
    BY <1>2 DEF elog_file_init, elog_file_deinit, elog_file_write, elog_file_port_lock,
                lock_init, lock_open, elog_file_port_unlock, ConfigClose, TestSize
  <2>2. \A q \in Processes : fp'[q] \in {NULL, fp[q]} BY <2>1 DEF TypeOK
  <2> QED BY <2>1, <2>2, QuietFile
<1>3. ASSUME NEW t \in Threads, ConfigOpen(t) \/ Reopen(t) PROVE FileInv'
  BY <1>0, <1>3, OpenFile DEF ConfigOpen, Reopen
<1>4. ASSUME NEW t \in Threads, RemovePart(t) PROVE FileInv' BY <1>4, RemoveFile
<1>5. ASSUME NEW t \in Threads, RenamePart(t) PROVE FileInv' BY <1>5, RenameFile
<1>6. ASSUME NEW t \in Threads, Fwrite(t) PROVE FileInv' BY <1>6, WriteFile
<1>7. ASSUME NEW t \in Threads, UseNoStream(t) PROVE FileInv'
  BY <1>0, <1>1, <1>7 DEF UseNoStream
<1>8. ASSUME NEW p \in Processes, Crash(p) PROVE FileInv' BY <1>1, <1>8 DEF Crash
<1>9. CASE UNCHANGED vars
  BY <1>9, QuietFile DEF vars
<1> QED
  BY <1>2, <1>3, <1>4, <1>5, <1>6, <1>7, <1>8, <1>9 DEF Next, CallStep

(***************************************************************************)
(* The logs found at the start.                                             *)
(***************************************************************************)
LEMMA LeastNat ==
    ASSUME NEW T \in SUBSET Nat, T # {}
    PROVE  \E m \in T : \A k \in T : m <= k
<1> DEFINE R == {ss \in Nat \X Nat : ss[1] < ss[2]}
<1>1. IsWellFoundedOn(R, Nat) BY NatLessThanWellFounded, Zenon DEF OpToRel
<1>2. \A k, m \in Nat : k < m => <<k, m>> \in R OBVIOUS
<1> HIDE DEF R
<1>3. PICK m \in T : \A k \in T : ~ (<<k, m>> \in R) BY <1>1, WFMin
<1>4. ASSUME NEW k \in T PROVE m <= k
  <2>1. k \in Nat /\ m \in Nat OBVIOUS
  <2>2. ~ (k < m) BY <1>2, <1>3, <2>1, Zenon
  <2> QED BY <2>1, <2>2
<1> QED BY <1>4

LEMMA BeforeFinite ==
    ASSUME NEW p, NEW i \in Nat
    PROVE  /\ IsFiniteSet({j \in 1..i : Earlier[j] = p})
           /\ Cardinality({j \in 1..i : Earlier[j] = p}) \in Nat
<1>0. {j \in 1..i : Earlier[j] = p} \in SUBSET (1..i) OBVIOUS
<1>1. IsFiniteSet(1..i) BY FS_Interval
<1>2. IsFiniteSet({j \in 1..i : Earlier[j] = p}) BY <1>0, <1>1, FS_Subset
<1> QED BY <1>2, FS_CardinalityType

LEMMA BeforeNothing == ASSUME NEW p PROVE Before(p, 0) = 0
<1>1. {j \in 1..0 : Earlier[j] = p} = {} OBVIOUS
<1>2. Cardinality({j \in 1..0 : Earlier[j] = p}) = 0 BY <1>1, FS_EmptySet
<1> QED BY <1>2, FileAssumption DEF Before

(* A part adds MAX_SIZE + 1 logs to those of the process that wrote it.     *)
LEMMA BeforeStep ==
    ASSUME NEW p, NEW i \in Nat \ {0}
    PROVE  Before(p, i) = Before(p, i - 1) + IF Earlier[i] = p THEN MAX_SIZE + 1 ELSE 0
<1> DEFINE S(k) == {j \in 1..k : Earlier[j] = p}
<1>0. i - 1 \in Nat /\ 1..i = 1..(i - 1) \cup {i} /\ i \notin 1..(i - 1) OBVIOUS
<1>1. IsFiniteSet(S(i - 1)) /\ Cardinality(S(i - 1)) \in Nat BY <1>0, BeforeFinite
<1>2. CASE Earlier[i] = p
  <2>1. S(i) = S(i - 1) \cup {i} BY <1>0, <1>2
  <2>2. i \notin S(i - 1) BY <1>0
  <2> HIDE DEF S
  <2>3. Cardinality(S(i)) = Cardinality(S(i - 1)) + 1 BY <1>1, <2>1, <2>2, FS_AddElement
  <2> DEFINE c == Cardinality(S(i - 1))
             m == MAX_SIZE + 1
  <2>4. c \in Nat /\ m \in Nat BY <1>1, FileAssumption
  <2>5. Before(p, i) = m * (c + 1) /\ Before(p, i - 1) = m * c BY <2>3 DEF Before, S
  <2> HIDE DEF c, m
  <2>6. m * (c + 1) = m * c + m BY <2>4
  <2> QED BY <1>2, <2>5, <2>6 DEF m
<1>3. CASE Earlier[i] # p
  <2>1. S(i) = S(i - 1) BY <1>0, <1>3
  <2>2. Before(p, i) = Before(p, i - 1) BY <2>1 DEF Before
  <2> QED BY <1>0, <1>3, <2>2, BeforeType
<1> QED BY <1>2, <1>3

(* A part that process Earlier[i] wrote adds MAX_SIZE + 1 logs to its own.   *)
LEMMA BeforeOwn ==
    ASSUME NEW i \in Nat \ {0}
    PROVE  Before(Earlier[i], i) = Before(Earlier[i], i - 1) + MAX_SIZE + 1
<1>1. Before(Earlier[i], i) = Before(Earlier[i], i - 1) + (MAX_SIZE + 1)
  BY BeforeStep
<1>2. i - 1 \in Nat OBVIOUS
<1>3. Before(Earlier[i], i - 1) \in Nat /\ MAX_SIZE \in Nat
  BY <1>2, BeforeType, FileAssumption
<1> QED BY <1>1, <1>3

LEMMA BeforeGrows ==
    ASSUME NEW p, NEW i \in Nat, NEW j \in Nat, i <= j
    PROVE  Before(p, i) <= Before(p, j)
<1> DEFINE S(k) == {l \in 1..k : Earlier[l] = p}
           c == Cardinality(S(i))
           d == Cardinality(S(j))
           m == MAX_SIZE + 1
<1>1. S(i) \in SUBSET S(j) OBVIOUS
<1>2. IsFiniteSet(S(j)) /\ c \in Nat /\ d \in Nat BY BeforeFinite
<1>3. c <= d BY <1>1, <1>2, FS_Subset
<1>4. m \in Nat BY FileAssumption
<1>5. Before(p, i) = m * c /\ Before(p, j) = m * d BY DEF Before
<1> HIDE DEF c, d, m
<1>6. m * c <= m * d
  <2>1. PICK e \in Nat : d = c + e BY <1>2, <1>3
  <2>2. m * d = m * c + m * e BY <1>2, <1>4, <2>1
  <2>3. m * e \in Nat /\ m * c \in Nat BY <1>2, <1>4, <2>1
  <2> QED BY <2>2, <2>3
<1> QED BY <1>5, <1>6

(* Each number up to the last belongs to one of the parts.                  *)
LEMMA BeforeMeets ==
    ASSUME NEW p, NEW m \in Nat, NEW x \in 1..Before(p, m)
    PROVE  \E i \in 1..m : Earlier[i] = p /\ x - Before(p, i - 1) \in 1..(MAX_SIZE + 1)
<1> DEFINE T == {k \in 0..m : x <= Before(p, k)}
<1>0. Before(p, m) \in Nat /\ x \in Nat /\ x >= 1 /\ x <= Before(p, m) BY BeforeType
<1>1. m \in T /\ T \in SUBSET Nat BY <1>0
<1>2. PICK i \in T : \A k \in T : i <= k BY <1>1, LeastNat
<1>3. i # 0 BY <1>0, <1>2, BeforeNothing
<1>4. i \in 1..m /\ i - 1 \in 0..m /\ i - 1 \notin T BY <1>2, <1>3
<1>5. x > Before(p, i - 1) /\ x <= Before(p, i) /\ Before(p, i - 1) \in Nat
  BY <1>0, <1>2, <1>4, BeforeType
<1>6. Before(p, i) = Before(p, i - 1) + IF Earlier[i] = p THEN MAX_SIZE + 1 ELSE 0
  BY <1>4, BeforeStep
<1>7. Earlier[i] = p BY <1>5, <1>6
<1>8. x - Before(p, i - 1) \in 1..(MAX_SIZE + 1)
  BY <1>0, <1>5, <1>6, <1>7, FileAssumption
<1> QED BY <1>4, <1>7, <1>8

LEMMA InitFile == ASSUME Init PROVE FileInv
<1> DEFINE N == Len(Earlier)
<1>0. TypeOK BY InitType
<1>1. Earlier \in Seq(Processes) /\ N \in Nat /\ DOMAIN Earlier = 1..N
  BY FileAssumption, LenProperties
<1>2. /\ Len(data) = N /\ DOMAIN data = 1..N
      /\ \A i \in 1..N : DOMAIN data[i] = 1..(MAX_SIZE + 1)
      /\ \A i \in 1..N : \A j \in 1..(MAX_SIZE + 1) :
            data[i][j] = <<Earlier[i], Before(Earlier[i], i - 1) + j>>
  <2>1. DOMAIN data = 1..N BY <1>1 DEF Init
  <2>2. Len(data) = N BY <1>0, <1>1, <2>1, FileTypes
  <2> QED BY <1>1, <2>1, <2>2 DEF Init
<1>3. \A p : \A i \in 1..N : Before(p, i - 1) \in Nat /\ Before(p, i) \in Nat
  BY <1>1, BeforeType
<1>4. \A i, j \in 1..N : i < j =>
         Before(Earlier[i], i - 1) + MAX_SIZE + 1 <= Before(Earlier[i], j - 1)
  <2> SUFFICES ASSUME NEW i \in 1..N, NEW j \in 1..N, i < j
               PROVE  Before(Earlier[i], i - 1) + MAX_SIZE + 1 <= Before(Earlier[i], j - 1)
    OBVIOUS
  <2>1. i \in Nat \ {0} /\ j - 1 \in Nat /\ i <= j - 1 BY <1>1
  <2>2. Before(Earlier[i], i) = Before(Earlier[i], i - 1) + MAX_SIZE + 1
    BY <2>1, BeforeOwn
  <2>3. Before(Earlier[i], i) <= Before(Earlier[i], j - 1) BY <2>1, BeforeGrows
  <2> QED BY <2>2, <2>3
<1>5. Ascending
  <2>0. ASSUME NEW i \in 1..N, NEW j \in 1..N,
               NEW a \in 1..(MAX_SIZE + 1), NEW b \in 1..(MAX_SIZE + 1),
               Earlier[i] = Earlier[j], i < j \/ (i = j /\ a < b)
        PROVE  Before(Earlier[i], i - 1) + a < Before(Earlier[j], j - 1) + b
    <3> DEFINE before == Before(Earlier[i], i - 1)
               behind == Before(Earlier[i], j - 1)
    <3>1. before \in Nat /\ behind \in Nat BY <1>3
    <3>2. i < j => before + MAX_SIZE + 1 <= behind BY <1>4
    <3>3. i = j => before = behind OBVIOUS
    <3>4. a \in Nat /\ b \in Nat /\ a <= MAX_SIZE + 1 /\ b >= 1 BY FileAssumption
    <3> HIDE DEF before, behind
    <3>5. before + a < behind + b BY <2>0, <3>1, <3>2, <3>3, <3>4, FileAssumption
    <3> QED BY <2>0, <3>5 DEF before, behind
  <2> SUFFICES ASSUME NEW i \in DOMAIN data, NEW j \in DOMAIN data,
                      NEW a \in DOMAIN data[i], NEW b \in DOMAIN data[j],
                      data[i][a][1] = data[j][b][1], i < j \/ (i = j /\ a < b)
               PROVE  data[i][a][2] < data[j][b][2]
    BY DEF Ascending
  <2>1. /\ i \in 1..N /\ j \in 1..N
        /\ a \in 1..(MAX_SIZE + 1) /\ b \in 1..(MAX_SIZE + 1)
    BY <1>2
  <2>2. /\ data[i][a] = <<Earlier[i], Before(Earlier[i], i - 1) + a>>
        /\ data[j][b] = <<Earlier[j], Before(Earlier[j], j - 1) + b>>
    BY <1>2, <2>1
  <2> QED BY <2>0, <2>1, <2>2
<1>6. Streams
  <2> SUFFICES ASSUME NEW i \in DOMAIN data, NEW a \in DOMAIN data[i]
               PROVE  LET p == data[i][a][1]
                      IN  data[i][a][2] \in 1..written[p] /\ (fp[p] # NULL => i <= fp[p])
    BY DEF Streams
  <2>0. i \in 1..N /\ a \in 1..(MAX_SIZE + 1) BY <1>2
  <2>1. data[i][a][1] = Earlier[i] /\ data[i][a][2] = Before(Earlier[i], i - 1) + a
    BY <1>2, <2>0
  <2>2. Earlier[i] \in Processes BY <1>1, <2>0, ElementOfSeq
  <2>3. written[Earlier[i]] = Before(Earlier[i], N) /\ fp[Earlier[i]] = NULL
    BY <2>2 DEF Init
  <2>4. i \in Nat \ {0} /\ i <= N BY <1>1, <2>0
  <2>5. Before(Earlier[i], i) = Before(Earlier[i], i - 1) + MAX_SIZE + 1
    BY <2>4, BeforeOwn
  <2>6. Before(Earlier[i], i) <= Before(Earlier[i], N) /\ Before(Earlier[i], N) \in Nat
    BY <1>1, <2>4, BeforeGrows, BeforeType
  <2>7. Before(Earlier[i], i - 1) + a \in 1..written[Earlier[i]]
    BY <1>3, <2>0, <2>3, <2>5, <2>6, FileAssumption
  <2> QED BY <2>1, <2>3, <2>7
<1>7. Complete
  <2> SUFFICES ASSUME NEW p \in Processes, NEW x \in 1..written[p]
               PROVE  \E i \in DOMAIN data : \E a \in DOMAIN data[i] : data[i][a] = <<p, x>>
    BY DEF Complete
  <2>1. x \in 1..Before(p, N) BY DEF Init
  <2>2. PICK i \in 1..N : Earlier[i] = p /\ x - Before(p, i - 1) \in 1..(MAX_SIZE + 1)
    BY <1>1, <2>1, BeforeMeets
  <2> DEFINE a == x - Before(p, i - 1)
  <2>3. Before(p, i - 1) + a = x BY <1>1, <1>3, <2>1, BeforeType
  <2>4. data[i][a] = <<p, x>> /\ i \in DOMAIN data /\ a \in DOMAIN data[i]
    BY <1>2, <2>2, <2>3
  <2> QED BY <2>4
<1>8. Decreasing /\ Newest
  <2>1. part = [k \in 0..MAX_ROTATE |-> IF k < N THEN N - k ELSE NULL]
    BY <1>2 DEF Init
  <2>2. DOMAIN part = 0..MAX_ROTATE /\ 0 \in 0..MAX_ROTATE BY <2>1, FileAssumption
  <2>3. Newest BY <1>1, <1>2, <2>1, <2>2 DEF Newest, NULL
  <2>4. \A k \in 0..MAX_ROTATE : part[k] = (IF k < N THEN N - k ELSE 0)
    BY <2>1 DEF NULL
  <2>5. Decreasing BY <1>1, <2>2, <2>4, FileAssumption DEF Decreasing, NULL
  <2> QED BY <2>3, <2>5
<1> QED BY <1>5, <1>6, <1>7, <1>8 DEF FileInv

(***************************************************************************)
(* The rotation, as long as everybody found the semaphore.                  *)
(***************************************************************************)
Rotating == {"remove", "rename", "reopen", "reopenFailed"}
Outside == {"idle", "post", "poll", "lockInit", "lockWrite", "lockClose"}

Found ==
    \A t \in Threads :
        ProcessOf[t] \in init_ok \/ pc[t] \notin {"idle", "post", "poll"}
            => ProcessOf[t] \in semid

\* What a rotation removes, or overwrites, is the oldest part, or one that it took
\* for absent when it should have moved it.
Rounds ==
    \A t \in Threads :
        pc[t] \in {"remove", "rename"} =>
            \/ n[t] = MAX_ROTATE - 1
            \/ part[n[t] + 1] \in misread \cup {NULL}

\* The files with a name are the youngest, but for those taken for absent.
Upper ==
    \A i \in DOMAIN data \ misread, k \in DOMAIN part :
        part[k] # NULL /\ part[k] <= i => \E l \in DOMAIN part : part[l] = i

\* A rotation takes the youngest file one place further, a rotation that ends
\* well puts a new one in front of it.
Young ==
    data # <<>> /\ faults < MAX_ROTATE /\ Len(data) \notin misread =>
        \E k \in DOMAIN part :
            /\ part[k] = Len(data)
            /\ \/ k <= faults
               \/ /\ k <= faults + 1
                  /\ \E t \in Threads : \/ pc[t] = "reopen"
                                        \/ pc[t] \in {"remove", "rename"} /\ n[t] + 1 < k

\* Where the files are when nothing goes wrong: in a rotation those behind the
\* place that n points at are one further.
Fresh == [k \in 0..MAX_ROTATE |-> IF k < Len(data) THEN Len(data) - k ELSE NULL]

Whole ==
    faults = 0 =>
        /\ \A t \in Threads : pc[t] # "reopenFailed"
        /\ (\A t \in Threads : pc[t] \notin Rotating) =>
              \A k \in DOMAIN part : part[k] = Fresh[k]
        /\ \A t \in Threads, k \in DOMAIN part :
              /\ pc[t] \in {"remove", "rename"} =>
                    /\ k <= n[t] => part[k] = Fresh[k]
                    /\ n[t] + 1 < k => part[k] = Fresh[k - 1]
              /\ pc[t] = "rename" => part[n[t] + 1] = NULL
              /\ pc[t] = "reopen" => part[0] = NULL /\ (0 < k => part[k] = Fresh[k - 1])

DiskInv == Rounds /\ Upper /\ Young /\ Whole

RotInv == ~unlocked => Found /\ DiskInv

LEMMA InitRot == ASSUME Init PROVE RotInv
<1>0. TypeOK BY InitType
<1>1. Found /\ Rounds BY DEF Init, Found, Rounds
<1>2. part = Fresh /\ faults = 0 /\ \A t \in Threads : pc[t] = "idle"
  BY DEF Init, Fresh
<1>3. \A i \in 1..Len(data) : i <= MAX_ROTATE + 1
  <2>1. Len(data) = Len(Earlier)
    <3>1. DOMAIN data = 1..Len(Earlier) BY FileAssumption, LenProperties DEF Init
    <3>2. Len(Earlier) \in Nat BY FileAssumption, LenProperties
    <3> QED BY <1>0, <3>1, <3>2, FileTypes
  <2> QED BY <2>1, FileAssumption, LenProperties
<1>4. \A i \in DOMAIN data : \E l \in DOMAIN part : part[l] = i
  <2> SUFFICES ASSUME NEW i \in DOMAIN data PROVE \E l \in DOMAIN part : part[l] = i
    OBVIOUS
  <2>1. i \in 1..Len(data) /\ Len(data) \in Nat BY <1>0, FileTypes
  <2> DEFINE l == Len(data) - i
  <2>2. l \in 0..MAX_ROTATE /\ l < Len(data) /\ Len(data) - l = i
    <3>1. Len(data) \in 1..Len(data) BY <2>1
    <3>2. Len(data) <= MAX_ROTATE + 1 BY <1>3, <3>1
    <3> QED BY <2>1, <3>2, FileAssumption
  <2> QED BY <1>2, <2>2 DEF Fresh
<1>5. Upper BY <1>4 DEF Upper
<1>6. Young
  <2> SUFFICES ASSUME data # <<>> PROVE part[0] = Len(data) /\ 0 \in DOMAIN part
    BY <1>2, FileAssumption DEF Young
  <2>1. Len(data) \in Nat /\ Len(data) # 0 BY <1>0, FileTypes, EmptySeq DEF TypeOK
  <2>2. 0 < Len(data) /\ Len(data) - 0 = Len(data) BY <2>1
  <2>3. 0 \in 0..MAX_ROTATE BY FileAssumption
  <2> QED BY <1>2, <2>2, <2>3 DEF Fresh
<1>7. Whole BY <1>2 DEF Whole
<1> QED BY <1>1, <1>5, <1>6, <1>7 DEF RotInv, DiskInv

(* One thread at a time is inside.                                          *)
LEMMA OnlyOne ==
    ASSUME SemInv, Found, NEW t \in Threads, NEW u \in Threads,
           pc[t] \notin Outside, pc[u] \notin Outside
    PROVE  t = u
<1>1. In(t) /\ In(u) BY DEF Found, In, Outside
<1> QED BY <1>1 DEF SemInv, Free, HeldBy, In

LEMMA NextFound ==
    ASSUME TypeOK, CallInv, Found, [Next]_vars, ~unlocked'
    PROVE  Found'
<1>0. \A t \in Threads : ProcessOf[t] \in Processes BY FileAssumption
<1>1. ASSUME NEW t \in Threads, NEW l \in Labels, Goto(t, l),
             UNCHANGED <<init_ok, semid>>,
             l \in {"post", "poll"} \/ pc[t] \notin {"idle", "post", "poll"}
                                    \/ ProcessOf[t] \in init_ok
      PROVE  Found'
  BY <1>1, GotoType DEF Found, TypeOK
<1>2. ASSUME NEW p \in Processes, Exit(p) PROVE Found'
  <2>1. /\ \A t \in Threads : pc'[t] = IF ProcessOf[t] = p THEN "idle" ELSE pc[t]
        /\ semid' = semid \ {p} /\ init_ok' = init_ok \ {p}
    BY <1>2 DEF Exit
  <2> QED BY <2>1 DEF Found
<1>3. ASSUME NEW t \in Threads, elog_file_init(t) PROVE Found'
  <2>1. \E l \in {"post", "poll"} : Goto(t, l) BY <1>3 DEF elog_file_init
  <2> QED BY <1>1, <1>3, <2>1, AllLabels DEF elog_file_init, semVars
<1>4. ASSUME NEW t \in Threads, elog_file_deinit(t) \/ elog_file_write(t) PROVE Found'
  <2>1. ProcessOf[t] \in init_ok /\ \E l \in {"lockClose", "lockWrite"} : Goto(t, l)
    BY <1>4 DEF elog_file_deinit, elog_file_write
  <2> QED BY <1>1, <1>4, <2>1, AllLabels DEF elog_file_deinit, elog_file_write, semVars
<1>5. ASSUME NEW t \in Threads, elog_file_port_lock(t) PROVE Found'
  <2>1. /\ pc[t] \in {"lockInit", "lockWrite", "lockClose"}
        /\ \E l \in {"open", "size", "close"} : Goto(t, l)
    BY <1>5, LockLabels DEF elog_file_port_lock
  <2> QED BY <1>1, <1>5, <2>1, AllLabels DEF elog_file_port_lock
<1>6. ASSUME NEW t \in Threads, lock_init(t) \/ lock_open(t) PROVE Found'
  <2>1. /\ semid' = semid \cup {ProcessOf[t]} /\ init_ok' = init_ok
        /\ Goto(t, "lockInit")
    BY <1>6 DEF lock_init, lock_open
  <2> QED BY <2>1, GotoType, AllLabels DEF Found, TypeOK
<1>7. ASSUME NEW t \in Threads, elog_file_port_unlock(t) PROVE Found'
  <2> DEFINE p == ProcessOf[t]
  <2>1. pc'[t] = "idle" /\ \A u \in Threads : u # t => pc'[u] = pc[u]
    BY <1>7, GotoType, AllLabels DEF elog_file_port_unlock, TypeOK
  <2>2. pc[t] \in {"unlockInit", "unlockWrite", "unlockClose"} /\ p \in semid
    BY <1>7 DEF elog_file_port_unlock, Unlocking, Found
  <2>3. CASE pc[t] = "unlockClose"
    <3>1. semid' = semid \ {p} /\ init_ok' = init_ok \ {p}
      BY <1>7, <2>3 DEF elog_file_port_unlock
    <3>2. \A u \in Threads : u # t /\ ProcessOf[u] = p => pc[u] = "idle"
      BY <2>3 DEF CallInv, CloseLabels
    <3> QED BY <2>1, <3>1, <3>2 DEF Found
  <2>4. CASE pc[t] # "unlockClose"
    <3>1. semid' = semid /\ (init_ok' = init_ok \/ init_ok' = init_ok \cup {p})
      BY <1>7, <2>2, <2>4 DEF elog_file_port_unlock
    <3> QED BY <2>1, <2>2, <3>1 DEF Found
  <2> QED BY <2>3, <2>4
<1>8. ASSUME NEW t \in Threads,
             \/ ConfigOpen(t) \/ ConfigClose(t) \/ TestSize(t) \/ RemovePart(t)
             \/ RenamePart(t) \/ Reopen(t) \/ Fwrite(t)
      PROVE  Found'
  <2>1. /\ pc[t] \notin {"idle", "post", "poll"}
        /\ UNCHANGED <<init_ok, semid>>
        /\ \E l \in {"unlockInit", "unlockClose", "remove", "fwrite", "rename",
                     "reopen", "reopenFailed", "unlockWrite"} : Goto(t, l)
    BY <1>8 DEF ConfigOpen, ConfigClose, TestSize, RemovePart, RenamePart, Loop, Reopen,
                Fwrite, semVars
  <2> QED BY <1>1, <2>1, AllLabels
<1>9. ASSUME NEW t \in Threads, UseNoStream(t) PROVE Found'
  BY <1>0, <1>2, <1>9 DEF UseNoStream
<1>10. ASSUME NEW p \in Processes, Crash(p) PROVE Found' BY <1>2, <1>10 DEF Crash
<1>11. CASE UNCHANGED vars BY <1>11 DEF vars, semVars, Found
<1> QED
  BY <1>3, <1>4, <1>5, <1>6, <1>7, <1>8, <1>9, <1>10, <1>11 DEF Next, CallStep

(* Nothing moves, and nobody begins or ends a rotation.                     *)
LEMMA QuietDisk ==
    ASSUME DiskInv, UNCHANGED <<part, data, faults, misread>>,
           \A t \in Threads :
              pc[t] \in Rotating \/ pc'[t] \in Rotating => pc'[t] = pc[t] /\ n'[t] = n[t]
    PROVE  DiskInv'
<1> USE DEF Rotating
<1>1. Rounds' BY DEF DiskInv, Rounds
<1>2. Upper' BY DEF DiskInv, Upper
<1>3. Young' BY DEF DiskInv, Young
<1>4. Whole'
  <2>1. Fresh' = Fresh BY DEF Fresh
  <2>2. (\A t \in Threads : pc'[t] \notin Rotating) => \A t \in Threads : pc[t] \notin Rotating
    OBVIOUS
  <2> QED BY <2>1, <2>2 DEF DiskInv, Whole
<1> QED BY <1>1, <1>2, <1>3, <1>4 DEF DiskInv

(* A process is killed; the youngest file may have moved.                   *)
LEMMA CrashDisk ==
    ASSUME TypeOK, DiskInv, NEW p \in Processes, Exit(p), faults' = faults + 1
    PROVE  DiskInv'
<1>1. /\ \A t \in Threads : pc'[t] = "idle" \/ pc'[t] = pc[t]
      /\ UNCHANGED <<part, data, misread, n>>
  BY DEF Exit, fileVars
<1>2. faults \in Nat BY FileAssumption DEF TypeOK
<1>3. Rounds' BY <1>1 DEF DiskInv, Rounds
<1>4. Upper' BY <1>1 DEF DiskInv, Upper
<1>5. Young'
  <2> SUFFICES ASSUME data # <<>>, faults + 1 < MAX_ROTATE, Len(data) \notin misread
               PROVE  \E k \in DOMAIN part : part[k] = Len(data) /\ k <= faults + 1
    BY <1>1 DEF Young
  <2>1. PICK k \in DOMAIN part : part[k] = Len(data) /\ (k <= faults \/ k <= faults + 1)
    BY <1>2, FileAssumption DEF DiskInv, Young
  <2>2. k \in Nat BY FileTypes
  <2> QED BY <1>2, <2>1, <2>2
<1>6. Whole' BY <1>2 DEF Whole
<1> QED BY <1>3, <1>4, <1>5, <1>6 DEF DiskInv

(* Of a thread inside: the others are at no step of a rotation.             *)
LEMMA OthersRest ==
    ASSUME TypeOK, SemInv, Found, NEW t \in Threads, pc[t] \notin Outside,
           NEW l \in Labels, Goto(t, l)
    PROVE  /\ pc'[t] = l
           /\ \A u \in Threads : u # t => pc[u] \notin Rotating /\ pc'[u] \notin Rotating
<1>1. pc'[t] = l /\ \A u \in Threads : u # t => pc'[u] = pc[u] BY GotoType DEF TypeOK
<1>2. \A u \in Threads : u # t => pc[u] \in Outside BY OnlyOne
<1> QED BY <1>1, <1>2 DEF Outside, Rotating

LEMMA TestDisk ==
    ASSUME TypeOK, SemInv, Found, DiskInv, NEW t \in Threads, TestSize(t)
    PROVE  DiskInv'
<1>0. pc[t] = "size" /\ UNCHANGED <<part, data, faults, misread>>
  BY DEF TestSize, fileVars, bounds
<1>1. \A u \in Threads : pc[u] \notin Rotating
  <2>1. \E l \in {"remove", "fwrite"} : Goto(t, l) BY DEF TestSize
  <2> QED BY <1>0, <2>1, OthersRest, AllLabels DEF Outside, Rotating
<1>2. CASE Goto(t, "fwrite")
  <2>1. \A u \in Threads : pc'[u] \notin Rotating
    BY <1>0, <1>2, OthersRest, AllLabels DEF Outside, Rotating
  <2> QED BY <1>0, <1>1, <2>1, QuietDisk
<1>3. CASE Goto(t, "remove") /\ n' = [n EXCEPT ![t] = MAX_ROTATE - 1]
  <2>1. pc'[t] = "remove" /\ \A u \in Threads : u # t => pc'[u] \notin Rotating
    BY <1>0, <1>3, OthersRest, AllLabels DEF Outside
  <2>2. n'[t] = MAX_ROTATE - 1 BY <1>3 DEF TypeOK
  <2>3. Rounds' BY <2>1, <2>2 DEF Rounds, Rotating
  <2>4. Upper' BY <1>0 DEF DiskInv, Upper
  <2>5. Young' BY <1>0, <1>1 DEF DiskInv, Young, Rotating
  <2>6. Whole'
    <3>1. faults = 0 => \A k \in DOMAIN part : part[k] = Fresh[k]
      BY <1>1 DEF DiskInv, Whole
    <3>2. Fresh' = Fresh BY <1>0 DEF Fresh
    <3>3. \A k \in DOMAIN part : ~ (n'[t] + 1 < k) BY <2>2, FileTypes, FileAssumption
    <3>4. ~ \A u \in Threads : pc'[u] \notin Rotating BY <2>1 DEF Rotating
    <3>5. \A u \in Threads : pc'[u] \in Rotating => u = t /\ pc'[u] = "remove" BY <2>1
    <3> QED BY <1>0, <3>1, <3>2, <3>3, <3>4, <3>5 DEF Whole, Rotating
  <2> QED BY <2>3, <2>4, <2>5, <2>6 DEF DiskInv
<1> QED BY <1>2, <1>3 DEF TestSize

(* A call fails, and no file moves: the youngest is still where it was, or it is
   now among those that were taken for absent.                              *)
LEMMA FaultYoung ==
    ASSUME TypeOK, DiskInv, faults' = faults + 1, UNCHANGED <<part, data>>,
           misread \subseteq misread'
    PROVE  Young'
<1> SUFFICES ASSUME data # <<>>, faults + 1 < MAX_ROTATE, Len(data) \notin misread
             PROVE  \E k \in DOMAIN part : part[k] = Len(data) /\ k <= faults + 1
  BY DEF Young
<1>1. faults \in Nat BY FileAssumption DEF TypeOK
<1>2. PICK k \in DOMAIN part : part[k] = Len(data) /\ (k <= faults \/ k <= faults + 1)
  BY <1>1, FileAssumption DEF DiskInv, Young
<1>3. k \in Nat BY FileTypes
<1> QED BY <1>1, <1>2, <1>3

LEMMA RemoveDisk ==
    ASSUME TypeOK, SemInv, Found, FileInv, DiskInv, NEW t \in Threads, RemovePart(t)
    PROVE  DiskInv'
<1> DEFINE m == n[t]
<1>0. pc[t] = "remove" /\ UNCHANGED <<data, misread, n>> BY DEF RemovePart
<1>1. /\ pc'[t] = "rename"
      /\ \A u \in Threads : u # t => pc[u] \notin Rotating /\ pc'[u] \notin Rotating
  BY <1>0, OthersRest, AllLabels DEF RemovePart, Outside
<1>2. m \in 0..(MAX_ROTATE - 1) /\ m \in Nat /\ m + 1 \in DOMAIN part
  BY FileTypes, FileAssumption
<1>3. m = MAX_ROTATE - 1 \/ part[m + 1] \in misread \cup {NULL}
  BY <1>0 DEF DiskInv, Rounds
<1>4. n'[t] = m BY <1>0
<1>5. DOMAIN part = 0..MAX_ROTATE BY FileTypes
<1>6. \A k \in DOMAIN part : k \in Nat /\ part[k] \in Nat BY FileTypes
<1>7. faults \in Nat BY FileAssumption DEF TypeOK
<1>8. CASE part' = [part EXCEPT ![m + 1] = NULL] /\ UNCHANGED bounds
  <2>1. /\ DOMAIN part' = DOMAIN part /\ faults' = faults
        /\ \A k \in DOMAIN part : part'[k] = IF k = m + 1 THEN NULL ELSE part[k]
    BY <1>8 DEF TypeOK, bounds
  <2> HIDE DEF m
  <2>2. Rounds'
    <3>1. part'[n'[t] + 1] = NULL BY <1>2, <1>4, <2>1
    <3> QED BY <1>1, <3>1 DEF Rounds, Rotating
  <2>3. Upper'
    <3> SUFFICES ASSUME NEW i \in DOMAIN data \ misread, NEW k \in DOMAIN part,
                        part'[k] # NULL, part'[k] <= i
                 PROVE  \E l \in DOMAIN part : part'[l] = i
      BY <1>0, <2>1 DEF Upper
    <3>1. k # m + 1 /\ part[k] # NULL /\ part[k] <= i BY <2>1
    <3>2. PICK l \in DOMAIN part : part[l] = i BY <3>1 DEF DiskInv, Upper
    <3>3. i # NULL BY FileTypes DEF NULL
    <3>4. l # m + 1
      <4> SUFFICES ASSUME l = m + 1 PROVE FALSE OBVIOUS
      <4>1. l = MAX_ROTATE BY <1>2, <1>3, <3>2, <3>3, FileAssumption
      <4>2. k < l BY <1>5, <3>1, <4>1, FileAssumption
      <4>3. part[l] < part[k] BY <3>1, <3>2, <3>3, <4>2 DEF FileInv, Decreasing
      <4> QED BY <1>6, <3>1, <3>2, <4>3
    <3> QED BY <2>1, <3>2, <3>4
  <2>4. Young'
    <3> SUFFICES ASSUME data # <<>>, faults < MAX_ROTATE, Len(data) \notin misread
                 PROVE  \E k \in DOMAIN part :
                           /\ part'[k] = Len(data)
                           /\ \/ k <= faults
                              \/ k <= faults + 1 /\ m + 1 < k
      BY <1>0, <1>1, <1>4, <2>1 DEF Young
    <3>1. PICK k \in DOMAIN part :
             /\ part[k] = Len(data)
             /\ \/ k <= faults
                \/ k <= faults + 1 /\ m + 1 < k
      BY <1>0, <1>1 DEF DiskInv, Young, Rotating, m
    <3>2. Len(data) # NULL BY FileTypes, EmptySeq DEF TypeOK, NULL
    <3>3. k # m + 1
      <4>1. part[k] \notin misread \cup {NULL} BY <3>1, <3>2
      <4>2. k \in Nat /\ MAX_ROTATE \in Nat BY <1>6, FileAssumption
      <4>3. m + 1 = MAX_ROTATE => k # m + 1 BY <1>2, <1>7, <3>1, <4>2
      <4> QED BY <1>2, <1>3, <4>1, <4>2, <4>3
    <3> QED BY <2>1, <3>1, <3>3
  <2>5. Whole'
    <3> SUFFICES ASSUME faults = 0 PROVE Whole' BY <2>1 DEF Whole
    <3>1. /\ \A k \in DOMAIN part : k <= m => part[k] = Fresh[k]
          /\ \A k \in DOMAIN part : m + 1 < k => part[k] = Fresh[k - 1]
      BY <1>0 DEF DiskInv, Whole, m
    <3>2. /\ \A k \in DOMAIN part : k <= m => part'[k] = Fresh[k]
          /\ \A k \in DOMAIN part : m + 1 < k => part'[k] = Fresh[k - 1]
          /\ part'[m + 1] = NULL
      BY <1>2, <1>6, <2>1, <3>1
    <3>3. Fresh' = Fresh BY <1>0 DEF Fresh
    <3>4. ~ \A u \in Threads : pc'[u] \notin Rotating BY <1>1 DEF Rotating
    <3>5. \A u \in Threads : pc'[u] \in Rotating => u = t /\ pc'[u] = "rename" BY <1>1
    <3> QED BY <1>4, <2>1, <3>2, <3>3, <3>4, <3>5 DEF Whole, Rotating
  <2> QED BY <2>2, <2>3, <2>4, <2>5 DEF DiskInv
<1>9. CASE Fault /\ UNCHANGED part
  <2>1. faults' = faults + 1 BY <1>9 DEF Fault
  <2>2. Rounds' BY <1>0, <1>1, <1>3, <1>4, <1>9 DEF Rounds, Rotating
  <2>3. Upper' BY <1>0, <1>9 DEF DiskInv, Upper
  <2>4. Young' BY <1>0, <1>9, <2>1, FaultYoung
  <2>5. Whole' BY <1>7, <2>1 DEF Whole
  <2> QED BY <2>2, <2>3, <2>4, <2>5 DEF DiskInv
<1> QED BY <1>8, <1>9 DEF RemovePart

(* The place that a part takes is free, or it is that of the oldest part or of a
   part that was taken for absent.                                          *)
LEMMA RenameDisk ==
    ASSUME TypeOK, SemInv, Found, FileInv, DiskInv, NEW t \in Threads, RenamePart(t)
    PROVE  DiskInv'
<1> DEFINE m == n[t]
<1>0. pc[t] = "rename" /\ pc[t] \notin Outside /\ data' = data
  BY DEF RenamePart, Outside
<1>1. m \in 0..(MAX_ROTATE - 1) /\ m \in Nat /\ m \in DOMAIN part /\ m + 1 \in DOMAIN part
  BY FileTypes, FileAssumption
<1>2. \A k \in DOMAIN part : k \in Nat /\ part[k] \in Nat BY FileTypes
<1>3. m = MAX_ROTATE - 1 \/ part[m + 1] \in misread \cup {NULL}
  BY <1>0 DEF DiskInv, Rounds
<1>4. Fresh' = Fresh BY <1>0 DEF Fresh
<1>5. faults \in Nat BY FileAssumption DEF TypeOK
<1>6. CASE Fault /\ Goto(t, "reopenFailed") /\ UNCHANGED <<part, misread, n>>
  <2>1. pc'[t] = "reopenFailed" /\ \A u \in Threads : u # t => pc'[u] \notin Rotating
    BY <1>0, <1>6, OthersRest, AllLabels
  <2>2. faults' = faults + 1 BY <1>6 DEF Fault
  <2>3. Rounds' BY <2>1 DEF Rounds, Rotating
  <2>4. Upper' BY <1>0, <1>6 DEF DiskInv, Upper
  <2>5. Young' BY <1>0, <1>6, <2>2, FaultYoung
  <2>6. Whole' BY <1>5, <2>2 DEF Whole
  <2> QED BY <2>3, <2>4, <2>5, <2>6 DEF DiskInv
<1>7. ASSUME Loop(t)
      PROVE  /\ \/ m > 0 /\ pc'[t] = "remove" /\ n'[t] = m - 1
                \/ m = 0 /\ pc'[t] = "reopen"
             /\ \A u \in Threads : u # t => pc[u] \notin Rotating /\ pc'[u] \notin Rotating
  <2>1. \/ m > 0 /\ pc'[t] = "remove" /\ n'[t] = m - 1
        \/ m = 0 /\ pc'[t] = "reopen"
    <3>1. CASE m > 0
      <4>1. Goto(t, "remove") /\ n' = [n EXCEPT ![t] = n[t] - 1] BY <1>7, <3>1 DEF Loop
      <4> QED BY <3>1, <4>1, <1>0, OthersRest, AllLabels DEF TypeOK
    <3>2. CASE m = 0
      <4>1. Goto(t, "reopen") BY <1>7, <3>2 DEF Loop
      <4> QED BY <3>2, <4>1, <1>0, OthersRest, AllLabels
    <3> QED BY <1>1, <3>1, <3>2
  <2>2. \A u \in Threads : u # t => pc[u] \notin Rotating /\ pc'[u] \notin Rotating
    <3>1. \E l \in {"remove", "reopen"} : Goto(t, l) BY <1>7 DEF Loop
    <3> QED BY <1>0, <3>1, OthersRest, AllLabels
  <2> QED BY <2>1, <2>2
<1>8. CASE /\ part[m] # NULL /\ Fault /\ Loop(t) /\ UNCHANGED part
           /\ misread' = IF m > 0 THEN misread \cup {part[m]} ELSE misread
  <2>1. faults' = faults + 1 BY <1>8 DEF Fault
  <2>2. misread \subseteq misread' /\ (m > 0 => part[m] \in misread')
    BY <1>8
  <2>3. Rounds'
    <3> HIDE DEF m
    <3>1. m > 0 => part'[m - 1 + 1] \in misread' BY <1>1, <1>8, <2>2
    <3>2. ASSUME NEW u \in Threads, pc'[u] \in {"remove", "rename"}
          PROVE  part'[n'[u] + 1] \in misread'
      <4>1. u = t BY <1>7, <1>8, <3>2 DEF Rotating
      <4>2. m > 0 /\ n'[t] = m - 1 BY <1>7, <1>8, <3>2, <4>1
      <4> QED BY <3>1, <4>1, <4>2
    <3> QED BY <3>2 DEF Rounds
  <2>4. Upper' BY <1>0, <1>8, <2>2 DEF DiskInv, Upper
  <2>5. Young' BY <1>0, <1>8, <2>1, <2>2, FaultYoung
  <2>6. Whole' BY <1>5, <2>1 DEF Whole
  <2> QED BY <2>3, <2>4, <2>5, <2>6 DEF DiskInv
<1>9. CASE /\ part' = IF part[m] = NULL THEN part
                      ELSE [part EXCEPT ![m + 1] = part[m], ![m] = NULL]
           /\ Loop(t) /\ UNCHANGED <<misread, bounds>>
  <2>1. DOMAIN part' = DOMAIN part BY <1>9
  <2>2. /\ part'[m] = NULL
        /\ \A k \in DOMAIN part : k # m /\ k # m + 1 => part'[k] = part[k]
        /\ part'[m + 1] = IF part[m] = NULL THEN part[m + 1] ELSE part[m]
        /\ part[m] = NULL => part' = part
    <3> HIDE DEF m
    <3>0. m + 1 # m BY <1>1
    <3>1. CASE part[m] = NULL BY <1>1, <1>9, <3>1
    <3>2. CASE part[m] # NULL BY <1>1, <1>9, <3>0, <3>2
    <3> QED BY <3>1, <3>2
  <2>3. faults' = faults BY <1>9 DEF bounds
  <2>4. \/ m > 0 /\ pc'[t] = "remove" /\ n'[t] = m - 1
        \/ m = 0 /\ pc'[t] = "reopen"
    BY <1>7, <1>9
  <2>5. \A u \in Threads : u # t => pc[u] \notin Rotating /\ pc'[u] \notin Rotating
    BY <1>7, <1>9
  <2> HIDE DEF m
  <2>6. m - 1 + 1 = m /\ (m > 0 => m - 1 \in Nat) BY <1>1
  <2>7. Rounds'
    <3>1. part'[m] = NULL BY <1>1, <2>2
    <3> QED BY <2>4, <2>5, <2>6, <3>1 DEF Rounds, Rotating
  <2>8. Upper'
    <3> SUFFICES ASSUME NEW i \in DOMAIN data \ misread, NEW k \in DOMAIN part,
                        part'[k] # NULL, part'[k] <= i
                 PROVE  \E l \in DOMAIN part : part'[l] = i
      BY <1>0, <1>9, <2>1 DEF Upper
    <3>1. CASE part[m] = NULL
      BY <2>2, <3>1 DEF DiskInv, Upper
    <3>2. CASE part[m] # NULL
      <4>1. PICK j \in DOMAIN part : part[j] = part'[k] /\ j # m + 1
        <5>1. k # m BY <2>2
        <5>2. CASE k = m + 1 BY <1>1, <2>2, <3>2, <5>2
        <5>3. CASE k # m + 1 BY <2>2, <5>1, <5>3
        <5> QED BY <5>2, <5>3
      <4>2. PICK l \in DOMAIN part : part[l] = i BY <4>1 DEF DiskInv, Upper
      <4>3. i # NULL BY FileTypes DEF NULL
      <4>4. l # m + 1
        <5> SUFFICES ASSUME l = m + 1 PROVE FALSE OBVIOUS
        <5>1. l = MAX_ROTATE BY <1>1, <1>3, <4>2, <4>3, FileAssumption
        <5>2. j < l BY <4>1, <5>1, FileTypes, FileAssumption
        <5>3. part[l] < part[j] BY <4>1, <4>2, <4>3, <5>2 DEF FileInv, Decreasing
        <5> QED BY <1>2, <4>1, <4>2, <5>3
      <4>5. CASE l = m BY <1>1, <2>2, <3>2, <4>2, <4>5
      <4>6. CASE l # m BY <2>2, <4>2, <4>4, <4>6
      <4> QED BY <4>5, <4>6
    <3> QED BY <3>1, <3>2
  <2>9. Young'
    <3> SUFFICES ASSUME data # <<>>, faults < MAX_ROTATE, Len(data) \notin misread
                 PROVE  \E k \in DOMAIN part :
                           /\ part'[k] = Len(data)
                           /\ \/ k <= faults
                              \/ /\ k <= faults + 1
                                 /\ \/ pc'[t] = "reopen"
                                    \/ pc'[t] = "remove" /\ n'[t] + 1 < k
      BY <1>0, <1>9, <2>1, <2>3 DEF Young
    <3>1. PICK k \in DOMAIN part :
             /\ part[k] = Len(data)
             /\ \/ k <= faults
                \/ k <= faults + 1 /\ m + 1 < k
      BY <1>0, <2>5 DEF DiskInv, Young, Rotating, m
    <3>2. Len(data) # NULL BY FileTypes, EmptySeq DEF TypeOK, NULL
    <3>3. k # m + 1
      <4>1. part[k] \notin misread \cup {NULL} BY <3>1, <3>2
      <4>2. k \in Nat /\ MAX_ROTATE \in Nat BY <1>2, FileAssumption
      <4>3. m + 1 = MAX_ROTATE => k # m + 1 BY <1>1, <1>5, <3>1, <4>2
      <4> QED BY <1>1, <1>3, <4>1, <4>2, <4>3
    <3>4. CASE k = m
      <4>1. part'[m + 1] = Len(data) BY <1>1, <2>2, <3>1, <3>2, <3>4
      <4>2. m + 1 <= faults + 1 BY <1>1, <1>5, <3>1, <3>4
      <4>3. pc'[t] = "reopen" \/ (pc'[t] = "remove" /\ n'[t] + 1 < m + 1)
        BY <1>1, <2>4
      <4> QED BY <1>1, <4>1, <4>2, <4>3
    <3>5. CASE k # m
      <4>1. part'[k] = Len(data) BY <2>2, <3>1, <3>3, <3>5
      <4>2. m + 1 < k => pc'[t] = "reopen" \/ (pc'[t] = "remove" /\ n'[t] + 1 < k)
        BY <1>1, <1>2, <2>4
      <4> QED BY <3>1, <4>1, <4>2
    <3> QED BY <3>4, <3>5
  <2>10. Whole'
    <3> SUFFICES ASSUME faults = 0 PROVE Whole' BY <2>3 DEF Whole
    <3>1. /\ \A k \in DOMAIN part : k <= m => part[k] = Fresh[k]
          /\ \A k \in DOMAIN part : m + 1 < k => part[k] = Fresh[k - 1]
      BY <1>0 DEF DiskInv, Whole, m
    <3>0. part[m + 1] = NULL BY <1>0, <1>1 DEF DiskInv, Whole, m
    <3>2. /\ \A k \in DOMAIN part : k < m => part'[k] = Fresh[k]
          /\ \A k \in DOMAIN part : m < k => part'[k] = Fresh[k - 1]
      <4>1. ASSUME NEW k \in DOMAIN part, k < m PROVE part'[k] = Fresh[k]
        BY <1>1, <1>2, <2>2, <3>1, <4>1
      <4>2. ASSUME NEW k \in DOMAIN part, m < k PROVE part'[k] = Fresh[k - 1]
        <5>1. CASE k = m + 1
          <6>1. part'[k] = part[m] /\ k - 1 = m BY <1>1, <2>2, <3>0, <5>1
          <6> QED BY <1>1, <3>1, <6>1
        <5>2. CASE k # m + 1
          <6>1. part'[k] = part[k] /\ m + 1 < k BY <1>1, <1>2, <2>2, <4>2, <5>2
          <6> QED BY <3>1, <6>1
        <5> QED BY <5>1, <5>2
      <4> QED BY <4>1, <4>2
    <3>3. ~ \A u \in Threads : pc'[u] \notin Rotating BY <2>4 DEF Rotating
    <3>4. \A u \in Threads : pc'[u] \in Rotating => u = t BY <2>5
    <3>5. pc'[t] \in {"remove", "reopen"} BY <2>4
    <3>6. pc'[t] = "remove" => \A k \in DOMAIN part :
             /\ k <= n'[t] => part'[k] = Fresh[k]
             /\ n'[t] + 1 < k => part'[k] = Fresh[k - 1]
      BY <1>1, <1>2, <2>4, <3>2
    <3>7. pc'[t] = "reopen" =>
             /\ part'[0] = NULL
             /\ \A k \in DOMAIN part : 0 < k => part'[k] = Fresh[k - 1]
      BY <2>2, <2>4, <3>2
    <3> QED BY <1>4, <2>1, <3>3, <3>4, <3>5, <3>6, <3>7 DEF Whole, Rotating
  <2> QED BY <2>7, <2>8, <2>9, <2>10 DEF DiskInv
<1> QED BY <1>6, <1>8, <1>9 DEF RenamePart

(* A new file takes the name that is free; or the stream is that of the     *)
(* youngest file, or there is none.                                         *)
LEMMA OpenDisk ==
    ASSUME TypeOK, SemInv, Found, FileInv, DiskInv,
           NEW t \in Threads, pc[t] \in {"open", "reopen", "reopenFailed"},
           OpenLog(ProcessOf[t]), NEW l \in Labels \ Rotating, Goto(t, l),
           misread' = misread
    PROVE  DiskInv'
<1>0. \A u \in Threads : pc'[u] \notin Rotating /\ (u # t => pc[u] \notin Rotating)
  BY OthersRest DEF Outside
<1>1. Rounds' BY <1>0 DEF Rounds, Rotating
<1>2. 0 \in DOMAIN part /\ \A k \in DOMAIN part : k \in 0..MAX_ROTATE /\ part[k] \in Nat
  BY FileTypes, FileAssumption
<1>3. faults \in Nat /\ Len(data) \in Nat BY FileTypes, FileAssumption DEF TypeOK
<1>4. /\ faults = 0 /\ pc[t] = "reopen" => part[0] = NULL
      /\ faults = 0 => pc[t] # "reopenFailed"
      /\ faults = 0 /\ pc[t] = "reopen" =>
            \A k \in DOMAIN part : 0 < k => part[k] = Fresh[k - 1]
      /\ faults = 0 /\ pc[t] = "open" => \A k \in DOMAIN part : part[k] = Fresh[k]
  <2>1. pc[t] = "open" => \A u \in Threads : pc[u] \notin Rotating BY <1>0 DEF Rotating
  <2> QED BY <1>2, <2>1 DEF DiskInv, Whole
<1>5. CASE part[0] # NULL /\ UNCHANGED <<part, data, bounds>>
  <2>1. part[0] = Len(data) BY <1>5 DEF FileInv, Newest
  <2>2. Upper' BY <1>5 DEF DiskInv, Upper
  <2>3. Young' BY <1>2, <1>3, <1>5, <2>1 DEF Young, bounds
  <2>4. Fresh' = Fresh BY <1>5 DEF Fresh
  <2>5. Whole' BY <1>0, <1>4, <1>5, <2>4 DEF Whole, Rotating, bounds
  <2> QED BY <1>1, <2>2, <2>3, <2>5 DEF DiskInv
<1>6. CASE /\ part[0] = NULL /\ data' = Append(data, <<>>)
           /\ part' = [part EXCEPT ![0] = Len(data')]
           /\ UNCHANGED bounds
  <2> DEFINE m == Len(data) + 1
  <2>1. Len(data') = m /\ DOMAIN data' = 1..m
    <3>1. <<>> \in Seq(Processes \X Nat) BY EmptySeq
    <3>2. Len(data') = m /\ data' \in Seq(Seq(Processes \X Nat))
      BY <1>6, <3>1, AppendProperties DEF TypeOK
    <3> QED BY <3>2, LenProperties
  <2>2. /\ DOMAIN part' = DOMAIN part
        /\ \A k \in DOMAIN part : part'[k] = IF k = 0 THEN m ELSE part[k]
    BY <1>6, <2>1 DEF TypeOK
  <2>3. Upper'
    <3> SUFFICES ASSUME NEW i \in 1..m, i \notin misread,
                        NEW k \in DOMAIN part, part'[k] # NULL, part'[k] <= i
                 PROVE  \E j \in DOMAIN part : part'[j] = i
      BY <2>1, <2>2 DEF Upper
    <3>1. CASE i = m BY <1>2, <2>2, <3>1
    <3>2. CASE i # m
      <4>0. i \in 1..Len(data) /\ i < m BY <1>3, <3>2
      <4>1. i \in DOMAIN data /\ k # 0
        <5>1. k = 0 => part'[k] = m BY <2>2
        <5> QED BY <1>3, <4>0, <5>1, FileTypes
      <4>2. PICK j \in DOMAIN part : part[j] = i
        BY <2>2, <4>1 DEF DiskInv, Upper
      <4>3. j # 0 BY <1>6, <4>1, <4>2, FileTypes DEF NULL
      <4> QED BY <2>2, <4>2, <4>3
    <3> QED BY <3>1, <3>2
  <2>4. Young'
    <3>1. part'[0] = Len(data') BY <1>2, <2>1, <2>2
    <3> QED BY <1>2, <1>3, <1>6, <2>2, <3>1 DEF Young, bounds
  <2>5. Whole'
    <3> SUFFICES ASSUME faults = 0, NEW k \in DOMAIN part PROVE part'[k] = Fresh'[k]
      BY <1>0, <1>6, <2>2 DEF Whole, Rotating, bounds
    <3>1. Fresh'[k] = IF k < m THEN m - k ELSE NULL BY <1>2, <2>1 DEF Fresh
    <3>2. CASE k = 0 BY <1>3, <2>2, <3>1, <3>2
    <3>3. CASE k # 0 /\ pc[t] = "reopen"
      <4>1. part'[k] = Fresh[k - 1] BY <1>2, <1>4, <2>2, <3>3
      <4>2. k - 1 \in 0..MAX_ROTATE BY <1>2, <3>3, FileAssumption
      <4>3. Fresh[k - 1] = IF k - 1 < Len(data) THEN Len(data) - (k - 1) ELSE NULL
        BY <4>2 DEF Fresh
      <4>4. k \in Nat BY <1>2
      <4> QED BY <1>3, <3>1, <4>1, <4>3, <4>4
    <3>4. CASE k # 0 /\ pc[t] = "open"
      <4>1. Fresh[0] = NULL BY <1>2, <1>4, <1>6, <3>4
      <4>2. 0 \in 0..MAX_ROTATE BY FileAssumption
      <4>3. Fresh[0] = IF 0 < Len(data) THEN Len(data) - 0 ELSE NULL BY <4>2 DEF Fresh
      <4>4. Len(data) = 0 BY <1>3, <4>1, <4>3 DEF NULL
      <4>5. part'[k] = Fresh[k] BY <1>4, <2>2, <3>4
      <4>6. Fresh[k] = NULL BY <1>2, <4>4 DEF Fresh
      <4>7. ~ (k < m) BY <1>2, <3>4, <4>4
      <4> QED BY <3>1, <4>5, <4>6, <4>7
    <3> QED BY <1>4, <3>2, <3>3, <3>4
  <2> QED BY <1>1, <2>3, <2>4, <2>5 DEF DiskInv
<1>7. CASE Fault /\ UNCHANGED <<part, data>>
  <2>1. faults' = faults + 1 BY <1>7 DEF Fault
  <2>2. Upper' BY <1>7 DEF DiskInv, Upper
  <2>3. Young' BY <1>7, <2>1, FaultYoung
  <2>4. Whole' BY <1>3, <2>1 DEF Whole
  <2> QED BY <1>1, <2>2, <2>3, <2>4 DEF DiskInv
<1> QED BY <1>5, <1>6, <1>7 DEF OpenLog

LEMMA NextRot ==
    ASSUME TypeOK, CallInv, GuardInv, FileInv, RotInv, [Next]_vars
    PROVE  RotInv'
<1> SUFFICES ASSUME ~unlocked' PROVE Found' /\ DiskInv' BY DEF RotInv
<1>1. ~unlocked /\ SemInv
  <2>1. ~unlocked BY NextHistory
  <2> QED BY <2>1 DEF GuardInv
<1>2. Found /\ DiskInv BY <1>1 DEF RotInv
<1>3. Found' BY <1>2, NextFound
<1>4. DiskInv'
  <2> USE DEF Rotating
  <2>1. ASSUME NEW t \in Threads, NEW l \in Labels \ Rotating, Goto(t, l),
               pc[t] \notin Rotating, UNCHANGED <<part, data, faults, misread, n>>
        PROVE  DiskInv'
    <3>1. pc'[t] = l /\ \A u \in Threads : u # t => pc'[u] = pc[u]
      BY <2>1, GotoType DEF TypeOK
    <3> QED BY <1>2, <2>1, <3>1, QuietDisk
  <2>2. ASSUME NEW t \in Threads, elog_file_init(t) PROVE DiskInv'
    <3>1. /\ pc[t] = "idle" /\ \E l \in {"post", "poll"} : Goto(t, l)
          /\ UNCHANGED <<part, data, faults, misread, n>>
      BY <2>2 DEF elog_file_init, ThreadsOf, fileVars, bounds
    <3> QED BY <2>1, <3>1, AllLabels
  <2>3. ASSUME NEW t \in Threads, elog_file_deinit(t) \/ elog_file_write(t) PROVE DiskInv'
    <3>1. /\ pc[t] = "idle" /\ \E l \in {"lockClose", "lockWrite"} : Goto(t, l)
          /\ UNCHANGED <<part, data, faults, misread, n>>
      BY <2>3 DEF elog_file_deinit, elog_file_write, ThreadsOf, fileVars, bounds
    <3> QED BY <2>1, <3>1, AllLabels
  <2>4. ASSUME NEW t \in Threads, elog_file_port_lock(t) PROVE DiskInv'
    <3>1. /\ pc[t] \in {"lockInit", "lockWrite", "lockClose"}
          /\ \E l \in {"open", "size", "close"} : Goto(t, l)
          /\ UNCHANGED <<part, data, faults, misread, n>>
      BY <2>4, LockLabels DEF elog_file_port_lock, fileVars, bounds
    <3> QED BY <2>1, <3>1, AllLabels
  <2>5. ASSUME NEW t \in Threads,
               lock_init(t) \/ lock_open(t) \/ elog_file_port_unlock(t) \/ ConfigClose(t)
        PROVE  DiskInv'
    <3>1. /\ pc[t] \in {"post", "poll", "unlockInit", "unlockWrite", "unlockClose", "close"}
          /\ \E l \in {"lockInit", "idle", "unlockClose"} : Goto(t, l)
          /\ UNCHANGED <<part, data, faults, misread, n>>
      BY <2>5 DEF lock_init, lock_open, elog_file_port_unlock, ConfigClose, Unlocking,
                  fileVars, bounds
    <3> QED BY <2>1, <3>1, AllLabels
  <2>6. ASSUME NEW t \in Threads, ConfigOpen(t) \/ Reopen(t) PROVE DiskInv'
    <3>1. /\ pc[t] \in {"open", "reopen", "reopenFailed"} /\ OpenLog(ProcessOf[t])
          /\ \E l \in {"unlockInit", "fwrite", "unlockWrite"} : Goto(t, l)
          /\ misread' = misread
      BY <2>6 DEF ConfigOpen, Reopen
    <3> QED BY <1>1, <1>2, <3>1, OpenDisk, AllLabels
  <2>7. ASSUME NEW t \in Threads, TestSize(t) PROVE DiskInv' BY <1>1, <1>2, <2>7, TestDisk
  <2>8. ASSUME NEW t \in Threads, RemovePart(t) PROVE DiskInv' BY <1>1, <1>2, <2>8, RemoveDisk
  <2>9. ASSUME NEW t \in Threads, RenamePart(t) PROVE DiskInv' BY <1>1, <1>2, <2>9, RenameDisk
  <2>10. ASSUME NEW t \in Threads, Fwrite(t) PROVE DiskInv'
    <3> DEFINE f == fp[ProcessOf[t]]
    <3>1. /\ pc[t] = "fwrite" /\ UNCHANGED <<part, faults, misread, n>>
          /\ data' = [data EXCEPT ![f] = Append(data[f], <<ProcessOf[t], written'[ProcessOf[t]]>>)]
          /\ Goto(t, "unlockWrite")
      BY <2>10 DEF Fwrite, bounds
    <3>2. /\ pc'[t] = "unlockWrite"
          /\ \A u \in Threads : pc[u] \notin Rotating /\ pc'[u] \notin Rotating
      BY <1>1, <1>2, <3>1, OthersRest, AllLabels DEF Outside
    <3>3. DOMAIN data' = DOMAIN data BY <3>1
    <3>4. Len(data') = Len(data) /\ (data' # <<>> => data # <<>>)
      <4>1. data' \in Seq(Seq(Processes \X Nat)) /\ data \in Seq(Seq(Processes \X Nat))
        BY NextType DEF TypeOK
      <4>2. Len(data') = Len(data) BY <3>3, <4>1, LenProperties
      <4> QED BY <4>1, <4>2, EmptySeq
    <3>5. Rounds' BY <3>2 DEF Rounds
    <3>6. Upper' BY <1>2, <3>1, <3>3 DEF DiskInv, Upper
    <3>7. Young' BY <1>2, <3>1, <3>2, <3>4 DEF DiskInv, Young
    <3>8. Whole'
      <4>1. Fresh' = Fresh BY <3>4 DEF Fresh
      <4> QED BY <1>2, <3>1, <3>2, <4>1 DEF DiskInv, Whole
    <3> QED BY <3>5, <3>6, <3>7, <3>8 DEF DiskInv
  <2>11. ASSUME NEW t \in Threads, UseNoStream(t) PROVE DiskInv'
    <3> DEFINE p == ProcessOf[t]
    <3>1. /\ pc[t] \in {"size", "fwrite"} /\ UNCHANGED <<part, data, faults, misread, n>>
          /\ \A u \in Threads : pc'[u] = IF ProcessOf[u] = p THEN "idle" ELSE pc[u]
      BY <2>11 DEF UseNoStream, Exit, fileVars, bounds
    <3>2. \A u \in Threads : pc[u] \notin Rotating
      BY <1>1, <1>2, <3>1, OnlyOne DEF Outside
    <3> QED BY <1>2, <3>1, <3>2, QuietDisk
  <2>12. ASSUME NEW p \in Processes, Crash(p) PROVE DiskInv'
    BY <1>2, <2>12, CrashDisk DEF Crash, Fault
  <2>13. CASE UNCHANGED vars
    BY <1>2, <2>13, QuietDisk DEF vars, fileVars, bounds
  <2> QED
    BY <2>2, <2>3, <2>4, <2>5, <2>6, <2>7, <2>8, <2>9, <2>10, <2>11, <2>12, <2>13
       DEF Next, CallStep
<1> QED BY <1>3, <1>4

(* A file is taken for absent at the cost of a fault.                       *)
MissInv == IsFiniteSet(misread) /\ Cardinality(misread) <= faults

LEMMA InitMiss == ASSUME Init PROVE MissInv
BY FS_EmptySet DEF Init, MissInv

LEMMA NextMiss == ASSUME TypeOK, MissInv, [Next]_vars PROVE MissInv'
<1>0. faults \in Nat /\ Cardinality(misread) \in Nat
  BY FileAssumption, FS_CardinalityType DEF TypeOK, MissInv
<1>1. ASSUME misread' = misread, faults' = faults \/ faults' = faults + 1 PROVE MissInv'
  BY <1>0, <1>1 DEF MissInv
<1>2. ASSUME NEW t \in Threads, RenamePart(t) PROVE MissInv'
  <2>1. CASE misread' = misread /\ faults' = faults BY <1>1, <2>1
  <2>2. ASSUME NEW i, misread' = misread \cup {i} \/ misread' = misread,
               faults' = faults + 1
        PROVE  MissInv'
    <3>1. CASE misread' = misread BY <1>1, <2>2, <3>1
    <3>2. CASE misread' = misread \cup {i}
      <4>1. /\ IsFiniteSet(misread')
            /\ Cardinality(misread') \in {Cardinality(misread), Cardinality(misread) + 1}
        BY <3>2, FS_AddElement DEF MissInv
      <4> QED BY <1>0, <2>2, <4>1 DEF MissInv
    <3> QED BY <2>2, <3>1, <3>2
  <2> QED BY <1>2, <2>1, <2>2 DEF RenamePart, Fault, bounds
<1>3. ASSUME NEW t \in Threads, ConfigOpen(t) \/ Reopen(t) \/ RemovePart(t) PROVE MissInv'
  <2>1. misread' = misread BY <1>3 DEF ConfigOpen, Reopen, RemovePart
  <2>2. faults' = faults \/ faults' = faults + 1
    BY <1>3 DEF ConfigOpen, Reopen, RemovePart, OpenLog, Fault, bounds
  <2> QED BY <1>1, <2>1, <2>2
<1>4. ASSUME NEW t \in Threads, elog_file_port_lock(t) PROVE MissInv'
  BY <1>1, <1>4 DEF elog_file_port_lock, Fault, fileVars, bounds
<1>5. ASSUME NEW t \in Threads,
             \/ elog_file_init(t) \/ elog_file_deinit(t) \/ elog_file_write(t)
             \/ lock_init(t) \/ lock_open(t) \/ elog_file_port_unlock(t)
             \/ ConfigClose(t) \/ TestSize(t) \/ Fwrite(t) \/ UseNoStream(t)
      PROVE  MissInv'
  BY <1>1, <1>5
     DEF elog_file_init, elog_file_deinit, elog_file_write, lock_init, lock_open,
         elog_file_port_unlock, ConfigClose, TestSize, Fwrite, UseNoStream, Exit,
         fileVars, bounds
<1>6. ASSUME NEW p \in Processes, Crash(p) PROVE MissInv'
  BY <1>1, <1>6 DEF Crash, Fault, Exit, fileVars
<1>7. CASE UNCHANGED vars BY <1>1, <1>7 DEF vars, fileVars, bounds
<1> QED BY <1>2, <1>3, <1>4, <1>5, <1>6, <1>7 DEF Next, CallStep

LEMMA KeptThen ==
    ASSUME TypeOK, FileInv, RotInv, MissInv
    PROVE  LogsKept
<1> SUFFICES ASSUME ~unlocked PROVE LogsKept BY DEF LogsKept
<1>0. Found /\ DiskInv BY DEF RotInv
<1>1. \A k \in DOMAIN part : part[k] # NULL => part[k] \in DOMAIN data /\ k \in Nat
  BY FileTypes DEF NULL
<1>2. DiskInOrder
  <2> SUFFICES ASSUME NEW k \in DOMAIN part, NEW l \in DOMAIN part,
                      part[k] # NULL, part[l] # NULL,
                      NEW a \in DOMAIN data[part[k]], NEW b \in DOMAIN data[part[l]],
                      data[part[k]][a][1] = data[part[l]][b][1],
                      l < k \/ (l = k /\ a < b)
               PROVE  data[part[k]][a][2] < data[part[l]][b][2]
    BY DEF DiskInOrder
  <2>1. l < k => part[k] < part[l] BY DEF FileInv, Decreasing
  <2> QED BY <1>1, <2>1 DEF FileInv, Ascending
<1>3. DiskHasTheLast
  <2> SUFFICES ASSUME NEW e \in OnDisk
               PROVE  /\ e[2] \in 1..written[e[1]]
                      /\ \A x \in e[2]..written[e[1]] : <<e[1], x>> \in OnDisk \cup Misread
    BY DEF DiskHasTheLast
  <2>1. PICK k \in DOMAIN part : part[k] # NULL /\ \E a \in DOMAIN data[part[k]] :
                                                      e = data[part[k]][a]
    BY DEF OnDisk
  <2>2. PICK a \in DOMAIN data[part[k]] : e = data[part[k]][a] BY <2>1
  <2>3. part[k] \in DOMAIN data /\ part[k] \in Nat BY <1>1, <2>1, FileTypes
  <2>4. e[2] \in 1..written[e[1]] /\ e[1] \in Processes
    BY <2>2, <2>3, FileTypes DEF FileInv, Streams
  <2>5. ASSUME NEW x \in e[2]..written[e[1]]
        PROVE  <<e[1], x>> \in OnDisk \cup Misread
    <3>0. written[e[1]] \in Nat /\ e[2] \in Nat /\ e[2] >= 1 BY <2>4 DEF TypeOK
    <3>1. x \in 1..written[e[1]] BY <3>0
    <3>2. PICK i \in DOMAIN data : \E b \in DOMAIN data[i] : data[i][b] = <<e[1], x>>
      BY <2>4, <3>1 DEF FileInv, Complete
    <3>3. PICK b \in DOMAIN data[i] : data[i][b] = <<e[1], x>> BY <3>2
    <3>4. i < part[k] => x < e[2]
      BY <2>2, <2>3, <3>3 DEF FileInv, Ascending
    <3>5. part[k] <= i
      <4>1. i \in Nat /\ x \in Nat /\ e[2] <= x BY <3>0, FileTypes
      <4> QED BY <2>3, <3>0, <3>4, <4>1
    <3>6. CASE i \in misread BY <3>3, <3>6 DEF Misread
    <3>7. CASE i \notin misread
      <4>1. PICK l \in DOMAIN part : part[l] = i
        BY <1>0, <2>1, <3>5, <3>7 DEF DiskInv, Upper
      <4>2. part[l] # NULL BY <4>1, FileTypes DEF NULL
      <4> QED BY <3>3, <4>1, <4>2 DEF OnDisk
    <3> QED BY <3>6, <3>7
  <2> QED BY <2>4, <2>5
<1>4. data # <<>> /\ faults < MAX_ROTATE /\ Len(data) \notin misread => Kept(Len(data))
  BY <1>0 DEF DiskInv, Young, Kept
<1>5. ASSUME Inside = {}, faults = 0, NEW i \in DOMAIN data, i + MAX_ROTATE >= Len(data)
      PROVE  Kept(i)
  <2>1. \A t \in Threads : pc[t] \notin Rotating
    <3> SUFFICES ASSUME NEW t \in Threads, pc[t] \in Rotating PROVE FALSE OBVIOUS
    <3>1. ProcessOf[t] \in semid BY <1>0 DEF Found, Rotating
    <3>2. In(t) BY <3>1 DEF In, Rotating
    <3> QED BY <1>5, <3>2, InsideIn
  <2> DEFINE k == Len(data) - i
  <2>2. k \in 0..MAX_ROTATE /\ k < Len(data) /\ Len(data) - k = i
    BY <1>5, FileTypes, FileAssumption
  <2>3. part[k] = Fresh[k] /\ k \in DOMAIN part
    BY <1>0, <1>5, <2>1, <2>2, FileTypes DEF DiskInv, Whole
  <2>4. Fresh[k] = i BY <2>2 DEF Fresh
  <2> QED BY <2>3, <2>4 DEF Kept
<1> QED BY <1>2, <1>3, <1>4, <1>5 DEF LogsKept, MissInv

\* As long as everybody found the semaphore and waited for it, a rotation loses no
\* log but those of the oldest part and those of the files that it could not open
\* when they were to be moved, one file for each fopen that failed.  That is so for
\* any parts, sizes, processes, faults and places where they strike: what each
\* process finds on disk is, but for these files, the end of what it wrote, in
\* order; the youngest file stays until MAX_ROTATE rotations have failed; and if
\* nothing has failed, all the parts are there.
THEOREM RotationKeepsLogs == Spec => []LogsKept
<1> DEFINE RInv == TypeOK /\ CallInv /\ GuardInv /\ FileInv /\ RotInv /\ MissInv
<1>1. Init => RInv
  BY InitType, InitCall, InitGuard, InitFile, InitRot, InitMiss
<1>2. RInv /\ [Next]_vars => RInv'
  BY NextType, NextCall, NextGuard, NextFile, NextRot, NextMiss
<1>3. RInv => LogsKept BY KeptThen
<1> HIDE DEF RInv
<1> QED BY <1>1, <1>2, <1>3, PTL DEF Spec
=============================================================================
