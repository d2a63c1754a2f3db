----------------------------- MODULE KeyRowsProofs -----------------------------
(***************************************************************************)
(* The rows of a key, for any number of writes and slaves.                 *)
(***************************************************************************)
EXTENDS KeyRows, SequenceTheorems, TLAPS

USE DEF writeVars, tryVars

------------------------------------------------------------------------------
(***************************************************************************)
(* The types.                                                               *)
(***************************************************************************)
LEMMA WrittenType ==
    ASSUME TypeOK, NEW r \in Writes, NEW s \in Slaves PROVE Written(r, s) \in Seq(Values)
<1> USE DEF TypeOK
<1>1. Value(r) \in Values /\ rows[s] \in Seq(Values) BY DEF Value, Values
<1>2. Append(rows[s], Value(r)) \in Seq(Values)
  BY <1>1, AppendProperties
<1>3. [i \in DOMAIN rows[s] |-> Value(r)] \in Seq(Values)
  <2>1. DOMAIN rows[s] = 1..Len(rows[s]) /\ Len(rows[s]) \in Nat
    BY <1>1, LenProperties
  <2>2. [i \in DOMAIN rows[s] |-> Value(r)] \in [1..Len(rows[s]) -> Values]
    BY <1>1, <2>1
  <2> QED BY <2>1, <2>2, SeqDef
<1>4. <<>> \in Seq(Values) BY EmptySeq
<1> QED BY <1>2, <1>3, <1>4 DEF Written, put, del

(* How the two tables of tables change, entry by entry.                     *)
LEMMA BecomeStep ==
    ASSUME TypeOK, NEW r \in Writes, NEW s \in Slaves, NEW from,
           NEW to \in {"tentative", "applied", "undone", "lost"}, W!Become(r, s, from, to)
    PROVE  /\ effect[r][s] = from
           /\ effect' \in [Writes -> [Slaves ->
                             {"none", "tentative", "applied", "undone", "lost"}]]
           /\ \A q \in Writes, t \in Slaves :
                 effect'[q][t] = IF q = r /\ t = s THEN to ELSE effect[q][t]
BY DEF TypeOK, W!Become

LEMMA TryStep ==
    ASSUME TypeOK, NEW r \in Writes, NEW s \in Slaves, MTryFromSlave(r, s)
    PROVE  /\ exist' \in [Writes -> [Slaves -> {"?", "0", "1"}]]
           /\ \A q \in Writes, t \in Slaves :
                 ~(q = r /\ t = s) => exist'[q][t] = exist[q][t]
           /\ \/ /\ exist'[r][s] = IF check_key(s) THEN "1" ELSE "0"
                 /\ failed' = failed
                 /\ misled' = IF \E q \in Writes : Pending(q, s)
                                THEN misled \cup {s} ELSE misled
              \/ /\ exist'[r][s] = "0"
                 /\ failed' = failed
                 /\ misled' = misled \cup {s}
              \/ /\ exist'[r][s] = "0"
                 /\ failed' = failed \cup {<<r, s>>}
                 /\ misled' = misled
           /\ op[r] # "none" /\ verdict[r] = "none" /\ exist[r][s] = "?"
           /\ UNCHANGED <<asked, verdict, effect, op, rows>>
<1>1. ASSUME NEW x \in {"0", "1"}, exist' = [exist EXCEPT ![r][s] = x]
      PROVE  /\ exist' \in [Writes -> [Slaves -> {"?", "0", "1"}]]
             /\ \A q \in Writes, t \in Slaves :
                   exist'[q][t] = IF q = r /\ t = s THEN x ELSE exist[q][t]
  BY <1>1 DEF TypeOK
<1>2. UNCHANGED <<asked, verdict, effect, op, rows>>
      /\ op[r] # "none" /\ verdict[r] = "none" /\ exist[r][s] = "?"
  BY DEF MTryFromSlave
<1>3. CASE /\ exist' = [exist EXCEPT ![r][s] = IF check_key(s) THEN "1" ELSE "0"]
           /\ misled' = IF \E q \in Writes : Pending(q, s) THEN misled \cup {s} ELSE misled
           /\ UNCHANGED failed
  <2> DEFINE x == IF check_key(s) THEN "1" ELSE "0"
  <2>1. x \in {"0", "1"} OBVIOUS
  <2> HIDE DEF x
  <2>2. exist' = [exist EXCEPT ![r][s] = x] BY <1>3 DEF x
  <2>3. /\ exist' \in [Writes -> [Slaves -> {"?", "0", "1"}]]
        /\ \A q \in Writes, t \in Slaves :
              exist'[q][t] = IF q = r /\ t = s THEN x ELSE exist[q][t]
    BY <1>1, <2>1, <2>2
  <2>4. exist'[r][s] = x BY <2>3
  <2> QED BY <1>2, <1>3, <2>3, <2>4 DEF x
<1>5. CASE /\ exist' = [exist EXCEPT ![r][s] = "0"]
           /\ misled' = misled \cup {s}
           /\ UNCHANGED failed
  BY <1>1, <1>2, <1>5
<1>4. CASE /\ exist' = [exist EXCEPT ![r][s] = "0"]
           /\ failed' = failed \cup {<<r, s>>}
           /\ UNCHANGED misled
  BY <1>1, <1>2, <1>4
<1> QED BY <1>3, <1>4, <1>5 DEF MTryFromSlave

(* The steps that change nothing but one write's effect at one slave.       *)
LEMMA EffectStep ==
    ASSUME TypeOK, NEW r \in Writes, NEW s \in Slaves,
           Execute(r, s) \/ Undo(r, s) \/ Lose(r, s) \/ Apply(r, s)
    PROVE  /\ UNCHANGED <<asked, verdict, op, exist, failed, misled>>
           /\ effect' \in [Writes -> [Slaves ->
                             {"none", "tentative", "applied", "undone", "lost"}]]
           /\ \A q \in Writes, t \in Slaves :
                 ~(q = r /\ t = s) => effect'[q][t] = effect[q][t]
           /\ \/ /\ effect[r][s] = "none" /\ effect'[r][s] = "tentative"
                 /\ s \in asked[r] /\ verdict[r] # "success" /\ rows' = rows
              \/ /\ effect[r][s] = "tentative" /\ effect'[r][s] = "undone"
                 /\ verdict[r] = "fail" /\ rows' = rows
              \/ /\ effect[r][s] = "tentative" /\ effect'[r][s] = "lost" /\ rows' = rows
              \/ /\ effect[r][s] = "tentative" /\ effect'[r][s] = "applied"
                 /\ verdict[r] = "success" /\ Apply(r, s)
                 /\ rows' = [rows EXCEPT ![s] = Written(r, s)]
<1>1. CASE Execute(r, s)
  BY <1>1, BecomeStep DEF Execute, W!Execute
<1>2. CASE Undo(r, s)
  BY <1>2, BecomeStep DEF Undo, W!Undo
<1>3. CASE Lose(r, s)
  BY <1>3, BecomeStep DEF Lose, W!Lose
<1>4. CASE Apply(r, s)
  BY <1>4, BecomeStep DEF Apply, W!Apply
<1> QED BY <1>1, <1>2, <1>3, <1>4

LEMMA InitType == ASSUME Init PROVE TypeOK
<1>1. <<>> \in Seq(Values) /\ <<OldValue>> \in Seq(Values) BY DEF Values
<1> QED BY <1>1 DEF Init, TypeOK, W!Init

LEMMA NextType == ASSUME TypeOK, [Next]_vars PROVE TypeOK'
<1> USE DEF TypeOK
<1>1. ASSUME NEW r \in Writes, Call(r) PROVE TypeOK' BY <1>1 DEF Call
<1>2. ASSUME NEW r \in Writes, NEW v \in {"success", "fail"}, Judge(r, v) PROVE TypeOK'
  BY <1>2 DEF Judge, W!Judge
<1>3. ASSUME NEW r \in Writes, NEW s \in Slaves, MTryFromSlave(r, s) PROVE TypeOK'
  <2>1. misled' \subseteq Slaves /\ failed' \subseteq Writes \X Slaves
    BY <1>3 DEF MTryFromSlave
  <2>2. UNCHANGED <<asked, verdict, effect, op, rows>>
    BY <1>3 DEF MTryFromSlave
  <2> HIDE DEF TypeOK
  <2>3. exist' \in [Writes -> [Slaves -> {"?", "0", "1"}]]
    BY <1>3, TryStep
  <2> QED BY <2>1, <2>2, <2>3 DEF TypeOK
<1>4. ASSUME NEW r \in Writes, NEW s \in Slaves, Ask(r, s) PROVE TypeOK'
  BY <1>4 DEF Ask, W!Ask
<1>5. ASSUME NEW r \in Writes, NEW s \in Slaves, Execute(r, s) \/ Undo(r, s) \/ Lose(r, s)
      PROVE  TypeOK'
  <2>1. rows' = rows BY <1>5 DEF Execute, Undo, Lose
  <2> HIDE DEF TypeOK
  <2>2. effect' \in [Writes -> [Slaves ->
                         {"none", "tentative", "applied", "undone", "lost"}]]
        /\ UNCHANGED <<asked, verdict, op, exist, failed, misled>>
    BY <1>5, EffectStep
  <2> QED BY <2>1, <2>2 DEF TypeOK
<1>6. ASSUME NEW r \in Writes, NEW s \in Slaves, Apply(r, s) PROVE TypeOK'
  <2>1. Written(r, s) \in Seq(Values) BY WrittenType
  <2>2. rows' = [rows EXCEPT ![s] = Written(r, s)] BY <1>6 DEF Apply
  <2> HIDE DEF TypeOK
  <2>3. effect' \in [Writes -> [Slaves ->
                         {"none", "tentative", "applied", "undone", "lost"}]]
        /\ UNCHANGED <<asked, verdict, op, exist, failed, misled>>
    BY <1>6, EffectStep
  <2> QED BY <2>1, <2>2, <2>3 DEF TypeOK
<1>7. CASE UNCHANGED vars BY <1>7 DEF vars
<1> QED BY <1>1, <1>2, <1>3, <1>4, <1>5, <1>6, <1>7 DEF Next

(* The types of all variables: a row holds a value that a Set sent.         *)
THEOREM TypeCorrect == Spec => []TypeOK
BY InitType, NextType, PTL DEF Spec

------------------------------------------------------------------------------
(***************************************************************************)
(* The protocol of a write, seen from its tries: nobody is asked before all *)
(* tries are over, and a success has asked exactly the targets.             *)
(***************************************************************************)
WriteFacts(r) ==
    /\ asked[r] # {} => Tried(r)
    /\ asked[r] \subseteq Targets(r)
    /\ op[r] = "none" => verdict[r] = "none" /\ \A s \in Slaves : exist[r][s] = "?"
    /\ \A s \in Slaves :
          /\ exist[r][s] = "1" => <<r, s>> \notin failed
          /\ exist[r][s] = "?" => <<r, s>> \notin failed
          /\ effect[r][s] # "none" => s \in asked[r]
          /\ effect[r][s] = "applied" => verdict[r] = "success"
          /\ effect[r][s] = "undone" => verdict[r] = "fail"
    /\ verdict[r] = "success" =>
          /\ Tried(r)
          /\ asked[r] = Targets(r)
          /\ \A s \in asked[r] : effect[r][s] # "none" /\ <<r, s>> \notin failed

WriteInv == \A r \in Writes : WriteFacts(r)

LEMMA InitWrite == ASSUME Init PROVE WriteInv
BY DEF Init, W!Init, WriteInv, WriteFacts, Tried

(* A step on one write leaves the facts of the others alone.                *)
LEMMA FactsStay ==
    ASSUME NEW q \in Writes, WriteFacts(q),
           asked'[q] = asked[q], verdict'[q] = verdict[q], op'[q] = op[q],
           \A s \in Slaves : effect'[q][s] = effect[q][s] /\ exist'[q][s] = exist[q][s],
           \A s \in Slaves : <<q, s>> \in failed' <=> <<q, s>> \in failed
    PROVE  WriteFacts(q)'
<1>1. Targets(q)' = Targets(q) /\ Tried(q)' = Tried(q)
  BY DEF Targets, Tried
<1> QED BY <1>1 DEF WriteFacts, Targets

LEMMA NextWrite == ASSUME TypeOK, WriteInv, [Next]_vars PROVE WriteInv'
<1> SUFFICES ASSUME NEW q \in Writes PROVE WriteFacts(q)'
  BY DEF WriteInv
<1>0. WriteFacts(q) BY DEF WriteInv
<1>1. ASSUME NEW r \in Writes, Call(r) PROVE WriteFacts(q)'
  <2>1. asked[r] = {} \/ q # r
    BY <1>0, <1>1 DEF Call, WriteFacts, Tried, TypeOK
  <2> QED BY <1>0, <1>1, <2>1 DEF Call, WriteFacts, Tried, Targets, TypeOK
<1>2. ASSUME NEW r \in Writes, NEW v \in {"success", "fail"}, Judge(r, v)
      PROVE  WriteFacts(q)'
  <2>1. CASE q # r
    BY <1>0, <1>2, <2>1, FactsStay DEF Judge, W!Judge, TypeOK
  <2>2. CASE q = r
    <3>1. /\ verdict[q] = "none" /\ verdict'[q] = v /\ op[q] # "none"
          /\ UNCHANGED <<asked, effect, op, exist, failed>>
      BY <1>2, <2>2 DEF Judge, W!Judge, TypeOK
    <3>2. v = "success" =>
             /\ Tried(q) /\ asked[q] = Targets(q)
             /\ \A s \in asked[q] : effect[q][s] # "none" /\ <<q, s>> \notin failed
      BY <1>2, <2>2 DEF Judge, W!Judge
    <3>3. Targets(q)' = Targets(q) /\ Tried(q)' = Tried(q)
      BY <3>1 DEF Targets, Tried
    <3> QED BY <1>0, <3>1, <3>2, <3>3 DEF WriteFacts
  <2> QED BY <2>1, <2>2
<1>3. ASSUME NEW r \in Writes, NEW s \in Slaves, MTryFromSlave(r, s) PROVE WriteFacts(q)'
  <2>1. CASE q # r
    <3>1. \A t \in Slaves : <<q, t>> \in failed' <=> <<q, t>> \in failed
      BY <1>3, <2>1, TryStep
    <3> QED BY <1>0, <1>3, <2>1, <3>1, TryStep, FactsStay
  <2>2. CASE q = r
    <3>1. asked[q] = {}
      BY <1>0, <1>3, <2>2, TryStep DEF WriteFacts, Tried
    <3>2. \A t \in Slaves : t # s => (<<q, t>> \in failed' <=> <<q, t>> \in failed)
      BY <1>3, <2>2, TryStep
    <3>3. exist'[q][s] \in {"0", "1"} /\ (exist'[q][s] = "1" => <<q, s>> \notin failed')
      BY <1>0, <1>3, <2>2, TryStep DEF WriteFacts
    <3> QED BY <1>0, <1>3, <2>2, <3>1, <3>2, <3>3, TryStep DEF WriteFacts
  <2> QED BY <2>1, <2>2
<1>4. ASSUME NEW r \in Writes, NEW s \in Slaves, Ask(r, s) PROVE WriteFacts(q)'
  <2>1. CASE q # r
    BY <1>0, <1>4, <2>1, FactsStay DEF Ask, W!Ask, TypeOK
  <2>2. CASE q = r
    <3>1. /\ verdict[q] = "none" /\ asked'[q] = asked[q] \cup {s} /\ s \in Targets(q)
          /\ Tried(q) /\ UNCHANGED <<verdict, effect, op, exist, failed>>
      BY <1>4, <2>2 DEF Ask, W!Ask, TypeOK
    <3>2. Targets(q)' = Targets(q) /\ Tried(q)' = Tried(q)
      BY <3>1 DEF Targets, Tried
    <3> QED BY <1>0, <3>1, <3>2 DEF WriteFacts
  <2> QED BY <2>1, <2>2
<1>5. ASSUME NEW r \in Writes, NEW s \in Slaves,
             Execute(r, s) \/ Undo(r, s) \/ Lose(r, s) \/ Apply(r, s)
      PROVE  WriteFacts(q)'
  <2>1. CASE q # r
    BY <1>0, <1>5, <2>1, EffectStep, FactsStay
  <2>2. CASE q = r
    <3>0. UNCHANGED <<asked, verdict, op, exist, failed>>
      BY <1>5, EffectStep
    <3>1. Targets(q)' = Targets(q) /\ Tried(q)' = Tried(q)
      BY <3>0 DEF Targets, Tried
    <3>2. \A t \in Slaves : t # s => effect'[q][t] = effect[q][t]
      BY <1>5, <2>2, EffectStep
    <3>3. \/ /\ effect[q][s] = "none" /\ effect'[q][s] = "tentative"
             /\ s \in asked[q] /\ verdict[q] # "success"
          \/ effect[q][s] = "tentative" /\ effect'[q][s] = "undone" /\ verdict[q] = "fail"
          \/ effect[q][s] = "tentative" /\ effect'[q][s] = "lost"
          \/ effect[q][s] = "tentative" /\ effect'[q][s] = "applied" /\ verdict[q] = "success"
      BY <1>5, <2>2, EffectStep
    <3>4. \A t \in Slaves :
             /\ effect'[q][t] # "none" => t \in asked[q]
             /\ effect'[q][t] = "applied" => verdict[q] = "success"
             /\ effect'[q][t] = "undone" => verdict[q] = "fail"
             /\ effect[q][t] # "none" => effect'[q][t] # "none"
      BY <1>0, <3>2, <3>3 DEF WriteFacts
    <3>5. asked[q] \subseteq Slaves BY DEF TypeOK
    <3> QED BY <1>0, <3>0, <3>1, <3>4, <3>5 DEF WriteFacts
  <2> QED BY <2>1, <2>2
<1>6. CASE UNCHANGED vars BY <1>0, <1>6, FactsStay DEF vars
<1> QED BY <1>1, <1>2, <1>3, <1>4, <1>5, <1>6 DEF Next

------------------------------------------------------------------------------
(***************************************************************************)
(* One slave.  As long as it was not misled, one write at most is pending   *)
(* there, and what its try found is still so.                               *)
(***************************************************************************)
CalmInv ==
    \A s \in Slaves : s \notin misled =>
        /\ \A q, r \in Writes : Pending(q, s) /\ Pending(r, s) => q = r
        /\ \A r \in Writes : Pending(r, s) => (exist[r][s] = "1" <=> check_key(s))

LEMMA InitCalm == ASSUME Init PROVE CalmInv
BY DEF Init, CalmInv, Pending

(* Only a try makes a write pending.                                        *)
LEMMA PendingShrinks ==
    ASSUME TypeOK, WriteInv, [Next]_vars, NEW q \in Writes, NEW s \in Slaves,
           ~MTryFromSlave(q, s), Pending(q, s)'
    PROVE  Pending(q, s)
<1>0. WriteFacts(q) BY DEF WriteInv
<1>1. ASSUME NEW r \in Writes, Call(r) PROVE Pending(q, s) BY <1>1 DEF Call, Pending
<1>2. ASSUME NEW r \in Writes, NEW v \in {"success", "fail"}, Judge(r, v) PROVE Pending(q, s)
  BY <1>2 DEF Judge, W!Judge, Pending, TypeOK
<1>3. ASSUME NEW r \in Writes, NEW t \in Slaves, MTryFromSlave(r, t) PROVE Pending(q, s)
  <2>1. ~(q = r /\ s = t) BY <1>3
  <2>2. <<q, s>> \in failed => <<q, s>> \in failed'
    BY <1>3, TryStep
  <2> QED BY <1>3, <2>1, <2>2, TryStep DEF Pending
<1>4. ASSUME NEW r \in Writes, NEW t \in Slaves, Ask(r, t) PROVE Pending(q, s)
  BY <1>4 DEF Ask, W!Ask, Pending, TypeOK
<1>5. ASSUME NEW r \in Writes, NEW t \in Slaves,
             Execute(r, t) \/ Undo(r, t) \/ Lose(r, t) \/ Apply(r, t)
      PROVE  Pending(q, s)
  BY <1>5, EffectStep DEF Pending
<1>6. CASE UNCHANGED vars BY <1>6 DEF vars, Pending
<1> QED BY <1>1, <1>2, <1>3, <1>4, <1>5, <1>6 DEF Next

(* A write is pending until it is applied, and not after.                   *)
LEMMA ApplyPending ==
    ASSUME TypeOK, WriteInv, NEW r \in Writes, NEW s \in Slaves, Apply(r, s)
    PROVE  Pending(r, s) /\ ~Pending(r, s)' /\ exist[r][s] # "?" /\ verdict[r] = "success"
           /\ s \in Targets(r)
<1>1. WriteFacts(r) BY DEF WriteInv
<1>2. /\ effect[r][s] = "tentative" /\ effect'[r][s] = "applied" /\ verdict[r] = "success"
      /\ UNCHANGED <<asked, exist, failed, verdict>>
  BY EffectStep, BecomeStep DEF Apply, W!Apply
<1> QED BY <1>1, <1>2 DEF WriteFacts, Pending, Tried

(* What a step leaves of the rows and the tries of one slave.               *)
LEMMA RowsStay ==
    ASSUME TypeOK, [Next]_vars, NEW s \in Slaves, \A r \in Writes : ~Apply(r, s)
    PROVE  rows'[s] = rows[s]
BY DEF TypeOK, Next, vars, Call, Judge, MTryFromSlave, Ask, Execute, Undo, Lose, Apply

LEMMA MisledStays == ASSUME [Next]_vars PROVE misled \subseteq misled'
BY DEF Next, vars, Call, Judge, MTryFromSlave, Ask, Execute, Undo, Lose, Apply

LEMMA ExistStays ==
    ASSUME TypeOK, [Next]_vars, NEW r \in Writes, NEW s \in Slaves, ~MTryFromSlave(r, s)
    PROVE  exist'[r][s] = exist[r][s]
<1>1. CASE \E q \in Writes, t \in Slaves : MTryFromSlave(q, t)
  BY <1>1, TryStep
<1>2. CASE ~\E q \in Writes, t \in Slaves : MTryFromSlave(q, t)
  BY <1>2 DEF Next, vars, tryVars, Call, Judge, Ask, Execute, Undo, Lose, Apply
<1> QED BY <1>1, <1>2

LEMMA NextCalm == ASSUME TypeOK, WriteInv, CalmInv, [Next]_vars PROVE CalmInv'
<1> SUFFICES ASSUME NEW s \in Slaves, s \notin misled'
             PROVE  /\ \A q, r \in Writes : Pending(q, s)' /\ Pending(r, s)' => q = r
                    /\ \A r \in Writes :
                          Pending(r, s)' => (exist'[r][s] = "1" <=> check_key(s)')
  BY DEF CalmInv
<1>1. s \notin misled BY MisledStays
<1>2. ASSUME NEW p \in Writes, MTryFromSlave(p, s)
      PROVE  /\ \A q, r \in Writes : Pending(q, s)' /\ Pending(r, s)' => q = r
             /\ \A r \in Writes : Pending(r, s)' => (exist'[r][s] = "1" <=> check_key(s)')
  <2>1. \A r \in Writes : r # p => ~MTryFromSlave(r, s)
    BY <1>2 DEF MTryFromSlave, TypeOK
  <2>2. \A r \in Writes : r # p => (Pending(r, s)' => Pending(r, s))
    BY <2>1, PendingShrinks
  <2>3. check_key(s)' = check_key(s)
    BY <1>2 DEF MTryFromSlave, check_key, get
  <2>4. CASE \E q \in Writes : Pending(q, s)
    <3>1. ~Pending(p, s)'
      BY <1>1, <1>2, <2>4 DEF MTryFromSlave, Pending, TypeOK
    <3> QED BY <1>1, <2>1, <2>2, <2>3, <3>1, ExistStays DEF CalmInv
  <2>5. CASE ~\E q \in Writes : Pending(q, s)
    <3>1. \A r \in Writes : Pending(r, s)' => r = p
      BY <2>2, <2>5
    <3>2. Pending(p, s)' => (exist'[p][s] = "1" <=> check_key(s))
      BY <1>2 DEF MTryFromSlave, Pending, TypeOK
    <3> QED BY <2>3, <3>1, <3>2
  <2> QED BY <2>4, <2>5
<1>3. ASSUME NEW p \in Writes, Apply(p, s)
      PROVE  \A r \in Writes : ~Pending(r, s)'
  <2>1. \A r \in Writes : ~MTryFromSlave(r, s)
    BY <1>3 DEF MTryFromSlave, Apply, W!Apply, TypeOK
  <2>2. Pending(p, s) /\ ~Pending(p, s)'
    BY <1>3, ApplyPending
  <2> QED BY <1>1, <2>1, <2>2, PendingShrinks DEF CalmInv
<1>4. ASSUME \A r \in Writes : ~MTryFromSlave(r, s) /\ ~Apply(r, s)
      PROVE  /\ \A q, r \in Writes : Pending(q, s)' /\ Pending(r, s)' => q = r
             /\ \A r \in Writes : Pending(r, s)' => (exist'[r][s] = "1" <=> check_key(s)')
  <2>1. check_key(s)' = check_key(s)
    BY <1>4, RowsStay DEF check_key, get
  <2> QED BY <1>1, <1>4, <2>1, PendingShrinks, ExistStays DEF CalmInv
<1> QED BY <1>2, <1>3, <1>4

(***************************************************************************)
(* What a commit does on a slave that was not misled: the one pending write *)
(* acts on the rows its try saw.                                            *)
(***************************************************************************)
LEMMA WrittenRows ==
    ASSUME TypeOK, WriteInv, CalmInv, OneRow, NEW r \in Writes, NEW s \in Slaves,
           Apply(r, s), s \notin misled
    PROVE  /\ ~Hidden(s) => Written(r, s) = IF op[r] = "del" THEN <<>> ELSE <<Value(r)>>
           /\ Hidden(s) => Written(r, s) # <<>> /\ Head(Written(r, s)) = NoString
<1>1. /\ Pending(r, s) /\ (exist[r][s] = "1" <=> check_key(s))
      /\ rows[s] \in Seq(Values) /\ Len(rows[s]) \in Nat
      /\ exist[r][s] # "?" /\ s \in Targets(r)
  BY ApplyPending, LenProperties DEF CalmInv, TypeOK
<1>2. exist[r][s] = "1" <=> (rows[s] # <<>> /\ ~Hidden(s))
  BY <1>1, RowsAssumption DEF check_key, get, Hidden
<1>3. op[r] = "del" => exist[r][s] = "1"
  BY <1>1 DEF Targets
<1>4. CASE op[r] = "del"
  <2>1. Written(r, s) = <<>> BY <1>4 DEF Written, put, del
  <2>2. ~Hidden(s) BY <1>2, <1>3, <1>4
  <2> QED BY <1>4, <2>1, <2>2
<1>5. CASE op[r] # "del" /\ exist[r][s] = "1"
  <2>1. Len(rows[s]) = 1 /\ DOMAIN rows[s] = 1..1
    <3>1. Len(rows[s]) <= 1 BY <1>2, <1>5 DEF OneRow
    <3>2. Len(rows[s]) # 0 BY <1>1, <1>2, <1>5, EmptySeq
    <3>3. DOMAIN rows[s] = 1..Len(rows[s]) BY <1>1, LenProperties
    <3>4. Len(rows[s]) \in Nat BY <1>1
    <3>5. \A n \in Nat : n <= 1 /\ n # 0 => n = 1
      OBVIOUS
    <3>6. Len(rows[s]) = 1 BY <3>1, <3>2, <3>4, <3>5
    <3> QED BY <3>3, <3>6
  <2>2. Written(r, s) = [i \in 1..1 |-> Value(r)]
    BY <1>5, <2>1 DEF Written, put, del, set_func
  <2>3. [i \in 1..1 |-> Value(r)] = <<Value(r)>>
    OBVIOUS
  <2> QED BY <1>2, <1>5, <2>2, <2>3
<1>6. CASE op[r] # "del" /\ exist[r][s] # "1"
  <2>1. Written(r, s) = Append(rows[s], Value(r))
    BY <1>6 DEF Written, put, del, set_func
  <2>2. CASE rows[s] = <<>>
    BY <1>6, <2>1, <2>2 DEF Hidden
  <2>3. CASE rows[s] # <<>>
    <3>1. Hidden(s) BY <1>2, <1>6, <2>3
    <3>2. /\ Value(r) \in Values
          /\ Len(rows[s]) # 0
      BY <1>1, <2>3, EmptySeq DEF Value, Values
    <3>3. /\ Append(rows[s], Value(r)) \in Seq(Values)
          /\ Len(Append(rows[s], Value(r))) = Len(rows[s]) + 1
          /\ Append(rows[s], Value(r))[1] = rows[s][1]
      BY <1>1, <3>2, AppendProperties
    <3>4. Append(rows[s], Value(r)) # <<>>
      <4>1. Len(Append(rows[s], Value(r))) # 0 BY <1>1, <3>3
      <4>2. Len(<<>>) = 0 BY EmptySeq
      <4> QED BY <4>1, <4>2
    <3>5. Head(Append(rows[s], Value(r))) = Append(rows[s], Value(r))[1]
          /\ Head(rows[s]) = rows[s][1]
      OBVIOUS
    <3> QED BY <2>1, <3>1, <3>3, <3>4, <3>5 DEF Hidden
  <2> QED BY <2>2, <2>3
<1> QED BY <1>4, <1>5, <1>6

LEMMA NextRow ==
    ASSUME TypeOK, WriteInv, CalmInv, OneRow, [Next]_vars PROVE OneRow'
<1> SUFFICES ASSUME NEW s \in Slaves, s \notin misled', ~Hidden(s)'
             PROVE  Len(rows'[s]) <= 1
  BY DEF OneRow
<1>1. s \notin misled BY MisledStays
<1>2. ASSUME NEW r \in Writes, Apply(r, s) PROVE Len(rows'[s]) <= 1
  <2>1. rows'[s] = Written(r, s) BY <1>2 DEF Apply, TypeOK
  <2>2. ~Hidden(s) BY <1>1, <1>2, <2>1, WrittenRows DEF Hidden
  <2>3. rows'[s] = IF op[r] = "del" THEN <<>> ELSE <<Value(r)>>
    BY <1>1, <1>2, <2>1, <2>2, WrittenRows
  <2>4. Len(<<>>) <= 1 /\ Len(<<Value(r)>>) <= 1
    OBVIOUS
  <2> QED BY <2>3, <2>4
<1>3. CASE \A r \in Writes : ~Apply(r, s)
  BY <1>1, <1>3, RowsStay DEF OneRow, Hidden
<1> QED BY <1>2, <1>3

RowInv == TypeOK /\ WriteInv /\ CalmInv /\ OneRow

LEMMA InitRow == ASSUME Init PROVE RowInv
<1>1. Len(<<>>) <= 1 /\ Len(<<OldValue>>) <= 1
  OBVIOUS
<1>2. OneRow
  <2>1. PICK old \in {<<>>, <<OldValue>>} : rows = [s \in Slaves |-> old]
    BY DEF Init
  <2> QED BY <1>1, <2>1 DEF OneRow
<1> QED BY <1>2, InitType, InitWrite, InitCalm DEF RowInv

LEMMA NextRowInv == ASSUME RowInv, [Next]_vars PROVE RowInv'
BY NextType, NextWrite, NextCalm, NextRow DEF RowInv

(* However many masters and clients write a key, a slave that never answered*)
(* a try beside a pending write has one row of it, "" aside.                *)
THEOREM OneRowEach == Spec => []OneRow
<1>1. RowInv => OneRow BY DEF RowInv
<1> QED BY <1>1, InitRow, NextRowInv, PTL DEF Spec

(* And there a committed write is what the slave has from then on.          *)
THEOREM CommitShows == Spec => LastWriteShows
<1>1. ASSUME RowInv, [Next]_vars
      PROVE  [\A r \in Writes, s \in Slaves :
                (effect[r][s] # "applied" /\ effect'[r][s] = "applied"
                   /\ s \notin misled /\ ~Hidden(s))
                => rows'[s] = IF op[r] = "del" THEN <<>> ELSE <<Value(r)>>]_vars
  <2> SUFFICES ASSUME NEW r \in Writes, NEW s \in Slaves,
                      effect[r][s] # "applied", effect'[r][s] = "applied",
                      s \notin misled, ~Hidden(s)
               PROVE  rows'[s] = IF op[r] = "del" THEN <<>> ELSE <<Value(r)>>
    OBVIOUS
  <2>1. Apply(r, s)
    <3>1. ASSUME NEW q \in Writes, NEW t \in Slaves,
                 Execute(q, t) \/ Undo(q, t) \/ Lose(q, t) \/ Apply(q, t)
          PROVE  Apply(r, s)
      BY <1>1, <3>1, EffectStep DEF RowInv
    <3>2. CASE effect' = effect BY <3>2
    <3> QED BY <1>1, <3>1, <3>2
            DEF Next, vars, Call, Judge, W!Judge, MTryFromSlave, Ask, W!Ask
  <2>2. rows'[s] = Written(r, s) BY <1>1, <2>1 DEF Apply, TypeOK, RowInv
  <2> QED BY <1>1, <2>1, <2>2, WrittenRows DEF RowInv
<1> QED BY <1>1, InitRow, NextRowInv, PTL DEF Spec, LastWriteShows

------------------------------------------------------------------------------
(***************************************************************************)
(* Two slaves that were not misled and are not behind.  Either they hold the*)
(* same rows, or one of them has applied exactly one write that is pending  *)
(* at the other, and will hold the same rows once it has.                   *)
(***************************************************************************)
Clean(s) == s \notin misled /\ ~Behind(s)

Ahead(s, t) == {q \in Writes : effect[q][s] = "applied" /\ effect[q][t] = "tentative"}

PairInv(s, t) ==
    Clean(s) /\ Clean(t) =>
        /\ Ahead(s, t) = {} \/ Ahead(t, s) = {}
        /\ Ahead(s, t) = {} /\ Ahead(t, s) = {} => rows[s] = rows[t]
        /\ \A q \in Ahead(s, t) : rows[s] = Written(q, t)
        /\ \A q \in Ahead(t, s) : rows[t] = Written(q, s)
        /\ \A q \in Writes :
              verdict[q] = "success" /\ op[q] = "del" => exist[q][s] = exist[q][t]

AgreeInv == \A s, t \in Slaves : PairInv(s, t)

LEMMA AheadPending ==
    ASSUME WriteInv, NEW s \in Slaves, NEW t \in Slaves, NEW q \in Ahead(s, t)
    PROVE  Pending(q, t) /\ verdict[q] = "success"
BY DEF Ahead, WriteInv, WriteFacts, Pending, Tried

(* A slave that was misled or fell behind never recovers from it.           *)
LEMMA CleanBefore ==
    ASSUME TypeOK, WriteInv, [Next]_vars, NEW s \in Slaves, Clean(s)' PROVE Clean(s)
<1>1. s \notin misled BY MisledStays DEF Clean
<1>2. SUFFICES ASSUME NEW r \in Writes, verdict[r] = "success",
                      effect[r][s] = "lost" \/ (op[r] = "del" /\ <<r, s>> \in failed)
               PROVE  /\ verdict'[r] = "success"
                      /\ effect'[r][s] = "lost" \/ (op'[r] = "del" /\ <<r, s>> \in failed')
  BY <1>1 DEF Clean, Behind
<1>3. WriteFacts(r) BY DEF WriteInv
<1>4. ASSUME NEW q \in Writes, Call(q)
      PROVE  /\ verdict'[r] = "success"
             /\ effect'[r][s] = "lost" \/ (op'[r] = "del" /\ <<r, s>> \in failed')
  BY <1>2, <1>3, <1>4 DEF Call, TypeOK, WriteFacts
<1>5. ASSUME NEW q \in Writes, NEW v \in {"success", "fail"}, Judge(q, v)
      PROVE  /\ verdict'[r] = "success"
             /\ effect'[r][s] = "lost" \/ (op'[r] = "del" /\ <<r, s>> \in failed')
  BY <1>2, <1>5 DEF Judge, W!Judge, TypeOK
<1>6. ASSUME NEW q \in Writes, NEW t \in Slaves, MTryFromSlave(q, t)
      PROVE  /\ verdict'[r] = "success"
             /\ effect'[r][s] = "lost" \/ (op'[r] = "del" /\ <<r, s>> \in failed')
  BY <1>2, <1>6 DEF MTryFromSlave
<1>7. ASSUME NEW q \in Writes, NEW t \in Slaves, Ask(q, t)
      PROVE  /\ verdict'[r] = "success"
             /\ effect'[r][s] = "lost" \/ (op'[r] = "del" /\ <<r, s>> \in failed')
  BY <1>2, <1>7 DEF Ask, W!Ask
<1>8. ASSUME NEW q \in Writes, NEW t \in Slaves,
             Execute(q, t) \/ Undo(q, t) \/ Lose(q, t) \/ Apply(q, t)
      PROVE  /\ verdict'[r] = "success"
             /\ effect'[r][s] = "lost" \/ (op'[r] = "del" /\ <<r, s>> \in failed')
  BY <1>2, <1>8, EffectStep
<1>9. CASE UNCHANGED vars BY <1>2, <1>9 DEF vars
<1> QED BY <1>4, <1>5, <1>6, <1>7, <1>8, <1>9 DEF Next

(* Slaves with the same rows and one pending write have found the same.     *)
LEMMA SameFound ==
    ASSUME TypeOK, CalmInv, NEW q \in Writes, NEW s \in Slaves, NEW t \in Slaves,
           s \notin misled, t \notin misled, Pending(q, s), Pending(q, t), rows[s] = rows[t]
    PROVE  exist[q][s] = exist[q][t]
<1>1. check_key(s) <=> check_key(t) BY DEF check_key, get
<1>2. exist[q][s] \in {"0", "1"} /\ exist[q][t] \in {"0", "1"}
  BY DEF Pending, TypeOK
<1> QED BY <1>1, <1>2 DEF CalmInv

(* A commit, seen from a second slave.                                      *)
LEMMA ApplyAgree ==
    ASSUME RowInv, NEW q \in Writes, NEW s \in Slaves, NEW t \in Slaves, s # t,
           PairInv(s, t), Apply(q, s)
    PROVE  PairInv(s, t)'
<1> USE DEF RowInv
<1>1. SUFFICES ASSUME Clean(s)', Clean(t)' PROVE PairInv(s, t)'
  BY DEF PairInv
<1>2. [Next]_vars BY DEF Next
<1>3. Clean(s) /\ Clean(t) BY <1>1, <1>2, CleanBefore
<1>4. /\ UNCHANGED <<verdict, op, exist, misled>>
      /\ effect[q][s] = "tentative" /\ effect'[q][s] = "applied"
      /\ \A p \in Writes, u \in Slaves :
            ~(p = q /\ u = s) => effect'[p][u] = effect[p][u]
      /\ verdict[q] = "success"
  BY EffectStep, BecomeStep DEF Apply, W!Apply
<1>5. rows'[s] = Written(q, s) /\ rows'[t] = rows[t]
  BY DEF Apply, TypeOK
<1>6. \A p \in Writes : Written(p, t)' = Written(p, t)
  BY <1>4, <1>5 DEF Written, put, del, Value
<1>7. Pending(q, s) /\ s \in Targets(q)
  BY ApplyPending
<1>8. \A p \in Writes : Pending(p, s) => p = q
  BY <1>3, <1>7 DEF CalmInv, Clean
<1>9. effect[q][t] \in {"tentative", "applied"}
  <2>1. t \in Targets(q)
    BY <1>3, <1>4, <1>7 DEF Targets, PairInv
  <2>2. effect[q][t] # "none" /\ effect[q][t] # "undone"
    <3>1. WriteFacts(q) BY DEF WriteInv
    <3>2. t \in asked[q] BY <1>4, <2>1, <3>1 DEF WriteFacts
    <3> QED BY <1>4, <3>1, <3>2 DEF WriteFacts
  <2>3. effect[q][t] # "lost"
    BY <1>3, <1>4 DEF Clean, Behind
  <2> QED BY <2>2, <2>3 DEF TypeOK
<1>10. \A p \in Writes :
          verdict'[p] = "success" /\ op'[p] = "del" => exist'[p][s] = exist'[p][t]
  BY <1>3, <1>4 DEF PairInv
<1>11. CASE effect[q][t] = "tentative"
  <2>1. Pending(q, t)
    BY <1>4, <1>11 DEF Pending, WriteInv, WriteFacts, Tried
  <2>2. \A p \in Writes : Pending(p, t) => p = q
    BY <1>3, <2>1 DEF CalmInv, Clean
  <2>3. Ahead(s, t) = {}
    BY <1>4, <2>2, AheadPending DEF Ahead
  <2>4. Ahead(t, s) = {}
    BY <1>8, <1>11, AheadPending DEF Ahead
  <2>5. rows[s] = rows[t]
    BY <1>3, <2>3, <2>4 DEF PairInv
  <2>6. Written(q, s) = Written(q, t)
    BY <1>3, <1>7, <2>1, <2>5, SameFound DEF Clean, Written, put, del
  <2>7. Ahead(s, t)' = {q}
    BY <1>4, <1>11, <2>3 DEF Ahead
  <2>8. Ahead(t, s)' = {}
    BY <1>4, <2>4 DEF Ahead
  <2> QED BY <1>5, <1>6, <1>10, <2>6, <2>7, <2>8 DEF PairInv
<1>12. CASE effect[q][t] = "applied"
  <2>1. q \in Ahead(t, s)
    BY <1>4, <1>12 DEF Ahead
  <2>2. Ahead(s, t) = {} /\ rows[t] = Written(q, s)
    BY <1>3, <2>1 DEF PairInv
  <2>3. Ahead(s, t)' = {}
    BY <1>4, <1>12, <2>2 DEF Ahead
  <2>4. Ahead(t, s)' = {}
    <3>1. ASSUME NEW p \in Writes, effect'[p][s] = "tentative", effect'[p][t] = "applied"
          PROVE  FALSE
      <4>1. p # q BY <1>4, <3>1
      <4>2. p \in Ahead(t, s) BY <1>4, <3>1, <4>1 DEF Ahead
      <4> QED BY <1>8, <4>1, <4>2, AheadPending
    <3> QED BY <3>1 DEF Ahead
  <2> QED BY <1>5, <1>10, <2>2, <2>3, <2>4 DEF PairInv
<1> QED BY <1>9, <1>11, <1>12

(* Every other step leaves the rows of both slaves alone, and can tell them *)
(* apart by nothing but the verdict on a Del.                               *)
LEMMA OtherAgree ==
    ASSUME RowInv, [Next]_vars, NEW s \in Slaves, NEW t \in Slaves, PairInv(s, t),
           \A q \in Writes : ~Apply(q, s) /\ ~Apply(q, t)
    PROVE  PairInv(s, t)'
<1> USE DEF RowInv
<1>1. SUFFICES ASSUME Clean(s)', Clean(t)' PROVE PairInv(s, t)'
  BY DEF PairInv
<1>2. Clean(s) /\ Clean(t) BY <1>1, CleanBefore
<1>3. rows'[s] = rows[s] /\ rows'[t] = rows[t] BY RowsStay
<1>4. \A p \in Writes : verdict[p] = "success" =>
         verdict'[p] = "success" /\ op'[p] = op[p]
         /\ exist'[p][s] = exist[p][s] /\ exist'[p][t] = exist[p][t]
  <2> SUFFICES ASSUME NEW p \in Writes, verdict[p] = "success"
               PROVE  verdict'[p] = "success" /\ op'[p] = op[p]
                      /\ exist'[p][s] = exist[p][s] /\ exist'[p][t] = exist[p][t]
    OBVIOUS
  <2>1. ~MTryFromSlave(p, s) /\ ~MTryFromSlave(p, t)
    BY DEF MTryFromSlave
  <2>2. exist'[p][s] = exist[p][s] /\ exist'[p][t] = exist[p][t]
    BY <2>1, ExistStays
  <2>3. op[p] # "none" BY DEF WriteInv, WriteFacts
  <2>4. op'[p] = op[p]
    BY <2>3 DEF Next, vars, Call, Judge, MTryFromSlave, Ask, Execute, Undo, Lose, Apply, TypeOK
  <2>5. verdict'[p] = "success"
    BY DEF Next, vars, Call, Judge, W!Judge, MTryFromSlave, Ask, W!Ask, Execute, W!Execute,
           Undo, W!Undo, Lose, W!Lose, Apply, W!Apply, TypeOK
  <2> QED BY <2>2, <2>4, <2>5
<1>5. ASSUME NEW p \in Writes, verdict[p] = "success"
      PROVE  Written(p, s)' = Written(p, s) /\ Written(p, t)' = Written(p, t)
  BY <1>3, <1>4, <1>5 DEF Written, put, del, Value
<1>6. Ahead(s, t)' = Ahead(s, t) /\ Ahead(t, s)' = Ahead(t, s)
  <2>1. ASSUME NEW p \in Writes, NEW u \in {s, t}, effect'[p][u] # effect[p][u]
        PROVE  effect[p][u] # "applied" /\ effect'[p][u] # "applied"
               /\ verdict[p] # "success"
    <3>1. PICK r \in Writes, v \in Slaves :
             Execute(r, v) \/ Undo(r, v) \/ Lose(r, v) \/ Apply(r, v)
      BY <2>1 DEF Next, vars, Call, Judge, W!Judge, MTryFromSlave, Ask, W!Ask
    <3>2. p = r /\ u = v
      BY <2>1, <3>1, EffectStep
    <3>3. ~Apply(r, v) BY <3>2
    <3>4. \/ effect[p][u] = "none" /\ effect'[p][u] = "tentative" /\ verdict[p] # "success"
          \/ effect[p][u] = "tentative" /\ effect'[p][u] = "undone" /\ verdict[p] = "fail"
          \/ effect[p][u] = "tentative" /\ effect'[p][u] = "lost" /\ verdict' = verdict
      BY <3>1, <3>2, <3>3, EffectStep
    <3>5. CASE effect'[p][u] = "lost"
      <4>1. verdict'[p] # "success" BY <1>1, <3>5 DEF Clean, Behind
      <4> QED BY <3>4, <3>5, <4>1
    <3> QED BY <3>4, <3>5
  <2>2. \A p \in Writes : effect[p][s] = "applied" \/ effect'[p][s] = "applied"
                              \/ effect[p][t] = "applied" \/ effect'[p][t] = "applied"
           => effect'[p][s] = effect[p][s] /\ effect'[p][t] = effect[p][t]
    <3> SUFFICES ASSUME NEW p \in Writes, NEW u \in {s, t}, NEW v \in {s, t},
                        effect[p][u] = "applied" \/ effect'[p][u] = "applied"
                 PROVE  effect'[p][v] = effect[p][v]
      OBVIOUS
    <3>1. effect[p][u] = "applied" BY <2>1
    <3>2. WriteFacts(p) BY DEF WriteInv
    <3>3. verdict[p] = "success" BY <3>1, <3>2 DEF WriteFacts
    <3> QED BY <2>1, <3>3
  <2> QED BY <2>2 DEF Ahead
<1>7. ASSUME NEW q \in Writes, verdict'[q] = "success", op'[q] = "del"
      PROVE  exist'[q][s] = exist'[q][t]
  <2>1. CASE verdict[q] = "success"
    BY <1>2, <1>4, <1>7, <2>1 DEF PairInv
  <2>2. CASE verdict[q] # "success"
    <3>1. Judge(q, "success")
      BY <1>7, <2>2
         DEF Next, vars, Call, Judge, W!Judge, MTryFromSlave, Ask, W!Ask, Execute,
             W!Execute, Undo, W!Undo, Lose, W!Lose, Apply, W!Apply, TypeOK
    <3>2. /\ UNCHANGED <<effect, op, exist, failed, misled>>
          /\ verdict[q] = "none" /\ Tried(q)
      BY <3>1 DEF Judge, W!Judge
    <3>3. ASSUME NEW u \in {s, t} PROVE Pending(q, u)
      <4>1. <<q, u>> \notin failed /\ effect[q][u] # "lost"
        BY <1>1, <1>7, <3>2 DEF Clean, Behind
      <4>2. effect[q][u] # "applied" /\ effect[q][u] # "undone"
        <5>1. WriteFacts(q) BY DEF WriteInv
        <5> QED BY <3>2, <5>1 DEF WriteFacts
      <4>3. effect[q][u] \in {"none", "tentative"}
        BY <4>1, <4>2 DEF TypeOK
      <4> QED BY <3>2, <4>1, <4>3 DEF Pending, Tried
    <3>4. Ahead(s, t) = {} /\ Ahead(t, s) = {}
      <4>1. ASSUME NEW u \in {s, t}, NEW v \in {s, t}, NEW p \in Ahead(u, v) PROVE FALSE
        <5>1. Pending(p, v) /\ p \in Writes /\ verdict[p] = "success"
          BY AheadPending DEF Ahead
        <5>2. p = q BY <1>2, <3>3, <5>1 DEF CalmInv, Clean
        <5> QED BY <3>2, <5>1, <5>2
      <4> QED BY <4>1
    <3>5. rows[s] = rows[t] BY <1>2, <3>4 DEF PairInv
    <3> QED BY <1>2, <3>2, <3>3, <3>5, SameFound DEF Clean
  <2> QED BY <2>1, <2>2
<1>8. ASSUME NEW q \in Ahead(s, t) PROVE rows'[s] = Written(q, t)'
  <2>1. q \in Writes /\ verdict[q] = "success" BY <1>8, AheadPending DEF Ahead
  <2> QED BY <1>2, <1>3, <1>5, <1>8, <2>1 DEF PairInv
<1>9. ASSUME NEW q \in Ahead(t, s) PROVE rows'[t] = Written(q, s)'
  <2>1. q \in Writes /\ verdict[q] = "success" BY <1>9, AheadPending DEF Ahead
  <2> QED BY <1>2, <1>3, <1>5, <1>9, <2>1 DEF PairInv
<1> QED BY <1>2, <1>3, <1>6, <1>7, <1>8, <1>9 DEF PairInv

LEMMA NextAgree ==
    ASSUME RowInv, AgreeInv, [Next]_vars PROVE AgreeInv'
<1> SUFFICES ASSUME NEW s \in Slaves, NEW t \in Slaves PROVE PairInv(s, t)'
  BY DEF AgreeInv
<1>1. CASE s = t
  <2>1. Ahead(s, s)' = {} BY DEF Ahead
  <2> QED BY <1>1, <2>1 DEF PairInv
<1>2. ASSUME s # t, NEW q \in Writes, Apply(q, s) PROVE PairInv(s, t)'
  BY <1>2, ApplyAgree DEF AgreeInv
<1>3. ASSUME s # t, NEW q \in Writes, Apply(q, t) PROVE PairInv(s, t)'
  <2>1. PairInv(t, s)' BY <1>3, ApplyAgree DEF AgreeInv
  <2> QED BY <2>1 DEF PairInv
<1>4. CASE \A q \in Writes : ~Apply(q, s) /\ ~Apply(q, t)
  BY <1>4, OtherAgree DEF AgreeInv
<1> QED BY <1>1, <1>2, <1>3, <1>4

LEMMA InitAgree == ASSUME Init PROVE AgreeInv
<1>1. \A s, t \in Slaves : rows[s] = rows[t] /\ Ahead(s, t) = {}
  BY DEF Init, W!Init, Ahead
<1>2. \A q \in Writes : verdict[q] # "success"
  BY DEF Init, W!Init
<1> QED BY <1>1, <1>2 DEF AgreeInv, PairInv

(* Slaves at rest hold the same rows, unless a write was lost or passed one *)
(* of them by, or it answered a try beside a pending write.                 *)
THEOREM RestingReplicasAgree == Spec => []ReplicasAgree
<1>1. ASSUME RowInv, AgreeInv PROVE ReplicasAgree
  <2> SUFFICES ASSUME NEW s \in Slaves, NEW t \in Slaves,
                      \A r \in Writes : ~Pending(r, s) /\ ~Pending(r, t),
                      Clean(s), Clean(t)
               PROVE  rows[s] = rows[t]
    BY DEF ReplicasAgree, Clean
  <2>1. Ahead(s, t) = {} /\ Ahead(t, s) = {}
    BY <1>1, AheadPending DEF Ahead, RowInv
  <2> QED BY <1>1, <2>1 DEF AgreeInv, PairInv
<1> QED BY <1>1, InitRow, NextRowInv, InitAgree, NextAgree, PTL DEF Spec
=============================================================================
