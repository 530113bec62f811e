-------------------------- MODULE KVSnapshotProofs --------------------------
(***************************************************************************)
(* What create and merge compute, for every log.                           *)
(*                                                                         *)
(* Both are loops over the log, so the proofs are inductions over its      *)
(* length, in the first-order form of PrefixInduction: a set of lengths    *)
(* that has 0 and is closed under successor has all of them.               *)
(***************************************************************************)
EXTENDS KVSnapshot, WellFoundedInduction, SequenceTheorems, TLAPS

-----------------------------------------------------------------------------
(* Induction and recursion over the commands of a log.                     *)

LEMMA PrefixInduction ==
  ASSUME NEW m \in Nat, NEW S, 0 \in S,
         \A i \in 0..m : i \in S /\ i < m => i + 1 \in S
  PROVE  \A i \in 0..m : i \in S
<1> DEFINE T == {i \in 0..m : i \notin S}
<1> SUFFICES ASSUME T # {} PROVE FALSE
  OBVIOUS
<1>1. T \subseteq Nat
  OBVIOUS
<1>2. PICK x \in T : \A y \in T : ~(<<y, x>> \in OpToRel(<, Nat))
  BY <1>1, NatLessThanWellFounded, WFMin
<1>3. x \in 0..m /\ x # 0 /\ x - 1 \in 0..m /\ x - 1 < m
  OBVIOUS
<1>4. <<x - 1, x>> \in OpToRel(<, Nat)
  <2>1. <<x - 1, x>> \in Nat \X Nat /\ x - 1 < x
    BY <1>3
  <2> QED BY <2>1 DEF OpToRel
<1>5. x - 1 \in S
  BY <1>2, <1>3, <1>4
<1> QED BY <1>3, <1>5

(* f[i] is the state of a loop after i rounds, the i-th applying next[i].   *)
Rounds(f, m, base, next) ==
  \A i \in 0..m : f[i] = IF i = 0 THEN base ELSE next[i][f[i - 1]]

(* Every loop has a result.                                                *)
LEMMA LoopExists ==
  ASSUME NEW State, NEW base \in State, NEW m \in Nat, NEW next \in [1..m -> [State -> State]]
  PROVE  \E f \in [0..m -> State] : Rounds(f, m, base, next)
<1> DEFINE Runs(f, n) == Rounds(f, n, base, next)
           S == {n \in Nat : \E f \in [0..n -> State] : Runs(f, n)}
<1>1. 0 \in S
  <2>1. [i \in 0..0 |-> base] \in [0..0 -> State] /\ Runs([i \in 0..0 |-> base], 0)
    BY DEF Rounds
  <2> QED BY <2>1
<1>2. ASSUME NEW n \in 0..m, n \in S, n < m
      PROVE  n + 1 \in S
  <2>1. PICK f \in [0..n -> State] : Runs(f, n)
    BY <1>2
  <2> DEFINE g == [i \in 0..(n + 1) |-> IF i = n + 1 THEN next[n + 1][f[n]] ELSE f[i]]
  <2>2. n \in 0..n /\ n + 1 \in 1..m /\ f[n] \in State
    BY <1>2
  <2>3. next[n + 1] \in [State -> State]
    BY <2>2
  <2>4. next[n + 1][f[n]] \in State
    BY <2>2, <2>3
  <2>5. g \in [0..(n + 1) -> State]
    BY <2>4
  <2>6. ASSUME NEW i \in 0..(n + 1)
        PROVE  g[i] = IF i = 0 THEN base ELSE next[i][g[i - 1]]
    <3>1. CASE i = n + 1
      <4>1. g[i] = next[i][f[n]] /\ g[i - 1] = f[n]
        BY <3>1
      <4> QED BY <4>1, <3>1
    <3>2. CASE i # n + 1
      <4>1. i \in 0..n /\ g[i] = f[i] /\ (i # 0 => g[i - 1] = f[i - 1])
        BY <3>2
      <4> HIDE DEF g
      <4> QED BY <2>1, <4>1 DEF Rounds
    <3> QED BY <3>1, <3>2
  <2> HIDE DEF g
  <2>7. Runs(g, n + 1)
    BY <2>6 DEF Rounds
  <2> QED BY <2>5, <2>7
<1>3. \A n \in 0..m : n \in S /\ n < m => n + 1 \in S
  BY <1>2
<1>4. m \in S
  <2> HIDE DEF S
  <2>1. \A n \in 0..m : n \in S
    BY <1>1, <1>3, PrefixInduction
  <2> QED BY <2>1
<1> QED BY <1>4

LEMMA CommandShape ==
  ASSUME NEW cmd \in KVCommand
  PROVE  /\ cmd.op \in {"Put", "Delete", "Get"} /\ cmd.key \in Keys
         /\ cmd.op = "Put" => cmd.value \in Values
         /\ cmd.op = "Delete" => cmd.value = NoValue
  BY DEF KVCommand, Put, Delete, Get

LEMMA CreateStepType ==
  ASSUME NEW s \in Snapshot, NEW cmd \in KVCommand
  PROVE  CreateStep(s, cmd) \in Snapshot
<1>1. cmd.key \in Keys /\ (cmd.op = "Put" => cmd.value \in Option) /\ NoValue \in Option
  BY CommandShape DEF Option
<1> QED BY <1>1, CommandShape DEF CreateStep, Snapshot, Database

LEMMA EffectType ==
  ASSUME NEW db \in Database, NEW cmd \in KVCommand
  PROVE  Effect(db, cmd) \in Database
  BY CommandShape DEF Effect, Database, Option

LEMMA CreateLoopDef ==
  ASSUME NEW cmds \in Seq(KVCommand)
  PROVE  /\ CreateLoop(cmds) \in [0..Len(cmds) -> Snapshot]
         /\ CreateLoop(cmds)[0] = [snapshotted |-> NewDatabase, deleted_keys |-> {}]
         /\ \A i \in 0..Len(cmds) : i # 0 =>
              CreateLoop(cmds)[i] = CreateStep(CreateLoop(cmds)[i - 1], cmds[i])
<1> DEFINE m == Len(cmds)
           base == [snapshotted |-> NewDatabase, deleted_keys |-> {}]
           Round(f) == [i \in 0..m |-> IF i = 0 THEN base ELSE CreateStep(f[i - 1], cmds[i])]
           next == [i \in 1..m |-> [s \in Snapshot |-> CreateStep(s, cmds[i])]]
           loop == CreateLoop(cmds)
<1>1. m \in Nat /\ base \in Snapshot
  BY DEF Snapshot, Database, NewDatabase, Option
<1>2. \A i \in 1..m : cmds[i] \in KVCommand
  OBVIOUS
<1>3. next \in [1..m -> [Snapshot -> Snapshot]]
  BY <1>2, CreateStepType
<1> HIDE DEF m, base
<1>4. PICK f \in [0..m -> Snapshot] : Rounds(f, m, base, next)
  <2> HIDE DEF next
  <2> QED BY <1>1, <1>3, LoopExists
<1>5. f = Round(f)
  <2>1. ASSUME NEW i \in 0..m PROVE f[i] = Round(f)[i]
    <3>1. CASE i = 0
      BY <1>4, <3>1 DEF Rounds
    <3>2. CASE i # 0
      <4>1. i \in 1..m /\ i - 1 \in 0..m /\ f[i - 1] \in Snapshot
        BY <1>1, <3>2
      <4> QED BY <1>4, <4>1, <3>2 DEF Rounds
    <3> QED BY <3>1, <3>2
  <2> QED BY <2>1
<1>6. loop = CHOOSE g : g = Round(g)
  BY DEF CreateLoop, m, base
<1>7. loop = Round(loop)
  <2> HIDE DEF Round, loop
  <2> QED BY <1>5, <1>6
<1>8. /\ loop[0] = base
      /\ \A i \in 0..m : i # 0 => loop[i] = CreateStep(loop[i - 1], cmds[i])
  <2> HIDE DEF loop
  <2> QED BY <1>1, <1>7
<1>9. \A i \in 0..m : loop[i] \in Snapshot
  <2> DEFINE S == {i \in 0..m : loop[i] \in Snapshot}
  <2>1. 0 \in S
    BY <1>1, <1>8
  <2>2. ASSUME NEW i \in 0..m, i \in S, i < m PROVE i + 1 \in S
    <3>1. i + 1 \in 0..m /\ i + 1 # 0 /\ i + 1 \in 1..m /\ (i + 1) - 1 = i
      BY <1>1, <2>2
    <3>2. loop[i + 1] = CreateStep(loop[i], cmds[i + 1])
      BY <1>8, <3>1
    <3>3. loop[i + 1] \in Snapshot
      BY <1>2, <2>2, <3>1, <3>2, CreateStepType
    <3> QED BY <3>1, <3>3
  <2>3. \A i \in 0..m : i \in S /\ i < m => i + 1 \in S
    BY <2>2
  <2> HIDE DEF S
  <2>4. \A i \in 0..m : i \in S
    BY <1>1, <2>1, <2>3, PrefixInduction
  <2> QED BY <2>4 DEF S
<1>10. loop \in [0..m -> Snapshot]
  <2> HIDE DEF loop
  <2> QED BY <1>7, <1>9
<1> QED BY <1>8, <1>10 DEF m, base

LEMMA ReplayLoopDef ==
  ASSUME NEW db \in Database, NEW cmds \in Seq(KVCommand)
  PROVE  /\ ReplayLoop(db, cmds) \in [0..Len(cmds) -> Database]
         /\ ReplayLoop(db, cmds)[0] = db
         /\ \A i \in 0..Len(cmds) : i # 0 =>
              ReplayLoop(db, cmds)[i] = Effect(ReplayLoop(db, cmds)[i - 1], cmds[i])
<1> DEFINE m == Len(cmds)
           Round(f) == [i \in 0..m |-> IF i = 0 THEN db ELSE Effect(f[i - 1], cmds[i])]
           next == [i \in 1..m |-> [s \in Database |-> Effect(s, cmds[i])]]
           loop == ReplayLoop(db, cmds)
<1>1. m \in Nat
  OBVIOUS
<1>2. \A i \in 1..m : cmds[i] \in KVCommand
  OBVIOUS
<1>3. next \in [1..m -> [Database -> Database]]
  BY <1>2, EffectType
<1> HIDE DEF m
<1>4. PICK f \in [0..m -> Database] : Rounds(f, m, db, next)
  <2> HIDE DEF next
  <2> QED BY <1>1, <1>3, LoopExists
<1>5. f = Round(f)
  <2>1. ASSUME NEW i \in 0..m PROVE f[i] = Round(f)[i]
    <3>1. CASE i = 0
      BY <1>4, <3>1 DEF Rounds
    <3>2. CASE i # 0
      <4>1. i \in 1..m /\ i - 1 \in 0..m /\ f[i - 1] \in Database
        BY <1>1, <3>2
      <4> QED BY <1>4, <4>1, <3>2 DEF Rounds
    <3> QED BY <3>1, <3>2
  <2> QED BY <2>1
<1>6. loop = CHOOSE g : g = Round(g)
  BY DEF ReplayLoop, m
<1>7. loop = Round(loop)
  <2> HIDE DEF Round, loop
  <2> QED BY <1>5, <1>6
<1>8. /\ loop[0] = db
      /\ \A i \in 0..m : i # 0 => loop[i] = Effect(loop[i - 1], cmds[i])
  <2> HIDE DEF loop
  <2> QED BY <1>1, <1>7
<1>9. \A i \in 0..m : loop[i] \in Database
  <2> DEFINE S == {i \in 0..m : loop[i] \in Database}
  <2>1. 0 \in S
    BY <1>1, <1>8
  <2>2. ASSUME NEW i \in 0..m, i \in S, i < m PROVE i + 1 \in S
    <3>1. i + 1 \in 0..m /\ i + 1 # 0 /\ i + 1 \in 1..m /\ (i + 1) - 1 = i
      BY <1>1, <2>2
    <3>2. loop[i + 1] = Effect(loop[i], cmds[i + 1])
      BY <1>8, <3>1
    <3>3. loop[i + 1] \in Database
      BY <1>2, <2>2, <3>1, <3>2, EffectType
    <3> QED BY <3>1, <3>3
  <2>3. \A i \in 0..m : i \in S /\ i < m => i + 1 \in S
    BY <2>2
  <2> HIDE DEF S
  <2>4. \A i \in 0..m : i \in S
    BY <1>1, <2>1, <2>3, PrefixInduction
  <2> QED BY <2>4 DEF S
<1>10. loop \in [0..m -> Database]
  <2> HIDE DEF loop
  <2> QED BY <1>7, <1>9
<1> QED BY <1>8, <1>10 DEF m

-----------------------------------------------------------------------------
(* What a loop has done to one key.                                        *)

(* The writes of k among the first i commands.                             *)
WritesTo(cmds, k, i) == {j \in Writes(cmds, k) : j <= i}

(* After i commands: a key not written is untouched; a key written has the *)
(* value of its last write; a key is in deleted_keys if one of the Deletes *)
(* did not follow a Put.                                                   *)
KeyState(cmds, k, i, s, old, new) ==
  /\ WritesTo(cmds, k, i) = {} => s.snapshotted[k] = NoValue /\ new = old
  /\ \A j \in WritesTo(cmds, k, i) :
       (\A l \in WritesTo(cmds, k, i) : l <= j) =>
          s.snapshotted[k] = cmds[j].value /\ new = cmds[j].value
  /\ k \in s.deleted_keys <=>
       \E j \in WritesTo(cmds, k, i) : cmds[j].op = "Delete" /\ ~PutBefore(cmds, k, j)

(* There is a last one among finitely many writes.                         *)
LEMMA LastWrite ==
  ASSUME NEW cmds \in Seq(KVCommand), NEW k, NEW i \in 0..Len(cmds), WritesTo(cmds, k, i) # {}
  PROVE  \E j \in WritesTo(cmds, k, i) : \A l \in WritesTo(cmds, k, i) : l <= j
<1> DEFINE W(n) == WritesTo(cmds, k, n)
           S == {n \in 0..Len(cmds) : W(n) # {} => \E j \in W(n) : \A l \in W(n) : l <= j}
<1>1. Len(cmds) \in Nat /\ \A n \in 0..Len(cmds) : W(n) \subseteq 1..n
  BY DEF WritesTo, Writes
<1>2. 0 \in S
  BY <1>1
<1>3. ASSUME NEW n \in 0..Len(cmds), n \in S, n < Len(cmds)
      PROVE  n + 1 \in S
  <2>1. n + 1 \in 0..Len(cmds)
    BY <1>1, <1>3
  <2>2. CASE n + 1 \in W(n + 1)
    <3>1. \A l \in W(n + 1) : l <= n + 1
      BY <1>1, <2>1
    <3> QED BY <2>1, <2>2, <3>1
  <2>3. CASE n + 1 \notin W(n + 1)
    <3>1. W(n + 1) = W(n)
      BY <2>3 DEF WritesTo, Writes
    <3> HIDE DEF W
    <3> QED BY <1>3, <2>1, <3>1
  <2> QED BY <2>2, <2>3
<1>4. \A n \in 0..Len(cmds) : n \in S /\ n < Len(cmds) => n + 1 \in S
  BY <1>3
<1> HIDE DEF S
<1>5. i \in S
  <2>1. \A n \in 0..Len(cmds) : n \in S
    BY <1>1, <1>2, <1>4, PrefixInduction
  <2> QED BY <2>1
<1> QED BY <1>5 DEF S

(* One round on a key.                                                     *)
LEMMA CreateStepOnKey ==
  ASSUME NEW s \in Snapshot, NEW cmd \in KVCommand, NEW k \in Keys
  PROVE  LET t == CreateStep(s, cmd) IN
         /\ cmd.op = "Get" \/ cmd.key # k =>
              t.snapshotted[k] = s.snapshotted[k] /\ (k \in t.deleted_keys <=> k \in s.deleted_keys)
         /\ cmd.op # "Get" /\ cmd.key = k =>
              /\ t.snapshotted[k] = cmd.value
              /\ k \in t.deleted_keys <=>
                   \/ k \in s.deleted_keys
                   \/ cmd.op = "Delete" /\ s.snapshotted[k] = NoValue
<1>1. /\ s.snapshotted \in [Keys -> Option] /\ s.deleted_keys \in SUBSET Keys
      /\ s = [snapshotted |-> s.snapshotted, deleted_keys |-> s.deleted_keys]
  BY DEF Snapshot, Database
<1>2. cmd.key \in Keys
  BY CommandShape
<1>3. CASE cmd.op = "Put"
  BY <1>1, <1>2, <1>3, CommandShape DEF CreateStep
<1>4. CASE cmd.op = "Delete"
  BY <1>1, <1>2, <1>4, CommandShape DEF CreateStep
<1>5. CASE cmd.op = "Get"
  BY <1>1, <1>2, <1>5, CommandShape DEF CreateStep
<1> QED BY <1>3, <1>4, <1>5, CommandShape

LEMMA KeyStateStep ==
  ASSUME NEW cmds \in Seq(KVCommand), NEW k \in Keys, NEW i \in 0..Len(cmds), i < Len(cmds),
         NEW s \in Snapshot, NEW old, NEW db \in Database, KeyState(cmds, k, i, s, old, db[k])
  PROVE  KeyState(cmds, k, i + 1, CreateStep(s, cmds[i + 1]), old, Effect(db, cmds[i + 1])[k])
<1> DEFINE cmd == cmds[i + 1]
           t   == CreateStep(s, cmd)
           W   == WritesTo(cmds, k, i)
           new == Effect(db, cmd)[k]
<1>1. /\ Len(cmds) \in Nat /\ i + 1 \in 1..Len(cmds) /\ cmd \in KVCommand
      /\ W \subseteq 1..i
  BY DEF WritesTo, Writes
<1>2. new = IF cmd.op # "Get" /\ k = cmd.key THEN cmd.value ELSE db[k]
  BY DEF Effect
<1>3. CASE cmd.op = "Get" \/ cmd.key # k
  <2>1. WritesTo(cmds, k, i + 1) = W
    BY <1>1, <1>3 DEF WritesTo, Writes
  <2>2. /\ t.snapshotted[k] = s.snapshotted[k]
        /\ k \in t.deleted_keys <=> k \in s.deleted_keys
        /\ new = db[k]
    BY <1>1, <1>2, <1>3, CreateStepOnKey
  <2> HIDE DEF t, new, W
  <2> QED BY <2>1, <2>2 DEF KeyState, W, t, new
<1>4. CASE cmd.op # "Get" /\ cmd.key = k
  <2>1. WritesTo(cmds, k, i + 1) = W \cup {i + 1}
    BY <1>1, <1>4 DEF WritesTo, Writes
  <2>2. /\ t.snapshotted[k] = cmd.value
        /\ k \in t.deleted_keys <=>
             k \in s.deleted_keys \/ (cmd.op = "Delete" /\ s.snapshotted[k] = NoValue)
        /\ new = cmd.value
    BY <1>1, <1>2, <1>4, CreateStepOnKey
  <2>3. i + 1 \in Writes(cmds, k) /\ \A l \in Writes(cmds, k) : l \in W \/ i + 1 <= l
    BY <1>1, <1>4 DEF WritesTo, Writes
  <2>4. s.snapshotted[k] = NoValue <=> ~PutBefore(cmds, k, i + 1)
    <3>1. CASE W = {}
      <4>1. ~PutBefore(cmds, k, i + 1)
        BY <1>1, <2>3, <3>1 DEF PutBefore, Writes
      <4> QED BY <3>1, <4>1 DEF KeyState
    <3>2. CASE W # {}
      <4>1. PICK j \in W : \A l \in W : l <= j
        BY <3>2, LastWrite
      <4>2. s.snapshotted[k] = cmds[j].value /\ j \in Writes(cmds, k) /\ j \in 1..i
        BY <1>1, <4>1 DEF KeyState, WritesTo
      <4>3. cmds[j] \in KVCommand /\ cmds[j].op # "Get"
        BY <1>1, <4>2 DEF Writes
      <4>4. PutBefore(cmds, k, i + 1) <=> cmds[j].op = "Put"
        <5>1. ASSUME cmds[j].op = "Put" PROVE PutBefore(cmds, k, i + 1)
          <6>1. \A l \in Writes(cmds, k) : l <= j \/ i + 1 <= l
            BY <2>3, <4>1
          <6>2. j < i + 1
            BY <4>2
          <6> QED BY <4>2, <5>1, <6>1, <6>2 DEF PutBefore
        <5>2. ASSUME PutBefore(cmds, k, i + 1) PROVE cmds[j].op = "Put"
          <6>1. PICK p \in Writes(cmds, k) :
                  /\ p < i + 1 /\ cmds[p].op = "Put"
                  /\ \A l \in Writes(cmds, k) : l <= p \/ i + 1 <= l
            BY <5>2 DEF PutBefore
          <6>2. p \in Nat /\ p \in W
            BY <1>1, <2>3, <6>1 DEF Writes
          <6>3. p <= j /\ (j <= p \/ i + 1 <= j)
            BY <4>1, <4>2, <6>1, <6>2
          <6>4. p = j
            BY <4>2, <6>2, <6>3
          <6> QED BY <6>1, <6>4
        <5> QED BY <5>1, <5>2
      <4>5. cmds[j].value = NoValue <=> cmds[j].op # "Put"
        BY <4>3, CommandShape, KVAssumption
      <4> QED BY <4>2, <4>4, <4>5
    <3> QED BY <3>1, <3>2
  <2>5. k \in s.deleted_keys <=>
          \E j \in W : cmds[j].op = "Delete" /\ ~PutBefore(cmds, k, j)
    BY DEF KeyState
  <2>6. k \in t.deleted_keys <=>
          \E j \in W \cup {i + 1} : cmds[j].op = "Delete" /\ ~PutBefore(cmds, k, j)
    BY <2>2, <2>4, <2>5
  <2>7. ASSUME NEW j \in W \cup {i + 1}, \A l \in W \cup {i + 1} : l <= j
        PROVE  j = i + 1
    <3>1. i + 1 <= j /\ (j \in 1..i \/ j = i + 1)
      BY <1>1, <2>7
    <3> QED BY <3>1
  <2> HIDE DEF t, new, W
  <2> QED BY <2>1, <2>2, <2>6, <2>7 DEF KeyState, t, new
<1> QED BY <1>3, <1>4

(* The loops of create and of execution, key by key.                       *)
LEMMA KeyStateAlways ==
  ASSUME NEW cmds \in Seq(KVCommand), NEW db \in Database, NEW k \in Keys
  PROVE  KeyState(cmds, k, Len(cmds), CreateLoop(cmds)[Len(cmds)], db[k], Replay(db, cmds)[k])
<1> DEFINE m == Len(cmds)
           s == CreateLoop(cmds)
           r == ReplayLoop(db, cmds)
           S == {i \in 0..m : KeyState(cmds, k, i, s[i], db[k], r[i][k])}
<1>1. /\ s \in [0..m -> Snapshot] /\ s[0] = [snapshotted |-> NewDatabase, deleted_keys |-> {}]
      /\ \A i \in 0..m : i # 0 => s[i] = CreateStep(s[i - 1], cmds[i])
  BY CreateLoopDef
<1>2. /\ r \in [0..m -> Database] /\ r[0] = db
      /\ \A i \in 0..m : i # 0 => r[i] = Effect(r[i - 1], cmds[i])
  BY ReplayLoopDef
<1>3. m \in Nat
  OBVIOUS
<1> HIDE DEF m, s, r
<1>4. 0 \in S
  <2>1. WritesTo(cmds, k, 0) = {}
    BY DEF WritesTo, Writes
  <2> QED BY <1>1, <1>2, <1>3, <2>1 DEF KeyState, NewDatabase
<1>5. ASSUME NEW i \in 0..m, i \in S, i < m
      PROVE  i + 1 \in S
  <2>1. i + 1 \in 0..m /\ i + 1 # 0 /\ (i + 1) - 1 = i
    BY <1>3, <1>5
  <2>2. s[i + 1] = CreateStep(s[i], cmds[i + 1]) /\ r[i + 1] = Effect(r[i], cmds[i + 1])
    BY <1>1, <1>2, <2>1
  <2>3. s[i] \in Snapshot /\ r[i] \in Database
    BY <1>1, <1>2
  <2>4. KeyState(cmds, k, i + 1, s[i + 1], db[k], r[i + 1][k])
    BY <1>5, <2>2, <2>3, KeyStateStep DEF m
  <2> QED BY <2>1, <2>4
<1>6. \A i \in 0..m : i \in S /\ i < m => i + 1 \in S
  BY <1>5
<1>7. m \in S
  <2> HIDE DEF S
  <2>1. \A i \in 0..m : i \in S
    BY <1>3, <1>4, <1>6, PrefixInduction
  <2> QED BY <1>3, <2>1
<1> QED BY <1>7 DEF m, s, r, Replay

LEMMA CreateShape ==
  ASSUME NEW cmds \in Seq(KVCommand)
  PROVE  LET s == CreateLoop(cmds)[Len(cmds)] IN
         /\ s \in Snapshot
         /\ Create(cmds).snapshotted = s.snapshotted
         /\ Create(cmds).deleted_keys = {k \in s.deleted_keys : s.snapshotted[k] = NoValue}
         /\ Create(cmds) \in Snapshot
<1>1. CreateLoop(cmds)[Len(cmds)] \in Snapshot
  BY CreateLoopDef
<1> QED BY <1>1 DEF Create, Snapshot

LEMMA ReplayType ==
  ASSUME NEW db \in Database, NEW cmds \in Seq(KVCommand)
  PROVE  Replay(db, cmds) \in Database
  BY ReplayLoopDef DEF Replay

LEMMA MergeType ==
  ASSUME NEW base \in Snapshot, NEW delta \in Snapshot
  PROVE  Merge(base, delta) \in Snapshot
  BY DEF Merge, Snapshot, Database, Option

(* create is execution on an empty store: for every log.                   *)
LEMMA CreateReplays ==
  ASSUME NEW cmds \in Seq(KVCommand)
  PROVE  Create(cmds).snapshotted = Replay(NewDatabase, cmds)
<1> DEFINE s == CreateLoop(cmds)[Len(cmds)]
           r == Replay(NewDatabase, cmds)
<1>1. NewDatabase \in Database
  BY DEF NewDatabase, Database, Option
<1>2. s.snapshotted \in [Keys -> Option] /\ r \in [Keys -> Option]
  BY <1>1, CreateShape, ReplayType DEF Snapshot, Database
<1>3. ASSUME NEW k \in Keys PROVE s.snapshotted[k] = r[k]
  <2>1. KeyState(cmds, k, Len(cmds), s, NewDatabase[k], r[k])
    BY <1>1, KeyStateAlways
  <2>2. CASE WritesTo(cmds, k, Len(cmds)) = {}
    BY <2>1, <2>2 DEF KeyState, NewDatabase
  <2>3. CASE WritesTo(cmds, k, Len(cmds)) # {}
    <3>1. PICK j \in WritesTo(cmds, k, Len(cmds)) :
            \A l \in WritesTo(cmds, k, Len(cmds)) : l <= j
      BY <2>3, LastWrite
    <3> QED BY <2>1, <3>1 DEF KeyState
  <2> QED BY <2>2, <2>3
<1> HIDE DEF s, r
<1>4. s.snapshotted = r
  BY <1>2, <1>3
<1> QED BY <1>4, CreateShape DEF s, r

(* What merging a delta does to a key: for every snapshot and every delta. *)
LEMMA MergeReplaysBut ==
  ASSUME NEW base \in Snapshot, NEW cmds \in Seq(KVCommand), NEW k \in Keys
  PROVE  /\ Merge(base, Create(cmds)).snapshotted[k] =
           IF HidesDeletion(cmds, k) THEN base.snapshotted[k]
                                     ELSE Replay(base.snapshotted, cmds)[k]
         /\ HidesDeletion(cmds, k) => Replay(base.snapshotted, cmds)[k] = NoValue
<1> DEFINE m   == Len(cmds)
           s   == CreateLoop(cmds)[m]
           old == base.snapshotted[k]
           r   == Replay(base.snapshotted, cmds)[k]
           W   == WritesTo(cmds, k, m)
           merged == Merge(base, Create(cmds)).snapshotted[k]
           Goal == /\ merged = IF HidesDeletion(cmds, k) THEN old ELSE r
                   /\ HidesDeletion(cmds, k) => r = NoValue
<1>1. base.snapshotted \in Database
  BY DEF Snapshot
<1>2. KeyState(cmds, k, m, s, old, r)
  BY <1>1, KeyStateAlways
<1>3. m \in Nat /\ W = Writes(cmds, k) /\ W \subseteq 1..m
  BY DEF WritesTo, Writes
<1>4. merged =
        IF k \in s.deleted_keys /\ s.snapshotted[k] = NoValue THEN NoValue
        ELSE IF s.snapshotted[k] # NoValue THEN s.snapshotted[k] ELSE old
  BY CreateShape DEF Merge
<1> HIDE DEF s, r, old, merged
<1>5. ASSUME W = {} PROVE Goal
  <2>1. ~HidesDeletion(cmds, k)
    BY <1>3, <1>5 DEF HidesDeletion
  <2>2. s.snapshotted[k] = NoValue /\ r = old /\ k \notin s.deleted_keys
    BY <1>2, <1>5 DEF KeyState, W
  <2> QED BY <1>4, <2>1, <2>2
<1>6. ASSUME W # {} PROVE Goal
  <2>1. PICK j \in W : \A l \in W : l <= j
    BY <1>3, <1>6, LastWrite
  <2>2. s.snapshotted[k] = cmds[j].value /\ r = cmds[j].value
    BY <1>2, <2>1 DEF KeyState, W
  <2>3. cmds[j] \in KVCommand /\ cmds[j].op # "Get"
    BY <1>3, <2>1 DEF Writes
  <2>4. k \in s.deleted_keys <=> \E l \in W : cmds[l].op = "Delete" /\ ~PutBefore(cmds, k, l)
    BY <1>2 DEF KeyState, W
  <2>5. CASE cmds[j].op = "Put"
    <3>1. cmds[j].value # NoValue
      BY <2>3, <2>5, CommandShape, KVAssumption
    <3>2. ~HidesDeletion(cmds, k)
      <4>1. ASSUME NEW i \in W, cmds[i].op = "Delete", \A l \in W : l <= i PROVE FALSE
        <5>1. i <= j /\ j <= i /\ i \in Nat /\ j \in Nat
          BY <1>3, <2>1, <4>1
        <5>2. i = j
          BY <5>1
        <5> QED BY <4>1, <5>2, <2>5
      <4> QED BY <1>3, <4>1 DEF HidesDeletion
    <3> QED BY <1>4, <2>2, <3>1, <3>2
  <2>6. CASE cmds[j].op = "Delete"
    <3>1. cmds[j].value = NoValue
      BY <2>3, <2>6, CommandShape
    <3>2. HidesDeletion(cmds, k) <=> k \notin s.deleted_keys
      BY <1>3, <2>1, <2>4, <2>6 DEF HidesDeletion
    <3> QED BY <1>4, <2>2, <3>1, <3>2
  <2> QED BY <2>3, <2>5, <2>6, CommandShape
<1> QED BY <1>5, <1>6 DEF old, r, merged

-----------------------------------------------------------------------------
(* The state machine.                                                      *)

SnapTypeOK ==
  /\ entries \in Seq(KVCommand)
  /\ covered \in 0..Len(entries)
  /\ snapshot \in Snapshot

LEMMA UncoveredType ==
  ASSUME SnapTypeOK
  PROVE  Uncovered \in Seq(KVCommand)
  BY DEF SnapTypeOK, Uncovered

LEMMA SnapTypeInit ==
  ASSUME SnapInit
  PROVE  SnapTypeOK
<1>1. << >> \in Seq(KVCommand) /\ Len(<< >>) = 0
  OBVIOUS
<1>2. Create(<< >>) \in Snapshot
  BY <1>1, CreateShape
<1> QED BY <1>1, <1>2 DEF SnapInit, SnapTypeOK

LEMMA SnapTypeNext ==
  ASSUME SnapTypeOK, [SnapNext]_snapVars
  PROVE  SnapTypeOK'
<1>1. ASSUME NEW cmd \in KVCommand, AppendEntry(cmd) PROVE SnapTypeOK'
  BY <1>1 DEF SnapTypeOK, AppendEntry
<1>2. CASE Compact
  <2>1. Create(Uncovered) \in Snapshot
    BY UncoveredType, CreateShape
  <2> QED BY <1>2, <2>1, MergeType DEF SnapTypeOK, Compact
<1>3. CASE UNCHANGED snapVars
  BY <1>3 DEF SnapTypeOK, snapVars
<1> QED BY <1>1, <1>2, <1>3 DEF SnapNext

LEMMA SnapTypeCorrect == SnapSpec => []SnapTypeOK
  BY SnapTypeInit, SnapTypeNext, PTL DEF SnapSpec

(* A snapshot created from a log holds exactly the store the log leads to, *)
(* and lists no key as deleted that is in it (KVSnapshot::create).         *)
THEOREM SnapshotOfLog == SnapSpec => []CreateIsReplay
<1>1. SnapTypeOK => CreateIsReplay
  BY CreateReplays, CreateShape DEF SnapTypeOK, CreateIsReplay
<1> QED BY <1>1, SnapTypeCorrect, PTL

(* Merging the delta of the second part of a log into a snapshot of the    *)
(* first goes wrong at exactly the keys whose deletion the delta hides     *)
(* (KVSnapshot::merge after create).                                       *)
THEOREM MergeOfDelta == SnapSpec => []MergeIsReplayBut
<1>1. SnapTypeOK => MergeIsReplayBut
  <2> SUFFICES ASSUME SnapTypeOK, NEW i \in 0..Len(entries), NEW k \in Keys
               PROVE  LET base  == Create(SubSeq(entries, 1, i))
                          delta == SubSeq(entries, i + 1, Len(entries))
                      IN  Merge(base, Create(delta)).snapshotted[k] =
                            IF HidesDeletion(delta, k)
                            THEN base.snapshotted[k]
                            ELSE Replay(base.snapshotted, delta)[k]
    BY DEF MergeIsReplayBut
  <2>1. /\ SubSeq(entries, 1, i) \in Seq(KVCommand)
        /\ SubSeq(entries, i + 1, Len(entries)) \in Seq(KVCommand)
    BY DEF SnapTypeOK
  <2>2. Create(SubSeq(entries, 1, i)) \in Snapshot
    BY <2>1, CreateShape
  <2> QED BY <2>1, <2>2, MergeReplaysBut
<1> QED BY <1>1, SnapTypeCorrect, PTL

-----------------------------------------------------------------------------
(* Restarting from a snapshot.                                             *)

(* Executing a part of a log from the store before it.                     *)
LEMMA ReplayOfPart ==
  ASSUME NEW db \in Database, NEW cmds \in Seq(KVCommand), NEW off \in 0..Len(cmds),
         NEW part \in Seq(KVCommand), off + Len(part) <= Len(cmds),
         \A j \in 1..Len(part) : part[j] = cmds[off + j]
  PROVE  Replay(ReplayLoop(db, cmds)[off], part) = ReplayLoop(db, cmds)[off + Len(part)]
<1> DEFINE m == Len(part)
           whole == ReplayLoop(db, cmds)
           own == ReplayLoop(whole[off], part)
           S == {j \in 0..m : own[j] = whole[off + j]}
<1>1. /\ whole \in [0..Len(cmds) -> Database]
      /\ \A i \in 0..Len(cmds) : i # 0 => whole[i] = Effect(whole[i - 1], cmds[i])
  BY ReplayLoopDef
<1>2. /\ own[0] = whole[off]
      /\ \A j \in 0..m : j # 0 => own[j] = Effect(own[j - 1], part[j])
  <2>1. whole[off] \in Database
    BY <1>1
  <2> HIDE DEF whole
  <2> QED BY <2>1, ReplayLoopDef
<1>3. m \in Nat /\ Len(cmds) \in Nat /\ off \in Nat
  OBVIOUS
<1> HIDE DEF own, whole
<1>4. 0 \in S
  BY <1>2, <1>3
<1>5. ASSUME NEW j \in 0..m, j \in S, j < m PROVE j + 1 \in S
  <2>1. /\ j + 1 \in 0..m /\ j + 1 # 0 /\ (j + 1) - 1 = j /\ j + 1 \in 1..Len(part)
        /\ off + (j + 1) \in 0..Len(cmds) /\ off + (j + 1) # 0
        /\ (off + (j + 1)) - 1 = off + j
    BY <1>3, <1>5
  <2>2. own[j + 1] = Effect(own[j], part[j + 1])
    BY <1>2, <2>1
  <2>3. whole[off + (j + 1)] = Effect(whole[off + j], cmds[off + (j + 1)])
    BY <1>1, <2>1
  <2>4. part[j + 1] = cmds[off + (j + 1)]
    BY <2>1
  <2> QED BY <1>5, <2>1, <2>2, <2>3, <2>4
<1>6. \A j \in 0..m : j \in S /\ j < m => j + 1 \in S
  BY <1>5
<1>7. own[m] = whole[off + m]
  <2> HIDE DEF S, m
  <2>1. \A j \in 0..m : j \in S
    BY <1>3, <1>4, <1>6, PrefixInduction
  <2> QED BY <1>3, <2>1 DEF S
<1> QED BY <1>7 DEF Replay, own, whole

LEMMA ReplayAppend ==
  ASSUME NEW db \in Database, NEW cmds \in Seq(KVCommand), NEW cmd \in KVCommand
  PROVE  Replay(db, Append(cmds, cmd)) = Effect(Replay(db, cmds), cmd)
<1> DEFINE all == Append(cmds, cmd)
           m   == Len(cmds)
<1>1. /\ all \in Seq(KVCommand) /\ Len(all) = m + 1 /\ all[m + 1] = cmd /\ m \in Nat
      /\ \A j \in 1..m : all[j] = cmds[j]
  OBVIOUS
<1> HIDE DEF all
<1>2. /\ ReplayLoop(db, all)[0] = db
      /\ ReplayLoop(db, all)[m + 1] = Effect(ReplayLoop(db, all)[(m + 1) - 1], all[m + 1])
  BY <1>1, ReplayLoopDef
<1>3. Replay(ReplayLoop(db, all)[0], cmds) = ReplayLoop(db, all)[0 + Len(cmds)]
  BY <1>1, ReplayOfPart
<1>4. (m + 1) - 1 = m /\ 0 + Len(cmds) = m
  BY <1>1
<1> QED BY <1>1, <1>2, <1>3, <1>4 DEF all, Replay

(* Compaction keeps the snapshot and the rest of the log equivalent to the *)
(* log exactly when the delta hides no deletion of a key in the snapshot.  *)
LEMMA CompactRestoresIff ==
  ASSUME SnapTypeOK, SnapshotRestores, Compact
  PROVE  SnapshotRestores' <=> NothingHidden
<1> DEFINE base   == snapshot.snapshotted
           merged == Merge(snapshot, Create(Uncovered)).snapshotted
           r      == Replay(base, Uncovered)
<1>1. /\ Uncovered \in Seq(KVCommand) /\ base \in [Keys -> Option]
      /\ base \in Database /\ snapshot \in Snapshot
  BY UncoveredType DEF SnapTypeOK, Snapshot, Database
<1>2. merged \in Database /\ merged \in [Keys -> Option] /\ r \in [Keys -> Option]
  BY <1>1, CreateShape, MergeType, ReplayType DEF Snapshot, Database
<1>3. Uncovered' = << >> /\ snapshot'.snapshotted = merged /\ entries' = entries
  BY DEF Compact, Uncovered, SnapTypeOK
<1>4. Replay(merged, << >>) = merged
  <2>1. << >> \in Seq(KVCommand) /\ Len(<< >>) = 0
    OBVIOUS
  <2> QED BY <1>2, <2>1, ReplayLoopDef DEF Replay
<1>5. \A k \in Keys :
        /\ merged[k] = IF HidesDeletion(Uncovered, k) THEN base[k] ELSE r[k]
        /\ HidesDeletion(Uncovered, k) => r[k] = NoValue
  BY <1>1, MergeReplaysBut
<1> HIDE DEF base, merged, r
<1>6. SnapshotRestores' <=> merged = r
  BY <1>3, <1>4 DEF SnapshotRestores, base, r
<1>7. merged = r <=> \A k \in Keys : merged[k] = r[k]
  BY <1>2
<1>8. (\A k \in Keys : merged[k] = r[k])
        <=> \A k \in Keys : HidesDeletion(Uncovered, k) => base[k] = NoValue
  BY <1>5
<1> QED BY <1>6, <1>7, <1>8 DEF NothingHidden, base

(* If no compaction meets a hidden deletion, a restart from the snapshot   *)
(* and the entries after it always leads to the store.  The hypothesis is  *)
(* necessary (CompactRestoresIff), and the code does not ensure it (run    *)
(* snapshot_restore).                                                      *)
THEOREM RestoresUnlessHidden ==
  SnapSpec /\ [][Compact => NothingHidden]_snapVars => []SnapshotRestores
<1>1. SnapInit => SnapshotRestores
  <2> SUFFICES ASSUME SnapInit PROVE SnapshotRestores
    OBVIOUS
  <2>1. << >> \in Seq(KVCommand) /\ Len(<< >>) = 0 /\ Uncovered = << >>
    BY DEF SnapInit, Uncovered
  <2>2. NewDatabase \in Database
    BY DEF NewDatabase, Database, Option
  <2>3. Replay(NewDatabase, << >>) = NewDatabase
    BY <2>1, <2>2, ReplayLoopDef DEF Replay
  <2>4. snapshot.snapshotted = NewDatabase /\ entries = << >>
    BY <2>1, <2>3, CreateReplays DEF SnapInit
  <2> QED BY <2>1, <2>3, <2>4 DEF SnapshotRestores
<1>2. SnapTypeOK /\ SnapshotRestores /\ [SnapNext]_snapVars
        /\ [Compact => NothingHidden]_snapVars => SnapshotRestores'
  <2> SUFFICES ASSUME SnapTypeOK, SnapshotRestores, [SnapNext]_snapVars,
                      [Compact => NothingHidden]_snapVars
               PROVE  SnapshotRestores'
    OBVIOUS
  <2>1. ASSUME NEW cmd \in KVCommand, AppendEntry(cmd) PROVE SnapshotRestores'
    <3>1. /\ entries \in Seq(KVCommand) /\ Uncovered \in Seq(KVCommand)
          /\ snapshot.snapshotted \in Database /\ NewDatabase \in Database
      BY UncoveredType DEF SnapTypeOK, Snapshot, NewDatabase, Database, Option
    <3>2. Uncovered' = Append(Uncovered, cmd)
      <4> DEFINE m == Len(entries)
                 u == SubSeq(entries, covered + 1, m)
                 v == SubSeq(Append(entries, cmd), covered + 1, m + 1)
      <4>1. entries \in Seq(KVCommand) /\ m \in Nat /\ covered \in 0..m
        BY DEF SnapTypeOK
      <4>2. u \in Seq(KVCommand) /\ Len(u) = m - covered
            /\ \A j \in 1..(m - covered) : u[j] = entries[covered + j]
        BY <4>1
      <4>3. Append(entries, cmd) \in Seq(KVCommand) /\ Len(Append(entries, cmd)) = m + 1
        BY <4>1
      <4>4. v \in Seq(KVCommand) /\ Len(v) = m + 1 - covered
            /\ \A j \in 1..(m + 1 - covered) : v[j] = Append(entries, cmd)[covered + j]
        BY <4>1, <4>3
      <4> HIDE DEF u, v
      <4>5. Append(u, cmd) \in Seq(KVCommand) /\ Len(Append(u, cmd)) = m - covered + 1
        BY <4>2
      <4>6. ASSUME NEW j \in 1..Len(v) PROVE v[j] = Append(u, cmd)[j]
        <5>1. j \in 1..(m + 1 - covered) /\ v[j] = Append(entries, cmd)[covered + j]
          BY <4>4
        <5>2. CASE j = m + 1 - covered
          <6>1. covered + j = m + 1 /\ j = Len(u) + 1
            BY <4>1, <4>2, <5>2
          <6>2. Append(entries, cmd)[m + 1] = cmd
            BY <4>1
          <6>3. Append(u, cmd)[Len(u) + 1] = cmd
            BY <4>2
          <6> QED BY <5>1, <6>1, <6>2, <6>3
        <5>3. CASE j # m + 1 - covered
          <6>1. j \in 1..(m - covered) /\ covered + j \in 1..m
            BY <4>1, <5>1, <5>3
          <6>2. Append(entries, cmd)[covered + j] = entries[covered + j]
            BY <4>1, <6>1
          <6>3. Append(u, cmd)[j] = u[j]
            BY <4>2, <6>1
          <6> QED BY <4>2, <5>1, <6>1, <6>2, <6>3
        <5> QED BY <5>2, <5>3
      <4>7. Len(v) = Len(Append(u, cmd))
        BY <4>1, <4>4, <4>5
      <4>8. v = Append(u, cmd)
        BY <4>4, <4>5, <4>6, <4>7, SeqEqual
      <4> QED BY <2>1, <4>3, <4>8 DEF AppendEntry, Uncovered, u, v
    <3>3. Replay(snapshot.snapshotted, Uncovered') = Effect(Replay(NewDatabase, entries), cmd)
      BY <3>1, <3>2, ReplayAppend DEF SnapshotRestores
    <3>4. Replay(NewDatabase, entries') = Effect(Replay(NewDatabase, entries), cmd)
      BY <2>1, <3>1, ReplayAppend DEF AppendEntry
    <3> QED BY <2>1, <3>3, <3>4 DEF SnapshotRestores, AppendEntry
  <2>2. CASE Compact
    <3>1. CASE NothingHidden
      BY <2>2, <3>1, CompactRestoresIff
    <3>2. CASE UNCHANGED snapVars
      BY <3>2 DEF snapVars, SnapshotRestores, Uncovered
    <3> QED BY <2>2, <3>1, <3>2
  <2>3. CASE UNCHANGED snapVars
    BY <2>3 DEF snapVars, SnapshotRestores, Uncovered
  <2> QED BY <2>1, <2>2, <2>3 DEF SnapNext
<1> QED BY <1>1, <1>2, SnapTypeCorrect, PTL DEF SnapSpec
=============================================================================
