--------------------------- MODULE PlanExecProofs ---------------------------
(***************************************************************************)
(* Theorems about PlanExec for all scripts, cells, values and bounds.      *)
(***************************************************************************)
EXTENDS PlanExec, FiniteSetTheorems, TLAPS

(***************************************************************************)
(* The cascade.  CascadeComplete speaks of the end of an apply; what keeps *)
(* it is that as long as operations are owed, dirty is set and they are    *)
(* still to come.                                                          *)
(***************************************************************************)
IsSequence(s) == s \in Seq({s[j] : j \in DOMAIN s})

(* Where executePlan is, and what it has read by then. *)
Reading ==
  /\ ops \in Scripts
  /\ i \in 1 .. Len(ops)
  /\ pc \in {"idle", "read", "decide", "record", "write", "end"}
  /\ IsSequence(curr)
  /\ pc = "idle" => curr = <<>> /\ i = 1
  /\ pc = "read" => Len(curr) = i - 1
  /\ pc \in {"decide", "record", "write", "end"} => Len(curr) = Len(ops)
  /\ pc = "write" => (ops[i].target = {} => curr[i].target = NoEntries)
  /\ pc \in {"record", "write"} => ~dry

Owing ==
  /\ owed # {} => dirty /\ ~dry
  /\ pc \in {"idle", "read", "end"} => owed = {}
  /\ pc = "decide" => owed \subseteq i .. Len(ops)
  /\ pc \in {"record", "write"} => owed \subseteq (i + 1) .. Len(ops)

Cascade == Reading /\ (~faulted => Owing)

-----------------------------------------------------------------------------
LEMMA FunctionIsSequence ==
  ASSUME NEW S, NEW n \in Nat, NEW f \in [1 .. n -> S]
  PROVE  f \in Seq(S)
OBVIOUS

LEMMA AppendIsSequence ==
  ASSUME NEW s, IsSequence(s), NEW e
  PROVE  /\ IsSequence(Append(s, e)) /\ Len(Append(s, e)) = Len(s) + 1
         /\ DOMAIN s = 1 .. Len(s) /\ DOMAIN Append(s, e) = 1 .. Len(s) + 1
         /\ \A j \in 1 .. Len(s) : Append(s, e)[j] = s[j]
         /\ Append(s, e)[Len(s) + 1] = e
<1> DEFINE S == {s[j] : j \in DOMAIN s} \cup {e}
           t == Append(s, e)
<1>1. s \in Seq(S)
  BY DEF IsSequence
<1>2. /\ t \in Seq(S) /\ Len(t) = Len(s) + 1
      /\ DOMAIN s = 1 .. Len(s) /\ DOMAIN t = 1 .. Len(s) + 1
      /\ \A j \in 1 .. Len(s) : t[j] = s[j]
      /\ t[Len(s) + 1] = e
  BY <1>1
<1>3. t \in Seq({t[j] : j \in DOMAIN t})
  BY <1>2
<1> QED
  BY <1>2, <1>3 DEF IsSequence

LEMMA ExceptIsSequence ==
  ASSUME NEW s, IsSequence(s), NEW j \in 1 .. Len(s), NEW e
  PROVE  LET t == [s EXCEPT ![j] = e] IN
           /\ IsSequence(t) /\ Len(t) = Len(s) /\ t[j] = e
           /\ DOMAIN t = DOMAIN s /\ \A k \in DOMAIN s \ {j} : t[k] = s[k]
<1> DEFINE S == {s[k] : k \in DOMAIN s} \cup {e}
           t == [s EXCEPT ![j] = e]
<1>1. s \in Seq(S)
  BY DEF IsSequence
<1>2. t \in Seq(S) /\ Len(t) = Len(s) /\ t[j] = e
  BY <1>1
<1>3. t \in [1 .. Len(t) -> {t[k] : k \in DOMAIN t}] /\ Len(t) \in Nat
  BY <1>2
<1>4. t \in Seq({t[k] : k \in DOMAIN t})
  BY <1>3, FunctionIsSequence
<1>5. DOMAIN t = DOMAIN s /\ \A k \in DOMAIN s \ {j} : t[k] = s[k]
  OBVIOUS
<1> QED
  BY <1>2, <1>4, <1>5 DEF IsSequence

LEMMA ScriptLength ==
  ASSUME ops \in Scripts
  PROVE  Len(ops) \in Nat \ {0} /\ ops \in Seq(Operation) /\ DOMAIN ops = 1 .. Len(ops)
BY ScriptsAssumption

(* An operation without targets has no entries of any. *)
LEMMA NoTargets ==
  ASSUME NEW op, op.target = {}
  PROVE  StateOf(op).target = NoEntries
<1>1. StateOf(op).target = Entries(op, {})
  BY DEF StateOf
<1>2. {d \in {} : m[d].data # Absent \/ d \in op.named} = {}
  OBVIOUS
<1>3. Entries(op, {}) = [c \in {} |-> Seen(op, c)]
  BY <1>2 DEF Entries
<1>4. [c \in {} |-> Seen(op, c)] = [c \in {} |-> Absent]
  OBVIOUS
<1> QED
  BY <1>1, <1>3, <1>4 DEF NoEntries

(* An operation that changed is not untouched, so that what follows it is  *)
(* dirty.                                                                  *)
LEMMA ChangedIsTouched ==
  ASSUME ops[i].target = {} => curr[i].target = NoEntries, Changed
  PROVE  ~TargetUntouched
BY DEF Changed, TargetUntouched

-----------------------------------------------------------------------------
LEMMA CascadeInit ==
  ASSUME Init
  PROVE  Cascade
<1>1. Len(ops) \in Nat \ {0}
  BY ScriptLength DEF Init
<1>2. IsSequence(<<>>) /\ Len(<<>>) = 0
  BY DEF IsSequence
<1> QED
  BY <1>1, <1>2 DEF Init, Cascade, Reading, Owing

LEMMA CascadeNext ==
  ASSUME Cascade, [Next]_vars
  PROVE  Cascade'
<1> USE DEF Cascade
<1>0. Len(ops) \in Nat \ {0}
  BY ScriptLength DEF Reading
<1>1. ASSUME NEW d \in BOOLEAN, Start(d)
      PROVE  Cascade'
  BY <1>0, <1>1 DEF Start, Reading, Owing, history
<1>2. CASE Read
  <2>1. IsSequence(curr') /\ Len(curr') = Len(curr) + 1
    BY <1>2, AppendIsSequence DEF Read, Reading
  <2>2. pc = "read" /\ Len(curr) = i - 1 /\ i \in 1 .. Len(ops)
    BY <1>2 DEF Read, Reading
  <2>3. Reading'
    <3>1. CASE i = Len(ops)
      BY <1>0, <1>2, <2>1, <2>2, <3>1 DEF Read, Reading
    <3>2. CASE i # Len(ops)
      BY <1>0, <1>2, <2>1, <2>2, <3>2 DEF Read, Reading
    <3> QED
      BY <3>1, <3>2
  <2>4. ~faulted => owed = {}
    BY <2>2 DEF Owing
  <2>5. (~faulted => Owing)'
    BY <1>2, <2>4 DEF Read, Owing, history
  <2> QED
    BY <2>3, <2>5
<1>3. CASE Skip
  <2>1. ~faulted => owed = {}
    BY <1>3 DEF Skip, NeedsRun, Owing
  <2> QED
    BY <1>0, <1>3, <2>1 DEF Skip, Advance, Reading, Owing, history
<1>4. CASE Run
  BY <1>0, <1>4 DEF Run, Reading, Owing
<1>5. CASE Record
  <2>1. /\ IsSequence(curr') /\ Len(curr') = Len(curr)
        /\ curr'[i] = StateOf(ops[i])
    <3>1. i \in 1 .. Len(curr) /\ IsSequence(curr)
      BY <1>0, <1>5 DEF Record, Reading
    <3>2. curr' = [curr EXCEPT ![i] = StateOf(ops[i])]
      BY <1>5 DEF Record
    <3>3. LET t == [curr EXCEPT ![i] = StateOf(ops[i])] IN
            IsSequence(t) /\ Len(t) = Len(curr) /\ t[i] = StateOf(ops[i])
      BY ONLY <3>1, ExceptIsSequence
    <3> QED
      BY <3>2, <3>3
  <2>2. ops[i].target = {} => curr'[i].target = NoEntries
    BY <2>1, NoTargets
  <2> QED
    BY <1>0, <1>5, <2>1, <2>2 DEF Record, Reading, Owing, history
<1>6. CASE Write
  <2>1. Changed => ~TargetUntouched
    BY <1>6, ChangedIsTouched DEF Write, Reading
  <2>2. Reading'
    BY <1>0, <1>6 DEF Write, Advance, Reading
  <2>3. ASSUME ~faulted
        PROVE  Owing'
    <3>1. /\ i \in 1 .. Len(ops) /\ owed \subseteq (i + 1) .. Len(ops)
          /\ owed # {} => dirty
          /\ ~dry /\ dry' = dry /\ ops' = ops
      BY <1>6, <2>3 DEF Write, Reading, Owing
    <3>2. owed' = {} \/ dirty'
      BY <1>6, <2>1, <3>1 DEF Write, Advance
    <3>3. owed' \subseteq (i + 1) .. Len(ops)
      BY <1>6, <3>1 DEF Write
    <3>4. CASE i = Len(ops)
      <4>1. owed' = {} /\ pc' = "end"
        BY <1>0, <1>6, <3>3, <3>4 DEF Write, Advance
      <4> QED
        BY <4>1 DEF Owing
    <3>5. CASE i # Len(ops)
      <4>1. i' = i + 1 /\ pc' = "decide"
        BY <1>6, <3>5 DEF Write, Advance
      <4> QED
        BY <3>1, <3>2, <3>3, <4>1 DEF Owing
    <3> QED
      BY <3>4, <3>5
  <2> QED
    BY <1>6, <2>2, <2>3 DEF Write
<1>7. CASE End
  <2>1. IsSequence(<<>>)
    BY DEF IsSequence
  <2> QED
    BY <1>0, <1>7, <2>1 DEF End, Forget, Reading, Owing
<1>8. CASE Abort
  <2>1. IsSequence(<<>>)
    BY DEF IsSequence
  <2> QED
    BY <1>0, <1>8, <2>1 DEF Abort, Forget, Reading, Owing
<1>9. ASSUME NEW c \in Cell, NEW v \in Value \cup {Absent}, Change(c, v)
      PROVE  Cascade'
  BY <1>9 DEF Change, Reading, Owing, progress
<1>10. CASE UNCHANGED vars
  BY <1>10 DEF Reading, Owing, vars, progress, history
<1> QED
  BY <1>1, <1>2, <1>3, <1>4, <1>5, <1>6, <1>7, <1>8, <1>9, <1>10 DEF Next

(* Without failures an apply that succeeds has run every operation that    *)
(* follows one whose state changed - for every script, machine and number  *)
(* of changes.  (executePlan, executeOperation)                            *)
THEOREM CascadeIsComplete == Spec => []CascadeComplete
<1>1. Cascade => CascadeComplete
  BY DEF Cascade, Owing, CascadeComplete
<1> QED
  BY <1>1, CascadeInit, CascadeNext, PTL DEF Spec
-----------------------------------------------------------------------------
(***************************************************************************)
(* Types.  What takes an argument is the stamp of a write: there is always *)
(* one that no recorded state has, because a cell has at most six recorded *)
(* entries for each operation of the script, and the bound on the stamps   *)
(* leaves room for one more.                                               *)
(***************************************************************************)
EntryType == [data : Value \cup {Absent, Null}, stamp : Stamp]

IsState(s) == OfType(s) /\ s = [file |-> s.file, source |-> s.source, target |-> s.target]

Typed == TypeOK /\ Cascade /\ IsSequence(prev) /\ \A s \in Kept : IsState(s)

LEMMA ImageBound ==
  ASSUME NEW n \in Nat, NEW f
  PROVE  /\ IsFiniteSet({f[k] : k \in 1 .. n})
         /\ Cardinality({f[k] : k \in 1 .. n}) \in Nat
         /\ Cardinality({f[k] : k \in 1 .. n}) <= n
<1> DEFINE T == {f[k] : k \in 1 .. n}
           g == [k \in 1 .. n |-> f[k]]
           S == 1 .. n
<1>1. g \in Surjection(S, T)
  BY DEF Surjection
<1>2. IsFiniteSet(S) /\ Cardinality(S) = n
  <2>1. 1 \in Int /\ n \in Int /\ (1 > n => n = 0)
    OBVIOUS
  <2>2. IsFiniteSet(1 .. n) /\ Cardinality(1 .. n) = IF 1 > n THEN 0 ELSE n - 1 + 1
    BY <2>1, FS_Interval, Zenon
  <2> QED
    BY <2>1, <2>2
<1>3. IsFiniteSet(T) /\ Cardinality(T) <= Cardinality(S)
  <2> HIDE DEF g, S, T
  <2> QED
    BY <1>1, <1>2, FS_Surjection, Zenon
<1>4. Cardinality(T) \in Nat
  BY <1>3, FS_CardinalityType
<1> QED
  BY <1>2, <1>3, <1>4

LEMMA UnionBound ==
  ASSUME NEW S, IsFiniteSet(S), NEW T, IsFiniteSet(T), NEW a \in Nat, NEW b \in Nat,
         Cardinality(S) <= a, Cardinality(T) <= b
  PROVE  IsFiniteSet(S \cup T) /\ Cardinality(S \cup T) <= a + b
<1>1. IsFiniteSet(S \cup T) /\ Cardinality(S \cup T) = Cardinality(S) + Cardinality(T) - Cardinality(S \cap T)
  BY FS_Union
<1>2. S \cap T \in SUBSET S
  OBVIOUS
<1>3. IsFiniteSet(S \cap T)
  BY <1>2, FS_Subset
<1>4. Cardinality(S) \in Nat /\ Cardinality(T) \in Nat /\ Cardinality(S \cap T) \in Nat
  BY <1>3, FS_CardinalityType
<1> QED
  BY <1>1, <1>4

(* There is a stamp that no recorded state of the cell has. *)
LEMMA FreshStamp ==
  ASSUME NEW c, ops \in Scripts,
         Len(ops) \in Nat, IsSequence(prev), IsSequence(curr),
         Len(prev) <= Len(ops), Len(curr) <= Len(ops)
  PROVE  \E s \in Stamp : s \notin Recorded(c)
<1> DEFINE n  == Len(ops)
           f1 == [k \in 1 .. n |-> disk[ops[k]].source[c].stamp]
           f2 == [k \in 1 .. n |-> disk[ops[k]].target[c].stamp]
           f3 == [k \in 1 .. n |-> prev[k].source[c].stamp]
           f4 == [k \in 1 .. n |-> prev[k].target[c].stamp]
           f5 == [k \in 1 .. n |-> curr[k].source[c].stamp]
           f6 == [k \in 1 .. n |-> curr[k].target[c].stamp]
           I(f) == {f[k] : k \in 1 .. n}
           A  == I(f1) \cup I(f2)
           B  == I(f3) \cup I(f4)
           C  == I(f5) \cup I(f6)
           R  == (A \cup B) \cup C
<1>1. DOMAIN ops = 1 .. n /\ n \in Nat
  BY ScriptLength
<1>2. DOMAIN prev \subseteq 1 .. n /\ DOMAIN curr \subseteq 1 .. n
  <2>1. DOMAIN prev = 1 .. Len(prev) /\ Len(prev) \in Nat
    BY DEF IsSequence
  <2>2. DOMAIN curr = 1 .. Len(curr) /\ Len(curr) \in Nat
    BY DEF IsSequence
  <2> QED
    BY <2>1, <2>2, <1>1
<1>3. Recorded(c) \subseteq R
  <2> SUFFICES ASSUME NEW r \in Recorded(c)
               PROVE  r \in R
    OBVIOUS
  <2>1. PICK e \in {s.source : s \in Kept} \cup {s.target : s \in Kept} : r = e[c].stamp
    BY DEF Recorded
  <2>2. PICK s \in Kept : e \in {s.source, s.target}
    BY <2>1
  <2>3. CASE s \in {disk[k] : k \in Key}
    <3>1. PICK k \in 1 .. n : s = disk[ops[k]]
      BY <1>1, <2>3 DEF Key, Index
    <3>2. f1[k] = s.source[c].stamp /\ f2[k] = s.target[c].stamp
      BY <3>1
    <3>3. e[c].stamp = f1[k] \/ e[c].stamp = f2[k]
      BY <2>2, <3>2
    <3>4. e[c].stamp \in I(f1) \/ e[c].stamp \in I(f2)
      BY <3>3
    <3> QED
      BY <2>1, <3>4
  <2>4. CASE s \in {prev[k] : k \in DOMAIN prev}
    <3>1. PICK k \in 1 .. n : s = prev[k]
      BY <1>2, <2>4
    <3>2. f3[k] = s.source[c].stamp /\ f4[k] = s.target[c].stamp
      BY <3>1
    <3>3. e[c].stamp = f3[k] \/ e[c].stamp = f4[k]
      BY <2>2, <3>2
    <3>4. e[c].stamp \in I(f3) \/ e[c].stamp \in I(f4)
      BY <3>3
    <3> QED
      BY <2>1, <3>4
  <2>5. CASE s \in {curr[k] : k \in DOMAIN curr}
    <3>1. PICK k \in 1 .. n : s = curr[k]
      BY <1>2, <2>5
    <3>2. f5[k] = s.source[c].stamp /\ f6[k] = s.target[c].stamp
      BY <3>1
    <3>3. e[c].stamp = f5[k] \/ e[c].stamp = f6[k]
      BY <2>2, <3>2
    <3>4. e[c].stamp \in I(f5) \/ e[c].stamp \in I(f6)
      BY <3>3
    <3> QED
      BY <2>1, <3>4
  <2> QED
    BY <2>2, <2>3, <2>4, <2>5 DEF Kept
<1>4. IsFiniteSet(R) /\ Cardinality(R) <= 6 * n
  <2>1. \A f : IsFiniteSet(I(f)) /\ Cardinality(I(f)) <= n
    BY <1>1, ImageBound
  <2> HIDE DEF I, f1, f2, f3, f4, f5, f6
  <2>3. /\ IsFiniteSet(A) /\ Cardinality(A) <= n + n
        /\ IsFiniteSet(B) /\ Cardinality(B) <= n + n
        /\ IsFiniteSet(C) /\ Cardinality(C) <= n + n
    BY <1>1, <2>1, UnionBound
  <2>2. n \in Nat
    BY <1>1
  <2> HIDE DEF A, B, C, n
  <2>4. IsFiniteSet(A \cup B) /\ Cardinality(A \cup B) <= (n + n) + (n + n)
    <3>1. n + n \in Nat
      BY <2>2
    <3> QED
      BY <3>1, <2>3, UnionBound, Zenon
  <2>5. IsFiniteSet((A \cup B) \cup C) /\ Cardinality((A \cup B) \cup C) <= ((n + n) + (n + n)) + (n + n)
    <3>1. n + n \in Nat /\ (n + n) + (n + n) \in Nat
      BY <2>2
    <3> QED
      BY <3>1, <2>3, <2>4, UnionBound, Zenon
  <2>6. ((n + n) + (n + n)) + (n + n) = 6 * n
    BY <2>2
  <2> QED
    BY <2>5, <2>6
<1> HIDE DEF R
<1>5. IsFiniteSet(Stamp) /\ Cardinality(Stamp) = MaxStamp + 1
  <2>1. MaxStamp \in Nat /\ 0 \in Int /\ MaxStamp \in Int /\ ~(0 > MaxStamp)
    BY ScriptsAssumption
  <2>2. IsFiniteSet(0 .. MaxStamp)
          /\ Cardinality(0 .. MaxStamp) = IF 0 > MaxStamp THEN 0 ELSE MaxStamp - 0 + 1
    BY <2>1, FS_Interval, Zenon
  <2> QED
    BY <2>1, <2>2 DEF Stamp
<1>6. 6 * n <= MaxStamp /\ MaxStamp \in Nat
  BY ScriptsAssumption
<1> SUFFICES ASSUME Stamp \subseteq Recorded(c)
             PROVE  FALSE
  OBVIOUS
<1>7. Stamp \in SUBSET R
  BY <1>3
<1>8. Cardinality(Stamp) <= Cardinality(R) /\ Cardinality(R) \in Nat
  BY <1>4, <1>7, FS_Subset, FS_CardinalityType
<1> HIDE DEF n
<1> QED
  BY <1>1, <1>4, <1>5, <1>6, <1>8

(* A write changes one cell, and gives it a stamp of its own. *)
LEMMA WrittenIs ==
  ASSUME Typed, NEW c \in Cell, NEW v \in Value \cup {Absent}
  PROVE  /\ Written(c, v) \in [Cell -> Content]
         /\ Written(c, v)[c].data = v
         /\ Written(c, v)[c].stamp \notin Recorded(c)
         /\ \A d \in Cell \ {c} : Written(c, v)[d] = m[d]
<1>1. \E s \in Stamp : s \notin Recorded(c)
  <2>1. /\ ops \in Scripts /\ IsSequence(prev) /\ IsSequence(curr)
        /\ Len(curr) <= Len(ops) /\ Len(prev) = Len(curr)
    BY DEF Typed, TypeOK, Cascade, Reading
  <2>2. Len(ops) \in Nat
    BY <2>1, ScriptLength
  <2> QED
    BY <2>1, <2>2, FreshStamp
<1> DEFINE s == CHOOSE r \in Stamp : r \notin Recorded(c)
<1>2. s \in Stamp /\ s \notin Recorded(c)
  BY <1>1
<1>3. m \in [Cell -> Content]
  BY DEF Typed, TypeOK
<1> HIDE DEF s
<1>4. Written(c, v) = [m EXCEPT ![c] = [data |-> v, stamp |-> s]]
  BY DEF Written, s
<1> QED
  BY <1>2, <1>3, <1>4 DEF Content

LEMMA Typing ==
  ASSUME Typed
  PROVE  /\ Len(ops) \in Nat \ {0} /\ Index = 1 .. Len(ops)
         /\ \A k \in Index : ops[k] \in Operation /\ ops[k] \in Key
         /\ Key \subseteq Operation /\ Involved \subseteq Cell
         /\ m \in [Cell -> Content] /\ i \in Index
         /\ DOMAIN prev = 1 .. Len(prev) /\ DOMAIN curr = 1 .. Len(curr)
         /\ Len(prev) = Len(curr) /\ Len(curr) \in Nat
         /\ pc \in {"decide", "record", "write", "end"} => DOMAIN prev = Index /\ DOMAIN curr = Index
<1>1. ops \in Scripts
  BY DEF Typed, TypeOK
<1>2. Len(ops) \in Nat \ {0} /\ ops \in Seq(Operation) /\ DOMAIN ops = 1 .. Len(ops)
  BY <1>1, ScriptLength
<1>3. \A k \in Index : ops[k] \in Operation /\ ops[k] \in Key
  BY <1>2 DEF Index, Key
<1>4. Key \subseteq Operation
  BY <1>3 DEF Key
<1>5. Involved \subseteq Cell
  BY <1>4 DEF Involved, Operation
<1>6. /\ DOMAIN prev = 1 .. Len(prev) /\ DOMAIN curr = 1 .. Len(curr)
      /\ Len(curr) \in Nat
  <2>1. IsSequence(prev) /\ IsSequence(curr)
    BY DEF Typed, Cascade, Reading
  <2> QED
    BY <2>1 DEF IsSequence
<1> QED
  BY <1>2, <1>3, <1>4, <1>5, <1>6 DEF Typed, TypeOK, Cascade, Reading, Index

(* What GetState returns, and what is read back of it. *)
LEMMA StateTyped ==
  ASSUME m \in [Cell -> Content], NEW op \in Operation
  PROVE  IsState(StateOf(op))
<1>1. ASSUME NEW cells \in SUBSET Cell
      PROVE  /\ DOMAIN Entries(op, cells) \subseteq Cell
             /\ \A c \in DOMAIN Entries(op, cells) : Entries(op, cells)[c] \in EntryType
  <2>1. \A c \in Cell : Seen(op, c) \in EntryType
    <3>1. 0 \in Stamp
      BY ScriptsAssumption DEF Stamp
    <3> QED
      BY <3>1 DEF Seen, EntryType, Content
  <2> QED
    BY <2>1 DEF Entries
<1>2. op.source \in SUBSET Cell /\ op.target \in SUBSET Cell
  BY DEF Operation
<1>3. /\ StateOf(op).file = "saved"
      /\ StateOf(op).source = Entries(op, op.source)
      /\ StateOf(op).target = Entries(op, op.target)
  BY DEF StateOf
<1> QED
  BY <1>1, <1>2, <1>3 DEF IsState, OfType, EntryType, StateOf

LEMMA OnDiskTyped ==
  ASSUME NEW s, IsState(s)
  PROVE  IsState(OnDisk(s))
<1>1. ASSUME NEW e, DOMAIN e \subseteq Cell, \A c \in DOMAIN e : e[c] \in EntryType
      PROVE  /\ DOMAIN Nulled(e) \subseteq Cell
             /\ \A c \in DOMAIN Nulled(e) : Nulled(e)[c] \in EntryType
  <2>1. ASSUME NEW c \in DOMAIN e
        PROVE  [e[c] EXCEPT !.data = Null] \in EntryType
    BY <1>1 DEF EntryType
  <2> QED
    BY <1>1, <2>1 DEF Nulled
<1>2. OnDisk(s) = [file |-> s.file, source |-> Nulled(s.source), target |-> Nulled(s.target)]
  BY DEF OnDisk
<1> QED
  BY <1>1, <1>2 DEF IsState, OfType, EntryType

LEMMA NoneTyped == IsState(None) /\ IsState(Torn)
BY DEF IsState, OfType, None, Torn, NoEntries

LEMMA TypedInit ==
  ASSUME Init
  PROVE  Typed
<1>1. ops \in Scripts
  BY DEF Init
<1>2. Len(ops) \in Nat \ {0} /\ ops \in Seq(Operation) /\ Index = 1 .. Len(ops)
  BY <1>1, ScriptLength DEF Index
<1>3. m \in [Cell -> Content]
  <2>1. 0 \in Stamp
    BY ScriptsAssumption DEF Stamp
  <2> QED
    BY <2>1 DEF Init, Content
<1>4. Cascade
  BY CascadeInit
<1>5. Kept \subseteq {None}
  BY DEF Init, Kept
<1>6. /\ DOMAIN disk = Key /\ Len(prev) = Len(curr) /\ Len(curr) <= Len(ops)
      /\ used \in [Index -> Value \cup {Absent}]
      /\ owed = {} /\ changes \in 0 .. MaxChanges /\ i \in Index
  BY <1>2, ScriptsAssumption DEF Init
<1>7. IsSequence(prev)
  BY DEF Init, IsSequence
<1> QED
  BY <1>1, <1>3, <1>4, <1>5, <1>6, <1>7, NoneTyped DEF Typed, TypeOK, Init, IsState

LEMMA Bounds ==
  ASSUME NEW n \in Nat \ {0}
  PROVE  /\ 1 \in 1 .. n
         /\ \A j \in 1 .. n : (j + 1) .. n \subseteq 1 .. n
OBVIOUS

LEMMA TypedNext ==
  ASSUME Typed, [Next]_vars
  PROVE  Typed'
<1>1. /\ Len(ops) \in Nat \ {0} /\ Index = 1 .. Len(ops)
      /\ ops[i] \in Operation /\ ops[i] \in Key /\ Involved \subseteq Cell
      /\ m \in [Cell -> Content] /\ i \in Index
      /\ DOMAIN prev = 1 .. Len(prev) /\ DOMAIN curr = 1 .. Len(curr)
      /\ pc \in {"decide", "record", "write", "end"} => DOMAIN prev = Index /\ DOMAIN curr = Index
  BY Typing
<1>2. MaxChanges \in Nat
  BY ScriptsAssumption
<1>3. ops[i].to \in Cell /\ ops[i].from \in Cell
  BY <1>1 DEF Operation
<1>4. Cascade'
  BY CascadeNext DEF Typed
<1>5. IsState(StateOf(ops[i]))
  BY <1>1, StateTyped
<1> USE DEF Typed
<1>6. ASSUME NEW d \in BOOLEAN, Start(d)
      PROVE  Typed'
  BY <1>4, <1>6 DEF Start, TypeOK, history, Index, Key, Kept, IsState, OfType
<1>7. CASE Read
  <2>1. /\ IsSequence(prev') /\ Len(prev') = Len(prev) + 1
        /\ DOMAIN prev' = 1 .. Len(prev) + 1
        /\ \A j \in 1 .. Len(prev) : prev'[j] = prev[j]
        /\ prev'[Len(prev) + 1] = disk[ops[i]]
    BY <1>7, AppendIsSequence DEF Read
  <2>2. /\ IsSequence(curr') /\ Len(curr') = Len(curr) + 1
        /\ DOMAIN curr' = 1 .. Len(curr) + 1
        /\ \A j \in 1 .. Len(curr) : curr'[j] = curr[j]
        /\ curr'[Len(curr) + 1] = StateOf(ops[i])
    BY <1>7, AppendIsSequence DEF Read, Cascade, Reading
  <2>3. Kept' \subseteq Kept \cup {StateOf(ops[i])}
    <3>1. disk' = disk /\ Key' = Key
      BY <1>7 DEF Read, Key, Index
    <3>2. ASSUME NEW j \in DOMAIN prev'
          PROVE  prev'[j] \in Kept
      BY <1>1, <2>1, <3>1 DEF Kept
    <3>3. ASSUME NEW j \in DOMAIN curr'
          PROVE  curr'[j] \in Kept \cup {StateOf(ops[i])}
      BY <1>1, <2>2 DEF Kept
    <3> QED
      BY <3>1, <3>2, <3>3 DEF Kept
  <2>4. \A s \in Kept' : IsState(s)
    BY <1>5, <2>3
  <2>5. i' \in Index' /\ Len(curr') <= Len(ops')
    <3>1. ops' = ops /\ Len(curr') <= Len(ops)
      BY <1>1, <1>4, <1>7, <2>2 DEF Read, Cascade, Reading
    <3>2. i' \in 1 .. Len(ops)
      BY <3>1, <1>4 DEF Cascade, Reading
    <3> QED
      BY <1>1, <3>1, <3>2 DEF Index
  <2>6. TypeOK'
    BY <1>1, <1>7, <2>1, <2>2, <2>4, <2>5 DEF Read, TypeOK, history, Index, Key, IsState
  <2> QED
    BY <1>4, <2>1, <2>4, <2>6 DEF IsState, OfType
<1>8. CASE Skip
  <2>1. i' \in Index' /\ pc' \in {"end", "decide"} /\ dirty' \in BOOLEAN
    <3>1. ops' = ops /\ i' \in 1 .. Len(ops)
      BY <1>4, <1>8 DEF Skip, Cascade, Reading
    <3>2. dirty \in BOOLEAN /\ NeedsRun \in BOOLEAN
      BY DEF TypeOK, NeedsRun
    <3> QED
      BY <1>1, <1>8, <3>1, <3>2 DEF Skip, Advance, Index
  <2>2. Kept' = Kept
    BY <1>8 DEF Skip, Kept, Key, Index
  <2> QED
    BY <1>4, <1>8, <2>1, <2>2 DEF Skip, TypeOK, history, Index, Key, IsState, OfType
<1>9. CASE Run
  <2>1. m' \in [Cell -> Content]
    <3>1. m[ops[i].from].data \in Value
      BY <1>1, <1>3, <1>9 DEF Run, Content
    <3>2. Written(ops[i].to, m[ops[i].from].data) \in [Cell -> Content]
      BY <1>3, <3>1, WrittenIs
    <3> QED
      BY <1>1, <1>9, <3>2 DEF Run
  <2>2. used' \in [Index -> Value \cup {Absent}]
    BY <1>1, <1>3, <1>9 DEF Run, TypeOK, Content
  <2>3. Kept' = Kept
    BY <1>9 DEF Run, Kept, Key, Index
  <2> QED
    BY <1>4, <1>9, <2>1, <2>2, <2>3 DEF Run, TypeOK, Index, Key, IsState, OfType
<1>10. CASE Record
  <2>1. Kept' \subseteq Kept \cup {StateOf(ops[i]), Torn}
    <3>1. /\ DOMAIN disk = Key /\ Key' = Key /\ prev' = prev
          /\ disk' = [disk EXCEPT ![ops[i]] = Torn]
          /\ curr' = [curr EXCEPT ![i] = StateOf(ops[i])]
      BY <1>10 DEF Record, Key, Index, TypeOK
    <3>2. ASSUME NEW k \in Key
          PROVE  disk'[k] \in Kept \cup {Torn}
      BY <3>1 DEF Kept
    <3>3. ASSUME NEW j \in DOMAIN curr'
          PROVE  curr'[j] \in Kept \cup {StateOf(ops[i])}
      BY <3>1 DEF Kept
    <3> QED
      BY <3>1, <3>2, <3>3 DEF Kept
  <2>2. \A s \in Kept' : IsState(s)
    BY <1>5, <2>1, NoneTyped
  <2>3. Len(curr') = Len(curr)
    <3>1. i \in 1 .. Len(curr) /\ IsSequence(curr)
      BY <1>1, <1>10 DEF Record, Cascade, Reading
    <3> QED
      BY <1>10, <3>1, ExceptIsSequence DEF Record
  <2> QED
    BY <1>4, <1>10, <2>2, <2>3 DEF Record, TypeOK, history, Index, Key, IsState
<1>11. CASE Write
  <2>1. Kept' \subseteq Kept \cup {OnDisk(curr[i])}
    <3>1. /\ DOMAIN disk = Key /\ Key' = Key /\ prev' = prev /\ curr' = curr
          /\ disk' = [disk EXCEPT ![ops[i]] = OnDisk(curr[i])]
      BY <1>11 DEF Write, Key, Index, TypeOK
    <3>2. ASSUME NEW k \in Key
          PROVE  disk'[k] \in Kept \cup {OnDisk(curr[i])}
      BY <3>1 DEF Kept
    <3> QED
      BY <3>1, <3>2 DEF Kept
  <2>2. IsState(OnDisk(curr[i]))
    <3>1. curr[i] \in Kept
      BY <1>1, <1>11 DEF Write, Kept
    <3> QED
      BY <3>1, OnDiskTyped
  <2>3. \A s \in Kept' : IsState(s)
    BY <2>1, <2>2
  <2>4. /\ i' \in Index' /\ pc' \in {"end", "decide"} /\ dirty' \in BOOLEAN
        /\ owed' \subseteq Index'
    <3>1. ops' = ops /\ i' \in 1 .. Len(ops)
      BY <1>4, <1>11 DEF Write, Cascade, Reading
    <3>2. owed' \subseteq Index'
      <4>1. (i + 1) .. Len(ops) \subseteq Index
        BY <1>1, Bounds, Zenon
      <4>2. owed \subseteq Index /\ Index' = Index
        BY <3>1 DEF TypeOK, Index
      <4> QED
        BY <1>11, <4>1, <4>2 DEF Write
    <3>3. dirty' \in BOOLEAN
      <4>1. dirty' = (dirty \/ ~TargetUntouched)
        BY <1>11 DEF Write, Advance
      <4> QED
        BY <4>1, Zenon
    <3> QED
      BY <1>1, <1>11, <3>1, <3>2, <3>3 DEF Write, Advance, Index
  <2> QED
    BY <1>4, <1>11, <2>3, <2>4 DEF Write, TypeOK, Index, Key, IsState
<1>12. ASSUME Forget, disk' = disk, ops' = ops
       PROVE  /\ \A s \in Kept' : IsState(s)
              /\ IsSequence(prev') /\ i' \in Index' /\ Len(prev') = Len(curr') /\ Len(curr') <= Len(ops')
  <2>1. Kept' \subseteq Kept
    BY <1>12 DEF Forget, Kept, Key, Index
  <2> QED
    <3>1. 1 \in Index /\ Index' = Index /\ i' = 1
      <4>1. 1 \in Index
        BY <1>1, Bounds, Zenon
      <4> QED
        BY <4>1, <1>12 DEF Forget, Index
    <3>2. IsSequence(prev') /\ Len(prev') = 0 /\ Len(curr') = 0
      BY <1>12 DEF Forget, IsSequence
    <3>3. Len(ops) \in Nat /\ Index = 1 .. Len(ops)
      BY <1>1
    <3>4. i' \in Index' /\ Len(prev') = Len(curr') /\ Len(curr') <= Len(ops')
      BY <1>12, <3>1, <3>2, <3>3
    <3>5. \A s \in Kept' : IsState(s)
      BY <2>1
    <3> QED
      BY <3>2, <3>4, <3>5
<1>13. CASE End
  BY <1>4, <1>12, <1>13 DEF End, Forget, TypeOK, Index, Key, IsState
<1>14. CASE Abort
  BY <1>4, <1>12, <1>14 DEF Abort, Forget, TypeOK, Index, Key, IsState
<1>15. ASSUME NEW c \in Cell, NEW v \in Value \cup {Absent}, Change(c, v)
       PROVE  Typed'
  <2>1. m' \in [Cell -> Content]
    <3>1. Written(c, v) \in [Cell -> Content]
      BY WrittenIs
    <3>2. 0 \in Stamp
      BY ScriptsAssumption DEF Stamp
    <3> QED
      BY <1>1, <1>15, <3>1, <3>2 DEF Change, Content
  <2>2. Kept' = Kept
    BY <1>15 DEF Change, progress, Kept, Key, Index
  <2>3. changes' \in 0 .. MaxChanges
    BY <1>2, <1>15 DEF Change, TypeOK
  <2> QED
    <3>1. \A s \in Kept' : IsState(s)
      BY <2>2
    <3>2. fresh' \in BOOLEAN /\ quiet' \in BOOLEAN /\ disturbed' \in BOOLEAN
      BY <1>15, Zenon DEF Change
    <3>3. TypeOK'
      BY <1>15, <2>1, <2>3, <3>1, <3>2 DEF Change, progress, TypeOK, Index, Key, IsState
    <3> QED
      BY <1>4, <1>15, <3>1, <3>3 DEF Change, progress, IsState, OfType
<1>16. CASE UNCHANGED vars
  <2>1. Kept' = Kept
    BY <1>16 DEF vars, progress, Kept, Key, Index
  <2>2. \A s \in Kept' : IsState(s)
    BY <2>1
  <2>3. TypeOK'
    BY <1>16, <2>2 DEF vars, progress, history, TypeOK, Index, Key, IsState
  <2> QED
    BY <1>4, <1>16, <2>2, <2>3 DEF vars, progress, IsState, OfType
<1> QED
  BY <1>6, <1>7, <1>8, <1>9, <1>10, <1>11, <1>13, <1>14, <1>15, <1>16 DEF Next

(* Every variable has its type, for every script: the states that are kept *)
(* in memory and on disk, and the machine, which always has a time left to *)
(* give a cell.  (executePlan, ReadState, SaveState)                       *)
THEOREM TypeCorrect == Spec => []TypeOK
<1>1. Typed => TypeOK
  BY DEF Typed
<1> QED
  BY <1>1, TypedInit, TypedNext, PTL DEF Spec

-----------------------------------------------------------------------------
(***************************************************************************)
(* What the cache tells.  Idempotent, UpToDate and Repaired speak of the   *)
(* end of an apply.  What carries them through the applies is what a state *)
(* file says of the run that left it, how the files of two operations of a *)
(* chain agree, and, within an apply, which of the states read at its      *)
(* beginning are still those of the machine.                               *)
(***************************************************************************)
OfDisk(k) == disk[ops[k]]

Saved(s) == s.file = "saved"

(* What a saved state of op says, whoever changed the machine since, if v  *)
(* is the data of `from`.                                                  *)
SavedOK(op, s, v, involved) ==
  /\ ~Saved(s) => s.source = NoEntries /\ s.target = NoEntries
  /\ DOMAIN s.source \subseteq op.source /\ DOMAIN s.target \subseteq op.target
  /\ s.source = [c \in DOMAIN s.source |-> s.source[c]]
  /\ \A c \in DOMAIN s.source : s.source[c].data # Absent
  /\ Saved(s) =>
       /\ op.from \in op.source =>
            /\ op.from \in DOMAIN s.source
            /\ s.source[op.from].data \in Value
       /\ op.to \in op.source =>
            /\ op.to \in DOMAIN s.source
            /\ s.source[op.to].data \in Value
            /\ op.to \in op.target => s.source[op.to] = s.target[op.to]
            /\ op.from \in op.source /\ ~op.keeps =>
                 s.source[op.to].data = s.source[op.from].data
            /\ op.from \in Arguments /\ ~op.keeps => s.source[op.to].data = v
       /\ op.to \in op.target =>
            /\ op.to \in DOMAIN s.target
            /\ s.target[op.to].data \in Value
       /\ \A c \in (op.source \cap op.named) \ involved : c \in DOMAIN s.source
       /\ ~op.stamped => \A c \in DOMAIN s.source : s.source[c].stamp = 0

(* It tells that op last ran on u. *)
Tells(op, s, u, v) ==
  Saved(s) => /\ op.from \in op.source => s.source[op.from].data = u
              /\ op.desired => s.source[op.to].data = u
              /\ op.from \in Arguments => v = u

(* An operation that may write its target again and leave the recorded     *)
(* state of it as it was; one that reads the target.                       *)
Made(j) == ~ops[j].stamped /\ ops[j].target # {}

Linked(j, k) == j \in Index /\ k \in Index /\ j < k /\ Made(j) /\ ops[j].to \in ops[k].source

(* The two states, of operations of a chain, speak of the same data. *)
Agree(s, t, c) ==
  Saved(s) /\ Saved(t) => c \in DOMAIN t.source /\ t.source[c].data = s.target[c].data

Same(e, f, c) == (c \in DOMAIN e <=> c \in DOMAIN f) /\ (c \in DOMAIN e => e[c] = f[c])

(* The bodies of the properties. *)
Fits(k) == used[k] = m[ops[k].from].data

Repairs(k) ==
  /\ ops[k].to \in ops[k].source /\ ~ops[k].desired
  /\ ops[k].stamped \/ ~faulted \/ ~Relayed(k)
  => IF ops[k].keeps THEN m[ops[k].to].data # Absent
                     ELSE m[ops[k].to].data = m[ops[k].from].data

Chainless == ~faulted /\ \A j \in Index : Made(j) => Simple(j)

Wanted(k) ==
  IF ops[k].desired THEN [c \in {ops[k].to} |-> [data |-> m[ops[k].from].data, stamp |-> 0]]
                    ELSE Nulled(Entries(ops[k], ops[k].source))

Matches(k) == Chainless => Saved(OfDisk(k)) /\ OfDisk(k).source = Wanted(k)

(* No operation is about to run or running, in an apply that could. *)
Calm == pc \in {"idle", "read"} \/ dry

Passing == ~Calm

Done == IF pc = "end" THEN Index ELSE 1 .. (i - 1)

Pending == IF pc = "decide" THEN i .. Len(ops) ELSE IF pc = "end" THEN {} ELSE (i + 1) .. Len(ops)

Running == pc \in {"record", "write"}

Files ==
  /\ \A k \in Index : SavedOK(ops[k], OfDisk(k), m[ops[k].from].data, Involved)
  /\ \A k \in DOMAIN prev : SavedOK(ops[k], prev[k], m[ops[k].from].data, Involved)
  /\ \A c \in Cell \ Involved : m[c].data = Absent
  /\ \A j, k \in Index :
       Linked(j, k) /\ ops[k].stamped /\ ops[j].to \in DOMAIN OfDisk(k).source
         /\ OfDisk(k).source[ops[j].to] = m[ops[j].to]
         => Agree(OfDisk(j), OfDisk(k), ops[j].to)

Between ==
  Calm =>
    /\ ~faulted => /\ \A k \in Index : Tells(ops[k], OfDisk(k), used[k], m[ops[k].from].data)
                   /\ \A j, k \in Index : Linked(j, k) => Agree(OfDisk(j), OfDisk(k), ops[j].to)
    /\ fresh => \A k \in Index : (~faulted => Fits(k)) /\ Repairs(k) /\ Matches(k)

InMemory ==
  /\ pc \in {"idle", "read"} => ~dirty
  /\ pc = "read" => \A k \in DOMAIN prev : prev[k] = OfDisk(k) /\ curr[k] = StateOf(ops[k])

(* What was read holds of the operations still to come. *)
Ahead ==
  Passing =>
    /\ ~faulted => /\ \A k \in Pending : Tells(ops[k], prev[k], used[k], m[ops[k].from].data)
                   /\ \A j, k \in Index : Linked(j, k) => Agree(prev[j], prev[k], ops[j].to)
    /\ \A k \in Pending : /\ DOMAIN curr[k].source \subseteq ops[k].source
                          /\ curr[k].source = [c \in DOMAIN curr[k].source |-> curr[k].source[c]]
    /\ \A j \in Index, k \in Pending :
         Linked(j, k) /\ ops[k].stamped /\ ops[j].to \in DOMAIN prev[k].source
           /\ Same(prev[k].source, curr[k].source, ops[j].to)
           => Agree(prev[j], prev[k], ops[j].to)

Current(k, c) == Same(curr[k].source, Entries(ops[k], ops[k].source), c)

(* The operation j wrote what was recorded before. *)
Stale(k, c) ==
  \E j \in Done :
    /\ Made(j) /\ ops[j].to = c /\ Saved(prev[j])
    /\ m[c].data = prev[j].target[c].data
    /\ ~faulted /\ Simple(j) =>
         ~(c \in DOMAIN curr[k].source /\ curr[k].source[c].data = prev[j].target[c].data)

(* The operation that is running wrote something else. *)
Rewritten(k, c) ==
  /\ Running /\ c = ops[i].to
  /\ c \in DOMAIN prev[i].target =>
       IF ops[i].stamped THEN m[c] # prev[i].target[c]
       ELSE ~faulted /\ Simple(i) /\ c \in DOMAIN curr[k].source
              /\ curr[k].source[c].data = prev[i].target[c].data
              => m[c].data # prev[i].target[c].data

Clean ==
  Passing /\ ~dirty =>
    /\ \A k \in Pending : (Running /\ ops[k] = ops[i]) \/ OfDisk(k) = prev[k]
    /\ \A k \in Pending : \A c \in ops[k].source : Current(k, c) \/ Stale(k, c) \/ Rewritten(k, c)
    /\ \A j \in Done : Made(j) =>
         Saved(prev[j]) /\ OfDisk(j).target[ops[j].to].data = prev[j].target[ops[j].to].data

Behind ==
  Passing =>
    /\ \A j \in Done : Made(j) =>
         Saved(OfDisk(j)) /\ OfDisk(j).target[ops[j].to].data = m[ops[j].to].data
    /\ ~faulted =>
         /\ \A k \in Done : Fits(k) /\ Tells(ops[k], OfDisk(k), used[k], m[ops[k].from].data)
         /\ \A j \in Index, k \in Done : Linked(j, k) => Agree(OfDisk(j), OfDisk(k), ops[j].to)
    /\ \A k \in Done : Repairs(k)
    /\ \A k \in Done : (Running /\ ops[k] = ops[i]) \/ Matches(k)

Ran ==
  Passing /\ Running =>
    /\ m[ops[i].from].data = used[i] /\ used[i] \in Value
    /\ IF ops[i].keeps THEN m[ops[i].to].data \in Value ELSE m[ops[i].to].data = used[i]
    /\ pc = "write" => curr[i] = StateOf(ops[i])

(* An apply that follows one that succeeded. *)
Again ==
  Passing /\ fresh /\ Chainless /\ (\A k \in Index : ops[k].source # {}) =>
    \/ /\ pc \in {"decide", "end"} /\ ~dirty
       /\ \A k \in Index : /\ prev[k] = OfDisk(k) /\ curr[k] = StateOf(ops[k])
                           /\ Fits(k) /\ Repairs(k) /\ Matches(k)
    \/ \E k \in Done \cup (IF Running THEN {i} ELSE {}) : \E c \in ops[k].source : m[c].data = Absent

Parts == Files /\ Between /\ InMemory /\ Ahead /\ Clean /\ Behind /\ Ran /\ Again

Telling == ~disturbed /\ Tracking => Parts

-----------------------------------------------------------------------------
LEMMA Static ==
  ASSUME ops' = ops
  PROVE  /\ Index' = Index /\ Key' = Key /\ Involved' = Involved
         /\ Tracking' <=> Tracking
         /\ \A j, k : Linked(j, k)' <=> Linked(j, k)
         /\ \A k : (Made(k)' <=> Made(k)) /\ (Relayed(k)' <=> Relayed(k)) /\ (Simple(k)' <=> Simple(k))
<1>1. Index' = Index
  BY DEF Index
<1>2. Key' = Key
  BY <1>1 DEF Key
<1>3. Involved' = Involved
  BY <1>2 DEF Involved
<1>4. \A k : (Made(k)' <=> Made(k)) /\ (Relayed(k)' <=> Relayed(k))
  BY <1>1 DEF Made, Relayed
<1>5. \A k : Simple(k)' <=> Simple(k)
  BY <1>4 DEF Simple
<1>6. \A j, k : Linked(j, k)' <=> Linked(j, k)
  BY <1>1, <1>4 DEF Linked
<1>7. Orderly' <=> Orderly
  BY <1>1 DEF Orderly
<1>8. \A op : Tracks(op)' <=> Tracks(op)
  BY <1>3 DEF Tracks
<1>9. Tracking' <=> Tracking
  BY <1>1, <1>7, <1>8 DEF Tracking
<1> QED
  BY <1>1, <1>2, <1>3, <1>4, <1>5, <1>6, <1>9

(* No operation touches what is before it in the plan. *)
LEMMA Order ==
  ASSUME Typed, Tracking
  PROVE  /\ \A j, k \in Index : j < k =>
              /\ ops[k].to \notin ops[j].source /\ ops[k].to \notin ops[j].target
              /\ ops[k].to # ops[j].from
         /\ \A k \in Index :
              /\ ops[k] \in Operation
              /\ ops[k].to \in Cell /\ ops[k].from \in Cell /\ ops[k].to \in Involved
              /\ ops[k].to \notin Arguments
              /\ ops[k].source \subseteq Cell /\ ops[k].target \subseteq Cell
              /\ ops[k].target # {} => ops[k].to \in ops[k].target /\ ~ops[k].desired
              /\ Made(k) => /\ ops[k].to \in ops[k].source /\ ops[k].to \in ops[k].target
                            /\ ~ops[k].desired
              /\ ops[k].desired =>
                   ops[k].source = {ops[k].to} /\ ~ops[k].stamped /\ ~ops[k].keeps
         /\ \A j, k \in Index : ops[j] = ops[k] /\ ops[j].target # {} => j = k
         /\ \A j, k \in Index : j < k /\ ops[j].target # {} => ops[j].to # ops[k].to
<1>1. Index = 1 .. Len(ops) /\ Len(ops) \in Nat /\ \A k \in Index : ops[k] \in Operation /\ ops[k] \in Key
  BY Typing
<1>2. \A k \in Index : ops[k].to \in Involved
  BY <1>1 DEF Involved
<1>3. \A k \in Index : Tracks(ops[k])
  BY DEF Tracking
<1>4. \A j, k \in Index : j < k =>
        /\ ops[k].to \notin ops[j].source /\ ops[k].to \notin ops[j].target
        /\ ops[k].to # ops[j].from
  BY DEF Tracking, Orderly
<1>5. \A k \in Index :
        /\ ops[k] \in Operation
        /\ ops[k].to \in Cell /\ ops[k].from \in Cell /\ ops[k].to \in Involved
        /\ ops[k].to \notin Arguments
        /\ ops[k].source \subseteq Cell /\ ops[k].target \subseteq Cell
        /\ ops[k].target # {} => ops[k].to \in ops[k].target /\ ~ops[k].desired
        /\ Made(k) => /\ ops[k].to \in ops[k].source /\ ops[k].to \in ops[k].target
                      /\ ~ops[k].desired
        /\ ops[k].desired => ops[k].source = {ops[k].to} /\ ~ops[k].stamped /\ ~ops[k].keeps
  BY <1>1, <1>2, <1>3 DEF Tracks, Operation, Made
<1>6. \A j, k \in Index : ops[j] = ops[k] /\ ops[j].target # {} => j = k
  <2> SUFFICES ASSUME NEW j \in Index, NEW k \in Index, ops[j] = ops[k], ops[j].target # {}
               PROVE  j = k
    OBVIOUS
  <2>1. ~(j < k) /\ ~(k < j)
    BY <1>4, <1>5
  <2>2. j \in 1 .. Len(ops) /\ k \in 1 .. Len(ops)
    BY <1>1
  <2> HIDE DEF Index
  <2> QED
    BY <2>1, <2>2, <1>1
<1>7. \A j, k \in Index : j < k /\ ops[j].target # {} => ops[j].to # ops[k].to
  BY <1>4, <1>5
<1> QED
  BY <1>4, <1>5, <1>6, <1>7

LEMMA Places ==
  ASSUME Typed
  PROVE  /\ Done \subseteq Index /\ Pending \subseteq Index /\ i \in Index
         /\ \A j \in Done, k \in Pending : j < k
         /\ pc # "end" => \A j \in Index : j \in Done <=> j < i
         /\ pc = "end" => Done = Index /\ Pending = {}
         /\ pc = "decide" => i \in Pending
         /\ pc = "decide" => \A k \in Pending : k = i \/ i < k
         /\ Running => \A k \in Pending : i < k
         /\ Passing => pc \in {"decide", "record", "write", "end"} /\ ~dry
         /\ Passing => DOMAIN prev = Index /\ DOMAIN curr = Index
<1> DEFINE n == Len(ops)
<1>1. n \in Nat \ {0} /\ Index = 1 .. n /\ i \in 1 .. n
  BY Typing
<1>2. pc \in {"idle", "read", "decide", "record", "write", "end"}
  BY DEF Typed, TypeOK
<1>3. Passing => DOMAIN prev = Index /\ DOMAIN curr = Index
  BY <1>2, Typing DEF Passing, Calm
<1> HIDE DEF n, Index
<1>4. Done = (IF pc = "end" THEN 1 .. n ELSE 1 .. (i - 1))
  BY <1>1 DEF Done
<1>5. Pending = (IF pc = "decide" THEN i .. n ELSE IF pc = "end" THEN {} ELSE (i + 1) .. n)
  BY DEF Pending, n
<1>6. Passing => pc \in {"decide", "record", "write", "end"} /\ ~dry
  BY <1>2 DEF Passing, Calm
<1> QED
  BY <1>1, <1>3, <1>4, <1>5, <1>6 DEF Running

LEMMA Advancing ==
  ASSUME Typed, ops' = ops, pc \in {"decide", "write"}, NEW d, Advance(d)
  PROVE  /\ Done' = Done \cup {i} /\ Pending' = Pending \ {i}
         /\ pc' \in {"decide", "end"} /\ dirty' = d
         /\ pc' = "end" => Done' = Index
<1> DEFINE n == Len(ops)
<1>1. n \in Nat \ {0} /\ Index = 1 .. n /\ i \in 1 .. n
  BY Typing
<1>2. /\ dirty' = d
      /\ IF i = n THEN pc' = "end" /\ i' = i ELSE pc' = "decide" /\ i' = i + 1
  BY DEF Advance
<1>3. Index' = Index /\ Len(ops') = n
  BY DEF Index
<1> HIDE DEF n, Index
<1>4. Done = 1 .. (i - 1)
  BY DEF Done
<1>5. Pending = (IF pc = "decide" THEN i .. n ELSE (i + 1) .. n)
  BY DEF Pending, n
<1>6. Done' = (IF pc' = "end" THEN 1 .. n ELSE 1 .. (i' - 1))
  BY <1>1, <1>3 DEF Done
<1>7. Pending' = (IF pc' = "decide" THEN i' .. n ELSE IF pc' = "end" THEN {} ELSE (i' + 1) .. n)
  BY <1>3 DEF Pending
<1> QED
  BY <1>1, <1>2, <1>4, <1>5, <1>6, <1>7

(* The entries e say what the machine holds in the cells. *)
Faithful(e, op, cells) ==
  \A c : /\ c \in DOMAIN e <=> c \in cells /\ (m[c].data # Absent \/ c \in op.named)
         /\ c \in DOMAIN e /\ m[c].data # Absent =>
              /\ e[c] = Seen(op, c) /\ e[c].data = m[c].data
              /\ op.stamped => e[c] = m[c]
         /\ c \in DOMAIN e /\ ~op.stamped => e[c].stamp = 0

LEMMA SeenIs ==
  ASSUME m \in [Cell -> Content], NEW op, NEW c \in Cell
  PROVE  /\ Seen(op, c).data = m[c].data
         /\ op.stamped => Seen(op, c) = m[c]
         /\ ~op.stamped => Seen(op, c).stamp = 0
         /\ Seen(op, c) = [data |-> Seen(op, c).data, stamp |-> Seen(op, c).stamp]
<1>1. m[c] = [data |-> m[c].data, stamp |-> m[c].stamp]
  BY DEF Content
<1> QED
  BY <1>1 DEF Seen

LEMMA EntriesAre ==
  ASSUME m \in [Cell -> Content], NEW op, NEW cells \in SUBSET Cell
  PROVE  /\ Faithful(Entries(op, cells), op, cells)
         /\ \A c \in DOMAIN Entries(op, cells) :
              Entries(op, cells)[c] = Seen(op, c) /\ Entries(op, cells)[c].data = m[c].data
<1> DEFINE e == Entries(op, cells)
<1>1. \A c : c \in DOMAIN e <=> c \in cells /\ (m[c].data # Absent \/ c \in op.named)
  BY DEF Entries
<1>2. \A c \in DOMAIN e : e[c] = Seen(op, c) /\ c \in Cell
  BY DEF Entries
<1> HIDE DEF e
<1>3. \A c \in DOMAIN e : /\ e[c].data = m[c].data
                          /\ op.stamped => e[c] = m[c]
                          /\ ~op.stamped => e[c].stamp = 0
  BY <1>2, SeenIs
<1>4. Faithful(e, op, cells)
  BY <1>1, <1>2, <1>3 DEF Faithful
<1> QED
  BY <1>2, <1>3, <1>4 DEF e

LEMMA NulledAre ==
  ASSUME m \in [Cell -> Content], NEW op, NEW cells \in SUBSET Cell
  PROVE  /\ Faithful(Nulled(Entries(op, cells)), op, cells)
         /\ \A c \in DOMAIN Nulled(Entries(op, cells)) : Nulled(Entries(op, cells))[c].data # Absent
<1> DEFINE e == Entries(op, cells)
           g == Nulled(e)
<1>1. DOMAIN g = DOMAIN e
  BY DEF Nulled
<1>2. \A c \in DOMAIN e :
        g[c] = IF e[c].data = Absent THEN [e[c] EXCEPT !.data = Null] ELSE e[c]
  BY DEF Nulled
<1>3. /\ Faithful(e, op, cells)
      /\ \A c \in DOMAIN e : e[c] = Seen(op, c) /\ e[c].data = m[c].data
  BY EntriesAre
<1>4. Null # Absent
  BY ScriptsAssumption
<1> HIDE DEF e, g
<1>5. \A c \in DOMAIN e : c \in Cell
  BY <1>3 DEF Faithful
<1>6. ASSUME NEW c \in DOMAIN e
      PROVE  /\ g[c].data # Absent /\ g[c].stamp = e[c].stamp
             /\ m[c].data # Absent => g[c] = e[c]
  <2>1. e[c] = [data |-> e[c].data, stamp |-> e[c].stamp] /\ e[c].data = m[c].data
    BY <1>3, <1>5, SeenIs
  <2> QED
    BY <1>2, <1>4, <2>1
<1>7. Faithful(g, op, cells)
  BY <1>1, <1>3, <1>6 DEF Faithful
<1> QED
  BY <1>1, <1>6, <1>7 DEF e, g

LEMMA StateIs ==
  ASSUME NEW op
  PROVE  /\ StateOf(op).file = "saved" /\ OnDisk(StateOf(op)).file = "saved"
         /\ StateOf(op).source = Entries(op, op.source)
         /\ StateOf(op).target = Entries(op, op.target)
         /\ OnDisk(StateOf(op)).source = Nulled(Entries(op, op.source))
         /\ OnDisk(StateOf(op)).target = Nulled(Entries(op, op.target))
BY DEF StateOf, OnDisk

(* What a run leaves. *)
LEMMA RunSaves ==
  ASSUME m \in [Cell -> Content], NEW op \in Operation,
         m[op.from].data \in Value,
         IF op.keeps THEN m[op.to].data \in Value ELSE m[op.to].data = m[op.from].data
  PROVE  SavedOK(op, OnDisk(StateOf(op)), m[op.from].data, Involved)
<1> DEFINE s == OnDisk(StateOf(op))
<1>1. /\ op.source \in SUBSET Cell /\ op.target \in SUBSET Cell
      /\ op.from \in Cell /\ op.to \in Cell
  BY DEF Operation
<1>2. /\ s.file = "saved"
      /\ s.source = Nulled(Entries(op, op.source)) /\ s.target = Nulled(Entries(op, op.target))
  BY StateIs
<1>3. Absent \notin Value
  BY ScriptsAssumption
<1>4. /\ Faithful(s.source, op, op.source) /\ Faithful(s.target, op, op.target)
      /\ \A c \in DOMAIN s.source : s.source[c].data # Absent
  BY <1>1, <1>2, NulledAre
<1> HIDE DEF s
<1>13. s.source = [c \in DOMAIN s.source |-> s.source[c]]
  BY <1>2 DEF Nulled
<1>5. m[op.to].data \in Value
  OBVIOUS
<1>6. DOMAIN s.source \subseteq op.source /\ DOMAIN s.target \subseteq op.target
  BY <1>4 DEF Faithful
<1>7. m[op.from].data # Absent /\ m[op.to].data # Absent
  BY <1>3, <1>5
<1>8. op.from \in op.source => op.from \in DOMAIN s.source /\ s.source[op.from].data = m[op.from].data
  BY <1>4, <1>7 DEF Faithful
<1>9. op.to \in op.source =>
        op.to \in DOMAIN s.source /\ s.source[op.to] = Seen(op, op.to)
          /\ s.source[op.to].data = m[op.to].data
  BY <1>4, <1>7 DEF Faithful
<1>10. op.to \in op.target =>
        op.to \in DOMAIN s.target /\ s.target[op.to] = Seen(op, op.to)
          /\ s.target[op.to].data = m[op.to].data
  BY <1>4, <1>7 DEF Faithful
<1>11. /\ \A c \in (op.source \cap op.named) \ Involved : c \in DOMAIN s.source
       /\ ~op.stamped => \A c \in DOMAIN s.source : s.source[c].stamp = 0
       /\ \A c \in DOMAIN s.source : s.source[c].data # Absent
  BY <1>1, <1>4 DEF Faithful
<1>12. s.file = "saved"
  BY <1>2
<1> HIDE DEF s
<1> QED
  <2> SUFFICES SavedOK(op, s, m[op.from].data, Involved)
    BY DEF s
  <2> QED
    BY <1>5, <1>6, <1>8, <1>9, <1>10, <1>11, <1>12, <1>13 DEF SavedOK, Saved

-----------------------------------------------------------------------------
(* What the steps leave alone. *)

LEMMA SavedOKOf ==
  ASSUME NEW op, NEW s, NEW v, NEW w, NEW involved, SavedOK(op, s, v, involved),
         op.from \in Arguments => v = w
  PROVE  SavedOK(op, s, w, involved)
BY DEF SavedOK

LEMMA FilesSame ==
  ASSUME Files, UNCHANGED <<ops, m, disk, prev>>
  PROVE  Files'
<1>1. /\ Index' = Index /\ Involved' = Involved
      /\ \A j, k : Linked(j, k)' <=> Linked(j, k)
  BY Static
<1>2. \A k : OfDisk(k)' = OfDisk(k)
  BY DEF OfDisk
<1> QED
  BY <1>1, <1>2 DEF Files

LEMMA BodiesSame ==
  ASSUME UNCHANGED <<ops, m, disk, used, faulted>>
  PROVE  \A k : /\ Fits(k)' <=> Fits(k)
                /\ Repairs(k)' <=> Repairs(k)
                /\ Matches(k)' <=> Matches(k)
<1>1. /\ Index' = Index
      /\ \A k : (Made(k)' <=> Made(k)) /\ (Relayed(k)' <=> Relayed(k)) /\ (Simple(k)' <=> Simple(k))
  BY Static
<1>2. Chainless' <=> Chainless
  BY <1>1 DEF Chainless
<1>3. \A op, c : Seen(op, c)' = Seen(op, c)
  BY DEF Seen
<1>4. \A op, cells : Entries(op, cells)' = Entries(op, cells)
  BY <1>3 DEF Entries
<1>5. \A k : Wanted(k)' = Wanted(k)
  BY <1>4 DEF Wanted, Nulled
<1>6. \A k : OfDisk(k)' = OfDisk(k)
  BY DEF OfDisk
<1> QED
  BY <1>1, <1>2, <1>5, <1>6 DEF Fits, Repairs, Matches

LEMMA BetweenSame ==
  ASSUME Between, Calm, UNCHANGED <<ops, m, disk, used, fresh, faulted>>
  PROVE  Between'
<1>1. /\ Index' = Index
      /\ \A j, k : Linked(j, k)' <=> Linked(j, k)
  BY Static
<1>2. \A k : OfDisk(k)' = OfDisk(k)
  BY DEF OfDisk
<1>3. \A k : /\ Fits(k)' <=> Fits(k)
             /\ Repairs(k)' <=> Repairs(k)
             /\ Matches(k)' <=> Matches(k)
  BY BodiesSame
<1> QED
  BY <1>1, <1>2, <1>3 DEF Between

(* While no operation is about to run, there is nothing else to keep. *)
LEMMA CalmIs ==
  ASSUME Calm
  PROVE  Ahead /\ Clean /\ Behind /\ Ran /\ Again
BY DEF Passing, Ahead, Clean, Behind, Ran, Again

LEMMA CalmNext ==
  ASSUME Calm'
  PROVE  Ahead' /\ Clean' /\ Behind' /\ Ran' /\ Again'
BY DEF Passing, Ahead, Clean, Behind, Ran, Again

LEMMA TellingInit ==
  ASSUME Init
  PROVE  Telling
<1>1. \A k \in Index : OfDisk(k) = None
  BY DEF Init, OfDisk, Key
<1>2. prev = <<>> /\ DOMAIN prev = {}
  BY DEF Init
<1>3. \A op, v, inv : SavedOK(op, None, v, inv)
  BY DEF SavedOK, None, Saved, NoEntries
<1>4. \A c \in Cell \ Involved : m[c].data = Absent
  BY DEF Init
<1>5. ~Saved(None)
  BY DEF Saved, None
<1>6. Files
  BY <1>1, <1>2, <1>3, <1>4, <1>5 DEF Files, Agree, Linked
<1>7. Calm
  BY DEF Init, Calm
<1>8. Between
  BY <1>1, <1>5 DEF Between, Tells, Agree, Init, Linked
<1>9. InMemory
  BY DEF InMemory, Init
<1> QED
  BY <1>6, <1>7, <1>8, <1>9, CalmIs DEF Telling, Parts

LEMMA StartTells ==
  ASSUME Typed, Parts, NEW d \in BOOLEAN, Start(d)
  PROVE  Parts'
<1>1. UNCHANGED <<ops, m, disk, prev, curr, dirty, used, fresh, faulted>> /\ pc = "idle" /\ pc' = "read"
  BY DEF Start, history
<1>2. Calm /\ Calm'
  BY <1>1 DEF Calm
<1>3. prev = <<>> \/ DOMAIN prev = {}
  <2>1. curr = <<>> /\ Len(prev) = Len(curr) /\ DOMAIN prev = 1 .. Len(prev)
    BY <1>1, Typing DEF Typed, Cascade, Reading
  <2> QED
    BY <2>1
<1>4. DOMAIN prev' = {}
  BY <1>1, <1>3
<1>5. InMemory'
  BY <1>1, <1>4 DEF Parts, InMemory
<1> QED
  BY <1>1, <1>2, <1>5, FilesSame, BetweenSame, CalmNext DEF Parts

LEMMA ForgetTells ==
  ASSUME Files', Between', Forget
  PROVE  Parts'
<1>1. Calm'
  BY DEF Forget, Calm
<1>2. InMemory'
  BY DEF Forget, InMemory
<1> QED
  BY <1>1, <1>2, CalmNext DEF Parts

LEMMA FilesForget ==
  ASSUME Files, Forget, UNCHANGED <<ops, m, disk>>
  PROVE  Files'
<1>1. /\ Index' = Index /\ Involved' = Involved
      /\ \A j, k : Linked(j, k)' <=> Linked(j, k)
  BY Static
<1>2. \A k : OfDisk(k)' = OfDisk(k)
  BY DEF OfDisk
<1>3. DOMAIN prev' = {}
  BY DEF Forget
<1> QED
  BY <1>1, <1>2, <1>3 DEF Files

LEMMA AbortTells ==
  ASSUME Typed, Parts, Abort
  PROVE  Parts'
<1>1. UNCHANGED <<ops, m, disk, used>> /\ Forget /\ faulted' /\ fresh' = (fresh /\ dry)
  BY DEF Abort
<1>2. Files'
  BY <1>1, FilesForget DEF Parts
<1>3. Between'
  <2>1. CASE ~(fresh /\ dry)
    BY <1>1, <2>1 DEF Between
  <2>2. CASE fresh /\ dry
    <3>1. Calm
      BY <2>2 DEF Calm
    <3>2. \A k \in Index : Repairs(k)
      BY <2>2, <3>1 DEF Parts, Between
    <3>3. \A k : Repairs(k) => Repairs(k)'
      <4>1. \A k : Relayed(k)' <=> Relayed(k)
        BY <1>1, Static
      <4> QED
        BY <1>1, <4>1 DEF Repairs
    <3>4. \A k : Matches(k)'
      BY <1>1 DEF Matches, Chainless
    <3>5. Index' = Index
      BY <1>1, Static
    <3> QED
      BY <1>1, <3>2, <3>3, <3>4, <3>5 DEF Between
  <2> QED
    BY <2>1, <2>2
<1> QED
  BY <1>1, <1>2, <1>3, ForgetTells

LEMMA EndTells ==
  ASSUME Typed, Parts, End
  PROVE  Parts'
<1>1. UNCHANGED <<ops, m, disk, used, faulted>> /\ Forget /\ pc = "end"
  BY DEF End
<1>2. Files'
  BY <1>1, FilesForget DEF Parts
<1>3. /\ Index' = Index
      /\ \A j, k : Linked(j, k)' <=> Linked(j, k)
  BY <1>1, Static
<1>4. \A k : /\ OfDisk(k)' = OfDisk(k)
             /\ Fits(k)' <=> Fits(k)
             /\ Repairs(k)' <=> Repairs(k)
             /\ Matches(k)' <=> Matches(k)
  BY <1>1, BodiesSame DEF OfDisk
<1>5. CASE dry
  <2>1. Calm /\ fresh' = fresh
    <3>1. fresh \in BOOLEAN
      BY DEF Typed, TypeOK
    <3>2. fresh' = (fresh \/ (quiet /\ ~dry))
      BY DEF End
    <3> QED
      BY <1>5, <3>1, <3>2, Zenon DEF Calm
  <2> QED
    BY <1>1, <1>2, <2>1, BetweenSame, ForgetTells DEF Parts
<1>6. CASE ~dry
  <2>1. Passing /\ ~Running /\ Done = Index
    BY <1>1, <1>6, Places DEF Passing, Calm, Running
  <2>2. /\ ~faulted =>
             /\ \A k \in Index : Fits(k) /\ Tells(ops[k], OfDisk(k), used[k], m[ops[k].from].data)
             /\ \A j, k \in Index : Linked(j, k) => Agree(OfDisk(j), OfDisk(k), ops[j].to)
        /\ \A k \in Index : Repairs(k) /\ Matches(k)
    BY <2>1 DEF Parts, Behind
  <2>3. Between'
    BY <1>1, <1>3, <1>4, <2>2 DEF Between
  <2> QED
    BY <1>1, <1>2, <2>3, ForgetTells
<1>7. dry \in BOOLEAN
  BY DEF Typed, TypeOK
<1> QED
  BY <1>5, <1>6

LEMMA StutterTells ==
  ASSUME Typed, Parts, UNCHANGED vars
  PROVE  Parts'
<1>1. UNCHANGED <<ops, m, disk, pc, dry, i, prev, curr, dirty, used, fresh, faulted>>
  BY DEF vars, progress, history
<1>2. Files'
  BY <1>1, FilesSame DEF Parts
<1>3. /\ Calm' = Calm /\ Passing' = Passing /\ Running' = Running
      /\ Done' = Done /\ Pending' = Pending
  BY <1>1 DEF Calm, Passing, Running, Done, Pending, Index
<1>4. /\ Index' = Index
      /\ \A j, k : Linked(j, k)' <=> Linked(j, k)
      /\ \A k : (Made(k)' <=> Made(k)) /\ (Simple(k)' <=> Simple(k))
  BY <1>1, Static
<1>5. \A k : /\ OfDisk(k)' = OfDisk(k)
             /\ Fits(k)' <=> Fits(k)
             /\ Repairs(k)' <=> Repairs(k)
             /\ Matches(k)' <=> Matches(k)
  BY <1>1, BodiesSame DEF OfDisk
<1>6. \A op : StateOf(op)' = StateOf(op)
  BY <1>1 DEF StateOf, Entries, Seen
<1>7. \A k, c : /\ Current(k, c)' <=> Current(k, c)
                /\ Stale(k, c)' <=> Stale(k, c)
                /\ Rewritten(k, c)' <=> Rewritten(k, c)
  <2>1. \A op, cells : Entries(op, cells)' = Entries(op, cells)
    BY <1>1 DEF Entries, Seen
  <2> QED
    BY <1>1, <1>3, <1>4, <2>1 DEF Current, Stale, Rewritten
<1>8. Between'
  BY <1>1, <1>3, <1>4, <1>5 DEF Parts, Between
<1>9. InMemory'
  BY <1>1, <1>5, <1>6 DEF Parts, InMemory
<1>10. Ahead'
  BY <1>1, <1>3, <1>4 DEF Parts, Ahead
<1>11. Clean'
  BY <1>1, <1>3, <1>4, <1>5, <1>7 DEF Parts, Clean
<1>12. Behind'
  BY <1>1, <1>3, <1>4, <1>5 DEF Parts, Behind
<1>13. Ran'
  BY <1>1, <1>3, <1>6 DEF Parts, Ran
<1>14. Chainless' <=> Chainless
  BY <1>1, <1>4 DEF Chainless
<1>15. Again'
  BY <1>1, <1>3, <1>4, <1>5, <1>6, <1>14 DEF Parts, Again
<1> QED
  BY <1>2, <1>8, <1>9, <1>10, <1>11, <1>12, <1>13, <1>15 DEF Parts

(* Another machine with the same arguments. *)
LEMMA SavedElsewhere ==
  ASSUME Typed, Tracking, Files, ops' = ops, \A c \in Arguments : m'[c] = m[c]
  PROVE  \A k \in Index : \A s :
           SavedOK(ops[k], s, m[ops[k].from].data, Involved)
             => SavedOK(ops[k], s, m'[ops[k].from].data, Involved)
BY SavedOKOf

(* A stamp that a state has is recorded. *)
LEMMA RecordedHas ==
  ASSUME Typed, NEW c
  PROVE  /\ \A k \in Index : c \in DOMAIN OfDisk(k).source => OfDisk(k).source[c].stamp \in Recorded(c)
         /\ \A k \in DOMAIN prev : c \in DOMAIN prev[k].target => prev[k].target[c].stamp \in Recorded(c)
<1>1. \A k \in Index : OfDisk(k) \in Kept
  BY Typing DEF OfDisk, Kept
<1>2. \A k \in DOMAIN prev : prev[k] \in Kept
  BY DEF Kept
<1>3. ASSUME NEW s \in Kept
      PROVE  /\ c \in DOMAIN s.source => s.source[c].stamp \in Recorded(c)
             /\ c \in DOMAIN s.target => s.target[c].stamp \in Recorded(c)
  BY DEF Recorded
<1> QED
  BY <1>1, <1>2, <1>3

(* What is written to a cell is in no state of it. *)
LEMMA FilesWritten ==
  ASSUME Typed, Tracking, Files, UNCHANGED <<ops, disk, prev>>,
         NEW c \in Involved \ Arguments,
         \A d \in Cell \ {c} : m'[d] = m[d],
         m'[c] = m[c] \/ m'[c].data = Absent \/ m'[c].stamp \notin Recorded(c)
  PROVE  Files'
<1>1. /\ Index' = Index /\ Involved' = Involved /\ Involved \subseteq Cell
      /\ \A j, k : Linked(j, k)' <=> Linked(j, k)
  BY Static, Typing
<1>2. \A k : OfDisk(k)' = OfDisk(k)
  BY DEF OfDisk
<1>3. Arguments \subseteq Cell
  BY ScriptsAssumption
<1>4. \A k \in Index : \A s :
        SavedOK(ops[k], s, m[ops[k].from].data, Involved)
          => SavedOK(ops[k], s, m'[ops[k].from].data, Involved)
  BY <1>3, SavedElsewhere
<1>5. \A k \in Index : SavedOK(ops[k], OfDisk(k), m[ops[k].from].data, Involved)
  BY DEF Files
<1>6. DOMAIN prev \subseteq Index
  <2>1. /\ Len(ops) \in Nat /\ Index = 1 .. Len(ops) /\ DOMAIN prev = 1 .. Len(prev)
        /\ Len(prev) \in Nat /\ Len(prev) <= Len(ops)
    BY Typing DEF Typed, TypeOK
  <2> QED
    BY <2>1
<1>7. \A k \in Index : SavedOK(ops[k], OfDisk(k), m'[ops[k].from].data, Involved)
  BY <1>4, <1>5
<1>8. \A k \in DOMAIN prev : SavedOK(ops[k], prev[k], m'[ops[k].from].data, Involved)
  BY <1>4, <1>6 DEF Files
<1>9. \A d \in Cell \ Involved : m'[d].data = Absent
  BY DEF Files
<1>10. ASSUME NEW j \in Index, NEW k \in Index,
              Linked(j, k), ops[k].stamped, ops[j].to \in DOMAIN OfDisk(k).source,
              OfDisk(k).source[ops[j].to] = m'[ops[j].to]
       PROVE  Agree(OfDisk(j), OfDisk(k), ops[j].to)
  <2>1. CASE m'[ops[j].to] = m[ops[j].to]
    BY <1>10, <2>1 DEF Files
  <2>2. CASE m'[ops[j].to] # m[ops[j].to]
    <3>1. ops[j].to = c
      BY <1>10, <2>2, Order
    <3>2. OfDisk(k).source[c].data # Absent
      BY <1>5, <1>10, <3>1 DEF SavedOK
    <3>3. OfDisk(k).source[c].stamp \in Recorded(c)
      BY <1>10, <3>1, RecordedHas
    <3> QED
      BY <1>10, <2>2, <3>1, <3>2, <3>3
  <2> QED
    BY <2>1, <2>2
<1> QED
  BY <1>1, <1>2, <1>7, <1>8, <1>9, <1>10 DEF Files

LEMMA ChangeTells ==
  ASSUME Typed, Tracking, Parts, NEW c \in Cell, NEW v \in Value \cup {Absent}, Change(c, v), ~disturbed'
  PROVE  Parts'
<1>1. /\ pc = "idle" /\ c \in Involved \ Arguments /\ ~fresh'
      /\ UNCHANGED <<ops, disk, pc, dry, i, prev, curr, dirty, used, faulted>>
      /\ m' = IF v = Absent THEN [m EXCEPT ![c] = [data |-> Absent, stamp |-> 0]] ELSE Written(c, v)
  BY DEF Change, progress
<1>2. Calm /\ Calm'
  BY <1>1 DEF Calm
<1>3. /\ \A d \in Cell \ {c} : m'[d] = m[d]
      /\ m'[c].data = Absent \/ m'[c].stamp \notin Recorded(c)
  <2>1. CASE v = Absent
    BY <1>1, <2>1, Typing
  <2>2. CASE v # Absent
    BY <1>1, <2>2, WrittenIs
  <2> QED
    BY <2>1, <2>2
<1>4. Files'
  BY <1>1, <1>3, FilesWritten DEF Parts
<1>5. Between'
  <2>1. /\ Index' = Index
        /\ \A j, k : Linked(j, k)' <=> Linked(j, k)
        /\ \A k : OfDisk(k)' = OfDisk(k)
    BY <1>1, Static DEF OfDisk
  <2>2. \A k \in Index : ops[k].from \in Arguments => m'[ops[k].from] = m[ops[k].from]
    BY <1>1, <1>3, ScriptsAssumption
  <2>3. ASSUME NEW k \in Index, Tells(ops[k], OfDisk(k), used[k], m[ops[k].from].data)
        PROVE  Tells(ops[k], OfDisk(k), used[k], m'[ops[k].from].data)
    BY <2>2, <2>3 DEF Tells
  <2> QED
    BY <1>1, <1>2, <2>1, <2>3 DEF Parts, Between
<1>6. InMemory'
  BY <1>1 DEF Parts, InMemory
<1> QED
  BY <1>2, <1>4, <1>5, <1>6, CalmNext DEF Parts

LEMMA ReadTells ==
  ASSUME Typed, Tracking, Parts, Read
  PROVE  Parts'
<1>1. /\ UNCHANGED <<ops, m, disk, dry, dirty, used, fresh, faulted>> /\ pc = "read"
      /\ prev' = Append(prev, OfDisk(i)) /\ curr' = Append(curr, StateOf(ops[i]))
      /\ IF i = Len(ops) THEN pc' = "decide" /\ i' = 1 ELSE pc' = "read" /\ i' = i + 1
  BY DEF Read, OfDisk, history
<1>2. Calm /\ ~dirty
  BY <1>1 DEF Calm, Parts, InMemory
<1>3. /\ Index' = Index /\ Index = 1 .. Len(ops) /\ Len(ops) \in Nat \ {0} /\ i \in Index
      /\ \A j, k : Linked(j, k)' <=> Linked(j, k)
      /\ \A k : OfDisk(k)' = OfDisk(k)
  BY <1>1, Static, Typing DEF OfDisk
<1>4. /\ DOMAIN prev' = 1 .. i /\ DOMAIN curr' = 1 .. i
      /\ \A k \in 1 .. i : prev'[k] = OfDisk(k) /\ curr'[k] = StateOf(ops[k])
  <2>1. Len(prev) = i - 1 /\ Len(curr) = i - 1
    BY <1>1 DEF Typed, TypeOK, Cascade, Reading
  <2>2. /\ DOMAIN prev = 1 .. Len(prev) /\ DOMAIN prev' = 1 .. Len(prev) + 1
        /\ \A j \in 1 .. Len(prev) : prev'[j] = prev[j]
        /\ prev'[Len(prev) + 1] = OfDisk(i)
    BY <1>1, AppendIsSequence DEF Typed
  <2>3. /\ DOMAIN curr = 1 .. Len(curr) /\ DOMAIN curr' = 1 .. Len(curr) + 1
        /\ \A j \in 1 .. Len(curr) : curr'[j] = curr[j]
        /\ curr'[Len(curr) + 1] = StateOf(ops[i])
    BY <1>1, AppendIsSequence DEF Typed, Cascade, Reading
  <2>4. \A k \in DOMAIN prev : prev[k] = OfDisk(k) /\ curr[k] = StateOf(ops[k])
    BY <1>1 DEF Parts, InMemory
  <2>5. i \in 1 .. Len(ops) /\ Len(ops) \in Nat
    BY <1>3
  <2> HIDE DEF Index
  <2>6. i \in Nat \ {0} /\ 1 .. i = 1 .. (i - 1) \cup {i} /\ (i - 1) + 1 = i
    BY <2>5
  <2> QED
    BY <2>1, <2>2, <2>3, <2>4, <2>6
<1>5. \A k \in 1 .. i : k \in Index
  <2>1. i \in 1 .. Len(ops) /\ Len(ops) \in Nat
    BY <1>3
  <2> QED
    BY <1>3, <2>1
<1>6. Files'
  <2>1. \A k \in DOMAIN prev' : SavedOK(ops[k], prev'[k], m[ops[k].from].data, Involved)
    BY <1>4, <1>5 DEF Parts, Files
  <2>2. Involved' = Involved
    BY <1>1, Static
  <2> QED
    BY <1>1, <1>3, <2>1, <2>2 DEF Parts, Files
<1>7. Between'
  BY <1>1, <1>2, BetweenSame DEF Parts
<1>8. \A op : StateOf(op)' = StateOf(op)
  BY <1>1 DEF StateOf, Entries, Seen
<1>9. InMemory'
  BY <1>1, <1>2, <1>3, <1>4, <1>8 DEF InMemory
<1>10. CASE Calm'
  BY <1>6, <1>7, <1>9, <1>10, CalmNext DEF Parts
<1>11. CASE ~Calm'
  <2>1. pc' = "decide" /\ i = Len(ops) /\ i' = 1 /\ ~dry
    BY <1>1, <1>11 DEF Calm
  <2>2. Done' = {} /\ Pending' = Index /\ ~Running'
    <3>1. Done' = 1 .. 0
      BY <2>1 DEF Done
    <3> QED
      BY <1>1, <1>3, <2>1, <3>1 DEF Pending, Running
  <2>3. \A k \in Index : prev'[k] = OfDisk(k) /\ curr'[k] = StateOf(ops[k])
    BY <1>3, <1>4, <2>1
  <2>4. ASSUME NEW j \in Index, NEW k \in Index, Linked(j, k), ops[k].stamped,
               ops[j].to \in DOMAIN prev'[k].source,
               Same(prev'[k].source, curr'[k].source, ops[j].to)
        PROVE  Agree(prev'[j], prev'[k], ops[j].to)
    <3>1. curr'[k].source = Entries(ops[k], ops[k].source)
      BY <2>3, StateIs
    <3>2. ops[j].to \in DOMAIN curr'[k].source
            /\ prev'[k].source[ops[j].to] = curr'[k].source[ops[j].to]
      BY <2>4 DEF Same
    <3>3. curr'[k].source[ops[j].to] = Seen(ops[k], ops[j].to)
      BY <3>1, <3>2 DEF Entries
    <3>4. Seen(ops[k], ops[j].to) = m[ops[j].to]
      BY <2>4 DEF Seen
    <3> QED
      BY <2>3, <2>4, <3>2, <3>3, <3>4 DEF Parts, Files
  <2>5. Ahead'
    <3>1. ~faulted => /\ \A k \in Index : Tells(ops[k], prev'[k], used[k], m[ops[k].from].data)
                      /\ \A j, k \in Index : Linked(j, k) => Agree(prev'[j], prev'[k], ops[j].to)
      BY <1>2, <2>3 DEF Parts, Between
    <3>2. ASSUME NEW k \in Index
          PROVE  /\ DOMAIN curr'[k].source \subseteq ops[k].source
                 /\ curr'[k].source = [c \in DOMAIN curr'[k].source |-> curr'[k].source[c]]
      <4> DEFINE e == Entries(ops[k], ops[k].source)
      <4>1. DOMAIN e \subseteq ops[k].source /\ e = [c \in DOMAIN e |-> e[c]]
        BY DEF Entries
      <4>2. curr'[k].source = e
        BY <2>3, StateIs
      <4> HIDE DEF e
      <4> QED
        BY <4>1, <4>2
    <3> QED
      BY <1>1, <1>3, <2>2, <2>4, <3>1, <3>2 DEF Ahead
  <2>6. Clean'
    <3>1. \A k \in Index : \A c : Current(k, c)'
      <4>1. \A op, cells : Entries(op, cells)' = Entries(op, cells)
        BY <1>1 DEF Entries, Seen
      <4> QED
        BY <1>1, <2>3, <4>1, StateIs DEF Current, Same
    <3> QED
      BY <1>1, <1>3, <2>2, <2>3, <3>1 DEF Clean
  <2>7. Behind'
    BY <2>2 DEF Behind
  <2>8. Ran'
    BY <2>2 DEF Ran
  <2>9. Again'
    <3>1. \A k : /\ Fits(k)' <=> Fits(k)
                 /\ Repairs(k)' <=> Repairs(k)
                 /\ Matches(k)' <=> Matches(k)
      BY <1>1, BodiesSame
    <3>2. Chainless' => ~faulted
      BY <1>1 DEF Chainless
    <3>3. fresh /\ ~faulted => \A k \in Index : Fits(k) /\ Repairs(k) /\ Matches(k)
      BY <1>2 DEF Parts, Between
    <3> QED
      BY <1>1, <1>2, <1>3, <1>8, <2>1, <2>3, <3>1, <3>2, <3>3 DEF Again
  <2> QED
    BY <1>6, <1>7, <1>9, <2>5, <2>6, <2>7, <2>8, <2>9 DEF Parts
<1> QED
  BY <1>10, <1>11

-----------------------------------------------------------------------------
(* An operation that is not run. *)

LEMMA StaleIs ==
  ASSUME Typed, Tracking, Passing, NEW k \in Pending, NEW c \in ops[k].source, Stale(k, c)
  PROVE  \E j \in Done : /\ Linked(j, k) /\ ops[j].to = c /\ c # ops[k].to /\ c \in Involved
                         /\ Saved(prev[j]) /\ m[c].data = prev[j].target[c].data
                         /\ ~faulted /\ Simple(j) =>
                              ~(c \in DOMAIN curr[k].source
                                  /\ curr[k].source[c].data = prev[j].target[c].data)
<1>1. PICK j \in Done :
        /\ Made(j) /\ ops[j].to = c /\ Saved(prev[j])
        /\ m[c].data = prev[j].target[c].data
        /\ ~faulted /\ Simple(j) =>
             ~(c \in DOMAIN curr[k].source /\ curr[k].source[c].data = prev[j].target[c].data)
  BY DEF Stale
<1>2. j \in Index /\ k \in Index /\ j < k
  BY Places
<1>3. ops[j].to # ops[k].to /\ ops[j].to \in Involved
  BY <1>1, <1>2, Order DEF Made
<1> QED
  BY <1>1, <1>2, <1>3 DEF Linked

LEMMA SkipIs ==
  ASSUME Typed, Tracking, Parts, pc = "decide", ~dry, ~NeedsRun
  PROVE  /\ Passing /\ ~dirty /\ i \in Pending /\ i \in Index /\ ~Running
         /\ Saved(prev[i]) /\ OfDisk(i) = prev[i]
         /\ prev[i].source # NoEntries /\ prev[i].source = Compared(ops[i])
         /\ SavedOK(ops[i], prev[i], m[ops[i].from].data, Involved)
         /\ \A c \in ops[i].source : Current(i, c) \/ Stale(i, c)
<1>1. Passing /\ ~Running
  BY DEF Passing, Calm, Running
<1>2. i \in Pending /\ i \in Index /\ i \in DOMAIN prev
  BY <1>1, Places
<1>3. /\ ~dirty /\ prev[i].source # NoEntries /\ prev[i].source = Compared(ops[i])
  BY DEF NeedsRun
<1>4. SavedOK(ops[i], prev[i], m[ops[i].from].data, Involved)
  BY <1>2 DEF Parts, Files
<1>5. Saved(prev[i])
  BY <1>3, <1>4 DEF SavedOK
<1>6. OfDisk(i) = prev[i]
  BY <1>1, <1>2, <1>3 DEF Parts, Clean
<1>7. \A c \in ops[i].source : Current(i, c) \/ Stale(i, c)
  BY <1>1, <1>2, <1>3 DEF Parts, Clean, Rewritten
<1> QED
  BY <1>1, <1>2, <1>3, <1>4, <1>5, <1>6, <1>7

(* What it tracked is what the machine holds. *)
LEMMA SkipData ==
  ASSUME Typed, Tracking, Parts, pc = "decide", ~dry, ~NeedsRun, ~ops[i].desired,
         NEW c \in DOMAIN prev[i].source,
         ~faulted \/ ops[i].stamped \/ ~Stale(i, c)
  PROVE  prev[i].source[c].data = m[c].data
<1>1. /\ Passing /\ ~dirty /\ i \in Pending /\ i \in Index
      /\ Saved(prev[i])
      /\ prev[i].source = curr[i].source
      /\ SavedOK(ops[i], prev[i], m[ops[i].from].data, Involved)
      /\ \A d \in ops[i].source : Current(i, d) \/ Stale(i, d)
  BY SkipIs DEF Compared
<1>2. c \in ops[i].source /\ m \in [Cell -> Content] /\ ops[i].source \in SUBSET Cell
  BY <1>1, Typing, Order DEF SavedOK
<1>3. CASE Current(i, c)
  <2>1. c \in DOMAIN Entries(ops[i], ops[i].source)
          /\ prev[i].source[c] = Entries(ops[i], ops[i].source)[c]
    BY <1>1, <1>3 DEF Current, Same
  <2> QED
    BY <1>2, <2>1, EntriesAre
<1>4. CASE Stale(i, c)
  <2>1. PICK j \in Done : /\ Linked(j, i) /\ ops[j].to = c
                          /\ Saved(prev[j]) /\ m[c].data = prev[j].target[c].data
    BY <1>1, <1>2, <1>4, StaleIs
  <2>2. j \in Index /\ j < i
    BY <2>1 DEF Linked
  <2>3. Same(prev[i].source, curr[i].source, c)
    BY <1>1 DEF Same
  <2>4. Agree(prev[j], prev[i], c)
    <3>1. CASE ~faulted
      BY <1>1, <2>1, <2>2, <3>1 DEF Parts, Ahead
    <3>2. CASE ops[i].stamped
      BY <1>1, <2>1, <2>2, <2>3, <3>2 DEF Parts, Ahead
    <3> QED
      BY <1>4, <3>1, <3>2
  <2> QED
    BY <1>1, <2>1, <2>4 DEF Agree
<1> QED
  BY <1>1, <1>2, <1>3, <1>4

LEMMA SkipFits ==
  ASSUME Typed, Tracking, Parts, pc = "decide", ~dry, ~NeedsRun, ~faulted
  PROVE  Fits(i)
<1> DEFINE op == ops[i]
<1>1. /\ Passing /\ i \in Pending /\ i \in Index
      /\ Saved(prev[i])
      /\ prev[i].source # NoEntries /\ prev[i].source = Compared(op)
      /\ SavedOK(op, prev[i], m[op.from].data, Involved)
      /\ \A c \in op.source : Current(i, c) \/ Stale(i, c)
  BY SkipIs
<1>2. Tells(op, prev[i], used[i], m[op.from].data)
  BY <1>1 DEF Parts, Ahead
<1>3. CASE op.desired
  <2>1. prev[i].source[op.to].data = m[op.from].data
    BY <1>1, <1>3 DEF Compared
  <2> QED
    BY <1>1, <1>2, <1>3, <2>1 DEF Tells, Fits
<1>4. CASE op.from \in Arguments
  BY <1>1, <1>2, <1>4 DEF Tells, Fits
<1>5. CASE ~op.desired /\ op.from \in op.source
  <2>1. op.from \in DOMAIN prev[i].source
    BY <1>1, <1>5 DEF SavedOK
  <2>2. prev[i].source[op.from].data = m[op.from].data
    BY <1>5, <2>1, SkipData
  <2> QED
    BY <1>1, <1>2, <1>5, <2>2 DEF Tells, Fits
<1>6. CASE op.source = {}
  <2>1. DOMAIN prev[i].source = {}
    BY <1>1, <1>6 DEF SavedOK
  <2>2. prev[i].source = [c \in {} |-> prev[i].source[c]]
    BY <1>1, <2>1 DEF SavedOK
  <2> QED
    BY <1>1, <2>2 DEF NoEntries
<1>7. CASE ~op.desired /\ \E c \in op.source \cap op.named : c \notin Involved
  <2>1. PICK c \in op.source \cap op.named : c \notin Involved
    BY <1>7
  <2>2. c \in DOMAIN prev[i].source /\ prev[i].source[c].data # Absent
    BY <1>1, <2>1 DEF SavedOK
  <2>3. prev[i].source[c].data = m[c].data
    BY <1>7, <2>2, SkipData
  <2>4. c \in Cell
    BY <1>1, <2>1, Order
  <2> QED
    BY <2>1, <2>2, <2>3, <2>4 DEF Parts, Files
<1> QED
  BY <1>1, <1>3, <1>4, <1>5, <1>6, <1>7 DEF Tracking, Tracks

LEMMA SkipRepairs ==
  ASSUME Typed, Tracking, Parts, pc = "decide", ~dry, ~NeedsRun
  PROVE  Repairs(i)
<1> DEFINE op == ops[i]
<1>1. /\ Passing /\ i \in Pending /\ i \in Index
      /\ Saved(prev[i])
      /\ SavedOK(op, prev[i], m[op.from].data, Involved)
  BY SkipIs
<1> SUFFICES ASSUME op.to \in op.source, ~op.desired, op.stamped \/ ~faulted \/ ~Relayed(i)
             PROVE  IF op.keeps THEN m[op.to].data # Absent ELSE m[op.to].data = m[op.from].data
  BY DEF Repairs
<1>2. m[op.to].data = prev[i].source[op.to].data
  <2>1. ~Stale(i, op.to)
    BY <1>1, StaleIs
  <2>2. op.to \in DOMAIN prev[i].source
    BY <1>1 DEF SavedOK
  <2> QED
    BY <2>1, <2>2, SkipData
<1>3. CASE op.keeps
  BY <1>1, <1>2, <1>3, ScriptsAssumption DEF SavedOK
<1>4. CASE ~op.keeps /\ op.from \in Arguments
  BY <1>1, <1>2, <1>4 DEF SavedOK
<1>5. CASE ~op.keeps /\ op.from \in op.source
  <2>1. ~Relayed(i) => ~Stale(i, op.from)
    <3> SUFFICES ASSUME Stale(i, op.from)
                 PROVE  Relayed(i)
      OBVIOUS
    <3>1. PICK j \in Done : Linked(j, i) /\ ops[j].to = op.from
      BY <1>1, <1>5, StaleIs
    <3> QED
      BY <3>1 DEF Linked, Relayed
  <2>2. op.from \in DOMAIN prev[i].source
    BY <1>1, <1>5 DEF SavedOK
  <2>3. prev[i].source[op.from].data = m[op.from].data
    BY <2>1, <2>2, SkipData
  <2> QED
    BY <1>1, <1>2, <1>5, <2>3 DEF SavedOK
<1>6. CASE \E c \in op.source \cap op.named : c \notin Involved
  <2>1. PICK c \in op.source \cap op.named : c \notin Involved
    BY <1>6
  <2>2. c \in DOMAIN prev[i].source /\ prev[i].source[c].data # Absent
    BY <1>1, <2>1 DEF SavedOK
  <2>3. ~Stale(i, c)
    BY <1>1, <2>1, StaleIs
  <2>4. prev[i].source[c].data = m[c].data
    BY <2>2, <2>3, SkipData
  <2>5. c \in Cell
    BY <1>1, <2>1, Order
  <2> QED
    BY <2>1, <2>2, <2>4, <2>5 DEF Parts, Files
<1> QED
  BY <1>1, <1>3, <1>4, <1>5, <1>6 DEF Tracking, Tracks

LEMMA SkipMade ==
  ASSUME Typed, Tracking, Parts, pc = "decide", ~dry, ~NeedsRun, Made(i)
  PROVE  OfDisk(i).target[ops[i].to].data = m[ops[i].to].data
<1> DEFINE op == ops[i]
<1>1. /\ Passing /\ i \in Pending /\ i \in Index
      /\ Saved(prev[i]) /\ OfDisk(i) = prev[i]
      /\ SavedOK(op, prev[i], m[op.from].data, Involved)
  BY SkipIs
<1>2. op.to \in op.source /\ op.to \in op.target /\ ~op.desired
  BY <1>1, Order
<1>3. ~Stale(i, op.to)
  BY <1>1, <1>2, StaleIs
<1>4. op.to \in DOMAIN prev[i].source /\ prev[i].source[op.to] = prev[i].target[op.to]
  BY <1>1, <1>2 DEF SavedOK
<1>5. prev[i].source[op.to].data = m[op.to].data
  BY <1>2, <1>3, <1>4, SkipData
<1> QED
  BY <1>1, <1>4, <1>5

LEMMA SkipMatches ==
  ASSUME Typed, Tracking, Parts, pc = "decide", ~dry, ~NeedsRun
  PROVE  Matches(i)
<1> DEFINE op == ops[i]
<1>1. /\ Passing /\ i \in Pending /\ i \in Index
      /\ Saved(prev[i]) /\ OfDisk(i) = prev[i]
      /\ prev[i].source = Compared(op)
      /\ SavedOK(op, prev[i], m[op.from].data, Involved)
      /\ \A c \in op.source : Current(i, c) \/ Stale(i, c)
  BY SkipIs
<1> SUFFICES ASSUME Chainless
             PROVE  prev[i].source = Wanted(i)
  BY <1>1 DEF Matches
<1>2. CASE op.desired
  BY <1>1, <1>2 DEF Compared, Wanted
<1>3. CASE ~op.desired
  <2>1. prev[i].source = curr[i].source
    BY <1>1, <1>3 DEF Compared
  <2>2. ASSUME NEW c \in op.source
        PROVE  Current(i, c)
    <3> SUFFICES ASSUME Stale(i, c)
                 PROVE  FALSE
      BY <1>1
    <3>1. PICK j \in Done : /\ Linked(j, i) /\ ops[j].to = c /\ Saved(prev[j])
                            /\ ~faulted /\ Simple(j) =>
                                 ~(c \in DOMAIN curr[i].source
                                     /\ curr[i].source[c].data = prev[j].target[c].data)
      BY <1>1, StaleIs
    <3>2. ~faulted /\ Simple(j) /\ j \in Index
      BY <3>1 DEF Chainless, Linked
    <3>3. Agree(prev[j], prev[i], c)
      BY <1>1, <3>1, <3>2 DEF Parts, Ahead
    <3> QED
      BY <1>1, <2>1, <3>1, <3>2, <3>3 DEF Agree
  <2> DEFINE e == Entries(op, op.source)
             p == prev[i].source
  <2>3. DOMAIN p \subseteq op.source /\ DOMAIN e \subseteq op.source
    BY <1>1 DEF SavedOK, Entries
  <2>4. DOMAIN p = DOMAIN e /\ \A c \in DOMAIN e : p[c] = e[c]
    <3>1. \A c \in op.source : Same(p, e, c)
      BY <2>1, <2>2 DEF Current
    <3> HIDE DEF p, e
    <3> QED
      BY <2>3, <3>1 DEF Same
  <2>5. p = [c \in DOMAIN p |-> p[c]] /\ \A c \in DOMAIN p : p[c].data # Absent
    BY <1>1 DEF SavedOK
  <2> HIDE DEF p, e
  <2>6. Nulled(e) = p
    BY <2>4, <2>5 DEF Nulled
  <2> QED
    BY <1>3, <2>6 DEF Wanted, p, e
<1> QED
  BY <1>2, <1>3

LEMMA SkipTells ==
  ASSUME Typed, Tracking, Parts, Skip
  PROVE  Parts'
<1>1. /\ UNCHANGED <<ops, m, disk, dry, prev, curr, used, fresh, faulted>> /\ pc = "decide"
      /\ Advance(dirty \/ NeedsRun) /\ (~NeedsRun \/ dry)
  BY DEF Skip, history
<1>2. /\ Done' = Done \cup {i} /\ Pending' = Pending \ {i}
      /\ pc' \in {"decide", "end"} /\ dirty' = (dirty \/ NeedsRun)
  BY <1>1, Advancing
<1>3. Files'
  BY <1>1, FilesSame DEF Parts
<1>4. InMemory'
  BY <1>2 DEF InMemory
<1>5. CASE dry
  BY <1>1, <1>3, <1>4, <1>5, BetweenSame, CalmNext DEF Calm, Parts
<1>6. CASE ~dry
  <2>1. /\ Passing /\ ~dirty /\ i \in Pending /\ i \in Index /\ ~Running
        /\ Saved(prev[i]) /\ OfDisk(i) = prev[i]
    BY <1>1, <1>6, SkipIs
  <2>2. ~Calm' /\ ~Running' /\ ~dirty'
    BY <1>1, <1>2, <1>6, <2>1 DEF Calm, Running
  <2>3. /\ Index' = Index
        /\ \A j, k : Linked(j, k)' <=> Linked(j, k)
        /\ \A k : (Made(k)' <=> Made(k)) /\ (Simple(k)' <=> Simple(k))
    BY <1>1, Static
  <2>4. \A k : /\ OfDisk(k)' = OfDisk(k)
               /\ Fits(k)' <=> Fits(k)
               /\ Repairs(k)' <=> Repairs(k)
               /\ Matches(k)' <=> Matches(k)
    BY <1>1, BodiesSame DEF OfDisk
  <2>5. Between'
    BY <2>2 DEF Between
  <2>6. Ahead'
    BY <1>1, <1>2, <2>1, <2>3 DEF Parts, Ahead
  <2>7. Clean'
    <3>1. \A op, cells : Entries(op, cells)' = Entries(op, cells)
      BY <1>1 DEF Entries, Seen
    <3>2. \A k, c : /\ Current(k, c) => Current(k, c)'
                    /\ Stale(k, c) => Stale(k, c)'
                    /\ ~Rewritten(k, c)
      BY <1>1, <1>2, <2>1, <2>3, <3>1 DEF Current, Stale, Rewritten
    <3> QED
      BY <1>1, <1>2, <2>1, <2>3, <2>4, <3>2 DEF Parts, Clean
  <2>8. Behind'
    <3>1. ASSUME NEW j \in Done', Made(j)
          PROVE  Saved(OfDisk(j)) /\ OfDisk(j).target[ops[j].to].data = m[ops[j].to].data
      BY <1>1, <1>2, <1>6, <2>1, <3>1, SkipMade DEF Parts, Behind
    <3>2. ASSUME NEW k \in Done', ~faulted
          PROVE  Fits(k) /\ Tells(ops[k], OfDisk(k), used[k], m[ops[k].from].data)
      BY <1>1, <1>2, <1>6, <2>1, <3>2, SkipFits DEF Parts, Behind, Ahead
    <3>3. ASSUME NEW j \in Index, NEW k \in Done', Linked(j, k), ~faulted
          PROVE  Agree(OfDisk(j), OfDisk(k), ops[j].to)
      <4>1. CASE k \in Done
        BY <2>1, <3>3, <4>1 DEF Parts, Behind
      <4>2. CASE k = i
        <5>1. Agree(prev[j], prev[i], ops[j].to)
          BY <2>1, <3>3, <4>2 DEF Parts, Ahead
        <5>2. j \in Done /\ Made(j)
          BY <1>1, <3>3, <4>2, Places DEF Linked
        <5>3. Saved(prev[j]) /\ OfDisk(j).target[ops[j].to].data = prev[j].target[ops[j].to].data
          BY <2>1, <5>2 DEF Parts, Clean
        <5> QED
          BY <2>1, <4>2, <5>1, <5>3 DEF Agree
      <4> QED
        BY <1>2, <4>1, <4>2
    <3>4. ASSUME NEW k \in Done'
          PROVE  Repairs(k) /\ Matches(k)
      BY <1>1, <1>2, <1>6, <2>1, SkipRepairs, SkipMatches DEF Parts, Behind
    <3> QED
      BY <1>1, <2>2, <2>3, <2>4, <3>1, <3>2, <3>3, <3>4 DEF Behind
  <2>9. Ran'
    BY <2>2 DEF Ran
  <2>10. Again'
    <3>1. Chainless' <=> Chainless
      BY <1>1, <2>3 DEF Chainless
    <3>2. \A op : StateOf(op)' = StateOf(op)
      BY <1>1 DEF StateOf, Entries, Seen
    <3> QED
      BY <1>1, <1>2, <2>1, <2>2, <2>3, <2>4, <3>1, <3>2 DEF Parts, Again
  <2> QED
    BY <1>3, <1>4, <2>5, <2>6, <2>7, <2>8, <2>9, <2>10 DEF Parts
<1>7. dry \in BOOLEAN
  BY DEF Typed, TypeOK
<1> QED
  BY <1>5, <1>6

-----------------------------------------------------------------------------
(* An operation that is run. *)

LEMMA RunIs ==
  ASSUME Typed, Tracking, Parts, Run
  PROVE  /\ UNCHANGED <<ops, disk, dry, i, prev, curr, dirty, fresh, faulted>>
         /\ pc = "decide" /\ pc' = "record" /\ ~dry /\ NeedsRun
         /\ Passing /\ ~Running /\ Running' /\ Passing'
         /\ i \in Index /\ i \in Pending /\ Done' = Done /\ Pending' = Pending \ {i}
         /\ \A k \in Pending \ {i} : i < k
         /\ m[ops[i].from].data \in Value /\ used' = [used EXCEPT ![i] = m[ops[i].from].data]
         /\ \A d \in Cell \ {ops[i].to} : m'[d] = m[d]
         /\ m'[ops[i].from].data = m[ops[i].from].data
         /\ IF ops[i].keeps THEN m'[ops[i].to].data \in Value
                            ELSE m'[ops[i].to].data = m[ops[i].from].data
         /\ \/ m' = m
            \/ /\ m'[ops[i].to].stamp \notin Recorded(ops[i].to)
               /\ m'[ops[i].to].data = m[ops[i].from].data
               /\ ops[i].keeps => m[ops[i].to].data = Absent
<1> DEFINE op == ops[i]
           v  == m[op.from].data
<1>1. /\ UNCHANGED <<ops, disk, dry, i, prev, curr, dirty, fresh, faulted>>
      /\ pc = "decide" /\ pc' = "record" /\ ~dry /\ NeedsRun
      /\ v # Absent
      /\ m' = IF Leaves(op, v) THEN m ELSE Written(op.to, v)
      /\ used' = [used EXCEPT ![i] = v]
  BY DEF Run
<1>2. Passing /\ ~Running /\ Running' /\ Passing'
  BY <1>1 DEF Passing, Calm, Running
<1>3. i \in Index /\ i \in Pending /\ Done' = Done
  BY <1>1, <1>2, Places DEF Done, Index
<1>4. Pending' = Pending \ {i} /\ \A k \in Pending \ {i} : i < k
  <2>1. Len(ops) \in Nat /\ Index = 1 .. Len(ops) /\ Pending = i .. Len(ops) /\ Pending' = (i + 1) .. Len(ops)
    BY <1>1, Typing DEF Pending
  <2>2. i \in 1 .. Len(ops)
    BY <1>3, <2>1
  <2> HIDE DEF Index
  <2> QED
    BY <2>1, <2>2
<1>5. m \in [Cell -> Content] /\ op.from \in Cell /\ op.to \in Cell
  BY <1>3, Typing, Order
<1>6. v \in Value
  BY <1>1, <1>5 DEF Content
<1>7. CASE Leaves(op, v)
  <2>1. m' = m
    BY <1>1, <1>7
  <2>2. IF op.keeps THEN m[op.to].data \in Value ELSE m[op.to].data = v
    BY <1>5, <1>7 DEF Leaves, Content
  <2> QED
    BY <1>1, <1>2, <1>3, <1>4, <1>6, <2>1, <2>2
<1>8. CASE ~Leaves(op, v)
  <2>1. m' = Written(op.to, v)
    BY <1>1, <1>8
  <2>2. /\ m'[op.to].data = v /\ m'[op.to].stamp \notin Recorded(op.to)
        /\ \A d \in Cell \ {op.to} : m'[d] = m[d]
    BY <1>5, <1>6, <2>1, WrittenIs
  <2>3. m'[op.from].data = v
    BY <1>5, <2>2
  <2>4. op.keeps => m[op.to].data = Absent
    BY <1>8 DEF Leaves
  <2> QED
    BY <1>1, <1>2, <1>3, <1>4, <1>6, <2>2, <2>3, <2>4
<1> QED
  BY <1>7, <1>8

(* A pcopy that was clean until now writes what was not recorded. *)
LEMMA RunRewrites ==
  ASSUME Typed, Tracking, Parts, Run, ~dirty, ~faulted, Simple(i), ~ops[i].stamped,
         NEW k \in Pending \ {i}, ops[i].to \in ops[k].source,
         ops[i].to \in DOMAIN prev[i].target, m' # m,
         ops[i].to \in DOMAIN curr[k].source,
         curr[k].source[ops[i].to].data = prev[i].target[ops[i].to].data
  PROVE  m'[ops[i].to].data # prev[i].target[ops[i].to].data
<1> DEFINE op == ops[i]
           c  == op.to
           p  == prev[i].source
           q  == curr[i].source
<1>1. /\ Passing /\ ~Running /\ pc = "decide" /\ i \in Index /\ i \in Pending /\ NeedsRun
      /\ m[op.from].data \in Value
      /\ m'[c].data = m[op.from].data
      /\ op.keeps => m[c].data = Absent
  BY RunIs
<1>2. SavedOK(op, prev[i], m[op.from].data, Involved)
  BY <1>1, Places DEF Parts, Files
<1>3. Saved(prev[i]) /\ op.target # {}
  BY <1>2 DEF SavedOK, NoEntries
<1>4. c \in op.source /\ c \in op.target /\ ~op.desired
  BY <1>1, <1>3, Order DEF Made
<1>5. m \in [Cell -> Content] /\ op.source \in SUBSET Cell /\ ops[k].source \in SUBSET Cell /\ op \in Operation
  BY Places, Typing, Order
<1>6. Current(k, c)
  <2>1. ~Stale(k, c)
    <3> SUFFICES ASSUME Stale(k, c)
                 PROVE  FALSE
      OBVIOUS
    <3>1. PICK j \in Done : Made(j) /\ ops[j].to = c
      BY DEF Stale
    <3>2. j \in Index /\ j < i
      BY <1>1, Places
    <3> QED
      BY <1>1, <3>1, <3>2, Order DEF Made
  <2> QED
    BY <1>1, <2>1 DEF Parts, Clean, Rewritten
<1>7. m[c].data = prev[i].target[c].data
  <2>1. c \in DOMAIN Entries(ops[k], ops[k].source)
          /\ curr[k].source[c] = Entries(ops[k], ops[k].source)[c]
    BY <1>6 DEF Current, Same
  <2> QED
    BY <1>5, <2>1, EntriesAre
<1>8. /\ c \in DOMAIN p /\ p[c] = prev[i].target[c] /\ p[c].data = m[c].data
      /\ p[c].data \in Value /\ ~op.keeps
  BY <1>1, <1>2, <1>3, <1>4, <1>7, ScriptsAssumption DEF SavedOK
<1> SUFFICES ASSUME m[op.from].data = m[c].data
             PROVE  FALSE
  BY <1>1, <1>7
<1>9. \A d \in op.source : Current(i, d) \/ Stale(i, d)
  BY <1>1 DEF Parts, Clean, Rewritten
<1>10. \A d \in op.source : d \in {op.from, c} /\ Current(i, d)
  <2>1. op.source \subseteq {op.from, c} /\ ~Relayed(i)
    BY DEF Simple
  <2>2. ~Stale(i, c)
    BY <1>1, <1>4, StaleIs
  <2>3. op.from \in op.source => ~Stale(i, op.from)
    <3> SUFFICES ASSUME op.from \in op.source, Stale(i, op.from)
                 PROVE  Relayed(i)
      BY <2>1
    <3>1. PICK j \in Done : Linked(j, i) /\ ops[j].to = op.from
      BY <1>1, StaleIs
    <3> QED
      BY <3>1 DEF Linked, Relayed
  <2> QED
    BY <1>9, <2>1, <2>2, <2>3
<1>11. ASSUME NEW d \in op.source
       PROVE  d \in DOMAIN p /\ d \in DOMAIN q /\ p[d] = q[d]
  <2>1. d \in {op.from, c}
    BY <1>10
  <2>2. d \in DOMAIN p /\ p[d].data = m[d].data /\ m[d].data \in Value
    BY <1>1, <1>2, <1>3, <1>4, <1>8, <2>1 DEF SavedOK
  <2>3. p[d] = [data |-> p[d].data, stamp |-> p[d].stamp] /\ p[d].stamp = 0
    <3>1. prev[i] \in Kept
      BY <1>1, Places DEF Kept
    <3>2. OfType(prev[i])
      BY <3>1 DEF Typed, IsState
    <3>3. p[d].stamp = 0
      BY <1>2, <1>3, <2>2 DEF SavedOK
    <3> QED
      BY <2>2, <3>2, <3>3 DEF OfType
  <2> DEFINE e == Entries(op, op.source)
  <2>4. d \in DOMAIN e /\ e[d] = Seen(op, d)
    <3>1. m[d].data # Absent
      BY <2>2, ScriptsAssumption
    <3> QED
      BY <3>1 DEF Entries
  <2>5. Seen(op, d) = [data |-> m[d].data, stamp |-> 0]
    BY DEF Seen
  <2>6. Same(q, e, d)
    BY <1>10 DEF Current
  <2> HIDE DEF e, p, q
  <2> QED
    BY <2>2, <2>3, <2>4, <2>5, <2>6 DEF Same
<1>12. /\ p = [d \in DOMAIN p |-> p[d]] /\ q = [d \in DOMAIN q |-> q[d]]
       /\ DOMAIN p \subseteq op.source /\ DOMAIN q \subseteq op.source
  BY <1>1, <1>2 DEF SavedOK, Parts, Ahead
<1>13. prev[i].source # NoEntries /\ prev[i].source = curr[i].source
  <2>1. p = q
    <3> HIDE DEF p, q
    <3> QED
      BY <1>11, <1>12
  <2> QED
    BY <1>8, <2>1 DEF NoEntries
<1> QED
  BY <1>1, <1>4, <1>13 DEF NeedsRun, Compared

(* What runs again has a source that is missing, and does not make it. *)
LEMMA RunAgain ==
  ASSUME Typed, Tracking, Parts, Run, Chainless, ops[i].source # {}, ~dirty,
         prev[i] = OfDisk(i), curr[i] = StateOf(ops[i]), Repairs(i), Matches(i)
  PROVE  \E c \in ops[i].source : c # ops[i].to /\ m[c].data = Absent
<1> DEFINE op == ops[i]
           e  == Entries(op, op.source)
<1>1. /\ pc = "decide" /\ i \in Index /\ NeedsRun /\ m[op.from].data \in Value
  BY RunIs
<1>2. prev[i].source = Wanted(i)
  BY DEF Matches
<1>3. ~op.desired
  <2> SUFFICES ASSUME op.desired
               PROVE  FALSE
    OBVIOUS
  <2>1. prev[i].source = Compared(op)
    BY <1>2 DEF Wanted, Compared
  <2>2. DOMAIN prev[i].source = {op.to}
    BY <2>1 DEF Compared
  <2> QED
    BY <1>1, <2>1, <2>2 DEF NeedsRun, NoEntries
<1>4. prev[i].source = Nulled(e) /\ Compared(op) = e
  BY <1>2, <1>3, StateIs DEF Wanted, Compared
<1>5. Nulled(e) = NoEntries \/ Nulled(e) # e
  BY <1>1, <1>4 DEF NeedsRun
<1>6. \E c \in op.source : m[c].data = Absent
  <2> SUFFICES ASSUME \A c \in op.source : m[c].data # Absent
               PROVE  FALSE
    OBVIOUS
  <2>1. DOMAIN e = op.source /\ e = [c \in DOMAIN e |-> e[c]]
    BY DEF Entries
  <2>2. \A c \in DOMAIN e : e[c].data = m[c].data
    BY <1>1, Typing, Order, EntriesAre
  <2> HIDE DEF e
  <2>3. Nulled(e) = e
    BY <2>1, <2>2 DEF Nulled
  <2>4. e # NoEntries
    BY <2>1 DEF NoEntries
  <2> QED
    BY <1>5, <2>3, <2>4
<1>7. op.to \in op.source => m[op.to].data # Absent
  BY <1>1, <1>3, ScriptsAssumption DEF Repairs, Chainless
<1> QED
  BY <1>6, <1>7

LEMMA RunTells ==
  ASSUME Typed, Tracking, Parts, Run
  PROVE  Parts'
<1> DEFINE op == ops[i]
           v  == m[op.from].data
           to == op.to
<1>1. /\ UNCHANGED <<ops, disk, dry, i, prev, curr, dirty, fresh, faulted>>
      /\ pc = "decide" /\ pc' = "record" /\ ~dry /\ NeedsRun
      /\ Passing /\ ~Running /\ Running' /\ Passing'
      /\ i \in Index /\ i \in Pending /\ Done' = Done /\ Pending' = Pending \ {i}
      /\ \A k \in Pending \ {i} : i < k
      /\ v \in Value /\ used' = [used EXCEPT ![i] = v]
      /\ \A d \in Cell \ {to} : m'[d] = m[d]
      /\ m'[op.from].data = v
      /\ IF op.keeps THEN m'[to].data \in Value ELSE m'[to].data = v
      /\ m' = m \/ m'[to].stamp \notin Recorded(to)
  BY RunIs
<1>2. /\ Index' = Index /\ Involved' = Involved
      /\ \A j, k : Linked(j, k)' <=> Linked(j, k)
      /\ \A k : (Made(k)' <=> Made(k)) /\ (Relayed(k)' <=> Relayed(k)) /\ (Simple(k)' <=> Simple(k))
  BY <1>1, Static
<1>3. \A k : OfDisk(k)' = OfDisk(k)
  BY <1>1 DEF OfDisk
<1>4. to \in Involved \ Arguments /\ to \in Cell
  BY <1>1, Order
<1>5. ~Calm'
  BY <1>1 DEF Passing
<1>6. Files'
  BY <1>1, <1>4, FilesWritten DEF Parts
<1>7. Between'
  BY <1>5 DEF Between
<1>8. InMemory'
  BY <1>1 DEF InMemory
<1>9. \A k \in Index : k # i => used'[k] = used[k]
  BY <1>1 DEF Typed, TypeOK
<1>10. \A k \in Index : ops[k].from \in Arguments => m'[ops[k].from] = m[ops[k].from]
  BY <1>1, <1>4, Order
<1>11. used'[i] = v
  BY <1>1 DEF Typed, TypeOK
<1>12. \A k \in Index : \A s : k # i /\ Tells(ops[k], s, used[k], m[ops[k].from].data)
                             => Tells(ops[k], s, used'[k], m'[ops[k].from].data)
  BY <1>9, <1>10 DEF Tells
<1>13. Pending \subseteq Index /\ Done \subseteq Index /\ \A j \in Done : j < i /\ j # i
  <2>1. Index \subseteq Nat
    BY Typing
  <2> QED
    BY <1>1, <2>1, Places
<1>14. Ahead'
  BY <1>1, <1>2, <1>12, <1>13 DEF Parts, Ahead
<1>15. Chainless' <=> Chainless
  BY <1>1, <1>2 DEF Chainless
<1>16. \A k \in Done : to \notin ops[k].source /\ to \notin ops[k].target /\ to # ops[k].from
  BY <1>1, <1>13, Order
<1>17. Clean'
  <2> SUFFICES ASSUME ~dirty
               PROVE  Clean'
    BY <1>1 DEF Clean
  <2>1. ASSUME NEW k \in Pending', NEW c \in ops[k].source
        PROVE  Current(k, c)' \/ Stale(k, c)' \/ Rewritten(k, c)'
    <3>1. k \in Index /\ k \in Pending \ {i} /\ c \in Cell
      BY <1>1, <1>13, <2>1, Order
    <3>2. Current(k, c) \/ Stale(k, c)
      BY <1>1, <2>1 DEF Parts, Clean, Rewritten
    <3>3. CASE m'[c] = m[c]
      <4>1. Current(k, c) => Current(k, c)'
        <5>1. Seen(ops[k], c)' = Seen(ops[k], c)
          BY <1>1, <3>3 DEF Seen
        <5> DEFINE e == Entries(ops[k], ops[k].source)
        <5>2. /\ c \in DOMAIN e' <=> c \in DOMAIN e
              /\ c \in DOMAIN e => e'[c] = e[c]
          BY <1>1, <3>3, <5>1 DEF Entries
        <5> QED
          BY <1>1, <5>2 DEF Current, Same
      <4>2. Stale(k, c) => Stale(k, c)'
        BY <1>1, <1>2, <3>3 DEF Stale
      <4> QED
        BY <3>2, <4>1, <4>2
    <3>4. CASE m'[c] # m[c]
      <4>1. c = to /\ m' # m
        BY <1>1, <3>1, <3>4
      <4>2. SUFFICES ASSUME c \in DOMAIN prev[i].target
                     PROVE  IF op.stamped THEN m'[c] # prev[i].target[c]
                            ELSE ~faulted /\ Simple(i) /\ c \in DOMAIN curr[k].source
                                   /\ curr[k].source[c].data = prev[i].target[c].data
                                   => m'[c].data # prev[i].target[c].data
        BY <1>1, <1>2, <4>1 DEF Rewritten
      <4>3. CASE op.stamped
        <5>1. prev[i].target[c].stamp \in Recorded(c)
          BY <1>1, <4>2, Places, RecordedHas
        <5> QED
          BY <1>1, <4>1, <4>3, <5>1
      <4>4. CASE ~op.stamped
        BY <1>1, <2>1, <3>1, <4>1, <4>2, <4>4, RunRewrites
      <4> QED
        BY <4>3, <4>4
    <3> QED
      BY <3>3, <3>4
  <2> QED
    BY <1>1, <1>2, <1>3, <2>1 DEF Parts, Clean
<1>18. Behind'
  <2>1. ASSUME NEW j \in Done, Made(j)
        PROVE  Saved(OfDisk(j)) /\ OfDisk(j).target[ops[j].to].data = m'[ops[j].to].data
    <3>1. ops[j].to # to /\ ops[j].to \in Cell
      BY <1>1, <1>13, <2>1, Order DEF Made
    <3> QED
      BY <1>1, <2>1, <3>1 DEF Parts, Behind
  <2>2. \A k \in Done : m'[ops[k].from] = m[ops[k].from] /\ used'[k] = used[k]
    BY <1>1, <1>9, <1>13, <1>16, Order
  <2>3. \A k \in Done : Fits(k) => Fits(k)'
    BY <1>1, <2>2 DEF Fits
  <2>4. ASSUME NEW k \in Done
        PROVE  Repairs(k) => Repairs(k)'
    <3>1. ops[k].to \in ops[k].source => m'[ops[k].to] = m[ops[k].to]
      BY <1>1, <1>13, <1>16, Order
    <3> QED
      BY <1>1, <1>2, <2>2, <3>1 DEF Repairs
  <2>5. ASSUME NEW k \in Done
        PROVE  Matches(k) => Matches(k)'
    <3>1. \A c \in ops[k].source : m'[c] = m[c]
      BY <1>1, <1>13, <1>16, Order
    <3>2. Entries(ops[k], ops[k].source)' = Entries(ops[k], ops[k].source)
      <4>1. \A c \in ops[k].source : Seen(ops[k], c)' = Seen(ops[k], c)
        BY <1>1, <3>1 DEF Seen
      <4> QED
        BY <1>1, <3>1, <4>1 DEF Entries
    <3>3. Wanted(k)' = Wanted(k)
      BY <1>1, <2>2, <3>2 DEF Wanted, Nulled
    <3> QED
      BY <1>3, <1>15, <3>3 DEF Matches
  <2>6. \A k \in Done : Tells(ops[k], OfDisk(k), used[k], m[ops[k].from].data)
                          => Tells(ops[k], OfDisk(k), used'[k], m'[ops[k].from].data)
    BY <1>12, <1>13
  <2> QED
    BY <1>1, <1>2, <1>3, <2>1, <2>3, <2>4, <2>5, <2>6 DEF Parts, Behind
<1>19. Ran'
  BY <1>1, <1>11 DEF Ran
<1>20. Again'
  <2> SUFFICES ASSUME fresh, Chainless, \A k \in Index : ops[k].source # {}
               PROVE  \E k \in Done \cup {i} : \E c \in ops[k].source : m'[c].data = Absent
    BY <1>1, <1>2, <1>15 DEF Again
  <2>1. CASE \E k \in Done : \E c \in ops[k].source : m[c].data = Absent
    BY <1>1, <1>13, <1>16, <2>1, Order
  <2>2. CASE ~dirty /\ \A k \in Index : /\ prev[k] = OfDisk(k) /\ curr[k] = StateOf(ops[k])
                                       /\ Fits(k) /\ Repairs(k) /\ Matches(k)
    <3>1. PICK c \in op.source : c # to /\ m[c].data = Absent
      BY <1>1, <2>2, RunAgain
    <3> QED
      BY <1>1, <3>1, Order
  <2> QED
    BY <1>1, <2>1, <2>2 DEF Parts, Again
<1> QED
  BY <1>6, <1>7, <1>8, <1>14, <1>17, <1>18, <1>19, <1>20 DEF Parts

LEMMA RunningIs ==
  ASSUME Typed, Tracking, Parts, Running
  PROVE  /\ ~dry /\ Passing /\ ~Calm
         /\ i \in Index /\ DOMAIN prev = Index /\ DOMAIN curr = Index
         /\ Done \subseteq Index /\ Pending \subseteq Index
         /\ \A k \in Pending : i < k /\ k # i
         /\ \A j \in Done : j # i
         /\ \A j \in Index : j \in Done <=> j < i
         /\ m[ops[i].from].data = used[i] /\ used[i] \in Value
         /\ IF ops[i].keeps THEN m[ops[i].to].data \in Value ELSE m[ops[i].to].data = used[i]
         /\ pc = "write" => curr[i] = StateOf(ops[i])
         /\ \A j \in Index : Made(j) /\ ops[j] = ops[i] => j = i
<1>1. ~dry
  BY DEF Typed, Cascade, Reading, Running
<1>2. Passing /\ ~Calm
  BY <1>1 DEF Running, Passing, Calm
<1>3. Index \subseteq Nat
  BY Typing
<1>4. pc # "end"
  BY DEF Running
<1>5. /\ i \in Index /\ DOMAIN prev = Index /\ DOMAIN curr = Index
      /\ Done \subseteq Index /\ Pending \subseteq Index
      /\ \A k \in Pending : i < k
      /\ \A j \in Index : j \in Done <=> j < i
  BY <1>2, <1>4, Places
<1>6. (\A k \in Pending : k # i) /\ \A j \in Done : j # i
  BY <1>3, <1>5
<1>7. \A j \in Index : Made(j) /\ ops[j] = ops[i] => j = i
  BY <1>5, Order DEF Made
<1> QED
  BY <1>1, <1>2, <1>5, <1>6, <1>7 DEF Parts, Ran

LEMMA RecordTells ==
  ASSUME Typed, Tracking, Parts, Record
  PROVE  Parts'
<1>1. /\ UNCHANGED <<ops, m, dry, i, prev, dirty, used, fresh, faulted>>
      /\ pc = "record" /\ pc' = "write"
      /\ curr' = [curr EXCEPT ![i] = StateOf(ops[i])]
      /\ disk' = [disk EXCEPT ![ops[i]] = Torn]
      /\ Running /\ Running'
  BY DEF Record, history, Running
<1>2. /\ ~dry /\ Passing /\ i \in Index /\ DOMAIN curr = Index
      /\ Done \subseteq Index /\ Pending \subseteq Index
      /\ \A k \in Pending : k # i
      /\ \A j \in Done : j # i
      /\ \A j \in Index : Made(j) /\ ops[j] = ops[i] => j = i
  BY <1>1, RunningIs
<1>3. /\ Index' = Index /\ Involved' = Involved
      /\ \A j, k : Linked(j, k)' <=> Linked(j, k)
      /\ \A k : (Made(k)' <=> Made(k)) /\ (Relayed(k)' <=> Relayed(k)) /\ (Simple(k)' <=> Simple(k))
  BY <1>1, Static
<1>4. /\ Done' = Done /\ Pending' = Pending /\ Passing' /\ ~Calm'
  BY <1>1, <1>2, <1>3 DEF Done, Pending, Passing, Calm
<1>5. \A k \in Index : OfDisk(k)' = IF ops[k] = ops[i] THEN Torn ELSE OfDisk(k)
  <2>1. DOMAIN disk = Key /\ \A k \in Index : ops[k] \in Key
    BY Typing DEF Typed, TypeOK
  <2> QED
    BY <1>1, <2>1 DEF OfDisk
<1>6. /\ ~Saved(Torn) /\ DOMAIN Torn.source = {}
      /\ \A op, v : SavedOK(op, Torn, v, Involved)
  BY DEF Saved, Torn, SavedOK, NoEntries
<1>7. curr'[i] = StateOf(ops[i]) /\ \A k \in Index : k # i => curr'[k] = curr[k]
  BY <1>1, <1>2
<1>8. \A op, cells : Entries(op, cells)' = Entries(op, cells)
  BY <1>1 DEF Entries, Seen
<1>9. Files'
  <2>1. \A k \in Index : SavedOK(ops[k], OfDisk(k)', m[ops[k].from].data, Involved)
    BY <1>5, <1>6 DEF Parts, Files
  <2>2. \A k \in DOMAIN prev : SavedOK(ops[k], prev[k], m[ops[k].from].data, Involved)
    BY DEF Parts, Files
  <2>3. ASSUME NEW j \in Index, NEW k \in Index, Linked(j, k), ops[k].stamped,
               ops[j].to \in DOMAIN OfDisk(k)'.source, OfDisk(k)'.source[ops[j].to] = m[ops[j].to]
        PROVE  Agree(OfDisk(j)', OfDisk(k)', ops[j].to)
    BY <1>5, <1>6, <2>3 DEF Parts, Files, Agree
  <2>4. \A c \in Cell \ Involved : m[c].data = Absent
    BY DEF Parts, Files
  <2> QED
    BY <1>1, <1>3, <2>1, <2>2, <2>3, <2>4 DEF Files
<1>10. Between'
  BY <1>4 DEF Between
<1>11. InMemory'
  BY <1>1 DEF InMemory
<1>12. Ahead'
  BY <1>1, <1>2, <1>3, <1>4, <1>7 DEF Parts, Ahead
<1>13. Clean'
  <2> SUFFICES ASSUME ~dirty
               PROVE  Clean'
    BY <1>1 DEF Clean
  <2>1. ASSUME NEW k \in Pending, NEW c \in ops[k].source
        PROVE  Current(k, c)' \/ Stale(k, c)' \/ Rewritten(k, c)'
    <3>1. Current(k, c) \/ Stale(k, c) \/ Rewritten(k, c)
      BY <1>2 DEF Parts, Clean
    <3>2. Current(k, c) => Current(k, c)'
      BY <1>1, <1>2, <1>7, <1>8 DEF Current
    <3>3. Stale(k, c) => Stale(k, c)'
      BY <1>1, <1>3, <1>4, <1>2, <1>7 DEF Stale
    <3>4. Rewritten(k, c) => Rewritten(k, c)'
      BY <1>1, <1>2, <1>3, <1>7 DEF Rewritten
    <3> QED
      BY <3>1, <3>2, <3>3, <3>4
  <2>2. \A k \in Pending : (Running' /\ ops[k] = ops[i]) \/ OfDisk(k)' = prev[k]
    BY <1>1, <1>2, <1>5 DEF Parts, Clean
  <2>3. \A j \in Done : Made(j) =>
          Saved(prev[j]) /\ OfDisk(j)'.target[ops[j].to].data = prev[j].target[ops[j].to].data
    BY <1>1, <1>2, <1>5 DEF Parts, Clean
  <2>6. \A k \in Pending' : (Running' /\ ops'[k] = ops'[i']) \/ OfDisk(k)' = prev'[k]
    BY <1>1, <1>4, <2>2
  <2>7. \A k \in Pending' : \A c \in ops'[k].source : Current(k, c)' \/ Stale(k, c)' \/ Rewritten(k, c)'
    BY <1>1, <1>4, <2>1
  <2>8. \A j \in Done' : Made(j)' =>
          Saved(prev'[j]) /\ OfDisk(j)'.target[ops'[j].to].data = prev'[j].target[ops'[j].to].data
    BY <1>1, <1>3, <1>4, <2>3
  <2> QED
    BY <2>6, <2>7, <2>8 DEF Clean, Saved
<1>14. Behind'
  <2>1. \A j \in Done : Made(j) =>
          Saved(OfDisk(j)') /\ OfDisk(j)'.target[ops[j].to].data = m[ops[j].to].data
    BY <1>2, <1>5 DEF Parts, Behind
  <2>2. ~faulted => \A k \in Done : /\ Fits(k)
                                    /\ Tells(ops[k], OfDisk(k)', used[k], m[ops[k].from].data)
    BY <1>2, <1>5, <1>6 DEF Parts, Behind, Tells
  <2>3. ~faulted => \A j \in Index, k \in Done : Linked(j, k) =>
          Agree(OfDisk(j)', OfDisk(k)', ops[j].to)
    BY <1>2, <1>5, <1>6 DEF Parts, Behind, Agree
  <2>4. \A k \in Done : Repairs(k) /\ (Fits(k)' <=> Fits(k)) /\ (Repairs(k)' <=> Repairs(k))
    BY <1>1, <1>2, <1>3 DEF Parts, Behind, Fits, Repairs
  <2>5. ASSUME NEW k \in Done, ops[k] # ops[i]
        PROVE  Matches(k)'
    <3>1. Matches(k) /\ OfDisk(k)' = OfDisk(k)
      BY <1>2, <1>5, <2>5 DEF Parts, Behind
    <3>2. Wanted(k)' = Wanted(k)
      BY <1>1, <1>8 DEF Wanted, Nulled
    <3>3. Chainless' <=> Chainless
      BY <1>1, <1>3 DEF Chainless
    <3> QED
      BY <3>1, <3>2, <3>3 DEF Matches
  <2> QED
    BY <1>1, <1>3, <1>4, <2>1, <2>2, <2>3, <2>4, <2>5 DEF Behind
<1>15. Ran'
  <2>1. StateOf(ops[i])' = StateOf(ops[i])
    BY <1>1, <1>8 DEF StateOf
  <2> QED
    BY <1>1, <1>2, <1>7, <2>1 DEF Parts, Ran
<1>16. Again'
  <2>1. Chainless' <=> Chainless
    BY <1>1, <1>3 DEF Chainless
  <2> QED
    BY <1>1, <1>2, <1>3, <1>4, <2>1 DEF Parts, Again
<1> QED
  BY <1>9, <1>10, <1>11, <1>12, <1>13, <1>14, <1>15, <1>16 DEF Parts

(* What is saved after a run. *)
LEMMA WriteIs ==
  ASSUME Typed, Tracking, Parts, Write
  PROVE  LET s == OnDisk(StateOf(ops[i])) IN
         /\ SavedOK(ops[i], s, m[ops[i].from].data, Involved) /\ Saved(s)
         /\ \A k \in Index : OfDisk(k)' = IF ops[k] = ops[i] THEN s ELSE OfDisk(k)
         /\ \A c \in ops[i].source : m[c].data # Absent =>
              c \in DOMAIN s.source /\ s.source[c].data = m[c].data
         /\ \A c \in ops[i].target : m[c].data # Absent =>
              c \in DOMAIN s.target /\ s.target[c].data = m[c].data
<1> DEFINE op == ops[i]
           s  == OnDisk(StateOf(op))
<1>1. pc = "write" /\ Running /\ disk' = [disk EXCEPT ![op] = OnDisk(curr[i])] /\ ops' = ops
  BY DEF Write, Running
<1>2. /\ i \in Index /\ curr[i] = StateOf(op) /\ m[op.from].data \in Value
      /\ IF op.keeps THEN m[op.to].data \in Value ELSE m[op.to].data = m[op.from].data
  BY <1>1, RunningIs
<1>3. m \in [Cell -> Content] /\ op \in Operation /\ op.source \in SUBSET Cell /\ op.target \in SUBSET Cell
  BY <1>2, Typing, Order
<1>4. SavedOK(op, s, m[op.from].data, Involved)
  BY <1>2, <1>3, RunSaves
<1>5. /\ s.file = "saved"
      /\ s.source = Nulled(Entries(op, op.source)) /\ s.target = Nulled(Entries(op, op.target))
  BY StateIs
<1>6. Faithful(s.source, op, op.source) /\ Faithful(s.target, op, op.target)
  BY <1>3, <1>5, NulledAre
<1>7. \A k \in Index : OfDisk(k)' = IF ops[k] = op THEN s ELSE OfDisk(k)
  <2>1. DOMAIN disk = Key /\ \A k \in Index : ops[k] \in Key
    BY Typing DEF Typed, TypeOK
  <2> QED
    BY <1>1, <1>2, <2>1 DEF OfDisk
<1> HIDE DEF s
<1>8. /\ \A c \in op.source : m[c].data # Absent =>
           c \in DOMAIN s.source /\ s.source[c].data = m[c].data
      /\ \A c \in op.target : m[c].data # Absent =>
           c \in DOMAIN s.target /\ s.target[c].data = m[c].data
  BY <1>6 DEF Faithful
<1> QED
  BY <1>4, <1>5, <1>7, <1>8 DEF Saved, s

(* A run that leaves what follows clean recorded its target as it was. *)
LEMMA WriteClean ==
  ASSUME Typed, Tracking, Parts, Write, TargetUntouched
  PROVE  LET to == ops[i].to IN
         /\ ops[i].target # {} /\ Saved(prev[i]) /\ to \in DOMAIN prev[i].target
         /\ prev[i].target[to].data = m[to].data /\ m[to].data # Absent
         /\ ops[i].stamped => prev[i].target[to] = m[to]
<1> DEFINE op == ops[i]
           to == op.to
           e  == Entries(op, op.target)
<1>1. pc = "write" /\ Running
  BY DEF Write, Running
<1>2. /\ i \in Index /\ i \in DOMAIN prev /\ curr[i] = StateOf(op) /\ m[op.from].data \in Value
      /\ IF op.keeps THEN m[to].data \in Value ELSE m[to].data = m[op.from].data
  BY <1>1, RunningIs
<1>3. prev[i].target = e /\ e # NoEntries
  BY <1>2, StateIs DEF TargetUntouched
<1>4. op.target # {}
  <2> SUFFICES ASSUME op.target = {}
               PROVE  FALSE
    OBVIOUS
  <2>1. StateOf(op).target = NoEntries
    BY NoTargets
  <2> QED
    BY <1>3, <2>1, StateIs
<1>5. to \in op.target /\ m \in [Cell -> Content] /\ op.target \in SUBSET Cell
  BY <1>2, <1>4, Typing, Order
<1>6. m[to].data # Absent
  BY <1>2, ScriptsAssumption
<1>7. Faithful(e, op, op.target)
  BY <1>5, EntriesAre
<1>8. SavedOK(op, prev[i], m[op.from].data, Involved)
  BY <1>2 DEF Parts, Files
<1>9. Saved(prev[i])
  BY <1>3, <1>8 DEF SavedOK
<1> HIDE DEF e
<1> QED
  BY <1>3, <1>4, <1>5, <1>6, <1>7, <1>9 DEF Faithful

LEMMA WriteTells ==
  ASSUME Typed, Tracking, Parts, Write
  PROVE  Parts'
<1> DEFINE op == ops[i]
           to == op.to
           s  == OnDisk(StateOf(op))
<1>1. /\ UNCHANGED <<ops, m, dry, prev, curr, used, fresh, faulted>>
      /\ pc = "write" /\ Advance(dirty \/ ~TargetUntouched) /\ Running
  BY DEF Write, Running
<1>2. /\ Done' = Done \cup {i} /\ Pending' = Pending \ {i}
      /\ pc' \in {"decide", "end"} /\ dirty' = (dirty \/ ~TargetUntouched)
  BY <1>1, Advancing
<1>3. /\ ~dry /\ Passing /\ i \in Index /\ DOMAIN curr = Index
      /\ Done \subseteq Index /\ Pending \subseteq Index
      /\ \A k \in Pending : i < k /\ k # i
      /\ \A j \in Done : j # i
      /\ \A j \in Index : j \in Done <=> j < i
      /\ m[op.from].data = used[i] /\ used[i] \in Value
      /\ IF op.keeps THEN m[to].data \in Value ELSE m[to].data = used[i]
      /\ \A j \in Index : Made(j) /\ ops[j] = op => j = i
  BY <1>1, RunningIs
<1>4. /\ Index' = Index /\ Involved' = Involved
      /\ \A j, k : Linked(j, k)' <=> Linked(j, k)
      /\ \A k : (Made(k)' <=> Made(k)) /\ (Relayed(k)' <=> Relayed(k)) /\ (Simple(k)' <=> Simple(k))
  BY <1>1, Static
<1>5. Pending' = Pending /\ ~Calm' /\ ~Running' /\ Passing'
  BY <1>1, <1>2, <1>3 DEF Calm, Running, Passing
<1>6. /\ SavedOK(op, s, m[op.from].data, Involved) /\ Saved(s)
      /\ \A k \in Index : OfDisk(k)' = IF ops[k] = op THEN s ELSE OfDisk(k)
      /\ \A c \in op.source : m[c].data # Absent => c \in DOMAIN s.source /\ s.source[c].data = m[c].data
      /\ \A c \in op.target : m[c].data # Absent => c \in DOMAIN s.target /\ s.target[c].data = m[c].data
  BY WriteIs
<1>7. s.source = Nulled(Entries(op, op.source))
  BY StateIs
<1>8. m[op.from].data # Absent /\ m[to].data # Absent
  BY <1>3, ScriptsAssumption
<1> HIDE DEF s
<1>9. \A op1, cells : Entries(op1, cells)' = Entries(op1, cells)
  BY <1>1 DEF Entries, Seen
<1>10. ASSUME NEW j \in Done, Made(j)
       PROVE  /\ OfDisk(j)' = OfDisk(j) /\ Saved(OfDisk(j))
              /\ OfDisk(j).target[ops[j].to].data = m[ops[j].to].data
              /\ m[ops[j].to].data # Absent
  <2>1. ops[j] # op /\ j \in Index
    BY <1>3, <1>10
  <2>2. Saved(OfDisk(j)) /\ OfDisk(j).target[ops[j].to].data = m[ops[j].to].data
    BY <1>3, <1>10 DEF Parts, Behind
  <2>3. ops[j].to \in ops[j].target
    BY <1>10, <2>1, Order
  <2>4. OfDisk(j).target[ops[j].to].data \in Value
    BY <2>1, <2>2, <2>3 DEF Parts, Files, SavedOK
  <2> QED
    BY <1>6, <2>1, <2>2, <2>4, ScriptsAssumption
<1>11. ASSUME NEW j \in Index, NEW k \in Index, Linked(j, k), ops[k] = op
       PROVE  j \in Done
  <2>1. ~(i < j) /\ j # i
    BY <1>3, <1>11, Order DEF Linked
  <2>2. Index \subseteq Nat
    BY Typing
  <2>3. j \in Nat /\ i \in Nat
    BY <1>3, <2>2
  <2> QED
    BY <1>3, <2>1, <2>3
<1>12. ASSUME NEW j \in Index, NEW k \in Index, Linked(j, k), ops[k] = op
       PROVE  Agree(OfDisk(j)', OfDisk(k)', ops[j].to)
  <2>1. j \in Done /\ Made(j) /\ ops[j].to \in op.source
    BY <1>11, <1>12 DEF Linked
  <2>2. /\ OfDisk(j)' = OfDisk(j)
        /\ OfDisk(j).target[ops[j].to].data = m[ops[j].to].data
        /\ m[ops[j].to].data # Absent
    BY <1>10, <2>1
  <2>3. OfDisk(k)' = s
    BY <1>6, <1>12
  <2> QED
    BY <1>6, <2>1, <2>2, <2>3 DEF Agree
<1>13. Files'
  <2>1. ASSUME NEW k \in Index
        PROVE  SavedOK(ops[k], OfDisk(k)', m[ops[k].from].data, Involved)
    BY <1>6 DEF Parts, Files
  <2>2. ASSUME NEW j \in Index, NEW k \in Index, Linked(j, k), ops[k].stamped,
               ops[j].to \in DOMAIN OfDisk(k)'.source, OfDisk(k)'.source[ops[j].to] = m[ops[j].to]
        PROVE  Agree(OfDisk(j)', OfDisk(k)', ops[j].to)
    <3>1. CASE ops[k] = op
      BY <1>12, <2>2, <3>1
    <3>2. CASE ops[k] # op /\ ops[j] # op
      BY <1>6, <2>2, <3>2 DEF Parts, Files
    <3>3. CASE ops[k] # op /\ ops[j] = op
      <4>1. j = i /\ Made(i)
        BY <1>3, <2>2, <3>3 DEF Linked
      <4>2. to \in op.target
        BY <1>3, <4>1, Order
      <4>3. OfDisk(j)' = s /\ OfDisk(k)' = OfDisk(k) /\ s.target[to].data = m[to].data
        BY <1>6, <1>8, <3>3, <4>2
      <4> QED
        BY <2>2, <4>1, <4>3 DEF Agree
    <3> QED
      BY <3>1, <3>2, <3>3
  <2>3. /\ \A k \in DOMAIN prev : SavedOK(ops[k], prev[k], m[ops[k].from].data, Involved)
        /\ \A c \in Cell \ Involved : m[c].data = Absent
    BY DEF Parts, Files
  <2> QED
    BY <1>1, <1>4, <2>1, <2>2, <2>3 DEF Files
<1>14. Between' /\ InMemory'
  BY <1>2, <1>5 DEF Between, InMemory
<1>15. Ahead'
  BY <1>1, <1>3, <1>4, <1>5 DEF Parts, Ahead
<1>16. Clean'
  <2> SUFFICES ASSUME ~dirty, TargetUntouched
               PROVE  Clean'
    BY <1>2 DEF Clean
  <2>1. /\ op.target # {} /\ Saved(prev[i]) /\ to \in DOMAIN prev[i].target
        /\ prev[i].target[to].data = m[to].data
        /\ op.stamped => prev[i].target[to] = m[to]
    BY WriteClean
  <2>2. \A k \in Pending : OfDisk(k)' = prev[k]
    <3>1. \A k \in Pending : ops[k] # op
      BY <1>3, <2>1, Order
    <3> QED
      BY <1>3, <1>6, <3>1 DEF Parts, Clean
  <2>3. ASSUME NEW k \in Pending, NEW c \in ops[k].source
        PROVE  Current(k, c)' \/ Stale(k, c)'
    <3>1. Current(k, c) => Current(k, c)'
      BY <1>1, <1>9 DEF Current
    <3>2. Stale(k, c) => Stale(k, c)'
      BY <1>1, <1>2, <1>4 DEF Stale
    <3>3. Rewritten(k, c) => Stale(k, c)'
      <4> SUFFICES ASSUME Rewritten(k, c)
                   PROVE  Stale(k, c)'
        OBVIOUS
      <4>1. c = to /\ ~op.stamped
        BY <2>1 DEF Rewritten
      <4>2. /\ Made(i) /\ m[c].data = prev[i].target[c].data
            /\ ~faulted /\ Simple(i) =>
                 ~(c \in DOMAIN curr[k].source /\ curr[k].source[c].data = prev[i].target[c].data)
        BY <2>1, <4>1 DEF Rewritten, Made
      <4> QED
        BY <1>1, <1>2, <1>4, <2>1, <4>1, <4>2 DEF Stale
    <3> QED
      BY <1>3, <2>3, <3>1, <3>2, <3>3 DEF Parts, Clean
  <2>4. ASSUME NEW j \in Done', Made(j)
        PROVE  Saved(prev[j]) /\ OfDisk(j)'.target[ops[j].to].data = prev[j].target[ops[j].to].data
    <3>1. CASE j = i
      <4>1. to \in op.target
        BY <1>3, <2>1, Order
      <4> QED
        BY <1>3, <1>6, <1>8, <2>1, <3>1, <4>1
    <3>2. CASE j \in Done
      BY <1>3, <1>10, <2>4, <3>2 DEF Parts, Clean
    <3> QED
      BY <1>2, <3>1, <3>2
  <2> QED
    BY <1>1, <1>4, <1>5, <2>2, <2>3, <2>4 DEF Clean
<1>17. Behind'
  <2>1. ASSUME NEW j \in Done', Made(j)
        PROVE  Saved(OfDisk(j)') /\ OfDisk(j)'.target[ops[j].to].data = m[ops[j].to].data
    <3>1. CASE j = i
      <4>1. to \in op.target
        BY <1>3, <2>1, <3>1, Order
      <4> QED
        BY <1>3, <1>6, <1>8, <3>1, <4>1
    <3>2. CASE j \in Done
      BY <1>10, <2>1, <3>2
    <3> QED
      BY <1>2, <3>1, <3>2
  <2>2. ASSUME ~faulted, NEW k \in Done'
        PROVE  used[k] = m[ops[k].from].data
    BY <1>2, <1>3, <2>2 DEF Parts, Behind, Fits
  <2>3. ASSUME ~faulted, NEW k \in Done'
        PROVE  Tells(ops[k], OfDisk(k)', used[k], m[ops[k].from].data)
    <3>1. k \in Index
      BY <1>2, <1>3
    <3>2. CASE ops[k] = op
      <4>1. used[k] = m[op.from].data /\ OfDisk(k)' = s
        BY <1>6, <2>2, <2>3, <3>1, <3>2
      <4>2. op.desired => op.source = {to} /\ ~op.keeps
        BY <1>3, Order
      <4> QED
        BY <1>3, <1>6, <1>8, <3>2, <4>1, <4>2 DEF Tells
    <3>3. CASE ops[k] # op
      BY <1>2, <1>3, <1>6, <2>3, <3>1, <3>3 DEF Parts, Behind
    <3> QED
      BY <3>2, <3>3
  <2>4. ASSUME ~faulted, NEW j \in Index, NEW k \in Done', Linked(j, k)
        PROVE  Agree(OfDisk(j)', OfDisk(k)', ops[j].to)
    <3>1. k \in Index
      BY <1>2, <1>3
    <3>2. CASE ops[k] = op
      BY <1>12, <2>4, <3>1, <3>2
    <3>3. CASE ops[k] # op
      <4>1. k \in Done
        BY <1>2, <3>3
      <4>2. j \in Done /\ Made(j)
        <5>1. j < k /\ k < i /\ Index \subseteq Nat
          BY <1>3, <2>4, <4>1, Typing DEF Linked
        <5>2. j \in Nat /\ k \in Nat /\ i \in Nat
          BY <1>3, <3>1, <5>1
        <5> QED
          BY <1>3, <2>4, <5>1, <5>2 DEF Linked
      <4>3. OfDisk(j)' = OfDisk(j) /\ OfDisk(k)' = OfDisk(k)
        BY <1>6, <1>10, <3>1, <3>3, <4>2
      <4> QED
        BY <1>3, <2>4, <4>1, <4>3 DEF Parts, Behind
    <3> QED
      BY <3>2, <3>3
  <2>5. ASSUME NEW k \in Done'
        PROVE  Repairs(k)
    <3>1. Repairs(i)
      BY <1>3, <1>8 DEF Repairs
    <3> QED
      BY <1>2, <1>3, <3>1 DEF Parts, Behind
  <2>6. ASSUME NEW k \in Done'
        PROVE  Matches(k)'
    <3>1. k \in Index
      BY <1>2, <1>3
    <3>2. Wanted(k)' = Wanted(k) /\ (Chainless' <=> Chainless)
      BY <1>1, <1>4, <1>9 DEF Wanted, Nulled, Chainless
    <3>3. CASE ops[k] = op
      <4>1. OfDisk(k)' = s
        BY <1>6, <3>1, <3>3
      <4>2. CASE ~op.desired
        BY <1>6, <1>7, <3>2, <3>3, <4>1, <4>2 DEF Matches, Wanted
      <4>3. CASE op.desired
        <5>1. op.source = {to} /\ ~op.stamped /\ ~op.keeps
          BY <1>3, <4>3, Order
        <5>2. s.source[to].data = m[op.from].data /\ DOMAIN s.source = {to}
          BY <1>3, <1>6, <1>8, <5>1 DEF SavedOK
        <5>3. s.source = [c \in {to} |-> s.source[c]] /\ s.source[to].stamp = 0
          BY <1>6, <5>1, <5>2 DEF SavedOK
        <5>4. s.source[to] = [data |-> s.source[to].data, stamp |-> s.source[to].stamp]
          <6>1. op \in Operation /\ m \in [Cell -> Content]
            BY <1>3, Typing
          <6>2. IsState(OnDisk(StateOf(op)))
            BY <6>1, StateTyped, OnDiskTyped
          <6> QED
            BY <5>2, <6>2 DEF IsState, OfType, s
        <5>5. s.source = [c \in {to} |-> [data |-> m[op.from].data, stamp |-> 0]]
          BY <5>2, <5>3, <5>4
        <5> QED
          BY <1>6, <3>2, <3>3, <4>1, <4>3, <5>5 DEF Matches, Wanted
      <4> QED
        BY <4>2, <4>3
    <3>4. CASE ops[k] # op
      BY <1>2, <1>3, <1>6, <3>1, <3>2, <3>4 DEF Parts, Behind, Matches
    <3> QED
      BY <3>3, <3>4
  <2>7. \A k : (Fits(k)' <=> used[k] = m[ops[k].from].data) /\ (Repairs(k)' <=> Repairs(k))
    BY <1>1, <1>4 DEF Fits, Repairs
  <2> QED
    BY <1>1, <1>4, <1>5, <2>1, <2>2, <2>3, <2>4, <2>5, <2>6, <2>7 DEF Behind
<1>18. Ran'
  BY <1>5 DEF Ran
<1>19. Again'
  <2>1. Chainless' <=> Chainless
    BY <1>1, <1>4 DEF Chainless
  <2> QED
    BY <1>1, <1>2, <1>3, <1>4, <1>5, <2>1 DEF Parts, Again
<1> QED
  BY <1>13, <1>14, <1>15, <1>16, <1>17, <1>18, <1>19 DEF Parts

(***************************************************************************)
(* Every step keeps what the cache tells.  After a change made during an   *)
(* apply nothing is promised any more.                                     *)
(***************************************************************************)
LEMMA TellingNext ==
  ASSUME Typed, Telling, [Next]_vars
  PROVE  Telling'
<1>1. ops' = ops
  BY DEF Next, vars, Start, Read, Skip, Run, Record, Write, End, Abort, Change
<1>2. Tracking' <=> Tracking
  BY <1>1, Static
<1>3. SUFFICES ASSUME ~disturbed', Tracking
               PROVE  Parts'
  BY <1>2 DEF Telling
<1>4. ~disturbed
  BY <1>3 DEF Next, vars, history, Start, Read, Skip, Run, Record, Write, End, Abort, Change
<1>5. Parts
  BY <1>3, <1>4 DEF Telling
<1>6. ASSUME NEW d \in BOOLEAN, Start(d)
      PROVE  Parts'
  BY <1>5, <1>6, StartTells
<1>7. CASE Read
  BY <1>3, <1>5, <1>7, ReadTells
<1>8. CASE Skip
  BY <1>3, <1>5, <1>8, SkipTells
<1>9. CASE Run
  BY <1>3, <1>5, <1>9, RunTells
<1>10. CASE Record
  BY <1>3, <1>5, <1>10, RecordTells
<1>11. CASE Write
  BY <1>3, <1>5, <1>11, WriteTells
<1>12. CASE End
  BY <1>5, <1>12, EndTells
<1>13. CASE Abort
  BY <1>5, <1>13, AbortTells
<1>14. ASSUME NEW c \in Cell, NEW v \in Value \cup {Absent}, Change(c, v)
       PROVE  Parts'
  BY <1>3, <1>5, <1>14, ChangeTells
<1>15. CASE UNCHANGED vars
  BY <1>5, <1>15, StutterTells
<1> QED
  BY <1>6, <1>7, <1>8, <1>9, <1>10, <1>11, <1>12, <1>13, <1>14, <1>15 DEF Next

LEMMA TellingHolds == Spec => [](Typed /\ Telling)
<1>1. Init => Typed /\ Telling
  BY TypedInit, TellingInit
<1>2. Typed /\ Telling /\ [Next]_vars => (Typed /\ Telling)'
  BY TypedNext, TellingNext
<1> QED
  BY <1>1, <1>2, PTL DEF Spec

(***************************************************************************)
(* The cache never hides a change of an input: after an undisturbed apply  *)
(* that succeeded, if no apply failed or was disturbed before, every       *)
(* operation last ran on what its input is now.  (executeOperation,        *)
(* getOpChanged)                                                           *)
(***************************************************************************)
THEOREM CacheHidesNothing == Spec => []UpToDate
<1>1. Typed /\ Telling => UpToDate
  <2> SUFFICES ASSUME Typed, Telling, fresh, pc = "idle", ~faulted, ~disturbed, Tracking
               PROVE  \A k \in Index : used[k] = m[ops[k].from].data
    BY DEF UpToDate
  <2>1. Calm /\ Between
    BY DEF Telling, Parts, Calm
  <2> QED
    BY <2>1 DEF Between, Fits
<1> QED
  BY <1>1, TellingHolds, PTL

(***************************************************************************)
(* Whatever others wrote over a destination or removed, the next           *)
(* undisturbed apply that succeeds has repaired it, whatever failed before *)
(* it: always when states hold times or the input is not made by the plan, *)
(* and without a fault otherwise.  (executeOperation, getOpChanged)        *)
(***************************************************************************)
THEOREM RepairsWhatItTracks == Spec => []Repaired
<1>1. Typed /\ Telling => Repaired
  <2> SUFFICES ASSUME Typed, Telling, fresh, pc = "idle", ~disturbed, Tracking
               PROVE  \A k \in Index : Repairs(k)
    BY DEF Repaired, Repairs
  <2>1. Calm /\ Between
    BY DEF Telling, Parts, Calm
  <2> QED
    BY <2>1 DEF Between
<1> QED
  BY <1>1, TellingHolds, PTL

(***************************************************************************)
(* Applying twice is applying once: between an undisturbed apply that      *)
(* succeeded and the next change of the machine nothing runs again.        *)
(* (executeOperation, getOpChanged)                                        *)
(***************************************************************************)
THEOREM AppliesOnce == Spec => []Idempotent
<1>1. Typed /\ Telling => Idempotent
  <2> SUFFICES ASSUME Typed, Telling, Settled,
                      \A k \in Index : ~ops[k].stamped /\ ops[k].target # {} => Simple(k),
                      \A k \in Index : \A c \in ops[k].source : m[c].data # Absent,
                      Running
               PROVE  FALSE
    BY DEF Idempotent, Running
  <2>1. Tracking /\ Parts /\ fresh /\ ~faulted /\ \A k \in Index : ops[k].source # {}
    BY DEF Settled, Telling
  <2>2. Chainless
    BY <2>1 DEF Chainless, Made
  <2>3. Passing /\ i \in Index /\ Done \subseteq Index
    BY <2>1, RunningIs
  <2>4. pc \notin {"decide", "end"}
    BY DEF Running
  <2>5. PICK k \in Done \cup (IF Running THEN {i} ELSE {}) : \E c \in ops[k].source : m[c].data = Absent
    BY <2>1, <2>2, <2>3, <2>4 DEF Parts, Again
  <2> QED
    BY <2>3, <2>5
<1> QED
  BY <1>1, TellingHolds, PTL
=============================================================================
