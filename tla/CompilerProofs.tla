--------------------------- MODULE CompilerProofs ---------------------------
(***************************************************************************)
(* Theorems about Compiler: for every manifest of finitely many scripts,   *)
(* any length of a script, any capacity of the pipe, and any stack that    *)
(* holds more calls than there are plans.                                  *)
(***************************************************************************)
EXTENDS Compiler, FilterProofs, SequenceTheorems

-----------------------------------------------------------------------------
(* Sequences *)

LEMMA AppendIs ==
  ASSUME NEW S, NEW s \in Seq(S), NEW e
  PROVE  /\ e \in S => Append(s, e) \in Seq(S)
         /\ Len(Append(s, e)) = Len(s) + 1 /\ DOMAIN Append(s, e) = 1 .. Len(s) + 1
         /\ \A i \in 1 .. Len(s) : Append(s, e)[i] = s[i]
         /\ Append(s, e)[Len(s) + 1] = e
         /\ ToSet(Append(s, e)) = ToSet(s) \cup {e}
<1>1. /\ Len(Append(s, e)) = Len(s) + 1 /\ DOMAIN Append(s, e) = 1 .. Len(s) + 1
      /\ \A i \in 1 .. Len(s) : Append(s, e)[i] = s[i]
      /\ Append(s, e)[Len(s) + 1] = e /\ DOMAIN s = 1 .. Len(s) /\ Len(s) \in Nat
  OBVIOUS
<1>2. e \in S => Append(s, e) \in Seq(S)
  OBVIOUS
<1> DEFINE a == Append(s, e)
<1> HIDE DEF a
<1>3. {a[i] : i \in 1 .. Len(s) + 1} = {s[i] : i \in 1 .. Len(s)} \cup {e}
  BY <1>1 DEF a
<1>4. ToSet(a) = ToSet(s) \cup {e}
  BY <1>1, <1>3 DEF ToSet, a
<1> QED BY <1>1, <1>2, <1>4 DEF a

LEMMA TailIs ==
  ASSUME NEW S, NEW s \in Seq(S), s # <<>>
  PROVE  /\ Tail(s) \in Seq(S) /\ Head(s) = s[1] /\ Head(s) \in S
         /\ Len(Tail(s)) = Len(s) - 1 /\ Len(s) \in Nat \ {0} /\ Len(Tail(s)) \in Nat
         /\ \A i \in 1 .. Len(s) - 1 : Tail(s)[i] = s[i + 1]
         /\ ToSet(s) = {Head(s)} \cup ToSet(Tail(s))
<1>1. /\ Tail(s) \in Seq(S) /\ Head(s) = s[1] /\ Head(s) \in S
      /\ Len(Tail(s)) = Len(s) - 1 /\ Len(s) \in Nat \ {0} /\ Len(Tail(s)) \in Nat
      /\ \A i \in 1 .. Len(s) - 1 : Tail(s)[i] = s[i + 1]
      /\ DOMAIN s = 1 .. Len(s) /\ DOMAIN Tail(s) = 1 .. Len(s) - 1
  OBVIOUS
<1> DEFINE t == Tail(s)
<1> HIDE DEF t
<1>2. {s[i] : i \in 1 .. Len(s)} = {s[1]} \cup {t[i] : i \in 1 .. Len(s) - 1}
  <2>1. ASSUME NEW i \in 1 .. Len(s) PROVE i = 1 \/ (i - 1 \in 1 .. Len(s) - 1 /\ s[i] = t[i - 1])
    BY <1>1 DEF t
  <2>2. ASSUME NEW i \in 1 .. Len(s) - 1 PROVE i + 1 \in 1 .. Len(s) /\ t[i] = s[i + 1]
    BY <1>1 DEF t
  <2>3. 1 \in 1 .. Len(s)
    BY <1>1
  <2> QED BY <2>1, <2>2, <2>3
<1>3. ToSet(s) = {Head(s)} \cup ToSet(t)
  BY <1>1, <1>2 DEF ToSet, t
<1> QED BY <1>1, <1>3 DEF t

LEMMA ConcatIs ==
  ASSUME NEW S, NEW s \in Seq(S), NEW t \in Seq(S)
  PROVE  /\ s \o t \in Seq(S) /\ ToSet(s \o t) = ToSet(s) \cup ToSet(t)
         /\ Len(s \o t) = Len(s) + Len(t)
         /\ \A i \in 1 .. Len(s) : (s \o t)[i] = s[i]
         /\ \A i \in 1 .. Len(t) : (s \o t)[Len(s) + i] = t[i]
<1> DEFINE u == s \o t
           m == Len(s)
           n == Len(t)
<1>1. /\ Len(u) = m + n /\ DOMAIN u = 1 .. m + n /\ m \in Nat /\ n \in Nat
      /\ \A i \in 1 .. m + n : u[i] = IF i <= m THEN s[i] ELSE t[i - m]
      /\ DOMAIN s = 1 .. m /\ DOMAIN t = 1 .. n
      /\ u \in Seq(S)
  OBVIOUS
<1>2. Len(s) = m /\ Len(t) = n
  OBVIOUS
<1> HIDE DEF u, m, n
<1>3. \A i \in 1 .. m : i \in 1 .. m + n /\ u[i] = s[i]
  BY <1>1
<1>4. \A i \in 1 .. n : m + i \in 1 .. m + n /\ m + i > m /\ (m + i) - m = i
  BY <1>1
<1>5. \A i \in 1 .. n : u[m + i] = t[i]
  BY <1>1, <1>4
<1>6. \A i \in 1 .. m + n : (i <= m /\ i \in 1 .. m) \/ (i - m \in 1 .. n /\ m + (i - m) = i)
  BY <1>1
<1>7. {u[i] : i \in 1 .. m + n} = {s[j] : j \in 1 .. m} \cup {t[j] : j \in 1 .. n}
  <2>1. ASSUME NEW i \in 1 .. m + n PROVE u[i] \in {s[j] : j \in 1 .. m} \cup {t[j] : j \in 1 .. n}
    <3>1. CASE i \in 1 .. m
      BY <1>3, <3>1
    <3>2. CASE i - m \in 1 .. n /\ m + (i - m) = i
      BY <1>5, <3>2
    <3> QED BY <1>6, <3>1, <3>2
  <2>2. ASSUME NEW j \in 1 .. n PROVE t[j] \in {u[i] : i \in 1 .. m + n}
    BY <1>4, <1>5
  <2>3. ASSUME NEW j \in 1 .. m PROVE s[j] \in {u[i] : i \in 1 .. m + n}
    BY <1>3
  <2> QED BY <2>1, <2>2, <2>3
<1>8. ToSet(u) = ToSet(s) \cup ToSet(t)
  BY <1>1, <1>7 DEF ToSet
<1> QED BY <1>1, <1>2, <1>3, <1>5, <1>8 DEF u

LEMMA FrontIs ==
  ASSUME NEW S, NEW s \in Seq(S), s # <<>>
  PROVE  /\ Front(s) \in Seq(S) /\ Len(Front(s)) = Len(s) - 1 /\ Len(s) \in Nat \ {0}
         /\ \A i \in 1 .. Len(s) - 1 : Front(s)[i] = s[i]
         /\ Last(s) = s[Len(s)] /\ Last(s) \in S
<1> DEFINE n == Len(s)
<1>1. n \in Nat \ {0} /\ \A i \in 1 .. n : s[i] \in S
  OBVIOUS
<1> HIDE DEF n
<1>2. n - 1 \in Int /\ n \in 1 .. n /\ \A i \in 1 .. n - 1 : s[i] \in S
  BY <1>1
<1>3. /\ SubSeq(s, 1, n - 1) \in Seq(S) /\ Len(SubSeq(s, 1, n - 1)) = n - 1
      /\ \A i \in 1 .. n - 1 : SubSeq(s, 1, n - 1)[i] = s[i]
  <2>1. /\ SubSeq(s, 1, n - 1) \in Seq(S)
        /\ Len(SubSeq(s, 1, n - 1)) = IF 1 <= n - 1 THEN n - 1 - 1 + 1 ELSE 0
        /\ \A i \in 1 .. n - 1 - 1 + 1 : SubSeq(s, 1, n - 1)[i] = s[1 + i - 1]
    BY <1>2, SubSeqProperties
  <2> QED BY <1>1, <2>1
<1> QED BY <1>1, <1>2, <1>3 DEF Front, Last, n

-----------------------------------------------------------------------------
(***************************************************************************)
(* Running the scripts.  What the pipe holds is what the script got to:    *)
(* two writes for each command that declared, so a script that ends has    *)
(* declared no more than fits, and what it declared is what is compiled.   *)
(***************************************************************************)
Word   == Command \cup {Sep}
Phases == {"run", "copy", "read", "list", "sort"} \cup Ends

CompileTyped ==
  /\ script \in Scripts
  /\ phase \in Phases
  /\ cur \in Name /\ left \subseteq Name \ {cur}
  /\ calls \in Seq(Command) /\ half \in BOOLEAN /\ failed \in BOOLEAN
  /\ pipe \in Seq(Word) /\ Len(pipe) <= Cap
  /\ open \in BOOLEAN /\ buf \in Seq(Word)
  /\ DOMAIN compiled \subseteq Name
  /\ \A n \in DOMAIN compiled : compiled[n] \in Seq(Word)

Speaks(c) == c.kind # "broken"

(* What a script declares. *)
Wanted(n) == {c \in ToSet(script[n]) : Speaks(c)}

At       == Len(script[cur]) - Len(calls)
Declares == {j \in 1 .. At : Speaks(script[cur][j])}

Running ==
  /\ At \in 0 .. Len(script[cur])
  /\ \A j \in 1 .. Len(calls) : calls[j] = script[cur][At + j]
  /\ buf = <<>>
  /\ ToSet(pipe) \cap Command
       = {script[cur][j] : j \in Declares} \cup (IF half THEN {Head(calls)} ELSE {})
  /\ Len(pipe) = 2 * Cardinality(Declares) + (IF half THEN 1 ELSE 0)
  /\ half => calls # <<>> /\ Speaks(Head(calls))
  /\ ~half => (failed <=> At > 0 /\ ~Speaks(script[cur][At]))

Ran(n) == 2 * Declared(script[n]) <= Cap /\ Exits(n)

Held == ToSet(buf) \cup ToSet(pipe)

Good(n) == ToSet(compiled[n]) \cap Command = Wanted(n) /\ Ran(n)

Compiles ==
  /\ phase = "run"  => Running
  /\ phase = "copy" => Held \cap Command = Wanted(cur) /\ Ran(cur)
  /\ \A n \in DOMAIN compiled : Good(n)
  /\ phase \in {"run", "copy"} => DOMAIN compiled = Name \ (left \cup {cur})
  /\ phase \notin {"run", "copy", "failed"} => DOMAIN compiled = Name
  /\ phase \notin {"run", "copy", "read", "failed"} => Shell

LEMMA ScriptIs ==
  ASSUME script \in Scripts, NEW n \in Name
  PROVE  script[n] \in Seq(Command) /\ Len(script[n]) \in Nat
         /\ \A j \in 1 .. Len(script[n]) : script[n][j] \in Command
BY CompilerAssumption

LEMMA DeclaresIs ==
  ASSUME CompileTyped, Running
  PROVE  IsFiniteSet(Declares) /\ Cardinality(Declares) \in Nat /\ At + 1 \notin Declares
<1>1. IsFiniteSet(1 .. At)
  BY FS_Interval DEF Running
<1>2. IsFiniteSet(Declares)
  BY <1>1, FS_Subset DEF Declares
<1>3. At + 1 \notin Declares
  BY DEF Declares, Running
<1> QED BY <1>2, <1>3, FS_CardinalityType

(* A script starts. *)
LEMMA StartsRunning ==
  ASSUME script' \in Scripts, cur' \in Name, calls' = script'[cur'], half' = FALSE, failed' = FALSE,
         buf' = <<>>, pipe' = <<>>
  PROVE  Running'
<1>1. script'[cur'] \in Seq(Command) /\ Len(script'[cur']) \in Nat
  BY CompilerAssumption
<1>2. At' = 0
  BY <1>1 DEF At
<1>3. Declares' = {}
  BY <1>2 DEF Declares
<1>4. Cardinality(Declares)' = 0
  BY <1>3, FS_EmptySet
<1>5. \A j \in 1 .. Len(calls') : calls'[j] = script'[cur'][At' + j]
  BY <1>1, <1>2
<1>6. ToSet(pipe') = {}
  BY DEF ToSet
<1>7. Len(pipe') = 0
  OBVIOUS
<1> QED BY <1>1, <1>2, <1>3, <1>4, <1>5, <1>6, <1>7 DEF Running

LEMMA BrokenCompiles ==
  ASSUME CompileTyped, Compiles, Broken
  PROVE  CompileTyped' /\ Compiles'
<1>1. /\ phase = "run" /\ calls # <<>> /\ ~Speaks(Head(calls)) /\ calls' = Tail(calls) /\ failed' = TRUE
      /\ UNCHANGED <<script, phase, left, cur, half, pipe, open, buf, compiled>>
  BY DEF Broken, Speaks
<1>2. /\ calls' \in Seq(Command) /\ Len(calls') = Len(calls) - 1 /\ Len(calls) \in Nat \ {0}
      /\ Head(calls) = calls[1] /\ \A i \in 1 .. Len(calls) - 1 : calls'[i] = calls[i + 1]
  BY <1>1, TailIs DEF CompileTyped
<1>3. /\ Running /\ Len(script[cur]) \in Nat /\ script' = script /\ cur' = cur
  BY <1>1, ScriptIs DEF Compiles, CompileTyped
<1>4. At' = At + 1 /\ At' \in 0 .. Len(script[cur]) /\ script[cur][At + 1] = Head(calls) /\ At \in Nat
  <2>1. At' = At + 1
    BY <1>1, <1>2, <1>3 DEF At
  <2>2. 1 \in 1 .. Len(calls) /\ At \in Nat /\ At + 1 <= Len(script[cur])
    BY <1>2, <1>3 DEF At, Running
  <2> QED BY <1>2, <1>3, <2>1, <2>2 DEF Running
<1>5. \A j \in 1 .. Len(calls') : calls'[j] = script'[cur'][At' + j]
  <2> SUFFICES ASSUME NEW j \in 1 .. Len(calls') PROVE calls'[j] = script[cur][At' + j]
    BY <1>1
  <2>1. j + 1 \in 1 .. Len(calls) /\ j \in 1 .. Len(calls) - 1 /\ At' + j = At + (j + 1)
    BY <1>2, <1>4
  <2> QED BY <1>2, <1>3, <2>1 DEF Running
<1>6. Declares' = Declares
  <2>1. 1 .. At' = (1 .. At) \cup {At + 1}
    BY <1>4
  <2> QED BY <1>1, <1>4, <2>1 DEF Declares
<1>7. ~half
  BY <1>1, <1>3 DEF Running
<1>8. Running'
  BY <1>1, <1>3, <1>4, <1>5, <1>6, <1>7 DEF Running
<1>9. CompileTyped'
  BY <1>1, <1>2 DEF CompileTyped
<1> QED BY <1>1, <1>8, <1>9 DEF Compiles, Good, Ran, Wanted, Exits

LEMMA DeclareCompiles ==
  ASSUME CompileTyped, Compiles, Declare
  PROVE  CompileTyped' /\ Compiles'
<1> DEFINE w == IF half THEN Sep ELSE Head(calls)
<1>1. /\ phase = "run" /\ calls # <<>> /\ Speaks(Head(calls)) /\ Len(pipe) < Cap /\ pipe' = Append(pipe, w)
      /\ half' = ~half /\ calls' = (IF half THEN Tail(calls) ELSE calls) /\ failed' = FALSE
      /\ UNCHANGED <<script, phase, left, cur, open, buf, compiled>>
  BY DEF Declare, Speaks
<1>2. /\ Tail(calls) \in Seq(Command) /\ Len(Tail(calls)) = Len(calls) - 1 /\ Len(calls) \in Nat \ {0}
      /\ Head(calls) = calls[1] /\ Head(calls) \in Command
      /\ \A i \in 1 .. Len(calls) - 1 : Tail(calls)[i] = calls[i + 1]
  BY <1>1, TailIs DEF CompileTyped
<1>3. Running /\ script[cur] \in Seq(Command) /\ Len(script[cur]) \in Nat /\ calls \in Seq(Command)
      /\ half \in BOOLEAN
  BY <1>1, ScriptIs DEF Compiles, CompileTyped
<1>4. pipe' \in Seq(Word) /\ Len(pipe') = Len(pipe) + 1 /\ ToSet(pipe') = ToSet(pipe) \cup {w}
      /\ Len(pipe) \in Nat
  <2>1. w \in Word
    BY <1>2 DEF Word
  <2> HIDE DEF w
  <2> QED BY <1>1, <2>1, AppendIs DEF CompileTyped
<1>5. CompileTyped'
  <2>1. calls' \in Seq(Command)
    BY <1>1, <1>2, <1>3
  <2>2. Len(pipe') <= Cap
    BY <1>1, <1>4, CompilerAssumption
  <2> QED BY <1>1, <1>4, <2>1, <2>2 DEF CompileTyped
<1>6. script[cur][At + 1] = Head(calls) /\ At \in Nat /\ At + 1 <= Len(script[cur])
  <2>1. 1 \in 1 .. Len(calls) /\ At \in Nat /\ At + 1 <= Len(script[cur])
    BY <1>2, <1>3 DEF At, Running
  <2> QED BY <1>2, <1>3, <2>1 DEF Running
<1>7. CASE ~half
  <2>1. At' = At /\ Declares' = Declares /\ calls' = calls
    BY <1>1, <1>7 DEF At, Declares
  <2>2. ToSet(pipe') \cap Command = {script[cur][j] : j \in Declares} \cup {Head(calls)}
    BY <1>2, <1>3, <1>4, <1>7 DEF Running
  <2>3. Len(pipe') = 2 * Cardinality(Declares) + 1
    BY <1>3, <1>4, <1>7, DeclaresIs DEF Running
  <2>4. Running'
    BY <1>1, <1>3, <1>7, <2>1, <2>2, <2>3 DEF Running
  <2> QED BY <1>1, <1>5, <2>4 DEF Compiles, Good, Ran, Wanted, Exits
<1>8. CASE half
  <2>1. At' = At + 1 /\ calls' = Tail(calls)
    BY <1>1, <1>2, <1>3, <1>8 DEF At
  <2>2. Declares' = Declares \cup {At + 1}
    <3>1. 1 .. At' = (1 .. At) \cup {At + 1}
      BY <1>6, <2>1
    <3> QED BY <1>1, <1>6, <3>1 DEF Declares
  <2>3. Cardinality(Declares') = Cardinality(Declares) + 1 /\ Cardinality(Declares) \in Nat
    BY <1>3, <2>2, DeclaresIs, FS_AddElement
  <2>4. ToSet(pipe') \cap Command = {script[cur][j] : j \in Declares'}
    <3>1. ToSet(pipe') \cap Command = {script[cur][j] : j \in Declares} \cup {Head(calls)}
      BY <1>3, <1>4, <1>8, CompilerAssumption DEF Running
    <3> QED BY <1>6, <2>2, <3>1
  <2>5. Len(pipe') = 2 * Cardinality(Declares')
    BY <1>3, <1>4, <1>8, <2>3 DEF Running
  <2>6. \A j \in 1 .. Len(calls') : calls'[j] = script'[cur'][At' + j]
    <3> SUFFICES ASSUME NEW j \in 1 .. Len(calls') PROVE calls'[j] = script[cur][At' + j]
      BY <1>1
    <3>1. j + 1 \in 1 .. Len(calls) /\ j \in 1 .. Len(calls) - 1 /\ At' + j = At + (j + 1)
      BY <1>2, <1>6, <2>1
    <3> QED BY <1>2, <1>3, <2>1, <3>1 DEF Running
  <2>7. At' \in 0 .. Len(script[cur])
    BY <1>3, <1>6, <2>1
  <2>8. failed' <=> At' > 0 /\ ~Speaks(script[cur][At'])
    <3>1. At' = At + 1 /\ script[cur][At + 1] = Head(calls)
      BY <1>6, <2>1
    <3>2. At' > 0 /\ Speaks(script[cur][At'])
      BY <1>1, <1>6, <3>1
    <3> QED BY <1>1, <3>2
  <2>9. ~half' /\ buf' = <<>> /\ script' = script /\ cur' = cur
    BY <1>1, <1>3, <1>8 DEF Running
  <2>10. Running'
    BY <2>4, <2>5, <2>6, <2>7, <2>8, <2>9 DEF Running
  <2> QED BY <1>1, <1>5, <2>10 DEF Compiles, Good, Ran, Wanted, Exits
<1> QED BY <1>3, <1>7, <1>8

LEMMA ReturnsCompiles ==
  ASSUME CompileTyped, Compiles, Returns
  PROVE  CompileTyped' /\ Compiles' /\ (phase' = "failed" => \E n \in Name : ~Exits(n))
<1>1. /\ phase = "run" /\ calls = <<>>
      /\ UNCHANGED <<script, left, cur, calls, half, failed, pipe, buf, compiled>>
      /\ phase' = (IF failed THEN "failed" ELSE "copy") /\ open' \in BOOLEAN
  BY DEF Returns, child, CompileTyped
<1>2. CompileTyped'
  BY <1>1 DEF CompileTyped, Phases, Ends
<1>3. Running /\ script[cur] \in Seq(Command) /\ Len(script[cur]) \in Nat /\ cur \in Name
  BY <1>1, ScriptIs DEF Compiles, CompileTyped
<1>4. ~half /\ At = Len(script[cur])
  BY <1>1, <1>3 DEF Running, At
<1>5. failed <=> ~Exits(cur)
  <2>1. script[cur] = <<>> <=> Len(script[cur]) = 0
    BY <1>3
  <2> QED BY <1>3, <1>4, <2>1 DEF Running, Exits, Last, Speaks
<1>6. Declares = {j \in DOMAIN script[cur] : Speaks(script[cur][j])}
  BY <1>3, <1>4 DEF Declares
<1>7. 2 * Declared(script[cur]) <= Cap
  <2>1. Cardinality(Declares) = Declared(script[cur])
    BY <1>6 DEF Declared, Speaks
  <2>2. Len(pipe) = 2 * Cardinality(Declares) /\ Cardinality(Declares) \in Nat
    BY <1>3, <1>4, DeclaresIs DEF Running
  <2> QED BY <2>1, <2>2 DEF CompileTyped
<1>8. Held \cap Command = Wanted(cur)
  <2>1. ToSet(pipe) \cap Command = {script[cur][j] : j \in Declares}
    BY <1>3, <1>4 DEF Running
  <2>2. ToSet(buf) = {}
    BY <1>3 DEF Running, ToSet
  <2> QED BY <1>6, <2>1, <2>2 DEF Held, Wanted, ToSet
<1>9. Held' = Held
  BY <1>1 DEF Held
<1> QED BY <1>1, <1>2, <1>3, <1>5, <1>7, <1>8, <1>9 DEF Compiles, Good, Ran, Wanted, Exits
LEMMA CopyCompiles ==
  ASSUME CompileTyped, Compiles, Copy
  PROVE  CompileTyped' /\ Compiles'
<1>1. /\ phase = "copy" /\ pipe # <<>> /\ buf' = Append(buf, Head(pipe)) /\ pipe' = Tail(pipe)
      /\ UNCHANGED <<script, phase, left, cur, calls, half, failed, open, compiled>>
  BY DEF Copy, child
<1>2. /\ pipe' \in Seq(Word) /\ Len(pipe') = Len(pipe) - 1 /\ Len(pipe) \in Nat /\ Len(pipe) <= Cap
      /\ ToSet(pipe) = {Head(pipe)} \cup ToSet(pipe') /\ Head(pipe) \in Word
  BY <1>1, TailIs DEF CompileTyped
<1>3. buf' \in Seq(Word) /\ ToSet(buf') = ToSet(buf) \cup {Head(pipe)}
  BY <1>1, <1>2, AppendIs DEF CompileTyped
<1>4. Held' = Held
  BY <1>2, <1>3 DEF Held
<1>5. Len(pipe') <= Cap
  BY <1>2, CompilerAssumption
<1> QED BY <1>1, <1>2, <1>3, <1>4, <1>5 DEF CompileTyped, Compiles, Good, Ran, Wanted, Exits

LEMMA CopiedCompiles ==
  ASSUME CompileTyped, Compiles, Copied
  PROVE  CompileTyped' /\ Compiles'
<1> DEFINE new == [n \in DOMAIN compiled \cup {cur} |-> IF n = cur THEN buf ELSE compiled[n]]
<1>1. phase = "copy" /\ pipe = <<>> /\ compiled' = new /\ script' = script /\ pipe' = pipe
  BY DEF Copied
<1>2. DOMAIN compiled' = Name \ left /\ DOMAIN compiled = Name \ (left \cup {cur})
  BY <1>1 DEF CompileTyped, Compiles
<1>3. \A n \in DOMAIN compiled' : compiled'[n] = IF n = cur THEN buf ELSE compiled[n]
  BY <1>1
<1> HIDE DEF new
<1>4. \A n \in DOMAIN compiled' : compiled'[n] \in Seq(Word)
  BY <1>1, <1>2, <1>3 DEF CompileTyped
<1>5. ToSet(buf) \cap Command = Wanted(cur) /\ Ran(cur)
  <2>1. ToSet(pipe) = {}
    BY <1>1 DEF ToSet
  <2> QED BY <1>1, <2>1 DEF Compiles, Held
<1>6. \A n \in DOMAIN compiled' : Good(n)'
  <2> SUFFICES ASSUME NEW n \in DOMAIN compiled' PROVE Good(n)'
    OBVIOUS
  <2>1. ToSet(compiled'[n]) \cap Command = Wanted(n) /\ Ran(n)
    BY <1>1, <1>2, <1>3, <1>5 DEF Compiles, Good
  <2> QED BY <1>1, <2>1 DEF Good, Wanted, Ran, Exits
<1>7. CASE left = {} /\ phase' = "read" /\ UNCHANGED <<left, cur, child, open, buf>>
  BY <1>1, <1>2, <1>4, <1>6, <1>7 DEF CompileTyped, Compiles, Phases, child
<1>8. ASSUME NEW n \in left, phase' = "run", cur' = n, left' = left \ {n},
             calls' = script[n], half' = FALSE, failed' = FALSE, open' = TRUE, buf' = <<>>
      PROVE  CompileTyped' /\ Compiles'
  <2>1. n \in Name /\ script[n] \in Seq(Command)
    BY ScriptIs DEF CompileTyped
  <2>2. CompileTyped'
    BY <1>1, <1>2, <1>4, <1>8, <2>1 DEF CompileTyped, Phases
  <2>3. Running'
    BY <1>1, <1>8, <2>1, <2>2, StartsRunning DEF CompileTyped
  <2> QED BY <1>2, <1>6, <1>8, <2>1, <2>2, <2>3 DEF Compiles
<1> QED BY <1>7, <1>8 DEF Copied

-----------------------------------------------------------------------------
(* What is compiled says what the scripts say. *)

ScriptOf(p) == IF p = Top THEN Root ELSE p

AllCompiled == script \in Scripts /\ DOMAIN compiled = Name
               /\ \A n \in Name : compiled[n] \in Seq(Word) /\ Good(n)

LEMMA OperationsIs ==
  ASSUME AllCompiled, NEW n \in Name
  PROVE  Operations(n) \in Seq(Command) /\ ToSet(Operations(n)) = Wanted(n)
<1>1. compiled[n] \in Seq(Word) /\ ToSet(compiled[n]) \cap Command = Wanted(n)
  BY DEF AllCompiled, Good
<1>2. /\ Operations(n) \in Seq(Word \cap Command)
      /\ ToSet(Operations(n)) = ToSet(compiled[n]) \cap Command
  BY <1>1, FilterProperties DEF Operations
<1>3. Word \cap Command = Command
  BY DEF Word
<1> QED BY <1>1, <1>2, <1>3

LEMMA RefsOfIs ==
  ASSUME AllCompiled, NEW p \in Object, NEW kind \in {"plan", "dependency"}
  PROVE  RefsOf(p, kind) \in Seq(Target) /\ ToSet(RefsOf(p, kind)) = Says(ScriptOf(p), {kind})
<1> DEFINE n == ScriptOf(p)
           K == [kind : {kind}, arg : Target]
           refs == Filter(Operations(n), K)
<1>1. n \in Name
  BY CompilerAssumption DEF ScriptOf, Object
<1>2. Operations(n) \in Seq(Command) /\ ToSet(Operations(n)) = Wanted(n)
  BY <1>1, OperationsIs
<1> HIDE DEF K
<1>3. refs \in Seq(Command \cap K) /\ ToSet(refs) = Wanted(n) \cap K
  BY <1>2, FilterProperties
<1>4. RefsOf(p, kind) = [i \in DOMAIN refs |-> refs[i].arg]
  BY DEF RefsOf, ScriptOf, K
<1> HIDE DEF refs
<1>5. \A c \in K : c.kind = kind /\ c.arg \in Target
  BY DEF K
<1>6. DOMAIN refs = 1 .. Len(refs) /\ Len(refs) \in Nat /\ \A i \in 1 .. Len(refs) : refs[i] \in K
  BY <1>3
<1>7. RefsOf(p, kind) \in Seq(Target)
  <2>1. RefsOf(p, kind) \in [1 .. Len(refs) -> Target]
    BY <1>4, <1>5, <1>6
  <2> QED BY <1>6, <2>1
<1>8. ToSet(RefsOf(p, kind)) = {c.arg : c \in ToSet(refs)}
  BY <1>4 DEF ToSet
<1>9. Wanted(n) \cap K = {c \in ToSet(script[n]) : c.kind \in {kind}}
  <2>1. \A c \in ToSet(script[n]) : c \in Command
    BY <1>1, ScriptIs DEF ToSet, AllCompiled
  <2>2. \A c \in Command : c.kind = kind => c \in K /\ Speaks(c)
    BY DEF Command, K, Speaks
  <2> QED BY <1>5, <2>1, <2>2 DEF Wanted
<1> QED BY <1>3, <1>7, <1>8, <1>9 DEF Says

SaysIn(s, p, kinds) == {c.arg : c \in {c \in ToSet(s[ScriptOf(p)]) : c.kind \in kinds}}

(* The plans and dependencies that p refers to. *)
RefSet(p) == SaysIn(script, p, {"plan", "dependency"})
DepSet(p) == SaysIn(script, p, {"dependency"})

LEMMA SaysIs ==
  /\ \A p : RefSet(p) = Says(ScriptOf(p), {"plan", "dependency"})
  /\ \A p : DepSet(p) = Says(ScriptOf(p), {"dependency"})
BY DEF RefSet, DepSet, SaysIn, Says

LEMMA FrameIs ==
  ASSUME AllCompiled, NEW p \in Object
  PROVE  /\ Frame(p) \in [plan : Object, rest : Seq(Target)]
         /\ Frame(p).plan = p /\ ToSet(Frame(p).rest) = RefSet(p)
         /\ Dependencies(p) \in Seq(Target) /\ ToSet(Dependencies(p)) = DepSet(p)
         /\ DepSet(p) \subseteq RefSet(p) /\ RefSet(p) \subseteq Target
<1>1. /\ Dependencies(p) \in Seq(Target) /\ ToSet(Dependencies(p)) = DepSet(p)
      /\ Plans(p) \in Seq(Target) /\ ToSet(Plans(p)) = Says(ScriptOf(p), {"plan"})
  BY RefsOfIs, SaysIs DEF Dependencies, Plans
<1>2. RefSet(p) = DepSet(p) \cup Says(ScriptOf(p), {"plan"})
  BY SaysIs DEF Says
<1>3. Dependencies(p) \o Plans(p) \in Seq(Target) /\ ToSet(Dependencies(p) \o Plans(p)) = RefSet(p)
  BY <1>1, <1>2, ConcatIs
<1>4. RefSet(p) \subseteq Target
  BY <1>3 DEF ToSet
<1> QED BY <1>1, <1>2, <1>3, <1>4 DEF Frame

LEMMA ReadCompiles ==
  ASSUME CompileTyped, Compiles, Read
  PROVE  CompileTyped' /\ Compiles' /\ (phase' = "failed" => ~Shell)
<1>1. phase = "read" /\ UNCHANGED <<script, left, cur, child, pipe, open, buf, compiled>>
      /\ phase' = IF \E n \in Name : \E w \in ToSet(Operations(n)) : w.kind = "quoted" THEN "failed" ELSE "list"
  BY DEF Read
<1>2. AllCompiled
  BY <1>1 DEF CompileTyped, Compiles, AllCompiled, Phases, Ends
<1>3. \A n \in Name : (\E w \in ToSet(Operations(n)) : w.kind = "quoted") <=> "quoted" \in {c.kind : c \in ToSet(script[n])}
  <2> SUFFICES ASSUME NEW n \in Name
               PROVE  (\E w \in Wanted(n) : w.kind = "quoted") <=> \E c \in ToSet(script[n]) : c.kind = "quoted"
    BY <1>2, OperationsIs
  <2> QED BY DEF Wanted, Speaks
<1>4. phase' = IF Shell THEN "list" ELSE "failed"
  BY <1>1, <1>3 DEF Shell
<1>5. CompileTyped'
  BY <1>1, <1>4 DEF CompileTyped, child, Phases, Ends
<1> QED BY <1>1, <1>2, <1>4, <1>5 DEF AllCompiled, Compiles, Good, Wanted, Ran, Exits, Shell

LEMMA LaterCompiles ==
  ASSUME CompileTyped, Compiles, Follow \/ Visited \/ Listed \/ Round \/ Sorted
  PROVE  CompileTyped' /\ Compiles' /\ AllCompiled /\ Shell /\ ~(phase \in Ends)
<1>1. /\ phase \in {"list", "sort"} /\ phase' \in {"list", "sort"} \cup Ends
      /\ UNCHANGED <<script, left, cur, child, pipe, open, buf, compiled>>
  BY DEF Follow, Visited, Listed, Round, Rounds, Sorted, Ends
<1>2. CompileTyped'
  BY <1>1 DEF CompileTyped, child, Phases
<1> QED BY <1>1, <1>2 DEF CompileTyped, Compiles, AllCompiled, Good, Wanted, Ran, Exits, Shell, Ends

LEMMA InitCompiles ==
  ASSUME Init
  PROVE  CompileTyped /\ Compiles
<1>1. /\ script \in Scripts /\ phase = "run" /\ left = Name \ {Root} /\ cur = Root
      /\ calls = script[Root] /\ half = FALSE /\ failed = FALSE
      /\ pipe = <<>> /\ open = TRUE /\ buf = <<>> /\ DOMAIN compiled = {}
  BY DEF Init
<1>2. Root \in Name /\ script[Root] \in Seq(Command)
  BY <1>1, CompilerAssumption
<1>3. CompileTyped
  <2>1. pipe \in Seq(Word) /\ Len(pipe) <= Cap /\ buf \in Seq(Word)
    BY <1>1, CompilerAssumption
  <2> QED BY <1>1, <1>2, <2>1 DEF CompileTyped, Phases
<1>4. At = 0 /\ Declares = {} /\ ToSet(pipe) = {} /\ Len(pipe) = 0
  <2>1. At = 0
    BY <1>1, <1>2 DEF At
  <2> QED BY <1>1, <2>1 DEF Declares, ToSet
<1>5. Cardinality(Declares) = 0
  BY <1>4, FS_EmptySet
<1>6. \A j \in 1 .. Len(calls) : calls[j] = script[cur][At + j]
  BY <1>1, <1>2, <1>4
<1>7. Running
  BY <1>1, <1>2, <1>4, <1>5, <1>6 DEF Running
<1> QED BY <1>1, <1>3, <1>7 DEF Compiles

-----------------------------------------------------------------------------
(***************************************************************************)
(* Listing the plans.  The calls under way are a path of references from   *)
(* the main plan; a plan that is listed comes after all it refers to; and  *)
(* what a call has gone through is listed.                                 *)
(***************************************************************************)
Call == [plan : Object, rest : Seq(Target)]

(* Call i of the stack st, when the scripts are s, the plans of done are   *)
(* listed and the main plan reaches those of reach.                        *)
CallOK(i, st, s, done, reach) ==
  LET refs(j) == SaysIn(s, st[j].plan, {"plan", "dependency"})
  IN  /\ IF i = 1 THEN st[i].plan = Top ELSE st[i].plan \in refs(i - 1) \cap Name
      /\ st[i].plan \in reach \cup {Top}
      /\ ToSet(st[i].rest) \subseteq refs(i)
      /\ \A q \in refs(i) \ ToSet(st[i].rest) : q \in done \/ (i < Len(st) /\ st[i + 1].plan = q)

StackOK == \A i \in 1 .. Len(stack) : CallOK(i, stack, script, seen, Reach(Root))

ListOK ==
  /\ seen = Names(ToSet(all))
  /\ \A i, j \in 1 .. Len(all) : NameOf(all[i]) = NameOf(all[j]) => i = j
  /\ ToSet(all) \subseteq Reach(Root) \cup {Top}
  /\ \A i \in 1 .. Len(all) : \A q \in RefSet(all[i]) : \E j \in 1 .. i - 1 : all[j] = q
  /\ stack # <<>> => Top \notin ToSet(all)
  /\ stack = <<>> => RefSet(Top) \subseteq ToSet(all) /\ Main \in seen

ListTyped ==
  /\ stack \in Seq(Call) /\ Len(stack) <= MaxDepth
  /\ seen \subseteq Name \cup {Main} /\ all \in Seq(Object)

Lists ==
  /\ ListTyped
  /\ phase \in {"run", "copy", "read"} => stack = <<>> /\ seen = {} /\ all = <<>>
  /\ phase \in {"list", "sort", "ok"} => StackOK /\ ListOK
  /\ phase \in {"sort", "ok"} => stack = <<>>

LEMMA StackIs ==
  ASSUME StackOK, NEW i \in 1 .. Len(stack)
  PROVE  /\ IF i = 1 THEN stack[i].plan = Top ELSE stack[i].plan \in RefSet(stack[i - 1].plan) \cap Name
         /\ stack[i].plan \in Reach(Root) \cup {Top}
         /\ ToSet(stack[i].rest) \subseteq RefSet(stack[i].plan)
         /\ \A q \in RefSet(stack[i].plan) \ ToSet(stack[i].rest) :
              q \in seen \/ (i < Len(stack) /\ stack[i + 1].plan = q)
<1>1. CallOK(i, stack, script, seen, Reach(Root))
  BY DEF StackOK
<1> QED BY <1>1 DEF CallOK, RefSet

LEMMA Kinds ==
  /\ \A p \in Name : p # Top /\ p # Missing /\ NameOf(p) = p /\ ScriptOf(p) = p /\ p \in Object
  /\ NameOf(Top) = Main /\ ScriptOf(Top) = Root /\ Top \in Object /\ Root \in Name
  /\ Main # Top /\ Missing \notin Object /\ Top \notin Target
  /\ \A p \in Object : ScriptOf(p) \in Name /\ NameOf(p) \in Name \cup {Main}
BY CompilerAssumption DEF NameOf, ScriptOf, Object, Target

LEMMA ReachIs ==
  ASSUME AllCompiled, NEW n \in Name
  PROVE  /\ Refs(n) = RefSet(n) \ {Missing} /\ RefSet(n) \subseteq Target /\ Refs(n) \subseteq Name
         /\ Reach(n) \subseteq Name
         /\ Refs(n) \subseteq Reach(n)
         /\ \A m \in Reach(n) : Refs(m) \subseteq Reach(n)
         /\ \A S \in SUBSET Name : Refs(n) \subseteq S /\ Closed(S) => Reach(n) \subseteq S
<1>1. \A m \in Name : Refs(m) = RefSet(m) \ {Missing} /\ RefSet(m) \subseteq Target /\ Refs(m) \subseteq Name
  <2> SUFFICES ASSUME NEW m \in Name
               PROVE  Refs(m) = RefSet(m) \ {Missing} /\ RefSet(m) \subseteq Target /\ Refs(m) \subseteq Name
    OBVIOUS
  <2>1. m \in Object /\ ScriptOf(m) = m
    BY Kinds
  <2>2. RefSet(m) \subseteq Target
    BY <2>1, FrameIs
  <2> QED BY <2>1, <2>2, SaysIs DEF Refs, Target
<1>2. Reach(n) \subseteq Name
  BY DEF Reach
<1>3. Refs(n) \subseteq Reach(n)
  BY <1>1 DEF Reach
<1>4. ASSUME NEW m \in Reach(n), NEW r \in Refs(m)
      PROVE  r \in Reach(n)
  <2>1. r \in Name
    BY <1>1, <1>2
  <2>2. ASSUME NEW S \in SUBSET Name, Refs(n) \subseteq S, Closed(S) PROVE r \in S
    BY <2>2 DEF Reach, Closed
  <2> QED BY <2>1, <2>2 DEF Reach
<1>5. \A S \in SUBSET Name : Refs(n) \subseteq S /\ Closed(S) => Reach(n) \subseteq S
  BY DEF Reach
<1> QED BY <1>1, <1>2, <1>3, <1>4, <1>5

(* The plans that a plan the main plan reaches refers to are reached. *)
LEMMA ReachStep ==
  ASSUME AllCompiled, NEW p \in Reach(Root) \cup {Top}, NEW q \in RefSet(p), q # Missing
  PROVE  q \in Reach(Root) /\ q \in Name
<1>1. CASE p = Top
  <2>1. q \in Refs(Root)
    BY <1>1, Kinds, SaysIs DEF Refs
  <2> QED BY <2>1, Kinds, ReachIs
<1>2. CASE p \in Reach(Root)
  <2>1. p \in Name
    BY <1>2, Kinds, ReachIs
  <2>2. q \in Refs(p)
    BY <2>1, ReachIs
  <2> QED BY <1>2, <2>2, Kinds, ReachIs
<1> QED BY <1>1, <1>2

LEMMA SameReach ==
  ASSUME script' = script
  PROVE  Reach(Root)' = Reach(Root)
BY DEF Says, Reach, Refs, Closed

LEMMA ReadLists ==
  ASSUME CompileTyped, Compiles, Lists, Read
  PROVE  Lists'
<1>1. phase = "read" /\ stack = <<>> /\ seen = {} /\ all = <<>>
      /\ UNCHANGED <<script, seen, all>>
  BY DEF Read, Lists
<1>2. CASE phase' = "failed" /\ stack' = stack
  BY <1>1, <1>2 DEF Lists, ListTyped
<1>3. CASE phase' = "list" /\ stack' = <<Frame(Top)>>
  <2>1. AllCompiled
    BY <1>1 DEF CompileTyped, Compiles, AllCompiled, Phases, Ends
  <2> DEFINE f == Frame(Top)
  <2>2. f \in Call /\ f.plan = Top /\ ToSet(f.rest) = RefSet(Top)
    BY <2>1, FrameIs, Kinds DEF Call
  <2> HIDE DEF f
  <2>3. /\ stack' \in Seq(Call) /\ Len(stack') = 1 /\ stack'[1] = f /\ stack' # <<>>
    BY <1>3, <2>2 DEF f
  <2>4. Len(stack') <= MaxDepth
    <3>1. Cardinality(Name) \in Nat
      BY CompilerAssumption, FS_CardinalityType
    <3> QED BY <2>3, <3>1, CompilerAssumption
  <2>5. script' = script /\ Reach(Root)' = Reach(Root)
    BY <1>1, SameReach
  <2>6. StackOK'
    <3> SUFFICES ASSUME NEW i \in 1 .. Len(stack')
                 PROVE  /\ i = 1 /\ stack'[i].plan = Top /\ ToSet(stack'[i].rest) = RefSet(Top)
      BY <2>5 DEF StackOK, CallOK, RefSet
    <3> QED BY <2>2, <2>3
  <2>7. ListOK'
    BY <1>1, <2>3 DEF ListOK, ToSet, Names
  <2> QED BY <1>1, <1>3, <2>3, <2>4, <2>6, <2>7 DEF Lists, ListTyped
<1> QED BY <1>2, <1>3 DEF Read

LEMMA FollowLists ==
  ASSUME AllCompiled, Lists, phase = "list", phase' = phase, stack # <<>>, Last(stack).rest # <<>>,
         Len(stack) < MaxDepth, Head(Last(stack).rest) # Missing,
         stack' = Append([stack EXCEPT ![Len(stack)].rest = Tail(@)], Frame(Head(Last(stack).rest))),
         UNCHANGED <<script, seen, all>>
  PROVE  Lists'
<1> DEFINE n == Len(stack)
           q == Head(Last(stack).rest)
           f == Frame(q)
           called == [stack EXCEPT ![n].rest = Tail(@)]
<1>1. /\ stack \in Seq(Call) /\ n \in Nat \ {0} /\ Last(stack) = stack[n] /\ stack[n] \in Call
      /\ \A i \in 1 .. n : stack[i] \in Call
  <2>1. stack \in Seq(Call)
    BY DEF Lists, ListTyped
  <2>2. n \in Nat \ {0} /\ Last(stack) = stack[n] /\ Last(stack) \in Call
    BY <2>1, FrontIs
  <2> QED BY <2>1, <2>2
<1>2. StackOK /\ ListOK
  BY DEF Lists
<1>3. /\ stack[n].rest \in Seq(Target) /\ Tail(stack[n].rest) \in Seq(Target) /\ q \in Target
      /\ ToSet(stack[n].rest) = {q} \cup ToSet(Tail(stack[n].rest))
  <2>1. stack[n].rest \in Seq(Target)
    BY <1>1 DEF Call
  <2> QED BY <1>1, <2>1, TailIs
<1>4. q \in RefSet(stack[n].plan) /\ q \in Name /\ q \in Reach(Root) /\ q \in Object
  <2>1. n \in 1 .. Len(stack)
    BY <1>1
  <2>2. q \in RefSet(stack[n].plan) /\ stack[n].plan \in Reach(Root) \cup {Top}
    BY <1>2, <1>3, <2>1, StackIs
  <2> QED BY <2>2, ReachStep, Kinds
<1>5. /\ called \in Seq(Call) /\ Len(called) = n
      /\ \A i \in 1 .. n : called[i].plan = stack[i].plan
      /\ \A i \in 1 .. n : i # n => called[i] = stack[i]
      /\ called[n].rest = Tail(stack[n].rest)
  <2> DEFINE top == [stack[n] EXCEPT !.rest = Tail(@)]
  <2>1. called = [i \in 1 .. n |-> IF i = n THEN top ELSE stack[i]]
    <3>1. DOMAIN stack = 1 .. n
      BY <1>1
    <3>2. called = [stack EXCEPT ![n] = top]
      OBVIOUS
    <3> HIDE DEF called, top
    <3> QED BY <3>1, <3>2
  <2>2. top \in Call /\ top.plan = stack[n].plan /\ top.rest = Tail(stack[n].rest)
    BY <1>1, <1>3 DEF Call
  <2>3. n \in 1 .. n
    BY <1>1
  <2> HIDE DEF called, top
  <2>4. called \in [1 .. n -> Call]
    BY <1>1, <2>1, <2>2, <2>3
  <2> QED BY <1>1, <2>1, <2>2, <2>4
<1>6. f \in Call /\ f.plan = q /\ ToSet(f.rest) = RefSet(q)
  BY <1>4, FrameIs DEF Call
<1>7. stack' = Append(called, f)
  OBVIOUS
<1> HIDE DEF q, f, called
<1>8. /\ stack' \in Seq(Call) /\ Len(stack') = n + 1 /\ stack'[n + 1] = f /\ stack' # <<>>
      /\ \A i \in 1 .. n : stack'[i] = called[i]
  <2>1. Append(called, f) \in Seq(Call)
    BY <1>5, <1>6, AppendIs
  <2>2. /\ Len(Append(called, f)) = n + 1 /\ Append(called, f)[n + 1] = f
        /\ \A i \in 1 .. n : Append(called, f)[i] = called[i]
    BY <1>5, AppendIs
  <2>3. Append(called, f) # <<>>
    BY <1>1, <2>2
  <2> QED BY <1>7, <2>1, <2>2, <2>3
<1>9. script' = script /\ Reach(Root)' = Reach(Root)
  BY SameReach
<1>10. StackOK'
  <2> SUFFICES ASSUME NEW i \in 1 .. n + 1 PROVE CallOK(i, stack', script, seen, Reach(Root))
    BY <1>8, <1>9 DEF StackOK
  <2> SUFFICES /\ IF i = 1 THEN stack'[i].plan = Top
                          ELSE stack'[i].plan \in RefSet(stack'[i - 1].plan) \cap Name
               /\ stack'[i].plan \in Reach(Root) \cup {Top}
               /\ ToSet(stack'[i].rest) \subseteq RefSet(stack'[i].plan)
               /\ \A r \in RefSet(stack'[i].plan) \ ToSet(stack'[i].rest) :
                    r \in seen \/ (i < n + 1 /\ stack'[i + 1].plan = r)
    BY <1>8 DEF CallOK, RefSet
  <2>1. CASE i = n + 1
    <3>1. stack'[i] = f /\ i # 1 /\ stack'[i - 1].plan = stack[n].plan
      BY <1>1, <1>5, <1>8, <2>1
    <3> QED BY <1>4, <1>6, <3>1
  <2>2. CASE i # n + 1
    <3>1. i \in 1 .. n /\ stack'[i].plan = stack[i].plan /\ (i # 1 => i - 1 \in 1 .. n /\ stack'[i - 1].plan = stack[i - 1].plan)
      BY <1>1, <1>5, <1>8, <2>2
    <3>2. /\ IF i = 1 THEN stack[i].plan = Top ELSE stack[i].plan \in RefSet(stack[i - 1].plan) \cap Name
          /\ stack[i].plan \in Reach(Root) \cup {Top}
          /\ ToSet(stack[i].rest) \subseteq RefSet(stack[i].plan)
          /\ \A r \in RefSet(stack[i].plan) \ ToSet(stack[i].rest) :
               r \in seen \/ (i < n /\ stack[i + 1].plan = r)
      BY <1>2, <3>1, StackIs
    <3>3. CASE i = n
      <4>1. stack'[i].rest = Tail(stack[n].rest) /\ stack'[i + 1].plan = q /\ i < n + 1
        BY <1>5, <1>6, <1>8, <3>1, <3>3
      <4> QED BY <1>3, <3>1, <3>2, <3>3, <4>1
    <3>4. CASE i # n
      <4>1. stack'[i] = stack[i] /\ i + 1 \in 1 .. n /\ stack'[i + 1].plan = stack[i + 1].plan /\ i < n + 1
        BY <1>1, <1>5, <1>8, <3>1, <3>4
      <4> QED BY <3>1, <3>2, <4>1
    <3> QED BY <3>3, <3>4
  <2> QED BY <2>1, <2>2
<1>11. ListOK'
  <2>1. stack # <<>>
    OBVIOUS
  <2> QED BY <1>2, <1>8, <1>9, <2>1 DEF ListOK, Names, ToSet, RefSet
<1>12. Len(stack') <= MaxDepth
  BY <1>1, <1>8, CompilerAssumption
<1> QED BY <1>8, <1>10, <1>11, <1>12 DEF Lists, ListTyped

LEMMA VisitedLists ==
  ASSUME AllCompiled, Lists, Visited
  PROVE  Lists'
<1> DEFINE n == Len(stack)
           p == stack[n].plan
<1>1. /\ phase = "list" /\ phase' = phase /\ stack # <<>> /\ stack[n].rest = <<>> /\ stack' = Front(stack)
      /\ all' = (IF NameOf(p) \in seen THEN all ELSE Append(all, p)) /\ seen' = seen \cup {NameOf(p)}
      /\ script' = script
  BY DEF Visited, Last
<1>2. /\ stack \in Seq(Call) /\ n \in Nat \ {0} /\ stack' \in Seq(Call) /\ Len(stack') = n - 1
      /\ stack[n] \in Call /\ \A i \in 1 .. n - 1 : stack'[i] = stack[i]
  <2>1. stack \in Seq(Call)
    BY DEF Lists, ListTyped
  <2>2. /\ Front(stack) \in Seq(Call) /\ Len(Front(stack)) = Len(stack) - 1 /\ Len(stack) \in Nat \ {0}
        /\ Last(stack) = stack[Len(stack)] /\ Last(stack) \in Call
        /\ \A i \in 1 .. Len(stack) - 1 : Front(stack)[i] = stack[i]
    BY <1>1, <2>1, FrontIs
  <2> QED BY <1>1, <2>1, <2>2
<1>3. StackOK /\ ListOK /\ all \in Seq(Object) /\ Len(all) \in Nat
  BY <1>1 DEF Lists, ListTyped
<1>4. /\ p \in Object /\ p \in Reach(Root) \cup {Top} /\ RefSet(p) \subseteq seen
      /\ n = 1 => p = Top
      /\ n # 1 => p \in Name
  <2>1. n \in 1 .. Len(stack) /\ ToSet(stack[n].rest) = {}
    BY <1>1, <1>2 DEF ToSet
  <2>2. p \in Object
    BY <1>2 DEF Call
  <2> HIDE DEF p
  <2>3. stack[n].plan = p
    BY DEF p
  <2>4. \A r \in RefSet(p) : r \in seen
    BY <1>3, <2>1, <2>3, StackIs
  <2> QED BY <1>3, <2>1, <2>2, <2>3, <2>4, StackIs
<1>5. Top \notin ToSet(all) /\ seen = ToSet(all)
  <2>1. Top \notin ToSet(all) /\ seen = Names(ToSet(all)) /\ ToSet(all) \subseteq Object
    BY <1>1, <1>3 DEF ListOK, ToSet
  <2>2. \A r \in ToSet(all) : NameOf(r) = r
    BY <2>1, Kinds DEF Object
  <2> QED BY <2>1, <2>2 DEF Names
<1>6. script' = script /\ Reach(Root)' = Reach(Root)
  BY <1>1, SameReach
<1> HIDE DEF n, p
<1>7. StackOK'
  <2> SUFFICES ASSUME NEW i \in 1 .. n - 1 PROVE CallOK(i, stack', script, seen', Reach(Root))
    BY <1>2, <1>6 DEF StackOK
  <2> SUFFICES /\ IF i = 1 THEN stack'[i].plan = Top
                          ELSE stack'[i].plan \in RefSet(stack'[i - 1].plan) \cap Name
               /\ stack'[i].plan \in Reach(Root) \cup {Top}
               /\ ToSet(stack'[i].rest) \subseteq RefSet(stack'[i].plan)
               /\ \A r \in RefSet(stack'[i].plan) \ ToSet(stack'[i].rest) :
                    r \in seen' \/ (i < n - 1 /\ stack'[i + 1].plan = r)
    BY <1>2 DEF CallOK, RefSet
  <2>1. i \in 1 .. n /\ stack'[i] = stack[i] /\ (i # 1 => i - 1 \in 1 .. n - 1 /\ stack'[i - 1] = stack[i - 1]) /\ n # 1
    BY <1>2
  <2>2. /\ IF i = 1 THEN stack[i].plan = Top ELSE stack[i].plan \in RefSet(stack[i - 1].plan) \cap Name
        /\ stack[i].plan \in Reach(Root) \cup {Top}
        /\ ToSet(stack[i].rest) \subseteq RefSet(stack[i].plan)
        /\ \A r \in RefSet(stack[i].plan) \ ToSet(stack[i].rest) :
             r \in seen \/ (i < n /\ stack[i + 1].plan = r)
    BY <1>3, <2>1, StackIs DEF n
  <2>3. ASSUME NEW r, i < n, stack[i + 1].plan = r
        PROVE  r \in seen' \/ (i < n - 1 /\ stack'[i + 1].plan = r)
    <3>1. CASE i = n - 1
      <4>1. r = p /\ p \in Name
        BY <1>2, <1>4, <2>1, <2>3, <3>1 DEF p
      <4> QED BY <1>1, <4>1, Kinds
    <3>2. CASE i # n - 1
      BY <1>2, <2>3, <3>2
    <3> QED BY <3>1, <3>2
  <2> QED BY <1>1, <2>1, <2>2, <2>3
<1>8. /\ all' \in Seq(Object) /\ ToSet(all) \subseteq ToSet(all') /\ ToSet(all') \subseteq ToSet(all) \cup {p}
      /\ seen' = Names(ToSet(all'))
  <2>1. Names(ToSet(all)) = seen
    BY <1>3 DEF ListOK
  <2>2. CASE NameOf(p) \in seen
    BY <1>1, <1>3, <2>1, <2>2
  <2>3. CASE NameOf(p) \notin seen
    <3>1. all' \in Seq(Object) /\ ToSet(all') = ToSet(all) \cup {p}
      BY <1>1, <1>3, <1>4, <2>3, AppendIs
    <3> QED BY <1>1, <2>1, <3>1 DEF Names
  <2> QED BY <2>2, <2>3
<1>9. /\ \A i, j \in 1 .. Len(all') : NameOf(all'[i]) = NameOf(all'[j]) => i = j
      /\ \A i \in 1 .. Len(all') : \A q \in RefSet(all'[i]) : \E j \in 1 .. i - 1 : all'[j] = q
  <2>1. CASE NameOf(p) \in seen
    BY <1>1, <1>3, <2>1 DEF ListOK
  <2>2. CASE NameOf(p) \notin seen
    <3> DEFINE m == Len(all)
    <3>1. /\ Len(all') = m + 1 /\ all'[m + 1] = p /\ m \in Nat
          /\ \A i \in 1 .. m : all'[i] = all[i] /\ all[i] \in ToSet(all)
      BY <1>1, <1>3, <1>4, <2>2, AppendIs DEF ToSet
    <3>2. \A i \in 1 .. m : NameOf(all[i]) # NameOf(p)
      BY <1>3, <2>2, <3>1 DEF ListOK, Names
    <3>3. \A q \in RefSet(p) : \E j \in 1 .. m : all'[j] = q
      <4>1. \A q \in RefSet(p) : \E j \in 1 .. m : all[j] = q
        BY <1>3, <1>4, <1>5 DEF ToSet
      <4> QED BY <3>1, <4>1
    <3>4. /\ \A i, j \in 1 .. m : NameOf(all[i]) = NameOf(all[j]) => i = j
          /\ \A i \in 1 .. m : \A q \in RefSet(all[i]) : \E j \in 1 .. i - 1 : all[j] = q
      BY <1>3 DEF ListOK
    <3> HIDE DEF m
    <3>5. \A i \in 1 .. m + 1 : i \in 1 .. m \/ (i = m + 1 /\ i - 1 = m)
      BY <3>1
    <3>6. \A i \in 1 .. m : \A j \in 1 .. i - 1 : j \in 1 .. m
      BY <3>1
    <3>7. \A i, j \in 1 .. m + 1 : NameOf(all'[i]) = NameOf(all'[j]) => i = j
      BY <3>1, <3>2, <3>4, <3>5
    <3>8. \A i \in 1 .. m + 1 : \A q \in RefSet(all'[i]) : \E j \in 1 .. i - 1 : all'[j] = q
      <4> SUFFICES ASSUME NEW i \in 1 .. m + 1, NEW q \in RefSet(all'[i]) PROVE \E j \in 1 .. i - 1 : all'[j] = q
        OBVIOUS
      <4>1. CASE i \in 1 .. m
        <5>1. all'[i] = all[i]
          BY <3>1, <4>1
        <5>2. PICK j \in 1 .. i - 1 : all[j] = q
          BY <3>4, <4>1, <5>1
        <5>3. all'[j] = all[j]
          BY <3>1, <3>6, <4>1
        <5> QED BY <5>2, <5>3
      <4>2. CASE i = m + 1 /\ i - 1 = m
        BY <3>1, <3>3, <4>2
      <4> QED BY <3>5, <4>1, <4>2
    <3> QED BY <3>1, <3>7, <3>8
  <2> QED BY <2>1, <2>2
<1>10. stack' # <<>> => Top \notin ToSet(all')
  <2>1. stack' # <<>> => n # 1
    BY <1>2
  <2> QED BY <1>4, <1>5, <1>8, <2>1, Kinds
<1>11. stack' = <<>> => RefSet(Top) \subseteq ToSet(all') /\ Main \in seen'
  <2>1. stack' = <<>> => n = 1
    BY <1>2
  <2> QED BY <1>1, <1>4, <1>5, <1>8, <2>1, Kinds
<1>12. ListOK'
  <2>1. ToSet(all') \subseteq Reach(Root) \cup {Top}
    BY <1>3, <1>4, <1>8 DEF ListOK
  <2> QED BY <1>6, <1>8, <1>9, <1>10, <1>11, <2>1 DEF ListOK, Names, RefSet
<1>13. ListTyped'
  <2>1. seen' \subseteq Name \cup {Main}
    BY <1>1, <1>4, Kinds DEF Lists, ListTyped
  <2>2. Len(stack') <= MaxDepth
    <3>1. n <= MaxDepth
      BY DEF Lists, ListTyped, n
    <3> QED BY <1>2, <3>1, CompilerAssumption
  <2> QED BY <1>2, <1>8, <2>1, <2>2 DEF ListTyped
<1> QED BY <1>1, <1>7, <1>12, <1>13 DEF Lists

(* Each call's plan is one that the plans of the earlier calls lead to. *)
LEMMA StackPath ==
  ASSUME AllCompiled, StackOK, Len(stack) \in Nat,
         NEW i \in 2 .. Len(stack), NEW j \in 2 .. Len(stack), i < j
  PROVE  stack[j].plan \in Reach(stack[i].plan) /\ stack[i].plan \in Name
<1> DEFINE m == Len(stack)
           n == stack[i].plan
           Bad == {k \in i + 1 .. m : stack[k].plan \notin Reach(n)}
<1>1. \A k \in 2 .. m : k \in 1 .. m /\ k # 1 /\ k - 1 \in 1 .. m
  OBVIOUS
<1>2. \A k \in 2 .. m : stack[k].plan \in RefSet(stack[k - 1].plan) \cap Name
  BY <1>1, StackIs
<1>3. n \in Name
  BY <1>2
<1>4. Bad = {}
  <2> SUFFICES ASSUME Bad # {} PROVE FALSE
    OBVIOUS
  <2>1. Bad \in SUBSET Nat
    OBVIOUS
  <2> HIDE DEF Bad
  <2>2. PICK k \in Bad : \A l \in Bad : k <= l
    BY <2>1, Least
  <2>3. k \in i + 1 .. m /\ stack[k].plan \notin Reach(n) /\ k \in 2 .. m /\ k \in Nat
    BY <2>2 DEF Bad
  <2>4. stack[k].plan \in RefSet(stack[k - 1].plan) /\ stack[k].plan \in Name /\ stack[k].plan # Missing
    BY <1>2, <2>3, Kinds
  <2>5. CASE k = i + 1
    <3>1. k - 1 = i
      BY <2>5
    <3>2. stack[k].plan \in Refs(n)
      BY <1>3, <2>4, <3>1, ReachIs
    <3> QED BY <1>3, <2>3, <3>2, ReachIs
  <2>6. CASE k # i + 1
    <3>1. k - 1 \in i + 1 .. m /\ k - 1 \notin Bad /\ k - 1 \in 2 .. m
      BY <2>2, <2>3, <2>6
    <3>2. stack[k - 1].plan \in Reach(n) /\ stack[k - 1].plan \in Name
      BY <1>2, <3>1 DEF Bad
    <3>3. stack[k].plan \in Refs(stack[k - 1].plan)
      BY <2>4, <3>2, ReachIs
    <3> QED BY <1>3, <2>3, <3>2, <3>3, ReachIs
  <2> QED BY <2>5, <2>6
<1>5. j \in i + 1 .. m
  OBVIOUS
<1> QED BY <1>3, <1>4, <1>5

(* A stack that is full holds a plan twice. *)
LEMMA FullStackCycles ==
  ASSUME AllCompiled, StackOK, stack \in Seq(Call), Len(stack) = MaxDepth
  PROVE  ~Acyclic
<1> DEFINE m == Len(stack)
           S == 2 .. m
           f == [k \in S |-> stack[k].plan]
<1>1. m \in Nat /\ m > Cardinality(Name) + 1 /\ IsFiniteSet(Name) /\ Cardinality(Name) \in Nat
  BY CompilerAssumption, FS_CardinalityType
<1>2. \A k \in S : stack[k].plan \in (Reach(Root) \cup {Top}) \cap Name
  <2> SUFFICES ASSUME NEW k \in S PROVE stack[k].plan \in (Reach(Root) \cup {Top}) \cap Name
    OBVIOUS
  <2>1. k \in 1 .. m /\ k # 1
    BY <1>1
  <2> QED BY <2>1, StackIs
<1>3. IsFiniteSet(S) /\ Cardinality(S) = m - 1
  <2>1. m \in Int /\ 2 <= m /\ 2 \in Int
    BY <1>1
  <2> HIDE DEF m
  <2>2. IsFiniteSet(2 .. m) /\ Cardinality(2 .. m) = IF 2 > m THEN 0 ELSE m - 2 + 1
    BY <2>1, FS_Interval, Zenon
  <2> QED BY <2>1, <2>2
<1>4. f \in [S -> Name]
  BY <1>2
<1>5. Cardinality(Name) < Cardinality(S)
  BY <1>1, <1>3
<1> HIDE DEF f
<1>6. PICK x \in S, y \in S : x # y /\ f[x] = f[y]
  BY <1>1, <1>3, <1>4, <1>5, FS_PigeonHole
<1>7. x \in Nat /\ y \in Nat
  BY <1>1, <1>6
<1>8. stack[x].plan = stack[y].plan
  BY <1>6 DEF f
<1>9. stack[x].plan \in Reach(stack[x].plan)
  <2>1. CASE x < y
    BY <1>1, <1>6, <1>8, <2>1, StackPath
  <2>2. CASE y < x
    BY <1>1, <1>6, <1>8, <2>2, StackPath
  <2> QED BY <1>6, <1>7, <2>1, <2>2
<1>10. stack[x].plan \in Reach(Root)
  BY <1>2, <1>6, Kinds
<1> QED BY <1>9, <1>10 DEF Acyclic, Above

LEMMA FollowEnds ==
  ASSUME AllCompiled, Lists, Follow
  PROVE  Lists' /\ (phase' = "panicked" => ~Known) /\ (phase' = "overflow" => ~Acyclic)
         /\ phase' # "failed" /\ phase' # "ok"
<1> DEFINE p == Head(Last(stack).rest)
<1>1. /\ phase = "list" /\ stack # <<>> /\ Last(stack).rest # <<>> /\ UNCHANGED <<script, seen, all>>
      /\ StackOK /\ stack \in Seq(Call) /\ Len(stack) \in Nat
  BY DEF Follow, Lists, ListTyped
<1>2. CASE Len(stack) = MaxDepth /\ phase' = "overflow" /\ UNCHANGED stack
  <2>1. Lists'
    BY <1>1, <1>2 DEF Lists, ListTyped
  <2> QED BY <1>1, <1>2, <2>1, FullStackCycles
<1>3. CASE p = Missing /\ phase' = "panicked" /\ UNCHANGED stack
  <2>1. Lists'
    BY <1>1, <1>3 DEF Lists, ListTyped
  <2> DEFINE n == Len(stack)
             q == stack[n].plan
  <2>2. n \in 1 .. Len(stack) /\ Last(stack) = stack[n] /\ stack[n] \in Call
    <3>1. Len(stack) \in Nat \ {0} /\ Last(stack) = stack[Len(stack)] /\ Last(stack) \in Call
      BY <1>1, FrontIs
    <3> QED BY <3>1
  <2>3. stack[n].rest \in Seq(Target) /\ stack[n].rest # <<>> /\ p = Head(stack[n].rest)
    BY <1>1, <2>2 DEF Call
  <2>4. p \in ToSet(stack[n].rest)
    BY <2>3, TailIs
  <2>5. Missing \in RefSet(q) /\ q \in Reach(Root) \cup {Top}
    BY <1>1, <1>3, <2>2, <2>4, StackIs
  <2>6. Missing \in Says(ScriptOf(q), {"plan", "dependency"})
    BY <2>5, SaysIs
  <2>7. ScriptOf(q) \in Above
    <3>1. Reach(Root) \subseteq Name
      BY Kinds, ReachIs
    <3> QED BY <2>5, <3>1, Kinds DEF Above
  <2> QED BY <1>3, <2>1, <2>6, <2>7 DEF Known
<1>4. CASE /\ Len(stack) < MaxDepth /\ p # Missing /\ UNCHANGED phase
           /\ stack' = Append([stack EXCEPT ![Len(stack)].rest = Tail(@)], Frame(p))
  BY <1>1, <1>4, FollowLists
<1> QED BY <1>2, <1>3, <1>4 DEF Follow

(* When all are listed, each plan that the main plan reaches is, and none  *)
(* of them leads to itself or to a name without a plan.                    *)
LEMMA ListedIsReached ==
  ASSUME AllCompiled, Lists, phase \in {"sort", "ok"} \/ (phase = "list" /\ stack = <<>>)
  PROVE  /\ Known /\ Acyclic
         /\ seen = Names(ToSet(all)) /\ ToSet(all) \subseteq Object
         /\ \A i, j \in 1 .. Len(all) : NameOf(all[i]) = NameOf(all[j]) => i = j
         /\ seen = Reach(Root) \cup {Main}
         /\ Reach(Root) \subseteq ToSet(all) /\ ToSet(all) \subseteq Reach(Root) \cup {Top}
<1>1. StackOK /\ ListOK /\ stack = <<>> /\ all \in Seq(Object) /\ Len(all) \in Nat
  BY DEF Lists, ListTyped
<1>2. /\ seen = Names(ToSet(all)) /\ ToSet(all) \subseteq Object
      /\ ToSet(all) = {all[i] : i \in 1 .. Len(all)}
      /\ \A i, j \in 1 .. Len(all) : NameOf(all[i]) = NameOf(all[j]) => i = j
      /\ ToSet(all) \subseteq Reach(Root) \cup {Top}
      /\ RefSet(Top) \subseteq ToSet(all) /\ Main \in seen
  BY <1>1 DEF ListOK, ToSet
<1>3. \A i \in 1 .. Len(all) : \A q \in RefSet(all[i]) : \E j \in 1 .. i - 1 : all[j] = q
  BY <1>1 DEF ListOK
<1>4. Reach(Root) \subseteq Name /\ RefSet(Root) = RefSet(Top) /\ Root \in Name
  <2>1. RefSet(Root) = RefSet(Top)
    BY SaysIs, Kinds
  <2> QED BY <2>1, Kinds, ReachIs
<1>5. Reach(Root) \subseteq ToSet(all)
  <2> DEFINE S == ToSet(all) \ {Top}
  <2>1. S \in SUBSET Name
    BY <1>2, <1>4
  <2>2. ASSUME NEW m \in Name, RefSet(m) \subseteq ToSet(all) PROVE Refs(m) \subseteq S
    BY <2>2, ReachIs, Kinds
  <2>3. Refs(Root) \subseteq S
    BY <1>2, <1>4, <2>2
  <2>4. ASSUME NEW m \in S PROVE RefSet(m) \subseteq ToSet(all)
    <3>1. PICK i \in 1 .. Len(all) : all[i] = m
      BY <1>2
    <3>2. \A j \in 1 .. i - 1 : all[j] \in ToSet(all)
      <4>1. \A j \in 1 .. i - 1 : j \in 1 .. Len(all)
        BY <1>1
      <4> QED BY <1>2, <4>1
    <3> QED BY <1>3, <3>1, <3>2
  <2>5. Closed(S)
    BY <2>1, <2>2, <2>4 DEF Closed
  <2> HIDE DEF S
  <2>6. Reach(Root) \subseteq S
    BY <1>4, <2>1, <2>3, <2>5, ReachIs
  <2> QED BY <2>6 DEF S
(* What is listed at i leads only to what is listed before. *)
<1>6. ASSUME NEW i \in 1 .. Len(all), NEW n \in Name, RefSet(n) = RefSet(all[i])
      PROVE  Reach(n) \subseteq {all[j] : j \in 1 .. i - 1}
  <2> DEFINE S == {all[j] : j \in 1 .. i - 1} \cap Name
  <2>1. ASSUME NEW m \in Name, NEW k \in 1 .. i, RefSet(m) = RefSet(all[k]) PROVE Refs(m) \subseteq S
    <3>1. k \in 1 .. Len(all) /\ \A j \in 1 .. k - 1 : j \in 1 .. i - 1
      BY <1>1
    <3>2. \A q \in RefSet(m) : q \in {all[j] : j \in 1 .. i - 1}
      BY <1>3, <2>1, <3>1
    <3> QED BY <3>2, ReachIs
  <2>2. Refs(n) \subseteq S
    <3>1. i \in 1 .. i
      OBVIOUS
    <3> QED BY <1>6, <2>1, <3>1
  <2>3. Closed(S)
    <3> SUFFICES ASSUME NEW m \in S PROVE Refs(m) \subseteq S
      BY DEF Closed
    <3>1. PICK k \in 1 .. i - 1 : all[k] = m
      OBVIOUS
    <3>2. k \in 1 .. i
      OBVIOUS
    <3> QED BY <2>1, <3>1, <3>2
  <2>4. S \in SUBSET Name
    OBVIOUS
  <2> HIDE DEF S
  <2>5. Reach(n) \subseteq S
    BY <2>2, <2>3, <2>4, ReachIs
  <2> QED BY <2>5 DEF S
<1>7. ASSUME NEW n \in Reach(Root)
      PROVE  n \notin Reach(n) /\ Missing \notin RefSet(n)
  <2>1. PICK i \in 1 .. Len(all) : all[i] = n
    BY <1>2, <1>5
  <2>2. n \in Name
    BY <1>4
  <2>3. \A j \in 1 .. i - 1 : j \in 1 .. Len(all) /\ j # i
    BY <1>1
  <2>4. \A j \in 1 .. i - 1 : all[j] # n
    BY <1>2, <2>1, <2>3
  <2>5. \A q \in RefSet(n) : q \in ToSet(all)
    <3>1. \A j \in 1 .. i - 1 : all[j] \in ToSet(all)
      BY <1>2, <2>3
    <3> QED BY <1>3, <2>1, <3>1
  <2> QED BY <1>2, <1>6, <2>1, <2>2, <2>4, <2>5, Kinds
<1>8. Root \notin Reach(Root)
  BY <1>7
<1>9. Missing \notin RefSet(Root)
  BY <1>2, <1>4, Kinds
<1>10. Acyclic
  BY <1>7, <1>8 DEF Acyclic, Above
<1>11. Known
  BY <1>4, <1>7, <1>9, SaysIs, Kinds DEF Known, Above
<1>12. seen = Reach(Root) \cup {Main}
  <2>1. Names(ToSet(all)) \subseteq Reach(Root) \cup {Main}
    BY <1>2, <1>4, Kinds DEF Names
  <2>2. Reach(Root) \subseteq Names(ToSet(all))
    BY <1>4, <1>5, Kinds DEF Names
  <2> QED BY <1>2, <2>1, <2>2
<1> QED BY <1>2, <1>5, <1>10, <1>11, <1>12

-----------------------------------------------------------------------------
(* More sequences: the elements of one that has none twice. *)

Distinct(s) == \A i, j \in 1 .. Len(s) : NameOf(s[i]) = NameOf(s[j]) => i = j

LEMMA DistinctCounted ==
  ASSUME NEW S, NEW s \in Seq(S), \A i, j \in 1 .. Len(s) : s[i] = s[j] => i = j
  PROVE  Len(s) = Cardinality(ToSet(s))
<1>1. Len(s) \in Nat /\ s \in [1 .. Len(s) -> S] /\ DOMAIN s = 1 .. Len(s)
  OBVIOUS
<1> DEFINE n == Len(s)
           R == ToSet(s)
<1>2. R = {s[i] : i \in 1 .. n}
  BY <1>1 DEF ToSet
<1> HIDE DEF R
<1>3. s \in [1 .. n -> R]
  BY <1>1, <1>2
<1>4. s \in Injection(1 .. n, R)
  BY <1>1, <1>3 DEF Injection, IsInjective
<1>5. s \in Surjection(1 .. n, R)
  BY <1>2, <1>3 DEF Surjection
<1>6. ExistsBijection(1 .. n, R)
  BY <1>4, <1>5 DEF ExistsBijection, Bijection
<1> QED BY <1>1, <1>6, FS_CountingElements DEF R

(* The element at k goes to the end, and the others keep their order. *)
LEMMA MovedToEnd ==
  ASSUME NEW S, NEW s \in Seq(S), NEW k \in 1 .. Len(s)
  PROVE  LET t == Append(RemoveAt(s, k), s[k])
             n == Len(s)
         IN  /\ t \in Seq(S) /\ Len(t) = n /\ t[n] = s[k]
             /\ \A i \in 1 .. k - 1 : t[i] = s[i]
             /\ \A i \in k + 1 .. n : t[i - 1] = s[i]
<1> DEFINE n == Len(s)
           x == SubSeq(s, 1, k - 1)
           y == SubSeq(s, k + 1, n)
<1>1. n \in Nat /\ k \in Nat /\ 1 <= k /\ k <= n /\ \A i \in 1 .. n : s[i] \in S
  OBVIOUS
<1>2. x \in Seq(S) /\ Len(x) = k - 1 /\ \A i \in 1 .. k - 1 : x[i] = s[i]
  <2>1. 1 \in Int /\ k - 1 \in Int /\ \A i \in 1 .. k - 1 : s[i] \in S
    BY <1>1
  <2>2. /\ x \in Seq(S) /\ Len(x) = (IF 1 <= k - 1 THEN k - 1 - 1 + 1 ELSE 0)
        /\ \A i \in 1 .. k - 1 - 1 + 1 : x[i] = s[1 + i - 1]
    BY <2>1, SubSeqProperties
  <2> HIDE DEF x
  <2> QED BY <1>1, <2>2
<1>3. y \in Seq(S) /\ Len(y) = n - k /\ \A i \in 1 .. n - k : y[i] = s[k + i]
  <2>1. k + 1 \in Int /\ n \in Int /\ \A i \in k + 1 .. n : s[i] \in S
    BY <1>1
  <2>2. /\ y \in Seq(S) /\ Len(y) = (IF k + 1 <= n THEN n - (k + 1) + 1 ELSE 0)
        /\ \A i \in 1 .. n - (k + 1) + 1 : y[i] = s[(k + 1) + i - 1]
    BY <2>1, SubSeqProperties
  <2> HIDE DEF y
  <2> QED BY <1>1, <2>2
<1>4. RemoveAt(s, k) = x \o y
  BY DEF RemoveAt
<1> HIDE DEF n, x, y
<1> DEFINE r == x \o y
<1>5. /\ r \in Seq(S) /\ Len(r) = (k - 1) + (n - k)
      /\ \A i \in 1 .. k - 1 : r[i] = x[i]
      /\ \A i \in 1 .. n - k : r[(k - 1) + i] = y[i]
  <2>1. x \in Seq(S) /\ y \in Seq(S)
    BY <1>2, <1>3
  <2> HIDE DEF r
  <2>2. /\ r \in Seq(S) /\ Len(r) = Len(x) + Len(y)
        /\ \A i \in 1 .. Len(x) : r[i] = x[i]
        /\ \A i \in 1 .. Len(y) : r[Len(x) + i] = y[i]
    BY <2>1, ConcatIs DEF r
  <2> QED BY <1>2, <1>3, <2>2
<1> HIDE DEF r
<1>6. Len(r) = n - 1 /\ n - 1 \in Nat
  BY <1>1, <1>5
<1>7. \A i \in 1 .. k - 1 : r[i] = s[i] /\ i \in 1 .. n - 1
  BY <1>1, <1>2, <1>5
<1>8. \A i \in k + 1 .. n : r[i - 1] = s[i] /\ i - 1 \in 1 .. n - 1
  <2> SUFFICES ASSUME NEW i \in k + 1 .. n PROVE r[i - 1] = s[i] /\ i - 1 \in 1 .. n - 1
    OBVIOUS
  <2>1. i - k \in 1 .. n - k /\ (k - 1) + (i - k) = i - 1 /\ k + (i - k) = i /\ i - 1 \in 1 .. n - 1
    BY <1>1
  <2>2. r[i - 1] = y[i - k] /\ y[i - k] = s[i]
    BY <1>3, <1>5, <2>1
  <2> QED BY <2>1, <2>2
<1> DEFINE t == Append(r, s[k])
<1>9. s[k] \in S
  BY <1>1
<1>10. /\ t \in Seq(S) /\ Len(t) = n - 1 + 1 /\ t[n - 1 + 1] = s[k]
       /\ \A i \in 1 .. n - 1 : t[i] = r[i]
  <2>1. t \in Seq(S) /\ Len(t) = Len(r) + 1 /\ t[Len(r) + 1] = s[k]
    BY <1>5, <1>9, AppendIs
  <2>2. \A i \in 1 .. Len(r) : t[i] = r[i]
    BY <1>5, AppendIs
  <2> HIDE DEF t
  <2> QED BY <1>6, <2>1, <2>2
<1> HIDE DEF t
<1>11. n - 1 + 1 = n
  BY <1>1
<1>12. \A i \in 1 .. k - 1 : t[i] = s[i]
  BY <1>7, <1>10
<1>13. \A i \in k + 1 .. n : t[i - 1] = s[i]
  BY <1>8, <1>10
<1> QED BY <1>4, <1>10, <1>11, <1>12, <1>13 DEF t, r, n

-----------------------------------------------------------------------------
(***************************************************************************)
(* Sorting.  What is resolved and what still waits share the plans that    *)
(* are listed; a plan waits for those of its dependencies that wait, and   *)
(* one that is resolved has all of its own before it.                      *)
(***************************************************************************)
DepsOf(n) == DepSet(ObjectOf(n))

(* What r holds and d still waits for, of the plans named in names, when   *)
(* needs[n] are the dependencies of n.                                     *)
Sorting(d, r, names, needs) ==
  /\ Distinct(r)
  /\ DOMAIN d = names \ Names(ToSet(r))
  /\ \A n \in DOMAIN d : d[n] = needs[n] \cap DOMAIN d
  /\ \A i \in 1 .. Len(r) : \A q \in needs[NameOf(r[i])] : \E j \in 1 .. i - 1 : NameOf(r[j]) = q

Needs == [n \in seen |-> DepsOf(n)]

SortTyped ==
  /\ resolved \in Seq(Object)
  /\ DOMAIN deps \subseteq seen /\ \A n \in DOMAIN deps : deps[n] \subseteq seen

SortOK == Sorting(deps, resolved, seen, Needs) /\ ToSet(resolved) \subseteq ToSet(all)

Sorts ==
  /\ SortTyped
  /\ phase \in {"run", "copy", "read", "list"} => DOMAIN deps = {} /\ resolved = <<>>
  /\ phase = "sort" => SortOK
  /\ phase = "ok" => DependencyOrder

LEMMA ListedPlans ==
  ASSUME AllCompiled, Lists, phase = "sort" \/ (phase = "list" /\ stack = <<>>)
  PROVE  /\ \A p \in ToSet(all) : NameOf(p) \in seen /\ ObjectOf(NameOf(p)) = p
         /\ \A n \in seen : ObjectOf(n) \in ToSet(all) /\ NameOf(ObjectOf(n)) = n /\ ObjectOf(n) \in Object
         /\ \A n \in seen : DepsOf(n) \subseteq seen \cap Name
<1>1. /\ seen = Names(ToSet(all)) /\ ToSet(all) \subseteq Object
      /\ \A i, j \in 1 .. Len(all) : NameOf(all[i]) = NameOf(all[j]) => i = j
      /\ ToSet(all) = {all[i] : i \in 1 .. Len(all)}
      /\ Reach(Root) \subseteq seen /\ ToSet(all) \subseteq Reach(Root) \cup {Top}
      /\ Known
  <2>1. all \in Seq(Object)
    BY DEF Lists, ListTyped
  <2> QED BY <2>1, ListedIsReached DEF ToSet
<1>2. \A p, q \in ToSet(all) : NameOf(p) = NameOf(q) => p = q
  BY <1>1
<1>3. ASSUME NEW p \in ToSet(all)
      PROVE  NameOf(p) \in seen /\ ObjectOf(NameOf(p)) = p
  BY <1>1, <1>2 DEF ObjectOf, Names
<1>4. ASSUME NEW n \in seen
      PROVE  ObjectOf(n) \in ToSet(all) /\ NameOf(ObjectOf(n)) = n /\ ObjectOf(n) \in Object
  BY <1>1 DEF ObjectOf, Names
<1>5. ASSUME NEW n \in seen
      PROVE  DepsOf(n) \subseteq seen \cap Name
  <2> DEFINE p == ObjectOf(n)
  <2>1. p \in Reach(Root) \cup {Top} /\ p \in Object
    BY <1>1, <1>4
  <2>2. Missing \notin RefSet(p)
    <3>1. ScriptOf(p) \in Above
      <4>1. Reach(Root) \subseteq Name
        BY Kinds, ReachIs
      <4> QED BY <2>1, <4>1, Kinds DEF Above
    <3> QED BY <1>1, <3>1, SaysIs DEF Known
  <2>3. DepSet(p) \subseteq RefSet(p)
    BY <2>1, FrameIs
  <2> HIDE DEF p
  <2>4. \A q \in RefSet(p) : q \in Reach(Root) /\ q \in Name
    BY <2>1, <2>2, ReachStep
  <2>5. DepSet(p) \subseteq seen \cap Name
    BY <1>1, <2>3, <2>4
  <2> QED BY <2>5 DEF DepsOf, p
<1> QED BY <1>3, <1>4, <1>5

LEMMA SameNeeds ==
  ASSUME script' = script, all' = all, seen' = seen
  PROVE  Needs' = Needs
<1>1. \A n : ObjectOf(n)' = ObjectOf(n)
  BY DEF ObjectOf
<1>2. \A n : DepsOf(n)' = DepsOf(n)
  BY <1>1 DEF DepsOf, DepSet
<1> QED BY <1>2 DEF Needs

LEMMA ListedSorts ==
  ASSUME AllCompiled, Lists, Sorts, Listed
  PROVE  Sorts' /\ phase' = "sort"
<1>1. /\ phase = "list" /\ stack = <<>> /\ phase' = "sort" /\ UNCHANGED <<script, seen, all, resolved>>
      /\ resolved = <<>>
      /\ deps' = [n \in Names(ToSet(all)) |-> Names(ToSet(Dependencies(ObjectOf(n))))]
  BY DEF Listed, Sorts, lists, ObjectOf
<1>2. /\ seen = Names(ToSet(all))
      /\ \A n \in seen : ObjectOf(n) \in Object /\ DepsOf(n) \subseteq seen \cap Name
  BY <1>1, ListedIsReached, ListedPlans
<1>3. \A n \in seen : Names(ToSet(Dependencies(ObjectOf(n)))) = DepsOf(n)
  <2> SUFFICES ASSUME NEW n \in seen PROVE Names(ToSet(Dependencies(ObjectOf(n)))) = DepsOf(n)
    OBVIOUS
  <2>1. ToSet(Dependencies(ObjectOf(n))) = DepsOf(n)
    BY <1>2, FrameIs DEF DepsOf
  <2>2. \A q \in DepsOf(n) : NameOf(q) = q
    BY <1>2, Kinds
  <2> QED BY <2>1, <2>2 DEF Names
<1>4. DOMAIN deps' = seen /\ \A n \in seen : deps'[n] = DepsOf(n)
  BY <1>1, <1>2, <1>3
<1>5. Len(resolved') = 0 /\ ToSet(resolved') = {} /\ resolved' \in Seq(Object)
  BY <1>1 DEF ToSet
<1>6. Sorting(deps', resolved', seen, Needs)
  BY <1>2, <1>4, <1>5 DEF Sorting, Distinct, Names, Needs
<1>7. Needs' = Needs
  BY <1>1, SameNeeds
<1> QED BY <1>1, <1>2, <1>4, <1>5, <1>6, <1>7 DEF Sorts, SortTyped, SortOK

(* The first plan listed of those that wait depends on none that does. *)
LEMMA SomeReady ==
  ASSUME AllCompiled, Lists, Sorts, phase = "sort", DOMAIN deps # {}
  PROVE  Ready # {}
<1>1. /\ StackOK /\ ListOK /\ all \in Seq(Object) /\ Len(all) \in Nat
      /\ SortOK
  BY DEF Lists, ListTyped, Sorts
<1>2. /\ seen = Names(ToSet(all)) /\ ToSet(all) = {all[i] : i \in 1 .. Len(all)} /\ ToSet(all) \subseteq Object
      /\ \A i \in 1 .. Len(all) : \A q \in RefSet(all[i]) : \E j \in 1 .. i - 1 : all[j] = q
  BY <1>1 DEF ListOK, ToSet
<1> DEFINE P == {i \in 1 .. Len(all) : NameOf(all[i]) \in DOMAIN deps}
<1>3. DOMAIN deps \subseteq seen /\ \A n \in DOMAIN deps : deps[n] = DepsOf(n) \cap DOMAIN deps
  BY <1>1 DEF SortOK, Sorting, Needs
<1>4. P # {} /\ P \in SUBSET Nat
  <2>1. PICK n \in DOMAIN deps : n \in seen
    BY <1>3
  <2>2. PICK i \in 1 .. Len(all) : NameOf(all[i]) = n
    BY <1>2, <2>1 DEF Names
  <2> QED BY <2>1, <2>2
<1> HIDE DEF P
<1>5. PICK i \in P : \A j \in P : i <= j
  BY <1>4, Least
<1>6. i \in 1 .. Len(all) /\ NameOf(all[i]) \in DOMAIN deps
  BY <1>5 DEF P
<1> DEFINE n == NameOf(all[i])
<1>7. n \in seen /\ ObjectOf(n) = all[i] /\ DepsOf(n) \subseteq Name
  <2>1. all[i] \in ToSet(all)
    BY <1>2, <1>6
  <2> QED BY <1>3, <1>6, <2>1, ListedPlans
<1>8. DepsOf(n) \subseteq RefSet(all[i])
  <2>1. all[i] \in Object
    BY <1>2, <1>6
  <2> QED BY <1>7, <2>1, FrameIs DEF DepsOf
<1>9. ASSUME NEW q \in DepsOf(n) \cap DOMAIN deps PROVE FALSE
  <2>1. PICK j \in 1 .. i - 1 : all[j] = q
    BY <1>2, <1>6, <1>8, <1>9
  <2>2. NameOf(all[j]) = q /\ j \in 1 .. Len(all) /\ j < i
    BY <1>6, <1>7, <1>9, <2>1, Kinds
  <2>3. j \in P
    BY <1>9, <2>2 DEF P
  <2> QED BY <1>5, <1>6, <2>2, <2>3
<1>10. deps[n] = {}
  BY <1>3, <1>6, <1>9
<1> QED BY <1>6, <1>10 DEF Ready

LEMMA RoundSorts ==
  ASSUME AllCompiled, CompileTyped, Lists, Sorts, Round
  PROVE  Sorts' /\ phase' = "sort"
<1>1. /\ phase = "sort" /\ DOMAIN deps # {} /\ Rounds(Ready)
  BY DEF Round, Rounds
<1>2. Ready # {}
  BY <1>1, SomeReady
<1>3. PICK order \in SetToSeqs(Ready) :
        /\ phase' = phase /\ UNCHANGED <<script, seen, all, stack>>
        /\ deps' = [n \in DOMAIN deps \ Ready |-> deps[n] \ Ready]
        /\ resolved' = resolved \o [i \in DOMAIN order |-> ObjectOf(order[i])]
  BY <1>1, <1>2 DEF Rounds, lists
<1> DEFINE new == [i \in DOMAIN order |-> ObjectOf(order[i])]
           m == Len(resolved)
           k == Cardinality(Ready)
<1>4. /\ SortOK /\ SortTyped /\ Len(resolved) \in Nat /\ resolved \in Seq(Object)
  BY <1>1 DEF Sorts, SortTyped
<1>5. /\ Distinct(resolved)
      /\ DOMAIN deps = seen \ Names(ToSet(resolved))
      /\ \A n \in DOMAIN deps : deps[n] = DepsOf(n) \cap DOMAIN deps
      /\ \A i \in 1 .. m : \A q \in Needs[NameOf(resolved[i])] : \E j \in 1 .. i - 1 : NameOf(resolved[j]) = q
      /\ ToSet(resolved) \subseteq ToSet(all)
  BY <1>4 DEF SortOK, Sorting, Needs
<1>6. Ready \subseteq DOMAIN deps /\ Ready \subseteq seen /\ IsFiniteSet(Ready) /\ k \in Nat
  <2>1. Ready \subseteq Name \cup {Main}
    BY <1>4, <1>5 DEF Ready, Lists, ListTyped
  <2>2. IsFiniteSet(Name \cup {Main})
    BY CompilerAssumption, FS_AddElement
  <2>3. IsFiniteSet(Ready)
    BY <2>1, <2>2, FS_Subset
  <2> QED BY <1>5, <2>3, FS_CardinalityType DEF Ready
<1>7. /\ DOMAIN order = 1 .. k /\ \A i \in 1 .. k : order[i] \in Ready
      /\ \A i, j \in 1 .. k : order[i] = order[j] => i = j
      /\ \A n \in Ready : \E i \in 1 .. k : order[i] = n
  <2>1. order \in [1 .. k -> Ready] /\ \A i, j \in 1 .. k : i # j => order[i] # order[j]
    BY DEF SetToSeqs
  <2>2. order \in Injection(1 .. k, Ready)
    BY <2>1 DEF Injection, IsInjective
  <2>3. Cardinality(1 .. k) = k
    <3>1. 1 \in Int /\ k \in Int
      BY <1>6
    <3> HIDE DEF k
    <3>2. Cardinality(1 .. k) = IF 1 > k THEN 0 ELSE k - 1 + 1
      BY <3>1, FS_Interval, Zenon
    <3>3. k \in Nat
      BY <1>6
    <3> QED BY <3>2, <3>3
  <2>4. order \in Surjection(1 .. k, Ready)
    BY <1>6, <2>2, <2>3, FS_Injection
  <2> QED BY <2>1, <2>4 DEF Surjection
<1>8. /\ new \in Seq(Object) /\ Len(new) = k
      /\ \A i \in 1 .. k : new[i] = ObjectOf(order[i]) /\ NameOf(new[i]) = order[i] /\ new[i] \in ToSet(all)
  <2>1. \A i \in 1 .. k : /\ ObjectOf(order[i]) \in Object /\ NameOf(ObjectOf(order[i])) = order[i]
                          /\ ObjectOf(order[i]) \in ToSet(all)
    BY <1>1, <1>6, <1>7, ListedPlans
  <2>2. new = [i \in 1 .. k |-> ObjectOf(order[i])]
    BY <1>7
  <2> HIDE DEF new
  <2>3. new \in [1 .. k -> Object] /\ \A i \in 1 .. k : new[i] = ObjectOf(order[i])
    BY <2>1, <2>2
  <2>4. new \in Seq(Object) /\ Len(new) = k
    BY <1>6, <2>3
  <2> QED BY <2>1, <2>3, <2>4
<1> HIDE DEF new
<1>9. ToSet(new) = {new[i] : i \in 1 .. k}
  BY <1>8 DEF ToSet
<1>10. Names(ToSet(new)) = Ready
  BY <1>7, <1>8, <1>9 DEF Names
<1>11. /\ resolved' \in Seq(Object) /\ ToSet(resolved') = ToSet(resolved) \cup ToSet(new)
       /\ Len(resolved') = m + k
       /\ \A i \in 1 .. m : resolved'[i] = resolved[i]
       /\ \A i \in 1 .. k : resolved'[m + i] = new[i]
  <2>1. resolved' = resolved \o new
    BY <1>3 DEF new
  <2> HIDE DEF k
  <2> QED BY <1>4, <1>8, <2>1, ConcatIs
<1>12. \A n \in Ready : n \notin Names(ToSet(resolved)) /\ DepsOf(n) \subseteq Names(ToSet(resolved))
  <2>1. \A n \in Ready : DepsOf(n) \subseteq seen
    BY <1>1, <1>6, ListedPlans
  <2> QED BY <1>5, <1>6, <2>1 DEF Ready
<1>13. Names(ToSet(resolved)) = {NameOf(resolved[i]) : i \in 1 .. m}
  BY <1>4 DEF Names, ToSet
<1> HIDE DEF k, m
<1>14. m \in Nat /\ k \in Nat
  BY <1>4, <1>6 DEF m
<1>15. \A i \in 1 .. m + k : i \in 1 .. m \/ (i - m \in 1 .. k /\ m + (i - m) = i)
  BY <1>14
<1>16. Distinct(resolved')
  <2> SUFFICES ASSUME NEW i \in 1 .. m + k, NEW j \in 1 .. m + k, NameOf(resolved'[i]) = NameOf(resolved'[j])
               PROVE  i = j
    BY <1>11 DEF Distinct
  <2>1. \A l \in 1 .. m : NameOf(resolved'[l]) \in Names(ToSet(resolved))
    BY <1>11, <1>13
  <2>2. \A l \in 1 .. k : NameOf(resolved'[m + l]) = order[l] /\ order[l] \in Ready
    BY <1>7, <1>8, <1>11
  <2>3. CASE i \in 1 .. m /\ j \in 1 .. m
    BY <1>5, <1>11, <2>3 DEF Distinct, m
  <2>4. CASE i \in 1 .. m /\ j \notin 1 .. m
    <3>1. NameOf(resolved'[j]) \in Ready
      BY <1>15, <2>2, <2>4
    <3> QED BY <1>12, <2>1, <2>4, <3>1
  <2>5. CASE i \notin 1 .. m /\ j \in 1 .. m
    <3>1. NameOf(resolved'[i]) \in Ready
      BY <1>15, <2>2, <2>5
    <3> QED BY <1>12, <2>1, <2>5, <3>1
  <2>6. CASE i \notin 1 .. m /\ j \notin 1 .. m
    <3>1. i - m \in 1 .. k /\ j - m \in 1 .. k /\ m + (i - m) = i /\ m + (j - m) = j
      BY <1>15, <2>6
    <3>2. order[i - m] = order[j - m]
      BY <2>2, <3>1
    <3>3. i - m = j - m
      BY <1>7, <3>1, <3>2
    <3> QED BY <3>1, <3>3
  <2> QED BY <2>3, <2>4, <2>5, <2>6
<1>17. DOMAIN deps' = DOMAIN deps \ Ready /\ \A n \in DOMAIN deps' : deps'[n] = deps[n] \ Ready
  BY <1>3
<1>18. DOMAIN deps' = seen \ Names(ToSet(resolved'))
  <2>1. Names(ToSet(resolved')) = Names(ToSet(resolved)) \cup Names(ToSet(new))
    BY <1>11 DEF Names
  <2> QED BY <1>5, <1>10, <1>17, <2>1
<1>19. \A n \in DOMAIN deps' : deps'[n] = DepsOf(n) \cap DOMAIN deps'
  BY <1>5, <1>17
<1>20. \A i \in 1 .. m + k : \A q \in Needs[NameOf(resolved'[i])] : \E j \in 1 .. i - 1 : NameOf(resolved'[j]) = q
  <2> SUFFICES ASSUME NEW i \in 1 .. m + k, NEW q \in Needs[NameOf(resolved'[i])]
               PROVE  \E j \in 1 .. i - 1 : NameOf(resolved'[j]) = q
    OBVIOUS
  <2>1. CASE i \in 1 .. m
    <3>1. q \in Needs[NameOf(resolved[i])]
      BY <1>11, <2>1
    <3>2. PICK j \in 1 .. i - 1 : NameOf(resolved[j]) = q
      BY <1>5, <2>1, <3>1
    <3>3. j \in 1 .. m
      BY <1>14, <2>1
    <3> QED BY <1>11, <3>2, <3>3
  <2>2. CASE i \notin 1 .. m
    <3>1. i - m \in 1 .. k /\ m + (i - m) = i /\ i > m
      BY <1>14, <1>15, <2>2
    <3>2. NameOf(resolved'[i]) = order[i - m] /\ order[i - m] \in Ready
      BY <1>7, <1>8, <1>11, <3>1
    <3>3. q \in DepsOf(order[i - m])
      BY <1>6, <3>2 DEF Needs
    <3>4. PICK j \in 1 .. m : NameOf(resolved[j]) = q
      BY <1>12, <1>13, <3>2, <3>3
    <3>5. j \in 1 .. i - 1
      BY <1>14, <3>1
    <3> QED BY <1>11, <3>4, <3>5
  <2> QED BY <2>1, <2>2
<1>21. Sorting(deps', resolved', seen, Needs)
  BY <1>5, <1>11, <1>16, <1>17, <1>18, <1>19, <1>20 DEF Sorting, Needs
<1>22. ToSet(resolved') \subseteq ToSet(all)
  BY <1>5, <1>8, <1>9, <1>11
<1>23. Needs' = Needs
  BY <1>3, SameNeeds
<1>24. \A n \in DOMAIN deps' : deps'[n] \subseteq seen
  BY <1>4, <1>17 DEF SortTyped
<1> QED BY <1>1, <1>3, <1>4, <1>11, <1>17, <1>21, <1>22, <1>23, <1>24 DEF Sorts, SortTyped, SortOK

(* Where the element at i is after the one at k has gone to the end n. *)
Moved(i, k, n) == IF i < k THEN i ELSE IF i = k THEN n ELSE i - 1

LEMMA MovedIs ==
  ASSUME NEW n \in Nat, NEW k \in 1 .. n
  PROVE  /\ \A i \in 1 .. n : Moved(i, k, n) \in 1 .. n
         /\ \A m \in 1 .. n : \E i \in 1 .. n : Moved(i, k, n) = m
         /\ \A i, j \in 1 .. n : i < j /\ i # k /\ j # k => Moved(i, k, n) < Moved(j, k, n)
<1>1. \A i \in 1 .. n : Moved(i, k, n) \in 1 .. n
  BY DEF Moved
<1>2. ASSUME NEW m \in 1 .. n PROVE \E i \in 1 .. n : Moved(i, k, n) = m
  <2>1. CASE m < k
    <3>1. Moved(m, k, n) = m
      BY <2>1 DEF Moved
    <3> QED BY <3>1
  <2>2. CASE m = n
    <3>1. Moved(k, k, n) = n
      BY DEF Moved
    <3> QED BY <2>2, <3>1
  <2>3. CASE m >= k /\ m # n
    <3>1. m + 1 \in 1 .. n /\ Moved(m + 1, k, n) = m
      BY <2>3 DEF Moved
    <3> QED BY <3>1
  <2> QED BY <2>1, <2>2, <2>3
<1>3. \A i, j \in 1 .. n : i < j /\ i # k /\ j # k => Moved(i, k, n) < Moved(j, k, n)
  BY DEF Moved
<1> QED BY <1>1, <1>2, <1>3

(* DependencyOrder of the sequence r, when the main plan reaches reach and *)
(* the scripts are s.                                                      *)
Ordered(r, reach, s) ==
  LET at(p) == CHOOSE i \in DOMAIN r : r[i] = p
  IN  /\ ToSet(r) = reach \cup (IF Main \in reach THEN {} ELSE {Top})
      /\ Len(r) = Cardinality(ToSet(r))
      /\ NameOf(Last(r)) = Main
      /\ \A p \in ToSet(r) \ {Main, Top} :
           \A q \in {c.arg : c \in {c \in ToSet(s[p]) : c.kind \in {"dependency"}}} \ {Main} : at(q) < at(p)

LEMMA OrderedIs == DependencyOrder <=> (phase = "ok" => Ordered(resolved, Reach(Root), script))
BY DEF DependencyOrder, Ordered, Says

LEMMA OrderedIsNext == DependencyOrder' <=> (phase' = "ok" => Ordered(resolved', Reach(Root)', script'))
BY DEF DependencyOrder, Ordered, Says

LEMMA SortedSorts ==
  ASSUME AllCompiled, Lists, Sorts, Sorted
  PROVE  Sorts' /\ phase' = "ok"
<1> DEFINE s == resolved
           n == Len(s)
           k == CHOOSE i \in DOMAIN s : NameOf(s[i]) = Main
           t == Append(RemoveAt(s, k), s[k])
<1>1. /\ phase = "sort" /\ DOMAIN deps = {} /\ phase' = "ok"
      /\ UNCHANGED <<script, seen, all, deps>>
      /\ resolved' = IF \E i \in DOMAIN s : NameOf(s[i]) = Main THEN t ELSE s
  BY DEF Sorted, lists
<1>2. /\ SortOK /\ SortTyped /\ s \in Seq(Object) /\ n \in Nat /\ DOMAIN s = 1 .. n
      /\ ToSet(s) = {s[i] : i \in 1 .. n} /\ \A i \in 1 .. n : s[i] \in Object
  <2>1. SortOK /\ SortTyped /\ s \in Seq(Object)
    BY <1>1 DEF Sorts, SortTyped
  <2>2. DOMAIN s = 1 .. n /\ n \in Nat /\ \A i \in 1 .. n : s[i] \in Object
    BY <2>1
  <2> QED BY <2>1, <2>2 DEF ToSet
<1>3. /\ \A i, j \in 1 .. n : NameOf(s[i]) = NameOf(s[j]) => i = j
      /\ seen \subseteq Names(ToSet(s)) /\ ToSet(s) \subseteq ToSet(all)
      /\ \A i \in 1 .. n : \A q \in Needs[NameOf(s[i])] : \E j \in 1 .. i - 1 : NameOf(s[j]) = q
  BY <1>1, <1>2 DEF SortOK, Sorting, Distinct
<1>4. /\ \A i, j \in 1 .. Len(all) : NameOf(all[i]) = NameOf(all[j]) => i = j
      /\ seen = Reach(Root) \cup {Main} /\ seen = Names(ToSet(all))
      /\ Reach(Root) \subseteq ToSet(all) /\ ToSet(all) \subseteq Reach(Root) \cup {Top}
      /\ Reach(Root) \subseteq Name
      /\ ToSet(all) = {all[i] : i \in 1 .. Len(all)}
  <2>1. Reach(Root) \subseteq Name
    BY Kinds, ReachIs
  <2>2. all \in Seq(Object)
    BY DEF Lists, ListTyped
  <2> QED BY <1>1, <2>1, <2>2, ListedIsReached DEF ToSet
<1>5. \A p, q \in ToSet(all) : NameOf(p) = NameOf(q) => p = q
  BY <1>4
(* The main plan is there, and everything else that it reaches. *)
<1>6. k \in 1 .. n /\ NameOf(s[k]) = Main
  <2>1. Main \in Names(ToSet(s))
    BY <1>3, <1>4
  <2>2. PICK p \in ToSet(s) : NameOf(p) = Main
    BY <2>1 DEF Names
  <2>3. \E i \in DOMAIN s : NameOf(s[i]) = Main
    BY <1>2, <2>2
  <2> QED BY <1>2, <2>3
<1>7. resolved' = t
  BY <1>1, <1>2, <1>6
<1>8. ToSet(s) = Reach(Root) \cup (IF Main \in Reach(Root) THEN {} ELSE {Top})
  <2>1. ToSet(s) = ToSet(all)
    <3>1. ASSUME NEW p \in ToSet(all) PROVE p \in ToSet(s)
      <4>1. NameOf(p) \in Names(ToSet(s))
        BY <1>3, <1>4 DEF Names
      <4>2. PICK r \in ToSet(s) : NameOf(r) = NameOf(p)
        BY <4>1 DEF Names
      <4> QED BY <1>3, <1>5, <4>2
    <3> QED BY <1>3, <3>1
  <2>2. Main \in Reach(Root) => Top \notin ToSet(all)
    <3>1. Main \in Reach(Root) => Main \in ToSet(all) /\ NameOf(Main) = NameOf(Top) /\ Main # Top
      BY <1>4, Kinds
    <3> QED BY <1>5, <3>1
  <2>3. Main \notin Reach(Root) => Top \in ToSet(all)
    <3>1. PICK p \in ToSet(all) : NameOf(p) = Main
      BY <1>4 DEF Names
    <3>2. p \in Name => p = Main
      BY <3>1, Kinds
    <3> QED BY <1>4, <3>1, <3>2
  <2> QED BY <1>4, <2>1, <2>2, <2>3
<1> HIDE DEF k, t
<1>9. /\ t \in Seq(Object) /\ Len(t) = n /\ t[n] = s[k]
      /\ \A i \in 1 .. k - 1 : t[i] = s[i]
      /\ \A i \in k + 1 .. n : t[i - 1] = s[i]
  <2>1. k \in 1 .. Len(s) /\ s \in Seq(Object)
    BY <1>2, <1>6
  <2> QED BY <2>1, MovedToEnd DEF t
<1> HIDE DEF n
<1> DEFINE to(i) == Moved(i, k, n)
<1>10. /\ \A i \in 1 .. n : to(i) \in 1 .. n
       /\ \A m \in 1 .. n : \E i \in 1 .. n : to(i) = m
       /\ \A i, j \in 1 .. n : i < j /\ i # k /\ j # k => to(i) < to(j)
  BY <1>2, <1>6, MovedIs
<1>11. \A i \in 1 .. n : t[to(i)] = s[i]
  <2> SUFFICES ASSUME NEW i \in 1 .. n PROVE t[to(i)] = s[i]
    OBVIOUS
  <2>1. CASE i < k
    BY <1>2, <1>6, <1>9, <2>1 DEF Moved
  <2>2. CASE i = k
    BY <1>2, <1>6, <1>9, <2>2 DEF Moved
  <2>3. CASE i > k
    BY <1>2, <1>6, <1>9, <2>3 DEF Moved
  <2> QED BY <1>2, <1>6, <2>1, <2>2, <2>3
<1> HIDE DEF to
<1>12. DOMAIN t = 1 .. n /\ ToSet(t) = {t[m] : m \in 1 .. n}
  BY <1>9 DEF ToSet
<1>13. ToSet(t) = ToSet(s)
  <2>1. ASSUME NEW m \in 1 .. n PROVE t[m] \in ToSet(s)
    <3>1. PICK i \in 1 .. n : to(i) = m
      BY <1>10
    <3> QED BY <1>2, <1>11, <3>1
  <2>2. ASSUME NEW i \in 1 .. n PROVE s[i] \in ToSet(t)
    BY <1>10, <1>11, <1>12
  <2> QED BY <1>2, <1>12, <2>1, <2>2
<1>14. \A l, m \in 1 .. n : t[l] = t[m] => l = m
  BY <1>3, <1>10, <1>11
<1>15. Len(t) = Cardinality(ToSet(t))
  BY <1>9, <1>14, DistinctCounted
<1>16. NameOf(Last(t)) = Main
  BY <1>6, <1>9 DEF Last
<1> DEFINE at(p) == CHOOSE m \in DOMAIN t : t[m] = p
<1>17. \A i \in 1 .. n : at(s[i]) = to(i)
  BY <1>10, <1>11, <1>12, <1>14
<1> HIDE DEF at
<1>18. ASSUME NEW p \in ToSet(t) \ {Main, Top}, NEW q \in Says(p, {"dependency"}) \ {Main}
       PROVE  at(q) < at(p)
  <2>1. PICK i \in 1 .. n : s[i] = p
    BY <1>2, <1>13
  <2>2. p \in Name /\ NameOf(p) = p /\ ScriptOf(p) = p /\ p \in ToSet(all)
    <3>1. p \in Name /\ p \in ToSet(all)
      BY <1>3, <1>4, <1>13
    <3> QED BY <3>1, Kinds
  <2>3. q \in Needs[p] /\ q \in Name
    <3>1. p \in seen /\ ObjectOf(p) = p /\ DepsOf(p) \subseteq Name
      BY <1>1, <2>2, ListedPlans
    <3>2. q \in DepSet(p)
      BY <2>2, SaysIs
    <3> QED BY <3>1, <3>2 DEF Needs, DepsOf
  <2>4. PICK j \in 1 .. i - 1 : NameOf(s[j]) = q
    BY <1>3, <2>1, <2>2, <2>3
  <2>5. j \in 1 .. n /\ j < i
    BY <1>2
  <2>6. s[j] = q
    BY <1>2, <2>4, <2>5, Kinds DEF NameOf
  <2>7. i # k /\ j # k
    BY <1>6, <2>1, <2>2, <2>4
  <2>8. to(j) < to(i)
    BY <1>10, <2>5, <2>7
  <2> QED BY <1>17, <2>1, <2>5, <2>6, <2>8
<1>19. Ordered(t, Reach(Root), script)
  BY <1>8, <1>13, <1>15, <1>16, <1>18 DEF Ordered, at, Says
<1>20. DependencyOrder'
  BY <1>1, <1>7, <1>19, SameReach, OrderedIsNext
<1> QED BY <1>1, <1>2, <1>7, <1>9, <1>20 DEF Sorts, SortTyped

-----------------------------------------------------------------------------
(***************************************************************************)
(* The inductive invariant.                                                *)
(***************************************************************************)
Reasons ==
  /\ phase = "failed"   => ~Shell \/ \E n \in Name : ~Exits(n)
  /\ phase = "panicked" => ~Known
  /\ phase = "overflow" => ~Acyclic

IInv == CompileTyped /\ Compiles /\ Lists /\ Sorts /\ Reasons

LEMMA SameReasons ==
  ASSUME script' = script
  PROVE  /\ Shell' = Shell /\ Known' = Known /\ Acyclic' = Acyclic
         /\ \A n : Exits(n)' = Exits(n)
<1>1. Shell' = Shell /\ \A n : Exits(n)' = Exits(n)
  BY DEF Shell, Exits
<1>2. \A n, kinds : Says(n, kinds)' = Says(n, kinds)
  BY DEF Says
<1>3. Above' = Above
  BY SameReach DEF Above
<1>4. Known' = Known
  BY <1>2, <1>3 DEF Known
<1>5. \A n : Reach(n)' = Reach(n)
  BY DEF Says, Reach, Refs, Closed
<1>6. Acyclic' = Acyclic
  BY <1>3, <1>5 DEF Acyclic
<1> QED BY <1>1, <1>4, <1>6

LEMMA QuietLists ==
  ASSUME Lists, Sorts, phase \in {"run", "copy", "read"}, phase' \in {"run", "copy", "read", "failed"},
         UNCHANGED <<lists, sorts>>
  PROVE  Lists' /\ Sorts'
BY DEF Lists, ListTyped, Sorts, SortTyped, lists, sorts

LEMMA SameLists ==
  ASSUME Lists, phase \in {"list", "sort"}, stack = <<>>, phase' \in {"sort", "ok"},
         UNCHANGED <<script, stack, seen, all>>
  PROVE  Lists'
<1>1. StackOK /\ ListOK /\ ListTyped
  BY DEF Lists
<1>2. Reach(Root)' = Reach(Root)
  BY SameReach
<1>3. StackOK'
  BY DEF StackOK
<1>4. ListOK'
  BY <1>1, <1>2 DEF ListOK, Names, RefSet
<1> QED BY <1>1, <1>3, <1>4 DEF Lists, ListTyped

LEMMA InitIInv ==
  ASSUME Init
  PROVE  IInv
<1>1. phase = "run" /\ stack = <<>> /\ seen = {} /\ all = <<>> /\ DOMAIN deps = {} /\ resolved = <<>>
  BY DEF Init
<1>2. Lists /\ Sorts /\ Reasons
  BY <1>1, CompilerAssumption DEF Lists, ListTyped, Sorts, SortTyped, Reasons
<1> QED BY <1>2, InitCompiles DEF IInv

LEMMA StepIInv ==
  ASSUME IInv, Next
  PROVE  IInv'
<1>1. CompileTyped /\ Compiles /\ Lists /\ Sorts
  BY DEF IInv
<1>2. CASE Broken
  <2>1. phase = "run" /\ phase' = "run" /\ UNCHANGED <<lists, sorts>>
    BY <1>2 DEF Broken
  <2> QED BY <1>1, <1>2, <2>1, BrokenCompiles, QuietLists DEF IInv, Reasons
<1>3. CASE Declare
  <2>1. phase = "run" /\ phase' = "run" /\ UNCHANGED <<lists, sorts>>
    BY <1>3 DEF Declare
  <2> QED BY <1>1, <1>3, <2>1, DeclareCompiles, QuietLists DEF IInv, Reasons
<1>4. CASE Returns
  <2>1. phase = "run" /\ phase' \in {"copy", "failed"} /\ UNCHANGED <<script, lists, sorts>>
    BY <1>4 DEF Returns
  <2>2. Lists' /\ Sorts'
    BY <1>1, <2>1, QuietLists
  <2>3. CompileTyped' /\ Compiles' /\ (phase' = "failed" => \E n \in Name : ~Exits(n))
    BY <1>1, <1>4, ReturnsCompiles
  <2> QED BY <2>1, <2>2, <2>3, SameReasons DEF IInv, Reasons
<1>5. CASE Copy
  <2>1. phase = "copy" /\ phase' = "copy" /\ UNCHANGED <<lists, sorts>>
    BY <1>5 DEF Copy
  <2> QED BY <1>1, <1>5, <2>1, CopyCompiles, QuietLists DEF IInv, Reasons
<1>6. CASE Copied
  <2>1. phase = "copy" /\ phase' \in {"run", "read"} /\ UNCHANGED <<lists, sorts>>
    BY <1>6 DEF Copied
  <2> QED BY <1>1, <1>6, <2>1, CopiedCompiles, QuietLists DEF IInv, Reasons
<1>7. CASE Read
  <2>1. phase = "read" /\ phase' \in {"failed", "list"} /\ UNCHANGED <<script, seen, all, deps, resolved>>
    BY <1>7 DEF Read, sorts
  <2>2. CompileTyped' /\ Compiles' /\ (phase' = "failed" => ~Shell) /\ Lists'
    BY <1>1, <1>7, ReadCompiles, ReadLists
  <2>3. Sorts'
    BY <1>1, <2>1 DEF Sorts, SortTyped
  <2> QED BY <2>1, <2>2, <2>3, SameReasons DEF IInv, Reasons
<1>8. CASE Follow
  <2>1. CompileTyped' /\ Compiles' /\ AllCompiled
    BY <1>1, <1>8, LaterCompiles
  <2>2. /\ phase = "list" /\ phase' \in {"list", "panicked", "overflow"}
        /\ UNCHANGED <<script, seen, deps, resolved>>
    BY <1>8 DEF Follow, sorts
  <2>3. Lists' /\ (phase' = "panicked" => ~Known) /\ (phase' = "overflow" => ~Acyclic)
    BY <1>1, <1>8, <2>1, FollowEnds
  <2>4. Sorts'
    BY <1>1, <2>2 DEF Sorts, SortTyped
  <2> QED BY <2>1, <2>2, <2>3, <2>4, SameReasons DEF IInv, Reasons
<1>9. CASE Visited
  <2>1. CompileTyped' /\ Compiles' /\ AllCompiled
    BY <1>1, <1>9, LaterCompiles
  <2>2. phase = "list" /\ phase' = "list" /\ UNCHANGED <<deps, resolved>>
    BY <1>9 DEF Visited, sorts
  <2>3. Sorts'
    BY <1>1, <2>2 DEF Sorts, SortTyped
  <2> QED BY <1>1, <1>9, <2>1, <2>2, <2>3, VisitedLists DEF IInv, Reasons
<1>10. CASE Listed
  <2>1. CompileTyped' /\ Compiles' /\ AllCompiled
    BY <1>1, <1>10, LaterCompiles
  <2>2. phase = "list" /\ stack = <<>> /\ UNCHANGED <<script, stack, seen, all>>
    BY <1>10 DEF Listed, lists
  <2>3. Sorts' /\ phase' = "sort"
    BY <1>1, <1>10, <2>1, ListedSorts
  <2>4. Lists'
    BY <1>1, <2>2, <2>3, SameLists
  <2> QED BY <2>1, <2>3, <2>4 DEF IInv, Reasons
<1>11. CASE Round
  <2>1. CompileTyped' /\ Compiles' /\ AllCompiled
    BY <1>1, <1>11, LaterCompiles
  <2>2. phase = "sort" /\ stack = <<>> /\ UNCHANGED <<script, stack, seen, all>>
    BY <1>1, <1>11 DEF Round, Rounds, lists, Lists
  <2>3. Sorts' /\ phase' = "sort"
    BY <1>1, <1>11, <2>1, RoundSorts
  <2>4. Lists'
    BY <1>1, <2>2, <2>3, SameLists
  <2> QED BY <2>1, <2>3, <2>4 DEF IInv, Reasons
<1>12. CASE Sorted
  <2>1. CompileTyped' /\ Compiles' /\ AllCompiled
    BY <1>1, <1>12, LaterCompiles
  <2>2. phase = "sort" /\ stack = <<>> /\ UNCHANGED <<script, stack, seen, all>>
    BY <1>1, <1>12 DEF Sorted, lists, Lists
  <2>3. Sorts' /\ phase' = "ok"
    BY <1>1, <1>12, <2>1, SortedSorts
  <2>4. Lists'
    BY <1>1, <2>2, <2>3, SameLists
  <2> QED BY <2>1, <2>3, <2>4 DEF IInv, Reasons
<1> QED BY <1>2, <1>3, <1>4, <1>5, <1>6, <1>7, <1>8, <1>9, <1>10, <1>11, <1>12 DEF Next

LEMMA SameVars ==
  ASSUME IInv, UNCHANGED vars
  PROVE  IInv'
<1>1. /\ UNCHANGED <<script, phase, left, cur, calls, half, failed, pipe, open, buf, compiled>>
      /\ UNCHANGED <<stack, seen, all, deps, resolved>>
  BY DEF vars, child, lists, sorts
<1>2. CompileTyped'
  BY <1>1 DEF IInv, CompileTyped
<1>3. At' = At /\ Declares' = Declares
  BY <1>1 DEF At, Declares
<1>4. Running' = Running /\ Held' = Held
  BY <1>1, <1>3 DEF Running, Held
<1>5. Compiles'
  BY <1>1, <1>4 DEF IInv, Compiles, Good, Ran, Wanted, Exits, Shell
<1>6. Reach(Root)' = Reach(Root)
  BY <1>1, SameReach
<1>7. StackOK' = StackOK
  BY <1>1, <1>6 DEF StackOK
<1>8. ListOK' = ListOK
  BY <1>1, <1>6 DEF ListOK, Names, RefSet
<1>9. Lists'
  BY <1>1, <1>7, <1>8 DEF IInv, Lists, ListTyped
<1>10. DependencyOrder' = DependencyOrder
  BY <1>1, <1>6, OrderedIs, OrderedIsNext
<1>11. Needs' = Needs
  BY <1>1, SameNeeds
<1>12. Sorts'
  BY <1>1, <1>10, <1>11 DEF IInv, Sorts, SortTyped, SortOK
<1>13. Reasons'
  BY <1>1, SameReasons DEF IInv, Reasons
<1> QED BY <1>2, <1>5, <1>9, <1>12, <1>13 DEF IInv

LEMMA Inductive == Spec => []IInv
<1>1. Init => IInv
  BY InitIInv
<1>2. IInv /\ [Next]_vars => IInv'
  BY StepIInv, SameVars
<1> QED BY <1>1, <1>2, PTL DEF Spec

(* Types hold, and a pipe never holds more than its capacity: for every    *)
(* manifest, whatever its scripts declare (compile.go).                    *)
THEOREM TypeCorrect == Spec => []TypeOK
<1>1. IInv => TypeOK
  <2> SUFFICES ASSUME IInv PROVE TypeOK
    OBVIOUS
  <2>1. script \in [Name -> Seq(Command)]
    BY CompilerAssumption DEF IInv, CompileTyped
  <2> QED BY <2>1 DEF IInv, CompileTyped, Lists, ListTyped, Sorts, SortTyped, TypeOK, Word, Phases, Call
<1> QED BY <1>1, Inductive, PTL

(* A manifest is listed only when everything was right, and each other end *)
(* of Compile and Plan.All has its reason, for every manifest.             *)
THEOREM EndsAreJustified == Spec => []EndsForAReason
<1>1. IInv => EndsForAReason
  <2> SUFFICES ASSUME IInv PROVE EndsForAReason
    OBVIOUS
  <2>1. ASSUME phase = "ok"
        PROVE  Fits /\ Known /\ Acyclic /\ Shell /\ \A n \in Name : Exits(n)
    <3>1. AllCompiled /\ Shell
      BY <2>1 DEF IInv, CompileTyped, Compiles, AllCompiled
    <3>2. \A n \in Name : 2 * Declared(script[n]) <= Cap /\ Exits(n)
      BY <3>1 DEF AllCompiled, Good, Ran
    <3>3. Known /\ Acyclic
      BY <2>1, <3>1, ListedIsReached DEF IInv
    <3>4. Fits
      BY <3>1, <3>2 DEF AllCompiled, Fits, Fitting
    <3> QED BY <3>1, <3>2, <3>3, <3>4
  <2> QED BY <2>1 DEF IInv, Reasons, EndsForAReason
<1> QED BY <1>1, Inductive, PTL

(* What Plan.All returns is each plan that the main plan reaches, once,    *)
(* after what it depends on, and the main plan at the end.                 *)
THEOREM InDependencyOrder == Spec => []DependencyOrder
<1>1. IInv => DependencyOrder
  BY DEF IInv, Sorts, DependencyOrder
<1> QED BY <1>1, Inductive, PTL
=============================================================================
