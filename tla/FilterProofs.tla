---------------------------- MODULE FilterProofs ----------------------------
(***************************************************************************)
(* What Filter returns, for every sequence.  A claim about every number up *)
(* to some n is proved by looking at the least one that it fails for.      *)
(***************************************************************************)
EXTENDS Filter, Integers, FiniteSets, FiniteSetTheorems, WellFoundedInduction, SequencesExt, TLAPS

(* Every set of numbers that is not empty has a least one: m < n makes     *)
(* 1 .. m a strict subset of 1 .. n, which well-founds the order.          *)
LEMMA Least ==
  ASSUME NEW T \in SUBSET Nat, T # {}
  PROVE  \E x \in T : \A y \in T : x <= y
<1> DEFINE R == StrictSubsetOrdering(Nat)
           TT == {1 .. n : n \in T}
<1>1. IsWellFoundedOn(R, FiniteSubsetsOf(Nat))
  BY FS_StrictSubsetOrderingWellFounded
<1>2. TT \subseteq FiniteSubsetsOf(Nat)
  <2>1. \A n \in T : IsFiniteSet(1 .. n) /\ 1 .. n \in SUBSET Nat
    BY FS_Interval
  <2> QED BY <2>1 DEF FiniteSubsetsOf
<1>3. TT # {}
  OBVIOUS
<1> HIDE DEF R, TT
<1>4. PICK s \in TT : \A y \in TT : <<y, s>> \notin R
  BY <1>1, <1>2, <1>3, WFMin, Zenon
<1>5. PICK n \in T : s = 1 .. n
  BY <1>4 DEF TT
<1>6. ASSUME NEW m \in T, m < n PROVE FALSE
  <2>1. 1 .. m \in TT /\ <<1 .. m, s>> \notin R
    BY <1>4 DEF TT
  <2>2. 1 .. m \subseteq 1 .. n /\ n \in 1 .. n /\ n \notin 1 .. m /\ 1 .. n \in SUBSET Nat
    BY <1>6
  <2> QED BY <2>1, <2>2, <1>5 DEF R, StrictSubsetOrdering
<1> QED BY <1>6

-----------------------------------------------------------------------------
(* Filter's function, over the first n elements of s. *)
Steps(g, s, S, n) == g = [j \in 0 .. n |->
   IF j = 0 THEN <<>> ELSE IF s[j] \in S THEN Append(g[j - 1], s[j]) ELSE g[j - 1]]

(* Every prefix has such a function. *)
LEMMA StepsExist ==
  ASSUME NEW T, NEW s \in Seq(T), NEW S, NEW n \in 0 .. Len(s)
  PROVE  \E g : Steps(g, s, S, n)
<1> DEFINE Bad == {j \in 0 .. Len(s) : ~ \E g : Steps(g, s, S, j)}
<1> SUFFICES ASSUME Bad # {} PROVE FALSE
  OBVIOUS
<1>1. Bad \in SUBSET Nat
  OBVIOUS
<1> HIDE DEF Bad
<1>2. PICK j \in Bad : \A k \in Bad : j <= k
  BY <1>1, Least
<1>3. j \in 0 .. Len(s) /\ ~ \E g : Steps(g, s, S, j)
  BY <1>2 DEF Bad
<1>4. j # 0
  <2>1. Steps([k \in 0 .. 0 |-> <<>>], s, S, 0)
    BY DEF Steps
  <2> QED BY <2>1, <1>3
<1>5. PICK g : Steps(g, s, S, j - 1)
  BY <1>2, <1>3, <1>4 DEF Bad
<1> DEFINE h == [k \in 0 .. j |-> IF k < j THEN g[k] ELSE IF s[j] \in S THEN Append(g[j - 1], s[j]) ELSE g[j - 1]]
<1>6. \A k \in 0 .. j : h[k] = IF k = 0 THEN <<>> ELSE IF s[k] \in S THEN Append(h[k - 1], s[k]) ELSE h[k - 1]
  <2> TAKE k \in 0 .. j
  <2>1. CASE k = j
    BY <2>1, <1>3, <1>4
  <2>2. CASE k # j
    <3>1. k \in 0 .. (j - 1) /\ (k # 0 => k - 1 \in 0 .. (j - 1))
      BY <2>2, <1>3
    <3>2. g[k] = IF k = 0 THEN <<>> ELSE IF s[k] \in S THEN Append(g[k - 1], s[k]) ELSE g[k - 1]
      BY <1>5, <3>1 DEF Steps
    <3> QED BY <3>1, <3>2, <1>3
  <2> QED BY <2>1, <2>2
<1>7. Steps(h, s, S, j)
  BY <1>6 DEF Steps
<1> QED BY <1>7, <1>3

LEMMA FilterSteps ==
  ASSUME NEW T, NEW s \in Seq(T), NEW S
  PROVE  \E g : Steps(g, s, S, Len(s)) /\ Filter(s, S) = g[Len(s)]
<1> DEFINE f == CHOOSE g : Steps(g, s, S, Len(s))
<1>1. Steps(f, s, S, Len(s))
  <2>1. Len(s) \in 0 .. Len(s)
    OBVIOUS
  <2> QED BY <2>1, StepsExist
<1>2. Filter(s, S) = f[Len(s)]
  BY DEF Filter, Steps
<1> QED BY <1>1, <1>2

(* What is known of the first n steps. *)
Partial(q, s, S, n) ==
  /\ q \in Seq(S)
  /\ Len(q) <= n
  /\ {q[i] : i \in DOMAIN q} = {s[i] : i \in 1 .. n} \cap S

LEMMA PartialStep ==
  ASSUME NEW T, NEW s \in Seq(T), NEW S, NEW n \in 1 .. Len(s), NEW q, Partial(q, s, S, n - 1)
  PROVE  Partial(IF s[n] \in S THEN Append(q, s[n]) ELSE q, s, S, n)
<1>1. {s[i] : i \in 1 .. n} = {s[i] : i \in 1 .. (n - 1)} \cup {s[n]}
  OBVIOUS
<1>2. CASE s[n] \in S
  <2>1. Append(q, s[n]) \in Seq(S) /\ Len(Append(q, s[n])) <= n
    BY <1>2 DEF Partial
  <2>2. {Append(q, s[n])[i] : i \in DOMAIN Append(q, s[n])} = {q[i] : i \in DOMAIN q} \cup {s[n]}
    <3>1. q \in Seq(S) /\ DOMAIN Append(q, s[n]) = 1 .. (Len(q) + 1) /\ DOMAIN q = 1 .. Len(q)
      BY <1>2 DEF Partial
    <3>2. \A i \in DOMAIN q : Append(q, s[n])[i] = q[i]
      BY <3>1, <1>2
    <3>3. Append(q, s[n])[Len(q) + 1] = s[n]
      BY <3>1, <1>2
    <3> HIDE DEF Partial
    <3> QED BY <3>1, <3>2, <3>3
  <2> QED BY <1>1, <1>2, <2>1, <2>2 DEF Partial
<1>3. CASE s[n] \notin S
  BY <1>1, <1>3 DEF Partial
<1> QED BY <1>2, <1>3

(***************************************************************************)
(* Filter keeps the elements of s that are in S, no other, and makes s no  *)
(* longer: what a loop that skips some of the elements of a list collects. *)
(* (Copy.Run, AtomicCopy.Run, resolveOnePlan)                              *)
(***************************************************************************)
THEOREM FilterProperties ==
  ASSUME NEW T, NEW s \in Seq(T), NEW S
  PROVE  /\ Filter(s, S) \in Seq(T \cap S)
         /\ Len(Filter(s, S)) <= Len(s)
         /\ ToSet(Filter(s, S)) = ToSet(s) \cap S
<1>1. PICK g : Steps(g, s, S, Len(s)) /\ Filter(s, S) = g[Len(s)]
  BY FilterSteps
<1> DEFINE Bad == {n \in 0 .. Len(s) : ~Partial(g[n], s, S, n)}
<1>2. Bad = {}
  <2> SUFFICES ASSUME Bad # {} PROVE FALSE
    OBVIOUS
  <2>1. Bad \in SUBSET Nat
    OBVIOUS
  <2> HIDE DEF Bad
  <2>2. PICK n \in Bad : \A k \in Bad : n <= k
    BY <2>1, Least
  <2>3. n \in 0 .. Len(s) /\ ~Partial(g[n], s, S, n)
    BY <2>2 DEF Bad
  <2>4. CASE n = 0
    <3>1. g[0] = <<>>
      BY <1>1, <2>3, <2>4 DEF Steps
    <3> QED BY <2>3, <2>4, <3>1 DEF Partial
  <2>5. CASE n # 0
    <3>1. n - 1 \in 0 .. Len(s) /\ n \in 1 .. Len(s)
      BY <2>3, <2>5
    <3>2. Partial(g[n - 1], s, S, n - 1)
      BY <2>2, <3>1 DEF Bad
    <3>3. g[n] = IF s[n] \in S THEN Append(g[n - 1], s[n]) ELSE g[n - 1]
      BY <1>1, <2>3, <2>5 DEF Steps
    <3> QED BY <2>3, <3>1, <3>2, <3>3, PartialStep
  <2> QED BY <2>4, <2>5
<1>3. Partial(Filter(s, S), s, S, Len(s))
  BY <1>1, <1>2
<1> DEFINE q == Filter(s, S)
<1>4. q \in Seq(S) /\ Len(q) <= Len(s) /\ {q[i] : i \in DOMAIN q} = {s[i] : i \in 1 .. Len(s)} \cap S
  BY <1>3 DEF Partial
<1> HIDE DEF q
<1>5. {s[i] : i \in 1 .. Len(s)} = ToSet(s)
  BY DEF ToSet
<1>6. ToSet(q) = ToSet(s) \cap S
  BY <1>4, <1>5 DEF ToSet
<1>7. \A i \in DOMAIN q : q[i] \in T
  <2>1. ToSet(s) \subseteq T
    BY DEF ToSet
  <2> QED BY <1>6, <2>1 DEF ToSet
<1>8. q \in Seq(T \cap S)
  BY <1>4, <1>7
<1> QED BY <1>4, <1>6, <1>8 DEF q
=============================================================================
