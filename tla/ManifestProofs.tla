--------------------------- MODULE ManifestProofs ---------------------------
(***************************************************************************)
(* Theorems about Manifest: for any file names and kinds, any set of       *)
(* manifest directories that are finite trees, and any order of the calls. *)
(***************************************************************************)
EXTENDS Manifest, FilterProofs, SequenceTheorems

-----------------------------------------------------------------------------
(* Sequences *)

LEMMA Parts ==
  ASSUME NEW S, NEW s \in Seq(S), NEW r \in Seq(S)
  PROVE  /\ s \o r \in Seq(S) /\ Len(s \o r) = Len(s) + Len(r)
         /\ \A i \in 1 .. Len(s) : (s \o r)[i] = s[i]
         /\ \A i \in 1 .. Len(r) : (s \o r)[Len(s) + i] = r[i]
         /\ Len(s) \in Nat /\ Len(r) \in Nat
  OBVIOUS

LEMMA Slice ==
  ASSUME NEW S, NEW s \in Seq(S), NEW m \in Nat \ {0}, NEW n \in Nat, m <= n + 1, n <= Len(s)
  PROVE  /\ SubSeq(s, m, n) \in Seq(S) /\ Len(SubSeq(s, m, n)) = n + 1 - m
         /\ \A i \in 1 .. n + 1 - m : SubSeq(s, m, n)[i] = s[m - 1 + i]
<1>0. Len(s) \in Nat /\ \A i \in 1 .. Len(s) : s[i] \in S
  OBVIOUS
<1>1. \A i \in m .. n : s[i] \in S
  BY <1>0
<1>2. /\ SubSeq(s, m, n) \in Seq(S)
      /\ Len(SubSeq(s, m, n)) = IF m <= n THEN n - m + 1 ELSE 0
      /\ \A i \in 1 .. n - m + 1 : SubSeq(s, m, n)[i] = s[m + i - 1]
  BY <1>0, <1>1, SubSeqProperties
<1> QED BY <1>0, <1>2

LEMMA SameSeq ==
  ASSUME NEW S, NEW s \in Seq(S), NEW r \in Seq(S), Len(s) = Len(r),
         \A i \in 1 .. Len(s) : s[i] = r[i]
  PROVE  s = r
  BY SeqEqual

LEMMA SuffixIs ==
  ASSUME NEW S, NEW s \in Seq(S), NEW r \in Seq(S)
  PROVE  /\ IsPrefix(s, s \o r)
         /\ SubSeq(s \o r, Len(s) + 1, Len(s \o r)) = r
<1> DEFINE p == s \o r
<1>1. /\ p \in Seq(S) /\ Len(p) = Len(s) + Len(r)
      /\ \A i \in 1 .. Len(s) : p[i] = s[i]
      /\ \A i \in 1 .. Len(r) : p[Len(s) + i] = r[i]
      /\ Len(s) \in Nat /\ Len(r) \in Nat
  BY Parts
<1> HIDE DEF p
<1>2. /\ SubSeq(p, 1, Len(s)) \in Seq(S) /\ Len(SubSeq(p, 1, Len(s))) = Len(s)
      /\ \A i \in 1 .. Len(s) : SubSeq(p, 1, Len(s))[i] = p[i]
  BY <1>1, Slice
<1>3. /\ SubSeq(s, 1, Len(s)) \in Seq(S) /\ Len(SubSeq(s, 1, Len(s))) = Len(s)
      /\ \A i \in 1 .. Len(s) : SubSeq(s, 1, Len(s))[i] = s[i]
  BY <1>1, Slice
<1>4. SubSeq(p, 1, Len(s)) = SubSeq(s, 1, Len(s))
  BY <1>1, <1>2, <1>3, SameSeq
<1>5. /\ SubSeq(p, Len(s) + 1, Len(p)) \in Seq(S)
      /\ Len(SubSeq(p, Len(s) + 1, Len(p))) = Len(r)
      /\ \A i \in 1 .. Len(r) : SubSeq(p, Len(s) + 1, Len(p))[i] = p[Len(s) + i]
  BY <1>1, Slice
<1>6. SubSeq(p, Len(s) + 1, Len(p)) = r
  BY <1>1, <1>5, SameSeq
<1> QED BY <1>1, <1>4, <1>6 DEF IsPrefix, p

LEMMA PrefixIs ==
  ASSUME NEW S, NEW s \in Seq(S), NEW p \in Seq(S), IsPrefix(s, p)
  PROVE  /\ SubSeq(p, Len(s) + 1, Len(p)) \in Seq(S)
         /\ p = s \o SubSeq(p, Len(s) + 1, Len(p))
         /\ Len(s) <= Len(p) /\ \A i \in 1 .. Len(s) : p[i] = s[i]
<1> DEFINE r == SubSeq(p, Len(s) + 1, Len(p))
<1>1. Len(s) \in Nat /\ Len(p) \in Nat /\ Len(s) <= Len(p) /\ SubSeq(s, 1, Len(s)) = SubSeq(p, 1, Len(s))
  BY DEF IsPrefix
<1>2. \A i \in 1 .. Len(s) : SubSeq(p, 1, Len(s))[i] = p[i] /\ SubSeq(s, 1, Len(s))[i] = s[i]
  BY <1>1, Slice
<1>3. /\ r \in Seq(S) /\ Len(r) = Len(p) - Len(s)
      /\ \A i \in 1 .. Len(p) - Len(s) : r[i] = p[Len(s) + i]
  BY <1>1, Slice
<1> HIDE DEF r
<1>4. /\ s \o r \in Seq(S) /\ Len(s \o r) = Len(p)
      /\ \A i \in 1 .. Len(s) : (s \o r)[i] = s[i]
      /\ \A i \in 1 .. Len(r) : (s \o r)[Len(s) + i] = r[i]
  BY <1>1, <1>3, Parts
<1>5. ASSUME NEW i \in 1 .. Len(p) PROVE p[i] = (s \o r)[i]
  <2>1. CASE i <= Len(s)
    BY <1>1, <1>2, <1>4, <2>1
  <2>2. CASE i > Len(s)
    <3>1. i - Len(s) \in 1 .. Len(r) /\ Len(s) + (i - Len(s)) = i
      BY <1>1, <1>3, <2>2
    <3> QED BY <1>3, <1>4, <3>1
  <2>3. i \in Nat /\ Len(s) \in Nat
    BY <1>1
  <2>4. i <= Len(s) \/ i > Len(s)
    BY <2>3
  <2> QED BY <2>1, <2>2, <2>4
<1>6. p = s \o r
  BY <1>4, <1>5, SameSeq
<1> QED BY <1>1, <1>2, <1>3, <1>6 DEF r

(* What two sequences have in front, the longer is a prefix of. *)
LEMMA PrefixBy ==
  ASSUME NEW S, NEW s \in Seq(S), NEW p \in Seq(S), Len(s) <= Len(p),
         \A i \in 1 .. Len(s) : p[i] = s[i]
  PROVE  IsPrefix(s, p)
<1>1. Len(s) \in Nat /\ Len(p) \in Nat
  OBVIOUS
<1>2. /\ SubSeq(s, 1, Len(s)) \in Seq(S) /\ Len(SubSeq(s, 1, Len(s))) = Len(s)
      /\ SubSeq(p, 1, Len(s)) \in Seq(S) /\ Len(SubSeq(p, 1, Len(s))) = Len(s)
      /\ \A i \in 1 .. Len(s) : SubSeq(p, 1, Len(s))[i] = p[i] /\ SubSeq(s, 1, Len(s))[i] = s[i]
  BY <1>1, Slice
<1>3. SubSeq(s, 1, Len(s)) = SubSeq(p, 1, Len(s))
  BY <1>2, SameSeq
<1> QED BY <1>1, <1>3 DEF IsPrefix

LEMMA FrontLast ==
  ASSUME NEW S, NEW s \in Seq(S), s # <<>>
  PROVE  /\ Front(s) \in Seq(S) /\ Len(Front(s)) = Len(s) - 1 /\ Len(s) \in Nat \ {0}
         /\ \A i \in 1 .. Len(s) - 1 : Front(s)[i] = s[i]
         /\ Last(s) = s[Len(s)] /\ Last(s) \in S /\ Head(s) = s[1] /\ Head(s) \in S
         /\ s = Append(Front(s), Last(s))
         /\ s = Front(s) \o <<Last(s)>>
<1>1. Len(s) \in Nat \ {0} /\ \A i \in 1 .. Len(s) : s[i] \in S
  OBVIOUS
<1>2. /\ Front(s) \in Seq(S) /\ Len(Front(s)) = Len(s) - 1
      /\ \A i \in 1 .. Len(s) - 1 : Front(s)[i] = s[i]
  <2>1. Len(s) - 1 \in Nat /\ Len(s) - 1 <= Len(s) /\ 1 <= (Len(s) - 1) + 1
    BY <1>1
  <2>2. /\ SubSeq(s, 1, Len(s) - 1) \in Seq(S) /\ Len(SubSeq(s, 1, Len(s) - 1)) = Len(s) - 1
        /\ \A i \in 1 .. Len(s) - 1 : SubSeq(s, 1, Len(s) - 1)[i] = s[i]
    <3>1. \A n \in Nat : n <= Len(s) =>
            /\ SubSeq(s, 1, n) \in Seq(S) /\ Len(SubSeq(s, 1, n)) = n
            /\ \A i \in 1 .. n : SubSeq(s, 1, n)[i] = s[i]
      BY Slice
    <3> QED BY <2>1, <3>1
  <2> QED BY <2>2 DEF Front
<1>3. Last(s) = s[Len(s)] /\ Last(s) \in S /\ Head(s) = s[1] /\ Head(s) \in S
  BY <1>1 DEF Last
<1> DEFINE u == Front(s) \o <<Last(s)>>
<1>4. /\ u \in Seq(S) /\ Len(u) = Len(s)
      /\ \A i \in 1 .. Len(s) - 1 : u[i] = Front(s)[i]
      /\ u[Len(s)] = Last(s)
  <2>1. <<Last(s)>> \in Seq(S) /\ Len(<<Last(s)>>) = 1 /\ <<Last(s)>>[1] = Last(s)
    BY <1>3
  <2>2. /\ u \in Seq(S) /\ Len(u) = Len(Front(s)) + 1
        /\ \A i \in 1 .. Len(Front(s)) : u[i] = Front(s)[i]
        /\ u[Len(Front(s)) + 1] = Last(s)
    BY <1>2, <2>1, Parts
  <2> QED BY <1>1, <1>2, <2>2
<1>5. s = u
  <2> HIDE DEF u
  <2>1. \A i \in 1 .. Len(s) : i \in 1 .. Len(s) - 1 \/ i = Len(s)
    BY <1>1
  <2>2. \A i \in 1 .. Len(s) : s[i] = u[i]
    BY <1>2, <1>3, <1>4, <2>1
  <2> QED BY <1>4, <2>2, SameSeq
<1>6. Append(Front(s), Last(s)) = u
  BY <1>2, <1>3, AppendIsConcat
<1> QED BY <1>1, <1>2, <1>3, <1>5, <1>6

LEMMA Appended ==
  ASSUME NEW S, NEW s \in Seq(S), NEW x \in S
  PROVE  /\ s \o <<x>> \in Seq(S) /\ Append(s, x) = s \o <<x>>
         /\ Len(s \o <<x>>) = Len(s) + 1 /\ s \o <<x>> # <<>>
         /\ \A i \in 1 .. Len(s) : (s \o <<x>>)[i] = s[i]
         /\ (s \o <<x>>)[Len(s) + 1] = x
         /\ Front(s \o <<x>>) = s /\ Last(s \o <<x>>) = x
<1> DEFINE u == s \o <<x>>
<1>1. <<x>> \in Seq(S) /\ Len(<<x>>) = 1 /\ <<x>>[1] = x
  OBVIOUS
<1>2. /\ u \in Seq(S) /\ Len(u) = Len(s) + 1
      /\ \A i \in 1 .. Len(s) : u[i] = s[i]
      /\ u[Len(s) + 1] = x /\ Len(s) \in Nat
  BY <1>1, Parts
<1>3. Append(s, x) = u
  BY AppendIsConcat
<1> HIDE DEF u
<1>4. u # <<>>
  BY <1>2
<1>5. /\ Front(u) \in Seq(S) /\ Len(Front(u)) = Len(s)
      /\ \A i \in 1 .. Len(s) : Front(u)[i] = u[i]
  BY <1>2, Slice DEF Front
<1>6. Front(u) = s
  BY <1>2, <1>5, SameSeq
<1>7. Last(u) = x
  BY <1>2 DEF Last
<1> QED BY <1>2, <1>3, <1>4, <1>6, <1>7 DEF u

(* A prefix of a prefix is one, of the same sequence. *)
LEMMA SliceOfSlice ==
  ASSUME NEW S, NEW s \in Seq(S), NEW n \in Nat, n <= Len(s), NEW k \in 0 .. n
  PROVE  SubSeq(SubSeq(s, 1, n), 1, k) = SubSeq(s, 1, k)
<1> DEFINE u == SubSeq(s, 1, n)
<1>1. u \in Seq(S) /\ Len(u) = n /\ \A i \in 1 .. n : u[i] = s[i]
  BY Slice
<1>2. Len(s) \in Nat /\ k \in Nat /\ k <= n /\ k <= Len(s)
  OBVIOUS
<1> HIDE DEF u
<1>3. SubSeq(u, 1, k) \in Seq(S) /\ Len(SubSeq(u, 1, k)) = k /\ \A i \in 1 .. k : SubSeq(u, 1, k)[i] = u[i]
  BY <1>1, <1>2, Slice
<1>4. SubSeq(s, 1, k) \in Seq(S) /\ Len(SubSeq(s, 1, k)) = k /\ \A i \in 1 .. k : SubSeq(s, 1, k)[i] = s[i]
  BY <1>2, Slice
<1>5. \A i \in 1 .. k : SubSeq(u, 1, k)[i] = SubSeq(s, 1, k)[i]
  BY <1>1, <1>2, <1>3, <1>4
<1>6. SubSeq(u, 1, k) = SubSeq(s, 1, k)
  BY <1>3, <1>4, <1>5, SameSeq
<1> QED BY <1>6 DEF u

LEMMA Whole ==
  ASSUME NEW S, NEW s \in Seq(S)
  PROVE  SubSeq(s, 1, Len(s)) = s /\ SubSeq(s, 1, 0) = <<>>
<1>1. Len(s) \in Nat
  OBVIOUS
<1>2. /\ SubSeq(s, 1, Len(s)) \in Seq(S) /\ Len(SubSeq(s, 1, Len(s))) = Len(s)
      /\ \A i \in 1 .. Len(s) : SubSeq(s, 1, Len(s))[i] = s[i]
  BY <1>1, Slice
<1>3. SubSeq(s, 1, 0) \in Seq(S) /\ Len(SubSeq(s, 1, 0)) = 0
  BY <1>1, Slice
<1> QED BY <1>2, <1>3, SameSeq

-----------------------------------------------------------------------------
(* Trees *)

LEMMA Names ==
  /\ MainFile \in Part /\ PlanFile \in Part /\ PlansDir \in Part /\ Kinds \subseteq Part
  /\ PlansDir \notin Kinds /\ MainFile # PlanFile /\ MainFile # PlansDir /\ PlanFile # PlansDir
  /\ MainFile \notin Kinds /\ PlanFile \notin Kinds
  BY ManifestAssumption

LEMMA FiniteRange ==
  ASSUME NEW g, IsFiniteSet(DOMAIN g)
  PROVE  IsFiniteSet({g[x] : x \in DOMAIN g})
<1> DEFINE T == {g[x] : x \in DOMAIN g}
           h == [x \in DOMAIN g |-> g[x]]
<1>1. h \in Surjection(DOMAIN g, T)
  BY DEF Surjection
<1> QED BY <1>1, FS_Surjection, Zenon

LEMMA BelowIs ==
  ASSUME NEW t, DOMAIN t \subseteq Seq(Part), NEW dir \in Seq(Part)
  PROVE  \A q : q \in Below(t, dir) <=> q \in Seq(Part) /\ dir \o q \in DOMAIN t
<1>1. ASSUME NEW q \in Below(t, dir) PROVE q \in Seq(Part) /\ dir \o q \in DOMAIN t
  <2>1. PICK p \in DOMAIN t : IsPrefix(dir, p) /\ q = SubSeq(p, Len(dir) + 1, Len(p))
    BY <1>1 DEF Below
  <2>2. p \in Seq(Part)
    BY <2>1
  <2>3. SubSeq(p, Len(dir) + 1, Len(p)) \in Seq(Part) /\ p = dir \o SubSeq(p, Len(dir) + 1, Len(p))
    BY <2>1, <2>2, PrefixIs
  <2> QED BY <2>1, <2>3
<1>2. ASSUME NEW q \in Seq(Part), dir \o q \in DOMAIN t PROVE q \in Below(t, dir)
  <2>1. IsPrefix(dir, dir \o q) /\ SubSeq(dir \o q, Len(dir) + 1, Len(dir \o q)) = q
    BY SuffixIs
  <2> QED BY <1>2, <2>1 DEF Below
<1> QED BY <1>1, <1>2

LEMMA PlanDirsAre ==
  ASSUME NEW t, IsTree(t)
  PROVE  /\ \A p : p \in PlanDirs(t) <=>
                     /\ p \in Seq(Part) /\ p # <<>> /\ p[1] = PlansDir
                     /\ p \o <<PlanFile>> \in DOMAIN t
         /\ IsFiniteSet(PlanDirs(t)) /\ Cardinality(PlanDirs(t)) \in Nat
<1>1. DOMAIN t \subseteq Seq(Part) /\ <<>> \notin DOMAIN t /\ IsFiniteSet(DOMAIN t)
  BY DEF IsTree
<1>2. ASSUME NEW p \in PlanDirs(t)
      PROVE  p \in Seq(Part) /\ p # <<>> /\ p[1] = PlansDir /\ p \o <<PlanFile>> \in DOMAIN t
  <2>1. PICK f \in DOMAIN t : Head(f) = PlansDir /\ Last(f) = PlanFile /\ p = Front(f)
    BY <1>2 DEF PlanDirs
  <2>2. f \in Seq(Part) /\ f # <<>>
    BY <1>1, <2>1
  <2>3. /\ Front(f) \in Seq(Part) /\ Len(Front(f)) = Len(f) - 1 /\ Len(f) \in Nat \ {0}
        /\ \A i \in 1 .. Len(f) - 1 : Front(f)[i] = f[i]
        /\ Last(f) = f[Len(f)] /\ Head(f) = f[1] /\ f = Front(f) \o <<Last(f)>>
    BY <2>2, FrontLast
  <2>4. Len(f) # 1
    BY <2>1, <2>3, Names
  <2>5. 1 \in 1 .. Len(f) - 1
    BY <2>3, <2>4
  <2>6. p # <<>>
    BY <2>1, <2>3, <2>4
  <2> QED BY <2>1, <2>3, <2>5, <2>6
<1>3. ASSUME NEW p \in Seq(Part), p # <<>>, p[1] = PlansDir, p \o <<PlanFile>> \in DOMAIN t
      PROVE  p \in PlanDirs(t)
  <2> DEFINE f == p \o <<PlanFile>>
  <2>1. /\ f \in Seq(Part) /\ f # <<>> /\ Front(f) = p /\ Last(f) = PlanFile
        /\ \A i \in 1 .. Len(p) : f[i] = p[i]
    BY Appended, Names
  <2>2. 1 \in 1 .. Len(p)
    BY <1>3
  <2> HIDE DEF f
  <2>3. Head(f) = f[1]
    BY <2>1
  <2>4. Head(f) = PlansDir
    BY <1>3, <2>1, <2>2, <2>3
  <2> QED BY <1>3, <2>1, <2>4 DEF PlanDirs, f
<1>4. IsFiniteSet(PlanDirs(t))
  <2> DEFINE F == {f \in DOMAIN t : Head(f) = PlansDir /\ Last(f) = PlanFile}
  <2>1. IsFiniteSet(F)
    BY <1>1, FS_Subset
  <2> DEFINE g == [f \in F |-> Front(f)]
  <2>2. DOMAIN g = F /\ PlanDirs(t) = {g[x] : x \in F}
    BY DEF PlanDirs
  <2> HIDE DEF F, g
  <2> QED BY <2>1, <2>2, FiniteRange
<1> QED BY <1>2, <1>3, <1>4, FS_CardinalityType

(* What a way is, whatever their number. *)
IsWay(t, c) ==
  /\ c \in Seq(PlanDirs(t))
  /\ \A i \in 1 .. Len(c) :
       IsPrefix(Append(IF i = 1 THEN <<>> ELSE c[i - 1], PlansDir), c[i])

LEMMA WaysAre ==
  ASSUME NEW t, IsTree(t)
  PROVE  \A c : c \in Ways(t) <=> IsWay(t, c) /\ Len(c) <= Cardinality(PlanDirs(t))
<1> DEFINE D == PlanDirs(t)
           n == Cardinality(D)
<1>1. n \in Nat
  BY PlanDirsAre
<1>2. ASSUME NEW c PROVE c \in SeqOf(D, n) <=> c \in Seq(D) /\ Len(c) <= n
  <2> HIDE DEF D, n
  <2>1. c \in SeqOf(D, n) <=> \E m \in 0 .. n : c \in [1 .. m -> D]
    BY DEF SeqOf
  <2>2. ASSUME NEW m \in 0 .. n, c \in [1 .. m -> D] PROVE c \in Seq(D) /\ Len(c) <= n
    <3>1. m \in Nat /\ m <= n
      BY <1>1
    <3>2. c \in Seq(D) /\ Len(c) = m
      BY <2>2, <3>1
    <3> QED BY <3>1, <3>2
  <2>3. ASSUME c \in Seq(D), Len(c) <= n PROVE \E m \in 0 .. n : c \in [1 .. m -> D]
    <3>1. Len(c) \in 0 .. n /\ c \in [1 .. Len(c) -> D]
      BY <1>1, <2>3, LenProperties
    <3> QED BY <3>1
  <2> QED BY <2>1, <2>2, <2>3
<1>3. ASSUME NEW c, c \in Seq(D) PROVE DOMAIN c = 1 .. Len(c)
  BY <1>3, LenProperties
<1> HIDE DEF D, n
<1>4. \A c : c \in Ways(t) <=>
        /\ c \in SeqOf(D, n)
        /\ \A i \in DOMAIN c : IsPrefix(Append(IF i = 1 THEN <<>> ELSE c[i - 1], PlansDir), c[i])
  BY DEF Ways, D, n
<1>5. \A c : IsWay(t, c) <=>
        /\ c \in Seq(D)
        /\ \A i \in 1 .. Len(c) : IsPrefix(Append(IF i = 1 THEN <<>> ELSE c[i - 1], PlansDir), c[i])
  BY DEF IsWay, D
<1>6. \A c : c \in Ways(t) <=> IsWay(t, c) /\ Len(c) <= n
  BY <1>2, <1>3, <1>4, <1>5
<1> QED BY <1>6 DEF D, n

LEMMA PlanDirIsWay ==
  ASSUME NEW t, IsTree(t), NEW p \in PlanDirs(t)
  PROVE  <<p>> \in Ways(t)
<1>1. p \in Seq(Part) /\ p # <<>> /\ p[1] = PlansDir /\ IsFiniteSet(PlanDirs(t))
  BY PlanDirsAre
<1>2. Cardinality(PlanDirs(t)) \in Nat /\ Cardinality(PlanDirs(t)) # 0
  BY <1>1, FS_EmptySet, FS_CardinalityType
<1>3. Append(<<>>, PlansDir) = <<PlansDir>> /\ <<PlansDir>> \in Seq(Part) /\ Len(<<PlansDir>>) = 1
  BY Names
<1>4. IsPrefix(<<PlansDir>>, p)
  <2>1. Len(p) \in Nat \ {0}
    BY <1>1
  <2>2. <<PlansDir>>[1] = PlansDir /\ \A i \in 1 .. 1 : i = 1
    OBVIOUS
  <2>3. Len(<<PlansDir>>) <= Len(p) /\ \A i \in 1 .. Len(<<PlansDir>>) : p[i] = <<PlansDir>>[i]
    BY <1>1, <1>3, <2>1, <2>2
  <2> QED BY <1>1, <1>3, <2>3, PrefixBy
<1>5. <<p>> \in Seq(PlanDirs(t)) /\ Len(<<p>>) = 1 /\ <<p>>[1] = p
  OBVIOUS
<1>6. IsWay(t, <<p>>)
  <2>1. \A i \in 1 .. Len(<<p>>) : i = 1
    BY <1>5
  <2> QED BY <1>3, <1>4, <1>5, <2>1 DEF IsWay
<1>7. Len(<<p>>) <= Cardinality(PlanDirs(t))
  BY <1>2, <1>5
<1> QED BY <1>6, <1>7, WaysAre

LEMMA WaysFacts ==
  ASSUME NEW t, IsTree(t)
  PROVE  /\ <<>> \in Ways(t)
         /\ \A c \in Ways(t) : \A n \in 0 .. Len(c) : SubSeq(c, 1, n) \in Ways(t)
<1>1. Cardinality(PlanDirs(t)) \in Nat
  BY PlanDirsAre
<1>2. <<>> \in Ways(t)
  <2>1. <<>> \in Seq(PlanDirs(t)) /\ Len(<<>>) = 0
    OBVIOUS
  <2>2. IsWay(t, <<>>)
    BY <2>1 DEF IsWay
  <2> QED BY <1>1, <2>1, <2>2, WaysAre
<1>3. ASSUME NEW c \in Ways(t), NEW n \in 0 .. Len(c) PROVE SubSeq(c, 1, n) \in Ways(t)
  <2> DEFINE u == SubSeq(c, 1, n)
  <2>1. IsWay(t, c) /\ Len(c) <= Cardinality(PlanDirs(t))
    BY <1>3, WaysAre
  <2>2. c \in Seq(PlanDirs(t)) /\ Len(c) \in Nat
    BY <2>1 DEF IsWay
  <2>3. n \in Nat /\ n <= Len(c)
    BY <2>2
  <2>4. u \in Seq(PlanDirs(t)) /\ Len(u) = n /\ \A i \in 1 .. n : u[i] = c[i]
    BY <2>2, <2>3, Slice
  <2> HIDE DEF u
  <2>5. ASSUME NEW i \in 1 .. Len(u)
        PROVE  IsPrefix(Append(IF i = 1 THEN <<>> ELSE u[i - 1], PlansDir), u[i])
    <3>1. i \in 1 .. Len(c) /\ i \in 1 .. n /\ (i # 1 => i - 1 \in 1 .. n)
      BY <2>3, <2>4
    <3>2. IsPrefix(Append(IF i = 1 THEN <<>> ELSE c[i - 1], PlansDir), c[i])
      BY <2>1, <3>1 DEF IsWay
    <3>3. u[i] = c[i] /\ (i # 1 => u[i - 1] = c[i - 1])
      BY <2>4, <3>1
    <3> QED BY <3>2, <3>3
  <2>6. IsWay(t, u) /\ Len(u) <= Cardinality(PlanDirs(t))
    BY <1>1, <2>1, <2>2, <2>3, <2>4, <2>5 DEF IsWay
  <2> QED BY <2>6, WaysAre DEF u
<1> QED BY <1>2, <1>3

(* Where a way leads. *)
LEMMA DirIs ==
  ASSUME NEW t, IsTree(t), NEW c \in Ways(t)
  PROVE  /\ Dir(c) \in Seq(Part) /\ c \in Seq(PlanDirs(t))
         /\ c # <<>> => Dir(c) \in PlanDirs(t) /\ Dir(c) = c[Len(c)] /\ Len(c) \in Nat \ {0}
         /\ \A i \in 1 .. Len(c) : c[i] \in PlanDirs(t)
         /\ \A i \in 2 .. Len(c) : IsPrefix(Append(c[i - 1], PlansDir), c[i])
<1>1. IsWay(t, c)
  BY WaysAre
<1>2. c \in Seq(PlanDirs(t)) /\ Len(c) \in Nat
  BY <1>1 DEF IsWay
<1>3. \A i \in 1 .. Len(c) : c[i] \in PlanDirs(t)
  BY <1>2
<1>4. ASSUME NEW i \in 2 .. Len(c) PROVE IsPrefix(Append(c[i - 1], PlansDir), c[i])
  <2>1. i \in 1 .. Len(c) /\ i # 1
    BY <1>2
  <2> QED BY <1>1, <2>1 DEF IsWay
<1>5. CASE c = <<>>
  <2>1. Dir(c) = <<>> /\ <<>> \in Seq(Part)
    BY <1>5 DEF Dir
  <2> QED BY <1>2, <1>3, <1>4, <1>5, <2>1
<1>6. CASE c # <<>>
  <2>1. Len(c) \in Nat \ {0} /\ Len(c) \in 1 .. Len(c)
    BY <1>2, <1>6
  <2>2. Dir(c) = c[Len(c)]
    BY <1>6 DEF Dir, Last
  <2>3. Dir(c) \in PlanDirs(t)
    BY <1>3, <2>1, <2>2
  <2>4. Dir(c) \in Seq(Part)
    BY <2>3, PlanDirsAre
  <2> QED BY <1>2, <1>3, <1>4, <2>1, <2>2, <2>3, <2>4
<1> QED BY <1>5, <1>6

-----------------------------------------------------------------------------
(***************************************************************************)
(* Manifests.  What is written of a manifest is a tree, a part of the one  *)
(* it was loaded from, and loading that part gives the same manifest.      *)
(***************************************************************************)
Placed(m) == {Target(w) : w \in Writes(m)}

Image(m) ==
  [p \in Placed(m) |-> LET w == CHOOSE w \in Writes(m) : Target(w) = p IN m[w.way][w.at]]

Loaded(m) == IsTree(Image(m)) /\ Loadable(Image(m)) /\ m = Load(Image(m))

LEMMA OwnIs ==
  ASSUME NEW t, IsTree(t), NEW c \in Ways(t)
  PROVE  /\ \A q : q \in DOMAIN Own(t, c) <=>
                     /\ q \in Seq(Part) /\ Dir(c) \o q \in DOMAIN t
                     /\ q = <<MainOf(c)>> \/ (q # <<>> /\ Head(q) \in Kinds)
         /\ \A q \in DOMAIN Own(t, c) : Own(t, c)[q] = t[Dir(c) \o q]
<1>1. Dir(c) \in Seq(Part)
  BY DirIs
<1>2. DOMAIN t \subseteq Seq(Part)
  BY DEF IsTree
<1>3. \A q : q \in Below(t, Dir(c)) <=> q \in Seq(Part) /\ Dir(c) \o q \in DOMAIN t
  BY <1>1, <1>2, BelowIs
<1> DEFINE Q == {q \in Below(t, Dir(c)) : q = <<MainOf(c)>> \/ (q # <<>> /\ Head(q) \in Kinds)}
<1>4. Own(t, c) = [q \in Q |-> t[Dir(c) \o q]]
  BY DEF Own
<1>5. \A q : q \in Q <=> /\ q \in Seq(Part) /\ Dir(c) \o q \in DOMAIN t
                         /\ q = <<MainOf(c)>> \/ (q # <<>> /\ Head(q) \in Kinds)
  BY <1>3
<1> HIDE DEF Q
<1>6. DOMAIN Own(t, c) = Q /\ \A q \in Q : Own(t, c)[q] = t[Dir(c) \o q]
  BY <1>4
<1> QED BY <1>5, <1>6

LEMMA WritesAre ==
  ASSUME NEW m, NEW w \in Writes(m)
  PROVE  /\ w.way \in DOMAIN m /\ w.at \in DOMAIN m[w.way]
         /\ w = Item(w.way, w.at) /\ Target(w) = Dir(w.way) \o w.at
<1>1. \E c \in DOMAIN m : \E q \in DOMAIN m[c] : w = [way |-> c, at |-> q]
  BY DEF Writes
<1> QED BY <1>1 DEF Item, Target

LEMMA ItemIs ==
  ASSUME NEW c, NEW q
  PROVE  Item(c, q).way = c /\ Item(c, q).at = q /\ Target(Item(c, q)) = Dir(c) \o q
  BY DEF Item, Target

LEMMA WriteOf ==
  ASSUME NEW m, NEW c \in DOMAIN m, NEW q \in DOMAIN m[c]
  PROVE  Item(c, q) \in Writes(m)
  BY DEF Item, Writes

LEMMA ImageIs ==
  ASSUME NEW t, IsTree(t), NEW m, m = [c \in Ways(t) |-> Own(t, c)]
  PROVE  /\ DOMAIN Image(m) = Placed(m) /\ Placed(m) \subseteq DOMAIN t
         /\ \A p \in Placed(m) : Image(m)[p] = t[p]
         /\ Image(m) \in [Placed(m) -> Data]
         /\ \A c \in Ways(t) : \A q \in DOMAIN Own(t, c) : Dir(c) \o q \in Placed(m)
<1>1. DOMAIN m = Ways(t) /\ \A c \in Ways(t) : m[c] = Own(t, c)
  OBVIOUS
<1>2. ASSUME NEW w \in Writes(m) PROVE Target(w) \in DOMAIN t /\ m[w.way][w.at] = t[Target(w)]
  <2>1. w.way \in DOMAIN m /\ w.at \in DOMAIN m[w.way] /\ Target(w) = Dir(w.way) \o w.at
    BY WritesAre
  <2>2. w.way \in Ways(t) /\ w.at \in DOMAIN Own(t, w.way) /\ m[w.way] = Own(t, w.way)
    BY <1>1, <2>1
  <2>3. /\ \A q \in DOMAIN Own(t, w.way) : Dir(w.way) \o q \in DOMAIN t
        /\ \A q \in DOMAIN Own(t, w.way) : Own(t, w.way)[q] = t[Dir(w.way) \o q]
    BY <2>2, OwnIs
  <2> QED BY <2>1, <2>2, <2>3
<1> DEFINE At(p) == CHOOSE w \in Writes(m) : Target(w) = p
<1>3. ASSUME NEW p \in Placed(m) PROVE At(p) \in Writes(m) /\ Target(At(p)) = p
  BY DEF Placed
<1>4. Image(m) = [p \in Placed(m) |-> m[At(p).way][At(p).at]]
  BY DEF Image
<1> HIDE DEF At
<1>5. DOMAIN Image(m) = Placed(m) /\ \A p \in Placed(m) : Image(m)[p] = m[At(p).way][At(p).at]
  BY <1>4
<1>6. \A p \in Placed(m) : p \in DOMAIN t /\ Image(m)[p] = t[p]
  BY <1>2, <1>3, <1>5
<1>7. \A p \in DOMAIN t : t[p] \in Data
  BY DEF IsTree
<1>8. Image(m) \in [Placed(m) -> Data]
  <2>1. \A p \in Placed(m) : m[At(p).way][At(p).at] \in Data
    BY <1>5, <1>6, <1>7
  <2> QED BY <1>4, <2>1
<1>9. ASSUME NEW c \in Ways(t), NEW q \in DOMAIN Own(t, c) PROVE Dir(c) \o q \in Placed(m)
  <2>1. c \in DOMAIN m /\ q \in DOMAIN m[c]
    BY <1>1
  <2>2. Item(c, q) \in Writes(m) /\ Target(Item(c, q)) = Dir(c) \o q
    BY <2>1, WriteOf, ItemIs
  <2> QED BY <2>2 DEF Placed
<1>10. \A c \in Ways(t) : \A q \in DOMAIN Own(t, c) : Dir(c) \o q \in Placed(m)
  BY <1>9
<1>11. Placed(m) \subseteq DOMAIN t /\ \A p \in Placed(m) : Image(m)[p] = t[p]
  BY <1>6
<1> QED BY <1>5, <1>8, <1>10, <1>11

LEMMA Subtree ==
  ASSUME NEW t, IsTree(t), NEW u, u \in [DOMAIN u -> Data], DOMAIN u \subseteq DOMAIN t
  PROVE  IsTree(u)
<1>1. IsFiniteSet(DOMAIN u)
  BY FS_Subset DEF IsTree
<1> QED BY <1>1 DEF IsTree

LEMMA LoadedIs ==
  ASSUME NEW t, IsTree(t), Loadable(t)
  PROVE  Loaded(Load(t))
<1> DEFINE m == Load(t)
           u == Image(m)
<1>1. m = [c \in Ways(t) |-> Own(t, c)]
  BY DEF Load
<1> HIDE DEF m
<1>2. /\ DOMAIN u = Placed(m) /\ Placed(m) \subseteq DOMAIN t
      /\ \A p \in Placed(m) : u[p] = t[p]
      /\ u \in [Placed(m) -> Data]
      /\ \A c \in Ways(t) : \A q \in DOMAIN Own(t, c) : Dir(c) \o q \in Placed(m)
  BY <1>1, ImageIs
<1> HIDE DEF u
<1>3. IsTree(u)
  BY <1>2, Subtree
<1>4. PlanDirs(u) = PlanDirs(t)
  <2>1. \A p \in PlanDirs(u) : p \in PlanDirs(t)
    BY <1>2, <1>3, PlanDirsAre
  <2>2. ASSUME NEW p \in PlanDirs(t) PROVE p \in PlanDirs(u)
    <3>1. p \in Seq(Part) /\ p # <<>> /\ p[1] = PlansDir /\ p \o <<PlanFile>> \in DOMAIN t
      BY PlanDirsAre
    <3>2. <<p>> \in Ways(t) /\ <<p>> # <<>> /\ Dir(<<p>>) = p /\ MainOf(<<p>>) = PlanFile
      BY PlanDirIsWay DEF Dir, Last, MainOf
    <3>3. <<PlanFile>> \in Seq(Part)
      BY Names
    <3>4. <<PlanFile>> \in DOMAIN Own(t, <<p>>)
      BY <3>1, <3>2, <3>3, OwnIs
    <3>5. p \o <<PlanFile>> \in DOMAIN u
      BY <1>2, <3>2, <3>4
    <3> QED BY <1>3, <3>1, <3>5, PlanDirsAre
  <2> QED BY <2>1, <2>2
<1>5. Ways(u) = Ways(t)
  BY <1>4 DEF Ways
<1>6. ASSUME NEW c \in Ways(t) PROVE Own(u, c) = Own(t, c)
  <2>1. c \in Ways(u)
    BY <1>5
  <2>2. \A q : q \in DOMAIN Own(t, c) <=>
             /\ q \in Seq(Part) /\ Dir(c) \o q \in DOMAIN t
             /\ q = <<MainOf(c)>> \/ (q # <<>> /\ Head(q) \in Kinds)
    BY OwnIs
  <2>3. \A q : q \in DOMAIN Own(u, c) <=>
             /\ q \in Seq(Part) /\ Dir(c) \o q \in DOMAIN u
             /\ q = <<MainOf(c)>> \/ (q # <<>> /\ Head(q) \in Kinds)
    BY <1>3, <2>1, OwnIs
  <2>4. DOMAIN Own(u, c) = DOMAIN Own(t, c)
    BY <1>2, <2>2, <2>3
  <2>5. /\ \A q \in DOMAIN Own(t, c) : Own(t, c)[q] = t[Dir(c) \o q]
        /\ \A q \in DOMAIN Own(u, c) : Own(u, c)[q] = u[Dir(c) \o q]
    BY <1>3, <2>1, OwnIs
  <2>6. \A q \in DOMAIN Own(t, c) : Own(u, c)[q] = Own(t, c)[q]
    BY <1>2, <2>4, <2>5
  <2> DEFINE a == Own(u, c)
             b == Own(t, c)
  <2>7. a = [q \in DOMAIN a |-> a[q]] /\ b = [q \in DOMAIN b |-> b[q]]
    BY DEF Own
  <2> QED BY <2>4, <2>6, <2>7
<1>7. Loadable(u)
  <2>1. <<MainFile>> \in DOMAIN u
    <3>1. <<>> \in Ways(t) /\ Dir(<<>>) = <<>> /\ MainOf(<<>>) = MainFile /\ <<MainFile>> \in Seq(Part)
      BY WaysFacts, Names DEF Dir, MainOf
    <3>2. <<MainFile>> \in DOMAIN t /\ <<>> \o <<MainFile>> = <<MainFile>>
      BY Names DEF Loadable
    <3>3. <<MainFile>> \in DOMAIN Own(t, <<>>)
      BY <3>1, <3>2, OwnIs
    <3> QED BY <1>2, <3>1, <3>2, <3>3
  <2> QED BY <1>2, <1>5, <2>1 DEF Loadable
<1>8. Load(u) = m
  <2>1. Load(u) = [c \in Ways(u) |-> Own(u, c)]
    BY <1>7 DEF Load
  <2> QED BY <1>1, <1>5, <1>6, <2>1
<1> QED BY <1>3, <1>7, <1>8 DEF Loaded, m, u

LEMMA ManIs ==
  ASSUME NEW m, Loaded(m)
  PROVE  /\ IsTree(Image(m)) /\ DOMAIN Image(m) = Placed(m) /\ Placed(m) \subseteq Seq(Part)
         /\ DOMAIN m = Ways(Image(m)) /\ \A c \in DOMAIN m : m[c] = Own(Image(m), c)
         /\ <<MainFile>> \in Placed(m)
<1> DEFINE t == Image(m)
<1>1. IsTree(t) /\ Loadable(t) /\ m = Load(t)
  BY DEF Loaded
<1>2. DOMAIN t = Placed(m)
  BY DEF Image
<1> HIDE DEF t
<1>3. m = [c \in Ways(t) |-> Own(t, c)]
  BY <1>1 DEF Load
<1>4. DOMAIN m = Ways(t) /\ \A c \in DOMAIN m : m[c] = Own(t, c)
  BY <1>3
<1>5. <<MainFile>> \in DOMAIN t /\ DOMAIN t \subseteq Seq(Part)
  BY <1>1 DEF Loadable, IsTree
<1> QED BY <1>1, <1>2, <1>4, <1>5 DEF t

LEMMA WayIs ==
  ASSUME NEW m, Loaded(m), NEW c \in DOMAIN m
  PROVE  /\ Dir(c) \in Seq(Part) /\ c \in Seq(Seq(Part)) /\ Len(c) \in Nat
         /\ \A n \in 0 .. Len(c) : SubSeq(c, 1, n) \in DOMAIN m
         /\ \A i \in 1 .. Len(c) : <<c[i]>> \in DOMAIN m /\ c[i] \in Seq(Part)
         /\ \A i \in 2 .. Len(c) : IsPrefix(Append(c[i - 1], PlansDir), c[i])
         /\ c # <<>> => /\ Dir(c) = c[Len(c)] /\ Dir(c) # <<>> /\ Dir(c)[1] = PlansDir
                        /\ Len(c) \in Nat \ {0} /\ Len(Dir(c)) \in Nat \ {0}
<1> DEFINE t == Image(m)
<1>1. IsTree(t) /\ c \in Ways(t) /\ DOMAIN m = Ways(t)
  BY ManIs
<1> HIDE DEF t
<1>2. /\ Dir(c) \in Seq(Part) /\ c \in Seq(PlanDirs(t))
      /\ c # <<>> => Dir(c) \in PlanDirs(t) /\ Dir(c) = c[Len(c)] /\ Len(c) \in Nat \ {0}
      /\ \A i \in 1 .. Len(c) : c[i] \in PlanDirs(t)
      /\ \A i \in 2 .. Len(c) : IsPrefix(Append(c[i - 1], PlansDir), c[i])
  BY <1>1, DirIs
<1>3. \A p \in PlanDirs(t) : p \in Seq(Part) /\ p # <<>> /\ p[1] = PlansDir
  BY <1>1, PlanDirsAre
<1>4. \A p \in PlanDirs(t) : <<p>> \in DOMAIN m
  BY <1>1, PlanDirIsWay
<1>5. \A n \in 0 .. Len(c) : SubSeq(c, 1, n) \in DOMAIN m
  BY <1>1, WaysFacts
<1>6. PlanDirs(t) \subseteq Seq(Part)
  BY <1>3
<1>7. c \in Seq(Seq(Part)) /\ Len(c) \in Nat
  BY <1>2, <1>6
<1>8. \A p \in Seq(Part) : p # <<>> => Len(p) \in Nat \ {0}
  OBVIOUS
<1>9. \A i \in 1 .. Len(c) : <<c[i]>> \in DOMAIN m /\ c[i] \in Seq(Part)
  BY <1>2, <1>3, <1>4
<1>10. c # <<>> => /\ Dir(c) = c[Len(c)] /\ Dir(c) # <<>> /\ Dir(c)[1] = PlansDir
                   /\ Len(c) \in Nat \ {0} /\ Len(Dir(c)) \in Nat \ {0}
  BY <1>2, <1>3, <1>8
<1> QED BY <1>2, <1>5, <1>7, <1>9, <1>10

LEMMA PathIs ==
  ASSUME NEW m, Loaded(m), NEW c \in DOMAIN m, NEW q \in DOMAIN m[c]
  PROVE  /\ q \in Seq(Part) /\ q # <<>> /\ q # <<PlansDir>> /\ q[1] # PlansDir
         /\ q # <<MainOf(c)>> => q[1] \in Kinds
         /\ Dir(c) \o q \in Placed(m)
         /\ m[c][q] = Image(m)[Dir(c) \o q] /\ m[c][q] \in Data
<1> DEFINE t == Image(m)
<1>1. IsTree(t) /\ DOMAIN t = Placed(m) /\ c \in Ways(t) /\ m[c] = Own(t, c)
  BY ManIs
<1>2. t \in [DOMAIN t -> Data]
  BY <1>1 DEF IsTree
<1> HIDE DEF t
<1>3. /\ q \in Seq(Part) /\ Dir(c) \o q \in DOMAIN t
      /\ q = <<MainOf(c)>> \/ (q # <<>> /\ Head(q) \in Kinds)
      /\ m[c][q] = t[Dir(c) \o q]
  BY <1>1, OwnIs
<1>4. MainOf(c) # PlansDir /\ <<MainOf(c)>> # <<>> /\ <<MainOf(c)>>[1] = MainOf(c)
  BY Names DEF MainOf
<1>5. q # <<>>
  BY <1>3, <1>4
<1>6. Head(q) = q[1]
  BY <1>3, <1>5
<1>7. q[1] # PlansDir /\ (q # <<MainOf(c)>> => q[1] \in Kinds)
  BY <1>3, <1>4, <1>6, Names
<1>8. <<PlansDir>>[1] = PlansDir
  OBVIOUS
<1>9. t[Dir(c) \o q] \in Data
  BY <1>2, <1>3
<1> QED BY <1>1, <1>3, <1>5, <1>7, <1>8, <1>9 DEF t

LEMMA PathOf ==
  ASSUME NEW m, Loaded(m), NEW c \in DOMAIN m, NEW q \in Seq(Part), q # <<>>, q[1] \in Kinds,
         Dir(c) \o q \in Placed(m)
  PROVE  q \in DOMAIN m[c]
<1>1. /\ IsTree(Image(m)) /\ DOMAIN Image(m) = Placed(m) /\ c \in Ways(Image(m))
      /\ m[c] = Own(Image(m), c)
  BY ManIs
<1>2. Head(q) = q[1]
  OBVIOUS
<1> QED BY <1>1, <1>2, OwnIs

LEMMA ScriptOf ==
  ASSUME NEW m, Loaded(m), NEW c \in DOMAIN m
  PROVE  <<MainOf(c)>> \in DOMAIN m[c] /\ <<MainOf(c)>> \in Seq(Part)
<1> DEFINE t == Image(m)
<1>1. IsTree(t) /\ DOMAIN t = Placed(m) /\ c \in Ways(t) /\ m[c] = Own(t, c) /\ <<MainFile>> \in DOMAIN t
  BY ManIs
<1> HIDE DEF t
<1>2. <<MainOf(c)>> \in Seq(Part)
  BY Names DEF MainOf
<1>3. Dir(c) \o <<MainOf(c)>> \in DOMAIN t
  <2>1. CASE c = <<>>
    <3>1. <<>> \o <<MainFile>> = <<MainFile>>
      BY Names
    <3> QED BY <1>1, <2>1, <3>1 DEF Dir, MainOf
  <2>2. CASE c # <<>>
    BY <1>1, <2>2, DirIs, PlanDirsAre DEF MainOf
  <2> QED BY <2>1, <2>2
<1> QED BY <1>1, <1>2, <1>3, OwnIs

LEMMA FrontWay ==
  ASSUME NEW m, Loaded(m), NEW c \in DOMAIN m, c # <<>>
  PROVE  /\ Front(c) \in DOMAIN m /\ c \in Calls(m, Front(c))
         /\ Len(c) \in Nat \ {0} /\ Len(Front(c)) = Len(c) - 1
         /\ \A n \in 0 .. Len(c) - 1 : SubSeq(Front(c), 1, n) = SubSeq(c, 1, n)
<1>1. /\ c \in Seq(Seq(Part)) /\ Len(c) \in Nat \ {0}
      /\ \A n \in 0 .. Len(c) : SubSeq(c, 1, n) \in DOMAIN m
  BY WayIs
<1>2. Front(c) = SubSeq(c, 1, Len(c) - 1) /\ Len(Front(c)) = Len(c) - 1
  BY <1>1, FrontLast DEF Front
<1>3. Len(c) - 1 \in 0 .. Len(c) /\ Len(c) - 1 \in Nat /\ Len(c) - 1 <= Len(c)
  BY <1>1
<1>4. Front(c) \in DOMAIN m
  BY <1>1, <1>2, <1>3
<1>5. \A n \in 0 .. Len(c) - 1 : SubSeq(Front(c), 1, n) = SubSeq(c, 1, n)
  BY <1>1, <1>2, <1>3, SliceOfSlice
<1> QED BY <1>1, <1>2, <1>4, <1>5 DEF Calls

-----------------------------------------------------------------------------
(***************************************************************************)
(* Extracting.  The tasks of SaveDir are known when it starts; one waits   *)
(* while it is to be done, or a call above it is.                          *)
(***************************************************************************)
Tasks(m) ==
  Writes(m) \cup {Item(c, <<>>) : c \in DOMAIN m}
    \cup {Item(c, <<PlansDir>>) : c \in {c \in DOMAIN m : Calls(m, c) # {}}}

Waits(to, i) == \/ i \in to
                \/ \E n \in 0 .. Len(i.way) : Item(SubSeq(i.way, 1, n), <<>>) \in to

Done(m, to) == {i \in Tasks(m) : ~Waits(to, i)}

Made(m, to) == {i \in Done(m, to) : ~IsFile(i)}

Written(m, to) == {i \in Done(m, to) : IsFile(i)}

(* What is to be done, and what was done first *)
Ordered(m, to) ==
  /\ to \subseteq Tasks(m)
  /\ \A i \in to : i.at # <<>> => Item(i.way, <<>>) \in Done(m, to)
  /\ \A i \in to : i.at = <<>> /\ i.way # <<>> => Item(Front(i.way), <<>>) \in Done(m, to)

(* what was done is there, *)
IsThere(m, to, d) ==
  /\ \A i \in Made(m, to) : Target(i) \in d.dirs
  /\ \A i \in Written(m, to) : Target(i) \in DOMAIN d.files

(* and no directory was made twice *)
Once(m, to) == \A i, j \in Made(m, to) : Target(i) = Target(j) => i = j

(* and nothing else is there: no other file, and no directory but those    *)
(* made by a task, or by os.MkdirAll for a file. *)
Within(m, d) ==
  /\ \A p \in DOMAIN d.files : p \in Placed(m) /\ d.files[p] = Image(m)[p]
  /\ \A x \in d.dirs : \E p \in Placed(m) : IsStrictPrefix(x, p)

Explained(m, to, d) ==
  \A x \in d.dirs :
    \/ \E i \in Made(m, to) : x = Target(i)
    \/ \E i \in Written(m, to) : \E n \in 1 .. Len(i.at) - 1 : x = Dir(i.way) \o SubSeq(i.at, 1, n)

(* A plan's directory could be made: a task had made the one it is in. *)
Parents(m, to) ==
  \A c \in DOMAIN m : Len(c) = 1 /\ Item(c, <<>>) \in Done(m, to) =>
    \E j \in Made(m, to) : Target(j) = Front(Dir(c))

Progress(m, to, d) ==
  /\ Ordered(m, to)
  /\ IsThere(m, to, d)
  /\ Once(m, to)
  /\ Within(m, d)
  /\ Explained(m, to, d)
  /\ Parents(m, to)

LEMMA TaskIs ==
  ASSUME NEW m, Loaded(m), NEW i \in Tasks(m)
  PROVE  /\ i.way \in DOMAIN m /\ i = Item(i.way, i.at)
         /\ IsFile(i) => i.at \in DOMAIN m[i.way] /\ i \in Writes(m)
         /\ ~IsFile(i) => i.at = <<>> \/ (i.at = <<PlansDir>> /\ Calls(m, i.way) # {})
         /\ i.at \in Seq(Part)
<1>1. CASE i \in Writes(m)
  <2>1. i.way \in DOMAIN m /\ i.at \in DOMAIN m[i.way] /\ i = Item(i.way, i.at)
    BY <1>1, WritesAre
  <2>2. i.at # <<>> /\ i.at # <<PlansDir>> /\ i.at \in Seq(Part)
    BY <2>1, PathIs
  <2> QED BY <1>1, <2>1, <2>2 DEF IsFile
<1>2. CASE i \in {Item(c, <<>>) : c \in DOMAIN m}
  <2>1. PICK c \in DOMAIN m : i = Item(c, <<>>)
    BY <1>2
  <2>2. i.way = c /\ i.at = <<>> /\ <<>> \in Seq(Part)
    BY <2>1, ItemIs
  <2> QED BY <2>1, <2>2 DEF IsFile
<1>3. CASE i \in {Item(c, <<PlansDir>>) : c \in {c \in DOMAIN m : Calls(m, c) # {}}}
  <2>1. PICK c \in DOMAIN m : Calls(m, c) # {} /\ i = Item(c, <<PlansDir>>)
    BY <1>3
  <2>2. i.way = c /\ i.at = <<PlansDir>> /\ <<PlansDir>> \in Seq(Part)
    BY <2>1, ItemIs, Names
  <2> QED BY <2>1, <2>2 DEF IsFile
<1> QED BY <1>1, <1>2, <1>3 DEF Tasks

LEMMA TaskOf ==
  ASSUME NEW m, Loaded(m), NEW c \in DOMAIN m
  PROVE  /\ Item(c, <<>>) \in Tasks(m) /\ ~IsFile(Item(c, <<>>))
         /\ Calls(m, c) # {} => Item(c, <<PlansDir>>) \in Tasks(m)
         /\ ~IsFile(Item(c, <<PlansDir>>))
         /\ \A q \in DOMAIN m[c] : Item(c, q) \in Tasks(m) /\ IsFile(Item(c, q))
<1>1. ASSUME NEW q \in DOMAIN m[c] PROVE Item(c, q) \in Tasks(m) /\ IsFile(Item(c, q))
  <2>1. Item(c, q) \in Writes(m)
    BY WriteOf
  <2>2. q # <<>> /\ q # <<PlansDir>>
    BY PathIs
  <2> QED BY <2>1, <2>2, ItemIs DEF Tasks, IsFile
<1>2. Item(c, <<>>) \in Tasks(m) /\ (Calls(m, c) # {} => Item(c, <<PlansDir>>) \in Tasks(m))
  BY DEF Tasks
<1>3. ~IsFile(Item(c, <<>>)) /\ ~IsFile(Item(c, <<PlansDir>>))
  BY ItemIs DEF IsFile
<1> QED BY <1>1, <1>2, <1>3

(* The directory of a plan is below plans/ of what holds it. *)
LEMMA CallIs ==
  ASSUME NEW m, Loaded(m), NEW c \in DOMAIN m, NEW d \in Calls(m, c)
  PROVE  /\ d \in DOMAIN m /\ d # <<>> /\ Front(d) = c /\ Len(d) = Len(c) + 1
         /\ Dir(c) \o <<PlansDir>> \in Seq(Part)
         /\ Len(Dir(c) \o <<PlansDir>>) = Len(Dir(c)) + 1
         /\ IsPrefix(Dir(c) \o <<PlansDir>>, Dir(d))
<1>1. d \in DOMAIN m /\ d # <<>> /\ Front(d) = c
  BY DEF Calls
<1>2. c \in Seq(Seq(Part)) /\ Dir(c) \in Seq(Part)
  BY WayIs
<1>3. /\ d \in Seq(Seq(Part)) /\ Dir(d) \in Seq(Part) /\ Dir(d) = d[Len(d)]
      /\ Len(d) \in Nat \ {0} /\ Len(Dir(d)) \in Nat \ {0} /\ Dir(d)[1] = PlansDir
      /\ \A n \in 2 .. Len(d) : IsPrefix(Append(d[n - 1], PlansDir), d[n])
  BY <1>1, WayIs
<1>4. Len(c) = Len(d) - 1 /\ \A n \in 1 .. Len(d) - 1 : c[n] = d[n]
  BY <1>1, <1>3, FrontLast
<1> DEFINE a == Dir(c) \o <<PlansDir>>
<1>5. a \in Seq(Part) /\ a = Append(Dir(c), PlansDir) /\ Len(a) = Len(Dir(c)) + 1
  BY <1>2, Appended, Names
<1>6. CASE c = <<>>
  <2>1. Dir(c) = <<>> /\ a = <<PlansDir>>
    BY <1>5, <1>6, Names DEF Dir
  <2>2. Len(a) = 1 /\ a[1] = PlansDir
    BY <2>1
  <2> HIDE DEF a
  <2>3. Len(a) <= Len(Dir(d)) /\ \A n \in 1 .. Len(a) : Dir(d)[n] = a[n]
    <3>1. 1 <= Len(Dir(d))
      BY <1>3
    <3>2. \A n \in 1 .. 1 : n = 1
      OBVIOUS
    <3> QED BY <1>3, <2>2, <3>1, <3>2
  <2>4. IsPrefix(a, Dir(d))
    BY <1>3, <1>5, <2>3, PrefixBy
  <2> QED BY <1>1, <1>3, <1>4, <1>5, <2>4 DEF a
<1>7. CASE c # <<>>
  <2> DEFINE n == Len(d)
  <2>1. Dir(c) = c[Len(c)] /\ Len(c) \in Nat \ {0}
    BY <1>7, WayIs
  <2>2. n \in Nat \ {0} /\ Len(c) = n - 1
    BY <1>3, <1>4
  <2> HIDE DEF n
  <2>3. n \in 2 .. n /\ n - 1 \in 1 .. n - 1
    BY <2>1, <2>2
  <2>4. IsPrefix(Append(d[n - 1], PlansDir), d[n])
    BY <1>3, <2>3 DEF n
  <2>5. c[n - 1] = d[n - 1]
    BY <1>4, <2>3 DEF n
  <2>6. IsPrefix(a, Dir(d))
    <3>1. Dir(c) = d[n - 1] /\ Dir(d) = d[n]
      BY <1>3, <2>1, <2>2, <2>5 DEF n
    <3> QED BY <1>5, <2>4, <3>1
  <2> QED BY <1>1, <1>3, <1>4, <1>5, <2>6
<1> QED BY <1>6, <1>7

LEMMA StrictlyBelow ==
  ASSUME NEW S, NEW a \in Seq(S), NEW b \in Seq(S), NEW x \in S, IsPrefix(a, b)
  PROVE  IsStrictPrefix(a, b \o <<x>>)
<1> DEFINE p == b \o <<x>>
<1>1. p \in Seq(S) /\ Len(p) = Len(b) + 1 /\ \A n \in 1 .. Len(b) : p[n] = b[n]
  BY Appended
<1>2. Len(a) <= Len(b) /\ \A n \in 1 .. Len(a) : b[n] = a[n]
  BY PrefixIs
<1>3. Len(a) \in Nat /\ Len(b) \in Nat
  OBVIOUS
<1> HIDE DEF p
<1>4. Len(a) <= Len(p) /\ Len(a) # Len(p) /\ \A n \in 1 .. Len(a) : p[n] = a[n]
  BY <1>1, <1>2, <1>3
<1>5. IsPrefix(a, p) /\ a # p
  BY <1>1, <1>4, PrefixBy
<1> QED BY <1>5 DEF IsStrictPrefix, p

(* A directory of the manifest has a file below it. *)
LEMMA Above ==
  ASSUME NEW m, Loaded(m), NEW i \in Tasks(m), ~IsFile(i)
  PROVE  Target(i) \in Seq(Part) /\ \E p \in Placed(m) : IsStrictPrefix(Target(i), p)
<1>1. i.way \in DOMAIN m /\ (i.at = <<>> \/ (i.at = <<PlansDir>> /\ Calls(m, i.way) # {}))
  BY TaskIs
<1>2. Target(i) = Dir(i.way) \o i.at
  BY DEF Target
<1>3. Dir(i.way) \in Seq(Part)
  BY <1>1, WayIs
<1>4. ASSUME NEW c \in DOMAIN m
      PROVE  /\ Dir(c) \o <<MainOf(c)>> \in Placed(m) /\ MainOf(c) \in Part
             /\ Dir(c) \in Seq(Part)
  <2>1. <<MainOf(c)>> \in DOMAIN m[c]
    BY ScriptOf
  <2> QED BY <2>1, PathIs, WayIs, Names DEF MainOf
<1>5. CASE i.at = <<>>
  <2>1. Target(i) = Dir(i.way)
    BY <1>2, <1>3, <1>5
  <2>2. IsPrefix(Dir(i.way), Dir(i.way))
    BY <1>3 DEF IsPrefix
  <2>3. IsStrictPrefix(Dir(i.way), Dir(i.way) \o <<MainOf(i.way)>>)
    BY <1>1, <1>3, <1>4, <2>2, StrictlyBelow
  <2> QED BY <1>1, <1>3, <1>4, <2>1, <2>3
<1>6. CASE i.at = <<PlansDir>> /\ Calls(m, i.way) # {}
  <2>1. PICK d \in Calls(m, i.way) : TRUE
    BY <1>6
  <2>2. /\ d \in DOMAIN m /\ Dir(i.way) \o <<PlansDir>> \in Seq(Part)
        /\ IsPrefix(Dir(i.way) \o <<PlansDir>>, Dir(d))
    BY <1>1, <2>1, CallIs
  <2>3. Target(i) = Dir(i.way) \o <<PlansDir>>
    BY <1>2, <1>6
  <2>4. IsStrictPrefix(Target(i), Dir(d) \o <<MainOf(d)>>)
    BY <1>4, <2>2, <2>3, StrictlyBelow
  <2> QED BY <1>4, <2>2, <2>3, <2>4
<1> QED BY <1>1, <1>5, <1>6

LEMMA WaitsIs ==
  ASSUME NEW to, NEW c, NEW q
  PROVE  Waits(to, Item(c, q)) <=>
           Item(c, q) \in to \/ \E n \in 0 .. Len(c) : Item(SubSeq(c, 1, n), <<>>) \in to
  BY ItemIs DEF Waits

(* A task that is no call is done. *)
LEMMA Drops ==
  ASSUME NEW m, Loaded(m), NEW to, Ordered(m, to), NEW i \in to, i.at # <<>>
  PROVE  Ordered(m, to \ {i}) /\ Done(m, to \ {i}) = Done(m, to) \cup {i}
<1> DEFINE to2 == to \ {i}
<1>1. i \in Tasks(m) /\ Item(i.way, <<>>) \in Done(m, to)
  BY DEF Ordered
<1>2. ASSUME NEW c PROVE Item(c, <<>>) \in to2 <=> Item(c, <<>>) \in to
  <2>1. Item(c, <<>>) # i
    BY ItemIs
  <2> QED BY <2>1
<1>3. i \notin to2 /\ \A j : j # i => (j \in to2 <=> j \in to)
  OBVIOUS
<1> HIDE DEF to2
<1>4. ASSUME NEW j, j # i PROVE Waits(to2, j) <=> Waits(to, j)
  BY <1>2, <1>3, <1>4 DEF Waits
<1>5. ~Waits(to2, i)
  <2>1. ~Waits(to, Item(i.way, <<>>))
    BY <1>1 DEF Done
  <2>2. \A n \in 0 .. Len(i.way) : Item(SubSeq(i.way, 1, n), <<>>) \notin to
    BY <2>1, WaitsIs
  <2> QED BY <1>2, <1>3, <2>2 DEF Waits
<1>6. Done(m, to2) = Done(m, to) \cup {i}
  BY <1>1, <1>4, <1>5 DEF Done
<1>7. to2 \subseteq to
  BY DEF to2
<1>8. Ordered(m, to2)
  BY <1>6, <1>7 DEF Ordered
<1> QED BY <1>6, <1>8 DEF to2

(* A call is done when its directory is made: what it calls waits then. *)
LEMMA Called ==
  ASSUME NEW m, Loaded(m), NEW to, Ordered(m, to), NEW c \in DOMAIN m, Item(c, <<>>) \in to
  PROVE  LET to2 == (to \ {Item(c, <<>>)}) \cup Items(m, c)
         IN  Ordered(m, to2) /\ Done(m, to2) = Done(m, to) \cup {Item(c, <<>>)}
<1> DEFINE i == Item(c, <<>>)
           to2 == (to \ {i}) \cup Items(m, c)
<1>1. i.way = c /\ i.at = <<>> /\ i \in to /\ i \in Tasks(m)
  BY ItemIs, TaskOf
<1>2. c \in Seq(Seq(Part)) /\ Len(c) \in Nat
  BY WayIs
<1> HIDE DEF i
<1>3. \A j : j \in to2 <=> (j \in to /\ j # i) \/ j \in Items(m, c)
  OBVIOUS
<1> HIDE DEF to2
<1>4. ASSUME NEW j \in Items(m, c)
      PROVE  /\ j \in Tasks(m) /\ j # i
             /\ j.at # <<>> => j.way = c
             /\ j.at = <<>> => j.way \in Calls(m, c)
  <2>1. CASE j \in {Item(c, q) : q \in DOMAIN m[c]}
    <3>1. PICK q \in DOMAIN m[c] : j = Item(c, q)
      BY <2>1
    <3>2. q # <<>>
      BY PathIs
    <3> QED BY <1>1, <3>1, <3>2, ItemIs, TaskOf
  <2>2. CASE j \in {Item(d, <<>>) : d \in Calls(m, c)}
    <3>1. PICK d \in Calls(m, c) : j = Item(d, <<>>)
      BY <2>2
    <3>2. d \in DOMAIN m /\ Len(d) = Len(c) + 1
      BY CallIs
    <3>3. d # c
      BY <1>2, <3>2
    <3> QED BY <1>1, <3>1, <3>2, <3>3, ItemIs, TaskOf
  <2>3. CASE Calls(m, c) # {} /\ j = Item(c, <<PlansDir>>)
    <3>1. j.way = c /\ j.at = <<PlansDir>> /\ <<PlansDir>> # <<>>
      BY <2>3, ItemIs
    <3> QED BY <1>1, <2>3, <3>1, TaskOf
  <2> QED BY <1>4, <2>1, <2>2, <2>3 DEF Items
<1>5. ASSUME NEW j \in Tasks(m), j # i, ~Waits(to, j) PROVE ~Waits(to2, j)
  <2>1. j \notin to /\ \A n \in 0 .. Len(j.way) : Item(SubSeq(j.way, 1, n), <<>>) \notin to
    BY <1>5 DEF Waits
  <2>2. j.way \in DOMAIN m /\ j = Item(j.way, j.at)
    BY TaskIs
  <2>3. j.way \in Seq(Seq(Part)) /\ Len(j.way) \in Nat
    BY <2>2, WayIs
  <2>4. ASSUME NEW n \in 0 .. Len(j.way) PROVE SubSeq(j.way, 1, n) # c
    BY <1>1, <2>1 DEF i
  <2>5. j.way # c
    <3>1. SubSeq(j.way, 1, Len(j.way)) = j.way /\ Len(j.way) \in 0 .. Len(j.way)
      BY <2>3, Whole
    <3> QED BY <2>4, <3>1
  <2>6. ASSUME NEW n \in 0 .. Len(j.way) PROVE SubSeq(j.way, 1, n) \notin Calls(m, c)
    <3> DEFINE d == SubSeq(j.way, 1, n)
    <3>1. SUFFICES ASSUME d \in Calls(m, c) PROVE FALSE
      OBVIOUS
    <3>2. d # <<>> /\ Front(d) = c /\ d \in DOMAIN m
      BY <3>1 DEF Calls
    <3>3. n \in Nat /\ n <= Len(j.way)
      BY <2>3
    <3>4. Len(d) = n
      BY <2>3, <3>3, Slice
    <3> HIDE DEF d
    <3>5. n \in Nat \ {0} /\ Front(d) = SubSeq(d, 1, n - 1)
      BY <3>2, <3>4, FrontWay DEF Front
    <3>6. n - 1 \in 0 .. n /\ n - 1 \in 0 .. Len(j.way)
      BY <3>3, <3>5
    <3>7. SubSeq(d, 1, n - 1) = SubSeq(j.way, 1, n - 1)
      BY <2>3, <3>3, <3>6, SliceOfSlice DEF d
    <3> QED BY <2>4, <3>2, <3>5, <3>6, <3>7
  <2>7. j \notin to2
    <3>1. j \notin Items(m, c)
      <4>1. SUFFICES ASSUME j \in Items(m, c) PROVE FALSE
        OBVIOUS
      <4>2. j.way \in Calls(m, c)
        BY <1>4, <2>5, <4>1
      <4>3. SubSeq(j.way, 1, Len(j.way)) = j.way /\ Len(j.way) \in 0 .. Len(j.way)
        BY <2>3, Whole
      <4> QED BY <2>6, <4>2, <4>3
    <3> QED BY <1>3, <2>1, <3>1
  <2>8. ASSUME NEW n \in 0 .. Len(j.way) PROVE Item(SubSeq(j.way, 1, n), <<>>) \notin to2
    <3> DEFINE k == Item(SubSeq(j.way, 1, n), <<>>)
    <3>1. k.way = SubSeq(j.way, 1, n) /\ k.at = <<>>
      BY ItemIs
    <3>2. k \notin to
      BY <2>1
    <3> HIDE DEF k
    <3>3. k \notin Items(m, c)
      BY <1>4, <2>6, <3>1
    <3>4. k \notin to2
      BY <1>3, <3>2, <3>3
    <3> QED BY <3>4 DEF k
  <2> QED BY <2>7, <2>8 DEF Waits
<1>6. ASSUME NEW j \in Tasks(m), Waits(to, j), j # i PROVE Waits(to2, j)
  <2>1. j.way \in DOMAIN m /\ j = Item(j.way, j.at)
    BY TaskIs
  <2>2. j.way \in Seq(Seq(Part)) /\ Len(j.way) \in Nat
    BY <2>1, WayIs
  <2>3. CASE j \in to
    BY <1>3, <1>6, <2>3 DEF Waits
  <2>4. ASSUME NEW n \in 0 .. Len(j.way), Item(SubSeq(j.way, 1, n), <<>>) \in to PROVE Waits(to2, j)
    <3> DEFINE k == Item(SubSeq(j.way, 1, n), <<>>)
    <3>1. CASE k # i
      BY <1>3, <2>4, <3>1 DEF Waits
    <3>2. CASE k = i
      <4>1. c = SubSeq(j.way, 1, n)
        BY <1>1, <3>2, ItemIs
      <4>2. CASE n = Len(j.way)
        <5>1. j.way = c
          BY <2>2, <4>1, <4>2, Whole
        <5>2. j.at # <<>>
          BY <1>6, <2>1, <5>1 DEF i
        <5>3. j.at \in DOMAIN m[c] \/ (j.at = <<PlansDir>> /\ Calls(m, c) # {})
          BY <5>1, <5>2, TaskIs
        <5>4. j \in Items(m, c)
          BY <2>1, <5>1, <5>3 DEF Items
        <5> QED BY <1>3, <5>4 DEF Waits
      <4>3. CASE n # Len(j.way)
        <5> DEFINE d == SubSeq(j.way, 1, n + 1)
        <5>1. n \in Nat /\ n + 1 \in Nat /\ n + 1 <= Len(j.way) /\ n + 1 \in 0 .. Len(j.way) /\ n \in 0 .. n + 1
          BY <2>2, <4>3
        <5>2. d \in DOMAIN m
          BY <2>1, <5>1, WayIs
        <5>3. Len(d) = n + 1
          BY <2>2, <5>1, Slice
        <5>4. SubSeq(d, 1, n) = c
          BY <2>2, <4>1, <5>1, SliceOfSlice
        <5> HIDE DEF d
        <5>5. Front(d) = c /\ d # <<>>
          BY <5>1, <5>3, <5>4 DEF Front
        <5>6. Item(d, <<>>) \in Items(m, c)
          BY <5>2, <5>5 DEF Items, Calls
        <5>7. Item(d, <<>>) \in to2
          BY <1>3, <5>6
        <5> QED BY <5>1, <5>7 DEF Waits, d
      <4> QED BY <4>2, <4>3
    <3> QED BY <3>1, <3>2
  <2> QED BY <1>6, <2>3, <2>4 DEF Waits
<1>7. ~Waits(to2, i)
  <2>1. i \notin to2
    BY <1>3, <1>4
  <2>2. ASSUME NEW n \in 0 .. Len(c) PROVE Item(SubSeq(c, 1, n), <<>>) \notin to2
    <3> DEFINE k == Item(SubSeq(c, 1, n), <<>>)
    <3>1. k.way = SubSeq(c, 1, n) /\ k.at = <<>>
      BY ItemIs
    <3>2. n \in Nat /\ n <= Len(c)
      BY <1>2
    <3>3. Len(SubSeq(c, 1, n)) = n
      BY <1>2, <3>2, Slice
    <3>4. k \notin Items(m, c)
      <4>1. SUFFICES ASSUME k \in Items(m, c) PROVE FALSE
        OBVIOUS
      <4>2. SubSeq(c, 1, n) \in Calls(m, c)
        BY <1>4, <3>1, <4>1
      <4>3. Len(SubSeq(c, 1, n)) = Len(c) + 1
        BY <4>2, CallIs
      <4> QED BY <1>2, <3>2, <3>3, <4>3
    <3>5. CASE n = Len(c)
      <4>1. k = i
        BY <1>2, <3>5, Whole DEF i
      <4> QED BY <2>1, <4>1
    <3>6. CASE n # Len(c)
      <4>1. n \in 0 .. Len(c) - 1 /\ c # <<>>
        BY <1>2, <3>2, <3>6
      <4>2. SubSeq(Front(c), 1, n) = SubSeq(c, 1, n) /\ Len(Front(c)) = Len(c) - 1
        BY <4>1, FrontWay
      <4>3. Item(Front(c), <<>>) \in Done(m, to)
        BY <1>1, <4>1 DEF Ordered
      <4>4. ~Waits(to, Item(Front(c), <<>>))
        BY <4>3 DEF Done
      <4>5. Item(SubSeq(Front(c), 1, n), <<>>) \notin to
        BY <4>1, <4>2, <4>4, WaitsIs
      <4>6. k \notin to
        BY <4>2, <4>5
      <4> HIDE DEF k
      <4>7. k \notin to2
        BY <1>3, <3>4, <4>6
      <4> QED BY <4>7 DEF k
    <3> QED BY <3>5, <3>6
  <2> QED BY <1>1, <2>1, <2>2 DEF Waits
<1>8. Done(m, to2) = Done(m, to) \cup {i}
  BY <1>1, <1>5, <1>6, <1>7 DEF Done
<1>9. Ordered(m, to2)
  <2>1. to2 \subseteq Tasks(m)
    BY <1>3, <1>4 DEF Ordered
  <2>2. ASSUME NEW j \in to2, j.at # <<>> PROVE Item(j.way, <<>>) \in Done(m, to2)
    <3>1. CASE j \in Items(m, c)
      BY <1>4, <1>8, <2>2, <3>1 DEF i
    <3>2. CASE j \in to
      BY <1>8, <2>2, <3>2 DEF Ordered
    <3> QED BY <1>3, <3>1, <3>2
  <2>3. ASSUME NEW j \in to2, j.at = <<>>, j.way # <<>> PROVE Item(Front(j.way), <<>>) \in Done(m, to2)
    <3>1. CASE j \in Items(m, c)
      <4>1. Front(j.way) = c
        BY <1>4, <2>3, <3>1, CallIs
      <4> QED BY <1>8, <4>1 DEF i
    <3>2. CASE j \in to
      BY <1>8, <2>3, <3>2 DEF Ordered
    <3> QED BY <1>3, <3>1, <3>2
  <2> QED BY <2>1, <2>2, <2>3 DEF Ordered
<1> QED BY <1>8, <1>9 DEF to2, i

Closed(d) == \A p \in DOMAIN d.files \cup d.dirs : Ancestors(p) \subseteq d.dirs

LEMMA AncestorIs ==
  ASSUME NEW S, NEW p \in Seq(S), NEW x \in Ancestors(p)
  PROVE  /\ x \in Seq(S) /\ IsStrictPrefix(x, p)
         /\ Len(x) < Len(p) /\ Len(x) \in Nat /\ Len(p) \in Nat /\ x = SubSeq(p, 1, Len(x))
<1>1. PICK n \in 0 .. Len(p) - 1 : x = SubSeq(p, 1, n)
  BY DEF Ancestors
<1>2. Len(p) \in Nat /\ n \in Nat /\ n <= Len(p) /\ n < Len(p)
  BY <1>1
<1>3. x \in Seq(S) /\ Len(x) = n /\ \A i \in 1 .. n : x[i] = p[i]
  BY <1>1, <1>2, Slice
<1>4. IsPrefix(x, p)
  BY <1>2, <1>3, PrefixBy
<1> QED BY <1>1, <1>2, <1>3, <1>4 DEF IsStrictPrefix

LEMMA FileIs ==
  ASSUME NEW m, Loaded(m), NEW i \in Tasks(m), IsFile(i)
  PROVE  /\ i.way \in DOMAIN m /\ i.at \in DOMAIN m[i.way]
         /\ Target(i) = Dir(i.way) \o i.at /\ Target(i) \in Placed(m) /\ Target(i) \in Seq(Part)
         /\ m[i.way][i.at] = Image(m)[Target(i)] /\ m[i.way][i.at] \in Data
<1>1. i.way \in DOMAIN m /\ i.at \in DOMAIN m[i.way]
  BY TaskIs
<1>2. Target(i) = Dir(i.way) \o i.at
  BY DEF Target
<1>3. /\ Dir(i.way) \o i.at \in Placed(m)
      /\ m[i.way][i.at] = Image(m)[Dir(i.way) \o i.at] /\ m[i.way][i.at] \in Data
  BY <1>1, PathIs
<1>4. Placed(m) \subseteq Seq(Part)
  BY ManIs
<1> QED BY <1>1, <1>2, <1>3, <1>4

(* The directories os.MkdirAll makes for a file are its manifest's, or     *)
(* those of the files of one kind.                                         *)
LEMMA NewDirs ==
  ASSUME NEW m, Loaded(m), NEW to, NEW d, IsThere(m, to, d), Closed(d), NEW i \in Tasks(m), IsFile(i),
         Item(i.way, <<>>) \in Done(m, to), NEW x \in Ancestors(Target(i))
  PROVE  x \in d.dirs \/ \E n \in 1 .. Len(i.at) - 1 : x = Dir(i.way) \o SubSeq(i.at, 1, n)
<1> DEFINE b == Dir(i.way)
           p == b \o i.at
<1>1. i.way \in DOMAIN m /\ i.at \in DOMAIN m[i.way] /\ Target(i) = p
  BY FileIs
<1>2. b \in Seq(Part) /\ i.at \in Seq(Part)
  BY <1>1, WayIs, PathIs
<1>3. b \in d.dirs
  <2>1. Item(i.way, <<>>) \in Made(m, to)
    BY <1>1, TaskOf DEF Made
  <2>2. Target(Item(i.way, <<>>)) = b
    BY <1>2, ItemIs
  <2> QED BY <2>1, <2>2 DEF IsThere
<1> HIDE DEF b
<1>4. /\ p \in Seq(Part) /\ Len(p) = Len(b) + Len(i.at) /\ Len(b) \in Nat /\ Len(i.at) \in Nat
      /\ \A k \in 1 .. Len(b) : p[k] = b[k]
      /\ \A k \in 1 .. Len(i.at) : p[Len(b) + k] = i.at[k]
  BY <1>2, Parts
<1>5. x \in Seq(Part) /\ Len(x) < Len(p) /\ Len(x) \in Nat /\ x = SubSeq(p, 1, Len(x))
  BY <1>1, <1>4, AncestorIs
<1> HIDE DEF p
<1>6. \A k \in 1 .. Len(x) : x[k] = p[k]
  <2>1. \A k \in 1 .. Len(x) : SubSeq(p, 1, Len(x))[k] = p[k]
    BY <1>4, <1>5, Slice
  <2> QED BY <1>5, <2>1
<1>7. CASE Len(x) < Len(b)
  <2> DEFINE y == SubSeq(b, 1, Len(x))
  <2>1. y \in Seq(Part) /\ Len(y) = Len(x) /\ \A k \in 1 .. Len(x) : y[k] = b[k]
    BY <1>2, <1>4, <1>5, <1>7, Slice
  <2>2. Len(x) \in 0 .. Len(b) - 1
    BY <1>4, <1>5, <1>7
  <2>3. y \in Ancestors(b)
    BY <2>2 DEF Ancestors
  <2> HIDE DEF y
  <2>4. \A k \in 1 .. Len(x) : k \in 1 .. Len(b)
    BY <1>4, <1>5, <1>7
  <2>5. \A k \in 1 .. Len(x) : x[k] = y[k]
    BY <1>4, <1>6, <2>1, <2>4
  <2>6. x = y
    BY <1>5, <2>1, <2>5, SameSeq
  <2> QED BY <1>3, <2>3, <2>6 DEF Closed
<1>8. CASE Len(x) >= Len(b)
  <2> DEFINE n == Len(x) - Len(b)
             r == SubSeq(i.at, 1, n)
  <2>1. n \in Nat /\ n <= Len(i.at) /\ n <= Len(i.at) - 1
    BY <1>4, <1>5, <1>8
  <2>2. r \in Seq(Part) /\ Len(r) = n /\ \A k \in 1 .. n : r[k] = i.at[k]
    BY <1>2, <2>1, Slice
  <2> HIDE DEF r
  <2>3. /\ b \o r \in Seq(Part) /\ Len(b \o r) = Len(b) + n
        /\ \A k \in 1 .. Len(b) : (b \o r)[k] = b[k]
        /\ \A k \in 1 .. n : (b \o r)[Len(b) + k] = r[k]
    BY <1>2, <2>2, Parts
  <2>4. Len(b \o r) = Len(x)
    BY <1>4, <1>5, <2>3
  <2>5. ASSUME NEW k \in 1 .. Len(x) PROVE x[k] = (b \o r)[k]
    <3>1. k \in Nat /\ Len(b) \in Nat /\ Len(x) \in Nat
      BY <1>4, <1>5
    <3>2. CASE k <= Len(b)
      <4>1. k \in 1 .. Len(b)
        BY <3>1, <3>2
      <4> QED BY <1>4, <1>6, <2>3, <4>1
    <3>3. CASE k > Len(b)
      <4> DEFINE h == k - Len(b)
      <4>1. h \in 1 .. n /\ h \in 1 .. Len(i.at) /\ Len(b) + h = k
        BY <1>4, <2>1, <3>1, <3>3
      <4> HIDE DEF h, n
      <4>2. x[k] = p[k] /\ p[Len(b) + h] = i.at[h] /\ (b \o r)[Len(b) + h] = r[h] /\ r[h] = i.at[h]
        BY <1>4, <1>6, <2>2, <2>3, <4>1
      <4> QED BY <4>1, <4>2
    <3>4. k <= Len(b) \/ k > Len(b)
      BY <3>1
    <3> QED BY <3>2, <3>3, <3>4
  <2>6. x = b \o r
    BY <1>5, <2>3, <2>4, <2>5, SameSeq
  <2>7. CASE n = 0
    <3>1. r = <<>>
      BY <2>2, <2>7
    <3>2. x = b
      BY <1>2, <2>6, <3>1
    <3> QED BY <1>3, <3>2
  <2>8. CASE n # 0
    <3>1. n \in 1 .. Len(i.at) - 1
      BY <1>4, <2>1, <2>8
    <3> QED BY <2>6, <3>1 DEF b, r
  <2> QED BY <2>7, <2>8
<1>9. Len(x) < Len(b) \/ Len(x) >= Len(b)
  BY <1>4, <1>5
<1> QED BY <1>7, <1>8, <1>9

LEMMA MadeStep ==
  ASSUME NEW m, Loaded(m), NEW to, NEW d, Progress(m, to, d), NEW to2, Ordered(m, to2),
         NEW i \in Tasks(m), ~IsFile(i), Done(m, to2) = Done(m, to) \cup {i},
         Target(i) \notin d.dirs,
         i.at = <<>> /\ Len(i.way) = 1 => \E j \in Made(m, to) : Target(j) = Front(Dir(i.way))
  PROVE  Progress(m, to2, [dirs |-> d.dirs \cup {Target(i)}, files |-> d.files])
<1> DEFINE d2 == [dirs |-> d.dirs \cup {Target(i)}, files |-> d.files]
<1>1. d2.dirs = d.dirs \cup {Target(i)} /\ d2.files = d.files
  OBVIOUS
<1> HIDE DEF d2
<1>2. Made(m, to2) = Made(m, to) \cup {i} /\ Written(m, to2) = Written(m, to)
  BY DEF Made, Written
<1>3. IsThere(m, to2, d2)
  BY <1>1, <1>2 DEF Progress, IsThere
<1>4. Once(m, to2)
  <2>1. \A j \in Made(m, to) : Target(j) # Target(i)
    BY DEF Progress, IsThere
  <2> QED BY <1>2, <2>1 DEF Progress, Once
<1>5. Within(m, d2)
  <2>1. \E p \in Placed(m) : IsStrictPrefix(Target(i), p)
    BY Above
  <2> QED BY <1>1, <2>1 DEF Progress, Within
<1>6. Explained(m, to2, d2)
  <2>1. ASSUME NEW x \in d2.dirs
        PROVE  \/ \E j \in Made(m, to2) : x = Target(j)
               \/ \E j \in Written(m, to2) : \E n \in 1 .. Len(j.at) - 1 : x = Dir(j.way) \o SubSeq(j.at, 1, n)
    <3>1. CASE x = Target(i)
      BY <1>2, <3>1
    <3>2. CASE x \in d.dirs
      BY <1>2, <3>2 DEF Progress, Explained
    <3> QED BY <1>1, <3>1, <3>2
  <2> QED BY <2>1 DEF Explained
<1>7. Parents(m, to2)
  <2>1. ASSUME NEW c \in DOMAIN m, Len(c) = 1, Item(c, <<>>) \in Done(m, to2)
        PROVE  \E j \in Made(m, to2) : Target(j) = Front(Dir(c))
    <3>1. CASE Item(c, <<>>) \in Done(m, to)
      BY <1>2, <2>1, <3>1 DEF Progress, Parents
    <3>2. CASE Item(c, <<>>) = i
      <4>1. i.way = c /\ i.at = <<>>
        BY <3>2, ItemIs
      <4> QED BY <1>2, <2>1, <4>1
    <3> QED BY <2>1, <3>1, <3>2
  <2> QED BY <2>1 DEF Parents
<1> QED BY <1>3, <1>4, <1>5, <1>6, <1>7 DEF Progress, d2

LEMMA WrittenStep ==
  ASSUME NEW m, Loaded(m), NEW to, NEW d, Progress(m, to, d), Closed(d), NEW i \in to, IsFile(i)
  PROVE  Progress(m, to \ {i},
           [dirs  |-> d.dirs \cup Ancestors(Target(i)),
            files |-> [q \in DOMAIN d.files \cup {Target(i)} |->
                         IF q = Target(i) THEN m[i.way][i.at] ELSE d.files[q]]])
<1> DEFINE to2 == to \ {i}
           f2 == [q \in DOMAIN d.files \cup {Target(i)} |->
                         IF q = Target(i) THEN m[i.way][i.at] ELSE d.files[q]]
           d2 == [dirs |-> d.dirs \cup Ancestors(Target(i)), files |-> f2]
<1>1. d2.dirs = d.dirs \cup Ancestors(Target(i)) /\ d2.files = f2
  OBVIOUS
<1>2. /\ DOMAIN f2 = DOMAIN d.files \cup {Target(i)} /\ f2[Target(i)] = m[i.way][i.at]
      /\ \A q \in DOMAIN d.files : q # Target(i) => f2[q] = d.files[q]
  OBVIOUS
<1>3. Ordered(m, to) /\ i \in Tasks(m) /\ i.at # <<>> /\ Item(i.way, <<>>) \in Done(m, to)
  BY DEF Progress, Ordered, IsFile
<1>4. Ordered(m, to2) /\ Done(m, to2) = Done(m, to) \cup {i}
  BY <1>3, Drops
<1> HIDE DEF to2, f2, d2
<1>5. Made(m, to2) = Made(m, to) /\ Written(m, to2) = Written(m, to) \cup {i}
  BY <1>4 DEF Made, Written
<1>6. /\ Target(i) \in Placed(m) /\ Target(i) \in Seq(Part)
      /\ m[i.way][i.at] = Image(m)[Target(i)]
  BY <1>3, FileIs
<1>7. IsThere(m, to2, d2)
  BY <1>1, <1>2, <1>5 DEF Progress, IsThere
<1>8. Once(m, to2)
  BY <1>5 DEF Progress, Once
<1>9. Within(m, d2)
  <2>1. ASSUME NEW p \in DOMAIN d2.files PROVE p \in Placed(m) /\ d2.files[p] = Image(m)[p]
    <3>1. CASE p = Target(i)
      BY <1>1, <1>2, <1>6, <3>1
    <3>2. CASE p # Target(i)
      BY <1>1, <1>2, <2>1, <3>2 DEF Progress, Within
    <3> QED BY <3>1, <3>2
  <2>2. ASSUME NEW x \in d2.dirs PROVE \E p \in Placed(m) : IsStrictPrefix(x, p)
    <3>1. CASE x \in d.dirs
      BY <3>1 DEF Progress, Within
    <3>2. CASE x \in Ancestors(Target(i))
      BY <1>6, <3>2, AncestorIs
    <3> QED BY <1>1, <2>2, <3>1, <3>2
  <2> QED BY <2>1, <2>2 DEF Within
<1>10. Explained(m, to2, d2)
  <2>1. ASSUME NEW x \in d2.dirs
        PROVE  \/ \E j \in Made(m, to2) : x = Target(j)
               \/ \E j \in Written(m, to2) : \E n \in 1 .. Len(j.at) - 1 : x = Dir(j.way) \o SubSeq(j.at, 1, n)
    <3>1. CASE x \in d.dirs
      BY <1>5, <3>1 DEF Progress, Explained
    <3>2. CASE x \notin d.dirs /\ x \in Ancestors(Target(i))
      <4>1. \E n \in 1 .. Len(i.at) - 1 : x = Dir(i.way) \o SubSeq(i.at, 1, n)
        <5>1. IsThere(m, to, d)
          BY DEF Progress
        <5>2. x \in Ancestors(Target(i)) /\ x \notin d.dirs
          BY <3>2
        <5>3. x \in d.dirs \/ \E n \in 1 .. Len(i.at) - 1 : x = Dir(i.way) \o SubSeq(i.at, 1, n)
          BY <1>3, <5>1, <5>2, NewDirs, SMTT(30)
        <5> QED BY <5>2, <5>3
      <4> QED BY <1>5, <4>1
    <3> QED BY <1>1, <2>1, <3>1, <3>2
  <2> QED BY <2>1 DEF Explained
<1>11. Parents(m, to2)
  <2>1. ASSUME NEW c \in DOMAIN m, Len(c) = 1, Item(c, <<>>) \in Done(m, to2)
        PROVE  \E j \in Made(m, to2) : Target(j) = Front(Dir(c))
    <3>1. Item(c, <<>>) # i
      BY <1>3, ItemIs
    <3> QED BY <1>4, <1>5, <2>1, <3>1 DEF Progress, Parents
  <2> QED BY <2>1 DEF Parents
<1>12. Progress(m, to2, d2)
  BY <1>4, <1>7, <1>8, <1>9, <1>10, <1>11 DEF Progress
<1> QED BY <1>12 DEF to2, d2, f2

TurnIn(to, i) == \A j \in to : \/ Len(Caller(j)) < Len(Caller(i))
                               \/ Len(Caller(j)) = Len(Caller(i)) /\ Stage(i) <= Stage(j)

(* SaveDir starts with a directory where nothing is. *)
LEMMA Starts ==
  ASSUME NEW m, Loaded(m), NEW d, d.dirs = {}, Closed(d),
         DOMAIN d.files \subseteq Seq(Part), <<>> \notin DOMAIN d.files
  PROVE  Progress(m, {Item(<<>>, <<>>)}, d)
<1> DEFINE r == Item(<<>>, <<>>)
<1>1. <<>> \in DOMAIN m
  BY ManIs, WaysFacts
<1>2. r \in Tasks(m) /\ r.at = <<>> /\ r.way = <<>>
  BY <1>1, TaskOf, ItemIs
<1>3. ASSUME NEW i \in Tasks(m) PROVE Waits({r}, i)
  <2>1. i.way \in DOMAIN m
    BY TaskIs
  <2>2. i.way \in Seq(Seq(Part)) /\ Len(i.way) \in Nat
    BY <2>1, WayIs
  <2>3. SubSeq(i.way, 1, 0) = <<>> /\ 0 \in 0 .. Len(i.way)
    BY <2>2, Whole
  <2>4. Item(SubSeq(i.way, 1, 0), <<>>) \in {r}
    BY <2>3
  <2> HIDE DEF r
  <2> QED BY <2>3, <2>4 DEF Waits
<1>4. Done(m, {r}) = {}
  BY <1>3 DEF Done
<1>5. Made(m, {r}) = {} /\ Written(m, {r}) = {}
  BY <1>4 DEF Made, Written
<1>6. DOMAIN d.files = {}
  <2>1. ASSUME NEW p \in DOMAIN d.files PROVE FALSE
    <3>1. Len(p) \in Nat \ {0}
      BY <2>1
    <3>2. 0 \in 0 .. Len(p) - 1
      BY <3>1
    <3>3. SubSeq(p, 1, 0) \in d.dirs
      BY <3>2 DEF Closed, Ancestors
    <3> QED BY <3>3
  <2> QED BY <2>1
<1>7. Ordered(m, {r})
  BY <1>2 DEF Ordered
<1> HIDE DEF r
<1>8. IsThere(m, {r}, d) /\ Once(m, {r}) /\ Within(m, d) /\ Explained(m, {r}, d)
  BY <1>5, <1>6 DEF IsThere, Once, Within, Explained
<1>9. Parents(m, {r})
  BY <1>4 DEF Parents
<1> QED BY <1>7, <1>8, <1>9 DEF Progress, r

(* A plan's directory that can be made is in one made for a manifest: were *)
(* it among the files of one, these are written first, and it is there.    *)
LEMMA ParentMade ==
  ASSUME NEW m, Loaded(m), NEW to, NEW d, Progress(m, to, d), Closed(d), NEW i \in to,
         TurnIn(to, i), i.at = <<>>, Len(i.way) = 1,
         Target(i) \notin d.dirs, Front(Target(i)) \in d.dirs
  PROVE  \E j \in Made(m, to) : Target(j) = Front(Dir(i.way))
<1> DEFINE p == Dir(i.way)
<1>1. i \in Tasks(m)
  BY DEF Progress, Ordered
<1>2. i.way \in DOMAIN m /\ i.way # <<>>
  <2>1. \A c : Len(c) = 1 => c # <<>>
    OBVIOUS
  <2>2. i.way \in DOMAIN m
    BY <1>1, TaskIs
  <2> QED BY <2>1, <2>2
<1>3. p \in Seq(Part) /\ p # <<>>
  BY <1>2, WayIs
<1>4. Target(i) = p
  BY <1>3 DEF Target
<1>5. p \o <<PlanFile>> \in Placed(m)
  <2>1. <<PlanFile>> \in DOMAIN m[i.way]
    BY <1>2, ScriptOf DEF MainOf
  <2> QED BY <1>2, <2>1, PathIs
<1> HIDE DEF p
<1>6. ASSUME NEW j \in Written(m, to), NEW n \in 1 .. Len(j.at) - 1,
             Front(p) = Dir(j.way) \o SubSeq(j.at, 1, n)
      PROVE  FALSE
  <2> DEFINE b == Dir(j.way)
             r == SubSeq(j.at, 1, n)
             e == r \o <<Last(p)>>
             q == e \o <<PlanFile>>
             k == Item(j.way, q)
  <2>1. j \in Tasks(m) /\ IsFile(j) /\ ~Waits(to, j)
    BY <1>6 DEF Written, Done
  <2>2. j.way \in DOMAIN m /\ j.at \in DOMAIN m[j.way]
    BY <2>1, FileIs
  <2>3. b \in Seq(Part) /\ j.at \in Seq(Part) /\ (j.at # <<MainOf(j.way)>> => j.at[1] \in Kinds)
    BY <2>2, WayIs, PathIs
  <2>4. n \in Nat \ {0} /\ n <= Len(j.at) /\ Len(j.at) # 1
    <3>1. Len(j.at) \in Nat
      BY <2>3
    <3>2. \A h \in Nat : \A x \in 1 .. h - 1 : x \in Nat \ {0} /\ x <= h /\ h # 1
      OBVIOUS
    <3> QED BY <3>1, <3>2
  <2>5. j.at[1] \in Kinds
    BY <2>3, <2>4
  <2>6. r \in Seq(Part) /\ Len(r) = n /\ r[1] = j.at[1]
    <3>1. r \in Seq(Part) /\ Len(r) = n /\ \A h \in 1 .. n : r[h] = j.at[h]
      BY <2>3, <2>4, Slice
    <3> QED BY <2>4, <3>1
  <2>7. p = Front(p) \o <<Last(p)>> /\ Last(p) \in Part
    BY <1>3, FrontLast
  <2> HIDE DEF b, r
  <2>8. e \in Seq(Part) /\ Len(e) = n + 1 /\ e[1] = j.at[1]
    <3>1. e \in Seq(Part) /\ Len(e) = Len(r) + 1 /\ \A h \in 1 .. Len(r) : e[h] = r[h]
      BY <2>6, <2>7, Appended
    <3> QED BY <2>4, <2>6, <3>1
  <2>9. p = b \o e
    <3>1. <<Last(p)>> \in Seq(Part)
      BY <2>7
    <3>2. (b \o r) \o <<Last(p)>> = b \o (r \o <<Last(p)>>)
      <4>1. b \in Seq(Part) /\ r \in Seq(Part)
        BY <2>3, <2>6
      <4> QED BY <3>1, <4>1, ConcatAssociative
    <3> QED BY <1>6, <2>7, <3>2 DEF b, r
  <2> HIDE DEF e
  <2>10. q \in Seq(Part) /\ q # <<>> /\ q[1] = j.at[1]
    <3>1. q \in Seq(Part) /\ q # <<>> /\ \A h \in 1 .. Len(e) : q[h] = e[h]
      BY <2>8, Appended, Names
    <3> QED BY <2>4, <2>8, <3>1
  <2>11. b \o q = p \o <<PlanFile>>
    <3>1. <<PlanFile>> \in Seq(Part)
      BY Names
    <3>2. (b \o e) \o <<PlanFile>> = b \o (e \o <<PlanFile>>)
      <4>1. b \in Seq(Part) /\ e \in Seq(Part)
        BY <2>3, <2>8
      <4> QED BY <3>1, <4>1, ConcatAssociative
    <3> QED BY <2>9, <3>2
  <2> HIDE DEF q
  <2>12. q \in DOMAIN m[j.way]
    BY <1>5, <2>2, <2>5, <2>10, <2>11, PathOf DEF b
  <2>13. k \in Tasks(m) /\ IsFile(k) /\ k.way = j.way /\ k.at = q /\ Target(k) = b \o q
    BY <2>2, <2>12, TaskOf, ItemIs DEF b
  <2> HIDE DEF k
  <2>14. k \notin to
    <3>1. SUFFICES ASSUME k \in to PROVE FALSE
      OBVIOUS
    <3>2. Len(Caller(i)) = 0
      <4>1. Len(Front(i.way)) = Len(i.way) - 1
        BY <1>2, FrontWay
      <4> QED BY <1>2, <4>1 DEF Caller
    <3>3. Stage(i) = 4
      <4>1. <<MainOf(i.way)>> # <<>> /\ <<PlansDir>> # <<>>
        OBVIOUS
      <4> QED BY <4>1 DEF Stage, IsFile
    <3>4. Stage(k) \in {1, 2}
      BY <2>13 DEF Stage
    <3>5. Len(Caller(k)) \in Nat
      <4>1. Caller(k) = j.way
        BY <2>10, <2>13 DEF Caller
      <4> QED BY <2>2, <4>1, WayIs
    <3>6. Len(Caller(k)) < Len(Caller(i)) \/ Stage(i) <= Stage(k)
      BY <3>1 DEF TurnIn
    <3> QED BY <3>2, <3>3, <3>4, <3>5, <3>6
  <2>15. ~Waits(to, k)
    BY <2>1, <2>13, <2>14 DEF Waits
  <2>16. k \in Written(m, to)
    BY <2>13, <2>15 DEF Written, Done
  <2>17. p \o <<PlanFile>> \in DOMAIN d.files
    BY <2>11, <2>13, <2>16 DEF Progress, IsThere
  <2>18. p \in Ancestors(p \o <<PlanFile>>)
    <3> DEFINE u == p \o <<PlanFile>>
    <3>1. u \in Seq(Part) /\ Len(u) = Len(p) + 1 /\ Front(u) = p /\ Len(p) \in Nat
      BY <1>3, Appended, Names
    <3> HIDE DEF u
    <3>2. p = SubSeq(u, 1, Len(p)) /\ Len(p) \in 0 .. Len(u) - 1
      BY <3>1 DEF Front
    <3>3. p \in Ancestors(u)
      BY <3>2 DEF Ancestors
    <3> QED BY <3>3 DEF u
  <2>19. p \in d.dirs
    BY <2>17, <2>18 DEF Closed
  <2> QED BY <1>4, <2>19
<1>7. \/ \E j \in Made(m, to) : Front(p) = Target(j)
      \/ \E j \in Written(m, to) : \E n \in 1 .. Len(j.at) - 1 : Front(p) = Dir(j.way) \o SubSeq(j.at, 1, n)
  BY <1>4 DEF Progress, Explained
<1>8. \E j \in Made(m, to) : Front(p) = Target(j)
  BY <1>6, <1>7
<1> QED BY <1>8 DEF p

LEMMA NotAFile ==
  ASSUME NEW m, Loaded(m), NEW d, Within(m, d), NEW i \in Tasks(m), ~IsFile(i)
  PROVE  Target(i) \notin DOMAIN d.files
<1>1. PICK p \in Placed(m) : IsStrictPrefix(Target(i), p)
  BY Above
<1>2. \A x, y \in Placed(m) : ~IsStrictPrefix(x, y)
  BY ManIs DEF IsTree
<1> QED BY <1>1, <1>2 DEF Within

(* Flat manifests: the directories are the root, plans/ and those below. *)
LEMMA FlatDir ==
  ASSUME NEW m, Loaded(m), Flat(m), NEW i \in Tasks(m), ~IsFile(i)
  PROVE  /\ i.way = <<>> => Target(i) = i.at /\ Len(Target(i)) \in {0, 1}
                            /\ i.at \in {<<>>, <<PlansDir>>}
         /\ i.way # <<>> => /\ i.at = <<>> /\ Target(i) \in Seq(Part) /\ i.way = <<Target(i)>>
                            /\ Len(Target(i)) = 2 /\ Target(i)[1] = PlansDir
<1>1. /\ i.way \in DOMAIN m
      /\ i.at = <<>> \/ (i.at = <<PlansDir>> /\ Calls(m, i.way) # {})
  BY TaskIs
<1>2. Target(i) = Dir(i.way) \o i.at
  BY DEF Target
<1>3. CASE i.way = <<>>
  <2>1. Dir(i.way) = <<>>
    BY <1>3 DEF Dir
  <2>2. <<>> \in Seq(Part) /\ <<PlansDir>> \in Seq(Part)
    BY Names
  <2>3. Target(i) = i.at
    BY <1>1, <1>2, <2>1, <2>2
  <2>4. Len(<<>>) = 0 /\ Len(<<PlansDir>>) = 1
    OBVIOUS
  <2> QED BY <1>1, <1>3, <2>3, <2>4
<1>4. CASE i.way # <<>>
  <2>1. /\ Dir(i.way) \in Seq(Part) /\ Dir(i.way) = i.way[Len(i.way)] /\ Dir(i.way)[1] = PlansDir
        /\ i.way \in Seq(Seq(Part)) /\ Len(i.way) \in Nat \ {0}
    BY <1>1, <1>4, WayIs
  <2>2. \A c \in DOMAIN m : Len(c) <= 1
    BY DEF Flat, NoInner
  <2>3. Len(i.way) = 1
    <3>1. Len(i.way) <= 1
      BY <1>1, <2>2
    <3>2. \A k \in Nat \ {0} : k <= 1 => k = 1
      OBVIOUS
    <3> QED BY <2>1, <3>1, <3>2
  <2>4. Calls(m, i.way) = {}
    <3>1. ASSUME NEW d \in Calls(m, i.way) PROVE FALSE
      <4>1. d \in DOMAIN m /\ Len(d) = Len(i.way) + 1
        BY <1>1, CallIs
      <4>2. Len(d) <= 1
        BY <2>2, <4>1
      <4>3. ~(1 + 1 <= 1)
        OBVIOUS
      <4> QED BY <2>3, <4>1, <4>2, <4>3
    <3> QED BY <3>1
  <2>5. i.at = <<>>
    BY <1>1, <2>4
  <2>6. Target(i) = Dir(i.way)
    BY <1>2, <2>1, <2>5
  <2>7. i.way = <<i.way[1]>>
    BY <2>1, <2>3
  <2>8. Len(Dir(i.way)) = 2
    BY <1>1, <1>4 DEF Flat
  <2> QED BY <1>4, <2>1, <2>3, <2>5, <2>6, <2>7, <2>8
<1> QED BY <1>3, <1>4

LEMMA FlatOnce ==
  ASSUME NEW m, Loaded(m), Flat(m), NEW i \in Tasks(m), ~IsFile(i), NEW j \in Tasks(m), ~IsFile(j),
         Target(i) = Target(j)
  PROVE  i = j
<1>1. i = Item(i.way, i.at) /\ j = Item(j.way, j.at)
  BY TaskIs
<1>2. /\ i.way = <<>> => Target(i) = i.at /\ Len(Target(i)) \in {0, 1}
      /\ i.way # <<>> => i.at = <<>> /\ i.way = <<Target(i)>> /\ Len(Target(i)) = 2
  BY FlatDir
<1>3. /\ j.way = <<>> => Target(j) = j.at /\ Len(Target(j)) \in {0, 1}
      /\ j.way # <<>> => j.at = <<>> /\ j.way = <<Target(j)>> /\ Len(Target(j)) = 2
  BY FlatDir
<1>4. i.way = <<>> <=> j.way = <<>>
  BY <1>2, <1>3
<1>5. i.way = j.way /\ i.at = j.at
  BY <1>2, <1>3, <1>4
<1> QED BY <1>1, <1>5

LEMMA FlatFile ==
  ASSUME NEW m, Loaded(m), Flat(m), NEW j \in Tasks(m), IsFile(j), NEW n \in 1 .. Len(j.at) - 1,
         NEW x, x = Dir(j.way) \o SubSeq(j.at, 1, n)
  PROVE  Len(x) \in Nat \ {0} /\ (x[1] # PlansDir \/ Len(x) > 2)
<1> DEFINE r == SubSeq(j.at, 1, n)
<1>1. j.way \in DOMAIN m /\ j.at \in DOMAIN m[j.way]
  BY FileIs
<1>2. j.at \in Seq(Part) /\ j.at[1] # PlansDir
  BY <1>1, PathIs
<1>3. n \in Nat \ {0} /\ n <= Len(j.at)
  <2>1. Len(j.at) \in Nat
    BY <1>2
  <2>2. \A h \in Nat : \A y \in 1 .. h - 1 : y \in Nat \ {0} /\ y <= h
    OBVIOUS
  <2> QED BY <2>1, <2>2
<1>4. r \in Seq(Part) /\ Len(r) = n /\ r[1] = j.at[1]
  <2>1. r \in Seq(Part) /\ Len(r) = n /\ \A h \in 1 .. n : r[h] = j.at[h]
    BY <1>2, <1>3, Slice
  <2> QED BY <1>3, <2>1
<1> HIDE DEF r
<1>5. CASE j.way = <<>>
  <2>1. x = r
    BY <1>4, <1>5 DEF Dir, r
  <2> QED BY <1>2, <1>3, <1>4, <2>1
<1>6. CASE j.way # <<>>
  <2>1. Dir(j.way) \in Seq(Part)
    BY <1>1, WayIs
  <2>2. Len(Dir(j.way)) = 2
    BY <1>1, <1>6 DEF Flat
  <2>3. Len(Dir(j.way) \o r) = Len(Dir(j.way)) + Len(r)
    BY <1>4, <2>1, Parts
  <2>4. Len(x) = 2 + n
    BY <1>4, <2>2, <2>3 DEF r
  <2> QED BY <1>3, <2>4
<1> QED BY <1>5, <1>6

LEMMA FlatGoesOn ==
  ASSUME NEW m, Loaded(m), Flat(m), NEW to, NEW d, Progress(m, to, d), NEW i \in to, ~IsFile(i),
         TurnIn(to, i)
  PROVE  /\ Target(i) \notin d.dirs
         /\ Target(i) = <<>> \/ Front(Target(i)) \in d.dirs
<1>1. /\ Ordered(m, to) /\ IsThere(m, to, d) /\ Explained(m, to, d)
      /\ i \in Tasks(m) /\ Waits(to, i)
  BY DEF Progress, Ordered, Waits
<1>2. i.way \in DOMAIN m
  BY <1>1, TaskIs
<1>3. Target(i) \notin d.dirs
  <2>1. SUFFICES ASSUME Target(i) \in d.dirs PROVE FALSE
    OBVIOUS
  <2>2. ASSUME NEW j \in Made(m, to), Target(i) = Target(j) PROVE FALSE
    <3>1. j \in Tasks(m) /\ ~IsFile(j) /\ ~Waits(to, j)
      BY DEF Made, Done
    <3>2. i = j
      BY <1>1, <2>2, <3>1, FlatOnce
    <3> QED BY <1>1, <3>1, <3>2
  <2>3. ASSUME NEW j \in Written(m, to), NEW n \in 1 .. Len(j.at) - 1,
               Target(i) = Dir(j.way) \o SubSeq(j.at, 1, n)
        PROVE  FALSE
    <3>1. j \in Tasks(m) /\ IsFile(j)
      BY DEF Written, Done
    <3>2. Len(Target(i)) \in Nat \ {0} /\ (Target(i)[1] # PlansDir \/ Len(Target(i)) > 2)
      BY <2>3, <3>1, FlatFile
    <3>3. /\ i.way = <<>> => Target(i) = i.at /\ i.at \in {<<>>, <<PlansDir>>}
          /\ i.way # <<>> => Len(Target(i)) = 2 /\ Target(i)[1] = PlansDir
      BY <1>1, FlatDir
    <3>4. Len(<<>>) = 0 /\ Len(<<PlansDir>>) = 1 /\ <<PlansDir>>[1] = PlansDir
      OBVIOUS
    <3>5. CASE i.way = <<>>
      <4>1. Target(i) = <<PlansDir>>
        BY <3>2, <3>3, <3>4, <3>5
      <4>2. Target(i)[1] = PlansDir /\ Len(Target(i)) = 1
        BY <3>4, <4>1
      <4> QED BY <3>2, <4>2
    <3>6. CASE i.way # <<>>
      <4>1. Len(Target(i)) = 2 /\ Target(i)[1] = PlansDir
        BY <3>3, <3>6
      <4>2. ~(2 > 2)
        OBVIOUS
      <4> QED BY <3>2, <4>1, <4>2
    <3> QED BY <3>5, <3>6
  <2>4. \/ \E j \in Made(m, to) : Target(i) = Target(j)
        \/ \E j \in Written(m, to) : \E n \in 1 .. Len(j.at) - 1 : Target(i) = Dir(j.way) \o SubSeq(j.at, 1, n)
    <3> DEFINE x == Target(i)
    <3>1. x \in d.dirs
      BY <2>1
    <3> HIDE DEF x
    <3>2. \/ \E j \in Made(m, to) : x = Target(j)
          \/ \E j \in Written(m, to) : \E n \in 1 .. Len(j.at) - 1 : x = Dir(j.way) \o SubSeq(j.at, 1, n)
      BY <1>1, <3>1 DEF Explained
    <3> QED BY <3>2 DEF x
  <2> QED BY <2>2, <2>3, <2>4
<1>4. Target(i) = <<>> \/ Front(Target(i)) \in d.dirs
  <2>1. <<>> \in DOMAIN m
    BY ManIs, WaysFacts
  <2>2. Target(Item(<<>>, <<>>)) = <<>> /\ Target(Item(<<>>, <<PlansDir>>)) = <<PlansDir>>
    BY Names, ItemIs DEF Dir
  <2>3. CASE i.way = <<>>
    <3>1. Target(i) = i.at /\ i.at \in {<<>>, <<PlansDir>>}
      BY <1>1, <2>3, FlatDir
    <3>2. CASE i.at = <<PlansDir>>
      <4>1. i.at # <<>>
        BY <3>2
      <4>2. Item(<<>>, <<>>) \in Done(m, to)
        BY <1>1, <2>3, <4>1 DEF Ordered
      <4>3. Item(<<>>, <<>>) \in Made(m, to)
        BY <2>1, <4>2, TaskOf DEF Made
      <4>4. <<>> \in d.dirs
        BY <1>1, <2>2, <4>3 DEF IsThere
      <4>5. Front(<<PlansDir>>) = <<>>
        BY DEF Front
      <4> QED BY <3>1, <3>2, <4>4, <4>5
    <3> QED BY <3>1, <3>2
  <2>4. CASE i.way # <<>>
    <3> DEFINE k == Item(<<>>, <<PlansDir>>)
    <3>1. i.at = <<>> /\ Target(i) \in Seq(Part) /\ Len(Target(i)) = 2 /\ Target(i)[1] = PlansDir
          /\ i.way = <<Target(i)>>
      BY <1>1, <2>4, FlatDir
    <3>2. Len(i.way) = 1 /\ Front(i.way) \in DOMAIN m /\ i.way \in Calls(m, Front(i.way))
          /\ Len(Front(i.way)) = 0
      <4>1. Len(i.way) = 1
        BY <3>1
      <4>2. Front(i.way) \in DOMAIN m /\ i.way \in Calls(m, Front(i.way)) /\ Len(Front(i.way)) = Len(i.way) - 1
        BY <1>2, <2>4, FrontWay
      <4> QED BY <4>1, <4>2
    <3>3. Front(i.way) = <<>>
      <4>1. Front(i.way) \in Seq(Seq(Part))
        BY <3>2, WayIs
      <4> QED BY <3>2, <4>1
    <3>4. k \in Tasks(m) /\ ~IsFile(k) /\ k.at = <<PlansDir>> /\ k.way = <<>>
      BY <2>1, <3>2, <3>3, TaskOf, ItemIs
    <3> HIDE DEF k
    <3>5. k \notin to
      <4>1. SUFFICES ASSUME k \in to PROVE FALSE
        OBVIOUS
      <4>2. Caller(i) = <<>>
        BY <2>4, <3>1, <3>3 DEF Caller
      <4>3. Caller(k) = <<>>
        BY <3>4 DEF Caller
      <4>4. Stage(i) = 4
        <5>1. <<MainOf(i.way)>> # <<>> /\ <<PlansDir>> # <<>>
          OBVIOUS
        <5> QED BY <3>1, <5>1 DEF Stage, IsFile
      <4>5. Stage(k) = 3
        <5>1. <<MainOf(k.way)>> # <<PlansDir>>
          BY Names DEF MainOf
        <5> QED BY <3>4, <5>1 DEF Stage
      <4>6. Len(<<>>) = 0
        OBVIOUS
      <4>7. Len(Caller(k)) < Len(Caller(i)) \/ Stage(i) <= Stage(k)
        BY <4>1 DEF TurnIn
      <4> QED BY <4>2, <4>3, <4>4, <4>5, <4>6, <4>7
    <3>6. ~Waits(to, k)
      <4>1. Item(<<>>, <<>>) \in Done(m, to)
        BY <1>1, <2>4, <3>1, <3>3 DEF Ordered
      <4>2. Item(<<>>, <<>>) \notin to
        BY <4>1 DEF Done, Waits
      <4>3. \A n \in 0 .. Len(<<>>) : SubSeq(<<>>, 1, n) = <<>>
        <5>1. Len(<<>>) = 0 /\ \A n \in 0 .. 0 : n = 0
          OBVIOUS
        <5>2. SubSeq(<<>>, 1, 0) = <<>>
          OBVIOUS
        <5> QED BY <5>1, <5>2
      <4>4. \A n \in 0 .. Len(k.way) : SubSeq(k.way, 1, n) = <<>>
        BY <3>4, <4>3
      <4> QED BY <3>5, <4>2, <4>4 DEF Waits
    <3>7. k \in Made(m, to)
      BY <3>4, <3>6 DEF Made, Done
    <3>8. <<PlansDir>> \in d.dirs
      BY <1>1, <2>2, <3>7 DEF IsThere, k
    <3>9. Front(Target(i)) = <<PlansDir>>
      <4> DEFINE p == Target(i)
      <4>1. p \in Seq(Part) /\ Len(p) = 2 /\ p[1] = PlansDir
        BY <3>1
      <4> HIDE DEF p
      <4>2. p # <<>>
        <5>1. \A c : Len(c) = 2 => c # <<>>
          OBVIOUS
        <5> QED BY <4>1, <5>1
      <4>3. Front(p) \in Seq(Part) /\ Len(Front(p)) = 1 /\ Front(p)[1] = PlansDir
        <5>1. /\ Front(p) \in Seq(Part) /\ Len(Front(p)) = Len(p) - 1
              /\ \A h \in 1 .. Len(p) - 1 : Front(p)[h] = p[h]
          BY <4>1, <4>2, FrontLast
        <5>2. 2 - 1 = 1 /\ 1 \in 1 .. 1
          OBVIOUS
        <5> QED BY <4>1, <5>1, <5>2
      <4>4. Front(p) = <<PlansDir>>
        BY <4>3
      <4> QED BY <4>4 DEF p
    <3> QED BY <3>8, <3>9
  <2> QED BY <2>3, <2>4
<1> QED BY <1>3, <1>4

(* When nothing is left to do, all is done. *)
LEMMA NothingLeft ==
  ASSUME NEW m, Loaded(m), NEW i \in Tasks(m)
  PROVE  /\ IsFile(i) => i \in Written(m, {})
         /\ ~IsFile(i) => i \in Made(m, {})
BY DEF Written, Made, Done, Waits

LEMMA AllWritten ==
  ASSUME NEW m, Loaded(m), NEW d, Progress(m, {}, d), d.files \in [DOMAIN d.files -> Data]
  PROVE  d.files = Image(m)
<1>1. IsThere(m, {}, d) /\ Within(m, d)
  BY DEF Progress
<1>2. ASSUME NEW p \in Placed(m) PROVE p \in DOMAIN d.files
  <2>1. PICK w \in Writes(m) : p = Target(w)
    BY DEF Placed
  <2>2. w.way \in DOMAIN m /\ w.at \in DOMAIN m[w.way] /\ w = Item(w.way, w.at)
    BY WritesAre
  <2>3. w \in Tasks(m) /\ IsFile(w)
    BY <2>2, TaskOf
  <2>4. w \in Written(m, {})
    BY <2>3, NothingLeft
  <2> QED BY <1>1, <2>1, <2>4 DEF IsThere
<1>3. \A p \in DOMAIN d.files : p \in Placed(m) /\ d.files[p] = Image(m)[p]
  BY <1>1 DEF Within
<1>4. DOMAIN d.files = Placed(m)
  BY <1>2, <1>3
<1>5. Image(m) = [p \in Placed(m) |-> Image(m)[p]]
  BY DEF Image
<1>6. d.files = [p \in Placed(m) |-> d.files[p]]
  BY <1>4
<1> QED BY <1>3, <1>4, <1>5, <1>6

LEMMA NoneInner ==
  ASSUME NEW m, Loaded(m), NEW d, Progress(m, {}, d)
  PROVE  NoInner(m)
<1>1. Once(m, {})
  BY DEF Progress
<1>2. ASSUME NEW c \in DOMAIN m, ~(Len(c) <= 1) PROVE FALSE
  <2> DEFINE e == SubSeq(c, 1, 2)
             g == <<c[2]>>
  <2>1. /\ c \in Seq(Seq(Part)) /\ Len(c) \in Nat
        /\ \A n \in 0 .. Len(c) : SubSeq(c, 1, n) \in DOMAIN m
        /\ \A n \in 1 .. Len(c) : <<c[n]>> \in DOMAIN m /\ c[n] \in Seq(Part)
    BY WayIs
  <2>2. 2 \in 0 .. Len(c) /\ 2 \in 1 .. Len(c) /\ 2 <= Len(c)
    BY <1>2, <2>1
  <2>3. e \in DOMAIN m /\ g \in DOMAIN m /\ c[2] \in Seq(Part)
    BY <2>1, <2>2
  <2>4. Len(e) = 2 /\ e[2] = c[2]
    <3>1. Len(e) = 2 + 1 - 1 /\ \A i \in 1 .. 2 + 1 - 1 : e[i] = c[1 - 1 + i]
      BY <2>1, <2>2, Slice
    <3>2. 2 + 1 - 1 = 2 /\ 1 - 1 + 2 = 2 /\ 2 \in 1 .. 2
      OBVIOUS
    <3> QED BY <3>1, <3>2
  <2> HIDE DEF e
  <2>5. Len(g) = 1 /\ g[1] = c[2] /\ g # <<>>
    OBVIOUS
  <2> HIDE DEF g
  <2>6. e # <<>>
    <3>1. Len(<<>>) = 0
      OBVIOUS
    <3> QED BY <2>4, <3>1
  <2>7. Dir(e) = c[2] /\ Dir(g) = c[2]
    <3>1. Dir(e) = e[Len(e)] /\ Dir(g) = g[Len(g)]
      BY <2>3, <2>5, <2>6, WayIs
    <3> QED BY <2>4, <2>5, <3>1
  <2>8. Target(Item(e, <<>>)) = Target(Item(g, <<>>))
    BY <2>7, ItemIs
  <2>9. Item(e, <<>>) \in Made(m, {}) /\ Item(g, <<>>) \in Made(m, {})
    BY <2>3, TaskOf, NothingLeft
  <2>10. Item(e, <<>>) = Item(g, <<>>)
    BY <1>1, <2>8, <2>9 DEF Once
  <2>11. e = g
    BY <2>10, ItemIs
  <2> QED BY <2>4, <2>5, <2>11
<1> QED BY <1>2 DEF NoInner

LEMMA AllChained ==
  ASSUME NEW m, Loaded(m), NEW d, Progress(m, {}, d)
  PROVE  Chained(m)
<1>1. NoInner(m)
  BY NoneInner
<1>2. ASSUME NEW c \in DOMAIN m \ {<<>>}
      PROVE  Front(Dir(c)) \in {<<PlansDir>>} \cup {Dir(b) : b \in DOMAIN m \ {<<>>}}
  <2> DEFINE p == Dir(c)
  <2>1. p \in Seq(Part) /\ p # <<>> /\ p[1] = PlansDir
    BY <1>2, WayIs
  <2>2. Len(c) = 1 /\ Front(c) \in DOMAIN m /\ c \in Calls(m, Front(c)) /\ Len(Front(c)) = 0
    <3>1. Len(c) \in Nat \ {0} /\ Front(c) \in DOMAIN m /\ c \in Calls(m, Front(c))
          /\ Len(Front(c)) = Len(c) - 1
      BY <1>2, FrontWay
    <3>2. Len(c) <= 1
      BY <1>1, <1>2 DEF NoInner
    <3>3. \A k \in Nat \ {0} : k <= 1 => k = 1 /\ k - 1 = 0
      OBVIOUS
    <3> QED BY <3>1, <3>2, <3>3
  <2>3. Front(c) = <<>>
    <3>1. Front(c) \in Seq(Seq(Part))
      BY <2>2, WayIs
    <3> QED BY <2>2, <3>1
  <2>4. Item(c, <<>>) \in Made(m, {}) /\ Target(Item(c, <<>>)) = p
    <3>1. Item(c, <<>>) \in Made(m, {})
      BY <1>2, TaskOf, NothingLeft
    <3> QED BY <2>1, <3>1, ItemIs
  <2>5. PICK j \in Made(m, {}) : Target(j) = Front(p)
    <3>1. Item(c, <<>>) \in Done(m, {})
      BY <2>4 DEF Made
    <3> QED BY <1>2, <2>2, <3>1 DEF Progress, Parents
  <2>6. j \in Tasks(m) /\ ~IsFile(j)
    BY DEF Made, Done
  <2>7. /\ j.way \in DOMAIN m
        /\ j.at = <<>> \/ (j.at = <<PlansDir>> /\ Calls(m, j.way) # {})
    BY <2>6, TaskIs
  <2>8. Target(j) = Dir(j.way) \o j.at /\ Dir(j.way) \in Seq(Part)
    BY <2>7, WayIs DEF Target
  <2> HIDE DEF p
  <2>9. CASE j.way = <<>> /\ j.at = <<>>
    <3>1. Front(p) = <<>>
      BY <2>5, <2>8, <2>9 DEF Dir
    <3>2. Len(p) = 1
      <4>1. Len(Front(p)) = Len(p) - 1 /\ Len(p) \in Nat
        BY <2>1, FrontLast
      <4>2. Len(<<>>) = 0
        OBVIOUS
      <4>3. \A k \in Nat : k - 1 = 0 => k = 1
        OBVIOUS
      <4> QED BY <3>1, <4>1, <4>2, <4>3
    <3>3. p = <<PlansDir>>
      BY <2>1, <3>2
    <3> DEFINE k == Item(<<>>, <<PlansDir>>)
    <3>4. k \in Made(m, {})
      BY <2>2, <2>3, TaskOf, NothingLeft
    <3>5. Target(k) = <<PlansDir>>
      BY Names, ItemIs DEF Dir
    <3>6. k = Item(c, <<>>)
      BY <2>4, <3>3, <3>4, <3>5 DEF Progress, Once
    <3>7. c = <<>>
      BY <3>6, ItemIs
    <3> QED BY <1>2, <3>7
  <2>10. CASE j.way = <<>> /\ j.at = <<PlansDir>>
    <3>1. Target(j) = <<PlansDir>>
      BY <2>8, <2>10, Names DEF Dir
    <3> QED BY <2>5, <3>1 DEF p
  <2>11. CASE j.way # <<>> /\ j.at = <<>>
    <3>1. Target(j) = Dir(j.way)
      BY <2>8, <2>11
    <3> QED BY <2>5, <2>7, <2>11, <3>1 DEF p
  <2>12. CASE j.way # <<>> /\ j.at = <<PlansDir>>
    <3>1. <<PlansDir>> # <<>>
      OBVIOUS
    <3>2. PICK b \in Calls(m, j.way) : TRUE
      BY <2>7, <2>12, <3>1
    <3>3. b \in DOMAIN m /\ Len(b) = Len(j.way) + 1
      BY <2>7, CallIs
    <3>4. Len(j.way) \in Nat \ {0}
      BY <2>7, <2>12, WayIs
    <3>5. Len(b) <= 1
      BY <1>1, <3>3 DEF NoInner
    <3>6. \A k \in Nat \ {0} : ~(k + 1 <= 1)
      OBVIOUS
    <3> QED BY <3>3, <3>4, <3>5, <3>6
  <2> QED BY <2>7, <2>9, <2>10, <2>11, <2>12
<1> QED BY <1>1, <1>2 DEF Chained

(* An archive of a manifest without plans' plans: every entry has the path *)
(* of its file, and the one that lookup finds first has its data.          *)
LEMMA BaseIs ==
  ASSUME NEW m, Loaded(m), NEW c \in DOMAIN m, Len(c) <= 1
  PROVE  Base(c) = Dir(c)
<1>1. CASE c = <<>>
  BY <1>1 DEF Base, Dir
<1>2. CASE c # <<>>
  <2>1. Dir(c) \in Seq(Part)
    BY WayIs
  <2>2. Len(c) \in Nat \ {0} /\ Front(c) \in DOMAIN m /\ Len(Front(c)) = Len(c) - 1
    BY <1>2, FrontWay
  <2>3. Len(Front(c)) = 0
    <3>1. \A k \in Nat \ {0} : k <= 1 => k - 1 = 0
      OBVIOUS
    <3> QED BY <2>2, <3>1
  <2>4. Front(c) = <<>>
    <3>1. Front(c) \in Seq(Seq(Part))
      BY <2>2, WayIs
    <3> QED BY <2>3, <3>1
  <2>5. Len(Dir(Front(c))) + 1 = 1
    <3>1. Len(<<>>) + 1 = 1
      OBVIOUS
    <3> QED BY <2>4, <3>1 DEF Dir
  <2>6. SubSeq(Dir(c), 1, Len(Dir(c))) = Dir(c)
    BY <2>1, Whole
  <2> QED BY <1>2, <2>5, <2>6 DEF Base
<1> QED BY <1>1, <1>2

LEMMA EntryIs ==
  ASSUME NEW m, Loaded(m), NoInner(m), NEW w \in Writes(m)
  PROVE  EntryOf(m, w).name = Target(w) /\ EntryOf(m, w).data = Image(m)[Target(w)]
<1>1. w.way \in DOMAIN m /\ w.at \in DOMAIN m[w.way] /\ Target(w) = Dir(w.way) \o w.at
  BY WritesAre
<1>2. m[w.way][w.at] = Image(m)[Dir(w.way) \o w.at]
  BY <1>1, PathIs
<1>3. Base(w.way) = Dir(w.way)
  BY <1>1, BaseIs DEF NoInner
<1>4. EntryOf(m, w).name = Base(w.way) \o w.at /\ EntryOf(m, w).data = m[w.way][w.at]
  BY DEF EntryOf
<1> QED BY <1>1, <1>2, <1>3, <1>4

First(es, p) == CHOOSE i \in DOMAIN es : es[i].name = p /\ \A j \in 1 .. i - 1 : es[j].name # p

LEMMA FirstOf ==
  ASSUME NEW E, NEW es \in Seq(E), NEW p, NEW k \in DOMAIN es, es[k].name = p
  PROVE  First(es, p) \in DOMAIN es /\ es[First(es, p)].name = p
<1> DEFINE T == {i \in DOMAIN es : es[i].name = p}
<1>1. DOMAIN es = 1 .. Len(es) /\ Len(es) \in Nat
  OBVIOUS
<1>2. T \in SUBSET Nat /\ T # {}
  BY <1>1
<1> HIDE DEF T
<1>3. PICK x \in T : \A y \in T : x <= y
  BY <1>2, Least
<1>4. x \in DOMAIN es /\ es[x].name = p
  BY <1>3 DEF T
<1>5. ASSUME NEW j \in 1 .. x - 1 PROVE es[j].name # p
  <2>1. j \in DOMAIN es /\ ~(x <= j)
    BY <1>1, <1>4
  <2> QED BY <1>3, <2>1 DEF T
<1>6. \E i \in DOMAIN es : es[i].name = p /\ \A j \in 1 .. i - 1 : es[j].name # p
  BY <1>4, <1>5
<1> QED BY <1>6 DEF First

LEMMA IsSeq ==
  ASSUME NEW S, NEW n \in Nat, NEW s \in [1 .. n -> S]
  PROVE  s \in Seq(S)
OBVIOUS

Holds(es, g) ==
  /\ g \in [DOMAIN g -> Data]
  /\ \A i \in DOMAIN es : es[i].name \in DOMAIN g /\ es[i].data = g[es[i].name]
  /\ \A p \in DOMAIN g : \E i \in DOMAIN es : es[i].name = p

LEMMA Lookup ==
  ASSUME NEW E, NEW es \in Seq(E), NEW g, Holds(es, g)
  PROVE  TarFS(es) = g
<1> DEFINE P == DOMAIN g
<1>0. /\ g = [p \in P |-> g[p]]
      /\ \A i \in DOMAIN es : es[i].name \in P /\ es[i].data = g[es[i].name]
      /\ \A p \in P : \E i \in DOMAIN es : es[i].name = p
  BY DEF Holds
<1> HIDE DEF P
<1>1. ToSet(es) = {es[i] : i \in DOMAIN es}
  BY DEF ToSet
<1>2. {e.name : e \in ToSet(es)} = P
  <2>1. \A e \in ToSet(es) : e.name \in P
    BY <1>0, <1>1
  <2>2. ASSUME NEW p \in P PROVE \E e \in ToSet(es) : e.name = p
    BY <1>0, <1>1
  <2> QED BY <2>1, <2>2
<1>3. ASSUME NEW p \in P
      PROVE  es[CHOOSE i \in DOMAIN es : es[i].name = p /\ \A j \in 1 .. i - 1 : es[j].name # p].data = g[p]
  <2>1. PICK k \in DOMAIN es : es[k].name = p
    BY <1>0
  <2>2. First(es, p) \in DOMAIN es /\ es[First(es, p)].name = p
    BY <2>1, FirstOf
  <2>3. es[First(es, p)].data = g[p]
    BY <1>0, <2>2
  <2> QED BY <2>3 DEF First
<1>4. TarFS(es) = [p \in P |-> g[p]]
  BY <1>2, <1>3 DEF TarFS
<1> QED BY <1>0, <1>4

(* An entry of a manifest without backslashes is read under its name, and  *)
(* that is one LoadArchive takes.                                          *)
LEMMA EntryRead ==
  ASSUME NEW m, Loaded(m), NoInner(m), Portable(m), NEW w \in Writes(m), NEW e, e = EntryOf(m, w)
  PROVE  /\ NameRead(e.name) = Target(w) /\ Target(w) \in Placed(m) /\ Legal(NameRead(e.name))
         /\ AsRead[e.data] = AsRead[Image(m)[Target(w)]]
<1>1. w.way \in DOMAIN m /\ w.at \in DOMAIN m[w.way] /\ Target(w) = Dir(w.way) \o w.at
  BY WritesAre
<1>2. e.name = Target(w) /\ e.data = Image(m)[Target(w)]
  BY EntryIs
<1>3. NameRead(e.name) = Target(w)
  BY <1>1, <1>2 DEF Portable, NameRead
<1>4. Target(w) \in Placed(m)
  BY DEF Placed
<1>5. Dir(w.way) \in Seq(Part) /\ (w.way # <<>> => Dir(w.way) # <<>> /\ Dir(w.way)[1] = PlansDir)
  BY <1>1, WayIs
<1>6. w.at \in Seq(Part) /\ w.at # <<>> /\ (w.at # <<MainOf(w.way)>> => w.at[1] \in Kinds)
  BY <1>1, PathIs
<1>7. Target(w) \in Seq(Part) /\ Target(w) # <<>> /\ Target(w)[1] \in Kinds \cup {MainFile, PlansDir}
  <2>1. CASE w.way = <<>>
    <3>1. Target(w) = w.at
      BY <1>1, <1>6, <2>1 DEF Dir
    <3>2. w.at = <<MainFile>> \/ w.at[1] \in Kinds
      BY <1>6, <2>1 DEF MainOf
    <3>3. w.at = <<MainFile>> => w.at[1] = MainFile
      OBVIOUS
    <3> QED BY <1>6, <3>1, <3>2, <3>3
  <2>2. CASE w.way # <<>>
    <3> DEFINE d == Dir(w.way)
    <3>1. d \in Seq(Part) /\ Len(d) \in Nat \ {0} /\ d[1] = PlansDir
      BY <1>5, <2>2
    <3> HIDE DEF d
    <3>2. d \o w.at \in Seq(Part) /\ (d \o w.at)[1] = d[1] /\ d \o w.at # <<>>
      <4>1. /\ d \o w.at \in Seq(Part) /\ Len(d \o w.at) = Len(d) + Len(w.at)
            /\ \A i \in 1 .. Len(d) : (d \o w.at)[i] = d[i]
            /\ Len(d) \in Nat /\ Len(w.at) \in Nat
        BY <1>6, <3>1, Parts
      <4>2. 1 \in 1 .. Len(d) /\ Len(d) + Len(w.at) # 0
        BY <3>1, <4>1
      <4>3. Len(<<>>) = 0
        OBVIOUS
      <4> QED BY <4>1, <4>2, <4>3
    <3>3. Target(w) = d \o w.at
      BY <1>1 DEF d
    <3> QED BY <3>1, <3>2, <3>3
  <2> QED BY <2>1, <2>2
<1>8. Head(Target(w)) = Target(w)[1]
  BY <1>7
<1>9. \A x \in Kinds \cup {MainFile, PlansDir} : x \notin Dotted \cup Drives /\ x # Up
  BY ManifestAssumption
<1>10. Legal(Target(w))
  BY <1>7, <1>8, <1>9 DEF Legal
<1> QED BY <1>2, <1>3, <1>4, <1>10

LEMMA SavedRead ==
  ASSUME NEW m, Loaded(m), NoInner(m), Portable(m),
         NEW es \in Seq([name : Seq(Part), data : Data]),
         ToSet(es) = {EntryOf(m, w) : w \in Writes(m)}
  PROVE  /\ \A i \in DOMAIN es : Legal(NameRead(es[i].name))
         /\ TarFS(EntriesRead(es)) = [p \in Placed(m) |-> AsRead[Image(m)[p]]]
<1> DEFINE rs == EntriesRead(es)
           g == [p \in Placed(m) |-> AsRead[Image(m)[p]]]
<1>1. ToSet(es) = {es[i] : i \in DOMAIN es}
  BY DEF ToSet
<1>2. ASSUME NEW i \in DOMAIN es
      PROVE  /\ NameRead(es[i].name) \in Placed(m) /\ Legal(NameRead(es[i].name))
             /\ AsRead[es[i].data] = AsRead[Image(m)[NameRead(es[i].name)]]
  <2>1. es[i] \in {EntryOf(m, w) : w \in Writes(m)}
    BY <1>1
  <2>2. PICK w \in Writes(m) : es[i] = EntryOf(m, w)
    BY <2>1
  <2> QED BY <2>2, EntryRead
<1>3. ASSUME NEW p \in Placed(m) PROVE \E i \in DOMAIN es : NameRead(es[i].name) = p
  <2>1. PICK w \in Writes(m) : p = Target(w)
    BY DEF Placed
  <2>2. EntryOf(m, w) \in {es[i] : i \in DOMAIN es}
    BY <1>1
  <2>3. PICK i \in DOMAIN es : es[i] = EntryOf(m, w)
    BY <2>2
  <2>4. NameRead(es[i].name) = Target(w)
    BY <2>3, EntryRead
  <2> QED BY <2>1, <2>4
<1>4. /\ rs = [i \in 1 .. Len(es) |-> [name |-> NameRead(es[i].name), data |-> AsRead[es[i].data]]]
      /\ DOMAIN es = 1 .. Len(es) /\ Len(es) \in Nat
  <2>1. DOMAIN es = 1 .. Len(es) /\ Len(es) \in Nat
    OBVIOUS
  <2> QED BY <2>1 DEF EntriesRead
<1>5. /\ DOMAIN rs = DOMAIN es
      /\ \A i \in DOMAIN es : rs[i].name = NameRead(es[i].name) /\ rs[i].data = AsRead[es[i].data]
  BY <1>4
<1> DEFINE R == {rs[i] : i \in DOMAIN es}
<1>6. /\ DOMAIN rs = 1 .. Len(es) /\ rs = [i \in 1 .. Len(es) |-> rs[i]]
      /\ \A i \in 1 .. Len(es) : rs[i] \in R
  BY <1>4
<1> HIDE DEF R, rs
<1>7. rs \in Seq(R)
  <2>1. rs \in [1 .. Len(es) -> R]
    BY <1>6
  <2> QED BY <1>4, <2>1, IsSeq
<1>8. g \in [Placed(m) -> Data] /\ \A p \in Placed(m) : g[p] = AsRead[Image(m)[p]]
  <2>1. \A p \in Placed(m) : Image(m)[p] \in Data
    BY ManIs DEF IsTree
  <2>2. \A d \in Data : AsRead[d] \in Data
    BY ManifestAssumption
  <2> QED BY <2>1, <2>2
<1> HIDE DEF g
<1>9. \A i \in DOMAIN rs : rs[i].name \in Placed(m) /\ rs[i].data = g[rs[i].name]
  BY <1>2, <1>5, <1>8
<1>10. \A p \in Placed(m) : \E i \in DOMAIN rs : rs[i].name = p
  BY <1>3, <1>5
<1>11. TarFS(rs) = g
  <2>1. Holds(rs, g)
    BY <1>8, <1>9, <1>10 DEF Holds
  <2> QED BY <1>7, <2>1, Lookup
<1> QED BY <1>2, <1>11 DEF rs, g

(* What is loaded is found by the paths, whatever the data are. *)
LEMMA LoadsByPath ==
  ASSUME NEW t, IsTree(t), Loadable(t), NEW f, NEW u, u = [p \in DOMAIN t |-> f[t[p]]]
  PROVE  Load(u) = [c \in Ways(t) |-> [q \in DOMAIN Own(t, c) |-> f[Own(t, c)[q]]]]
<1>1. DOMAIN u = DOMAIN t /\ \A p \in DOMAIN t : u[p] = f[t[p]]
  OBVIOUS
<1>2. Ways(u) = Ways(t)
  BY <1>1 DEF Ways, PlanDirs
<1>3. Loadable(u)
  BY <1>1, <1>2 DEF Loadable
<1>4. ASSUME NEW c \in Ways(t)
      PROVE  Own(u, c) = [q \in DOMAIN Own(t, c) |-> f[Own(t, c)[q]]]
  <2>1. Below(u, Dir(c)) = Below(t, Dir(c))
    BY <1>1 DEF Below
  <2> DEFINE D == {q \in Below(t, Dir(c)) : q = <<MainOf(c)>> \/ (q # <<>> /\ Head(q) \in Kinds)}
  <2>2. Own(t, c) = [q \in D |-> t[Dir(c) \o q]] /\ Own(u, c) = [q \in D |-> u[Dir(c) \o q]]
    BY <2>1 DEF Own
  <2> HIDE DEF D
  <2>3. DOMAIN Own(t, c) = D
    BY <2>2
  <2>4. \A q \in D : u[Dir(c) \o q] = f[Own(t, c)[q]]
    BY <1>1, <2>3, OwnIs
  <2> QED BY <2>2, <2>3, <2>4
<1>5. Load(u) = [c \in Ways(t) |-> Own(u, c)]
  BY <1>2, <1>3 DEF Load
<1> QED BY <1>4, <1>5

(* What is written of a manifest. *)
LEMMA EntryTypes ==
  ASSUME NEW m, Loaded(m), NEW w \in Writes(m)
  PROVE  EntryOf(m, w) \in [name : Seq(Part), data : Data]
<1>1. w.way \in DOMAIN m /\ w.at \in DOMAIN m[w.way]
  BY WritesAre
<1>2. w.at \in Seq(Part) /\ m[w.way][w.at] \in Data
  BY <1>1, PathIs
<1>3. Base(w.way) \in Seq(Part)
  <2> DEFINE c == w.way
  <2>1. CASE c = <<>>
    BY <2>1, Names DEF Base
  <2>2. CASE c # <<>>
    <3>1. Dir(c) \in Seq(Part)
      BY <1>1, WayIs
    <3>2. Front(c) \in DOMAIN m
      BY <1>1, <2>2, FrontWay
    <3>3. Dir(Front(c)) \in Seq(Part)
      BY <3>2, WayIs
    <3>4. Len(Dir(Front(c))) + 1 \in Int /\ Len(Dir(c)) \in Int
      BY <3>1, <3>3
    <3>5. SubSeq(Dir(c), Len(Dir(Front(c))) + 1, Len(Dir(c))) \in Seq(Part)
      BY <3>1, <3>3, <3>4, SubSeqProperties
    <3> QED BY <2>2, <3>5 DEF Base
  <2> QED BY <2>1, <2>2
<1>4. Base(w.way) \o w.at \in Seq(Part)
  BY <1>2, <1>3
<1> QED BY <1>2, <1>4 DEF EntryOf

-----------------------------------------------------------------------------
(***************************************************************************)
(* The directory that SaveDir writes to                                    *)
(***************************************************************************)
DestOK(d) ==
  /\ d.files \in [DOMAIN d.files -> Data] /\ <<>> \notin DOMAIN d.files
  /\ DOMAIN d.files \cup d.dirs \subseteq Seq(Part)
  /\ Closed(d)
  /\ DOMAIN d.files \cap d.dirs = {}

LEMMA RootThere ==
  ASSUME NEW d, DestOK(d), d.dirs # {}
  PROVE  <<>> \in d.dirs
<1>1. PICK p \in d.dirs : p \in Seq(Part)
  BY DEF DestOK
<1>2. CASE p = <<>>
  BY <1>2
<1>3. CASE p # <<>>
  <2>1. 0 \in 0 .. Len(p) - 1
    <3>1. Len(p) \in Nat \ {0}
      BY <1>1, <1>3
    <3> QED BY <3>1
  <2>2. SubSeq(p, 1, 0) = <<>>
    BY <1>1, Whole
  <2>3. <<>> \in Ancestors(p)
    BY <2>1, <2>2 DEF Ancestors
  <2> QED BY <2>3 DEF DestOK, Closed
<1> QED BY <1>2, <1>3

LEMMA AncestorsOf ==
  ASSUME NEW S, NEW p \in Seq(S), NEW x \in Ancestors(p)
  PROVE  Ancestors(x) \subseteq Ancestors(p)
<1>1. Len(x) < Len(p) /\ Len(x) \in Nat /\ Len(p) \in Nat /\ x = SubSeq(p, 1, Len(x))
  BY AncestorIs
<1>2. ASSUME NEW n \in 0 .. Len(x) - 1 PROVE SubSeq(x, 1, n) \in Ancestors(p)
  <2>1. n \in 0 .. Len(x) /\ n \in 0 .. Len(p) - 1 /\ Len(x) <= Len(p)
    BY <1>1
  <2>2. SubSeq(SubSeq(p, 1, Len(x)), 1, n) = SubSeq(p, 1, n)
    BY <1>1, <2>1, SliceOfSlice
  <2>3. SubSeq(p, 1, n) \in Ancestors(p)
    BY <2>1 DEF Ancestors
  <2> QED BY <1>1, <2>2, <2>3
<1> QED BY <1>2 DEF Ancestors

LEMMA AncestorsFront ==
  ASSUME NEW S, NEW p \in Seq(S), p # <<>>
  PROVE  Ancestors(p) \subseteq {Front(p)} \cup Ancestors(Front(p))
<1>1. Front(p) \in Seq(S) /\ Len(Front(p)) = Len(p) - 1 /\ Len(p) \in Nat \ {0}
  BY FrontLast
<1>2. ASSUME NEW n \in 0 .. Len(p) - 1
      PROVE  SubSeq(p, 1, n) \in {Front(p)} \cup Ancestors(Front(p))
  <2>1. CASE n = Len(p) - 1
    BY <2>1 DEF Front
  <2>2. CASE n # Len(p) - 1
    <3>1. Len(p) - 1 \in Nat /\ Len(p) - 1 <= Len(p) /\ n \in 0 .. Len(p) - 1 /\ n \in 0 .. Len(p) - 1 - 1
      BY <1>1, <2>2
    <3>2. SubSeq(SubSeq(p, 1, Len(p) - 1), 1, n) = SubSeq(p, 1, n)
      BY <3>1, SliceOfSlice
    <3>3. SubSeq(Front(p), 1, n) \in Ancestors(Front(p))
      BY <1>1, <3>1 DEF Ancestors
    <3> QED BY <3>2, <3>3 DEF Front
  <2> QED BY <2>1, <2>2
<1> QED BY <1>2 DEF Ancestors

LEMMA DirAdded ==
  ASSUME NEW d, DestOK(d), NEW p \in Seq(Part), p \notin DOMAIN d.files,
         p = <<>> \/ Front(p) \in d.dirs
  PROVE  DestOK([dirs |-> d.dirs \cup {p}, files |-> d.files])
<1> DEFINE d2 == [dirs |-> d.dirs \cup {p}, files |-> d.files]
<1>1. d2.dirs = d.dirs \cup {p} /\ d2.files = d.files
  OBVIOUS
<1> HIDE DEF d2
<1>2. Ancestors(p) \subseteq d.dirs
  <2>1. CASE p = <<>>
    <3>1. 0 .. Len(<<>>) - 1 = {}
      OBVIOUS
    <3> QED BY <2>1, <3>1 DEF Ancestors
  <2>2. CASE p # <<>>
    <3>1. Front(p) \in d.dirs
      BY <2>2
    <3>2. Ancestors(Front(p)) \subseteq d.dirs
      BY <3>1 DEF DestOK, Closed
    <3> QED BY <2>2, <3>1, <3>2, AncestorsFront
  <2> QED BY <2>1, <2>2
<1>3. Closed(d2)
  BY <1>1, <1>2 DEF DestOK, Closed
<1> QED BY <1>1, <1>3 DEF DestOK, d2

LEMMA DirsAdded ==
  ASSUME NEW d, DestOK(d), NEW p \in Seq(Part), \A x \in Ancestors(p) : x \notin DOMAIN d.files
  PROVE  DestOK([dirs |-> d.dirs \cup Ancestors(p), files |-> d.files])
<1> DEFINE d2 == [dirs |-> d.dirs \cup Ancestors(p), files |-> d.files]
<1>1. d2.dirs = d.dirs \cup Ancestors(p) /\ d2.files = d.files
  OBVIOUS
<1> HIDE DEF d2
<1>2. \A x \in Ancestors(p) : x \in Seq(Part) /\ Ancestors(x) \subseteq Ancestors(p)
  BY AncestorIs, AncestorsOf
<1>3. Closed(d2)
  BY <1>1, <1>2 DEF DestOK, Closed
<1> QED BY <1>1, <1>2, <1>3 DEF DestOK, d2

LEMMA FileAdded ==
  ASSUME NEW d, DestOK(d), NEW p \in Seq(Part), p # <<>>, p \notin d.dirs, NEW data \in Data,
         \A x \in Ancestors(p) : x \notin DOMAIN d.files
  PROVE  DestOK([dirs  |-> d.dirs \cup Ancestors(p),
                 files |-> [q \in DOMAIN d.files \cup {p} |-> IF q = p THEN data ELSE d.files[q]]])
<1> DEFINE f2 == [q \in DOMAIN d.files \cup {p} |-> IF q = p THEN data ELSE d.files[q]]
           d2 == [dirs |-> d.dirs \cup Ancestors(p), files |-> f2]
<1>1. d2.dirs = d.dirs \cup Ancestors(p) /\ d2.files = f2
  OBVIOUS
<1>2. DOMAIN f2 = DOMAIN d.files \cup {p} /\ f2 \in [DOMAIN f2 -> Data]
  BY DEF DestOK
<1> HIDE DEF d2, f2
<1>3. \A x \in Ancestors(p) : x \in Seq(Part) /\ Ancestors(x) \subseteq Ancestors(p)
  BY AncestorIs, AncestorsOf
<1>4. p \notin Ancestors(p)
  <2>1. SUFFICES ASSUME p \in Ancestors(p) PROVE FALSE
    OBVIOUS
  <2>2. Len(p) < Len(p) /\ Len(p) \in Nat
    BY <2>1, AncestorIs
  <2> QED BY <2>2
<1>5. Closed(d2)
  BY <1>1, <1>2, <1>3 DEF DestOK, Closed
<1> QED BY <1>1, <1>2, <1>3, <1>4, <1>5 DEF DestOK, d2, f2

(* A file of the manifest is no directory that was made for it, and has no *)
(* other file above it.                                                    *)
LEMMA FileFits ==
  ASSUME NEW m, Loaded(m), NEW d, Within(m, d), NEW i \in Tasks(m), IsFile(i)
  PROVE  /\ Target(i) \in Seq(Part) /\ Target(i) # <<>> /\ Target(i) \notin d.dirs
         /\ \A x \in Ancestors(Target(i)) : x \notin DOMAIN d.files
<1>1. Target(i) \in Placed(m) /\ Target(i) \in Seq(Part)
  BY FileIs
<1>2. /\ DOMAIN Image(m) = Placed(m) /\ <<>> \notin Placed(m)
      /\ \A x, y \in Placed(m) : ~IsStrictPrefix(x, y)
  BY ManIs DEF IsTree
<1>3. Target(i) \notin d.dirs
  BY <1>1, <1>2 DEF Within
<1>4. ASSUME NEW x \in Ancestors(Target(i)), x \in DOMAIN d.files PROVE FALSE
  <2>1. IsStrictPrefix(x, Target(i))
    BY <1>1, AncestorIs
  <2> QED BY <1>1, <1>2, <1>4, <2>1 DEF Within
<1> QED BY <1>1, <1>2, <1>3, <1>4

-----------------------------------------------------------------------------
(***************************************************************************)
(* The inductive invariant: a manifest in memory is loaded from a tree, an *)
(* archive has what was written, and a directory that SaveDir writes has   *)
(* what is done of the manifest, and nothing else.                         *)
(***************************************************************************)
Control ==
  /\ pc \in {"idle", "saving", "extracting"}
  /\ pc # "idle" => man # Nil
  /\ pc # "extracting" => todo = {}
  /\ outcome \in {"none", "ok", "failed"}
  /\ existed \in BOOLEAN /\ troubled \in BOOLEAN

ArchiveOK ==
  /\ archive.entries \in Seq([name : Seq(Part), data : Data])
  /\ archive.whole =>
       archive.there /\ ToSet(archive.entries) = {EntryOf(kept, w) : w \in Writes(kept)}
  /\ pc = "saving" =>
       /\ left \subseteq Writes(kept)
       /\ ToSet(archive.entries) = {EntryOf(kept, w) : w \in Writes(kept) \ left}
  /\ pc # "saving" => left = {}

Manifests ==
  /\ man = Nil \/ Loaded(man)
  /\ kept = Nil \/ Loaded(kept)
  /\ pc = "saving" \/ archive.whole => kept # Nil

Extraction ==
  /\ pc = "extracting" => outcome = "none"
  /\ outcome = "ok" => man # Nil /\ ~existed
  /\ outcome = "failed" => man # Nil /\ (troubled \/ existed \/ ~Flat(man))
  /\ pc = "extracting" /\ existed => todo = {Item(<<>>, <<>>)} /\ <<>> \in dest.dirs
  /\ (pc = "extracting" /\ ~existed) \/ outcome = "ok" => Progress(man, todo, dest)

IInv == Control /\ ArchiveOK /\ DestOK(dest) /\ Manifests /\ Extraction

LEMMA Types == IInv => TypeOK
BY DEF IInv, Control, ArchiveOK, DestOK, Closed, TypeOK

LEMMA InitInv == Init => IInv
<1> SUFFICES ASSUME Init PROVE IInv
  OBVIOUS
<1>1. Control
  BY DEF Init, Control
<1>2. ArchiveOK
  <2>1. archive.entries = <<>> /\ archive.whole = FALSE /\ pc = "idle" /\ left = {}
    BY DEF Init, NoArchive
  <2> QED BY <2>1 DEF ArchiveOK
<1>3. DestOK(dest)
  <2>1. dest.dirs = {} /\ DOMAIN dest.files = {}
    BY DEF Init, NoDest
  <2>2. dest.files \in [{} -> Data]
    BY DEF Init, NoDest
  <2> QED BY <2>1, <2>2 DEF DestOK, Closed
<1>4. Manifests
  BY DEF Init, Manifests, NoArchive
<1>5. Extraction
  BY DEF Init, Extraction
<1> QED BY <1>1, <1>2, <1>3, <1>4, <1>5 DEF IInv

(* Loading *)
LEMMA LoadsLoaded ==
  ASSUME NEW t, IsTree(t)
  PROVE  Load(t) = Nil \/ Loaded(Load(t))
BY LoadedIs DEF Load

LEMMA SameArchive ==
  ASSUME ArchiveOK, pc # "saving", pc' # "saving", UNCHANGED <<archive, left, kept>>
  PROVE  ArchiveOK'
BY DEF ArchiveOK

LEMMA LoadInv ==
  ASSUME IInv, NEW t, IsTree(t), pc = "idle", man' = Nil \/ man' = Load(t), outcome' = "none",
         UNCHANGED <<pc, saving, extracting, kept, existed, troubled>>
  PROVE  IInv'
<1> USE DEF saving, extracting
<1>1. Control'
  BY DEF IInv, Control
<1>2. ArchiveOK'
  BY SameArchive DEF IInv
<1>3. DestOK(dest)'
  BY DEF IInv
<1>4. Manifests'
  BY LoadsLoaded DEF IInv, Manifests
<1>5. Extraction'
  BY DEF IInv, Extraction
<1> QED BY <1>1, <1>2, <1>3, <1>4, <1>5 DEF IInv

LEMMA LoadDirInv ==
  ASSUME IInv, NEW t \in Trees, LoadDir(t)
  PROVE  IInv'
<1>1. IsTree(t)
  BY ManifestAssumption
<1>2. /\ pc = "idle" /\ man' = Load(t) /\ outcome' = "none"
      /\ UNCHANGED <<pc, saving, extracting, kept, existed, troubled>>
  BY DEF LoadDir
<1> QED BY <1>1, <1>2, LoadInv

LEMMA LoadNothingInv ==
  ASSUME IInv, pc = "idle", man' = Nil, outcome' = "none",
         UNCHANGED <<pc, saving, extracting, kept, existed, troubled>>
  PROVE  IInv'
<1> USE DEF saving, extracting
<1>1. Control' /\ Manifests' /\ Extraction'
  BY DEF IInv, Control, Manifests, Extraction
<1>2. ArchiveOK'
  BY SameArchive DEF IInv
<1>3. DestOK(dest)'
  BY DEF IInv
<1> QED BY <1>1, <1>2, <1>3 DEF IInv

LEMMA LoadFileInv ==
  ASSUME IInv, LoadFile
  PROVE  IInv'
<1> DEFINE t == TarFS(EntriesRead(archive.entries))
<1>1. /\ pc = "idle" /\ outcome' = "none"
      /\ UNCHANGED <<pc, saving, extracting, kept, existed, troubled>>
  BY DEF LoadFile
<1>2. man' = Nil \/ (IsTree(t) /\ man' = Load(t))
  BY DEF LoadFile, LoadArchive
<1> HIDE DEF t
<1> QED BY <1>1, <1>2, LoadInv, LoadNothingInv

(* Save *)
LEMMA CreateInv ==
  ASSUME IInv, Create
  PROVE  IInv'
<1>1. /\ pc = "idle" /\ man # Nil /\ pc' = "saving"
      /\ archive' = [there |-> TRUE, whole |-> FALSE, entries |-> <<>>]
      /\ left' = Writes(man) /\ kept' = man
      /\ UNCHANGED <<man, dest, todo, outcome, existed, troubled>>
  BY DEF Create, extracting
<1>2. archive'.entries = <<>> /\ archive'.whole = FALSE
  BY <1>1
<1>3. Control'
  BY <1>1 DEF IInv, Control
<1>4. ArchiveOK'
  <2>1. ToSet(<<>>) = {}
    BY DEF ToSet
  <2>2. {EntryOf(kept', w) : w \in Writes(kept') \ left'} = {}
    BY <1>1
  <2>3. left' \subseteq Writes(kept')
    BY <1>1
  <2> QED BY <1>1, <1>2, <2>1, <2>2, <2>3 DEF ArchiveOK
<1>5. DestOK(dest)'
  BY <1>1 DEF IInv
<1>6. Manifests'
  BY <1>1, <1>2 DEF IInv, Manifests
<1>7. Extraction'
  BY <1>1 DEF IInv, Extraction
<1> QED BY <1>3, <1>4, <1>5, <1>6, <1>7 DEF IInv

LEMMA AppendSet ==
  ASSUME NEW S, NEW s \in Seq(S), NEW x \in S
  PROVE  Append(s, x) \in Seq(S) /\ ToSet(Append(s, x)) = ToSet(s) \cup {x}
<1> DEFINE u == Append(s, x)
<1>1. /\ u \in Seq(S) /\ Len(u) = Len(s) + 1 /\ Len(s) \in Nat
      /\ DOMAIN u = 1 .. Len(u) /\ DOMAIN s = 1 .. Len(s)
      /\ \A i \in 1 .. Len(s) : u[i] = s[i]
      /\ u[Len(s) + 1] = x
  OBVIOUS
<1> HIDE DEF u
<1>2. \A i \in 1 .. Len(s) + 1 : i \in 1 .. Len(s) \/ i = Len(s) + 1
  BY <1>1
<1>3. Len(s) + 1 \in 1 .. Len(s) + 1 /\ \A i \in 1 .. Len(s) : i \in 1 .. Len(s) + 1
  BY <1>1
<1>4. \A y : y \in ToSet(u) <=> y \in ToSet(s) \cup {x}
  BY <1>1, <1>2, <1>3 DEF ToSet
<1> QED BY <1>1, <1>4 DEF u

LEMMA WriteToTarInv ==
  ASSUME IInv, WriteToTar
  PROVE  IInv'
<1>1. PICK w \in left :
        \/ /\ archive' = [there |-> TRUE, whole |-> FALSE,
                          entries |-> Append(archive.entries, EntryOf(kept, w))]
           /\ left' = left \ {w} /\ UNCHANGED pc
        \/ archive' = NoArchive /\ left' = {} /\ pc' = "idle"
  BY DEF WriteToTar
<1>2. pc = "saving" /\ UNCHANGED <<man, dest, todo, kept, outcome, existed, troubled>>
  BY DEF WriteToTar, extracting, history
<1>3. archive'.whole = FALSE
  BY <1>1 DEF NoArchive
<1>4. Control'
  BY <1>1, <1>2 DEF IInv, Control
<1>5. ArchiveOK'
  <2>1. CASE /\ archive' = [there |-> TRUE, whole |-> FALSE,
                            entries |-> Append(archive.entries, EntryOf(kept, w))]
             /\ left' = left \ {w} /\ UNCHANGED pc
    <3> DEFINE E == [name : Seq(Part), data : Data]
               e == EntryOf(kept, w)
    <3>1. /\ left \subseteq Writes(kept) /\ archive.entries \in Seq(E)
          /\ ToSet(archive.entries) = {EntryOf(kept, v) : v \in Writes(kept) \ left}
      BY <1>2 DEF IInv, ArchiveOK
    <3>2. e \in E
      BY <1>2, <3>1, EntryTypes DEF IInv, Manifests
    <3> HIDE DEF E
    <3>3. /\ Append(archive.entries, e) \in Seq(E)
          /\ ToSet(Append(archive.entries, e)) = ToSet(archive.entries) \cup {e}
      BY <3>1, <3>2, AppendSet
    <3>4. Writes(kept) \ (left \ {w}) = (Writes(kept) \ left) \cup {w}
      BY <3>1
    <3>5. ToSet(archive.entries) \cup {e} = {EntryOf(kept, v) : v \in Writes(kept) \ (left \ {w})}
      BY <3>1, <3>4
    <3>6. archive'.entries = Append(archive.entries, e)
      BY <2>1
    <3> HIDE DEF e
    <3>7. archive'.entries \in Seq(E)
      BY <3>3, <3>6
    <3>8. left' \subseteq Writes(kept')
      BY <1>2, <2>1, <3>1
    <3>9. ToSet(archive'.entries) = {EntryOf(kept', v) : v \in Writes(kept') \ left'}
      BY <1>2, <2>1, <3>3, <3>5, <3>6
    <3>10. pc' = "saving"
      BY <1>2, <2>1
    <3> QED BY <1>3, <3>7, <3>8, <3>9, <3>10 DEF ArchiveOK, E
  <2>2. CASE archive' = NoArchive /\ left' = {} /\ pc' = "idle"
    <3>1. archive'.entries = <<>>
      BY <2>2 DEF NoArchive
    <3> QED BY <1>3, <2>2, <3>1 DEF ArchiveOK
  <2> QED BY <1>1, <2>1, <2>2
<1>6. DestOK(dest)'
  BY <1>2 DEF IInv
<1>7. Manifests'
  BY <1>1, <1>2, <1>3 DEF IInv, Manifests
<1>8. Extraction'
  <2>1. pc # "extracting" /\ pc' # "extracting"
    BY <1>1, <1>2
  <2> QED BY <1>2, <2>1 DEF IInv, Extraction
<1> QED BY <1>4, <1>5, <1>6, <1>7, <1>8 DEF IInv

LEMMA CloseInv ==
  ASSUME IInv, Close
  PROVE  IInv'
<1>1. PICK whole \in BOOLEAN : archive' = [there |-> TRUE, whole |-> whole, entries |-> archive.entries]
  BY DEF Close
<1>2. /\ pc = "saving" /\ left = {} /\ pc' = "idle"
      /\ UNCHANGED <<man, left, dest, todo, kept, outcome, existed, troubled>>
  BY DEF Close, extracting, history
<1>3. archive'.there = TRUE /\ archive'.entries = archive.entries
  BY <1>1
<1>4. Control'
  BY <1>2 DEF IInv, Control
<1>5. ArchiveOK'
  <2>1. archive.entries \in Seq([name : Seq(Part), data : Data])
    BY DEF IInv, ArchiveOK
  <2>2. ToSet(archive.entries) = {EntryOf(kept, w) : w \in Writes(kept)}
    <3>1. ToSet(archive.entries) = {EntryOf(kept, w) : w \in Writes(kept) \ left}
      BY <1>2 DEF IInv, ArchiveOK
    <3>2. Writes(kept) \ left = Writes(kept)
      BY <1>2
    <3> QED BY <3>1, <3>2
  <2> QED BY <1>2, <1>3, <2>1, <2>2 DEF ArchiveOK
<1>6. DestOK(dest)'
  BY <1>2 DEF IInv
<1>7. Manifests'
  BY <1>2 DEF IInv, Manifests
<1>8. Extraction'
  BY <1>2 DEF IInv, Extraction
<1> QED BY <1>4, <1>5, <1>6, <1>7, <1>8 DEF IInv

(* SaveDir *)
LEMMA SaveDirInv ==
  ASSUME IInv, SaveDir
  PROVE  IInv'
<1>1. /\ pc = "idle" /\ man # Nil /\ pc' = "extracting" /\ todo' = {Item(<<>>, <<>>)}
      /\ outcome' = "none" /\ existed' = (dest.dirs # {}) /\ troubled' = FALSE
      /\ UNCHANGED <<man, archive, left, dest, kept>>
  BY DEF SaveDir, saving
<1>2. Control'
  BY <1>1 DEF IInv, Control
<1>3. ArchiveOK'
  <2>1. pc # "saving" /\ pc' # "saving"
    BY <1>1
  <2> QED BY <1>1, <2>1, SameArchive DEF IInv
<1>4. DestOK(dest) /\ DestOK(dest)'
  BY <1>1 DEF IInv
<1>5. Manifests' /\ Loaded(man)
  BY <1>1 DEF IInv, Manifests
<1>6. Extraction'
  <2>1. existed' => <<>> \in dest.dirs
    BY <1>1, <1>4, RootThere
  <2>2. ~existed' => Progress(man, {Item(<<>>, <<>>)}, dest)
    <3>1. SUFFICES ASSUME ~existed' PROVE Progress(man, {Item(<<>>, <<>>)}, dest)
      OBVIOUS
    <3>2. dest.dirs = {}
      BY <1>1, <3>1
    <3>3. Closed(dest) /\ DOMAIN dest.files \subseteq Seq(Part) /\ <<>> \notin DOMAIN dest.files
      BY <1>4 DEF DestOK
    <3> QED BY <1>5, <3>2, <3>3, Starts
  <2> QED BY <1>1, <2>1, <2>2 DEF Extraction
<1> QED BY <1>2, <1>3, <1>4, <1>5, <1>6 DEF IInv

(* While it runs, over a directory that was there only the first call is   *)
(* to be done, and it finds the directory.                                 *)
LEMMA Running ==
  ASSUME IInv, pc = "extracting"
  PROVE  /\ Loaded(man) /\ outcome = "none"
         /\ existed => todo = {Item(<<>>, <<>>)} /\ <<>> \in dest.dirs
         /\ ~existed => Progress(man, todo, dest) /\ Ordered(man, todo) /\ todo \subseteq Tasks(man)
<1>1. man # Nil
  BY DEF IInv, Control
<1> QED BY <1>1 DEF IInv, Manifests, Extraction, Progress, Ordered

LEMMA RootRefused ==
  ASSUME IInv, pc = "extracting", existed, NEW i \in todo
  PROVE  ~IsFile(i) /\ Target(i) \in dest.dirs
<1>1. i = Item(<<>>, <<>>) /\ <<>> \in dest.dirs
  BY Running
<1>2. i.at = <<>> /\ Target(i) = Dir(<<>>) \o <<>>
  BY <1>1, ItemIs
<1>3. Target(i) = <<>>
  BY <1>2 DEF Dir
<1> QED BY <1>1, <1>2, <1>3 DEF IsFile

LEMMA MakeDirInv ==
  ASSUME IInv, MakeDir
  PROVE  IInv'
<1>1. pc = "extracting" /\ UNCHANGED <<man, pc, archive, left, kept, outcome, existed, troubled>>
  BY DEF MakeDir, saving, history
<1>2. PICK i \in todo :
        /\ Turn(i) /\ ~IsFile(i) /\ ~Exists(Target(i)) /\ Mkdirs(Target(i))
        /\ dest' = [dirs |-> dest.dirs \cup {Target(i)}, files |-> dest.files]
        /\ todo' = (todo \ {i}) \cup (IF i.at = <<>> THEN Items(man, i.way) ELSE {})
  BY DEF MakeDir
<1>3. /\ TurnIn(todo, i) /\ Target(i) \notin dest.dirs /\ Target(i) \notin DOMAIN dest.files
      /\ Target(i) = <<>> \/ Front(Target(i)) \in dest.dirs
  BY <1>2 DEF Turn, TurnIn, Exists, Mkdirs
<1>4. existed \in BOOLEAN /\ ~existed
  BY <1>1, <1>3, RootRefused DEF IInv, Control
<1>5. /\ Loaded(man) /\ Progress(man, todo, dest) /\ Ordered(man, todo) /\ i \in Tasks(man)
      /\ DestOK(dest) /\ Closed(dest)
  BY <1>1, <1>4, Running DEF IInv, DestOK
<1>6. i.way \in DOMAIN man /\ i = Item(i.way, i.at) /\ Target(i) \in Seq(Part)
  BY <1>2, <1>5, TaskIs, Above
<1>7. Ordered(man, todo') /\ Done(man, todo') = Done(man, todo) \cup {i}
  <2>1. CASE i.at = <<>>
    <3>1. todo' = (todo \ {Item(i.way, <<>>)}) \cup Items(man, i.way) /\ Item(i.way, <<>>) = i
      BY <1>2, <1>6, <2>1
    <3>2. Item(i.way, <<>>) \in todo
      BY <3>1
    <3>3. LET to2 == (todo \ {Item(i.way, <<>>)}) \cup Items(man, i.way)
          IN  Ordered(man, to2) /\ Done(man, to2) = Done(man, todo) \cup {Item(i.way, <<>>)}
      BY <1>5, <1>6, <3>2, Called
    <3> QED BY <3>1, <3>3
  <2>2. CASE i.at # <<>>
    <3>1. todo' = todo \ {i}
      BY <1>2, <2>2
    <3>2. Ordered(man, todo \ {i}) /\ Done(man, todo \ {i}) = Done(man, todo) \cup {i}
      BY <1>5, <2>2, Drops
    <3> QED BY <3>1, <3>2
  <2> QED BY <2>1, <2>2
<1>8. ASSUME i.at = <<>> /\ Len(i.way) = 1
      PROVE  \E j \in Made(man, todo) : Target(j) = Front(Dir(i.way))
  <2>1. Target(i) # <<>>
    <3>1. i.way # <<>>
      <4>1. \A c : Len(c) = 1 => c # <<>>
        OBVIOUS
      <4> QED BY <1>8, <4>1
    <3>2. Dir(i.way) # <<>> /\ Dir(i.way) \in Seq(Part)
      BY <1>5, <1>6, <3>1, WayIs
    <3>3. Target(i) = Dir(i.way)
      BY <1>8, <3>2 DEF Target
    <3> QED BY <3>2, <3>3
  <2>2. Front(Target(i)) \in dest.dirs
    BY <1>3, <2>1
  <2> QED BY <1>3, <1>5, <1>8, <2>2, ParentMade
<1>9. Progress(man, todo', dest')
  <2>1. Progress(man, todo', [dirs |-> dest.dirs \cup {Target(i)}, files |-> dest.files])
    BY <1>2, <1>3, <1>5, <1>7, <1>8, MadeStep
  <2> QED BY <1>2, <2>1
<1>10. Control'
  BY <1>1 DEF IInv, Control
<1>11. ArchiveOK'
  <2>1. pc # "saving" /\ pc' # "saving"
    BY <1>1
  <2> QED BY <1>1, <2>1, SameArchive DEF IInv
<1>12. DestOK(dest')
  <2>1. DestOK([dirs |-> dest.dirs \cup {Target(i)}, files |-> dest.files])
    BY <1>3, <1>5, <1>6, DirAdded
  <2> QED BY <1>2, <2>1
<1>13. Manifests'
  BY <1>1 DEF IInv, Manifests
<1>14. Extraction'
  BY <1>1, <1>4, <1>9 DEF IInv, Extraction
<1> QED BY <1>10, <1>11, <1>12, <1>13, <1>14 DEF IInv

LEMMA WriteFileInv ==
  ASSUME IInv, WriteFile
  PROVE  IInv'
<1>1. pc = "extracting" /\ UNCHANGED <<man, pc, archive, left, kept, outcome, existed, troubled>>
  BY DEF WriteFile, saving, history
<1>2. PICK i \in todo :
        /\ Turn(i) /\ IsFile(i)
        /\ dest' = [dirs  |-> dest.dirs \cup Ancestors(Target(i)),
                    files |-> With(Target(i), man[i.way][i.at])]
        /\ todo' = todo \ {i}
  BY DEF WriteFile
<1>3. existed \in BOOLEAN /\ ~existed
  BY <1>1, <1>2, RootRefused DEF IInv, Control
<1>4. /\ Loaded(man) /\ Progress(man, todo, dest) /\ i \in Tasks(man)
      /\ DestOK(dest) /\ Closed(dest) /\ Within(man, dest)
  BY <1>1, <1>3, Running DEF IInv, DestOK, Progress
<1>5. dest' = [dirs  |-> dest.dirs \cup Ancestors(Target(i)),
               files |-> [q \in DOMAIN dest.files \cup {Target(i)} |->
                            IF q = Target(i) THEN man[i.way][i.at] ELSE dest.files[q]]]
  BY <1>2 DEF With
<1>6. Progress(man, todo', dest')
  <2>1. Progress(man, todo \ {i},
          [dirs  |-> dest.dirs \cup Ancestors(Target(i)),
           files |-> [q \in DOMAIN dest.files \cup {Target(i)} |->
                        IF q = Target(i) THEN man[i.way][i.at] ELSE dest.files[q]]])
    BY <1>2, <1>4, WrittenStep
  <2> QED BY <1>2, <1>5, <2>1
<1>7. Control'
  BY <1>1 DEF IInv, Control
<1>8. ArchiveOK'
  <2>1. pc # "saving" /\ pc' # "saving"
    BY <1>1
  <2> QED BY <1>1, <2>1, SameArchive DEF IInv
<1>9. DestOK(dest')
  <2>1. man[i.way][i.at] \in Data
    BY <1>2, <1>4, FileIs
  <2>2. /\ Target(i) \in Seq(Part) /\ Target(i) # <<>> /\ Target(i) \notin dest.dirs
        /\ \A x \in Ancestors(Target(i)) : x \notin DOMAIN dest.files
    BY <1>2, <1>4, FileFits
  <2> QED BY <1>4, <1>5, <2>1, <2>2, FileAdded
<1>10. Manifests'
  BY <1>1 DEF IInv, Manifests
<1>11. Extraction'
  BY <1>1, <1>3, <1>6 DEF IInv, Extraction
<1> QED BY <1>7, <1>8, <1>9, <1>10, <1>11 DEF IInv

LEMMA RefusedInv ==
  ASSUME IInv, Refused
  PROVE  IInv'
<1>1. /\ pc = "extracting" /\ pc' = "idle" /\ todo' = {} /\ outcome' = "failed"
      /\ UNCHANGED <<man, archive, left, dest, kept, existed, troubled>>
  BY DEF Refused, GiveUp, saving
<1>2. PICK i \in todo : Turn(i) /\ ~IsFile(i) /\ (Exists(Target(i)) \/ ~Mkdirs(Target(i)))
  BY DEF Refused
<1>3. Control /\ man # Nil /\ existed \in BOOLEAN
  BY <1>1 DEF IInv, Control
<1>4. existed \/ ~Flat(man)
  <2>1. SUFFICES ASSUME ~existed, Flat(man) PROVE FALSE
    BY <1>3
  <2>2. Loaded(man) /\ Progress(man, todo, dest) /\ i \in Tasks(man) /\ Within(man, dest)
    BY <1>1, <2>1, Running DEF Progress
  <2>3. TurnIn(todo, i)
    BY <1>2 DEF Turn, TurnIn
  <2>4. /\ Target(i) \notin dest.dirs
        /\ Target(i) = <<>> \/ Front(Target(i)) \in dest.dirs
    BY <1>2, <2>1, <2>2, <2>3, FlatGoesOn
  <2>5. Target(i) \notin DOMAIN dest.files
    BY <1>2, <2>2, NotAFile
  <2> QED BY <1>2, <2>4, <2>5 DEF Exists, Mkdirs
<1>5. Control'
  BY <1>1, <1>3 DEF Control
<1>6. ArchiveOK'
  <2>1. pc # "saving" /\ pc' # "saving"
    BY <1>1
  <2> QED BY <1>1, <2>1, SameArchive DEF IInv
<1>7. DestOK(dest)'
  BY <1>1 DEF IInv
<1>8. Manifests'
  BY <1>1 DEF IInv, Manifests
<1>9. Extraction'
  BY <1>1, <1>3, <1>4 DEF Extraction
<1> QED BY <1>5, <1>6, <1>7, <1>8, <1>9 DEF IInv

LEMMA TroubleInv ==
  ASSUME IInv, Trouble
  PROVE  IInv'
<1>1. /\ pc = "extracting" /\ pc' = "idle" /\ todo' = {} /\ outcome' = "failed" /\ troubled' = TRUE
      /\ UNCHANGED <<man, archive, left, kept, existed>>
  BY DEF Trouble, GiveUp, saving
<1>2. PICK i \in todo :
        \/ UNCHANGED dest
        \/ /\ IsFile(i)
           /\ \E files \in {dest.files} \cup {With(Target(i), d) : d \in Data} :
                dest' = [dirs |-> dest.dirs \cup Ancestors(Target(i)), files |-> files]
  BY DEF Trouble
<1>3. Control /\ man # Nil /\ existed \in BOOLEAN /\ DestOK(dest)
  BY <1>1 DEF IInv, Control
<1>4. DestOK(dest')
  <2>1. CASE UNCHANGED dest
    BY <1>3, <2>1
  <2>2. CASE /\ IsFile(i)
             /\ \E files \in {dest.files} \cup {With(Target(i), d) : d \in Data} :
                  dest' = [dirs |-> dest.dirs \cup Ancestors(Target(i)), files |-> files]
    <3>1. ~existed
      BY <1>1, <2>2, RootRefused
    <3>2. Loaded(man) /\ i \in Tasks(man) /\ Within(man, dest)
      BY <1>1, <3>1, Running DEF Progress
    <3>3. /\ Target(i) \in Seq(Part) /\ Target(i) # <<>> /\ Target(i) \notin dest.dirs
          /\ \A x \in Ancestors(Target(i)) : x \notin DOMAIN dest.files
      BY <2>2, <3>2, FileFits
    <3>4. CASE dest' = [dirs |-> dest.dirs \cup Ancestors(Target(i)), files |-> dest.files]
      BY <1>3, <3>3, <3>4, DirsAdded
    <3>5. ASSUME NEW data \in Data,
                 dest' = [dirs |-> dest.dirs \cup Ancestors(Target(i)), files |-> With(Target(i), data)]
          PROVE  DestOK(dest')
      <4>1. dest' = [dirs  |-> dest.dirs \cup Ancestors(Target(i)),
                     files |-> [q \in DOMAIN dest.files \cup {Target(i)} |->
                                  IF q = Target(i) THEN data ELSE dest.files[q]]]
        BY <3>5 DEF With
      <4> QED BY <1>3, <3>3, <4>1, FileAdded
    <3> QED BY <2>2, <3>4, <3>5
  <2> QED BY <1>2, <2>1, <2>2
<1>5. Control'
  BY <1>1, <1>3 DEF Control
<1>6. ArchiveOK'
  <2>1. pc # "saving" /\ pc' # "saving"
    BY <1>1
  <2> QED BY <1>1, <2>1, SameArchive DEF IInv
<1>7. Manifests'
  BY <1>1 DEF IInv, Manifests
<1>8. Extraction'
  BY <1>1, <1>3 DEF Extraction
<1> QED BY <1>4, <1>5, <1>6, <1>7, <1>8 DEF IInv

LEMMA ExtractedInv ==
  ASSUME IInv, Extracted
  PROVE  IInv'
<1>1. /\ pc = "extracting" /\ todo = {} /\ pc' = "idle" /\ outcome' = "ok"
      /\ UNCHANGED <<man, archive, left, dest, todo, kept, existed, troubled>>
  BY DEF Extracted, saving, extracting
<1>2. Control /\ man # Nil /\ existed \in BOOLEAN
  BY <1>1 DEF IInv, Control
<1>3. ~existed /\ Progress(man, todo, dest)
  <2>1. {Item(<<>>, <<>>)} # {}
    OBVIOUS
  <2>2. ~existed
    BY <1>1, <2>1, Running
  <2> QED BY <1>1, <2>2, Running
<1>4. Control'
  BY <1>1, <1>2 DEF Control
<1>5. ArchiveOK'
  <2>1. pc # "saving" /\ pc' # "saving"
    BY <1>1
  <2> QED BY <1>1, <2>1, SameArchive DEF IInv
<1>6. DestOK(dest)'
  BY <1>1 DEF IInv
<1>7. Manifests'
  BY <1>1 DEF IInv, Manifests
<1>8. Extraction'
  BY <1>1, <1>2, <1>3 DEF Extraction
<1> QED BY <1>4, <1>5, <1>6, <1>7, <1>8 DEF IInv

LEMMA DieInv ==
  ASSUME IInv, Die
  PROVE  IInv'
<1>1. /\ man' = Nil /\ pc' = "idle" /\ left' = {} /\ todo' = {} /\ outcome' = "none"
      /\ UNCHANGED <<archive, dest, kept, existed, troubled>>
  BY DEF Die
<1>2. Control'
  BY <1>1 DEF IInv, Control
<1>3. ArchiveOK'
  BY <1>1 DEF IInv, ArchiveOK
<1>4. DestOK(dest)'
  BY <1>1 DEF IInv
<1>5. Manifests'
  BY <1>1 DEF IInv, Manifests
<1>6. Extraction'
  BY <1>1 DEF Extraction
<1> QED BY <1>2, <1>3, <1>4, <1>5, <1>6 DEF IInv

LEMMA ClearInv ==
  ASSUME IInv, Clear
  PROVE  IInv'
<1>1. /\ pc = "idle" /\ dest' = NoDest /\ outcome' = "none"
      /\ UNCHANGED <<man, pc, archive, left, todo, kept, existed, troubled>>
  BY DEF Clear, saving
<1>2. Control'
  BY <1>1 DEF IInv, Control
<1>3. ArchiveOK'
  <2>1. pc # "saving" /\ pc' # "saving"
    BY <1>1
  <2> QED BY <1>1, <2>1, SameArchive DEF IInv
<1>4. DestOK(dest')
  <2>1. NoDest.dirs = {} /\ DOMAIN NoDest.files = {} /\ NoDest.files \in [{} -> Data]
    BY DEF NoDest
  <2>2. DestOK(NoDest)
    BY <2>1 DEF DestOK, Closed
  <2> QED BY <1>1, <2>2
<1>5. Manifests'
  BY <1>1 DEF IInv, Manifests
<1>6. Extraction'
  BY <1>1 DEF IInv, Extraction
<1> QED BY <1>2, <1>3, <1>4, <1>5, <1>6 DEF IInv

LEMMA NextInv == IInv /\ [Next]_vars => IInv'
<1> SUFFICES ASSUME IInv, [Next]_vars PROVE IInv'
  OBVIOUS
<1>1. ASSUME NEW t \in Trees, LoadDir(t) PROVE IInv'
  BY <1>1, LoadDirInv
<1>2. CASE LoadFile
  BY <1>2, LoadFileInv
<1>3. CASE Create
  BY <1>3, CreateInv
<1>4. CASE WriteToTar
  BY <1>4, WriteToTarInv
<1>5. CASE Close
  BY <1>5, CloseInv
<1>6. CASE SaveDir
  BY <1>6, SaveDirInv
<1>7. CASE MakeDir
  BY <1>7, MakeDirInv
<1>8. CASE WriteFile
  BY <1>8, WriteFileInv
<1>9. CASE Refused
  BY <1>9, RefusedInv
<1>10. CASE Trouble
  BY <1>10, TroubleInv
<1>11. CASE Extracted
  BY <1>11, ExtractedInv
<1>12. CASE Die
  BY <1>12, DieInv
<1>13. CASE Clear
  BY <1>13, ClearInv
<1>14. CASE UNCHANGED vars
  BY <1>14 DEF IInv, Control, ArchiveOK, Manifests, Extraction, vars, saving, extracting, history
<1> QED BY <1>1, <1>2, <1>3, <1>4, <1>5, <1>6, <1>7, <1>8, <1>9, <1>10, <1>11, <1>12, <1>13, <1>14 DEF Next

LEMMA Invariant == Spec => []IInv
BY InitInv, NextInv, PTL DEF Spec

-----------------------------------------------------------------------------
(* An archive holds what Save has written, each entry once it was written, *)
(* and all of it when it is whole; at a directory that SaveDir writes,     *)
(* every file has its directories, and no path is both.                    *)
THEOREM TypeCorrect == Spec => []TypeOK
BY Invariant, Types, PTL

(* An archive that is whole loads as the manifest that was saved, with its *)
(* scripts and files as they are read from an archive, if it has no plans  *)
(* of plans and no backslash in a name: Base is right for these, LoadFile  *)
(* takes every name as it is, and the entry that lookup finds has the data *)
(* of its file.  (Save, LoadArchive)                                       *)
THEOREM ReloadsWhatWasSaved == Spec => []ReloadsNoInner
<1>1. IInv => ReloadsNoInner
  <2> SUFFICES ASSUME IInv, archive.whole, NoInner(kept), Portable(kept)
               PROVE  LoadArchive(archive.entries) = ManifestRead(kept)
    BY DEF ReloadsNoInner
  <2> DEFINE t == Image(kept)
             u == [p \in DOMAIN t |-> AsRead[t[p]]]
  <2>1. kept # Nil /\ Loaded(kept)
    BY DEF IInv, Manifests
  <2>2. /\ archive.entries \in Seq([name : Seq(Part), data : Data])
        /\ ToSet(archive.entries) = {EntryOf(kept, w) : w \in Writes(kept)}
    BY DEF IInv, ArchiveOK
  <2>3. IsTree(t) /\ Loadable(t) /\ DOMAIN t = Placed(kept)
        /\ DOMAIN kept = Ways(t) /\ \A c \in DOMAIN kept : kept[c] = Own(t, c)
    BY <2>1, ManIs DEF Loaded
  <2>4. /\ \A i \in DOMAIN archive.entries : Legal(NameRead(archive.entries[i].name))
        /\ TarFS(EntriesRead(archive.entries)) = [p \in Placed(kept) |-> AsRead[Image(kept)[p]]]
    BY <2>1, <2>2, SavedRead
  <2>5. LoadArchive(archive.entries) = Load(u)
    BY <2>3, <2>4 DEF LoadArchive
  <2> HIDE DEF t
  <2>6. Load(u) = [c \in Ways(t) |-> [q \in DOMAIN Own(t, c) |-> AsRead[Own(t, c)[q]]]]
    BY <2>3, LoadsByPath
  <2> HIDE DEF u
  <2>7. ManifestRead(kept) = [c \in Ways(t) |-> [q \in DOMAIN Own(t, c) |-> AsRead[Own(t, c)[q]]]]
    BY <2>3 DEF ManifestRead
  <2> QED BY <2>5, <2>6, <2>7
<1> QED BY <1>1, Invariant, PTL

LEMMA Ended ==
  ASSUME IInv, outcome = "ok"
  PROVE  Loaded(man) /\ ~existed /\ Progress(man, {}, dest)
<1>1. man # Nil /\ ~existed /\ Progress(man, todo, dest) /\ pc # "extracting"
  BY DEF IInv, Extraction
<1>2. todo = {}
  BY <1>1 DEF IInv, Control
<1> QED BY <1>1, <1>2 DEF IInv, Manifests

(* A directory that SaveDir wrote without an error loads as the manifest   *)
(* it was given, in whatever order it went through its maps.               *)
THEOREM ExtractsTheManifest == Spec => []ExtractsAll
<1>1. IInv => ExtractsAll
  <2> SUFFICES ASSUME IInv, outcome = "ok"
               PROVE  Load(dest.files) = man
    BY DEF ExtractsAll
  <2>1. Loaded(man) /\ Progress(man, {}, dest)
    BY Ended
  <2>2. dest.files \in [DOMAIN dest.files -> Data]
    BY DEF IInv, DestOK
  <2>3. dest.files = Image(man)
    BY <2>1, <2>2, AllWritten
  <2> QED BY <2>1, <2>3 DEF Loaded
<1> QED BY <1>1, Invariant, PTL

(* SaveDir saves a manifest whose plans are directly below plans/, unless  *)
(* the system fails or the directory is there; and it saves no plan's      *)
(* plans, and no plan that is not directly below plans/ or another plan.   *)
THEOREM ExtractsWhatIsFlat == Spec => []ExtractsFlat
<1>1. IInv => ExtractsFlat
  <2> SUFFICES ASSUME IInv PROVE ExtractsFlat
    OBVIOUS
  <2>1. outcome = "failed" => troubled \/ existed \/ ~Flat(man)
    BY DEF IInv, Extraction
  <2>2. ASSUME outcome = "ok" PROVE Chained(man) /\ ~existed
    BY <2>2, Ended, AllChained
  <2> QED BY <2>1, <2>2 DEF ExtractsFlat
<1> QED BY <1>1, Invariant, PTL

(* Over a directory that was there SaveDir writes nothing: it finds the    *)
(* directory before it writes.                                             *)
THEOREM WritesNothingOver == Spec => NoOverwrite
<1>1. IInv /\ [Next]_vars => [pc = "extracting" /\ existed => dest' = dest]_vars
  <2> SUFFICES ASSUME IInv, Next, pc = "extracting", existed PROVE dest' = dest
    BY DEF vars
  <2>1. \A i \in todo : ~IsFile(i) /\ Target(i) \in dest.dirs
    BY RootRefused
  <2>2. CASE MakeDir
    BY <2>1, <2>2 DEF MakeDir, Exists
  <2>3. CASE WriteFile
    BY <2>1, <2>3 DEF WriteFile
  <2>4. CASE Trouble
    BY <2>1, <2>4 DEF Trouble
  <2>5. CASE Refused \/ Extracted \/ Die
    BY <2>5 DEF Refused, Extracted, extracting, Die
  <2>6. ASSUME NEW t \in Trees, LoadDir(t) PROVE FALSE
    BY <2>6 DEF LoadDir
  <2>7. CASE LoadFile \/ Create \/ WriteToTar \/ Close \/ SaveDir \/ Clear
    BY <2>7 DEF LoadFile, Create, WriteToTar, Close, SaveDir, Clear
  <2> QED BY <2>2, <2>3, <2>4, <2>5, <2>6, <2>7 DEF Next
<1> QED BY <1>1, Invariant, PTL DEF Spec, NoOverwrite

=============================================================================
