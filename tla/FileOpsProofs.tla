--------------------------- MODULE FileOpsProofs ----------------------------
(***************************************************************************)
(* Theorems about FileOps, for every set of sources, every tree they and   *)
(* dest can be, every operation and any number of runs.                    *)
(***************************************************************************)
EXTENDS FileOps, FilterProofs

-----------------------------------------------------------------------------
(* Trees *)

LEMMA WithDir ==
  ASSUME NEW f, NEW n, NEW u
  PROVE  With(Dir(f), n, u) = Dir([m \in DOMAIN f \cup {n} |-> IF m = n THEN u ELSE f[m]])
BY DEF With, Dir

LEMMA EntryDir ==
  ASSUME NEW f, NEW n
  PROVE  Entry(Dir(f), n) = IF n \in DOMAIN f THEN f[n] ELSE Absent
BY DEF Entry, Dir, IsDir

LEMMA EntryWith ==
  ASSUME NEW f, NEW n, NEW u, NEW m
  PROVE  /\ Entry(With(Dir(f), n, u), n) = u
         /\ m # n => Entry(With(Dir(f), n, u), m) = Entry(Dir(f), m)
<1> DEFINE g == [l \in DOMAIN f \cup {n} |-> IF l = n THEN u ELSE f[l]]
<1>1. With(Dir(f), n, u) = Dir(g)
  BY WithDir
<1>2. DOMAIN g = DOMAIN f \cup {n} /\ g[n] = u
      /\ (m # n => (m \in DOMAIN f => g[m] = f[m]))
  OBVIOUS
<1> HIDE DEF g
<1> QED BY <1>1, <1>2, EntryDir

LEMMA WithoutDir ==
  ASSUME NEW f, NEW n
  PROVE  Without(Dir(f), n) = Dir([m \in DOMAIN f \ {n} |-> f[m]])
BY DEF Without, Dir, IsDir

LEMMA WithoutWith ==
  ASSUME NEW f, NEW n, NEW u, n \notin DOMAIN f
  PROVE  /\ Without(Dir(f), n) = Dir([m \in DOMAIN f |-> f[m]])
         /\ Without(With(Dir(f), n, u), n) = Dir([m \in DOMAIN f |-> f[m]])
<1> DEFINE g == [l \in DOMAIN f \cup {n} |-> IF l = n THEN u ELSE f[l]]
<1>1. DOMAIN f \ {n} = DOMAIN f
  OBVIOUS
<1>2. Without(Dir(f), n) = Dir([m \in DOMAIN f |-> f[m]])
  BY <1>1, WithoutDir
<1>3. DOMAIN g = DOMAIN f \cup {n} /\ DOMAIN g \ {n} = DOMAIN f
  OBVIOUS
<1>4. \A m \in DOMAIN f : g[m] = f[m]
  OBVIOUS
<1>5. With(Dir(f), n, u) = Dir(g)
  BY WithDir
<1> HIDE DEF g
<1>6. Without(Dir(g), n) = Dir([m \in DOMAIN f |-> g[m]])
  BY <1>3, WithoutDir
<1>7. [m \in DOMAIN f |-> g[m]] = [m \in DOMAIN f |-> f[m]]
  BY <1>4
<1> QED BY <1>2, <1>5, <1>6, <1>7

-----------------------------------------------------------------------------
(***************************************************************************)
(* What atomic-copy has done at each of its steps.  OldOrNew is not        *)
(* inductive: that the tree which will be renamed is the whole of what was *)
(* read, and that the old one is in the temporary directory when dest is   *)
(* missing, has to be known before the rename.                             *)
(***************************************************************************)
Staging ==
  IF InTmp THEN Dir(read)
  ELSE IF k = 1 THEN Dir(NoEntries) ELSE Dir([n \in {DestName} |-> Dir(read)])

Copied == /\ DOMAIN read = {files[j] : j \in 1 .. k - 1}
          /\ read = [s \in DOMAIN read |-> read[s]]

Gathered == dest = before /\ ~aside /\ tmp = Staging /\ Copied

Moved == /\ files # <<>> /\ DOMAIN read = ToSet(files)
         /\ IF aside THEN dest = Absent /\ Entry(tmp, Old) = before
                     ELSE dest = before /\ ~IsDir(before)
         /\ IF Many THEN Without(Staged, Old) = Dir(read) ELSE Staged = read[files[1]]

Progress ==
  /\ op \in Operations
  /\ Atomic =>
       /\ files \in Seq(Source) /\ k \in Nat \ {0} /\ k <= Len(files) + 1
       /\ pc \in {"idle", "gathered", "install", "cleanup"}
       /\ pc = "gathered" => Gathered
       /\ pc = "install"  => Moved
       /\ pc = "cleanup"  => Complete
       /\ pc = "idle"     => OldOrNew /\ NothingLost /\ k = 1 /\ ~aside

LEMMA AbsentType == ~IsDir(Absent) /\ \A f : IsDir(Dir(f)) /\ Dir(f) # Absent
BY DEF Absent, Dir, IsDir

LEMMA EntryAbsent ==
  ASSUME NEW n
  PROVE  Entry(Absent, n) = Absent
BY AbsentType DEF Entry

LEMMA FoundFiles ==
  ASSUME op \in Operations
  PROVE  /\ Found \in Seq(Source) /\ Len(Found) \in Nat
         /\ op.sources \in Seq(Source) /\ Len(op.sources) \in Nat /\ Len(Found) <= Len(op.sources)
<1>1. op.sources \in Seq(Source)
  BY FileOpsAssumption DEF Operation
<1> DEFINE here == {s \in Source : src[s] # Absent}
<1>2. Found \in Seq(Source \cap here) /\ Len(Found) <= Len(op.sources)
  BY <1>1, FilterProperties DEF Found
<1>3. Source \cap here \subseteq Source
  OBVIOUS
<1> HIDE DEF here
<1>4. Found \in Seq(Source)
  BY <1>2, <1>3
<1> QED BY <1>1, <1>2, <1>4

LEMMA BeginProgress ==
  ASSUME Progress, Begin
  PROVE  Progress'
<1> SUFFICES ASSUME Atomic PROVE Progress'
  BY DEF Begin, Progress, Atomic
<1>1. files' \in Seq(Source) /\ k' = 1 /\ Len(files') \in Nat /\ aside' = FALSE
  BY FoundFiles DEF Begin, Progress
<1>2. read' = NoEntries /\ tmp' = Dir(NoEntries) /\ dest' = before' /\ pc' = "gathered" /\ op' = op
  BY DEF Begin
<1>3. DOMAIN NoEntries = {} /\ NoEntries = [s \in DOMAIN NoEntries |-> NoEntries[s]]
  BY DEF NoEntries
<1>4. {files'[j] : j \in 1 .. k' - 1} = {}
  BY <1>1
<1>5. Copied'
  BY <1>2, <1>3, <1>4 DEF Copied
<1>6. Staging' = Dir(NoEntries)
  BY <1>1, <1>2 DEF Staging
<1> QED BY <1>1, <1>2, <1>5, <1>6 DEF Progress, Gathered, Atomic

(* A run that ends where dest still is what it was. *)
LEMMA EndOld ==
  ASSUME Progress, Atomic, op' = op, files' = files, before' = before,
         dest' = before, pc' = "idle", k' = 1, aside' = FALSE
  PROVE  Progress'
BY DEF Progress, Atomic, OldOrNew, NothingLost

LEMMA StageProgress ==
  ASSUME Progress, Stage
  PROVE  Progress'
<1>1. Atomic /\ pc = "gathered" /\ Gathered /\ files \in Seq(Source) /\ k \in Nat \ {0}
      /\ k <= Len(files) /\ Len(files) \in Nat
  BY DEF Stage, Copying, Progress
<1>2. op' = op /\ dest' = dest /\ before' = before /\ pc' = pc /\ files' = files
      /\ aside' = aside /\ k' = k + 1 /\ File' = files'[k + 1]
  BY DEF Stage, File
<1>3. InTmp' = InTmp /\ Atomic' = Atomic
  BY <1>2 DEF InTmp, Many, Atomic
<1> DEFINE new == [s \in DOMAIN read \cup {File} |-> IF s = File THEN src[File] ELSE read[s]]
<1>4. read' = new /\ DOMAIN new = DOMAIN read \cup {File}
  BY DEF Stage
<1>5. new = [s \in DOMAIN new |-> new[s]]
  OBVIOUS
<1>6. \A f : f = read => With(Dir(f), File, src[File]) = Dir(new)
  BY WithDir
<1> HIDE DEF new
<1>7. Copied'
  <2>1. 1 .. k' - 1 = (1 .. k - 1) \cup {k}
    BY <1>1, <1>2
  <2>2. DOMAIN read' = {files[j] : j \in (1 .. k - 1) \cup {k}}
    BY <1>1, <1>4 DEF Gathered, Copied, File
  <2> QED BY <1>2, <1>4, <1>5, <2>1, <2>2 DEF Copied
<1>8. tmp' = Staging'
  <2>1. CASE InTmp
    <3>1. tmp = Dir(read) /\ tmp' = With(tmp, File, src[File])
      BY <1>1, <2>1 DEF Gathered, Staging, Stage
    <3> QED BY <1>3, <1>4, <1>6, <2>1, <3>1 DEF Staging
  <2>2. CASE ~InTmp
    <3> DEFINE d == Entry(tmp, DestName)
               e == IF d = Absent THEN Dir(NoEntries) ELSE d
    <3>1. tmp' = With(tmp, DestName, With(e, File, src[File]))
      BY <2>2 DEF Stage
    <3>2. Staging' = Dir([n \in {DestName} |-> Dir(new)])
      BY <1>1, <1>2, <1>3, <1>4, <2>2 DEF Staging
    <3>3. e = Dir(read)
      <4>1. CASE k = 1
        <5>1. tmp = Dir(NoEntries) /\ DOMAIN NoEntries = {}
          BY <1>1, <2>2, <4>1 DEF Gathered, Staging, NoEntries
        <5>2. d = Absent
          BY <5>1, EntryDir
        <5>3. read = NoEntries
          <6>1. DOMAIN read = {} /\ read = [s \in {} |-> read[s]]
            <7>1. 1 .. k - 1 = {}
              BY <4>1
            <7>2. DOMAIN read = {}
              BY <1>1, <7>1 DEF Gathered, Copied
            <7> QED BY <1>1, <7>2 DEF Gathered, Copied
          <6> QED BY <6>1 DEF NoEntries
        <5> QED BY <5>2, <5>3
      <4>2. CASE k # 1
        <5> DEFINE f == [n \in {DestName} |-> Dir(read)]
        <5>1. tmp = Dir(f)
          BY <1>1, <2>2, <4>2 DEF Gathered, Staging
        <5>2. DestName \in DOMAIN f /\ f[DestName] = Dir(read)
          OBVIOUS
        <5> HIDE DEF f
        <5>3. d = Dir(read)
          BY <5>1, <5>2, EntryDir
        <5> QED BY <5>3, AbsentType
      <4> QED BY <4>1, <4>2
    <3>4. With(e, File, src[File]) = Dir(new)
      BY <1>6, <3>3
    <3>5. ASSUME NEW f, tmp = Dir(f), DOMAIN f \subseteq {DestName}
          PROVE  With(tmp, DestName, Dir(new)) = Dir([n \in {DestName} |-> Dir(new)])
      <4>1. DOMAIN f \cup {DestName} = {DestName}
        BY <3>5
      <4>2. With(Dir(f), DestName, Dir(new))
              = Dir([m \in {DestName} |-> IF m = DestName THEN Dir(new) ELSE f[m]])
        BY <4>1, WithDir
      <4>3. [m \in {DestName} |-> IF m = DestName THEN Dir(new) ELSE f[m]]
              = [n \in {DestName} |-> Dir(new)]
        OBVIOUS
      <4> QED BY <3>5, <4>2, <4>3
    <3>6. \E f : tmp = Dir(f) /\ DOMAIN f \subseteq {DestName}
      <4>1. CASE k = 1
        BY <1>1, <2>2, <4>1 DEF Gathered, Staging, NoEntries
      <4>2. CASE k # 1
        <5>1. tmp = Dir([n \in {DestName} |-> Dir(read)])
          BY <1>1, <2>2, <4>2 DEF Gathered, Staging
        <5> QED BY <5>1
      <4> QED BY <4>1, <4>2
    <3> QED BY <3>1, <3>2, <3>4, <3>5, <3>6
  <2> QED BY <2>1, <2>2
<1>9. Gathered'
  BY <1>1, <1>2, <1>7, <1>8 DEF Gathered
<1> QED BY <1>1, <1>2, <1>3, <1>9 DEF Progress

LEMMA SetAsideProgress ==
  ASSUME Progress, SetAside
  PROVE  Progress'
<1>1. Atomic /\ Gathered /\ files \in Seq(Source) /\ k \in Nat \ {0} /\ op \in Operations
      /\ k = Len(files) + 1 /\ Len(files) \in Nat /\ files # <<>>
  BY DEF SetAside, Copying, Enough, Progress
<1>2. op' = op /\ before' = before /\ pc' = "install" /\ files' = files /\ k' = k /\ read' = read
  BY DEF SetAside, history
<1>3. InTmp' = InTmp /\ Atomic' = Atomic /\ Many' = Many
  BY <1>2 DEF InTmp, Many, Atomic
<1>4. DOMAIN read = ToSet(files) /\ read = [s \in DOMAIN read |-> read[s]]
      /\ Old \notin DOMAIN read /\ files[1] \in DOMAIN read /\ files[1] # Old
  <2>1. DOMAIN read = {files[j] : j \in 1 .. Len(files)}
    BY <1>1 DEF Gathered, Copied
  <2>2. DOMAIN read = ToSet(files)
    BY <1>1, <2>1 DEF ToSet
  <2>3. ToSet(files) \subseteq Source /\ files[1] \in ToSet(files)
    BY <1>1 DEF ToSet
  <2> QED BY <1>1, <2>2, <2>3, FileOpsAssumption DEF Gathered, Copied
<1>5. IF aside' THEN dest' = Absent /\ Entry(tmp', Old) = before' ELSE dest' = before' /\ ~IsDir(before')
  <2>1. CASE IsDir(dest)
    <3>1. tmp' = With(tmp, Old, dest) /\ dest' = Absent /\ aside' = TRUE
      BY <2>1 DEF SetAside
    <3>2. \E f : tmp = Dir(f)
      BY <1>1 DEF Gathered, Staging
    <3> QED BY <1>1, <1>2, <3>1, <3>2, EntryWith DEF Gathered
  <2>2. CASE ~IsDir(dest)
    BY <1>1, <1>2, <2>2 DEF SetAside, Gathered
  <2> QED BY <2>1, <2>2
<1>6. tmp' = tmp \/ tmp' = With(tmp, Old, dest)
  BY DEF SetAside
<1>7. CASE ~Many
  <2>1. tmp = Dir(read) /\ Entry(tmp, files[1]) = read[files[1]]
    BY <1>1, <1>4, <1>7, EntryDir DEF Gathered, Staging, InTmp
  <2>2. Entry(tmp', files[1]) = read[files[1]]
    BY <1>4, <1>6, <2>1, EntryWith
  <2>3. Staged' = read'[files'[1]]
    BY <1>2, <1>3, <1>7, <2>2 DEF Staged
  <2> QED BY <1>1, <1>2, <1>3, <1>4, <1>5, <1>7, <2>3 DEF Progress, Moved
<1>8. CASE Many /\ op.slash
  <2>1. tmp = Dir(read)
    BY <1>1, <1>8 DEF Gathered, Staging, InTmp
  <2>2. Without(tmp', Old) = Dir(read)
    BY <1>4, <1>6, <2>1, WithoutWith
  <2>3. Without(Staged', Old) = Dir(read')
    BY <1>2, <1>3, <1>8, <2>2 DEF Staged
  <2> QED BY <1>1, <1>2, <1>3, <1>4, <1>5, <1>8, <2>3 DEF Progress, Moved
<1>9. CASE Many /\ ~op.slash
  <2> DEFINE f == [n \in {DestName} |-> Dir(read)]
  <2>1. tmp = Dir(f)
    BY <1>1, <1>9 DEF Gathered, Staging, InTmp, Many
  <2>2. DestName \in DOMAIN f /\ f[DestName] = Dir(read)
    OBVIOUS
  <2> HIDE DEF f
  <2>3. Entry(tmp, DestName) = Dir(read)
    BY <2>1, <2>2, EntryDir
  <2>4. Entry(tmp', DestName) = Dir(read)
    BY <1>6, <2>1, <2>3, EntryWith, FileOpsAssumption
  <2>5. Staged' = Dir(read)
    BY <1>2, <1>3, <1>9, <2>4 DEF Staged
  <2>6. Without(Staged', Old) = Dir(read')
    BY <1>2, <1>4, <2>5, WithoutWith
  <2> QED BY <1>1, <1>2, <1>3, <1>4, <1>5, <1>9, <2>6 DEF Progress, Moved
<1> QED BY <1>7, <1>8, <1>9

LEMMA InstallProgress ==
  ASSUME Progress, Install
  PROVE  Progress'
<1> SUFFICES ASSUME Atomic PROVE Progress'
  BY DEF Install, Progress, Atomic
<1>1. Moved /\ dest' = Staged /\ pc' = "cleanup"
  BY DEF Install, Progress
<1>2. UNCHANGED <<op, files, k, read>>
  BY DEF Install, history
<1>3. Complete'
  BY <1>1, <1>2 DEF Moved, Complete, Many
<1> QED BY <1>1, <1>2, <1>3 DEF Progress, Atomic

LEMMA InstallFailsProgress ==
  ASSUME Progress, NEW back \in BOOLEAN, InstallFails(back)
  PROVE  Progress'
<1> SUFFICES ASSUME Atomic PROVE Progress'
  BY DEF InstallFails, EndsAs, Progress, Atomic
<1>1. Moved /\ pc' = "idle" /\ k' = 1 /\ aside' = FALSE
  BY DEF InstallFails, EndsAs, Progress
<1>2. UNCHANGED <<op, files, before, read>> /\ recovered' = (aside => back)
  BY DEF InstallFails
<1>3. CASE ~aside \/ back
  <2>1. dest' = before
    BY <1>1, <1>3 DEF InstallFails, Moved
  <2> QED BY <1>1, <1>2, <2>1, EndOld
<1>4. CASE aside /\ ~back
  <2>1. dest' = Absent /\ Entry(tmp, Old) = before /\ EndsAs("error", tmp)
    BY <1>1, <1>4 DEF InstallFails, Moved
  <2>2. OldOrNew'
    BY <1>2, <1>4, <2>1 DEF OldOrNew
  <2>3. IsDir(before) => tmp # Absent
    BY <2>1, EntryAbsent, AbsentType
  <2>4. NothingLost'
    BY <1>2, <2>1, <2>3 DEF NothingLost, EndsAs
  <2> QED BY <1>1, <1>2, <2>2, <2>4 DEF Progress, Atomic
<1> QED BY <1>3, <1>4

LEMMA EndProgress ==
  ASSUME Progress, NoFiles \/ Gone \/ StageRefused \/ Fails \/ Crash \/ Cleanup
  PROVE  Progress'
<1> SUFFICES ASSUME Atomic PROVE Progress'
  BY DEF NoFiles, Gone, StageRefused, Fails, Crash, Cleanup, Error, EndsAs, Progress, Atomic
<1>1. pc' = "idle" /\ k' = 1 /\ aside' = FALSE /\ UNCHANGED <<op, dest, files, before, read>>
  BY DEF NoFiles, Gone, StageRefused, Fails, Crash, Cleanup, Error, EndsAs
<1>2. CASE pc = "gathered"
  BY <1>1, <1>2, EndOld DEF Progress, Gathered
<1>3. CASE pc = "cleanup"
  <2>1. Complete'
    BY <1>1, <1>3 DEF Progress, Complete, Many
  <2> QED BY <1>1, <2>1 DEF Progress, Atomic, OldOrNew, NothingLost
<1>4. CASE pc = "install"
  <2>1. Crash /\ Moved
    BY <1>4 DEF NoFiles, Gone, StageRefused, Fails, Cleanup, Copying, Progress
  <2>2. CASE ~aside
    BY <1>1, <2>1, <2>2, EndOld DEF Moved
  <2>3. CASE aside
    <3>1. dest' = Absent /\ Entry(tmp, Old) = before /\ EndsAs("crash", tmp)
      BY <1>1, <2>1, <2>3 DEF Moved, Crash
    <3>2. OldOrNew'
      BY <3>1 DEF OldOrNew, EndsAs
    <3>3. IsDir(before) => tmp # Absent
      BY <3>1, EntryAbsent, AbsentType
    <3>4. NothingLost'
      BY <1>1, <3>1, <3>3 DEF NothingLost, EndsAs
    <3> QED BY <1>1, <3>2, <3>4 DEF Progress, Atomic
  <2> QED BY <2>2, <2>3
<1>5. pc # "idle"
  BY DEF NoFiles, Gone, StageRefused, Fails, Crash, Cleanup, Copying
<1> QED BY <1>2, <1>3, <1>4, <1>5 DEF Progress

LEMMA ChangeProgress ==
  ASSUME Progress, NEW s \in Source, NEW t, Change(s, t)
  PROVE  Progress'
BY DEF Change, run, Progress, Atomic, Gathered, Staging, Copied, InTmp, Many, Moved, Staged,
       Complete, OldOrNew, NothingLost

LEMMA ProgressAlways == Spec => []Progress
<1>1. Init => Progress
  <2> SUFFICES ASSUME Init PROVE Progress
    OBVIOUS
  <2>1. OldOrNew /\ NothingLost
    BY DEF Init, OldOrNew, NothingLost
  <2> QED BY <2>1 DEF Init, Progress
<1>2. Progress /\ [Next]_vars => Progress'
  <2> SUFFICES ASSUME Progress, [Next]_vars PROVE Progress'
    OBVIOUS
  <2>1. CASE NoFiles \/ Gone \/ StageRefused \/ Fails \/ Crash \/ Cleanup
    BY <2>1, EndProgress
  <2>2. CASE CopyOpen \/ CopyWrite \/ CopyRefused \/ CopyDone
    <3>1. ~Atomic /\ op' = op
      BY <2>2 DEF CopyOpen, CopyWrite, CopyRefused, CopyDone, Error, EndsAs, Progress
    <3> QED BY <3>1 DEF Progress, Atomic
  <2>3. CASE UNCHANGED vars
    BY <2>3 DEF vars, run, history, Progress, Atomic, Gathered, Staging, Copied, InTmp, Many, Moved,
       Staged, Complete, OldOrNew, NothingLost
  <2> QED
    BY <2>1, <2>2, <2>3, BeginProgress, StageProgress, SetAsideProgress, InstallProgress,
       InstallFailsProgress, ChangeProgress DEF Next
<1> QED BY <1>1, <1>2, PTL DEF Spec

(***************************************************************************)
(* At every moment of a run of atomic-copy dest is the old tree or the     *)
(* whole new one, or it is missing for one of the two reasons there are.   *)
(* (AtomicCopy.Run)                                                        *)
(***************************************************************************)
THEOREM AtomicReplace == Spec => []OldOrNew
<1>1. Progress => OldOrNew
  BY DEF Progress, OldOrNew, Gathered, Moved
<1> QED BY <1>1, ProgressAlways, PTL

(***************************************************************************)
(* Wherever a run of atomic-copy stops, the directory it replaces is at    *)
(* dest, or in a temporary directory, or completely replaced.              *)
(* (AtomicCopy.Run)                                                        *)
(***************************************************************************)
THEOREM OldTreeKept == Spec => []NothingLost
<1>1. Progress => NothingLost
  BY DEF Progress, NothingLost, Gathered, Moved
<1> QED BY <1>1, ProgressAlways, PTL

-----------------------------------------------------------------------------
(***************************************************************************)
(* The types.  That atomic-copy renames nothing but trees rests on what    *)
(* Progress knows of the temporary directory.                              *)
(***************************************************************************)
Types == {"absent", "file", "dir"}

Typed ==
  /\ TypeOK
  /\ k <= Len(files) + 1 /\ Len(files) <= Len(op.sources)
  /\ pc = "idle" => k = 1
  /\ pc = "copying" => k <= Len(files) /\ ~Atomic
  /\ pc \in {"install", "cleanup"} => Atomic
  /\ tmp = Absent \/ tmp = Dir(tmp.of)
  /\ before.type \in Types
  /\ \A s \in DOMAIN read : IsTree(read[s])
  /\ Atomic \/ dest = Absent \/ dest = Plain(dest.of) \/ dest = Dir(dest.of)

LEMMA TypeOfTree ==
  /\ Absent.type = "absent"
  /\ \A d : Dir(d).type = "dir" /\ Plain(d).type = "file" /\ Dir(d).of = d /\ Plain(d).of = d
  /\ \A t : IsTree(t) => t.type \in {"file", "dir"} /\ t # Absent
BY DEF Absent, Dir, Plain, IsTree

LEMMA DirIsDir ==
  ASSUME NEW f, NEW n, NEW u
  PROVE  /\ With(Dir(f), n, u) = Dir(With(Dir(f), n, u).of) /\ With(Dir(f), n, u).type = "dir"
         /\ Without(Dir(f), n) = Dir(Without(Dir(f), n).of) /\ Without(Dir(f), n).type = "dir"
<1> DEFINE h == [m \in DOMAIN f \cup {n} |-> IF m = n THEN u ELSE f[m]]
<1>1. With(Dir(f), n, u) = Dir(h)
  BY WithDir
<1> HIDE DEF h
<1>2. \E g : Without(Dir(f), n) = Dir(g)
  BY WithoutDir
<1> QED BY <1>1, <1>2, TypeOfTree

LEMMA MergedIs ==
  ASSUME NEW t, NEW u, u = Plain(u.of) \/ u = Dir(u.of)
  PROVE  /\ ~(IsDir(t) /\ IsDir(u)) => Merged(t, u) = u
         /\ IsDir(t) /\ IsDir(u) => Merged(t, u) = Dir([n \in DOMAIN t.of \cup DOMAIN u.of |->
              IF n \in DOMAIN u.of THEN u.of[n] ELSE t.of[n]])
         /\ Merged(t, u) = Plain(Merged(t, u).of) \/ Merged(t, u) = Dir(Merged(t, u).of)
         /\ Merged(t, u).type = u.type
<1>1. Merged(t, u) = u \/ \E f : Merged(t, u) = Dir(f) /\ IsDir(u)
  BY DEF Merged
<1> QED BY <1>1, TypeOfTree DEF Merged, IsDir

LEMMA OpenedIs ==
  ASSUME NEW u
  PROVE  /\ Opened(u) = Plain(Opened(u).of) \/ Opened(u) = Dir(Opened(u).of)
         /\ IsDir(Opened(u)) <=> IsDir(u)
         /\ IsDir(u) => DOMAIN Opened(u).of = DOMAIN u.of
         /\ u = Plain(u.of) \/ u = Dir(u.of) => Opened(u).type = u.type
BY TypeOfTree DEF Opened, IsDir

LEMMA ChosenFile ==
  ASSUME Typed, k <= Len(files)
  PROVE  /\ File \in Source /\ files \in Seq(Source) /\ Len(files) \in Nat /\ k \in 1 .. Len(files)
         /\ src[File] # Absent => IsTree(src[File])
<1>1. files \in Seq(Source) /\ k \in 1 .. Len(files)
  <2>1. op.sources \in Seq(Source)
    BY FileOpsAssumption DEF Typed, TypeOK, Operation
  <2> QED BY <2>1 DEF Typed, TypeOK
<1>2. File \in Source
  BY <1>1 DEF File
<1> QED BY <1>1, <1>2, FileOpsAssumption DEF Typed, TypeOK

LEMMA EndTyped ==
  ASSUME Typed, NEW r \in {"ok", "error", "crash"}, NEW t, EndsAs(r, t),
         UNCHANGED <<op, src, files, before, read, runs>>,
         recovered' \in BOOLEAN, faulted' \in BOOLEAN,
         dest'.type \in Types, Atomic \/ dest' = dest
  PROVE  Typed'
<1>1. Len(op.sources) \in Nat /\ Len(files) \in Nat /\ 1 \in 1 .. Len(op.sources) + 1
  BY FoundFiles DEF Typed, TypeOK
<1>2. tmp' = Absent /\ tmp'.type \in {"absent", "dir"}
  BY TypeOfTree DEF EndsAs
<1>3. pc' = "idle" /\ k' = 1 /\ aside' = FALSE /\ result' = r
  BY DEF EndsAs
<1>4. TypeOK'
  BY <1>1, <1>2, <1>3 DEF Typed, TypeOK, Types
<1> QED BY <1>1, <1>2, <1>3, <1>4 DEF Typed, Types, Atomic

LEMMA BeginTyped ==
  ASSUME Typed, Begin
  PROVE  Typed'
<1>1. op' = op /\ src' = src /\ dest' = dest /\ k' = 1 /\ aside' = aside /\ pc' = "gathered"
      /\ files' = Found /\ before' = dest /\ read' = NoEntries /\ result' = "none" /\ recovered' = TRUE
      /\ tmp' = (IF Atomic THEN Dir(NoEntries) ELSE Absent)
  BY DEF Begin, Typed
<1>2. runs \in 0 .. MaxRuns /\ runs' \in 0 .. MaxRuns
  BY FileOpsAssumption DEF Begin, Typed, TypeOK
<1>3. Found \in Seq(Source) /\ Len(Found) \in Nat /\ Len(op.sources) \in Nat /\ Len(Found) <= Len(op.sources)
  BY FoundFiles DEF Typed, TypeOK
<1>4. faulted' \in BOOLEAN
  BY DEF Begin
<1>5. tmp' = Absent \/ tmp' = Dir(tmp'.of)
  BY <1>1, TypeOfTree
<1>6. tmp'.type \in {"absent", "dir"}
  BY <1>1, TypeOfTree
<1>7. DOMAIN read' = {}
  BY <1>1 DEF NoEntries
<1> QED BY <1>1, <1>2, <1>3, <1>4, <1>5, <1>6, <1>7 DEF Typed, TypeOK, Types, Atomic

(* A file more is read. *)
LEMMA ReadTyped ==
  ASSUME Typed, NEW f \in Source, IsTree(src[f]),
         read' = [s \in DOMAIN read \cup {f} |-> IF s = f THEN src[f] ELSE read[s]]
  PROVE  DOMAIN read' \subseteq Source /\ \A s \in DOMAIN read' : IsTree(read'[s])
BY DEF Typed, TypeOK

LEMMA PutTyped ==
  ASSUME Typed, ~Atomic, NEW u, u = Plain(u.of) \/ u = Dir(u.of)
  PROVE  /\ Put(u) = Plain(Put(u).of) \/ Put(u) = Dir(Put(u).of) \/ ~(Whole \/ IsDir(dest) \/ dest = Absent)
         /\ IsDir(dest) => \A n : With(dest, n, u) = Dir(With(dest, n, u).of)
<1>1. \A f, n : With(Dir(f), n, u) = Dir(With(Dir(f), n, u).of)
  BY DirIsDir
<1>2. IsDir(dest) => dest = Dir(dest.of)
  BY TypeOfTree DEF Typed, IsDir
<1>3. CASE Whole
  BY <1>1, <1>2, <1>3 DEF Put
<1>4. CASE ~Whole /\ dest = Absent
  BY <1>1, <1>2, <1>4 DEF Put
<1>5. CASE ~Whole /\ dest # Absent
  BY <1>1, <1>2, <1>5 DEF Put
<1> QED BY <1>1, <1>2, <1>3, <1>4, <1>5

LEMMA CopyOpenTyped ==
  ASSUME Typed, CopyOpen
  PROVE  Typed'
<1>1. k <= Len(files) /\ src[File] # Absent /\ ~Atomic /\ CanCopy /\ pc' = "copying"
      /\ UNCHANGED <<op, src, tmp, leaks, files, k, aside, result, before, faulted, recovered, runs>>
      /\ dest' = Put(Merged(There, Opened(src[File])))
  BY DEF CopyOpen
<1>2. File \in Source /\ IsTree(src[File])
  BY <1>1, ChosenFile
<1> DEFINE o == Opened(src[File])
           u == Merged(There, o)
<1>3. o = Plain(o.of) \/ o = Dir(o.of)
  BY OpenedIs
<1>4. u = Plain(u.of) \/ u = Dir(u.of)
  <2> HIDE DEF o
  <2>1. u = o \/ \E f : u = Dir(f)
    BY DEF Merged
  <2> QED BY <1>3, <2>1, TypeOfTree
<1> HIDE DEF u
<1>5. dest' = Plain(dest'.of) \/ dest' = Dir(dest'.of)
  BY <1>1, <1>4, PutTyped DEF CanCopy, u
<1>6. dest'.type \in Types
  BY <1>5, TypeOfTree DEF Types
<1>7. DOMAIN read' \subseteq Source /\ \A s \in DOMAIN read' : IsTree(read'[s])
  BY <1>2, ReadTyped DEF CopyOpen
<1> QED BY <1>1, <1>5, <1>6, <1>7 DEF Typed, TypeOK, Types, Atomic

LEMMA CopyWriteTyped ==
  ASSUME Typed, CopyWrite, File \in DOMAIN read,
         ~Many => dest.type = read[File].type \/ IsDir(dest), Many => IsDir(dest)
  PROVE  Typed'
<1>1. k <= Len(files) /\ ~Atomic /\ pc' = "gathered" /\ k' = k + 1
      /\ UNCHANGED <<op, src, tmp, leaks, files, aside, result, before, read, faulted, recovered, runs>>
  BY DEF CopyWrite, Typed, history
<1> DEFINE u == read[File]
           x == Merged(Entry(dest, File), u)
           y == Merged(dest, u)
<1>2. u = Plain(u.of) \/ u = Dir(u.of)
  BY DEF Typed, IsTree
<1>3. (x = Plain(x.of) \/ x = Dir(x.of)) /\ (y = Plain(y.of) \/ y = Dir(y.of))
  <2> HIDE DEF u
  <2>1. (x = u \/ \E f : x = Dir(f)) /\ (y = u \/ \E f : y = Dir(f))
    BY DEF Merged
  <2> HIDE DEF x, y
  <2> QED BY <1>2, <2>1, TypeOfTree
<1> HIDE DEF x
<1>4. IsDir(dest) => With(dest, File, x) = Dir(With(dest, File, x).of)
  BY <1>1, <1>3, PutTyped
<1>5. dest' = y \/ (IsDir(dest) /\ dest' = With(dest, File, x))
  BY DEF CopyWrite, x
<1> HIDE DEF y
<1>6. dest' = Plain(dest'.of) \/ dest' = Dir(dest'.of)
  BY <1>3, <1>4, <1>5
<1>7. dest'.type \in Types
  BY <1>6, TypeOfTree DEF Types
<1>8. files \in Seq(Source) /\ k' \in 1 .. Len(op.sources) + 1 /\ k' <= Len(files) + 1
  BY <1>1, FoundFiles DEF Typed, TypeOK
<1> QED BY <1>1, <1>6, <1>7, <1>8 DEF Typed, TypeOK, Types, Atomic

LEMMA StageTyped ==
  ASSUME Typed, Progress, Stage
  PROVE  Typed'
<1>1. k <= Len(files) /\ src[File] # Absent /\ Atomic /\ k' = k + 1
      /\ UNCHANGED <<op, src, dest, leaks, pc, files, aside, result, before, faulted, recovered, runs>>
      /\ pc = "gathered"
  BY DEF Stage, Copying
<1>2. File \in Source /\ IsTree(src[File])
  BY <1>1, ChosenFile
<1>3. DOMAIN read' \subseteq Source /\ \A s \in DOMAIN read' : IsTree(read'[s])
  BY <1>2, ReadTyped DEF Stage
<1>4. tmp' = Dir(tmp'.of) /\ tmp'.type = "dir"
  <2>1. \E f : tmp = Dir(f)
    BY <1>1 DEF Progress, Gathered, Staging
  <2>2. \E n, u : tmp' = With(tmp, n, u)
    BY DEF Stage
  <2> QED BY <2>1, <2>2, DirIsDir, TypeOfTree
<1>5. files \in Seq(Source) /\ k' \in 1 .. Len(op.sources) + 1 /\ k' <= Len(files) + 1
  BY <1>1, FoundFiles DEF Typed, TypeOK
<1> QED BY <1>1, <1>3, <1>4, <1>5 DEF Typed, TypeOK, Types, Atomic

LEMMA SetAsideTyped ==
  ASSUME Typed, Progress, SetAside
  PROVE  Typed'
<1>1. Atomic /\ pc' = "install" /\ pc = "gathered"
      /\ UNCHANGED <<op, src, leaks, files, k, history>>
  BY DEF SetAside, Copying
<1>2. aside' \in BOOLEAN /\ dest'.type \in Types
  BY <1>1, TypeOfTree DEF SetAside, Typed, TypeOK, Types
<1>3. (tmp' = Absent \/ tmp' = Dir(tmp'.of)) /\ tmp'.type \in {"absent", "dir"}
  <2>1. \E f : tmp = Dir(f)
    BY <1>1 DEF Progress, Gathered, Staging
  <2>2. tmp' = tmp \/ tmp' = With(tmp, Old, dest)
    BY DEF SetAside
  <2> QED BY <2>1, <2>2, DirIsDir, TypeOfTree
<1> QED BY <1>1, <1>2, <1>3 DEF Typed, TypeOK, Types, Atomic, history

LEMMA WithoutTyped ==
  ASSUME Typed, NEW n
  PROVE  LET t == Without(tmp, n) IN (t = Absent \/ t = Dir(t.of)) /\ t.type \in {"absent", "dir"}
<1>1. CASE tmp = Absent
  BY <1>1, AbsentType, TypeOfTree DEF Without
<1>2. CASE tmp = Dir(tmp.of)
  BY <1>2, DirIsDir, TypeOfTree
<1> QED BY <1>1, <1>2 DEF Typed

LEMMA InstallTyped ==
  ASSUME Typed, Progress, Install
  PROVE  Typed'
<1>1. pc = "install" /\ pc' = "cleanup" /\ dest' = Staged
      /\ UNCHANGED <<op, src, leaks, files, k, aside, history>>
  BY DEF Install
<1>2. Atomic /\ Moved
  BY <1>1 DEF Typed, Progress
<1>3. (tmp' = Absent \/ tmp' = Dir(tmp'.of)) /\ tmp'.type \in {"absent", "dir"}
  <2>1. tmp' = Absent \/ \E n : tmp' = Without(tmp, n)
    BY DEF Install
  <2> QED BY <2>1, WithoutTyped, TypeOfTree
<1>4. dest'.type \in Types
  <2>1. CASE ~Many
    <3>1. files[1] \in DOMAIN read
      BY <1>2 DEF Moved, ToSet, Typed, TypeOK
    <3> QED BY <1>1, <1>2, <2>1, <3>1, TypeOfTree DEF Moved, Typed, Types
  <2>2. CASE Many
    <3>1. Without(Staged, Old) = Dir(read)
      BY <1>2, <2>2 DEF Moved
    <3>2. IsDir(Staged)
      BY <3>1, AbsentType DEF Without
    <3> QED BY <1>1, <3>2 DEF IsDir, Types
  <2> QED BY <2>1, <2>2
<1> QED BY <1>1, <1>2, <1>3, <1>4 DEF Typed, TypeOK, Types, Atomic, history

LEMMA InstallFailsTyped ==
  ASSUME Typed, Progress, NEW back \in BOOLEAN, InstallFails(back)
  PROVE  Typed'
<1>1. pc = "install" /\ recovered' \in BOOLEAN /\ faulted' \in BOOLEAN
      /\ UNCHANGED <<op, src, files, before, read, runs>>
  BY DEF InstallFails, Fits, Typed, TypeOK
<1>2. Atomic /\ Moved
  BY <1>1 DEF Typed, Progress
<1>3. CASE aside /\ back
  <2>1. dest' = before /\ EndsAs("error", Without(tmp, Old))
    BY <1>2, <1>3 DEF InstallFails, Moved
  <2>2. dest'.type \in Types
    BY <2>1 DEF Typed
  <2> QED BY <1>1, <1>2, <2>1, <2>2, EndTyped
<1>4. CASE ~(aside /\ back)
  <2>1. dest' = dest /\ EndsAs("error", tmp)
    BY <1>4 DEF InstallFails
  <2>2. dest'.type \in Types
    BY <2>1 DEF Typed, TypeOK, Types
  <2> QED BY <1>1, <1>2, <2>1, <2>2, EndTyped
<1> QED BY <1>3, <1>4

LEMMA EndsTyped ==
  ASSUME Typed, NoFiles \/ Gone \/ CopyRefused \/ CopyDone \/ StageRefused \/ Cleanup \/ Fails \/ Crash
  PROVE  Typed'
<1>1. \E r \in {"ok", "error", "crash"} : \E t : EndsAs(r, t)
  BY DEF NoFiles, Gone, CopyRefused, CopyDone, StageRefused, Cleanup, Fails, Crash, Error
<1>2. UNCHANGED <<op, src, dest, files, before, read, recovered, runs>> /\ faulted' \in BOOLEAN
  BY DEF NoFiles, Gone, CopyRefused, CopyDone, StageRefused, Cleanup, Fails, Crash, Error, Typed, TypeOK
<1>3. recovered' \in BOOLEAN /\ dest'.type \in Types
  BY <1>2 DEF Typed, TypeOK, Types
<1> QED BY <1>1, <1>2, <1>3, EndTyped

LEMMA ChangeTyped ==
  ASSUME Typed, NEW s \in Source, NEW t \in Shape[s] \cup {Absent}, Change(s, t)
  PROVE  Typed'
<1>1. DOMAIN src' = Source /\ \A n \in Source : src'[n] \in Shape[n] \cup {Absent}
  BY DEF Change, Typed, TypeOK
<1> QED BY <1>1 DEF Change, run, Typed, TypeOK, Types, Atomic

-----------------------------------------------------------------------------
(***************************************************************************)
(* What copy has done at each of its steps: the files before the one it is *)
(* at are where they belong, and nothing else was touched.                 *)
(***************************************************************************)
Placed(n) == \A j \in 1 .. n : Covers(PutAt(files[j]), read[files[j]])

Copies ==
  ~Atomic =>
    /\ pc \in {"idle", "gathered", "copying"}
    /\ pc # "idle" => OthersKept /\ (IsDir(before) => IsDir(dest)) /\ result = "none"
    /\ pc = "gathered" =>
         /\ k = 1 => dest = before
         /\ k > 1 => files = op.sources /\ (Many => IsDir(dest))
         /\ DOMAIN read = {files[j] : j \in 1 .. k - 1}
         /\ Placed(k - 1)
    /\ pc = "copying" =>
         /\ files = op.sources
         /\ DOMAIN read = {files[j] : j \in 1 .. k}
         /\ Many \/ dest.type # read[File].type => IsDir(dest)
         /\ Placed(k - 1)

LEMMA OneFile ==
  ASSUME Len(files) \in Nat, k \in 1 .. Len(files), ~Many
  PROVE  Len(files) = 1 /\ k = 1
<1>1. \A n \in Nat : \A j \in 1 .. n : ~(n > 1) => n = 1 /\ j = 1
  OBVIOUS
<1> QED BY <1>1 DEF Many

LEMMA MergedCovers ==
  ASSUME NEW t, NEW u, IsTree(u)
  PROVE  Covers(Merged(t, u), u)
<1>1. CASE ~(IsDir(t) /\ IsDir(u))
  BY <1>1, MergedIs DEF IsTree, Covers
<1>2. CASE IsDir(t) /\ IsDir(u)
  <2> DEFINE f == [n \in DOMAIN t.of \cup DOMAIN u.of |-> IF n \in DOMAIN u.of THEN u.of[n] ELSE t.of[n]]
  <2>1. Merged(t, u) = Dir(f)
    BY <1>2, MergedIs DEF IsTree
  <2>2. \A n \in DOMAIN u.of : n \in DOMAIN f /\ f[n] = u.of[n]
    OBVIOUS
  <2> HIDE DEF f
  <2>3. \A n \in DOMAIN u.of : Entry(Dir(f), n) = u.of[n]
    BY <2>2, EntryDir
  <2> QED BY <1>2, <2>1, <2>3, AbsentType DEF Covers
<1> QED BY <1>1, <1>2

(* A directory copied over one touches no other entry. *)
LEMMA MergedKeeps ==
  ASSUME NEW t, NEW u, t = Dir(t.of), u = Dir(u.of), NEW n \in DOMAIN t.of
  PROVE  IsDir(Merged(t, u)) /\ (n \notin DOMAIN u.of => Entry(Merged(t, u), n) = t.of[n])
<1> DEFINE f == [m \in DOMAIN t.of \cup DOMAIN u.of |-> IF m \in DOMAIN u.of THEN u.of[m] ELSE t.of[m]]
<1>1. IsDir(t) /\ IsDir(u)
  BY AbsentType
<1>2. Merged(t, u) = Dir(f)
  BY <1>1, MergedIs
<1>3. n \in DOMAIN f /\ (n \notin DOMAIN u.of => f[n] = t.of[n])
  OBVIOUS
<1> HIDE DEF f
<1> QED BY <1>2, <1>3, EntryDir, AbsentType

LEMMA BeginCopies ==
  ASSUME Typed, Copies, Begin
  PROVE  Copies'
<1> SUFFICES ASSUME ~Atomic PROVE Copies'
  BY DEF Begin, Copies, Atomic
<1>1. op' = op /\ dest' = dest /\ before' = dest /\ k' = 1 /\ pc' = "gathered" /\ result' = "none"
      /\ read' = NoEntries
  BY DEF Begin, Typed
<1>2. OthersKept'
  <2>1. IsDir(dest) => dest = Dir(dest.of)
    BY TypeOfTree DEF Typed, IsDir
  <2>2. IsDir(dest) => \A n \in DOMAIN dest.of : Entry(dest, n) = dest.of[n]
    BY <2>1 DEF Entry
  <2> QED BY <1>1, <2>2 DEF OthersKept
<1>3. DOMAIN read' = {} /\ 1 .. k' - 1 = {}
  BY <1>1 DEF NoEntries
<1>4. Placed(k - 1)'
  BY <1>3 DEF Placed
<1>5. DOMAIN read' = {files'[j] : j \in 1 .. k' - 1}
  BY <1>3
<1> QED BY <1>1, <1>2, <1>4, <1>5 DEF Copies, Atomic

LEMMA Others ==
  ASSUME op.sources \in Seq(Source), files = op.sources, op \in Operations,
         NEW i \in 1 .. Len(files), NEW j \in 1 .. Len(files), i # j
  PROVE  files[i] # files[j]
BY FileOpsAssumption DEF IsInjective

LEMMA CopyOpenCopies ==
  ASSUME Typed, Copies, CopyOpen
  PROVE  Copies'
<1> DEFINE u == src[File]
           o == Opened(u)
           x == Merged(There, o)
           t == IF dest = Absent THEN Dir(NoEntries) ELSE dest
<1>1. /\ pc = "gathered" /\ Enough /\ k <= Len(files) /\ src[File] # Absent /\ ~Atomic /\ CanCopy
      /\ pc' = "copying" /\ dest' = Put(x)
      /\ UNCHANGED <<op, src, tmp, leaks, files, k, aside, result, before, faulted, recovered, runs>>
      /\ read' = [s \in DOMAIN read \cup {File} |-> IF s = File THEN u ELSE read[s]]
  BY DEF CopyOpen, Copying
<1>2. File \in Source /\ IsTree(u) /\ k \in 1 .. Len(files) /\ files = op.sources
      /\ op.sources \in Seq(Source) /\ op \in Operations /\ Len(files) \in Nat /\ File = files[k]
  BY <1>1, ChosenFile, FoundFiles DEF Enough, Typed, TypeOK, File
<1>3. File' = File /\ Many' = Many /\ read'[File] = u /\ ~Atomic'
  BY <1>1 DEF File, Many, Atomic
<1>4. /\ OthersKept /\ (IsDir(before) => IsDir(dest)) /\ result = "none"
      /\ k = 1 => dest = before
      /\ k > 1 /\ Many => IsDir(dest)
      /\ DOMAIN read = {files[j] : j \in 1 .. k - 1}
      /\ Placed(k - 1)
  BY <1>1, <1>2 DEF Copies
<1>5. DOMAIN read' = {files'[j] : j \in 1 .. k'}
  <2>1. 1 .. k = (1 .. k - 1) \cup {k}
    BY <1>2
  <2>2. DOMAIN read' = {files[j] : j \in 1 .. k - 1} \cup {files[k]}
    BY <1>1, <1>2, <1>4
  <2> QED BY <1>1, <2>1, <2>2
<1>6. dest = Absent \/ dest = Plain(dest.of) \/ dest = Dir(dest.of)
  BY <1>1 DEF Typed
<1>7. CASE Whole
  <2>1. ~Many /\ Len(files) = 1 /\ k = 1 /\ dest = before /\ There = dest /\ dest' = x
    <3>1. ~Many /\ Len(files) = 1 /\ k = 1
      BY <1>2, <1>7, OneFile DEF Whole
    <3>2. There = dest
      BY <1>7 DEF There
    <3> HIDE DEF x
    <3>3. Put(x) = x
      BY <1>7 DEF Put
    <3> QED BY <1>1, <1>4, <3>1, <3>2, <3>3
  <2>2. dest'.type = u.type
    <3>1. o = Plain(o.of) \/ o = Dir(o.of)
      BY OpenedIs
    <3>2. o.type = u.type
      BY <1>2, OpenedIs DEF IsTree
    <3>3. dest' = Merged(dest, o)
      BY <2>1
    <3> HIDE DEF o
    <3>4. Merged(dest, o).type = o.type
      BY <3>1, MergedIs
    <3> QED BY <3>2, <3>3, <3>4
  <2>3. IsDir(before) => IsDir(dest') /\ IsDir(u)
    <3>1. IsDir(dest) => IsDir(u)
      BY <1>1, <1>7, <2>1, AbsentType DEF CanCopy, Fits, IsDir
    <3> QED BY <2>1, <2>2, <3>1 DEF IsDir
  <2>4. OthersKept'
    <3> SUFFICES ASSUME IsDir(before), NEW n \in DOMAIN before.of
                 PROVE  Entry(dest', n) = before.of[n] \/ Entry(read'[files'[1]], n) # Absent
      BY <1>1, <1>3, <2>1 DEF OthersKept
    <3>1. dest = Dir(dest.of) /\ u = Dir(u.of) /\ IsDir(u)
      BY <1>2, <1>6, <2>1, <2>3, TypeOfTree DEF IsDir, IsTree
    <3>2. o = Dir(o.of) /\ DOMAIN o.of = DOMAIN u.of
      BY <3>1, OpenedIs, TypeOfTree DEF IsDir
    <3> HIDE DEF o
    <3>3. n \notin DOMAIN u.of => Entry(dest', n) = before.of[n]
      BY <2>1, <3>1, <3>2, MergedKeeps
    <3>4. n \in DOMAIN u.of => Entry(u, n) # Absent
      BY <1>2, <3>1, TypeOfTree DEF IsTree, Entry, IsDir
    <3> QED BY <1>1, <1>2, <1>3, <2>1, <3>3, <3>4
  <2>5. Placed(k - 1)'
    BY <1>1, <2>1 DEF Placed
  <2> QED BY <1>1, <1>2, <1>3, <1>4, <1>5, <2>1, <2>2, <2>3, <2>4, <2>5 DEF Copies
<1>8. CASE ~Whole
  <2>1. IsDir(dest) \/ dest = Absent
    BY <1>1, <1>8 DEF CanCopy
  <2>2. t = Dir(t.of) /\ (IsDir(dest) => t = dest)
    BY <1>6, <2>1, AbsentType, TypeOfTree DEF IsDir
  <2>3. dest' = With(t, File, x)
    BY <1>1, <1>8 DEF Put
  <2> HIDE DEF t, x
  <2>4. IsDir(dest') /\ \A m : m # File => Entry(dest', m) = Entry(t, m)
    <3>1. \A d : t = Dir(d) => IsDir(With(t, File, x)) /\ \A m : m # File => Entry(With(t, File, x), m) = Entry(t, m)
      BY EntryWith, DirIsDir DEF IsDir
    <3> QED BY <2>2, <2>3, <3>1
  <2>5. OthersKept'
    <3> SUFFICES ASSUME IsDir(before), NEW n \in DOMAIN before.of \ Source
                 PROVE  Entry(dest', n) = before.of[n] \/ (~Many /\ Entry(read'[files'[1]], n) # Absent)
      BY <1>1, <1>3 DEF OthersKept
    <3>1. IsDir(dest) /\ t = dest
      BY <1>4, <2>2
    <3>2. Entry(dest', n) = Entry(dest, n)
      BY <1>2, <2>4, <3>1
    <3>3. CASE Many
      BY <1>4, <3>2, <3>3 DEF OthersKept
    <3>4. CASE ~Many
      <4>1. k = 1 /\ dest = before
        BY <1>2, <1>4, <3>4 DEF Many
      <4> QED BY <3>1, <3>2, <4>1 DEF Entry
    <3> QED BY <3>3, <3>4
  <2>6. Placed(k - 1)'
    <3> SUFFICES ASSUME NEW j \in 1 .. k - 1 PROVE Covers(PutAt(files[j])', read'[files[j]])
      BY <1>1 DEF Placed
    <3>1. Many /\ IsDir(dest) /\ files[j] # File
      BY <1>2, <1>4, Others DEF Many
    <3>2. PutAt(files[j])' = Entry(dest, files[j]) /\ PutAt(files[j]) = Entry(dest, files[j])
      BY <1>1, <1>3, <2>2, <2>4, <3>1 DEF PutAt
    <3>3. read'[files[j]] = read[files[j]]
      BY <1>1, <1>4, <3>1
    <3> QED BY <1>4, <3>2, <3>3 DEF Placed
  <2> QED BY <1>1, <1>2, <1>3, <1>4, <1>5, <2>4, <2>5, <2>6 DEF Copies
<1> QED BY <1>7, <1>8
LEMMA CopyWriteCopies ==
  ASSUME Typed, Copies, CopyWrite
  PROVE  Copies'
<1> DEFINE u == read[File]
           x == Merged(Entry(dest, File), u)
<1>1. /\ pc = "copying" /\ ~Atomic /\ pc' = "gathered" /\ k' = k + 1
      /\ UNCHANGED <<op, src, files, aside, result, before, read, faulted, recovered, runs>>
  BY DEF CopyWrite, Typed, history
<1>2. /\ OthersKept /\ (IsDir(before) => IsDir(dest)) /\ result = "none"
      /\ files = op.sources
      /\ DOMAIN read = {files[j] : j \in 1 .. k}
      /\ Many \/ dest.type # u.type => IsDir(dest)
      /\ Placed(k - 1)
  BY <1>1 DEF Copies
<1>3. /\ op.sources \in Seq(Source) /\ op \in Operations /\ Len(files) \in Nat
      /\ k \in 1 .. Len(files) /\ File = files[k] /\ File \in Source
  BY <1>1, <1>2, FoundFiles DEF Typed, TypeOK, File
<1>4. Many' = Many /\ ~Atomic' /\ k' - 1 = k /\ k' > 1
  BY <1>1, <1>3 DEF Many, Atomic
<1>5. File \in DOMAIN read /\ IsTree(u) /\ (u = Plain(u.of) \/ u = Dir(u.of))
  <2>1. File \in DOMAIN read
    BY <1>2, <1>3
  <2>2. IsTree(u)
    BY <1>1, <2>1 DEF Typed
  <2> QED BY <2>1, <2>2 DEF IsTree
<1>6. dest = Absent \/ dest = Plain(dest.of) \/ dest = Dir(dest.of)
  BY <1>1 DEF Typed
<1>7. DOMAIN read' = {files'[j] : j \in 1 .. k' - 1}
  BY <1>1, <1>2, <1>4
<1>8. CASE ~Many /\ dest.type = u.type
  <2>1. Len(files) = 1 /\ k = 1 /\ dest' = Merged(dest, u)
    BY <1>3, <1>8, OneFile DEF CopyWrite
  <2> HIDE DEF u
  <2>2. dest'.type = u.type /\ Covers(dest', u)
    BY <1>5, <1>6, <2>1, MergedIs, MergedCovers
  <2>3. Placed(k - 1)'
    <3>1. \A f : f = File => PutAt(f)' = dest'
      BY <1>1, <1>4, <1>8, <2>2 DEF PutAt, u
    <3>2. \A f : f = files[1] => Covers(PutAt(f)', read[f])
      BY <1>3, <2>1, <2>2, <3>1 DEF u
    <3> QED BY <1>1, <1>4, <2>1, <3>2 DEF Placed
  <2>4. IsDir(before) => dest = Dir(dest.of) /\ u = Dir(u.of)
    <3>1. IsDir(before) => IsDir(dest) /\ IsDir(u)
      BY <1>2, <1>8 DEF IsDir
    <3> QED BY <1>5, <1>6, <3>1, TypeOfTree DEF IsDir
  <2>5. IsDir(before) => IsDir(dest')
    BY <1>2, <1>8, <2>2 DEF IsDir
  <2>6. OthersKept'
    <3> SUFFICES ASSUME IsDir(before), NEW n \in DOMAIN before.of \ Source
                 PROVE  Entry(dest', n) = before.of[n] \/ Entry(u, n) # Absent
      BY <1>1, <1>3, <1>4, <1>8, <2>1 DEF OthersKept, u
    <3>1. CASE Entry(u, n) # Absent
      BY <3>1
    <3>2. CASE Entry(u, n) = Absent
      <4>1. Entry(dest, n) = before.of[n]
        BY <1>2, <1>3, <2>1, <3>2 DEF OthersKept, u
      <4>2. n \notin DOMAIN u.of
        BY <1>5, <2>4, <3>2, AbsentType, TypeOfTree DEF IsTree, Entry
      <4>3. n \in DOMAIN dest.of => Entry(dest', n) = dest.of[n] /\ Entry(dest, n) = dest.of[n]
        BY <2>1, <2>4, <4>2, MergedKeeps, EntryDir
      <4>4. n \notin DOMAIN dest.of => Entry(dest', n) = Absent /\ Entry(dest, n) = Absent
        <5> DEFINE f == [m \in DOMAIN dest.of \cup DOMAIN u.of |-> IF m \in DOMAIN u.of THEN u.of[m] ELSE dest.of[m]]
        <5>1. dest' = Dir(f)
          BY <1>5, <2>1, <2>4, AbsentType, MergedIs
        <5>2. DOMAIN f = DOMAIN dest.of \cup DOMAIN u.of
          OBVIOUS
        <5> HIDE DEF f
        <5> QED BY <2>4, <4>2, <5>1, <5>2, EntryDir
      <4> QED BY <4>1, <4>3, <4>4
    <3> QED BY <3>1, <3>2
  <2> QED BY <1>1, <1>2, <1>4, <1>7, <1>8, <2>3, <2>5, <2>6 DEF Copies
<1>9. CASE ~(~Many /\ dest.type = u.type)
  <2>1. IsDir(dest) /\ dest = Dir(dest.of) /\ dest' = With(dest, File, x)
    BY <1>2, <1>6, <1>9, TypeOfTree DEF IsDir, CopyWrite
  <2> HIDE DEF x
  <2>2. /\ IsDir(dest') /\ Entry(dest', File) = x
        /\ \A m : m # File => Entry(dest', m) = Entry(dest, m)
    <3>1. \A d : dest = Dir(d) => /\ IsDir(With(dest, File, x)) /\ Entry(With(dest, File, x), File) = x
                                  /\ \A m : m # File => Entry(With(dest, File, x), m) = Entry(dest, m)
      BY EntryWith, DirIsDir DEF IsDir
    <3> QED BY <2>1, <3>1
  <2>3. Many \/ dest'.type # u.type
    BY <1>9, <2>1, <2>2 DEF IsDir
  <2>4. OthersKept'
    <3> SUFFICES ASSUME IsDir(before), NEW n \in DOMAIN before.of \ Source
                 PROVE  Entry(dest', n) = before.of[n] \/ (~Many /\ Entry(read[files[1]], n) # Absent)
      BY <1>1, <1>4 DEF OthersKept
    <3>1. Entry(dest', n) = Entry(dest, n)
      BY <1>3, <2>2
    <3> QED BY <1>2, <3>1 DEF OthersKept
  <2>5. Covers(x, u)
    BY <1>5, MergedCovers DEF x
  <2>6. Placed(k - 1)'
    <3> SUFFICES ASSUME NEW j \in 1 .. k PROVE Covers(PutAt(files[j])', read[files[j]])
      BY <1>1, <1>4 DEF Placed
    <3>1. CASE j = k
      <4>1. \A f : f = File => PutAt(f)' = x
        BY <1>1, <1>4, <2>2, <2>3 DEF PutAt
      <4>2. \A f : f = files[k] => PutAt(f)' = x
        BY <1>3, <4>1
      <4> QED BY <1>1, <1>3, <2>5, <3>1, <4>2
    <3>2. CASE j # k
      <4>1. j \in 1 .. k - 1 /\ j \in 1 .. Len(files) /\ Many
        BY <1>3, <3>2 DEF Many
      <4>2. files[j] # File
        BY <1>2, <1>3, <3>2, <4>1, Others
      <4>3. PutAt(files[j])' = PutAt(files[j])
        BY <1>1, <1>4, <2>2, <4>1, <4>2 DEF PutAt
      <4> QED BY <1>2, <4>1, <4>3 DEF Placed
    <3> QED BY <3>1, <3>2
  <2> QED BY <1>1, <1>2, <1>4, <1>7, <2>2, <2>4, <2>6 DEF Copies
<1> QED BY <1>8, <1>9

LEMMA OthersCopies ==
  ASSUME Typed, Copies, NoFiles \/ Gone \/ CopyRefused \/ CopyDone \/ Fails \/ Crash
  PROVE  Copies'
BY DEF Copies, NoFiles, Gone, CopyRefused, CopyDone, Fails, Crash, Error, EndsAs, Atomic

LEMMA AtomicCopies ==
  ASSUME Typed, Stage \/ StageRefused \/ SetAside \/ Install \/ Cleanup
                \/ \E back \in BOOLEAN : InstallFails(back)
  PROVE  Copies'
<1>1. Atomic /\ op' = op
  BY DEF Typed, Stage, StageRefused, SetAside, Install, Cleanup, InstallFails, Error
<1> QED BY <1>1 DEF Copies, Atomic

LEMMA ChangeCopies ==
  ASSUME Copies, NEW s \in Source, NEW t, Change(s, t)
  PROVE  Copies'
BY DEF Change, run, Copies, Atomic, OthersKept, Placed, PutAt, Many, File

LEMMA CompleteInPlace ==
  ASSUME Complete
  PROVE  InPlace
<1>1. CASE ~Many
  BY <1>1 DEF Complete, InPlace
<1>2. CASE Many
  <2> DEFINE rest == [m \in DOMAIN dest.of \ {Old} |-> dest.of[m]]
  <2>1. Without(dest, Old) = Dir(read)
    BY <1>2 DEF Complete
  <2>2. IsDir(dest)
    BY <2>1, TypeOfTree DEF IsDir, Without
  <2>3. [dest EXCEPT !.of = rest] = Dir(read)
    BY <2>1, <2>2 DEF Without
  <2>4. \A s \in DOMAIN rest : s \in DOMAIN dest.of /\ rest[s] = dest.of[s]
    OBVIOUS
  <2> HIDE DEF rest
  <2>5. DOMAIN [dest EXCEPT !.of = rest] = DOMAIN dest /\ DOMAIN Dir(read) = {"type", "of"}
    BY DEF Dir
  <2>6. rest = read
    BY <2>3, <2>5, TypeOfTree
  <2>7. \A s \in ToSet(files) : Entry(dest, s) = read[s]
    BY <2>2, <2>4, <2>6 DEF Complete, Entry
  <2> QED BY <1>2, <2>7 DEF Complete, InPlace
<1> QED BY <1>1, <1>2

(* Every state of a run. *)
Done == Progress /\ Typed /\ Copies /\ (pc # "idle" => result = "none") /\ Succeeded

LEMMA SucceededStays ==
  ASSUME Succeeded, UNCHANGED <<op, dest, files, before, result, read>>
  PROVE  Succeeded'
BY DEF Succeeded, InPlace, OthersKept, PutAt, Many, Atomic

LEMMA SucceededStep ==
  ASSUME Done, Next
  PROVE  (pc' # "idle" => result' = "none") /\ Succeeded'
<1>1. CASE CopyDone
  <2>1. ~Atomic /\ files = op.sources /\ k = Len(files) + 1 /\ pc = "gathered" /\ pc' = "idle"
        /\ UNCHANGED <<op, dest, files, before, read>>
    BY <1>1, FoundFiles DEF CopyDone, EndsAs, Copying, Enough, Done, Typed, TypeOK
  <2>2. OthersKept /\ Placed(Len(files))
    <3>1. Len(files) \in Nat
      BY FoundFiles DEF Done, Typed, TypeOK
    <3> QED BY <2>1, <3>1 DEF Done, Copies
  <2>3. ~Atomic' /\ OthersKept' /\ \A s \in ToSet(files') : PutAt(s)' = PutAt(s)
    BY <2>1, <2>2 DEF Atomic, OthersKept, PutAt, Many
  <2>4. \A s \in ToSet(files) : Covers(PutAt(s), read[s])
    BY <2>2 DEF Placed, ToSet, Done, Typed, TypeOK
  <2> QED BY <2>1, <2>3, <2>4 DEF Succeeded
<1>2. CASE Cleanup
  <2>1. Atomic /\ Complete /\ pc' = "idle" /\ UNCHANGED <<op, dest, files, before, read>>
    BY <1>2 DEF Cleanup, EndsAs, Done, Typed, Progress
  <2>2. InPlace
    BY <2>1, CompleteInPlace
  <2>3. Atomic' /\ InPlace'
    BY <2>1, <2>2 DEF Atomic, InPlace, Many
  <2> QED BY <2>1, <2>3 DEF Succeeded
<1>3. CASE NoFiles \/ Gone \/ CopyRefused \/ StageRefused \/ Fails \/ Crash
  BY <1>3 DEF NoFiles, Gone, CopyRefused, StageRefused, Fails, Crash, Error, EndsAs, Succeeded
<1>4. ASSUME NEW back \in BOOLEAN, InstallFails(back) PROVE result' = "error" /\ pc' = "idle"
  BY <1>4 DEF InstallFails, EndsAs
<1>5. CASE Begin
  BY <1>5 DEF Begin, Succeeded
<1>6. CASE CopyOpen \/ CopyWrite \/ Stage \/ SetAside \/ Install
  BY <1>6 DEF CopyOpen, CopyWrite, Stage, SetAside, Install, Copying, history, Done, Succeeded
<1>7. ASSUME NEW s \in Source, NEW t, Change(s, t) PROVE (pc' # "idle" => result' = "none") /\ Succeeded'
  BY <1>7, SucceededStays DEF Change, run, Done
<1> QED BY <1>1, <1>2, <1>3, <1>4, <1>5, <1>6, <1>7 DEF Next, Succeeded

LEMMA DoneStep ==
  ASSUME Done, Next, Progress'
  PROVE  Done'
<1>1. CASE NoFiles \/ Gone \/ CopyRefused \/ CopyDone \/ Fails \/ Crash
  BY <1>1, EndsTyped, OthersCopies, SucceededStep DEF Done
<1>2. CASE StageRefused \/ Cleanup
  BY <1>2, EndsTyped, AtomicCopies, SucceededStep DEF Done
<1>3. CASE Stage \/ SetAside \/ Install \/ \E back \in BOOLEAN : InstallFails(back)
  BY <1>3, StageTyped, SetAsideTyped, InstallTyped, InstallFailsTyped, AtomicCopies, SucceededStep DEF Done
<1>4. CASE Begin
  BY <1>4, BeginTyped, BeginCopies, SucceededStep DEF Done
<1>5. CASE CopyOpen
  BY <1>5, CopyOpenTyped, CopyOpenCopies, SucceededStep DEF Done
<1>6. CASE CopyWrite
  <2>1. pc = "copying" /\ ~Atomic
    BY <1>6 DEF CopyWrite, Done, Typed
  <2>2. /\ DOMAIN read = {files[j] : j \in 1 .. k} /\ k \in 1 .. Len(files)
        /\ Many \/ dest.type # read[File].type => IsDir(dest)
    BY <2>1, FoundFiles DEF Done, Copies, Typed, TypeOK
  <2>3. File \in DOMAIN read
    BY <2>2 DEF File
  <2> QED BY <1>6, <2>2, <2>3, CopyWriteTyped, CopyWriteCopies, SucceededStep DEF Done
<1>7. ASSUME NEW s \in Source, NEW t \in Shape[s] \cup {Absent}, Change(s, t) PROVE Done'
  BY <1>7, ChangeTyped, ChangeCopies, SucceededStep DEF Done
<1> QED BY <1>1, <1>2, <1>3, <1>4, <1>5, <1>6, <1>7 DEF Next

LEMMA DoneAlways == Spec => []Done
<1>1. Init /\ Progress => Done
  <2> SUFFICES ASSUME Init, Progress PROVE Done
    OBVIOUS
  <2>1. \A s \in Source : src[s] \in Shape[s] \cup {Absent}
    BY DEF Init
  <2>2. dest = Absent \/ dest = Plain(dest.of) \/ dest = Dir(dest.of)
    BY FileOpsAssumption DEF Init, IsTree
  <2>3. dest.type \in Types
    BY <2>2, TypeOfTree DEF Types
  <2>4. Typed
    <3>1. op.sources \in Seq(Source) /\ Len(op.sources) \in Nat
      BY FoundFiles DEF Init
    <3>2. tmp.type \in {"absent", "dir"} /\ DOMAIN read = {} /\ runs \in 0 .. MaxRuns
      BY FileOpsAssumption, TypeOfTree DEF Init, NoEntries
    <3>3. TypeOK
      <4>1. op \in Operations /\ DOMAIN src = Source /\ pc = "idle" /\ files = <<>> /\ k = 1
            /\ result = "none" /\ aside = FALSE /\ faulted = FALSE /\ recovered = TRUE
        BY DEF Init
      <4>2. files \in Seq(Source) /\ k \in 1 .. Len(op.sources) + 1
        BY <3>1, <4>1
      <4> QED BY <2>1, <2>3, <3>2, <4>1, <4>2 DEF TypeOK, Types
    <3> QED BY <2>2, <2>3, <3>1, <3>2, <3>3 DEF Init, Typed
  <2> QED BY <2>4 DEF Init, Done, Copies, Succeeded
<1>2. Done /\ Progress' /\ [Next]_vars => Done'
  <2>1. CASE UNCHANGED vars
    BY <2>1 DEF vars, run, history, Done, Typed, TypeOK, Atomic, Copies, OthersKept, Placed, PutAt, Many,
       File, Succeeded, InPlace
  <2> QED BY <2>1, DoneStep
<1> QED BY <1>1, <1>2, ProgressAlways, PTL DEF Spec

(***************************************************************************)
(* Every variable has its type, and k never passes the sources.            *)
(* (Copy.Run, AtomicCopy.Run)                                              *)
(***************************************************************************)
THEOREM TypeCorrect == Spec => []TypeOK
<1>1. Done => TypeOK
  BY DEF Done, Typed
<1> QED BY <1>1, DoneAlways, PTL

(***************************************************************************)
(* A run that reports success has put what it read into its place, for any *)
(* number of files and whatever dest held: atomic-copy its only source in  *)
(* place of dest, or each of several, as it was read, into it; copy every  *)
(* source over what was there, and it kept the entries it was not given.   *)
(* (Copy.Run, AtomicCopy.Run)                                              *)
(***************************************************************************)
THEOREM SuccessIsComplete == Spec => []Succeeded
<1>1. Done => Succeeded
  BY DEF Done
<1> QED BY <1>1, DoneAlways, PTL
=============================================================================
