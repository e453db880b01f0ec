------------------------------ MODULE FileOps -------------------------------
(***************************************************************************)
(* The Run of the operators that copy trees of files, copy and atomic-copy *)
(* (operator/fileop): every call that changes a file system is a step, any *)
(* of them can fail, and the process can die between two of them.  The     *)
(* sources change at any time; nothing else writes dest.                   *)
(*                                                                         *)
(* A tree is a file with some data or a directory of named trees.  copy    *)
(* writes its sources into dest one by one; atomic-copy stages them in a   *)
(* temporary directory and renames that into place, after it has renamed a *)
(* dest that is a directory out of the way.                                *)
(***************************************************************************)
EXTENDS Naturals, Sequences, FiniteSets, SequencesExt, Filter

CONSTANTS Source,      \* names (base names) of the source files
          Shape,       \* the trees each source can be
          Before,      \* the trees dest can be when nothing was applied yet
          Operations,  \* the operations considered
          DestName, Old,       \* the last part of dest, and that with ".old"
          TornData,    \* a file that was created and not yet written
          MaxRuns      \* bound: runs of the operation

(* Runs of one operation, whose sources have different base names;         *)
(* `slash`: dest is written with a trailing slash, its last part is empty. *)
Operation == [kind : {"copy", "atomic-copy"}, sources : Seq(Source), slash : BOOLEAN]

Absent  == [type |-> "absent", of |-> <<>>]
Plain(d) == [type |-> "file", of |-> d]
Dir(es)  == [type |-> "dir", of |-> es]
IsDir(t) == t.type = "dir"

IsTree(t) == t = Plain(t.of) \/ (t = Dir(t.of) /\ \A n \in DOMAIN t.of : t.of[n] # Absent)

NoEntries == [n \in {} |-> Absent]

ASSUME FileOpsAssumption ==
  /\ Operations \subseteq Operation
  /\ \A o \in Operations : o.sources # <<>> /\ IsInjective(o.sources)
  /\ DOMAIN Shape = Source
  /\ \A s \in Source : \A t \in Shape[s] : IsTree(t)
  /\ \A t \in Before : t = Absent \/ IsTree(t)
  /\ MaxRuns \in Nat
  /\ DestName # Old /\ {DestName, Old} \cap Source = {}

VARIABLES
  op,         \* the operation, constant
  src,        \* the source trees, Absent when a glob finds nothing
  dest,       \* what is at dest
  tmp,        \* the temporary directory of this run, if there is one
  leaks,      \* those that earlier runs left behind
  pc,         \* where Run is
  files, k,   \* allFiles, what the globs of the sources found, and the one it is at
  aside,      \* tmpDirPath # "": dest was renamed out of the way
  \* History: no guard reads it.
  result,     \* how the last run ended: "ok", "error" or "crash"
  before,     \* dest when this run, or the last, began
  read,       \* the sources as this run copied them
  faulted,    \* did a call fail that need not, or a source vanish, in this run?
  recovered,  \* did renaming the old dest back succeed, if it was tried?
  runs        \* for the bound

run     == <<pc, files, k, aside>>
history == <<result, before, read, faulted, recovered, runs>>
vars    == <<op, src, dest, tmp, leaks, run, history>>

Init ==
  /\ op \in Operations
  /\ src \in {f \in [Source -> UNION {Shape[s] : s \in Source}] : \A s \in Source : f[s] \in Shape[s]}
  /\ dest \in Before
  /\ tmp = Absent /\ leaks = {}
  /\ pc = "idle" /\ files = <<>> /\ k = 1 /\ aside = FALSE
  /\ result = "none" /\ before = dest /\ read = NoEntries
  /\ faulted = FALSE /\ recovered = TRUE
  /\ runs = 0

Many == Len(files) > 1
File == files[k]
Atomic == op.kind = "atomic-copy"

-----------------------------------------------------------------------------
(* Trees *)

(* t with n at es, in a directory that exists (os.Create, os.Rename). *)
With(t, n, u) == [t EXCEPT !.of = [m \in DOMAIN @ \cup {n} |-> IF m = n THEN u ELSE @[m]]]
Without(t, n) == IF IsDir(t) THEN [t EXCEPT !.of = [m \in DOMAIN @ \ {n} |-> @[m]]] ELSE t

Entry(t, n) == IF IsDir(t) /\ n \in DOMAIN t.of THEN t.of[n] ELSE Absent

(* Can u be copied to where t is?  Not a directory over a file, nor a file *)
(* over a directory (copyFile, copy.Copy).                                 *)
Fits(t, u) == t = Absent \/ t.type = u.type

(* u copied over t: a directory keeps the entries that u does not have.    *)
(* Entries of sources are files.                                           *)
Merged(t, u) ==
  IF IsDir(t) /\ IsDir(u)
    THEN Dir([n \in DOMAIN t.of \cup DOMAIN u.of |-> IF n \in DOMAIN u.of THEN u.of[n] ELSE t.of[n]])
    ELSE u

Opened(u) ==
  IF IsDir(u) THEN Dir([n \in DOMAIN u.of |-> Plain(TornData)]) ELSE Plain(TornData)

-----------------------------------------------------------------------------
(* Run ends and leaves t of its temporary directory. *)
EndsAs(r, t) ==
  /\ result' = r
  /\ pc' = "idle" /\ k' = 1 /\ aside' = FALSE
  /\ tmp' = Absent
  /\ leaks' = IF t = Absent THEN leaks ELSE leaks \cup {t}

Found == Filter(op.sources, {s \in Source : src[s] # Absent})

(* MkdirTemp, for atomic-copy, and the globs are matched. *)
Begin ==
  /\ pc = "idle" /\ runs < MaxRuns /\ runs' = runs + 1
  /\ pc' = "gathered" /\ files' = Found
  /\ tmp' = IF Atomic THEN Dir(NoEntries) ELSE Absent
  /\ before' = dest /\ read' = NoEntries
  /\ result' = "none" /\ recovered' = TRUE
  /\ faulted' = (Found # op.sources)
  /\ UNCHANGED <<op, src, dest, leaks, k, aside>>

(* atomic-copy wants one source to be there, copy all of them (checkPats). *)
Enough == IF Atomic THEN files # <<>> ELSE files = op.sources

Error(t) == EndsAs("error", t) /\ UNCHANGED <<op, src, dest, files, before, read, recovered, runs>>

NoFiles == pc = "gathered" /\ ~Enough /\ Error(tmp) /\ UNCHANGED faulted

Copying == pc = "gathered" /\ Enough

(* A source is gone when it is looked at again. *)
Gone == Copying /\ k <= Len(files) /\ src[File] = Absent /\ Error(tmp) /\ faulted' = TRUE

-----------------------------------------------------------------------------
(* copy: copyOneFile and copyManyFiles *)

(* Where file k is written: dest itself for a single directory, or a       *)
(* single file when dest is none; an entry of dest otherwise.              *)
Whole == ~Many /\ (IsDir(src[File]) \/ ~IsDir(dest))

(* The tree that is there, and whether the copy can be made: copy.Copy     *)
(* creates the directories above it, os.Create does not.                   *)
There == IF Whole THEN dest ELSE Entry(dest, File)

CanCopy == /\ Fits(There, src[File])
           /\ ~Whole => IsDir(dest) \/ (dest = Absent /\ IsDir(src[File]))

PutAlone(u) ==                \* defect: dest is made anew
  IF Whole THEN u ELSE With(Dir(NoEntries), File, u)

Put(u) == IF Whole THEN u ELSE With(IF dest = Absent THEN Dir(NoEntries) ELSE dest, File, u)

(* The file is created, and its old content gone... *)
CopyOpen ==
  /\ Copying /\ ~Atomic /\ k <= Len(files) /\ src[File] # Absent
  /\ CanCopy
  /\ dest' = Put(Merged(There, Opened(src[File])))
  /\ read' = [s \in DOMAIN read \cup {File} |-> IF s = File THEN src[File] ELSE read[s]]
  /\ pc' = "copying"
  /\ UNCHANGED <<op, src, tmp, leaks, files, k, aside, result, before, faulted, recovered, runs>>

CopyWriteSkip ==              \* defect: counts twice
  /\ pc = "copying"
  /\ dest' = IF ~Many /\ dest.type = read[File].type
               THEN Merged(dest, read[File])
               ELSE With(dest, File, Merged(Entry(dest, File), read[File]))
  /\ pc' = "gathered" /\ k' = k + 2
  /\ UNCHANGED <<op, src, tmp, leaks, files, aside, history>>

(* ...and then it is written.                                              *)
CopyWrite ==
  /\ pc = "copying"
  /\ dest' = IF ~Many /\ dest.type = read[File].type
               THEN Merged(dest, read[File])
               ELSE With(dest, File, Merged(Entry(dest, File), read[File]))
  /\ pc' = "gathered" /\ k' = k + 1
  /\ UNCHANGED <<op, src, tmp, leaks, files, aside, history>>

CopyRefused ==
  /\ Copying /\ ~Atomic /\ k <= Len(files) /\ src[File] # Absent
  /\ ~CanCopy
  /\ Error(Absent) /\ UNCHANGED faulted

CopyDone ==
  /\ Copying /\ ~Atomic /\ k > Len(files)
  /\ EndsAs("ok", Absent)
  /\ UNCHANGED <<op, src, dest, files, before, read, faulted, recovered, runs>>

-----------------------------------------------------------------------------
(* atomic-copy *)

(* The tree that will be renamed: a single source, or a directory named    *)
(* like dest - which is the temporary directory itself when dest ends in   *)
(* a slash.                                                                *)
Staged == IF ~Many THEN Entry(tmp, files[1]) ELSE IF op.slash THEN tmp ELSE Entry(tmp, DestName)

InTmp == ~Many \/ op.slash     \* sources are staged in tmp, not below it

(* A file can only be created in a directory that exists; nobody makes     *)
(* the one named like dest but copy.Copy.                                  *)
CanStage == InTmp \/ IsDir(src[File]) \/ DestName \in DOMAIN tmp.of

Stage ==
  /\ Copying /\ Atomic /\ k <= Len(files) /\ src[File] # Absent
  /\ CanStage
  /\ tmp' = IF InTmp THEN With(tmp, File, src[File])
             ELSE LET d == Entry(tmp, DestName) IN
                  With(tmp, DestName, With(IF d = Absent THEN Dir(NoEntries) ELSE d, File, src[File]))
  /\ read' = [s \in DOMAIN read \cup {File} |-> IF s = File THEN src[File] ELSE read[s]]
  /\ k' = k + 1
  /\ UNCHANGED <<op, src, dest, leaks, pc, files, aside, result, before, faulted, recovered, runs>>

StageRefused ==
  /\ Copying /\ Atomic /\ k <= Len(files) /\ src[File] # Absent
  /\ ~CanStage
  /\ Error(tmp) /\ UNCHANGED faulted

RemoveDest ==                 \* defect: dest is removed instead of set aside
  /\ Copying /\ Atomic /\ k > Len(files)
  /\ dest' = IF IsDir(dest) THEN Absent ELSE dest
  /\ aside' = FALSE
  /\ pc' = "install"
  /\ UNCHANGED <<op, src, tmp, leaks, files, k, history>>

(* A dest that is a directory is renamed to <dest>.old in tmp.             *)
SetAside ==
  /\ Copying /\ Atomic /\ k > Len(files)
  /\ IF IsDir(dest)
       THEN tmp' = With(tmp, Old, dest) /\ dest' = Absent /\ aside' = TRUE
       ELSE UNCHANGED <<tmp, dest, aside>>
  /\ pc' = "install"
  /\ UNCHANGED <<op, src, leaks, files, k, history>>

(* The staged tree is renamed to dest; a directory cannot replace a file.  *)
Install ==
  /\ pc = "install"
  /\ Fits(dest, Staged)
  /\ dest' = Staged
  /\ tmp' = IF Staged = tmp THEN Absent ELSE Without(tmp, IF Many THEN DestName ELSE files[1])
  /\ pc' = "cleanup"
  /\ UNCHANGED <<op, src, leaks, files, k, aside, history>>

InstallGivesUp(back) ==       \* defect: the old dest is not renamed back
  /\ pc = "install"
  /\ dest' = dest /\ EndsAs("error", tmp)
  /\ recovered' = (aside => back)
  /\ faulted' = (faulted \/ Fits(dest, Staged))
  /\ UNCHANGED <<op, src, files, before, read, runs>>

(* That rename failed, and the old dest, if there was one, is renamed back *)
(* - or not.                                                               *)
InstallFails(back) ==
  /\ pc = "install"
  /\ IF aside /\ back
       THEN dest' = Entry(tmp, Old) /\ EndsAs("error", Without(tmp, Old))
       ELSE dest' = dest /\ EndsAs("error", tmp)
  /\ recovered' = (aside => back)
  /\ faulted' = (faulted \/ Fits(dest, Staged))
  /\ UNCHANGED <<op, src, files, before, read, runs>>

Cleanup ==
  /\ pc = "cleanup"
  /\ EndsAs("ok", Absent)
  /\ UNCHANGED <<op, src, dest, files, before, read, faulted, recovered, runs>>

-----------------------------------------------------------------------------
(* A call fails that could have worked, or the process dies, with what it  *)
(* has done so far. *)
Fails == pc \notin {"idle", "install"} /\ Error(tmp) /\ faulted' = TRUE

Crash ==
  /\ pc # "idle"
  /\ EndsAs("crash", tmp) /\ faulted' = TRUE
  /\ UNCHANGED <<op, src, dest, files, before, read, recovered, runs>>

Change(s, t) ==
  /\ src[s] # t
  /\ src' = [src EXCEPT ![s] = t]
  /\ UNCHANGED <<op, dest, tmp, leaks, run, result, before, read, faulted, recovered, runs>>

Next == \/ Begin \/ NoFiles \/ Gone
        \/ CopyOpen \/ CopyWrite \/ CopyRefused \/ CopyDone
        \/ Stage \/ StageRefused \/ SetAside \/ Install \/ Cleanup
        \/ \E back \in BOOLEAN : InstallFails(back)
        \/ Fails \/ Crash
        \/ \E s \in Source : \E t \in Shape[s] \cup {Absent} : Change(s, t)

Spec == Init /\ [][Next]_vars

-----------------------------------------------------------------------------
(* Properties *)

(* Every variable has its type.  (Copy.Run, AtomicCopy.Run)                *)
TypeOK ==
  /\ op \in Operations
  /\ DOMAIN src = Source /\ \A s \in Source : src[s] \in Shape[s] \cup {Absent}
  /\ dest.type \in {"absent", "file", "dir"} /\ tmp.type \in {"absent", "dir"}
  /\ pc \in {"idle", "gathered", "copying", "install", "cleanup"}
  /\ files \in Seq(Source) /\ k \in 1 .. Len(op.sources) + 1
  /\ result \in {"none", "ok", "error", "crash"}
  /\ DOMAIN read \subseteq Source
  /\ {aside, faulted, recovered} \subseteq BOOLEAN
  /\ runs \in 0 .. MaxRuns

(* The whole tree that atomic-copy makes of the sources it read: one       *)
(* source itself, or a directory of several and of nothing else, whatever  *)
(* a directory they replace had (see ManyFills).  With a trailing slash    *)
(* the tree that was replaced stays in the new one, as ".old".             *)
Complete ==
  /\ DOMAIN read = ToSet(files) /\ files # <<>>
  /\ IF Many THEN Without(dest, Old) = Dir(read) ELSE dest = read[files[1]]

(* atomic-copy never shows a part of a copy: at every moment dest is what  *)
(* it was before the run or the complete new tree.  It is only missing     *)
(* between the two renames, and stays so when the process dies there or    *)
(* the old tree cannot be renamed back; any other error leaves it as it    *)
(* was.  (AtomicCopy.Run)                                                  *)
OldOrNew ==
  Atomic => \/ dest = before
            \/ Complete
            \/ dest = Absent /\ (aside \/ result = "crash" \/ ~recovered)

(* atomic-copy never loses a directory it replaces before the new one is   *)
(* in place: wherever the run stops, the old tree is at dest or in a       *)
(* temporary directory.  (AtomicCopy.Run)                                  *)
NothingLost ==
  Atomic /\ IsDir(before)
    => \/ dest = before
       \/ Complete
       \/ \E t \in leaks \cup {tmp} : Entry(t, Old) = before

(* The entries of u, in t. *)
Covers(t, u) == t = u \/ (IsDir(t) /\ IsDir(u) /\ \A n \in DOMAIN u.of : Entry(t, n) = u.of[n])

(* Where a run of copy has put source s. *)
PutAt(s) == IF Many \/ dest.type # read[s].type THEN Entry(dest, s) ELSE dest

(* The entries dest had before, but those of a directory copied over it.   *)
OthersKept ==
  IsDir(before) => \A n \in DOMAIN before.of \ Source :
    Entry(dest, n) = before.of[n] \/ (~Many /\ Entry(read[files[1]], n) # Absent)

(* Every source found was read, and is at dest as it was read. *)
InPlace ==
  /\ DOMAIN read = ToSet(files) /\ files # <<>>
  /\ IF Many THEN \A s \in ToSet(files) : Entry(dest, s) = read[s] ELSE dest = read[files[1]]

(* A run that succeeds has done its work, whatever earlier runs left       *)
(* behind: atomic-copy has put its only source in the place of dest, or    *)
(* each of several exactly as it was read into it; copy wrote every source *)
(* and left the other entries of dest alone.  (Copy.Run, AtomicCopy.Run)   *)
Succeeded ==
  result = "ok" => IF Atomic THEN InPlace
                   ELSE OthersKept /\ \A s \in ToSet(files) : Covers(PutAt(s), read[s])

-----------------------------------------------------------------------------
(* What the documentation says and the code does not do *)

(* atomic-copy of several sources into a directory that is there fills it, *)
(* and the entries that are no sources stay.  (atomic_copy.go:76: "If the  *)
(* directory exists, cp -r will copy all sources into dest", :87: "atomic  *)
(* copy is the same in this case"; to replace it is said of a single       *)
(* source, :71)                                                            *)
ManyFills ==
  Atomic /\ Many /\ IsDir(before) /\ result = "ok"
    => \A n \in DOMAIN before.of \ Source : Entry(dest, n) = before.of[n]
=============================================================================
