------------------------------ MODULE Manifest ------------------------------
(***************************************************************************)
(* Reading and writing manifests (manifest/): a process loads a manifest   *)
(* from a directory or from an archive, and saves it as an archive or as a *)
(* directory.  Writing can fail, and the process can die, at every step.   *)
(*                                                                         *)
(* A path is a sequence of names and a tree a function from the paths of   *)
(* its files to their data; a directory that holds no file is not loaded.  *)
(* What is read from an archive is not all that was written to it: the     *)
(* names are normalized and the data can lose their first or last bytes.   *)
(*                                                                         *)
(* A manifest holds plans, which are manifests and hold plans again.  One  *)
(* of them is named by the way to it, the sequence of the directories of   *)
(* the plans gone through, <<>> for the manifest itself; what is in memory *)
(* is a function from the ways to the script and the files found there.    *)
(***************************************************************************)
EXTENDS Naturals, FiniteSets, Sequences, SequencesExt

CONSTANTS Part,     \* file names
          Rank,     \* their order; it gives that of the paths as strings unless
                    \* a name is another one and more, from a character below "/"
          Up,       \* "..", which is no file name
          Split,    \* the parts of a name between its backslashes, without
                    \* empty ones and "."; <<x>> when x has no backslash
          Dotted, Drives,  \* the names that begin with "..", and those like "c:"
          Kinds,    \* "files", "templates", "vars" and "secrets"
          KindTurn, \* the order they are written to an archive in, this one
          MainFile, PlanFile, PlansDir,   \* "polyester.sh", "plan.sh", "plans"
          Data,     \* contents
          AsRead,   \* those without a UTF-8 byte order mark in front and
                    \* without what comes after 256 MiB
          Trees,    \* the manifest directories considered
          Nil       \* no manifest

(* No file is below a file. *)
IsTree(t) ==
  /\ t \in [DOMAIN t -> Data]
  /\ DOMAIN t \subseteq Seq(Part) /\ <<>> \notin DOMAIN t
  /\ IsFiniteSet(DOMAIN t)
  /\ \A p, q \in DOMAIN t : ~IsStrictPrefix(p, q)

ASSUME ManifestAssumption ==
  /\ Kinds \cup {MainFile, PlanFile, PlansDir} \subseteq Part
  /\ KindTurn \in [Kinds -> Nat \ {0}] /\ \A x, y \in Kinds : KindTurn[x] = KindTurn[y] => x = y
  /\ PlansDir \notin Kinds /\ MainFile # PlanFile
  /\ {MainFile, PlanFile} \cap (Kinds \cup {PlansDir}) = {}
  /\ Rank \in [Part -> Nat] /\ \A x, y \in Part : Rank[x] = Rank[y] => x = y
  /\ \A t \in Trees : IsTree(t)
  /\ Up \notin Part /\ Split \in [Part -> Seq(Part \cup {Up})]
  /\ \A x \in Kinds \cup {MainFile, PlanFile, PlansDir} :
       Split[x] = <<x>> /\ x \notin Dotted \cup Drives
  /\ AsRead \in [Data -> Data]

Below(t, dir) ==                                     \* fs.Sub
  {SubSeq(p, Len(dir) + 1, Len(p)) : p \in {p \in DOMAIN t : IsPrefix(dir, p)}}

Ancestors(p) == {SubSeq(p, 1, i) : i \in 0 .. Len(p) - 1}

-----------------------------------------------------------------------------
(* loadFS: the plans are all directories under plans/ that hold a plan.sh, *)
(* at any depth and so those of the plans too, and each is loaded as a     *)
(* manifest of its own.                                                    *)

PlanDirs(t) ==
  {Front(f) : f \in {f \in DOMAIN t : Head(f) = PlansDir /\ Last(f) = PlanFile}}

Ways(t) ==
  {c \in SeqOf(PlanDirs(t), Cardinality(PlanDirs(t))) :
     \A i \in DOMAIN c :
       IsPrefix(Append(IF i = 1 THEN <<>> ELSE c[i - 1], PlansDir), c[i])}

Dir(c) == IF c = <<>> THEN <<>> ELSE Last(c)

MainOf(c) == IF c = <<>> THEN MainFile ELSE PlanFile

(* What is found there: the script and the files of every kind. *)
Own(t, c) ==
  [q \in {q \in Below(t, Dir(c)) : q = <<MainOf(c)>> \/ (q # <<>> /\ Head(q) \in Kinds)}
     |-> t[Dir(c) \o q]]

(* The errors: no script, a file where the directory of a kind should be,  *)
(* a directory by the name of a plan's script.                             *)
Loadable(t) ==
  /\ <<MainFile>> \in DOMAIN t
  /\ \A c \in Ways(t) : \A k \in Kinds \cup {PlansDir} : Append(Dir(c), k) \notin DOMAIN t
  /\ \A f \in DOMAIN t : Head(f) = PlansDir => \A i \in 2 .. Len(f) - 1 : f[i] # PlanFile

Load(t) == IF Loadable(t) THEN [c \in Ways(t) |-> Own(t, c)] ELSE Nil

-----------------------------------------------------------------------------
Lexicographic(p, q, less(_, _)) ==
  \/ IsStrictPrefix(p, q)
  \/ \E i \in DOMAIN p \cap DOMAIN q :
       less(p[i], q[i]) /\ SubSeq(p, 1, i - 1) = SubSeq(q, 1, i - 1)

Precedes(p, q) == Lexicographic(p, q, LAMBDA x, y : Rank[x] < Rank[y])

(* What there is to write: the path "at" of the manifest at "way". *)
Writes(m) == UNION {{[way |-> c, at |-> q] : q \in DOMAIN m[c]} : c \in DOMAIN m}

TurnOf(q) == IF Len(q) = 1 THEN 0 ELSE KindTurn[Head(q)]

(* writeTar: a manifest, its script first and then its files, kind by kind *)
(* and by their names, and then its plans by theirs.                       *)
Before(w, v) ==
  \/ Lexicographic(w.way, v.way, Precedes)
  \/ /\ w.way = v.way
     /\ \/ TurnOf(w.at) < TurnOf(v.at)
        \/ TurnOf(w.at) = TurnOf(v.at) /\ Precedes(w.at, v.at)

(* The plans of a plan are written below plans/ of the archive, not below  *)
(* their plan.                                                             *)
Base(c) ==
  IF c = <<>> THEN <<>> ELSE SubSeq(Dir(c), Len(Dir(Front(c))) + 1, Len(Dir(c)))

EntryTop(m, w) ==                       \* defect: the base is lost for files
  [name |-> IF Len(w.at) = 1 THEN Base(w.way) \o w.at ELSE w.at, data |-> m[w.way][w.at]]

EntryOf(m, w) == [name |-> Base(w.way) \o w.at, data |-> m[w.way][w.at]]

(* LoadArchive turns a backslash into "/" and cleans the path.             *)
Step(p, x) ==
  IF x # Up THEN Append(p, x) ELSE IF p = <<>> \/ Last(p) = Up THEN Append(p, Up) ELSE Front(p)

Cleaned(p) == FoldLeft(LAMBDA q, x : FoldLeft(Step, q, Split[x]), <<>>, p)

Unsplit(p) == \A i \in DOMAIN p : Split[p[i]] = <<p[i]>>

NameRead(p) == IF Unsplit(p) THEN p ELSE Cleaned(p)

(* The paths it takes: none outside of the archive, and none on a drive.   *)
Legal(p) ==
  p # <<>> /\ Head(p) \notin Dotted \cup {Up} /\ (Len(p) > 1 => Head(p) \notin Drives)

EntriesRead(es) ==
  [i \in DOMAIN es |-> [name |-> NameRead(es[i].name), data |-> AsRead[es[i].data]]]

(* A tarFS holds the entries in their order, and lookup stops at the first *)
(* of a name.                                                              *)
TarFS(es) ==
  [p \in {e.name : e \in ToSet(es)} |->
     es[CHOOSE i \in DOMAIN es : es[i].name = p /\ \A j \in 1 .. i - 1 : es[j].name # p].data]

LoadArchive(es) ==
  IF \A i \in DOMAIN es : Legal(NameRead(es[i].name)) THEN Load(TarFS(EntriesRead(es))) ELSE Nil

-----------------------------------------------------------------------------
VARIABLES
  man,       \* the manifest in memory
  pc,        \* "idle", "saving" or "extracting"
  archive,   \* the file: what was written to it, and is that all, flushed?
  left,      \* Save: what is to be written
  dest,      \* SaveDir's directory: its directories and its files
  todo,      \* SaveDir: what is to be done
  \* History: no guard reads it.
  kept,      \* the manifest of the last Save
  outcome,   \* how the last SaveDir ended
  existed,   \* was dest there when it started?
  troubled   \* did a write of it fail?

saving     == <<archive, left>>
extracting == <<dest, todo>>
history    == <<kept, outcome, existed, troubled>>
vars       == <<man, pc, saving, extracting, history>>

NoArchive == [there |-> FALSE, whole |-> FALSE, entries |-> <<>>]
NoDest    == [dirs |-> {}, files |-> [p \in {} |-> Nil]]

Init ==
  /\ man = Nil /\ pc = "idle"
  /\ archive = NoArchive /\ left = {}
  /\ dest = NoDest /\ todo = {}
  /\ kept = Nil /\ outcome = "none" /\ existed = FALSE /\ troubled = FALSE

(* The outcome of an error is to keep no manifest. *)
LoadDir(t) ==
  /\ pc = "idle"
  /\ man' = Load(t) /\ outcome' = "none"
  /\ UNCHANGED <<pc, saving, extracting, kept, existed, troubled>>

(* LoadFile: an archive that was cut short ends in an error of gzip or     *)
(* tar.  One where a file and a directory share a name is left out.        *)
LoadFile ==
  /\ pc = "idle" /\ archive.there
  /\ \/ ~archive.whole /\ man' = Nil
     \/ /\ archive.whole /\ man' = LoadArchive(archive.entries)
        /\ man' # Nil => IsTree(TarFS(EntriesRead(archive.entries)))
  /\ outcome' = "none"
  /\ UNCHANGED <<pc, saving, extracting, kept, existed, troubled>>

-----------------------------------------------------------------------------
(* Save.  os.Create empties an archive that is there. *)
Create ==
  /\ pc = "idle" /\ man # Nil
  /\ pc' = "saving"
  /\ archive' = [there |-> TRUE, whole |-> FALSE, entries |-> <<>>]
  /\ left' = Writes(man) /\ kept' = man
  /\ UNCHANGED <<man, extracting, outcome, existed, troubled>>

WriteToTar ==
  /\ pc = "saving"
  /\ \E w \in left :
       /\ \A v \in left \ {w} : Before(w, v)
       /\ \/ /\ archive' = [there |-> TRUE, whole |-> FALSE,
                            entries |-> Append(archive.entries, EntryOf(kept, w))]
             /\ left' = left \ {w} /\ UNCHANGED pc
          \/ /\ archive' = NoArchive         \* an error: rollback
             /\ left' = {} /\ pc' = "idle"
  /\ UNCHANGED <<man, extracting, history>>

CloseEmpty ==                           \* defect: nothing was written, it is whole
  /\ pc = "saving"
  /\ archive' = [archive EXCEPT !.whole = TRUE]
  /\ pc' = "idle" /\ left' = {}
  /\ UNCHANGED <<man, extracting, history>>

(* The deferred calls of Close flush; their errors are not looked at, and  *)
(* what did not reach the disk is missing from an archive that Save        *)
(* returned without an error.                                              *)
Close ==
  /\ pc = "saving" /\ left = {}
  /\ \E whole \in BOOLEAN : archive' = [there |-> TRUE, whole |-> whole, entries |-> archive.entries]
  /\ pc' = "idle"
  /\ UNCHANGED <<man, left, extracting, history>>

-----------------------------------------------------------------------------
(* SaveDir.  What is to be done is an item: <<>> at a way is the call of   *)
(* SaveDir, <<PlansDir>> the directory of its plans, and else one file.    *)

Item(c, q) == [way |-> c, at |-> q]

IsFile(i) == i.at # <<>> /\ i.at # <<PlansDir>>

Calls(m, c) == {d \in DOMAIN m \ {<<>>} : Front(d) = c}

Items(m, c) ==
  {Item(c, q) : q \in DOMAIN m[c]} \cup {Item(d, <<>>) : d \in Calls(m, c)}
    \cup (IF Calls(m, c) = {} THEN {} ELSE {Item(c, <<PlansDir>>)})

TargetAsMain(i) ==                      \* defect: of plans too
  Dir(i.way) \o (IF i.at = <<PlanFile>> THEN <<MainFile>> ELSE i.at)

Target(i) == Dir(i.way) \o i.at

(* The innermost call goes on: its script, its files, which are in a map,  *)
(* the directory of its plans, and the plans, in a map too.                *)
Caller(i) == IF i.at = <<>> /\ i.way # <<>> THEN Front(i.way) ELSE i.way

Stage(i) == IF i.at = <<MainOf(i.way)>> THEN 1
            ELSE IF IsFile(i) THEN 2 ELSE IF i.at = <<PlansDir>> THEN 3 ELSE 4

Turn(i) == \A j \in todo : \/ Len(Caller(j)) < Len(Caller(i))
                           \/ Len(Caller(j)) = Len(Caller(i)) /\ Stage(i) <= Stage(j)

SaveDir ==
  /\ pc = "idle" /\ man # Nil
  /\ pc' = "extracting" /\ todo' = {Item(<<>>, <<>>)}
  /\ outcome' = "none" /\ existed' = (dest.dirs # {}) /\ troubled' = FALSE
  /\ UNCHANGED <<man, saving, dest, kept>>

(* SaveDir refuses a directory that is there, an empty one too:            *)
(* filepath.Walk calls back for the directory itself.                      *)
ExistsAsFile(p) == p \in DOMAIN dest.files      \* defect: a directory that is there will do

Exists(p) == p \in dest.dirs \cup DOMAIN dest.files

MkdirsAll(p) == TRUE                  \* defect: os.MkdirAll

Mkdirs(p) == p = <<>> \/ Front(p) \in dest.dirs     \* os.Mkdir: the parent is there

MakeDir ==
  /\ pc = "extracting"
  /\ \E i \in todo :
       /\ Turn(i) /\ ~IsFile(i) /\ ~Exists(Target(i)) /\ Mkdirs(Target(i))
       /\ dest' = [dirs |-> dest.dirs \cup {Target(i)}, files |-> dest.files]
       /\ todo' = (todo \ {i}) \cup (IF i.at = <<>> THEN Items(man, i.way) ELSE {})
  /\ UNCHANGED <<man, pc, saving, history>>

With(p, data) == [q \in DOMAIN dest.files \cup {p} |-> IF q = p THEN data ELSE dest.files[q]]

(* os.MkdirAll and os.WriteFile. *)
WriteFile ==
  /\ pc = "extracting"
  /\ \E i \in todo :
       /\ Turn(i) /\ IsFile(i)
       /\ dest' = [dirs  |-> dest.dirs \cup Ancestors(Target(i)),
                   files |-> With(Target(i), man[i.way][i.at])]
       /\ todo' = todo \ {i}
  /\ UNCHANGED <<man, pc, saving, history>>

GiveUp == pc' = "idle" /\ todo' = {} /\ outcome' = "failed"

Refused ==
  /\ pc = "extracting"
  /\ \E i \in todo : Turn(i) /\ ~IsFile(i) /\ (Exists(Target(i)) \/ ~Mkdirs(Target(i)))
  /\ GiveUp
  /\ UNCHANGED <<man, saving, dest, kept, existed, troubled>>

(* The system's error; a write may be cut. *)
Trouble ==
  /\ pc = "extracting" /\ troubled' = TRUE
  /\ \E i \in todo :
       /\ Turn(i)
       /\ \/ UNCHANGED dest
          \/ /\ IsFile(i)
             /\ \E files \in {dest.files} \cup {With(Target(i), d) : d \in Data} :
                  dest' = [dirs |-> dest.dirs \cup Ancestors(Target(i)), files |-> files]
  /\ GiveUp
  /\ UNCHANGED <<man, saving, kept, existed>>

Extracted ==
  /\ pc = "extracting" /\ todo = {}
  /\ pc' = "idle" /\ outcome' = "ok"
  /\ UNCHANGED <<man, saving, extracting, kept, existed, troubled>>

-----------------------------------------------------------------------------
(* The process ends, at any point: deferred calls do not run. *)
Die ==
  /\ man # Nil
  /\ man' = Nil /\ pc' = "idle" /\ left' = {} /\ todo' = {}
  /\ outcome' = "none"
  /\ UNCHANGED <<archive, dest, kept, existed, troubled>>

(* The user removes what SaveDir left. *)
Clear ==
  /\ pc = "idle" /\ dest # NoDest
  /\ dest' = NoDest /\ outcome' = "none"
  /\ UNCHANGED <<man, pc, saving, todo, kept, existed, troubled>>

Next == \/ \E t \in Trees : LoadDir(t)
        \/ LoadFile \/ Create \/ WriteToTar \/ Close
        \/ SaveDir \/ MakeDir \/ WriteFile \/ Refused \/ Trouble \/ Extracted
        \/ Die \/ Clear

Spec == Init /\ [][Next]_vars

-----------------------------------------------------------------------------
(* Plans do not hold plans. *)
NoInner(m) == \A c \in DOMAIN m : Len(c) <= 1

(* And every plan is directly below plans/, *)
Flat(m) == NoInner(m) /\ \A c \in DOMAIN m \ {<<>>} : Len(Dir(c)) = 2

(* or directly below one that is.  The directory plans/ itself is none. *)
Chained(m) ==
  /\ NoInner(m)
  /\ \A c \in DOMAIN m \ {<<>>} : Front(Dir(c)) \in {<<PlansDir>>} \cup {Dir(d) : d \in DOMAIN m \ {<<>>}}

(* Types; the archive holds what Save has written, all of it when it is    *)
(* whole, and at dest every file has its directories and is not one.       *)
TypeOK ==
  /\ pc \in {"idle", "saving", "extracting"}
  /\ pc # "idle" => man # Nil
  /\ archive.entries \in Seq([name : Seq(Part), data : Data])
  /\ archive.whole =>
       archive.there /\ ToSet(archive.entries) = {EntryOf(kept, w) : w \in Writes(kept)}
  /\ pc = "saving" =>
       /\ left \subseteq Writes(kept)
       /\ ToSet(archive.entries) = {EntryOf(kept, w) : w \in Writes(kept) \ left}
  /\ pc # "saving" => left = {}
  /\ pc # "extracting" => todo = {}
  /\ dest.files \in [DOMAIN dest.files -> Data] /\ <<>> \notin DOMAIN dest.files
  /\ DOMAIN dest.files \cup dest.dirs \subseteq Seq(Part)
  /\ \A p \in DOMAIN dest.files \cup dest.dirs : Ancestors(p) \subseteq dest.dirs
  /\ DOMAIN dest.files \cap dest.dirs = {}
  /\ outcome \in {"none", "ok", "failed"}
  /\ existed \in BOOLEAN /\ troubled \in BOOLEAN

(* The paths of m's files have no backslash. *)
Portable(m) == \A w \in Writes(m) : Unsplit(Dir(w.way) \o w.at)

(* m with all its scripts and files as they are read from an archive. *)
ManifestRead(m) == [c \in DOMAIN m |-> [q \in DOMAIN m[c] |-> AsRead[m[c][q]]]]

(* An archive that is whole loads as the manifest that was saved, script   *)
(* by script and file by file, but for a byte order mark in front of any   *)
(* of them and the end of one above 256 MiB.  This is so as long as no     *)
(* name has a backslash and no plan has plans of its own: those are        *)
(* written to the wrong place as well (see Base).  (Save, LoadArchive)     *)
ReloadsNoInner ==
  archive.whole /\ NoInner(kept) /\ Portable(kept)
    => LoadArchive(archive.entries) = ManifestRead(kept)

(* A directory that SaveDir wrote without an error loads as the manifest   *)
(* it was given.                                                           *)
ExtractsAll == outcome = "ok" => Load(dest.files) = man

(* SaveDir gives up only for the system's errors, over a directory that is *)
(* there, or for plans that are not directly below plans/.  Of these it    *)
(* can save only those directly below another plan, and no plan's plans.   *)
ExtractsFlat ==
  /\ outcome = "failed" => troubled \/ existed \/ ~Flat(man)
  /\ outcome = "ok" => Chained(man) /\ ~existed

(* SaveDir never writes to a file that was there before it started. *)
NoOverwrite ==
  [][pc = "extracting" /\ existed => dest' = dest]_vars
=============================================================================
