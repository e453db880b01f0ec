------------------------------ MODULE Planner -------------------------------
(***************************************************************************)
(* `polyester apply [plan...]`: the manifests its arguments name, one      *)
(* after the other in one process (commands/apply.go), and what an apply   *)
(* does to the state directory of a manifest around the execution of its   *)
(* plans (planner/apply.go, planner/manifest.go): it creates the directory *)
(* and its checksum, and removes the state files of operations that have   *)
(* left the manifest.                                                      *)
(*                                                                         *)
(* Execution is what module PlanSchedule says: a plan begins once its      *)
(* dependencies have run, and plans run concurrently.  Execute can return  *)
(* while plans that are ready have not begun (ExecPool, CompleteOnReturn); *)
(* such a late plan can still run during the prune and during the applies  *)
(* of the arguments that follow, until the process exits.  Of an operation *)
(* only its state file is kept here: whether it is there, and whole.       *)
(***************************************************************************)
EXTENDS Naturals, Sequences

CONSTANTS Dir,        \* the directories that hold a polyester.sh
          Above,      \* the nearest one above each, or the directory itself
          Op,         \* operations, by cache key
          Plan, Main,
          Contents,   \* what can be found in each directory
          KeyOf,      \* manifestKey, as a directory that has the same key
          NoFile, Torn, NoContent,
          Commands,   \* the arguments of the processes considered
          MaxEdits    \* bound: edits of a manifest

(* deps and plans are the edges of a plan, ops its operations in order.    *)
Content == [deps : [Plan -> SUBSET Plan], plans : [Plan -> SUBSET Plan], ops : [Plan -> Seq(Op)]]

(* `file` is "other" for apply <dir>/<file> when that is not polyester.sh. *)
Arg == [root : Dir, file : {"polyester.sh", "other"}]

ASSUME PlannerAssumption ==
  /\ Above \in [Dir -> Dir]
  /\ Main \in Plan
  /\ Contents \in [Dir -> SUBSET Content] /\ NoContent \notin Content
  /\ KeyOf \in [Dir -> Dir]
  /\ NoFile # Torn /\ {NoFile, Torn} \cap Dir = {}
  /\ Commands \subseteq Seq(Arg) \ {<<>>} /\ MaxEdits \in Nat

Manifests == {f \in [Dir -> UNION {Contents[d] : d \in Dir}] : \A d \in Dir : f[d] \in Contents[d]}

VARIABLES
  mani,       \* what each manifest directory holds
  files,      \* the state files: missing, torn, or saved by an apply of a manifest
  created,    \* the state directories that exist, with the file "checksum" that is
              \* written by every apply and never read
  pc, args, dry,      \* the process: where it is, arguments left, opts.Dryrun
  compiled,   \* the plan of this apply
  begun, done,        \* the plans of this apply
  late,       \* plans handed out after Execute returned, not begun
  tasks,      \* workers executing a plan
  walk,       \* files the prune has yet to visit
  \* History: no guard reads it.
  kept,       \* operations with a state, in every manifest applied since
  dropped,    \* operations not in the last manifest that was pruned, not run since
  racing,     \* operations of late plans when the prune began
  left,       \* state files torn by the end of a process
  edits       \* for the bound

apply   == <<compiled, begun, done, late, tasks, walk>>
process == <<pc, args, dry>>
history == <<kept, dropped, racing, left, edits>>
vars    == <<mani, files, created, process, apply, history>>

Run == Len(args)              \* numbers the applies of a process

(* resolvePlanDir and findManifestDir: the nearest parent that is a        *)
(* manifest, or else the directory itself.                                 *)
PlanDir == Above[Head(args).root]

StateDir == KeyOf[PlanDir]

(* The plans a manifest reaches, and gatherOpKeys.                         *)
Reached(c) ==
  {p \in Plan : \A S \in SUBSET Plan :
     Main \in S /\ (\A q \in S : c.deps[q] \cup c.plans[q] \subseteq S) => p \in S}

OpsOf(c, p) == {c.ops[p][k] : k \in DOMAIN c.ops[p]}

OpKeysOfPlans(c) ==           \* defect: does not follow dependencies
  UNION {OpsOf(c, p) : p \in {Main} \cup c.plans[Main]}

OpKeys(c) == UNION {OpsOf(c, p) : p \in Reached(c)}

Init ==
  /\ mani \in Manifests
  /\ files = [d \in Dir |-> [o \in Op |-> NoFile]]
  /\ created = {}
  /\ pc = "idle" /\ args = <<>> /\ dry = FALSE
  /\ compiled = NoContent /\ begun = {} /\ done = {}
  /\ late = {} /\ tasks = {} /\ walk = {}
  /\ kept = [d \in Dir |-> {}] /\ dropped = [d \in Dir |-> {}] /\ racing = {} /\ left = {} /\ edits = 0

-----------------------------------------------------------------------------
(* The process *)

Invoke(as, d) ==
  /\ pc = "idle"
  /\ args' = as /\ dry' = d /\ pc' = "load"
  /\ UNCHANGED <<mani, files, created, apply, history>>

(* Check, LoadDir and Compile: the manifest is read once per apply.        *)
Load ==
  /\ pc = "load"
  /\ compiled' = mani[PlanDir]
  /\ begun' = {} /\ done' = {}
  /\ kept' = [kept EXCEPT ![PlanDir] = @ \cap OpKeys(compiled')]
  /\ pc' = "setup"
  /\ UNCHANGED <<mani, files, created, args, dry, late, tasks, walk,
                 dropped, racing, left, edits>>

(* setupState, in a dry run too.                                           *)
SetupState ==
  /\ pc = "setup"
  /\ created' = created \cup {StateDir}
  /\ pc' = "execute"
  /\ UNCHANGED <<mani, files, args, dry, apply, history>>

(* The process ends, and with it every worker: what was truncated and not  *)
(* written stays that way.                                                 *)
Exit ==
  /\ pc' = "idle" /\ args' = <<>> /\ dry' = FALSE
  /\ compiled' = NoContent /\ begun' = {} /\ done' = {}
  /\ late' = {} /\ tasks' = {} /\ walk' = {} /\ racing' = {}
  /\ left' = left \cup {<<t.key, t.ops[t.i]>> : t \in {u \in tasks : u.phase = "save"}}
  /\ UNCHANGED <<mani, files, created, kept, dropped, edits>>

Ready == {p \in Reached(compiled) \ begun : compiled.deps[p] \subseteq done}

(* The operations of the late plans of a manifest. *)
LateOps(d) == UNION {{t.ops[k] : k \in DOMAIN t.ops} : t \in {u \in tasks \cup late : u.dir = d}}

ListingWhole == {o \in Op : files[StateDir][o] \in Dir}      \* defect: skips torn files

Listing == {o \in Op : files[StateDir][o] # NoFile}

(* Execute returns when no plan is in flight, with the ones that are ready *)
(* still on their way to a worker.  The prune lists the directory first.   *)
Return ==
  /\ pc = "execute"
  /\ begun # {} /\ \A t \in tasks : t.run # Run
  /\ late' = late \cup {[run |-> Run, plan |-> p, dir |-> PlanDir, ops |-> compiled.ops[p]] : p \in Ready}
  /\ walk' = IF Head(args).file = "other" THEN {} ELSE Listing
  /\ racing' = LateOps(PlanDir)
  /\ pc' = "prune"
  /\ UNCHANGED <<mani, files, created, args, dry, compiled, begun, done, tasks,
                 kept, dropped, left, edits>>

(* pruneState visits a file, in a dry run too. *)
Prune(o) ==
  /\ pc = "prune"
  /\ o \in walk /\ walk' = walk \ {o}
  /\ files' = IF o \in OpKeys(compiled) THEN files ELSE [files EXCEPT ![StateDir][o] = NoFile]
  /\ UNCHANGED <<mani, created, process, compiled, begun, done, late, tasks, history>>

(* Apply returns. *)
Pruned ==
  /\ pc = "prune" /\ walk = {}
  /\ pc' = "next"
  /\ dropped' = [dropped EXCEPT ![PlanDir] =
                   IF Head(args).file = "other" THEN @
                   ELSE @ \cup (Op \ (OpKeys(compiled) \cup racing))]
  /\ UNCHANGED <<mani, files, created, args, dry, apply, kept, racing, left, edits>>

NextArg ==
  /\ pc = "next"
  /\ IF Run = 1
       THEN Exit
       ELSE /\ args' = Tail(args) /\ pc' = "load"
            /\ UNCHANGED <<mani, files, created, dry, apply, history>>

(* An error, of Execute or of any other call, or the death of the process. *)
Fail == pc # "idle" /\ Exit

-----------------------------------------------------------------------------
(* Workers: executePlan, for the state files it reads and writes *)

Task(r, d, p, os) ==
  [run |-> r, dir |-> d, key |-> KeyOf[d], plan |-> p, ops |-> os,
   phase |-> "read", i |-> 1, had |-> {}]

Begin(p) ==
  /\ pc = "execute" /\ p \in Ready
  /\ begun' = begun \cup {p}
  /\ tasks' = tasks \cup {Task(Run, PlanDir, p, compiled.ops[p])}
  /\ UNCHANGED <<mani, files, created, process, compiled, done, late, walk, history>>

BeginLate(l) ==
  /\ l \in late /\ late' = late \ {l}
  /\ tasks' = tasks \cup {Task(l.run, l.dir, l.plan, l.ops)}
  /\ UNCHANGED <<mani, files, created, process, compiled, begun, done, walk, history>>

Becomes(t, u) == tasks' = (tasks \ {t}) \cup {u}

StepOn(t) == [t EXCEPT !.phase = "exec", !.i = @ + 1]       \* defect: past the last operation

Step(t) == IF t.i = Len(t.ops) THEN [t EXCEPT !.phase = "end"]
                               ELSE [t EXCEPT !.phase = "exec", !.i = @ + 1]

(* readOpStates: a file that is torn fails the plan, which is a Fail. *)
ReadState(t) ==
  /\ t \in tasks /\ t.phase = "read" /\ t.ops # <<>>
  /\ files[t.key][t.ops[t.i]] # Torn
  /\ LET h == IF files[t.key][t.ops[t.i]] = NoFile THEN t.had ELSE t.had \cup {t.ops[t.i]} IN
     Becomes(t, IF t.i = Len(t.ops) THEN [t EXCEPT !.phase = "exec", !.i = 1, !.had = h]
                                    ELSE [t EXCEPT !.i = @ + 1, !.had = h])
  /\ UNCHANGED <<mani, files, created, process, compiled, begun, done, late, walk, history>>

(* The operation is clean, or this is a dry run. *)
Skip(t) ==
  /\ t \in tasks /\ t.phase = "exec"
  /\ t.ops[t.i] \in t.had \/ dry
  /\ Becomes(t, Step(t))
  /\ UNCHANGED <<mani, files, created, process, compiled, begun, done, late, walk, history>>

(* The operation runs, and os.Create truncates its state file... *)
Execute(t) ==
  /\ t \in tasks /\ t.phase = "exec" /\ ~dry
  /\ files' = [files EXCEPT ![t.key][t.ops[t.i]] = Torn]
  /\ Becomes(t, [t EXCEPT !.phase = "save"])
  /\ dropped' = [dropped EXCEPT ![t.dir] = @ \ {t.ops[t.i]}]
  /\ UNCHANGED <<mani, created, process, compiled, begun, done, late, walk, kept, racing, left, edits>>

SaveUnflushed(t) ==           \* defect: the buffered JSON never reaches the file
  /\ t \in tasks /\ t.phase = "save"
  /\ Becomes(t, Step(t))
  /\ UNCHANGED <<mani, files, created, process, compiled, begun, done, late, walk, history>>

(* ...which is written, unless it was pruned in the meantime. *)
SaveState(t) ==
  /\ t \in tasks /\ t.phase = "save"
  /\ files' = [files EXCEPT ![t.key][t.ops[t.i]] = IF @ = NoFile THEN @ ELSE t.dir]
  /\ Becomes(t, Step(t))
  /\ kept' = [kept EXCEPT ![t.dir] = IF t.run = Run THEN @ \cup {t.ops[t.i]} ELSE @]
  /\ left' = left \ {<<t.key, t.ops[t.i]>>}
  /\ UNCHANGED <<mani, created, process, compiled, begun, done, late, walk, dropped, racing, edits>>

(* A plan without operations of its own ends at once, and never counts as  *)
(* done (finishPlan).                                                      *)
End(t) ==
  /\ t \in tasks /\ (t.phase = "end" \/ t.ops = <<>>)
  /\ tasks' = tasks \ {t}
  /\ done' = IF t.run = Run /\ pc = "execute" /\ t.ops # <<>> THEN done \cup {t.plan} ELSE done
  /\ UNCHANGED <<mani, files, created, process, compiled, begun, late, walk, history>>

-----------------------------------------------------------------------------
(* The manifest is edited at any time, also between two arguments. *)
Edit(d, c) ==
  /\ edits < MaxEdits /\ edits' = edits + 1
  /\ mani[d] # c
  /\ mani' = [mani EXCEPT ![d] = c]
  /\ UNCHANGED <<files, created, process, apply, kept, dropped, racing, left>>

Next == \/ \E as \in Commands, d \in BOOLEAN : Invoke(as, d)
        \/ Load \/ SetupState \/ Return
        \/ \E o \in Op : Prune(o)
        \/ Pruned \/ NextArg \/ Fail
        \/ \E p \in Plan : Begin(p)
        \/ \E l \in late : BeginLate(l)
        \/ \E t \in tasks : ReadState(t) \/ Skip(t) \/ Execute(t) \/ SaveState(t) \/ End(t)
        \/ \E d \in Dir : \E c \in Contents[d] : Edit(d, c)

Spec == Init /\ [][Next]_vars

-----------------------------------------------------------------------------
(* Properties *)

(* Every variable has its type.  (Planner.Apply)                           *)
TypeOK ==
  /\ mani \in Manifests
  /\ files \in [Dir -> [Op -> Dir \cup {NoFile, Torn}]]
  /\ created \subseteq Dir
  /\ pc \in {"idle", "load", "setup", "execute", "prune", "next"}
  /\ args \in Seq(Arg) /\ (pc = "idle" <=> args = <<>>)
  /\ compiled = NoContent \/ \E d \in Dir : compiled \in Contents[d]
  /\ done \subseteq begun /\ begun \subseteq Plan /\ walk \subseteq Op
  /\ \A t \in tasks : t.ops # <<>> => t.i \in DOMAIN t.ops

(* Does another manifest have the same state directory?                    *)
Alone(d) == \A e \in Dir \ {d} : KeyOf[e] # KeyOf[d]

(* An operation that an apply of a manifest recorded, and that has been in *)
(* the manifest in every apply since, keeps its state: no prune takes it,  *)
(* whichever plans hold it, whatever the other arguments are, and with     *)
(* late plans of earlier applies still running.  Unless two manifests      *)
(* share a state directory: they prune each other's.  (pruneState,         *)
(* gatherOpKeys, manifestKey)                                              *)
StateKept ==
  \A d \in Dir : Alone(d) => \A o \in kept[d] : files[KeyOf[d]][o] # NoFile

(* An operation that has left the manifest loses its state with the next   *)
(* apply that succeeds and does not get it back, so that it is executed    *)
(* when it returns - except by a late plan that still runs it.             *)
(* (pruneState)                                                            *)
StateDropped ==
  \A d \in Dir : Alone(d) => \A o \in dropped[d] : files[KeyOf[d]][o] = NoFile

(* A plan finds a torn state file only when a process ended while writing  *)
(* it, or while another worker writes it: one of two plans of the manifest *)
(* that hold the operation, or a late plan.  (readOpStates,                *)
(* State.WriteFile)                                                        *)
NoTornRead ==
  \A t \in tasks :
    t.phase = "read" /\ t.ops # <<>> /\ files[t.key][t.ops[t.i]] = Torn
    => \/ <<t.key, t.ops[t.i]>> \in left
       \/ \E u \in tasks : u.phase = "save" /\ u.key = t.key /\ u.ops[u.i] = t.ops[t.i]
=============================================================================
