--------------------------- MODULE PlannerProofs ----------------------------
(***************************************************************************)
(* Theorems about Planner for every set of manifests, plans and            *)
(* operations, every assignment of state directories, every sequence of    *)
(* arguments and any number of edits.                                      *)
(***************************************************************************)
EXTENDS Planner, TLAPS

-----------------------------------------------------------------------------
(* Types.  TypeOK says of a task only where it is in its operations.       *)

Tasks == [run : Nat, dir : Dir, key : Dir, plan : Plan, ops : Seq(Op),
          phase : {"read", "exec", "save", "end"}, i : Nat, had : SUBSET Op]

Lates == [run : Nat, plan : Plan, dir : Dir, ops : Seq(Op)]

Applying == pc \in {"setup", "execute", "prune", "next"}

TaskOK(t) == /\ t \in Tasks
             /\ t.key = KeyOf[t.dir]
             /\ t.ops # <<>> => t.i \in DOMAIN t.ops
             /\ t.phase # "read" => t.ops # <<>>

Typed ==
  /\ TypeOK
  /\ \A t \in tasks : TaskOK(t)
  /\ late \subseteq Lates
  /\ kept \in [Dir -> SUBSET Op] /\ dropped \in [Dir -> SUBSET Op]
  /\ Applying => compiled \in Content
  /\ edits \in Nat

LEMMA SomeManifest ==
  ASSUME Typed, NEW d \in Dir
  PROVE  mani[d] \in Contents[d] /\ mani[d] \in Content
BY PlannerAssumption DEF Typed, TypeOK, Manifests

LEMMA HereType ==
  ASSUME TypeOK, pc # "idle"
  PROVE  Head(args) \in Arg /\ PlanDir \in Dir /\ StateDir \in Dir /\ Run \in Nat /\ Run # 0
<1>1. args \in Seq(Arg) /\ args # <<>>
  BY DEF TypeOK
<1>2. Head(args) \in Arg
  BY <1>1
<1> QED BY <1>1, <1>2, PlannerAssumption DEF Arg, PlanDir, StateDir, Run

LEMMA TaskOp ==
  ASSUME NEW t, TaskOK(t), t.ops # <<>>
  PROVE  t.ops[t.i] \in Op /\ t.key \in Dir /\ t.dir \in Dir
BY DEF TaskOK, Tasks

LEMMA StepType ==
  ASSUME NEW t, TaskOK(t), t.ops # <<>>
  PROVE  /\ TaskOK(Step(t))
         /\ Step(t).dir = t.dir /\ Step(t).key = t.key /\ Step(t).ops = t.ops
         /\ Step(t).run = t.run /\ Step(t).plan = t.plan /\ Step(t).phase \in {"exec", "end"}
<1>1. t \in Tasks /\ t.i \in DOMAIN t.ops /\ t.ops \in Seq(Op) /\ t.i \in Nat
  BY DEF TaskOK, Tasks
<1>2. CASE t.i = Len(t.ops)
  BY <1>1, <1>2 DEF Step, TaskOK, Tasks
<1>3. CASE t.i # Len(t.ops)
  <2>1. t.i + 1 \in DOMAIN t.ops /\ t.i + 1 \in Nat
    BY <1>1, <1>3
  <2>2. Step(t) = [t EXCEPT !.phase = "exec", !.i = t.i + 1]
    BY <1>1, <1>3 DEF Step, Tasks
  <2> QED BY <1>1, <2>1, <2>2 DEF TaskOK, Tasks
<1> QED BY <1>2, <1>3

LEMMA NewTask ==
  ASSUME NEW r \in Nat, NEW d \in Dir, NEW p \in Plan, NEW os \in Seq(Op)
  PROVE  TaskOK(Task(r, d, p, os))
<1>1. KeyOf[d] \in Dir
  BY PlannerAssumption
<1>2. os # <<>> => 1 \in DOMAIN os
  OBVIOUS
<1> QED BY <1>1, <1>2 DEF Task, TaskOK, Tasks

LEMMA LongTail ==
  ASSUME NEW S, NEW s \in Seq(S), Len(s) \in Nat \ {0}, Len(s) # 1
  PROVE  Tail(s) \in Seq(S) /\ Tail(s) # <<>>
<1>1. s # <<>>
  OBVIOUS
<1>2. Tail(s) \in Seq(S) /\ Len(Tail(s)) = Len(s) - 1
  BY <1>1
<1>3. 1 \in DOMAIN Tail(s)
  BY <1>2
<1>4. DOMAIN <<>> = {}
  OBVIOUS
<1> QED BY <1>2, <1>3, <1>4

LEMMA ExitTyped ==
  ASSUME Typed, Exit
  PROVE  Typed'
<1>1. args' \in Seq(Arg) /\ args' = <<>> /\ pc' = "idle"
  BY DEF Exit
<1>2. /\ tasks' = {} /\ late' = {} /\ walk' = {} /\ begun' = {} /\ done' = {}
      /\ compiled' = NoContent
  BY DEF Exit
<1>3. UNCHANGED <<mani, files, created, kept, dropped, edits>>
  BY DEF Exit
<1>4. TypeOK'
  BY <1>1, <1>2, <1>3 DEF Typed, TypeOK
<1> QED BY <1>1, <1>2, <1>3, <1>4 DEF Typed, TaskOK, Applying

(***************************************************************************)
(* Whose plans are running.  The applies of a process are numbered by the  *)
(* arguments left; the plans of earlier ones have higher numbers, those of *)
(* this one come from the manifest that was compiled, and are late once    *)
(* Execute has returned.                                                   *)
(***************************************************************************)
Jobs == tasks \cup late

Turn ==
  /\ pc = "idle" => Jobs = {}
  /\ \A t \in Jobs : Run <= t.run
  /\ pc \in {"load", "setup"} => \A t \in Jobs : t.run # Run
  /\ pc = "execute" => /\ \A l \in late : l.run # Run
                      /\ \A t \in tasks : t.run = Run => t.plan \in begun
  /\ Applying => \A t \in Jobs : t.run = Run =>
       t.dir = PlanDir /\ \A k \in DOMAIN t.ops : t.ops[k] \in OpKeys(compiled)

-----------------------------------------------------------------------------
LEMMA ProcessTyped ==
  ASSUME Typed,
         \/ \E as \in Commands, d \in BOOLEAN : Invoke(as, d)
         \/ Load \/ SetupState \/ Pruned \/ NextArg \/ Fail
  PROVE  Typed'
<1> USE DEF apply, history, process
<1>1. ASSUME NEW as \in Commands, NEW d \in BOOLEAN, Invoke(as, d)
      PROVE  Typed'
  <2>1. as \in Seq(Arg) /\ as # <<>>
    BY PlannerAssumption
  <2> QED BY <1>1, <2>1 DEF Invoke, Typed, TypeOK, Applying
<1>2. CASE Load
  <2>1. PlanDir \in Dir
    BY <1>2, HereType DEF Load, Typed
  <2>2. mani[PlanDir] \in Content /\ mani[PlanDir] \in Contents[PlanDir]
    BY <2>1, SomeManifest
  <2>3. kept' \in [Dir -> SUBSET Op]
    BY <1>2, <2>1 DEF Load, Typed
  <2>4. (\E d \in Dir : compiled' \in Contents[d]) /\ compiled' \in Content
    BY <1>2, <2>1, <2>2 DEF Load
  <2> QED BY <1>2, <2>3, <2>4 DEF Load, Typed, TypeOK, Applying
<1>3. CASE SetupState
  <2>1. StateDir \in Dir
    BY <1>3, HereType DEF SetupState, Typed
  <2> QED BY <1>3, <2>1 DEF SetupState, Typed, TypeOK, Applying
<1>4. CASE Pruned
  <2>1. PlanDir \in Dir
    BY <1>4, HereType DEF Pruned, Typed
  <2>2. dropped' \in [Dir -> SUBSET Op]
    BY <1>4, <2>1 DEF Pruned, Typed
  <2> QED BY <1>4, <2>2 DEF Pruned, Typed, TypeOK, Applying
<1>5. CASE NextArg
  <2>1. CASE Exit
    BY <2>1, ExitTyped
  <2>2. CASE Run # 1 /\ args' = Tail(args) /\ pc' = "load"
             /\ UNCHANGED <<mani, files, created, dry, apply, history>>
    <3>1. args \in Seq(Arg) /\ args # <<>>
      BY <1>5 DEF NextArg, Typed, TypeOK
    <3>2. Tail(args) \in Seq(Arg) /\ Tail(args) # <<>>
      <4>1. Len(args) # 1 /\ Len(args) \in Nat \ {0}
        BY <2>2, <3>1 DEF Run
      <4> QED BY <3>1, <4>1, LongTail
    <3> QED BY <2>2, <3>2 DEF Typed, TypeOK, Applying
  <2> QED BY <1>5, <2>1, <2>2 DEF NextArg
<1>6. CASE Fail
  BY <1>6, ExitTyped DEF Fail
<1> QED BY <1>1, <1>2, <1>3, <1>4, <1>5, <1>6

LEMMA ReturnTyped ==
  ASSUME Typed, Return
  PROVE  Typed'
<1>1. PlanDir \in Dir /\ Run \in Nat /\ compiled \in Content
  BY HereType DEF Return, Typed, Applying
<1>2. Ready \subseteq Plan /\ \A p \in Plan : compiled.ops[p] \in Seq(Op)
  BY <1>1 DEF Ready, Reached, Content
<1>3. late' \subseteq Lates
  <2>1. \A p \in Ready : [run |-> Run, plan |-> p, dir |-> PlanDir, ops |-> compiled.ops[p]] \in Lates
    BY <1>1, <1>2 DEF Lates
  <2> QED BY <2>1 DEF Return, Typed
<1>4. walk' \subseteq Op
  BY DEF Return, Listing
<1> QED BY <1>3, <1>4 DEF Return, Typed, TypeOK, Applying

LEMMA PruneTyped ==
  ASSUME Typed, NEW o \in Op, Prune(o)
  PROVE  Typed'
<1>1. StateDir \in Dir
  BY HereType DEF Prune, Typed
<1>2. files' \in [Dir -> [Op -> Dir \cup {NoFile, Torn}]]
  BY <1>1 DEF Prune, Typed, TypeOK
<1>3. walk' \subseteq Op
  BY DEF Prune, Typed, TypeOK
<1> QED BY <1>2, <1>3 DEF Prune, Typed, TypeOK, Applying, process, history

LEMMA BeginTyped ==
  ASSUME Typed, NEW p \in Plan, Begin(p)
  PROVE  Typed'
<1>1. PlanDir \in Dir /\ Run \in Nat /\ compiled \in Content
  BY HereType DEF Begin, Typed, Applying
<1>2. TaskOK(Task(Run, PlanDir, p, compiled.ops[p]))
  <2>1. compiled.ops[p] \in Seq(Op)
    BY <1>1 DEF Content
  <2> QED BY <1>1, <2>1, NewTask
<1>3. \A t \in tasks' : TaskOK(t)
  BY <1>2 DEF Begin, Typed
<1> QED BY <1>3 DEF Begin, Typed, TypeOK, TaskOK, Applying, process, history

LEMMA BeginLateTyped ==
  ASSUME Typed, NEW l \in late, BeginLate(l)
  PROVE  Typed'
<1>1. l \in Lates
  BY DEF Typed
<1>2. TaskOK(Task(l.run, l.dir, l.plan, l.ops))
  BY <1>1, NewTask DEF Lates
<1>3. \A t \in tasks' : TaskOK(t)
  BY <1>2 DEF BeginLate, Typed
<1> QED BY <1>3 DEF BeginLate, Typed, TypeOK, TaskOK, Applying, process, history

LEMMA WorkerTyped ==
  ASSUME Typed, Turn, NEW t \in tasks,
         ReadState(t) \/ Skip(t) \/ Execute(t) \/ SaveState(t) \/ End(t)
  PROVE  Typed'
<1> USE DEF process, history
<1>0. TaskOK(t) /\ t \in Tasks
  BY DEF Typed, TaskOK
<1>1. CASE ReadState(t)
  <2> DEFINE h == IF files[t.key][t.ops[t.i]] = NoFile THEN t.had ELSE t.had \cup {t.ops[t.i]}
  <2>1. t.ops[t.i] \in Op /\ h \subseteq Op
    BY <1>0, <1>1, TaskOp DEF ReadState, Tasks
  <2>2. CASE t.i = Len(t.ops)
    <3>1. TaskOK([t EXCEPT !.phase = "exec", !.i = 1, !.had = h])
      <4>1. 1 \in DOMAIN t.ops
        BY <1>0, <1>1 DEF ReadState, Tasks
      <4> QED BY <1>0, <1>1, <2>1, <4>1 DEF TaskOK, Tasks, ReadState
    <3>2. tasks' = (tasks \ {t}) \cup {[t EXCEPT !.phase = "exec", !.i = 1, !.had = h]}
      BY <1>1, <2>2 DEF ReadState, Becomes
    <3>3. \A u \in tasks' : TaskOK(u)
      BY <3>1, <3>2 DEF Typed
    <3> QED BY <1>1, <3>3 DEF ReadState, Typed, TypeOK, TaskOK, Applying
  <2>3. CASE t.i # Len(t.ops)
    <3>1. TaskOK([t EXCEPT !.i = t.i + 1, !.had = h])
      <4>1. t.i + 1 \in DOMAIN t.ops /\ t.i + 1 \in Nat
        BY <1>0, <1>1, <2>3 DEF TaskOK, ReadState, Tasks
      <4> QED BY <1>0, <1>1, <2>1, <4>1 DEF TaskOK, Tasks, ReadState
    <3>2. tasks' = (tasks \ {t}) \cup {[t EXCEPT !.i = t.i + 1, !.had = h]}
      BY <1>0, <1>1, <2>3 DEF ReadState, Becomes, Tasks
    <3>3. \A u \in tasks' : TaskOK(u)
      BY <3>1, <3>2 DEF Typed
    <3> QED BY <1>1, <3>3 DEF ReadState, Typed, TypeOK, TaskOK, Applying
  <2> QED BY <2>2, <2>3
<1>2. CASE Skip(t)
  <2>1. TaskOK(Step(t))
    BY <1>0, <1>2, StepType DEF Skip, TaskOK
  <2>2. \A u \in tasks' : TaskOK(u)
    BY <1>2, <2>1 DEF Skip, Becomes, Typed
  <2> QED BY <1>2, <2>2 DEF Skip, Typed, TypeOK, TaskOK, Applying
<1>3. CASE Execute(t)
  <2>1. t.ops # <<>> /\ t.ops[t.i] \in Op /\ t.key \in Dir /\ t.dir \in Dir
    BY <1>0, <1>3, TaskOp DEF Execute, TaskOK
  <2>2. TaskOK([t EXCEPT !.phase = "save"])
    BY <1>0, <2>1 DEF TaskOK, Tasks
  <2>3. \A u \in tasks' : TaskOK(u)
    BY <1>3, <2>2 DEF Execute, Becomes, Typed
  <2>4. files' \in [Dir -> [Op -> Dir \cup {NoFile, Torn}]]
    BY <1>3, <2>1 DEF Execute, Typed, TypeOK
  <2>5. dropped' \in [Dir -> SUBSET Op]
    BY <1>3, <2>1 DEF Execute, Typed
  <2> QED BY <1>3, <2>3, <2>4, <2>5 DEF Execute, Typed, TypeOK, TaskOK, Applying
<1>4. CASE SaveState(t)
  <2>1. t.ops # <<>> /\ t.ops[t.i] \in Op /\ t.key \in Dir /\ t.dir \in Dir
    BY <1>0, <1>4, TaskOp DEF SaveState, TaskOK
  <2>2. TaskOK(Step(t))
    BY <1>0, <2>1, StepType
  <2>3. \A u \in tasks' : TaskOK(u)
    BY <1>4, <2>2 DEF SaveState, Becomes, Typed
  <2>4. files' \in [Dir -> [Op -> Dir \cup {NoFile, Torn}]]
    BY <1>4, <2>1 DEF SaveState, Typed, TypeOK
  <2>5. kept' \in [Dir -> SUBSET Op]
    BY <1>4, <2>1 DEF SaveState, Typed
  <2> QED BY <1>4, <2>3, <2>4, <2>5 DEF SaveState, Typed, TypeOK, TaskOK, Applying
<1>5. CASE End(t)
  <2>1. \A u \in tasks' : TaskOK(u)
    BY <1>5 DEF End, Typed
  <2>2. CASE done' = done
    BY <1>5, <2>1, <2>2 DEF End, Typed, TypeOK, TaskOK, Applying
  <2>3. CASE done' # done
    <3>1. done' = done \cup {t.plan} /\ t.plan \in begun
      BY <1>5, <2>3 DEF End, Turn
    <3> QED BY <1>5, <2>1, <3>1 DEF End, Typed, TypeOK, TaskOK, Applying
  <2> QED BY <2>2, <2>3
<1> QED BY <1>1, <1>2, <1>3, <1>4, <1>5

LEMMA EditTyped ==
  ASSUME Typed, NEW d \in Dir, NEW c \in Contents[d], Edit(d, c)
  PROVE  Typed'
<1>1. mani' \in Manifests
  BY DEF Edit, Typed, TypeOK, Manifests
<1>2. edits' \in Nat
  BY DEF Edit, Typed
<1> QED BY <1>1, <1>2 DEF Edit, Typed, TypeOK, Applying, process, apply

-----------------------------------------------------------------------------
(* Turn is preserved *)

LEMMA TurnExit ==
  ASSUME Exit
  PROVE  Turn'
BY DEF Exit, Turn, Jobs, Applying

(* What the process does with its plans, one job at a time. *)
LEMMA TurnJobs ==
  ASSUME Turn, pc' = pc, args' = args, compiled' = compiled, begun \subseteq begun',
         \A u \in Jobs' : \E t \in Jobs :
           u.run = t.run /\ u.dir = t.dir /\ u.ops = t.ops /\ u.plan = t.plan,
         late' \subseteq late,
         pc = "execute" => \A u \in tasks' : \E t \in tasks \cup {l \in late : l.run # Run} :
           u.run = t.run /\ u.plan = t.plan
  PROVE  Turn'
<1>1. Run' = Run /\ PlanDir' = PlanDir /\ Applying' = Applying
  BY DEF Run, PlanDir, Applying
<1>2. OpKeys(compiled)' = OpKeys(compiled)
  BY DEF OpKeys, OpsOf, Reached
<1>3. (pc = "idle" => Jobs' = {}) /\ \A u \in Jobs' : Run <= u.run
  BY DEF Turn
<1>4. pc \in {"load", "setup"} => \A u \in Jobs' : u.run # Run
  BY DEF Turn
<1>5. pc = "execute" => /\ \A l \in late' : l.run # Run
                        /\ \A u \in tasks' : u.run = Run => u.plan \in begun'
  BY DEF Turn
<1>6. Applying => \A u \in Jobs' : u.run = Run =>
        u.dir = PlanDir /\ \A k \in DOMAIN u.ops : u.ops[k] \in OpKeys(compiled)
  BY DEF Turn
<1> QED BY <1>1, <1>2, <1>3, <1>4, <1>5, <1>6 DEF Turn

LEMMA TurnWorker ==
  ASSUME Typed, Turn, NEW t \in tasks,
         ReadState(t) \/ Skip(t) \/ Execute(t) \/ SaveState(t) \/ End(t)
  PROVE  Turn'
<1> USE DEF process
<1>0. TaskOK(t) /\ t \in Tasks
  BY DEF Typed, TaskOK
<1>1. pc' = pc /\ args' = args /\ compiled' = compiled /\ begun' = begun /\ late' = late
  BY DEF ReadState, Skip, Execute, SaveState, End
<1>2. ASSUME NEW u, tasks' = (tasks \ {t}) \cup {u},
             u.run = t.run, u.dir = t.dir, u.ops = t.ops, u.plan = t.plan
      PROVE  Turn'
  <2>1. \A v \in Jobs' : \E w \in Jobs :
          v.run = w.run /\ v.dir = w.dir /\ v.ops = w.ops /\ v.plan = w.plan
    BY <1>1, <1>2 DEF Jobs
  <2>2. \A v \in tasks' : \E w \in tasks \cup {l \in late : l.run # Run} :
          v.run = w.run /\ v.plan = w.plan
    BY <1>2
  <2> QED BY <1>1, <2>1, <2>2, TurnJobs
<1>3. CASE ReadState(t)
  <2> DEFINE h == IF files[t.key][t.ops[t.i]] = NoFile THEN t.had ELSE t.had \cup {t.ops[t.i]}
             u == IF t.i = Len(t.ops) THEN [t EXCEPT !.phase = "exec", !.i = 1, !.had = h]
                                      ELSE [t EXCEPT !.i = @ + 1, !.had = h]
  <2>1. tasks' = (tasks \ {t}) \cup {u}
    BY <1>3 DEF ReadState, Becomes
  <2>2. u.run = t.run /\ u.dir = t.dir /\ u.ops = t.ops /\ u.plan = t.plan
    BY <1>0 DEF Tasks
  <2> HIDE DEF u
  <2> QED BY <1>2, <2>1, <2>2
<1>4. CASE Skip(t) \/ SaveState(t)
  <2>1. tasks' = (tasks \ {t}) \cup {Step(t)} /\ t.ops # <<>>
    BY <1>0, <1>4 DEF Skip, SaveState, Becomes, TaskOK
  <2> QED BY <1>0, <1>2, <2>1, StepType
<1>5. CASE Execute(t)
  <2> DEFINE u == [t EXCEPT !.phase = "save"]
  <2>1. tasks' = (tasks \ {t}) \cup {u}
    BY <1>5 DEF Execute, Becomes
  <2>2. u.run = t.run /\ u.dir = t.dir /\ u.ops = t.ops /\ u.plan = t.plan
    BY <1>0 DEF Tasks
  <2> HIDE DEF u
  <2> QED BY <1>2, <2>1, <2>2
<1>6. CASE End(t)
  <2>1. tasks' \subseteq tasks
    BY <1>6 DEF End
  <2>2. \A v \in Jobs' : v \in Jobs
    BY <1>1, <2>1 DEF Jobs
  <2> QED BY <1>1, <2>1, <2>2, TurnJobs
<1> QED BY <1>3, <1>4, <1>5, <1>6

LEMMA TurnReturn ==
  ASSUME Typed, Turn, Return
  PROVE  Turn'
<1>1. PlanDir \in Dir /\ Run \in Nat /\ compiled \in Content
  BY HereType DEF Return, Typed, Applying
<1>2. Run' = Run /\ PlanDir' = PlanDir /\ Applying' /\ Applying /\ pc' = "prune"
  BY DEF Return, Run, PlanDir, Applying
<1>3. OpKeys(compiled)' = OpKeys(compiled)
  BY DEF Return, OpKeys, OpsOf, Reached
<1>4. ASSUME NEW p \in Ready
      PROVE  \A k \in DOMAIN compiled.ops[p] : compiled.ops[p][k] \in OpKeys(compiled)
  BY DEF Ready, OpKeys, OpsOf
<1>5. ASSUME NEW u \in Jobs'
      PROVE  u \in Jobs \/ \E p \in Ready :
               u = [run |-> Run, plan |-> p, dir |-> PlanDir, ops |-> compiled.ops[p]]
  BY DEF Return, Jobs
<1>6. \A u \in Jobs' : Run <= u.run
  BY <1>1, <1>5 DEF Turn
<1>7. \A u \in Jobs' : u.run = Run =>
        u.dir = PlanDir /\ \A k \in DOMAIN u.ops : u.ops[k] \in OpKeys(compiled)
  BY <1>2, <1>4, <1>5 DEF Turn
<1> QED BY <1>2, <1>3, <1>6, <1>7 DEF Turn

LEMMA TurnBegin ==
  ASSUME Typed, Turn, NEW p \in Plan, Begin(p)
  PROVE  Turn'
<1> DEFINE new == Task(Run, PlanDir, p, compiled.ops[p])
<1>1. PlanDir \in Dir /\ Run \in Nat /\ pc = "execute"
  BY HereType DEF Begin, Typed
<1>2. Run' = Run /\ PlanDir' = PlanDir /\ Applying' /\ Applying /\ pc' = "execute"
  BY DEF Begin, Run, PlanDir, Applying, process
<1>3. OpKeys(compiled)' = OpKeys(compiled)
  BY DEF Begin, OpKeys, OpsOf, Reached
<1>4. \A k \in DOMAIN compiled.ops[p] : compiled.ops[p][k] \in OpKeys(compiled)
  BY DEF Begin, Ready, OpKeys, OpsOf
<1>5. tasks' = tasks \cup {new} /\ late' = late /\ begun' = begun \cup {p}
  BY DEF Begin
<1>6. new.run = Run /\ new.dir = PlanDir /\ new.ops = compiled.ops[p] /\ new.plan = p
  BY DEF Task
<1> HIDE DEF new
<1>7. \A u \in Jobs' : u \in Jobs \/ u = new
  BY <1>5 DEF Jobs
<1>8. \A u \in Jobs' : Run <= u.run
  BY <1>1, <1>6, <1>7 DEF Turn
<1>9. \A u \in Jobs' : u.run = Run =>
        u.dir = PlanDir /\ \A k \in DOMAIN u.ops : u.ops[k] \in OpKeys(compiled)
  BY <1>2, <1>4, <1>6, <1>7 DEF Turn
<1>10. /\ \A l \in late' : l.run # Run
       /\ \A t \in tasks' : t.run = Run => t.plan \in begun'
  BY <1>1, <1>5, <1>6 DEF Turn
<1> QED BY <1>2, <1>3, <1>8, <1>9, <1>10 DEF Turn

LEMMA TurnBeginLate ==
  ASSUME Typed, Turn, NEW l \in late, BeginLate(l)
  PROVE  Turn'
<1> DEFINE new == Task(l.run, l.dir, l.plan, l.ops)
<1>1. tasks' = tasks \cup {new} /\ late' \subseteq late
  BY DEF BeginLate
<1>2. new.run = l.run /\ new.dir = l.dir /\ new.ops = l.ops /\ new.plan = l.plan
  BY DEF Task
<1> HIDE DEF new
<1>3. pc' = pc /\ args' = args /\ compiled' = compiled /\ begun' = begun
  BY DEF BeginLate, process
<1>4. \A u \in Jobs' : \E t \in Jobs :
        u.run = t.run /\ u.dir = t.dir /\ u.ops = t.ops /\ u.plan = t.plan
  BY <1>1, <1>2 DEF Jobs
<1>5. pc = "execute" => \A u \in tasks' : \E t \in tasks \cup {m \in late : m.run # Run} :
        u.run = t.run /\ u.plan = t.plan
  BY <1>1, <1>2 DEF Turn
<1> QED BY <1>1, <1>3, <1>4, <1>5, TurnJobs

LEMMA TurnProcess ==
  ASSUME Typed, Turn,
         \/ \E as \in Commands, d \in BOOLEAN : Invoke(as, d)
         \/ Load \/ SetupState \/ Pruned \/ NextArg \/ Fail
  PROVE  Turn'
<1> USE DEF apply, history, process
<1>1. ASSUME NEW as \in Commands, NEW d \in BOOLEAN, Invoke(as, d)
      PROVE  Turn'
  <2>1. Jobs' = {}
    BY <1>1 DEF Invoke, Turn, Jobs
  <2> QED BY <2>1 DEF Turn, Jobs
<1>2. CASE Load
  <2>1. pc = "load" /\ pc' = "setup" /\ Jobs' = Jobs /\ Run' = Run
    BY <1>2 DEF Load, Jobs, Run
  <2> QED BY <2>1 DEF Turn
<1>3. CASE SetupState
  <2>1. pc = "setup" /\ pc' = "execute" /\ Jobs' = Jobs /\ Run' = Run
    BY <1>3 DEF SetupState, Jobs, Run
  <2>2. \A t \in Jobs' : t.run # Run'
    BY <2>1 DEF Turn
  <2> QED BY <2>1, <2>2 DEF Turn, Jobs
<1>4. CASE Pruned
  <2>1. pc = "prune" /\ pc' = "next" /\ Jobs' = Jobs /\ Run' = Run /\ PlanDir' = PlanDir
    BY <1>4 DEF Pruned, Jobs, Run, PlanDir
  <2>2. OpKeys(compiled)' = OpKeys(compiled)
    BY <1>4 DEF Pruned, OpKeys, OpsOf, Reached
  <2> QED BY <2>1, <2>2 DEF Turn, Applying
<1>5. CASE NextArg
  <2>1. CASE Exit
    BY <2>1, TurnExit
  <2>2. CASE args' = Tail(args) /\ pc' = "load" /\ UNCHANGED <<tasks, late>>
    <3>1. args \in Seq(Arg) /\ args # <<>>
      BY <1>5 DEF NextArg, Typed, TypeOK
    <3>2. Run' = Run - 1 /\ Run \in Nat /\ Jobs' = Jobs
      BY <2>2, <3>1 DEF Run, Jobs
    <3>3. \A t \in Jobs : t.run \in Nat
      BY DEF Jobs, Typed, TaskOK, Tasks, Lates
    <3>4. \A t \in Jobs' : Run' <= t.run /\ t.run # Run'
      BY <3>2, <3>3 DEF Turn
    <3> QED BY <2>2, <3>4 DEF Turn, Applying
  <2> QED BY <1>5, <2>1, <2>2 DEF NextArg
<1>6. CASE Fail
  BY <1>6, TurnExit DEF Fail
<1> QED BY <1>1, <1>2, <1>3, <1>4, <1>5, <1>6

(***************************************************************************)
(* Both hold always.                                                       *)
(***************************************************************************)
Sound == Typed /\ Turn

LEMMA SoundStep ==
  ASSUME Sound, Next
  PROVE  Sound'
<1> USE DEF Sound
<1>1. CASE \/ \E as \in Commands, d \in BOOLEAN : Invoke(as, d)
           \/ Load \/ SetupState \/ Pruned \/ NextArg \/ Fail
  BY <1>1, ProcessTyped, TurnProcess
<1>2. CASE Return
  BY <1>2, ReturnTyped, TurnReturn
<1>3. ASSUME NEW o \in Op, Prune(o)
      PROVE  Sound'
  <2>1. Jobs' = Jobs /\ tasks' = tasks
    BY <1>3 DEF Prune, Jobs
  <2>2. Turn'
    BY <1>3, <2>1, TurnJobs DEF Prune, process
  <2> QED BY <1>3, <2>2, PruneTyped
<1>4. ASSUME NEW p \in Plan, Begin(p)
      PROVE  Sound'
  BY <1>4, BeginTyped, TurnBegin
<1>5. ASSUME NEW l \in late, BeginLate(l)
      PROVE  Sound'
  BY <1>5, BeginLateTyped, TurnBeginLate
<1>6. ASSUME NEW t \in tasks,
             ReadState(t) \/ Skip(t) \/ Execute(t) \/ SaveState(t) \/ End(t)
      PROVE  Sound'
  BY <1>6, WorkerTyped, TurnWorker
<1>7. ASSUME NEW d \in Dir, NEW c \in Contents[d], Edit(d, c)
      PROVE  Sound'
  <2>1. Jobs' = Jobs /\ tasks' = tasks
    BY <1>7 DEF Edit, apply, Jobs
  <2>2. Turn'
    BY <1>7, <2>1, TurnJobs DEF Edit, process, apply
  <2> QED BY <1>7, <2>2, EditTyped
<1> QED BY <1>1, <1>2, <1>3, <1>4, <1>5, <1>6, <1>7 DEF Next

LEMMA SoundAlways == Spec => []Sound
<1>1. Init => Sound
  <2> SUFFICES ASSUME Init PROVE Sound
    OBVIOUS
  <2>1. TypeOK
    BY DEF Init, TypeOK
  <2>2. Typed
    BY <2>1 DEF Init, Typed, Applying
  <2>3. Turn
    BY DEF Init, Turn, Jobs, Applying
  <2> QED BY <2>2, <2>3 DEF Sound
<1>2. Sound /\ [Next]_vars => Sound'
  <2> SUFFICES ASSUME Sound, UNCHANGED vars
               PROVE  Sound'
    BY SoundStep
  <2> USE DEF vars, process, apply, history
  <2>1. Typed'
    BY DEF Sound, Typed, TypeOK, TaskOK, Applying
  <2>2. Jobs' = Jobs
    BY DEF Jobs
  <2>3. Turn'
    BY <2>2, TurnJobs DEF Sound
  <2> QED BY <2>1, <2>3 DEF Sound
<1> QED BY <1>1, <1>2, PTL DEF Spec

(***************************************************************************)
(* Every variable keeps its type.  (Planner.Apply)                         *)
(***************************************************************************)
THEOREM TypeCorrect == Spec => []TypeOK
<1>1. Sound => TypeOK
  BY DEF Sound, Typed
<1> QED BY <1>1, SoundAlways, PTL

-----------------------------------------------------------------------------
(***************************************************************************)
(* What prune keeps.  StateKept needs that nothing prune may remove is     *)
(* kept, and that a file this apply truncated is still there when it is    *)
(* written.                                                                *)
(***************************************************************************)
Keeping ==
  /\ Applying => kept[PlanDir] \subseteq OpKeys(compiled)
  /\ \A t \in tasks : t.phase = "save" /\ t.run = Run => files[t.key][t.ops[t.i]] # NoFile
  /\ StateKept

(* Steps that only add files, and add nothing to what is kept. *)
LEMMA KeepingGrows ==
  ASSUME Sound, Keeping,
         \A d \in Dir : kept'[d] \subseteq kept[d],
         \A d \in Dir, o \in Op : files[d][o] # NoFile => files'[d][o] # NoFile,
         Applying' => Applying /\ UNCHANGED <<args, compiled>>,
         \A t \in tasks' : t.phase = "save" => t \in tasks /\ (t.run = Run' => t.run = Run)
  PROVE  Keeping'
<1>1. Applying' => kept'[PlanDir'] \subseteq OpKeys(compiled')
  <2> SUFFICES ASSUME Applying' PROVE kept'[PlanDir'] \subseteq OpKeys(compiled')
    OBVIOUS
  <2>1. pc # "idle"
    BY DEF Applying
  <2>2. PlanDir \in Dir /\ PlanDir' = PlanDir /\ compiled' = compiled
    BY <2>1, HereType DEF Sound, Typed, PlanDir
  <2> QED BY <2>2 DEF Keeping
<1>2. \A t \in tasks' : t.phase = "save" /\ t.run = Run' => files'[t.key][t.ops[t.i]] # NoFile
  <2> SUFFICES ASSUME NEW t \in tasks', t.phase = "save", t.run = Run'
               PROVE  files'[t.key][t.ops[t.i]] # NoFile
    OBVIOUS
  <2>1. t \in tasks /\ TaskOK(t) /\ t.run = Run
    BY DEF Sound, Typed
  <2>2. t.ops[t.i] \in Op /\ t.key \in Dir
    BY <2>1, TaskOp DEF TaskOK
  <2> QED BY <2>1, <2>2 DEF Keeping
<1>3. StateKept'
  <2> SUFFICES ASSUME NEW d \in Dir, Alone(d), NEW q \in kept'[d]
               PROVE  files'[KeyOf[d]][q] # NoFile
    BY DEF StateKept, Alone
  <2>1. q \in kept[d] /\ q \in Op /\ KeyOf[d] \in Dir
    BY PlannerAssumption DEF Sound, Typed
  <2>2. files[KeyOf[d]][q] # NoFile
    BY <2>1 DEF Keeping, StateKept
  <2> QED BY <2>1, <2>2
<1> QED BY <1>1, <1>2, <1>3 DEF Keeping

LEMMA KeepingSave ==
  ASSUME Sound, Keeping, NEW t \in tasks, SaveState(t)
  PROVE  Keeping'
<1> DEFINE o == t.ops[t.i]
<1> USE DEF process
<1>1. TaskOK(t) /\ t.ops # <<>> /\ t.phase = "save" /\ t.i \in DOMAIN t.ops
  BY DEF Sound, Typed, TaskOK, SaveState
<1>2. o \in Op /\ t.key \in Dir /\ t.dir \in Dir /\ t.key = KeyOf[t.dir]
  BY <1>1, TaskOp DEF TaskOK
<1>3. Run' = Run /\ PlanDir' = PlanDir /\ Applying' = Applying /\ OpKeys(compiled)' = OpKeys(compiled)
  BY DEF SaveState, Run, PlanDir, Applying, OpKeys, OpsOf, Reached
<1>4. \A d \in Dir, q \in Op : files[d][q] # NoFile => files'[d][q] # NoFile
  <2>1. files' = [files EXCEPT ![t.key][o] = IF files[t.key][o] = NoFile THEN files[t.key][o] ELSE t.dir]
    BY <1>2 DEF SaveState, Sound, Typed, TypeOK
  <2>2. t.dir # NoFile
    BY <1>2, PlannerAssumption
  <2> QED BY <1>2, <2>1, <2>2 DEF Sound, Typed, TypeOK
<1>5. CASE t.run = Run
  <2>1. files[t.key][o] # NoFile
    BY <1>1, <1>5 DEF Keeping
  <2>2. pc \notin {"idle", "load", "setup"} /\ Applying
    BY <1>5 DEF Sound, Turn, Jobs, Typed, TypeOK, Applying
  <2>3. t.dir = PlanDir /\ o \in OpKeys(compiled)
    BY <1>1, <1>5, <2>2 DEF Sound, Turn, Jobs
  <2>4. kept' = [kept EXCEPT ![t.dir] = kept[t.dir] \cup {o}]
    BY <1>2, <1>5 DEF SaveState, Sound, Typed
  <2>5. Applying' => kept'[PlanDir'] \subseteq OpKeys(compiled')
    BY <1>2, <1>3, <2>2, <2>3, <2>4 DEF Keeping, Sound, Typed
  <2>6. StateKept'
    <3> SUFFICES ASSUME NEW d \in Dir, Alone(d), NEW q \in kept'[d]
                 PROVE  files'[KeyOf[d]][q] # NoFile
      BY DEF StateKept, Alone
    <3>1. q \in kept[d] \/ (d = t.dir /\ q = o)
      BY <1>2, <2>4 DEF Sound, Typed
    <3>2. q \in Op /\ KeyOf[d] \in Dir
      BY <1>2, <3>1, PlannerAssumption DEF Sound, Typed
    <3>3. files[KeyOf[d]][q] # NoFile
      BY <1>2, <2>1, <3>1 DEF Keeping, StateKept
    <3> QED BY <1>4, <3>2, <3>3
  <2>7. ASSUME NEW u \in tasks', u.phase = "save", u.run = Run'
        PROVE  files'[u.key][u.ops[u.i]] # NoFile
    <3>1. u \in tasks
      BY <1>1, <2>7, StepType DEF SaveState, Becomes
    <3>2. TaskOK(u) /\ u.ops # <<>>
      BY <2>7, <3>1 DEF Sound, Typed, TaskOK
    <3>3. u.ops[u.i] \in Op /\ u.key \in Dir
      BY <3>2, TaskOp
    <3> QED BY <1>3, <1>4, <2>7, <3>1, <3>3 DEF Keeping
  <2> QED BY <2>5, <2>6, <2>7 DEF Keeping
<1>6. CASE t.run # Run
  <2>1. kept' = kept
    BY <1>6 DEF SaveState, Sound, Typed
  <2>2. \A u \in tasks' : u.phase = "save" => u \in tasks
    BY <1>1, StepType DEF SaveState, Becomes
  <2> QED BY <1>3, <1>4, <2>1, <2>2, KeepingGrows DEF SaveState
<1> QED BY <1>5, <1>6

LEMMA KeepingExecute ==
  ASSUME Sound, Keeping, NEW t \in tasks, Execute(t)
  PROVE  Keeping'
<1> DEFINE o == t.ops[t.i]
           u == [t EXCEPT !.phase = "save"]
<1> USE DEF process
<1>1. TaskOK(t) /\ t.ops # <<>> /\ t \in Tasks
  BY DEF Sound, Typed, TaskOK, Execute
<1>2. o \in Op /\ t.key \in Dir
  BY <1>1, TaskOp
<1>3. Run' = Run /\ PlanDir' = PlanDir /\ Applying' = Applying /\ OpKeys(compiled)' = OpKeys(compiled)
      /\ kept' = kept
  BY DEF Execute, Run, PlanDir, Applying, OpKeys, OpsOf, Reached
<1>4. files' = [files EXCEPT ![t.key][o] = Torn] /\ Torn # NoFile
  BY PlannerAssumption DEF Execute
<1>5. \A d \in Dir, q \in Op : files[d][q] # NoFile => files'[d][q] # NoFile
  BY <1>2, <1>4 DEF Sound, Typed, TypeOK
<1>6. files'[t.key][o] # NoFile
  BY <1>2, <1>4 DEF Sound, Typed, TypeOK
<1>7. u.key = t.key /\ u.ops = t.ops /\ u.i = t.i
  BY <1>1 DEF Tasks
<1>8. ASSUME NEW v \in tasks', v.phase = "save", v.run = Run
      PROVE  files'[v.key][v.ops[v.i]] # NoFile
  <2>1. v = u \/ v \in tasks
    BY DEF Execute, Becomes
  <2>2. CASE v \in tasks
    <3>1. TaskOK(v) /\ v.ops # <<>>
      BY <1>8, <2>2 DEF Sound, Typed, TaskOK
    <3> QED BY <1>5, <1>8, <2>2, <3>1, TaskOp DEF Keeping
  <2>3. CASE v = u
    BY <1>6, <1>7, <2>3
  <2> QED BY <2>1, <2>2, <2>3
<1>9. StateKept'
  <2> SUFFICES ASSUME NEW d \in Dir, Alone(d), NEW q \in kept[d]
               PROVE  files'[KeyOf[d]][q] # NoFile
    BY <1>3 DEF StateKept, Alone
  <2> QED BY <1>5, PlannerAssumption DEF Keeping, StateKept, Sound, Typed
<1> QED BY <1>3, <1>8, <1>9 DEF Keeping

LEMMA KeepingPrune ==
  ASSUME Sound, Keeping, NEW o \in Op, Prune(o)
  PROVE  Keeping'
<1> USE DEF process, history
<1>1. PlanDir \in Dir /\ StateDir \in Dir /\ StateDir = KeyOf[PlanDir] /\ Applying
  BY HereType DEF Sound, Typed, Prune, StateDir, Applying
<1>2. Run' = Run /\ PlanDir' = PlanDir /\ Applying' = Applying /\ OpKeys(compiled)' = OpKeys(compiled)
      /\ kept' = kept /\ tasks' = tasks
  BY DEF Prune, Run, PlanDir, Applying, OpKeys, OpsOf, Reached
<1>3. CASE o \in OpKeys(compiled)
  <2>1. files' = files
    BY <1>3 DEF Prune
  <2> QED BY <1>2, <2>1, KeepingGrows DEF Prune
<1>4. CASE o \notin OpKeys(compiled)
  <2>1. files' = [files EXCEPT ![StateDir][o] = NoFile]
    BY <1>4 DEF Prune
  <2>2. \A d \in Dir, q \in Op : files'[d][q] = files[d][q] \/ (d = StateDir /\ q = o)
    BY <1>1, <2>1 DEF Sound, Typed, TypeOK
  <2>3. ASSUME NEW t \in tasks, t.phase = "save", t.run = Run
        PROVE  files'[t.key][t.ops[t.i]] # NoFile
    <3>1. TaskOK(t) /\ t.ops # <<>> /\ t.i \in DOMAIN t.ops
      BY <2>3 DEF Sound, Typed, TaskOK
    <3>2. t.ops[t.i] \in Op /\ t.key \in Dir /\ t.ops[t.i] \in OpKeys(compiled)
      BY <1>1, <2>3, <3>1, TaskOp DEF Sound, Turn, Jobs
    <3> QED BY <1>4, <2>2, <2>3, <3>2 DEF Keeping
  <2>4. StateKept'
    <3> SUFFICES ASSUME NEW d \in Dir, Alone(d), NEW q \in kept[d]
                 PROVE  files'[KeyOf[d]][q] # NoFile
      BY <1>2 DEF StateKept, Alone
    <3>1. q \in Op /\ KeyOf[d] \in Dir /\ files[KeyOf[d]][q] # NoFile
      BY PlannerAssumption DEF Keeping, StateKept, Sound, Typed
    <3>2. CASE d = PlanDir
      BY <1>1, <1>4, <2>2, <3>1, <3>2 DEF Keeping
    <3>3. CASE d # PlanDir
      BY <1>1, <2>2, <3>1, <3>3 DEF Alone
    <3> QED BY <3>2, <3>3
  <2> QED BY <1>2, <2>3, <2>4 DEF Keeping
<1> QED BY <1>3, <1>4

LEMMA KeepingLoad ==
  ASSUME Sound, Keeping, Load
  PROVE  Keeping'
<1>1. PlanDir \in Dir /\ PlanDir' = PlanDir /\ Run' = Run
  BY HereType DEF Sound, Typed, Load, PlanDir, Run
<1>2. kept' = [kept EXCEPT ![PlanDir] = kept[PlanDir] \cap OpKeys(compiled')]
  BY <1>1 DEF Load, Sound, Typed
<1>3. kept'[PlanDir'] \subseteq OpKeys(compiled')
  BY <1>1, <1>2 DEF Sound, Typed
<1>4. files' = files /\ tasks' = tasks
  BY DEF Load
<1>5. StateKept'
  <2>1. \A d \in Dir : kept'[d] \subseteq kept[d]
    BY <1>1, <1>2 DEF Sound, Typed
  <2> QED BY <1>4, <2>1 DEF Keeping, StateKept, Alone
<1> QED BY <1>1, <1>3, <1>4, <1>5 DEF Keeping

LEMMA KeepingStep ==
  ASSUME Sound, Keeping, Next
  PROVE  Keeping'
<1> USE DEF process, apply, history
<1>1. ASSUME Exit
      PROVE  Keeping'
  BY <1>1, KeepingGrows DEF Exit, Applying
<1>2. ASSUME NEW as \in Commands, NEW d \in BOOLEAN, Invoke(as, d)
      PROVE  Keeping'
  <2>1. tasks' = {}
    BY <1>2 DEF Invoke, Sound, Turn, Jobs
  <2> QED BY <1>2, <2>1, KeepingGrows DEF Invoke, Applying
<1>3. CASE Load
  BY <1>3, KeepingLoad
<1>4. CASE SetupState
  <2>1. kept[PlanDir] \subseteq OpKeys(compiled) /\ Applying
    BY <1>4 DEF SetupState, Keeping, Applying
  <2> QED BY <1>4, <2>1, KeepingGrows DEF SetupState, Run
<1>5. CASE Return \/ Pruned
  <2>1. Run' = Run /\ Applying
    BY <1>5 DEF Return, Pruned, Run, Applying
  <2> QED BY <1>5, <2>1, KeepingGrows DEF Return, Pruned
<1>6. ASSUME NEW o \in Op, Prune(o)
      PROVE  Keeping'
  BY <1>6, KeepingPrune
<1>7. CASE NextArg
  <2>1. CASE args' = Tail(args) /\ pc' = "load" /\ UNCHANGED <<files, kept, tasks>>
    <3>1. args \in Seq(Arg) /\ args # <<>>
      BY <1>7 DEF NextArg, Sound, Typed, TypeOK
    <3>2. Run' = Run - 1 /\ Run \in Nat
      BY <2>1, <3>1 DEF Run
    <3>3. \A t \in tasks : t.run \in Nat /\ Run <= t.run
      BY DEF Sound, Typed, TaskOK, Tasks, Turn, Jobs
    <3>4. \A t \in tasks' : t.run # Run'
      BY <2>1, <3>2, <3>3
    <3> QED BY <2>1, <3>4, KeepingGrows DEF Applying
  <2> QED BY <1>1, <1>7, <2>1 DEF NextArg
<1>8. CASE Fail
  BY <1>1, <1>8 DEF Fail
<1>9. ASSUME NEW p \in Plan, Begin(p)
      PROVE  Keeping'
  <2>1. Run' = Run /\ Applying
    BY <1>9 DEF Begin, Run, Applying
  <2>2. \A t \in tasks' : t.phase = "save" => t \in tasks
    BY <1>9 DEF Begin, Task
  <2> QED BY <1>9, <2>1, <2>2, KeepingGrows DEF Begin
<1>10. ASSUME NEW l \in late, BeginLate(l)
       PROVE  Keeping'
  <2>1. Run' = Run /\ Applying' = Applying
    BY <1>10 DEF BeginLate, Run, Applying
  <2>2. \A t \in tasks' : t.phase = "save" => t \in tasks
    BY <1>10 DEF BeginLate, Task
  <2> QED BY <1>10, <2>1, <2>2, KeepingGrows DEF BeginLate
<1>11. ASSUME NEW t \in tasks, ReadState(t) \/ Skip(t) \/ End(t)
       PROVE  Keeping'
  <2>0. TaskOK(t) /\ t \in Tasks
    BY DEF Sound, Typed, TaskOK
  <2>1. Run' = Run /\ Applying' = Applying
    BY <1>11 DEF ReadState, Skip, End, Run, Applying
  <2>2. \A u \in tasks' : u.phase = "save" => u \in tasks
    <3>1. CASE ReadState(t)
      BY <2>0, <3>1 DEF ReadState, Becomes, Tasks
    <3>2. CASE Skip(t)
      BY <2>0, <3>2, StepType DEF Skip, Becomes, TaskOK
    <3>3. CASE End(t)
      BY <3>3 DEF End
    <3> QED BY <1>11, <3>1, <3>2, <3>3
  <2> QED BY <1>11, <2>1, <2>2, KeepingGrows DEF ReadState, Skip, End
<1>12. ASSUME NEW t \in tasks, Execute(t)
       PROVE  Keeping'
  BY <1>12, KeepingExecute
<1>13. ASSUME NEW t \in tasks, SaveState(t)
       PROVE  Keeping'
  BY <1>13, KeepingSave
<1>14. ASSUME NEW d \in Dir, NEW c \in Contents[d], Edit(d, c)
       PROVE  Keeping'
  <2>1. Run' = Run /\ Applying' = Applying
    BY <1>14 DEF Edit, Run, Applying
  <2> QED BY <1>14, <2>1, KeepingGrows DEF Edit
<1> QED
  BY <1>2, <1>3, <1>4, <1>5, <1>6, <1>7, <1>8, <1>9, <1>10, <1>11, <1>12, <1>13, <1>14 DEF Next

(***************************************************************************)
(* No prune takes the state of an operation that stayed in the manifest,   *)
(* whatever else is applied and still running.  (pruneState, gatherOpKeys) *)
(***************************************************************************)
THEOREM StateIsKept == Spec => []StateKept
<1>1. Init => Keeping
  BY DEF Init, Keeping, StateKept, Applying
<1>2. Sound /\ Keeping /\ [Next]_vars => Keeping'
  <2> SUFFICES ASSUME Sound, Keeping, UNCHANGED vars
               PROVE  Keeping'
    BY KeepingStep
  <2>1. Run' = Run /\ Applying' = Applying
    BY DEF vars, process, apply, history, Run, Applying
  <2> QED BY <2>1, KeepingGrows DEF vars, process, apply, history
<1>3. Keeping => StateKept
  BY DEF Keeping
<1> QED BY <1>1, <1>2, <1>3, SoundAlways, PTL DEF Spec

-----------------------------------------------------------------------------
(***************************************************************************)
(* What prune drops.  During a prune the files that have to go are still   *)
(* to be visited, and only plans that raced with it can make new ones.     *)
(***************************************************************************)
Pruning == pc = "prune" /\ Head(args).file # "other" /\ Alone(PlanDir)

Dropping ==
  /\ Pruning =>
       /\ \A o \in Op \ (OpKeys(compiled) \cup racing) : files[StateDir][o] # NoFile => o \in walk
       /\ \A t \in Jobs : t.dir = PlanDir =>
            \A k \in DOMAIN t.ops : t.ops[k] \in OpKeys(compiled) \cup racing
  /\ StateDropped

(* Steps that make no file and drop nothing. *)
LEMMA DroppingShrinks ==
  ASSUME Sound, Dropping,
         \A d \in Dir : dropped'[d] \subseteq dropped[d],
         \A d \in Dir, o \in Op : files[d][o] = NoFile => files'[d][o] = NoFile,
         Pruning' => pc = "prune" /\ UNCHANGED <<args, compiled, racing, walk>>,
         Pruning' => \A t \in Jobs' : \E u \in Jobs : t.dir = u.dir /\ t.ops = u.ops
  PROVE  Dropping'
<1>1. StateDropped'
  <2> SUFFICES ASSUME NEW d \in Dir, Alone(d), NEW o \in dropped'[d]
               PROVE  files'[KeyOf[d]][o] = NoFile
    BY DEF StateDropped, Alone
  <2>1. o \in dropped[d] /\ o \in Op /\ KeyOf[d] \in Dir
    BY PlannerAssumption DEF Sound, Typed
  <2> QED BY <2>1 DEF Dropping, StateDropped
<1>2. CASE ~Pruning'
  BY <1>1, <1>2 DEF Dropping
<1>3. CASE Pruning'
  <2>1. Pruning /\ PlanDir' = PlanDir /\ StateDir' = StateDir /\ StateDir \in Dir
    BY <1>3, HereType DEF Pruning, Alone, PlanDir, StateDir, Sound, Typed
  <2>2. OpKeys(compiled)' = OpKeys(compiled) /\ racing' = racing /\ walk' = walk
    BY <1>3 DEF OpKeys, OpsOf, Reached
  <2>3. \A o \in Op \ (OpKeys(compiled) \cup racing) : files'[StateDir][o] # NoFile => o \in walk
    BY <2>1 DEF Dropping
  <2>4. \A t \in Jobs' : t.dir = PlanDir =>
          \A k \in DOMAIN t.ops : t.ops[k] \in OpKeys(compiled) \cup racing
    BY <1>3, <2>1 DEF Dropping
  <2> QED BY <1>1, <2>1, <2>2, <2>3, <2>4 DEF Dropping
<1> QED BY <1>2, <1>3

LEMMA DroppingExecute ==
  ASSUME Sound, Dropping, NEW t \in tasks, Execute(t)
  PROVE  Dropping'
<1> DEFINE o == t.ops[t.i]
           u == [t EXCEPT !.phase = "save"]
<1> USE DEF process
<1>1. TaskOK(t) /\ t.ops # <<>> /\ t \in Tasks /\ t.i \in DOMAIN t.ops
  BY DEF Sound, Typed, TaskOK, Execute
<1>2. o \in Op /\ t.key \in Dir /\ t.dir \in Dir /\ t.key = KeyOf[t.dir]
  BY <1>1, TaskOp DEF TaskOK
<1>3. files' = [files EXCEPT ![t.key][o] = Torn]
      /\ dropped' = [dropped EXCEPT ![t.dir] = dropped[t.dir] \ {o}]
  BY <1>2 DEF Execute, Sound, Typed
<1>4. \A d \in Dir, q \in Op : files'[d][q] = files[d][q] \/ (d = t.key /\ q = o)
  BY <1>2, <1>3 DEF Sound, Typed, TypeOK
<1>5. \A v \in Jobs' : \E w \in Jobs : v.dir = w.dir /\ v.ops = w.ops
  <2>1. u.dir = t.dir /\ u.ops = t.ops
    BY <1>1 DEF Tasks
  <2>2. \A v \in Jobs' : v \in Jobs \/ v = u
    BY DEF Execute, Becomes, Jobs
  <2>3. t \in Jobs
    BY DEF Jobs
  <2> HIDE DEF u
  <2> QED BY <2>1, <2>2, <2>3
<1>6. StateDropped'
  <2> SUFFICES ASSUME NEW d \in Dir, Alone(d), NEW q \in dropped'[d]
               PROVE  files'[KeyOf[d]][q] = NoFile
    BY DEF StateDropped, Alone
  <2>1. q \in dropped[d] /\ q \in Op /\ KeyOf[d] \in Dir /\ ~(d = t.dir /\ q = o)
    BY <1>2, <1>3, PlannerAssumption DEF Sound, Typed
  <2>2. ~(KeyOf[d] = t.key /\ q = o)
    BY <1>2, <2>1 DEF Alone
  <2> QED BY <1>4, <2>1, <2>2 DEF Dropping, StateDropped
<1>7. CASE ~Pruning
  BY <1>6, <1>7 DEF Dropping, Pruning, Alone, PlanDir, Execute
<1>8. CASE Pruning
  <2>1. PlanDir' = PlanDir /\ StateDir' = StateDir /\ StateDir \in Dir /\ PlanDir \in Dir
        /\ StateDir = KeyOf[PlanDir]
    BY <1>8, HereType DEF Pruning, PlanDir, StateDir, Sound, Typed, Execute
  <2>2. OpKeys(compiled)' = OpKeys(compiled) /\ racing' = racing /\ walk' = walk
    BY DEF OpKeys, OpsOf, Reached, Execute
  <2>3. t.key = StateDir => o \in OpKeys(compiled) \cup racing
    <3>1. t.key = StateDir => t.dir = PlanDir
      BY <1>2, <1>8, <2>1 DEF Pruning, Alone
    <3> QED BY <1>1, <1>8, <3>1 DEF Dropping, Jobs
  <2>4. \A q \in Op \ (OpKeys(compiled) \cup racing) : files'[StateDir][q] # NoFile => q \in walk
    BY <1>4, <1>8, <2>1, <2>3 DEF Dropping
  <2>5. \A v \in Jobs' : v.dir = PlanDir =>
          \A k \in DOMAIN v.ops : v.ops[k] \in OpKeys(compiled) \cup racing
    BY <1>5, <1>8 DEF Dropping
  <2> QED BY <1>6, <2>1, <2>2, <2>4, <2>5 DEF Dropping
<1> QED BY <1>7, <1>8

LEMMA DroppingPrune ==
  ASSUME Sound, Dropping, NEW o \in Op, Prune(o)
  PROVE  Dropping'
<1> USE DEF process, history
<1>1. StateDir \in Dir /\ PlanDir' = PlanDir /\ StateDir' = StateDir /\ Pruning' = Pruning
  BY HereType DEF Sound, Typed, Prune, StateDir, PlanDir, Pruning, Alone
<1>2. OpKeys(compiled)' = OpKeys(compiled) /\ racing' = racing /\ Jobs' = Jobs /\ dropped' = dropped
      /\ walk' = walk \ {o}
  BY DEF Prune, OpKeys, OpsOf, Reached, Jobs
<1>3. \A d \in Dir, q \in Op : files[d][q] = NoFile => files'[d][q] = NoFile
  BY <1>1 DEF Prune, Sound, Typed, TypeOK
<1>4. o \notin OpKeys(compiled) => files'[StateDir][o] = NoFile
  BY <1>1 DEF Prune, Sound, Typed, TypeOK
<1>5. StateDropped'
  <2> SUFFICES ASSUME NEW d \in Dir, Alone(d), NEW q \in dropped[d]
               PROVE  files'[KeyOf[d]][q] = NoFile
    BY <1>2 DEF StateDropped, Alone
  <2>1. q \in Op /\ KeyOf[d] \in Dir
    BY PlannerAssumption DEF Sound, Typed
  <2> QED BY <1>3, <2>1 DEF Dropping, StateDropped
<1>6. Pruning => \A q \in Op \ (OpKeys(compiled) \cup racing) :
        files'[StateDir][q] # NoFile => q \in walk'
  BY <1>1, <1>2, <1>3, <1>4 DEF Dropping
<1> QED BY <1>1, <1>2, <1>5, <1>6 DEF Dropping

LEMMA DroppingReturn ==
  ASSUME Sound, Dropping, Return
  PROVE  Dropping'
<1>1. PlanDir' = PlanDir /\ StateDir' = StateDir /\ StateDir \in Dir /\ args' = args
  BY HereType DEF Sound, Typed, Return, StateDir, PlanDir
<1>2. OpKeys(compiled)' = OpKeys(compiled) /\ files' = files /\ dropped' = dropped
  BY DEF Return, OpKeys, OpsOf, Reached
<1>3. StateDropped'
  BY <1>2 DEF Dropping, StateDropped, Alone
<1>4. Head(args).file # "other" => \A o \in Op : files[StateDir][o] # NoFile => o \in walk'
  BY DEF Return, Listing
<1>5. ASSUME NEW t \in Jobs', t.dir = PlanDir, NEW k \in DOMAIN t.ops
      PROVE  t.ops[k] \in OpKeys(compiled) \cup racing'
  <2>1. t \in tasks \cup late \/ \E p \in Ready :
          t = [run |-> Run, plan |-> p, dir |-> PlanDir, ops |-> compiled.ops[p]]
    BY DEF Return, Jobs
  <2>2. CASE t \in tasks \cup late
    BY <1>5, <2>2 DEF Return, LateOps
  <2>3. ASSUME NEW p \in Ready, t.ops = compiled.ops[p]
        PROVE  t.ops[k] \in OpKeys(compiled)
    BY <2>3 DEF Ready, OpKeys, OpsOf
  <2> QED BY <2>1, <2>2, <2>3
<1> QED BY <1>1, <1>2, <1>3, <1>4, <1>5 DEF Dropping, Pruning, Alone

LEMMA DroppingPruned ==
  ASSUME Sound, Dropping, Pruned
  PROVE  Dropping'
<1>1. PlanDir \in Dir /\ StateDir = KeyOf[PlanDir] /\ files' = files /\ pc = "prune" /\ walk = {}
      /\ ~Pruning'
  BY HereType DEF Sound, Typed, Pruned, StateDir, Pruning
<1>2. CASE Head(args).file = "other"
  <2>1. dropped' = dropped
    BY <1>1, <1>2 DEF Pruned, Sound, Typed
  <2> QED BY <1>1, <2>1 DEF Dropping, StateDropped, Alone
<1>3. CASE Head(args).file # "other"
  <2>1. dropped' = [dropped EXCEPT ![PlanDir] =
                      dropped[PlanDir] \cup (Op \ (OpKeys(compiled) \cup racing))]
    BY <1>1, <1>3 DEF Pruned, Sound, Typed
  <2>2. ASSUME NEW d \in Dir, Alone(d), NEW o \in dropped'[d]
        PROVE  files[KeyOf[d]][o] = NoFile
    <3>1. CASE o \in dropped[d]
      BY <2>2, <3>1 DEF Dropping, StateDropped
    <3>2. CASE o \notin dropped[d]
      <4>1. d = PlanDir /\ o \in Op \ (OpKeys(compiled) \cup racing)
        BY <1>1, <2>1, <2>2, <3>2 DEF Sound, Typed
      <4>2. Pruning
        BY <1>1, <1>3, <2>2, <4>1 DEF Pruning
      <4> QED BY <1>1, <4>1, <4>2 DEF Dropping
    <3> QED BY <3>1, <3>2
  <2> QED BY <1>1, <2>2 DEF Dropping, StateDropped, Alone
<1> QED BY <1>2, <1>3

LEMMA DroppingStep ==
  ASSUME Sound, Dropping, Next
  PROVE  Dropping'
<1> USE DEF process, apply, history
<1>1. ASSUME \/ \E as \in Commands, d \in BOOLEAN : Invoke(as, d)
             \/ Load \/ SetupState \/ NextArg \/ Fail
      PROVE  Dropping'
  <2>1. pc' # "prune" /\ files' = files /\ dropped' = dropped
    BY <1>1 DEF Invoke, Load, SetupState, NextArg, Fail, Exit
  <2> QED BY <2>1, DroppingShrinks DEF Pruning
<1>2. CASE Return
  BY <1>2, DroppingReturn
<1>3. ASSUME NEW o \in Op, Prune(o)
      PROVE  Dropping'
  BY <1>3, DroppingPrune
<1>4. CASE Pruned
  BY <1>4, DroppingPruned
<1>5. ASSUME NEW p \in Plan, Begin(p)
      PROVE  Dropping'
  BY <1>5, DroppingShrinks DEF Begin, Pruning
<1>6. ASSUME NEW l \in late, BeginLate(l)
      PROVE  Dropping'
  <2> DEFINE new == Task(l.run, l.dir, l.plan, l.ops)
  <2>1. new.dir = l.dir /\ new.ops = l.ops
    BY DEF Task
  <2>2. \A t \in Jobs' : t \in Jobs \/ t = new
    BY <1>6 DEF BeginLate, Jobs
  <2>3. l \in Jobs
    BY DEF Jobs
  <2> HIDE DEF new
  <2>4. \A t \in Jobs' : \E u \in Jobs : t.dir = u.dir /\ t.ops = u.ops
    BY <2>1, <2>2, <2>3
  <2> QED BY <1>6, <2>4, DroppingShrinks DEF BeginLate, Pruning
<1>7. ASSUME NEW t \in tasks, ReadState(t) \/ Skip(t) \/ SaveState(t) \/ End(t)
      PROVE  Dropping'
  <2>0. TaskOK(t) /\ t \in Tasks
    BY DEF Sound, Typed, TaskOK
  <2>1. \A d \in Dir, o \in Op : files[d][o] = NoFile => files'[d][o] = NoFile
    <3>1. CASE SaveState(t)
      <4>1. t.key \in Dir /\ t.ops[t.i] \in Op
        BY <2>0, <3>1, TaskOp DEF SaveState, TaskOK
      <4>2. files' = [files EXCEPT ![t.key][t.ops[t.i]] =
                        IF files[t.key][t.ops[t.i]] = NoFile THEN files[t.key][t.ops[t.i]] ELSE t.dir]
        BY <3>1, <4>1 DEF SaveState, Sound, Typed, TypeOK
      <4> QED BY <4>1, <4>2 DEF Sound, Typed, TypeOK
    <3> QED BY <1>7, <3>1 DEF ReadState, Skip, End
  <2>2. \A v \in Jobs' : \E w \in Jobs : v.dir = w.dir /\ v.ops = w.ops
    <3>1. ASSUME NEW u, tasks' = (tasks \ {t}) \cup {u}, u.dir = t.dir, u.ops = t.ops,
                 late' = late
          PROVE  \A v \in Jobs' : \E w \in Jobs : v.dir = w.dir /\ v.ops = w.ops
      BY <3>1 DEF Jobs
    <3>2. CASE ReadState(t)
      <4> DEFINE h == IF files[t.key][t.ops[t.i]] = NoFile THEN t.had ELSE t.had \cup {t.ops[t.i]}
                 u == IF t.i = Len(t.ops) THEN [t EXCEPT !.phase = "exec", !.i = 1, !.had = h]
                                          ELSE [t EXCEPT !.i = @ + 1, !.had = h]
      <4>1. tasks' = (tasks \ {t}) \cup {u} /\ late' = late
        BY <3>2 DEF ReadState, Becomes
      <4>2. u.dir = t.dir /\ u.ops = t.ops
        BY <2>0 DEF Tasks
      <4> HIDE DEF u
      <4> QED BY <3>1, <4>1, <4>2
    <3>3. CASE Skip(t) \/ SaveState(t)
      <4>1. tasks' = (tasks \ {t}) \cup {Step(t)} /\ t.ops # <<>> /\ late' = late
        BY <2>0, <3>3 DEF Skip, SaveState, Becomes, TaskOK
      <4> QED BY <2>0, <3>1, <4>1, StepType
    <3>4. CASE End(t)
      BY <3>4 DEF End, Jobs
    <3> QED BY <1>7, <3>2, <3>3, <3>4
  <2>3. dropped' = dropped /\ pc' = pc /\ UNCHANGED <<args, compiled, racing, walk>>
    BY <1>7 DEF ReadState, Skip, SaveState, End
  <2> QED BY <2>1, <2>2, <2>3, DroppingShrinks DEF Pruning
<1>8. ASSUME NEW t \in tasks, Execute(t)
      PROVE  Dropping'
  BY <1>8, DroppingExecute
<1>9. ASSUME NEW d \in Dir, NEW c \in Contents[d], Edit(d, c)
      PROVE  Dropping'
  <2>1. Jobs' = Jobs
    BY <1>9 DEF Edit, Jobs
  <2> QED BY <1>9, <2>1, DroppingShrinks DEF Edit, Pruning
<1> QED BY <1>1, <1>2, <1>3, <1>4, <1>5, <1>6, <1>7, <1>8, <1>9 DEF Next

(***************************************************************************)
(* An operation that left the manifest loses its state and does not get it *)
(* back, except by a late plan that still runs it.  (pruneState)           *)
(***************************************************************************)
THEOREM StateIsDropped == Spec => []StateDropped
<1>1. Init => Dropping
  BY DEF Init, Dropping, Pruning, StateDropped
<1>2. Sound /\ Dropping /\ [Next]_vars => Dropping'
  <2> SUFFICES ASSUME Sound, Dropping, UNCHANGED vars
               PROVE  Dropping'
    BY DroppingStep
  <2>1. Jobs' = Jobs
    BY DEF vars, apply, Jobs
  <2> QED BY <2>1, DroppingShrinks DEF vars, process, apply, history, Pruning
<1>3. Dropping => StateDropped
  BY DEF Dropping
<1> QED BY <1>1, <1>2, <1>3, SoundAlways, PTL DEF Spec

-----------------------------------------------------------------------------
(***************************************************************************)
(* Torn files.  A file that is torn has a writer, or had one when its      *)
(* process ended.                                                          *)
(***************************************************************************)
Writing(d, o) == \E u \in tasks : u.phase = "save" /\ u.key = d /\ u.ops[u.i] = o

Accounted ==
  \A d \in Dir, o \in Op : files[d][o] = Torn => <<d, o>> \in left \/ Writing(d, o)

(* Steps that tear nothing and end no writer. *)
LEMMA AccountedStays ==
  ASSUME Accounted,
         \A d \in Dir, o \in Op : files'[d][o] = Torn => files[d][o] = Torn,
         left \subseteq left',
         \A u \in tasks : u.phase = "save" => u \in tasks'
  PROVE  Accounted'
BY DEF Accounted, Writing

LEMMA AccountedExit ==
  ASSUME Accounted, Exit
  PROVE  Accounted'
<1>1. ASSUME NEW d \in Dir, NEW o \in Op, Writing(d, o)
      PROVE  <<d, o>> \in left'
  BY <1>1 DEF Writing, Exit
<1> QED BY <1>1 DEF Accounted, Exit

LEMMA AccountedExecute ==
  ASSUME Sound, Accounted, NEW t \in tasks, Execute(t)
  PROVE  Accounted'
<1> DEFINE u == [t EXCEPT !.phase = "save"]
<1>1. t \in Tasks /\ t.ops[t.i] \in Op /\ t.key \in Dir
  BY TaskOp DEF Sound, Typed, TaskOK, Execute
<1>2. u.phase = "save" /\ u.key = t.key /\ u.ops = t.ops /\ u.i = t.i
  BY <1>1 DEF Tasks
<1>3. tasks' = (tasks \ {t}) \cup {u} /\ t.phase = "exec" /\ left' = left
  BY DEF Execute, Becomes
<1>4. files' = [files EXCEPT ![t.key][t.ops[t.i]] = Torn]
  BY DEF Execute
<1> HIDE DEF u
<1>5. ASSUME NEW d \in Dir, NEW o \in Op, files'[d][o] = Torn
      PROVE  <<d, o>> \in left' \/ Writing(d, o)'
  <2>1. CASE d = t.key /\ o = t.ops[t.i]
    BY <1>2, <1>3, <2>1 DEF Writing
  <2>2. CASE ~(d = t.key /\ o = t.ops[t.i])
    <3>1. files[d][o] = Torn
      BY <1>1, <1>4, <1>5, <2>2 DEF Sound, Typed, TypeOK
    <3> QED BY <1>3, <3>1 DEF Accounted, Writing
  <2> QED BY <2>1, <2>2
<1> QED BY <1>5 DEF Accounted

LEMMA AccountedSave ==
  ASSUME Sound, Accounted, NEW t \in tasks, SaveState(t)
  PROVE  Accounted'
<1>1. t.ops[t.i] \in Op /\ t.key \in Dir /\ t.dir \in Dir
  BY TaskOp DEF Sound, Typed, TaskOK, SaveState
<1>2. files' = [files EXCEPT ![t.key][t.ops[t.i]] =
                  IF files[t.key][t.ops[t.i]] = NoFile THEN files[t.key][t.ops[t.i]] ELSE t.dir]
  BY <1>1 DEF SaveState, Sound, Typed, TypeOK
<1>3. files'[t.key][t.ops[t.i]] # Torn
  BY <1>1, <1>2, PlannerAssumption DEF Sound, Typed, TypeOK
<1>4. left' = left \ {<<t.key, t.ops[t.i]>>} /\ \A u \in tasks : u = t \/ u \in tasks'
  BY DEF SaveState, Becomes
<1>5. ASSUME NEW d \in Dir, NEW o \in Op, files'[d][o] = Torn
      PROVE  <<d, o>> \in left' \/ Writing(d, o)'
  <2>1. ~(d = t.key /\ o = t.ops[t.i])
    BY <1>3, <1>5
  <2>2. files[d][o] = Torn
    BY <1>1, <1>2, <1>5, <2>1 DEF Sound, Typed, TypeOK
  <2>3. CASE <<d, o>> \in left
    BY <1>4, <2>1, <2>3
  <2>4. CASE Writing(d, o)
    BY <1>4, <2>1, <2>4 DEF Writing
  <2> QED BY <2>2, <2>3, <2>4 DEF Accounted
<1> QED BY <1>5 DEF Accounted

LEMMA AccountedStep ==
  ASSUME Sound, Accounted, Next
  PROVE  Accounted'
<1> USE DEF process, apply, history
<1>1. ASSUME NEW as \in Commands, NEW d \in BOOLEAN, Invoke(as, d)
      PROVE  Accounted'
  BY <1>1, AccountedStays DEF Invoke
<1>2. CASE Load \/ SetupState \/ Return \/ Pruned
  BY <1>2, AccountedStays DEF Load, SetupState, Return, Pruned
<1>3. CASE NextArg \/ Fail
  BY <1>3, AccountedExit, AccountedStays DEF NextArg, Fail
<1>4. ASSUME NEW o \in Op, Prune(o)
      PROVE  Accounted'
  <2>1. StateDir \in Dir
    BY <1>4, HereType DEF Sound, Typed, Prune
  <2>2. \A d \in Dir, q \in Op : files'[d][q] = Torn => files[d][q] = Torn
    BY <1>4, <2>1, PlannerAssumption DEF Prune, Sound, Typed, TypeOK
  <2> QED BY <1>4, <2>2, AccountedStays DEF Prune
<1>5. ASSUME NEW p \in Plan, Begin(p)
      PROVE  Accounted'
  BY <1>5, AccountedStays DEF Begin
<1>6. ASSUME NEW l \in late, BeginLate(l)
      PROVE  Accounted'
  BY <1>6, AccountedStays DEF BeginLate
<1>7. ASSUME NEW t \in tasks, ReadState(t) \/ Skip(t) \/ End(t)
      PROVE  Accounted'
  <2>1. t.phase # "save" \/ (t.ops = <<>> /\ TaskOK(t))
    BY <1>7 DEF ReadState, Skip, End, Sound, Typed
  <2>2. t.phase # "save"
    BY <2>1 DEF TaskOK
  <2>3. \A u \in tasks : u = t \/ u \in tasks'
    BY <1>7 DEF ReadState, Skip, End, Becomes
  <2> QED BY <1>7, <2>2, <2>3, AccountedStays DEF ReadState, Skip, End
<1>8. ASSUME NEW t \in tasks, Execute(t)
      PROVE  Accounted'
  BY <1>8, AccountedExecute
<1>9. ASSUME NEW t \in tasks, SaveState(t)
      PROVE  Accounted'
  BY <1>9, AccountedSave
<1>10. ASSUME NEW d \in Dir, NEW c \in Contents[d], Edit(d, c)
       PROVE  Accounted'
  BY <1>10, AccountedStays DEF Edit
<1> QED BY <1>1, <1>2, <1>3, <1>4, <1>5, <1>6, <1>7, <1>8, <1>9, <1>10 DEF Next

(***************************************************************************)
(* A plan that finds a torn state file finds one that a worker is writing, *)
(* or was writing when its process ended.  (readOpStates)                  *)
(***************************************************************************)
THEOREM TornReadsExplained == Spec => []NoTornRead
<1>1. Init => Accounted
  BY PlannerAssumption DEF Init, Accounted
<1>2. Sound /\ Accounted /\ [Next]_vars => Accounted'
  <2> SUFFICES ASSUME Sound, Accounted, UNCHANGED vars
               PROVE  Accounted'
    BY AccountedStep
  <2> QED BY AccountedStays DEF vars, apply, history
<1>3. Sound /\ Accounted => NoTornRead
  <2> SUFFICES ASSUME Sound, Accounted, NEW t \in tasks, t.phase = "read", t.ops # <<>>,
                      files[t.key][t.ops[t.i]] = Torn
               PROVE  <<t.key, t.ops[t.i]>> \in left \/ Writing(t.key, t.ops[t.i])
    BY DEF NoTornRead, Writing
  <2>1. t.ops[t.i] \in Op /\ t.key \in Dir
    BY TaskOp DEF Sound, Typed
  <2> QED BY <2>1 DEF Accounted
<1> QED BY <1>1, <1>2, <1>3, SoundAlways, PTL DEF Spec
=============================================================================
