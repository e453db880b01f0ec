------------------------------ MODULE Compiler ------------------------------
(***************************************************************************)
(* Compiling a manifest (compiler/): each script runs as a child process   *)
(* whose polyester commands write the operations they declare to a pipe;   *)
(* what the pipe held is parsed into plans, references between plans are   *)
(* resolved by name, and Plan.All lists and sorts what the main plan       *)
(* reaches.                                                                *)
(*                                                                         *)
(* A script is the sequence of polyester commands its shell gets to, and   *)
(* runs them one after the other.  A command is                            *)
(*   "op"          an operator that does something,                        *)
(*   "quoted"      one whose arguments, as YAML, do not parse as shell,    *)
(*   "plan" and "dependency"  a reference to the plan arg,                 *)
(*   "broken"      one that exits with an error before it declares.        *)
(***************************************************************************)
EXTENDS Naturals, FiniteSets, Sequences, SequencesExt, Filter

CONSTANTS Name,       \* the names of scripts: polyester.sh and m.Plans
          Root,       \* "polyester.sh"
          Main,       \* "main", which may be the name of a plan as well
          Missing,    \* a name that no script has
          None, Top,  \* no argument; the plan that readPlan returns
          Cap,        \* the writes that a pipe holds
          MaxDepth,   \* the calls of allPlans that Go's stack holds
          Sep,        \* "---", the second write of Encode
          Scripts     \* the manifests considered

Target  == Name \cup {Missing}
Command == [kind : {"op", "quoted", "broken"}, arg : {None}]
             \cup [kind : {"plan", "dependency"}, arg : Target]

ASSUME CompilerAssumption ==
  /\ IsFiniteSet(Name) /\ Root \in Name /\ Main # Root
  /\ {Missing, None, Top} \cap (Name \cup {Main}) = {} /\ Missing # Top
  /\ Cap \in Nat
  /\ MaxDepth \in Nat /\ MaxDepth > Cardinality(Name) + 1
  /\ Scripts \subseteq [Name -> Seq(Command)]
  /\ Sep \notin Command

Object == Name \cup {Top}              \* a *Plan

NameOf(p) == IF p = Top THEN Main ELSE p

Names(S) == {NameOf(p) : p \in S}

VARIABLES
  script,        \* the manifest, constant
  phase,         \* "run", "copy", "read", "list", "sort" and the four ends
  left, cur,     \* the plans to run after cur, the one that runs
  calls, half,   \* the child: its commands to come, is the first half-written?
  failed,        \* the exit status of its last command
  pipe, open,    \* what the pipe holds, does the parent hold its write end?
  buf, compiled, \* execOne's buffer, im.compiled
  stack,         \* the calls of allPlans under way
  seen, all,     \* its results
  deps, resolved \* of sortPlans

child == <<calls, half, failed>>
lists == <<stack, seen, all>>
sorts == <<deps, resolved>>
vars  == <<script, phase, left, cur, child, pipe, open, buf, compiled, lists, sorts>>

Init ==
  /\ script \in Scripts
  /\ phase = "run" /\ left = Name \ {Root} /\ cur = Root
  /\ calls = script[Root] /\ half = FALSE /\ failed = FALSE
  /\ pipe = <<>> /\ open = TRUE /\ buf = <<>>
  /\ compiled = [n \in {} |-> <<>>]
  /\ stack = <<>> /\ seen = {} /\ all = <<>>
  /\ deps = [n \in {} |-> {}] /\ resolved = <<>>

-----------------------------------------------------------------------------
(* The child.  It shares the pipe with the parent, which waits for it.     *)

Broken ==
  /\ phase = "run" /\ calls # <<>> /\ Head(calls).kind = "broken"
  /\ calls' = Tail(calls) /\ failed' = TRUE
  /\ UNCHANGED <<script, phase, left, cur, half, pipe, open, buf, compiled, lists, sorts>>

(* appendToFile and Encode: the operation, then the mark that ends it. *)
Declare ==
  /\ phase = "run" /\ calls # <<>> /\ Head(calls).kind # "broken"
  /\ Len(pipe) < Cap
  /\ pipe' = Append(pipe, IF half THEN Sep ELSE Head(calls))
  /\ half' = ~half
  /\ calls' = IF half THEN Tail(calls) ELSE calls
  /\ failed' = FALSE
  /\ UNCHANGED <<script, phase, left, cur, open, buf, compiled, lists, sorts>>

-----------------------------------------------------------------------------
(* The parent. *)

ReturnsOpen ==                          \* defect: the write end stays open
  /\ phase = "run" /\ calls = <<>>
  /\ phase' = IF failed THEN "failed" ELSE "copy"
  /\ UNCHANGED <<script, left, cur, child, pipe, open, buf, compiled, lists, sorts>>

(* cmd.Run returns when the child has exited, and w is closed. *)
Returns ==
  /\ phase = "run" /\ calls = <<>>
  /\ IF failed THEN phase' = "failed" /\ open' = open
               ELSE phase' = "copy" /\ open' = FALSE
  /\ UNCHANGED <<script, left, cur, child, pipe, buf, compiled, lists, sorts>>

Copy ==
  /\ phase = "copy" /\ pipe # <<>>
  /\ buf' = Append(buf, Head(pipe)) /\ pipe' = Tail(pipe)
  /\ UNCHANGED <<script, phase, left, cur, child, open, compiled, lists, sorts>>

(* io.Copy is at the end of the pipe: execOne returns, and Compile goes on *)
(* with the next script, in the order of a Go map.                         *)
Copied ==
  /\ phase = "copy" /\ pipe = <<>> /\ ~open
  /\ compiled' = [n \in DOMAIN compiled \cup {cur} |-> IF n = cur THEN buf ELSE compiled[n]]
  /\ \/ /\ left = {} /\ phase' = "read"
        /\ UNCHANGED <<left, cur, child, open, buf>>
     \/ \E n \in left :
          /\ phase' = "run" /\ cur' = n /\ left' = left \ {n}
          /\ calls' = script[n] /\ half' = FALSE /\ failed' = FALSE
          /\ open' = TRUE /\ buf' = <<>>
  /\ UNCHANGED <<script, pipe, lists, sorts>>

(* readOnePlan: splitOp cuts at the marks, and a lone mark is no operation. *)
Operations(n) == Filter(compiled[n], Command)

(* resolveOnePlan: a name with no plan resolves to a nil *Plan. *)
RefsOf(p, kind) ==
  LET refs == Filter(Operations(IF p = Top THEN Root ELSE p), [kind : {kind}, arg : Target])
  IN  [i \in DOMAIN refs |-> refs[i].arg]

Dependencies(p) == RefsOf(p, "dependency")
Plans(p)        == RefsOf(p, "plan")

Frame(p) == [plan |-> p, rest |-> Dependencies(p) \o Plans(p)]

(* preValidate, which parses what was compiled as shell, and readPlan; the *)
(* callers call Plan.All next.                                             *)
Read ==
  /\ phase = "read"
  /\ IF \E n \in Name : \E w \in ToSet(Operations(n)) : w.kind = "quoted"
       THEN phase' = "failed" /\ UNCHANGED stack
       ELSE phase' = "list" /\ stack' = <<Frame(Top)>>
  /\ UNCHANGED <<script, left, cur, child, pipe, open, buf, compiled, seen, all, sorts>>

FollowKnown ==                          \* defect: a nil plan is passed over
  /\ phase = "list" /\ stack # <<>> /\ Last(stack).rest # <<>>
  /\ LET p == Head(Last(stack).rest)
         called == [stack EXCEPT ![Len(stack)].rest = Tail(@)]
     IN  IF Len(stack) = MaxDepth
           THEN phase' = "overflow" /\ UNCHANGED stack
           ELSE phase' = phase /\ stack' = IF p = Missing THEN called ELSE Append(called, Frame(p))
  /\ UNCHANGED <<script, left, cur, child, pipe, open, buf, compiled, seen, all, sorts>>

(* allPlans calls itself for the next reference, whether it was seen or    *)
(* not: dereferencing nil is a panic, a stack that is full the end.        *)
Follow ==
  /\ phase = "list" /\ stack # <<>> /\ Last(stack).rest # <<>>
  /\ LET p == Head(Last(stack).rest)
         called == [stack EXCEPT ![Len(stack)].rest = Tail(@)]
     IN  \/ /\ Len(stack) = MaxDepth
            /\ phase' = "overflow" /\ UNCHANGED stack
         \/ /\ Len(stack) < MaxDepth /\ p = Missing
            /\ phase' = "panicked" /\ UNCHANGED stack
         \/ /\ Len(stack) < MaxDepth /\ p # Missing
            /\ stack' = Append(called, Frame(p)) /\ UNCHANGED phase
  /\ UNCHANGED <<script, left, cur, child, pipe, open, buf, compiled, seen, all, sorts>>

VisitedUnmarked ==                      \* defect: seen stays empty
  /\ phase = "list" /\ stack # <<>> /\ Last(stack).rest = <<>>
  /\ all' = Append(all, Last(stack).plan)
  /\ stack' = Front(stack)
  /\ UNCHANGED <<script, phase, left, cur, child, pipe, open, buf, compiled, seen, sorts>>

(* allPlans returns: after its references a plan lists itself, unless the  *)
(* name is there; sortPlans starts when the outermost call is done.        *)
Visited ==
  /\ phase = "list" /\ stack # <<>> /\ Last(stack).rest = <<>>
  /\ LET p == Last(stack).plan
     IN  /\ all'  = IF NameOf(p) \in seen THEN all ELSE Append(all, p)
         /\ seen' = seen \cup {NameOf(p)}
  /\ stack' = Front(stack)
  /\ UNCHANGED <<script, phase, left, cur, child, pipe, open, buf, compiled, sorts>>

Listed ==
  /\ phase = "list" /\ stack = <<>>
  /\ phase' = "sort"
  /\ deps' = [n \in Names(ToSet(all)) |->
                LET p == CHOOSE p \in ToSet(all) : NameOf(p) = n
                IN  Names(ToSet(Dependencies(p)))]
  /\ UNCHANGED <<script, left, cur, child, pipe, open, buf, compiled, lists, resolved>>

(* One round of sortPlans: those that wait for nothing, in any order. *)
Ready == {n \in DOMAIN deps : deps[n] = {}}

ObjectOf(n) == CHOOSE p \in ToSet(all) : NameOf(p) = n

Rounds(ready) ==
  /\ phase = "sort" /\ DOMAIN deps # {}
  /\ IF ready = {}
       THEN phase' = "failed" /\ UNCHANGED sorts    \* circular dependency
       ELSE /\ deps' = [n \in DOMAIN deps \ ready |-> deps[n] \ ready]
            /\ \E order \in SetToSeqs(ready) :
                 resolved' = resolved \o [i \in DOMAIN order |-> ObjectOf(order[i])]
            /\ UNCHANGED phase
  /\ UNCHANGED <<script, left, cur, child, pipe, open, buf, compiled, lists>>

RoundEarly ==                           \* defect: off by one
  Rounds({n \in DOMAIN deps : Cardinality(deps[n]) <= 1})

Round == Rounds(Ready)

(* The plan named "main" goes to the end. *)
Sorted ==
  /\ phase = "sort" /\ DOMAIN deps = {}
  /\ resolved' =
       IF \E i \in DOMAIN resolved : NameOf(resolved[i]) = Main
         THEN LET idx == CHOOSE i \in DOMAIN resolved : NameOf(resolved[i]) = Main
              IN  Append(RemoveAt(resolved, idx), resolved[idx])
         ELSE resolved
  /\ phase' = "ok"
  /\ UNCHANGED <<script, left, cur, child, pipe, open, buf, compiled, lists, deps>>

Next == \/ Broken \/ Declare
        \/ Returns \/ Copy \/ Copied \/ Read
        \/ Follow \/ Visited \/ Listed \/ Round \/ Sorted

(* Fairness: the parent and the child are processes that the system runs;  *)
(* a write to a full pipe is not enabled.                                  *)
Spec == Init /\ [][Next]_vars /\ WF_vars(Next)

-----------------------------------------------------------------------------
(* What the scripts say, whatever the compiler does with them. *)

Declared(s) == Cardinality({i \in DOMAIN s : s[i].kind # "broken"})

Fitting == {s \in Scripts : \A n \in Name : 2 * Declared(s[n]) <= Cap}

Fits == script \in Fitting

Says(n, kinds) == {c.arg : c \in {c \in ToSet(script[n]) : c.kind \in kinds}}

Refs(n) == Says(n, {"plan", "dependency"}) \ {Missing}

Closed(S) == \A n \in S : Refs(n) \subseteq S

(* The plans that the references of n lead to. *)
Reach(n) == {m \in Name : \A S \in SUBSET Name : Refs(n) \subseteq S /\ Closed(S) => m \in S}

Above == {Root} \cup Reach(Root)

Known   == \A n \in Above : Missing \notin Says(n, {"plan", "dependency"})
Acyclic == \A n \in Above : n \notin Reach(n)
Exits(n) == script[n] = <<>> \/ Last(script[n]).kind # "broken"
Shell   == \A n \in Name : "quoted" \notin {c.kind : c \in ToSet(script[n])}

-----------------------------------------------------------------------------
Ends == {"ok", "failed", "panicked", "overflow"}

(* Types; a pipe never holds more than its capacity, and a script starts   *)
(* with an empty pipe of its own.                                          *)
TypeOK ==
  /\ script \in [Name -> Seq(Command)]
  /\ phase \in {"run", "copy", "read", "list", "sort"} \cup Ends
  /\ cur \in Name /\ left \subseteq Name \ {cur}
  /\ calls \in Seq(Command) /\ half \in BOOLEAN /\ failed \in BOOLEAN
  /\ pipe \in Seq(Command \cup {Sep}) /\ Len(pipe) <= Cap
  /\ open \in BOOLEAN /\ buf \in Seq(Command \cup {Sep})
  /\ DOMAIN compiled \subseteq Name
  /\ \A n \in DOMAIN compiled : compiled[n] \in Seq(Command \cup {Sep})
  /\ stack \in Seq([plan : Object, rest : Seq(Target)]) /\ Len(stack) <= MaxDepth
  /\ seen \subseteq Name \cup {Main} /\ all \in Seq(Object)
  /\ DOMAIN deps \subseteq seen /\ \A n \in DOMAIN deps : deps[n] \subseteq seen
  /\ resolved \in Seq(Object)

(* A compiled manifest whose plans are listed is one in which everything   *)
(* was right, and each other end has its reason: a script that exits with  *)
(* an error or declares what does not parse, an unknown name, a cycle.     *)
(* None of them is reported for a part that the main plan does not reach,  *)
(* except for the scripts, which all run.                                  *)
EndsForAReason ==
  /\ phase = "ok" => /\ Fits /\ Known /\ Acyclic /\ Shell
                     /\ \A n \in Name : Exits(n)
  /\ phase = "failed"   => ~Shell \/ \E n \in Name : ~Exits(n)
  /\ phase = "panicked" => ~Known
  /\ phase = "overflow" => ~Acyclic

(* What All returns: each plan that the main plan reaches, once, after     *)
(* what it depends on, and the main plan at the end.  A plan that is       *)
(* itself called "main" takes the place of the main plan.                  *)
DependencyOrder ==
  phase = "ok" =>
    LET at(p) == CHOOSE i \in DOMAIN resolved : resolved[i] = p
    IN  /\ ToSet(resolved) = Reach(Root) \cup (IF Main \in Reach(Root) THEN {} ELSE {Top})
        /\ Len(resolved) = Cardinality(ToSet(resolved))
        /\ NameOf(Last(resolved)) = Main
        /\ \A p \in ToSet(resolved) \ {Main, Top} : \A q \in Says(p, {"dependency"}) \ {Main} :
             at(q) < at(p)

(* Compiling ends, unless a script declares more than the pipe holds: then *)
(* only a script that fails before it does so ends it.                     *)
Finishes ==
  Fits ~> phase \in Ends
=============================================================================
