---------------------------- MODULE PlanSchedule ----------------------------
(***************************************************************************)
(* What execute.Execute promises of the plans of a manifest, in the words  *)
(* of its "safety checks": a plan only runs once per apply run, and all of *)
(* a plan's dependencies must run before it is run.  A dependency has run  *)
(* when its operations succeeded.  No pool, queue or worker appears here:  *)
(* module ExecPool is shown to implement this one.                         *)
(***************************************************************************)
EXTENDS PlanTree

VARIABLES tree,       \* the manifest being applied
          started,    \* the plans whose execution began
          finished    \* the results of the plans whose execution ended

vars == <<tree, started, finished>>

TypeOK == /\ tree \in Trees
          /\ started \subseteq Plan
          /\ finished \subseteq Result

Init == /\ tree \in Trees
        /\ started = {}
        /\ finished = {}

Begin(p) ==
  /\ p \notin started
  /\ DepsOf(tree, p) \subseteq Succeeded(finished)
  /\ started' = started \cup {p}
  /\ UNCHANGED <<tree, finished>>

End(p, o) ==
  /\ p \in started
  /\ \A r \in finished : r.plan # p
  /\ o \in Outcomes(tree, p)
  /\ finished' = finished \cup {[plan |-> p, outcome |-> o]}
  /\ UNCHANGED <<tree, started>>

Next == \E p \in Plan : \/ Begin(p)
                        \/ \E o \in Outcomes(tree, p) : End(p, o)

Spec == Init /\ [][Next]_vars
=============================================================================
