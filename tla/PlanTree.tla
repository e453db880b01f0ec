------------------------------ MODULE PlanTree ------------------------------
(***************************************************************************)
(* The compiled manifest that planner/execute schedules: a main plan and   *)
(* the plans it reaches through its "dependency" operations                *)
(* (Plan.Dependencies) and its "plan" operations (Plan.Plans).             *)
(*                                                                         *)
(* compiler.readPlan allocates one *Plan per name and every reference to   *)
(* the name is that pointer, so a plan is identified by a member of Plan,  *)
(* whichever of the two the code uses as a map key.                        *)
(***************************************************************************)
EXTENDS Naturals, Sequences, SequencesExt

CONSTANTS Plan,     \* the plans of the manifest
          Main,     \* the plan compiled from polyester.sh
          Trees     \* the manifests considered

(***************************************************************************)
(* deps[p] and plans[p] are the Dependencies and Plans of p in the order   *)
(* of the script; ops[p] says whether p has an operation of its own, that  *)
(* is, whether len(p.RealOps()) > 0.                                       *)
(***************************************************************************)
Tree == [deps  : [Plan -> Seq(Plan)],
         plans : [Plan -> Seq(Plan)],
         ops   : [Plan -> BOOLEAN]]

ASSUME TreeAssumption == /\ Main \in Plan
                         /\ Trees \subseteq Tree

DepsOf(t, p) == ToSet(t.deps[p])

(***************************************************************************)
(* The plans the manifest reaches from Main: the smallest set that holds   *)
(* Main and, with a plan, its dependencies and its sub-plans.              *)
(***************************************************************************)
Closed(t, S) == \A p \in S : DepsOf(t, p) \cup ToSet(t.plans[p]) \subseteq S

InTree(t) ==
  {p \in Plan : \A S \in SUBSET Plan : Main \in S /\ Closed(t, S) => p \in S}

(***************************************************************************)
(* How a plan can end.  A plan whose operations ran gives a PlanResult     *)
(* ("ok"), one whose operation failed a PlanResult that carries an error   *)
(* and no Plan ("err"), and one that has no operation of its own a nil     *)
(* *PlanResult ("nil").  Reading the states of a plan without operations,  *)
(* or printing its summary, can fail as well.                              *)
(***************************************************************************)
Outcomes(t, p) == IF t.ops[p] THEN {"ok", "err"} ELSE {"nil", "err"}

Result == [plan : Plan, outcome : {"ok", "err", "nil"}]

Succeeded(S) == {r.plan : r \in {s \in S : s.outcome = "ok"}}
=============================================================================
