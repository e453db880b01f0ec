----------------------------- MODULE MCPlanner ------------------------------
(* Instances of Planner for TLC. *)
EXTENDS Planner

CONSTANTS a, b,       \* two manifests
          c,          \* a directory a/c with a polyester.sh
          web,        \* a plan
          x, y        \* operations

MCDir  == {a, b, c}
MCPlan == {Main, web}

(* `apply a/c` applies a. *)
MCAbove == [d \in MCDir |-> IF d = c THEN a ELSE d]

Manifest(deps, plans, own, webOps) ==
  [deps  |-> [p \in MCPlan |-> IF p = Main THEN deps ELSE {}],
   plans |-> [p \in MCPlan |-> IF p = Main THEN plans ELSE {}],
   ops   |-> [p \in MCPlan |-> IF p = Main THEN own ELSE webOps]]

(* x alone; y in a plan that is a dependency; x in main and in a sub-plan  *)
MCContents ==
  [d \in MCDir |->
     IF d # a THEN {Manifest({}, {web}, <<>>, <<x>>)}
              ELSE {Manifest({}, {}, <<x>>, <<>>),
                    Manifest({web}, {}, <<x>>, <<y>>),
                    Manifest({}, {web}, <<y, x>>, <<x>>)}]

(* apply m/file.sh, one manifest twice and two manifests in one process; a *)
(* process can fail after the first argument, as if that were all.         *)
Whole(d) == [root |-> d, file |-> "polyester.sh"]
MCCommands == {<<[root |-> a, file |-> "other"]>>,
               <<Whole(c), Whole(a)>>, <<Whole(b), Whole(a)>>}

(* Two paths have two keys, but for pairs such as /a-b and /a/b.           *)
OwnKeys == [d \in MCDir |-> d]
=============================================================================
