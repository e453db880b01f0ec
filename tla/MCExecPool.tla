----------------------------- MODULE MCExecPool -----------------------------
(***************************************************************************)
(* Manifests for ExecPool.  Between each pair of plans there is no edge, a *)
(* dependency or a sub-plan, edges only go from a plan to a later one (the *)
(* compiler gives up on a cycle before the pool exists), and every plan is *)
(* reached from main.                                                      *)
(***************************************************************************)
EXTENDS ExecPool

CONSTANTS main, a, b, c

SeqOfPlans(order, S) == SelectSeq(order, LAMBDA p : p \in S)

Shape(order, edge, ops) ==
  LET later(i, kind) == {order[j] : j \in {k \in i + 1 .. Len(order) : edge[<<i, k>>] = kind}}
      at(p)          == CHOOSE i \in DOMAIN order : order[i] = p
  IN [deps  |-> [p \in Plan |-> IF p \in ToSet(order)
                                THEN SeqOfPlans(order, later(at(p), "dep")) ELSE <<>>],
      plans |-> [p \in Plan |-> IF p \in ToSet(order)
                                THEN SeqOfPlans(order, later(at(p), "sub")) ELSE <<>>],
      ops   |-> ops]

Pairs(k) == {e \in (1 .. k) \X (1 .. k) : e[1] < e[2]}

AllTrees(order, ops) ==
  {t \in {Shape(order, edge, o) :
            edge \in [Pairs(Len(order)) -> {"none", "dep", "sub"}], o \in ops} :
     InTree(t) = ToSet(order)}

WithOps(S) == [p \in Plan |-> p \in S]

TwoPlans   == {main, a}
ThreePlans == {main, a, b}
FourPlans  == {main, a, b, c}

(* All manifests of main and a, with and without operations of their own;  *)
(* all of main, a and b where the plans that name others either both have  *)
(* operations of their own or both only group.                             *)
TreesOfTwo   == AllTrees(<<main, a>>, {WithOps(S) : S \in SUBSET TwoPlans})
TreesOfThree == AllTrees(<<main, a, b>>, {WithOps(S \cup {b}) : S \in {{}, {main, a}}})

(* testdata/basic without ergo, which nothing names: main runs gitty (a)   *)
(* and touchy (b), and touchy depends on first-touch (c).                  *)
BasicTree ==
  Shape(<<main, a, b, c>>,
        [e \in Pairs(4) |-> CASE e \in {<<1, 2>>, <<1, 3>>} -> "sub"
                             [] e = <<3, 4>> -> "dep"
                             [] OTHER -> "none"],
        WithOps(Plan))

(* A dependency of a dependency; a sub-plan that main also depends on with *)
(* a dependency of its own; a main plan that only groups two sub-plans.    *)
ChainTree ==
  Shape(<<main, a, b>>,
        [e \in Pairs(3) |-> IF e = <<1, 3>> THEN "none" ELSE "dep"],
        WithOps(Plan))

GroupTree ==
  Shape(<<main, a, b>>,
        [e \in Pairs(3) |-> IF e[1] = 1 THEN "sub" ELSE "dep"],
        WithOps(Plan \ {main}))

ThreeAndBasic == TreesOfThree \cup {BasicTree}
ChainAndGroup == {ChainTree, GroupTree}

(* Every manifest of two plans, and those of three whose plans all have    *)
(* operations of their own; one of which main only groups the others.      *)
TwoAndThree ==
  TreesOfTwo \cup AllTrees(<<main, a, b>>, {WithOps(ThreePlans)}) \cup {GroupTree}
=============================================================================
