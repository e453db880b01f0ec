----------------------------- MODULE MCCompiler -----------------------------
(* Instances of Compiler for TLC. *)
EXTENDS Compiler

CONSTANTS a, b

MCName == {Root, a, b, Main}

C(kind, arg) == [kind |-> kind, arg |-> arg]

Op == C("op", None)

Refer(S) == {C(kind, arg) : kind \in {"plan", "dependency"}, arg \in S}

Single(S) == {<<>>} \cup {<<c>> : c \in S}

RootCommand == {Op, C("broken", None), C("quoted", None)} \cup Refer({a, b})
                 \cup {C("plan", Main), C("plan", Missing)}

RootScript == Single(RootCommand) \cup {<<c, d>> : c, d \in RootCommand}

AScript == Single({C("broken", None), C("plan", Root)} \cup Refer({b}))
             \cup {<<Op, Op, Op>>, <<Op, C("dependency", Main)>>}

BScript == Single({C("dependency", a), C("dependency", Missing)})

MainScript == Single({C("dependency", a)})

MCScripts == {[n \in MCName |-> CASE n = Root -> r [] n = a -> x [] n = b -> y [] n = Main -> z] :
                r \in RootScript, x \in AScript, y \in BScript, z \in MainScript}
=============================================================================
