----------------------------- MODULE MCManifest -----------------------------
(* Instances of Manifest for TLC. *)
EXTENDS Manifest

Alphabet == <<"..\\c:\\x", "..\\plan.sh", "a", "a\\b", "b", "c:", "files", "plan.sh", "plans",
              "polyester.sh", "x">>

MCPart == ToSet(Alphabet)

(* A directory that becomes two, a file that becomes the script of its     *)
(* plan and one that is on a drive.                                        *)
MCSplit == [p \in MCPart |-> CASE p = "a\\b" -> <<"a", "b">>
                                [] p = "..\\plan.sh" -> <<"..", "plan.sh">>
                                [] p = "..\\c:\\x" -> <<"..", "c:", "x">>
                                [] OTHER -> <<p>>]

MCDotted == {"..", "..\\c:\\x", "..\\plan.sh"}

MCAsRead == [d \in Data |-> IF d = 3 THEN 1 ELSE d]    \* 3 is 1 after the mark

MCRank == [p \in MCPart |-> CHOOSE i \in DOMAIN Alphabet : Alphabet[i] = p]

MCKindTurn == [k \in Kinds |-> 1]

MainPath == <<"polyester.sh">>

Plan(path) == Append(<<"plans">> \o path, "plan.sh")

InA == <<"plans", "a", "files", "x">>

(* Files, plans and their files, a plan within a plan, with and without    *)
(* one of its name below plans/, a plan below another and in a plain       *)
(* directory, one among another's files, one whose directory is plans/     *)
(* itself, and a file where a directory should be.                         *)
Optional == {{}, {<<"files", "x">>, Plan(<<"b">>)},
             {Plan(<<"a">>), Plan(<<"b">>), InA},
             {Plan(<<"a">>), Plan(<<"a", "plans", "b">>)},
             {Plan(<<"a">>), Plan(<<"a", "plans", "b">>), Plan(<<"b">>)},
             {Plan(<<"x">>), Plan(<<"x", "b">>)},
             {Plan(<<"a">>), InA, Plan(<<"a", "files", "b">>)},
             {Plan(<<"x", "b">>), Plan(<<"b">>)}, {Plan(<<>>)},
             {Plan(<<"a">>), <<"plans", "a", "files">>},
             {Plan(<<"a\\b">>), <<"plans", "a\\b", "files", "..\\plan.sh">>},
             {<<"files", "..\\c:\\x">>}}

Content(p) == IF p \in {MainPath, Plan(<<"b">>)} THEN 1 ELSE IF p = InA THEN 3 ELSE 2

MCTrees == {[p \in S \cup {MainPath} |-> Content(p)] : S \in Optional}
=============================================================================
