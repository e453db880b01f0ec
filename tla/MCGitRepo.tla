----------------------------- MODULE MCGitRepo ------------------------------
(* Instances of GitRepo for TLC. *)
EXTENDS GitRepo

CONSTANTS main, stable, next

MCBranch == {main, stable, next}

(* "next" stands for a branch such as next/main, whose last part is "main" *)
MCRefName == [b \in MCBranch |-> IF b = next THEN main ELSE b]
=============================================================================
