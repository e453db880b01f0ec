----------------------------- MODULE MCPlanExec -----------------------------
(***************************************************************************)
(* Plans for PlanExec: short scripts of the kinds of operation the program *)
(* has.                                                                    *)
(***************************************************************************)
EXTENDS PlanExec

CONSTANTS x, y, z, w, t, u, nowhere, args

Copy(s, d) ==                \* copy, atomic-copy: the destination is tracked twice
  [source |-> {s, d}, target |-> {d}, from |-> s, to |-> d,
   named |-> {d}, stamped |-> TRUE, rewrites |-> TRUE, keeps |-> FALSE,
   desired |-> FALSE]

PcopyNested(s, d) ==         \* pcopy: checksums only
  [Copy(s, d) EXCEPT !.stamped = FALSE]

(* When the manifest is applied by the name of its directory, Resolve cuts *)
(* the directory off the paths it found, and pcopy looks for the states of *)
(* its sources in the root of the file system, where they are not.  It     *)
(* still copies the right files.                                           *)
Pcopy(s, d) ==
  [PcopyNested(s, d) EXCEPT !.source = {nowhere, d}, !.named = {nowhere, d}]

Shell(s, d, targets) ==      \* sh --on-change s --target targets
  [source |-> {s}, target |-> targets, from |-> s, to |-> d,
   named |-> {}, stamped |-> TRUE, rewrites |-> FALSE, keeps |-> FALSE,
   desired |-> FALSE]

Always(s, d) ==              \* sh without flags
  [Shell(s, d, {}) EXCEPT !.source = {}]

Template(s, d) ==            \* template
  [source |-> {d}, target |-> {}, from |-> s, to |-> d,
   named |-> {d}, stamped |-> FALSE, rewrites |-> TRUE, keeps |-> FALSE,
   desired |-> TRUE]

(* touch: mode and time of its file; one that exists is left alone.        *)
Touch(d) ==
  [source |-> {d}, target |-> {}, from |-> args, to |-> d,
   named |-> {d}, stamped |-> TRUE, rewrites |-> FALSE, keeps |-> TRUE,
   desired |-> FALSE]

(* mkdir: the mode of its directory, without a time; the mode is one that  *)
(* the umask does not cut.                                                 *)
Mkdir(d) == [Touch(d) EXCEPT !.stamped = FALSE, !.keeps = FALSE]

(* apt-install: an entry for what was requested, and one of the version    *)
(* that is installed, which apt leaves alone.                              *)
AptInstall(d) == [Touch(d) EXCEPT !.source = {args, d}, !.stamped = FALSE]

(* useradd: one entry, which is there without attributes when the user is  *)
(* not, in a state file as well.                                           *)
Useradd(d) ==
  [Mkdir(d) EXCEPT !.source = {args, d}, !.named = {}]

Cells == {x, y, z, w, t, u, nowhere, args}

(* Chains through the machine, in the kinds of operation that tell a       *)
(* change differently; an operation that only the cascade makes run; the   *)
(* same operation twice; one that always runs.                             *)
SomeScripts == {<<Copy(x, y), Copy(y, z)>>,
                <<PcopyNested(x, y), Shell(y, z, {z})>>,
                <<PcopyNested(x, y), PcopyNested(y, z)>>,
                <<Pcopy(x, y), Copy(y, z)>>,
                <<Template(x, t), Copy(t, z)>>,
                <<Shell(x, y, {y}), Shell(w, u, {})>>,
                <<Shell(x, y, {y}), Shell(y, u, {}), Shell(y, u, {})>>,
                <<Shell(x, y, {}), Always(x, u)>>,
                <<Touch(y), Copy(y, z)>>,
                <<Mkdir(y), Shell(y, u, {})>>,
                <<AptInstall(w), Useradd(u)>>}
=============================================================================
