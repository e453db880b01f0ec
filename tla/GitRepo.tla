------------------------------ MODULE GitRepo -------------------------------
(***************************************************************************)
(* The git-repo operator (operator/gitop): applies of one git-repo         *)
(* operation to a clone, while others push to the remote repository,       *)
(* rewind it, and remove the clone.  An apply reads the operation's state  *)
(* (which fetches), decides as executeOperation does, runs the operation   *)
(* and records the state it reads after it, with a second fetch.  How a    *)
(* state file itself is written is the subject of PlanExec.                *)
(*                                                                         *)
(* Commits are numbered along one line of history, and a branch of the     *)
(* remote is any point of it.  The clone knows its HEAD (a branch, or a    *)
(* commit when it is detached), the loose refs of its local branches, the  *)
(* remote branches as it last fetched them, and the commits it holds.      *)
(***************************************************************************)
EXTENDS Naturals, FiniteSets

CONSTANTS Branch,      \* branches of the remote
          Default,     \* the one its HEAD names
          RefName,     \* the branch that has the last part of its name as name
          MaxCommit,   \* bound: length of the history
          Tag,         \* a tag (released versions that are not a commit id)
          Tagged,      \* the commit the tag names
          NoRef, HeadRef, NoVersion, NoCommit,  \* "", "HEAD", "" and ""
          MaxPushes    \* bound: changes of the remote

Commit == 1 .. MaxCommit

Ref     == Branch \cup {NoRef, HeadRef}
Version == Commit \cup {Tag, NoVersion}

ASSUME GitAssumption ==
  /\ Default \in Branch /\ RefName \in [Branch -> Branch]
  /\ MaxCommit \in Nat /\ MaxPushes \in Nat
  /\ Tagged \in Commit
  /\ Branch \cap (Commit \cup {NoRef, HeadRef}) = {}
  /\ NoRef # HeadRef
  /\ {Tag, NoVersion, NoCommit} \cap Commit = {} /\ Tag # NoVersion

History(heads) == UNION {1 .. heads[b] : b \in Branch}

Repo == [kind : {"repo"}, head : Branch \cup Commit,
         local : UNION {[B -> Commit] : B \in SUBSET Branch},
         origin : [Branch -> Commit], objects : SUBSET Commit]

Absent   == [kind |-> "absent"]
OtherDir == [kind |-> "dir"]            \* dest exists and is not a clone

Empty == [local |-> NoCommit, remote |-> NoCommit, version |-> NoVersion]

GitState == [local : Commit, remote : Commit \cup {NoCommit}, version : Version] \cup {Empty}

VARIABLES
  ref, version,   \* RepoOpts, constant
  remote,         \* the heads of the remote's branches
  clone,          \* what is at dest
  saved,          \* the state file of the operation
  pc, dry, prev, curr,      \* as in PlanExec, for this operation
  \* History: no guard reads it.
  fresh,          \* did an apply succeed, undisturbed, since the last change?
  quiet,          \* has nothing changed since this apply read the state?
  missed,         \* was there a push during an apply, or an apply that died after
                  \* its Run, and no undisturbed Record since?
  pushes          \* for the bound

apply   == <<pc, dry, prev, curr>>
history == <<fresh, quiet, missed, pushes>>
vars    == <<ref, version, remote, clone, saved, apply, history>>

(* git clone: HEAD on the branch asked for, the only local branch. *)
Cloned(b) == [kind |-> "repo", head |-> b, local |-> [x \in {b} |-> remote[b]],
              origin |-> remote, objects |-> History(remote)]

Init ==
  /\ ref \in Ref /\ version \in Version
  /\ remote \in [Branch -> Commit]
  /\ clone \in {Absent, OtherDir} \cup {Cloned(b) : b \in Branch}
  /\ saved = Empty
  /\ pc = "idle" /\ dry = FALSE /\ prev = Empty /\ curr = Empty
  /\ fresh = FALSE /\ quiet = TRUE /\ missed = FALSE /\ pushes = 0

-----------------------------------------------------------------------------
(* getCurrentCommit: the branch HEAD is on, or the remote's default branch *)
(* when it is detached, and the commit of the local branch of that name -  *)
(* which is not the one checked out when HEAD is detached.                 *)
CurrentBranch(c) == IF c.head \in Branch THEN c.head ELSE Default

CurrentCommit(c) ==
  IF c.kind = "repo" /\ CurrentBranch(c) \in DOMAIN c.local
    THEN c.local[CurrentBranch(c)] ELSE NoCommit

Tracking == ref \in {NoRef, HeadRef}

Outdated(c) == version # NoVersion /\ version # CurrentCommit(c)

FetchesTracking(c) == CurrentCommit(c) # NoCommit /\ ref = HeadRef       \* defect

Fetches(c) == CurrentCommit(c) # NoCommit /\ (Tracking \/ Outdated(c))

Fetched(c) == IF Fetches(c)
                THEN [c EXCEPT !.origin = remote, !.objects = @ \cup History(remote)]
                ELSE c

(* getLatestCommit looks up the last part of the branch's path in origin.  *)
LatestCommit(c) == c.origin[RefName[CurrentBranch(c)]]

(* GetState, after its fetch. *)
StateOf(c) ==
  IF CurrentCommit(c) = NoCommit
    THEN Empty
    ELSE [local   |-> CurrentCommit(c),
          version |-> version,
          remote  |-> IF Fetches(c) THEN LatestCommit(c) ELSE NoCommit]

Start(d) ==
  /\ pc = "idle"
  /\ pc' = "decide" /\ dry' = d
  /\ prev' = saved
  /\ clone' = Fetched(clone)
  /\ curr' = StateOf(clone')
  /\ UNCHANGED <<ref, version, remote, saved, history>>

Forget == pc' = "idle" /\ dry' = FALSE /\ prev' = Empty /\ curr' = Empty

NeedsRun == prev = Empty \/ prev # curr

(* The operation is clean and so are those before it, or this is a dry run *)
Skip(dirty) ==
  /\ pc = "decide"
  /\ ~(dirty \/ NeedsRun) \/ dry
  /\ Forget
  /\ fresh' = (fresh \/ (quiet /\ ~dry))
  /\ quiet' = TRUE
  /\ UNCHANGED <<ref, version, remote, clone, saved, missed, pushes>>

Execute(dirty) ==
  /\ pc = "decide"
  /\ dirty \/ NeedsRun
  /\ ~dry
  /\ pc' = "run"
  /\ UNCHANGED <<ref, version, remote, clone, saved, dry, prev, curr, history>>

(* git checkout of what `v` names; it fails when the clone has no such     *)
(* commit, and then an Abort takes the place of Run.                       *)
Resolved(v) == IF v = Tag THEN Tagged ELSE v

CheckedOutByName(v) ==                  \* defect: HEAD names the tag
  IF Resolved(v) \in clone.objects THEN {[clone EXCEPT !.head = v]} ELSE {}

CheckedOut(v) == IF Resolved(v) \in clone.objects
                   THEN {[clone EXCEPT !.head = Resolved(v)]} ELSE {}

RunLatestFirst ==                       \* defect: the tracking ref wins over the version
  IF clone.kind = "absent"
    THEN IF ref = HeadRef THEN {} ELSE {Cloned(IF ref = NoRef THEN Default ELSE ref)}
    ELSE IF clone.kind = "repo" /\ Tracking THEN CheckedOut(LatestCommit(clone)) ELSE {clone}

(* Run of Repo: what dest can be after it, nothing when git fails. *)
RunOutcomes ==
  CASE clone.kind = "absent" /\ ref = NoRef      -> {Cloned(Default)}
    [] clone.kind = "absent" /\ ref \in Branch   -> {Cloned(ref)}
    [] clone.kind = "absent" /\ ref = HeadRef    -> {}
    [] clone.kind = "dir"    -> IF Outdated(clone) \/ Tracking THEN {} ELSE {clone}
    [] clone.kind = "repo"   ->
         LET latest == LatestCommit(clone) IN
         CASE Outdated(clone)   -> CheckedOut(version)
           [] ~Outdated(clone) /\ Tracking /\ latest # CurrentCommit(clone) -> CheckedOut(latest)
           [] OTHER             -> {clone}

Run ==
  /\ pc = "run"
  /\ clone' \in RunOutcomes
  /\ pc' = "record"
  /\ UNCHANGED <<ref, version, remote, saved, dry, prev, curr, history>>

RecordRead ==                           \* defect: saves the state read before the run
  /\ pc = "record"
  /\ saved' = curr
  /\ Forget
  /\ fresh' = quiet /\ quiet' = TRUE
  /\ missed' = (missed /\ ~quiet)
  /\ UNCHANGED <<ref, version, remote, clone, pushes>>

(* The state after the run is read, with a fetch, and saved. *)
Record ==
  /\ pc = "record"
  /\ clone' = Fetched(clone)
  /\ saved' = StateOf(clone')
  /\ Forget
  /\ fresh' = quiet /\ quiet' = TRUE
  /\ missed' = (missed /\ ~quiet)
  /\ UNCHANGED <<ref, version, remote, pushes>>

(* Any call fails, or the process dies. *)
Abort ==
  /\ pc # "idle"
  /\ Forget
  /\ quiet' = TRUE
  /\ missed' = (missed \/ pc = "record")
  /\ UNCHANGED <<ref, version, remote, clone, saved, fresh, pushes>>

Push(b, c) ==
  /\ pushes < MaxPushes /\ pushes' = pushes + 1
  /\ remote[b] # c
  /\ remote' = [remote EXCEPT ![b] = c]
  /\ fresh' = FALSE
  /\ quiet' = (pc = "idle")
  /\ missed' = (missed \/ pc # "idle")
  /\ UNCHANGED <<ref, version, clone, saved, apply>>

(* An administrator removes the clone between two applies. *)
Remove ==
  /\ pc = "idle" /\ clone # Absent
  /\ clone' = Absent
  /\ fresh' = FALSE
  /\ UNCHANGED <<ref, version, remote, saved, apply, quiet, missed, pushes>>

Next == \/ \E d \in BOOLEAN : Start(d)
        \/ \E dirty \in BOOLEAN : Skip(dirty) \/ Execute(dirty)
        \/ Run \/ Record \/ Abort
        \/ \E b \in Branch, c \in Commit : Push(b, c)
        \/ Remove

Spec == Init /\ [][Next]_vars

-----------------------------------------------------------------------------
(* Properties *)

(* Every variable has its type.  (Repo.GetState, Repo.Run)                 *)
TypeOK ==
  /\ ref \in Ref /\ version \in Version
  /\ remote \in [Branch -> Commit]
  /\ clone \in Repo \cup {Absent, OtherDir}
  /\ {saved, prev, curr} \subseteq GitState
  /\ pc \in {"idle", "decide", "run", "record"}
  /\ {dry, fresh, quiet, missed} \subseteq BOOLEAN
  /\ pushes \in 0 .. MaxPushes

HeadCommit == IF clone.head \in Branch THEN clone.local[clone.head] ELSE clone.head

(* A clone of the default branch without a version follows the remote:     *)
(* after an undisturbed apply that succeeded its HEAD is where the         *)
(* remote's branch is, whatever dry runs, failures, rewinds and removals   *)
(* came before.  Four exceptions are in the code: a push during an apply   *)
(* counts as seen; after an apply that died between Run and saving the     *)
(* state the old state file can match the new clone; a remote that goes    *)
(* back to the commit of the local branch is taken for checked out, as     *)
(* that branch never moves; and a clone of another branch is lost sight    *)
(* of once HEAD is detached.                                               *)
(* (Repo.GetState, Repo.Run)                                               *)
Follows ==
  /\ fresh /\ pc = "idle" /\ ~missed
  /\ Tracking /\ version = NoVersion /\ RefName[Default] = Default
  /\ clone.kind = "repo" /\ Default \in DOMAIN clone.local
  => remote[Default] \in {HeadCommit, clone.local[Default]}

(* Applies settle: after an undisturbed apply of a clone that succeeded,   *)
(* the next one finds the state it saved and runs nothing.  Not when HEAD  *)
(* is detached in a clone of another branch than the default one: then the *)
(* clone is taken for empty, and every apply executes it.                  *)
(* (Repo.GetState, getCurrentCommit)                                       *)
Settles ==
  /\ fresh /\ pc = "idle"
  /\ clone.kind = "repo" /\ (clone.head \in Branch \/ Default \in DOMAIN clone.local)
  => saved = StateOf(Fetched(clone)) /\ saved # Empty

(* A version that is checked out stays checked out, whatever is pushed and *)
(* applied, as long as the clone exists - unless it is the commit of the   *)
(* local branch: then Run follows the remote instead.                      *)
PinHeld ==
  [][/\ version # NoVersion /\ clone.kind = "repo" /\ HeadCommit = Resolved(version)
     /\ Outdated(clone) /\ clone'.kind = "repo"
     => HeadCommit' = Resolved(version)]_vars
=============================================================================
