---------------------------- MODULE GitRepoProofs ----------------------------
(***************************************************************************)
(* Theorems about GitRepo for all branches, refs, versions, histories and  *)
(* numbers of pushes.                                                      *)
(***************************************************************************)
EXTENDS GitRepo, TLAPS

-----------------------------------------------------------------------------
(* Types *)

LEMMA HistoryType ==
  ASSUME NEW heads \in [Branch -> Commit]
  PROVE  History(heads) \subseteq Commit
<1>1. \A b \in Branch : heads[b] \in Nat /\ heads[b] <= MaxCommit
  BY GitAssumption DEF Commit
<1>2. \A b \in Branch : 1 .. heads[b] \subseteq Commit
  BY <1>1, GitAssumption DEF Commit
<1> QED
  BY <1>2 DEF History

LEMMA ClonedType ==
  ASSUME remote \in [Branch -> Commit], NEW b \in Branch
  PROVE  Cloned(b) \in Repo
<1>1. [x \in {b} |-> remote[b]] \in [{b} -> Commit]
  OBVIOUS
<1>2. [x \in {b} |-> remote[b]] \in UNION {[B -> Commit] : B \in SUBSET Branch}
  BY <1>1
<1> QED
  BY <1>2, HistoryType DEF Cloned, Repo

LEMMA FetchedType ==
  ASSUME TypeOK
  PROVE  Fetched(clone) \in Repo \cup {Absent, OtherDir}
<1>1. History(remote) \subseteq Commit
  BY HistoryType DEF TypeOK
<1>2. CASE Fetches(clone)
  <2>1. clone \in Repo
    BY <1>2 DEF TypeOK, Fetches, CurrentCommit, Absent, OtherDir
  <2>2. Fetched(clone) \in Repo
    BY <1>1, <1>2, <2>1 DEF TypeOK, Fetched, Repo
  <2> QED
    BY <2>2
<1> QED
  BY <1>2 DEF TypeOK, Fetched

LEMMA CurrentCommitType ==
  ASSUME NEW c \in Repo \cup {Absent, OtherDir}
  PROVE  CurrentCommit(c) \in Commit \cup {NoCommit}
<1>1. CASE c.kind = "repo"
  <2>1. c \in Repo
    BY <1>1 DEF Absent, OtherDir
  <2>2. PICK B \in SUBSET Branch : c.local \in [B -> Commit]
    BY <2>1 DEF Repo
  <2> QED
    BY <2>2 DEF CurrentCommit
<1> QED
  BY <1>1 DEF CurrentCommit

LEMMA LatestCommitType ==
  ASSUME NEW c \in Repo
  PROVE  CurrentBranch(c) \in Branch /\ LatestCommit(c) \in Commit
BY GitAssumption DEF CurrentBranch, LatestCommit, Repo

LEMMA StateOfType ==
  ASSUME NEW c \in Repo \cup {Absent, OtherDir}, version \in Version
  PROVE  StateOf(c) \in GitState
<1>1. CASE CurrentCommit(c) = NoCommit
  BY <1>1 DEF StateOf, GitState
<1>2. CASE CurrentCommit(c) # NoCommit
  <2>1. CurrentCommit(c) \in Commit /\ c \in Repo
    BY <1>2, CurrentCommitType DEF CurrentCommit, Absent, OtherDir
  <2>2. LatestCommit(c) \in Commit
    BY <2>1, LatestCommitType
  <2> QED
    BY <1>2, <2>1, <2>2 DEF StateOf, GitState
<1> QED
  BY <1>1, <1>2

LEMMA CheckedOutType ==
  ASSUME TypeOK, clone \in Repo, NEW v, NEW c \in CheckedOut(v)
  PROVE  c \in Repo /\ Resolved(v) \in Commit /\ c = [clone EXCEPT !.head = Resolved(v)]
<1>1. Resolved(v) \in clone.objects /\ c = [clone EXCEPT !.head = Resolved(v)]
  BY DEF CheckedOut
<1>2. Resolved(v) \in Commit
  BY <1>1 DEF Repo
<1> QED
  BY <1>1, <1>2 DEF Repo

(* What Run can do to the clone, one outcome of each kind. *)
LEMMA RunCases ==
  ASSUME TypeOK, NEW c \in RunOutcomes
  PROVE  \/ clone = Absent /\ \E b \in Branch : c = Cloned(b)
         \/ clone = OtherDir /\ c = clone
         \/ clone \in Repo /\ Outdated(clone) /\ c \in CheckedOut(version)
         \/ clone \in Repo /\ ~Outdated(clone) /\ Tracking
            /\ LatestCommit(clone) # CurrentCommit(clone) /\ c \in CheckedOut(LatestCommit(clone))
         \/ clone \in Repo /\ ~Outdated(clone) /\ c = clone
            /\ (Tracking => LatestCommit(clone) = CurrentCommit(clone))
<1>1. ref \in Branch \/ ref = NoRef \/ ref = HeadRef
  BY DEF TypeOK, Ref
<1>2. CASE clone = Absent
  BY <1>1, <1>2, GitAssumption DEF RunOutcomes, Absent
<1>3. CASE clone = OtherDir
  BY <1>3 DEF RunOutcomes, OtherDir
<1>4. CASE clone \in Repo
  <2>1. clone.kind = "repo"
    BY <1>4 DEF Repo
  <2> QED
    BY <1>4, <2>1 DEF RunOutcomes
<1> QED
  BY <1>2, <1>3, <1>4 DEF TypeOK

LEMMA RunType ==
  ASSUME TypeOK, NEW c \in RunOutcomes
  PROVE  c \in Repo \cup {Absent, OtherDir}
<1>1. \A b \in Branch : Cloned(b) \in Repo
  BY ClonedType DEF TypeOK
<1> QED
  BY <1>1, RunCases, CheckedOutType

LEMMA TypeInit ==
  ASSUME Init
  PROVE  TypeOK
<1>1. \A b \in Branch : Cloned(b) \in Repo
  BY ClonedType DEF Init
<1>2. clone \in Repo \cup {Absent, OtherDir}
  BY <1>1 DEF Init
<1>3. Empty \in GitState
  BY DEF GitState
<1> QED
  <2>1. pushes \in 0 .. MaxPushes
    BY GitAssumption DEF Init
  <2>2. /\ {saved, prev, curr} \subseteq GitState
        /\ {dry, fresh, quiet, missed} \subseteq BOOLEAN
    BY <1>3 DEF Init
  <2> QED
    BY <1>2, <2>1, <2>2 DEF Init, TypeOK

LEMMA TypeNext ==
  ASSUME TypeOK, [Next]_vars
  PROVE  TypeOK'
<1> USE DEF apply, history
<1>0. Empty \in GitState
  BY DEF GitState
<1>1. Fetched(clone) \in Repo \cup {Absent, OtherDir}
  BY FetchedType
<1>2. StateOf(Fetched(clone)) \in GitState
  BY <1>1, StateOfType DEF TypeOK
<1>3. ASSUME NEW d \in BOOLEAN, Start(d)
      PROVE  TypeOK'
  <2>1. StateOf(Fetched(clone)) = curr'
    BY <1>3 DEF Start
  <2> QED
    BY <1>1, <1>2, <1>3, <2>1 DEF Start, TypeOK
<1>4. ASSUME NEW dirty \in BOOLEAN, Skip(dirty)
      PROVE  TypeOK'
  BY <1>0, <1>4 DEF Skip, Forget, TypeOK
<1>5. ASSUME NEW dirty \in BOOLEAN, Execute(dirty)
      PROVE  TypeOK'
  BY <1>5 DEF Execute, TypeOK
<1>6. CASE Run
  BY <1>6, RunType DEF Run, TypeOK
<1>7. CASE Record
  <2>1. StateOf(Fetched(clone)) = saved'
    BY <1>7 DEF Record
  <2> QED
    BY <1>0, <1>1, <1>2, <1>7, <2>1 DEF Record, Forget, TypeOK
<1>8. CASE Abort
  BY <1>0, <1>8 DEF Abort, Forget, TypeOK
<1>9. ASSUME NEW b \in Branch, NEW c \in Commit, Push(b, c)
      PROVE  TypeOK'
  <2>1. pushes' \in 0 .. MaxPushes /\ remote' \in [Branch -> Commit]
    BY <1>9, GitAssumption DEF Push, TypeOK
  <2>2. {fresh', quiet', missed'} \subseteq BOOLEAN
    BY <1>9, Zenon DEF Push
  <2> QED
    BY <1>9, <2>1, <2>2 DEF Push, TypeOK
<1>10. CASE Remove
  BY <1>10 DEF Remove, TypeOK
<1>11. CASE UNCHANGED vars
  BY <1>11 DEF vars, TypeOK
<1> QED
  BY <1>3, <1>4, <1>5, <1>6, <1>7, <1>8, <1>9, <1>10, <1>11 DEF Next

(* Every variable has its type.  (Repo.GetState, Repo.Run)                 *)
THEOREM TypeCorrect == Spec => []TypeOK
BY TypeInit, TypeNext, PTL DEF Spec

-----------------------------------------------------------------------------
(* The invariant behind Settles and Follows.                               *)

(* A clone has the one local branch it was cloned for, and HEAD is on it   *)
(* until it is detached.                                                   *)
OneBranch ==
  clone.kind = "repo" =>
    \E b \in Branch : DOMAIN clone.local = {b} /\ (clone.head \in Branch => clone.head = b)

(* What an apply knows when it decides and when it runs; while nothing is  *)
(* pushed it has fetched all there is.                                     *)
Knows ==
  /\ pc \in {"decide", "run"} => curr = StateOf(clone) /\ prev = saved
  /\ pc \in {"decide", "run"} /\ quiet => clone = Fetched(clone)
  /\ ~quiet => pc # "idle" /\ missed
  /\ pc = "record" => clone # Absent

(* GetState finds its way in the clone. *)
Tracked(c) == c.kind = "repo" /\ (c.head \in Branch \/ Default \in DOMAIN c.local)

(* Once an apply settled, fetching again gives what was saved. *)
Settled ==
  fresh => /\ clone # Absent
           /\ Tracked(clone) => saved = StateOf(Fetched(clone)) /\ saved # Empty

Following == Tracking /\ version = NoVersion /\ RefName[Default] = Default

(* The remote head that was saved is what is checked out, and so is the    *)
(* one of the remote itself between an undisturbed Run and its Record.     *)
UpWithSaved ==
  Following /\ clone.kind = "repo" /\ Default \in DOMAIN clone.local =>
    /\ ~missed /\ pc # "record" /\ saved # Empty
         => saved.remote \in {HeadCommit, clone.local[Default]}
    /\ pc = "record" /\ quiet => remote[Default] \in {HeadCommit, clone.local[Default]}

GitInv == TypeOK /\ OneBranch /\ Knows /\ Settled /\ UpWithSaved

-----------------------------------------------------------------------------
(* What a fetch does not change *)

LEMMA FetchKeeps ==
  ASSUME NEW c \in Repo \cup {Absent, OtherDir}
  PROVE  /\ Fetched(c).kind = c.kind
         /\ c.kind = "repo" => Fetched(c).head = c.head /\ Fetched(c).local = c.local
         /\ CurrentCommit(Fetched(c)) = CurrentCommit(c)
         /\ Fetches(Fetched(c)) = Fetches(c)
<1>1. CASE Fetches(c)
  <2>1. c \in Repo
    BY <1>1 DEF Fetches, CurrentCommit, Absent, OtherDir
  <2>2. /\ Fetched(c).kind = c.kind /\ Fetched(c).head = c.head /\ Fetched(c).local = c.local
    BY <1>1, <2>1 DEF Fetched, Repo
  <2>3. CurrentCommit(Fetched(c)) = CurrentCommit(c)
    BY <2>2 DEF CurrentCommit, CurrentBranch
  <2> QED
    BY <2>2, <2>3 DEF Fetches, Outdated
<1>2. CASE ~Fetches(c)
  BY <1>2 DEF Fetched
<1> QED
  BY <1>1, <1>2

LEMMA FetchTwice ==
  ASSUME NEW c \in Repo \cup {Absent, OtherDir}
  PROVE  Fetched(Fetched(c)) = Fetched(c)
<1>1. CASE Fetches(c)
  <2>1. c \in Repo
    BY <1>1 DEF Fetches, CurrentCommit, Absent, OtherDir
  <2>2. Fetched(c) = [c EXCEPT !.origin = remote, !.objects = @ \cup History(remote)]
    BY <1>1 DEF Fetched
  <2>3. Fetches(Fetched(c))
    BY <1>1, FetchKeeps
  <2>4. Fetched(Fetched(c))
          = [Fetched(c) EXCEPT !.origin = remote, !.objects = @ \cup History(remote)]
    BY <2>3 DEF Fetched
  <2> QED
    BY <2>1, <2>2, <2>4 DEF Repo
<1>2. CASE ~Fetches(c)
  BY <1>2 DEF Fetched
<1> QED
  BY <1>1, <1>2

(* The operators of the state of a clone read ref, version and remote only.*)
LEMMA SameRemote ==
  ASSUME UNCHANGED <<ref, version, remote>>
  PROVE  /\ Fetched(clone)' = Fetched(clone')
         /\ StateOf(clone)' = StateOf(clone')
         /\ StateOf(Fetched(clone))' = StateOf(Fetched(clone'))
         /\ Tracked(clone)' = Tracked(clone')
BY DEF Fetched, StateOf, Tracked, Fetches, Outdated, Tracking, CurrentCommit,
       CurrentBranch, LatestCommit, History

LEMMA TrackedHasCommit ==
  ASSUME TypeOK, OneBranch, Tracked(clone)
  PROVE  /\ clone \in Repo
         /\ CurrentCommit(clone) \in Commit
         /\ CurrentBranch(clone) \in DOMAIN clone.local
<1>1. clone \in Repo
  BY DEF TypeOK, Tracked, Absent, OtherDir
<1>2. CurrentBranch(clone) \in DOMAIN clone.local
  BY <1>1 DEF OneBranch, Tracked, CurrentBranch
<1>3. PICK B \in SUBSET Branch : clone.local \in [B -> Commit]
  BY <1>1 DEF Repo
<1>4. CurrentCommit(clone) = clone.local[CurrentBranch(clone)]
  BY <1>1, <1>2 DEF CurrentCommit, Repo
<1> QED
  BY <1>1, <1>2, <1>3, <1>4

LEMMA StateNotEmpty ==
  ASSUME NEW c \in Repo \cup {Absent, OtherDir}
  PROVE  StateOf(c) # Empty <=> CurrentCommit(c) # NoCommit
<1>1. CASE CurrentCommit(c) # NoCommit
  <2>1. CurrentCommit(c) \in Commit
    BY <1>1, CurrentCommitType
  <2>2. StateOf(c).local = CurrentCommit(c)
    BY <1>1 DEF StateOf
  <2>3. Empty.local = NoCommit
    BY DEF Empty
  <2> QED
    BY <1>1, <2>2, <2>3
<1> QED
  BY <1>1 DEF StateOf

(* A checkout moves HEAD, which is not where the state is read from.       *)
LEMMA CheckoutKeepsState ==
  ASSUME TypeOK, OneBranch, clone \in Repo, NEW k \in Commit,
         NEW c, c = [clone EXCEPT !.head = k], Tracked(c)
  PROVE  Tracked(clone) /\ StateOf(Fetched(c)) = StateOf(Fetched(clone))
<1>1. k \notin Branch
  BY GitAssumption
<1>2. /\ c.kind = "repo" /\ c.head = k /\ c.local = clone.local
      /\ c.origin = clone.origin /\ c.objects = clone.objects /\ c \in Repo
  BY DEF Repo
<1>3. Default \in DOMAIN clone.local
  BY <1>1, <1>2 DEF Tracked
<1>4. CurrentBranch(c) = Default /\ CurrentBranch(clone) = Default
  BY <1>1, <1>2, <1>3 DEF CurrentBranch, OneBranch, Repo
<1>5. clone.kind = "repo"
  BY DEF Repo
<1>6. CurrentCommit(c) = CurrentCommit(clone)
  BY <1>2, <1>4, <1>5 DEF CurrentCommit
<1>7. Fetches(c) = Fetches(clone)
  BY <1>6 DEF Fetches, Outdated
<1>8. Fetched(c).origin = Fetched(clone).origin
  BY <1>2, <1>7 DEF Fetched, Repo
<1>9. CurrentBranch(Fetched(c)) = Default /\ CurrentBranch(Fetched(clone)) = Default
  BY <1>2, <1>4, FetchKeeps DEF CurrentBranch, Repo
<1>10. LatestCommit(Fetched(c)) = LatestCommit(Fetched(clone))
  BY <1>8, <1>9 DEF LatestCommit
<1> QED
  BY <1>2, <1>3, <1>5, <1>6, <1>7, <1>10, FetchKeeps DEF StateOf, Tracked

-----------------------------------------------------------------------------
(* The invariant is kept, conjunct by conjunct.                            *)

LEMMA OneBranchNext ==
  ASSUME TypeOK, OneBranch, [Next]_vars
  PROVE  OneBranch'
<1>1. ASSUME clone' = Fetched(clone)
      PROVE  OneBranch'
  <2>1. clone.kind = "repo" => clone'.head = clone.head /\ clone'.local = clone.local
    BY <1>1, FetchKeeps DEF TypeOK
  <2>2. clone'.kind = clone.kind
    BY <1>1, FetchKeeps DEF TypeOK
  <2> QED
    BY <2>1, <2>2 DEF OneBranch
<1>2. CASE Run
  <2>1. clone' \in RunOutcomes
    BY <1>2 DEF Run
  <2>2. ASSUME NEW b \in Branch, clone' = Cloned(b)
        PROVE  OneBranch'
    BY <2>2 DEF OneBranch, Cloned
  <2>3. ASSUME NEW v, clone \in Repo, clone' \in CheckedOut(v)
        PROVE  OneBranch'
    <3>1. clone' = [clone EXCEPT !.head = Resolved(v)] /\ Resolved(v) \in Commit
      BY <2>3, CheckedOutType
    <3>2. clone'.local = clone.local /\ clone'.head \notin Branch /\ clone.kind = "repo"
      BY <2>3, <3>1, GitAssumption DEF Repo
    <3> QED
      BY <3>2 DEF OneBranch
  <2> QED
    BY <2>1, <2>2, <2>3, RunCases DEF OneBranch
<1>3. CASE UNCHANGED clone
  BY <1>3 DEF OneBranch
<1>4. CASE Remove
  BY <1>4 DEF Remove, OneBranch, Absent
<1> QED
  BY <1>1, <1>2, <1>3, <1>4
     DEF Next, Start, Skip, Execute, Record, Abort, Push, vars

LEMMA KnowsNext ==
  ASSUME TypeOK, Knows, [Next]_vars
  PROVE  Knows'
<1> USE DEF apply, history
<1>1. ASSUME NEW d \in BOOLEAN, Start(d)
      PROVE  Knows'
  <2>1. UNCHANGED <<ref, version, remote>>
    BY <1>1 DEF Start
  <2>2. /\ pc' = "decide" /\ clone' = Fetched(clone) /\ prev' = saved'
        /\ curr' = StateOf(clone') /\ quiet' = quiet /\ missed' = missed
    BY <1>1 DEF Start
  <2>3. clone' = Fetched(clone')
    BY <2>2, FetchTwice DEF TypeOK
  <2>4. quiet \/ missed
    BY DEF Knows
  <2> QED
    BY <2>1, <2>2, <2>3, <2>4, SameRemote DEF Knows
<1>2. ASSUME Forget, quiet'
      PROVE  Knows'
  BY <1>2 DEF Knows, Forget
<1>3. ASSUME NEW dirty \in BOOLEAN, Execute(dirty)
      PROVE  Knows'
  BY <1>3, SameRemote DEF Execute, Knows
<1>4. CASE Run
  <2>1. clone' \in RunOutcomes /\ Absent # OtherDir
    BY <1>4 DEF Run, Absent, OtherDir
  <2>2. \A b \in Branch : Cloned(b) # Absent
    BY DEF Cloned, Absent
  <2>3. \A v : clone \in Repo /\ clone' \in CheckedOut(v) => clone' \in Repo
    BY CheckedOutType
  <2>4. Absent \notin Repo
    BY DEF Repo, Absent
  <2>5. clone' # Absent
    BY <2>1, <2>2, <2>3, <2>4, RunCases
  <2> QED
    BY <1>4, <2>5 DEF Run, Knows
<1>5. ASSUME NEW b \in Branch, NEW c \in Commit, Push(b, c)
      PROVE  Knows'
  <2>1. StateOf(clone)' = StateOf(clone)
    BY <1>5 DEF Push, StateOf, Fetches, Outdated, Tracking, CurrentCommit,
                CurrentBranch, LatestCommit
  <2>2. /\ pc' = pc /\ curr' = curr /\ prev' = prev /\ saved' = saved /\ clone' = clone
        /\ quiet' = (pc = "idle") /\ missed' = (missed \/ pc # "idle")
    BY <1>5 DEF Push
  <2> QED
    BY <2>1, <2>2 DEF Knows
<1>6. CASE Remove
  BY <1>6 DEF Remove, Knows
<1>7. CASE UNCHANGED vars
  BY <1>7, SameRemote DEF vars, Knows
<1> QED
  BY <1>1, <1>2, <1>3, <1>4, <1>5, <1>6, <1>7 DEF Next, Skip, Record, Abort

LEMMA SettledNext ==
  ASSUME TypeOK, OneBranch, Knows, Settled, [Next]_vars
  PROVE  Settled'
<1> USE DEF apply, history
<1>0. clone \in Repo \cup {Absent, OtherDir}
  BY DEF TypeOK
<1>1. ASSUME NEW d \in BOOLEAN, Start(d)
      PROVE  Settled'
  <2>1. /\ UNCHANGED <<ref, version, remote>> /\ clone' = Fetched(clone)
        /\ fresh' = fresh /\ saved' = saved
    BY <1>1 DEF Start
  <2>2. clone'.kind = clone.kind /\ (clone.kind = "repo" => clone'.head = clone.head /\ clone'.local = clone.local)
    BY <1>0, <2>1, FetchKeeps
  <2>3. Tracked(clone') <=> Tracked(clone)
    BY <2>2 DEF Tracked
  <2>4. Fetched(clone') = Fetched(clone)
    BY <1>0, <2>1, FetchTwice
  <2>5. clone # Absent => clone' # Absent
    BY <1>0, <2>1 DEF Fetched, Repo, Absent, OtherDir
  <2> QED
    BY <2>1, <2>3, <2>4, <2>5, SameRemote DEF Settled
<1>2. ASSUME NEW dirty \in BOOLEAN, Skip(dirty)
      PROVE  Settled'
  <2>1. /\ UNCHANGED <<ref, version, remote, clone, saved>>
        /\ fresh' = (fresh \/ (quiet /\ ~dry))
    BY <1>2 DEF Skip
  <2>2. ASSUME quiet, ~dry
        PROVE  clone # Absent /\ saved = StateOf(Fetched(clone)) /\ saved # Empty
    <3>1. saved = StateOf(clone) /\ saved # Empty /\ clone = Fetched(clone)
      BY <1>2, <2>2 DEF Skip, NeedsRun, Knows
    <3>2. clone # Absent
      BY <1>0, <3>1, StateNotEmpty DEF CurrentCommit, Absent
    <3> QED
      BY <3>1, <3>2
  <2> QED
    BY <2>1, <2>2, SameRemote DEF Settled
<1>3. CASE Run
  <2>1. UNCHANGED <<ref, version, remote, saved, fresh>> /\ clone' \in RunOutcomes
    BY <1>3 DEF Run
  <2>2. ASSUME fresh, NEW v, clone \in Repo, clone' \in CheckedOut(v)
        PROVE  Settled'
    <3>1. clone' = [clone EXCEPT !.head = Resolved(v)] /\ Resolved(v) \in Commit /\ clone' \in Repo
      BY <2>2, CheckedOutType
    <3>2. Tracked(clone') => Tracked(clone) /\ StateOf(Fetched(clone')) = StateOf(Fetched(clone))
      BY <2>2, <3>1, CheckoutKeepsState
    <3>3. clone' # Absent
      BY <3>1 DEF Repo, Absent
    <3> QED
      BY <2>1, <2>2, <3>2, <3>3, SameRemote DEF Settled
  <2>3. CASE clone' = clone
    BY <2>1, <2>3, SameRemote DEF Settled
  <2>4. fresh => clone # Absent
    BY DEF Settled
  <2>5. ~fresh => Settled'
    BY <2>1 DEF Settled
  <2> QED
    BY <2>1, <2>2, <2>3, <2>4, <2>5, RunCases
<1>4. CASE Record
  <2>1. /\ UNCHANGED <<ref, version, remote>> /\ clone' = Fetched(clone)
        /\ saved' = StateOf(clone') /\ fresh' = quiet
    BY <1>4 DEF Record
  <2>2. clone' = Fetched(clone')
    BY <1>0, <2>1, FetchTwice
  <2>3. Tracked(clone') => Tracked(clone)
    BY <1>0, <2>1, FetchKeeps DEF Tracked
  <2>4. Tracked(clone') => CurrentCommit(clone') # NoCommit
    BY <1>0, <2>1, <2>3, TrackedHasCommit, FetchKeeps, GitAssumption
  <2>5. Tracked(clone') => saved' # Empty
    BY <1>0, <2>1, <2>4, FetchedType, StateNotEmpty
  <2>6. clone' # Absent
    BY <1>0, <1>4, <2>1 DEF Record, Knows, Fetched, Repo, Absent, OtherDir
  <2> QED
    BY <2>1, <2>2, <2>5, <2>6, SameRemote DEF Settled
<1>5. ASSUME NEW b \in Branch, NEW c \in Commit, Push(b, c)
      PROVE  Settled'
  BY <1>5 DEF Push, Settled
<1>6. CASE Remove
  BY <1>6 DEF Remove, Settled
<1>7. CASE UNCHANGED <<ref, version, remote, clone, saved, fresh>>
  BY <1>7, SameRemote DEF Settled
<1> QED
  BY <1>1, <1>2, <1>3, <1>4, <1>5, <1>6, <1>7 DEF Next, Execute, Abort, vars

(* What an undisturbed Run leaves in a clone that is to follow the remote. *)
LEMMA RunFollows ==
  ASSUME TypeOK, OneBranch, Knows, pc = "run", quiet, Following,
         NEW c \in RunOutcomes, c.kind = "repo", Default \in DOMAIN c.local
  PROVE  remote[Default] \in {IF c.head \in Branch THEN c.local[c.head] ELSE c.head,
                              c.local[Default]}
<1>1. ASSUME NEW b \in Branch, c = Cloned(b)
      PROVE  remote[Default] = c.local[Default]
  BY <1>1 DEF Cloned
<1>2. ASSUME clone \in Repo, clone.local = c.local
      PROVE  /\ LatestCommit(clone) = remote[Default]
             /\ CurrentCommit(clone) = c.local[Default]
  <2>1. clone.kind = "repo" /\ CurrentBranch(clone) = Default
    BY <1>2 DEF OneBranch, CurrentBranch, Repo
  <2>2. CurrentCommit(clone) = c.local[Default]
    BY <1>2, <2>1 DEF CurrentCommit
  <2>3. Default \in DOMAIN clone.local
    BY <1>2
  <2>4. CurrentCommit(clone) # NoCommit
    BY <2>1, <2>3, TrackedHasCommit, GitAssumption DEF Tracked
  <2>5. Fetches(clone) /\ clone = Fetched(clone)
    BY <2>4 DEF Fetches, Following, Knows
  <2>6. clone.origin = remote
    BY <1>2, <2>5 DEF Fetched, Repo
  <2> QED
    BY <2>1, <2>2, <2>6 DEF LatestCommit, Following
<1>3. ASSUME NEW v, clone \in Repo, c \in CheckedOut(v)
      PROVE  c.local = clone.local /\ c.head = Resolved(v) /\ c.head \notin Branch
  BY <1>3, CheckedOutType, GitAssumption DEF Repo
<1>4. ~Outdated(clone)
  BY DEF Outdated, Following
<1>5. ASSUME clone \in Repo, c \in CheckedOut(LatestCommit(clone))
      PROVE  c.head = remote[Default] /\ c.head \notin Branch
  <2>1. LatestCommit(clone) = remote[Default] /\ LatestCommit(clone) \in Commit
    BY <1>2, <1>3, <1>5, LatestCommitType
  <2> QED
    BY <1>3, <1>5, <2>1, GitAssumption DEF Resolved
<1>6. ASSUME clone \in Repo, c = clone, Tracking => LatestCommit(clone) = CurrentCommit(clone)
      PROVE  remote[Default] = c.local[Default]
  BY <1>2, <1>6 DEF Following
<1>7. clone = OtherDir => c # clone
  BY DEF OtherDir
<1> QED
  BY <1>1, <1>4, <1>5, <1>6, <1>7, RunCases

LEMMA UpWithSavedNext ==
  ASSUME TypeOK, OneBranch, Knows, UpWithSaved, [Next]_vars
  PROVE  UpWithSaved'
<1> USE DEF apply, history
<1>0. clone \in Repo \cup {Absent, OtherDir}
  BY DEF TypeOK
<1>1. ASSUME NEW d \in BOOLEAN, Start(d)
      PROVE  UpWithSaved'
  <2>1. clone'.kind = clone.kind
        /\ (clone.kind = "repo" => clone'.head = clone.head /\ clone'.local = clone.local)
    BY <1>0, <1>1, FetchKeeps DEF Start
  <2> QED
    BY <1>1, <2>1 DEF Start, UpWithSaved, Following, Tracking, HeadCommit
<1>2. ASSUME NEW dirty \in BOOLEAN, Skip(dirty) \/ Execute(dirty)
      PROVE  UpWithSaved'
  BY <1>2 DEF Skip, Execute, Forget, UpWithSaved, Following, Tracking, HeadCommit
<1>3. CASE Run
  BY <1>3, RunFollows DEF Run, UpWithSaved, Following, Tracking, HeadCommit
<1>4. CASE Record
  <2>1. clone'.kind = clone.kind
        /\ (clone.kind = "repo" => clone'.head = clone.head /\ clone'.local = clone.local)
    BY <1>0, <1>4, FetchKeeps DEF Record
  <2>2. UNCHANGED <<ref, version, remote>> /\ pc = "record" /\ pc' = "idle"
        /\ saved' = StateOf(clone') /\ clone' = Fetched(clone) /\ missed' = (missed /\ ~quiet)
    BY <1>4 DEF Record, Forget
  <2>3. ASSUME Following, clone.kind = "repo", Default \in DOMAIN clone.local, ~missed'
        PROVE  saved'.remote \in {HeadCommit', clone'.local[Default]}
    <3>1. quiet
      BY <2>2, <2>3 DEF Knows
    <3>2. remote[Default] \in {HeadCommit, clone.local[Default]}
      BY <2>2, <2>3, <3>1 DEF UpWithSaved
    <3>3. HeadCommit' = HeadCommit /\ clone'.local = clone.local
      BY <2>1, <2>3 DEF HeadCommit
    <3>4. CurrentBranch(clone') = Default
      BY <2>1, <2>3 DEF CurrentBranch, OneBranch
    <3>5. CurrentCommit(clone) # NoCommit
      BY <2>3, TrackedHasCommit, GitAssumption DEF Tracked
    <3>6. CurrentCommit(clone') # NoCommit /\ Fetches(clone') /\ Fetches(clone)
      BY <1>0, <2>2, <2>3, <3>5, FetchKeeps DEF Fetches, Following
    <3>7. clone \in Repo
      BY <1>0, <2>3 DEF Absent, OtherDir
    <3>8. clone'.origin = remote
      BY <2>2, <3>6, <3>7 DEF Fetched, Repo
    <3>9. saved'.remote = remote[Default]
      BY <2>2, <2>3, <3>4, <3>6, <3>8 DEF StateOf, LatestCommit, Following
    <3> QED
      BY <3>2, <3>3, <3>9
  <2>4. Following' = Following
    BY <2>2 DEF Following, Tracking
  <2> QED
    BY <2>1, <2>2, <2>3, <2>4 DEF UpWithSaved
<1>5. CASE Abort
  BY <1>5 DEF Abort, Forget, UpWithSaved, Following, Tracking, HeadCommit
<1>6. ASSUME NEW b \in Branch, NEW c \in Commit, Push(b, c)
      PROVE  UpWithSaved'
  BY <1>6 DEF Push, Knows, UpWithSaved, Following, Tracking, HeadCommit
<1>7. CASE Remove
  BY <1>7 DEF Remove, UpWithSaved, Absent
<1>8. CASE UNCHANGED vars
  BY <1>8 DEF vars, UpWithSaved, Following, Tracking, HeadCommit
<1> QED
  BY <1>1, <1>2, <1>3, <1>4, <1>5, <1>6, <1>7, <1>8 DEF Next

LEMMA GitInit ==
  ASSUME Init
  PROVE  GitInv
<1>1. OneBranch
  <2>1. ASSUME NEW b \in Branch, clone = Cloned(b)
        PROVE  OneBranch
    BY <2>1 DEF OneBranch, Cloned
  <2>2. clone.kind # "repo" => OneBranch
    BY DEF OneBranch
  <2> QED
    BY <2>1, <2>2 DEF Init, Absent, OtherDir
<1>2. UpWithSaved
  BY DEF Init, UpWithSaved
<1>3. Knows
  BY DEF Init, Knows
<1>4. Settled
  BY DEF Init, Settled
<1> QED
  BY <1>1, <1>2, <1>3, <1>4, TypeInit DEF GitInv

LEMMA GitNext ==
  ASSUME GitInv, [Next]_vars
  PROVE  GitInv'
BY TypeNext, OneBranchNext, KnowsNext, SettledNext, UpWithSavedNext DEF GitInv

(* The invariant holds of every apply.  (Repo.GetState, Repo.Run)          *)
THEOREM AlwaysGitInv == Spec => []GitInv
BY GitInit, GitNext, PTL DEF Spec

(* Applies settle: after an undisturbed apply that succeeded, the next one *)
(* finds the state it saved.  (Repo.GetState, getCurrentCommit)            *)
THEOREM AppliesSettle == Spec => []Settles
<1>1. GitInv => Settles
  BY DEF GitInv, Settled, Settles, Tracked
<1> QED
  BY <1>1, AlwaysGitInv, PTL

(* A clone that tracks the default branch is where the remote is after an  *)
(* undisturbed apply that succeeded.  (Repo.GetState, Repo.Run)            *)
THEOREM BranchFollowed == Spec => []Follows
<1>1. ASSUME GitInv, fresh, pc = "idle", ~missed, Following,
             clone.kind = "repo", Default \in DOMAIN clone.local
      PROVE  remote[Default] \in {HeadCommit, clone.local[Default]}
  <2>1. Tracked(clone) /\ clone \in Repo
    BY <1>1, TrackedHasCommit DEF GitInv, Tracked
  <2>2. saved = StateOf(Fetched(clone)) /\ saved # Empty
    BY <1>1, <2>1 DEF GitInv, Settled
  <2>3. saved.remote \in {HeadCommit, clone.local[Default]}
    BY <1>1, <2>2 DEF GitInv, UpWithSaved
  <2>4. CurrentCommit(Fetched(clone)) # NoCommit /\ Fetches(Fetched(clone)) /\ Fetches(clone)
    BY <1>1, <2>1, TrackedHasCommit, GitAssumption, FetchKeeps DEF GitInv, Fetches, Following
  <2>5. Fetched(clone).origin = remote
    BY <2>1, <2>4 DEF Fetched, Repo
  <2>6. CurrentBranch(Fetched(clone)) = Default
    BY <1>1, <2>1, FetchKeeps DEF GitInv, OneBranch, CurrentBranch, Repo
  <2>7. saved.remote = remote[Default]
    BY <1>1, <2>2, <2>4, <2>5, <2>6 DEF StateOf, LatestCommit, Following
  <2> QED
    BY <2>3, <2>7
<1>2. GitInv => Follows
  BY <1>1 DEF Follows, Following
<1> QED
  BY <1>2, AlwaysGitInv, PTL

(* A version that is checked out stays checked out.  (Repo.Run)            *)
THEOREM PinIsHeld == Spec => PinHeld
<1> DEFINE Held == version # NoVersion /\ clone.kind = "repo" /\ HeadCommit = Resolved(version)
                   /\ Outdated(clone) /\ clone'.kind = "repo"
                     => HeadCommit' = Resolved(version)
<1>1. ASSUME TypeOK, [Next]_vars
      PROVE  [Held]_vars
  <2> SUFFICES ASSUME version # NoVersion, clone.kind = "repo", HeadCommit = Resolved(version),
                      Outdated(clone), clone'.kind = "repo"
               PROVE  HeadCommit' = Resolved(version)
    OBVIOUS
  <2>0. clone \in Repo
    BY <1>1 DEF TypeOK, Absent, OtherDir
  <2>1. clone' = clone => HeadCommit' = HeadCommit
    BY DEF HeadCommit
  <2>2. clone' = Fetched(clone) => HeadCommit' = HeadCommit
    BY <2>0, FetchKeeps DEF HeadCommit
  <2>3. CASE Run
    <3>1. clone' \in CheckedOut(version)
      BY <1>1, <2>0, <2>3, RunCases DEF Run, Absent, OtherDir, Repo
    <3>2. clone' = [clone EXCEPT !.head = Resolved(version)] /\ Resolved(version) \in Commit
      BY <1>1, <2>0, <3>1, CheckedOutType
    <3> QED
      BY <2>0, <3>2, GitAssumption DEF HeadCommit, Repo
  <2>4. CASE Remove
    BY <2>4 DEF Remove, Absent
  <2> QED
    BY <1>1, <2>1, <2>2, <2>3, <2>4 DEF Next, Start, Skip, Execute, Record, Abort, Push, vars
<1> QED
  BY <1>1, TypeCorrect, PTL DEF Spec, PinHeld
=============================================================================
