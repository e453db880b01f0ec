------------------------------ MODULE PlanExec ------------------------------
(***************************************************************************)
(* What a worker of the pool does with one plan (executePlan and           *)
(* executeOperation of planner/execute/execute.go) and the cache of        *)
(* operation states it keeps in the state directory (operator/state.go,    *)
(* state/state.go), over any number of applies of the same plan.           *)
(*                                                                         *)
(* The machine is a function from cells (files, packages, users...) to     *)
(* what they hold and when they were last written.  An operation declares  *)
(* the cells whose entries make its state, and its Run writes into the     *)
(* cell `to` what it derives from the cell `from`.  The machine also       *)
(* changes by other hands, between applies and during one: administrators, *)
(* programs and the other plans of the manifest.                           *)
(***************************************************************************)
EXTENDS Naturals, Sequences, FiniteSets

CONSTANTS Cell,      \* what operations read and write
          Value,     \* what a cell can hold when it exists
          Absent,    \* the cell does not exist
          Null,      \* a saved entry of a cell that did not exist
          MaxStamp,  \* bound: timestamps told apart at a time
          MaxChanges,         \* bound: changes by other hands
          Arguments, \* cells for what an operation was given; nobody writes them
          Scripts    \* the plans considered, each a sequence of operations

Stamp == 0 .. MaxStamp

Content == [data : Value \cup {Absent}, stamp : Stamp]

(***************************************************************************)
(* source, target: the cells of its Source() and Target() entries          *)
(* named:    the cells that have an entry even when they are missing (they *)
(*           are arguments of the operation, not found by a glob)          *)
(* stamped:  entries hold the modification time (pcopy and template only   *)
(*           keep a checksum)                                              *)
(* rewrites: Run writes `to` even when it is up to date                    *)
(* keeps:    Run only makes `to` when it is missing                        *)
(* desired:  the operator implements DesiredStater                         *)
(***************************************************************************)
Operation == [source : SUBSET Cell, target : SUBSET Cell, from : Cell, to : Cell,
              named : SUBSET Cell, stamped : BOOLEAN, rewrites : BOOLEAN, keeps : BOOLEAN,
              desired : BOOLEAN]

ASSUME ScriptsAssumption == /\ Absent \notin Value /\ Null \notin Value \cup {Absent}
                            /\ MaxStamp \in Nat /\ MaxChanges \in Nat
                            /\ Arguments \subseteq Cell
                            /\ Scripts \subseteq Seq(Operation) \ {<<>>}
                            /\ \A s \in Scripts : 6 * Len(s) <= MaxStamp

NoEntries == [c \in {} |-> Absent]

(* A state file holds the state of an operation after it ran, is missing   *)
(* ("none"), or was truncated and not yet written ("torn").                *)
None  == [file |-> "none", source |-> NoEntries, target |-> NoEntries]
Torn  == [file |-> "torn", source |-> NoEntries, target |-> NoEntries]

VARIABLES
  ops,      \* the operations of the plan, constant
  m,        \* the machine
  disk,     \* the state file under each cache key
  pc,       \* where executePlan is
  dry,      \* opts.Dryrun
  i,        \* the operation it is at
  prev, curr,        \* readOpStates: the saved and the current states
  dirty,    \* executePlan's dirty
  \* What follows is history, for the properties; no guard reads it.
  used,     \* the data the last Run of each operation read
  owed,     \* operations to be run because an earlier one changed
  fresh,    \* did an apply succeed, undisturbed, since the last change or fault?
  faulted,  \* has an apply failed or been killed?
  disturbed,         \* has the machine changed during an apply?
  changes,  \* how many changes by other hands there were, for the bound
  quiet     \* has the machine stayed the same since this apply began?

progress == <<pc, dry, i, prev, curr, dirty>>
history  == <<used, owed, fresh, faulted, disturbed, changes, quiet>>
vars     == <<ops, m, disk, progress, history>>

Index == DOMAIN ops

(* The cache key of an operation is a hash of its name and arguments: the  *)
(* same operation written twice in a plan has one state file.              *)
Key == {ops[k] : k \in Index}

Involved == UNION {{op.from, op.to} : op \in Key}

Init ==
  /\ ops \in Scripts
  /\ m \in [Cell -> {[data |-> v, stamp |-> 0] : v \in Value \cup {Absent}}]
  /\ \A c \in Involved : m[c].data = Absent => \E k \in Index : ops[k].to = c
  /\ \A c \in Cell \ Involved : m[c].data = Absent
  /\ \A c \in Arguments \cap Involved : m[c].data = CHOOSE v \in Value : TRUE
  /\ disk = [k \in Key |-> None]
  /\ pc = "idle" /\ dry = FALSE /\ i = 1
  /\ prev = <<>> /\ curr = <<>> /\ dirty = FALSE
  /\ used = [k \in Index |-> Absent]
  /\ owed = {} /\ fresh = FALSE /\ faulted = FALSE /\ disturbed = FALSE
  /\ changes = 0 /\ quiet = TRUE

-----------------------------------------------------------------------------
(* States and timestamps *)

Seen(op, c) == IF op.stamped THEN m[c] ELSE [data |-> m[c].data, stamp |-> 0]

Entries(op, cells) ==
  [c \in {d \in cells : m[d].data # Absent \/ d \in op.named} |-> Seen(op, c)]

StateOf(op) ==                \* GetState, split by Source() and Target()
  [file |-> "saved", source |-> Entries(op, op.source), target |-> Entries(op, op.target)]

(* The JSON of a state: the entry of a missing file becomes null, which is *)
(* not read back as the entry it was.                                      *)
Nulled(entries) ==
  [c \in DOMAIN entries |->
     IF entries[c].data = Absent THEN [entries[c] EXCEPT !.data = Null] ELSE entries[c]]

OnDisk(s) ==
  [file |-> s.file, source |-> Nulled(s.source), target |-> Nulled(s.target)]

(* A write gives a cell a time that no recorded state of it has.           *)
Kept == {disk[k] : k \in Key} \cup {prev[k] : k \in DOMAIN prev}
                              \cup {curr[k] : k \in DOMAIN curr}

Recorded(c) == {e[c].stamp : e \in {f \in {s.source : s \in Kept} \cup {s.target : s \in Kept} :
                                      c \in DOMAIN f}}

Written(c, v) ==
  [m EXCEPT ![c] = [data |-> v, stamp |-> CHOOSE s \in Stamp : s \notin Recorded(c)]]

-----------------------------------------------------------------------------
Start(d) ==
  /\ pc = "idle"
  /\ pc' = "read" /\ dry' = d
  /\ UNCHANGED <<ops, m, disk, i, prev, curr, dirty, history>>

(* However an apply ends, the next one starts with nothing in memory.      *)
Forget ==
  /\ pc' = "idle" /\ dry' = FALSE /\ i' = 1
  /\ prev' = <<>> /\ curr' = <<>> /\ dirty' = FALSE

(* readOpState, for every operation before the first one runs; a state     *)
(* file that is not JSON ends the plan with an error.                      *)
Read ==
  /\ pc = "read"
  /\ disk[ops[i]].file # "torn"
  /\ prev' = Append(prev, disk[ops[i]])
  /\ curr' = Append(curr, StateOf(ops[i]))
  /\ IF i = Len(ops) THEN pc' = "decide" /\ i' = 1 ELSE pc' = "read" /\ i' = i + 1
  /\ UNCHANGED <<ops, m, disk, dry, dirty, history>>

AdvanceAlways(d) ==           \* defect: past the last operation
  /\ dirty' = d
  /\ pc' = "decide" /\ i' = i + 1

(* To the next operation with plan-level dirtiness d, or to the end.       *)
Advance(d) ==
  /\ dirty' = d
  /\ IF i = Len(ops) THEN pc' = "end" /\ i' = i ELSE pc' = "decide" /\ i' = i + 1

(* getOpChanged: the saved source is compared with what the operation      *)
(* would write now, if it can tell, or else with the source that was read  *)
(* before the plan's first operation ran.                                  *)
Compared(op) ==
  IF op.desired THEN [c \in {op.to} |-> [data |-> m[op.from].data, stamp |-> 0]]
                ELSE curr[i].source

NeedsRunIfNew == dirty \/ prev[i].source = NoEntries       \* defect: no comparison

NeedsRun == \/ dirty
            \/ prev[i].source = NoEntries
            \/ prev[i].source # Compared(ops[i])

(* DesiredState reads what it would write; that can be missing.            *)
Decidable == ops[i].desired => m[ops[i].from].data # Absent

Skip ==
  /\ pc = "decide" /\ Decidable
  /\ ~NeedsRun \/ dry
  /\ Advance(dirty \/ NeedsRun)
  /\ UNCHANGED <<ops, m, disk, dry, prev, curr, history>>

LeavesExisting(op, v) == ~op.rewrites /\ m[op.to].data # Absent     \* defect

(* Does Run of op leave `to` as it is, when it would write v?              *)
Leaves(op, v) == IF op.keeps THEN m[op.to].data # Absent
                             ELSE ~op.rewrites /\ m[op.to].data = v

(* op.Run; when it fails, having done its work or not, an Abort follows or *)
(* takes its place.                                                        *)
Run ==
  /\ pc = "decide"
  /\ NeedsRun /\ ~dry
  /\ LET op == ops[i]
         v  == m[op.from].data IN
       /\ v # Absent
       /\ m' = IF Leaves(op, v) THEN m ELSE Written(op.to, v)
       /\ used' = [used EXCEPT ![i] = v]
  /\ pc' = "record"
  /\ owed' = owed \ {i}
  /\ UNCHANGED <<ops, disk, dry, i, prev, curr, dirty, fresh, faulted, disturbed, changes, quiet>>

RecordRead ==                 \* defect: saves the state read before the run
  /\ pc = "record"
  /\ disk' = [disk EXCEPT ![ops[i]] = Torn]
  /\ pc' = "write"
  /\ UNCHANGED <<ops, m, dry, i, prev, curr, dirty, history>>

(* GetState after the run, and os.Create, which truncates the state file.  *)
Record ==
  /\ pc = "record"
  /\ curr' = [curr EXCEPT ![i] = StateOf(ops[i])]
  /\ disk' = [disk EXCEPT ![ops[i]] = Torn]
  /\ pc' = "write"
  /\ UNCHANGED <<ops, m, dry, i, prev, dirty, history>>

TargetUntouchedOrNone == curr[i].target = prev[i].target       \* defect

(* An operation whose tracked targets are as the last time does not make   *)
(* the following ones dirty.                                               *)
TargetUntouched == /\ curr[i].target # NoEntries
                   /\ curr[i].target = prev[i].target

(* Has the operation's state changed?  Told by its targets if it has any.  *)
Changed == IF ops[i].target = {} THEN curr[i] # prev[i]
                                 ELSE curr[i].target # prev[i].target

Write ==
  /\ pc = "write"
  /\ disk' = [disk EXCEPT ![ops[i]] = OnDisk(curr[i])]
  /\ Advance(dirty \/ ~TargetUntouched)
  /\ owed' = IF Changed THEN owed \cup (i + 1) .. Len(ops) ELSE owed
  /\ UNCHANGED <<ops, m, dry, prev, curr, used, fresh, faulted, disturbed, changes, quiet>>

(* executePlan returns its result. *)
End ==
  /\ pc = "end"
  /\ Forget
  /\ fresh' = (fresh \/ (quiet /\ ~dry))
  /\ quiet' = TRUE
  /\ UNCHANGED <<ops, m, disk, used, owed, faulted, disturbed, changes>>

(* An error of any call executePlan makes, or the death of the process:    *)
(* memory goes, the machine and the state directory stay as they are.      *)
Abort ==
  /\ pc # "idle"
  /\ Forget
  /\ faulted' = TRUE
  /\ quiet' = TRUE
  /\ fresh' = (fresh /\ dry)
  /\ UNCHANGED <<ops, m, disk, used, owed, disturbed, changes>>

(* Something else writes a cell of the plan's, or removes it. *)
Change(c, v) ==
  /\ c \in Involved \ Arguments
  /\ changes < MaxChanges /\ changes' = changes + 1
  /\ m' = IF v = Absent THEN [m EXCEPT ![c] = [data |-> Absent, stamp |-> 0]] ELSE Written(c, v)
  /\ m' # m
  /\ fresh' = FALSE
  /\ quiet' = (pc = "idle")
  /\ disturbed' = (disturbed \/ pc # "idle")
  /\ UNCHANGED <<ops, disk, progress, used, owed, faulted>>

Next == \/ \E d \in BOOLEAN : Start(d)
        \/ Read \/ Skip \/ Run \/ Record \/ Write \/ End
        \/ Abort
        \/ \E c \in Cell, v \in Value \cup {Absent} : Change(c, v)

Spec == Init /\ [][Next]_vars

-----------------------------------------------------------------------------
(* Properties *)

OfType(s) ==
  /\ s.file \in {"saved", "none", "torn"}
  /\ \A e \in {s.source, s.target} :
       /\ DOMAIN e \subseteq Cell
       /\ \A c \in DOMAIN e : e[c] \in [data : Value \cup {Absent, Null}, stamp : Stamp]

(* Every variable has its type.  (executePlan, ReadState, SaveState)       *)
TypeOK ==
  /\ ops \in Scripts
  /\ m \in [Cell -> Content]
  /\ DOMAIN disk = Key /\ \A s \in Kept : OfType(s)
  /\ pc \in {"idle", "read", "decide", "record", "write", "end"}
  /\ dry \in BOOLEAN /\ dirty \in BOOLEAN
  /\ i \in Index
  /\ Len(prev) = Len(curr) /\ Len(curr) <= Len(ops)
  /\ used \in [Index -> Value \cup {Absent}]
  /\ owed \subseteq Index
  /\ changes \in 0 .. MaxChanges
  /\ \A b \in {fresh, faulted, disturbed, quiet} : b \in BOOLEAN

(* A plan in which no operation writes what an earlier one reads or        *)
(* tracks: any other makes its own states stale, apply after apply.        *)
Orderly ==
  \A j, k \in Index : j < k => ops[k].to \notin ops[j].source \cup ops[j].target \cup {ops[j].from}

(* The operation is run again when what it reads has changed, at least if  *)
(* it is not known; what it writes is among its targets if it has any, and *)
(* among its sources as well if it is compared without times.              *)
Tracks(op) ==
  /\ op.desired => op.source = {op.to} /\ op.target = {} /\ ~op.stamped /\ ~op.keeps
  /\ \/ op.desired \/ op.from \in op.source \cup Arguments
     \/ op.source = {} \/ \E c \in op.source \cap op.named : c \notin Involved
  /\ op.to \notin Arguments
  /\ op.target # {} => op.to \in op.target /\ (op.stamped \/ op.to \in op.source)

Tracking == Orderly /\ \A k \in Index : Tracks(ops[k])

(* Is its input what an earlier operation makes? *)
Relayed(k) == \E j \in Index : j < k /\ ops[j].to = ops[k].from

Settled == fresh /\ ~faulted /\ ~disturbed /\ Tracking /\ \A k \in Index : ops[k].source # {}

(* A pcopy of one file that no other operation makes.                      *)
Simple(k) == ops[k].source \subseteq {ops[k].from, ops[k].to} /\ ~Relayed(k)

(* Applying twice is applying once: after an undisturbed apply that        *)
(* succeeded, and until something else changes the machine, no apply runs  *)
(* an operation again, if all of them track a source and no file they      *)
(* track is missing.  It needs that no apply failed or was disturbed       *)
(* before: then an operation can restore the target it last recorded,      *)
(* which leaves the next one clean and judged on what it read before that. *)
(* And it needs that no pcopy copies the copy of another one: it can write *)
(* what was there at a new time, which nothing in its own state shows and  *)
(* an operation that follows sees in the next apply.  (executeOperation,   *)
(* getOpChanged)                                                           *)
Idempotent ==
  /\ Settled /\ \A k \in Index : ~ops[k].stamped /\ ops[k].target # {} => Simple(k)
  /\ \A k \in Index : \A c \in ops[k].source : m[c].data # Absent
  => pc \notin {"record", "write"}

(* After an undisturbed apply that succeeded, every operation last ran on  *)
(* what its input is now, if no apply ever failed or was disturbed: the    *)
(* cache never hides a change, whatever dry runs and applies came before   *)
(* and whoever wrote the files in between.                                 *)
UpToDate ==
  fresh /\ pc = "idle" /\ ~faulted /\ ~disturbed /\ Tracking
    => \A k \in Index : used[k] = m[ops[k].from].data

(* After an undisturbed apply that succeeded, what an operation tracks of  *)
(* its own making is as it makes it, if no apply was disturbed: whatever   *)
(* others write over a destination, or remove, the next apply repairs,     *)
(* however many applies failed in between - unless it is compared without  *)
(* times and its input is the destination of another operation: an apply   *)
(* that failed between the two leaves states from which a change that is   *)
(* then undone by hand is not seen.  A template is not repaired: it is     *)
(* compared with what was saved.  (executeOperation, getOpChanged)         *)
Repaired ==
  fresh /\ pc = "idle" /\ ~disturbed /\ Tracking
    => \A k \in Index :
         /\ ops[k].to \in ops[k].source /\ ~ops[k].desired
         /\ ops[k].stamped \/ ~faulted \/ ~Relayed(k)
         => IF ops[k].keeps THEN m[ops[k].to].data # Absent
                            ELSE m[ops[k].to].data = m[ops[k].from].data

(* Without failures an apply that succeeds has run every operation that    *)
(* follows one whose state changed, in this apply or an earlier one.       *)
CascadeComplete == fresh /\ pc = "idle" /\ ~faulted => owed = {}

-----------------------------------------------------------------------------
(* What the documentation says and the code does not do *)

(* No operation that tracks a source is executed again when nothing        *)
(* changed.  (README.md:54: "Operators idempotently execute operations and *)
(* track state")                                                           *)
TracksState == Settled => pc \notin {"record", "write"}
=============================================================================
