# A verification project for polyester

polyester applies a *manifest* (a directory of shell scripts, one per *plan*)
to a machine. The scripts are compiled to plans, which are lists of operations
and references to other plans; the plans are executed by a pool of workers,
and every operation keeps the state it last saw in a state directory, so that
what did not change is not executed again.

This directory holds TLA+ models of that program, the TLC configurations that
check them on small instances, and TLAPS proofs about them. File names and
line numbers refer to the repository, seen from its root.

## The system and its parts

| Part | State it keeps | Operations | Interacts with |
|---|---|---|---|
| Execute pool (`planner/execute/worker.go`, `execute.go:24-44`) | channels, `planCache` (seen, pending, done), the counter `n`, results | add, feed, enqueue, take, execute, gather, stop | gets compiled plans, calls plan execution in every worker |
| Plan execution (`execute.go:46-234`) | per apply: previous and current states, dirty | read states, decide, run, record, save | operators, state cache; runs in a worker of the pool |
| State cache (`operator/state.go`, `state/`, `opfs/file.go`) | one JSON file per operation | read, save, compare | written by every worker, pruned by the planner |
| Compiler (`compiler/`) | none between calls | run a script, read what it declares, resolve references, sort | a pipe to the script; calls `polyester` again |
| Planner (`planner/apply.go`, `manifest.go`) | state directory and checksum of a manifest | check, apply, set up state, prune | compiler, execute, state cache |
| Operators (`operator/*op`) | none of their own: the machine is their state | GetState, DesiredState, Run | files, packages, users, git |
| Plan directory, file systems (`operator/opfs`) | a root | resolve, glob, stat | operators |
| Manifest (`manifest/`) | a manifest in memory | load and save directory, read and write archive | planner, compiler |
| Command line, output, facts, test helpers | none | | everything |

What is hard in them:

* The **pool** has 3 + N goroutines, two buffered channels of 100, a channel of
  one per worker, two unbuffered ones, and two sends that do not block. The
  feeder learns of results late and through a queue, the counter that ends the
  run is written from two sides, and a wake-up can come before the sleep.
  Correct: dependencies first, every plan at most once, nothing lost, and an
  end.
* **Plan execution** decides each operation by comparing three states that were
  read at different times (the saved one, the one before the first operation
  of the plan ran, the one after the operation's own Run), across dry runs,
  failures and crashes, on a machine that other programs change. Correct: a
  change is not hidden, an unchanged operation is not executed, and what
  follows a changed operation is executed.
* The **planner** removes state files it does not know, after dry runs as well,
  and names state directories so that two manifests can share one. Correct: it
  never removes or takes over the state of an operation in use.
* The **compiler** waits for a script before it reads the script's output, and
  follows references before it looks for cycles. Correct: it ends, and its
  order has dependencies first.
* **atomic-copy** replaces a directory with two renames; **git-repo** decides
  on commit, ref and version at different times. Correct: a crash leaves the
  old or the new content; a tracked branch is followed, a version that is
  checked out is held, and applies settle. (That a declared version is reached
  is not true: see the conditions below.)
* **Manifest** and **PlanDir**: what is saved is what is loaded; a file is found
  in the nearest plan.

`PROJECT.json` lists the components, and as hazards the lines where these
behaviours bite, with the properties that watch them.

## Modules

```
PlanTree                  the compiled manifest, as a graph
  PlanSchedule            abstract: what Execute promises
  ExecPool                the pool; PS == INSTANCE PlanSchedule
    MCExecPool            manifests for TLC
    ExecPoolProofs        all invariants, and that the pool implements PlanSchedule
PlanExec                  applies of one plan and the state cache
  MCPlanExec              plans for TLC, made of the operators' kinds
  PlanExecProofs          all invariants
Planner                   apply of several manifests, state directories, prune
  MCPlanner, PlannerProofs
Filter                    the elements of a list that a loop keeps
  FilterProofs
Compiler                  scripts, pipe, references, Plan.All
  MCCompiler, CompilerProofs
FileOps                   Run of copy and atomic-copy, call by call
  MCFileOps, FileOpsProofs
GitRepo                   applies of a git-repo operation
  MCGitRepo, GitRepoProofs
Manifest                  loading and saving manifests and archives
  MCManifest, ManifestProofs
```

The modules meet where the parts of the program do, each at the level of
detail its neighbour needs: `Compiler` ends in a manifest as `PlanTree` takes
it; `ExecPool` executes plans in one step, which `PlanExec` takes apart;
`Planner` uses of the pool what `PlanSchedule` promises, and of what
`pool_early_return` shows that plans can outlive their `Execute`; `FileOps`
takes the `Run` of `PlanExec` apart for the operators that write trees;
`GitRepo` decides as `PlanExec` does, for an operator whose `GetState` changes
the machine.

### PlanTree, PlanSchedule

A manifest is a record of functions from plans to their `Dependencies`, their
`Plans`, and whether they have an operation of their own (`RealOps`). The
compiler makes one `*Plan` per name, so a plan is a member of `Plan` whether
the code uses its name (`seen`) or its pointer (`pending`, `done`).
`PlanSchedule` has two actions, a plan begins and a plan ends, and states the
"safety checks" of `execute.go:28-30`: once per apply, and after every
dependency has run. No pool is visible in it.

### ExecPool

An action is one communication of one goroutine with the local code up to the
next one.

| Goroutine | Variables | Actions |
|---|---|---|
| main, `Execute` | `mpc`, `stopC` | `Add`, `Finish` (the receive in `wait`), `Stop` |
| feeder, `feederLoop` | `fpc`, `frames` (the calls of `feedPlan` on the stack), `cur`, `idx` (where `enqueueOnePlan` is), `seen`, `pending`, `done` | `RunPending`, `FeederStart`, `FeederFinish`, `FeedPlan`, `FeedOwn`, `PollFree`, `PollFull`, `PollWait`, `Notify`, `FeederStop` |
| worker, `runWorker.loop` | `wpc`, `wplan`, `wout`, `in` | `WorkerTake`, `WorkerExec`, `WorkerStop` |
| gatherer, `gathererLoop` | `gpc`, `gres`, `last`, `results`, `n` | `Receive`, `Count`, `NotifyDone`, `Unblock`, `Finish` |

`planStartC` and `planDoneC` are sequences bounded by `cap`, which `Init` takes
from `QueueCaps` (100 in the code); a worker's
`in` is a place for one plan; `out`, `unblockWrkPoll` and `allDone` have no
buffer, so their two ends take one step together. The polling of
`enqueueOnePlan` is one step per worker, and `PollWait` separates the last
failed try from the receive: that gap is where a wake-up is lost. What a
worker does with a plan is its outcome: `ok`, `err`, or `nil` for a plan that
has no operation of its own (`execute.go:77-79`).

Merged steps, and why that is sound: `finishPlan` and `feedPlan` only touch the
feeder's own maps between communications; the second `runPending`
(`worker.go:115`) finds nothing because the first one left nothing and nothing
changed since; the entry leaves `pending` when its `enqueueOnePlan` starts and
not when it ends, during which time nobody reads the map; `stop` closes all
channels in one step, which a goroutine may always notice late.

### PlanExec

The machine `m` maps cells (files, packages, users) to data and a modification
time; the state directory `disk` maps keys to state files. A key is the set of
arguments of an operation, so an operation written twice shares its file
(`opCacheKey`). An operation is a record of what `executeOperation` can tell
apart: which cells are its Source and Target entries, what `Run` reads and
writes, whether its entries keep times, whether it has a `DesiredState`.

| Code | Action |
|---|---|
| `executePlan`, entry; `Opts.Dryrun` | `Start(d)` |
| `readOpStates`, one operation at a time | `Read` |
| `executeOperation`: not dirty, or a dry run | `Skip` |
| `op.Run` | `Run` |
| `GetState` after it, `os.Create` of the state file | `Record` |
| the write of the state file, the target rule | `Write` |
| return of the result | `End` |
| an error of any call, or the end of the process | `Abort` |
| everybody else | `Change(c, v)` |

A state file is truncated before it is written, so it can be left `torn`, and
`Read` does not get past a torn file. An entry of a missing file becomes `null`
in JSON and is not read back as it was (`OnDisk`). A write gives a cell a time
that no state recorded or in memory has; times that nothing refers to are used
again, which keeps them few: the three states that each operation has on disk
and in memory hold at most two times of a cell, so six per operation are
enough (`6 * Len(s) <= MaxStamp`). `used`, `owed`, `fresh`, `faulted`, `disturbed`,
`changes` and `quiet` are history: `changes` only bounds the changes, and no
guard of a step of the program reads any of them.

The kinds of operation are those of the program: `copy` (its destination is
both a Source and a Target entry, `fileop.go:67`), `pcopy` in two forms, `sh`
with and without `--on-change` and `--target`, `template`, `touch`, `mkdir`,
`apt-install` and `useradd`. They are records over the same fields, so the
operators differ by data and not by actions: whether entries carry times,
whether a value that is there is left alone (`keeps`), which cells `Run` makes
(`named`). When a manifest is applied by the name of its directory, `pcopy`
looks for the state of its sources where they are not (`Pcopy`); when the
planner found the manifest above the script it was given, the plan directory
ends in a slash, the paths stay absolute, and the sources are tracked
(`PcopyNested`). `Change` writes or removes a cell, at any time, also between
two steps of an apply.

### Planner

A process is `polyester apply` with its arguments; it applies one manifest
after the other and may be followed by another process.

| Code | Action |
|---|---|
| `commands/apply.go`, the loop over the arguments | `Invoke`, `NextArg` |
| `Planner.Check`, `LoadDir`, `Compile` | `Load` |
| `setupState`: directory and checksum, in a dry run too | `SetupState` |
| a worker takes a plan; the same after `Execute` returned | `Begin`, `BeginLate` |
| `readOpStates`, `executeOperation`, `State.WriteFile`, per operation | `ReadState`, `Skip`, `Execute`, `SaveState`, `End` |
| `Execute` returns, `pruneState` lists the directory | `Return` |
| `pruneState`, one file | `Prune(o)`, `Pruned` |
| an error, or the end of the process | `Fail` |
| the user edits a manifest | `Edit` |

A state file is missing, torn, or saved by an apply of some manifest. A plan
that is ready when `Execute` returns is `late`: it may begin during the prune
or during the applies of the following arguments, and ends with the process.
`KeyOf` is the naming of state directories: two manifests may share one.

### FileOps

| Code | Action |
|---|---|
| `MkdirTemp`, the globs (`gatherFilesGlobDirOnly`), `checkPats` | `Begin`, `NoFiles` |
| `os.Stat`, `copyFile`, `copy.Copy`, opening and writing | `CopyOpen`, `CopyWrite`, `CopyRefused`, `CopyDone`, `Gone` |
| atomic-copy, the copies into the temporary directory | `Stage`, `StageRefused` |
| the two renames, and the rename back | `SetAside`, `Install`, `InstallFails(back)` |
| removal of the temporary directory | `Cleanup` |
| any call fails, the process ends, a source changes | `Fails`, `Crash`, `Change` |

Trees are files with data or directories of named files. A copy opens (and
truncates) before it writes, so `dest` can hold `TornData`; `leaks` keeps the
temporary directories that runs left behind.

### GitRepo

Commits are numbers on a line of history and a branch of the remote is any
point of it: a push moves it forward or back. The clone is its HEAD (a branch
or a detached commit), its local branches, `origin` as last fetched, and the
commits it holds.

| Code | Action |
|---|---|
| `GetState` with its fetch, before the apply decides | `Start(d)` |
| `executeOperation` | `Skip`, `Execute` |
| `Repo.Run`: clone, checkout of the version, or of the tracked branch | `Run` |
| `GetState` after it, with a second fetch, and saving | `Record` |
| an error or the end of the process | `Abort` |
| others push, rewind or remove the clone | `Push(b, c)`, `Remove` |

`Skip` and `Execute` take whether an earlier operation of the plan was dirty,
so the module stands for the operation at any place of a plan.

### Compiler

| Code | Action |
|---|---|
| a command of the script fails, or appends its declaration to the pipe | `Broken`, `Declare` (two writes) |
| `cmd.Run` returns, `io.Copy` | `Returns`, `Copy`, `Copied` |
| `preValidate`, `readPlan`, `resolveOnePlan` | `Read` |
| `allPlans`, a call and its return | `Follow`, `Visited` |
| `sortPlans`: set-up, a round, main to the end | `Listed`, `Round`, `Sorted` |

`pipe` is bounded by `Cap`, the stack of `allPlans` by `MaxDepth`. The ends
`failed`, `panicked` and `overflow` are those of the code: an error, a nil plan
that is dereferenced, a stack that is full.

### Manifest

| Code | Action |
|---|---|
| `LoadDir`, `LoadFile`, over a directory or `tarFS` | `LoadDir`, `LoadFile` |
| `Save`: `os.Create`, each entry, the deferred closes | `Create`, `WriteToTar`, `Close` |
| `SaveDir` is called, makes a directory, writes a file, returns | `SaveDir`, `MakeDir`, `WriteFile`, `Extracted` |
| it finds a directory that is there, or none to make one in | `Refused` |
| an error of the system, a file that is cut | `Trouble` |
| the process ends; the user removes what was saved | `Die`, `Clear` |

A path is a sequence of names, a tree a function from paths to data. The code
loads a manifest recursively: a plan's directory is a manifest, with plans of
its own. The module names each plan by the *way* to it, the sequence of the
directories of the plans gone through, and a manifest in memory is a function
from the ways to what is found there; the empty way is the manifest itself.
`gatherPlansFS` finds every directory below `plans/` with a `plan.sh`, so a plan
of a plan has two ways, one through its plan and one of its own (`Ways`); in an
archive it has two names, of which one is wrong (`Base`), and `SaveDir` makes
its directory twice, which it refuses. The recursive calls of `SaveDir` are
items of `todo`: its caller's files come first, its maps in any order (`Turn`).
`Close` may leave an archive that is cut although `Save` returned no error, as
the errors of the deferred closes are dropped.

The entries of an archive are in the order `writeTar` has (`Before`: script,
kinds in turn, then plans), which matters when two have the same name, since
lookup stops at the first. Reading is `LoadArchive`: `NameRead` splits a name at
its backslashes and cleans it, `Legal` are the names that are taken, `AsRead`
maps data to what is left of it without a byte order mark and beyond 256 MiB.
What a name is made of is given by constants: `Split`, its parts between
backslashes; `Dotted` and `Drives`, the names like `..x` and `c:`.

## Runs

| Run | Result | What it shows |
|---|---|---|
| `pool_safety` | pass | all invariants of the pool, and that it implements `PlanSchedule` |
| `pool_live` | pass | a fair run ends, or the feeder waits for a worker for ever and there were too few |
| `pool_lost_wakeup` | violation of `Returns` | `worker.go:189`: the wake-up is sent before the feeder waits; Execute hangs |
| `pool_early_return` | violation of `CompleteOnReturn` | `worker.go:182`: the counter is zero before the feeder handed out what became ready; Execute returns without an error and plans have not run |
| `plan_cache` | pass | applies settle, no change is hidden, destinations are repaired, the cascade is complete, under the conditions the properties name |
| `plan_tracks` | violation of `TracksState` | `pcopy.go:62`: pcopy is executed by every apply |
| `git_repo` | pass | a tracked branch is followed, applies settle, a version is held |
| `planner` | pass | prune keeps what is in use and drops what is not, torn files have a cause |
| `file_ops` | pass | atomic-copy shows the old or the new tree and loses neither; what succeeds is complete |
| `atomic_fill` | violation of `ManyFills` | `atomic_copy.go:184`: atomic-copy of several sources into a directory that is there replaces it, its other entries are lost |
| `compiler` | pass | compiling ends, for the right reason, in an order with dependencies first |
| `manifest` | pass | what is saved is what is loaded, and `SaveDir` refuses exactly where it should |

The violations are real disagreements with what the comments and the README of
the program say; `PROJECT.json` quotes the lines.

### The properties that pass

* `CountExact`, `OnePlace`: the bookkeeping of four kinds of goroutine agrees
  at every step, without a lock.
* `DepsFirst`: what the feeder believes, late, never lets a plan start before
  its dependencies *really* succeeded.
* `CompletionsKept`, `NothingForgotten`: no result and no plan falls between
  the feeder's two queues and its walk of the manifest.
* `FullForOneMore`: the gatherer panics at `worker.go:194`, or the feeder blocks
  in the send of `worker.go:66` to a queue that only it reads, for one reason
  alone: more plans than the queue has places. Both do happen with queues of
  two and a manifest of three plans; a manifest of more than a hundred plans
  is one in the code. `NeverPanics` proves that a smaller one never gets there.
* `HangsOnlyWaiting`: with as many workers as plans the pool always ends.
  Otherwise waiting in `enqueueOnePlan` is the only way to hang; the counter,
  the queues and the pending plans are never the reason.
* `Idempotent`, `UpToDate`: after an undisturbed apply that succeeded, nothing
  runs again, and every operation last ran on the input the machine has now.
  They hold when no operation writes what an earlier one tracks (`Orderly`),
  when each operation tracks what it depends on (`Tracks`), and when no apply
  failed or was disturbed before.
* `Repaired`: whatever others write over a destination, or remove, is repaired
  by the next apply, however many applies failed in between.

  These three are stated with what their proofs need. Each condition was first
  left out, and the step of the proof that then failed gave a scenario of the
  code:
  - Two pcopys in a row, `a` to `b` to `c`, of which the second failed after
    the first had saved: somebody writes `a`, and undoes it by hand in `b`.
    Checksums say that `b` is as it was recorded, so `c` is never made again.
    `Repaired` therefore excludes, after a failure, operations that compare
    checksums and read what another one makes (`Relayed`).
  - A pcopy of the copy of another pcopy followed by a copy: the first writes
    the data that was there at a new time, which its own state does not hold,
    and the copy after it, which keeps times, finds it changed in the next
    apply. `Idempotent` asks that such a pcopy is `Simple`.
  - A source that a glob no longer finds leaves no entry, and an operation
    without entries runs in every apply: `Idempotent` asks that what is tracked
    is there.
* `CascadeComplete`: without failures, and even when disturbed or preceded by
  dry runs, whatever follows a changed operation has been executed.
* `Follows`, `Settles`, `PinHeld`: see the exceptions in their comments, each
  one a behaviour of the code that a run without the condition shows.
* `StateKept`, `StateDropped`: with two manifests in a process, late plans and
  edits at any time, the prune of one apply and the saves of another agree on
  which state files exist. Only manifests that share a directory are excluded.
* `NoTornRead`: a file that cannot be read has a writer, or lost it when its
  process ended.
* `OldOrNew`, `NothingLost`: wherever atomic-copy stops. `Succeeded`: whatever
  earlier runs left behind, a run that reports success did all of its work:
  every source is at dest as it was read. That atomic-copy keeps the other
  entries is not part of it, and not so (`atomic_fill`); `copy` keeps them.
* `EndsForAReason`, `DependencyOrder`: compared with what the scripts say,
  by definitions (`Reach`, `Known`, `Acyclic`) that know nothing of the
  compiler. `Finishes`: a manifest whose declarations fit the pipe is compiled
  to one of the ends. A script that declares more blocks for ever: no other
  process reads the pipe before the script has ended.
* `ReloadsNoInner`: an archive that is whole loads as the manifest that was
  saved. It says so of what archives keep: files without the byte order mark in
  front of them and without what comes after 256 MiB (`ManifestRead`),
  manifests whose plans have no plans (`NoInner`) and whose names have no
  backslash (`Portable`). Each of the three is violated when left out.
* `ExtractsAll`, `ExtractsFlat`, `NoOverwrite`: with nested plans, plans in plain
  directories, and writes that fail.

### What the conditions stand for

The conditions of these properties were found by running them without: each
names a behaviour of the code.

* A plan that only names others is never done (`worker.go:159`), so a plan that
  depends on it stays pending.
* After a failure, operations that had to follow a changed one are not executed
  by the next apply (`execute.go:183`): the changed one is clean by then.
* A change between `Run` and the `GetState` after it is taken for handled
  (`execute.go:177`).
* A template's destination is compared with what was saved, not with what it
  should be, so what others write there stays (`execute.go:230`).
* `touch` leaves a file that exists alone; its mode and time are not set,
  though `touch.go:41` says so.
* A plan below another plan is a plan of the manifest too (`manifest.go:192`),
  and `SaveDir` makes directories one level deep: it saves a plan whose
  directory is in `plans/` or in another plan's, if it comes to that one first
  (the order is that of a map), and no plan that has plans.
* A git version that is the commit of the local branch is not held: `Run` goes
  on to follow the remote. A detached clone of another branch than the default
  is taken for empty by every apply. A `Run` that clones does nothing else
  (`repo.go:111-124`): the declared version is not checked out, the state of the
  clone is saved, and the next apply finds nothing to do, so `Settles` holds and
  `PinHeld` has nothing to hold.
* Manifests that share a state directory prune each other's state. A script
  that is not `polyester.sh` skips the prune. A dry run creates the state
  directory and prunes.
* A process that ends while a late plan saves leaves a torn file, and every
  apply fails on it.
* atomic-copy of several sources makes dest of these alone, whatever was in it.
  When dest has no trailing slash and the first source found is a file it
  always fails (`atomic_copy.go:159`), though `atomic_copy.go:51` says that dest
  is created: nobody makes the directory the sources are staged in but
  `copy.Copy`.
* atomic-copy may find fewer sources than it was given and copy those; a
  destination with a trailing slash keeps the old tree as `.old`; a temporary
  directory stays after an error.
* A command of a script that fails and is not the last one is not noticed
  (`sh` runs without `-e`). A name no script has is a nil plan, and listing it
  a panic. A cycle, of dependencies or plans, fills the stack; the branch of
  `sortPlans` that reports a circular dependency is not reached. A plan that is
  called `main` hides the top-level one.
* `LoadArchive` rewrites what it reads: a name with a backslash is split there and
  cleaned, and refused when it leaves the archive or names a drive; a byte
  order mark is stripped from data, and an entry is cut at 256 MiB without an
  error. `LoadDir` does none of it, so a manifest can load as another one, or
  as none, from the archive it was saved to.
* Plans of plans are written to the wrong place of an archive, and `SaveDir`
  fails for plans that are not directly below `plans/` and over a directory
  that exists, an empty one too.

### Bounds, and why they are enough

* Pool, safety: two workers, queues of two and of four, so that there are more
  plans than places and fewer, every manifest of three plans
  (every pair has no edge, a dependency or a sub-plan) whose two plans that may
  name others both have operations or both only group, and `testdata/basic`
  with four. Two workers and three plans fill
  all workers with one plan left to poll; two edges make a chain, a shared
  dependency and a plan reached by two paths. The theorems below remove the
  bounds for most of these properties.
* Pool, liveness: two workers, queues of three, every manifest of two plans,
  those of three whose plans all have operations, and one whose main plan only
  groups others.
* The queues hold 100 in the code. The capacity matters for `FullForOneMore`
  only: both cases it explains are reached with the queues of two.
* Plans: scripts of two or three operations, chained through a cell or
  unrelated, one for each way to tell a change; two values per cell; two
  changes by other hands (`MaxChanges`), enough to change a cell and change it
  back; times up to eighteen (`MaxStamp`), more than three operations can have
  recorded, so that a fresh one always exists. The number of applies is not bounded.

* Git: three branches, two commits, four changes of the remote: forward, back,
  and each once more during an apply; every ref, every version and every branch
  a clone can start from. One of the branches stands for a name such as
  `next/main`, of which `getLatestCommit` looks up the last part only.
* Planner: two manifests and a directory below one of them, two plans, two
  operations in every place they can be (main, sub-plan, dependency, twice),
  processes of one and two arguments, one edit. Processes follow each other
  without a bound.
* FileOps: a file and a directory as sources, in every order, one or both;
  a destination that is missing, a file or a directory; three runs, so that
  what one left behind is met by the next and by the one after that.
* Compiler: four scripts, one of them called `main`; root scripts of two
  commands of any kind, references among the others in both directions and back
  to the root, so that there are cycles, shared references and names that no
  script has; a pipe of four writes, which two operations
  fill and three do not fit; a stack of six calls, deeper than any path without
  a cycle.
* Manifest: twelve trees, one for each way plans nest or are among other files,
  and one each for a directory with a backslash in its name, holding a file
  that is read back as the plan's script, and a file that is refused for its
  drive; three data, of which two tell plans from each other and the third
  reads back as the first.

`CHECK_DEADLOCK FALSE` is set where the program may really stop for ever: after
`Returned` the pool may be left with a feeder or worker nobody waits for, and
a hang is what `pool_live` and `pool_lost_wakeup` are about; a script may be
blocked on a full pipe, and a compilation ends.

### Fairness

`FairSpec` has weak fairness for each goroutine as a whole: Go runs a goroutine
that can run, and no operation of a plan is taken to run for ever. It does not
say which ready case a `select` takes, and it is not strong: a channel that is
ready now and then may be missed for ever. `Compiler` has weak
fairness of `Next`: the parent and the script are processes that the system
runs; a write to a full pipe is not enabled, so nothing is promised for it. The
other modules have no fairness: their properties are about what is true when
an apply or a run succeeds, not that one does.

## Proofs

For every value of the constants (every set of plans and every manifest,
cyclic ones too, every number of workers and every capacity, all scripts of
operations, all edits, branches and trees, all manifest directories):

| Theorem | States | Argument |
|---|---|---|
| `ExecPoolProofs!TypeCorrect` | `Spec => []TypeOK` | inductive as it stands, one lemma per goroutine |
| `DependenciesFirst` | `Spec => []DepsFirst` | from `CacheSound` |
| `AlwaysOnePlace` | `Spec => []OnePlace` | inductive together with `TypeOK`; one lemma per place a plan can move to |
| `AlwaysCountExact` | `Spec => []CountExact` | from `Counting` |
| `FullQueuesExplained` | `Spec => []FullForOneMore` | from `Counting`, `Starts` and `PanicsFull`: what is in a queue is counted, or seen, and each of another plan |
| `NeverPanics` | no panic and no full `planStartC`, if there are no more plans than any of `QueueCaps` | from `FullQueuesExplained` |
| `PoolImplementsSchedule` | `Spec => Implements` | step by step: `WorkerTake` begins a plan, `WorkerExec` ends it, every other step stutters |
| `AlwaysCompletionsKept` | `Spec => []CompletionsKept` | inductive with `TypeOK` |
| `AlwaysNothingForgotten` | `Spec => []NothingForgotten` | from `Walk` |
| `CascadeIsComplete` | `Spec => []CascadeComplete` | from `Cascade` |
| `PlanExecProofs!TypeCorrect` | `Spec => []TypeOK` | from `Typed`; a fresh time exists because the recorded ones are fewer (cardinality) |
| `CacheHidesNothing`, `RepairsWhatItTracks`, `AppliesOnce` | `UpToDate`, `Repaired`, `Idempotent` | from `Telling` |
| `GitRepoProofs!TypeCorrect` | `Spec => []TypeOK` | with what a clone's HEAD and branches are |
| `AppliesSettle`, `BranchFollowed`, `PinIsHeld` | `Settles`, `Follows`, `PinHeld` | from `GitInv` |
| `PlannerProofs!TypeCorrect` | `Spec => []TypeOK` | a worker is never past its last operation |
| `StateIsKept`, `StateIsDropped`, `TornReadsExplained` | `StateKept`, `StateDropped`, `NoTornRead` | from `Keeping`, `Dropping`, `Accounted`, all with `Sound` |
| `AtomicReplace`, `OldTreeKept` | `OldOrNew`, `NothingLost` | from `Progress` |
| `FileOpsProofs!TypeCorrect`, `SuccessIsComplete` | `TypeOK`, `Succeeded` | from `Done`: `Progress` and, for copy, `Copies` |
| `FilterProofs!FilterProperties` | what `Filter` keeps, drops and bounds | least counterexample |
| `CompilerProofs!TypeCorrect` | `Spec => []TypeOK` | inductive |
| `EndsAreJustified`, `InDependencyOrder` | `EndsForAReason`, `DependencyOrder` | from `IInv`, of which each phase of the compilation has a part |
| `ManifestProofs!TypeCorrect` | `Spec => []TypeOK` | with `Manifests`, and `Extraction` for the directory that is written |
| `ReloadsWhatWasSaved` | `Spec => []ReloadsNoInner` | from `TypeOK`: what lookup finds first in the archive is the image of the manifest, as read |
| `ExtractsTheManifest`, `ExtractsWhatIsFlat` | `ExtractsAll`, `ExtractsFlat` | from `Extraction` |
| `WritesNothingOver` | `Spec => NoOverwrite` | from `Extraction`: only the first call is to be done, and finds the directory |

Why these invariants are needed:

* `DepsFirst` says nothing of `done`, on which the feeder decides. `CacheSound`
  adds that `done` and the results on their way to the feeder are among the
  counted results, and that what was handed out had its dependencies done.
* That adding a result to the counted set makes it larger needs that a plan is
  in one place: `Counting` is proved from `OnePlace`, with the cardinality
  theorems of the library. The refinement needs all three: that a plan taken by
  a worker has not begun is `OnePlace`, that its dependencies have finished is
  `DepsFirst`.
* What fills a queue is not in `FullForOneMore`. `Starts` says that, once the
  feeder has begun, the plans in `planStartC` and the one it is handing out are
  different and were all seen; `PanicsFull` that a gatherer that panics found `planDoneC` at
  its capacity.
* `NothingForgotten` speaks of a feeder at rest. `Walk` speaks of it at work:
  what a plan that was seen or is pending names is seen, pending, or in a call
  of `feedPlan` on the stack. Lemmas give what is on a stack after a push, a
  pop and a concatenation.
* `CascadeComplete` speaks of the end of an apply. `Cascade` is what holds
  within one: the states read are those of the operations so far, and unless an
  apply failed, what is owed is behind an operation that the current apply finds
  dirty.
* `GitInv` relates the clone to what the apply knows of it: a clone has one
  local branch, and HEAD is on no other; an apply that nobody pushed during has
  fetched all there is; the remote head that was saved is what is checked out,
  and so is that of the remote itself between an undisturbed `Run` and its
  `Record`.
* The planner's files are written by workers of this apply, of earlier ones and
  of other arguments. `Sound` says whose plans can be running at which point of
  the process; with it `Keeping` and `Dropping` follow a state file from the
  truncation to the save, against a prune that has listed the directory.
* `Progress` says, for each point of atomic-copy, which tree is at `dest`, which
  in the temporary directory, and which sources the staged one is made of.
  `Copies` says the same of copy: the files before the one it is at are where
  they belong, whatever a later file is merged with.
* `UpToDate`, `Repaired` and `Idempotent` speak of the end of an apply, and what
  makes them true happened in earlier applies. `Telling` is what holds always,
  in eight parts. `Files` says what any saved state says of the operation that
  left it, with no reference to the machine, which anyone may have changed
  since, but for arguments (`SavedOK`), and that the files of two operations of
  a chain agree when the target between them is as it was recorded. `Between`
  is what is true between applies, and gives `UpToDate` and `Repaired`; `Again`
  is what is true of an apply that follows one that succeeded, and gives
  `Idempotent`. The others are about an apply under way:
  which of the states read at its beginning are still true of the machine
  (`Ahead`), or if not, that an operation already made dirty the one they
  belong to, or restored what was recorded before (`Clean`, with `Current`,
  `Stale`, `Rewritten`), and what the operations behind have achieved
  (`Behind`, `Ran`). The difficult step is `Skip`: that the comparison
  of what was saved with what was read *before the first operation ran* is
  enough although the operations in between have written.
* The compiler's properties compare two accounts of the same manifest. While
  a script runs, what the pipe holds is what the script got to (`Compiles`).
  While `allPlans` runs, the calls on its stack are a path of references from
  the main plan and a listed plan comes after all it refers to (`Lists`): so a
  stack that is full is longer than there are names, the pigeonhole principle
  gives a name that occurs twice, and the path between is a cycle; a list that
  is complete has none. `Sorts` says what a round of `sortPlans` keeps. With
  what `Lists` says there is always a plan that waits for nothing, the first
  one listed of those that wait, so a circular dependency is never reported.
* That what was saved loads as what was saved has two halves. The first is about
  the operators: what is written of a manifest, its image, is a part of the tree
  it was loaded from (files no manifest has are left out), and loading that part
  gives the manifest again (`LoadedIs`): the same directories hold a plan, so the
  ways are the same, and each has the same files. `Manifests` says that whatever
  is in memory is loaded so. The second is that the image is what is written.
  For an archive, `TypeOK` has its entries; that names are right without plans
  of plans and backslashes, and are all taken, is `SavedRead`, and that data
  changes no path and so no way, `LoadsByPath`. For a directory, `Extraction` says what is there
  while `SaveDir` runs (`Progress`): what is done is there, and a task is done
  when neither it nor a call above it is still to be done; no file is there but
  the image's; every directory was made by a task or for a file. That a plan
  with plans is refused is `Once`: no directory is made twice. That only plans
  directly below another are saved is `Parents`, which needs the order of
  `SaveDir`: files of a caller come before its plans, so a directory that some
  file would need is there, and refused, before a plan in it could be made.

The assumptions are those of the modules: `TreeAssumption` and `PoolAssumption`
(Main is a plan, the manifests have the right shape, there is a worker and a
place in the queues, `None` is not a plan; in `NeverPanics` also that the plans
are finite and no more than any capacity considered), `ScriptsAssumption`,
`GitAssumption`, `PlannerAssumption`, `FileOpsAssumption`,
`CompilerAssumption` and `ManifestAssumption` (the constants have their shapes, and marks such as `Torn`
are not what they mark; sources have names different from the destination's,
and trees are files or directories; a manifest directory is finite and has no
file below a file; the names the program itself gives have no backslash and
are like none that is refused). Two of them keep a bound of the model
from being what a property shows: `6 * Len(s) <= MaxStamp` leaves a free
time; the names of scripts are finite, and `MaxDepth` is larger than their
number and one more, so that a stack overflows on a cycle only - Go's default
of a gigabyte is far above it. TLC evaluates them in the runs.

No module that is proved about declares a `RECURSIVE` operator. What the
compiler and the file operators pick from a list is `Filter`, a recursive
function of a module of its own; what it returns is proved by least
counterexample, since the induction rules of the library take an operator as a
parameter and cannot be applied.

Only model-checked:

* Liveness (`HangsOnlyWaiting`, `Finishes`): fairness and `ENABLED` are out of
  reach of the provers.

## What is not modelled

* `octx.Context` ends in no caller, so the `Done` cases of the pool never fire;
  the stop case of the gatherer is dead, since `stopC` is closed after it
  returned.
* Output, debug labels, summaries and tables, and the unsynchronised scope of
  `StdIO` (a data race that only changes labels).
* The shell parser and its annotations, `PATH`, background jobs of scripts;
  facts; the command line but for the loop of apply; test helpers. They are
  syntax, formatting or wrappers with no state of their own.
* Two plans of one manifest over the same cells: `Planner` has two plans over
  one state directory, for what becomes of the files, but not what each makes
  of the machine. Nor two polyester processes at a time: nothing in the code
  guards against that, and the state directory has no lock.
* In `PlanExec`: directories (which pcopy compares without contents), a `Run`
  that fails half-way (see `FileOps`), a template with several destinations, a
  mode of `mkdir` that the umask cuts (it is recorded cut and never repaired),
  `apt-install` of a virtual package (executed by every apply, since its state
  is dropped from the file), `useradd` without attributes (it calls `usermod`
  with empty ones; its group options are not used by the code).
* In `FileOps`: exclude patterns, which are not applied within copied
  directories, and trees deeper than one level. In `Manifest`: names with
  characters that sort before `/`, permissions, and reading an archive in which a
  file and a directory share a name (`Save` can write one, of plans of plans).
* The search order of `PlanDir.Resolve`, beyond what it makes of the sources of
  pcopy.
* In `ExecPool`: a plan that is called `main`. `readPlan` makes the main plan and
  one of that name two `*Plan`s, which `seen` takes for one; `PlanTree` has one
  plan per name. `Compiler` has such scripts.

Seven hazards have no property; `PROJECT.json` says why of each. Five of them are
behaviours that the conditions of a property leave out, as listed above.

## Plan

1. The search order of `PlanDir.Resolve` and the file systems of operators.
2. Two plans over one machine: the concurrent composition of `PlanExec` under
   `PlanSchedule`, and two processes over one state directory.
3. Templates with several destinations; the group and attribute options of
   users.
