------------------------------ MODULE ExecPool ------------------------------
(***************************************************************************)
(* The pool of package planner/execute that runs the plans of a manifest:  *)
(* execute.Execute (execute.go) and execPool, planCache and runWorker      *)
(* (worker.go).  Four kinds of goroutine share the channels of the pool:   *)
(*                                                                         *)
(*   main      Execute: newExecPool, start, add, wait and the deferred     *)
(*             stop;                                                       *)
(*   feeder    feederLoop: decides which plan may run, hands it to a       *)
(*             worker, and is the only reader of planStartC and planDoneC; *)
(*   worker    runWorker.loop, one goroutine per element of Worker;        *)
(*   gatherer  gathererLoop: counts results, tells the feeder of each, and *)
(*             ends the run when the count of plans handed out is zero.    *)
(*                                                                         *)
(* An action is one communication of one goroutine together with the       *)
(* local code up to the next one.  octx.Context is context.Background in   *)
(* every caller, so its Done case never fires, and the gatherer's stopC    *)
(* case is dead: stopC is only closed after the gatherer returned.         *)
(***************************************************************************)
EXTENDS PlanTree, Integers, FiniteSets

CONSTANTS NumWorkers,   \* Opts.Concurrency, runtime.NumCPU() by default
          QueueCaps,    \* capacities considered for planStartC and planDoneC
          None          \* no plan

ASSUME PoolAssumption == /\ NumWorkers \in Nat \ {0}
                         /\ QueueCaps \subseteq Nat \ {0}
                         /\ None \notin Plan

Worker == 1 .. NumWorkers      \* in the order enqueueOnePlan tries them

NoResult == [plan |-> None, outcome |-> "nil"]

VARIABLES
  tree,         \* the manifest, constant during a run
  cap,          \* capacity of planStartC and planDoneC, the constant 100
  mpc,          \* main: where Execute is
  planStartC, planDoneC,        \* the two buffered channels
  stopC,        \* have wrk.stopC and ep.stopC been closed?
  fpc,          \* feeder: where feederLoop is
  frames,       \* feeder: the calls of feedPlan still to be made or ended
  cur, idx,     \* feeder: enqueueOnePlan's plan, and the worker it tries next
  seen, pending, done,          \* feeder: the planCache
  in,           \* worker: the one-place buffer wrk.in
  wpc, wplan, wout,             \* worker: where loop is, on what, outcome
  gpc, gres, last,              \* gatherer: where it is, on what, allDone?
  results,      \* gatherer: unsortedResults
  n             \* ep.n: plans handed out whose result was not counted

mainVars     == <<tree, cap, mpc, stopC>>
feederVars   == <<fpc, frames, cur, idx, seen, pending, done>>
workerVars   == <<wpc, wplan, wout>>
gathererVars == <<gpc, gres, last, results>>
vars == <<mainVars, feederVars, workerVars, gathererVars, planStartC, planDoneC, in, n>>

-----------------------------------------------------------------------------
(* planCache and the plans in flight.  A definition marked "defect" is the *)
(* one below it with a plausible mistake in it; no action uses it, and it  *)
(* serves to show that a property notices the mistake.                     *)

DepsSeen(p) == DepsOf(tree, p) \subseteq seen      \* defect: handed out, not yet run

DepsSome(p) ==                \* defect: one dependency is enough
  DepsOf(tree, p) = {} \/ DepsOf(tree, p) \cap done # {}

DepsComplete(p) == DepsOf(tree, p) \subseteq done      \* areDepsComplete

Ready == {p \in pending : DepsComplete(p)}             \* what runPending runs

Panicked == gpc = "panic"      \* an unrecovered panic ends every goroutine

Polling == IF fpc \in {"poll", "wait"} THEN {cur} ELSE {}
Queued  == {in[w] : w \in Worker} \ {None}
Running == {wplan[w] : w \in Worker} \ {None}
Held    == IF gpc = "count" THEN {gres.plan} ELSE {}
Counted == {r.plan : r \in results}

-----------------------------------------------------------------------------
Frame == [plan : Plan, step : {"feed", "own"}]

Feeds(s) == [i \in DOMAIN s |-> [plan |-> s[i], step |-> "feed"]]

Call(p)  == <<[plan |-> p, step |-> "feed"]>>

Body(p)  == Feeds(tree.deps[p]) \o Feeds(tree.plans[p])
              \o <<[plan |-> p, step |-> "own"]>>

(* newExecPool and start: empty channels, every goroutine at its loop *)
Init ==
  /\ tree \in Trees /\ cap \in QueueCaps
  /\ mpc = "add"
  /\ planStartC = <<>> /\ planDoneC = <<>>
  /\ stopC = FALSE
  /\ fpc = "loop" /\ frames = <<>> /\ cur = None /\ idx = 1
  /\ seen = {} /\ pending = {} /\ done = {}
  /\ in    = [w \in Worker |-> None]
  /\ wpc   = [w \in Worker |-> "idle"]
  /\ wplan = [w \in Worker |-> None]
  /\ wout  = [w \in Worker |-> "nil"]
  /\ gpc = "recv" /\ gres = NoResult /\ last = FALSE
  /\ results = {}
  /\ n = 0

-----------------------------------------------------------------------------
(* main *)

Add ==
  /\ mpc = "add"
  /\ Len(planStartC) < cap
  /\ planStartC' = Append(planStartC, Main)
  /\ mpc' = "wait"
  /\ UNCHANGED <<tree, cap, stopC, feederVars, workerVars, gathererVars, planDoneC, in, n>>

(* The deferred stop closes the workers' channels and then the feeder's;   *)
(* a goroutine may always notice late, so closing them in one step allows  *)
(* the same behaviours.                                                    *)
Stop ==
  /\ mpc = "stop"
  /\ stopC' = TRUE
  /\ mpc' = "returned"
  /\ UNCHANGED <<tree, cap, feederVars, workerVars, gathererVars, planStartC, planDoneC, in, n>>

-----------------------------------------------------------------------------
(* feeder *)

ResumeFeed(fs) == "feed"      \* defect: runPending's caller forgotten

(* Where the feeder goes when enqueueOnePlan returns: back to feedPlan, or *)
(* to runPending, whose call has already left `pending` here (the map is   *)
(* the feeder's own and is not read before the call returns).              *)
Resume(fs) == IF fs = <<>> THEN "loop" ELSE "feed"

EnqueueAgain(p, fs) ==        \* defect: seen is not consulted
  /\ seen' = seen \cup {p}
  /\ n' = n + 1
  /\ cur' = p /\ idx' = 1
  /\ fpc' = "poll"

EnqueueCountFirst(p, fs) ==   \* defect: counts before the early return
  IF p \in seen
  THEN n' = n + 1 /\ fpc' = Resume(fs) /\ UNCHANGED <<cur, idx, seen>>
  ELSE EnqueueAgain(p, fs)

Enqueue(p, fs) ==
  IF p \in seen
  THEN /\ fpc' = Resume(fs)
       /\ UNCHANGED <<cur, idx, seen, n>>
  ELSE /\ seen' = seen \cup {p}
       /\ n' = n + 1
       /\ cur' = p /\ idx' = 1
       /\ fpc' = "poll"

RunPending(p) ==
  /\ fpc = "loop"
  /\ p \in Ready
  /\ pending' = pending \ {p}
  /\ Enqueue(p, frames)
  /\ UNCHANGED <<mainVars, frames, done, workerVars, gathererVars, planStartC, planDoneC, in>>

(* The select of feederLoop is reached when runPending has nothing to run. *)
AtSelect == fpc = "loop" /\ Ready = {}

FeederStop ==
  /\ AtSelect
  /\ stopC
  /\ fpc' = "done"
  /\ UNCHANGED <<mainVars, frames, cur, idx, seen, pending, done, workerVars,
                 gathererVars, planStartC, planDoneC, in, n>>

(* The second runPending, between the receive and feedPlan, finds nothing: *)
(* the first left no ready plan and nothing has changed the cache since.   *)
FeederStart ==
  /\ AtSelect
  /\ planStartC # <<>>
  /\ planStartC' = Tail(planStartC)
  /\ frames' = Call(Head(planStartC))
  /\ fpc' = "feed"
  /\ UNCHANGED <<mainVars, cur, idx, seen, pending, done, workerVars, gathererVars,
                 planDoneC, in, n>>

FeederFinishAny ==            \* defect: a failed plan counts as done
  /\ AtSelect
  /\ planDoneC # <<>>
  /\ planDoneC' = Tail(planDoneC)
  /\ done' = done \cup {Head(planDoneC).plan}
  /\ frames' = Call(Head(planDoneC).plan)
  /\ fpc' = "feed"
  /\ UNCHANGED <<mainVars, cur, idx, seen, pending, workerVars, gathererVars,
                 planStartC, in, n>>

(* finishPlan: neither a nil result nor one without its Plan marks the     *)
(* plan as done.                                                           *)
FeederFinish ==
  /\ AtSelect
  /\ planDoneC # <<>>
  /\ planDoneC' = Tail(planDoneC)
  /\ LET r == Head(planDoneC) IN
       IF r.outcome = "ok"
       THEN /\ done' = done \cup {r.plan}
            /\ frames' = Call(r.plan)
            /\ fpc' = "feed"
       ELSE UNCHANGED <<done, frames, fpc>>
  /\ UNCHANGED <<mainVars, cur, idx, seen, pending, workerVars, gathererVars,
                 planStartC, in, n>>

(* feedPlan(p): first its dependencies, then its sub-plans, then itself *)
FeedPlan ==
  /\ fpc = "feed"
  /\ Head(frames).step = "feed"
  /\ frames' = Body(Head(frames).plan) \o Tail(frames)
  /\ UNCHANGED <<mainVars, fpc, cur, idx, seen, pending, done, workerVars, gathererVars,
                 planStartC, planDoneC, in, n>>

FeedOwnOnly ==                \* defect: drops the plan it cannot run yet
  /\ fpc = "feed"
  /\ Head(frames).step = "own"
  /\ frames' = Tail(frames)
  /\ IF tree.ops[Head(frames).plan] /\ DepsComplete(Head(frames).plan)
     THEN Enqueue(Head(frames).plan, Tail(frames))
     ELSE fpc' = Resume(Tail(frames)) /\ UNCHANGED <<cur, idx, seen, n>>
  /\ UNCHANGED <<mainVars, pending, done, workerVars, gathererVars, planStartC, planDoneC, in>>

FeedOwn ==
  /\ fpc = "feed"
  /\ Head(frames).step = "own"
  /\ frames' = Tail(frames)
  /\ LET p == Head(frames).plan IN
       IF tree.ops[p] /\ DepsComplete(p)
       THEN /\ Enqueue(p, Tail(frames))
            /\ UNCHANGED pending
       ELSE /\ pending' = pending \cup {p}
            /\ fpc' = Resume(Tail(frames))
            /\ UNCHANGED <<cur, idx, seen, n>>
  /\ UNCHANGED <<mainVars, done, workerVars, gathererVars, planStartC, planDoneC, in>>

(* One turn of enqueueOnePlan's loop over the workers: a send that does    *)
(* not block.                                                              *)
PollFree ==
  /\ fpc = "poll"
  /\ idx \in Worker
  /\ in[idx] = None
  /\ in' = [in EXCEPT ![idx] = cur]
  /\ fpc' = "notify"
  /\ UNCHANGED <<mainVars, frames, cur, idx, seen, pending, done, workerVars,
                 gathererVars, planStartC, planDoneC, n>>

PollFull ==
  /\ fpc = "poll"
  /\ idx \in Worker
  /\ in[idx] # None
  /\ idx' = idx + 1
  /\ UNCHANGED <<mainVars, fpc, frames, cur, seen, pending, done, workerVars,
                 gathererVars, planStartC, planDoneC, in, n>>

(* Every worker was busy: the feeder goes to receive from unblockWrkPoll.  *)
(* Only from here on does the gatherer's send, which does not block, find  *)
(* a receiver.                                                             *)
PollWait ==
  /\ fpc = "poll"
  /\ idx \notin Worker
  /\ fpc' = "wait"
  /\ UNCHANGED <<mainVars, frames, cur, idx, seen, pending, done, workerVars,
                 gathererVars, planStartC, planDoneC, in, n>>

(* planStartC <- plan, in the feeder itself: blocks when the queue is full *)
Notify ==
  /\ fpc = "notify"
  /\ Len(planStartC) < cap
  /\ planStartC' = Append(planStartC, cur)
  /\ fpc' = Resume(frames)
  /\ cur' = None /\ idx' = 1
  /\ UNCHANGED <<mainVars, frames, seen, pending, done, workerVars, gathererVars,
                 planDoneC, in, n>>

-----------------------------------------------------------------------------
(* worker w *)

WorkerTake(w) ==
  /\ wpc[w] = "idle"
  /\ in[w] # None
  /\ wplan' = [wplan EXCEPT ![w] = in[w]]
  /\ in' = [in EXCEPT ![w] = None]
  /\ wpc' = [wpc EXCEPT ![w] = "exec"]
  /\ UNCHANGED <<mainVars, feederVars, wout, gathererVars, planStartC, planDoneC, n>>

(* executePlan returns, and loop turns an error into a PlanResult *)
WorkerExec(w) ==
  /\ wpc[w] = "exec"
  /\ \E o \in Outcomes(tree, wplan[w]) : wout' = [wout EXCEPT ![w] = o]
  /\ wpc' = [wpc EXCEPT ![w] = "send"]
  /\ UNCHANGED <<mainVars, feederVars, wplan, gathererVars, planStartC, planDoneC, in, n>>

WorkerStop(w) ==
  /\ wpc[w] = "idle"
  /\ stopC
  /\ wpc' = [wpc EXCEPT ![w] = "stopped"]
  /\ UNCHANGED <<mainVars, feederVars, wplan, wout, gathererVars, planStartC, planDoneC, in, n>>

-----------------------------------------------------------------------------
(* gatherer *)

(* res := <-ep.out, an unbuffered channel: w is in its send *)
Receive(w) ==
  /\ gpc = "recv"
  /\ wpc[w] = "send"
  /\ gres' = [plan |-> wplan[w], outcome |-> wout[w]]
  /\ gpc' = "count"
  /\ wpc' = [wpc EXCEPT ![w] = "idle"]
  /\ wplan' = [wplan EXCEPT ![w] = None]
  /\ wout' = [wout EXCEPT ![w] = "nil"]
  /\ UNCHANGED <<mainVars, feederVars, last, results, planStartC, planDoneC, in, n>>

Count ==
  /\ gpc = "count"
  /\ n' = n - 1
  /\ last' = (n' = 0)
  /\ results' = results \cup {gres}
  /\ gpc' = "notify"
  /\ UNCHANGED <<mainVars, feederVars, workerVars, gres, planStartC, planDoneC, in>>

NotifyUnbuffered ==           \* defect: planDoneC made without a buffer
  /\ gpc = "notify"
  /\ IF AtSelect
     THEN planDoneC' = Append(planDoneC, gres) /\ gpc' = "unblock"
     ELSE gpc' = "panic" /\ UNCHANGED planDoneC
  /\ UNCHANGED <<mainVars, feederVars, workerVars, gres, last, results, planStartC, in, n>>

(* planDoneC <- res without blocking; a full queue is a panic *)
NotifyDone ==
  /\ gpc = "notify"
  /\ IF Len(planDoneC) < cap
     THEN planDoneC' = Append(planDoneC, gres) /\ gpc' = "unblock"
     ELSE gpc' = "panic" /\ UNCHANGED planDoneC
  /\ UNCHANGED <<mainVars, feederVars, workerVars, gres, last, results, planStartC, in, n>>

(* unblockWrkPoll <- struct{}{} without blocking: it reaches the feeder    *)
(* only when the feeder is already receiving, and is lost otherwise.       *)
Unblock ==
  /\ gpc = "unblock"
  /\ IF fpc = "wait"
     THEN fpc' = "poll" /\ idx' = 1
     ELSE UNCHANGED <<fpc, idx>>
  /\ gpc' = IF last THEN "finish" ELSE "recv"
  /\ gres' = NoResult
  /\ UNCHANGED <<mainVars, frames, cur, seen, pending, done, workerVars, last, results,
                 planStartC, planDoneC, in, n>>

(* allDone <- &Result{...}, received by wait *)
Finish ==
  /\ gpc = "finish"
  /\ mpc = "wait"
  /\ gpc' = "returned"
  /\ mpc' = "stop"
  /\ UNCHANGED <<tree, cap, stopC, feederVars, workerVars, gres, last, results, planStartC,
                 planDoneC, in, n>>

-----------------------------------------------------------------------------
MainStep == Add \/ Stop

FeederStep == \/ \E p \in Plan : RunPending(p)
              \/ FeederStop \/ FeederStart \/ FeederFinish
              \/ FeedPlan \/ FeedOwn
              \/ PollFree \/ PollFull \/ PollWait \/ Notify

WorkerStep(w) == WorkerTake(w) \/ WorkerExec(w) \/ WorkerStop(w)

GathererStep == \/ \E w \in Worker : Receive(w)
                \/ Count \/ NotifyDone \/ Unblock \/ Finish

(* Execute has returned, whatever its goroutines still do: nothing waits   *)
(* for them.                                                               *)
Returned == mpc = "returned" /\ UNCHANGED vars

Next == \/ /\ ~Panicked
           /\ \/ MainStep
              \/ FeederStep
              \/ \E w \in Worker : WorkerStep(w)
              \/ GathererStep
        \/ Returned

Spec == Init /\ [][Next]_vars

(* The Go scheduler runs every goroutine that can run, and a plan's        *)
(* operations are taken to end.  A select between ready cases may favour   *)
(* any of them.                                                            *)
Fairness == /\ WF_vars(~Panicked /\ MainStep)
            /\ WF_vars(~Panicked /\ FeederStep)
            /\ WF_vars(~Panicked /\ GathererStep)
            /\ \A w \in Worker : WF_vars(~Panicked /\ WorkerStep(w))

FairSpec == Spec /\ Fairness

-----------------------------------------------------------------------------
(* Properties *)

(* Every variable has its type.  (execPool, planCache, runWorker)          *)
TypeOK ==
  /\ tree \in Tree /\ cap \in QueueCaps
  /\ mpc \in {"add", "wait", "stop", "returned"}
  /\ planStartC \in Seq(Plan)
  /\ planDoneC \in Seq(Result)
  /\ stopC \in BOOLEAN
  /\ fpc \in {"loop", "feed", "poll", "wait", "notify", "done"}
  /\ frames \in Seq(Frame)
  /\ fpc = "feed" => frames # <<>>
  /\ cur \in Plan \cup {None}
  /\ fpc \in {"poll", "wait", "notify"} => cur # None
  /\ idx \in 1 .. NumWorkers + 1
  /\ seen \subseteq Plan /\ pending \subseteq Plan /\ done \subseteq Plan
  /\ in \in [Worker -> Plan \cup {None}]
  /\ wpc \in [Worker -> {"idle", "exec", "send", "stopped"}]
  /\ wplan \in [Worker -> Plan \cup {None}]
  /\ \A w \in Worker : wplan[w] # None <=> wpc[w] \in {"exec", "send"}
  /\ wout \in [Worker -> {"ok", "err", "nil"}]
  /\ gpc \in {"recv", "count", "notify", "unblock", "finish", "returned", "panic"}
  /\ gres \in Result \cup {NoResult}
  /\ gpc \in {"count", "notify", "unblock"} => gres # NoResult
  /\ last \in BOOLEAN
  /\ results \subseteq Result
  /\ n \in Int

(* The counter that ends the run is right at every step of every           *)
(* goroutine: it is the number of plans enqueueOnePlan has taken whose     *)
(* result the gatherer has not counted, although feeder and gatherer       *)
(* update it without a lock.  (worker.go: ep.n)                            *)
CountExact == n = Cardinality(seen) - Cardinality(results)

(* A plan taken by enqueueOnePlan is in exactly one place: with the feeder *)
(* that polls, in one worker's buffer, in one worker's execution, with the *)
(* gatherer, or among the results.  None is lost between two goroutines    *)
(* and none is run or counted twice.                                       *)
OnePlace ==
  /\ seen = Polling \cup Queued \cup Running \cup Held \cup Counted
  /\ Polling \cap Queued = {}
  /\ (Polling \cup Queued) \cap Running = {}
  /\ (Polling \cup Queued \cup Running) \cap Held = {}
  /\ (Polling \cup Queued \cup Running \cup Held) \cap Counted = {}
  /\ \A v, w \in Worker : v # w => (in[v] # None => in[v] # in[w])
  /\ \A v, w \in Worker : v # w => (wplan[v] # None => wplan[v] # wplan[w])
  /\ \A r, s \in results : r.plan = s.plan => r = s

(* A plan is handed to a worker only when every one of its dependencies    *)
(* has run and its success was counted: the second of Execute's "safety    *)
(* checks".  It relates the feeder's cache, which learns of results late   *)
(* and through a queue, to what the workers really did.                    *)
DepsFirst == \A p \in seen : DepsOf(tree, p) \subseteq Succeeded(results)

(* No completion is lost on its way to the feeder: a plan whose success    *)
(* was counted is done, or its result is still in planDoneC or about to be *)
(* put there.                                                              *)
CompletionsKept ==
  Succeeded(results) = done \cup Succeeded(ToSet(planDoneC))
                         \cup (IF gpc \in {"notify", "panic"} THEN Succeeded({gres}) ELSE {})

(* When the feeder waits in its select after it was given the manifest,    *)
(* every plan of the manifest was handed out or is pending: feedPlan's     *)
(* walk misses none and nothing drops one it could not run yet.            *)
NothingForgotten ==
  AtSelect /\ (Main \in seen \cup pending) => InTree(tree) \subseteq seen \cup pending

(* A queue is full only for the plan that is one more than it has places:  *)
(* the gatherer panics (worker.go:194) only when it has counted more plans *)
(* than planDoneC takes, and the feeder blocks in the send to planStartC,  *)
(* which nobody but it would receive (worker.go:66), only when it has      *)
(* handed out more than planStartC takes, main's own start included.       *)
FullForOneMore ==
  /\ Panicked => Cardinality(Counted) > cap
  /\ fpc = "notify" /\ Len(planStartC) = cap => Cardinality(seen) > cap

(* Results that exist: counted, received and not yet counted, or being     *)
(* sent by a worker.                                                       *)
Ended == results \cup (IF gpc = "count" THEN {gres} ELSE {})
           \cup {[plan |-> wplan[w], outcome |-> wout[w]] :
                   w \in {v \in Worker : wpc[v] = "send"}}

Begun == Running \cup {r.plan : r \in Ended}

(* The pool implements the schedule Execute promises.                      *)
PS == INSTANCE PlanSchedule WITH started <- Begun, finished <- Ended

Implements == PS!Spec

(* Execute returns: the count reaches zero and every goroutine it needs    *)
(* moves on.  (execPool.wait)                                              *)
Returns == <>(mpc = "returned")

(* With a worker for every plan of the manifest Execute returns; with      *)
(* fewer, the only way it can hang is the feeder waiting for ever for a    *)
(* free worker: counter, results, completions and pending plans never      *)
(* leave it stuck.  (execPool.wait, enqueueOnePlan)                        *)
HangsOnlyWaiting ==
  \/ <>(mpc = "returned")
  \/ Cardinality(InTree(tree)) > NumWorkers /\ <>[](fpc = "wait")

-----------------------------------------------------------------------------
(* What the comments of the code say and the pool does not do *)

(* When Execute returns without an error every plan of the manifest has    *)
(* run.  (execute.go:24: "Execute runs a manifest concurrently. Each       *)
(* "plan" or "dependency" operation runs in a concurrent pool")            *)
CompleteOnReturn ==
  mpc = "returned" /\ (\A r \in results : r.outcome # "err") => InTree(tree) \subseteq Counted
=============================================================================
