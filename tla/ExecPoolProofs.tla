--------------------------- MODULE ExecPoolProofs ---------------------------
(***************************************************************************)
(* Theorems about ExecPool for every set of plans, every manifest, every   *)
(* number of workers and every queue capacity.                             *)
(***************************************************************************)
EXTENDS ExecPool, FiniteSetTheorems, TLAPS

-----------------------------------------------------------------------------
(* Sequences of frames, and sequences used as queues *)

LEMMA AppendType ==
  ASSUME NEW S, NEW s \in Seq(S), NEW e \in S
  PROVE  Append(s, e) \in Seq(S)
OBVIOUS

LEMMA FeedsType ==
  ASSUME NEW s \in Seq(Plan)
  PROVE  Feeds(s) \in Seq(Frame)
<1>1. s \in [1 .. Len(s) -> Plan] /\ DOMAIN s = 1 .. Len(s) /\ Len(s) \in Nat
  OBVIOUS
<1>2. Feeds(s) \in [1 .. Len(s) -> Frame]
  BY <1>1 DEF Feeds, Frame
<1> QED
  BY <1>1, <1>2

LEMMA BodyType ==
  ASSUME tree \in Tree, NEW p \in Plan
  PROVE  Body(p) \in Seq(Frame)
<1>1. tree.deps[p] \in Seq(Plan) /\ tree.plans[p] \in Seq(Plan)
  BY DEF Tree
<1>2. <<[plan |-> p, step |-> "own"]>> \in Seq(Frame)
  BY DEF Frame
<1> QED
  BY <1>1, <1>2, FeedsType DEF Body

LEMMA CallType ==
  ASSUME NEW p \in Plan
  PROVE  Call(p) \in Seq(Frame) /\ Call(p) # <<>>
BY DEF Call, Frame

(***************************************************************************)
(* TypeOK is preserved, goroutine by goroutine.                            *)
(***************************************************************************)
LEMMA MainType ==
  ASSUME TypeOK, MainStep
  PROVE  TypeOK'
<1> USE TreeAssumption, PoolAssumption
       DEF TypeOK, mainVars, feederVars, workerVars, gathererVars
<1>1. CASE Add
  BY <1>1 DEF Add
<1>2. CASE Stop
  BY <1>2 DEF Stop
<1> QED
  BY <1>1, <1>2 DEF MainStep

LEMMA EnqueueType ==
  ASSUME TypeOK, NEW p \in Plan, NEW fs \in Seq(Frame), Enqueue(p, fs)
  PROVE  /\ seen' \subseteq Plan /\ n' \in Int
         /\ cur' \in Plan \cup {None} /\ idx' \in 1 .. NumWorkers + 1
         /\ fpc' \in {"loop", "feed", "poll"}
         /\ fpc' = "feed" => fs # <<>>
         /\ fpc' = "poll" => cur' # None
BY PoolAssumption DEF TypeOK, Enqueue, Resume

LEMMA FeederType ==
  ASSUME TypeOK, FeederStep
  PROVE  TypeOK'
<1> USE PoolAssumption
    DEF mainVars, workerVars, gathererVars, Worker
<1>1. ASSUME NEW p \in Plan, RunPending(p)
      PROVE  TypeOK'
  <2>1. frames \in Seq(Frame) BY DEF TypeOK
  <2> QED BY <1>1, <2>1, EnqueueType DEF RunPending, TypeOK
<1>2. CASE FeederStop
  BY <1>2 DEF FeederStop, TypeOK
<1>3. CASE FeederStart
  <2>1. Head(planStartC) \in Plan /\ Tail(planStartC) \in Seq(Plan)
    BY <1>3 DEF FeederStart, TypeOK
  <2> QED BY <1>3, <2>1, CallType DEF FeederStart, TypeOK
<1>4. CASE FeederFinish
  <2>1. Head(planDoneC) \in Result /\ Tail(planDoneC) \in Seq(Result)
    BY <1>4 DEF FeederFinish, TypeOK
  <2>2. Head(planDoneC).plan \in Plan
    BY <2>1 DEF Result
  <2> QED BY <1>4, <2>1, <2>2, CallType DEF FeederFinish, TypeOK, AtSelect
<1>5. CASE FeedPlan
  <2>1. Head(frames) \in Frame /\ Tail(frames) \in Seq(Frame)
    BY <1>5 DEF FeedPlan, TypeOK
  <2>2. Head(frames).plan \in Plan
    BY <2>1 DEF Frame
  <2>3. Body(Head(frames).plan) \in Seq(Frame)
    BY <2>2, BodyType DEF TypeOK
  <2>4. Body(Head(frames).plan) # <<>>
    BY <2>2 DEF Body, Feeds, TypeOK, Tree
  <2>5. frames' \in Seq(Frame) /\ frames' # <<>>
    BY <1>5, <2>1, <2>3, <2>4 DEF FeedPlan
  <2>6. UNCHANGED <<mainVars, fpc, cur, idx, seen, pending, done, workerVars, gathererVars,
                    planStartC, planDoneC, in, n>>
    BY <1>5 DEF FeedPlan
  <2> QED BY <2>5, <2>6 DEF TypeOK
<1>6. CASE FeedOwn
  <2>1. Head(frames) \in Frame /\ Tail(frames) \in Seq(Frame)
    BY <1>6 DEF FeedOwn, TypeOK
  <2>2. Head(frames).plan \in Plan
    BY <2>1 DEF Frame
  <2>3. UNCHANGED <<mainVars, done, workerVars, gathererVars, planStartC, planDoneC, in>>
    BY <1>6 DEF FeedOwn
  <2>4. frames' = Tail(frames)
    BY <1>6 DEF FeedOwn
  <2>5. CASE tree.ops[Head(frames).plan] /\ DepsComplete(Head(frames).plan)
    <3>1. Enqueue(Head(frames).plan, Tail(frames)) /\ pending' = pending
      BY <1>6, <2>5 DEF FeedOwn
    <3>2. /\ seen' \subseteq Plan /\ n' \in Int
          /\ cur' \in Plan \cup {None} /\ idx' \in 1 .. NumWorkers + 1
          /\ fpc' \in {"loop", "feed", "poll"}
          /\ fpc' = "feed" => frames' # <<>>
          /\ fpc' = "poll" => cur' # None
      BY <2>1, <2>2, <2>4, <3>1, EnqueueType
    <3> QED BY <2>1, <2>3, <2>4, <3>1, <3>2 DEF TypeOK
  <2>6. CASE ~(tree.ops[Head(frames).plan] /\ DepsComplete(Head(frames).plan))
    <3>1. pending' = pending \cup {Head(frames).plan} /\ fpc' = Resume(frames')
          /\ UNCHANGED <<cur, idx, seen, n>>
      BY <1>6, <2>4, <2>6 DEF FeedOwn
    <3>2. fpc' = "loop" \/ (fpc' = "feed" /\ frames' # <<>>)
      BY <3>1 DEF Resume
    <3> QED BY <2>1, <2>2, <2>3, <2>4, <3>1, <3>2 DEF TypeOK
  <2> QED BY <2>5, <2>6
<1>7. CASE PollFree
  BY <1>7 DEF PollFree, TypeOK
<1>8. CASE PollFull
  BY <1>8 DEF PollFull, TypeOK
<1>9. CASE PollWait
  BY <1>9 DEF PollWait, TypeOK
<1>10. CASE Notify
  <2>1. planStartC \in Seq(Plan) /\ cur \in Plan
    BY <1>10 DEF Notify, TypeOK
  <2>2. planStartC' \in Seq(Plan)
    BY <1>10, <2>1, AppendType DEF Notify
  <2>3. fpc' \in {"loop", "feed"} /\ (fpc' = "feed" => frames' # <<>>)
    BY <1>10 DEF Notify, Resume
  <2> QED BY <1>10, <2>2, <2>3 DEF Notify, TypeOK
<1> QED
  BY <1>1, <1>2, <1>3, <1>4, <1>5, <1>6, <1>7, <1>8, <1>9, <1>10 DEF FeederStep

LEMMA WorkerType ==
  ASSUME TypeOK, NEW w \in Worker, WorkerStep(w)
  PROVE  TypeOK'
<1> USE PoolAssumption
    DEF TypeOK, mainVars, feederVars, gathererVars
<1>1. CASE WorkerTake(w)
  BY <1>1 DEF WorkerTake
<1>2. CASE WorkerExec(w)
  BY <1>2 DEF WorkerExec, Outcomes
<1>3. CASE WorkerStop(w)
  BY <1>3 DEF WorkerStop
<1> QED
  BY <1>1, <1>2, <1>3 DEF WorkerStep

LEMMA GathererType ==
  ASSUME TypeOK, GathererStep
  PROVE  TypeOK'
<1> USE PoolAssumption DEF mainVars, feederVars, workerVars
<1>1. ASSUME NEW w \in Worker, Receive(w)
      PROVE  TypeOK'
  <2>1. gres' \in Result /\ gres' # NoResult
    BY <1>1 DEF Receive, Result, NoResult, TypeOK
  <2> QED BY <1>1, <2>1 DEF Receive, TypeOK
<1>2. CASE Count
  <2>1. gres \in Result
    BY <1>2 DEF Count, TypeOK
  <2> QED BY <1>2, <2>1 DEF Count, TypeOK
<1>3. CASE NotifyDone
  <2>1. gres \in Result /\ planDoneC \in Seq(Result)
    BY <1>3 DEF NotifyDone, TypeOK
  <2>2. planDoneC' = planDoneC \/ planDoneC' = Append(planDoneC, gres)
    BY <1>3 DEF NotifyDone
  <2>3. planDoneC' \in Seq(Result)
    BY <2>1, <2>2, AppendType
  <2> QED BY <1>3, <2>1, <2>3 DEF NotifyDone, gathererVars, TypeOK
<1>4. CASE Unblock
  BY <1>4 DEF Unblock, TypeOK
<1>5. CASE Finish
  BY <1>5 DEF Finish, TypeOK
<1> QED
  BY <1>1, <1>2, <1>3, <1>4, <1>5 DEF GathererStep

(***************************************************************************)
(* Every reachable state of the pool is well typed.                        *)
(***************************************************************************)
THEOREM TypeCorrect == Spec => []TypeOK
<1>1. Init => TypeOK
  <2> SUFFICES ASSUME Init PROVE TypeOK
    OBVIOUS
  <2>1. tree \in Tree
    BY TreeAssumption DEF Init
  <2>2. 1 \in 1 .. NumWorkers + 1
    BY PoolAssumption
  <2>3. /\ in \in [Worker -> Plan \cup {None}]
        /\ wpc \in [Worker -> {"idle", "exec", "send", "stopped"}]
        /\ wplan \in [Worker -> Plan \cup {None}]
        /\ wout \in [Worker -> {"ok", "err", "nil"}]
    BY DEF Init
  <2>4. \A w \in Worker : wplan[w] # None <=> wpc[w] \in {"exec", "send"}
    BY DEF Init
  <2>5. /\ planStartC \in Seq(Plan) /\ planDoneC \in Seq(Result)
        /\ frames \in Seq(Frame) /\ results \subseteq Result
        /\ seen \subseteq Plan /\ pending \subseteq Plan /\ done \subseteq Plan
    BY DEF Init
  <2>6. /\ mpc \in {"add", "wait", "stop", "returned"}
        /\ n \in Int
        /\ fpc \in {"loop", "feed", "poll", "wait", "notify", "done"}
        /\ fpc = "feed" => frames # <<>>
        /\ fpc \in {"poll", "wait", "notify"} => cur # None
    BY DEF Init
  <2>7. /\ cur \in Plan \cup {None}
        /\ gpc \in {"recv", "count", "notify", "unblock", "finish", "returned", "panic"}
        /\ gres \in Result \cup {NoResult}
        /\ gpc \in {"count", "notify", "unblock"} => gres # NoResult
        /\ idx \in 1 .. NumWorkers + 1
    BY <2>2 DEF Init
  <2>8. stopC \in BOOLEAN /\ last \in BOOLEAN /\ cap \in QueueCaps
    BY Zenon DEF Init
  <2> QED BY <2>1, <2>3, <2>4, <2>5, <2>6, <2>7, <2>8, Zenon DEF TypeOK
<1>2. TypeOK /\ [Next]_vars => TypeOK'
  <2> SUFFICES ASSUME TypeOK, [Next]_vars
               PROVE  TypeOK'
    OBVIOUS
  <2>1. CASE UNCHANGED vars
    BY <2>1 DEF TypeOK, vars, mainVars, feederVars, workerVars, gathererVars
  <2>2. CASE Next
    BY <2>1, <2>2, MainType, FeederType, WorkerType, GathererType DEF Next, Returned
  <2> QED BY <2>1, <2>2
<1> QED BY <1>1, <1>2, PTL DEF Spec

-----------------------------------------------------------------------------
(***************************************************************************)
(* Dependencies first.  DepsFirst alone is not inductive: the feeder       *)
(* decides with its cache, so the cache and the messages that feed it must *)
(* only speak of successes the gatherer has counted.                       *)
(***************************************************************************)
CacheSound ==
  /\ done \subseteq Succeeded(results)
  /\ ToSet(planDoneC) \subseteq results
  /\ gpc = "notify" => gres \in results
  /\ \A p \in seen : DepsOf(tree, p) \subseteq done

LEMMA SucceededMonotonic ==
  ASSUME NEW S, NEW T, S \subseteq T
  PROVE  Succeeded(S) \subseteq Succeeded(T)
BY DEF Succeeded

LEMMA QueueOps ==
  ASSUME NEW S, NEW q \in Seq(S), NEW e \in S
  PROVE  /\ ToSet(Append(q, e)) = ToSet(q) \cup {e}
         /\ q # <<>> => Head(q) \in ToSet(q) /\ ToSet(Tail(q)) \subseteq ToSet(q)
<1>1. ToSet(q) \subseteq ToSet(Append(q, e)) /\ e \in ToSet(Append(q, e))
  <2>1. \A i \in DOMAIN q : i \in DOMAIN Append(q, e) /\ Append(q, e)[i] = q[i]
    OBVIOUS
  <2>2. Len(q) + 1 \in DOMAIN Append(q, e) /\ Append(q, e)[Len(q) + 1] = e
    OBVIOUS
  <2> QED BY <2>1, <2>2 DEF ToSet
<1>2. ToSet(Append(q, e)) \subseteq ToSet(q) \cup {e}
  <2>1. \A i \in DOMAIN Append(q, e) : (i \in DOMAIN q /\ Append(q, e)[i] = q[i]) \/ Append(q, e)[i] = e
    OBVIOUS
  <2> QED BY <2>1 DEF ToSet
<1>3. q # <<>> => Head(q) \in ToSet(q)
  BY DEF ToSet
<1>4. q # <<>> => ToSet(Tail(q)) \subseteq ToSet(q)
  <2>1. q # <<>> => \A i \in DOMAIN Tail(q) : i + 1 \in DOMAIN q /\ Tail(q)[i] = q[i + 1]
    OBVIOUS
  <2> QED BY <2>1 DEF ToSet
<1> QED BY <1>1, <1>2, <1>3, <1>4

(* Enqueue is only ever asked for a plan whose dependencies are done.      *)
LEMMA EnqueueSound ==
  ASSUME TypeOK, CacheSound, NEW p \in Plan, NEW fs, Enqueue(p, fs), DepsComplete(p),
         tree' = tree, done' = done
  PROVE  \A q \in seen' : DepsOf(tree', q) \subseteq done'
BY DEF CacheSound, Enqueue, DepsComplete

LEMMA CacheStep ==
  ASSUME TypeOK, CacheSound, Next
  PROVE  CacheSound'
<1> USE DEF mainVars, feederVars, workerVars, gathererVars
<1>1. CASE MainStep
  BY <1>1 DEF MainStep, Add, Stop, CacheSound
<1>2. ASSUME NEW p \in Plan, RunPending(p)
      PROVE  CacheSound'
  BY <1>2, EnqueueSound DEF RunPending, Ready, CacheSound
<1>3. CASE FeederFinish
  <2>1. planDoneC \in Seq(Result) /\ Head(planDoneC) \in Result
    BY <1>3 DEF FeederFinish, TypeOK
  <2>2. Head(planDoneC) \in results /\ ToSet(Tail(planDoneC)) \subseteq results
    BY <1>3, <2>1, QueueOps DEF FeederFinish, CacheSound
  <2>3. done \subseteq done' /\ done' \subseteq Succeeded(results)
    BY <1>3, <2>2 DEF FeederFinish, CacheSound, Succeeded
  <2> QED BY <1>3, <2>2, <2>3 DEF FeederFinish, CacheSound
<1>4. CASE FeedOwn
  <2>0. Head(frames) \in Frame
    BY <1>4 DEF FeedOwn, TypeOK
  <2>1. Head(frames).plan \in Plan
    BY <2>0 DEF Frame
  <2>2. \A q \in seen' : DepsOf(tree', q) \subseteq done'
    BY <1>4, <2>1, EnqueueSound DEF FeedOwn, CacheSound
  <2> QED BY <1>4, <2>2 DEF FeedOwn, CacheSound
<1>5. CASE FeederStop \/ FeederStart \/ FeedPlan \/ PollFree \/ PollFull \/ PollWait \/ Notify
  BY <1>5
  DEF FeederStop, FeederStart, FeedPlan, PollFree, PollFull, PollWait, Notify, CacheSound
<1>6. ASSUME NEW w \in Worker, WorkerStep(w)
      PROVE  CacheSound'
  BY <1>6 DEF WorkerStep, WorkerTake, WorkerExec, WorkerStop, CacheSound
<1>7. ASSUME NEW w \in Worker, Receive(w)
      PROVE  CacheSound'
  BY <1>7 DEF Receive, CacheSound
<1>8. CASE Count
  <2>1. results \subseteq results' /\ gres' \in results'
    BY <1>8 DEF Count
  <2>2. done \subseteq Succeeded(results')
    BY <2>1, SucceededMonotonic DEF CacheSound
  <2> QED BY <1>8, <2>1, <2>2 DEF Count, CacheSound
<1>9. CASE NotifyDone
  <2>1. planDoneC \in Seq(Result) /\ gres \in Result /\ gres \in results
    BY <1>9 DEF NotifyDone, TypeOK, CacheSound
  <2>2. ToSet(Append(planDoneC, gres)) \subseteq results
    BY <2>1, QueueOps DEF CacheSound
  <2> QED BY <1>9, <2>1, <2>2 DEF NotifyDone, CacheSound
<1>10. CASE Unblock \/ Finish
  BY <1>10 DEF Unblock, Finish, CacheSound
<1>11. CASE Returned
  BY <1>11 DEF Returned, vars, CacheSound
<1> QED
  BY <1>1, <1>2, <1>3, <1>4, <1>5, <1>6, <1>7, <1>8, <1>9, <1>10, <1>11
  DEF Next, FeederStep, GathererStep

LEMMA CacheSoundAlways == Spec => []CacheSound
<1>1. Init => CacheSound
  BY DEF Init, CacheSound, Succeeded, ToSet
<1>2. TypeOK /\ CacheSound /\ [Next]_vars => CacheSound'
  <2> SUFFICES ASSUME TypeOK, CacheSound, UNCHANGED vars
               PROVE  CacheSound'
    BY CacheStep
  <2> QED
    BY DEF CacheSound, vars, mainVars, feederVars, workerVars, gathererVars
<1> QED BY <1>1, <1>2, TypeCorrect, PTL DEF Spec

(***************************************************************************)
(* No plan is handed to a worker before every one of its dependencies has  *)
(* run and its success was counted.                                        *)
(***************************************************************************)
THEOREM DependenciesFirst == Spec => []DepsFirst
<1>1. CacheSound => DepsFirst
  BY DEF CacheSound, DepsFirst
<1> QED BY <1>1, CacheSoundAlways, PTL

-----------------------------------------------------------------------------
(***************************************************************************)
(* One place.  With TypeOK the invariant is inductive as it stands; the    *)
(* lemmas follow a plan from enqueueOnePlan to the results.                *)
(***************************************************************************)
LEMMA PlaceUnchanged ==
  ASSUME OnePlace,
         seen' = seen, Polling' = Polling, in' = in, wplan' = wplan,
         Held' = Held, results' = results
  PROVE  OnePlace'
BY DEF OnePlace, Queued, Running, Counted

LEMMA PlaceEnqueue ==
  ASSUME TypeOK, OnePlace, NEW p \in Plan, NEW fs, Enqueue(p, fs),
         fpc \in {"loop", "feed"},
         in' = in, wplan' = wplan, gpc' = gpc, gres' = gres, results' = results
  PROVE  OnePlace'
<1>1. Polling = {} /\ Held' = Held
  BY DEF Polling, Held
<1>2. CASE p \in seen
  <2>1. seen' = seen /\ Polling' = {}
    BY <1>2 DEF Enqueue, Resume, Polling
  <2> QED BY <1>1, <2>1, PlaceUnchanged
<1>3. CASE p \notin seen
  <2>1. seen' = seen \cup {p} /\ Polling' = {p}
    BY <1>3 DEF Enqueue, Polling
  <2> QED BY <1>1, <1>3, <2>1 DEF OnePlace, Queued, Running, Counted
<1> QED BY <1>2, <1>3

LEMMA PlacePoll ==
  ASSUME TypeOK, OnePlace, PollFree
  PROVE  OnePlace'
<1> USE DEF mainVars, workerVars, gathererVars
<1>1. Polling = {cur} /\ Polling' = {} /\ Held' = Held /\ cur # None
  BY DEF PollFree, Polling, Held, TypeOK
<1>2. Queued' = Queued \cup {cur}
  <2>1. \A w \in Worker : in'[w] = IF w = idx THEN cur ELSE in[w]
    BY DEF PollFree, TypeOK
  <2> QED BY <1>1, <2>1 DEF Queued, PollFree
<1>3. Running' = Running /\ Counted' = Counted /\ seen' = seen
  BY DEF PollFree, Running, Counted
<1>4. \A v, w \in Worker : v # w => (in'[v] # None => in'[v] # in'[w])
  <2>1. cur \notin Queued
    BY <1>1 DEF OnePlace
  <2>2. \A w \in Worker : in[w] # cur
    BY <1>1, <2>1 DEF Queued
  <2> QED BY <2>2 DEF PollFree, OnePlace, TypeOK
<1> QED BY <1>1, <1>2, <1>3, <1>4 DEF OnePlace, PollFree

LEMMA PlaceTake ==
  ASSUME TypeOK, OnePlace, NEW w \in Worker, WorkerTake(w)
  PROVE  OnePlace'
<1> DEFINE p == in[w]
<1> USE DEF mainVars, feederVars, gathererVars
<1>1. Polling' = Polling /\ Held' = Held /\ Counted' = Counted /\ seen' = seen
  BY DEF WorkerTake, Polling, Held, Counted
<1>2. p # None /\ p \in Queued /\ wplan[w] = None
  BY DEF WorkerTake, TypeOK, Queued
<1>3. Queued' = Queued \ {p}
  <2>1. \A v \in Worker : in'[v] = IF v = w THEN None ELSE in[v]
    BY DEF WorkerTake, TypeOK
  <2>2. \A v \in Worker : v # w => in[v] # p
    BY <1>2 DEF OnePlace
  <2> QED BY <2>1, <2>2 DEF Queued
<1>4. Running' = Running \cup {p}
  <2>1. \A v \in Worker : wplan'[v] = IF v = w THEN p ELSE wplan[v]
    BY DEF WorkerTake, TypeOK
  <2> QED BY <1>2, <2>1 DEF Running
<1>5. \A u, v \in Worker : u # v => (in'[u] # None => in'[u] # in'[v])
  BY DEF WorkerTake, OnePlace, TypeOK
<1>6. \A u, v \in Worker : u # v => (wplan'[u] # None => wplan'[u] # wplan'[v])
  <2>1. p \notin Running
    BY <1>2 DEF OnePlace
  <2>2. \A v \in Worker : wplan[v] # p
    BY <1>2, <2>1 DEF Running
  <2> QED BY <2>2 DEF WorkerTake, OnePlace, TypeOK
<1>7. p \notin Polling /\ p \notin Running /\ p \notin Held /\ p \notin Counted
  BY <1>2 DEF OnePlace
<1> QED BY <1>1, <1>2, <1>3, <1>4, <1>5, <1>6, <1>7 DEF OnePlace, WorkerTake

LEMMA PlaceReceive ==
  ASSUME TypeOK, OnePlace, NEW w \in Worker, Receive(w)
  PROVE  OnePlace'
<1> DEFINE p == wplan[w]
<1> USE DEF mainVars, feederVars
<1>1. Polling' = Polling /\ Queued' = Queued /\ Counted' = Counted /\ seen' = seen
  BY DEF Receive, Polling, Queued, Counted
<1>2. p # None /\ p \in Running
  BY DEF Receive, TypeOK, Running
<1>3. Held = {} /\ Held' = {p}
  BY DEF Receive, Held
<1>4. Running' = Running \ {p}
  <2>1. \A v \in Worker : wplan'[v] = IF v = w THEN None ELSE wplan[v]
    BY DEF Receive, TypeOK
  <2>2. \A v \in Worker : v # w => wplan[v] # p
    BY <1>2 DEF OnePlace
  <2> QED BY <2>1, <2>2 DEF Running
<1>5. \A u, v \in Worker : u # v => (wplan'[u] # None => wplan'[u] # wplan'[v])
  BY DEF Receive, OnePlace, TypeOK
<1> QED BY <1>1, <1>2, <1>3, <1>4, <1>5 DEF OnePlace, Receive

LEMMA PlaceCount ==
  ASSUME TypeOK, OnePlace, Count
  PROVE  OnePlace'
<1> USE DEF mainVars, feederVars, workerVars
<1>1. Polling' = Polling /\ Queued' = Queued /\ Running' = Running /\ seen' = seen
  BY DEF Count, Polling, Queued, Running
<1>2. Held = {gres.plan} /\ Held' = {}
  BY DEF Count, Held
<1>3. Counted' = Counted \cup {gres.plan} /\ gres.plan \notin Counted
  BY <1>2 DEF Count, Counted, OnePlace
<1>4. \A r, s \in results' : r.plan = s.plan => r = s
  BY <1>3 DEF Count, Counted, OnePlace
<1> QED BY <1>1, <1>2, <1>3, <1>4 DEF OnePlace, Count

LEMMA PlaceStep ==
  ASSUME TypeOK, OnePlace, Next
  PROVE  OnePlace'
<1> USE DEF mainVars, feederVars, workerVars, gathererVars
<1>1. CASE MainStep
  BY <1>1, PlaceUnchanged DEF MainStep, Add, Stop, Polling, Held
<1>2. ASSUME NEW p \in Plan, RunPending(p)
      PROVE  OnePlace'
  BY <1>2, PlaceEnqueue DEF RunPending
<1>3. CASE FeedOwn
  <2>0. Head(frames) \in Frame
    BY <1>3 DEF FeedOwn, TypeOK
  <2>1. Head(frames).plan \in Plan
    BY <2>0 DEF Frame
  <2>2. CASE Enqueue(Head(frames).plan, Tail(frames))
    BY <1>3, <2>1, <2>2, PlaceEnqueue DEF FeedOwn
  <2>3. CASE fpc' = Resume(Tail(frames)) /\ seen' = seen
    BY <1>3, <2>3, PlaceUnchanged DEF FeedOwn, Resume, Polling, Held
  <2> QED BY <1>3, <2>2, <2>3 DEF FeedOwn
<1>4. CASE PollFree
  BY <1>4, PlacePoll
<1>5. CASE FeederStop \/ FeederStart \/ FeederFinish \/ FeedPlan
  BY <1>5, PlaceUnchanged
  DEF FeederStop, FeederStart, FeederFinish, FeedPlan, AtSelect, Polling, Held
<1>6. CASE PollFull \/ PollWait \/ Notify
  BY <1>6, PlaceUnchanged DEF PollFull, PollWait, Notify, Resume, Polling, Held
<1>7. ASSUME NEW w \in Worker, WorkerStep(w)
      PROVE  OnePlace'
  <2>1. CASE WorkerTake(w)
    BY <2>1, PlaceTake
  <2>2. CASE WorkerExec(w) \/ WorkerStop(w)
    BY <2>2, PlaceUnchanged DEF WorkerExec, WorkerStop, Polling, Held
  <2> QED BY <1>7, <2>1, <2>2 DEF WorkerStep
<1>8. ASSUME NEW w \in Worker, Receive(w)
      PROVE  OnePlace'
  BY <1>8, PlaceReceive
<1>9. CASE Count
  BY <1>9, PlaceCount
<1>10. CASE NotifyDone \/ Unblock \/ Finish
  BY <1>10, PlaceUnchanged DEF NotifyDone, Unblock, Finish, Polling, Held
<1>11. CASE Returned
  BY <1>11, PlaceUnchanged DEF Returned, vars, Polling, Held
<1> QED
  BY <1>1, <1>2, <1>3, <1>4, <1>5, <1>6, <1>7, <1>8, <1>9, <1>10, <1>11
  DEF Next, FeederStep, GathererStep

(***************************************************************************)
(* A plan that enqueueOnePlan took is always with exactly one goroutine,   *)
(* buffer or result: it is neither lost nor run twice.                     *)
(***************************************************************************)
THEOREM AlwaysOnePlace == Spec => []OnePlace
<1>1. Init => OnePlace
  BY DEF Init, OnePlace, Polling, Queued, Running, Held, Counted
<1>2. TypeOK /\ OnePlace /\ [Next]_vars => OnePlace'
  <2> SUFFICES ASSUME TypeOK, OnePlace, UNCHANGED vars
               PROVE  OnePlace'
    BY PlaceStep
  <2> QED
    BY PlaceUnchanged
    DEF vars, mainVars, feederVars, workerVars, gathererVars, Polling, Held
<1> QED BY <1>1, <1>2, TypeCorrect, PTL DEF Spec

-----------------------------------------------------------------------------
(***************************************************************************)
(* Counting.  Each result counts for a plan of its own, so ep.n is the     *)
(* number of plans taken and not yet counted, and planDoneC never holds    *)
(* more messages than there are plans.                                     *)
(***************************************************************************)
Counting ==
  /\ IsFiniteSet(seen) /\ IsFiniteSet(results) /\ IsFiniteSet(Counted)
  /\ CountExact
  /\ Cardinality(Counted) = Cardinality(results)
  /\ Len(planDoneC) <= Cardinality(results)
  /\ gpc = "notify" => Len(planDoneC) < Cardinality(results)

LEMMA CountingUnchanged ==
  ASSUME TypeOK, Counting, seen' = seen, results' = results, n' = n,
         planDoneC' = planDoneC, gpc' = "notify" => gpc = "notify"
  PROVE  Counting'
BY DEF Counting, CountExact, Counted

LEMMA CountingEnqueue ==
  ASSUME TypeOK, Counting, NEW p \in Plan, NEW fs, Enqueue(p, fs),
         results' = results, planDoneC' = planDoneC, gpc' = gpc
  PROVE  Counting'
<1>1. CASE p \in seen
  BY <1>1, CountingUnchanged DEF Enqueue
<1>2. CASE p \notin seen
  <2>1. seen' = seen \cup {p} /\ n' = n + 1
    BY <1>2 DEF Enqueue
  <2>2. IsFiniteSet(seen') /\ Cardinality(seen') = Cardinality(seen) + 1
    BY <1>2, <2>1, FS_AddElement DEF Counting
  <2>3. Cardinality(seen) \in Nat /\ Cardinality(results) \in Nat
    BY FS_CardinalityType DEF Counting
  <2> QED BY <2>1, <2>2, <2>3 DEF Counting, CountExact, Counted
<1> QED BY <1>1, <1>2

LEMMA CountingCount ==
  ASSUME TypeOK, OnePlace, Counting, Count
  PROVE  Counting'
<1> USE DEF mainVars, feederVars, workerVars
<1>1. gres.plan \notin Counted /\ gres \notin results
  BY DEF OnePlace, Held, Count, Counted
<1>2. results' = results \cup {gres} /\ Counted' = Counted \cup {gres.plan}
  BY DEF Count, Counted
<1>3. IsFiniteSet(results') /\ Cardinality(results') = Cardinality(results) + 1
  BY <1>1, <1>2, FS_AddElement DEF Counting
<1>4. IsFiniteSet(Counted') /\ Cardinality(Counted') = Cardinality(Counted) + 1
  BY <1>1, <1>2, FS_AddElement DEF Counting
<1>5. Cardinality(seen) \in Nat /\ Cardinality(results) \in Nat /\ Len(planDoneC) \in Nat
  BY FS_CardinalityType DEF Counting, TypeOK
<1> QED BY <1>3, <1>4, <1>5 DEF Counting, CountExact, Count, TypeOK

LEMMA CountingStep ==
  ASSUME TypeOK, OnePlace, Counting, Next
  PROVE  Counting'
<1> USE DEF mainVars, feederVars, workerVars, gathererVars
<1>1. CASE MainStep
  BY <1>1, CountingUnchanged DEF MainStep, Add, Stop
<1>2. ASSUME NEW p \in Plan, RunPending(p)
      PROVE  Counting'
  BY <1>2, CountingEnqueue DEF RunPending
<1>3. CASE FeedOwn
  <2>0. Head(frames) \in Frame
    BY <1>3 DEF FeedOwn, TypeOK
  <2>1. Head(frames).plan \in Plan
    BY <2>0 DEF Frame
  <2>2. CASE Enqueue(Head(frames).plan, Tail(frames))
    BY <1>3, <2>1, <2>2, CountingEnqueue DEF FeedOwn
  <2>3. CASE seen' = seen /\ n' = n
    BY <1>3, <2>3, CountingUnchanged DEF FeedOwn
  <2> QED BY <1>3, <2>2, <2>3 DEF FeedOwn
<1>4. CASE FeederFinish
  <2>1. planDoneC \in Seq(Result) /\ planDoneC # <<>> /\ planDoneC' = Tail(planDoneC)
    BY <1>4 DEF FeederFinish, TypeOK
  <2>2. Len(planDoneC') = Len(planDoneC) - 1 /\ Len(planDoneC) \in Nat
    BY <2>1
  <2>3. Cardinality(results) \in Nat
    BY FS_CardinalityType DEF Counting
  <2> QED BY <1>4, <2>2, <2>3 DEF FeederFinish, Counting, CountExact, Counted
<1>5. CASE FeederStop \/ FeederStart \/ FeedPlan \/ PollFree \/ PollFull \/ PollWait \/ Notify
  BY <1>5, CountingUnchanged
  DEF FeederStop, FeederStart, FeedPlan, PollFree, PollFull, PollWait, Notify
<1>6. ASSUME NEW w \in Worker, WorkerStep(w)
      PROVE  Counting'
  BY <1>6, CountingUnchanged DEF WorkerStep, WorkerTake, WorkerExec, WorkerStop
<1>7. ASSUME NEW w \in Worker, Receive(w)
      PROVE  Counting'
  BY <1>7, CountingUnchanged DEF Receive
<1>8. CASE Count
  BY <1>8, CountingCount
<1>9. CASE NotifyDone
  <2>1. planDoneC \in Seq(Result) /\ Len(planDoneC) < Cardinality(results)
    BY <1>9 DEF NotifyDone, TypeOK, Counting
  <2>2. CASE planDoneC' = planDoneC /\ gpc' = "panic"
    BY <1>9, <2>2, CountingUnchanged DEF NotifyDone
  <2>3. CASE planDoneC' = Append(planDoneC, gres) /\ gpc' = "unblock"
    <3>1. Len(planDoneC') = Len(planDoneC) + 1 /\ Len(planDoneC) \in Nat
      BY <2>1, <2>3
    <3>2. Cardinality(results) \in Nat
      BY FS_CardinalityType DEF Counting
    <3> QED BY <1>9, <2>1, <2>3, <3>1, <3>2 DEF NotifyDone, Counting, CountExact, Counted
  <2> QED BY <1>9, <2>2, <2>3 DEF NotifyDone
<1>10. CASE Unblock \/ Finish
  BY <1>10, CountingUnchanged DEF Unblock, Finish
<1>11. CASE Returned
  BY <1>11, CountingUnchanged DEF Returned, vars
<1> QED
  BY <1>1, <1>2, <1>3, <1>4, <1>5, <1>6, <1>7, <1>8, <1>9, <1>10, <1>11
  DEF Next, FeederStep, GathererStep

LEMMA CountingAlways == Spec => []Counting
<1>1. Init => Counting
  <2> SUFFICES ASSUME Init PROVE Counting
    OBVIOUS
  <2>1. seen = {} /\ results = {} /\ Counted = {} /\ n = 0 /\ planDoneC = <<>> /\ gpc = "recv"
    BY DEF Init, Counted
  <2> QED BY <2>1, FS_EmptySet DEF Counting, CountExact
<1>2. TypeOK /\ OnePlace /\ Counting /\ [Next]_vars => Counting'
  <2> SUFFICES ASSUME TypeOK, Counting, UNCHANGED vars
               PROVE  Counting'
    BY CountingStep
  <2> QED
    BY CountingUnchanged DEF vars, mainVars, feederVars, workerVars, gathererVars
<1> QED BY <1>1, <1>2, TypeCorrect, AlwaysOnePlace, PTL DEF Spec

(***************************************************************************)
(* ep.n always is the number of plans taken by enqueueOnePlan whose result *)
(* was not counted.                                                        *)
(***************************************************************************)
THEOREM AlwaysCountExact == Spec => []CountExact
<1>1. Counting => CountExact
  BY DEF Counting
<1> QED BY <1>1, CountingAlways, PTL

-----------------------------------------------------------------------------
(***************************************************************************)
(* Full queues.  planStartC first takes main's own start; once the feeder  *)
(* has handed out a plan it holds plans that were handed out, each once,   *)
(* and not the one that is being handed out.                               *)
(***************************************************************************)
Distinct(q) == \A i, j \in DOMAIN q : q[i] = q[j] => i = j

HandingOut == fpc \in {"poll", "wait", "notify"}

Unfed == fpc # "feed" /\ pending = {}

Starts ==
  /\ HandingOut => cur \in seen
  /\ mpc = "add" => seen = {} /\ planStartC = <<>> /\ Unfed
  /\ seen = {} => planStartC = <<>> \/ (Len(planStartC) = 1 /\ Unfed)
  /\ seen # {} => /\ ToSet(planStartC) \subseteq seen /\ Distinct(planStartC)
                  /\ HandingOut => cur \notin ToSet(planStartC)

LEMMA DistinctQueue ==
  ASSUME NEW S, NEW q \in Seq(S), NEW e \in S, Distinct(q)
  PROVE  /\ e \notin ToSet(q) => Distinct(Append(q, e))
         /\ q # <<>> => Distinct(Tail(q))
<1>1. ASSUME e \notin ToSet(q), NEW i \in DOMAIN Append(q, e), NEW j \in DOMAIN Append(q, e),
             Append(q, e)[i] = Append(q, e)[j]
      PROVE  i = j
  <2>1. \A k \in DOMAIN Append(q, e) :
          (k \in DOMAIN q /\ Append(q, e)[k] = q[k]) \/ (k = Len(q) + 1 /\ Append(q, e)[k] = e)
    OBVIOUS
  <2>2. \A k \in DOMAIN q : q[k] # e
    BY <1>1 DEF ToSet
  <2> QED BY <1>1, <2>1, <2>2 DEF Distinct
<1>2. ASSUME q # <<>>, NEW i \in DOMAIN Tail(q), NEW j \in DOMAIN Tail(q), Tail(q)[i] = Tail(q)[j]
      PROVE  i = j
  <2>1. \A k \in DOMAIN Tail(q) : k \in Nat /\ k + 1 \in DOMAIN q /\ Tail(q)[k] = q[k + 1]
    BY <1>2
  <2>2. i + 1 = j + 1
    BY <1>2, <2>1 DEF Distinct
  <2> QED BY <2>1, <2>2
<1> QED BY <1>1, <1>2 DEF Distinct

LEMMA DistinctLength ==
  ASSUME NEW S, NEW q \in Seq(S), NEW T, IsFiniteSet(T), ToSet(q) \subseteq T, Distinct(q)
  PROVE  Len(q) <= Cardinality(T)
<1>1. q \in Injection(1 .. Len(q), T)
  <2>1. DOMAIN q = 1 .. Len(q) /\ Len(q) \in Nat /\ q = [i \in 1 .. Len(q) |-> q[i]]
    OBVIOUS
  <2>2. \A i \in 1 .. Len(q) : q[i] \in T
    BY <2>1 DEF ToSet
  <2>3. q \in [1 .. Len(q) -> T]
    BY <2>1, <2>2
  <2> QED BY <2>1, <2>3 DEF Injection, IsInjective, Distinct
<1>2. Cardinality(1 .. Len(q)) <= Cardinality(T)
  BY <1>1, FS_Injection
<1>3. Len(q) \in Nat /\ Len(q) \in Int /\ 1 \in Int
  OBVIOUS
<1>4. Cardinality(1 .. Len(q)) = IF 1 > Len(q) THEN 0 ELSE Len(q) - 1 + 1
  BY <1>3, FS_Interval, Zenon
<1>5. Cardinality(1 .. Len(q)) = Len(q)
  BY <1>3, <1>4
<1> QED BY <1>2, <1>5

LEMMA StartsUnchanged ==
  ASSUME Starts, UNCHANGED <<planStartC, seen, pending, cur>>,
         mpc' = "add" => mpc = "add",
         fpc' \in {"poll", "wait", "notify"} => HandingOut,
         fpc' = "feed" => fpc = "feed"
  PROVE  Starts'
BY DEF Starts, HandingOut, Unfed, Distinct

(* Of a plan handed out from feedPlan or from runPending. *)
LEMMA StartsEnqueue ==
  ASSUME TypeOK, Starts, NEW p \in Plan, NEW fs, Enqueue(p, fs),
         fpc = "feed" \/ pending # {},
         UNCHANGED <<planStartC, mpc>>, pending' \subseteq pending
  PROVE  Starts'
<1>1. mpc' # "add" /\ (seen = {} => planStartC = <<>>)
  BY DEF Starts, Unfed
<1>2. CASE p \in seen
  <2>1. UNCHANGED <<seen, cur>> /\ seen # {} /\ fpc' \in {"loop", "feed"}
    BY <1>2 DEF Enqueue, Resume
  <2> QED BY <1>1, <2>1 DEF Starts, HandingOut, Distinct
<1>3. CASE p \notin seen
  <2>1. seen' = seen \cup {p} /\ cur' = p /\ fpc' = "poll"
    BY <1>3 DEF Enqueue
  <2>2. ToSet(planStartC) \subseteq seen /\ Distinct(planStartC)
    BY <1>1 DEF Starts, Distinct, ToSet
  <2>3. p \notin ToSet(planStartC)
    BY <1>3, <2>2
  <2>4. ToSet(planStartC') = ToSet(planStartC) /\ (Distinct(planStartC) => Distinct(planStartC'))
    OBVIOUS
  <2>5. Distinct(planStartC)'
    BY <2>2 DEF Distinct
  <2> QED BY <1>1, <2>1, <2>2, <2>3, <2>4, <2>5 DEF Starts, HandingOut
<1> QED BY <1>2, <1>3

LEMMA StartsStep ==
  ASSUME TypeOK, OnePlace, Counting, Starts, Next
  PROVE  Starts'
<1> USE DEF mainVars, feederVars, workerVars, gathererVars
<1>1. CASE Add
  <2>1. /\ seen' = {} /\ planStartC' = <<Main>> /\ mpc' # "add"
        /\ fpc' = fpc /\ fpc # "feed" /\ pending' = {} /\ cur' = cur
    BY <1>1 DEF Add, Starts, Unfed
  <2>2. Len(planStartC') = 1 /\ ~HandingOut
    BY <1>1, <2>1 DEF Add, Starts
  <2> QED BY <2>1, <2>2 DEF Starts, HandingOut, Unfed
<1>2. ASSUME NEW p \in Plan, RunPending(p)
      PROVE  Starts'
  <2>1. Enqueue(p, frames) /\ pending # {} /\ pending' \subseteq pending /\ UNCHANGED <<planStartC, mpc>>
    BY <1>2 DEF RunPending, Ready
  <2> QED BY <2>1, StartsEnqueue
<1>3. CASE FeedOwn
  <2>0. Head(frames) \in Frame
    BY <1>3 DEF FeedOwn, TypeOK
  <2>1. Head(frames).plan \in Plan
    BY <2>0 DEF Frame
  <2>2. fpc = "feed" /\ UNCHANGED <<planStartC, mpc>>
    BY <1>3 DEF FeedOwn
  <2>3. CASE Enqueue(Head(frames).plan, Tail(frames)) /\ pending' = pending
    BY <2>1, <2>2, <2>3, StartsEnqueue
  <2>4. CASE UNCHANGED <<seen, cur>> /\ fpc' \in {"loop", "feed"}
    <3>1. mpc # "add" /\ (seen = {} => planStartC = <<>>)
      BY <2>2 DEF Starts, Unfed
    <3> QED BY <2>2, <2>4, <3>1 DEF Starts, HandingOut, Distinct
  <2> QED BY <1>3, <2>3, <2>4 DEF FeedOwn, Resume
<1>4. CASE FeederStart
  <2>1. /\ planStartC \in Seq(Plan) /\ planStartC # <<>> /\ planStartC' = Tail(planStartC)
        /\ fpc' = "feed" /\ UNCHANGED <<seen, pending, cur, mpc>>
    BY <1>4 DEF FeederStart, TypeOK
  <2>2. mpc # "add"
    BY <2>1 DEF Starts
  <2>3. CASE seen = {}
    <3>1. Len(planStartC) = 1
      BY <2>1, <2>3 DEF Starts
    <3>2. planStartC' = <<>>
      BY <2>1, <3>1
    <3> QED BY <2>1, <2>2, <2>3, <3>2 DEF Starts, HandingOut
  <2>4. CASE seen # {}
    <3>1. Distinct(planStartC) /\ ToSet(planStartC) \subseteq seen
      BY <2>4 DEF Starts
    <3>2. Main \in Plan
      BY TreeAssumption
    <3>3. Distinct(Tail(planStartC)) /\ ToSet(Tail(planStartC)) \subseteq ToSet(planStartC)
      BY <2>1, <3>1, <3>2, DistinctQueue, QueueOps
    <3> QED BY <2>1, <2>2, <2>4, <3>1, <3>3 DEF Starts, HandingOut, Distinct
  <2> QED BY <2>3, <2>4
<1>5. CASE FeederFinish
  <2>1. planDoneC \in Seq(Result) /\ planDoneC # <<>>
    BY <1>5 DEF FeederFinish, TypeOK
  <2>2. Len(planDoneC) > 0 /\ Cardinality(results) \in Nat
    BY <2>1, FS_CardinalityType DEF Counting
  <2>3. results # {}
    BY <2>2, FS_EmptySet DEF Counting
  <2>4. seen # {}
    BY <2>3 DEF OnePlace, Counted
  <2>5. mpc # "add"
    BY <2>4 DEF Starts
  <2>6. UNCHANGED <<planStartC, seen, pending, cur, mpc>> /\ fpc' \in {"feed", "loop"}
    BY <1>5 DEF FeederFinish, AtSelect
  <2> QED BY <2>4, <2>5, <2>6 DEF Starts, HandingOut, Distinct
<1>6. CASE Notify
  <2>1. /\ planStartC' = Append(planStartC, cur) /\ fpc' \in {"loop", "feed"}
        /\ UNCHANGED <<seen, mpc>> /\ HandingOut
    BY <1>6 DEF Notify, Resume, HandingOut
  <2>2. cur \in seen /\ cur \in Plan /\ seen # {} /\ mpc # "add" /\ planStartC \in Seq(Plan)
    BY <2>1 DEF Starts, TypeOK
  <2>3. ToSet(planStartC) \subseteq seen /\ Distinct(planStartC) /\ cur \notin ToSet(planStartC)
    BY <2>1, <2>2 DEF Starts
  <2>4. Distinct(Append(planStartC, cur)) /\ ToSet(Append(planStartC, cur)) \subseteq seen
    BY <2>2, <2>3, DistinctQueue, QueueOps
  <2>5. Distinct(planStartC)' /\ ToSet(planStartC') \subseteq seen
    BY <2>1, <2>4 DEF Distinct
  <2> QED BY <2>1, <2>2, <2>5 DEF Starts, HandingOut
<1>7. CASE Stop \/ FeederStop \/ FeedPlan \/ PollFree \/ PollFull \/ PollWait
  BY <1>7, StartsUnchanged
  DEF Stop, FeederStop, FeedPlan, PollFree, PollFull, PollWait, HandingOut
<1>8. ASSUME NEW w \in Worker, WorkerStep(w)
      PROVE  Starts'
  BY <1>8, StartsUnchanged DEF WorkerStep, WorkerTake, WorkerExec, WorkerStop, HandingOut
<1>9. ASSUME NEW w \in Worker, Receive(w)
      PROVE  Starts'
  BY <1>9, StartsUnchanged DEF Receive, HandingOut
<1>10. CASE Count \/ NotifyDone \/ Unblock \/ Finish
  BY <1>10, StartsUnchanged DEF Count, NotifyDone, Unblock, Finish, HandingOut
<1>11. CASE Returned
  BY <1>11, StartsUnchanged DEF Returned, vars, HandingOut
<1> QED
  BY <1>1, <1>2, <1>3, <1>4, <1>5, <1>6, <1>7, <1>8, <1>9, <1>10, <1>11
  DEF Next, MainStep, FeederStep, GathererStep

(* Whoever panics has just counted a plan and found the queue full. *)
PanicsFull == Panicked => Cardinality(Counted) > cap

LEMMA PanicStep ==
  ASSUME TypeOK, Counting, PanicsFull, [Next]_vars
  PROVE  PanicsFull'
<1> USE DEF mainVars, feederVars, workerVars, gathererVars
<1>1. CASE Panicked
  <2>1. UNCHANGED <<gpc, results, cap>>
    BY <1>1 DEF Next, Returned, vars
  <2> QED BY <2>1 DEF PanicsFull, Panicked, Counted
<1>2. CASE ~Panicked
  <2> SUFFICES ASSUME gpc' = "panic"
               PROVE  PanicsFull'
    BY DEF PanicsFull, Panicked
  <2>1. NotifyDone /\ ~(Len(planDoneC) < cap)
    BY <1>2 DEF Panicked, Next, MainStep, FeederStep, WorkerStep, GathererStep, Returned,
       Add, Stop, RunPending, FeederStop, FeederStart, FeederFinish, FeedPlan, FeedOwn,
       PollFree, PollFull, PollWait, Notify, WorkerTake, WorkerExec, WorkerStop,
       Receive, Count, NotifyDone, Unblock, Finish, vars
  <2>2. UNCHANGED <<cap, results>> /\ Len(planDoneC) < Cardinality(Counted)
    BY <2>1 DEF NotifyDone, Counting
  <2>3. cap \in Nat /\ Len(planDoneC) \in Nat /\ Cardinality(Counted) \in Nat
    BY FS_CardinalityType, PoolAssumption DEF Counting, TypeOK
  <2>4. Cardinality(Counted) > cap
    BY <2>1, <2>2, <2>3
  <2> QED BY <2>2, <2>4 DEF PanicsFull, Counted
<1> QED BY <1>1, <1>2

LEMMA FullStarts ==
  ASSUME TypeOK, Counting, Starts, fpc = "notify", Len(planStartC) = cap
  PROVE  Cardinality(seen) > cap
<1>1. cur \in seen /\ ToSet(planStartC) \subseteq seen \ {cur} /\ Distinct(planStartC)
  BY DEF Starts, HandingOut
<1>2. IsFiniteSet(seen \ {cur}) /\ Cardinality(seen \ {cur}) = Cardinality(seen) - 1
  BY <1>1, FS_RemoveElement DEF Counting
<1>3. planStartC \in Seq(Plan) /\ cap \in Nat
  BY PoolAssumption DEF TypeOK
<1>4. Len(planStartC) <= Cardinality(seen \ {cur})
  BY <1>1, <1>2, <1>3, DistinctLength
<1>5. Cardinality(seen) \in Nat
  BY FS_CardinalityType DEF Counting
<1> QED BY <1>2, <1>3, <1>4, <1>5

(***************************************************************************)
(* A queue is full only for a plan that is one more than it has places,    *)
(* whatever the manifest, the capacity and the order of events.            *)
(***************************************************************************)
THEOREM FullQueuesExplained ==
  Spec => []FullForOneMore
<1>1. Init => Starts /\ PanicsFull
  BY DEF Init, Starts, HandingOut, Unfed, PanicsFull, Panicked
<1>2. TypeOK /\ OnePlace /\ Counting /\ Starts /\ PanicsFull /\ [Next]_vars => Starts' /\ PanicsFull'
  <2> SUFFICES ASSUME TypeOK, OnePlace, Counting, Starts, PanicsFull, [Next]_vars
               PROVE  Starts' /\ PanicsFull'
    OBVIOUS
  <2>1. PanicsFull'
    BY PanicStep
  <2>2. CASE Next
    BY <2>1, <2>2, StartsStep
  <2>3. CASE UNCHANGED vars
    <3>1. Starts'
      BY <2>3, StartsUnchanged
      DEF vars, mainVars, feederVars, workerVars, gathererVars, HandingOut
    <3> QED BY <2>1, <3>1
  <2> QED BY <2>2, <2>3
<1>3. TypeOK /\ Counting /\ Starts /\ PanicsFull => FullForOneMore
  BY FullStarts DEF FullForOneMore, PanicsFull
<1> QED BY <1>1, <1>2, <1>3, TypeCorrect, AlwaysOnePlace, CountingAlways, PTL DEF Spec

(***************************************************************************)
(* A manifest of no more plans than the queues have places, main included, *)
(* never makes the gatherer panic or the feeder block: 100 plans are safe, *)
(* whatever the order of events.                                           *)
(***************************************************************************)
THEOREM NeverPanics ==
  ASSUME IsFiniteSet(Plan), \A c \in QueueCaps : Cardinality(Plan) <= c
  PROVE  Spec => [](~Panicked /\ (fpc = "notify" => Len(planStartC) # cap))
<1>1. TypeOK /\ FullForOneMore => ~Panicked /\ (fpc = "notify" => Len(planStartC) # cap)
  <2> SUFFICES ASSUME TypeOK, FullForOneMore
               PROVE  ~Panicked /\ (fpc = "notify" => Len(planStartC) # cap)
    OBVIOUS
  <2>1. seen \subseteq Plan /\ Counted \subseteq Plan
    BY DEF TypeOK, Counted, Result
  <2>2. Cardinality(seen) <= Cardinality(Plan) /\ Cardinality(Counted) <= Cardinality(Plan)
    BY <2>1, FS_Subset
  <2>3. /\ IsFiniteSet(seen) /\ IsFiniteSet(Counted)
        /\ Cardinality(Plan) <= cap /\ cap \in Nat
    BY <2>1, FS_Subset, PoolAssumption DEF TypeOK
  <2>4. Cardinality(seen) \in Nat /\ Cardinality(Counted) \in Nat /\ Cardinality(Plan) \in Nat
    BY <2>3, FS_CardinalityType
  <2> QED BY <2>2, <2>3, <2>4 DEF FullForOneMore
<1> QED BY <1>1, TypeCorrect, FullQueuesExplained, PTL

-----------------------------------------------------------------------------
(***************************************************************************)
(* Theorems about what reaches the feeder of ExecPool: no completion is    *)
(* lost on its way to it, and its walk of the manifest misses no plan.     *)
(***************************************************************************)

-----------------------------------------------------------------------------
(* Completions.  With TypeOK the invariant is inductive as it stands.      *)

LEMMA SucceededUnion ==
  ASSUME NEW S, NEW T
  PROVE  Succeeded(S \cup T) = Succeeded(S) \cup Succeeded(T)
BY DEF Succeeded

LEMMA SucceededOne ==
  ASSUME NEW r \in Result
  PROVE  Succeeded({r}) = IF r.outcome = "ok" THEN {r.plan} ELSE {}
BY DEF Succeeded

LEMMA QueueSplit ==
  ASSUME NEW S, NEW q \in Seq(S), q # <<>>
  PROVE  ToSet(q) = {Head(q)} \cup ToSet(Tail(q))
<1>1. ASSUME NEW i \in DOMAIN q
      PROVE  q[i] = Head(q) \/ q[i] \in ToSet(Tail(q))
  <2>1. CASE i = 1
    BY <2>1
  <2>2. CASE i # 1
    <3>1. i - 1 \in DOMAIN Tail(q) /\ Tail(q)[i - 1] = q[i]
      BY <2>2
    <3> QED BY <3>1 DEF ToSet
  <2> QED BY <2>1, <2>2
<1>2. Head(q) \in ToSet(q) /\ ToSet(Tail(q)) \subseteq ToSet(q)
  BY DEF ToSet
<1> QED BY <1>1, <1>2 DEF ToSet

Announced == IF gpc \in {"notify", "panic"} THEN Succeeded({gres}) ELSE {}

LEMMA KeptUnchanged ==
  ASSUME CompletionsKept, results' = results, done' = done, planDoneC' = planDoneC,
         Announced' = Announced
  PROVE  CompletionsKept'
BY DEF CompletionsKept, Announced

LEMMA KeptStep ==
  ASSUME TypeOK, CompletionsKept, Next
  PROVE  CompletionsKept'
<1> USE DEF mainVars, feederVars, workerVars, gathererVars
<1>1. CASE MainStep
  BY <1>1, KeptUnchanged DEF MainStep, Add, Stop, Announced
<1>2. ASSUME NEW p \in Plan, RunPending(p)
      PROVE  CompletionsKept'
  BY <1>2, KeptUnchanged DEF RunPending, Announced
<1>3. CASE FeederFinish
  <2>1. planDoneC \in Seq(Result) /\ planDoneC # <<>> /\ Head(planDoneC) \in Result
    BY <1>3 DEF FeederFinish, TypeOK
  <2>2. Succeeded(ToSet(planDoneC))
          = Succeeded({Head(planDoneC)}) \cup Succeeded(ToSet(planDoneC'))
    BY <1>3, <2>1, QueueSplit, SucceededUnion DEF FeederFinish
  <2>3. done' = done \cup Succeeded({Head(planDoneC)})
    BY <1>3, <2>1, SucceededOne DEF FeederFinish
  <2>4. results' = results /\ Announced' = Announced
    BY <1>3 DEF FeederFinish, Announced
  <2> QED BY <2>2, <2>3, <2>4 DEF CompletionsKept, Announced
<1>4. CASE FeedOwn
  BY <1>4, KeptUnchanged DEF FeedOwn, Announced
<1>5. CASE FeederStop \/ FeederStart \/ FeedPlan \/ PollFree \/ PollFull \/ PollWait \/ Notify
  BY <1>5, KeptUnchanged
  DEF FeederStop, FeederStart, FeedPlan, PollFree, PollFull, PollWait, Notify, Announced
<1>6. ASSUME NEW w \in Worker, WorkerStep(w)
      PROVE  CompletionsKept'
  BY <1>6, KeptUnchanged DEF WorkerStep, WorkerTake, WorkerExec, WorkerStop, Announced
<1>7. ASSUME NEW w \in Worker, Receive(w)
      PROVE  CompletionsKept'
  BY <1>7, KeptUnchanged DEF Receive, Announced
<1>8. CASE Count
  <2>1. Succeeded(results') = Succeeded(results) \cup Succeeded({gres})
    BY <1>8, SucceededUnion DEF Count
  <2>2. Announced = {} /\ Announced' = Succeeded({gres})
    BY <1>8 DEF Count, Announced
  <2> QED BY <1>8, <2>1, <2>2 DEF Count, CompletionsKept, Announced
<1>9. CASE NotifyDone
  <2>1. planDoneC \in Seq(Result) /\ gres \in Result \cup {NoResult} /\ gres # NoResult
    BY <1>9 DEF NotifyDone, TypeOK
  <2>2. CASE planDoneC' = planDoneC /\ gpc' = "panic"
    BY <1>9, <2>2, KeptUnchanged DEF NotifyDone, Announced
  <2>3. CASE planDoneC' = Append(planDoneC, gres) /\ gpc' = "unblock"
    <3>1. Succeeded(ToSet(planDoneC')) = Succeeded(ToSet(planDoneC)) \cup Succeeded({gres})
      BY <2>1, <2>3, QueueOps, SucceededUnion
    <3>2. Announced = Succeeded({gres}) /\ Announced' = {}
      BY <1>9, <2>3 DEF NotifyDone, Announced
    <3> QED BY <1>9, <3>1, <3>2 DEF NotifyDone, CompletionsKept, Announced
  <2> QED BY <1>9, <2>2, <2>3 DEF NotifyDone
<1>10. CASE Unblock \/ Finish
  BY <1>10, KeptUnchanged DEF Unblock, Finish, Announced
<1>11. CASE Returned
  BY <1>11, KeptUnchanged DEF Returned, vars, Announced
<1> QED
  BY <1>1, <1>2, <1>3, <1>4, <1>5, <1>6, <1>7, <1>8, <1>9, <1>10, <1>11
  DEF Next, FeederStep, GathererStep

(***************************************************************************)
(* Every success the gatherer counted is known to the feeder, or is in     *)
(* planDoneC, or is about to be put there.  (gathererLoop, finishPlan)     *)
(***************************************************************************)
THEOREM AlwaysCompletionsKept == Spec => []CompletionsKept
<1>1. Init => CompletionsKept
  BY DEF Init, CompletionsKept, Succeeded, ToSet
<1>2. TypeOK /\ CompletionsKept /\ [Next]_vars => CompletionsKept'
  <2> SUFFICES ASSUME TypeOK, CompletionsKept, UNCHANGED vars
               PROVE  CompletionsKept'
    BY KeptStep
  <2> QED
    BY KeptUnchanged
    DEF vars, mainVars, feederVars, workerVars, gathererVars, Announced
<1> QED BY <1>1, <1>2, TypeCorrect, PTL DEF Spec

-----------------------------------------------------------------------------
(***************************************************************************)
(* The walk of the manifest.  NothingForgotten only speaks of the feeder   *)
(* in its select; in between, what a plan names may still be on the stack  *)
(* of feedPlan's calls.  A plan is expanded when it was handed out, is     *)
(* pending, or has its own turn still to come; the plans it names are      *)
(* then known: expanded, or on the stack.                                  *)
(***************************************************************************)
Stacked(fs)  == {fs[i].plan : i \in DOMAIN fs}
Waiting(fs)  == {fs[i].plan : i \in {j \in DOMAIN fs : fs[j].step = "own"}}
Named(p)     == ToSet(tree.deps[p]) \cup ToSet(tree.plans[p])

Walk ==
  /\ fpc \in {"loop", "done"} => frames = <<>>
  /\ \A p \in seen \cup pending \cup Waiting(frames) :
       Named(p) \subseteq seen \cup pending \cup Stacked(frames)

LEMMA WalkUnchanged ==
  ASSUME Walk, tree' = tree, frames' = frames,
         seen \cup pending = seen' \cup pending',
         fpc' \in {"loop", "done"} => frames = <<>>
  PROVE  Walk'
BY DEF Walk, Named, Stacked, Waiting

LEMMA EnqueueWalk ==
  ASSUME NEW p, NEW fs, Enqueue(p, fs)
  PROVE  seen' = seen \cup {p} /\ (fpc' \in {"loop", "done"} => fs = <<>>)
BY DEF Enqueue, Resume

LEMMA StackSplit ==
  ASSUME NEW fs \in Seq(Frame), fs # <<>>
  PROVE  /\ Stacked(fs) = {Head(fs).plan} \cup Stacked(Tail(fs))
         /\ Waiting(fs) = (IF Head(fs).step = "own" THEN {Head(fs).plan} ELSE {})
                            \cup Waiting(Tail(fs))
<1>1. \A i \in DOMAIN fs : i = 1 \/ (i - 1 \in DOMAIN Tail(fs) /\ Tail(fs)[i - 1] = fs[i])
  OBVIOUS
<1>2. \A i \in DOMAIN Tail(fs) : i + 1 \in DOMAIN fs /\ Tail(fs)[i] = fs[i + 1]
  OBVIOUS
<1>3. 1 \in DOMAIN fs /\ fs[1] = Head(fs)
  OBVIOUS
<1>4. Stacked(fs) = {Head(fs).plan} \cup Stacked(Tail(fs))
  <2>1. ASSUME NEW i \in DOMAIN fs
        PROVE  fs[i].plan \in {Head(fs).plan} \cup Stacked(Tail(fs))
    BY <1>1, <1>3 DEF Stacked
  <2>2. Stacked(Tail(fs)) \subseteq Stacked(fs)
    BY <1>2 DEF Stacked
  <2>3. Head(fs).plan \in Stacked(fs)
    BY <1>3 DEF Stacked
  <2> QED BY <2>1, <2>2, <2>3 DEF Stacked
<1>5. Waiting(Tail(fs)) \subseteq Waiting(fs)
  BY <1>2 DEF Waiting
<1>6. Head(fs).step = "own" => Head(fs).plan \in Waiting(fs)
  BY <1>3 DEF Waiting
<1>7. ASSUME NEW i \in DOMAIN fs, fs[i].step = "own"
      PROVE  fs[i].plan \in (IF Head(fs).step = "own" THEN {Head(fs).plan} ELSE {})
                              \cup Waiting(Tail(fs))
  BY <1>1, <1>3, <1>7 DEF Waiting
<1> QED BY <1>4, <1>5, <1>6, <1>7 DEF Waiting

LEMMA StackConcat ==
  ASSUME NEW fs \in Seq(Frame), NEW gs \in Seq(Frame)
  PROVE  /\ Stacked(fs \o gs) = Stacked(fs) \cup Stacked(gs)
         /\ Waiting(fs \o gs) = Waiting(fs) \cup Waiting(gs)
<1>1. \A i \in DOMAIN (fs \o gs) :
         \/ i \in DOMAIN fs /\ (fs \o gs)[i] = fs[i]
         \/ i - Len(fs) \in DOMAIN gs /\ (fs \o gs)[i] = gs[i - Len(fs)]
  OBVIOUS
<1>2. \A i \in DOMAIN fs : i \in DOMAIN (fs \o gs) /\ (fs \o gs)[i] = fs[i]
  OBVIOUS
<1>3. \A i \in DOMAIN gs :
         i + Len(fs) \in DOMAIN (fs \o gs) /\ (fs \o gs)[i + Len(fs)] = gs[i]
  OBVIOUS
<1>4. Stacked(fs \o gs) = Stacked(fs) \cup Stacked(gs)
  <2>1. Stacked(fs \o gs) \subseteq Stacked(fs) \cup Stacked(gs)
    BY <1>1 DEF Stacked
  <2>2. Stacked(fs) \subseteq Stacked(fs \o gs)
    BY <1>2 DEF Stacked
  <2>3. Stacked(gs) \subseteq Stacked(fs \o gs)
    BY <1>3 DEF Stacked
  <2> QED BY <2>1, <2>2, <2>3
<1>5. Waiting(fs \o gs) \subseteq Waiting(fs) \cup Waiting(gs)
  BY <1>1 DEF Waiting
<1>6. Waiting(fs) \subseteq Waiting(fs \o gs)
  BY <1>2 DEF Waiting
<1>7. Waiting(gs) \subseteq Waiting(fs \o gs)
  BY <1>3 DEF Waiting
<1> QED BY <1>4, <1>5, <1>6, <1>7

LEMMA FeedsStack ==
  ASSUME NEW s \in Seq(Plan)
  PROVE  Stacked(Feeds(s)) = ToSet(s) /\ Waiting(Feeds(s)) = {}
BY DEF Stacked, Waiting, Feeds, ToSet

LEMMA CallStack ==
  ASSUME NEW p
  PROVE  Waiting(Call(p)) = {}
BY DEF Waiting, Call

LEMMA BodyStack ==
  ASSUME tree \in Tree, NEW p \in Plan
  PROVE  Stacked(Body(p)) = Named(p) \cup {p} /\ Waiting(Body(p)) = {p}
<1> DEFINE own == <<[plan |-> p, step |-> "own"]>>
<1>1. tree.deps[p] \in Seq(Plan) /\ tree.plans[p] \in Seq(Plan)
  BY DEF Tree
<1>2. own \in Seq(Frame) /\ Stacked(own) = {p} /\ Waiting(own) = {p}
  <2>1. own \in Seq(Frame) /\ DOMAIN own = {1}
    BY DEF Frame
  <2>2. own[1] = [plan |-> p, step |-> "own"]
    OBVIOUS
  <2> QED BY <2>1, <2>2 DEF Stacked, Waiting
<1>3. Feeds(tree.deps[p]) \in Seq(Frame) /\ Feeds(tree.plans[p]) \in Seq(Frame)
  BY <1>1, FeedsType
<1>4. Feeds(tree.deps[p]) \o Feeds(tree.plans[p]) \in Seq(Frame)
  BY <1>3
<1>5. Stacked(Body(p)) = ToSet(tree.deps[p]) \cup ToSet(tree.plans[p]) \cup {p}
  <2>1. Stacked(Feeds(tree.deps[p]) \o Feeds(tree.plans[p]))
          = ToSet(tree.deps[p]) \cup ToSet(tree.plans[p])
    BY <1>1, <1>3, StackConcat, FeedsStack
  <2>2. Stacked(Body(p)) = Stacked(Feeds(tree.deps[p]) \o Feeds(tree.plans[p])) \cup Stacked(own)
    BY <1>2, <1>4, StackConcat DEF Body
  <2> QED BY <1>2, <2>1, <2>2
<1>6. Waiting(Body(p)) = {p}
  <2>1. Waiting(Feeds(tree.deps[p]) \o Feeds(tree.plans[p])) = {}
    BY <1>1, <1>3, StackConcat, FeedsStack
  <2>2. Waiting(Body(p)) = Waiting(Feeds(tree.deps[p]) \o Feeds(tree.plans[p])) \cup Waiting(own)
    BY <1>2, <1>4, StackConcat DEF Body
  <2> QED BY <1>2, <2>1, <2>2
<1> QED BY <1>5, <1>6 DEF Named

LEMMA WalkFeedPlan ==
  ASSUME TypeOK, Walk, FeedPlan
  PROVE  Walk'
<1> DEFINE p == Head(frames).plan
<1>1. frames \in Seq(Frame) /\ frames # <<>> /\ Head(frames) \in Frame
      /\ Tail(frames) \in Seq(Frame) /\ tree \in Tree
  BY DEF FeedPlan, TypeOK
<1>2. p \in Plan
  BY <1>1 DEF Frame
<1>3. Body(p) \in Seq(Frame)
  BY <1>1, <1>2, BodyType
<1>4. /\ Stacked(frames') = Named(p) \cup {p} \cup Stacked(Tail(frames))
      /\ Waiting(frames') = {p} \cup Waiting(Tail(frames))
  BY <1>1, <1>2, <1>3, BodyStack, StackConcat DEF FeedPlan
<1>5. Stacked(frames) = {p} \cup Stacked(Tail(frames)) /\ Waiting(frames) = Waiting(Tail(frames))
  BY <1>1, StackSplit DEF FeedPlan
<1>6. tree' = tree /\ seen' = seen /\ pending' = pending /\ fpc' = "feed"
  BY DEF FeedPlan, mainVars
<1>7. \A q : Named(q)' = Named(q)
  BY <1>6 DEF Named
<1> QED BY <1>4, <1>5, <1>6, <1>7 DEF Walk

LEMMA WalkFeedOwn ==
  ASSUME TypeOK, Walk, FeedOwn
  PROVE  Walk'
<1> DEFINE p == Head(frames).plan
<1>1. frames \in Seq(Frame) /\ frames # <<>>
  BY DEF FeedOwn, TypeOK
<1>2. /\ Stacked(frames) = {p} \cup Stacked(Tail(frames))
      /\ Waiting(frames) = {p} \cup Waiting(Tail(frames))
  BY <1>1, StackSplit DEF FeedOwn
<1>3. seen' \cup pending' = seen \cup pending \cup {p}
      /\ (fpc' \in {"loop", "done"} => Tail(frames) = <<>>)
  <2>1. CASE Enqueue(p, Tail(frames)) /\ pending' = pending
    BY <2>1, EnqueueWalk
  <2>2. CASE pending' = pending \cup {p} /\ fpc' = Resume(Tail(frames)) /\ seen' = seen
    BY <2>2 DEF Resume
  <2> QED BY <2>1, <2>2 DEF FeedOwn
<1>4. tree' = tree /\ frames' = Tail(frames)
  BY DEF FeedOwn, mainVars
<1>5. \A q : Named(q)' = Named(q)
  BY <1>4 DEF Named
<1>6. \A q \in seen' \cup pending' \cup Waiting(frames') :
        Named(q) \subseteq seen' \cup pending' \cup Stacked(frames')
  BY <1>2, <1>3, <1>4 DEF Walk
<1> QED BY <1>3, <1>4, <1>5, <1>6 DEF Walk

LEMMA WalkCall ==
  ASSUME Walk, NEW p, fpc = "loop", frames' = Call(p), fpc' = "feed",
         tree' = tree, seen' = seen, pending' = pending
  PROVE  Walk'
<1>1. frames = <<>> /\ Stacked(frames) = {} /\ Waiting(frames) = {}
  BY DEF Walk, Stacked, Waiting
<1>2. Waiting(frames') = {}
  BY CallStack
<1>3. \A q : Named(q)' = Named(q)
  BY DEF Named
<1> QED BY <1>1, <1>2, <1>3 DEF Walk

LEMMA WalkStep ==
  ASSUME TypeOK, Walk, Next
  PROVE  Walk'
<1> USE DEF mainVars, feederVars, workerVars, gathererVars
<1>1. CASE MainStep
  BY <1>1, WalkUnchanged DEF MainStep, Add, Stop, Walk
<1>2. ASSUME NEW p \in Plan, RunPending(p)
      PROVE  Walk'
  <2>1. seen' = seen \cup {p} /\ pending' = pending \ {p} /\ p \in pending
    BY <1>2, EnqueueWalk DEF RunPending, Ready
  <2>2. frames = <<>>
    BY <1>2 DEF RunPending, Walk
  <2> QED BY <1>2, <2>1, <2>2, WalkUnchanged DEF RunPending
<1>3. CASE FeederStart
  BY <1>3, WalkCall DEF FeederStart, AtSelect
<1>4. CASE FeederFinish
  <2>1. CASE Head(planDoneC).outcome = "ok"
    BY <1>4, <2>1, WalkCall DEF FeederFinish, AtSelect
  <2>2. CASE Head(planDoneC).outcome # "ok"
    BY <1>4, <2>2, WalkUnchanged DEF FeederFinish, AtSelect, Walk
  <2> QED BY <2>1, <2>2
<1>5. CASE FeedPlan
  BY <1>5, WalkFeedPlan
<1>6. CASE FeedOwn
  BY <1>6, WalkFeedOwn
<1>7. CASE FeederStop \/ PollFree \/ PollFull \/ PollWait \/ Notify
  BY <1>7, WalkUnchanged
  DEF FeederStop, PollFree, PollFull, PollWait, Notify, AtSelect, Walk, Resume
<1>8. ASSUME NEW w \in Worker, WorkerStep(w)
      PROVE  Walk'
  BY <1>8, WalkUnchanged DEF WorkerStep, WorkerTake, WorkerExec, WorkerStop, Walk
<1>9. ASSUME NEW w \in Worker, Receive(w)
      PROVE  Walk'
  BY <1>9, WalkUnchanged DEF Receive, Walk
<1>10. CASE Count \/ NotifyDone \/ Finish
  BY <1>10, WalkUnchanged DEF Count, NotifyDone, Finish, Walk
<1>11. CASE Unblock
  BY <1>11, WalkUnchanged DEF Unblock, Walk
<1>12. CASE Returned
  BY <1>12, WalkUnchanged DEF Returned, vars, Walk
<1> QED
  BY <1>1, <1>2, <1>3, <1>4, <1>5, <1>6, <1>7, <1>8, <1>9, <1>10, <1>11, <1>12
  DEF Next, FeederStep, GathererStep

LEMMA WalkAlways == Spec => []Walk
<1>1. Init => Walk
  BY DEF Init, Walk, Waiting
<1>2. TypeOK /\ Walk /\ [Next]_vars => Walk'
  <2> SUFFICES ASSUME TypeOK, Walk, UNCHANGED vars
               PROVE  Walk'
    BY WalkStep
  <2> QED
    BY WalkUnchanged DEF vars, mainVars, feederVars, workerVars, gathererVars, Walk
<1> QED BY <1>1, <1>2, TypeCorrect, PTL DEF Spec

(***************************************************************************)
(* When the feeder waits after it was given the manifest, every plan that  *)
(* the manifest reaches was handed out or is pending.  (feedPlan)          *)
(***************************************************************************)
THEOREM AlwaysNothingForgotten == Spec => []NothingForgotten
<1>1. TypeOK /\ Walk => NothingForgotten
  <2> SUFFICES ASSUME TypeOK, Walk, AtSelect, Main \in seen \cup pending
               PROVE  InTree(tree) \subseteq seen \cup pending
    BY DEF NothingForgotten
  <2>1. Stacked(frames) = {} /\ Waiting(frames) = {}
    BY DEF AtSelect, Walk, Stacked, Waiting
  <2>2. Closed(tree, seen \cup pending)
    BY <2>1 DEF Closed, Walk, Named, DepsOf
  <2>3. seen \cup pending \in SUBSET Plan
    BY DEF TypeOK
  <2> QED BY <2>2, <2>3 DEF InTree
<1> QED BY <1>1, TypeCorrect, WalkAlways, PTL
-----------------------------------------------------------------------------
(***************************************************************************)
(* The pool implements PlanSchedule: under the mapping of ExecPool (Begun, *)
(* Ended), a worker that takes a plan begins it, a worker whose execution  *)
(* returns ends it, and every other step of any goroutine is a stutter.    *)
(***************************************************************************)

Sending == {w \in Worker : wpc[w] = "send"}

(* A step that moves neither a worker nor a result into or out of the      *)
(* gatherer's hands does not show.                                         *)
LEMMA EndedUnchanged ==
  ASSUME TypeOK, tree' = tree, wpc' = wpc, wplan' = wplan, wout' = wout,
         results' = results, gres' = gres, gpc' = "count" <=> gpc = "count"
  PROVE  UNCHANGED PS!vars
BY DEF PS!vars, Begun, Ended, Running

(* The plans with a result are those counted, held or being sent.          *)
LEMMA EndedPlans ==
  ASSUME TypeOK, NEW r \in Ended
  PROVE  \/ r \in results /\ r.plan \in Counted
         \/ r.plan \in Held
         \/ \E w \in Worker : wpc[w] = "send" /\ r.plan = wplan[w]
BY DEF Ended, Counted, Held

LEMMA TakeBegins ==
  ASSUME TypeOK, OnePlace, DepsFirst, NEW w \in Worker, WorkerTake(w)
  PROVE  PS!Begin(in[w])
<1> DEFINE p == in[w]
<1> USE DEF mainVars, feederVars, gathererVars
<1>1. p # None /\ p \in Plan /\ p \in Queued /\ wpc[w] = "idle" /\ wplan[w] = None
  BY DEF WorkerTake, TypeOK, Queued
<1>2. p \in seen /\ p \notin Running /\ p \notin Held /\ p \notin Counted
  BY <1>1 DEF OnePlace
<1>3. \A v \in Worker : wplan[v] # p
  BY <1>1, <1>2 DEF Running
<1>4. p \notin Begun
  BY <1>2, <1>3, EndedPlans DEF Begun
<1>5. DepsOf(tree, p) \subseteq Succeeded(Ended)
  <2>1. results \subseteq Ended
    BY DEF Ended
  <2> QED BY <1>2, <2>1, SucceededMonotonic DEF DepsFirst
<1>6. Ended' = Ended
  <2>1. Sending' = Sending /\ \A v \in Sending : wplan'[v] = wplan[v] /\ wout'[v] = wout[v]
    BY <1>1 DEF WorkerTake, TypeOK, Sending
  <2> QED BY <2>1 DEF WorkerTake, Ended, Sending
<1>7. Running' = Running \cup {p}
  <2>1. \A v \in Worker : wplan'[v] = IF v = w THEN p ELSE wplan[v]
    BY DEF WorkerTake, TypeOK
  <2> QED BY <1>1, <2>1 DEF Running
<1>8. Begun' = Begun \cup {p}
  BY <1>6, <1>7 DEF Begun
<1>9. PS!DepsOf(tree, p) \subseteq PS!Succeeded(Ended)
  BY <1>5 DEF PS!DepsOf, PS!Succeeded, PS!ToSet, DepsOf, Succeeded, ToSet
<1>10. tree' = tree
  BY DEF WorkerTake
<1> QED BY <1>4, <1>6, <1>8, <1>9, <1>10 DEF PS!Begin

LEMMA ExecEnds ==
  ASSUME TypeOK, OnePlace, NEW w \in Worker, WorkerExec(w)
  PROVE  \E o \in Outcomes(tree, wplan[w]) : PS!End(wplan[w], o)
<1> DEFINE p == wplan[w]
<1> USE DEF mainVars, feederVars, gathererVars
<1>1. p # None /\ p \in Plan /\ p \in Running /\ wpc[w] = "exec"
  BY DEF WorkerExec, TypeOK, Running
<1>2. PICK o \in Outcomes(tree, p) : wout' = [wout EXCEPT ![w] = o]
  BY DEF WorkerExec
<1>3. p \notin Held /\ p \notin Counted
  BY <1>1 DEF OnePlace
<1>4. \A v \in Worker : v # w => wplan[v] # p
  BY <1>1 DEF OnePlace
<1>5. \A r \in Ended : r.plan # p
  BY <1>1, <1>3, <1>4, EndedPlans
<1>6. Ended' = Ended \cup {[plan |-> p, outcome |-> o]}
  <2>1. Sending' = Sending \cup {w} /\ wout'[w] = o /\ w \notin Sending
    BY <1>1, <1>2 DEF WorkerExec, TypeOK, Sending
  <2>2. \A v \in Sending : wout'[v] = wout[v]
    BY <1>2, <2>1 DEF TypeOK, Sending
  <2> QED BY <2>1, <2>2 DEF WorkerExec, Ended, Sending
<1>7. Begun' = Begun
  BY <1>1, <1>6 DEF Begun, Running, WorkerExec
<1>8. p \in Begun
  BY <1>1 DEF Begun
<1> QED BY <1>2, <1>5, <1>6, <1>7, <1>8 DEF PS!End, PS!Outcomes, Outcomes, WorkerExec

LEMMA ReceiveStutters ==
  ASSUME TypeOK, NEW w \in Worker, Receive(w)
  PROVE  UNCHANGED PS!vars
<1> USE DEF mainVars, feederVars
<1>1. /\ gpc = "recv" /\ gpc' = "count" /\ wpc[w] = "send" /\ results' = results
      /\ gres' = [plan |-> wplan[w], outcome |-> wout[w]]
  BY DEF Receive
<1>2. Sending' = Sending \ {w} /\ w \in Sending
  BY DEF Receive, TypeOK, Sending
<1>3. \A v \in Sending' : wplan'[v] = wplan[v] /\ wout'[v] = wout[v]
  BY <1>2 DEF Receive, TypeOK, Sending
<1>4. Ended' = Ended
  BY <1>1, <1>2, <1>3 DEF Ended, Sending
<1>5. Running' \subseteq Running /\ Running \subseteq Running' \cup {wplan[w]}
  <2>1. \A v \in Worker : wplan'[v] = IF v = w THEN None ELSE wplan[v]
    BY DEF Receive, TypeOK
  <2> QED BY <2>1 DEF Running
<1>6. wplan[w] \in {r.plan : r \in Ended}
  BY <1>1, <1>4 DEF Ended
<1> QED BY <1>4, <1>5, <1>6 DEF PS!vars, Begun, Receive

LEMMA CountStutters ==
  ASSUME TypeOK, Count
  PROVE  UNCHANGED PS!vars
<1> USE DEF mainVars, feederVars, workerVars
<1>1. Ended' = Ended
  BY DEF Count, Ended
<1> QED BY <1>1 DEF PS!vars, Begun, Running, Count

LEMMA StepRefines ==
  ASSUME TypeOK, OnePlace, DepsFirst, Next
  PROVE  PS!Next \/ UNCHANGED PS!vars
<1> USE DEF mainVars, feederVars, workerVars, gathererVars
<1>1. CASE MainStep
  BY <1>1, EndedUnchanged DEF MainStep, Add, Stop
<1>2. CASE FeederStep
  BY <1>2, EndedUnchanged
  DEF FeederStep, RunPending, FeederStop, FeederStart, FeederFinish, FeedPlan, FeedOwn,
      PollFree, PollFull, PollWait, Notify
<1>3. ASSUME NEW w \in Worker, WorkerTake(w)
      PROVE  PS!Next
  <2>1. in[w] \in Plan
    BY <1>3 DEF WorkerTake, TypeOK
  <2> QED BY <1>3, <2>1, TakeBegins DEF PS!Next
<1>4. ASSUME NEW w \in Worker, WorkerExec(w)
      PROVE  PS!Next
  <2>1. wplan[w] \in Plan
    BY <1>4 DEF WorkerExec, TypeOK
  <2> QED BY <1>4, <2>1, ExecEnds DEF PS!Next, PS!Outcomes, Outcomes
<1>5. ASSUME NEW w \in Worker, WorkerStop(w)
      PROVE  UNCHANGED PS!vars
  <2>1. Sending' = Sending /\ wplan' = wplan /\ wout' = wout
    BY <1>5 DEF WorkerStop, TypeOK, Sending
  <2> QED BY <1>5, <2>1 DEF WorkerStop, PS!vars, Begun, Ended, Running, Sending
<1>6. ASSUME NEW w \in Worker, Receive(w)
      PROVE  UNCHANGED PS!vars
  BY <1>6, ReceiveStutters
<1>7. CASE Count
  BY <1>7, CountStutters
<1>8. CASE NotifyDone
  BY <1>8, EndedUnchanged DEF NotifyDone
<1>9. CASE Finish
  BY <1>9, EndedUnchanged DEF Finish
<1>10. CASE Unblock
  BY <1>10 DEF Unblock, PS!vars, Begun, Ended, Running
<1>11. CASE Returned
  BY <1>11, EndedUnchanged DEF Returned, vars
<1> QED
  BY <1>1, <1>2, <1>3, <1>4, <1>5, <1>6, <1>7, <1>8, <1>9, <1>10, <1>11
  DEF Next, WorkerStep, GathererStep

(***************************************************************************)
(* The pool implements the abstract schedule: whatever the manifest, the   *)
(* number of workers and the interleaving, a plan begins at most once, and *)
(* only after all of its dependencies have run.                            *)
(***************************************************************************)
THEOREM PoolImplementsSchedule == Spec => Implements
<1>1. Init => PS!Init
  <2> SUFFICES ASSUME Init PROVE PS!Init
    OBVIOUS
  <2>1. Running = {} /\ Ended = {}
    BY DEF Init, Running, Ended
  <2> QED BY <2>1 DEF Init, PS!Init, Begun
<1>2. TypeOK /\ OnePlace /\ DepsFirst /\ [Next]_vars => [PS!Next]_PS!vars
  <2> SUFFICES ASSUME TypeOK, UNCHANGED vars
               PROVE  UNCHANGED PS!vars
    BY StepRefines
  <2> QED
    BY EndedUnchanged DEF vars, mainVars, feederVars, workerVars, gathererVars
<1> QED
  BY <1>1, <1>2, TypeCorrect, AlwaysOnePlace, DependenciesFirst, PTL DEF Spec, Implements, PS!Spec
=============================================================================
