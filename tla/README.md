# A TLA+ specification of ody

ody runs durable background tasks and durable pipelines (DAGs of tasks) on top
of a store. This directory models the parts of it where the order of events
matters, model-checks them with TLC on small instances, and proves with TLAPS,
for every instance, the safety properties of the in-memory store, of the engine,
the workers and the schedulers over it, and of the Redis store. File names below
are relative to `src/`.

## The system

| Part | State | Operations | What makes it hard |
|---|---|---|---|
| Store (`execution/store.go`, `memory.go`, `redis/`, `postgres/`) | executions, their event logs, pipeline runs, uniqueness indexes | create, claim, heartbeat, succeed, retry, fail, reap, cancel, restart, release, set run status, purge | leases that expire while the handler is still running, late calls, exhausted attempts, restarts of finished work, purge |
| Pipeline engine (`pipeline/engine.go`) | none in memory; everything in the store | Run, Advance, Reconcile, RestartExecution, Cancel | several coordinators work on one run from snapshots, one store call at a time, and may crash in between |
| Pipeline definitions (`pipeline/definition.go`) | nodes in declaration order, dependencies, mappers | Start, Then, Join2, validate, registry | keys that are trimmed after they were referenced |
| Worker (`worker/worker.go`) | loops, running handlers, health | reap, claim, execute, heartbeat, resolve, advance, reconcile, shutdown | timeout against late result, heartbeat failure, shutdown |
| Scheduler (`schedule/schedule.go`) | next instant of each schedule | initialize, tick, fire | misfires, overlap of several instances, lost triggers |
| Tasks (`task/`) | registered handlers | Enqueue, Handle, retry policy | backoff arithmetic |
| Runtime (`app.go`, `fx.go`, `worker/fx/`) | running flag, done channel | start, stop | stop twice, stop with a deadline |
| Monitoring, HTTP, CLI, metrics, logging | none | restart, cancel, purge; reads | none of its own |

A client or the scheduler creates executions and runs; workers claim executions,
resolve them, and call the engine's Advance when a pipeline node ends; idle
workers call Reconcile; operators cancel, restart and purge. All of them meet
only in the store.

## Modules

* **MemoryStore**: the reference store. Each method holds the mutex for its whole
  body, so each method is one action; a call that returns an error, an existing
  object, or a read changes nothing and is not an action. The maps of the Go
  struct are the variables `executions`, `events`, `idempotent`, `nodes`, `runs`,
  `runIdempotent`; `now` is the clock and `lastID`, `lastRun` stand for
  `uuid.New()`. A lease token is named by the position of the `started` event
  its claim appends, a handler's output by the token of the delivery that wrote
  it. `WorkerCall` lets a worker present *any* token it was ever given, so late
  and duplicate calls are always possible.
* **PipelineEngine** (extends MemoryStore): the engine as a set of coordinators.
  `calls[c]` is what coordinator `c` has read so far and where it is in Advance
  or Cancel. One store call is one step, so everything else may happen between
  any two. A process crash forgets `calls[c]`. `Dependencies`, `Nodes` (the
  declaration order) and `BrokenMappers` are a compiled definition. The nodes
  Cancel still has to cancel are the set `left`; it takes the oldest first, as
  the store lists them. Workers (`ClaimNode`, `Resolve`) and the operator are
  part of the module.
* **Worker** (extends MemoryStore): worker processes and their polling loops.
  `loops[l].pc` is the place in `loop`, `execute` or `resolve`; one store call is
  one step. The select of `execute` is a choice between `Abandon`, `Beat` and
  `resolve`, whose `Outcomes` are the handler's result and the error of its
  context. A handler the loop no longer waits for is remembered in `late` until
  it returns, for the shutdown. The engine is reduced to `owed`, the runs a node
  of which ended since their last Advance or Reconcile. Any call may fail, a
  worker may be stopped or crash between two steps, and operators cancel, restart
  and purge what a loop works on. The restart of a node is the engine's and is not
  made here, nor does a run get a status, so runs and their nodes are not purged
  here. Left out: the Health record and the observer, which nothing in the worker
  reads.
* **ExecutionContract**: what `execution/store.go` promises of one execution in
  any store, as an abstract machine of its own. A *life* is the run it belongs to,
  status, attempt, holder of the lease, deliveries made and the delivery that wrote
  the output. A life outside a run is deleted only when it is over. The contract
  does not see who makes a call, so it allows a delivery to end at any time; that
  before the end of a lease only its holder ends one is `LeaseProtects` in Worker.
  `ImplementsContract` in MemoryStore maps the records and logs to lives; it is
  checked for MemoryStore and for RedisStore, and proved for MemoryStore.
* **RedisIndexes** (extends MemoryStore): the same records, and the sorted sets,
  counters and references derived from them. A method reads the server's time,
  perhaps a list of candidates, and then commits one WATCH/MULTI/EXEC transaction
  per record. Whatever a committed transaction read was watched, so it is one
  step; the time and the candidates are older and are kept in `client[c]`. The
  module has the derived state, what each transaction does to it, the lists that
  Claim, ReapExpired, RestartPipelineSubgraph and Purge read, and the properties.
  `Window` stands for `max(limit*8, 128)` and `Resolution` for the rounding of
  scores. Purge reads several lists one after the other; the model reads the runs
  with their nodes in one step and the standalone executions in another.
* **RedisStore** (extends RedisIndexes): the methods that make a transition of
  MemoryStore, and the whole store. `Read(call)` is MemoryStore with the clock the
  call has read, so that the record part of each transaction is the operation of
  MemoryStore at that time; the rest of the transaction is in RedisIndexes.
* **PipelineDefinition**, **PipelineBuilder**: Start, Then, Join2, validate and
  `descendantKeys` as operators on sequences of nodes, and one `*Definition` that
  is declared and compiled in any order. A registry shares the nodes of the
  definition, whose keys validate rewrites, so `Compiled` is a view of `declared`.
* **Scheduler** (extends MemoryStore): instances of the application with the same
  schedules. `sched[s].plan` holds the occurrences an `initialize` or `tick` has
  found due and not yet fired, as a set of instants for each definition, worked off
  definition by definition and oldest first; each list that isActive reads, and
  the trigger, is a step. A cron expression is a set of instants. `ran` and
  `reported` record what was triggered and what the observer was told instead,
  `began` the instants after which the lists of due occurrences began.
* **MemoryStoreProofs**, **MemoryStoreRefinement**, **PipelineEngineProofs**,
  **WorkerProofs**, **SchedulerProofs**, **RedisIndexesProofs**,
  **RedisMethodsProofs**, **RedisStoreProofs**: the theorems, see
  [Proofs](#proofs).
* **MC...**: instances for TLC. The dependencies and descendants that
  MCPipelineEngine uses are tied by assumptions to what PipelineDefinition makes
  of the declarations.

A definition called `Faulty_X` or `StaleX` is never used. It is a plausible
mistake in `X`; put in its place, it breaks one of the properties.

## Runs

| Run | Instance | What it checks |
|---|---|---|
| `store` | two executions, standalone with two attempts or nodes of one run that ask for none and get one, four events each, two instants | types; logs replay to the stored state; results come from the newest delivery; nothing is stranded between Claim and ReapExpired; the three indexes hold exactly the live objects; outcomes are final; lost leases stay lost; purge takes finished work only; the store implements ExecutionContract |
| `redis_delivery` | two workers that claim and reap, every call with a stale time | the queues and the index of deadlines find all work; derived data are exact; the Redis store implements ExecutionContract |
| `redis_runs` | subgraph restarts and purges in steps, among creations, cancellations, releases and status changes | the same indexes; derived data are exact until a purge deletes what had changed |
| `engine_race` | join of two nodes, two coordinators, two disturbances, a mapper that may fail | run status is earned, outcomes are kept, nodes start from their dependencies' outputs, purged runs were finished |
| `engine_live` | a -> b, two coordinators, one disturbance, leases that expire, a mapper that may fail | every run ends; every step of the composition is a step of the store's specification |
| `pipeline_definition` | up to three nodes, keys with blanks around them | `descendantKeys` finds the transitive closure; a compiled definition never gets stuck and never changes |
| `worker` | two workers with a loop each, one failing call, which stops its worker unless it was about a delivery; one stop, crash or call of an operator; one heartbeat per delivery | without failures every running execution is held by the loop of its newest delivery; a lease protects its holder; a loop never ends alone; every execution ends, and every end of a node is followed by an Advance, as long as one worker runs |
| `scheduler` | two instances, one crash, three instants, four deployments, one of which cuts its lists | an occurrence has one execution; none that `maxCatchUp` keeps is lost unreported; an instance always catches up |
| `store_release` | as `store` | *violated*: `docs/configuration.md:99`, every change of state adds an event |
| `engine_restart_race` | a -> b | *violated*: `engine.go:189`, descendants stay blocked until their dependencies are rebuilt |
| `redis_purge` | one execution, one operator | *violated*: `store.go:49`, purge preserves active work |
| `scheduler_overlap` | one instance, one worker | *violated*: `docs/scheduling.md:56`, OverlapSkip creates nothing beside active work |

### Bounds

`MaxTime`, `MaxExecutions`, `MaxRuns`, `MaxEvents` and `MaxRevision` bound the
counters in the guards; `MaxDisturbances` bounds cancellations, restarts, purges
and crashes together, `MaxCrashes` the crashes of schedulers and `MaxNodes` the
nodes of a definition. In `store` four events allow a delivery, its expiry,
another delivery and an outcome, or an outcome and a restart; longer lives are
covered by the proofs. In `engine_live` `MaxEvents` and `MaxRevision` stop no
step; in `engine_race` seven events allow a node to succeed, to be restarted,
released and to succeed again, and five revisions the two outcomes of its run.
Nodes that failed are restarted in `engine_live` only. Two coordinators, workers
or schedulers suffice for one to act between any two steps of the other;
`engine_race` uses the symmetry of its coordinators (none of its properties names
one). Three nodes are the least with a chain that
`descendantKeys` must follow. In `worker` `MaxFailures` bounds the failing calls
and `MaxBeats` the heartbeats of one delivery, without which a handler that never
returns would keep the clock running for ever. The loops of one worker meet only
in its stop, which `NoLoopLost` and its theorem cover for any number of loops, so
each worker of the run has one. `MaxTime` is never reached in `worker` and
`engine_live`: time passes only while a lease or an availability lies ahead. In
`scheduler` it lies at the last occurrence: `CatchesUp` is stated of every instant,
so what it says of an earlier one is checked while later ones come, and of the last
when no other follows. Two instants under a limit of one are the least that cut a
list.
CHECK_DEADLOCK is off because a store nobody calls, or one at its bounds, stops.

### Fairness

`engine_live` assumes that a coordinator that does not crash gets its answers
from the store (weak fairness of each coordinator's steps), that workers go on
claiming and resolve what they claimed (handlers return or time out), and that
an unfinished run is reconciled again and again (strong fairness of Reconcile
per run, since a coordinator is busy between two calls): a worker loop that finds
nothing to claim calls Reconcile before it polls again (`worker.go:206`). A queue
that is never empty would break the last assumption: `Worker` has the same loop,
and `worker` shows that an ended node is advanced once its queue drains.

`worker` assumes that each loop of a live worker is scheduled (weak fairness
of its next step), that the timers of the tasks fire, and that time goes on.
Nothing is assumed of handlers: one that never returns is given up at its
timeout. Tasks without a timeout (`Timeouts = FALSE`) are not claimed to end.

`scheduler` assumes that the loop of an instance that is up goes on: weak fairness
of its next tick, list or trigger. Failing calls, crashes, time and all others
need not happen.

## Findings

The four violated runs show where a comment or a document promises more than
the code does:

* `engine_restart_race`: a coordinator lists a as succeeded; an operator restarts
  a, and there is no b yet to block; the coordinator then creates b with the
  input built from the discarded output. Node creation is not conditional on the
  run's revision.
* `redis_purge`: a purge lists a finished execution; it is restarted; the purge
  deletes it while it is pending. The transaction that deletes watches nothing.
* `scheduler_overlap`: isActive finds no pending execution and none in retry; the
  running one fails and is scheduled for retry; isActive finds none running, and a
  second execution is created.
* `store_release`: a restart blocks a node, and when its dependencies are rebuilt
  ReleaseExecution makes it pending without an event (`memory.go:397`). Of such a
  node the log alone does not tell which of the two it is, and `LogReplaysToState`
  leaves that open; of every other execution the log gives the status.

Related behaviour that the models contain and no property forbids:

* A Redis purge that deletes what had changed leaves the counters wrong and an
  entry without a record in a status index. Every later list of that status fails
  with ErrNotFound, and if the status is a terminal one, so does every later purge
  that comes to the entry. `IndexesFindWork` shows that delivery is not affected.
* A run is failed as soon as one node is; a purge of the run deletes sibling
  nodes that are pending or running, in spite of `store.go:49`.
* Cancel lists the nodes; another coordinator that read the run earlier creates
  one; the run is cancelled and the node is executed, in spite of
  `engine.go:280`. If the run is purged instead, the node belongs to no run.
* MisfireLatest takes the newest of the *oldest* `maxCatchUp` occurrences
  (`schedule.go:209`), not "the last tick within the lookback"
  (`docs/scheduling.md:53`), when there are more; with a limit of 1 that is the
  oldest one. `NoOccurrenceLost` therefore speaks of what the limit keeps.
* The branch of `loadDueCandidates` that discards queue entries without a record
  is not needed: `IndexesFindWork` shows there are none.

Two statements of the documentation are older than the code. They need no
search: a restart of a *blocked* node is accepted (`memory.go:343`, against
`docs/tasks.md:101`), and a restart does reset succeeded descendants
(`memory.go:365`, against `docs/pipelines.md:90`).

## Proofs

All theorems hold for all constants that satisfy the named assumptions of the
modules (`ConstantsAssumption`, `DefinitionAssumption`, `WorkerAssumption`,
`SchedulerAssumption`, `RedisAssumption`), hence for any number of executions,
runs, events, instants, coordinators, workers, loops, schedulers and callers of
the Redis store, and any pipeline and cron expressions. The assumptions say what
kind of value each constant is, that the callers of the store include the
component at hand, that a lease is longer than nothing, and of Redis that scores
have a unit and Claim looks at one entry at least.

| Module | Theorem | States |
|---|---|---|
| MemoryStoreProofs | `TypeCorrect`, `LogReplays`, `NewestDeliveryOwnsResult`, `NothingStranded` | the invariants of `store` |
| | `FinishedStaysFinished`, `LeaseFencing`, `PurgeDeletesFinishedOnly` | its action properties |
| | `IndexesHold` | the uniqueness indexes are exact |
| MemoryStoreRefinement | `StoreImplementsContract` | MemoryStore implements ExecutionContract |
| PipelineEngineProofs | `EngineTypeCorrect`, `StatusesEarned`, `InputsFollowDependencies` | the invariants of `engine_race` |
| | `OutcomesKept`, `PurgeTakesFinishedRuns`, `EngineKeepsStoreContract` | the action properties, and that the composition implements MemoryStore |
| WorkerProofs | `WorkerTypeCorrect`, `DeliveriesHeld`, `LoopsStayUp` | the invariants of `worker` |
| | `LeasesProtect`, `WorkersKeepStoreContract` | its action property, and that workers use the store as it allows |
| SchedulerProofs | `SchedulerTypeCorrect`, `OccurrencesRunOnce`, `OccurrencesAnswered`, `SchedulersKeepStoreContract` | the invariants of `scheduler`, and the same of schedulers |
| RedisStoreProofs | `RedisTypes`, `RedisFindsWork`, `RedisDerives` | the invariants of `redis_delivery` and `redis_runs` |

The three `...KeepStoreContract` theorems carry everything that is proved of the
store over to the compositions: a step of an engine, a worker or a scheduler is a
step of MemoryStore or leaves the store alone.

**The store.** None of its invariants is inductive alone. The inductive invariant
`IInv` adds to the types, for each execution: the log replays to the stored state
(`Replays`); the token is the last position of the log while the execution is
running and 0 otherwise, which is what makes tokens unique without remembering
them (`LeaseSound`); the output is the position before the last when it
succeeded, `finishedAt` is set exactly in the terminal states and the attempt
counts are within MaxAttempts (`LifeSound`); and the availability of running and
blocked work has passed, without which an expired running execution could be
neither claimable nor reapable. The proof of each action goes through
`CommitSound` in `NextInv`: if every execution a step writes is sound with its log,
the whole store is. The action properties follow from `Touched`, the list of what
a step can do to one execution.

**Steps of the store.** The other proofs do not look into the store's actions
again. `Moves` in MemoryStoreProofs lists what can happen to an execution and its
log (it starts, is renewed, ends, is cancelled, is released or stays as it is),
`Restarts` is a life that begins anew, and `StepTransition` shows that every step
moves each execution in one of these ways, or creates one, or purges.

**The contract.** With that list the refinement is a case for each way to move. It
needs one more invariant, `LeasesEnd`: only a running execution has a deadline,
and none lies further ahead than one lease, which the contract uses to say that a
lease ends.

**The engine.** A coordinator decides from what it read some steps ago, so
`EngineInv` says of every call in progress what is still true of it
(`CallsSound`): the revision it holds is never ahead of the run's; while the two
are equal, the run has no outcome yet, and a status it is about to write is earned
(a restart, which takes successes back, also moves the revision); and while they
are equal, or nothing of the run was restarted, the outputs it saw are the ones
that are stored. `StatusesEarned` then follows because SetPipelineRunStatus
refuses another revision, `InputsFollowDependencies` from the second half, since
CreateExecution and ReleaseExecution do not look at the revision. `FinishedRuns`
(only a finished run has `finishedAt`) gives the purge.

**The worker.** `WorkerInv` needs the types of the loops' records, and that nodes
belong to runs that were created (`KnownRuns`), beside the checked invariants.
For every step `Stepped` and `KeepsHold` say that one loop changed and that no
delivery in its hands was dropped; `Steady`, that the step delivers nothing.
`LeasesProtect` goes through the steps that write executions: a claim and a reap
leave alone what has time left (`LeasedKept`), a result reaches the store with the
newest token only (`OthersKept`) and its loop leaves execute, and an operator's
call cancels, or touches what is over.

**The scheduler.** `SchedulerInv` adds where executions come from: each carries the
key and the input of one occurrence that is not in its future (`Triggered`). With
`IndexesAgree` two executions of one occurrence would share an index entry, which
is `OccurrencesRunOnce`. `NoOccurrenceLost` says of each list what the limit keeps
of it and that all of that is answered for; `began` tells the lists apart. It is
inductive once every list is known to have begun before the next time (`Answers`):
a tick then adds one list, beginning where what was seen before ends, and leaves
the older lists as they are. What the limit keeps of the new list is what
`occurrences` returned (`KeptOldest`, `OccurrencesOldest`).

**The Redis store.** Neither `IndexesFindWork` nor `DerivedExactly` is inductive.
`RedisInv` says of each part what the others rely on:

* of the records and their sorted sets, always (`Queued`): the queue holds exactly
  the active executions, at the score of the instant they may be claimed; an entry
  of `leases` belongs to a running execution and has the score of its deadline;
  and a running execution without attempts left always has such an entry. The
  last is what a reap that drops a deadline (`removeLeaseIndex`) must not break,
  and is enough because a recoverable one is found through the queue.
* of counters, status indexes and references, until a purge deleted something that
  had changed (`Tallied`, `ExecutionReferences`, `RunsTallied`, `RunReferences`);
* of every method under way (`CallSound`): its time is one the server has shown,
  so every lease counts from an instant the clock has had (`LeaseDated`); and
  what a purge has listed has the references that the record still has, if the
  record is there, since no transition changes them. So a purge takes the
  references of the records it deletes and of no others, even when their status
  has moved on.

RedisIndexesProofs shows that each kind of transaction keeps the records and runs
sound: one that writes records and reindexes them (`TouchSound`), a creation, a
dropped deadline, a purge. The counters are cardinalities, so these proofs rest on
`Exchange`: what a set gains and loses adds up. RedisMethodsProofs shows that a
transaction of one caller keeps what the others have read (`CallsKept`), and that
claims, reaps, restarts and purges decided on older lists are such transactions.
RedisStoreProofs adds the transitions of MemoryStore at the time a caller has read.
`IndexesFindWork` follows because `score` is monotone (`ScoreOrder`). `RedisInv`
was checked with TLC on the instances of `redis_delivery` and `redis_runs` before
it was proved.

Only model-checked:

* all liveness (`RunsFinish`, `WorkFinishes`, `EndsAreAdvanced`, `CatchesUp`): fairness
  and ENABLED are beyond the prover;
* that the Redis store implements the contract. It does so only without purges (a
  stale one deletes an execution that is not over, see `redis_purge`, and the
  contract forbids that outside a run), so the theorem would be about a part of the
  store, and would need the invariants of MemoryStore proved again for each time a
  caller may have read;
* pipeline definitions: `RestartNamesDescendants`, `CompiledCanFinish` and
  `CompiledStays` are about what folds over the nodes compute, which takes
  induction over data that the provers cannot instantiate. No module has
  RECURSIVE operators.

## Not modelled

* The PostgreSQL store. Each method is one SQL transaction, so what is hard about
  it is in row locks, SKIP LOCKED and READ COMMITTED snapshots. These are the
  database's and cannot be read off the code; without them a model would be
  MemoryStore once more.
* The runtime and the Fx lifecycle (`app.go`, `fx.go`, `worker/fx/`): they start
  and stop one worker and one scheduler, whose own shutdown is in Worker.
* Retry policies. The stores are checked with any delay; `ExponentialBackoff` is
  one loop that nothing else depends on. The task registry never changes while a
  worker runs.
* The worker's Health record and all observers, which feed nothing back.
* Logging, metrics, HTTP and CLI parsing, JSON encoding, time zones, and the list
  operations with their paging, which change no state.
