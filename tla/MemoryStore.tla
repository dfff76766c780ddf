----------------------------- MODULE MemoryStore -----------------------------
(***************************************************************************)
(* The reference Store of ody (execution/memory.go): durable executions    *)
(* with leases, attempts and an event log, pipeline runs with a revision,  *)
(* and the three uniqueness indexes.  Every method of the code holds one   *)
(* mutex, so every method is one action.  A call that returns an error, an *)
(* existing object or a plain read changes nothing and is not an action.   *)
(*                                                                         *)
(* Go maps are functions whose domain is the set of live keys.  Instants   *)
(* are naturals, the zero time.Time (also: a nil pointer) is 0 and the     *)
(* clock starts at 1.  uuid.New() never repeats: execution and run         *)
(* identifiers are counted, and a lease token is named by the place of the *)
(* "started" event its claim appends, which is unique per execution.  A    *)
(* handler's output is named by the token of the delivery that wrote it,   *)
(* and an input by the set of outputs it was built from.  Lease owners,    *)
(* error texts and StartedAt are left out: nothing in the store reads them.*)
(*                                                                         *)
(* A definition named Faulty_ or Stale is never used: it is the plausible  *)
(* mistake in the next definition that the checked properties rule out.    *)
(***************************************************************************)
EXTENDS Naturals, Integers, Sequences, FiniteSets, Functions

CONSTANTS
  None,                   \* the empty idempotency key, the empty node key
  TaskName, TaskVersion,  \* a TaskKey is a pair of these
  IdempotencyKey,         \* the non-empty idempotency keys callers choose
  NodeKey,                \* the node keys of the one pipeline definition
  Descendants,            \* node key -> the descendants a restart names
  MaxAttempts,            \* the values enqueuers pass as MaxAttempts
  NodeAttempts,           \* the values the nodes of a pipeline give for it
  Delays,                 \* retry delays and enqueue delays
  Inputs,                 \* the inputs callers pass
  Limits,                 \* the batch limits callers of Claim and Purge pass
  Lease,                  \* the lease duration
  MaxTime, MaxExecutions, MaxRuns, MaxEvents, MaxRevision  \* the bounds

ASSUME ConstantsAssumption ==
  /\ None \notin IdempotencyKey \cup NodeKey \cup (Nat \X NodeKey)
  /\ Descendants \in [NodeKey -> SUBSET NodeKey]
  /\ MaxAttempts \cup NodeAttempts \subseteq Int
  /\ Delays \subseteq Nat
  /\ Limits \subseteq Int
  /\ Lease \in Nat \ {0}
  /\ {MaxTime, MaxExecutions, MaxRuns, MaxEvents, MaxRevision} \subseteq Nat
  /\ MaxEvents > 0

VARIABLES
  executions,     \* id -> Execution
  events,         \* id -> the append-only transition log
  idempotent,     \* <<task name, key>> -> id
  nodes,          \* <<run, node key>> -> id
  runs,           \* run -> PipelineRun
  runIdempotent,  \* key -> run
  lastID, lastRun, \* the identifiers handed out so far
  now             \* the clock

vars == <<executions, events, idempotent, nodes, runs, runIdempotent, lastID, lastRun, now>>

Status == {"pending", "blocked", "running", "retry", "succeeded", "failed", "cancelled"}
RunStatus == {"pending", "running", "succeeded", "failed", "cancelled"}
EventType == {"created", "started", "retried", "succeeded", "failed", "cancelled", "restarted"}

Terminal == {"succeeded", "failed", "cancelled"}
Active == {"pending", "retry", "running"}

(* The pipeline engine names the execution of a node after the run and the node. *)
NodeIdempotencyKey(r, n) == <<r, n>>

Execution ==
  [name: TaskName, version: TaskVersion, key: IdempotencyKey \cup (Nat \X NodeKey) \cup {None},
   run: Nat, node: NodeKey \cup {None}, max: Nat \ {0},
   status: Status, attempt: Nat, availableAt: Nat, createdAt: Nat, finishedAt: Nat,
   token: Nat, leaseUntil: Nat, input: Inputs, output: Nat]

PipelineRun == [key: IdempotencyKey \cup {None}, status: RunStatus, revision: Nat, finishedAt: Nat]

Event == [type: EventType, attempt: Nat]

-----------------------------------------------------------------------------
(* NewMemoryStore: every map is empty. *)
Init ==
  /\ executions = << >> /\ events = << >>
  /\ idempotent = << >> /\ nodes = << >>
  /\ runs = << >> /\ runIdempotent = << >>
  /\ lastID = 0 /\ lastRun = 0
  /\ now = 1

(* time.Now() moves on between calls. *)
Tick ==
  /\ now < MaxTime
  /\ now' = now + 1
  /\ UNCHANGED <<executions, events, idempotent, nodes, runs, runIdempotent, lastID, lastRun>>

(* Assignment to a Go map: m with the entries of new put in, and a map of one entry. *)
Put(m, new) == [x \in DOMAIN m \cup DOMAIN new |-> IF x \in DOMAIN new THEN new[x] ELSE m[x]]
At(x, value) == [y \in {x} |-> value]

(* The zero instant stands for "now" wherever a caller leaves it out. *)
OrNow(instant) == IF instant = 0 THEN now ELSE instant

(* Stores the new values of some executions and appends one event to the log of each. *)
appendEvent(new, type) ==
  /\ \A i \in DOMAIN new : Len(events[i]) < MaxEvents
  /\ executions' = Put(executions, new)
  /\ events' = Put(events, [i \in DOMAIN new |->
                  Append(events[i], [type |-> type, attempt |-> new[i].attempt])])

Indexes == <<idempotent, nodes, runIdempotent, lastID, lastRun>>

-----------------------------------------------------------------------------
(* CreateExecution, when neither index knows the request.  Otherwise the   *)
(* existing execution is returned and nothing changes.                     *)
Faulty_NewExecution(request) ==   \* MaxAttempts is stored as it was passed
  [name |-> request.name, version |-> request.version, key |-> request.key,
   run |-> request.run, node |-> request.node, max |-> request.max,
   status |-> "pending", attempt |-> 0,
   availableAt |-> OrNow(request.availableAt), createdAt |-> now, finishedAt |-> 0,
   token |-> 0, leaseUntil |-> 0, input |-> request.input, output |-> 0]

NewExecution(request) ==
  [name |-> request.name, version |-> request.version, key |-> request.key,
   run |-> request.run, node |-> request.node,
   max |-> IF request.max <= 0 THEN 1 ELSE request.max,
   status |-> "pending", attempt |-> 0,
   availableAt |-> OrNow(request.availableAt), createdAt |-> now, finishedAt |-> 0,
   token |-> 0, leaseUntil |-> 0, input |-> request.input, output |-> 0]

CreateExecution(request) ==
  LET id == lastID + 1
      keyed == request.key # None
      noded == request.run # 0 /\ request.node # None
  IN
  /\ keyed => <<request.name, request.key>> \notin DOMAIN idempotent
  /\ noded => <<request.run, request.node>> \notin DOMAIN nodes
  /\ lastID < MaxExecutions
  /\ executions' = Put(executions, At(id, NewExecution(request)))
  /\ events' = Put(events, At(id, <<[type |-> "created", attempt |-> 0]>>))
  /\ idempotent' = IF keyed THEN Put(idempotent, At(<<request.name, request.key>>, id))
                            ELSE idempotent
  /\ nodes' = IF noded THEN Put(nodes, At(<<request.run, request.node>>, id)) ELSE nodes
  /\ lastID' = id
  /\ UNCHANGED <<runs, runIdempotent, lastRun, now>>

-----------------------------------------------------------------------------
(* Claim: due work of the advertised keys, oldest availability first.  An  *)
(* unstable sort breaks ties, so any batch that respects the order may be  *)
(* taken.                                                                  *)
Faulty_Expired(item) == item.leaseUntil <= now + 1   \* the last instant of a lease counts as over

Expired(item) == item.leaseUntil <= now

Claimable(item, keys) ==
  /\ <<item.name, item.version>> \in keys
  /\ item.availableAt <= now
  /\ \/ item.status \in {"pending", "retry"}
     \/ item.status = "running" /\ Expired(item)
  /\ item.attempt < item.max

Earlier(a, b) ==
  \/ a.availableAt < b.availableAt
  \/ a.availableAt = b.availableAt /\ a.createdAt < b.createdAt

FirstOf(batch, candidates, limit, Before(_, _)) ==
  /\ Cardinality(batch) = IF Cardinality(candidates) < limit THEN Cardinality(candidates) ELSE limit
  /\ \A c \in batch, d \in candidates \ batch : ~Before(d, c)

Leased(item, attempt, token, until) ==
  [item EXCEPT !.status = "running", !.attempt = attempt, !.token = token, !.leaseUntil = until]

Faulty_Deliver(i) ==   \* every delivery of an execution gets the same token
  Leased(executions[i], executions[i].attempt + 1, 2, now + Lease)

Deliver(i) ==
  Leased(executions[i], executions[i].attempt + 1, Len(events[i]) + 1, now + Lease)

Claim(keys, limit) ==
  LET candidates == {i \in DOMAIN executions : Claimable(executions[i], keys)} IN
  \E batch \in (SUBSET candidates) \ {{}} :
    /\ FirstOf(batch, candidates, IF limit <= 0 THEN 1 ELSE limit,
               LAMBDA i, j : Earlier(executions[i], executions[j]))
    /\ appendEvent([i \in batch |-> Deliver(i)], "started")
    /\ UNCHANGED <<Indexes, runs, now>>

-----------------------------------------------------------------------------
(* The worker's side of a delivery: every call presents the token Claim    *)
(* returned and is refused with ErrLeaseLost when it is not the current    *)
(* one.  The lease may be past its end: nothing checks LeaseUntil here.    *)
Faulty_owned(i, token) ==   \* the token is not compared
  /\ i \in DOMAIN executions
  /\ executions[i].status = "running"
  /\ token # 0

owned(i, token) ==
  /\ i \in DOMAIN executions
  /\ executions[i].status = "running"
  /\ token # 0
  /\ executions[i].token = token

Unleased(item) == [item EXCEPT !.token = 0, !.leaseUntil = 0]

Finished(item, status) == [Unleased(item) EXCEPT !.status = status, !.finishedAt = now]

Heartbeat(i, token) ==
  /\ owned(i, token)
  /\ executions' = [executions EXCEPT ![i].leaseUntil = now + Lease]
  /\ UNCHANGED <<events, Indexes, runs, now>>

Succeed(i, token) ==
  /\ owned(i, token)
  /\ appendEvent(At(i, [Finished(executions[i], "succeeded") EXCEPT !.output = token]), "succeeded")
  /\ UNCHANGED <<Indexes, runs, now>>

Fail(i, token) ==
  /\ owned(i, token)
  /\ appendEvent(At(i, Finished(executions[i], "failed")), "failed")
  /\ UNCHANGED <<Indexes, runs, now>>

Faulty_Retry(i, token, delay) ==   \* one attempt too many is scheduled
  /\ owned(i, token)
  /\ IF executions[i].attempt > executions[i].max
     THEN appendEvent(At(i, Finished(executions[i], "failed")), "failed")
     ELSE appendEvent(At(i, [Unleased(executions[i]) EXCEPT !.status = "retry",
                                                             !.availableAt = now + delay]), "retried")
  /\ UNCHANGED <<Indexes, runs, now>>

Retry(i, token, delay) ==
  /\ owned(i, token)
  /\ IF executions[i].attempt >= executions[i].max
     THEN appendEvent(At(i, Finished(executions[i], "failed")), "failed")
     ELSE appendEvent(At(i, [Unleased(executions[i]) EXCEPT !.status = "retry",
                                                             !.availableAt = now + delay]), "retried")
  /\ UNCHANGED <<Indexes, runs, now>>

(* ReapExpired fails every exhausted delivery whose lease ran out, in one call. *)
Faulty_Reapable(item) ==   \* an exhausted delivery is waited for once more
  item.status = "running" /\ Expired(item) /\ item.attempt > item.max

StaleReapable(item) == item.status = "running" /\ item.attempt >= item.max   \* the lease is not looked at

Reapable(item) == item.status = "running" /\ Expired(item) /\ item.attempt >= item.max

ReapExpired ==
  LET dead == {i \in DOMAIN executions : Reapable(executions[i])} IN
  /\ dead # {}
  /\ appendEvent([i \in dead |-> Finished(executions[i], "failed")], "failed")
  /\ UNCHANGED <<Indexes, runs, now>>

-----------------------------------------------------------------------------
(* Operator actions on one execution. *)
Faulty_CancelExecution(i) ==   \* finished work is cancelled too
  /\ i \in DOMAIN executions
  /\ appendEvent(At(i, Finished(executions[i], "cancelled")), "cancelled")
  /\ UNCHANGED <<Indexes, runs, now>>

CancelExecution(i) ==
  /\ i \in DOMAIN executions
  /\ executions[i].status \notin Terminal
  /\ appendEvent(At(i, Finished(executions[i], "cancelled")), "cancelled")
  /\ UNCHANGED <<Indexes, runs, now>>

Faulty_Reset(item, status, availableAt) ==   \* the attempts already made are kept
  [Unleased(item) EXCEPT !.status = status, !.availableAt = availableAt,
                         !.output = 0, !.finishedAt = 0]

StaleReset(item, status, availableAt) ==   \* the time of the earlier finish is kept
  [Unleased(item) EXCEPT !.status = status, !.attempt = 0, !.availableAt = availableAt, !.output = 0]

Reset(item, status, availableAt) ==
  [Unleased(item) EXCEPT !.status = status, !.attempt = 0, !.availableAt = availableAt,
                         !.output = 0, !.finishedAt = 0]

RestartExecution(i, availableAt) ==
  /\ i \in DOMAIN executions
  /\ executions[i].run = 0
  /\ executions[i].status \notin Active
  /\ appendEvent(At(i, Reset(executions[i], "pending", OrNow(availableAt))), "restarted")
  /\ UNCHANGED <<Indexes, runs, now>>

-----------------------------------------------------------------------------
(* Pipeline runs. *)
CreatePipelineRun(key) ==
  LET run == lastRun + 1 IN
  /\ key # None => key \notin DOMAIN runIdempotent
  /\ lastRun < MaxRuns
  /\ runs' = Put(runs, At(run, [key |-> key, status |-> "pending",
                             revision |-> 0, finishedAt |-> 0]))
  /\ runIdempotent' = IF key # None THEN Put(runIdempotent, At(key, run)) ELSE runIdempotent
  /\ lastRun' = run
  /\ UNCHANGED <<executions, events, idempotent, nodes, lastID, now>>

SetPipelineRunStatus(r, expectedRevision, status) ==
  /\ r \in DOMAIN runs
  /\ runs[r].revision = expectedRevision
  /\ runs[r].revision < MaxRevision
  /\ runs' = [runs EXCEPT ![r].status = status, ![r].revision = @ + 1,
                          ![r].finishedAt = IF status \in Terminal THEN now ELSE @]
  /\ UNCHANGED <<executions, events, Indexes, now>>

(* The node executions of a run that a restart of root resets. *)
Affected(r, root) ==
  {i \in DOMAIN executions : /\ executions[i].run = r
                             /\ executions[i].node \in {root} \cup Descendants[root]}

StaleRestartPipelineSubgraph(r, root, availableAt) ==   \* the run keeps its FinishedAt
  LET affected == Affected(r, root) IN
  /\ r \in DOMAIN runs
  /\ \A i \in affected : executions[i].status \notin Active
  /\ \E i \in affected : executions[i].node = root
  /\ runs[r].revision < MaxRevision
  /\ appendEvent([i \in affected |->
                    Reset(executions[i],
                          IF executions[i].node = root THEN "pending" ELSE "blocked",
                          OrNow(availableAt))], "restarted")
  /\ runs' = [runs EXCEPT ![r].status = "running", ![r].revision = @ + 1]
  /\ UNCHANGED <<Indexes, now>>

RestartPipelineSubgraph(r, root, availableAt) ==
  LET affected == Affected(r, root) IN
  /\ r \in DOMAIN runs
  /\ \A i \in affected : executions[i].status \notin Active
  /\ \E i \in affected : executions[i].node = root
  /\ runs[r].revision < MaxRevision
  /\ appendEvent([i \in affected |->
                    Reset(executions[i],
                          IF executions[i].node = root THEN "pending" ELSE "blocked",
                          OrNow(availableAt))], "restarted")
  /\ runs' = [runs EXCEPT ![r].status = "running", ![r].revision = @ + 1, ![r].finishedAt = 0]
  /\ UNCHANGED <<Indexes, now>>

(* Unlike every other transition, a release appends no event. *)
ReleaseExecution(i, input, availableAt) ==
  /\ i \in DOMAIN executions
  /\ executions[i].status = "blocked"
  /\ executions' = [executions EXCEPT ![i].status = "pending", ![i].input = input,
                                      ![i].availableAt = OrNow(availableAt)]
  /\ UNCHANGED <<events, Indexes, runs, now>>

-----------------------------------------------------------------------------
(* Purge: the oldest finished runs, with all their executions, and the     *)
(* oldest finished standalone executions, up to limit objects.             *)
PurgeCandidates(before) ==
  {[id |-> r, pipeline |-> TRUE, finished |-> runs[r].finishedAt] :
     r \in {s \in DOMAIN runs : runs[s].finishedAt # 0 /\ runs[s].finishedAt < before}}
  \cup
  {[id |-> i, pipeline |-> FALSE, finished |-> executions[i].finishedAt] :
     i \in {j \in DOMAIN executions : /\ executions[j].run = 0
                                      /\ executions[j].finishedAt # 0
                                      /\ executions[j].finishedAt < before}}

Faulty_deleteExecution(dead) ==   \* the node index keeps the deleted node
  /\ executions' = Restrict(executions, DOMAIN executions \ dead)
  /\ events' = Restrict(events, DOMAIN events \ dead)
  /\ idempotent' = Restrict(idempotent, DOMAIN idempotent \
                     {<<executions[i].name, executions[i].key>> : i \in dead})
  /\ UNCHANGED nodes

StaledeleteExecution(dead) ==   \* the event log outlives its execution
  /\ executions' = Restrict(executions, DOMAIN executions \ dead)
  /\ UNCHANGED events
  /\ idempotent' = Restrict(idempotent, DOMAIN idempotent \
                     {<<executions[i].name, executions[i].key>> : i \in dead})
  /\ nodes' = Restrict(nodes, DOMAIN nodes \
                {<<executions[i].run, executions[i].node>> : i \in dead})

deleteExecution(dead) ==
  /\ executions' = Restrict(executions, DOMAIN executions \ dead)
  /\ events' = Restrict(events, DOMAIN events \ dead)
  /\ idempotent' = Restrict(idempotent, DOMAIN idempotent \
                     {<<executions[i].name, executions[i].key>> : i \in dead})
  /\ nodes' = Restrict(nodes, DOMAIN nodes \
                {<<executions[i].run, executions[i].node>> : i \in dead})

Purge(before, limit) ==
  LET candidates == PurgeCandidates(before) IN
  \E batch \in (SUBSET candidates) \ {{}} :
    LET deadRuns == {c.id : c \in {b \in batch : b.pipeline}}
        dead == {i \in DOMAIN executions :
                   IF executions[i].run # 0 THEN executions[i].run \in deadRuns
                   ELSE \E c \in batch : ~c.pipeline /\ c.id = i}
    IN
    /\ FirstOf(batch, candidates, IF limit <= 0 THEN 1000 ELSE limit,
               LAMBDA c, d : c.finished < d.finished)
    /\ deleteExecution(dead)
    /\ runs' = Restrict(runs, DOMAIN runs \ deadRuns)
    /\ runIdempotent' = Restrict(runIdempotent, DOMAIN runIdempotent \
                          {runs[r].key : r \in deadRuns})
    /\ UNCHANGED <<lastID, lastRun, now>>

-----------------------------------------------------------------------------
(* The callers.  Standalone work comes from task.Enqueue, node executions  *)
(* from the pipeline engine, for a run that existed when the engine looked.*)
EnqueueRequest ==
  [name: TaskName, version: TaskVersion, key: IdempotencyKey \cup {None}, max: MaxAttempts,
   availableAt: {0} \cup {now + d : d \in Delays}, run: {0}, node: {None}, input: Inputs]

NodeRequest ==
  {request \in [name: TaskName, version: TaskVersion, key: (1..lastRun) \X NodeKey,
                max: NodeAttempts, availableAt: {0}, run: 1..lastRun, node: NodeKey, input: Inputs] :
     request.key = NodeIdempotencyKey(request.run, request.node)}

(* The deliveries ever made of an execution: the places of its "started" events. *)
Deliveries(i) == {k \in 1..Len(events[i]) : events[i][k].type = "started"}

(* A worker may present the token of any delivery it was ever given. *)
WorkerCall ==
  \E i \in DOMAIN executions : \E token \in Deliveries(i) :
    \/ Heartbeat(i, token)
    \/ Succeed(i, token)
    \/ Fail(i, token)
    \/ \E delay \in Delays : Retry(i, token, delay)

(* An instant of the model is longer than time.Now()'s: a purge may take   *)
(* what finished earlier in the current one, the cutoff is then now + 1.   *)
OperatorCall ==
  \/ \E i \in DOMAIN executions : CancelExecution(i) \/ RestartExecution(i, 0)
  \/ \E limit \in Limits, before \in 1..(now + 1) : Purge(before, limit)

(* Advance leaves a finished run alone, Cancel does not look (engine.go:104, engine.go:281). *)
PipelineCall ==
  \/ \E key \in IdempotencyKey \cup {None} : CreatePipelineRun(key)
  \/ \E r \in DOMAIN runs :
       \/ \E status \in IF runs[r].status \in Terminal THEN {"cancelled"} ELSE RunStatus \ {"pending"} :
            SetPipelineRunStatus(r, runs[r].revision, status)
       \/ \E root \in NodeKey : RestartPipelineSubgraph(r, root, 0)
  \/ \E i \in DOMAIN executions, input \in Inputs, availableAt \in 0..now :
       ReleaseExecution(i, input, availableAt)

Next ==
  \/ Tick
  \/ \E request \in EnqueueRequest \cup NodeRequest : CreateExecution(request)
  \/ \E keys \in SUBSET (TaskName \X TaskVersion), limit \in Limits : Claim(keys, limit)
  \/ ReapExpired
  \/ WorkerCall
  \/ OperatorCall
  \/ PipelineCall

Spec == Init /\ [][Next]_vars

-----------------------------------------------------------------------------
(* Type invariant: the maps hold well-formed values under identifiers that were handed out. *)
TypeOK ==
  /\ DOMAIN executions \subseteq 1..lastID
  /\ \A i \in DOMAIN executions : executions[i] \in Execution
  /\ DOMAIN events = DOMAIN executions
  /\ \A i \in DOMAIN events : events[i] \in Seq(Event)
  /\ DOMAIN runs \subseteq 1..lastRun
  /\ \A r \in DOMAIN runs : runs[r] \in PipelineRun
  /\ lastID \in Nat /\ lastRun \in Nat
  /\ now \in Nat \ {0}

(* The legal successor of an event.  A start counts one attempt on, an     *)
(* outcome belongs to the attempt that produced it, a cancellation never   *)
(* follows an outcome, and only a restart does.                            *)
Follows(a, b) ==
  \/ /\ b.type = "started" /\ b.attempt = a.attempt + 1
     /\ a.type \in {"created", "restarted", "retried", "started"}
  \/ /\ b.type \in {"retried", "succeeded", "failed"} /\ b.attempt = a.attempt
     /\ a.type = "started"
  \/ /\ b.type = "cancelled" /\ b.attempt = a.attempt
     /\ a.type \notin {"succeeded", "failed", "cancelled"}
  \/ /\ b.type = "restarted" /\ b.attempt = 0
     /\ a.type \in {"succeeded", "failed", "cancelled", "restarted"}

(* The statuses of an execution of this run whose last event is of this    *)
(* type.  The log does not tell a node a restart has blocked from one that *)
(* was released since: ReleaseExecution appends no event.                  *)
StatusesAfter(type, run) ==
  CASE type = "created" -> {"pending"}
    [] type = "restarted" -> IF run = 0 THEN {"pending"} ELSE {"pending", "blocked"}
    [] type = "started" -> {"running"}
    [] type = "retried" -> {"retry"}
    [] OTHER -> {type}

(* A log that is a legal life of an execution and ends where it is. *)
Replays(item, log) ==
  /\ Len(log) >= 1
  /\ log[1] = [type |-> "created", attempt |-> 0]
  /\ \A k \in 1..(Len(log) - 1) : Follows(log[k], log[k + 1])
  /\ item.status \in StatusesAfter(log[Len(log)].type, item.run)
  /\ item.attempt = log[Len(log)].attempt

(* The log of every execution is a legal life from its creation on, and    *)
(* replaying it gives the stored attempt and the stored status, whatever   *)
(* the interleaving of claims, outcomes, reaps, cancellations and restarts *)
(* (appendEvent and every caller of it).  Only of a node that was restarted*)
(* and not started since does the log leave open whether it is blocked or  *)
(* already released: see EveryChangeIsLogged.                              *)
LogReplaysToState == \A i \in DOMAIN executions : Replays(executions[i], events[i])

(* docs/configuration.md:99 says that every change of state adds an event  *)
(* to the append-only log: what is in the log stays, and no step changes   *)
(* the status of an execution without adding to it.                        *)
EveryChangeIsLogged ==
  [][\A i \in DOMAIN executions \cap DOMAIN executions' :
       /\ SubSeq(events'[i], 1, Len(events[i])) = events[i]
       /\ executions'[i].status # executions[i].status => events'[i] # events[i]]_vars

(* A running execution is leased to its newest delivery and to no other,   *)
(* nothing else holds a token, and the output of a succeeded execution was *)
(* written by its newest delivery: the late result of a superseded handler *)
(* is never stored (owned, and every transition that clears the lease).    *)
ResultOfNewestDelivery ==
  \A i \in DOMAIN executions :
    LET item == executions[i]
        newest(k) == k \in Deliveries(i) /\ \A d \in Deliveries(i) : d <= k
    IN
    /\ item.status = "running" => newest(item.token)
    /\ item.status # "running" => item.token = 0
    /\ item.status = "succeeded" => newest(item.output)
    /\ item.status # "succeeded" => item.output = 0

(* Claim skips exhausted executions and ReapExpired takes only exhausted   *)
(* ones: every unfinished execution that is due, or whose lease ran out,   *)
(* is wanted by exactly one of them, so none is stranded and none is both  *)
(* redelivered and failed (memory.go:159 against memory.go:197).           *)
NeverStranded ==
  \A i \in DOMAIN executions :
    LET item == executions[i] IN
    \/ item.status \in {"pending", "retry"} /\ item.availableAt <= now
    \/ item.status = "running" /\ Expired(item)
    => (Claimable(item, {<<item.name, item.version>>}) <=> ~Reapable(item))

(* The uniqueness indexes hold exactly the live executions that carry a    *)
(* key or a node, and the live runs that carry a key, so two live          *)
(* executions never share a (task, key) or a (run, node) and two live runs *)
(* never share a key, through creation, restart and purge.                 *)
IndexesAgree ==
  /\ \A i \in DOMAIN executions :
       LET item == executions[i] IN
       /\ item.key # None => /\ <<item.name, item.key>> \in DOMAIN idempotent
                             /\ idempotent[<<item.name, item.key>>] = i
       /\ item.run # 0 => /\ <<item.run, item.node>> \in DOMAIN nodes
                          /\ nodes[<<item.run, item.node>>] = i
  /\ \A k \in DOMAIN idempotent :
       /\ idempotent[k] \in DOMAIN executions
       /\ k = <<executions[idempotent[k]].name, executions[idempotent[k]].key>>
       /\ executions[idempotent[k]].key # None
  /\ \A k \in DOMAIN nodes :
       /\ nodes[k] \in DOMAIN executions
       /\ k = <<executions[nodes[k]].run, executions[nodes[k]].node>>
       /\ executions[nodes[k]].run # 0
  /\ \A r \in DOMAIN runs :
       runs[r].key # None => runs[r].key \in DOMAIN runIdempotent /\ runIdempotent[runs[r].key] = r
  /\ \A k \in DOMAIN runIdempotent :
       runIdempotent[k] \in DOMAIN runs /\ runs[runIdempotent[k]].key = k /\ k # None

(* Purge reads only FinishedAt, so a standalone execution that is deleted  *)
(* must be terminal at that moment, however often it was restarted after   *)
(* an earlier finish (memory.go:567, memory.go:314).                       *)
PurgeTakesOnlyTerminal ==
  [][\A i \in DOMAIN executions \ DOMAIN executions' :
       executions[i].run = 0 => executions[i].status \in Terminal]_vars

(* A terminal execution keeps its outcome until it is purged or restarted  *)
(* from scratch: no late worker call, reap or cancellation rewrites it.    *)
TerminalIsFinal ==
  [][\A i \in DOMAIN executions \cap DOMAIN executions' :
       executions[i].status \in Terminal =>
         \/ executions'[i] = executions[i]
         \/ /\ executions'[i].status \in {"pending", "blocked"}
            /\ executions'[i].attempt = 0]_vars

(* Fencing: a delivery that lost its lease never owns the execution again, *)
(* not even after a restart (uuid.New in Claim, owned).                    *)
LostLeaseStaysLost ==
  [][\A i \in DOMAIN executions \cap DOMAIN executions' :
       \A token \in Deliveries(i) : ~owned(i, token) => ~owned(i, token)']_vars

(* The executions as the contract of the stores sees them. *)
Lives ==
  [i \in DOMAIN executions |->
     LET item == executions[i] IN
     [run |-> item.run,
      status |-> item.status, attempt |-> item.attempt, max |-> item.max,
      deliveries |-> Deliveries(i), holder |-> item.token, until |-> item.leaseUntil,
      output |-> item.output]]

Contract == INSTANCE ExecutionContract WITH lives <- Lives, clock <- now

(* The store implements the contract of execution/store.go: each of its    *)
(* methods moves every execution it touches by one legal step, so work is  *)
(* taken from a holder only after the end of its lease, a token is handed  *)
(* out once, an outcome is the outcome of the newest delivery, and what is *)
(* not part of a run is deleted only when it is over.                      *)
ImplementsContract == Contract!Spec

=============================================================================
