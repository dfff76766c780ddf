---------------------------- MODULE PipelineEngine ----------------------------
(***************************************************************************)
(* The pipeline engine (pipeline/engine.go) on top of the store.           *)
(*                                                                         *)
(* The engine keeps nothing in memory between calls: every Advance reads   *)
(* the run, lists its node executions, and writes what follows with one    *)
(* store call after another.  Each coordinator (a worker loop, a client, a *)
(* monitoring handler) is one caller of the engine, and what it has read   *)
(* so far is its entry of calls.  One store call is one step, so the calls *)
(* of other coordinators, the workers and the operator fall between any    *)
(* two of them, and a process may crash between any two of them.           *)
(***************************************************************************)
EXTENDS MemoryStore

CONSTANTS
  Coordinator,         \* the concurrent callers of the engine
  Nodes,               \* the definition: its node keys in declaration order
  Dependencies,        \* node key -> the keys it depends on
  NodeTask,            \* node key -> the task and MaxAttempts of its executions
  BrokenMappers,       \* the nodes whose mapper may fail or panic
  RestartFrom,         \* the statuses of the nodes an operator restarts
  MaxDisturbances      \* bound on cancels, restarts, purges and crashes together

ASSUME DefinitionAssumption ==
  /\ Nodes \in Seq(NodeKey)
  /\ Range(Nodes) = NodeKey
  /\ Dependencies \in [NodeKey -> SUBSET NodeKey]
  /\ BrokenMappers \subseteq NodeKey
  /\ RestartFrom \subseteq Status
  /\ NodeTask \in [NodeKey -> [name: TaskName, version: TaskVersion, max: NodeAttempts]]
  /\ \A n \in NodeKey : [Dependencies[n] -> 0..MaxEvents] \subseteq Inputs
  /\ 1 \in Limits
  /\ MaxDisturbances \in Nat

VARIABLES
  calls,         \* coordinator -> the engine call it is in the middle of
  disturbances   \* how many times an operator or a crash intervened

engineVars == <<vars, calls, disturbances>>

-----------------------------------------------------------------------------
(* A call in progress: where it is, what it read and what it still has to do. *)
Absent == [id |-> 0, status |-> "absent", output |-> 0, availableAt |-> 0]

NoCall ==
  [pc |-> "idle", run |-> 0, revision |-> 0, pending |-> FALSE,
   byNode |-> [n \in NodeKey |-> Absent],  \* the node executions as they were listed
   index |-> 0,                            \* the node the loop of advanceOnce is at
   left |-> {},                            \* the executions Cancel has yet to cancel
   created |-> FALSE, status |-> "pending", tries |-> 0]

EngineInit ==
  /\ Init
  /\ calls = [c \in Coordinator |-> NoCall]
  /\ disturbances = 0

Continue(c, call) == calls' = [calls EXCEPT ![c] = call]

Advance(r, tries) == [NoCall EXCEPT !.pc = "get", !.run = r, !.tries = tries]

(* SetPipelineRunStatus with the revision the call has read. *)
Decide(call, status) ==
  [NoCall EXCEPT !.pc = "set", !.run = call.run, !.revision = call.revision,
                 !.status = status, !.tries = call.tries]

(* What ListRunExecutions returns, by node key. *)
NodesOf(r) == {i \in DOMAIN executions : executions[i].run = r}

Snapshot(r) ==
  [n \in NodeKey |->
     IF \E j \in NodesOf(r) : executions[j].node = n
     THEN LET i == CHOOSE j \in NodesOf(r) : executions[j].node = n IN
          [id |-> i, status |-> executions[i].status, output |-> executions[i].output,
           availableAt |-> executions[i].availableAt]
     ELSE Absent]

Faulty_Ready(byNode, n) ==   \* a dependency that was started is enough
  \A d \in Dependencies[n] : byNode[d].status # "absent"

Ready(byNode, n) == \A d \in Dependencies[n] : byNode[d].status = "succeeded"

Faulty_Schedulable(byNode, n) ==   \* blocked nodes are taken for existing ones
  byNode[n].status = "absent" /\ Ready(byNode, n)

Schedulable(byNode, n) == byNode[n].status \in {"absent", "blocked"} /\ Ready(byNode, n)

Faulty_AllSucceeded(byNode) ==   \* nodes without an execution are not missed
  /\ \E n \in NodeKey : byNode[n].status = "succeeded"
  /\ \A n \in NodeKey : byNode[n].status \in {"succeeded", "absent"}

AllSucceeded(byNode) == \A n \in NodeKey : byNode[n].status = "succeeded"

(* The loop over the nodes is done: what the run becomes, if anything. *)
Settle(call) ==
  IF AllSucceeded(call.byNode) THEN Decide(call, "succeeded")
  ELSE IF call.created \/ call.pending THEN Decide(call, "running")
  ELSE NoCall

(* Goes on with the loop after the first index nodes: to the next node     *)
(* that Advance creates or releases, in declaration order.                 *)
Faulty_Proceed(c, call, index) ==   \* the node after this one is taken without a look
  Continue(c, IF index = Len(Nodes) THEN Settle(call) ELSE [call EXCEPT !.pc = "nodes", !.index = index + 1])

Proceed(c, call, index) ==
  LET next == {k \in (index + 1)..Len(Nodes) : Schedulable(call.byNode, Nodes[k])} IN
  \/ next = {} /\ Continue(c, Settle(call))
  \/ \E k \in next : /\ \A j \in next : k <= j
                     /\ Continue(c, [call EXCEPT !.pc = "nodes", !.index = k])

-----------------------------------------------------------------------------
(* advanceOnce, first call: GetPipelineRun. *)
GetRun(c) ==
  LET call == calls[c] IN
  /\ call.pc = "get"
  /\ Continue(c, IF call.run \notin DOMAIN runs \/ runs[call.run].status \in Terminal
                 THEN NoCall
                 ELSE [call EXCEPT !.pc = "list", !.revision = runs[call.run].revision,
                                   !.pending = (runs[call.run].status = "pending")])
  /\ UNCHANGED <<vars, disturbances>>

(* Second call: ListRunExecutions, and everything decided from its result. *)
ListNodes(c) ==
  LET call == calls[c]
      byNode == Snapshot(call.run)
      broken == \E n \in NodeKey : byNode[n].status \in {"failed", "cancelled"}
  IN
  /\ call.pc = "list"
  /\ \/ broken /\ Continue(c, Decide(call, "failed"))
     \/ ~broken /\ Proceed(c, [call EXCEPT !.byNode = byNode], 0)
  /\ UNCHANGED <<vars, disturbances>>

(* The mapper of the next node fails: the run fails. *)
FailBuild(c) ==
  LET call == calls[c] IN
  /\ call.pc = "nodes"
  /\ Nodes[call.index] \in BrokenMappers
  /\ Continue(c, Decide(call, "failed"))
  /\ UNCHANGED <<vars, disturbances>>

BuildInput(byNode, n) == [d \in Dependencies[n] |-> byNode[d].output]

Scheduled(c) == Proceed(c, [calls[c] EXCEPT !.created = TRUE], calls[c].index)

(* The next node has no execution in the snapshot: CreateExecution, which  *)
(* returns the existing one when another coordinator was faster.           *)
CreateNode(c) ==
  LET call == calls[c]
      n == Nodes[call.index]
      request == [name |-> NodeTask[n].name, version |-> NodeTask[n].version,
                  max |-> NodeTask[n].max, key |-> NodeIdempotencyKey(call.run, n), availableAt |-> 0,
                  run |-> call.run, node |-> n, input |-> BuildInput(call.byNode, n)]
      exists == \/ <<request.name, request.key>> \in DOMAIN idempotent
                \/ <<call.run, n>> \in DOMAIN nodes
  IN
  /\ call.pc = "nodes"
  /\ call.byNode[n].status = "absent"
  /\ \/ exists /\ UNCHANGED vars
     \/ ~exists /\ CreateExecution(request)
  /\ Scheduled(c)
  /\ UNCHANGED disturbances

(* The next node is blocked in the snapshot: ReleaseExecution, whose       *)
(* ErrActive or ErrNotFound ends the whole Advance.                        *)
ReleaseNode(c) ==
  LET call == calls[c]
      n == Nodes[call.index]
      i == call.byNode[n].id
      blocked == i \in DOMAIN executions /\ executions[i].status = "blocked"
  IN
  /\ call.pc = "nodes"
  /\ call.byNode[n].status = "blocked"
  /\ \/ /\ blocked
        /\ ReleaseExecution(i, BuildInput(call.byNode, n), call.byNode[n].availableAt)
        /\ Scheduled(c)
     \/ /\ ~blocked
        /\ UNCHANGED vars
        /\ Continue(c, NoCall)
  /\ UNCHANGED disturbances

Faulty_SetStatus(c) ==   \* the revision is not compared
  LET call == calls[c] IN
  /\ call.pc = "set"
  /\ \/ /\ call.run \in DOMAIN runs
        /\ SetPipelineRunStatus(call.run, runs[call.run].revision, call.status)
     \/ call.run \notin DOMAIN runs /\ UNCHANGED vars
  /\ Continue(c, NoCall)
  /\ UNCHANGED disturbances

(* Last call: the compare-and-set.  ErrConflict makes Advance start over,  *)
(* four times at most; Cancel gives up at once.                            *)
SetStatus(c) ==
  LET call == calls[c]
      current == call.run \in DOMAIN runs /\ runs[call.run].revision = call.revision
      conflict == call.run \in DOMAIN runs /\ runs[call.run].revision # call.revision
  IN
  /\ call.pc = "set"
  /\ \/ /\ current
        /\ SetPipelineRunStatus(call.run, call.revision, call.status)
        /\ Continue(c, NoCall)
     \/ /\ ~current
        /\ UNCHANGED vars
        /\ Continue(c, IF conflict /\ call.status # "cancelled" /\ call.tries < 4
                       THEN Advance(call.run, call.tries + 1) ELSE NoCall)
  /\ UNCHANGED disturbances

-----------------------------------------------------------------------------
(* Cancel: read the run, list its nodes, cancel the unfinished ones one by *)
(* one, then set the run's status.                                         *)
Disturb ==
  /\ disturbances < MaxDisturbances
  /\ disturbances' = disturbances + 1

BeginCancel(c, r) ==
  /\ calls[c].pc = "idle"
  /\ Disturb
  /\ Continue(c, [NoCall EXCEPT !.pc = "cancelList", !.run = r, !.revision = runs[r].revision])
  /\ UNCHANGED vars

CancelNext(call, left) ==
  IF left = {} THEN Decide(call, "cancelled") ELSE [call EXCEPT !.pc = "cancel", !.left = left]

ListToCancel(c) ==
  LET call == calls[c]
      unfinished == {i \in NodesOf(call.run) : executions[i].status \in Active}
  IN
  /\ call.pc = "cancelList"
  /\ Continue(c, CancelNext(call, {[id |-> i, createdAt |-> executions[i].createdAt] : i \in unfinished}))
  /\ UNCHANGED <<vars, disturbances>>

(* One round of the loop, in the order the executions were listed in. *)
CancelNode(c) ==
  LET call == calls[c] IN
  /\ call.pc = "cancel"
  /\ \E item \in call.left :
       LET live == item.id \in DOMAIN executions /\ executions[item.id].status \notin Terminal IN
       /\ \A other \in call.left : item.createdAt <= other.createdAt
       /\ \/ live /\ CancelExecution(item.id) /\ Continue(c, CancelNext(call, call.left \ {item}))
          \/ ~live /\ UNCHANGED vars /\ Continue(c, NoCall)
  /\ UNCHANGED disturbances

-----------------------------------------------------------------------------
(* Run: persist the invocation and advance it. *)
Run(c, key) ==
  /\ calls[c].pc = "idle"
  /\ CreatePipelineRun(key)
  /\ Continue(c, Advance(lastRun + 1, 1))
  /\ UNCHANGED disturbances

(* Reconcile, or the Advance of a worker after one of its executions ended. *)
Reconcile(c, r) ==
  /\ calls[c].pc = "idle"
  /\ r \in DOMAIN runs
  /\ runs[r].status \notin Terminal
  /\ Continue(c, Advance(r, 1))
  /\ UNCHANGED <<vars, disturbances>>

(* RestartExecution of a pipeline node: what it reads first never changes, *)
(* then the store resets the subgraph and the run is advanced.             *)
Restart(c, i) ==
  LET item == executions[i] IN
  /\ calls[c].pc = "idle"
  /\ item.run # 0 /\ item.node \in NodeKey
  /\ item.status \in RestartFrom
  /\ Disturb
  /\ RestartPipelineSubgraph(item.run, item.node, 0)
  /\ Continue(c, Advance(item.run, 1))

(* The process of a coordinator dies: what it had read is lost. *)
Crash(c) ==
  /\ calls[c].pc # "idle"
  /\ Disturb
  /\ Continue(c, NoCall)
  /\ UNCHANGED vars

-----------------------------------------------------------------------------
EngineStep(c) ==
  \/ GetRun(c) \/ ListNodes(c) \/ FailBuild(c) \/ CreateNode(c) \/ ReleaseNode(c) \/ SetStatus(c)
  \/ ListToCancel(c) \/ CancelNode(c)

(* Workers claim and resolve node executions, and the operator purges and cancels. *)
ClaimNode == Claim(TaskName \X TaskVersion, 1) /\ UNCHANGED <<calls, disturbances>>

Resolve(i) ==
  /\ \E token \in Deliveries(i) :
       \/ Succeed(i, token)
       \/ Fail(i, token)
       \/ \E delay \in Delays : Retry(i, token, delay)
  /\ UNCHANGED <<calls, disturbances>>

Operator ==
  /\ Disturb
  /\ \/ \E i \in DOMAIN executions : CancelExecution(i)
     \/ \E limit \in Limits : Purge(now + 1, limit)   \* whatever has finished so far
  /\ UNCHANGED calls

(* Time matters only while a lease or an availability lies ahead. *)
Pass ==
  /\ \E i \in DOMAIN executions : /\ executions[i].status \in Active
                                  /\ executions[i].leaseUntil > now \/ executions[i].availableAt > now
  /\ Tick

EngineNext ==
  \/ \E c \in Coordinator :
       \/ EngineStep(c)
       \/ Run(c, None)
       \/ \E r \in DOMAIN runs : Reconcile(c, r) \/ BeginCancel(c, r)
       \/ \E i \in DOMAIN executions : Restart(c, i)
       \/ Crash(c)
  \/ ClaimNode
  \/ \E i \in DOMAIN executions : Resolve(i)
  \/ (Pass \/ ReapExpired) /\ UNCHANGED <<calls, disturbances>>
  \/ Operator

EngineSpec == EngineInit /\ [][EngineNext]_engineVars

(* The engine, the workers and the operator use the store only as its own  *)
(* specification allows: in particular no coordinator writes the status of *)
(* a run that finished since it was read, except to cancel it.             *)
StoreContract == Spec

(* A worker loop that finds nothing to claim reconciles every unfinished   *)
(* run before it polls again (worker.go:206), a coordinator that does not  *)
(* crash gets its answer from the store, and a worker that is handed work  *)
(* resolves it: the handler returns, or times out.                         *)
FairEngineSpec ==
  /\ EngineSpec
  /\ \A c \in Coordinator : WF_engineVars(EngineStep(c))
  /\ \A r \in 1..MaxRuns : SF_engineVars(\E c \in Coordinator : Reconcile(c, r))
  /\ WF_engineVars(ClaimNode)
  /\ \A i \in 1..MaxExecutions : WF_engineVars(i \in DOMAIN executions /\ Resolve(i))

-----------------------------------------------------------------------------
(* Type invariant: what a call holds is what its next step needs. *)
Seen == [id: Nat, status: Status \cup {"absent"}, output: 0..MaxEvents, availableAt: Nat]

Call ==
  [pc: {"idle", "get", "list", "nodes", "set", "cancelList", "cancel"},
   run: Nat, revision: Nat, pending: BOOLEAN, byNode: [NodeKey -> Seen], index: Nat,
   left: SUBSET [id: Nat, createdAt: Nat], created: BOOLEAN, status: RunStatus, tries: 0..4]

EngineTypeOK ==
  /\ disturbances \in Nat
  /\ calls \in [Coordinator -> Call]
  /\ \A c \in Coordinator :
       LET call == calls[c] IN
       /\ call.pc # "idle" => call.run \in 1..lastRun
       /\ call.pc = "nodes" => /\ call.index \in 1..Len(Nodes)
                               /\ Schedulable(call.byNode, Nodes[call.index])
       /\ call.pc = "set" => call.status # "pending"
       /\ call.pc = "cancel" => call.left # {}

NodeStatus(r, n, statuses) ==
  \E i \in NodesOf(r) : executions[i].node = n /\ executions[i].status \in statuses

(* A run is succeeded only while every node of its definition is, and      *)
(* failed only while a node is failed or cancelled or cannot be built,     *)
(* although both were decided from a snapshot that workers, restarts and   *)
(* other coordinators have outrun (advanceOnce, SetPipelineRunStatus).     *)
RunStatusEarned ==
  \A r \in DOMAIN runs :
    /\ runs[r].status = "succeeded" => \A n \in NodeKey : NodeStatus(r, n, {"succeeded"})
    /\ runs[r].status = "failed" =>
         \/ \E n \in NodeKey : NodeStatus(r, n, {"failed", "cancelled"})
         \/ \E n \in BrokenMappers : \A d \in Dependencies[n] : NodeStatus(r, d, {"succeeded"})

(* A finished run is left only by a restart, which resets one of its nodes *)
(* in the same step, or by a cancellation: a coordinator that read the run *)
(* before it finished never overwrites the outcome (engine.go:104, the     *)
(* revision check in SetPipelineRunStatus).                                *)
OutcomeKept ==
  [][\A r \in DOMAIN runs \cap DOMAIN runs' :
       runs[r].status \in Terminal /\ runs'[r].status # runs[r].status =>
         \/ runs'[r].status = "cancelled"
         \/ \E i \in NodesOf(r) : executions[i].status \notin Active
                                 /\ executions'[i].status = "pending"]_engineVars

(* As long as nothing of a run was restarted or purged, a node has an      *)
(* execution only when all its dependencies succeeded, and its input was   *)
(* built from the outputs they have stored, whichever coordinator created  *)
(* it.  (A coordinator that is outrun by a purge leaves an orphan.)        *)
Restarted(i) == \E k \in 1..Len(events[i]) : events[i][k].type = "restarted"

InputOf(i, n) ==
  \A d \in Dependencies[n] :
    \E j \in NodesOf(executions[i].run) : /\ executions[j].node = d
                                         /\ executions[j].status = "succeeded"
                                         /\ executions[i].input[d] = executions[j].output

NodesFollowDependencies ==
  \A i \in DOMAIN executions :
    executions[i].run \in DOMAIN runs /\ (\A j \in NodesOf(executions[i].run) : ~Restarted(j))
      => InputOf(i, executions[i].node)

(* engine.go:189: "Pipeline descendants remain blocked until their rebuilt *)
(* dependencies succeed."  No node is waiting for a worker or running      *)
(* while a dependency of it has yet to deliver the output it works on.     *)
BlockedUntilRebuilt ==
  \A i \in DOMAIN executions : executions[i].status \in Active => InputOf(i, executions[i].node)

(* operations.md:83: a purge deletes terminal pipeline runs only.  Purge   *)
(* looks at FinishedAt alone, which SetPipelineRunStatus sets and a        *)
(* restart has to clear.                                                   *)
PurgedRunsWereFinished ==
  [][\A r \in DOMAIN runs \ DOMAIN runs' : runs[r].status \in Terminal]_engineVars

(* Every run ends, or is purged: whatever a crash, a lost race, a failed   *)
(* release or a restart leaves behind, a later Advance completes it.       *)
RunsFinish ==
  \A r \in 1..MaxRuns :
    (r \in DOMAIN runs) ~> (r \notin DOMAIN runs \/ runs[r].status \in Terminal)

=============================================================================
