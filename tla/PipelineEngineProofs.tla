------------------------- MODULE PipelineEngineProofs -------------------------
(***************************************************************************)
(* Proofs about PipelineEngine.  The engine decides from what it has read, *)
(* so the invariant says of every call in progress what is still true of   *)
(* the state it was read in: the revision it holds is never ahead of the   *)
(* run, and as long as the two are equal (or nothing of the run was        *)
(* restarted) the outcomes it saw are the outcomes that are stored.        *)
(***************************************************************************)
EXTENDS PipelineEngine, MemoryStoreProofs

(* What a state with executions es, logs lg and runs rs says of a run. *)
HasNode(es, r, n, statuses) ==
  \E i \in DOMAIN es : es[i].run = r /\ es[i].node = n /\ es[i].status \in statuses

Delivers(es, r, n, output) ==
  \E i \in DOMAIN es : /\ es[i].run = r /\ es[i].node = n
                       /\ es[i].status = "succeeded" /\ es[i].output = output

Earned(es, r, status) ==
  /\ status = "succeeded" => \A n \in NodeKey : HasNode(es, r, n, {"succeeded"})
  /\ status = "failed" =>
       \/ \E n \in NodeKey : HasNode(es, r, n, {"failed", "cancelled"})
       \/ \E n \in BrokenMappers : \A d \in Dependencies[n] : HasNode(es, r, d, {"succeeded"})

Untouched(es, lg, r) ==
  \A i \in DOMAIN es : es[i].run = r => \A k \in 1..Len(lg[i]) : lg[i][k].type # "restarted"

(* What a call may still rely on. *)
Current(call, rs) == call.run \in DOMAIN rs /\ rs[call.run].revision = call.revision

Fresh(call, rs) == call.run \in DOMAIN rs => call.revision <= rs[call.run].revision

Undecided(call, rs) == Current(call, rs) => rs[call.run].status \notin Terminal

Backed(call, es, lg, rs) ==
  Current(call, rs) \/ (call.run \in DOMAIN rs /\ Untouched(es, lg, call.run)) =>
    \A n \in NodeKey : call.byNode[n].status = "succeeded" =>
                         Delivers(es, call.run, n, call.byNode[n].output)

Informed(call, es, lg, rs, t) ==
  /\ Fresh(call, rs) /\ Undecided(call, rs) /\ Backed(call, es, lg, rs)
  /\ \A n \in NodeKey : call.byNode[n].status = "blocked" => call.byNode[n].availableAt <= t

Sane(call, es, lg, rs, t) ==
  /\ call.pc \in {"list", "cancelList", "cancel"} => Fresh(call, rs)
  /\ call.pc = "list" => Undecided(call, rs)
  /\ call.pc = "nodes" => Informed(call, es, lg, rs, t)
  /\ call.pc = "set" => /\ Fresh(call, rs)
                        /\ call.status # "cancelled" => Undecided(call, rs)
                        /\ Current(call, rs) => Earned(es, call.run, call.status)

Typed(call, last) ==
  /\ call \in Call
  /\ call.pc # "idle" => call.run \in 1..last
  /\ call.pc = "nodes" => /\ call.index \in 1..Len(Nodes)
                          /\ Schedulable(call.byNode, Nodes[call.index])
  /\ call.pc = "set" => call.status # "pending"
  /\ call.pc = "cancel" => call.left # {}

CallsSound == \A c \in Coordinator : Sane(calls[c], executions, events, runs, now)

(* Purge reads FinishedAt, which only a terminal run has. *)
FinishedRuns == \A r \in DOMAIN runs : runs[r].finishedAt # 0 => runs[r].status \in Terminal

EngineInv ==
  /\ IInv /\ FinishedRuns /\ KnownRuns
  /\ EngineTypeOK /\ CallsSound
  /\ RunStatusEarned /\ NodesFollowDependencies

-----------------------------------------------------------------------------
(* The root of a restarted subgraph is pending afterwards, with a longer log. *)
LEMMA SubgraphRoot ==
  ASSUME IInv, NEW r, NEW root, RestartPipelineSubgraph(r, root, 0)
  PROVE  \E i \in DOMAIN executions :
           /\ executions[i].run = r /\ executions[i].status \notin Active
           /\ executions'[i].run = r /\ executions'[i].status = "pending"
           /\ i \in DOMAIN executions' /\ Logs(events[i], events'[i], "restarted", 0)
<1> DEFINE status(i) == IF executions[i].node = root THEN "pending" ELSE "blocked"
           new == [i \in Affected(r, root) |-> Reset(executions[i], status(i), OrNow(0))]
<1>1. /\ appendEvent(new, "restarted")
      /\ \A i \in Affected(r, root) : executions[i].status \notin Active
      /\ \E i \in Affected(r, root) : executions[i].node = root
  BY Zenon DEF RestartPipelineSubgraph
<1>2. PICK i \in Affected(r, root) : executions[i].node = root
  BY <1>1, Zenon
<1>3. DOMAIN new = Affected(r, root) /\ new[i] = Reset(executions[i], "pending", OrNow(0))
  BY <1>2, Zenon
<1>4. i \in DOMAIN executions /\ executions[i].run = r /\ Affected(r, root) \in SUBSET DOMAIN executions
  BY Zenon DEF Affected
<1> HIDE DEF new
<1>5. /\ DOMAIN executions' = DOMAIN executions /\ executions'[i] = new[i]
      /\ Logs(events[i], events'[i], "restarted", new[i].attempt)
  BY <1>1, <1>3, <1>4, CommitValues
<1>6. executions[i] \in Execution
  BY <1>4, LastEvent, Zenon
<1>7. new[i].status = "pending" /\ new[i].attempt = 0 /\ new[i].run = executions[i].run
  BY <1>3, <1>6, Zenon DEF Reset, Unleased, Execution
<1>8. QED
  BY <1>1, <1>4, <1>5, <1>7, Zenon

(* How a run that was there before a step and is there after it may change. *)
LEMMA RunChange ==
  ASSUME IInv, [Next]_vars, NEW r \in DOMAIN runs, r \in DOMAIN runs'
  PROVE  \/ runs'[r] = runs[r]
         \/ \E status \in IF runs[r].status \in Terminal THEN {"cancelled"} ELSE RunStatus \ {"pending"} :
              SetPipelineRunStatus(r, runs[r].revision, status)
         \/ \E root \in NodeKey : RestartPipelineSubgraph(r, root, 0)
<1>1. CASE UNCHANGED runs
  BY <1>1, Zenon
<1>2. CASE \E before, limit : Purge(before, limit)
  BY <1>2, PurgeValues, Zenon
<1>3. CASE WorkerCall
  BY <1>1, <1>3, Zenon DEF WorkerCall, Heartbeat, Succeed, Fail, Retry
<1>4. CASE OperatorCall
  BY <1>1, <1>2, <1>4, Zenon DEF OperatorCall, CancelExecution, RestartExecution
<1>5. CASE PipelineCall
  <2>1. CASE \E key : CreatePipelineRun(key)
    <3>1. PICK run : runs' = Put(runs, At(lastRun + 1, run))
      BY <2>1, Zenon DEF CreatePipelineRun
    <3>2. lastRun + 1 \notin DOMAIN runs
      BY DEF IInv, TypeOK
    <3>3. QED
      BY <3>1, <3>2, Zenon DEF Put, At
  <2>2. CASE \E s \in DOMAIN runs :
               \E status \in IF runs[s].status \in Terminal THEN {"cancelled"} ELSE RunStatus \ {"pending"} :
                 SetPipelineRunStatus(s, runs[s].revision, status)
    BY <2>2, SetValues, Zenon
  <2>3. CASE \E s \in DOMAIN runs : \E root \in NodeKey : RestartPipelineSubgraph(s, root, 0)
    BY <2>3, SubgraphValues
  <2>4. CASE \E i, input, availableAt : ReleaseExecution(i, input, availableAt)
    BY <1>1, <2>4, Zenon DEF ReleaseExecution
  <2>5. QED
    BY <1>5, <2>1, <2>2, <2>3, <2>4, Zenon DEF PipelineCall
<1>6. QED
  BY <1>1, <1>3, <1>4, <1>5, Zenon DEF Next, Tick, CreateExecution, Claim, ReapExpired, vars

(* The revision counts the changes of a run. *)
LEMMA RevisionCounts ==
  ASSUME IInv, [Next]_vars, NEW r \in DOMAIN runs, r \in DOMAIN runs'
  PROVE  /\ runs[r].revision \in Nat /\ runs[r].revision <= runs'[r].revision
         /\ runs'[r].revision = runs[r].revision =>
              runs'[r] = runs[r] /\ \A root \in NodeKey : ~RestartPipelineSubgraph(r, root, 0)
<1>1. runs[r].revision \in Nat
  BY Zenon DEF IInv, TypeOK, PipelineRun
<1>2. CASE runs'[r].revision = runs[r].revision + 1
  BY <1>1, <1>2
<1>3. CASE runs'[r] = runs[r]
  BY <1>1, <1>3, SubgraphValues
<1>4. QED
  BY <1>2, <1>3, RunChange, SetValues, SubgraphValues, Zenon


-----------------------------------------------------------------------------
(* The node executions of a run that survives a step and is not restarted  *)
(* by it survive as well, and each moves at most once.                     *)
LEMMA PurgeSparesRuns ==
  ASSUME IInv, NEW before, NEW limit, Purge(before, limit),
         NEW i \in DOMAIN executions, executions[i].run \in DOMAIN runs'
  PROVE  i \in DOMAIN executions'
<1>1. PICK batch \in SUBSET PurgeCandidates(before) :
        LET deadRuns == {c.id : c \in {b \in batch : b.pipeline}}
            dead == {j \in DOMAIN executions :
                       IF executions[j].run # 0 THEN executions[j].run \in deadRuns
                       ELSE \E c \in batch : ~c.pipeline /\ c.id = j}
        IN  deleteExecution(dead) /\ runs' = Restrict(runs, DOMAIN runs \ deadRuns)
  BY Zenon DEF Purge
<1> DEFINE deadRuns == {c.id : c \in {b \in batch : b.pipeline}}
           dead == {j \in DOMAIN executions :
                      IF executions[j].run # 0 THEN executions[j].run \in deadRuns
                      ELSE \E c \in batch : ~c.pipeline /\ c.id = j}
<1>2. DOMAIN executions' = DOMAIN executions \ dead /\ DOMAIN runs' = DOMAIN runs \ deadRuns
  BY <1>1, Zenon DEF deleteExecution, Restrict
<1>3. executions[i].run # 0
  BY <1>2 DEF IInv, TypeOK
<1>4. i \notin dead
  BY <1>2, <1>3, Zenon
<1>5. QED
  BY <1>2, <1>4, Zenon

(* A node survives every step that neither restarts nor purges its run. *)
LEMMA NodeMoves ==
  ASSUME IInv, [Next]_vars, NEW i \in DOMAIN executions,
         executions[i].run \in DOMAIN runs, executions[i].run \in DOMAIN runs',
         \A root \in NodeKey : ~RestartPipelineSubgraph(executions[i].run, root, 0)
  PROVE  i \in DOMAIN executions' /\ Moved(i)
<1>1. executions[i].run # 0
  BY DEF IInv, TypeOK
<1>2. CASE Transition({})
  BY <1>2, Zenon DEF Transition
<1>3. CASE \E j : RestartExecution(j, 0) /\ Transition({j})
  BY <1>1, <1>3, Zenon DEF Transition, RestartExecution
<1>4. CASE \E r \in DOMAIN runs, root \in NodeKey : /\ RestartPipelineSubgraph(r, root, 0)
                                                   /\ Transition(Affected(r, root))
  BY <1>4, Zenon DEF Transition, Affected
<1>5. CASE \E request \in EnqueueRequest \cup NodeRequest : CreateExecution(request)
  BY <1>5, CreateValues, Zenon DEF Moved, Moves
<1>6. CASE \E before, limit : Purge(before, limit)
  BY <1>6, PurgeValues, PurgeSparesRuns, Zenon DEF Moved, Moves
<1>7. QED
  BY <1>2, <1>3, <1>4, <1>5, <1>6, StepTransition, Zenon

(* An outcome is not touched. *)
LEMMA OutcomeStays ==
  ASSUME IInv, [Next]_vars, NEW i \in DOMAIN executions,
         executions[i].run \in DOMAIN runs, executions[i].run \in DOMAIN runs',
         \A root \in NodeKey : ~RestartPipelineSubgraph(executions[i].run, root, 0),
         executions[i].status \in Terminal
  PROVE  i \in DOMAIN executions' /\ executions'[i] = executions[i]
<1>1. i \in DOMAIN executions' /\ Moves(executions[i], executions'[i], events[i], events'[i])
  BY NodeMoves, Zenon DEF Moved
<1>2. QED
  BY <1>1, Zenon DEF Moves, Starts, Renews, Ends, Cancels, Releases, Terminal

(* So the outcomes and outputs of a run stay until it is restarted or purged. *)
LEMMA OutcomesStay ==
  ASSUME IInv, [Next]_vars, NEW r \in DOMAIN runs, r \in DOMAIN runs',
         \A root \in NodeKey : ~RestartPipelineSubgraph(r, root, 0)
  PROVE  /\ \A n, statuses : statuses \subseteq Terminal /\ HasNode(executions, r, n, statuses) =>
                               HasNode(executions', r, n, statuses)
         /\ \A n, output : Delivers(executions, r, n, output) => Delivers(executions', r, n, output)
         /\ \A status : Earned(executions, r, status) => Earned(executions', r, status)
<1>1. ASSUME NEW i \in DOMAIN executions, executions[i].run = r, executions[i].status \in Terminal
      PROVE  i \in DOMAIN executions' /\ executions'[i] = executions[i]
  BY <1>1, OutcomeStays, Zenon
<1>2. \A n, statuses : statuses \subseteq Terminal /\ HasNode(executions, r, n, statuses) =>
                         HasNode(executions', r, n, statuses)
  BY <1>1, Zenon DEF HasNode
<1>3. \A n, output : Delivers(executions, r, n, output) => Delivers(executions', r, n, output)
  BY <1>1, Zenon DEF Delivers, Terminal
<1>4. ASSUME NEW n
      PROVE  /\ HasNode(executions, r, n, {"succeeded"}) => HasNode(executions', r, n, {"succeeded"})
             /\ HasNode(executions, r, n, {"failed", "cancelled"}) =>
                  HasNode(executions', r, n, {"failed", "cancelled"})
  BY <1>2, Zenon DEF Terminal
<1>5. \A status : Earned(executions, r, status) => Earned(executions', r, status)
  BY <1>4, Zenon DEF Earned
<1>6. QED
  BY <1>2, <1>3, <1>5, Zenon

(* Logs only grow while their execution exists. *)
LEMMA LogGrows ==
  ASSUME NEW log \in Seq(Event), NEW longer, NEW type \in EventType, NEW attempt \in Nat,
         Logs(log, longer, type, attempt)
  PROVE  /\ Len(longer) = Len(log) + 1 /\ Len(log) \in Nat
         /\ \A k \in 1..Len(log) : k \in 1..Len(longer) /\ longer[k] = log[k]
         /\ Len(log) + 1 \in 1..Len(longer) /\ longer[Len(log) + 1].type = type
<1> DEFINE ev == [type |-> type, attempt |-> attempt]
<1>1. ev \in Event /\ ev.type = type /\ longer = Append(log, ev)
  BY Zenon DEF Event, Logs
<1> HIDE DEF ev
<1>2. QED
  BY <1>1

(* A run that is untouched after a step was untouched before it, and the   *)
(* step restarted nothing of it.                                           *)
LEMMA UntouchedBefore ==
  ASSUME IInv, IInv', [Next]_vars, NEW r \in DOMAIN runs, r \in DOMAIN runs',
         Untouched(executions', events', r)
  PROVE  /\ Untouched(executions, events, r)
         /\ \A root \in NodeKey : ~RestartPipelineSubgraph(r, root, 0)
<1>1. \A i \in DOMAIN executions : events[i] \in Seq(Event)
  BY Zenon DEF IInv, TypeOK
<1>2. ASSUME NEW root \in NodeKey, RestartPipelineSubgraph(r, root, 0) PROVE FALSE
  <2>1. PICK i \in DOMAIN executions : /\ executions'[i].run = r /\ i \in DOMAIN executions'
                                       /\ Logs(events[i], events'[i], "restarted", 0)
    BY <1>2, SubgraphRoot, Zenon
  <2>2. Len(events[i]) + 1 \in 1..Len(events'[i]) /\ events'[i][Len(events[i]) + 1].type = "restarted"
    BY <1>1, <2>1, LogGrows, Zenon DEF EventType
  <2>3. QED
    BY <2>1, <2>2, Zenon DEF Untouched
<1>3. ASSUME NEW i \in DOMAIN executions, executions[i].run = r, NEW k \in 1..Len(events[i])
      PROVE  events[i][k].type # "restarted"
  <2>1. i \in DOMAIN executions' /\ Moved(i)
    BY <1>2, <1>3, NodeMoves, Zenon
  <2>2. executions'[i].run = r
    BY <1>3, <2>1, Zenon DEF Moved, Moves, SameWork
  <2>3. executions'[i].attempt \in Nat
    BY <2>1, Zenon DEF IInv, TypeOK, Execution
  <2>4. k \in 1..Len(events'[i]) /\ events'[i][k] = events[i][k]
    <3>1. CASE events'[i] = events[i]
      BY <3>1, Zenon
    <3>2. CASE \E type \in EventType : Logs(events[i], events'[i], type, executions'[i].attempt)
      BY <1>1, <2>3, <3>2, LogGrows
    <3>3. QED
      BY <2>1, <3>1, <3>2, Zenon DEF Moved, Moves, Starts, Renews, Ends, Cancels, Releases, EventType
  <2>5. QED
    BY <2>1, <2>2, <2>4, Zenon DEF Untouched
<1>4. QED
  BY <1>2, <1>3, Zenon DEF Untouched


-----------------------------------------------------------------------------
(* Whatever step the store makes, a call that is not part of it keeps what *)
(* it may rely on.                                                         *)
LEMMA CallKept ==
  ASSUME IInv, IInv', [Next]_vars, NEW call, Typed(call, lastRun),
         Sane(call, executions, events, runs, now)
  PROVE  Typed(call, lastRun') /\ Sane(call, executions', events', runs', now')
<1> DEFINE r == call.run
<1>1. call.revision \in Nat /\ call.byNode \in [NodeKey -> Seen]
  BY Zenon DEF Typed, Call
<1>2. Typed(call, lastRun')
  <2>1. 1..lastRun \subseteq 1..lastRun'
    BY NewRuns
  <2>2. QED
    BY <2>1, Zenon DEF Typed
<1>3. ASSUME call.pc # "idle", r \in DOMAIN runs' PROVE r \in DOMAIN runs
  BY <1>3, NewRuns DEF Typed
<1>4. ASSUME call.pc # "idle", Fresh(call, runs)
      PROVE  /\ Fresh(call, runs')
             /\ Current(call, runs') => /\ Current(call, runs) /\ runs'[r] = runs[r]
                                        /\ \A root \in NodeKey : ~RestartPipelineSubgraph(r, root, 0)
  <2>1. ASSUME r \in DOMAIN runs'
        PROVE  /\ r \in DOMAIN runs /\ runs[r].revision \in Nat /\ runs'[r].revision \in Nat
               /\ runs[r].revision <= runs'[r].revision /\ call.revision <= runs[r].revision
               /\ runs'[r].revision = runs[r].revision =>
                    runs'[r] = runs[r] /\ \A root \in NodeKey : ~RestartPipelineSubgraph(r, root, 0)
    <3>1. r \in DOMAIN runs
      BY <1>3, <1>4, <2>1, Zenon
    <3>2. runs'[r].revision \in Nat
      BY <2>1, Zenon DEF IInv, TypeOK, PipelineRun
    <3>3. QED
      BY <1>4, <2>1, <3>1, <3>2, RevisionCounts, Zenon DEF Fresh
  <2>2. CASE r \in DOMAIN runs'
    <3> DEFINE before == runs[r].revision
               after == runs'[r].revision
    <3>1. before \in Nat /\ after \in Nat /\ before <= after /\ call.revision <= before
      BY <2>1, <2>2, Zenon
    <3>2. call.revision <= after /\ (after = call.revision => before = call.revision /\ after = before)
      BY <1>1, <3>1
    <3>3. QED
      BY <2>1, <2>2, <3>2, Zenon DEF Fresh, Current
  <2>3. CASE r \notin DOMAIN runs'
    BY <2>3, Zenon DEF Fresh, Current
  <2>4. QED
    BY <2>2, <2>3, Zenon
<1>5. ASSUME call.pc # "idle", Fresh(call, runs), Undecided(call, runs)
      PROVE  Undecided(call, runs')
  BY <1>4, <1>5, Zenon DEF Undecided
<1>6. ASSUME call.pc # "idle", Fresh(call, runs), Backed(call, executions, events, runs)
      PROVE  Backed(call, executions', events', runs')
  <2>1. SUFFICES ASSUME Current(call, runs') \/ (r \in DOMAIN runs' /\ Untouched(executions', events', r)),
                        NEW n \in NodeKey, call.byNode[n].status = "succeeded"
                 PROVE  Delivers(executions', r, n, call.byNode[n].output)
    BY Zenon DEF Backed
  <2>2. r \in DOMAIN runs' /\ r \in DOMAIN runs
    BY <1>3, <1>6, <2>1, Zenon DEF Current
  <2>3. /\ Current(call, runs) \/ Untouched(executions, events, r)
        /\ \A root \in NodeKey : ~RestartPipelineSubgraph(r, root, 0)
    BY <1>4, <1>6, <2>1, <2>2, UntouchedBefore, Zenon
  <2>4. Delivers(executions, r, n, call.byNode[n].output)
    BY <1>6, <2>1, <2>2, <2>3, Zenon DEF Backed
  <2>5. QED
    BY <2>2, <2>3, <2>4, OutcomesStay, Zenon
<1>7. ASSUME call.pc # "idle", Fresh(call, runs), Current(call, runs'),
             Current(call, runs) => Earned(executions, r, call.status)
      PROVE  Earned(executions', r, call.status)
  <2>1. r \in DOMAIN runs' /\ r \in DOMAIN runs
    BY <1>3, <1>7, Zenon DEF Current
  <2>2. QED
    BY <1>4, <1>7, <2>1, OutcomesStay, Zenon
<1>8. ASSUME call.pc = "nodes", NEW n \in NodeKey, call.byNode[n].status = "blocked"
      PROVE  call.byNode[n].availableAt <= now'
  <2>1. call.byNode[n].availableAt <= now
    BY <1>8, Zenon DEF Sane, Informed
  <2>2. call.byNode[n].availableAt \in Nat
    BY <1>1, Zenon DEF Seen
  <2>3. QED
    BY <2>1, <2>2, ClockStep
<1>9. Sane(call, executions', events', runs', now')
  <2>1. CASE call.pc \in {"list", "cancelList", "cancel"}
    BY <1>4, <1>5, <2>1, Zenon DEF Sane
  <2>2. CASE call.pc = "nodes"
    <3>1. Informed(call, executions', events', runs', now')
      BY <1>4, <1>5, <1>6, <1>8, <2>2, Zenon DEF Sane, Informed
    <3>2. QED
      BY <2>2, <3>1, Zenon DEF Sane
  <2>3. CASE call.pc = "set"
    <3>1. /\ Fresh(call, runs) /\ (call.status # "cancelled" => Undecided(call, runs))
          /\ Current(call, runs) => Earned(executions, r, call.status)
      BY <2>3, Zenon DEF Sane
    <3>2. QED
      BY <1>4, <1>5, <1>7, <2>3, <3>1, Zenon DEF Sane
  <2>4. CASE call.pc \in {"idle", "get"}
    BY <2>4, Zenon DEF Sane
  <2>5. QED
    BY <2>1, <2>2, <2>3, <2>4, Zenon DEF Typed, Call
<1>10. QED
  BY <1>2, <1>9, Zenon


-----------------------------------------------------------------------------
(* The calls the engine goes on with. *)
Good(call) == Typed(call, lastRun) /\ Sane(call, executions, events, runs, now)

LEMMA NoCallTyped == NoCall \in Call
<1>1. Absent \in Seen
  BY ConstantsAssumption DEF Absent, Seen, Status
<1>2. [n \in NodeKey |-> Absent] \in [NodeKey -> Seen]
  BY <1>1, Zenon
<1>3. << >> \in Seq(Nat)
  OBVIOUS
<1> DEFINE byNode == [n \in NodeKey |-> Absent]
<1> HIDE DEF byNode
<1>4. byNode \in [NodeKey -> Seen]
  BY <1>2, Zenon DEF byNode
<1>5. NoCall = [pc |-> "idle", run |-> 0, revision |-> 0, pending |-> FALSE, byNode |-> byNode,
                index |-> 0, left |-> {}, created |-> FALSE, status |-> "pending", tries |-> 0]
  BY Zenon DEF NoCall, byNode
<1>6. QED
  BY <1>3, <1>4, <1>5 DEF Call, RunStatus

LEMMA NoCallGood == Good(NoCall)
<1>1. NoCall.pc = "idle"
  BY Zenon DEF NoCall
<1>2. QED
  BY <1>1, NoCallTyped, Zenon DEF Good, Typed, Sane

(* A call that has read nothing relies on nothing. *)
LEMMA AdvanceGood ==
  ASSUME NEW last, NEW r \in 1..last, last \in Nat, NEW tries \in 0..4
  PROVE  /\ Typed(Advance(r, tries), last)
         /\ \A es, lg, rs, t : Sane(Advance(r, tries), es, lg, rs, t)
<1>1. Advance(r, tries) \in Call /\ Advance(r, tries).pc = "get" /\ Advance(r, tries).run = r
  <2>1. r \in Nat
    OBVIOUS
  <2>2. QED
    BY <2>1, NoCallTyped, Zenon DEF Advance, Call
<1>2. QED
  BY <1>1, Zenon DEF Typed, Sane

(* A call may write a status that is earned while its revision is current. *)
LEMMA DecideGood ==
  ASSUME IInv, NEW call \in Call, call.run \in 1..lastRun, NEW status \in RunStatus \ {"pending"},
         Fresh(call, runs), status # "cancelled" => Undecided(call, runs),
         Current(call, runs) => Earned(executions, call.run, status)
  PROVE  Good(Decide(call, status))
<1> DEFINE new == Decide(call, status)
<1>1. /\ new \in Call /\ new.pc = "set" /\ new.run = call.run
      /\ new.revision = call.revision /\ new.status = status
  BY NoCallTyped, Zenon DEF Decide, Call
<1> HIDE DEF new
<1>2. Typed(new, lastRun)
  BY <1>1, Zenon DEF Typed
<1>3. Sane(new, executions, events, runs, now)
  BY <1>1, Zenon DEF Sane, Fresh, Undecided, Current
<1>4. QED
  BY <1>2, <1>3, Zenon DEF Good, new

(* Calls that have read the same know the same. *)
LEMMA SameKnowledge ==
  ASSUME NEW a, NEW b, b.run = a.run, b.revision = a.revision, b.byNode = a.byNode,
         Informed(a, executions, events, runs, now)
  PROVE  Informed(b, executions, events, runs, now)
BY Zenon DEF Informed, Fresh, Undecided, Backed, Current

(* The loop of advanceOnce stops at a node that has to be created or       *)
(* released, or decides.                                                   *)
LEMMA ProceedGood ==
  ASSUME IInv, NEW c, NEW call \in Call, call.run \in 1..lastRun, NEW index \in Nat,
         Informed(call, executions, events, runs, now), Proceed(c, call, index)
  PROVE  \E new : Continue(c, new) /\ Good(new)
<1> DEFINE next == {k \in (index + 1)..Len(Nodes) : Schedulable(call.byNode, Nodes[k])}
<1>1. Len(Nodes) \in Nat
  BY DefinitionAssumption
<1>2. ASSUME NEW k \in next, Continue(c, [call EXCEPT !.pc = "nodes", !.index = k])
      PROVE  \E new : Continue(c, new) /\ Good(new)
  <2> DEFINE new == [call EXCEPT !.pc = "nodes", !.index = k]
  <2>1. k \in 1..Len(Nodes) /\ k \in Nat /\ Schedulable(call.byNode, Nodes[k])
    BY <1>1
  <2>2. /\ new \in Call /\ new.pc = "nodes" /\ new.index = k
        /\ new.run = call.run /\ new.revision = call.revision /\ new.byNode = call.byNode
    BY <2>1, Zenon DEF Call
  <2>3. Continue(c, new)
    BY <1>2, Zenon
  <2> HIDE DEF new
  <2>4. Informed(new, executions, events, runs, now)
    BY <2>2, SameKnowledge, Zenon
  <2>5. Good(new)
    BY <2>1, <2>2, <2>4, Zenon DEF Good, Typed, Sane
  <2>6. QED
    BY <2>3, <2>5, Zenon
<1>3. Good(Settle(call))
  <2>1. Fresh(call, runs) /\ Undecided(call, runs) /\ Backed(call, executions, events, runs)
    BY Zenon DEF Informed
  <2>2. CASE AllSucceeded(call.byNode)
    <3>1. Current(call, runs) => Earned(executions, call.run, "succeeded")
      <4>1. SUFFICES ASSUME Current(call, runs), NEW n \in NodeKey
                     PROVE  HasNode(executions, call.run, n, {"succeeded"})
        BY Zenon DEF Earned
      <4>2. Delivers(executions, call.run, n, call.byNode[n].output)
        BY <2>1, <2>2, <4>1, Zenon DEF AllSucceeded, Backed
      <4>3. QED
        BY <4>2, Zenon DEF Delivers, HasNode
    <3>2. Good(Decide(call, "succeeded"))
      BY <2>1, <3>1, DecideGood, Zenon DEF RunStatus
    <3>3. QED
      BY <2>2, <3>2, Zenon DEF Settle
  <2>3. CASE ~AllSucceeded(call.byNode)
    <3>1. Earned(executions, call.run, "running")
      BY Zenon DEF Earned
    <3>2. Good(Decide(call, "running"))
      BY <2>1, <3>1, DecideGood, Zenon DEF RunStatus
    <3>3. QED
      BY <2>3, <3>2, NoCallGood, Zenon DEF Settle
  <2>4. QED
    BY <2>2, <2>3, Zenon
<1>4. QED
  BY <1>2, <1>3, Zenon DEF Proceed

(* What the engine sees of a node is what is stored. *)
LEMMA SnapshotSeen ==
  ASSUME IInv, NEW r, NEW n \in NodeKey
  PROVE  LET seen == Snapshot(r)[n] IN
         /\ seen \in Seen
         /\ seen.status # "absent" => HasNode(executions, r, n, {seen.status})
         /\ seen.status = "succeeded" => Delivers(executions, r, n, seen.output)
         /\ seen.status = "blocked" => seen.availableAt <= now
<1>1. CASE ~\E j \in NodesOf(r) : executions[j].node = n
  <2>1. Snapshot(r)[n] = Absent
    BY <1>1, Zenon DEF Snapshot
  <2>2. Absent \in Seen /\ Absent.status = "absent"
    BY ConstantsAssumption DEF Absent, Seen
  <2>3. QED
    BY <2>1, <2>2, Zenon
<1>2. CASE \E j \in NodesOf(r) : executions[j].node = n
  <2> DEFINE i == CHOOSE j \in NodesOf(r) : executions[j].node = n
             seen == [id |-> i, status |-> executions[i].status, output |-> executions[i].output,
                      availableAt |-> executions[i].availableAt]
  <2>1. i \in NodesOf(r) /\ executions[i].node = n
    BY <1>2, Zenon
  <2>2. Snapshot(r)[n] = seen
    BY <1>2, Zenon DEF Snapshot
  <2> HIDE DEF i
  <2>3. i \in DOMAIN executions /\ executions[i].run = r
    BY <2>1, Zenon DEF NodesOf
  <2>4. /\ executions[i] \in Execution /\ events[i] \in Seq(Event) /\ i \in Nat
        /\ Sound(executions[i], events[i])
        /\ executions[i].status = "blocked" => executions[i].availableAt <= now
    BY <2>3 DEF IInv, TypeOK
  <2>5. executions[i].output \in 0..MaxEvents
    <3>1. Len(events[i]) \in Nat /\ Len(events[i]) >= 1 /\ Len(events[i]) <= MaxEvents /\ MaxEvents \in Nat
      BY <2>4, ConstantsAssumption DEF Sound, Replays
    <3>2. executions[i].output = Len(events[i]) - 1 \/ executions[i].output = 0
      BY <2>4, Zenon DEF Sound, LeaseSound
    <3>3. QED
      BY <3>1, <3>2
  <2>6. seen \in Seen
    BY <2>4, <2>5, Zenon DEF Seen, Execution
  <2>7. /\ seen.status = executions[i].status /\ seen.output = executions[i].output
        /\ seen.availableAt = executions[i].availableAt
    BY Zenon
  <2> HIDE DEF seen
  <2>8. HasNode(executions, r, n, {seen.status})
    BY <2>1, <2>3, <2>7, Zenon DEF HasNode
  <2>9. seen.status = "succeeded" => Delivers(executions, r, n, seen.output)
    BY <2>1, <2>3, <2>7, Zenon DEF Delivers
  <2>10. QED
    BY <2>2, <2>4, <2>6, <2>7, <2>8, <2>9, Zenon
<1>3. QED
  BY <1>1, <1>2, Zenon

(* ListNodes: what has just been read is true. *)
LEMMA SnapshotInformed ==
  ASSUME IInv, NEW call \in Call, Fresh(call, runs), Undecided(call, runs)
  PROVE  LET new == [call EXCEPT !.byNode = Snapshot(call.run)] IN
         /\ new \in Call /\ new.run = call.run
         /\ Informed(new, executions, events, runs, now)
<1> DEFINE byNode == Snapshot(call.run)
           new == [call EXCEPT !.byNode = byNode]
<1>1. ASSUME NEW n \in NodeKey
      PROVE  /\ byNode[n] \in Seen
             /\ byNode[n].status = "succeeded" => Delivers(executions, call.run, n, byNode[n].output)
             /\ byNode[n].status = "blocked" => byNode[n].availableAt <= now
  BY SnapshotSeen, Zenon
<1>2. byNode \in [NodeKey -> Seen]
  <2>1. byNode = [n \in NodeKey |-> byNode[n]]
    BY Zenon DEF Snapshot
  <2> HIDE DEF byNode
  <2>2. QED
    BY <1>1, <2>1, Zenon
<1> HIDE DEF byNode
<1>3. /\ new \in Call /\ new.run = call.run /\ new.revision = call.revision /\ new.byNode = byNode
  BY <1>2, Zenon DEF Call
<1> HIDE DEF new
<1>4. Informed(new, executions, events, runs, now)
  BY <1>1, <1>3, Zenon DEF Informed, Fresh, Undecided, Backed, Current
<1>5. QED
  BY <1>3, <1>4, Zenon DEF new, byNode

LEMMA CallFacts ==
  ASSUME EngineTypeOK, CallsSound, NEW c \in Coordinator
  PROVE  /\ calls[c] \in Call /\ Good(calls[c])
         /\ calls[c].pc # "idle" => calls[c].run \in 1..lastRun
BY Zenon DEF EngineTypeOK, CallsSound, Good, Typed

-----------------------------------------------------------------------------
(* One lemma per action: the call it goes on with is good already in the   *)
(* state the action starts from.                                           *)
LEMMA GetRunGood ==
  ASSUME IInv, EngineTypeOK, CallsSound, NEW c \in Coordinator, GetRun(c)
  PROVE  \E new : Continue(c, new) /\ Good(new)
<1> DEFINE call == calls[c]
           r == call.run
           pending == (runs[r].status = "pending")
           new == [call EXCEPT !.pc = "list", !.revision = runs[r].revision, !.pending = pending]
<1>1. call \in Call /\ r \in 1..lastRun
  BY CallFacts, Zenon DEF GetRun
<1>2. CASE r \notin DOMAIN runs \/ runs[r].status \in Terminal
  BY <1>2, NoCallGood, Zenon DEF GetRun
<1>3. CASE r \in DOMAIN runs /\ runs[r].status \notin Terminal
  <2>1. runs[r].revision \in Nat /\ pending \in BOOLEAN
    BY <1>3, Zenon DEF IInv, TypeOK, PipelineRun
  <2>2. Continue(c, new)
    BY <1>3, Zenon DEF GetRun
  <2> HIDE DEF pending
  <2>3. new \in Call /\ new.pc = "list" /\ new.run = r /\ new.revision = runs[r].revision
    BY <1>1, <2>1, Zenon DEF Call
  <2> HIDE DEF new
  <2>4. Good(new)
    BY <1>1, <1>3, <2>1, <2>3 DEF Good, Typed, Sane, Fresh, Undecided, Current
  <2>5. QED
    BY <2>2, <2>4, Zenon
<1>4. QED
  BY <1>2, <1>3, Zenon

LEMMA ListNodesGood ==
  ASSUME IInv, EngineTypeOK, CallsSound, NEW c \in Coordinator, ListNodes(c)
  PROVE  \E new : Continue(c, new) /\ Good(new)
<1> DEFINE call == calls[c]
           byNode == Snapshot(call.run)
           with == [call EXCEPT !.byNode = byNode]
<1>1. call \in Call /\ call.run \in 1..lastRun /\ Fresh(call, runs) /\ Undecided(call, runs)
  BY CallFacts, Zenon DEF ListNodes, Good, Sane
<1>2. CASE \E n \in NodeKey : byNode[n].status \in {"failed", "cancelled"}
  <2>1. PICK n \in NodeKey : byNode[n].status \in {"failed", "cancelled"}
    BY <1>2, Zenon
  <2>2. HasNode(executions, call.run, n, {byNode[n].status})
    BY <2>1, SnapshotSeen, Zenon
  <2>3. Earned(executions, call.run, "failed")
    BY <2>1, <2>2, Zenon DEF HasNode, Earned
  <2>4. Good(Decide(call, "failed"))
    BY <1>1, <2>3, DecideGood, Zenon DEF RunStatus
  <2>5. QED
    BY <1>2, <2>4, Zenon DEF ListNodes
<1>3. CASE ~\E n \in NodeKey : byNode[n].status \in {"failed", "cancelled"}
  <2>1. /\ with \in Call /\ with.run = call.run
        /\ Informed(with, executions, events, runs, now)
    BY <1>1, SnapshotInformed, Zenon
  <2>2. Proceed(c, with, 0)
    BY <1>3, Zenon DEF ListNodes
  <2> HIDE DEF with
  <2>3. QED
    BY <1>1, <2>1, <2>2, ProceedGood, Zenon
<1>4. QED
  BY <1>2, <1>3, Zenon

(* A call at a node: the node is ready, its input can be built and passed on. *)
LEMMA AtNode ==
  ASSUME EngineTypeOK, CallsSound, NEW c \in Coordinator, calls[c].pc = "nodes"
  PROVE  LET call == calls[c]
             n == Nodes[call.index]
         IN
         /\ call \in Call /\ call.run \in 1..lastRun /\ call.index \in Nat
         /\ Informed(call, executions, events, runs, now)
         /\ n \in NodeKey /\ Ready(call.byNode, n) /\ BuildInput(call.byNode, n) \in Inputs
<1> DEFINE call == calls[c]
           n == Nodes[call.index]
<1>1. /\ call \in Call /\ call.run \in 1..lastRun /\ call.index \in 1..Len(Nodes)
      /\ Schedulable(call.byNode, n) /\ Informed(call, executions, events, runs, now)
  BY CallFacts, Zenon DEF EngineTypeOK, Good, Sane
<1>2. n \in NodeKey
  BY <1>1, DefinitionAssumption
<1>3. Ready(call.byNode, n)
  BY <1>1, Zenon DEF Schedulable
<1>4. BuildInput(call.byNode, n) \in [Dependencies[n] -> 0..MaxEvents]
  <2>1. call.byNode \in [NodeKey -> Seen] /\ Dependencies[n] \subseteq NodeKey
    BY <1>1, <1>2, DefinitionAssumption, Zenon DEF Call
  <2>2. \A d \in Dependencies[n] : call.byNode[d].output \in 0..MaxEvents
    BY <2>1, Zenon DEF Seen
  <2>3. QED
    BY <2>2, Zenon DEF BuildInput
<1>5. BuildInput(call.byNode, n) \in Inputs
  BY <1>2, <1>4, DefinitionAssumption, Zenon
<1>6. QED
  BY <1>1, <1>2, <1>3, <1>5

LEMMA FailBuildGood ==
  ASSUME IInv, EngineTypeOK, CallsSound, NEW c \in Coordinator, FailBuild(c)
  PROVE  \E new : Continue(c, new) /\ Good(new)
<1> DEFINE call == calls[c]
           n == Nodes[call.index]
<1>1. call.pc = "nodes" /\ n \in BrokenMappers /\ Continue(c, Decide(call, "failed"))
  BY Zenon DEF FailBuild
<1>2. /\ call \in Call /\ call.run \in 1..lastRun /\ n \in NodeKey /\ Ready(call.byNode, n)
      /\ Informed(call, executions, events, runs, now)
  BY <1>1, AtNode, Zenon
<1>3. Fresh(call, runs) /\ Undecided(call, runs) /\ Backed(call, executions, events, runs)
  BY <1>2, Zenon DEF Informed
<1>4. Current(call, runs) => Earned(executions, call.run, "failed")
  <2>1. SUFFICES ASSUME Current(call, runs), NEW d \in Dependencies[n]
                 PROVE  HasNode(executions, call.run, d, {"succeeded"})
    BY <1>1, Zenon DEF Earned
  <2>2. d \in NodeKey /\ call.byNode[d].status = "succeeded"
    BY <1>2, DefinitionAssumption, Zenon DEF Ready
  <2>3. Delivers(executions, call.run, d, call.byNode[d].output)
    BY <1>3, <2>1, <2>2, Zenon DEF Backed
  <2>4. QED
    BY <2>3, Zenon DEF Delivers, HasNode
<1>5. Good(Decide(call, "failed"))
  BY <1>2, <1>3, <1>4, DecideGood, Zenon DEF RunStatus
<1>6. QED
  BY <1>1, <1>5, Zenon

LEMMA ScheduledGood ==
  ASSUME IInv, EngineTypeOK, CallsSound, NEW c \in Coordinator, calls[c].pc = "nodes", Scheduled(c)
  PROVE  \E new : Continue(c, new) /\ Good(new)
<1> DEFINE call == calls[c]
           marked == [call EXCEPT !.created = TRUE]
<1>1. /\ call \in Call /\ call.run \in 1..lastRun /\ call.index \in Nat
      /\ Informed(call, executions, events, runs, now)
  BY AtNode, Zenon
<1>2. /\ marked \in Call /\ marked.run = call.run
      /\ marked.revision = call.revision /\ marked.byNode = call.byNode
  BY <1>1, Zenon DEF Call
<1>3. Proceed(c, marked, call.index)
  BY Zenon DEF Scheduled
<1> HIDE DEF marked
<1>4. Informed(marked, executions, events, runs, now)
  BY <1>1, <1>2, SameKnowledge, Zenon
<1>5. QED
  BY <1>1, <1>2, <1>3, <1>4, ProceedGood, Zenon


LEMMA SetStatusGood ==
  ASSUME IInv, EngineTypeOK, CallsSound, NEW c \in Coordinator, SetStatus(c)
  PROVE  \E new : Continue(c, new) /\ Good(new)
<1> DEFINE call == calls[c]
<1>1. call \in Call /\ call.run \in 1..lastRun
  BY CallFacts, Zenon DEF SetStatus
<1>2. call.tries \in 0..4 /\ lastRun \in Nat
  BY <1>1, Zenon DEF Call, IInv, TypeOK
<1>3. CASE Continue(c, NoCall)
  BY <1>3, NoCallGood, Zenon
<1>4. CASE call.tries < 4 /\ Continue(c, Advance(call.run, call.tries + 1))
  <2>1. call.tries + 1 \in 0..4
    BY <1>2, <1>4
  <2>2. Good(Advance(call.run, call.tries + 1))
    BY <1>1, <1>2, <2>1, AdvanceGood, Zenon DEF Good
  <2>3. QED
    BY <1>4, <2>2, Zenon
<1>5. QED
  BY <1>3, <1>4, Zenon DEF SetStatus

LEMMA CancelNextGood ==
  ASSUME IInv, NEW call \in Call, call.run \in 1..lastRun, Fresh(call, runs),
         NEW left \in SUBSET [id: Nat, createdAt: Nat]
  PROVE  Good(CancelNext(call, left))
<1>1. CASE left = {}
  <2>1. Earned(executions, call.run, "cancelled")
    BY Zenon DEF Earned
  <2>2. QED
    BY <1>1, <2>1, DecideGood, Zenon DEF CancelNext, RunStatus
<1>2. CASE left # {}
  <2> DEFINE new == [call EXCEPT !.pc = "cancel", !.left = left]
  <2>1. /\ new \in Call /\ new.pc = "cancel" /\ new.left = left
        /\ new.run = call.run /\ new.revision = call.revision
    BY Zenon DEF Call
  <2>2. CancelNext(call, left) = new
    BY <1>2, Zenon DEF CancelNext
  <2> HIDE DEF new
  <2>3. QED
    BY <1>2, <2>1, <2>2, Zenon DEF Good, Typed, Sane, Fresh
<1>3. QED
  BY <1>1, <1>2, Zenon

LEMMA ListToCancelGood ==
  ASSUME IInv, EngineTypeOK, CallsSound, NEW c \in Coordinator, ListToCancel(c)
  PROVE  \E new : Continue(c, new) /\ Good(new)
<1> DEFINE call == calls[c]
           unfinished == {i \in NodesOf(call.run) : executions[i].status \in Active}
           left == {[id |-> i, createdAt |-> executions[i].createdAt] : i \in unfinished}
<1>1. call \in Call /\ call.run \in 1..lastRun /\ Fresh(call, runs)
  BY CallFacts, Zenon DEF ListToCancel, Good, Sane
<1>2. Continue(c, CancelNext(call, left))
  BY Zenon DEF ListToCancel
<1>3. \A i \in unfinished : i \in Nat /\ executions[i].createdAt \in Nat
  BY DEF NodesOf, IInv, TypeOK, Execution
<1> HIDE DEF unfinished
<1>4. left \in SUBSET [id: Nat, createdAt: Nat]
  BY <1>3
<1> HIDE DEF left
<1>5. QED
  BY <1>1, <1>2, <1>4, CancelNextGood, Zenon

LEMMA CancelNodeGood ==
  ASSUME IInv, EngineTypeOK, CallsSound, NEW c \in Coordinator, CancelNode(c)
  PROVE  \E new : Continue(c, new) /\ Good(new)
<1> DEFINE call == calls[c]
<1>1. call \in Call /\ call.run \in 1..lastRun /\ Fresh(call, runs)
  BY CallFacts, Zenon DEF CancelNode, Good, Sane
<1>2. ASSUME NEW item, Continue(c, CancelNext(call, call.left \ {item}))
      PROVE  \E new : Continue(c, new) /\ Good(new)
  <2>1. call.left \ {item} \in SUBSET [id: Nat, createdAt: Nat]
    BY <1>1, Zenon DEF Call
  <2>2. QED
    BY <1>1, <1>2, <2>1, CancelNextGood, Zenon
<1>3. QED
  BY <1>2, NoCallGood, Zenon DEF CancelNode

LEMMA BeginCancelGood ==
  ASSUME IInv, NEW c \in Coordinator, NEW r \in DOMAIN runs, BeginCancel(c, r)
  PROVE  \E new : Continue(c, new) /\ Good(new)
<1> DEFINE new == [NoCall EXCEPT !.pc = "cancelList", !.run = r, !.revision = runs[r].revision]
<1>1. runs[r].revision \in Nat /\ r \in 1..lastRun /\ r \in Nat
  BY DEF IInv, TypeOK, PipelineRun
<1>2. new \in Call /\ new.pc = "cancelList" /\ new.run = r /\ new.revision = runs[r].revision
  BY <1>1, NoCallTyped, Zenon DEF Call
<1>3. Continue(c, new)
  BY Zenon DEF BeginCancel
<1> HIDE DEF new
<1>4. Good(new)
  BY <1>1, <1>2 DEF Good, Typed, Sane, Fresh
<1>5. QED
  BY <1>3, <1>4, Zenon

LEMMA ReadvanceGood ==
  ASSUME IInv, NEW r \in DOMAIN runs
  PROVE  Good(Advance(r, 1))
<1>1. r \in 1..lastRun /\ lastRun \in Nat /\ 1 \in 0..4
  BY DEF IInv, TypeOK
<1>2. QED
  BY <1>1, AdvanceGood, Zenon DEF Good

(* What a step does to the calls: one coordinator goes on with a call that *)
(* is good already, or starts one for a new run.                           *)
LEMMA CallStep ==
  ASSUME IInv, EngineTypeOK, CallsSound, [EngineNext]_engineVars
  PROVE  \/ calls' = calls
         \/ \E c \in Coordinator : \E new : Continue(c, new) /\ Good(new)
         \/ \E c \in Coordinator : Run(c, None)
<1>1. CASE UNCHANGED calls
  BY <1>1, Zenon
<1>2. ASSUME NEW c \in Coordinator, EngineStep(c) PROVE \E new : Continue(c, new) /\ Good(new)
  <2>1. CASE CreateNode(c)
    BY <2>1, ScheduledGood, Zenon DEF CreateNode
  <2>2. CASE ReleaseNode(c)
    BY <2>2, ScheduledGood, NoCallGood, Zenon DEF ReleaseNode
  <2>3. QED
    BY <1>2, <2>1, <2>2, GetRunGood, ListNodesGood, FailBuildGood, SetStatusGood, ListToCancelGood,
       CancelNodeGood, Zenon DEF EngineStep
<1>3. ASSUME NEW c \in Coordinator, NEW r \in DOMAIN runs, Reconcile(c, r) \/ BeginCancel(c, r)
      PROVE  \E new : Continue(c, new) /\ Good(new)
  BY <1>3, ReadvanceGood, BeginCancelGood, Zenon DEF Reconcile
<1>4. ASSUME NEW c \in Coordinator, NEW i \in DOMAIN executions, Restart(c, i)
      PROVE  \E new : Continue(c, new) /\ Good(new)
  BY <1>4, ReadvanceGood, Zenon DEF Restart, RestartPipelineSubgraph
<1>5. ASSUME NEW c \in Coordinator, Crash(c) PROVE \E new : Continue(c, new) /\ Good(new)
  BY <1>5, NoCallGood, Zenon DEF Crash
<1>6. CASE UNCHANGED engineVars
  BY <1>1, <1>6, Zenon DEF engineVars
<1>7. CASE EngineNext
  BY <1>1, <1>2, <1>3, <1>4, <1>5, <1>7, Zenon DEF EngineNext, ClaimNode, Resolve, Operator
<1>8. QED
  BY <1>6, <1>7, Zenon


-----------------------------------------------------------------------------
(* Every step of the engine, the workers and the operator is a step the    *)
(* store allows its callers.                                               *)
LEMMA CreateNodeAllowed ==
  ASSUME IInv, EngineTypeOK, CallsSound, NEW c \in Coordinator, CreateNode(c)
  PROVE  [Next]_vars
<1> DEFINE call == calls[c]
           n == Nodes[call.index]
           input == BuildInput(call.byNode, n)
           request == [name |-> NodeTask[n].name, version |-> NodeTask[n].version,
                       max |-> NodeTask[n].max, key |-> NodeIdempotencyKey(call.run, n),
                       availableAt |-> 0, run |-> call.run, node |-> n, input |-> input]
<1>1. call.run \in 1..lastRun /\ n \in NodeKey /\ input \in Inputs
  BY AtNode, Zenon DEF CreateNode
<1>2. UNCHANGED vars \/ CreateExecution(request)
  BY Zenon DEF CreateNode
<1> HIDE DEF input
<1>3. NodeTask[n] \in [name: TaskName, version: TaskVersion, max: NodeAttempts]
  BY <1>1, DefinitionAssumption, Zenon
<1>4. NodeIdempotencyKey(call.run, n) \in (1..lastRun) \X NodeKey
  BY <1>1, Zenon DEF NodeIdempotencyKey
<1>5. request \in NodeRequest
  BY <1>1, <1>3, <1>4, Zenon DEF NodeRequest
<1> HIDE DEF request
<1>6. QED
  BY <1>2, <1>5, Zenon DEF Next

LEMMA ReleaseNodeAllowed ==
  ASSUME IInv, EngineTypeOK, CallsSound, NEW c \in Coordinator, ReleaseNode(c)
  PROVE  [Next]_vars
<1> DEFINE call == calls[c]
           n == Nodes[call.index]
           i == call.byNode[n].id
           availableAt == call.byNode[n].availableAt
           input == BuildInput(call.byNode, n)
<1>1. /\ call \in Call /\ n \in NodeKey /\ input \in Inputs /\ call.byNode[n].status = "blocked"
      /\ Informed(call, executions, events, runs, now)
  BY AtNode, Zenon DEF ReleaseNode
<1>2. UNCHANGED vars \/ (i \in DOMAIN executions /\ ReleaseExecution(i, input, availableAt))
  BY Zenon DEF ReleaseNode
<1>3. availableAt \in 0..now
  <2>1. availableAt <= now
    BY <1>1, Zenon DEF Informed
  <2>2. availableAt \in Nat
    BY <1>1, Zenon DEF Call, Seen
  <2>3. now \in Nat
    BY Zenon DEF IInv, TypeOK
  <2> HIDE DEF availableAt
  <2>4. QED
    BY <2>1, <2>2, <2>3
<1> HIDE DEF i, availableAt, input
<1>4. QED
  BY <1>1, <1>2, <1>3, Zenon DEF Next, PipelineCall

LEMMA SetStatusAllowed ==
  ASSUME IInv, EngineTypeOK, CallsSound, NEW c \in Coordinator, SetStatus(c)
  PROVE  [Next]_vars
<1> DEFINE call == calls[c]
           r == call.run
<1>1. call \in Call /\ call.pc = "set" /\ Good(call)
  BY CallFacts, Zenon DEF SetStatus
<1>2. call.status \in RunStatus \ {"pending"}
  BY <1>1, Zenon DEF Good, Typed, Call
<1>3. CASE UNCHANGED vars
  BY <1>3, Zenon
<1>4. CASE /\ r \in DOMAIN runs /\ runs[r].revision = call.revision
           /\ SetPipelineRunStatus(r, call.revision, call.status)
  <2>1. runs[r].status \in Terminal => call.status = "cancelled"
    BY <1>1, <1>4, Zenon DEF Good, Sane, Undecided, Current
  <2>2. call.status \in IF runs[r].status \in Terminal THEN {"cancelled"} ELSE RunStatus \ {"pending"}
    BY <1>2, <2>1, Zenon
  <2>3. SetPipelineRunStatus(r, runs[r].revision, call.status)
    BY <1>4, Zenon
  <2>4. QED
    BY <1>4, <2>2, <2>3, Zenon DEF Next, PipelineCall
<1>5. QED
  BY <1>3, <1>4, Zenon DEF SetStatus

(* Every step of the composition is a step of the store. *)
LEMMA EngineStepAllowed ==
  ASSUME IInv, EngineTypeOK, CallsSound, [EngineNext]_engineVars
  PROVE  [Next]_vars
<1>1. CASE UNCHANGED vars
  BY <1>1, Zenon
<1>2. ASSUME NEW c \in Coordinator, EngineStep(c) PROVE [Next]_vars
  <2>1. CASE CancelNode(c)
    BY <2>1, Zenon DEF CancelNode, Next, OperatorCall
  <2>2. CASE UNCHANGED vars
    BY <2>2, Zenon
  <2>3. QED
    BY <1>2, <2>1, <2>2, CreateNodeAllowed, ReleaseNodeAllowed, SetStatusAllowed, Zenon
    DEF EngineStep, GetRun, ListNodes, FailBuild, ListToCancel
<1>3. ASSUME NEW c \in Coordinator, Run(c, None) PROVE Next
  BY <1>3, Zenon DEF Run, Next, PipelineCall
<1>4. ASSUME NEW c \in Coordinator, NEW i \in DOMAIN executions, Restart(c, i) PROVE Next
  <2>1. /\ executions[i].node \in NodeKey /\ RestartPipelineSubgraph(executions[i].run, executions[i].node, 0)
        /\ executions[i].run \in DOMAIN runs
    BY <1>4, Zenon DEF Restart, RestartPipelineSubgraph
  <2>2. QED
    BY <2>1, Zenon DEF Next, PipelineCall
<1>5. CASE ClaimNode
  <2>1. 1 \in Limits /\ TaskName \X TaskVersion \in SUBSET (TaskName \X TaskVersion)
    BY DefinitionAssumption, Zenon
  <2>2. QED
    BY <1>5, <2>1, Zenon DEF ClaimNode, Next
<1>6. ASSUME NEW i \in DOMAIN executions, Resolve(i) PROVE Next
  BY <1>6, Zenon DEF Resolve, Next, WorkerCall
<1>7. CASE Operator
  <2>1. CASE \E i \in DOMAIN executions : CancelExecution(i)
    BY <2>1, Zenon DEF Next, OperatorCall
  <2>2. CASE \E limit \in Limits : Purge(now + 1, limit)
    <3>1. now + 1 \in 1..(now + 1)
      BY DEF IInv, TypeOK
    <3>2. QED
      BY <2>2, <3>1, Zenon DEF Next, OperatorCall
  <2>3. QED
    BY <1>7, <2>1, <2>2, Zenon DEF Operator
<1>8. CASE Pass \/ ReapExpired
  BY <1>8, Zenon DEF Pass, Next
<1>9. CASE UNCHANGED engineVars
  BY <1>1, <1>9, Zenon DEF engineVars
<1>10. CASE EngineNext
  BY <1>1, <1>2, <1>3, <1>4, <1>5, <1>6, <1>7, <1>8, <1>10, Zenon
  DEF EngineNext, Reconcile, BeginCancel, Crash
<1>11. QED
  BY <1>9, <1>10, Zenon

LEMMA DisturbancesCounted ==
  ASSUME EngineTypeOK, [EngineNext]_engineVars
  PROVE  disturbances' \in Nat
<1>1. CASE Disturb
  BY <1>1 DEF Disturb, EngineTypeOK
<1>2. CASE disturbances' = disturbances
  BY <1>2, Zenon DEF EngineTypeOK
<1>3. ASSUME NEW c \in Coordinator, EngineStep(c) PROVE disturbances' = disturbances
  BY <1>3, Zenon DEF EngineStep, GetRun, ListNodes, FailBuild, CreateNode, ReleaseNode, SetStatus,
              ListToCancel, CancelNode
<1>4. QED
  BY <1>1, <1>2, <1>3, Zenon DEF EngineNext, Run, Reconcile, BeginCancel, Restart, Crash, ClaimNode, Resolve,
                          Operator, engineVars

LEMMA EngineCalls ==
  ASSUME IInv, IInv', EngineTypeOK, CallsSound, [EngineNext]_engineVars, [Next]_vars
  PROVE  EngineTypeOK' /\ CallsSound'
<1> DEFINE Kept(call) == Typed(call, lastRun') /\ Sane(call, executions', events', runs', now')
<1>1. \A call : Good(call) => Kept(call)
  BY CallKept, Zenon DEF Good
<1>2. calls \in [Coordinator -> Call] /\ \A c \in Coordinator : Kept(calls[c])
  BY <1>1, CallFacts, Zenon DEF EngineTypeOK
<1>3. \A call : Kept(call) => call \in Call
  BY Zenon DEF Typed
<1> HIDE DEF Kept
<1>4. ASSUME NEW c \in Coordinator, NEW new, Continue(c, new), Kept(new)
      PROVE  calls' \in [Coordinator -> Call] /\ \A d \in Coordinator : Kept(calls'[d])
  <2>1. new \in Call /\ calls' = [calls EXCEPT ![c] = new]
    BY <1>3, <1>4, Zenon DEF Continue
  <2>2. QED
    BY <1>2, <1>4, <2>1, Zenon
<1>5. ASSUME NEW c \in Coordinator, Run(c, None)
      PROVE  Continue(c, Advance(lastRun + 1, 1)) /\ Kept(Advance(lastRun + 1, 1))
  <2>1. /\ Continue(c, Advance(lastRun + 1, 1)) /\ lastRun' = lastRun + 1 /\ lastRun \in Nat
    BY <1>5, Zenon DEF Run, CreatePipelineRun, IInv, TypeOK
  <2>2. lastRun + 1 \in 1..lastRun' /\ lastRun' \in Nat /\ 1 \in 0..4
    BY <2>1
  <2>3. QED
    BY <2>1, <2>2, AdvanceGood, Zenon DEF Kept
<1>6. calls' \in [Coordinator -> Call] /\ \A d \in Coordinator : Kept(calls'[d])
  BY <1>1, <1>2, <1>4, <1>5, CallStep, Zenon
<1>7. disturbances' \in Nat
  BY DisturbancesCounted, Zenon
<1>8. QED
  BY <1>6, <1>7, Zenon DEF Kept, Typed, EngineTypeOK, CallsSound

-----------------------------------------------------------------------------
(* The invariants of the runs and of the nodes. *)
LEMMA FinishedRunsKept ==
  ASSUME IInv, FinishedRuns, [Next]_vars
  PROVE  FinishedRuns'
<1> SUFFICES ASSUME NEW r \in DOMAIN runs', runs'[r].finishedAt # 0
             PROVE  runs'[r].status \in Terminal
  BY Zenon DEF FinishedRuns
<1>1. r \in DOMAIN runs
  BY NewRuns, Zenon
<1>2. CASE runs'[r] = runs[r]
  BY <1>1, <1>2, Zenon DEF FinishedRuns
<1>3. ASSUME NEW status \in IF runs[r].status \in Terminal THEN {"cancelled"} ELSE RunStatus \ {"pending"},
             SetPipelineRunStatus(r, runs[r].revision, status)
      PROVE  runs'[r].status \in Terminal
  BY <1>1, <1>3, SetValues, Zenon DEF FinishedRuns, Terminal
<1>4. QED
  BY <1>1, <1>2, <1>3, RunChange, SubgraphValues, Zenon

(* Only SetStatus sets the status of a run without restarting it. *)
LEMMA StatusSetByCall ==
  ASSUME IInv, [EngineNext]_engineVars, NEW r \in DOMAIN runs, r \in DOMAIN runs',
         runs'[r] # runs[r], \A root \in NodeKey : ~RestartPipelineSubgraph(r, root, 0)
  PROVE  \E c \in Coordinator : /\ calls[c].pc = "set" /\ calls[c].run = r /\ Current(calls[c], runs)
                                /\ SetPipelineRunStatus(r, calls[c].revision, calls[c].status)
<1>1. CASE UNCHANGED runs
  BY <1>1, Zenon
<1>2. ASSUME NEW c \in Coordinator, SetStatus(c)
      PROVE  /\ calls[c].pc = "set" /\ calls[c].run = r /\ Current(calls[c], runs)
             /\ SetPipelineRunStatus(r, calls[c].revision, calls[c].status)
  <2>1. CASE UNCHANGED vars
    BY <1>1, <2>1, Zenon DEF vars
  <2>2. CASE /\ calls[c].run \in DOMAIN runs /\ runs[calls[c].run].revision = calls[c].revision
             /\ SetPipelineRunStatus(calls[c].run, calls[c].revision, calls[c].status)
    <3>1. calls[c].run = r
      BY <2>2, SetValues
    <3>2. QED
      BY <1>2, <2>2, <3>1, Zenon DEF Current, SetStatus
  <2>3. QED
    BY <1>2, <2>1, <2>2, Zenon DEF SetStatus
<1>3. ASSUME NEW c \in Coordinator, EngineStep(c), ~SetStatus(c) PROVE UNCHANGED runs
  BY <1>3, Zenon DEF EngineStep, GetRun, ListNodes, FailBuild, CreateNode, ReleaseNode, ListToCancel,
              CancelNode, CreateExecution, ReleaseExecution, CancelExecution, vars
<1>4. ASSUME NEW c \in Coordinator, Run(c, None) PROVE FALSE
  <2>1. PICK run : runs' = Put(runs, At(lastRun + 1, run))
    BY <1>4, Zenon DEF Run, CreatePipelineRun
  <2>2. lastRun + 1 \notin DOMAIN runs
    BY DEF IInv, TypeOK
  <2>3. QED
    BY <2>1, <2>2, Zenon DEF Put, At
<1>5. ASSUME NEW c \in Coordinator, NEW i \in DOMAIN executions, Restart(c, i) PROVE FALSE
  <2>1. /\ executions[i].node \in NodeKey
        /\ RestartPipelineSubgraph(executions[i].run, executions[i].node, 0)
    BY <1>5, Zenon DEF Restart
  <2>2. executions[i].run # r
    BY <2>1, Zenon
  <2>3. QED
    BY <2>1, <2>2, SubgraphValues, Zenon
<1>6. CASE ClaimNode \/ \E i \in DOMAIN executions : Resolve(i)
  BY <1>1, <1>6, Zenon DEF ClaimNode, Resolve, Claim, Succeed, Fail, Retry
<1>7. CASE Operator
  BY <1>1, <1>7, PurgeValues, Zenon DEF Operator, CancelExecution
<1>8. CASE Pass \/ ReapExpired
  BY <1>1, <1>8, Zenon DEF Pass, Tick, ReapExpired
<1>9. CASE UNCHANGED engineVars
  BY <1>1, <1>9, Zenon DEF engineVars, vars
<1>10. CASE EngineNext
  BY <1>1, <1>2, <1>3, <1>4, <1>5, <1>6, <1>7, <1>8, <1>10, Zenon
  DEF EngineNext, Reconcile, BeginCancel, Crash, vars
<1>11. QED
  BY <1>9, <1>10, Zenon

(* RunStatusEarned in the vocabulary of the calls, before and after a step. *)
LEMMA EarnedForm == RunStatusEarned <=> \A r \in DOMAIN runs : Earned(executions, r, runs[r].status)
<1>1. \A r, n, statuses : NodeStatus(r, n, statuses) <=> HasNode(executions, r, n, statuses)
  BY Zenon DEF NodeStatus, NodesOf, HasNode
<1>2. QED
  BY <1>1, Zenon DEF RunStatusEarned, Earned

LEMMA EarnedFormNext == RunStatusEarned' <=> \A r \in DOMAIN runs' : Earned(executions', r, runs'[r].status)
<1>1. \A r, n, statuses : NodeStatus(r, n, statuses)' <=> HasNode(executions', r, n, statuses)
  BY Zenon DEF NodeStatus, NodesOf, HasNode
<1>2. QED
  BY <1>1, Zenon DEF RunStatusEarned, Earned

LEMMA EarnedKept ==
  ASSUME EngineInv, [EngineNext]_engineVars, [Next]_vars
  PROVE  RunStatusEarned'
<1> SUFFICES ASSUME NEW r \in DOMAIN runs' PROVE Earned(executions', r, runs'[r].status)
  BY EarnedFormNext, Zenon
<1>1. IInv /\ CallsSound
  BY Zenon DEF EngineInv
<1>2. CASE r \notin DOMAIN runs
  BY <1>1, <1>2, NewRuns, Zenon DEF Earned
<1>3. CASE \E root \in NodeKey : RestartPipelineSubgraph(r, root, 0)
  BY <1>1, <1>3, SubgraphValues, Zenon DEF Earned
<1>4. CASE r \in DOMAIN runs /\ ~\E root \in NodeKey : RestartPipelineSubgraph(r, root, 0)
  <2>1. CASE runs'[r] = runs[r]
    <3>1. Earned(executions, r, runs[r].status)
      BY <1>4, EarnedForm, Zenon DEF EngineInv
    <3>2. QED
      BY <1>1, <1>4, <2>1, <3>1, OutcomesStay, Zenon
  <2>2. CASE runs'[r] # runs[r]
    <3>1. PICK c \in Coordinator : /\ calls[c].pc = "set" /\ calls[c].run = r /\ Current(calls[c], runs)
                                   /\ SetPipelineRunStatus(r, calls[c].revision, calls[c].status)
      BY <1>1, <1>4, <2>2, StatusSetByCall, Zenon
    <3>2. Earned(executions, r, calls[c].status)
      BY <1>1, <3>1, Zenon DEF CallsSound, Sane
    <3>3. QED
      BY <1>1, <3>1, <3>2, SetValues
  <2>3. QED
    BY <2>1, <2>2, Zenon
<1>5. QED
  BY <1>2, <1>3, <1>4, Zenon


(* The input of a node execution is what its dependencies have stored. *)
Fed(es, item) == \A d \in Dependencies[item.node] : Delivers(es, item.run, d, item.input[d])

(* NodesFollowDependencies in the vocabulary of the calls, before and after a step. *)
LEMMA FedForm ==
  NodesFollowDependencies <=>
    \A i \in DOMAIN executions :
      executions[i].run \in DOMAIN runs /\ Untouched(executions, events, executions[i].run) =>
        Fed(executions, executions[i])
BY DEF NodesFollowDependencies, NodesOf, Restarted, InputOf, Untouched, Fed, Delivers

LEMMA FedFormNext ==
  NodesFollowDependencies' <=>
    \A i \in DOMAIN executions' :
      executions'[i].run \in DOMAIN runs' /\ Untouched(executions', events', executions'[i].run) =>
        Fed(executions', executions'[i])
<1>1. \A r : (\A j \in NodesOf(r)' : ~Restarted(j)') <=> Untouched(executions', events', r)
  BY Zenon DEF NodesOf, Restarted, Untouched
<1>2. ASSUME NEW i \in DOMAIN executions'
      PROVE  InputOf(i, executions[i].node)' <=> Fed(executions', executions'[i])
  BY Zenon DEF InputOf, NodesOf, Fed, Delivers
<1>3. QED
  BY <1>1, <1>2, Zenon DEF NodesFollowDependencies

(* Only CreateNode creates an execution. *)
LEMMA CreatedByCall ==
  ASSUME IInv, EngineTypeOK, CallsSound, [EngineNext]_engineVars,
         NEW i \in DOMAIN executions', i \notin DOMAIN executions
  PROVE  \E c \in Coordinator :
           LET call == calls[c]
               n == Nodes[call.index]
           IN  /\ call.pc = "nodes" /\ executions'[i].run = call.run /\ executions'[i].node = n
               /\ executions'[i].input = BuildInput(call.byNode, n)
<1>1. ASSUME DOMAIN executions' = DOMAIN executions PROVE FALSE
  BY <1>1, Zenon
<1>2. ASSUME NEW c \in Coordinator, CreateNode(c)
      PROVE  LET call == calls[c]
                 n == Nodes[call.index]
             IN  /\ call.pc = "nodes" /\ executions'[i].run = call.run /\ executions'[i].node = n
                 /\ executions'[i].input = BuildInput(call.byNode, n)
  <2> DEFINE call == calls[c]
             n == Nodes[call.index]
             input == BuildInput(call.byNode, n)
             request == [name |-> NodeTask[n].name, version |-> NodeTask[n].version,
                         max |-> NodeTask[n].max, key |-> NodeIdempotencyKey(call.run, n),
                         availableAt |-> 0, run |-> call.run, node |-> n, input |-> input]
  <2>1. call.pc = "nodes" /\ (UNCHANGED vars \/ CreateExecution(request))
    BY <1>2, Zenon DEF CreateNode
  <2>2. request.run = call.run /\ request.node = n /\ request.input = input
    BY Zenon
  <2> HIDE DEF request
  <2>3. CreateExecution(request)
    BY <2>1, Zenon DEF vars
  <2>4. executions'[i] = NewExecution(request)
    BY <2>3, CreateValues, Zenon
  <2>5. QED
    BY <2>1, <2>2, <2>4 DEF NewExecution
<1>3. ASSUME NEW S, Transition(S) PROVE FALSE
  BY <1>3, Zenon DEF Transition
<1>4. ASSUME NEW c \in Coordinator, EngineStep(c), ~CreateNode(c) PROVE FALSE
  <2>1. CASE ReleaseNode(c)
    BY <1>1, <1>3, <2>1, OperationTransitions, Zenon DEF ReleaseNode, vars
  <2>2. CASE SetStatus(c)
    BY <1>1, <2>2, Zenon DEF SetStatus, SetPipelineRunStatus, vars
  <2>3. CASE CancelNode(c)
    BY <1>1, <1>3, <2>3, OperationTransitions, Zenon DEF CancelNode, vars
  <2>4. QED
    BY <1>1, <1>4, <2>1, <2>2, <2>3, Zenon DEF EngineStep, GetRun, ListNodes, FailBuild, ListToCancel, vars
<1>5. ASSUME NEW c \in Coordinator, Run(c, None) PROVE FALSE
  BY <1>1, <1>5, Zenon DEF Run, CreatePipelineRun
<1>6. ASSUME NEW c \in Coordinator, NEW j \in DOMAIN executions, Restart(c, j) PROVE FALSE
  BY <1>3, <1>6, OperationTransitions, Zenon DEF Restart
<1>7. CASE ClaimNode
  BY <1>3, <1>7, OperationTransitions, Zenon DEF ClaimNode
<1>8. ASSUME NEW j \in DOMAIN executions, Resolve(j) PROVE FALSE
  BY <1>3, <1>8, OperationTransitions, Zenon DEF Resolve
<1>9. CASE Operator
  BY <1>3, <1>9, OperationTransitions, PurgeValues, Zenon DEF Operator
<1>10. CASE Pass \/ ReapExpired
  BY <1>1, <1>3, <1>10, OperationTransitions, Zenon DEF Pass, Tick
<1>11. CASE UNCHANGED engineVars
  BY <1>1, <1>11, Zenon DEF engineVars, vars
<1>12. CASE EngineNext
  BY <1>1, <1>2, <1>4, <1>5, <1>6, <1>7, <1>8, <1>9, <1>10, <1>12, Zenon
  DEF EngineNext, Reconcile, BeginCancel, Crash, vars
<1>13. QED
  BY <1>11, <1>12, Zenon

(* An execution keeps its run for life. *)
LEMMA RunKept ==
  ASSUME IInv, [Next]_vars, NEW i \in DOMAIN executions, i \in DOMAIN executions'
  PROVE  executions'[i].run = executions[i].run
<1>1. CASE \E S : Transition(S)
  BY <1>1, Zenon DEF Transition, Moved, Reborn, Moves, Restarts, SameWork
<1>2. QED
  BY <1>1, StepTransition, CreateValues, PurgeValues, Zenon

LEMMA FedKept ==
  ASSUME EngineInv, IInv', [EngineNext]_engineVars, [Next]_vars
  PROVE  NodesFollowDependencies'
<1>1. IInv /\ CallsSound /\ EngineTypeOK /\ KnownRuns
  BY Zenon DEF EngineInv
<1>2. SUFFICES ASSUME NEW i \in DOMAIN executions', executions'[i].run \in DOMAIN runs',
                      Untouched(executions', events', executions'[i].run)
               PROVE  Fed(executions', executions'[i])
  BY FedFormNext, Zenon
<1> DEFINE r == executions'[i].run
<1>3. CASE i \notin DOMAIN executions
  <2>1. PICK c \in Coordinator :
          LET call == calls[c]
              n == Nodes[call.index]
          IN  /\ call.pc = "nodes" /\ r = call.run /\ executions'[i].node = n
              /\ executions'[i].input = BuildInput(call.byNode, n)
    BY <1>1, <1>3, CreatedByCall, Zenon
  <2> DEFINE call == calls[c]
             n == Nodes[call.index]
  <2>2. /\ call.run \in 1..lastRun /\ n \in NodeKey /\ Ready(call.byNode, n)
        /\ Informed(call, executions, events, runs, now)
    BY <1>1, <2>1, AtNode, Zenon
  <2>3. r \in DOMAIN runs
    BY <1>1, <1>2, <2>1, <2>2, NewRuns
  <2>4. /\ Untouched(executions, events, r)
        /\ \A root \in NodeKey : ~RestartPipelineSubgraph(r, root, 0)
    BY <1>1, <1>2, <2>3, UntouchedBefore, Zenon
  <2>5. ASSUME NEW d \in Dependencies[n]
        PROVE  Delivers(executions', r, d, BuildInput(call.byNode, n)[d])
    <3>1. d \in NodeKey /\ call.byNode[d].status = "succeeded"
      BY <2>2, DefinitionAssumption, Zenon DEF Ready
    <3>2. Delivers(executions, r, d, call.byNode[d].output)
      BY <2>1, <2>2, <2>3, <2>4, <3>1, Zenon DEF Informed, Backed
    <3>3. Delivers(executions', r, d, call.byNode[d].output)
      BY <1>1, <1>2, <2>3, <2>4, <3>2, OutcomesStay, Zenon
    <3>4. QED
      BY <3>3, Zenon DEF BuildInput
  <2>6. QED
    BY <2>1, <2>5, Zenon DEF Fed
<1>4. CASE i \in DOMAIN executions
  <2>1. executions[i].run = r
    BY <1>1, <1>4, RunKept, Zenon
  <2>2. r \in DOMAIN runs
    <3>1. r \in Nat /\ r <= lastRun /\ lastRun \in Nat
      BY <1>1, <1>4, <2>1, Zenon DEF KnownRuns, IInv, TypeOK, Execution
    <3>2. QED
      BY <1>1, <1>2, <3>1, NewRuns
  <2>3. /\ Untouched(executions, events, r)
        /\ \A root \in NodeKey : ~RestartPipelineSubgraph(r, root, 0)
    BY <1>1, <1>2, <2>2, UntouchedBefore, Zenon
  <2>4. Fed(executions, executions[i])
    BY <1>4, <2>1, <2>2, <2>3, FedForm, Zenon DEF EngineInv
  <2>5. Moves(executions[i], executions'[i], events[i], events'[i])
    BY <1>1, <1>2, <1>4, <2>1, <2>2, <2>3, NodeMoves, Zenon DEF Moved
  <2>6. executions[i].status # "blocked"
    <3>1. /\ Len(events[i]) \in 1..Len(events[i])
          /\ executions[i].status = "blocked" => events[i][Len(events[i])].type = "restarted"
      BY <1>1, <1>4, LastEvent
    <3>2. QED
      BY <1>4, <2>1, <2>3, <3>1, Zenon DEF Untouched
  <2>7. executions'[i].input = executions[i].input /\ executions'[i].node = executions[i].node
    BY <2>5, <2>6, Zenon DEF Moves, Starts, Renews, Ends, Cancels, Releases, SameWork
  <2>8. QED
    BY <1>1, <1>2, <2>1, <2>2, <2>3, <2>4, <2>7, OutcomesStay, Zenon DEF Fed
<1>5. QED
  BY <1>3, <1>4, Zenon


LEMMA PurgedRun ==
  ASSUME NEW before, NEW limit, Purge(before, limit), NEW r \in DOMAIN runs, r \notin DOMAIN runs'
  PROVE  runs[r].finishedAt # 0
<1>1. PICK batch \in SUBSET PurgeCandidates(before) :
        runs' = Restrict(runs, DOMAIN runs \ {c.id : c \in {b \in batch : b.pipeline}})
  BY Zenon DEF Purge
<1>2. PICK c \in batch : c.pipeline /\ c.id = r
  BY <1>1, Zenon DEF Restrict
<1>3. c \in PurgeCandidates(before)
  BY <1>1, Zenon
<1>4. QED
  BY <1>2, <1>3 DEF PurgeCandidates

-----------------------------------------------------------------------------
LEMMA EngineInitInv == EngineInit => EngineInv
<1> SUFFICES ASSUME EngineInit PROVE EngineInv
  BY Zenon
<1>1. IInv
  BY InitInv, Zenon DEF EngineInit
<1>2. DOMAIN runs = {} /\ DOMAIN executions = {}
  BY DEF EngineInit, Init
<1>3. \A c \in Coordinator : calls[c] = NoCall
  BY Zenon DEF EngineInit
<1>4. EngineTypeOK
  <2>1. calls \in [Coordinator -> Call] /\ disturbances \in Nat
    BY NoCallTyped, Zenon DEF EngineInit
  <2>2. NoCall.pc = "idle"
    BY Zenon DEF NoCall
  <2>3. QED
    BY <1>3, <2>1, <2>2, Zenon DEF EngineTypeOK
<1>5. CallsSound
  BY <1>3, NoCallGood, Zenon DEF CallsSound, Good
<1>6. QED
  BY <1>1, <1>2, <1>4, <1>5, Zenon DEF EngineInv, FinishedRuns, KnownRuns, RunStatusEarned, NodesFollowDependencies

LEMMA EngineNextInv == EngineInv /\ [EngineNext]_engineVars => EngineInv' /\ [Next]_vars
<1> SUFFICES ASSUME EngineInv, [EngineNext]_engineVars PROVE EngineInv' /\ [Next]_vars
  BY Zenon
<1>1. IInv /\ FinishedRuns /\ KnownRuns /\ EngineTypeOK /\ CallsSound
  BY Zenon DEF EngineInv
<1>2. [Next]_vars
  BY <1>1, EngineStepAllowed, Zenon
<1>3. IInv'
  BY <1>1, <1>2, NextInv, Zenon
<1>4. EngineTypeOK' /\ CallsSound'
  BY <1>1, <1>2, <1>3, EngineCalls, Zenon
<1>5. FinishedRuns' /\ KnownRuns'
  BY <1>1, <1>2, FinishedRunsKept, KnownRunsKept, Zenon
<1>6. RunStatusEarned' /\ NodesFollowDependencies'
  BY <1>2, <1>3, EarnedKept, FedKept, Zenon
<1>7. QED
  BY <1>2, <1>3, <1>4, <1>5, <1>6, Zenon DEF EngineInv

(* The inductive invariant of the engine. *)
THEOREM EngineInvariance == EngineSpec => []EngineInv
BY EngineInitInv, EngineNextInv, PTL DEF EngineSpec

(* What a call in progress holds is what its next step needs, for any      *)
(* number of coordinators, runs and nodes (Engine.Advance, Engine.Cancel). *)
THEOREM EngineTypeCorrect == EngineSpec => []EngineTypeOK
<1>1. EngineInv => EngineTypeOK
  BY Zenon DEF EngineInv
<1>2. QED
  BY <1>1, EngineInvariance, PTL

(* The engine, with workers, operators, crashes and other coordinators     *)
(* between any two of its store calls, uses the store only as the store's  *)
(* specification allows; what is proved of the store holds under it.       *)
THEOREM EngineKeepsStoreContract == EngineSpec => StoreContract
<1>1. EngineInit => Init
  BY Zenon DEF EngineInit
<1>2. QED
  BY <1>1, EngineNextInv, EngineInvariance, PTL DEF EngineSpec, StoreContract, Spec

(* A run is succeeded only while every node is, and failed only while a    *)
(* node is failed or cancelled or cannot be built, for every definition    *)
(* and any number of coordinators (advanceOnce, SetPipelineRunStatus).     *)
THEOREM StatusesEarned == EngineSpec => []RunStatusEarned
<1>1. EngineInv => RunStatusEarned
  BY Zenon DEF EngineInv
<1>2. QED
  BY <1>1, EngineInvariance, PTL

(* In a run of which nothing was restarted every node works on the outputs *)
(* its dependencies have stored (advanceOnce, CreateExecution).            *)
THEOREM InputsFollowDependencies == EngineSpec => []NodesFollowDependencies
<1>1. EngineInv => NodesFollowDependencies
  BY Zenon DEF EngineInv
<1>2. QED
  BY <1>1, EngineInvariance, PTL

(* The outcome of a run is left only by a restart or a cancellation        *)
(* (engine.go:104, the revision check of SetPipelineRunStatus).            *)
THEOREM OutcomesKept == EngineSpec => OutcomeKept
<1> DEFINE Kept(r) == \/ runs'[r].status = "cancelled"
                      \/ \E i \in NodesOf(r) : executions[i].status \notin Active
                                              /\ executions'[i].status = "pending"
<1>1. ASSUME EngineInv, [EngineNext]_engineVars,
             NEW r \in DOMAIN runs \cap DOMAIN runs',
             runs[r].status \in Terminal, runs'[r].status # runs[r].status
      PROVE  Kept(r)
  <2>1. IInv /\ CallsSound
    BY <1>1, Zenon DEF EngineInv
  <2>2. CASE \E root \in NodeKey : RestartPipelineSubgraph(r, root, 0)
    BY <2>1, <2>2, SubgraphRoot DEF NodesOf
  <2>3. CASE ~\E root \in NodeKey : RestartPipelineSubgraph(r, root, 0)
    <3>1. PICK c \in Coordinator : /\ calls[c].pc = "set" /\ calls[c].run = r /\ Current(calls[c], runs)
                                   /\ SetPipelineRunStatus(r, calls[c].revision, calls[c].status)
      BY <1>1, <2>1, <2>3, StatusSetByCall, Zenon
    <3>2. calls[c].status = "cancelled"
      BY <1>1, <2>1, <3>1, Zenon DEF CallsSound, Sane, Undecided
    <3>3. QED
      BY <2>1, <3>1, <3>2, SetValues
  <2>4. QED
    BY <2>2, <2>3, Zenon
<1>2. EngineInv /\ [EngineNext]_engineVars =>
        [\A r \in DOMAIN runs \cap DOMAIN runs' :
           runs[r].status \in Terminal /\ runs'[r].status # runs[r].status => Kept(r)]_engineVars
  BY <1>1, Zenon
<1>3. QED
  BY <1>2, EngineInvariance, PTL DEF EngineSpec, OutcomeKept

(* A purge deletes finished runs only (Purge looks at FinishedAt, which a  *)
(* restart clears).                                                        *)
THEOREM PurgeTakesFinishedRuns == EngineSpec => PurgedRunsWereFinished
<1>1. ASSUME EngineInv, [EngineNext]_engineVars, NEW r \in DOMAIN runs \ DOMAIN runs'
      PROVE  runs[r].status \in Terminal
  <2>1. IInv /\ FinishedRuns /\ [Next]_vars
    BY <1>1, EngineNextInv, Zenon DEF EngineInv
  <2>2. \E before, limit : Purge(before, limit)
    <3>1. CASE \E key : CreatePipelineRun(key)
      BY <1>1, <3>1, Zenon DEF CreatePipelineRun, Put
    <3>2. QED
      BY <1>1, <2>1, <3>1, RunKeysKept, Zenon
  <2>3. runs[r].finishedAt # 0
    BY <1>1, <2>2, PurgedRun, Zenon
  <2>4. QED
    BY <1>1, <2>1, <2>3, Zenon DEF FinishedRuns
<1>2. EngineInv /\ [EngineNext]_engineVars =>
        [\A r \in DOMAIN runs \ DOMAIN runs' : runs[r].status \in Terminal]_engineVars
  BY <1>1, Zenon
<1>3. QED
  BY <1>2, EngineInvariance, PTL DEF EngineSpec, PurgedRunsWereFinished

=============================================================================
