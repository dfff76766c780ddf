----------------------------- MODULE RedisIndexes -----------------------------
(***************************************************************************)
(* The Redis store (execution/redis) keeps the records of MemoryStore and, *)
(* beside them, sorted sets, counters and references derived from them.    *)
(* This module is that derived state, the transactions that maintain it,   *)
(* and the methods that are made of those alone: the scans of Claim and    *)
(* ReapExpired, SetPipelineRunStatus, RestartPipelineSubgraph and Purge.   *)
(*                                                                         *)
(* A method is not atomic here.  It asks the server for the time, may read *)
(* a list of candidates, and then changes one record per WATCH/MULTI/EXEC  *)
(* transaction.  Everything read inside a transaction is watched, so a     *)
(* transaction that commits is one step; the time and the candidates are   *)
(* older than it.  A method of several steps keeps what it has read in its *)
(* entry of client, and may end early: the context ends, the connection    *)
(* breaks, or the sixteenth attempt of watch meets a conflict (Abort).     *)
(***************************************************************************)
EXTENDS MemoryStore

CONSTANTS
  Worker, Operator,  \* the concurrent callers
  Resolution,        \* instants per millisecond, the unit of a score
  Window             \* the due entries of one queue a Claim looks at (the code: 128)

ASSUME RedisAssumption ==
  /\ Resolution \in Nat \ {0}
  /\ Window \in Nat \ {0}
  /\ Worker \cap Operator = {}

VARIABLES
  queue,         \* id -> score, the delivery queues of all task names
  leases,        \* id -> score, the index of lease deadlines
  listed,        \* the executions, task and run-executions indexes
  byStatus,      \* status -> ids
  counts,        \* <<task name, status>> -> the counter shown to monitoring
  runsByStatus,  \* run status -> runs
  runCounts,     \* run status -> the counter
  client,        \* caller -> the method it is in
  stalePurge     \* history: a purge deleted something that had changed since it was listed

derived == <<queue, leases, listed, byStatus, counts>>
runIndexes == <<runsByStatus, runCounts>>
redisVars == <<vars, derived, runIndexes, client, stalePurge>>

NoCall == [op |-> "none"]

RedisInit ==
  /\ Init
  /\ queue = << >> /\ leases = << >> /\ listed = {}
  /\ byStatus = [s \in Status |-> {}]
  /\ counts = [k \in TaskName \X Status |-> 0]
  /\ runsByStatus = [s \in RunStatus |-> {}]
  /\ runCounts = [s \in RunStatus |-> 0]
  /\ client = [c \in Worker \cup Operator |-> NoCall]
  /\ stalePurge = FALSE

RedisTick == Tick /\ UNCHANGED <<derived, runIndexes, client, stalePurge>>

Becomes(c, call) == client' = [client EXCEPT ![c] = call]

Return(c) == Becomes(c, NoCall)

(* A method returns without having changed anything more. *)
Quit(c) == Return(c) /\ UNCHANGED <<vars, derived, runIndexes, stalePurge>>

(* The first step of a method: its arguments, and the time of the server. *)
Begin(c, call) ==
  /\ client[c].op = "none"
  /\ Becomes(c, call)
  /\ UNCHANGED <<vars, derived, runIndexes, stalePurge>>

Abort(c) == client[c].op # "none" /\ Quit(c)

score(instant) == instant \div Resolution

(* The executions ids as the derived indexes show them after a step.  An   *)
(* active execution is queued at the instant it may be claimed, a running  *)
(* one also has its deadline in leases.                                    *)
Delivering(ids) == {i \in ids : executions'[i].status \in Active}
Holding(ids) == {i \in ids : executions'[i].status = "running"}

Requeue(ids) ==
  /\ queue' = Put(Restrict(queue, DOMAIN queue \ ids), [i \in Delivering(ids) |->
                score(IF i \in Holding(ids) THEN executions'[i].leaseUntil ELSE executions'[i].availableAt)])
  /\ leases' = Put(Restrict(leases, DOMAIN leases \ ids),
                [i \in Holding(ids) |-> score(executions'[i].leaseUntil)])

Faulty_Recount(ids) ==   \* a redelivery is counted as one more running execution
  /\ byStatus' = [s \in Status |-> (byStatus[s] \ {i \in ids : executions[i].status = s})
                                   \cup {i \in ids : executions'[i].status = s}]
  /\ counts' = [k \in DOMAIN counts |-> counts[k]
                + Cardinality({i \in ids : <<executions[i].name, executions'[i].status>> = k})
                - Cardinality({i \in ids : /\ <<executions[i].name, executions[i].status>> = k
                                           /\ executions'[i].status # executions[i].status})]
  /\ UNCHANGED listed

Recount(ids) ==
  /\ byStatus' = [s \in Status |-> (byStatus[s] \ {i \in ids : executions[i].status = s})
                                   \cup {i \in ids : executions'[i].status = s}]
  /\ counts' = [k \in DOMAIN counts |-> counts[k]
                + Cardinality({i \in ids : <<executions[i].name, executions'[i].status>> = k})
                - Cardinality({i \in ids : <<executions[i].name, executions[i].status>> = k})]
  /\ UNCHANGED listed

Reindex(ids) == Requeue(ids) /\ Recount(ids)

(* The transaction of one transition: the records, their events and every index. *)
saveTransition(new, type) == appendEvent(new, type) /\ Reindex(DOMAIN new)

NoRuns == UNCHANGED <<runs, runIndexes>>
Rest == UNCHANGED <<Indexes, now, stalePurge>>
Alone == UNCHANGED <<now, runIndexes, client, stalePurge>>

-----------------------------------------------------------------------------
(* The indexes of what is created: it is pending, and listed everywhere. *)
AddExecution(id) ==
  /\ queue' = Put(queue, At(id, score(executions'[id].availableAt)))
  /\ listed' = listed \cup {id}
  /\ byStatus' = [byStatus EXCEPT !["pending"] = @ \cup {id}]
  /\ counts' = [counts EXCEPT ![<<executions'[id].name, "pending">>] = @ + 1]
  /\ UNCHANGED leases

AddRun(r) ==
  /\ runsByStatus' = [runsByStatus EXCEPT !["pending"] = @ \cup {r}]
  /\ runCounts' = [runCounts EXCEPT !["pending"] = @ + 1]

(* A run with its indexes, as a change of its status saves it. *)
Faulty_SaveRun(r, run) ==   \* the run stays in the index of its earlier status
  /\ runs' = [runs EXCEPT ![r] = run]
  /\ runsByStatus' = [runsByStatus EXCEPT ![run.status] = @ \cup {r}]
  /\ runCounts' = [s \in RunStatus |-> runCounts[s] - (IF runs[r].status = s THEN 1 ELSE 0)
                                                      + (IF run.status = s THEN 1 ELSE 0)]

SaveRun(r, run) ==
  /\ runs' = [runs EXCEPT ![r] = run]
  /\ runsByStatus' = [s \in RunStatus |-> (runsByStatus[s] \ (IF runs[r].status = s THEN {r} ELSE {}))
                                          \cup (IF run.status = s THEN {r} ELSE {})]
  /\ runCounts' = [s \in RunStatus |-> runCounts[s] - (IF runs[r].status = s THEN 1 ELSE 0)
                                                      + (IF run.status = s THEN 1 ELSE 0)]

(* Unlike the store in memory, this one clears FinishedAt when a run goes on. *)
SetStatusCommit(call, r, expectedRevision, status) ==
  /\ r \in DOMAIN runs
  /\ runs[r].revision = expectedRevision
  /\ runs[r].revision < MaxRevision
  /\ SaveRun(r, [runs[r] EXCEPT !.status = status, !.revision = @ + 1,
                                !.finishedAt = IF status \in Terminal THEN call.at ELSE 0])
  /\ UNCHANGED <<executions, events, derived, client>> /\ Rest

-----------------------------------------------------------------------------
(* Claim: the due heads of the queues, then one transaction per candidate, *)
(* in the order the records had when they were read.  A queue entry whose  *)
(* record is gone is discarded.                                            *)
Orders(ids) ==
  {s \in [1..Cardinality(ids) -> ids] :
     /\ Range(s) = ids
     /\ \A j, k \in DOMAIN s : j < k => ~Earlier(executions[s[k]], executions[s[j]])}

loadDueCandidates(c) ==
  LET call == client[c]
      due == {i \in DOMAIN queue : queue[i] <= score(call.at)}
      live == due \cap DOMAIN executions
      queueOf(name) == {i \in live : executions[i].name = name}
      names == {key[1] : key \in call.keys}
  IN
  /\ call.op = "claim"
  /\ \E heads \in SUBSET live :
       /\ \A name \in TaskName :
            IF name \in names
            THEN FirstOf(heads \cap queueOf(name), queueOf(name), Window, LAMBDA i, j : queue[i] < queue[j])
            ELSE heads \cap queueOf(name) = {}
       /\ \E order \in Orders(heads) :
            Becomes(c, IF heads = {} THEN NoCall
                       ELSE [op |-> "claiming", at |-> call.at, keys |-> call.keys, todo |-> order,
                             left |-> IF call.limit <= 0 THEN 1 ELSE call.limit])
  /\ queue' = Restrict(queue, DOMAIN queue \ (due \ live))
  /\ UNCHANGED <<vars, leases, listed, byStatus, counts, runIndexes, stalePurge>>

(* The rest of a Claim after one more candidate was won or lost. *)
NextCandidate(call, won) ==
  LET left == IF won THEN call.left - 1 ELSE call.left IN
  IF Len(call.todo) = 1 \/ left = 0 THEN NoCall
  ELSE [call EXCEPT !.todo = Tail(@), !.left = left]

(* ReapExpired: the ids whose deadline has passed, then one transaction    *)
(* each.  A recoverable delivery only leaves the index of deadlines: the   *)
(* queue still has it.                                                     *)
ReapExpiredIDs(c) ==
  LET call == client[c]
      expired == {i \in DOMAIN leases : leases[i] <= score(call.at)}
  IN
  /\ call.op = "reap"
  /\ Becomes(c, IF expired = {} THEN NoCall
                ELSE [op |-> "reaping", at |-> call.at, todo |-> expired])
  /\ UNCHANGED <<vars, derived, runIndexes, stalePurge>>

removeLeaseIndex(i) ==
  /\ leases' = Restrict(leases, DOMAIN leases \ {i})
  /\ UNCHANGED <<executions, events, queue, listed, byStatus, counts>>

-----------------------------------------------------------------------------
(* RestartPipelineSubgraph looks up the executions of the nodes first; the *)
(* transaction watches the run and the executions it found.                *)
FindNodes(c) ==
  LET call == client[c]
      keys == {<<call.run, n>> : n \in {call.root} \cup Descendants[call.root]}
  IN
  /\ call.op = "subgraph"
  /\ Becomes(c, [op |-> "restartNodes", at |-> call.at, run |-> call.run, root |-> call.root,
                 ids |-> {nodes[k] : k \in keys \cap DOMAIN nodes}])
  /\ UNCHANGED <<vars, derived, runIndexes, stalePurge>>

RestartNodes(c) ==
  LET call == client[c]
      r == call.run
      isRoot(i) == executions[i].node = call.root
  IN
  /\ call.op = "restartNodes"
  /\ IF /\ r \in DOMAIN runs
        /\ call.ids \subseteq DOMAIN executions
        /\ \A i \in call.ids : executions[i].status \notin Active
        /\ \E i \in call.ids : isRoot(i)
     THEN /\ runs[r].revision < MaxRevision
          /\ saveTransition([i \in call.ids |->
                Reset(executions[i], IF isRoot(i) THEN "pending" ELSE "blocked", call.at)], "restarted")
          /\ SaveRun(r, [runs[r] EXCEPT !.status = "running", !.revision = @ + 1, !.finishedAt = 0])
     ELSE UNCHANGED <<executions, events, derived, runs, runIndexes>>
  /\ Return(c)
  /\ Rest

-----------------------------------------------------------------------------
(* Purge reads the finished runs with their nodes, then the finished       *)
(* standalone executions, and deletes the oldest of them as they were      *)
(* read: nothing is watched.  An index entry without its record makes the  *)
(* whole call fail.                                                        *)
PurgeListRuns(c) ==
  LET call == client[c]
      ids == UNION {runsByStatus[s] : s \in Terminal}
      old == {r \in ids : runs[r].finishedAt # 0 /\ runs[r].finishedAt < call.before}
  IN
  /\ call.op = "purge"
  /\ IF ids \subseteq DOMAIN runs
     THEN Becomes(c, [op |-> "purgeList", before |-> call.before, limit |-> call.limit,
                      runs |-> Restrict(runs, old),
                      items |-> Restrict(executions, {i \in listed : executions[i].run \in old})])
     ELSE Return(c)
  /\ UNCHANGED <<vars, derived, runIndexes, stalePurge>>

PurgeListExecutions(c) ==
  LET call == client[c]
      ids == UNION {byStatus[s] : s \in Terminal}
      old == {i \in ids : /\ executions[i].status \in Terminal /\ executions[i].run = 0
                          /\ executions[i].finishedAt < call.before}
      candidates == {[pipeline |-> TRUE, id |-> r, finished |-> call.runs[r].finishedAt] : r \in DOMAIN call.runs}
               \cup {[pipeline |-> FALSE, id |-> i, finished |-> executions[i].finishedAt] : i \in old}
  IN
  /\ call.op = "purgeList"
  /\ IF ids \subseteq DOMAIN executions
     THEN \E batch \in SUBSET candidates :
            LET deadRuns == {d.id : d \in {b \in batch : b.pipeline}}
                dead == {d.id : d \in {b \in batch : ~b.pipeline}}
            IN
            /\ FirstOf(batch, candidates, IF call.limit <= 0 THEN 1000 ELSE call.limit,
                       LAMBDA d, e : d.finished < e.finished)
            /\ Becomes(c, IF batch = {} THEN NoCall
                 ELSE [op |-> "purgeDelete", runs |-> Restrict(call.runs, deadRuns),
                       items |-> Put(Restrict(call.items, {i \in DOMAIN call.items : call.items[i].run \in deadRuns}),
                                     Restrict(executions, dead))])
     ELSE Return(c)
  /\ UNCHANGED <<vars, derived, runIndexes, stalePurge>>

Faulty_purgeExecution(items) ==   \* finished work is in no queue, so none is cleared
  LET dead == DOMAIN items IN
  /\ executions' = Restrict(executions, DOMAIN executions \ dead)
  /\ events' = Restrict(events, DOMAIN events \ dead)
  /\ listed' = listed \ dead
  /\ UNCHANGED <<queue, leases>>
  /\ byStatus' = [s \in Status |-> byStatus[s] \ {i \in dead : items[i].status = s}]
  /\ counts' = [k \in DOMAIN counts |-> counts[k] - Cardinality({i \in dead : <<items[i].name, items[i].status>> = k})]
  /\ idempotent' = Restrict(idempotent, DOMAIN idempotent \ {<<items[i].name, items[i].key>> : i \in dead})
  /\ nodes' = Restrict(nodes, DOMAIN nodes \ {<<items[i].run, items[i].node>> : i \in dead})

purgeExecution(items) ==
  LET dead == DOMAIN items IN
  /\ executions' = Restrict(executions, DOMAIN executions \ dead)
  /\ events' = Restrict(events, DOMAIN events \ dead)
  /\ listed' = listed \ dead
  /\ queue' = Restrict(queue, DOMAIN queue \ dead)
  /\ leases' = Restrict(leases, DOMAIN leases \ dead)
  /\ byStatus' = [s \in Status |-> byStatus[s] \ {i \in dead : items[i].status = s}]
  /\ counts' = [k \in DOMAIN counts |-> counts[k] - Cardinality({i \in dead : <<items[i].name, items[i].status>> = k})]
  /\ idempotent' = Restrict(idempotent, DOMAIN idempotent \ {<<items[i].name, items[i].key>> : i \in dead})
  /\ nodes' = Restrict(nodes, DOMAIN nodes \ {<<items[i].run, items[i].node>> : i \in dead})

(* What was listed has moved on: it was restarted, or another purge was faster. *)
Changed(call) ==
  \/ \E i \in DOMAIN call.items : i \notin DOMAIN executions \/ executions[i].status # call.items[i].status
  \/ \E r \in DOMAIN call.runs : r \notin DOMAIN runs \/ runs[r].status # call.runs[r].status

PurgeDelete(c) ==
  LET call == client[c]
      dead == DOMAIN call.runs
  IN
  /\ call.op = "purgeDelete"
  /\ purgeExecution(call.items)
  /\ runs' = Restrict(runs, DOMAIN runs \ dead)
  /\ runsByStatus' = [s \in RunStatus |-> runsByStatus[s] \ {r \in dead : call.runs[r].status = s}]
  /\ runCounts' = [s \in RunStatus |-> runCounts[s] - Cardinality({r \in dead : call.runs[r].status = s})]
  /\ runIdempotent' = Restrict(runIdempotent, DOMAIN runIdempotent \ {call.runs[r].key : r \in dead})
  /\ stalePurge' = (stalePurge \/ Changed(call))
  /\ Return(c)
  /\ UNCHANGED <<lastID, lastRun, now>>

-----------------------------------------------------------------------------
(* Type invariant: scores are kept for identifiers that were handed out,   *)
(* and every call decides with a time the server has already shown.        *)
RedisTypeOK ==
  /\ TypeOK
  /\ queue \in [DOMAIN queue -> Nat] /\ leases \in [DOMAIN leases -> Nat]
  /\ DOMAIN queue \cup DOMAIN leases \cup listed \subseteq 1..lastID
  /\ byStatus \in [Status -> SUBSET (1..lastID)]
  /\ counts \in [TaskName \X Status -> Int]
  /\ runsByStatus \in [RunStatus -> SUBSET (1..lastRun)]
  /\ runCounts \in [RunStatus -> Int]
  /\ \A c \in Worker \cup Operator : "at" \in DOMAIN client[c] => client[c].at \in 1..now

(* The sorted sets find all work there is: whatever may be claimed now is  *)
(* due in its queue, whatever must be reaped now is due in the index of    *)
(* deadlines, and no queue holds blocked or finished work.  It holds       *)
(* although scores are rounded to milliseconds, reaps drop deadlines, late *)
(* heartbeats move them, and a purge deletes what has changed.             *)
IndexesFindWork ==
  /\ DOMAIN queue \cup DOMAIN leases \subseteq DOMAIN executions
  /\ \A i \in DOMAIN executions :
    LET item == executions[i] IN
    /\ Claimable(item, {<<item.name, item.version>>}) => i \in DOMAIN queue /\ queue[i] <= score(now)
    /\ Reapable(item) => i \in DOMAIN leases /\ leases[i] <= score(now)
    /\ item.status \in Terminal \cup {"blocked"} => i \notin DOMAIN queue \cup DOMAIN leases

(* As long as no purge deleted what had changed since it was listed, every *)
(* derived index and counter says exactly what the records say, and every  *)
(* uniqueness reference is right (store.go:731, "keeps the record, queue,  *)
(* lease, status index, and event list consistent").                       *)
DerivedExactly ==
  ~stalePurge =>
    /\ listed = DOMAIN executions
    /\ DOMAIN queue = {i \in DOMAIN executions : executions[i].status \in Active}
    /\ DOMAIN leases \subseteq {i \in DOMAIN executions : executions[i].status = "running"}
    /\ \A s \in Status : byStatus[s] = {i \in DOMAIN executions : executions[i].status = s}
    /\ \A k \in DOMAIN counts :
         counts[k] = Cardinality({i \in DOMAIN executions : <<executions[i].name, executions[i].status>> = k})
    /\ \A s \in RunStatus : /\ runsByStatus[s] = {r \in DOMAIN runs : runs[r].status = s}
                            /\ runCounts[s] = Cardinality(runsByStatus[s])
    /\ IndexesAgree

=============================================================================
