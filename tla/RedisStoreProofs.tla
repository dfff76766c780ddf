-------------------------- MODULE RedisStoreProofs --------------------------
(***************************************************************************)
(* The invariants of RedisStore.  Every method is shown to consist of the  *)
(* steps that RedisMethodsProofs shows to keep the inductive invariant     *)
(* RedisInv: what MemoryStore does to a record at the time the caller has  *)
(* read keeps the record's references, and a lease counts from a time the  *)
(* server has shown.                                                       *)
(***************************************************************************)
EXTENDS RedisStore, RedisMethodsProofs

LEMMA ReadAppends ==
  ASSUME NEW call, NEW i, NEW value, NEW type,
         Read(call)!appendEvent(Read(call)!At(i, value), type)
  PROVE  appendEvent(At(i, value), type)
BY Zenon DEF Read!appendEvent, Read!At, Read!Put, appendEvent, At, Put

LEMMA ReadFinishes ==
  ASSUME NEW call, call.at \in Nat, NEW item \in Execution, NEW status \in Terminal, NEW output \in Nat
  PROVE  /\ Kept(item, Read(call)!Finished(item, status))
         /\ Kept(item, [Read(call)!Finished(item, status) EXCEPT !.output = output])
BY FinishedKept, Zenon DEF Read!Finished, Read!Unleased, Unleased

LEMMA CreateCommitSound ==
  ASSUME RedisInv, NEW call \in [at: 1..now], NEW request \in EnqueueRequest \cup NodeRequest,
         CreateCommit(call, request)
  PROVE  RecordsSound' /\ RecordsGrow
<1> DEFINE item == Read(call)!NewExecution(request)
<1>1. now \in Nat /\ call.at \in Nat
  BY DEF RedisInv
<1>2. /\ request.name \in TaskName /\ request.version \in TaskVersion
      /\ request.key \in IdempotencyKey \cup (Nat \X NodeKey) \cup {None}
      /\ request.max \in Int /\ request.availableAt \in Nat
      /\ request.run \in Nat /\ request.node \in NodeKey \cup {None} /\ request.input \in Inputs
      /\ request.run # 0 => request.node # None
  <2>1. CASE request \in EnqueueRequest
    BY <1>1, <2>1, ConstantsAssumption DEF EnqueueRequest
  <2>2. CASE request \in NodeRequest
    BY <2>2, ConstantsAssumption DEF NodeRequest
  <2>3. QED
    BY <2>1, <2>2, Zenon
<1>3. /\ item \in Execution /\ item.status = "pending" /\ item.name = request.name /\ item.key = request.key
      /\ item.run = request.run /\ item.node = request.node
  BY <1>1, <1>2 DEF Read!NewExecution, Read!OrNow, Execution, Status
<1> HIDE DEF item
<1>4. Creates(item)
  BY <1>3, Zenon DEF CreateCommit, Read!CreateExecution, Read!Put, Read!At, Put, At, Creates, Alone, item
<1>5. QED
  BY <1>2, <1>3, <1>4, CreateSound, Zenon

LEMMA DeliverySound ==
  ASSUME RedisInv, DeliveryCall
  PROVE  RedisInv'
<1>0. PICK i \in DOMAIN executions : \E token \in Deliveries(i) :
        /\ owned(i, token)
        /\ \E call \in [at: (executions[i].leaseUntil - Lease)..now] :
             HeartbeatCommit(call, i, token) \/ transition(call, i, token)
  BY Zenon DEF DeliveryCall
<1>1. PICK token \in Deliveries(i) :
        /\ owned(i, token)
        /\ \E call \in [at: (executions[i].leaseUntil - Lease)..now] :
             HeartbeatCommit(call, i, token) \/ transition(call, i, token)
  BY <1>0, Zenon
<1>2. PICK call \in [at: (executions[i].leaseUntil - Lease)..now] :
        HeartbeatCommit(call, i, token) \/ transition(call, i, token)
  BY <1>1, Zenon
<1>3. /\ executions[i] \in Execution /\ executions[i].leaseUntil > Lease
  BY <1>1, Zenon DEF owned, RedisInv, RecordsSound, RecordTypes, LeaseDated
<1>4. token \in Nat /\ call.at \in Nat /\ call.at + Lease \in Nat /\ call.at + Lease > Lease
  <2>1. token \in Nat
    BY <1>1 DEF Deliveries
  <2>2. call.at \in (executions[i].leaseUntil - Lease)..now
    BY <1>2
  <2>3. executions[i].leaseUntil \in Nat /\ Lease \in Nat /\ now \in Nat
    BY <1>3, ConstantsAssumption DEF Execution, RedisInv
  <2>4. QED
    BY <1>3, <2>1, <2>2, <2>3
<1>5. CASE HeartbeatCommit(call, i, token)
  <2> DEFINE value == [executions[i] EXCEPT !.leaseUntil = call.at + Lease]
  <2>1. Writes(i, value) /\ Indexes' = Indexes /\ runs' = runs /\ Reindex({i}) /\ Alone
    BY <1>5, Zenon DEF HeartbeatCommit, Read!Heartbeat, Read!Indexes, Indexes, Writes
  <2>2. Kept(executions[i], value)
    BY <1>3, <1>4, RenewedKept, Zenon
  <2> HIDE DEF value
  <2>3. QED
    BY <2>1, <2>2, WriteSound
<1>6. CASE transition(call, i, token)
  <2>1. Reindex({i}) /\ Alone
    BY <1>6, Zenon DEF transition
  <2>2. CASE Read(call)!Succeed(i, token)
    <3> DEFINE value == [Read(call)!Finished(executions[i], "succeeded") EXCEPT !.output = token]
    <3>1. Kept(executions[i], value)
      BY <1>3, <1>4, ReadFinishes, Zenon DEF Terminal
    <3>2. /\ Read(call)!appendEvent(Read(call)!At(i, value), "succeeded")
          /\ Indexes' = Indexes /\ runs' = runs
      BY <2>2, Zenon DEF Read!Succeed, Read!Indexes, Indexes
    <3>3. "succeeded" \in EventType
      BY Zenon DEF EventType
    <3> HIDE DEF value
    <3>4. QED
      BY <2>1, <3>1, <3>2, <3>3, ReadAppends, EventSound
  <2>3. ASSUME /\ Read(call)!appendEvent(Read(call)!At(i, Read(call)!Finished(executions[i], "failed")), "failed")
               /\ Indexes' = Indexes /\ runs' = runs
        PROVE  RedisInv'
    <3> DEFINE value == Read(call)!Finished(executions[i], "failed")
    <3>1. Kept(executions[i], value)
      BY <1>3, <1>4, ReadFinishes, Zenon DEF Terminal
    <3>2. Read(call)!appendEvent(Read(call)!At(i, value), "failed") /\ Indexes' = Indexes /\ runs' = runs
      BY <2>3, Zenon
    <3>3. "failed" \in EventType
      BY Zenon DEF EventType
    <3> HIDE DEF value
    <3>4. QED
      BY <2>1, <3>1, <3>2, <3>3, ReadAppends, EventSound
  <2>4. CASE Read(call)!Fail(i, token)
    BY <2>3, <2>4, Zenon DEF Read!Fail, Read!Indexes, Indexes
  <2>5. ASSUME NEW delay \in Delays, Read(call)!Retry(i, token, delay)
        PROVE  RedisInv'
    <3> DEFINE value == [Unleased(executions[i]) EXCEPT !.status = "retry", !.availableAt = call.at + delay]
    <3>1. CASE executions[i].attempt >= executions[i].max
      BY <2>3, <2>5, <3>1, Zenon DEF Read!Retry, Read!Indexes, Indexes
    <3>2. CASE ~(executions[i].attempt >= executions[i].max)
      <4>1. call.at + delay \in Nat
        BY <1>4, ConstantsAssumption
      <4>2. Kept(executions[i], value)
        BY <1>3, <4>1, RetriedKept, Zenon
      <4>3. Read(call)!appendEvent(Read(call)!At(i, value), "retried") /\ Indexes' = Indexes /\ runs' = runs
        BY <2>5, <3>2, Zenon DEF Read!Retry, Read!Indexes, Indexes, Read!Unleased, Unleased
      <4>4. "retried" \in EventType
        BY Zenon DEF EventType
      <4> HIDE DEF value
      <4>5. QED
        BY <2>1, <4>2, <4>3, <4>4, ReadAppends, EventSound
    <3>3. QED
      BY <3>1, <3>2, Zenon
  <2>6. QED
    BY <1>6, <2>2, <2>4, <2>5, Zenon DEF transition
<1>7. QED
  BY <1>2, <1>5, <1>6, Zenon

LEMMA StoreSound ==
  ASSUME RedisInv, StoreCall
  PROVE  RedisInv'
<1>1. now \in Nat \ {0} /\ stalePurge \in BOOLEAN
  BY Zenon DEF RedisInv
<1>2. ASSUME NEW call \in [at: 1..now], NEW request \in EnqueueRequest \cup NodeRequest, CreateCommit(call, request)
      PROVE  RedisInv'
  <2>1. /\ runs' = runs /\ runIdempotent' = runIdempotent /\ lastRun' = lastRun /\ runIndexes' = runIndexes
        /\ now' = now /\ client' = client /\ stalePurge' = stalePurge
    BY <1>2, Zenon DEF CreateCommit, Read!CreateExecution, Alone
  <2>2. RecordsSound' /\ RecordsGrow
    BY <1>2, CreateCommitSound, Zenon
  <2>3. RunsSound' /\ RunsGrow
    BY <2>1, RunsFrame
  <2>4. now' \in Nat \ {0} /\ now <= now' /\ stalePurge' \in BOOLEAN
    BY <1>1, <2>1
  <2>5. QED
    BY <2>1, <2>2, <2>3, <2>4, Assemble, Zenon
<1>3. ASSUME NEW i \in DOMAIN executions, NEW call \in [at: executions[i].createdAt..now]
      PROVE  executions[i] \in Execution /\ call.at \in Nat
  <2>1. executions[i] \in Execution
    BY Zenon DEF RedisInv, RecordsSound, RecordTypes
  <2>2. executions[i].createdAt \in Nat
    BY <2>1, Zenon DEF Execution
  <2>3. call.at \in executions[i].createdAt..now
    OBVIOUS
  <2>4. QED
    BY <1>1, <2>1, <2>2, <2>3
<1>4. ASSUME NEW i \in DOMAIN executions, NEW call \in [at: executions[i].createdAt..now], CancelCommit(call, i)
      PROVE  RedisInv'
  <2> DEFINE value == Read(call)!Finished(executions[i], "cancelled")
  <2>1. Kept(executions[i], value)
    <3>1. "cancelled" \in Terminal /\ 0 \in Nat
      BY DEF Terminal
    <3>2. QED
      BY <1>3, <3>1, ReadFinishes, Zenon
  <2>2. /\ Read(call)!appendEvent(Read(call)!At(i, value), "cancelled")
        /\ Indexes' = Indexes /\ runs' = runs /\ Reindex({i}) /\ Alone
    BY <1>4, Zenon DEF CancelCommit, Read!CancelExecution, Read!Indexes, Indexes
  <2>3. "cancelled" \in EventType
    BY Zenon DEF EventType
  <2> HIDE DEF value
  <2>4. QED
    BY <2>1, <2>2, <2>3, ReadAppends, EventSound
<1>5. ASSUME NEW i \in DOMAIN executions, NEW call \in [at: executions[i].createdAt..now], RestartCommit(call, i)
      PROVE  RedisInv'
  <2> DEFINE value == Reset(executions[i], "pending", call.at)
  <2>1. Kept(executions[i], value)
    BY <1>3, ResetKept, Zenon
  <2>2. /\ Read(call)!appendEvent(Read(call)!At(i, value), "restarted")
        /\ Indexes' = Indexes /\ runs' = runs /\ Reindex({i}) /\ Alone
    BY <1>5, Zenon DEF RestartCommit, Read!RestartExecution, Read!Indexes, Indexes, Read!OrNow,
                       Read!Reset, Read!Unleased, Reset, Unleased
  <2>3. "restarted" \in EventType
    BY Zenon DEF EventType
  <2> HIDE DEF value
  <2>4. QED
    BY <2>1, <2>2, <2>3, ReadAppends, EventSound
<1>6. ASSUME NEW i \in DOMAIN executions, NEW call \in [at: executions[i].createdAt..now], NEW input \in Inputs,
             ReleaseCommit(call, i, input)
      PROVE  RedisInv'
  <2> DEFINE value == [executions[i] EXCEPT !.status = "pending", !.input = input, !.availableAt = call.at]
  <2>1. Kept(executions[i], value)
    BY <1>3, ReleasedKept, Zenon
  <2>2. Writes(i, value)
    <3>1. /\ executions' = [executions EXCEPT ![i].status = "pending", ![i].input = input,
                                              ![i].availableAt = call.at]
          /\ events' = events
      BY <1>6, Zenon DEF ReleaseCommit, Read!ReleaseExecution, Read!OrNow
    <3>2. DOMAIN executions' = DOMAIN executions /\ executions'[i] = value
      BY <3>1
    <3>3. \A j \in DOMAIN executions \ {i} : executions'[j] = executions[j]
      BY <3>1
    <3>4. QED
      BY <3>1, <3>2, <3>3, Zenon DEF Writes
  <2>3. Indexes' = Indexes /\ runs' = runs /\ Reindex({i}) /\ Alone
    BY <1>6, Zenon DEF ReleaseCommit, Read!ReleaseExecution, Read!Indexes, Indexes
  <2> HIDE DEF value
  <2>4. QED
    BY <2>1, <2>2, <2>3, WriteSound
<1>7. ASSUME NEW call \in [at: 1..now], NEW key \in IdempotencyKey \cup {None}, CreateRunCommit(call, key)
      PROVE  RedisInv'
  <2>1. /\ executions' = executions /\ events' = events /\ idempotent' = idempotent /\ nodes' = nodes
        /\ lastID' = lastID /\ derived' = derived /\ now' = now /\ client' = client /\ stalePurge' = stalePurge
    BY <1>7, Zenon DEF CreateRunCommit, Read!CreatePipelineRun
  <2>2. RecordsSound' /\ RecordsGrow
    BY <2>1, RecordsFrame
  <2>3. RunsSound' /\ RunsGrow
    <3>1. CreatesRun(key)
      BY <1>7, Zenon DEF CreateRunCommit, Read!CreatePipelineRun, Read!Put, Read!At, Put, At, CreatesRun
    <3>2. QED
      BY <3>1, CreateRunSound, Zenon
  <2>4. now' \in Nat \ {0} /\ now <= now' /\ stalePurge' \in BOOLEAN
    BY <1>1, <2>1
  <2>5. QED
    BY <2>1, <2>2, <2>3, <2>4, Assemble, Zenon
<1>8. ASSUME NEW call \in [at: 1..now], NEW r \in DOMAIN runs, NEW status \in RunStatus,
             SetStatusCommit(call, r, runs[r].revision, status)
      PROVE  RedisInv'
  BY <1>8, SetStatusSound, Zenon
<1>9. \A r \in DOMAIN runs :
        (IF runs[r].status \in Terminal THEN {"cancelled"} ELSE RunStatus \ {"pending"}) \subseteq RunStatus
  BY Zenon DEF RunStatus
<1>10. QED
  BY <1>2, <1>4, <1>5, <1>6, <1>7, <1>8, <1>9, Zenon DEF StoreCall

LEMMA WorkerSound ==
  ASSUME RedisInv, NEW c \in Worker, WorkerStep(c)
  PROVE  RedisInv'
<1>1. c \in Worker \cup Operator /\ now \in 1..now
  BY DEF RedisInv
<1>2. ASSUME NEW keys, NEW limit, Begin(c, [op |-> "claim", at |-> now, keys |-> keys, limit |-> limit])
      PROVE  RedisInv'
  <2>1. CallSound([op |-> "claim", at |-> now, keys |-> keys, limit |-> limit])
    BY <1>1, Zenon DEF CallSound, Timed
  <2>2. QED
    BY <1>1, <1>2, <2>1, BeginSound, Zenon
<1>3. ASSUME Begin(c, [op |-> "reap", at |-> now])
      PROVE  RedisInv'
  <2>1. CallSound([op |-> "reap", at |-> now])
    BY <1>1, Zenon DEF CallSound, Timed
  <2>2. QED
    BY <1>1, <1>3, <2>1, BeginSound, Zenon
<1>4. claimCandidate(c) => Claims(c)
  BY Zenon DEF claimCandidate, Claims
<1>5. reapCandidate(c) => Reaps(c)
  BY Zenon DEF reapCandidate, Reaps, Failed, Read!Finished, Read!Unleased, Unleased
<1>6. ASSUME loadDueCandidates(c) \/ claimCandidate(c) \/ ReapExpiredIDs(c) \/ reapCandidate(c) \/ Abort(c)
      PROVE  RedisInv'
  BY <1>1, <1>4, <1>5, <1>6, ClaimReads, ClaimSaves, ReapReads, ReapSaves, AbortSound, Zenon
<1>7. QED
  BY <1>2, <1>3, <1>6, Zenon DEF WorkerStep

LEMMA OperatorSound ==
  ASSUME RedisInv, NEW c \in Operator, OperatorStep(c)
  PROVE  RedisInv'
<1>1. c \in Worker \cup Operator /\ now \in 1..now
  BY DEF RedisInv
<1>2. ASSUME NEW before, NEW limit, Begin(c, [op |-> "purge", before |-> before, limit |-> limit])
      PROVE  RedisInv'
  <2>1. CallSound([op |-> "purge", before |-> before, limit |-> limit])
    BY Zenon DEF CallSound, Timed
  <2>2. QED
    BY <1>1, <1>2, <2>1, BeginSound, Zenon
<1>3. ASSUME NEW r, NEW root, Begin(c, [op |-> "subgraph", at |-> now, run |-> r, root |-> root])
      PROVE  RedisInv'
  <2>1. CallSound([op |-> "subgraph", at |-> now, run |-> r, root |-> root])
    BY <1>1, Zenon DEF CallSound, Timed
  <2>2. QED
    BY <1>1, <1>3, <2>1, BeginSound, Zenon
<1>4. ASSUME \/ FindNodes(c) \/ RestartNodes(c)
             \/ PurgeListRuns(c) \/ PurgeListExecutions(c) \/ PurgeDelete(c) \/ Abort(c)
      PROVE  RedisInv'
  BY <1>1, <1>4, RestartReads, RestartSaves, PurgeReadsRuns, PurgeReadsExecutions, PurgeSound,
     AbortSound, Zenon
<1>5. QED
  BY <1>2, <1>3, <1>4, Zenon DEF OperatorStep

-----------------------------------------------------------------------------
(* Every step of every caller keeps the records, the runs and what is      *)
(* derived from them sound: a transition (store.go, saveTransition), a     *)
(* creation, a claim or a reap decided on old candidates, a restart of a   *)
(* subgraph, and a purge that deletes what it listed without watching it.  *)
THEOREM RedisInvariant == RedisSpec => []RedisInv
<1>1. RedisInv /\ [RedisNext]_redisVars => RedisInv'
  <2> SUFFICES ASSUME RedisInv, [RedisNext]_redisVars PROVE RedisInv'
    OBVIOUS
  <2>1. CASE RedisTick \/ UNCHANGED redisVars
    BY <2>1, IdleSound, Zenon
  <2>2. CASE DeliveryCall
    BY <2>2, DeliverySound, Zenon
  <2>3. CASE StoreCall
    BY <2>3, StoreSound, Zenon
  <2>4. ASSUME NEW c \in Worker, WorkerStep(c) PROVE RedisInv'
    BY <2>4, WorkerSound, Zenon
  <2>5. ASSUME NEW c \in Operator, OperatorStep(c) PROVE RedisInv'
    BY <2>5, OperatorSound, Zenon
  <2>6. QED
    BY <2>1, <2>2, <2>3, <2>4, <2>5, Zenon DEF RedisNext
<1>2. QED
  BY <1>1, InitSound, PTL DEF RedisSpec

(* The types, and that no method of the Redis store decides with a time    *)
(* its server has not shown.                                               *)
THEOREM RedisTypes == RedisSpec => []RedisTypeOK
BY RedisInvariant, InvImplies, PTL

(* Claim and ReapExpired only look at the sorted sets.  Whatever they must *)
(* find is due there, with scores rounded to milliseconds, for any number  *)
(* of workers and operators, whatever a reap dropped and a purge deleted.  *)
THEOREM RedisFindsWork == RedisSpec => []IndexesFindWork
BY RedisInvariant, InvImplies, PTL

(* The status indexes, the counters shown to monitoring and the uniqueness *)
(* references say exactly what the records say, until a purge deletes      *)
(* something that has changed since it was listed.                         *)
THEOREM RedisDerives == RedisSpec => []DerivedExactly
BY RedisInvariant, InvImplies, PTL
=============================================================================
