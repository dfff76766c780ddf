------------------------------ MODULE RedisStore ------------------------------
(***************************************************************************)
(* The methods of the Redis store (execution/redis) that make a transition *)
(* of MemoryStore, and the whole store.  A transition is taken with any    *)
(* time call.at its caller may have read: Read(call) is MemoryStore with   *)
(* that clock.                                                             *)
(***************************************************************************)
EXTENDS RedisIndexes

Read(call) == INSTANCE MemoryStore WITH now <- call.at

-----------------------------------------------------------------------------
(* Methods of one transaction.  The token of a delivery is compared inside *)
(* it, and so are the references of a creation and the revision of a run.  *)
CreateCommit(call, request) ==
  /\ Read(call)!CreateExecution(request)
  /\ AddExecution(lastID + 1)
  /\ Alone

HeartbeatCommit(call, i, token) == Read(call)!Heartbeat(i, token) /\ Reindex({i}) /\ Alone

transition(call, i, token) ==
  /\ \/ Read(call)!Succeed(i, token)
     \/ Read(call)!Fail(i, token)
     \/ \E delay \in Delays : Read(call)!Retry(i, token, delay)
  /\ Reindex({i})
  /\ Alone

CancelCommit(call, i) == Read(call)!CancelExecution(i) /\ Reindex({i}) /\ Alone

RestartCommit(call, i) == Read(call)!RestartExecution(i, 0) /\ Reindex({i}) /\ Alone

ReleaseCommit(call, i, input) == Read(call)!ReleaseExecution(i, input, 0) /\ Reindex({i}) /\ Alone

CreateRunCommit(call, key) ==
  /\ Read(call)!CreatePipelineRun(key)
  /\ AddRun(lastRun + 1)
  /\ UNCHANGED <<derived, now, client, stalePurge>>

-----------------------------------------------------------------------------
(* The transaction of one candidate of a Claim.  A candidate that          *)
(* disappeared or became ineligible is an expected loss.                   *)
StaleClaimCandidate(c) ==   \* what made it a candidate is not looked at again
  LET call == client[c]
      i == Head(call.todo)
  IN
  /\ call.op = "claiming"
  /\ IF i \in DOMAIN executions /\ executions[i].status \in Active /\ executions[i].attempt < executions[i].max
     THEN /\ saveTransition(At(i, Leased(executions[i], executions[i].attempt + 1,
                                         Len(events[i]) + 1, call.at + Lease)), "started")
          /\ Becomes(c, NextCandidate(call, TRUE))
     ELSE /\ Becomes(c, NextCandidate(call, FALSE))
          /\ UNCHANGED <<executions, events, derived>>
  /\ NoRuns /\ Rest

claimCandidate(c) ==
  LET call == client[c]
      i == Head(call.todo)
  IN
  /\ call.op = "claiming"
  /\ IF i \in DOMAIN executions /\ Read(call)!Claimable(executions[i], call.keys)
     THEN /\ saveTransition(At(i, Leased(executions[i], executions[i].attempt + 1,
                                         Len(events[i]) + 1, call.at + Lease)), "started")
          /\ Becomes(c, NextCandidate(call, TRUE))
     ELSE /\ Becomes(c, NextCandidate(call, FALSE))
          /\ UNCHANGED <<executions, events, derived>>
  /\ NoRuns /\ Rest

(* The transaction of one candidate of a ReapExpired. *)
Faulty_reapCandidate(c) ==   \* the deadline of a live lease is dropped as well
  LET call == client[c] IN
  /\ call.op = "reaping"
  /\ \E i \in call.todo :
       /\ IF i \in DOMAIN executions /\ Read(call)!Reapable(executions[i])
          THEN saveTransition(At(i, Read(call)!Finished(executions[i], "failed")), "failed")
          ELSE removeLeaseIndex(i)
       /\ Becomes(c, IF call.todo = {i} THEN NoCall ELSE [call EXCEPT !.todo = @ \ {i}])
  /\ NoRuns /\ Rest

reapCandidate(c) ==
  LET call == client[c] IN
  /\ call.op = "reaping"
  /\ \E i \in call.todo :
       /\ IF i \notin DOMAIN executions THEN removeLeaseIndex(i)
          ELSE IF executions[i].status # "running" THEN removeLeaseIndex(i)
          ELSE IF executions[i].leaseUntil > call.at THEN UNCHANGED <<executions, events, derived>>
          ELSE IF executions[i].attempt < executions[i].max THEN removeLeaseIndex(i)
          ELSE saveTransition(At(i, Read(call)!Finished(executions[i], "failed")), "failed")
       /\ Becomes(c, IF call.todo = {i} THEN NoCall ELSE [call EXCEPT !.todo = @ \ {i}])
  /\ NoRuns /\ Rest

-----------------------------------------------------------------------------
(* The callers.  The calls of a delivery follow each other, so the time of *)
(* one is not older than the time its lease counts from.                   *)
DeliveryCall ==
  \E i \in DOMAIN executions : \E token \in Deliveries(i) :
    /\ owned(i, token)
    /\ \E call \in [at: (executions[i].leaseUntil - Lease)..now] :
         HeartbeatCommit(call, i, token) \/ transition(call, i, token)

StoreCall ==
  \/ \E call \in [at: 1..now], request \in EnqueueRequest \cup NodeRequest : CreateCommit(call, request)
  \/ \E i \in DOMAIN executions : \E call \in [at: executions[i].createdAt..now] :
       \/ CancelCommit(call, i)
       \/ RestartCommit(call, i)
       \/ \E input \in Inputs : ReleaseCommit(call, i, input)
  \/ \E call \in [at: 1..now], key \in IdempotencyKey \cup {None} : CreateRunCommit(call, key)
  \/ \E call \in [at: 1..now], r \in DOMAIN runs :
       \E status \in IF runs[r].status \in Terminal THEN {"cancelled"} ELSE RunStatus \ {"pending"} :
         SetStatusCommit(call, r, runs[r].revision, status)

WorkerStep(c) ==
  \/ \E keys \in SUBSET (TaskName \X TaskVersion) \ {{}}, limit \in Limits :
       Begin(c, [op |-> "claim", at |-> now, keys |-> keys, limit |-> limit])
  \/ Begin(c, [op |-> "reap", at |-> now])
  \/ loadDueCandidates(c) \/ claimCandidate(c)
  \/ ReapExpiredIDs(c) \/ reapCandidate(c)
  \/ Abort(c)

OperatorStep(c) ==
  \/ \E before \in 1..now, limit \in Limits : Begin(c, [op |-> "purge", before |-> before, limit |-> limit])
  \/ \E r \in DOMAIN runs, root \in NodeKey :
       Begin(c, [op |-> "subgraph", at |-> now, run |-> r, root |-> root])
  \/ FindNodes(c) \/ RestartNodes(c)
  \/ PurgeListRuns(c) \/ PurgeListExecutions(c) \/ PurgeDelete(c)
  \/ Abort(c)

RedisNext ==
  \/ RedisTick
  \/ DeliveryCall
  \/ StoreCall
  \/ \E c \in Worker : WorkerStep(c)
  \/ \E c \in Operator : OperatorStep(c)

RedisSpec == RedisInit /\ [][RedisNext]_redisVars

=============================================================================
