------------------------- MODULE RedisMethodsProofs -------------------------
(***************************************************************************)
(* The steps the methods of the Redis store are made of, and why each of   *)
(* them keeps the inductive invariant: a transaction keeps what the        *)
(* methods under way have read, a transition of one record is one of the   *)
(* transactions of RedisIndexesProofs, and so are a claim, a reap, a       *)
(* restart and a purge that save what they listed earlier.                 *)
(***************************************************************************)
EXTENDS RedisIndexesProofs

(* What a method has read stays true of what is left of it. *)
LEMMA CallsKept ==
  ASSUME RedisInv, RecordsGrow, RunsGrow, RecordTypes', RunTypes', now' \in Nat, now <= now',
         NEW call, CallSound(call)
  PROVE  CallSound(call)'
<1>1. now \in Nat /\ lastID \in Nat /\ lastRun \in Nat /\ lastID' \in Nat /\ lastRun' \in Nat
  BY DEF RedisInv, RecordsSound, RecordTypes, RunsSound, RunTypes
<1>2. 1..now \subseteq 1..now' /\ 1..lastID \subseteq 1..lastID' /\ 1..lastRun \subseteq 1..lastRun'
  BY <1>1 DEF RecordsGrow, RunsGrow
<1>3. ASSUME NEW items, NEW seen, Listing(items, seen)
      PROVE  Listing(items, seen)'
  <2>1. DOMAIN items \subseteq 1..lastID' /\ DOMAIN seen \subseteq 1..lastRun'
    BY <1>2, <1>3, Zenon DEF Listing
  <2>2. ASSUME NEW i \in DOMAIN items \cap DOMAIN executions'
        PROVE  SameReference(executions'[i], items[i])
    <3>1. i \in DOMAIN executions /\ SameReference(executions[i], executions'[i])
      BY <1>3, <2>2, Zenon DEF Listing, RecordsGrow
    <3>2. SameReference(executions[i], items[i])
      BY <1>3, <2>2, <3>1, Zenon DEF Listing
    <3>3. QED
      BY <3>1, <3>2, Zenon DEF SameReference
  <2>3. ASSUME NEW r \in DOMAIN seen \cap DOMAIN runs'
        PROVE  seen[r].key = runs'[r].key
    <3>1. r \in DOMAIN runs /\ runs'[r].key = runs[r].key
      BY <1>3, <2>3, Zenon DEF Listing, RunsGrow
    <3>2. QED
      BY <1>3, <2>3, <3>1, Zenon DEF Listing
  <2>4. QED
    BY <2>1, <2>2, <2>3, Zenon DEF Listing
<1>4. QED
  BY <1>2, <1>3, Zenon DEF CallSound

(* A step that keeps records and runs sound, and moves one caller at most. *)
Moves(c, call) == c \in Worker \cup Operator /\ Becomes(c, call) /\ CallSound(call)

LEMMA Assemble ==
  ASSUME RedisInv, RecordsSound' /\ RecordsGrow, RunsSound' /\ RunsGrow,
         now' \in Nat \ {0}, now <= now', stalePurge' \in BOOLEAN,
         client' = client \/ \E c, call : Moves(c, call)
  PROVE  RedisInv'
<1>1. DOMAIN client = Worker \cup Operator /\ \A c \in Worker \cup Operator : CallSound(client[c])
  BY Zenon DEF RedisInv, CallsSound
<1>2. ASSUME NEW call, CallSound(call) PROVE CallSound(call)'
  BY <1>2, CallsKept, Zenon DEF RecordsSound, RunsSound
<1>3. CASE client' = client
  <2>1. CallsSound'
    BY <1>1, <1>2, <1>3, Zenon DEF CallsSound
  <2>2. QED
    BY <2>1, Zenon DEF RedisInv
<1>4. CASE \E c, call : Moves(c, call)
  <2>1. PICK c, call : Moves(c, call)
    BY <1>4, Zenon
  <2>2. DOMAIN client' = Worker \cup Operator
    BY <1>1, <2>1, Zenon DEF Moves, Becomes
  <2>3. client'[c] = call /\ CallSound(call)'
    BY <1>1, <1>2, <2>1, Zenon DEF Moves, Becomes
  <2>4. ASSUME NEW d \in Worker \cup Operator, d # c
        PROVE  client'[d] = client[d] /\ CallSound(client[d])'
    <3>1. client'[d] = client[d]
      BY <1>1, <2>1, <2>4, Zenon DEF Moves, Becomes
    <3>2. QED
      BY <1>1, <1>2, <3>1, Zenon
  <2>5. CallsSound'
    BY <2>2, <2>3, <2>4, Zenon DEF CallsSound
  <2>6. QED
    BY <2>5, Zenon DEF RedisInv
<1>5. QED
  BY <1>3, <1>4, Zenon

(* A step leaves the records, or the runs, alone. *)
LEMMA RecordsFrame ==
  ASSUME RedisInv, UNCHANGED <<executions, events, idempotent, nodes, lastID, derived, stalePurge>>
  PROVE  RecordsSound' /\ RecordsGrow
<1>1. /\ executions' = executions /\ events' = events /\ idempotent' = idempotent /\ nodes' = nodes
      /\ lastID' = lastID /\ queue' = queue /\ leases' = leases /\ listed' = listed
      /\ byStatus' = byStatus /\ counts' = counts /\ stalePurge' = stalePurge
  BY Zenon DEF derived
<1>2. lastID <= lastID
  BY DEF RedisInv, RecordsSound, RecordTypes
<1>3. RecordsGrow
  BY <1>1, <1>2, Zenon DEF RecordsGrow, SameReference
<1>4. RecordsSound
  BY Zenon DEF RedisInv
<1>5. RecordsSound'
  BY <1>1, <1>4 DEF RecordsSound, RecordTypes, LeaseDated, Queued, Tallied, InStatus, ExecutionReferences
<1>6. QED
  BY <1>3, <1>5, Zenon

LEMMA RunsFrame ==
  ASSUME RedisInv, UNCHANGED <<runs, runIdempotent, lastRun, runIndexes, stalePurge>>
  PROVE  RunsSound' /\ RunsGrow
<1>1. /\ runs' = runs /\ runIdempotent' = runIdempotent /\ lastRun' = lastRun
      /\ runsByStatus' = runsByStatus /\ runCounts' = runCounts /\ stalePurge' = stalePurge
  BY Zenon DEF runIndexes
<1>2. lastRun <= lastRun
  BY DEF RedisInv, RunsSound, RunTypes
<1>3. RunsGrow
  BY <1>1, <1>2, Zenon DEF RunsGrow
<1>4. RunsSound
  BY Zenon DEF RedisInv
<1>5. RunTypes' = RunTypes /\ RunReferences' = RunReferences
  BY <1>1, Zenon DEF RunTypes, RunReferences
<1>6. RunsTallied => RunsTallied'
  <2>1. ASSUME NEW s PROVE RunsIn(s)' = RunsIn(s)
    BY <1>1 DEF RunsIn
  <2>2. QED
    BY <1>1, <2>1, Zenon DEF RunsTallied
<1>7. RunsSound'
  BY <1>1, <1>4, <1>5, <1>6 DEF RunsSound
<1>8. QED
  BY <1>3, <1>7, Zenon

-----------------------------------------------------------------------------
(* What the transitions make of a record. *)
LEMMA LeasedKept ==
  ASSUME NEW item \in Execution, NEW attempt \in Nat, NEW token \in Nat, NEW until \in Nat, until > Lease
  PROVE  Kept(item, Leased(item, attempt, token, until))
BY Zenon DEF Leased, Kept, SameReference, LeaseDated, Execution, Status

LEMMA FinishedKept ==
  ASSUME NEW item \in Execution, NEW status \in Terminal, NEW at \in Nat, NEW output \in Nat
  PROVE  /\ Kept(item, [Unleased(item) EXCEPT !.status = status, !.finishedAt = at])
         /\ Kept(item, [[Unleased(item) EXCEPT !.status = status, !.finishedAt = at] EXCEPT !.output = output])
BY Zenon DEF Unleased, Kept, SameReference, LeaseDated, Execution, Status, Terminal

LEMMA RetriedKept ==
  ASSUME NEW item \in Execution, NEW at \in Nat
  PROVE  Kept(item, [Unleased(item) EXCEPT !.status = "retry", !.availableAt = at])
BY Zenon DEF Unleased, Kept, SameReference, LeaseDated, Execution, Status

LEMMA ResetKept ==
  ASSUME NEW item \in Execution, NEW status \in {"pending", "blocked"}, NEW at \in Nat
  PROVE  Kept(item, Reset(item, status, at))
BY Zenon DEF Reset, Unleased, Kept, SameReference, LeaseDated, Execution, Status

LEMMA RenewedKept ==
  ASSUME NEW item \in Execution, NEW until \in Nat, until > Lease
  PROVE  Kept(item, [item EXCEPT !.leaseUntil = until])
BY Zenon DEF Kept, SameReference, LeaseDated, Execution

LEMMA ReleasedKept ==
  ASSUME NEW item \in Execution, NEW input \in Inputs, NEW at \in Nat
  PROVE  Kept(item, [item EXCEPT !.status = "pending", !.input = input, !.availableAt = at])
BY Zenon DEF Kept, SameReference, LeaseDated, Execution, Status

(* A transaction that stores such values, with or without an event, is a Touch. *)
LEMMA SaveTouches ==
  ASSUME RedisInv, NEW new, DOMAIN new \subseteq DOMAIN executions, NEW type \in EventType,
         \A i \in DOMAIN new : Kept(executions[i], new[i]),
         saveTransition(new, type), UNCHANGED <<idempotent, nodes, lastID, stalePurge>>
  PROVE  Touch(DOMAIN new)
<1>1. /\ executions' = Put(executions, new)
      /\ events' = Put(events, [i \in DOMAIN new |-> Append(events[i], [type |-> type, attempt |-> new[i].attempt])])
      /\ Reindex(DOMAIN new)
  BY Zenon DEF saveTransition, appendEvent
<1>2. DOMAIN events = DOMAIN executions /\ \A i \in DOMAIN executions : events[i] \in Seq(Event)
  BY Zenon DEF RedisInv, RecordsSound, RecordTypes
<1>3. /\ DOMAIN executions' = DOMAIN executions /\ DOMAIN events' = DOMAIN executions
      /\ \A i \in DOMAIN new :
           /\ executions'[i] = new[i]
           /\ events'[i] = Append(events[i], [type |-> type, attempt |-> new[i].attempt])
      /\ \A i \in DOMAIN executions \ DOMAIN new : executions'[i] = executions[i] /\ events'[i] = events[i]
  BY <1>1, <1>2, Zenon DEF Put
<1>4. ASSUME NEW i \in DOMAIN new PROVE events'[i] \in Seq(Event)
  <2>1. new[i].attempt \in Nat
    BY Zenon DEF Kept, Execution
  <2>2. [type |-> type, attempt |-> new[i].attempt] \in Event
    BY <2>1, Zenon DEF Event
  <2>3. events[i] \in Seq(Event)
    BY <1>2, Zenon
  <2>4. QED
    BY <1>3, <2>2, <2>3
<1>5. QED
  BY <1>1, <1>3, <1>4, Zenon DEF Touch

LEMMA SaveOneTouches ==
  ASSUME RedisInv, NEW i \in DOMAIN executions, NEW value, Kept(executions[i], value), NEW type \in EventType,
         appendEvent(At(i, value), type), Reindex({i}), UNCHANGED <<idempotent, nodes, lastID, stalePurge>>
  PROVE  Touch({i})
<1> DEFINE new == At(i, value)
<1>1. DOMAIN new = {i} /\ new[i] = value
  BY Zenon DEF At
<1>2. appendEvent(new, type)
  BY Zenon
<1> HIDE DEF new
<1>3. saveTransition(new, type)
  BY <1>1, <1>2, Zenon DEF saveTransition
<1>4. DOMAIN new \subseteq DOMAIN executions /\ \A j \in DOMAIN new : Kept(executions[j], new[j])
  BY <1>1, Zenon
<1>5. QED
  BY <1>1, <1>3, <1>4, SaveTouches, Zenon

Writes(i, value) ==
  /\ DOMAIN executions' = DOMAIN executions /\ executions'[i] = value
  /\ \A j \in DOMAIN executions \ {i} : executions'[j] = executions[j]
  /\ events' = events

LEMMA WriteTouches ==
  ASSUME RedisInv, NEW i \in DOMAIN executions, NEW value, Kept(executions[i], value),
         Writes(i, value), Reindex({i}), UNCHANGED <<idempotent, nodes, lastID, stalePurge>>
  PROVE  Touch({i})
<1>1. DOMAIN events = DOMAIN executions /\ \A j \in DOMAIN executions : events[j] \in Seq(Event)
  BY Zenon DEF RedisInv, RecordsSound, RecordTypes
<1>2. QED
  BY <1>1, Zenon DEF Touch, Writes

-----------------------------------------------------------------------------
(* The steps that need no more than these. *)
LEMMA TransactionSound ==
  ASSUME RedisInv, NEW ids, Touch(ids),
         UNCHANGED <<runs, runIdempotent, lastRun, runIndexes, now, client, stalePurge>>
  PROVE  RedisInv'
<1>1. RecordsSound' /\ RecordsGrow
  BY TouchSound, Zenon
<1>2. RunsSound' /\ RunsGrow
  BY RunsFrame
<1>3. now' \in Nat \ {0} /\ now <= now' /\ stalePurge' \in BOOLEAN /\ client' = client
  BY DEF RedisInv
<1>4. QED
  BY <1>1, <1>2, <1>3, Assemble, Zenon

(* Such a transaction, with one event or with none. *)
LEMMA EventSound ==
  ASSUME RedisInv, NEW i \in DOMAIN executions, NEW value, Kept(executions[i], value),
         NEW type \in EventType, appendEvent(At(i, value), type), Reindex({i}), UNCHANGED <<Indexes, runs>>, Alone
  PROVE  RedisInv'
<1>1. /\ idempotent' = idempotent /\ nodes' = nodes /\ lastID' = lastID /\ stalePurge' = stalePurge
      /\ runs' = runs /\ runIdempotent' = runIdempotent /\ lastRun' = lastRun
      /\ runIndexes' = runIndexes /\ now' = now /\ client' = client
  BY Zenon DEF Indexes, Alone
<1>2. Touch({i})
  BY <1>1, SaveOneTouches
<1>3. QED
  BY <1>1, <1>2, TransactionSound

LEMMA WriteSound ==
  ASSUME RedisInv, NEW i \in DOMAIN executions, NEW value, Kept(executions[i], value),
         Writes(i, value), Reindex({i}), UNCHANGED <<Indexes, runs>>, Alone
  PROVE  RedisInv'
<1>1. /\ idempotent' = idempotent /\ nodes' = nodes /\ lastID' = lastID /\ stalePurge' = stalePurge
      /\ runs' = runs /\ runIdempotent' = runIdempotent /\ lastRun' = lastRun
      /\ runIndexes' = runIndexes /\ now' = now /\ client' = client
  BY Zenon DEF Indexes, Alone
<1>2. Touch({i})
  BY <1>1, WriteTouches
<1>3. QED
  BY <1>1, <1>2, TransactionSound

LEMMA SetStatusSound ==
  ASSUME RedisInv, NEW call \in [at: 1..now], NEW r \in DOMAIN runs, NEW status \in RunStatus,
         SetStatusCommit(call, r, runs[r].revision, status)
  PROVE  RedisInv'
<1> DEFINE run == [runs[r] EXCEPT !.status = status, !.revision = runs[r].revision + 1,
                                  !.finishedAt = IF status \in Terminal THEN call.at ELSE 0]
<1>1. /\ executions' = executions /\ events' = events /\ idempotent' = idempotent /\ nodes' = nodes
      /\ lastID' = lastID /\ derived' = derived /\ now' = now /\ client' = client /\ stalePurge' = stalePurge
      /\ runIdempotent' = runIdempotent /\ lastRun' = lastRun
  BY Zenon DEF SetStatusCommit, Rest, Indexes
<1>2. SaveRun(r, run)
  BY Zenon DEF SetStatusCommit
<1>3. run \in PipelineRun /\ run.key = runs[r].key
  <2>1. runs[r] \in PipelineRun
    BY Zenon DEF RedisInv, RunsSound, RunTypes
  <2>2. runs[r].revision + 1 \in Nat /\ (IF status \in Terminal THEN call.at ELSE 0) \in Nat
    BY <2>1 DEF PipelineRun
  <2>3. QED
    BY <2>1, <2>2, Zenon DEF PipelineRun
<1>4. RecordsSound' /\ RecordsGrow
  BY <1>1, RecordsFrame
<1> HIDE DEF run
<1>5. RunsSound' /\ RunsGrow
  BY <1>1, <1>2, <1>3, SaveRunSound
<1>6. now' \in Nat \ {0} /\ now <= now' /\ stalePurge' \in BOOLEAN
  BY <1>1 DEF RedisInv
<1>7. QED
  BY <1>1, <1>4, <1>5, <1>6, Assemble, Zenon

(* The methods of several steps. *)
LEMMA NoCallSound == CallSound(NoCall)
BY Zenon DEF CallSound, NoCall, Timed

(* A step that only reads, and keeps what it has read. *)
LEMMA CallOnly ==
  ASSUME RedisInv, NEW c \in Worker \cup Operator, NEW call, CallSound(call), Becomes(c, call),
         UNCHANGED <<vars, derived, runIndexes, stalePurge>>
  PROVE  RedisInv'
<1>1. /\ executions' = executions /\ events' = events /\ idempotent' = idempotent /\ nodes' = nodes
      /\ lastID' = lastID /\ runs' = runs /\ runIdempotent' = runIdempotent /\ lastRun' = lastRun
      /\ now' = now /\ derived' = derived /\ runIndexes' = runIndexes /\ stalePurge' = stalePurge
  BY Zenon DEF vars
<1>2. RecordsSound' /\ RecordsGrow
  BY <1>1, RecordsFrame
<1>3. RunsSound' /\ RunsGrow
  BY <1>1, RunsFrame
<1>4. now' \in Nat \ {0} /\ now <= now' /\ stalePurge' \in BOOLEAN
  BY <1>1 DEF RedisInv
<1>5. Moves(c, call)
  BY Zenon DEF Moves
<1>6. QED
  BY <1>2, <1>3, <1>4, <1>5, Assemble, Zenon

(* A step that also changes records. *)
LEMMA CallAndRecords ==
  ASSUME RedisInv, NEW c \in Worker \cup Operator, NEW call, CallSound(call), Becomes(c, call),
         RecordsSound' /\ RecordsGrow, NoRuns, Rest
  PROVE  RedisInv'
<1>1. /\ runs' = runs /\ runIdempotent' = runIdempotent /\ lastRun' = lastRun
      /\ now' = now /\ runIndexes' = runIndexes /\ stalePurge' = stalePurge
  BY Zenon DEF NoRuns, Rest, Indexes
<1>2. RunsSound' /\ RunsGrow
  BY <1>1, RunsFrame
<1>3. now' \in Nat \ {0} /\ now <= now' /\ stalePurge' \in BOOLEAN
  BY <1>1 DEF RedisInv
<1>4. Moves(c, call)
  BY Zenon DEF Moves
<1>5. QED
  BY <1>2, <1>3, <1>4, Assemble, Zenon

LEMMA BeginSound ==
  ASSUME RedisInv, NEW c \in Worker \cup Operator, NEW call, CallSound(call), Begin(c, call)
  PROVE  RedisInv'
<1>1. Becomes(c, call) /\ UNCHANGED <<vars, derived, runIndexes, stalePurge>>
  BY Zenon DEF Begin
<1>2. QED
  BY <1>1, CallOnly

LEMMA AbortSound ==
  ASSUME RedisInv, NEW c \in Worker \cup Operator, Abort(c)
  PROVE  RedisInv'
<1>1. Becomes(c, NoCall) /\ UNCHANGED <<vars, derived, runIndexes, stalePurge>>
  BY Zenon DEF Abort, Quit, Return
<1>2. QED
  BY <1>1, NoCallSound, CallOnly

(* What a call under way says about the times it decides with. *)
LEMMA CallTimes ==
  ASSUME RedisInv, NEW c \in Worker \cup Operator
  PROVE  /\ CallSound(client[c])
         /\ client[c].op \in Timed => /\ client[c].at \in 1..now /\ client[c].at \in Nat
                                      /\ client[c].at + Lease \in Nat /\ client[c].at + Lease > Lease
<1>1. CallSound(client[c])
  BY Zenon DEF RedisInv, CallsSound
<1>2. client[c].op \in Timed => client[c].at \in 1..now
  BY <1>1, Zenon DEF CallSound
<1>3. now \in Nat /\ Lease \in Nat
  BY ConstantsAssumption DEF RedisInv
<1>4. QED
  BY <1>1, <1>2, <1>3

LEMMA ClaimReads ==
  ASSUME RedisInv, NEW c \in Worker \cup Operator, loadDueCandidates(c)
  PROVE  RedisInv'
<1>1. client[c].op = "claim" /\ CallSound(client[c]) /\ client[c].at \in 1..now
  BY CallTimes, Zenon DEF loadDueCandidates, Timed
<1>2. DOMAIN queue \subseteq DOMAIN executions
  BY Zenon DEF RedisInv, RecordsSound, Queued
<1> DEFINE due == {i \in DOMAIN queue : queue[i] <= score(client[c].at)}
           live == due \cap DOMAIN executions
<1>3. queue' = queue
  <2>1. queue' = Restrict(queue, DOMAIN queue \ (due \ live))
    BY Zenon DEF loadDueCandidates
  <2>2. DOMAIN queue \ (due \ live) = DOMAIN queue
    BY <1>2, Zenon
  <2>3. queue = [i \in DOMAIN queue |-> queue[i]]
    <3>1. queue = [i \in {j \in DOMAIN executions : executions[j].status \in Active} |-> DueAt(executions[i])]
      BY Zenon DEF RedisInv, RecordsSound, Queued
    <3>2. QED
      BY <3>1
  <2>4. QED
    BY <2>1, <2>2, <2>3, Zenon DEF Restrict
<1>4. PICK heads, order :
        Becomes(c, IF heads = {} THEN NoCall
                   ELSE [op |-> "claiming", at |-> client[c].at, keys |-> client[c].keys, todo |-> order,
                         left |-> IF client[c].limit <= 0 THEN 1 ELSE client[c].limit])
  BY Zenon DEF loadDueCandidates
<1> DEFINE call == [op |-> "claiming", at |-> client[c].at, keys |-> client[c].keys, todo |-> order,
                    left |-> IF client[c].limit <= 0 THEN 1 ELSE client[c].limit]
<1>5. CallSound(call)
  BY <1>1, Zenon DEF CallSound, Timed
<1>6. UNCHANGED <<vars, derived, runIndexes, stalePurge>>
  BY <1>3, Zenon DEF loadDueCandidates, derived
<1>7. CASE heads = {}
  BY <1>4, <1>6, <1>7, NoCallSound, CallOnly
<1>8. CASE heads # {}
  <2>1. Becomes(c, call)
    BY <1>4, <1>8, Zenon
  <2> HIDE DEF call
  <2>2. QED
    BY <1>5, <1>6, <2>1, CallOnly
<1>9. QED
  BY <1>7, <1>8, Zenon

LEMMA ReapReads ==
  ASSUME RedisInv, NEW c \in Worker \cup Operator, ReapExpiredIDs(c)
  PROVE  RedisInv'
<1> DEFINE expired == {i \in DOMAIN leases : leases[i] <= score(client[c].at)}
           call == [op |-> "reaping", at |-> client[c].at, todo |-> expired]
<1>1. client[c].op = "reap" /\ CallSound(client[c]) /\ client[c].at \in 1..now
  BY CallTimes, Zenon DEF ReapExpiredIDs, Timed
<1> HIDE DEF expired
<1>2. CallSound(call)
  BY <1>1, Zenon DEF CallSound, Timed
<1>3. /\ UNCHANGED <<vars, derived, runIndexes, stalePurge>>
      /\ Becomes(c, NoCall) \/ Becomes(c, call)
  BY Zenon DEF ReapExpiredIDs, expired
<1> HIDE DEF call
<1>4. CASE Becomes(c, NoCall)
  BY <1>3, <1>4, NoCallSound, CallOnly
<1>5. CASE Becomes(c, call)
  BY <1>2, <1>3, <1>5, CallOnly
<1>6. QED
  BY <1>3, <1>4, <1>5, Zenon

(* The transaction of one candidate, whatever makes it eligible. *)
Claims(c) ==
  LET i == Head(client[c].todo)
      value == Leased(executions[i], executions[i].attempt + 1, Len(events[i]) + 1, client[c].at + Lease)
  IN
  /\ client[c].op = "claiming" /\ NoRuns /\ Rest
  /\ \/ /\ i \in DOMAIN executions /\ saveTransition(At(i, value), "started")
        /\ Becomes(c, NextCandidate(client[c], TRUE))
     \/ /\ Becomes(c, NextCandidate(client[c], FALSE))
        /\ UNCHANGED <<executions, events, derived>>

LEMMA ClaimSaves ==
  ASSUME RedisInv, NEW c \in Worker \cup Operator, Claims(c)
  PROVE  RedisInv'
<1> DEFINE i == Head(client[c].todo)
           value == Leased(executions[i], executions[i].attempt + 1, Len(events[i]) + 1, client[c].at + Lease)
<1>1. /\ client[c].op = "claiming" /\ CallSound(client[c]) /\ client[c].at \in 1..now
      /\ client[c].at + Lease \in Nat /\ client[c].at + Lease > Lease
  BY CallTimes, Zenon DEF Claims, Timed
<1>2. ASSUME NEW won PROVE CallSound(NextCandidate(client[c], won))
  <2> DEFINE left == IF won THEN client[c].left - 1 ELSE client[c].left
             call == [client[c] EXCEPT !.todo = Tail(client[c].todo), !.left = left]
  <2>1. DOMAIN call = DOMAIN client[c]
    BY Zenon
  <2>2. call.op = client[c].op
    BY <1>1, Zenon DEF CallSound
  <2>3. "at" \in DOMAIN call => call.at = client[c].at
    BY <1>1, Zenon
  <2>4. CallSound(call)
    BY <1>1, <2>1, <2>2, <2>3, Zenon DEF CallSound
  <2>5. NextCandidate(client[c], won) \in {NoCall, call}
    BY Zenon DEF NextCandidate
  <2> HIDE DEF call
  <2>6. QED
    BY <2>4, <2>5, NoCallSound, Zenon
<1>3. NoRuns /\ Rest
  BY Zenon DEF Claims
<1>4. \/ /\ i \in DOMAIN executions /\ saveTransition(At(i, value), "started")
         /\ Becomes(c, NextCandidate(client[c], TRUE))
      \/ /\ Becomes(c, NextCandidate(client[c], FALSE))
         /\ UNCHANGED <<executions, events, derived>>
  BY Zenon DEF Claims
<1>5. /\ idempotent' = idempotent /\ nodes' = nodes /\ lastID' = lastID /\ stalePurge' = stalePurge
  BY <1>3, Zenon DEF Rest, Indexes
<1>6. CASE /\ i \in DOMAIN executions /\ saveTransition(At(i, value), "started")
           /\ Becomes(c, NextCandidate(client[c], TRUE))
  <2>1. executions[i] \in Execution /\ events[i] \in Seq(Event)
    BY <1>6, Zenon DEF RedisInv, RecordsSound, RecordTypes
  <2> HIDE DEF i
  <2>2. executions[i].attempt + 1 \in Nat /\ Len(events[i]) + 1 \in Nat
    <3>1. executions[i].attempt \in Nat
      BY <2>1, Zenon DEF Execution
    <3>2. Len(events[i]) \in Nat
      BY <2>1
    <3>3. QED
      BY <3>1, <3>2
  <2>3. Kept(executions[i], value)
    BY <1>1, <2>1, <2>2, LeasedKept, Zenon
  <2>4. "started" \in EventType
    BY Zenon DEF EventType
  <2> HIDE DEF value
  <2>5. appendEvent(At(i, value), "started") /\ Reindex({i})
    BY <1>6, Zenon DEF saveTransition, At
  <2>6. Touch({i})
    BY <1>5, <1>6, <2>3, <2>4, <2>5, SaveOneTouches
  <2>7. RecordsSound' /\ RecordsGrow
    BY <2>6, TouchSound, Zenon
  <2>8. QED
    BY <1>2, <1>3, <1>6, <2>7, CallAndRecords, Zenon
<1>7. CASE Becomes(c, NextCandidate(client[c], FALSE)) /\ UNCHANGED <<executions, events, derived>>
  <2>1. RecordsSound' /\ RecordsGrow
    BY <1>5, <1>7, RecordsFrame
  <2>2. QED
    BY <1>2, <1>3, <1>7, <2>1, CallAndRecords, Zenon
<1>8. QED
  BY <1>4, <1>6, <1>7, Zenon

Failed(c, i) == [Unleased(executions[i]) EXCEPT !.status = "failed", !.finishedAt = client[c].at]

Reaps(c) ==
  /\ client[c].op = "reaping" /\ NoRuns /\ Rest
  /\ \E i \in client[c].todo :
       /\ IF i \notin DOMAIN executions THEN removeLeaseIndex(i)
          ELSE IF executions[i].status # "running" THEN removeLeaseIndex(i)
          ELSE IF executions[i].leaseUntil > client[c].at THEN UNCHANGED <<executions, events, derived>>
          ELSE IF executions[i].attempt < executions[i].max THEN removeLeaseIndex(i)
          ELSE saveTransition(At(i, Failed(c, i)), "failed")
       /\ Becomes(c, IF client[c].todo = {i} THEN NoCall
                     ELSE [client[c] EXCEPT !.todo = client[c].todo \ {i}])

LEMMA ReapSaves ==
  ASSUME RedisInv, NEW c \in Worker \cup Operator, Reaps(c)
  PROVE  RedisInv'
<1>1. client[c].op = "reaping" /\ CallSound(client[c]) /\ client[c].at \in Nat /\ NoRuns /\ Rest
  BY CallTimes, Zenon DEF Reaps, Timed
<1>2. PICK i \in client[c].todo :
        /\ IF i \notin DOMAIN executions THEN removeLeaseIndex(i)
           ELSE IF executions[i].status # "running" THEN removeLeaseIndex(i)
           ELSE IF executions[i].leaseUntil > client[c].at THEN UNCHANGED <<executions, events, derived>>
           ELSE IF executions[i].attempt < executions[i].max THEN removeLeaseIndex(i)
           ELSE saveTransition(At(i, Failed(c, i)), "failed")
        /\ Becomes(c, IF client[c].todo = {i} THEN NoCall
                      ELSE [client[c] EXCEPT !.todo = client[c].todo \ {i}])
  BY Zenon DEF Reaps
<1>3. /\ idempotent' = idempotent /\ nodes' = nodes /\ lastID' = lastID /\ stalePurge' = stalePurge
  BY <1>1, Zenon DEF Rest, Indexes
<1>4. PICK call : CallSound(call) /\ Becomes(c, call)
  <2> DEFINE call == [client[c] EXCEPT !.todo = client[c].todo \ {i}]
  <2>1. DOMAIN call = DOMAIN client[c]
    BY Zenon
  <2>2. call.op = client[c].op
    BY <1>1, Zenon DEF CallSound
  <2>3. "at" \in DOMAIN call => call.at = client[c].at
    BY <1>1, Zenon
  <2>4. CallSound(call)
    BY <1>1, <2>1, <2>2, <2>3, Zenon DEF CallSound
  <2>5. Becomes(c, NoCall) \/ Becomes(c, call)
    BY <1>2, Zenon
  <2> HIDE DEF call
  <2>6. QED
    BY <2>4, <2>5, NoCallSound, Zenon
<1>5. RecordsSound' /\ RecordsGrow
  <2>1. i \in DOMAIN executions => executions[i].attempt \in Nat /\ executions[i].max \in Nat
    BY DEF RedisInv, RecordsSound, RecordTypes, Execution
  <2>2. CASE removeLeaseIndex(i) /\ ~(/\ i \in DOMAIN executions /\ executions[i].status = "running"
                                      /\ executions[i].attempt >= executions[i].max)
    <3>1. DropsDeadline(i)
      BY <1>3, <2>2 DEF DropsDeadline
    <3>2. QED
      BY <3>1, DropSound, Zenon
  <2>3. CASE UNCHANGED <<executions, events, derived>>
    BY <1>3, <2>3, RecordsFrame
  <2>4. CASE /\ i \in DOMAIN executions
             /\ saveTransition(At(i, Failed(c, i)), "failed")
    <3> DEFINE value == Failed(c, i)
    <3>1. executions[i] \in Execution /\ 0 \in Nat
      BY <2>4 DEF RedisInv, RecordsSound, RecordTypes
    <3>2. Kept(executions[i], value)
      BY <1>1, <3>1, FinishedKept, Zenon DEF Terminal, Failed
    <3>3. "failed" \in EventType
      BY Zenon DEF EventType
    <3> HIDE DEF value
    <3>4. appendEvent(At(i, value), "failed") /\ Reindex({i})
      BY <2>4, Zenon DEF saveTransition, At, value
    <3>5. Touch({i})
      BY <1>3, <2>4, <3>2, <3>3, <3>4, SaveOneTouches
    <3>6. QED
      BY <3>5, TouchSound, Zenon
  <2>5. QED
    BY <1>2, <2>1, <2>2, <2>3, <2>4
<1>6. QED
  BY <1>1, <1>4, <1>5, CallAndRecords, Zenon

LEMMA RestartReads ==
  ASSUME RedisInv, NEW c \in Worker \cup Operator, FindNodes(c)
  PROVE  RedisInv'
<1>1. client[c].op = "subgraph" /\ client[c].at \in 1..now
  BY CallTimes, Zenon DEF FindNodes, Timed
<1>2. PICK ids : Becomes(c, [op |-> "restartNodes", at |-> client[c].at, run |-> client[c].run,
                              root |-> client[c].root, ids |-> ids])
  BY Zenon DEF FindNodes
<1> DEFINE call == [op |-> "restartNodes", at |-> client[c].at, run |-> client[c].run,
                    root |-> client[c].root, ids |-> ids]
<1>3. CallSound(call)
  BY <1>1, Zenon DEF CallSound, Timed
<1>4. Becomes(c, call) /\ UNCHANGED <<vars, derived, runIndexes, stalePurge>>
  BY <1>2, Zenon DEF FindNodes
<1> HIDE DEF call
<1>5. QED
  BY <1>3, <1>4, CallOnly

LEMMA RestartSaves ==
  ASSUME RedisInv, NEW c \in Worker \cup Operator, RestartNodes(c)
  PROVE  RedisInv'
<1> DEFINE r == client[c].run
           ids == client[c].ids
           new == [i \in ids |-> Reset(executions[i],
                     IF executions[i].node = client[c].root THEN "pending" ELSE "blocked", client[c].at)]
           run == [runs[r] EXCEPT !.status = "running", !.revision = runs[r].revision + 1, !.finishedAt = 0]
<1>1. client[c].op = "restartNodes" /\ client[c].at \in Nat
  BY CallTimes, Zenon DEF RestartNodes, Timed
<1>2. Rest /\ Becomes(c, NoCall)
  BY Zenon DEF RestartNodes, Return
<1>3. \/ /\ r \in DOMAIN runs /\ ids \subseteq DOMAIN executions
         /\ saveTransition(new, "restarted") /\ SaveRun(r, run)
      \/ UNCHANGED <<executions, events, derived, runs, runIndexes>>
  BY Zenon DEF RestartNodes
<1>4. /\ idempotent' = idempotent /\ nodes' = nodes /\ lastID' = lastID /\ stalePurge' = stalePurge
      /\ runIdempotent' = runIdempotent /\ lastRun' = lastRun /\ now' = now
  BY <1>2, Zenon DEF Rest, Indexes
<1>5. RecordsSound' /\ RecordsGrow
  <2>1. CASE ids \subseteq DOMAIN executions /\ saveTransition(new, "restarted")
    <3>1. DOMAIN new = ids
      BY Zenon
    <3>2. ASSUME NEW i \in ids PROVE Kept(executions[i], new[i])
      <4> DEFINE status == IF executions[i].node = client[c].root THEN "pending" ELSE "blocked"
      <4>1. executions[i] \in Execution
        BY <2>1, Zenon DEF RedisInv, RecordsSound, RecordTypes
      <4>2. status \in {"pending", "blocked"}
        BY Zenon
      <4>3. new[i] = Reset(executions[i], status, client[c].at)
        BY Zenon
      <4> HIDE DEF status, new
      <4>4. QED
        BY <1>1, <4>1, <4>2, <4>3, ResetKept, Zenon
    <3>3. "restarted" \in EventType
      BY Zenon DEF EventType
    <3> HIDE DEF new
    <3>4. Touch(DOMAIN new)
      BY <1>4, <2>1, <3>1, <3>2, <3>3, SaveTouches
    <3>5. QED
      BY <3>4, TouchSound, Zenon
  <2>2. CASE UNCHANGED <<executions, events, derived, runs, runIndexes>>
    BY <1>4, <2>2, RecordsFrame
  <2>3. QED
    BY <1>3, <2>1, <2>2, Zenon
<1>6. RunsSound' /\ RunsGrow
  <2>1. CASE r \in DOMAIN runs /\ SaveRun(r, run)
    <3>1. runs[r] \in PipelineRun
      BY <2>1, Zenon DEF RedisInv, RunsSound, RunTypes
    <3>2. runs[r].revision + 1 \in Nat /\ 0 \in Nat
      BY <3>1 DEF PipelineRun
    <3>3. run \in PipelineRun /\ run.key = runs[r].key
      BY <3>1, <3>2, Zenon DEF PipelineRun, RunStatus
    <3> HIDE DEF run, r
    <3>4. QED
      BY <1>4, <2>1, <3>3, SaveRunSound
  <2>2. CASE UNCHANGED <<executions, events, derived, runs, runIndexes>>
    BY <1>4, <2>2, RunsFrame
  <2>3. QED
    BY <1>3, <2>1, <2>2, Zenon
<1>7. now' \in Nat \ {0} /\ now <= now' /\ stalePurge' \in BOOLEAN
  BY <1>4 DEF RedisInv
<1>8. Moves(c, NoCall)
  BY <1>2, NoCallSound, Zenon DEF Moves
<1>9. QED
  BY <1>5, <1>6, <1>7, <1>8, Assemble, Zenon

LEMMA PurgeReadsRuns ==
  ASSUME RedisInv, NEW c \in Worker \cup Operator, PurgeListRuns(c)
  PROVE  RedisInv'
<1> DEFINE all == UNION {runsByStatus[s] : s \in Terminal}
           old == {r \in all : runs[r].finishedAt # 0 /\ runs[r].finishedAt < client[c].before}
           ids == {i \in listed : executions[i].run \in old}
           call == [op |-> "purgeList", before |-> client[c].before, limit |-> client[c].limit,
                    runs |-> Restrict(runs, old), items |-> Restrict(executions, ids)]
<1>1. UNCHANGED <<vars, derived, runIndexes, stalePurge>>
  BY Zenon DEF PurgeListRuns
<1>2. Becomes(c, NoCall) \/ (all \subseteq DOMAIN runs /\ Becomes(c, call))
  BY Zenon DEF PurgeListRuns, Return
<1>3. ASSUME all \subseteq DOMAIN runs PROVE CallSound(call)
  <2>1. listed = DOMAIN executions /\ DOMAIN executions \subseteq 1..lastID /\ DOMAIN runs \subseteq 1..lastRun
    BY Zenon DEF RedisInv, RecordsSound, RecordTypes, Queued, RunsSound, RunTypes
  <2>2. old \subseteq DOMAIN runs
    BY <1>3, Zenon
  <2>3. ids \subseteq DOMAIN executions
    BY <2>1, Zenon
  <2> HIDE DEF old, ids
  <2>4. Listing(Restrict(executions, ids), Restrict(runs, old))
    BY <2>1, <2>2, <2>3, Zenon DEF Listing, Restrict, SameReference
  <2>5. QED
    BY <2>4, Zenon DEF CallSound, Timed
<1> HIDE DEF call, all
<1>4. CASE Becomes(c, NoCall)
  BY <1>1, <1>4, NoCallSound, CallOnly
<1>5. CASE all \subseteq DOMAIN runs /\ Becomes(c, call)
  BY <1>1, <1>3, <1>5, CallOnly
<1>6. QED
  BY <1>2, <1>4, <1>5, Zenon

LEMMA PurgeReadsExecutions ==
  ASSUME RedisInv, NEW c \in Worker \cup Operator, PurgeListExecutions(c)
  PROVE  RedisInv'
<1> DEFINE seen == client[c].runs
           items == client[c].items
           all == UNION {byStatus[s] : s \in Terminal}
           old == {i \in all : /\ executions[i].status \in Terminal /\ executions[i].run = 0
                               /\ executions[i].finishedAt < client[c].before}
           candidates == {[pipeline |-> TRUE, id |-> r, finished |-> seen[r].finishedAt] : r \in DOMAIN seen}
                    \cup {[pipeline |-> FALSE, id |-> i, finished |-> executions[i].finishedAt] : i \in old}
           deadRuns(batch) == {d.id : d \in {b \in batch : b.pipeline}}
           dead(batch) == {d.id : d \in {b \in batch : ~b.pipeline}}
           nodeItems(batch) == {i \in DOMAIN items : items[i].run \in deadRuns(batch)}
           call(batch) == [op |-> "purgeDelete", runs |-> Restrict(seen, deadRuns(batch)),
                           items |-> Put(Restrict(items, nodeItems(batch)), Restrict(executions, dead(batch)))]
<1>1. UNCHANGED <<vars, derived, runIndexes, stalePurge>>
  BY Zenon DEF PurgeListExecutions
<1>2. Listing(items, seen)
  BY CallTimes, Zenon DEF PurgeListExecutions, CallSound
<1>3. \/ Becomes(c, NoCall)
      \/ all \subseteq DOMAIN executions /\ \E batch \in SUBSET candidates : Becomes(c, call(batch))
  BY Zenon DEF PurgeListExecutions, Return
<1>4. ASSUME all \subseteq DOMAIN executions, NEW batch \in SUBSET candidates
      PROVE  CallSound(call(batch))
  <2>1. DOMAIN executions \subseteq 1..lastID
    BY Zenon DEF RedisInv, RecordsSound, RecordTypes
  <2>2. ASSUME NEW b \in batch
        PROVE  /\ b.pipeline => b.id \in DOMAIN seen
               /\ ~b.pipeline => b.id \in DOMAIN executions
    <3>1. b \in candidates
      BY Zenon
    <3>2. CASE \E r \in DOMAIN seen : b = [pipeline |-> TRUE, id |-> r, finished |-> seen[r].finishedAt]
      <4>1. PICK r \in DOMAIN seen : b = [pipeline |-> TRUE, id |-> r, finished |-> seen[r].finishedAt]
        BY <3>2, Zenon
      <4>2. b.pipeline = TRUE /\ b.id = r
        BY <4>1, Zenon
      <4>3. QED
        BY <4>2, Zenon
    <3>3. CASE \E i \in old : b = [pipeline |-> FALSE, id |-> i, finished |-> executions[i].finishedAt]
      <4>1. PICK i \in old : b = [pipeline |-> FALSE, id |-> i, finished |-> executions[i].finishedAt]
        BY <3>3, Zenon
      <4>2. b.pipeline = FALSE /\ b.id = i /\ i \in all
        BY <4>1, Zenon
      <4>3. QED
        BY <1>4, <4>2, Zenon
    <3>4. QED
      BY <3>1, <3>2, <3>3, Zenon
  <2>3. deadRuns(batch) \subseteq DOMAIN seen /\ dead(batch) \subseteq DOMAIN executions
    BY <2>2, Zenon
  <2>4. nodeItems(batch) \subseteq DOMAIN items
    BY Zenon
  <2> HIDE DEF deadRuns, dead, nodeItems, items, seen
  <2>5. Listing(Put(Restrict(items, nodeItems(batch)), Restrict(executions, dead(batch))),
                Restrict(seen, deadRuns(batch)))
    BY <1>2, <2>1, <2>3, <2>4, Zenon DEF Listing, Put, Restrict, SameReference
  <2>6. QED
    BY <2>5, Zenon DEF CallSound, Timed
<1> HIDE DEF call, all, candidates
<1>5. CASE Becomes(c, NoCall)
  BY <1>1, <1>5, NoCallSound, CallOnly
<1>6. ASSUME all \subseteq DOMAIN executions, NEW batch \in SUBSET candidates, Becomes(c, call(batch))
      PROVE  RedisInv'
  BY <1>1, <1>4, <1>6, CallOnly
<1>7. QED
  BY <1>3, <1>5, <1>6, Zenon

LEMMA PurgeSound ==
  ASSUME RedisInv, NEW c \in Worker \cup Operator, PurgeDelete(c)
  PROVE  RedisInv'
<1>1. now' = now /\ stalePurge' = (stalePurge \/ Changed(client[c])) /\ Becomes(c, NoCall)
  BY Zenon DEF PurgeDelete, Return
<1>2. now' \in Nat \ {0} /\ now <= now'
  BY <1>1 DEF RedisInv
<1>3. stalePurge' \in BOOLEAN
  BY <1>1, Zenon
<1>4. Moves(c, NoCall)
  BY <1>1, NoCallSound, Zenon DEF Moves
<1>5. QED
  BY <1>2, <1>3, <1>4, PurgeRecords, PurgeRuns, Assemble, Zenon

-----------------------------------------------------------------------------
(* A new store, with no record and no call. *)
LEMMA InitSound == RedisInit => RedisInv
<1> SUFFICES ASSUME RedisInit PROVE RedisInv
  OBVIOUS
<1>1. /\ executions = << >> /\ events = << >> /\ idempotent = << >> /\ nodes = << >>
      /\ runs = << >> /\ runIdempotent = << >> /\ lastID = 0 /\ lastRun = 0 /\ now = 1
      /\ queue = << >> /\ leases = << >> /\ listed = {} /\ stalePurge = FALSE
      /\ byStatus = [s \in Status |-> {}] /\ counts = [k \in TaskName \X Status |-> 0]
      /\ runsByStatus = [s \in RunStatus |-> {}] /\ runCounts = [s \in RunStatus |-> 0]
      /\ client = [c \in Worker \cup Operator |-> NoCall]
  BY Zenon DEF RedisInit, Init
<1>2. DOMAIN << >> = {}
  OBVIOUS
<1>3. RecordTypes
  BY <1>1, <1>2 DEF RecordTypes
<1>4. Queued
  BY <1>1, <1>2 DEF Queued
<1>5. Tallied
  <2>1. \A k : InStatus(k) = {}
    BY <1>1, <1>2 DEF InStatus
  <2>2. \A k \in TaskName \X Status : counts[k] = Cardinality(InStatus(k))
    <3>1. \A k \in TaskName \X Status : counts[k] = 0
      BY <1>1, Zenon
    <3>2. QED
      BY <2>1, <3>1, FS_EmptySet, Zenon
  <2>3. \A s \in Status : byStatus[s] = {i \in DOMAIN executions : executions[i].status = s}
    BY <1>1, <1>2
  <2>4. QED
    BY <2>2, <2>3, Zenon DEF Tallied
<1>6. ExecutionReferences
  BY <1>1, <1>2 DEF ExecutionReferences
<1>7. RunTypes
  BY <1>1, <1>2 DEF RunTypes
<1>8. RunsTallied
  <2>1. \A s : RunsIn(s) = {}
    BY <1>1, <1>2 DEF RunsIn
  <2>2. QED
    BY <1>1, <2>1, FS_EmptySet, Zenon DEF RunsTallied
<1>9. RunReferences
  BY <1>1, <1>2 DEF RunReferences
<1>10. CallsSound
  BY <1>1, NoCallSound, Zenon DEF CallsSound
<1>11. now \in Nat \ {0}
  BY <1>1
<1>12. stalePurge \in BOOLEAN
  BY <1>1, Zenon
<1>13. QED
  BY <1>3, <1>4, <1>5, <1>6, <1>7, <1>8, <1>9, <1>10, <1>11, <1>12, Zenon
  DEF RedisInv, RecordsSound, RunsSound

(* Time goes by, or nothing happens. *)
LEMMA IdleSound ==
  ASSUME RedisInv, UNCHANGED redisVars \/ RedisTick
  PROVE  RedisInv'
<1>1. /\ executions' = executions /\ events' = events /\ idempotent' = idempotent /\ nodes' = nodes
      /\ lastID' = lastID /\ runs' = runs /\ runIdempotent' = runIdempotent /\ lastRun' = lastRun
      /\ derived' = derived /\ runIndexes' = runIndexes /\ stalePurge' = stalePurge
      /\ client' = client /\ (now' = now \/ now' = now + 1)
  BY Zenon DEF redisVars, vars, RedisTick, Tick
<1>2. RecordsSound' /\ RecordsGrow
  BY <1>1, RecordsFrame
<1>3. RunsSound' /\ RunsGrow
  BY <1>1, RunsFrame
<1>4. now' \in Nat \ {0} /\ now <= now' /\ stalePurge' \in BOOLEAN
  BY <1>1 DEF RedisInv
<1>5. QED
  BY <1>1, <1>2, <1>3, <1>4, Assemble, Zenon

=============================================================================
