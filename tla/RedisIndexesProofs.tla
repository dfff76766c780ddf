------------------------- MODULE RedisIndexesProofs -------------------------
(***************************************************************************)
(* The inductive invariant of the Redis store, for any number of           *)
(* executions, runs and callers, and why the transactions of RedisIndexes  *)
(* keep it.  A transaction writes some records and their derived indexes   *)
(* (Touch), creates one, deletes what a purge listed, or drops a deadline. *)
(***************************************************************************)
EXTENDS RedisIndexes, FiniteSetTheorems, TLAPS

(* What a uniqueness reference names of an execution; it never changes. *)
SameReference(a, b) ==
  b.name = a.name /\ b.key = a.key /\ b.run = a.run /\ b.node = a.node

(* A lease counts from an instant the clock has shown. *)
LeaseDated(item) == item.status = "running" => item.leaseUntil > Lease

RecordTypes ==
  /\ lastID \in Nat /\ DOMAIN executions \subseteq 1..lastID
  /\ \A i \in DOMAIN executions : executions[i] \in Execution /\ LeaseDated(executions[i])
  /\ DOMAIN events = DOMAIN executions
  /\ \A i \in DOMAIN executions : events[i] \in Seq(Event)
  /\ byStatus \in [Status -> SUBSET (1..lastID)]
  /\ counts \in [TaskName \X Status -> Int]

(* The sorted sets hold the deliverable executions at the instant they may *)
(* be claimed, and of the running ones at least the exhausted ones at      *)
(* their deadline.                                                         *)
DueAt(item) == score(IF item.status = "running" THEN item.leaseUntil ELSE item.availableAt)

Queued ==
  /\ listed = DOMAIN executions
  /\ queue = [i \in {j \in DOMAIN executions : executions[j].status \in Active} |-> DueAt(executions[i])]
  /\ leases = [i \in DOMAIN leases |-> score(executions[i].leaseUntil)]
  /\ DOMAIN leases \subseteq {i \in DOMAIN executions : executions[i].status = "running"}
  /\ \A i \in DOMAIN executions :
       executions[i].status = "running" /\ executions[i].attempt >= executions[i].max => i \in DOMAIN leases

(* The two halves of DerivedExactly. *)
InStatus(k) == {i \in DOMAIN executions : <<executions[i].name, executions[i].status>> = k}

ExecutionReferences ==
  /\ \A i \in DOMAIN executions :
       LET item == executions[i] IN
       /\ item.key # None => /\ <<item.name, item.key>> \in DOMAIN idempotent
                             /\ idempotent[<<item.name, item.key>>] = i
       /\ item.run # 0 => /\ <<item.run, item.node>> \in DOMAIN nodes
                          /\ nodes[<<item.run, item.node>>] = i
  /\ \A k \in DOMAIN idempotent :
       /\ idempotent[k] \in DOMAIN executions
       /\ k = <<executions[idempotent[k]].name, executions[idempotent[k]].key>>
       /\ executions[idempotent[k]].key # None
  /\ \A k \in DOMAIN nodes :
       /\ nodes[k] \in DOMAIN executions
       /\ k = <<executions[nodes[k]].run, executions[nodes[k]].node>>
       /\ executions[nodes[k]].run # 0

Tallied ==
  /\ \A s \in Status : byStatus[s] = {i \in DOMAIN executions : executions[i].status = s}
  /\ \A k \in TaskName \X Status : counts[k] = Cardinality(InStatus(k))

RunsIn(s) == {r \in DOMAIN runs : runs[r].status = s}

RunReferences ==
  /\ \A r \in DOMAIN runs :
       runs[r].key # None => runs[r].key \in DOMAIN runIdempotent /\ runIdempotent[runs[r].key] = r
  /\ \A k \in DOMAIN runIdempotent :
       runIdempotent[k] \in DOMAIN runs /\ runs[runIdempotent[k]].key = k /\ k # None

RunsTallied ==
  \A s \in RunStatus : runsByStatus[s] = RunsIn(s) /\ runCounts[s] = Cardinality(RunsIn(s))

RunTypes ==
  /\ lastRun \in Nat /\ DOMAIN runs \subseteq 1..lastRun
  /\ \A r \in DOMAIN runs : runs[r] \in PipelineRun
  /\ runsByStatus \in [RunStatus -> SUBSET (1..lastRun)]
  /\ runCounts \in [RunStatus -> Int]

(* What a method has read: a time the server has shown, and for a purge    *)
(* records whose references are still the ones it saw.                     *)
Timed == {"claim", "claiming", "reap", "reaping", "subgraph", "restartNodes"}

Listing(items, dead) ==
  /\ DOMAIN items \subseteq 1..lastID /\ DOMAIN dead \subseteq 1..lastRun
  /\ \A i \in DOMAIN items \cap DOMAIN executions : SameReference(executions[i], items[i])
  /\ \A r \in DOMAIN dead \cap DOMAIN runs : dead[r].key = runs[r].key

CallSound(call) ==
  /\ "op" \in DOMAIN call
  /\ "at" \in DOMAIN call <=> call.op \in Timed
  /\ "at" \in DOMAIN call => call.at \in 1..now
  /\ call.op \in {"purgeList", "purgeDelete"} => Listing(call.items, call.runs)

(* The inductive invariant: the records with what is derived from them,    *)
(* the runs with what is derived from them, and the calls under way.       *)
RecordsSound == RecordTypes /\ Queued /\ (~stalePurge => Tallied /\ ExecutionReferences)
RunsSound == RunTypes /\ (~stalePurge => RunsTallied /\ RunReferences)
CallsSound == DOMAIN client = Worker \cup Operator /\ \A c \in Worker \cup Operator : CallSound(client[c])

RedisInv == now \in Nat \ {0} /\ stalePurge \in BOOLEAN /\ RecordsSound /\ RunsSound /\ CallsSound

-----------------------------------------------------------------------------
(* Scores are rounded down, and keep the order of the instants. *)
LEMMA ScoreOrder ==
  ASSUME NEW a \in Nat, NEW b \in Nat
  PROVE  score(a) \in Nat /\ (a <= b => score(a) <= score(b))
BY RedisAssumption DEF score

(* A set of identifiers that were handed out is finite, and moving some of *)
(* its members out and others in changes its size by their numbers.        *)
LEMMA SubsetSize ==
  ASSUME NEW n \in Nat, NEW S \in SUBSET (1..n)
  PROVE  IsFiniteSet(S) /\ Cardinality(S) \in Nat
<1>1. IsFiniteSet(1..n)
  BY FS_Interval
<1>2. IsFiniteSet(S)
  BY <1>1, FS_Subset, Zenon
<1>3. QED
  BY <1>2, FS_CardinalityType, Zenon

Exchanged(n, S, out, in, new) ==
  /\ n \in Nat /\ S \subseteq 1..n /\ out \subseteq S /\ in \subseteq 1..n
  /\ in \cap (S \ out) = {} /\ new = (S \ out) \cup in

LEMMA Exchange ==
  ASSUME NEW n, NEW S, NEW out, NEW in, NEW new, Exchanged(n, S, out, in, new)
  PROVE  Cardinality(new) = Cardinality(S) + Cardinality(in) - Cardinality(out)
<1>1. /\ n \in Nat /\ S \in SUBSET (1..n) /\ out \in SUBSET (1..n) /\ in \in SUBSET (1..n)
      /\ S \ out \in SUBSET (1..n) /\ new = (S \ out) \cup in
      /\ S \cap out = out /\ (S \ out) \cap in = {}
  BY Zenon DEF Exchanged
<1>2. /\ IsFiniteSet(S) /\ IsFiniteSet(in) /\ IsFiniteSet(S \ out)
      /\ Cardinality(S) \in Nat /\ Cardinality(out) \in Nat /\ Cardinality(in) \in Nat
      /\ Cardinality(S \ out) \in Nat
  BY <1>1, SubsetSize, Zenon
<1>3. Cardinality((S \ out) \cup in)
        = Cardinality(S \ out) + Cardinality(in) - Cardinality((S \ out) \cap in)
  BY <1>2, FS_Union, Zenon
<1>4. Cardinality((S \ out) \cap in) = 0
  BY <1>1, FS_EmptySet, Zenon
<1>5. Cardinality(S \ out) = Cardinality(S) - Cardinality(S \cap out)
  BY <1>2, FS_Difference, Zenon
<1>6. Cardinality(S \cap out) = Cardinality(out) /\ Cardinality(new) = Cardinality((S \ out) \cup in)
  BY <1>1, Zenon
<1>7. QED
  BY <1>2, <1>3, <1>4, <1>5, <1>6

(* RedisInv says what the invariants of the specification say. *)
LEMMA InvImplies == RedisInv => RedisTypeOK /\ IndexesFindWork /\ DerivedExactly
<1> SUFFICES ASSUME RedisInv PROVE RedisTypeOK /\ IndexesFindWork /\ DerivedExactly
  BY Zenon
<1>1. /\ RecordTypes /\ Queued /\ RunTypes /\ now \in Nat \ {0} /\ now \in Nat
      /\ ~stalePurge => Tallied /\ ExecutionReferences /\ RunsTallied /\ RunReferences
      /\ \A c \in Worker \cup Operator : CallSound(client[c])
  BY Zenon DEF RedisInv, RecordsSound, RunsSound, CallsSound
<1>2. \A i \in DOMAIN executions :
        /\ executions[i] \in Execution
        /\ executions[i].leaseUntil \in Nat /\ executions[i].availableAt \in Nat
        /\ executions[i].attempt \in Nat /\ executions[i].max \in Nat
  BY <1>1, Zenon DEF RecordTypes, Execution
<1>3. TypeOK
  BY <1>1, Zenon DEF TypeOK, RecordTypes, RunTypes
<1>4. DOMAIN queue \subseteq DOMAIN executions /\ DOMAIN leases \subseteq DOMAIN executions
  BY <1>1, Zenon DEF Queued
<1>5. queue \in [DOMAIN queue -> Nat] /\ leases \in [DOMAIN leases -> Nat]
  <2>1. \A i \in DOMAIN executions : DueAt(executions[i]) \in Nat /\ score(executions[i].leaseUntil) \in Nat
    BY <1>2, ScoreOrder, Zenon DEF DueAt
  <2>2. QED
    BY <1>1, <1>4, <2>1, Zenon DEF Queued
<1>6. RedisTypeOK
  <2>1. DOMAIN queue \cup DOMAIN leases \cup listed \subseteq 1..lastID
    BY <1>1, <1>4, Zenon DEF RecordTypes, Queued
  <2>2. QED
    BY <1>1, <1>3, <1>5, <2>1, Zenon DEF RedisTypeOK, RecordTypes, RunTypes, CallSound
<1>7. IndexesFindWork
  <2>1. ASSUME NEW i \in DOMAIN executions
        PROVE  LET item == executions[i] IN
               /\ Claimable(item, {<<item.name, item.version>>}) => i \in DOMAIN queue /\ queue[i] <= score(now)
               /\ Reapable(item) => i \in DOMAIN leases /\ leases[i] <= score(now)
               /\ item.status \in Terminal \cup {"blocked"} => i \notin DOMAIN queue \cup DOMAIN leases
    <3> DEFINE item == executions[i]
    <3>1. ASSUME Claimable(item, {<<item.name, item.version>>})
          PROVE  i \in DOMAIN queue /\ queue[i] <= score(now)
      <4>1. item.status \in Active /\ i \in DOMAIN queue /\ queue[i] = DueAt(item)
        BY <1>1, <3>1, Zenon DEF Claimable, Queued, Active
      <4>2. CASE item.status = "running"
        <5>1. item.leaseUntil <= now /\ DueAt(item) = score(item.leaseUntil)
          BY <3>1, <4>2, Zenon DEF Claimable, Expired, DueAt
        <5>2. QED
          BY <1>1, <1>2, <4>1, <5>1, ScoreOrder, Zenon
      <4>3. CASE item.status # "running"
        <5>1. item.availableAt <= now /\ DueAt(item) = score(item.availableAt)
          BY <3>1, <4>3, Zenon DEF Claimable, DueAt
        <5>2. QED
          BY <1>1, <1>2, <4>1, <5>1, ScoreOrder, Zenon
      <4>4. QED
        BY <4>2, <4>3, Zenon
    <3>2. ASSUME Reapable(item)
          PROVE  i \in DOMAIN leases /\ leases[i] <= score(now)
      <4>1. item.status = "running" /\ item.leaseUntil <= now /\ item.attempt >= item.max
        BY <3>2, Zenon DEF Reapable, Expired
      <4>2. i \in DOMAIN leases /\ leases[i] = score(item.leaseUntil)
        BY <1>1, <4>1, Zenon DEF Queued
      <4>3. QED
        BY <1>1, <1>2, <4>1, <4>2, ScoreOrder, Zenon
    <3>3. item.status \in Terminal \cup {"blocked"} => i \notin DOMAIN queue \cup DOMAIN leases
      BY <1>1, Zenon DEF Queued, Terminal, Active
    <3>4. QED
      BY <3>1, <3>2, <3>3, Zenon
  <2>2. QED
    BY <1>4, <2>1, Zenon DEF IndexesFindWork
<1>8. DerivedExactly
  <2> SUFFICES ASSUME ~stalePurge
               PROVE  /\ listed = DOMAIN executions
                      /\ DOMAIN queue = {i \in DOMAIN executions : executions[i].status \in Active}
                      /\ DOMAIN leases \subseteq {i \in DOMAIN executions : executions[i].status = "running"}
                      /\ \A s \in Status : byStatus[s] = {i \in DOMAIN executions : executions[i].status = s}
                      /\ \A k \in DOMAIN counts : counts[k] =
                           Cardinality({i \in DOMAIN executions : <<executions[i].name, executions[i].status>> = k})
                      /\ \A s \in RunStatus : /\ runsByStatus[s] = {r \in DOMAIN runs : runs[r].status = s}
                                              /\ runCounts[s] = Cardinality(runsByStatus[s])
                      /\ IndexesAgree
    BY Zenon DEF DerivedExactly
  <2>1. Tallied /\ ExecutionReferences /\ RunsTallied /\ RunReferences /\ DOMAIN counts = TaskName \X Status
    BY <1>1, Zenon DEF RecordTypes
  <2>2. IndexesAgree
    BY <2>1, Zenon DEF IndexesAgree, ExecutionReferences, RunReferences
  <2>3. QED
    BY <1>1, <2>1, <2>2, Zenon DEF Queued, Tallied, InStatus, RunsTallied, RunsIn
<1>9. QED
  BY <1>6, <1>7, <1>8, Zenon
-----------------------------------------------------------------------------
(* References outlive every step, and a new identifier is really new. *)
RecordsGrow ==
  /\ lastID <= lastID'
  /\ \A i \in DOMAIN executions' :
       \/ i \in DOMAIN executions /\ SameReference(executions[i], executions'[i])
       \/ i \notin 1..lastID

RunsGrow ==
  /\ lastRun <= lastRun'
  /\ \A r \in DOMAIN runs' :
       \/ r \in DOMAIN runs /\ runs'[r].key = runs[r].key
       \/ r \notin 1..lastRun

(* The transaction of a transition: some records get new values, and every *)
(* index follows.                                                          *)
Kept(a, b) == b \in Execution /\ SameReference(a, b) /\ LeaseDated(b)

Touch(ids) ==
  /\ ids \subseteq DOMAIN executions
  /\ DOMAIN executions' = DOMAIN executions /\ DOMAIN events' = DOMAIN executions
  /\ \A i \in ids : Kept(executions[i], executions'[i]) /\ events'[i] \in Seq(Event)
  /\ \A i \in DOMAIN executions \ ids : executions'[i] = executions[i] /\ events'[i] = events[i]
  /\ Reindex(ids)
  /\ UNCHANGED <<idempotent, nodes, lastID, stalePurge>>

LEMMA TouchSound ==
  ASSUME RedisInv, NEW ids, Touch(ids)
  PROVE  RecordsSound' /\ RecordsGrow
<1>1. RecordTypes /\ Queued /\ (~stalePurge => Tallied /\ ExecutionReferences)
  BY Zenon DEF RedisInv, RecordsSound
<1>2. /\ ids \subseteq DOMAIN executions /\ DOMAIN executions' = DOMAIN executions
      /\ lastID \in Nat /\ lastID' = lastID /\ DOMAIN executions \in SUBSET (1..lastID)
      /\ UNCHANGED <<idempotent, nodes, stalePurge, listed>>
  BY <1>1, Zenon DEF Touch, RecordTypes, Reindex, Recount
<1>3. \A i \in DOMAIN executions : /\ executions'[i] \in Execution /\ LeaseDated(executions'[i])
                                   /\ SameReference(executions[i], executions'[i])
                                   /\ events'[i] \in Seq(Event)
  BY <1>1, Zenon DEF Touch, Kept, RecordTypes, SameReference
<1>4. \A i \in DOMAIN executions \ ids : executions'[i] = executions[i]
  BY Zenon DEF Touch
<1>5. RecordsGrow
  BY <1>2, <1>3 DEF RecordsGrow
<1> DEFINE out(k) == {i \in ids : <<executions[i].name, executions[i].status>> = k}
           in(k) == {i \in ids : <<executions[i].name, executions'[i].status>> = k}
<1>6. \A k : /\ out(k) \in SUBSET (1..lastID) /\ in(k) \in SUBSET (1..lastID)
             /\ Cardinality(out(k)) \in Nat /\ Cardinality(in(k)) \in Nat
  <2>1. \A k : out(k) \in SUBSET (1..lastID) /\ in(k) \in SUBSET (1..lastID)
    BY <1>2, Zenon
  <2>2. QED
    BY <1>2, <2>1, SubsetSize, Zenon
<1>7. counts' = [k \in TaskName \X Status |-> counts[k] + Cardinality(in(k)) - Cardinality(out(k))]
  BY <1>1, Zenon DEF Touch, Reindex, Recount, RecordTypes
<1>8. byStatus' = [s \in Status |-> (byStatus[s] \ {i \in ids : executions[i].status = s})
                                    \cup {i \in ids : executions'[i].status = s}]
  BY Zenon DEF Touch, Reindex, Recount
<1>9. RecordTypes'
  <2>1. counts' \in [TaskName \X Status -> Int]
    <3> HIDE DEF in, out
    <3>1. \A k \in TaskName \X Status : counts[k] \in Int
      BY <1>1, Zenon DEF RecordTypes
    <3>2. \A k \in TaskName \X Status : counts[k] + Cardinality(in(k)) - Cardinality(out(k)) \in Int
      BY <1>6, <3>1
    <3>3. QED
      BY <1>7, <3>2, Zenon
  <2>2. byStatus' \in [Status -> SUBSET (1..lastID)]
    BY <1>1, <1>2, <1>8, Zenon DEF RecordTypes
  <2>3. DOMAIN events' = DOMAIN executions'
    BY Zenon DEF Touch
  <2>4. QED
    BY <1>2, <1>3, <2>1, <2>2, <2>3, Zenon DEF RecordTypes
<1>10. Queued'
  <2>1. queue' = [i \in {j \in DOMAIN executions' : executions'[j].status \in Active} |-> DueAt(executions'[i])]
    <3> DEFINE new == [i \in Delivering(ids) |->
                         score(IF i \in Holding(ids) THEN executions'[i].leaseUntil ELSE executions'[i].availableAt)]
               old == Restrict(queue, DOMAIN queue \ ids)
    <3>1. queue' = Put(old, new)
      BY Zenon DEF Touch, Reindex, Requeue
    <3>2. DOMAIN new = {i \in ids : executions'[i].status \in Active}
      BY Zenon DEF Delivering
    <3>3. \A i \in DOMAIN new : new[i] = DueAt(executions'[i])
      BY Zenon DEF DueAt, Delivering, Holding
    <3>4. DOMAIN old = {i \in DOMAIN executions \ ids : executions[i].status \in Active}
      BY <1>1 DEF Restrict, Queued
    <3>5. \A i \in DOMAIN old : old[i] = DueAt(executions[i])
      BY <1>1 DEF Restrict, Queued
    <3> HIDE DEF old, new
    <3>6. DOMAIN old \cup DOMAIN new = {j \in DOMAIN executions' : executions'[j].status \in Active}
      BY <1>2, <1>4, <3>2, <3>4
    <3>7. \A i \in DOMAIN old \cup DOMAIN new : (IF i \in DOMAIN new THEN new[i] ELSE old[i]) = DueAt(executions'[i])
      BY <1>4, <3>2, <3>3, <3>4, <3>5, Zenon
    <3>8. QED
      BY <3>1, <3>6, <3>7 DEF Put
  <2>2. /\ leases' = [i \in DOMAIN leases' |-> score(executions'[i].leaseUntil)]
        /\ DOMAIN leases' = (DOMAIN leases \ ids) \cup {i \in ids : executions'[i].status = "running"}
    <3> DEFINE new == [i \in Holding(ids) |-> score(executions'[i].leaseUntil)]
               old == Restrict(leases, DOMAIN leases \ ids)
    <3>1. leases' = Put(old, new)
      BY Zenon DEF Touch, Reindex, Requeue
    <3>2. DOMAIN new = {i \in ids : executions'[i].status = "running"}
      BY Zenon DEF Holding
    <3>3. \A i \in DOMAIN new : new[i] = score(executions'[i].leaseUntil)
      BY Zenon
    <3>4. DOMAIN old = DOMAIN leases \ ids /\ DOMAIN old \subseteq DOMAIN executions \ ids
      BY <1>1, Zenon DEF Restrict, Queued
    <3>5. \A i \in DOMAIN old : old[i] = score(executions[i].leaseUntil)
      BY <1>1 DEF Restrict, Queued
    <3> HIDE DEF old, new
    <3>6. DOMAIN leases' = DOMAIN old \cup DOMAIN new
      BY <3>1, Zenon DEF Put
    <3>7. \A i \in DOMAIN old \cup DOMAIN new :
            (IF i \in DOMAIN new THEN new[i] ELSE old[i]) = score(executions'[i].leaseUntil)
      BY <1>4, <3>3, <3>4, <3>5, Zenon
    <3>8. QED
      BY <3>1, <3>2, <3>4, <3>6, <3>7 DEF Put
  <2>3. DOMAIN leases' \subseteq {i \in DOMAIN executions' : executions'[i].status = "running"}
    BY <1>1, <1>2, <1>4, <2>2 DEF Queued
  <2>4. \A i \in DOMAIN executions' :
          executions'[i].status = "running" /\ executions'[i].attempt >= executions'[i].max => i \in DOMAIN leases'
    BY <1>1, <1>2, <1>4, <2>2, Zenon DEF Queued
  <2>5. listed' = DOMAIN executions'
    BY <1>1, <1>2, Zenon DEF Queued
  <2>6. QED
    BY <2>1, <2>2, <2>3, <2>4, <2>5, Zenon DEF Queued
<1>11. ASSUME ~stalePurge' PROVE Tallied' /\ ExecutionReferences'
  <2>1. Tallied /\ ExecutionReferences
    BY <1>1, <1>2, <1>11, Zenon
  <2>2. ASSUME NEW s \in Status
        PROVE  byStatus'[s] = {i \in DOMAIN executions' : executions'[i].status = s}
    BY <1>2, <1>4, <1>8, <2>1 DEF Tallied
  <2>3. ASSUME NEW k \in TaskName \X Status
        PROVE  counts'[k] = Cardinality(InStatus(k)')
    <3>1. counts[k] = Cardinality(InStatus(k))
      BY <2>1, Zenon DEF Tallied
    <3>2. \A i \in DOMAIN executions : executions'[i].name = executions[i].name
      BY <1>3, Zenon DEF SameReference
    <3>3. InStatus(k)' = {i \in DOMAIN executions : <<executions[i].name, executions'[i].status>> = k}
      BY <1>2, <3>2, Zenon DEF InStatus
    <3>4. \A i \in DOMAIN executions \ ids :
            <<executions[i].name, executions'[i].status>> = <<executions[i].name, executions[i].status>>
      BY <1>4, Zenon
    <3>5. Exchanged(lastID, InStatus(k), out(k), in(k), InStatus(k)')
      <4>1. InStatus(k) \subseteq 1..lastID /\ out(k) \subseteq InStatus(k) /\ in(k) \subseteq 1..lastID
        BY <1>2, Zenon DEF InStatus
      <4>2. in(k) \cap (InStatus(k) \ out(k)) = {}
        BY Zenon DEF InStatus
      <4>3. \A i : i \in InStatus(k)' <=> i \in (InStatus(k) \ out(k)) \cup in(k)
        <5>1. ASSUME NEW i \in ids
              PROVE  i \in InStatus(k)' <=> i \in (InStatus(k) \ out(k)) \cup in(k)
          BY <1>2, <3>3, Zenon DEF InStatus
        <5>2. ASSUME NEW i, i \notin ids
              PROVE  i \in InStatus(k)' <=> i \in (InStatus(k) \ out(k)) \cup in(k)
          BY <3>3, <3>4, <5>2, Zenon DEF InStatus
        <5>3. QED
          BY <5>1, <5>2, Zenon
      <4> HIDE DEF in, out
      <4>4. InStatus(k)' = (InStatus(k) \ out(k)) \cup in(k)
        BY <4>3, Zenon
      <4>5. QED
        BY <1>2, <4>1, <4>2, <4>4 DEF Exchanged
    <3>6. counts'[k] = counts[k] + Cardinality(in(k)) - Cardinality(out(k))
      BY <1>7, Zenon
    <3> HIDE DEF in, out
    <3>7. Cardinality(InStatus(k)') = Cardinality(InStatus(k)) + Cardinality(in(k)) - Cardinality(out(k))
      BY <3>5, Exchange
    <3>8. QED
      BY <3>1, <3>6, <3>7, Zenon
  <2>4. ExecutionReferences'
    <3>1. \A i \in DOMAIN executions :
            /\ executions'[i].name = executions[i].name /\ executions'[i].key = executions[i].key
            /\ executions'[i].run = executions[i].run /\ executions'[i].node = executions[i].node
      BY <1>3, Zenon DEF SameReference
    <3>2. idempotent' = idempotent /\ nodes' = nodes
      BY <1>2, Zenon
    <3>3. QED
      <4>1. \A k \in DOMAIN idempotent :
              /\ idempotent[k] \in DOMAIN executions'
              /\ k = <<executions'[idempotent[k]].name, executions'[idempotent[k]].key>>
              /\ executions'[idempotent[k]].key # None
        BY <1>2, <2>1, <3>1 DEF ExecutionReferences
      <4>2. \A k \in DOMAIN nodes :
              /\ nodes[k] \in DOMAIN executions'
              /\ k = <<executions'[nodes[k]].run, executions'[nodes[k]].node>>
              /\ executions'[nodes[k]].run # 0
        BY <1>2, <2>1, <3>1 DEF ExecutionReferences
      <4>3. \A i \in DOMAIN executions :
              /\ executions'[i].key # None => /\ <<executions'[i].name, executions'[i].key>> \in DOMAIN idempotent
                                              /\ idempotent[<<executions'[i].name, executions'[i].key>>] = i
              /\ executions'[i].run # 0 => /\ <<executions'[i].run, executions'[i].node>> \in DOMAIN nodes
                                           /\ nodes[<<executions'[i].run, executions'[i].node>>] = i
        BY <2>1, <3>1, Zenon DEF ExecutionReferences
      <4>4. QED
        BY <1>2, <3>2, <4>1, <4>2, <4>3, Zenon DEF ExecutionReferences
  <2>5. QED
    BY <2>2, <2>3, <2>4, Zenon DEF Tallied
<1>12. QED
  BY <1>5, <1>9, <1>10, <1>11, Zenon DEF RecordsSound

(* CreateExecution: one more record, pending, in every index. *)
Creates(item) ==
  /\ executions' = Put(executions, At(lastID + 1, item))
  /\ events' = Put(events, At(lastID + 1, <<[type |-> "created", attempt |-> 0]>>))
  /\ lastID' = lastID + 1
  /\ item.key # None => /\ <<item.name, item.key>> \notin DOMAIN idempotent
                        /\ idempotent' = Put(idempotent, At(<<item.name, item.key>>, lastID + 1))
  /\ item.key = None => idempotent' = idempotent
  /\ item.run # 0 /\ item.node # None =>
       /\ <<item.run, item.node>> \notin DOMAIN nodes
       /\ nodes' = Put(nodes, At(<<item.run, item.node>>, lastID + 1))
  /\ ~(item.run # 0 /\ item.node # None) => nodes' = nodes
  /\ AddExecution(lastID + 1)
  /\ stalePurge' = stalePurge

LEMMA CreateSound ==
  ASSUME RedisInv, NEW item \in Execution, item.status = "pending", item.run # 0 => item.node # None,
         Creates(item)
  PROVE  RecordsSound' /\ RecordsGrow
<1>1. /\ RecordTypes /\ Queued /\ (~stalePurge => Tallied /\ ExecutionReferences)
      /\ stalePurge' = stalePurge
  BY Zenon DEF RedisInv, RecordsSound, Creates
<1> DEFINE id == lastID + 1
           keyed == item.key # None
           noded == item.run # 0 /\ item.node # None
<1>2. /\ executions' = Put(executions, At(id, item))
      /\ events' = Put(events, At(id, <<[type |-> "created", attempt |-> 0]>>))
      /\ lastID' = id
      /\ keyed => /\ <<item.name, item.key>> \notin DOMAIN idempotent
                  /\ idempotent' = Put(idempotent, At(<<item.name, item.key>>, id))
      /\ ~keyed => idempotent' = idempotent
      /\ noded => /\ <<item.run, item.node>> \notin DOMAIN nodes
                  /\ nodes' = Put(nodes, At(<<item.run, item.node>>, id))
      /\ ~noded => nodes' = nodes
  BY Zenon DEF Creates
<1>3. item.name \in TaskName
  BY Zenon DEF Execution
<1>5. lastID \in Nat /\ id \in Nat /\ id \notin 1..lastID /\ 1..lastID \subseteq 1..id /\ id \in 1..id /\ lastID <= id
  BY <1>1 DEF RecordTypes
<1> HIDE DEF id
<1>6. /\ id \notin DOMAIN executions /\ DOMAIN executions' = DOMAIN executions \cup {id}
      /\ executions'[id] = item
      /\ \A i \in DOMAIN executions : executions'[i] = executions[i]
  BY <1>1, <1>2, <1>5, Zenon DEF Put, At, RecordTypes
<1>7. RecordsGrow
  BY <1>2, <1>5, <1>6, Zenon DEF RecordsGrow, SameReference
<1>8. /\ queue' = Put(queue, At(id, score(item.availableAt))) /\ leases' = leases
      /\ listed' = listed \cup {id}
      /\ byStatus' = [byStatus EXCEPT !["pending"] = @ \cup {id}]
      /\ counts' = [counts EXCEPT ![<<item.name, "pending">>] = @ + 1]
  BY <1>2, <1>6, Zenon DEF Creates, AddExecution
<1>9. RecordTypes'
  <2>1. counts' \in [TaskName \X Status -> Int]
    <3>1. <<item.name, "pending">> \in TaskName \X Status /\ counts \in [TaskName \X Status -> Int]
      BY <1>1, <1>3, Zenon DEF RecordTypes, Status
    <3>2. counts[<<item.name, "pending">>] + 1 \in Int
      BY <3>1
    <3>3. QED
      BY <1>8, <3>1, <3>2, Zenon
  <2>2. byStatus' \in [Status -> SUBSET (1..id)]
    <3>1. byStatus \in [Status -> SUBSET (1..id)]
      BY <1>1, <1>5 DEF RecordTypes
    <3>2. QED
      BY <1>5, <1>8, <3>1, Zenon
  <2>3. /\ DOMAIN events' = DOMAIN executions'
        /\ \A i \in DOMAIN executions' : events'[i] \in Seq(Event)
    <3>1. <<[type |-> "created", attempt |-> 0]>> \in Seq(Event)
      BY DEF Event, EventType
    <3>2. QED
      BY <1>1, <1>2, <1>6, <3>1, Zenon DEF Put, At, RecordTypes
  <2>4. \A i \in DOMAIN executions' : executions'[i] \in Execution /\ LeaseDated(executions'[i])
    BY <1>1, <1>6, Zenon DEF RecordTypes, LeaseDated
  <2>5. DOMAIN executions' \subseteq 1..id
    BY <1>1, <1>5, <1>6, Zenon DEF RecordTypes
  <2>6. QED
    BY <1>2, <1>5, <2>1, <2>2, <2>3, <2>4, <2>5, Zenon DEF RecordTypes
<1>10. Queued'
  <2>1. queue' = [i \in {j \in DOMAIN executions' : executions'[j].status \in Active} |-> DueAt(executions'[i])]
    <3>1. DOMAIN queue = {i \in DOMAIN executions : executions[i].status \in Active}
      BY <1>1, Zenon DEF Queued
    <3>2. \A i \in DOMAIN queue : queue[i] = DueAt(executions[i])
      BY <1>1, Zenon DEF Queued
    <3>3. queue' = [i \in DOMAIN queue \cup {id} |-> IF i \in {id} THEN score(item.availableAt) ELSE queue[i]]
      BY <1>8, Zenon DEF Put, At
    <3>4. DOMAIN queue \cup {id} = {j \in DOMAIN executions' : executions'[j].status \in Active}
      BY <1>6, <3>1 DEF Active
    <3>5. \A i \in DOMAIN queue \cup {id} :
            (IF i \in {id} THEN score(item.availableAt) ELSE queue[i]) = DueAt(executions'[i])
      BY <1>6, <3>1, <3>2, Zenon DEF DueAt
    <3>6. QED
      BY <3>3, <3>4, <3>5
  <2>2. leases' = [i \in DOMAIN leases' |-> score(executions'[i].leaseUntil)]
    BY <1>1, <1>6, <1>8 DEF Queued
  <2>3. /\ listed' = DOMAIN executions'
        /\ DOMAIN leases' \subseteq {i \in DOMAIN executions' : executions'[i].status = "running"}
        /\ \A i \in DOMAIN executions' : executions'[i].status = "running"
             /\ executions'[i].attempt >= executions'[i].max => i \in DOMAIN leases'
    BY <1>1, <1>6, <1>8, Zenon DEF Queued
  <2>4. QED
    BY <2>1, <2>2, <2>3, Zenon DEF Queued
<1>11. ASSUME ~stalePurge' PROVE Tallied' /\ ExecutionReferences'
  <2>1. Tallied /\ ExecutionReferences
    BY <1>1, <1>11, Zenon
  <2>2. ASSUME NEW s \in Status
        PROVE  byStatus'[s] = {i \in DOMAIN executions' : executions'[i].status = s}
    <3>1. byStatus[s] = {i \in DOMAIN executions : executions[i].status = s}
      BY <2>1, Zenon DEF Tallied
    <3>2. byStatus'[s] = IF s = "pending" THEN byStatus[s] \cup {id} ELSE byStatus[s]
      BY <1>1, <1>8, Zenon DEF RecordTypes
    <3>3. QED
      BY <1>6, <3>1, <3>2
  <2>3. ASSUME NEW k \in TaskName \X Status
        PROVE  counts'[k] = Cardinality(InStatus(k)')
    <3> DEFINE one == <<item.name, "pending">>
    <3>1. counts[k] = Cardinality(InStatus(k)) /\ InStatus(k) \in SUBSET (1..lastID) /\ id \notin InStatus(k)
      BY <1>1, <1>6, <2>1, Zenon DEF Tallied, InStatus, RecordTypes
    <3>2. counts'[k] = IF k = one THEN counts[k] + 1 ELSE counts[k]
      BY <1>1, <1>8, Zenon DEF RecordTypes
    <3>3. InStatus(k)' = IF k = one THEN InStatus(k) \cup {id} ELSE InStatus(k)
      <4>1. <<executions'[id].name, executions'[id].status>> = one
        BY <1>6, Zenon
      <4> HIDE DEF one
      <4>2. QED
        BY <1>6, <4>1 DEF InStatus
    <3>4. Cardinality(InStatus(k) \cup {id}) = Cardinality(InStatus(k)) + 1
      BY <1>5, <3>1, SubsetSize, FS_AddElement, Zenon
    <3> HIDE DEF one
    <3>5. QED
      BY <3>1, <3>2, <3>3, <3>4, Zenon
  <2>4. ExecutionReferences'
    <3>1. /\ keyed => /\ DOMAIN idempotent' = DOMAIN idempotent \cup {<<item.name, item.key>>}
                      /\ idempotent'[<<item.name, item.key>>] = id
          /\ \A k \in DOMAIN idempotent : k \in DOMAIN idempotent' /\ idempotent'[k] = idempotent[k]
      BY <1>2, Zenon DEF Put, At
    <3>2. /\ noded => /\ DOMAIN nodes' = DOMAIN nodes \cup {<<item.run, item.node>>}
                      /\ nodes'[<<item.run, item.node>>] = id
          /\ \A k \in DOMAIN nodes : k \in DOMAIN nodes' /\ nodes'[k] = nodes[k]
      BY <1>2, Zenon DEF Put, At
    <3>3. ASSUME NEW i \in DOMAIN executions'
          PROVE  /\ executions'[i].key # None =>
                      /\ <<executions'[i].name, executions'[i].key>> \in DOMAIN idempotent'
                      /\ idempotent'[<<executions'[i].name, executions'[i].key>>] = i
                 /\ executions'[i].run # 0 =>
                      /\ <<executions'[i].run, executions'[i].node>> \in DOMAIN nodes'
                      /\ nodes'[<<executions'[i].run, executions'[i].node>>] = i
      <4>1. CASE i = id
        BY <1>3, <1>6, <3>1, <3>2, <4>1, Zenon
      <4>2. CASE i \in DOMAIN executions
        BY <1>6, <2>1, <3>1, <3>2, <4>2 DEF ExecutionReferences
      <4>3. QED
        BY <1>6, <4>1, <4>2, Zenon
    <3>4. ASSUME NEW k \in DOMAIN idempotent'
          PROVE  /\ idempotent'[k] \in DOMAIN executions'
                 /\ k = <<executions'[idempotent'[k]].name, executions'[idempotent'[k]].key>>
                 /\ executions'[idempotent'[k]].key # None
      <4>1. CASE k \in DOMAIN idempotent
        BY <1>6, <2>1, <3>1, <4>1 DEF ExecutionReferences
      <4>2. CASE keyed /\ k = <<item.name, item.key>>
        BY <1>6, <3>1, <4>2, Zenon
      <4>3. QED
        BY <1>2, <3>1, <4>1, <4>2
    <3>5. ASSUME NEW k \in DOMAIN nodes'
          PROVE  /\ nodes'[k] \in DOMAIN executions'
                 /\ k = <<executions'[nodes'[k]].run, executions'[nodes'[k]].node>>
                 /\ executions'[nodes'[k]].run # 0
      <4>1. CASE k \in DOMAIN nodes
        BY <1>6, <2>1, <3>2, <4>1 DEF ExecutionReferences
      <4>2. CASE noded /\ k = <<item.run, item.node>>
        BY <1>6, <3>2, <4>2, Zenon
      <4>3. QED
        BY <1>2, <3>2, <4>1, <4>2
    <3>6. QED
      BY <3>3, <3>4, <3>5, Zenon DEF ExecutionReferences
  <2>5. QED
    BY <2>2, <2>3, <2>4, Zenon DEF Tallied
<1>12. QED
  BY <1>7, <1>9, <1>10, <1>11, Zenon DEF RecordsSound

(* A deadline leaves its index when nothing but Claim still needs it. *)
DropsDeadline(i) ==
  /\ removeLeaseIndex(i)
  /\ ~(/\ i \in DOMAIN executions /\ executions[i].status = "running"
       /\ executions[i].attempt >= executions[i].max)
  /\ UNCHANGED <<idempotent, nodes, lastID, stalePurge>>

LEMMA DropSound ==
  ASSUME RedisInv, NEW i, DropsDeadline(i)
  PROVE  RecordsSound' /\ RecordsGrow
<1>1. RecordTypes /\ Queued /\ (~stalePurge => Tallied /\ ExecutionReferences) /\ lastID \in Nat
  BY Zenon DEF RedisInv, RecordsSound, RecordTypes
<1>2. /\ executions' = executions /\ events' = events /\ queue' = queue /\ listed' = listed
      /\ byStatus' = byStatus /\ counts' = counts /\ idempotent' = idempotent /\ nodes' = nodes
      /\ lastID' = lastID /\ stalePurge' = stalePurge
      /\ leases' = Restrict(leases, DOMAIN leases \ {i})
  BY Zenon DEF DropsDeadline, removeLeaseIndex
<1>3. RecordsGrow
  BY <1>1, <1>2 DEF RecordsGrow, SameReference
<1>4. RecordTypes' /\ (~stalePurge' => Tallied' /\ ExecutionReferences')
  <2>1. RecordTypes'
    BY <1>1, <1>2, Zenon DEF RecordTypes
  <2>2. Tallied => Tallied'
    BY <1>2, Zenon DEF Tallied, InStatus
  <2>3. ExecutionReferences => ExecutionReferences'
    BY <1>2, Zenon DEF ExecutionReferences
  <2>4. QED
    BY <1>1, <1>2, <2>1, <2>2, <2>3, Zenon
<1>5. DOMAIN leases' = DOMAIN leases \ {i} /\ leases' = [j \in DOMAIN leases' |-> score(executions[j].leaseUntil)]
  BY <1>1, <1>2 DEF Restrict, Queued
<1>6. \A j \in DOMAIN executions :
        executions[j].status = "running" /\ executions[j].attempt >= executions[j].max => j \in DOMAIN leases'
  BY <1>1, <1>5, Zenon DEF DropsDeadline, Queued
<1>7. DOMAIN leases' \subseteq {j \in DOMAIN executions : executions[j].status = "running"}
  BY <1>1, <1>5, Zenon DEF Queued
<1>8. Queued'
  <2>1. queue' = [k \in {j \in DOMAIN executions' : executions'[j].status \in Active} |-> DueAt(executions'[k])]
    BY <1>1, <1>2, Zenon DEF Queued
  <2>2. leases' = [j \in DOMAIN leases' |-> score(executions'[j].leaseUntil)]
    BY <1>2, <1>5, Zenon
  <2>3. listed' = DOMAIN executions'
    BY <1>1, <1>2, Zenon DEF Queued
  <2>4. QED
    BY <1>2, <1>6, <1>7, <2>1, <2>2, <2>3, Zenon DEF Queued
<1>9. QED
  BY <1>3, <1>4, <1>8, Zenon DEF RecordsSound

(* The last step of Purge deletes what was listed, changed or not. *)
LEMMA PurgeRecords ==
  ASSUME RedisInv, NEW c \in Worker \cup Operator, PurgeDelete(c)
  PROVE  RecordsSound' /\ RecordsGrow
<1> DEFINE items == client[c].items
           dead == DOMAIN items
           out(k) == {i \in dead : <<items[i].name, items[i].status>> = k}
<1>1. /\ RecordTypes /\ Queued /\ (~stalePurge => Tallied /\ ExecutionReferences)
      /\ lastID \in Nat /\ lastID' = lastID
  BY Zenon DEF RedisInv, RecordsSound, RecordTypes, PurgeDelete
<1>2. /\ dead \subseteq 1..lastID
      /\ \A i \in dead \cap DOMAIN executions : SameReference(executions[i], items[i])
  BY Zenon DEF RedisInv, CallsSound, CallSound, Listing, PurgeDelete
<1>3. /\ executions' = Restrict(executions, DOMAIN executions \ dead)
      /\ events' = Restrict(events, DOMAIN events \ dead)
      /\ listed' = listed \ dead
      /\ queue' = Restrict(queue, DOMAIN queue \ dead)
      /\ leases' = Restrict(leases, DOMAIN leases \ dead)
      /\ byStatus' = [s \in Status |-> byStatus[s] \ {i \in dead : items[i].status = s}]
      /\ counts' = [k \in TaskName \X Status |-> counts[k] - Cardinality(out(k))]
      /\ idempotent' = Restrict(idempotent, DOMAIN idempotent \ {<<items[i].name, items[i].key>> : i \in dead})
      /\ nodes' = Restrict(nodes, DOMAIN nodes \ {<<items[i].run, items[i].node>> : i \in dead})
  BY <1>1, Zenon DEF PurgeDelete, purgeExecution, RecordTypes
<1>4. /\ DOMAIN executions' = DOMAIN executions \ dead
      /\ \A i \in DOMAIN executions' : executions'[i] = executions[i] /\ i \in DOMAIN executions
  BY <1>3, Zenon DEF Restrict
<1>5. ~stalePurge' => /\ ~stalePurge /\ dead \subseteq DOMAIN executions
                      /\ \A i \in dead : items[i].status = executions[i].status
  BY Zenon DEF PurgeDelete, Changed
<1> HIDE DEF items, dead
<1>6. RecordsGrow
  BY <1>1, <1>4 DEF RecordsGrow, SameReference
<1>7. RecordTypes'
  <2>1. counts' \in [TaskName \X Status -> Int]
    <3>1. \A k : out(k) \in SUBSET (1..lastID)
      BY <1>2, Zenon
    <3> HIDE DEF out
    <3>2. \A k \in TaskName \X Status : counts[k] \in Int /\ Cardinality(out(k)) \in Nat
      BY <1>1, <3>1, SubsetSize, Zenon DEF RecordTypes
    <3>3. \A k \in TaskName \X Status : counts[k] - Cardinality(out(k)) \in Int
      BY <3>2
    <3>4. QED
      BY <1>3, <3>3, Zenon
  <2>2. byStatus' \in [Status -> SUBSET (1..lastID)]
    BY <1>1, <1>3, Zenon DEF RecordTypes
  <2>3. DOMAIN events' = DOMAIN executions' /\ \A i \in DOMAIN executions' : events'[i] \in Seq(Event)
    BY <1>1, <1>3, <1>4, Zenon DEF RecordTypes, Restrict
  <2>4. QED
    BY <1>1, <1>4, <2>1, <2>2, <2>3, Zenon DEF RecordTypes
<1>8. Queued'
  <2>1. queue' = [i \in {j \in DOMAIN executions' : executions'[j].status \in Active} |-> DueAt(executions'[i])]
    <3>1. DOMAIN queue \ dead = {j \in DOMAIN executions' : executions'[j].status \in Active}
      BY <1>1, <1>4 DEF Queued
    <3>2. \A i \in DOMAIN queue \ dead : queue[i] = DueAt(executions'[i])
      BY <1>1, <1>4, <3>1, Zenon DEF Queued
    <3>3. queue' = [i \in DOMAIN queue \ dead |-> queue[i]]
      BY <1>3, Zenon DEF Restrict
    <3>4. QED
      BY <3>1, <3>2, <3>3
  <2>2. leases' = [i \in DOMAIN leases' |-> score(executions'[i].leaseUntil)] /\ DOMAIN leases' = DOMAIN leases \ dead
    <3>1. DOMAIN leases' = DOMAIN leases \ dead /\ leases' = [i \in DOMAIN leases \ dead |-> leases[i]]
      BY <1>3, Zenon DEF Restrict
    <3>2. \A i \in DOMAIN leases \ dead : leases[i] = score(executions'[i].leaseUntil)
      BY <1>1, <1>4, Zenon DEF Queued
    <3>3. QED
      BY <3>1, <3>2
  <2>3. /\ listed' = DOMAIN executions'
        /\ DOMAIN leases' \subseteq {i \in DOMAIN executions' : executions'[i].status = "running"}
        /\ \A i \in DOMAIN executions' : executions'[i].status = "running"
             /\ executions'[i].attempt >= executions'[i].max => i \in DOMAIN leases'
    BY <1>1, <1>3, <1>4, <2>2, Zenon DEF Queued
  <2>4. QED
    BY <2>1, <2>2, <2>3, Zenon DEF Queued
<1>9. ASSUME ~stalePurge' PROVE Tallied' /\ ExecutionReferences'
  <2>1. /\ Tallied /\ ExecutionReferences /\ dead \subseteq DOMAIN executions
        /\ \A i \in dead : items[i].status = executions[i].status
    BY <1>1, <1>5, <1>9, Zenon
  <2>2. \A i \in dead : /\ items[i].name = executions[i].name /\ items[i].key = executions[i].key
                        /\ items[i].run = executions[i].run /\ items[i].node = executions[i].node
    BY <1>2, <2>1, Zenon DEF SameReference
  <2>3. ASSUME NEW s \in Status
        PROVE  byStatus'[s] = {i \in DOMAIN executions' : executions'[i].status = s}
    <3>1. byStatus[s] = {i \in DOMAIN executions : executions[i].status = s}
      BY <2>1, Zenon DEF Tallied
    <3>2. byStatus'[s] = byStatus[s] \ {i \in dead : executions[i].status = s}
      BY <1>3, <2>1, Zenon
    <3>3. {i \in DOMAIN executions' : executions'[i].status = s}
            = {i \in DOMAIN executions \ dead : executions[i].status = s}
      BY <1>4, Zenon
    <3>4. QED
      BY <3>1, <3>2, <3>3, Zenon
  <2>4. ASSUME NEW k \in TaskName \X Status
        PROVE  counts'[k] = Cardinality(InStatus(k)')
    <3>1. counts'[k] = Cardinality(InStatus(k)) - Cardinality(out(k))
      BY <1>3, <2>1, Zenon DEF Tallied
    <3>2. out(k) = {i \in dead : <<executions[i].name, executions[i].status>> = k}
      BY <2>1, <2>2, Zenon
    <3>3. Exchanged(lastID, InStatus(k), out(k), {}, InStatus(k)')
      <4>1. InStatus(k) \subseteq 1..lastID /\ out(k) \subseteq InStatus(k)
        BY <1>1, <2>1, <3>2, Zenon DEF InStatus, RecordTypes
      <4>2. InStatus(k)' = InStatus(k) \ out(k)
        <5> HIDE DEF out
        <5>1. InStatus(k)' = {i \in DOMAIN executions \ dead : <<executions[i].name, executions[i].status>> = k}
          BY <1>4, Zenon DEF InStatus
        <5>2. QED
          BY <3>2, <5>1, Zenon DEF InStatus
      <4> HIDE DEF out
      <4>3. QED
        BY <1>1, <4>1, <4>2 DEF Exchanged
    <3> HIDE DEF out
    <3>4. Cardinality(InStatus(k)') = Cardinality(InStatus(k)) + Cardinality({}) - Cardinality(out(k))
      BY <3>3, Exchange
    <3>5. Cardinality(InStatus(k)) \in Nat /\ Cardinality(out(k)) \in Nat /\ Cardinality({}) = 0
      <4>1. InStatus(k) \in SUBSET (1..lastID) /\ out(k) \in SUBSET (1..lastID)
        BY <3>3, Zenon DEF Exchanged
      <4>2. QED
        BY <1>1, <4>1, SubsetSize, FS_EmptySet, Zenon
    <3>6. QED
      BY <3>1, <3>4, <3>5
  <2>5. ExecutionReferences'
    <3> DEFINE keys == {<<executions[i].name, executions[i].key>> : i \in dead}
               places == {<<executions[i].run, executions[i].node>> : i \in dead}
    <3>1. /\ DOMAIN idempotent' = DOMAIN idempotent \ keys
          /\ \A k \in DOMAIN idempotent' : idempotent'[k] = idempotent[k]
      <4>1. {<<items[i].name, items[i].key>> : i \in dead} = keys
        BY <2>2, Zenon
      <4> HIDE DEF keys
      <4>2. QED
        BY <1>3, <4>1, Zenon DEF Restrict
    <3>2. /\ DOMAIN nodes' = DOMAIN nodes \ places
          /\ \A k \in DOMAIN nodes' : nodes'[k] = nodes[k]
      <4>1. {<<items[i].run, items[i].node>> : i \in dead} = places
        BY <2>2, Zenon
      <4> HIDE DEF places
      <4>2. QED
        BY <1>3, <4>1, Zenon DEF Restrict
    <3>3. ASSUME NEW i \in DOMAIN executions'
          PROVE  /\ executions'[i].key # None =>
                      /\ <<executions'[i].name, executions'[i].key>> \in DOMAIN idempotent'
                      /\ idempotent'[<<executions'[i].name, executions'[i].key>>] = i
                 /\ executions'[i].run # 0 =>
                      /\ <<executions'[i].run, executions'[i].node>> \in DOMAIN nodes'
                      /\ nodes'[<<executions'[i].run, executions'[i].node>>] = i
      <4>1. i \in DOMAIN executions /\ i \notin dead /\ executions'[i] = executions[i]
        BY <1>4, Zenon
      <4>2. ASSUME executions[i].key # None
            PROVE  LET k == <<executions[i].name, executions[i].key>> IN
                   k \in DOMAIN idempotent' /\ idempotent'[k] = i
        <5> DEFINE k == <<executions[i].name, executions[i].key>>
        <5>1. k \in DOMAIN idempotent /\ idempotent[k] = i
          BY <2>1, <4>1, <4>2, Zenon DEF ExecutionReferences
        <5>2. ASSUME NEW j \in dead, k = <<executions[j].name, executions[j].key>> PROVE FALSE
          <6>1. executions[j].key # None
            BY <4>2, <5>2
          <6>2. idempotent[<<executions[j].name, executions[j].key>>] = j
            BY <2>1, <6>1, Zenon DEF ExecutionReferences
          <6>3. QED
            BY <4>1, <5>1, <5>2, <6>2, Zenon
        <5>3. QED
          BY <3>1, <5>1, <5>2, Zenon
      <4>3. ASSUME executions[i].run # 0
            PROVE  LET k == <<executions[i].run, executions[i].node>> IN
                   k \in DOMAIN nodes' /\ nodes'[k] = i
        <5> DEFINE k == <<executions[i].run, executions[i].node>>
        <5>1. k \in DOMAIN nodes /\ nodes[k] = i
          BY <2>1, <4>1, <4>3, Zenon DEF ExecutionReferences
        <5>2. ASSUME NEW j \in dead, k = <<executions[j].run, executions[j].node>> PROVE FALSE
          <6>1. executions[j].run # 0
            BY <4>3, <5>2
          <6>2. nodes[<<executions[j].run, executions[j].node>>] = j
            BY <2>1, <6>1, Zenon DEF ExecutionReferences
          <6>3. QED
            BY <4>1, <5>1, <5>2, <6>2, Zenon
        <5>3. QED
          BY <3>2, <5>1, <5>2, Zenon
      <4>4. QED
        BY <4>1, <4>2, <4>3, Zenon
    <3>4. ASSUME NEW k \in DOMAIN idempotent'
          PROVE  /\ idempotent'[k] \in DOMAIN executions'
                 /\ k = <<executions'[idempotent'[k]].name, executions'[idempotent'[k]].key>>
                 /\ executions'[idempotent'[k]].key # None
      <4> DEFINE i == idempotent[k]
      <4>1. /\ idempotent'[k] = i /\ i \in DOMAIN executions /\ k \notin keys
            /\ k = <<executions[i].name, executions[i].key>> /\ executions[i].key # None
        BY <2>1, <3>1, Zenon DEF ExecutionReferences
      <4>2. i \in DOMAIN executions'
        BY <1>4, <4>1, Zenon
      <4> HIDE DEF i
      <4>3. QED
        BY <1>4, <4>1, <4>2, Zenon
    <3>5. ASSUME NEW k \in DOMAIN nodes'
          PROVE  /\ nodes'[k] \in DOMAIN executions'
                 /\ k = <<executions'[nodes'[k]].run, executions'[nodes'[k]].node>>
                 /\ executions'[nodes'[k]].run # 0
      <4> DEFINE i == nodes[k]
      <4>1. /\ nodes'[k] = i /\ i \in DOMAIN executions /\ k \notin places
            /\ k = <<executions[i].run, executions[i].node>> /\ executions[i].run # 0
        BY <2>1, <3>2, Zenon DEF ExecutionReferences
      <4>2. i \in DOMAIN executions'
        BY <1>4, <4>1, Zenon
      <4> HIDE DEF i
      <4>3. QED
        BY <1>4, <4>1, <4>2, Zenon
    <3>6. QED
      BY <3>3, <3>4, <3>5, Zenon DEF ExecutionReferences
  <2>6. QED
    BY <2>3, <2>4, <2>5, Zenon DEF Tallied
<1>10. QED
  BY <1>6, <1>7, <1>8, <1>9, Zenon DEF RecordsSound

-----------------------------------------------------------------------------
(* The runs: one is saved with a new status, one is created, or a purge    *)
(* deletes some.                                                           *)
LEMMA SaveRunSound ==
  ASSUME RedisInv, NEW r \in DOMAIN runs, NEW run \in PipelineRun, run.key = runs[r].key,
         SaveRun(r, run), UNCHANGED <<runIdempotent, lastRun, stalePurge>>
  PROVE  RunsSound' /\ RunsGrow
<1>1. /\ RunTypes /\ (~stalePurge => RunsTallied /\ RunReferences)
      /\ lastRun \in Nat /\ lastRun' = lastRun /\ stalePurge' = stalePurge /\ runIdempotent' = runIdempotent
  BY Zenon DEF RedisInv, RunsSound, RunTypes
<1>2. /\ DOMAIN runs' = DOMAIN runs /\ runs'[r] = run
      /\ \A s \in DOMAIN runs \ {r} : runs'[s] = runs[s]
      /\ \A s \in DOMAIN runs : runs'[s].key = runs[s].key
  BY Zenon DEF SaveRun
<1>3. RunsGrow
  BY <1>1, <1>2 DEF RunsGrow
<1> DEFINE out(s) == IF runs[r].status = s THEN {r} ELSE {}
           in(s) == IF run.status = s THEN {r} ELSE {}
<1>4. \A s \in RunStatus : /\ runsByStatus'[s] = (runsByStatus[s] \ out(s)) \cup in(s)
                           /\ runCounts'[s] = runCounts[s] - (IF runs[r].status = s THEN 1 ELSE 0)
                                                           + (IF run.status = s THEN 1 ELSE 0)
  BY Zenon DEF SaveRun
<1>5. RunTypes'
  <2>1. r \in 1..lastRun /\ \A s \in RunStatus : runsByStatus[s] \in SUBSET (1..lastRun) /\ runCounts[s] \in Int
    BY <1>1, Zenon DEF RunTypes
  <2>2. \A s \in RunStatus : (runsByStatus[s] \ out(s)) \cup in(s) \in SUBSET (1..lastRun)
    BY <2>1, Zenon
  <2>3. \A s \in RunStatus : runCounts[s] - (IF runs[r].status = s THEN 1 ELSE 0)
                                         + (IF run.status = s THEN 1 ELSE 0) \in Int
    BY <2>1
  <2>4. /\ runsByStatus' = [s \in RunStatus |-> (runsByStatus[s] \ out(s)) \cup in(s)]
        /\ runCounts' = [s \in RunStatus |-> runCounts[s] - (IF runs[r].status = s THEN 1 ELSE 0)
                                                          + (IF run.status = s THEN 1 ELSE 0)]
    BY Zenon DEF SaveRun
  <2>5. runsByStatus' \in [RunStatus -> SUBSET (1..lastRun)] /\ runCounts' \in [RunStatus -> Int]
    BY <2>2, <2>3, <2>4, Zenon
  <2>6. QED
    BY <1>1, <1>2, <2>5, Zenon DEF RunTypes
<1>6. ASSUME ~stalePurge' PROVE RunsTallied' /\ RunReferences'
  <2>1. RunsTallied /\ RunReferences
    BY <1>1, <1>6
  <2>2. ASSUME NEW s \in RunStatus
        PROVE  runsByStatus'[s] = RunsIn(s)' /\ runCounts'[s] = Cardinality(RunsIn(s)')
    <3>1. runsByStatus[s] = RunsIn(s) /\ runCounts[s] = Cardinality(RunsIn(s))
      BY <2>1, Zenon DEF RunsTallied
    <3>2. RunsIn(s)' = (RunsIn(s) \ out(s)) \cup in(s)
      BY <1>2 DEF RunsIn
    <3>3. Exchanged(lastRun, RunsIn(s), out(s), in(s), RunsIn(s)')
      <4>1. RunsIn(s) \subseteq 1..lastRun /\ out(s) \subseteq RunsIn(s) /\ in(s) \subseteq 1..lastRun
        BY <1>1, Zenon DEF RunsIn, RunTypes
      <4>2. in(s) \cap (RunsIn(s) \ out(s)) = {}
        BY Zenon DEF RunsIn
      <4> HIDE DEF in, out
      <4>3. QED
        BY <1>1, <3>2, <4>1, <4>2 DEF Exchanged
    <3>4. Cardinality(RunsIn(s)') = Cardinality(RunsIn(s)) + Cardinality(in(s)) - Cardinality(out(s))
      <4> HIDE DEF in, out
      <4>1. QED
        BY <3>3, Exchange
    <3>5. /\ Cardinality(out(s)) = IF runs[r].status = s THEN 1 ELSE 0
          /\ Cardinality(in(s)) = IF run.status = s THEN 1 ELSE 0
      BY FS_Singleton, FS_EmptySet, Zenon
    <3>6. Cardinality(RunsIn(s)) \in Nat
      <4>1. RunsIn(s) \in SUBSET (1..lastRun)
        BY <1>1, Zenon DEF RunsIn, RunTypes
      <4>2. QED
        BY <1>1, <4>1, SubsetSize, Zenon
    <3> HIDE DEF in, out
    <3>7. QED
      BY <1>4, <3>1, <3>2, <3>4, <3>5, <3>6
  <2>3. RunReferences'
    BY <1>1, <1>2, <2>1, Zenon DEF RunReferences
  <2>4. QED
    BY <2>2, <2>3, Zenon DEF RunsTallied
<1>7. QED
  BY <1>3, <1>5, <1>6, Zenon DEF RunsSound

CreatesRun(key) ==
  /\ runs' = Put(runs, At(lastRun + 1, [key |-> key, status |-> "pending", revision |-> 0, finishedAt |-> 0]))
  /\ lastRun' = lastRun + 1
  /\ key # None => /\ key \notin DOMAIN runIdempotent
                   /\ runIdempotent' = Put(runIdempotent, At(key, lastRun + 1))
  /\ key = None => runIdempotent' = runIdempotent
  /\ AddRun(lastRun + 1)
  /\ stalePurge' = stalePurge

LEMMA CreateRunSound ==
  ASSUME RedisInv, NEW key \in IdempotencyKey \cup {None}, CreatesRun(key)
  PROVE  RunsSound' /\ RunsGrow
<1> DEFINE id == lastRun + 1
           run == [key |-> key, status |-> "pending", revision |-> 0, finishedAt |-> 0]
<1>1. /\ RunTypes /\ (~stalePurge => RunsTallied /\ RunReferences) /\ stalePurge' = stalePurge
  BY Zenon DEF RedisInv, RunsSound, CreatesRun
<1>2. /\ runs' = Put(runs, At(id, run)) /\ lastRun' = id
      /\ key # None => key \notin DOMAIN runIdempotent /\ runIdempotent' = Put(runIdempotent, At(key, id))
      /\ key = None => runIdempotent' = runIdempotent
      /\ runsByStatus' = [runsByStatus EXCEPT !["pending"] = @ \cup {id}]
      /\ runCounts' = [runCounts EXCEPT !["pending"] = @ + 1]
  BY Zenon DEF CreatesRun, AddRun
<1>3. run \in PipelineRun /\ run.status = "pending" /\ run.key = key
  BY DEF PipelineRun, RunStatus
<1>4. /\ lastRun \in Nat /\ id \in Nat /\ id \notin 1..lastRun
      /\ 1..lastRun \subseteq 1..id /\ id \in 1..id /\ lastRun <= id
  BY <1>1 DEF RunTypes
<1> HIDE DEF run, id
<1>5. /\ id \notin DOMAIN runs /\ DOMAIN runs' = DOMAIN runs \cup {id} /\ runs'[id] = run
      /\ \A r \in DOMAIN runs : runs'[r] = runs[r]
  BY <1>1, <1>2, <1>4, Zenon DEF Put, At, RunTypes
<1>6. RunsGrow
  BY <1>2, <1>4, <1>5, Zenon DEF RunsGrow
<1>7. "pending" \in RunStatus
  BY Zenon DEF RunStatus
<1>8. RunTypes'
  <2>1. runCounts' \in [RunStatus -> Int]
    <3>1. runCounts \in [RunStatus -> Int] /\ runCounts["pending"] + 1 \in Int
      BY <1>1, <1>7 DEF RunTypes
    <3>2. QED
      BY <1>2, <3>1, Zenon
  <2>2. runsByStatus' \in [RunStatus -> SUBSET (1..id)]
    <3>1. runsByStatus \in [RunStatus -> SUBSET (1..id)]
      BY <1>1, <1>4 DEF RunTypes
    <3>2. QED
      BY <1>2, <1>4, <3>1, Zenon
  <2>3. DOMAIN runs' \subseteq 1..id /\ \A r \in DOMAIN runs' : runs'[r] \in PipelineRun
    BY <1>1, <1>3, <1>4, <1>5, Zenon DEF RunTypes
  <2>4. QED
    BY <1>2, <1>4, <2>1, <2>2, <2>3, Zenon DEF RunTypes
<1>9. ASSUME ~stalePurge' PROVE RunsTallied' /\ RunReferences'
  <2>1. RunsTallied /\ RunReferences
    BY <1>1, <1>9, Zenon
  <2>2. ASSUME NEW s \in RunStatus
        PROVE  runsByStatus'[s] = RunsIn(s)' /\ runCounts'[s] = Cardinality(RunsIn(s)')
    <3>1. /\ runsByStatus[s] = RunsIn(s) /\ runCounts[s] = Cardinality(RunsIn(s))
          /\ RunsIn(s) \in SUBSET (1..lastRun) /\ id \notin RunsIn(s)
      BY <1>1, <1>5, <2>1, Zenon DEF RunsTallied, RunsIn, RunTypes
    <3>2. /\ runsByStatus'[s] = IF s = "pending" THEN runsByStatus[s] \cup {id} ELSE runsByStatus[s]
          /\ runCounts'[s] = IF s = "pending" THEN runCounts[s] + 1 ELSE runCounts[s]
      BY <1>1, <1>2, Zenon DEF RunTypes
    <3>3. RunsIn(s)' = IF s = "pending" THEN RunsIn(s) \cup {id} ELSE RunsIn(s)
      BY <1>3, <1>5 DEF RunsIn
    <3>4. Cardinality(RunsIn(s) \cup {id}) = Cardinality(RunsIn(s)) + 1
      BY <1>4, <3>1, SubsetSize, FS_AddElement, Zenon
    <3>5. QED
      BY <3>1, <3>2, <3>3, <3>4, Zenon
  <2>3. RunReferences'
    <3>1. /\ key # None => DOMAIN runIdempotent' = DOMAIN runIdempotent \cup {key} /\ runIdempotent'[key] = id
          /\ \A k \in DOMAIN runIdempotent : k \in DOMAIN runIdempotent' /\ runIdempotent'[k] = runIdempotent[k]
      BY <1>2, Zenon DEF Put, At
    <3>2. ASSUME NEW r \in DOMAIN runs', runs'[r].key # None
          PROVE  runs'[r].key \in DOMAIN runIdempotent' /\ runIdempotent'[runs'[r].key] = r
      BY <1>3, <1>5, <2>1, <3>1, <3>2 DEF RunReferences
    <3>3. ASSUME NEW k \in DOMAIN runIdempotent'
          PROVE  runIdempotent'[k] \in DOMAIN runs' /\ runs'[runIdempotent'[k]].key = k /\ k # None
      <4>1. CASE k \in DOMAIN runIdempotent
        BY <1>5, <2>1, <3>1, <4>1 DEF RunReferences
      <4>2. CASE k \notin DOMAIN runIdempotent
        BY <1>2, <1>3, <1>5, <3>1, <4>2
      <4>3. QED
        BY <4>1, <4>2, Zenon
    <3>4. QED
      BY <3>2, <3>3, Zenon DEF RunReferences
  <2>4. QED
    BY <2>2, <2>3, Zenon DEF RunsTallied
<1>10. QED
  BY <1>6, <1>8, <1>9, Zenon DEF RunsSound

LEMMA PurgeRuns ==
  ASSUME RedisInv, NEW c \in Worker \cup Operator, PurgeDelete(c)
  PROVE  RunsSound' /\ RunsGrow
<1> DEFINE seen == client[c].runs
           dead == DOMAIN seen
           out(s) == {r \in dead : seen[r].status = s}
<1>1. /\ RunTypes /\ (~stalePurge => RunsTallied /\ RunReferences) /\ lastRun \in Nat /\ lastRun' = lastRun
  BY Zenon DEF RedisInv, RunsSound, RunTypes, PurgeDelete
<1>2. dead \subseteq 1..lastRun /\ \A r \in dead \cap DOMAIN runs : seen[r].key = runs[r].key
  BY Zenon DEF RedisInv, CallsSound, CallSound, Listing, PurgeDelete
<1>3. /\ runs' = Restrict(runs, DOMAIN runs \ dead)
      /\ runsByStatus' = [s \in RunStatus |-> runsByStatus[s] \ out(s)]
      /\ runCounts' = [s \in RunStatus |-> runCounts[s] - Cardinality(out(s))]
      /\ runIdempotent' = Restrict(runIdempotent, DOMAIN runIdempotent \ {seen[r].key : r \in dead})
  BY Zenon DEF PurgeDelete
<1>4. /\ DOMAIN runs' = DOMAIN runs \ dead
      /\ \A r \in DOMAIN runs' : runs'[r] = runs[r] /\ r \in DOMAIN runs
  BY <1>3, Zenon DEF Restrict
<1>5. ~stalePurge' => /\ ~stalePurge /\ dead \subseteq DOMAIN runs
                      /\ \A r \in dead : seen[r].status = runs[r].status
  BY Zenon DEF PurgeDelete, Changed
<1> HIDE DEF seen, dead
<1>6. RunsGrow
  BY <1>1, <1>4 DEF RunsGrow
<1>7. \A s : out(s) \in SUBSET (1..lastRun)
  BY <1>2, Zenon
<1>8. \A s : Cardinality(out(s)) \in Nat
  BY <1>1, <1>7, SubsetSize, Zenon
<1>9. RunTypes'
  <2> HIDE DEF out
  <2>1. \A s \in RunStatus : runCounts[s] \in Int /\ runsByStatus[s] \in SUBSET (1..lastRun)
    BY <1>1, Zenon DEF RunTypes
  <2>2. \A s \in RunStatus : runCounts[s] - Cardinality(out(s)) \in Int
    BY <1>8, <2>1
  <2>3. runCounts' \in [RunStatus -> Int] /\ runsByStatus' \in [RunStatus -> SUBSET (1..lastRun)]
    BY <1>3, <2>1, <2>2, Zenon
  <2>4. QED
    BY <1>1, <1>4, <2>3, Zenon DEF RunTypes
<1>10. ASSUME ~stalePurge' PROVE RunsTallied' /\ RunReferences'
  <2>1. /\ RunsTallied /\ RunReferences /\ dead \subseteq DOMAIN runs
        /\ \A r \in dead : seen[r].status = runs[r].status /\ seen[r].key = runs[r].key
    BY <1>1, <1>2, <1>5, <1>10, Zenon
  <2>2. ASSUME NEW s \in RunStatus
        PROVE  runsByStatus'[s] = RunsIn(s)' /\ runCounts'[s] = Cardinality(RunsIn(s)')
    <3>1. runsByStatus[s] = RunsIn(s) /\ runCounts[s] = Cardinality(RunsIn(s))
      BY <2>1, Zenon DEF RunsTallied
    <3>2. out(s) = {r \in dead : runs[r].status = s}
      BY <2>1, Zenon
    <3>3. RunsIn(s) \subseteq 1..lastRun /\ out(s) \subseteq RunsIn(s)
      BY <1>1, <2>1, <3>2, Zenon DEF RunsIn, RunTypes
    <3>4. runsByStatus'[s] = runsByStatus[s] \ out(s) /\ runCounts'[s] = runCounts[s] - Cardinality(out(s))
      BY <1>3, Zenon
    <3> HIDE DEF out
    <3>5. RunsIn(s)' = RunsIn(s) \ out(s)
      <4>1. RunsIn(s)' = {r \in DOMAIN runs \ dead : runs[r].status = s}
        BY <1>4, Zenon DEF RunsIn
      <4>2. QED
        BY <3>2, <4>1, Zenon DEF RunsIn
    <3>6. Exchanged(lastRun, RunsIn(s), out(s), {}, RunsIn(s)')
      BY <1>1, <3>3, <3>5 DEF Exchanged
    <3>7. Cardinality(RunsIn(s)') = Cardinality(RunsIn(s)) + Cardinality({}) - Cardinality(out(s))
      BY <3>6, Exchange
    <3>8. Cardinality(RunsIn(s)) \in Nat /\ Cardinality({}) = 0
      <4>1. RunsIn(s) \in SUBSET (1..lastRun)
        BY <3>3, Zenon
      <4>2. QED
        BY <1>1, <4>1, SubsetSize, FS_EmptySet, Zenon
    <3>9. QED
      BY <1>8, <3>1, <3>4, <3>5, <3>7, <3>8
  <2>3. RunReferences'
    <3> DEFINE keys == {runs[r].key : r \in dead}
    <3>1. DOMAIN runIdempotent' = DOMAIN runIdempotent \ keys
          /\ \A k \in DOMAIN runIdempotent' : runIdempotent'[k] = runIdempotent[k]
      <4>1. {seen[r].key : r \in dead} = keys
        BY <2>1, Zenon
      <4> HIDE DEF keys
      <4>2. QED
        BY <1>3, <4>1, Zenon DEF Restrict
    <3>2. ASSUME NEW r \in DOMAIN runs', runs'[r].key # None
          PROVE  runs'[r].key \in DOMAIN runIdempotent' /\ runIdempotent'[runs'[r].key] = r
      <4>1. /\ r \in DOMAIN runs /\ r \notin dead /\ runs'[r] = runs[r] /\ runs[r].key # None
            /\ runs[r].key \in DOMAIN runIdempotent /\ runIdempotent[runs[r].key] = r
        BY <1>4, <2>1, <3>2, Zenon DEF RunReferences
      <4>2. ASSUME NEW q \in dead, runs[q].key = runs[r].key PROVE FALSE
        <5>1. runs[q].key # None /\ q \in DOMAIN runs
          BY <2>1, <4>1, <4>2, Zenon
        <5>2. runIdempotent[runs[q].key] = q
          BY <2>1, <5>1, Zenon DEF RunReferences
        <5>3. QED
          BY <4>1, <4>2, <5>2, Zenon
      <4>3. QED
        BY <3>1, <4>1, <4>2, Zenon
    <3>3. ASSUME NEW k \in DOMAIN runIdempotent'
          PROVE  runIdempotent'[k] \in DOMAIN runs' /\ runs'[runIdempotent'[k]].key = k /\ k # None
      <4>1. /\ k \in DOMAIN runIdempotent /\ k \notin keys /\ runIdempotent'[k] = runIdempotent[k]
            /\ runIdempotent[k] \in DOMAIN runs /\ runs[runIdempotent[k]].key = k /\ k # None
        BY <2>1, <3>1, Zenon DEF RunReferences
      <4>2. runIdempotent[k] \in DOMAIN runs'
        BY <1>4, <4>1, Zenon
      <4>3. QED
        BY <1>4, <4>1, <4>2, Zenon
    <3>4. QED
      BY <3>2, <3>3, Zenon DEF RunReferences
  <2>4. QED
    BY <2>2, <2>3, Zenon DEF RunsTallied
<1>11. QED
  BY <1>6, <1>9, <1>10, Zenon DEF RunsSound

=============================================================================
