---------------------------- MODULE WorkerProofs ----------------------------
(***************************************************************************)
(* Proofs about Worker.  The invariant is the checked one with the types   *)
(* of the loops, what the store keeps true of its executions, and that a   *)
(* node belongs to a run that was created.                                 *)
(***************************************************************************)
EXTENDS Worker, MemoryStoreProofs, FiniteSetTheorems

LoopPC == {"reap", "advanceReaped", "claim", "reconcile", "wait", "execute", "reload", "advance", "done"}

LoopRecord ==
  [pc : LoopPC, had : BOOLEAN, errors : Nat, runs : SUBSET Nat, id : Nat, token : Nat,
   returned : BOOLEAN, beats : Nat]

WorkerInv ==
  /\ IInv /\ KnownRuns
  /\ loops \in [Loop -> LoopRecord] /\ failures \in Nat
  /\ WorkerTypeOK /\ NoLoopLost /\ HeldByItsLoop

(* No call has failed and no worker was stopped or died. *)
Calm == failures = 0 /\ \A w \in Worker : workers[w] = "running"

HoldsOn(loop, i, item) == loop.pc = "execute" /\ loop.id = i /\ loop.token = item.token

(* A step that delivers nothing. *)
Steady ==
  \A i \in DOMAIN executions' : executions'[i].status = "running" =>
    /\ i \in DOMAIN executions /\ executions[i].status = "running"
    /\ executions'[i].token = executions[i].token

-----------------------------------------------------------------------------
(* The records of loops. *)
LEMMA AtPC ==
  ASSUME NEW loop \in LoopRecord, NEW pc \in LoopPC
  PROVE  LET new == [loop EXCEPT !.pc = pc] IN
         /\ new \in LoopRecord /\ new.pc = pc
         /\ new.runs = loop.runs /\ new.id = loop.id /\ new.token = loop.token
BY Zenon DEF LoopRecord

LEMMA IdleLoop ==
  ASSUME NEW errors \in Nat
  PROVE  [Idle EXCEPT !.errors = errors] \in LoopRecord /\ [Idle EXCEPT !.errors = errors].runs = {}
<1>1. Idle \in LoopRecord /\ Idle.runs = {}
  BY Zenon DEF Idle, LoopRecord, LoopPC
<1>2. QED
  BY <1>1, Zenon DEF LoopRecord

LEMMA LeftLoop ==
  ASSUME NEW loop \in LoopRecord
  PROVE  /\ [Idle EXCEPT !.errors = loop.errors, !.id = loop.id, !.runs = loop.runs] \in LoopRecord
         /\ [Idle EXCEPT !.errors = loop.errors, !.id = loop.id, !.runs = loop.runs].runs = loop.runs
<1>1. Idle \in LoopRecord
  BY Zenon DEF Idle, LoopRecord, LoopPC
<1>2. QED
  BY <1>1, Zenon DEF LoopRecord

LEMMA HealthyLoop ==
  ASSUME NEW loop \in LoopRecord
  PROVE  healthy(loop) \in LoopRecord /\ healthy(loop).pc = loop.pc /\ healthy(loop).runs = loop.runs
BY Zenon DEF healthy, LoopRecord

(* A loop that runs is at its place; one that is not ended belongs to a    *)
(* worker that is known.                                                   *)
LEMMA LoopFacts ==
  ASSUME WorkerInv, NEW l \in Loop
  PROVE  /\ loops[l] \in LoopRecord /\ loops[l].errors \in Nat /\ loops[l].id \in Nat
         /\ loops[l].runs \in SUBSET Nat /\ loops[l].runs \subseteq 1..lastRun
         /\ DOMAIN loops = Loop /\ WorkerOf[l] \in Worker
         /\ DOMAIN workers = Worker
BY WorkerAssumption, Zenon DEF WorkerInv, WorkerTypeOK, LoopRecord

-----------------------------------------------------------------------------
(* What the store calls of a worker do to deliveries. *)
LEMMA CommitSteady ==
  ASSUME IInv, NEW S \in SUBSET DOMAIN executions, NEW new, DOMAIN new = S, NEW type,
         appendEvent(new, type), \A i \in S : new[i].status # "running"
  PROVE  Steady /\ DOMAIN executions' = DOMAIN executions
BY CommitValues DEF Steady

(* An operation that writes one execution, and does not run it, delivers nothing. *)
LEMMA CommitOneSteady ==
  ASSUME IInv, NEW i \in DOMAIN executions, NEW value, NEW type,
         appendEvent(At(i, value), type), value.status # "running"
  PROVE  /\ Steady /\ DOMAIN executions' = DOMAIN executions
         /\ executions'[i].status # "running"
<1> DEFINE new == At(i, value)
<1>1. DOMAIN new = {i} /\ new[i] = value /\ {i} \in SUBSET DOMAIN executions
  BY Zenon DEF At
<1>2. appendEvent(new, type)
  BY Zenon
<1> HIDE DEF new
<1>3. QED
  BY <1>1, <1>2, CommitSteady, CommitValues, Zenon

LEMMA FinishedStatus ==
  ASSUME NEW item \in Execution, NEW status
  PROVE  Finished(item, status).status = status
BY Zenon DEF Finished, Unleased, Execution

LEMMA ResolvedSteady ==
  ASSUME IInv, NEW i, NEW token,
         \/ Succeed(i, token) \/ Fail(i, token) \/ \E delay \in Delays : Retry(i, token, delay)
  PROVE  /\ Steady /\ DOMAIN executions' = DOMAIN executions
         /\ executions'[i].status # "running"
<1>1. i \in DOMAIN executions
  BY Zenon DEF Succeed, Fail, Retry, owned
<1>2. executions[i] \in Execution
  BY <1>1, LastEvent, Zenon
<1>3. ASSUME NEW value, NEW type, appendEvent(At(i, value), type),
             value.status \in {"succeeded", "failed", "retry"}
      PROVE  /\ Steady /\ DOMAIN executions' = DOMAIN executions
             /\ executions'[i].status # "running"
  BY <1>1, <1>3, CommitOneSteady, Zenon
<1>4. CASE Succeed(i, token)
  <2> DEFINE new == [Finished(executions[i], "succeeded") EXCEPT !.output = token]
  <2>1. appendEvent(At(i, new), "succeeded")
    BY <1>4, Zenon DEF Succeed
  <2>2. new.status = "succeeded"
    BY <1>2, Zenon DEF Finished, Unleased, Execution
  <2> HIDE DEF new
  <2>3. QED
    BY <1>3, <2>1, <2>2, Zenon
<1>5. Finished(executions[i], "failed").status = "failed"
  BY <1>2, FinishedStatus, Zenon
<1>6. CASE Fail(i, token)
  <2>1. appendEvent(At(i, Finished(executions[i], "failed")), "failed")
    BY <1>6, Zenon DEF Fail
  <2>2. QED
    BY <1>3, <1>5, <2>1, Zenon
<1>7. ASSUME NEW delay \in Delays, Retry(i, token, delay)
      PROVE  /\ Steady /\ DOMAIN executions' = DOMAIN executions
             /\ executions'[i].status # "running"
  <2> DEFINE at == now + delay
             new == [Unleased(executions[i]) EXCEPT !.status = "retry", !.availableAt = at]
  <2>1. \/ appendEvent(At(i, Finished(executions[i], "failed")), "failed")
        \/ appendEvent(At(i, new), "retried")
    BY <1>7, Zenon DEF Retry
  <2> HIDE DEF at
  <2>2. new.status = "retry"
    BY <1>2, Zenon DEF Unleased, Execution
  <2> HIDE DEF new
  <2>3. QED
    BY <1>3, <1>5, <2>1, <2>2, Zenon
<1>8. QED
  BY <1>4, <1>6, <1>7, Zenon

LEMMA ReapSteady ==
  ASSUME IInv, ReapExpired
  PROVE  Steady /\ DOMAIN executions' = DOMAIN executions
<1> DEFINE dead == {i \in DOMAIN executions : Reapable(executions[i])}
           new == [i \in dead |-> Finished(executions[i], "failed")]
<1>1. appendEvent(new, "failed")
  BY Zenon DEF ReapExpired
<1>2. DOMAIN new = dead /\ dead \in SUBSET DOMAIN executions
  BY Zenon
<1>3. \A i \in dead : new[i].status = "failed"
  <2>1. ASSUME NEW i \in dead PROVE new[i].status = "failed"
    <3>1. executions[i] \in Execution
      BY LastEvent, Zenon
    <3>2. new[i] = Finished(executions[i], "failed")
      BY Zenon
    <3> HIDE DEF new
    <3>3. QED
      BY <3>1, <3>2, FinishedStatus, Zenon
  <2>2. QED
    BY <2>1, Zenon
<1> HIDE DEF new, dead
<1>4. QED
  BY <1>1, <1>2, <1>3, CommitSteady, Zenon

LEMMA CancelSteady ==
  ASSUME IInv, NEW i, CancelExecution(i)
  PROVE  Steady /\ DOMAIN executions' = DOMAIN executions
<1>1. i \in DOMAIN executions /\ appendEvent(At(i, Finished(executions[i], "cancelled")), "cancelled")
  BY Zenon DEF CancelExecution
<1>2. Finished(executions[i], "cancelled").status = "cancelled"
  BY <1>1, LastEvent, FinishedStatus, Zenon
<1>3. QED
  BY <1>1, <1>2, CommitOneSteady, Zenon

LEMMA RestartSteady ==
  ASSUME IInv, NEW i, RestartExecution(i, 0)
  PROVE  Steady /\ DOMAIN executions' = DOMAIN executions
<1> DEFINE at == OrNow(0)
<1>1. i \in DOMAIN executions /\ appendEvent(At(i, Reset(executions[i], "pending", at)), "restarted")
  BY Zenon DEF RestartExecution
<1> HIDE DEF at
<1>2. Reset(executions[i], "pending", at).status = "pending"
  BY <1>1, LastEvent, Zenon DEF Reset, Unleased, Execution
<1>3. QED
  BY <1>1, <1>2, CommitOneSteady, Zenon

LEMMA HeartbeatSteady ==
  ASSUME IInv, NEW i, NEW token, Heartbeat(i, token)
  PROVE  Steady /\ DOMAIN executions' = DOMAIN executions
<1> DEFINE until == now + Lease
<1>1. i \in DOMAIN executions /\ executions' = [executions EXCEPT ![i].leaseUntil = until]
  BY Zenon DEF Heartbeat, owned
<1>2. executions[i] \in Execution
  BY <1>1, LastEvent, Zenon
<1> HIDE DEF until
<1>3. QED
  BY <1>1, <1>2, Zenon DEF Steady, Execution

LEMMA ClientSteady ==
  ASSUME IInv, Client
  PROVE  Steady /\ DOMAIN executions \subseteq DOMAIN executions'
<1>1. CASE CreatePipelineRun(None)
  BY <1>1, Zenon DEF CreatePipelineRun, Steady
<1>2. ASSUME NEW request, CreateExecution(request)
      PROVE  Steady /\ DOMAIN executions \subseteq DOMAIN executions'
  <2>1. NewExecution(request).status # "running"
    BY Zenon DEF NewExecution
  <2>2. QED
    BY <1>2, <2>1, CreateValues, Zenon DEF Steady
<1>3. QED
  BY <1>1, <1>2, Zenon DEF Client

(* A claim of one takes exactly one, and starts nothing else. *)
LEMMA ClaimValues ==
  ASSUME IInv, NEW keys, Claim(keys, 1)
  PROVE  \E i \in DOMAIN executions :
           /\ DOMAIN executions' = DOMAIN executions
           /\ \A j \in DOMAIN executions : j # i => executions'[j] = executions[j] /\ events'[j] = events[j]
<1> DEFINE candidates == {i \in DOMAIN executions : Claimable(executions[i], keys)}
<1>1. PICK batch \in (SUBSET candidates) \ {{}} :
        /\ Cardinality(batch) = IF Cardinality(candidates) < 1 THEN Cardinality(candidates) ELSE 1
        /\ appendEvent([i \in batch |-> Deliver(i)], "started")
  BY Zenon DEF Claim, FirstOf
<1>2. IsFiniteSet(candidates)
  <2>1. lastID \in Nat /\ DOMAIN executions \subseteq 1..lastID
    BY Zenon DEF IInv, TypeOK
  <2>2. IsFiniteSet(1..lastID)
    BY <2>1, FS_Interval
  <2>3. QED
    BY <2>1, <2>2, FS_Subset, Zenon
<1> HIDE DEF candidates
<1>3. IsFiniteSet(batch) /\ Cardinality(batch) \in Nat /\ Cardinality(batch) # 0
  <2>1. batch \subseteq candidates /\ batch # {}
    BY Zenon
  <2>2. IsFiniteSet(batch)
    BY <1>2, <2>1, FS_Subset, Zenon
  <2>3. QED
    BY <2>1, <2>2, FS_CardinalityType, FS_EmptySet, Zenon
<1>4. Cardinality(batch) = 1
  <2>1. Cardinality(candidates) \in Nat
    BY <1>2, FS_CardinalityType, Zenon
  <2>2. QED
    BY <1>1, <1>3, <2>1
<1>5. PICK i : batch = {i}
  BY <1>3, <1>4, FS_Singleton, Zenon
<1> DEFINE new == [j \in batch |-> Deliver(j)]
<1>6. appendEvent(new, "started") /\ DOMAIN new = {i} /\ i \in DOMAIN executions
  BY <1>1, <1>5, Zenon DEF candidates
<1> HIDE DEF new
<1>7. /\ DOMAIN executions' = DOMAIN executions
      /\ \A j \in DOMAIN executions \ {i} : executions'[j] = executions[j] /\ events'[j] = events[j]
  <2>1. {i} \in SUBSET DOMAIN executions
    BY <1>6, Zenon
  <2>2. QED
    BY <1>6, <2>1, CommitValues, Zenon
<1>8. QED
  BY <1>6, <1>7, Zenon

-----------------------------------------------------------------------------
(* What a step of loop l may do: it leaves l at new, and touches the rest  *)
(* only in these ways.                                                     *)
Stepped(l, new) ==
  /\ loops' = [loops EXCEPT ![l] = new] /\ new \in LoopRecord
  /\ new.runs \subseteq 1..lastRun
  /\ new.pc = "execute" => new.id \in 1..lastID
  /\ new.pc = "advanceReaped" => new.runs # {}
  /\ new.pc = "done" => workers'[WorkerOf[l]] # "running"
  /\ workers' \in {workers, [workers EXCEPT ![WorkerOf[l]] = "stopping"]}
  /\ late' \subseteq late \cup {WorkerOf[l]}
  /\ owed' \subseteq owed \cup 1..lastRun
  /\ failures' \in Nat /\ failures <= failures'
  /\ DOMAIN executions' = DOMAIN executions

(* Besides, unless it is a claim, it starts nothing, and l still holds     *)
(* what it held and what still runs.                                       *)
KeepsHold(l, new) ==
  /\ Steady
  /\ Calm /\ Calm' => \A i \in DOMAIN executions' :
       executions'[i].status = "running" /\ HoldsOn(loops[l], i, executions[i]) =>
         HoldsOn(new, i, executions[i])

LEMMA StutterSteady ==
  ASSUME UNCHANGED vars
  PROVE  Steady /\ DOMAIN executions' = DOMAIN executions
BY Zenon DEF vars, Steady

(* A node belongs to a run that was created. *)
LEMMA RunOfNode ==
  ASSUME WorkerInv, NEW i \in DOMAIN executions
  PROVE  {executions[i].run} \ {0} \subseteq 1..lastRun
<1>1. executions[i].run \in Nat /\ executions[i].run <= lastRun /\ lastRun \in Nat
  BY Zenon DEF WorkerInv, KnownRuns, IInv, TypeOK, Execution
<1>2. QED
  BY <1>1

(* Only runs that were created are owed an Advance. *)
LEMMA OwedRuns ==
  ASSUME WorkerInv, Owe
  PROVE  owed' \subseteq owed \cup 1..lastRun
BY RunOfNode, Zenon DEF Owe, Ended

LEMMA FailedCall ==
  ASSUME WorkerInv, NEW l \in Loop, Interrupted(l) \/ Failed
  PROVE  /\ UNCHANGED <<vars, owed>> /\ failures' \in Nat /\ failures <= failures'
         /\ Steady /\ DOMAIN executions' = DOMAIN executions
         /\ ~(Calm /\ Calm')
<1>1. /\ UNCHANGED <<vars, owed>> /\ failures' \in Nat /\ failures <= failures'
      /\ Cancelled(l) \/ failures' # 0
  BY DEF Interrupted, Failed, Bounds, WorkerInv
<1>2. ~(Calm /\ Calm')
  BY <1>1, LoopFacts, Zenon DEF Calm, Cancelled
<1>3. QED
  BY <1>1, <1>2, StutterSteady, Zenon

(* infrastructureFailure: the loop goes on, or ends together with its worker. *)
LEMMA FailureStepped ==
  ASSUME WorkerInv, NEW l \in Loop, NEW loop \in LoopRecord, NEW pc \in LoopPC \ {"done", "execute"},
         loop.runs \subseteq 1..lastRun, pc = "advanceReaped" => loop.runs # {},
         infrastructureFailure(l, loop, pc)
  PROVE  \E new : Stepped(l, new) /\ Steady /\ ~(Calm /\ Calm')
<1> DEFINE limited == MaxConsecutiveErrors > 0
           errors == IF limited THEN loop.errors + 1 ELSE loop.errors
           stop == limited /\ errors >= MaxConsecutiveErrors
           struck == [loop EXCEPT !.had = limited]
           counted == [struck EXCEPT !.errors = errors]
           there == IF stop THEN "done" ELSE pc
           stopped == [workers EXCEPT ![WorkerOf[l]] = "stopping"]
<1>1. /\ UNCHANGED late
      /\ \/ Interrupted(l) /\ loops' = [loops EXCEPT ![l] = [struck EXCEPT !.pc = pc]] /\ workers' = workers
         \/ /\ Failed /\ loops' = [loops EXCEPT ![l] = [counted EXCEPT !.pc = there]]
            /\ workers' = IF stop THEN stopped ELSE workers
  BY Zenon DEF infrastructureFailure, Goto
<1>2. errors \in Nat
  BY DEF LoopRecord
<1>3. limited \in BOOLEAN /\ there \in LoopPC /\ there \in {pc, "done"} /\ (there = "done" => stop)
  BY DEF LoopPC
<1> HIDE DEF limited, errors, stop, there
<1>4. /\ struck \in LoopRecord /\ struck.runs = loop.runs
      /\ counted \in LoopRecord /\ counted.runs = loop.runs
  BY <1>2, <1>3, Zenon DEF LoopRecord
<1> HIDE DEF struck, counted
<1>5. ASSUME NEW from \in LoopRecord, from.runs = loop.runs, NEW at \in LoopPC, at \in {pc, "done"},
             loops' = [loops EXCEPT ![l] = [from EXCEPT !.pc = at]],
             workers' \in {workers, stopped}, at = "done" => workers' = stopped,
             Interrupted(l) \/ Failed
      PROVE  \E new : Stepped(l, new) /\ Steady /\ ~(Calm /\ Calm')
  <2> DEFINE new == [from EXCEPT !.pc = at]
  <2>1. new \in LoopRecord /\ new.pc = at /\ new.runs = loop.runs
    BY <1>5, AtPC, Zenon
  <2>2. loops' = [loops EXCEPT ![l] = new]
    BY <1>5, Zenon
  <2> HIDE DEF new
  <2>3. /\ UNCHANGED owed /\ failures' \in Nat /\ failures <= failures'
        /\ Steady /\ DOMAIN executions' = DOMAIN executions /\ ~(Calm /\ Calm')
    BY <1>5, FailedCall, Zenon
  <2>4. at = "done" => workers'[WorkerOf[l]] # "running"
    BY <1>5, LoopFacts, Zenon
  <2>5. Stepped(l, new)
    BY <1>1, <1>5, <2>1, <2>2, <2>3, <2>4, Zenon DEF Stepped
  <2>6. QED
    BY <2>3, <2>5, Zenon
<1>6. QED
  BY <1>1, <1>3, <1>4, <1>5, Zenon

LEMMA ReapStepped ==
  ASSUME WorkerInv, NEW l \in Loop, Reap(l)
  PROVE  \E new : Stepped(l, new) /\ KeepsHold(l, new)
<1> DEFINE loop == [Idle EXCEPT !.errors = loops[l].errors]
           dead == {i \in DOMAIN executions : Reapable(executions[i])}
           reaped == {executions[i].run : i \in dead} \ {0}
<1>1. loops[l].pc = "reap" /\ loop \in LoopRecord /\ loop.runs = {}
  BY LoopFacts, IdleLoop, Zenon DEF Reap, IsAt
<1>2. \A i : ~HoldsOn(loops[l], i, executions[i])
  BY <1>1, Zenon DEF HoldsOn
<1>3. IInv /\ failures \in Nat
  BY Zenon DEF WorkerInv
<1>4. reaped \in SUBSET Nat /\ reaped \subseteq 1..lastRun
  <2>1. \A i \in DOMAIN executions : executions[i].run \in Nat
    BY <1>3, Zenon DEF IInv, TypeOK, Execution
  <2>2. QED
    BY <2>1, RunOfNode, Zenon
<1>5. /\ \/ Cancelled(l) /\ Goto(l, loop, "done") /\ UNCHANGED <<vars, late, workers, owed, failures>>
         \/ infrastructureFailure(l, loop, "wait")
         \/ /\ UNCHANGED vars \/ ReapExpired
            /\ Owe /\ UNCHANGED <<late, workers, failures>>
            /\ Goto(l, [loop EXCEPT !.runs = reaped], IF reaped = {} THEN "claim" ELSE "advanceReaped")
  BY Zenon DEF Reap, Bounds
<1> HIDE DEF loop, reaped
<1>6. CASE Cancelled(l) /\ Goto(l, loop, "done") /\ UNCHANGED <<vars, late, workers, owed, failures>>
  <2> DEFINE new == [loop EXCEPT !.pc = "done"]
  <2>1. new \in LoopRecord /\ new.pc = "done" /\ new.runs = {} /\ loops' = [loops EXCEPT ![l] = new]
    BY <1>1, <1>6, AtPC, Zenon DEF LoopPC, Goto
  <2> HIDE DEF new
  <2>2. Steady /\ DOMAIN executions' = DOMAIN executions
    BY <1>6, StutterSteady, Zenon
  <2>3. Stepped(l, new)
    BY <1>3, <1>6, <2>1, <2>2 DEF Stepped, Cancelled
  <2>4. QED
    BY <1>2, <2>2, <2>3, Zenon DEF KeepsHold
<1>7. CASE infrastructureFailure(l, loop, "wait")
  BY <1>1, <1>7, FailureStepped, Zenon DEF LoopPC, KeepsHold
<1>8. CASE /\ UNCHANGED vars \/ ReapExpired
           /\ Owe /\ UNCHANGED <<late, workers, failures>>
           /\ Goto(l, [loop EXCEPT !.runs = reaped], IF reaped = {} THEN "claim" ELSE "advanceReaped")
  <2> DEFINE with == [loop EXCEPT !.runs = reaped]
             pc == IF reaped = {} THEN "claim" ELSE "advanceReaped"
             new == [with EXCEPT !.pc = pc]
  <2>1. with \in LoopRecord /\ with.runs = reaped
    BY <1>1, <1>4, Zenon DEF LoopRecord
  <2>2. pc \in LoopPC /\ pc \in {"claim", "advanceReaped"} /\ (pc = "advanceReaped" => reaped # {})
    BY Zenon DEF LoopPC
  <2>3. loops' = [loops EXCEPT ![l] = new]
    BY <1>8, Zenon DEF Goto
  <2> HIDE DEF with, pc
  <2>4. new \in LoopRecord /\ new.pc = pc /\ new.runs = reaped
    BY <2>1, <2>2, AtPC, Zenon
  <2> HIDE DEF new
  <2>5. Steady /\ DOMAIN executions' = DOMAIN executions
    BY <1>3, <1>8, StutterSteady, ReapSteady, Zenon
  <2>6. owed' \subseteq owed \cup 1..lastRun
    BY <1>8, OwedRuns, Zenon
  <2>7. Stepped(l, new)
    BY <1>3, <1>4, <1>8, <2>2, <2>3, <2>4, <2>5, <2>6 DEF Stepped
  <2>8. QED
    BY <1>2, <2>5, <2>7, Zenon DEF KeepsHold
<1>9. QED
  BY <1>5, <1>6, <1>7, <1>8, Zenon

(* Two forms of the same conclusion: l was not executing, or it goes on to *)
(* a place where it holds nothing that still runs.                         *)
LEMMA NotHolding ==
  ASSUME NEW l, NEW new, loops[l].pc # "execute", Steady
  PROVE  KeepsHold(l, new)
BY Zenon DEF KeepsHold, HoldsOn

LEMMA AdvanceReapedStepped ==
  ASSUME WorkerInv, NEW l \in Loop, AdvanceReaped(l)
  PROVE  \E new : Stepped(l, new) /\ KeepsHold(l, new)
<1>1. PICK r \in loops[l].runs :
        LET loop == [loops[l] EXCEPT !.runs = loops[l].runs \ {r}]
            pc == IF loop.runs = {} THEN "claim" ELSE "advanceReaped"
        IN
        \/ infrastructureFailure(l, loop, pc)
        \/ Goto(l, loop, pc) /\ owed' = owed \ {r} /\ UNCHANGED <<vars, late, workers, failures>>
  BY Zenon DEF AdvanceReaped, Bounds
<1> DEFINE left == loops[l].runs \ {r}
           loop == [loops[l] EXCEPT !.runs = left]
           pc == IF loop.runs = {} THEN "claim" ELSE "advanceReaped"
           new == [loop EXCEPT !.pc = pc]
<1>2. /\ loops[l] \in LoopRecord /\ left \in SUBSET Nat /\ left \subseteq 1..lastRun
      /\ failures \in Nat /\ loops[l].pc # "execute"
  BY LoopFacts, Zenon DEF WorkerInv, AdvanceReaped, IsAt
<1>3. \/ infrastructureFailure(l, loop, pc)
      \/ loops' = [loops EXCEPT ![l] = new] /\ owed' = owed \ {r} /\ UNCHANGED <<vars, late, workers, failures>>
  BY <1>1, Zenon DEF Goto
<1> HIDE DEF left
<1>4. loop \in LoopRecord /\ loop.runs = left
  BY <1>2, Zenon DEF LoopRecord
<1> HIDE DEF loop
<1>5. pc \in LoopPC /\ pc \in {"claim", "advanceReaped"} /\ (pc = "advanceReaped" => loop.runs # {})
  BY Zenon DEF LoopPC
<1> HIDE DEF pc
<1>6. CASE infrastructureFailure(l, loop, pc)
  BY <1>2, <1>4, <1>5, <1>6, FailureStepped, NotHolding, Zenon
<1>7. CASE loops' = [loops EXCEPT ![l] = new] /\ owed' = owed \ {r} /\ UNCHANGED <<vars, late, workers, failures>>
  <2>1. new \in LoopRecord /\ new.pc = pc /\ new.runs = loop.runs
    BY <1>4, <1>5, AtPC, Zenon
  <2> HIDE DEF new
  <2>2. Steady /\ DOMAIN executions' = DOMAIN executions
    BY <1>7, StutterSteady, Zenon
  <2>3. Stepped(l, new)
    BY <1>2, <1>4, <1>5, <1>7, <2>1, <2>2 DEF Stepped
  <2>4. QED
    BY <1>2, <2>2, <2>3, NotHolding, Zenon
<1>8. QED
  BY <1>3, <1>6, <1>7, Zenon

(* A loop that goes on to pc without a store call. *)
LEMMA GotoStepped ==
  ASSUME WorkerInv, NEW l \in Loop, NEW loop \in LoopRecord,
         NEW pc \in {"reconcile", "wait", "reap", "done"}, pc = "done" => Cancelled(l),
         loop.runs \subseteq 1..lastRun,
         loops[l].pc # "execute", Goto(l, loop, pc), owed' \subseteq owed,
         UNCHANGED <<vars, late, workers, failures>>
  PROVE  \E new : Stepped(l, new) /\ KeepsHold(l, new)
<1> DEFINE new == [loop EXCEPT !.pc = pc]
<1>1. new \in LoopRecord /\ new.pc = pc /\ new.runs = loop.runs /\ loops' = [loops EXCEPT ![l] = new]
  <2>1. pc \in LoopPC
    BY Zenon DEF LoopPC
  <2>2. QED
    BY <2>1, AtPC, Zenon DEF Goto
<1> HIDE DEF new
<1>2. Steady /\ DOMAIN executions' = DOMAIN executions
  BY StutterSteady, Zenon
<1>3. Stepped(l, new)
  BY <1>1, <1>2 DEF Stepped, Cancelled, WorkerInv
<1>4. QED
  BY <1>2, <1>3, NotHolding, Zenon

LEMMA ReconcileStepped ==
  ASSUME WorkerInv, NEW l \in Loop, Reconcile(l)
  PROVE  \E new : Stepped(l, new) /\ KeepsHold(l, new)
<1>1. /\ loops[l] \in LoopRecord /\ healthy(loops[l]) \in LoopRecord
      /\ loops[l].pc = "reconcile" /\ loops[l].runs \subseteq 1..lastRun
      /\ healthy(loops[l]).runs \subseteq 1..lastRun
  BY LoopFacts, HealthyLoop, Zenon DEF Reconcile, IsAt
<1>2. CASE infrastructureFailure(l, loops[l], "wait")
  BY <1>1, <1>2, FailureStepped, NotHolding, Zenon DEF LoopPC
<1>3. CASE Goto(l, healthy(loops[l]), "wait") /\ owed' = {} /\ UNCHANGED <<vars, late, workers, failures>>
  BY <1>1, <1>3, GotoStepped, Zenon
<1>4. QED
  BY <1>2, <1>3, Zenon DEF Reconcile, Bounds

LEMMA WaitStepped ==
  ASSUME WorkerInv, NEW l \in Loop, wait(l)
  PROVE  \E new : Stepped(l, new) /\ KeepsHold(l, new)
<1> DEFINE pc == IF Cancelled(l) THEN "done" ELSE "reap"
<1>1. /\ loops[l] \in LoopRecord /\ loops[l].pc = "wait" /\ loops[l].runs \subseteq 1..lastRun
      /\ Goto(l, loops[l], pc) /\ UNCHANGED <<vars, late, workers, owed, failures>>
  BY LoopFacts, Zenon DEF wait, IsAt, Bounds
<1>2. pc \in {"reconcile", "wait", "reap", "done"} /\ (pc = "done" => Cancelled(l))
  BY Zenon
<1> HIDE DEF pc
<1>3. QED
  BY <1>1, <1>2, GotoStepped, Zenon

-----------------------------------------------------------------------------
(* The ways out of execute. *)
LEMMA LeaveValues ==
  ASSUME WorkerInv, NEW l \in Loop, NEW pc \in {"reap", "reload", "advance"}, Leave(l, pc)
  PROVE  /\ late' \subseteq late \cup {WorkerOf[l]}
         /\ \E new \in LoopRecord : /\ new.pc = pc /\ new.runs \subseteq 1..lastRun
                                    /\ loops' = [loops EXCEPT ![l] = new]
<1> DEFINE loop == IF pc = "reap" THEN [Idle EXCEPT !.errors = loops[l].errors]
                   ELSE [Idle EXCEPT !.errors = loops[l].errors, !.id = loops[l].id, !.runs = loops[l].runs]
           new == [loop EXCEPT !.pc = pc]
<1>1. loop \in LoopRecord /\ loop.runs \subseteq 1..lastRun
  <2>1. CASE pc = "reap"
    BY <2>1, LoopFacts, IdleLoop, Zenon
  <2>2. CASE pc # "reap"
    BY <2>2, LoopFacts, LeftLoop, Zenon
  <2>3. QED
    BY <2>1, <2>2, Zenon
<1>2. loops' = [loops EXCEPT ![l] = new] /\ late' \subseteq late \cup {WorkerOf[l]}
  BY Zenon DEF Leave, Goto
<1> HIDE DEF loop
<1>3. new \in LoopRecord /\ new.pc = pc /\ new.runs = loop.runs
  <2>1. pc \in LoopPC
    BY Zenon DEF LoopPC
  <2>2. QED
    BY <1>1, <2>1, AtPC, Zenon
<1> HIDE DEF new
<1>4. QED
  BY <1>1, <1>2, <1>3, Zenon

(* A loop that leaves execute drops a delivery only when it is no longer the holder. *)
LEMMA LeaveStepped ==
  ASSUME WorkerInv, NEW l \in Loop, NEW pc \in {"reap", "reload", "advance"}, Leave(l, pc),
         UNCHANGED workers, owed' \subseteq owed \cup 1..lastRun,
         failures' \in Nat, failures <= failures', Steady, DOMAIN executions' = DOMAIN executions,
         Calm /\ Calm' => \A i \in DOMAIN executions' :
           ~(executions'[i].status = "running" /\ HoldsOn(loops[l], i, executions[i]))
  PROVE  \E new : Stepped(l, new) /\ KeepsHold(l, new)
<1>1. PICK new \in LoopRecord : /\ new.pc = pc /\ new.runs \subseteq 1..lastRun
                               /\ loops' = [loops EXCEPT ![l] = new]
  BY LeaveValues, Zenon
<1>2. Stepped(l, new)
  BY <1>1, LeaveValues, Zenon DEF Stepped
<1>3. KeepsHold(l, new)
  BY Zenon DEF KeepsHold
<1>4. QED
  BY <1>2, <1>3, Zenon

(* The token of a running execution is one a loop can present. *)
LEMMA RunningOwned ==
  ASSUME IInv, NEW i \in DOMAIN executions, executions[i].status = "running"
  PROVE  executions[i].token # 0 /\ owned(i, executions[i].token)
         /\ executions[i].token \in Deliveries(i)
BY LastEvent, SoundFields DEF LeaseSound, owned, Deliveries

LEMMA GiveUpStepped ==
  ASSUME WorkerInv, NEW l \in Loop, GiveUp(l)
  PROVE  \E new : Stepped(l, new) /\ KeepsHold(l, new)
<1>1. /\ Leave(l, "reap") /\ UNCHANGED <<workers, vars, owed>>
      /\ failures' \in Nat /\ failures <= failures'
  BY DEF GiveUp, Interrupted, Failed, Bounds, WorkerInv
<1>2. Steady /\ DOMAIN executions' = DOMAIN executions /\ executions' = executions
  BY <1>1, StutterSteady, Zenon DEF vars
<1>3. CASE Interrupted(l) \/ Failed
  <2>1. ~(Calm /\ Calm')
    BY <1>3, FailedCall, Zenon
  <2>2. QED
    BY <1>1, <1>2, <2>1, LeaveStepped, Zenon
<1>4. CASE ~owned(loops[l].id, loops[l].token)
  <2>1. \A i \in DOMAIN executions' :
          ~(executions'[i].status = "running" /\ HoldsOn(loops[l], i, executions[i]))
    BY <1>2, <1>4, RunningOwned, Zenon DEF HoldsOn, WorkerInv
  <2>2. QED
    BY <1>1, <1>2, <2>1, LeaveStepped, Zenon
<1>5. QED
  BY <1>3, <1>4, Zenon DEF GiveUp

LEMMA AbandonStepped ==
  ASSUME WorkerInv, NEW l \in Loop, Abandon(l)
  PROVE  \E new : Stepped(l, new) /\ KeepsHold(l, new)
<1>1. Leave(l, "reap") /\ Cancelled(l) /\ UNCHANGED <<vars, workers, owed, failures>>
  BY Zenon DEF Abandon, Bounds
<1>2. Steady /\ DOMAIN executions' = DOMAIN executions /\ failures \in Nat
  BY <1>1, StutterSteady, Zenon DEF WorkerInv
<1>3. ~(Calm /\ Calm')
  BY <1>1, LoopFacts, Zenon DEF Calm, Cancelled
<1>4. QED
  BY <1>1, <1>2, <1>3, LeaveStepped

LEMMA BeatStepped ==
  ASSUME WorkerInv, NEW l \in Loop, Beat(l)
  PROVE  \E new : Stepped(l, new) /\ KeepsHold(l, new)
<1>1. CASE GiveUp(l)
  BY <1>1, GiveUpStepped, Zenon
<1>2. CASE /\ Heartbeat(loops[l].id, loops[l].token)
           /\ loops' = [loops EXCEPT ![l].beats = @ + 1]
           /\ UNCHANGED <<late, workers, owed, failures>>
  <2> DEFINE beats == loops[l].beats + 1
             new == [loops[l] EXCEPT !.beats = beats]
  <2>1. loops[l] \in LoopRecord /\ beats \in Nat /\ loops[l].pc = "execute" /\ failures \in Nat
    BY LoopFacts DEF LoopRecord, Beat, Executing, IsAt, WorkerInv
  <2>2. loops' = [loops EXCEPT ![l] = new]
    BY <1>2, Zenon
  <2> HIDE DEF beats
  <2>3. /\ new \in LoopRecord /\ new.pc = "execute" /\ new.id = loops[l].id
        /\ new.token = loops[l].token /\ new.runs = loops[l].runs
    BY <2>1, Zenon DEF LoopRecord
  <2> HIDE DEF new
  <2>4. Steady /\ DOMAIN executions' = DOMAIN executions
    BY <1>2, HeartbeatSteady, Zenon DEF WorkerInv
  <2>5. loops[l].id \in 1..lastID /\ loops[l].runs \subseteq 1..lastRun
    BY <2>1, Zenon DEF WorkerInv, WorkerTypeOK
  <2>6. Stepped(l, new)
    <3>1. UNCHANGED <<late, workers, owed, failures>>
      BY <1>2, Zenon
    <3>2. QED
      BY <2>1, <2>2, <2>3, <2>4, <2>5, <3>1 DEF Stepped
  <2>7. KeepsHold(l, new)
    BY <2>3, <2>4, Zenon DEF KeepsHold, HoldsOn
  <2>8. QED
    BY <2>6, <2>7, Zenon
<1>3. QED
  BY <1>1, <1>2, Zenon DEF Beat, Bounds

LEMMA ResolveStepped ==
  ASSUME WorkerInv, NEW l \in Loop, resolve(l)
  PROVE  \E new : Stepped(l, new) /\ KeepsHold(l, new)
<1> DEFINE id == loops[l].id
           token == loops[l].token
           next == IF loops[l].runs = {} THEN "reap" ELSE "advance"
<1>1. CASE GiveUp(l)
  BY <1>1, GiveUpStepped, Zenon
<1>2. CASE /\ \/ Succeed(id, token) \/ Fail(id, token) \/ \E delay \in Delays : Retry(id, token, delay)
           /\ Leave(l, next) \/ Leave(l, "reload")
           /\ Owe /\ UNCHANGED <<workers, failures>>
  <2>1. next \in {"reap", "reload", "advance"}
    BY Zenon
  <2>2. Steady /\ DOMAIN executions' = DOMAIN executions /\ executions'[id].status # "running"
    BY <1>2, ResolvedSteady, Zenon DEF WorkerInv
  <2>3. \A i \in DOMAIN executions' :
          ~(executions'[i].status = "running" /\ HoldsOn(loops[l], i, executions[i]))
    BY <2>2, Zenon DEF HoldsOn
  <2>4. failures \in Nat /\ owed' \subseteq owed \cup 1..lastRun
    BY <1>2, OwedRuns, Zenon DEF WorkerInv
  <2> HIDE DEF next
  <2>5. QED
    BY <1>2, <2>1, <2>2, <2>3, <2>4, LeaveStepped
<1>3. QED
  BY <1>1, <1>2, Zenon DEF resolve, Bounds

(* reload and advance: the loop holds nothing any more. *)
LEMMA AfterwardsStepped ==
  ASSUME WorkerInv, NEW l \in Loop, reload(l) \/ advance(l)
  PROVE  \E new : Stepped(l, new) /\ KeepsHold(l, new)
<1> DEFINE id == loops[l].id
           dead == id \in DOMAIN executions /\ executions[id].status = "failed"
           pc == IF dead /\ loops[l].runs # {} THEN "advance" ELSE "reap"
<1>1. CASE GiveUp(l)
  BY <1>1, GiveUpStepped, Zenon
<1>2. loops[l].pc # "execute"
  BY Zenon DEF reload, advance, IsAt
<1>3. CASE /\ Leave(l, pc) \/ Leave(l, "reap")
           /\ owed' \subseteq owed /\ UNCHANGED <<vars, workers, failures>>
  <2>1. pc \in {"reap", "reload", "advance"}
    BY Zenon
  <2>2. Steady /\ DOMAIN executions' = DOMAIN executions /\ failures \in Nat
    BY <1>3, StutterSteady, Zenon DEF WorkerInv
  <2>3. \A i : ~HoldsOn(loops[l], i, executions[i])
    BY <1>2, Zenon DEF HoldsOn
  <2> HIDE DEF pc
  <2>4. QED
    BY <1>3, <2>1, <2>2, <2>3, LeaveStepped
<1>4. QED
  BY <1>1, <1>3, Zenon DEF reload, advance, Bounds

LEMMA HandlerReturnsStepped ==
  ASSUME WorkerInv, NEW l \in Loop, HandlerReturns(l)
  PROVE  \E new : Stepped(l, new) /\ KeepsHold(l, new)
<1>1. loops' = [loops EXCEPT ![l].returned = TRUE]
  BY Zenon DEF HandlerReturns
<1> DEFINE new == [loops[l] EXCEPT !.returned = TRUE]
<1>2. loops[l] \in LoopRecord /\ loops[l].pc = "execute" /\ failures \in Nat
  BY LoopFacts, Zenon DEF HandlerReturns, Executing, IsAt, WorkerInv
<1>3. /\ new \in LoopRecord /\ new.pc = "execute" /\ new.id = loops[l].id /\ new.token = loops[l].token
      /\ new.runs = loops[l].runs
      /\ loops' = [loops EXCEPT ![l] = new]
  BY <1>1, <1>2, Zenon DEF LoopRecord
<1> HIDE DEF new
<1>4. Steady /\ DOMAIN executions' = DOMAIN executions /\ UNCHANGED <<late, workers, owed, failures>>
  BY StutterSteady, Zenon DEF HandlerReturns, Bounds
<1>5. loops[l].id \in 1..lastID /\ loops[l].runs \subseteq 1..lastRun
  BY <1>2, Zenon DEF WorkerInv, WorkerTypeOK
<1>6. Stepped(l, new)
  BY <1>2, <1>3, <1>4, <1>5 DEF Stepped
<1>7. KeepsHold(l, new)
  BY <1>3, <1>4, Zenon DEF KeepsHold, HoldsOn
<1>8. QED
  BY <1>6, <1>7, Zenon

-----------------------------------------------------------------------------
(* What is held stays held. *)
LEMMA CalmBefore ==
  ASSUME WorkerInv, NEW l \in Loop, NEW new, Stepped(l, new), Calm'
  PROVE  Calm
<1>1. failures = 0
  BY DEF WorkerInv, Stepped, Calm
<1>2. ASSUME NEW w \in Worker PROVE workers[w] = "running"
  BY LoopFacts, Zenon DEF Stepped, Calm
<1>3. QED
  BY <1>1, <1>2, Zenon DEF Calm

(* What the loops hold is held after the step. *)
LEMMA HeldKept ==
  ASSUME WorkerInv, NEW l \in Loop, NEW new, Stepped(l, new), KeepsHold(l, new)
  PROVE  HeldByItsLoop'
<1> SUFFICES ASSUME Calm', NEW i \in DOMAIN executions', executions'[i].status = "running"
             PROVE  \E m \in Loop : HoldsOn(loops'[m], i, executions'[i])
  BY Zenon DEF HeldByItsLoop, Calm, HoldsOn, Holds
<1>1. Calm
  BY CalmBefore, Zenon
<1>2. /\ i \in DOMAIN executions /\ executions[i].status = "running"
      /\ executions'[i].token = executions[i].token
  BY Zenon DEF KeepsHold, Steady
<1>3. PICK m \in Loop : HoldsOn(loops[m], i, executions[i])
  BY <1>1, <1>2, Zenon DEF WorkerInv, HeldByItsLoop, Calm, HoldsOn, Holds
<1>4. DOMAIN loops = Loop /\ loops' = [loops EXCEPT ![l] = new]
  BY LoopFacts, Zenon DEF Stepped
<1>5. CASE m = l
  <2>1. HoldsOn(new, i, executions[i])
    BY <1>1, <1>3, <1>5, Zenon DEF KeepsHold
  <2>2. QED
    BY <1>2, <1>4, <2>1, Zenon DEF HoldsOn
<1>6. CASE m # l
  BY <1>2, <1>3, <1>4, <1>6, Zenon DEF HoldsOn
<1>7. QED
  BY <1>5, <1>6, Zenon

(* A claim leaves the loop with the one execution it started, and the      *)
(* loop held nothing before.                                               *)
LEMMA ClaimStepped ==
  ASSUME WorkerInv, NEW l \in Loop, ClaimOne(l)
  PROVE  \E new : Stepped(l, new) /\ HeldByItsLoop'
<1>1. /\ loops[l] \in LoopRecord /\ loops[l].pc = "claim" /\ failures \in Nat /\ IInv
      /\ healthy(loops[l]) \in LoopRecord /\ loops[l].runs \subseteq 1..lastRun
  BY LoopFacts, HealthyLoop, Zenon DEF ClaimOne, IsAt, WorkerInv
<1>2. CASE infrastructureFailure(l, loops[l], "reconcile")
  BY <1>1, <1>2, FailureStepped, NotHolding, HeldKept, Zenon DEF LoopPC
<1>3. CASE Goto(l, loops[l], "reconcile") /\ UNCHANGED <<vars, late, workers, owed, failures>>
  BY <1>1, <1>3, GotoStepped, HeldKept, Zenon
<1>4. ASSUME Claim(TaskName \X TaskVersion, 1), UNCHANGED <<late, workers, owed, failures>>,
             NEW i \in DOMAIN executions, events'[i] # events[i],
             Goto(l, [healthy(loops[l]) EXCEPT !.id = i, !.token = executions'[i].token,
                                               !.runs = {executions[i].run} \ {0}], "execute")
      PROVE  \E new : Stepped(l, new) /\ HeldByItsLoop'
  <2>1. PICK j \in DOMAIN executions :
          /\ DOMAIN executions' = DOMAIN executions
          /\ \A k \in DOMAIN executions : k # j => executions'[k] = executions[k] /\ events'[k] = events[k]
    BY <1>1, <1>4, ClaimValues, Zenon
  <2>2. i = j
    BY <1>4, <2>1, Zenon
  <2>3. executions'[i].token \in Nat /\ i \in Nat /\ i \in 1..lastID
    <3>1. Moved(i)
      BY <1>1, <1>4, OperationTransitions, Zenon DEF Transition
    <3>2. executions[i].token \in Nat /\ Len(events[i]) \in Nat /\ i \in Nat
      <4>1. executions[i] \in Execution /\ Len(events[i]) \in Nat
        BY <1>1, LastEvent, Zenon
      <4>2. i \in Nat
        BY <1>1 DEF IInv, TypeOK
      <4>3. QED
        BY <4>1, <4>2, Zenon DEF Execution
    <3>3. executions'[i].token \in {executions[i].token, Len(events[i]) + 1, 0}
      BY <3>1, Zenon DEF Moved, Moves, Starts, Renews, Ends, Cancels, Releases
    <3>4. i \in 1..lastID
      BY <1>1, Zenon DEF IInv, TypeOK
    <3>5. QED
      BY <3>2, <3>3, <3>4
  <2> DEFINE token == executions'[i].token
             own == {executions[i].run} \ {0}
             loop == [healthy(loops[l]) EXCEPT !.id = i, !.token = token, !.runs = own]
             new == [loop EXCEPT !.pc = "execute"]
  <2>4. loops' = [loops EXCEPT ![l] = new]
    BY <1>4, Zenon DEF Goto
  <2>5. token \in Nat /\ token = executions'[i].token
    BY <2>3, Zenon
  <2> HIDE DEF token
  <2>own. own \in SUBSET Nat /\ own \subseteq 1..lastRun
    <3>1. executions[i].run \in Nat
      BY <1>1, LastEvent, Zenon DEF Execution
    <3>2. QED
      BY <3>1, RunOfNode, Zenon
  <2> HIDE DEF own
  <2>6. loop \in LoopRecord /\ loop.id = i /\ loop.token = token /\ loop.runs = own
    BY <1>1, <2>3, <2>5, <2>own, Zenon DEF LoopRecord
  <2> HIDE DEF loop
  <2>7. new \in LoopRecord /\ new.pc = "execute" /\ new.id = i /\ new.token = token /\ new.runs = own
    BY <2>6, AtPC, Zenon DEF LoopPC
  <2> HIDE DEF new
  <2>8. Stepped(l, new)
    BY <1>1, <1>4, <2>1, <2>3, <2>4, <2>7, <2>own DEF Stepped
  <2>9. HeldByItsLoop'
    <3> SUFFICES ASSUME Calm', NEW k \in DOMAIN executions', executions'[k].status = "running"
                 PROVE  \E m \in Loop : HoldsOn(loops'[m], k, executions'[k])
      BY Zenon DEF HeldByItsLoop, Calm, HoldsOn, Holds
    <3>1. DOMAIN loops = Loop /\ Calm
      BY <2>8, LoopFacts, CalmBefore, Zenon
    <3>2. CASE k = i
      BY <2>4, <2>5, <2>7, <3>1, <3>2, Zenon DEF HoldsOn
    <3>3. CASE k # i
      <4>1. k \in DOMAIN executions /\ executions'[k] = executions[k]
        BY <2>1, <2>2, <3>3, Zenon
      <4>2. PICK m \in Loop : HoldsOn(loops[m], k, executions[k])
        BY <3>1, <4>1 DEF WorkerInv, HeldByItsLoop, Calm, HoldsOn, Holds
      <4>3. m # l
        BY <1>1, <4>2, Zenon DEF HoldsOn
      <4>4. QED
        BY <2>4, <3>1, <4>1, <4>2, <4>3, Zenon DEF HoldsOn
    <3>4. QED
      BY <3>2, <3>3, Zenon
  <2>10. QED
    BY <2>8, <2>9, Zenon
<1>5. QED
  BY <1>2, <1>3, <1>4, Zenon DEF ClaimOne, Bounds

-----------------------------------------------------------------------------
(* A worker uses the store only as the store's specification allows. *)
LEMMA OwnedDelivery ==
  ASSUME IInv, NEW i, NEW token, owned(i, token)
  PROVE  i \in DOMAIN executions /\ token \in Deliveries(i)
BY RunningOwned, Zenon DEF owned

LEMMA LoopStepAllowed ==
  ASSUME WorkerInv, NEW l \in Loop, LoopStep(l)
  PROVE  [Next]_vars
<1>1. CASE UNCHANGED vars
  BY <1>1, Zenon
<1>2. IInv
  BY Zenon DEF WorkerInv
<1>3. CASE Claim(TaskName \X TaskVersion, 1)
  <2>1. 1 \in Limits /\ TaskName \X TaskVersion \in SUBSET (TaskName \X TaskVersion)
    BY WorkerAssumption, Zenon
  <2>2. QED
    BY <1>3, <2>1, Zenon DEF Next
<1>4. ASSUME NEW i, NEW token,
             \/ Heartbeat(i, token) \/ Succeed(i, token) \/ Fail(i, token)
             \/ \E delay \in Delays : Retry(i, token, delay)
      PROVE  [Next]_vars
  <2>1. i \in DOMAIN executions /\ token \in Deliveries(i)
    BY <1>2, <1>4, OwnedDelivery, Zenon DEF Heartbeat, Succeed, Fail, Retry
  <2>2. QED
    BY <1>4, <2>1, Zenon DEF Next, WorkerCall
<1>5. CASE Reap(l) \/ AdvanceReaped(l)
  <2>1. UNCHANGED vars \/ ReapExpired
    BY <1>5, Zenon DEF Reap, AdvanceReaped, infrastructureFailure, Interrupted, Failed
  <2>2. QED
    BY <1>1, <2>1, Zenon DEF Next
<1>6. CASE ClaimOne(l) \/ Reconcile(l) \/ wait(l)
  <2>1. UNCHANGED vars \/ Claim(TaskName \X TaskVersion, 1)
    BY <1>6, Zenon DEF ClaimOne, Reconcile, wait, infrastructureFailure, Interrupted, Failed
  <2>2. QED
    BY <1>1, <1>3, <2>1, Zenon
<1>7. CASE Abandon(l) \/ reload(l) \/ advance(l)
  BY <1>1, <1>7, Zenon DEF Abandon, reload, advance, GiveUp, Interrupted, Failed
<1>8. CASE Beat(l)
  BY <1>1, <1>4, <1>8, Zenon DEF Beat, GiveUp, Interrupted, Failed
<1>9. CASE resolve(l)
  BY <1>1, <1>4, <1>9, Zenon DEF resolve, GiveUp, Interrupted, Failed
<1>10. QED
  BY <1>5, <1>6, <1>7, <1>8, <1>9, Zenon DEF LoopStep

(* Every step of the workers is a step of the store. *)
LEMMA WorkerStepAllowed ==
  ASSUME WorkerInv, [WorkerNext]_workerVars
  PROVE  [Next]_vars
<1>1. CASE UNCHANGED vars
  BY <1>1, Zenon
<1>2. CASE Operator
  BY <1>2, Zenon DEF Operator, Next, OperatorCall
<1>3. CASE Client
  BY <1>3, Zenon DEF Client, Next, PipelineCall
<1>4. CASE Pass
  BY <1>4, Zenon DEF Pass, Next
<1>5. QED
  BY <1>1, <1>2, <1>3, <1>4, LoopStepAllowed, Zenon
  DEF WorkerNext, HandlerReturns, LateReturn, Return, Stop, Crash, workerVars

-----------------------------------------------------------------------------
(* The invariant is kept. *)
LEMMA StoreKept ==
  ASSUME WorkerInv, [WorkerNext]_workerVars
  PROVE  /\ IInv' /\ KnownRuns'
         /\ 1..lastRun \subseteq 1..lastRun' /\ 1..lastID \subseteq 1..lastID'
<1>1. IInv /\ KnownRuns /\ [Next]_vars
  BY WorkerStepAllowed, Zenon DEF WorkerInv
<1>2. lastRun \in Nat /\ lastRun' \in Nat /\ lastRun <= lastRun'
  BY <1>1, NewRuns, Zenon
<1>3. lastID \in Nat /\ lastID' \in {lastID, lastID + 1}
  <2>1. lastID \in Nat
    BY <1>1, Zenon DEF IInv, TypeOK
  <2>2. CASE lastID' = lastID
    BY <2>1, <2>2, Zenon
  <2>3. CASE \E request \in EnqueueRequest \cup NodeRequest : CreateExecution(request)
    BY <2>1, <2>3, Zenon DEF CreateExecution
  <2>4. QED
    BY <1>1, <2>2, <2>3, StepTransition, PurgeValues, Zenon DEF Transition
<1>4. 1..lastRun \subseteq 1..lastRun' /\ 1..lastID \subseteq 1..lastID'
  BY <1>2, <1>3
<1>5. QED
  BY <1>1, <1>4, NextInv, KnownRunsKept, Zenon

LEMMA SteppedInv ==
  ASSUME WorkerInv, [WorkerNext]_workerVars, NEW l \in Loop, NEW new, Stepped(l, new), HeldByItsLoop'
  PROVE  WorkerInv'
<1>1. IInv' /\ KnownRuns' /\ 1..lastRun \subseteq 1..lastRun' /\ 1..lastID \subseteq 1..lastID'
  BY StoreKept, Zenon
<1>2. /\ loops \in [Loop -> LoopRecord] /\ DOMAIN workers = Worker /\ WorkerOf[l] \in Worker
      /\ loops' = [loops EXCEPT ![l] = new]
  BY LoopFacts, Zenon DEF WorkerInv, Stepped
<1>3. loops' \in [Loop -> LoopRecord] /\ failures' \in Nat
  BY <1>2, Zenon DEF Stepped
<1>4. late' \subseteq Worker /\ owed' \subseteq 1..lastRun'
  BY <1>1, <1>2, Zenon DEF Stepped, WorkerInv, WorkerTypeOK
<1>5. /\ workers' \in [Worker -> {"running", "stopping", "drained", "timeout", "crashed"}]
      /\ \A w \in Worker : workers[w] # "running" => workers'[w] # "running"
  BY <1>2, Zenon DEF Stepped, WorkerInv, WorkerTypeOK
<1>6. ASSUME NEW m \in Loop
      PROVE  /\ loops'[m].pc \in LoopPC
             /\ loops'[m].runs \subseteq 1..lastRun'
             /\ loops'[m].pc = "execute" => loops'[m].id \in 1..lastID'
             /\ loops'[m].pc = "advanceReaped" => loops'[m].runs # {}
             /\ loops'[m].pc = "done" => workers'[WorkerOf[m]] # "running"
  <2>1. loops'[m].pc \in LoopPC
    BY <1>3, Zenon DEF LoopRecord
  <2>2. CASE m = l
    BY <1>1, <1>2, <2>1, <2>2, Zenon DEF Stepped
  <2>3. CASE m # l
    <3>1. loops'[m] = loops[m] /\ WorkerOf[m] \in Worker
      BY <1>2, <2>3, LoopFacts, Zenon DEF Stepped
    <3>2. QED
      BY <1>1, <1>5, <2>1, <3>1, Zenon DEF WorkerInv, WorkerTypeOK, NoLoopLost
  <2>4. QED
    BY <2>2, <2>3, Zenon
<1>7. WorkerTypeOK'
  BY <1>4, <1>5, <1>6, Zenon DEF WorkerTypeOK, LoopPC
<1>8. NoLoopLost'
  BY <1>6, Zenon DEF NoLoopLost
<1>9. QED
  BY <1>1, <1>3, <1>7, <1>8, Zenon DEF WorkerInv

LEMMA LoopStepInv ==
  ASSUME WorkerInv, [WorkerNext]_workerVars, NEW l \in Loop, LoopStep(l) \/ HandlerReturns(l)
  PROVE  WorkerInv'
<1>1. CASE ClaimOne(l)
  BY <1>1, ClaimStepped, SteppedInv, Zenon
<1>2. CASE \E new : Stepped(l, new) /\ KeepsHold(l, new)
  BY <1>2, HeldKept, SteppedInv, Zenon
<1>3. CASE Reap(l) \/ AdvanceReaped(l) \/ Reconcile(l) \/ wait(l)
  BY <1>2, <1>3, ReapStepped, AdvanceReapedStepped, ReconcileStepped, WaitStepped, Zenon
<1>4. CASE Abandon(l) \/ Beat(l) \/ resolve(l) \/ reload(l) \/ advance(l) \/ HandlerReturns(l)
  BY <1>2, <1>4, AbandonStepped, BeatStepped, ResolveStepped, AfterwardsStepped, HandlerReturnsStepped, Zenon
<1>5. QED
  BY <1>1, <1>3, <1>4, Zenon DEF LoopStep

(* Steps of the processes, the clients and the clock, which deliver        *)
(* nothing and move a loop only by ending the process.                     *)
LEMMA OutsideInv ==
  ASSUME WorkerInv, [WorkerNext]_workerVars, Steady,
         owed' \subseteq owed \cup 1..lastRun, late' \subseteq late, failures' = failures,
         workers' \in [Worker -> {"running", "stopping", "drained", "timeout", "crashed"}],
         \A w \in Worker : workers[w] # "running" => workers'[w] # "running",
         loops' \in [Loop -> LoopRecord],
         \A l \in Loop : \/ loops'[l] = loops[l]
                         \/ /\ loops'[l].pc = "done" /\ loops'[l].runs = {}
                            /\ workers'[WorkerOf[l]] # "running"
  PROVE  WorkerInv'
<1>1. IInv' /\ KnownRuns' /\ 1..lastRun \subseteq 1..lastRun' /\ 1..lastID \subseteq 1..lastID'
  BY StoreKept, Zenon
<1>2. late' \subseteq Worker /\ owed' \subseteq 1..lastRun' /\ failures' \in Nat
  BY <1>1, Zenon DEF WorkerInv, WorkerTypeOK
<1>3. ASSUME NEW m \in Loop
      PROVE  /\ loops'[m].pc \in LoopPC /\ WorkerOf[m] \in Worker
             /\ loops'[m].runs \subseteq 1..lastRun'
             /\ loops'[m].pc = "execute" => loops'[m].id \in 1..lastID'
             /\ loops'[m].pc = "advanceReaped" => loops'[m].runs # {}
             /\ loops'[m].pc = "done" => workers'[WorkerOf[m]] # "running"
  <2>1. loops'[m].pc \in LoopPC /\ WorkerOf[m] \in Worker
    BY LoopFacts, Zenon DEF LoopRecord
  <2>2. QED
    BY <1>1, <2>1, Zenon DEF WorkerInv, WorkerTypeOK, NoLoopLost
<1>4. WorkerTypeOK'
  BY <1>2, <1>3, Zenon DEF WorkerTypeOK, LoopPC
<1>5. NoLoopLost'
  BY <1>3, Zenon DEF NoLoopLost
<1>6. HeldByItsLoop'
  <2> SUFFICES ASSUME Calm', NEW i \in DOMAIN executions', executions'[i].status = "running"
               PROVE  \E m \in Loop : HoldsOn(loops'[m], i, executions'[i])
    BY Zenon DEF HeldByItsLoop, Calm, HoldsOn, Holds
  <2>1. Calm
    BY Zenon DEF Calm
  <2>2. /\ i \in DOMAIN executions /\ executions[i].status = "running"
        /\ executions'[i].token = executions[i].token
    BY Zenon DEF Steady
  <2>3. PICK m \in Loop : HoldsOn(loops[m], i, executions[i])
    BY <2>1, <2>2 DEF WorkerInv, HeldByItsLoop, Calm, HoldsOn, Holds
  <2>4. loops'[m] = loops[m]
    BY <1>3, Zenon DEF Calm
  <2>5. QED
    BY <2>2, <2>3, <2>4, Zenon DEF HoldsOn
<1>7. QED
  BY <1>1, <1>2, <1>4, <1>5, <1>6, Zenon DEF WorkerInv

LEMMA WorkerNextInv == WorkerInv /\ [WorkerNext]_workerVars => WorkerInv'
<1> SUFFICES ASSUME WorkerInv, [WorkerNext]_workerVars PROVE WorkerInv'
  BY Zenon
<1> DEFINE State == {"running", "stopping", "drained", "timeout", "crashed"}
<1>1. /\ IInv /\ loops \in [Loop -> LoopRecord] /\ workers \in [Worker -> State]
      /\ \A l \in Loop : WorkerOf[l] \in Worker
  BY WorkerAssumption, Zenon DEF WorkerInv, WorkerTypeOK
<1>2. ASSUME NEW l \in Loop, LoopStep(l) \/ HandlerReturns(l) PROVE WorkerInv'
  BY <1>2, LoopStepInv, Zenon
<1>3. CASE UNCHANGED <<vars, loops, workers, owed, failures>> /\ late' \subseteq late
  <2>1. Steady /\ DOMAIN executions' = DOMAIN executions
    BY <1>3, StutterSteady, Zenon
  <2>2. QED
    BY <1>1, <1>3, <2>1, OutsideInv, Zenon
<1>4. ASSUME NEW w \in Worker, NEW state \in State \ {"running"}, workers' = [workers EXCEPT ![w] = state],
             UNCHANGED <<vars, loops, late, owed, failures>>
      PROVE  WorkerInv'
  <2>1. Steady /\ DOMAIN executions' = DOMAIN executions
    BY <1>4, StutterSteady, Zenon
  <2>2. workers' \in [Worker -> State] /\ \A v \in Worker : workers[v] # "running" => workers'[v] # "running"
    BY <1>1, <1>4, Zenon
  <2>3. QED
    BY <1>1, <1>4, <2>1, <2>2, OutsideInv, Zenon
<1>5. ASSUME NEW w \in Worker, Return(w) \/ Stop(w) PROVE WorkerInv'
  BY <1>4, <1>5, Zenon DEF Return, Stop, Disturb, Bounds
<1>6. ASSUME NEW w \in Worker, Crash(w) PROVE WorkerInv'
  <2> DEFINE ended == [Idle EXCEPT !.pc = "done"]
  <2>1. ended \in LoopRecord /\ ended.pc = "done" /\ ended.runs = {}
    BY Zenon DEF Idle, LoopRecord, LoopPC
  <2>2. /\ loops' = [l \in Loop |-> IF WorkerOf[l] = w THEN ended ELSE loops[l]]
        /\ workers' = [workers EXCEPT ![w] = "crashed"] /\ late' \subseteq late
        /\ UNCHANGED <<vars, owed, failures>>
    BY <1>6, Zenon DEF Crash, Disturb
  <2> HIDE DEF ended
  <2>3. Steady /\ DOMAIN executions' = DOMAIN executions
    BY <2>2, StutterSteady, Zenon
  <2>4. workers' \in [Worker -> State] /\ \A v \in Worker : workers[v] # "running" => workers'[v] # "running"
    BY <1>1, <2>2, Zenon
  <2>5. loops' \in [Loop -> LoopRecord]
    BY <1>1, <2>1, <2>2, Zenon
  <2>6. ASSUME NEW l \in Loop
        PROVE  \/ loops'[l] = loops[l]
               \/ /\ loops'[l].pc = "done" /\ loops'[l].runs = {}
                  /\ workers'[WorkerOf[l]] # "running"
    <3>1. CASE WorkerOf[l] = w
      BY <1>1, <2>1, <2>2, <3>1, Zenon
    <3>2. CASE WorkerOf[l] # w
      BY <2>2, <3>2, Zenon
    <3>3. QED
      BY <3>1, <3>2, Zenon
  <2>7. QED
    BY <2>2, <2>3, <2>4, <2>5, <2>6, OutsideInv, Zenon
<1>7. CASE Operator
  <2>1. Owe /\ UNCHANGED <<loops, late, workers, failures>>
    BY <1>7, Zenon DEF Operator, Disturb
  <2>2. Steady
    BY <1>1, <1>7, CancelSteady, RestartSteady, PurgeValues, Zenon DEF Operator, Steady
  <2>3. owed' \subseteq owed \cup 1..lastRun
    BY <2>1, OwedRuns, Zenon
  <2>4. QED
    BY <1>1, <2>1, <2>2, <2>3, OutsideInv, Zenon
<1>8. CASE Client
  <2>1. UNCHANGED <<loops, late, workers, owed, failures>>
    BY <1>8, Zenon DEF Client, Bounds
  <2>2. QED
    BY <1>1, <1>8, <2>1, ClientSteady, OutsideInv, Zenon
<1>9. CASE Pass
  <2>1. UNCHANGED <<executions, loops, late, workers, owed, failures>>
    BY <1>9, Zenon DEF Pass, Tick, Bounds
  <2>2. Steady
    BY <2>1, Zenon DEF Steady
  <2>3. QED
    BY <1>1, <2>1, <2>2, OutsideInv, Zenon
<1>10. CASE UNCHANGED workerVars
  BY <1>3, <1>10, Zenon DEF workerVars
<1>11. QED
  BY <1>2, <1>3, <1>5, <1>6, <1>7, <1>8, <1>9, <1>10, Zenon DEF WorkerNext, LateReturn, Bounds

LEMMA WorkerInitInv == WorkerInit => WorkerInv
<1> SUFFICES ASSUME WorkerInit PROVE WorkerInv
  BY Zenon
<1>1. IInv /\ DOMAIN executions = {}
  BY InitInv DEF WorkerInit, Init
<1>2. Idle \in LoopRecord /\ Idle.pc = "reap" /\ Idle.runs = {}
  BY Zenon DEF Idle, LoopRecord, LoopPC
<1>3. loops \in [Loop -> LoopRecord] /\ \A l \in Loop : loops[l].pc = "reap" /\ loops[l].runs = {}
  BY <1>2, Zenon DEF WorkerInit
<1>4. KnownRuns /\ HeldByItsLoop
  BY <1>1, Zenon DEF KnownRuns, HeldByItsLoop
<1>5. WorkerTypeOK /\ NoLoopLost
  BY <1>3, Zenon DEF WorkerInit, WorkerTypeOK, NoLoopLost
<1>6. QED
  BY <1>1, <1>3, <1>4, <1>5, Zenon DEF WorkerInit, WorkerInv

(* The inductive invariant of the workers over the store (worker.go: loop, *)
(* execute, resolve, infrastructureFailure).                               *)
THEOREM WorkerInvariance == WorkerSpec => []WorkerInv
BY WorkerInitInv, WorkerNextInv, PTL DEF WorkerSpec

(* Workers, for any number of them and of their loops, keep a loop's place *)
(* and what it works on consistent: an executing loop has got an           *)
(* execution, the runs it is to advance were created, and a loop that      *)
(* advances reaped runs has one left (worker.go:178).                      *)
THEOREM WorkerTypeCorrect == WorkerSpec => []WorkerTypeOK
<1>1. WorkerInv => WorkerTypeOK
  BY Zenon DEF WorkerInv
<1>2. QED
  BY <1>1, WorkerInvariance, PTL

(* A worker that runs has all its loops (infrastructureFailure, Run). *)
THEOREM LoopsStayUp == WorkerSpec => []NoLoopLost
<1>1. WorkerInv => NoLoopLost
  BY Zenon DEF WorkerInv
<1>2. QED
  BY <1>1, WorkerInvariance, PTL

(* While nothing fails, every running execution is held by the loop that   *)
(* got its newest delivery (execute, resolve).                             *)
THEOREM DeliveriesHeld == WorkerSpec => []HeldByItsLoop
<1>1. WorkerInv => HeldByItsLoop
  BY Zenon DEF WorkerInv
<1>2. QED
  BY <1>1, WorkerInvariance, PTL

-----------------------------------------------------------------------------
(* What the calls of others leave alone while a lease lasts. *)
LEMMA LeasedKept ==
  ASSUME IInv, ReapExpired \/ \E keys, limit : Claim(keys, limit),
         NEW i \in DOMAIN executions, executions[i].status = "running", ~Expired(executions[i])
  PROVE  executions'[i] = executions[i]
<1>1. ASSUME NEW S \in SUBSET DOMAIN executions, NEW new, DOMAIN new = S, NEW type,
             appendEvent(new, type), i \notin S
      PROVE  executions'[i] = executions[i]
  BY <1>1, CommitValues, Zenon
<1>2. CASE ReapExpired
  <2> DEFINE dead == {j \in DOMAIN executions : Reapable(executions[j])}
             new == [j \in dead |-> Finished(executions[j], "failed")]
  <2>1. appendEvent(new, "failed") /\ DOMAIN new = dead
    BY <1>2, Zenon DEF ReapExpired
  <2>2. dead \in SUBSET DOMAIN executions /\ i \notin dead
    BY Zenon DEF Reapable
  <2> HIDE DEF new, dead
  <2>3. QED
    BY <1>1, <2>1, <2>2, Zenon
<1>3. ASSUME NEW keys, NEW limit, Claim(keys, limit)
      PROVE  executions'[i] = executions[i]
  <2>1. PICK batch \in SUBSET {j \in DOMAIN executions : Claimable(executions[j], keys)} :
          appendEvent([j \in batch |-> Deliver(j)], "started")
    BY <1>3, Zenon DEF Claim
  <2> DEFINE new == [j \in batch |-> Deliver(j)]
  <2>2. DOMAIN new = batch /\ batch \in SUBSET DOMAIN executions /\ appendEvent(new, "started")
    BY <2>1, Zenon
  <2>3. i \notin batch
    BY Zenon DEF Claimable
  <2> HIDE DEF new
  <2>4. QED
    BY <1>1, <2>2, <2>3, Zenon
<1>4. QED
  BY <1>2, <1>3, Zenon

(* A call of a worker, or of an operator, writes the execution it names. *)
LEMMA OthersKept ==
  ASSUME IInv, NEW i, NEW token, NEW j \in DOMAIN executions, j # i,
         \/ Succeed(i, token) \/ Fail(i, token) \/ \E delay \in Delays : Retry(i, token, delay)
         \/ CancelExecution(i) \/ RestartExecution(i, 0)
  PROVE  executions'[j] = executions[j]
<1>1. PICK value, type : i \in DOMAIN executions /\ appendEvent(At(i, value), type)
  BY Zenon DEF Succeed, Fail, Retry, CancelExecution, RestartExecution, owned
<1> DEFINE new == At(i, value)
<1>2. DOMAIN new = {i} /\ {i} \in SUBSET DOMAIN executions /\ appendEvent(new, type)
  BY <1>1, Zenon DEF At
<1> HIDE DEF new
<1>3. QED
  BY <1>2, CommitValues, Zenon

LEMMA CancelledStatus ==
  ASSUME IInv, NEW i, CancelExecution(i)
  PROVE  executions'[i].status = "cancelled"
<1> DEFINE value == Finished(executions[i], "cancelled")
           new == At(i, value)
<1>1. i \in DOMAIN executions /\ appendEvent(new, "cancelled") /\ DOMAIN new = {i} /\ new[i] = value
  BY Zenon DEF CancelExecution, At
<1>2. value.status = "cancelled" /\ {i} \in SUBSET DOMAIN executions
  BY <1>1, LastEvent, FinishedStatus, Zenon
<1> HIDE DEF new, value
<1>3. QED
  BY <1>1, <1>2, CommitValues, Zenon

(* The body of LeaseProtects. *)
Protected ==
  \A i \in DOMAIN executions \cap DOMAIN executions' :
    /\ executions[i].status = "running" /\ ~Expired(executions[i])
    /\ executions'[i].token # executions[i].token
    => \/ executions'[i].status = "cancelled"
       \/ \E l \in Loop : Holds(l, i) /\ loops'[l].pc # "execute"

LEMMA ProtectedStep ==
  ASSUME WorkerInv, [WorkerNext]_workerVars
  PROVE  Protected
<1> SUFFICES ASSUME NEW i \in DOMAIN executions, i \in DOMAIN executions',
                    executions[i].status = "running", ~Expired(executions[i]),
                    executions'[i].token # executions[i].token
             PROVE  \/ executions'[i].status = "cancelled"
                    \/ \E l \in Loop : Holds(l, i) /\ loops'[l].pc # "execute"
  BY Zenon DEF Protected
<1>1. IInv
  BY Zenon DEF WorkerInv
<1>2. ~UNCHANGED vars /\ executions'[i] # executions[i]
  BY Zenon DEF vars
<1>3. ~ReapExpired /\ ~\E keys, limit : Claim(keys, limit)
  BY <1>1, <1>2, LeasedKept, Zenon
<1>4. ~\E j, token : Heartbeat(j, token)
  <2>1. SUFFICES ASSUME NEW j, NEW token, Heartbeat(j, token) PROVE FALSE
    BY Zenon
  <2> DEFINE until == now + Lease
  <2>2. j \in DOMAIN executions /\ executions' = [executions EXCEPT ![j].leaseUntil = until]
    BY <2>1, Zenon DEF Heartbeat, owned
  <2>3. executions[j] \in Execution
    BY <1>1, <2>2, LastEvent, Zenon
  <2> HIDE DEF until
  <2>4. QED
    BY <2>2, <2>3, Zenon DEF Execution
<1>5. ASSUME NEW l \in Loop, LoopStep(l)
      PROVE  Holds(l, i) /\ loops'[l].pc # "execute"
  <2>1. \/ Reap(l) \/ AdvanceReaped(l) \/ ClaimOne(l) \/ Reconcile(l) \/ wait(l)
        \/ Abandon(l) \/ reload(l) \/ advance(l) \/ Beat(l)
        => UNCHANGED vars
    BY <1>3, <1>4, Zenon DEF Reap, AdvanceReaped, ClaimOne, Reconcile, wait, Abandon, reload, advance,
                             Beat, GiveUp, infrastructureFailure, Interrupted, Failed
  <2>2. resolve(l) /\ ~GiveUp(l)
    BY <1>2, <1>5, <2>1, Zenon DEF LoopStep, GiveUp, Interrupted, Failed
  <2> DEFINE id == loops[l].id
             token == loops[l].token
             next == IF loops[l].runs = {} THEN "reap" ELSE "advance"
  <2>3. /\ loops[l].pc = "execute" /\ owned(id, token)
        /\ Succeed(id, token) \/ Fail(id, token) \/ \E delay \in Delays : Retry(id, token, delay)
        /\ Leave(l, next) \/ Leave(l, "reload")
    BY <2>2, Zenon DEF resolve, Succeed, Fail, Retry, Executing, IsAt
  <2>4. next \in {"reap", "reload", "advance"}
    BY Zenon
  <2> HIDE DEF next
  <2>5. id = i
    BY <1>1, <1>2, <2>3, OthersKept, Zenon
  <2>6. Holds(l, i)
    BY <2>3, <2>5, Zenon DEF Holds, owned
  <2>7. loops'[l].pc # "execute"
    <3>1. PICK new \in LoopRecord : /\ new.pc \in {"reap", "reload", "advance"}
                                   /\ loops' = [loops EXCEPT ![l] = new]
      BY <2>3, <2>4, LeaveValues, Zenon
    <3>2. loops'[l] = new
      BY <3>1, LoopFacts, Zenon DEF WorkerInv
    <3>3. QED
      BY <3>1, <3>2, Zenon
  <2>8. QED
    BY <2>6, <2>7, Zenon
<1>6. CASE Operator
  <2>1. PICK j : CancelExecution(j) \/ RestartExecution(j, 0) \/ \E before, limit : Purge(before, limit)
    BY <1>6, Zenon DEF Operator
  <2>2. ~\E before, limit : Purge(before, limit)
    BY <1>1, <1>2, PurgeValues, Zenon
  <2>3. j = i
    BY <1>1, <1>2, <2>1, <2>2, OthersKept, Zenon
  <2>4. ~RestartExecution(i, 0)
    BY Zenon DEF RestartExecution, Active
  <2>5. QED
    BY <1>1, <2>1, <2>2, <2>3, <2>4, CancelledStatus, Zenon
<1>7. ~Client
  BY <1>1, <1>2, CreateValues, Zenon DEF Client, CreatePipelineRun
<1>8. ~Pass
  BY <1>2, Zenon DEF Pass, Tick
<1>9. QED
  BY <1>2, <1>5, <1>6, <1>7, <1>8, Zenon
  DEF WorkerNext, HandlerReturns, LateReturn, Return, Stop, Crash, workerVars

(* Before the end of its lease nobody but an operator ends a delivery or   *)
(* takes it over except the loop that holds it, which leaves execute with  *)
(* that (Claim, owned, ReapExpired, resolve).                              *)
THEOREM LeasesProtect == WorkerSpec => LeaseProtects
<1>1. WorkerInv /\ [WorkerNext]_workerVars => [Protected]_workerVars
  BY ProtectedStep, Zenon
<1>2. QED
  BY <1>1, WorkerInvariance, PTL DEF WorkerSpec, LeaseProtects, Protected

(* Workers, with failing calls, crashes, shutdowns and clients between any *)
(* two of their store calls, use the store only as its specification       *)
(* allows: what is proved of the store, its contract included, holds under *)
(* them (worker.go: loop, execute, resolve).                               *)
THEOREM WorkersKeepStoreContract == WorkerSpec => Spec
<1>1. WorkerInit => Init
  BY Zenon DEF WorkerInit
<1>2. WorkerInv /\ [WorkerNext]_workerVars => [Next]_vars
  BY WorkerStepAllowed, Zenon
<1>3. QED
  BY <1>1, <1>2, WorkerInvariance, PTL DEF WorkerSpec, Spec

=============================================================================
