-------------------------- MODULE MemoryStoreProofs --------------------------
(***************************************************************************)
(* Proofs about MemoryStore.  The inductive invariant adds to the checked  *)
(* invariants what each of them needs of the others: a running execution's *)
(* token is the place of the last event of its log, a succeeded one's      *)
(* output the place before it, and waiting work has attempts left.         *)
(***************************************************************************)
EXTENDS MemoryStore, TLAPS

LeaseSound(item, log) ==
  /\ item.status = "running" => item.token = Len(log)
  /\ item.status # "running" => item.token = 0
  /\ item.status = "succeeded" => item.output = Len(log) - 1
  /\ item.status # "succeeded" => item.output = 0

LifeSound(item) ==
  /\ item.finishedAt # 0 <=> item.status \in Terminal
  /\ item.attempt <= item.max
  /\ item.status \in {"pending", "retry", "blocked"} => item.attempt < item.max

Sound(item, log) ==
  /\ Replays(item, log) /\ LeaseSound(item, log) /\ LifeSound(item)
  /\ Len(log) <= MaxEvents

IInv ==
  /\ TypeOK
  /\ \A i \in DOMAIN executions :
       /\ Sound(executions[i], events[i])
       /\ executions[i].status \in {"running", "blocked"} => executions[i].availableAt <= now

-----------------------------------------------------------------------------
(* What the status of an execution says about the last event of its log. *)
LEMMA LastEvent ==
  ASSUME IInv, NEW i \in DOMAIN executions
  PROVE  LET item == executions[i]
             last == events[i][Len(events[i])]
         IN  /\ item \in Execution /\ events[i] \in Seq(Event)
             /\ Len(events[i]) \in Nat /\ Len(events[i]) >= 1
             /\ last \in Event /\ last.attempt = item.attempt
             /\ item.status = "pending" => last.type \in {"created", "restarted"}
             /\ item.status = "blocked" => last.type = "restarted"
             /\ item.status = "running" => last.type = "started"
             /\ item.status = "retry" => last.type = "retried"
             /\ item.status \in Terminal => last.type = item.status
<1>1. /\ executions[i] \in Execution /\ events[i] \in Seq(Event)
      /\ Replays(executions[i], events[i])
  BY Zenon DEF IInv, TypeOK, Sound
<1>2. Len(events[i]) \in Nat /\ Len(events[i]) >= 1 /\ events[i][Len(events[i])] \in Event
  BY <1>1 DEF Replays
<1>3. QED
  BY <1>1, <1>2, Zenon DEF Replays, StatusesAfter, Event, EventType, Terminal

(* What the invariant says of one execution. *)
LEMMA SoundFields ==
  ASSUME IInv, NEW i \in DOMAIN executions
  PROVE  /\ LeaseSound(executions[i], events[i])
         /\ LifeSound(executions[i])
         /\ executions[i].status \in {"running", "blocked"} => executions[i].availableAt <= now
BY Zenon DEF IInv, Sound

-----------------------------------------------------------------------------
LEMMA InitInv == Init => IInv
BY DEF Init, IInv, TypeOK

LEMMA NextInv == IInv /\ [Next]_vars => IInv'
<1> SUFFICES ASSUME IInv, [Next]_vars PROVE IInv'
  BY Zenon
(* Appending a legal event to a legal log gives a legal log. *)
<1>AppendReplays.
  ASSUME NEW log \in Seq(Event), NEW item \in Execution, Replays(item, log),
         NEW new \in Execution, NEW type \in EventType,
         Follows(log[Len(log)], [type |-> type, attempt |-> new.attempt]),
         new.status \in StatusesAfter(type, new.run)
  PROVE  Replays(new, Append(log, [type |-> type, attempt |-> new.attempt]))
  <2> USE <1>AppendReplays
  <2> DEFINE ev == [type |-> type, attempt |-> new.attempt]
             longer == Append(log, ev)
  <2>1. ev \in Event /\ ev.type = type /\ ev.attempt = new.attempt
    BY Zenon DEF Event, Execution
  <2>2. Len(log) \in Nat /\ Len(log) >= 1
    BY DEF Replays
  <2>3. /\ longer \in Seq(Event)
        /\ Len(longer) = Len(log) + 1
        /\ \A k \in 1..Len(log) : longer[k] = log[k]
        /\ longer[Len(log) + 1] = ev
    BY <2>1, <2>2
  <2>4. longer[1] = [type |-> "created", attempt |-> 0]
    BY <2>2, <2>3 DEF Replays
  <2>5. ASSUME NEW k \in 1..(Len(longer) - 1)
        PROVE  Follows(longer[k], longer[k + 1])
    <3>1. CASE k = Len(log)
      BY <2>2, <2>3, <3>1
    <3>2. CASE k # Len(log)
      <4>1. k \in 1..(Len(log) - 1) /\ k \in 1..Len(log) /\ k + 1 \in 1..Len(log)
        BY <2>2, <2>3, <3>2
      <4>2. QED
        BY <2>3, <4>1, Zenon DEF Replays
    <3>3. QED
      BY <3>1, <3>2, Zenon
  <2>6. longer[Len(longer)] = ev
    BY <2>2, <2>3, Zenon
  <2>7. QED
    BY <2>1, <2>2, <2>3, <2>4, <2>5, <2>6 DEF Replays
(* A transition that writes some executions and logs one event for each    *)
(* keeps the invariant when each new value is sound for its longer log.    *)
<1>CommitSound.
  ASSUME NEW S \in SUBSET DOMAIN executions, NEW new, DOMAIN new = S,
         NEW type \in EventType, appendEvent(new, type),
         now' = now, lastID' = lastID, lastRun' = lastRun,
         DOMAIN runs' \subseteq 1..lastRun, \A r \in DOMAIN runs' : runs'[r] \in PipelineRun,
         \A i \in S :
           /\ new[i] \in Execution
           /\ Follows(events[i][Len(events[i])], [type |-> type, attempt |-> new[i].attempt])
           /\ new[i].status \in StatusesAfter(type, new[i].run)
           /\ LeaseSound(new[i], Append(events[i], [type |-> type, attempt |-> new[i].attempt]))
           /\ LifeSound(new[i])
           /\ new[i].status \in {"running", "blocked"} => new[i].availableAt <= now
  PROVE  IInv'
  <2> USE <1>CommitSound
  <2> DEFINE longer(i) == Append(events[i], [type |-> type, attempt |-> new[i].attempt])
  <2>1. DOMAIN executions' = DOMAIN executions /\ DOMAIN events' = DOMAIN events
    BY Zenon DEF appendEvent, Put, IInv, TypeOK
  <2>2. ASSUME NEW i \in S
        PROVE  executions'[i] = new[i] /\ events'[i] = longer(i)
    BY <2>2, Zenon DEF appendEvent, Put, IInv, TypeOK
  <2>3. ASSUME NEW i \in DOMAIN executions, i \notin S
        PROVE  executions'[i] = executions[i] /\ events'[i] = events[i]
    BY <2>3, Zenon DEF appendEvent, Put, IInv, TypeOK
  <2>4. ASSUME NEW i \in S
        PROVE  longer(i) \in Seq(Event) /\ Sound(new[i], longer(i))
    <3>1. /\ events[i] \in Seq(Event) /\ executions[i] \in Execution
          /\ Replays(executions[i], events[i]) /\ new[i] \in Execution
      BY <2>4, Zenon DEF IInv, TypeOK, Sound
    <3>2. Replays(new[i], longer(i))
      BY <2>4, <3>1, <1>AppendReplays, Zenon
    <3>3. [type |-> type, attempt |-> new[i].attempt] \in Event
      BY <3>1, Zenon DEF Event, Execution
    <3>4. Len(events[i]) < MaxEvents /\ Len(events[i]) \in Nat /\ MaxEvents \in Nat
      BY <2>4, <3>1, ConstantsAssumption DEF appendEvent
    <3>5. Len(longer(i)) = Len(events[i]) + 1 /\ longer(i) \in Seq(Event)
      BY <3>1, <3>3
    <3>6. Len(longer(i)) <= MaxEvents
      BY <3>4, <3>5
    <3>7. QED
      BY <2>4, <3>2, <3>5, <3>6, Zenon DEF Sound
  <2>5. TypeOK'
    BY <2>1, <2>2, <2>3, <2>4, Zenon DEF IInv, TypeOK
  <2>6. ASSUME NEW i \in DOMAIN executions'
        PROVE  /\ Sound(executions'[i], events'[i])
               /\ executions'[i].status \in {"running", "blocked"} => executions'[i].availableAt <= now'
    BY <2>1, <2>2, <2>3, <2>4, Zenon DEF IInv
  <2>7. QED
    BY <2>5, <2>6, Zenon DEF IInv
(* What Succeed, Fail, Cancel and ReapExpired write is sound. *)
<1>FinishSound.
  ASSUME NEW i \in DOMAIN executions, NEW new \in Execution, NEW type \in Terminal,
         executions[i].status \notin Terminal,
         type \in {"succeeded", "failed"} => executions[i].status = "running",
         new.status = type, new.attempt = executions[i].attempt, new.max = executions[i].max,
         new.finishedAt = now, new.token = 0,
         new.output = IF type = "succeeded" THEN executions[i].token ELSE executions[i].output
  PROVE  LET ev == [type |-> type, attempt |-> new.attempt] IN
         /\ Follows(events[i][Len(events[i])], ev)
         /\ new.status \in StatusesAfter(type, new.run)
         /\ LeaseSound(new, Append(events[i], ev))
         /\ LifeSound(new)
  <2> USE <1>FinishSound
  <2> DEFINE ev == [type |-> type, attempt |-> new.attempt]
  <2>1. now \in Nat \ {0} /\ ev \in Event /\ ev.type = type /\ ev.attempt = new.attempt
    BY Zenon DEF IInv, TypeOK, Event, EventType, Terminal, Execution
  <2>2. Len(Append(events[i], ev)) = Len(events[i]) + 1
    BY <2>1, LastEvent
  <2>3. Follows(events[i][Len(events[i])], ev)
    BY <2>1, LastEvent DEF Follows, Terminal, Execution, Status
  <2>4. new.status \in StatusesAfter(type, new.run)
    BY Zenon DEF StatusesAfter, Terminal
  <2>5. LeaseSound(new, Append(events[i], ev))
    BY <2>2, LastEvent, SoundFields DEF LeaseSound, Terminal
  <2>6. LifeSound(new)
    BY <2>1, SoundFields, Zenon DEF LifeSound, Terminal
  <2>7. QED
    BY <2>3, <2>4, <2>5, <2>6, Zenon
(* The events a restart appends. *)
<1>ResetSound.
  ASSUME NEW i \in DOMAIN executions, executions[i].status \notin Active,
         NEW status \in {"pending", "blocked"}, status = "blocked" => executions[i].run # 0,
         NEW availableAt \in Nat, availableAt <= now
  PROVE  LET new == Reset(executions[i], status, availableAt)
             ev == [type |-> "restarted", attempt |-> new.attempt]
         IN  /\ new \in Execution
             /\ Follows(events[i][Len(events[i])], ev)
             /\ new.status \in StatusesAfter("restarted", new.run)
             /\ LeaseSound(new, Append(events[i], ev))
             /\ LifeSound(new)
             /\ new.status \in {"running", "blocked"} => new.availableAt <= now
  <2> USE <1>ResetSound
  <2> DEFINE new == Reset(executions[i], status, availableAt)
             ev == [type |-> "restarted", attempt |-> new.attempt]
  <2>0. executions[i] \in Execution
    BY LastEvent, Zenon
  <2>1. /\ new \in Execution /\ new.status = status /\ new.attempt = 0 /\ new.token = 0
        /\ new.output = 0 /\ new.finishedAt = 0 /\ new.max = executions[i].max
        /\ new.availableAt = availableAt /\ new.run = executions[i].run
    BY <2>0, Zenon DEF Reset, Unleased, Execution, Status
  <2>2. Follows(events[i][Len(events[i])], ev)
    BY <2>0, <2>1, LastEvent, Zenon DEF Follows, Terminal, Active, Execution, Status
  <2>3. new.status \in StatusesAfter("restarted", new.run)
    BY <2>1, Zenon DEF StatusesAfter
  <2>4. LeaseSound(new, Append(events[i], ev))
    BY <2>1, Zenon DEF LeaseSound
  <2>5. LifeSound(new)
    BY <2>0, <2>1 DEF LifeSound, Terminal, Execution
  <2>6. QED
    BY <2>1, <2>2, <2>3, <2>4, <2>5, Zenon
(* One lemma per operation that is more than a commit of one execution. *)
<1>CreateStep.
  ASSUME NEW request \in EnqueueRequest \cup NodeRequest, CreateExecution(request)
  PROVE  IInv'
  <2> USE <1>CreateStep
  <2> DEFINE id == lastID + 1
             item == NewExecution(request)
             log == <<[type |-> "created", attempt |-> 0]>>
  <2>1. now \in Nat \ {0} /\ lastID \in Nat /\ id \notin DOMAIN executions
    BY DEF IInv, TypeOK
  <2>2. /\ request.name \in TaskName /\ request.version \in TaskVersion
        /\ request.key \in IdempotencyKey \cup (Nat \X NodeKey) \cup {None} /\ request.max \in Int
        /\ request.availableAt \in Nat /\ request.run \in Nat
        /\ request.node \in NodeKey \cup {None} /\ request.input \in Inputs
    <3>1. MaxAttempts \cup NodeAttempts \subseteq Int
      BY ConstantsAssumption, Zenon
    <3>2. 1..lastRun \subseteq Nat
      BY DEF IInv, TypeOK
    <3>3. CASE request \in EnqueueRequest
      <4> DEFINE instants == {0} \cup {now + d : d \in Delays}
      <4>1. instants \subseteq Nat
        BY <2>1, ConstantsAssumption
      <4>2. request \in [name: TaskName, version: TaskVersion, key: IdempotencyKey \cup {None},
                         max: MaxAttempts, availableAt: instants, run: {0}, node: {None},
                         input: Inputs]
        BY <3>3, Zenon DEF EnqueueRequest
      <4> HIDE DEF instants
      <4>3. /\ request.name \in TaskName /\ request.version \in TaskVersion
            /\ request.key \in IdempotencyKey \cup {None} /\ request.max \in MaxAttempts
            /\ request.availableAt \in instants /\ request.run = 0
            /\ request.node = None /\ request.input \in Inputs
        BY <4>2, Zenon
      <4>4. request.max \in Int
        BY <3>1, <4>3, Zenon
      <4>5. request.availableAt \in Nat
        BY <4>1, <4>3, Zenon
      <4>6. request.run \in Nat
        BY <4>3
      <4>7. request.node \in NodeKey \cup {None}
        BY <4>3, Zenon
      <4>8. QED
        BY <4>3, <4>4, <4>5, <4>6, <4>7, Zenon
    <3>4. CASE request \in NodeRequest
      <4>1. /\ request.name \in TaskName /\ request.version \in TaskVersion
            /\ request.key \in (1..lastRun) \X NodeKey /\ request.max \in NodeAttempts
            /\ request.availableAt = 0 /\ request.run \in 1..lastRun
            /\ request.node \in NodeKey /\ request.input \in Inputs
        BY <3>4, Zenon DEF NodeRequest
      <4>2. request.max \in Int
        BY <3>1, <4>1, Zenon
      <4>3. request.availableAt \in Nat
        BY <4>1
      <4>4. request.run \in Nat
        BY <3>2, <4>1, Zenon
      <4>5. request.key \in Nat \X NodeKey
        BY <3>2, <4>1, Zenon
      <4>6. QED
        BY <4>1, <4>2, <4>3, <4>4, <4>5, Zenon
    <3>5. QED
      BY <3>3, <3>4, Zenon
  <2>3. item \in Execution
    BY <2>1, <2>2 DEF NewExecution, OrNow, Execution, Status
  <2>4. log \in Seq(Event) /\ Len(log) = 1 /\ log[1] = [type |-> "created", attempt |-> 0]
    BY DEF Event, EventType
  <2>5. Sound(item, log)
    BY <2>1, <2>2, <2>4, ConstantsAssumption
    DEF Sound, Replays, LeaseSound, LifeSound, NewExecution, StatusesAfter, Terminal
  <2>6. /\ DOMAIN executions' = DOMAIN executions \cup {id}
        /\ DOMAIN events' = DOMAIN events \cup {id}
        /\ executions'[id] = item /\ events'[id] = log
        /\ \A i \in DOMAIN executions : executions'[i] = executions[i] /\ events'[i] = events[i]
    BY <2>1, Zenon DEF CreateExecution, Put, At, IInv, TypeOK
  <2>7. now' = now /\ lastID' = id /\ runs' = runs /\ lastRun' = lastRun
    BY Zenon DEF CreateExecution
  <2>8. TypeOK'
    <3> HIDE DEF item, log
    <3>1. DOMAIN executions' \subseteq 1..lastID'
      BY <2>1, <2>6, <2>7 DEF IInv, TypeOK
    <3>2. \A i \in DOMAIN executions' : executions'[i] \in Execution /\ events'[i] \in Seq(Event)
      BY <2>3, <2>4, <2>6, Zenon DEF IInv, TypeOK
    <3>3. QED
      BY <2>1, <2>6, <2>7, <3>1, <3>2 DEF IInv, TypeOK
  <2>9. item.status \notin {"running", "blocked"}
    BY Zenon DEF NewExecution
  <2>10. QED
    BY <2>5, <2>6, <2>7, <2>8, <2>9, Zenon DEF IInv
(* A delivery sets the status, the attempt and the lease, and nothing else. *)
<1>LeasedFields.
  ASSUME NEW item \in Execution, NEW attempt \in Nat, NEW token \in Nat, NEW until \in Nat
  PROVE  LET leased == Leased(item, attempt, token, until) IN
         /\ leased \in Execution /\ leased.status = "running"
         /\ leased.attempt = attempt /\ leased.token = token /\ leased.max = item.max
         /\ leased.output = item.output /\ leased.finishedAt = item.finishedAt
         /\ leased.availableAt = item.availableAt
  BY <1>LeasedFields, Zenon DEF Leased, Execution, Status
<1>ClaimStep.
  ASSUME NEW keys, NEW limit, Claim(keys, limit)
  PROVE  IInv'
  <2> USE <1>ClaimStep
  <2>1. PICK batch \in SUBSET {i \in DOMAIN executions : Claimable(executions[i], keys)} :
          /\ appendEvent([i \in batch |-> Deliver(i)], "started")
          /\ UNCHANGED <<Indexes, runs, now>>
    BY Zenon DEF Claim
  <2> DEFINE new == [i \in batch |-> Deliver(i)]
  <2>2. now \in Nat /\ now' = now /\ lastID' = lastID /\ lastRun' = lastRun /\ runs' = runs
    BY <2>1, Zenon DEF Indexes, IInv, TypeOK
  <2>3. ASSUME NEW i \in batch
        PROVE  LET ev == [type |-> "started", attempt |-> Deliver(i).attempt] IN
               /\ Deliver(i) \in Execution
               /\ Follows(events[i][Len(events[i])], ev)
               /\ Deliver(i).status \in StatusesAfter("started", Deliver(i).run)
               /\ LeaseSound(Deliver(i), Append(events[i], ev))
               /\ LifeSound(Deliver(i))
               /\ Deliver(i).status \in {"running", "blocked"} => Deliver(i).availableAt <= now
    <3> DEFINE ev == [type |-> "started", attempt |-> Deliver(i).attempt]
    <3>1. i \in DOMAIN executions /\ executions[i] \in Execution /\ Claimable(executions[i], keys)
      BY <2>3, LastEvent, Zenon
    <3>2. /\ Deliver(i) \in Execution /\ Deliver(i).status = "running"
          /\ Deliver(i).attempt = executions[i].attempt + 1
          /\ Deliver(i).token = Len(events[i]) + 1 /\ Deliver(i).max = executions[i].max
          /\ Deliver(i).output = executions[i].output
          /\ Deliver(i).finishedAt = executions[i].finishedAt
          /\ Deliver(i).availableAt = executions[i].availableAt
      <4> DEFINE attempt == executions[i].attempt + 1
                 token == Len(events[i]) + 1
                 until == now + Lease
      <4>1. attempt \in Nat /\ token \in Nat /\ until \in Nat
        <5>1. executions[i].attempt \in Nat /\ Len(events[i]) \in Nat
          BY <3>1, LastEvent, Zenon DEF Execution
        <5>2. Lease \in Nat
          BY ConstantsAssumption, Zenon
        <5>3. QED
          BY <2>2, <5>1, <5>2
      <4>2. Deliver(i) = Leased(executions[i], attempt, token, until)
        BY Zenon DEF Deliver
      <4>3. attempt = executions[i].attempt + 1 /\ token = Len(events[i]) + 1
        BY Zenon
      <4> HIDE DEF attempt, token, until
      <4> DEFINE leased == Leased(executions[i], attempt, token, until)
      <4>4. /\ leased \in Execution /\ leased.status = "running"
            /\ leased.attempt = attempt /\ leased.token = token
            /\ leased.max = executions[i].max
            /\ leased.output = executions[i].output
            /\ leased.finishedAt = executions[i].finishedAt
            /\ leased.availableAt = executions[i].availableAt
        BY <3>1, <4>1, <1>LeasedFields
      <4> HIDE DEF leased
      <4>5. QED
        BY <4>2, <4>3, <4>4, Zenon DEF leased
    <3>3. ev \in Event /\ ev.type = "started" /\ ev.attempt = executions[i].attempt + 1
      BY <3>2, Zenon DEF Event, EventType, Execution
    <3>4. Len(Append(events[i], ev)) = Len(events[i]) + 1
      BY <3>1, <3>3, LastEvent
    <3>5. Follows(events[i][Len(events[i])], ev)
      BY <3>1, <3>3, LastEvent, Zenon DEF Follows, Claimable
    <3>6. LeaseSound(Deliver(i), Append(events[i], ev))
      BY <3>1, <3>2, <3>4, SoundFields, Zenon DEF LeaseSound, Claimable
    <3>7. LifeSound(Deliver(i))
      <4>1. executions[i].attempt \in Nat /\ executions[i].max \in Nat
        BY <3>1, Zenon DEF Execution
      <4>2. executions[i].finishedAt = 0
        BY <3>1, SoundFields, Zenon DEF LifeSound, Claimable, Terminal
      <4>3. QED
        BY <3>1, <3>2, <4>1, <4>2 DEF LifeSound, Claimable, Terminal
    <3>8. QED
      BY <3>1, <3>2, <3>5, <3>6, <3>7, Zenon DEF StatusesAfter, Claimable
  <2>4. DOMAIN new = batch /\ batch \in SUBSET DOMAIN executions /\ "started" \in EventType
    BY Zenon DEF EventType
  <2>5. \A i \in batch : new[i] = Deliver(i)
    BY Zenon
  <2>6. DOMAIN runs' \subseteq 1..lastRun /\ \A r \in DOMAIN runs' : runs'[r] \in PipelineRun
    BY <2>2, Zenon DEF IInv, TypeOK
  <2> HIDE DEF new
  <2>7. appendEvent(new, "started")
    BY <2>1, Zenon DEF new
  <2>8. QED
    BY <2>2, <2>3, <2>4, <2>5, <2>6, <2>7, <1>CommitSound, SMTT(30)
(* CommitSound for a transition of one execution. *)
<1>CommitOne.
  ASSUME NEW i \in DOMAIN executions, NEW new \in Execution, NEW type \in EventType,
         appendEvent(At(i, new), type), UNCHANGED <<Indexes, runs, now>>,
         Follows(events[i][Len(events[i])], [type |-> type, attempt |-> new.attempt]),
         new.status \in StatusesAfter(type, new.run),
         LeaseSound(new, Append(events[i], [type |-> type, attempt |-> new.attempt])),
         LifeSound(new),
         new.status \in {"running", "blocked"} => new.availableAt <= now
  PROVE  IInv'
  <2> USE <1>CommitOne
  <2> DEFINE one == At(i, new)
  <2>1. DOMAIN one = {i} /\ one[i] = new
    BY Zenon DEF At
  <2>2. now' = now /\ lastID' = lastID /\ lastRun' = lastRun /\ runs' = runs
    BY Zenon DEF Indexes
  <2>3. DOMAIN runs' \subseteq 1..lastRun /\ \A r \in DOMAIN runs' : runs'[r] \in PipelineRun
    BY <2>2, Zenon DEF IInv, TypeOK
  <2>4. appendEvent(one, type)
    BY Zenon
  <2> HIDE DEF one
  <2>5. \A j \in {i} :
          /\ one[j] \in Execution
          /\ Follows(events[j][Len(events[j])], [type |-> type, attempt |-> one[j].attempt])
          /\ one[j].status \in StatusesAfter(type, one[j].run)
          /\ LeaseSound(one[j], Append(events[j], [type |-> type, attempt |-> one[j].attempt]))
          /\ LifeSound(one[j])
          /\ one[j].status \in {"running", "blocked"} => one[j].availableAt <= now
    BY <2>1, Zenon
  <2>6. {i} \in SUBSET DOMAIN executions
    BY Zenon
  <2>7. QED
    BY <2>1, <2>2, <2>3, <2>4, <2>5, <2>6, <1>CommitSound, Zenon
(* What Finished makes of an execution. *)
<1>FinishedFields.
  ASSUME NEW i \in DOMAIN executions, NEW status \in Terminal
  PROVE  LET new == Finished(executions[i], status) IN
         /\ new \in Execution /\ new.status = status /\ new.finishedAt = now
         /\ new.attempt = executions[i].attempt /\ new.max = executions[i].max
         /\ new.token = 0 /\ new.output = executions[i].output
  <2> USE <1>FinishedFields
  <2>1. executions[i] \in Execution /\ now \in Nat
    BY Zenon DEF IInv, TypeOK
  <2>2. QED
    BY <2>1, Zenon DEF Finished, Unleased, Execution, Status, Terminal
<1>SucceedStep.
  ASSUME NEW i, NEW token, Succeed(i, token)
  PROVE  IInv'
  <2> USE <1>SucceedStep
  <2> DEFINE new == [Finished(executions[i], "succeeded") EXCEPT !.output = token]
  <2>1. i \in DOMAIN executions /\ executions[i].status = "running" /\ executions[i].token = token
    BY Zenon DEF Succeed, owned
  <2>2. executions[i] \in Execution /\ token \in Nat /\ now \in Nat
    BY <2>1, Zenon DEF IInv, TypeOK, Execution
  <2>3. /\ new \in Execution /\ new.status = "succeeded" /\ new.finishedAt = now
        /\ new.attempt = executions[i].attempt /\ new.max = executions[i].max
        /\ new.token = 0 /\ new.output = token
    BY <2>1, <2>2, Zenon DEF Finished, Unleased, Execution, Status
  <2>4. appendEvent(At(i, new), "succeeded") /\ UNCHANGED <<Indexes, runs, now>>
    BY Zenon DEF Succeed
  <2> HIDE DEF new
  <2>5. /\ executions[i].status \notin Terminal /\ "succeeded" \in Terminal
        /\ "succeeded" \in EventType
    BY <2>1, Zenon DEF Terminal, EventType
  <2>6. /\ Follows(events[i][Len(events[i])], [type |-> "succeeded", attempt |-> new.attempt])
        /\ new.status \in StatusesAfter("succeeded", new.run)
        /\ LeaseSound(new, Append(events[i], [type |-> "succeeded", attempt |-> new.attempt]))
        /\ LifeSound(new)
    BY <2>1, <2>3, <2>5, <1>FinishSound, Zenon
  <2>7. QED
    BY <2>1, <2>3, <2>4, <2>5, <2>6, <1>CommitOne, Zenon
(* A call that finishes one execution without a result. *)
<1>FinishStep.
  ASSUME NEW i \in DOMAIN executions, NEW status \in {"failed", "cancelled"},
         executions[i].status \notin Terminal,
         status = "failed" => executions[i].status = "running",
         appendEvent(At(i, Finished(executions[i], status)), status),
         UNCHANGED <<Indexes, runs, now>>
  PROVE  IInv'
  <2> USE <1>FinishStep
  <2> DEFINE new == Finished(executions[i], status)
  <2>1. status \in Terminal /\ status \in EventType /\ status # "succeeded" /\ status \notin {"running", "blocked"}
    BY Zenon DEF Terminal, EventType
  <2>2. /\ new \in Execution /\ new.status = status /\ new.finishedAt = now
        /\ new.attempt = executions[i].attempt /\ new.max = executions[i].max
        /\ new.token = 0 /\ new.output = executions[i].output
    BY <2>1, <1>FinishedFields, Zenon
  <2>3. appendEvent(At(i, new), status)
    BY Zenon
  <2> HIDE DEF new
  <2>4. /\ Follows(events[i][Len(events[i])], [type |-> status, attempt |-> new.attempt])
        /\ new.status \in StatusesAfter(status, new.run)
        /\ LeaseSound(new, Append(events[i], [type |-> status, attempt |-> new.attempt]))
        /\ LifeSound(new)
    BY <2>1, <2>2, <1>FinishSound, Zenon
  <2>5. QED
    BY <2>1, <2>2, <2>3, <2>4, <1>CommitOne, Zenon
<1>RetryStep.
  ASSUME NEW i, NEW token, NEW delay \in Delays, Retry(i, token, delay)
  PROVE  IInv'
  <2> USE <1>RetryStep
  <2>1. /\ i \in DOMAIN executions /\ executions[i].status = "running"
        /\ executions[i].status \notin Terminal /\ UNCHANGED <<Indexes, runs, now>>
    BY Zenon DEF Retry, owned, Terminal
  <2>2. CASE executions[i].attempt >= executions[i].max
    <3>1. appendEvent(At(i, Finished(executions[i], "failed")), "failed")
      BY <2>2, Zenon DEF Retry
    <3>2. QED
      BY <2>1, <3>1, <1>FinishStep, Zenon
  <2>3. CASE ~(executions[i].attempt >= executions[i].max)
    <3> DEFINE at == now + delay
               new == [Unleased(executions[i]) EXCEPT !.status = "retry", !.availableAt = at]
               ev == [type |-> "retried", attempt |-> new.attempt]
    <3>1. appendEvent(At(i, new), "retried")
      BY <2>3, Zenon DEF Retry
    <3>2. executions[i] \in Execution /\ at \in Nat
      BY <2>1, ConstantsAssumption DEF IInv, TypeOK
    <3> HIDE DEF at
    <3>3. /\ new \in Execution /\ new.status = "retry" /\ new.token = 0
          /\ new.attempt = executions[i].attempt /\ new.max = executions[i].max
          /\ new.output = executions[i].output /\ new.finishedAt = executions[i].finishedAt
      BY <3>2, Zenon DEF Unleased, Execution, Status
    <3> HIDE DEF new
    <3>4. ev \in Event /\ ev.type = "retried" /\ ev.attempt = new.attempt
      BY <3>3, Zenon DEF Event, EventType, Execution
    <3>5. Follows(events[i][Len(events[i])], ev)
      BY <2>1, <3>3, <3>4, LastEvent, Zenon DEF Follows
    <3>6. LeaseSound(new, Append(events[i], ev))
      BY <2>1, <3>3, SoundFields, Zenon DEF LeaseSound
    <3>7. executions[i].attempt \in Nat /\ executions[i].max \in Nat /\ executions[i].finishedAt = 0
      BY <2>1, <3>2, SoundFields, Zenon DEF LifeSound, Execution
    <3>8. LifeSound(new)
      BY <2>3, <3>3, <3>7 DEF LifeSound, Terminal
    <3>9. new.status \in StatusesAfter("retried", new.run) /\ "retried" \in EventType
      BY <3>3, Zenon DEF StatusesAfter, EventType
    <3>10. QED
      BY <2>1, <3>1, <3>3, <3>5, <3>6, <3>8, <3>9, <1>CommitOne, Zenon
  <2>4. QED
    BY <2>2, <2>3, Zenon
<1>ReapStep.
  ASSUME ReapExpired
  PROVE  IInv'
  <2> USE <1>ReapStep
  <2> DEFINE dead == {i \in DOMAIN executions : Reapable(executions[i])}
             new == [i \in dead |-> Finished(executions[i], "failed")]
  <2>1. /\ appendEvent(new, "failed")
        /\ now' = now /\ lastID' = lastID /\ lastRun' = lastRun /\ runs' = runs
    BY Zenon DEF ReapExpired, Indexes
  <2>2. DOMAIN new = dead /\ dead \in SUBSET DOMAIN executions /\ "failed" \in EventType
    BY Zenon DEF EventType
  <2>3. ASSUME NEW i \in dead
        PROVE  /\ new[i] \in Execution
               /\ Follows(events[i][Len(events[i])], [type |-> "failed", attempt |-> new[i].attempt])
               /\ new[i].status \in StatusesAfter("failed", new[i].run)
               /\ LeaseSound(new[i], Append(events[i], [type |-> "failed", attempt |-> new[i].attempt]))
               /\ LifeSound(new[i])
               /\ new[i].status \notin {"running", "blocked"}
    <3> DEFINE one == Finished(executions[i], "failed")
    <3>1. /\ i \in DOMAIN executions /\ executions[i].status = "running" /\ new[i] = one
          /\ executions[i].status \notin Terminal /\ "failed" \in Terminal
      BY Zenon DEF Reapable, Terminal
    <3>2. /\ one \in Execution /\ one.status = "failed" /\ one.finishedAt = now
          /\ one.attempt = executions[i].attempt /\ one.max = executions[i].max
          /\ one.token = 0 /\ one.output = executions[i].output
      BY <3>1, <1>FinishedFields, Zenon
    <3> HIDE DEF one
    <3>3. /\ Follows(events[i][Len(events[i])], [type |-> "failed", attempt |-> one.attempt])
          /\ one.status \in StatusesAfter("failed", one.run)
          /\ LeaseSound(one, Append(events[i], [type |-> "failed", attempt |-> one.attempt]))
          /\ LifeSound(one)
      BY <3>1, <3>2, <1>FinishSound, Zenon
    <3>4. QED
      BY <3>1, <3>2, <3>3, Zenon
  <2>4. DOMAIN runs' \subseteq 1..lastRun /\ \A r \in DOMAIN runs' : runs'[r] \in PipelineRun
    BY <2>1, Zenon DEF IInv, TypeOK
  <2> HIDE DEF new, dead
  <2>5. QED
    BY <2>1, <2>2, <2>3, <2>4, <1>CommitSound, Zenon
<1>HeartbeatStep.
  ASSUME NEW i, NEW token, Heartbeat(i, token)
  PROVE  IInv'
  <2> USE <1>HeartbeatStep
  <2> DEFINE until == now + Lease
             new == [executions[i] EXCEPT !.leaseUntil = until]
  <2>1. /\ i \in DOMAIN executions /\ executions[i] \in Execution
        /\ executions' = [executions EXCEPT ![i] = new]
        /\ UNCHANGED <<events, runs, now, lastID, lastRun>>
    BY Zenon DEF Heartbeat, owned, Indexes, IInv, TypeOK
  <2>2. until \in Nat
    BY ConstantsAssumption DEF IInv, TypeOK
  <2> HIDE DEF until
  <2>3. /\ new \in Execution /\ new.status = executions[i].status
        /\ new.attempt = executions[i].attempt /\ new.token = executions[i].token
        /\ new.output = executions[i].output /\ new.finishedAt = executions[i].finishedAt
        /\ new.max = executions[i].max /\ new.availableAt = executions[i].availableAt
        /\ new.run = executions[i].run
    BY <2>1, <2>2, Zenon DEF Execution
  <2> HIDE DEF new
  <2>4. Sound(new, events[i])
    BY <2>1, <2>3, Zenon DEF IInv, Sound, Replays, LeaseSound, LifeSound
  <2>5. TypeOK'
    BY <2>1, <2>3, Zenon DEF IInv, TypeOK
  <2>6. QED
    BY <2>1, <2>3, <2>4, <2>5, Zenon DEF IInv
<1>RestartStep.
  ASSUME NEW i, RestartExecution(i, 0)
  PROVE  IInv'
  <2> USE <1>RestartStep
  <2> DEFINE new == Reset(executions[i], "pending", OrNow(0))
  <2>1. /\ i \in DOMAIN executions /\ executions[i].status \notin Active
        /\ appendEvent(At(i, new), "restarted") /\ UNCHANGED <<Indexes, runs, now>>
    BY Zenon DEF RestartExecution
  <2>2. OrNow(0) \in Nat /\ OrNow(0) <= now /\ "restarted" \in EventType
    BY DEF OrNow, IInv, TypeOK, EventType
  <2>3. /\ new \in Execution
        /\ Follows(events[i][Len(events[i])], [type |-> "restarted", attempt |-> new.attempt])
        /\ new.status \in StatusesAfter("restarted", new.run)
        /\ LeaseSound(new, Append(events[i], [type |-> "restarted", attempt |-> new.attempt]))
        /\ LifeSound(new)
        /\ new.status \in {"running", "blocked"} => new.availableAt <= now
    BY <2>1, <2>2, <1>ResetSound, Zenon
  <2> HIDE DEF new
  <2>4. QED
    BY <2>1, <2>2, <2>3, <1>CommitOne, Zenon
<1>SubgraphStep.
  ASSUME NEW r, NEW root, RestartPipelineSubgraph(r, root, 0)
  PROVE  IInv'
  <2> USE <1>SubgraphStep
  <2> DEFINE status(i) == IF executions[i].node = root THEN "pending" ELSE "blocked"
             new == [i \in Affected(r, root) |-> Reset(executions[i], status(i), OrNow(0))]
  <2>1. /\ r \in DOMAIN runs /\ \A i \in Affected(r, root) : executions[i].status \notin Active
        /\ appendEvent(new, "restarted")
        /\ runs' = [runs EXCEPT ![r].status = "running", ![r].revision = runs[r].revision + 1,
                                ![r].finishedAt = 0]
        /\ now' = now /\ lastID' = lastID /\ lastRun' = lastRun
    BY Zenon DEF RestartPipelineSubgraph, Indexes
  <2>2. /\ DOMAIN new = Affected(r, root) /\ Affected(r, root) \in SUBSET DOMAIN executions
        /\ OrNow(0) \in Nat /\ OrNow(0) <= now /\ "restarted" \in EventType
    BY DEF OrNow, IInv, TypeOK, EventType, Affected
  <2>3. ASSUME NEW i \in Affected(r, root)
        PROVE  /\ new[i] \in Execution
               /\ Follows(events[i][Len(events[i])], [type |-> "restarted", attempt |-> new[i].attempt])
               /\ new[i].status \in StatusesAfter("restarted", new[i].run)
               /\ LeaseSound(new[i], Append(events[i], [type |-> "restarted", attempt |-> new[i].attempt]))
               /\ LifeSound(new[i])
               /\ new[i].status \in {"running", "blocked"} => new[i].availableAt <= now
    <3>1. i \in DOMAIN executions /\ status(i) \in {"pending", "blocked"}
          /\ executions[i].status \notin Active /\ executions[i].run # 0
      <4>1. r # 0
        BY <2>1 DEF IInv, TypeOK
      <4>2. QED
        BY <2>1, <2>2, <4>1, Zenon DEF Affected
    <3>2. new[i] = Reset(executions[i], status(i), OrNow(0))
      BY Zenon
    <3> HIDE DEF status, new
    <3>3. QED
      BY <2>2, <3>1, <3>2, <1>ResetSound, Zenon
  <2>4. DOMAIN runs' \subseteq 1..lastRun /\ \A s \in DOMAIN runs' : runs'[s] \in PipelineRun
    <3> DEFINE revision == runs[r].revision + 1
    <3>1. runs[r] \in PipelineRun /\ revision \in Nat
      BY <2>1 DEF IInv, TypeOK, PipelineRun
    <3>2. runs' = [runs EXCEPT ![r].status = "running", ![r].revision = revision, ![r].finishedAt = 0]
      BY <2>1, Zenon
    <3> HIDE DEF revision
    <3>3. DOMAIN runs' = DOMAIN runs
      BY <3>2, Zenon
    <3>4. ASSUME NEW s \in DOMAIN runs PROVE runs'[s] \in PipelineRun
      BY <3>1, <3>2, Zenon DEF PipelineRun, RunStatus, IInv, TypeOK
    <3>5. QED
      BY <3>3, <3>4, Zenon DEF IInv, TypeOK
  <2> HIDE DEF new
  <2>5. QED
    BY <2>1, <2>2, <2>3, <2>4, <1>CommitSound, Zenon
<1>ReleaseStep.
  ASSUME NEW i \in DOMAIN executions, NEW input \in Inputs, NEW availableAt \in 0..now,
         ReleaseExecution(i, input, availableAt)
  PROVE  IInv'
  <2> USE <1>ReleaseStep
  <2> DEFINE at == OrNow(availableAt)
             new == [executions[i] EXCEPT !.status = "pending", !.input = input, !.availableAt = at]
  <2>1. /\ executions[i] \in Execution /\ executions[i].status = "blocked"
        /\ executions' = [executions EXCEPT ![i] = new]
        /\ UNCHANGED <<events, runs, now, lastID, lastRun>>
    BY Zenon DEF ReleaseExecution, Indexes, IInv, TypeOK
  <2>2. at \in Nat
    BY <2>1 DEF OrNow, IInv, TypeOK, Execution
  <2> HIDE DEF at
  <2>3. /\ new \in Execution /\ new.status = "pending"
        /\ new.attempt = executions[i].attempt /\ new.token = executions[i].token
        /\ new.output = executions[i].output /\ new.finishedAt = executions[i].finishedAt
        /\ new.max = executions[i].max
    BY <2>1, <2>2, Zenon DEF Execution, Status
  <2> HIDE DEF new
  <2>4. LeaseSound(new, events[i]) /\ LifeSound(new)
    BY <2>1, <2>3, SoundFields, Zenon DEF LeaseSound, LifeSound, Terminal
  <2>5. Replays(new, events[i])
    <3>1. events[i][Len(events[i])].type = "restarted"
      BY <2>1, LastEvent, Zenon
    <3>2. QED
      BY <2>3, <3>1, Zenon DEF IInv, Sound, Replays, StatusesAfter
  <2>6. TypeOK'
    BY <2>1, <2>3, Zenon DEF IInv, TypeOK
  <2>7. QED
    BY <2>1, <2>3, <2>4, <2>5, <2>6, Zenon DEF IInv, Sound
(* Operations that leave the executions and their logs alone. *)
<1>RunStep.
  ASSUME executions' = executions, events' = events, lastID' = lastID,
         now' \in Nat, now' >= now, lastRun' \in Nat,
         DOMAIN runs' \subseteq 1..lastRun', \A r \in DOMAIN runs' : runs'[r] \in PipelineRun
  PROVE  IInv'
  <2> USE <1>RunStep
  <2>1. TypeOK'
    BY DEF IInv, TypeOK
  <2>2. ASSUME NEW i \in DOMAIN executions'
        PROVE  executions'[i].status \in {"running", "blocked"} => executions'[i].availableAt <= now'
    <3>1. executions[i] \in Execution /\ executions[i].availableAt \in Nat /\ now \in Nat
      BY Zenon DEF IInv, TypeOK, Execution
    <3>2. executions[i].status \in {"running", "blocked"} => executions[i].availableAt <= now
      BY SoundFields, Zenon
    <3>3. QED
      BY <3>1, <3>2
  <2>3. QED
    BY <2>1, <2>2, Zenon DEF IInv
<1>CreateRunStep.
  ASSUME NEW key \in IdempotencyKey \cup {None}, CreatePipelineRun(key)
  PROVE  IInv'
  <2> USE <1>CreateRunStep
  <2> DEFINE id == lastRun + 1
             run == [key |-> key, status |-> "pending", revision |-> 0, finishedAt |-> 0]
  <2>1. /\ runs' = Put(runs, At(id, run)) /\ lastRun' = id /\ lastRun \in Nat /\ now \in Nat
        /\ UNCHANGED <<executions, events, lastID, now>>
    BY Zenon DEF CreatePipelineRun, IInv, TypeOK
  <2>2. run \in PipelineRun
    BY Zenon DEF PipelineRun, RunStatus
  <2> HIDE DEF run
  <2>3. /\ DOMAIN runs' = DOMAIN runs \cup {id}
        /\ \A r \in DOMAIN runs' : runs'[r] = IF r = id THEN run ELSE runs[r]
    BY <2>1, Zenon DEF Put, At
  <2>4. DOMAIN runs \subseteq 1..lastRun /\ \A r \in DOMAIN runs : runs[r] \in PipelineRun
    BY Zenon DEF IInv, TypeOK
  <2>5. DOMAIN runs' \subseteq 1..lastRun'
    BY ONLY <2>1, <2>3, <2>4 DEF id
  <2>6. \A r \in DOMAIN runs' : runs'[r] \in PipelineRun
    BY <2>2, <2>3, <2>4, Zenon
  <2>7. QED
    BY <2>1, <2>5, <2>6, <1>RunStep
<1>SetStatusStep.
  ASSUME NEW r, NEW revision, NEW status \in RunStatus, SetPipelineRunStatus(r, revision, status)
  PROVE  IInv'
  <2> USE <1>SetStatusStep
  <2> DEFINE next == runs[r].revision + 1
             finished == IF status \in Terminal THEN now ELSE runs[r].finishedAt
  <2>1. /\ r \in DOMAIN runs /\ runs[r] \in PipelineRun /\ now \in Nat /\ lastRun \in Nat
        /\ runs' = [runs EXCEPT ![r].status = status, ![r].revision = next, ![r].finishedAt = finished]
        /\ UNCHANGED <<executions, events, lastID, lastRun, now>>
    BY Zenon DEF SetPipelineRunStatus, Indexes, IInv, TypeOK
  <2>2. next \in Nat /\ finished \in Nat
    BY <2>1 DEF PipelineRun
  <2> HIDE DEF next, finished
  <2>3. DOMAIN runs' = DOMAIN runs
    BY <2>1, Zenon
  <2>4. ASSUME NEW s \in DOMAIN runs PROVE runs'[s] \in PipelineRun
    BY <2>1, <2>2, Zenon DEF PipelineRun, IInv, TypeOK
  <2>5. DOMAIN runs' \subseteq 1..lastRun'
    BY <2>1, <2>3, Zenon DEF IInv, TypeOK
  <2>6. QED
    BY <2>1, <2>3, <2>4, <2>5, <1>RunStep
<1>PurgeStep.
  ASSUME NEW before, NEW limit, Purge(before, limit)
  PROVE  IInv'
  <2> USE <1>PurgeStep
  <2>1. PICK dead, deadRuns :
          /\ executions' = Restrict(executions, DOMAIN executions \ dead)
          /\ events' = Restrict(events, DOMAIN events \ dead)
          /\ runs' = Restrict(runs, DOMAIN runs \ deadRuns)
          /\ UNCHANGED <<lastID, lastRun, now>>
    BY Zenon DEF Purge, deleteExecution
  <2>2. /\ DOMAIN executions' = DOMAIN executions \ dead /\ DOMAIN events' = DOMAIN events \ dead
        /\ DOMAIN runs' = DOMAIN runs \ deadRuns
        /\ \A i \in DOMAIN executions' : executions'[i] = executions[i]
        /\ \A i \in DOMAIN events' : events'[i] = events[i]
        /\ \A r \in DOMAIN runs' : runs'[r] = runs[r]
    BY <2>1, Zenon DEF Restrict
  <2>3. TypeOK'
    BY <2>1, <2>2, Zenon DEF IInv, TypeOK
  <2>4. QED
    BY <2>1, <2>2, <2>3, Zenon DEF IInv, TypeOK
<1>1. CASE Tick
  <2>1. now \in Nat /\ now' = now + 1 /\ UNCHANGED <<executions, events, runs, lastID, lastRun>>
    BY <1>1, Zenon DEF Tick, IInv, TypeOK
  <2>2. /\ now' \in Nat /\ now' >= now /\ lastRun' \in Nat /\ DOMAIN runs' \subseteq 1..lastRun'
        /\ \A r \in DOMAIN runs' : runs'[r] \in PipelineRun
    BY <2>1 DEF IInv, TypeOK
  <2>3. QED
    BY <2>1, <2>2, <1>RunStep, Zenon
<1>2. CASE \E request \in EnqueueRequest \cup NodeRequest : CreateExecution(request)
  BY <1>2, <1>CreateStep, Zenon
<1>3. CASE \E keys \in SUBSET (TaskName \X TaskVersion), limit \in Limits : Claim(keys, limit)
  BY <1>3, <1>ClaimStep, Zenon
<1>4. CASE ReapExpired
  BY <1>4, <1>ReapStep, Zenon
<1>5. CASE WorkerCall
  <2>1. PICK i \in DOMAIN executions : \E token \in Deliveries(i) :
          \/ Heartbeat(i, token)
          \/ Succeed(i, token)
          \/ Fail(i, token)
          \/ \E delay \in Delays : Retry(i, token, delay)
    BY <1>5, Zenon DEF WorkerCall
  <2> PICK token \in Deliveries(i) :
          \/ Heartbeat(i, token)
          \/ Succeed(i, token)
          \/ Fail(i, token)
          \/ \E delay \in Delays : Retry(i, token, delay)
    BY <2>1, Zenon
  <2>2. CASE Heartbeat(i, token)
    BY <2>2, <1>HeartbeatStep, Zenon
  <2>3. CASE Succeed(i, token)
    BY <2>3, <1>SucceedStep, Zenon
  <2>4. CASE Fail(i, token)
    <3>1. /\ executions[i].status = "running" /\ executions[i].status \notin Terminal
          /\ appendEvent(At(i, Finished(executions[i], "failed")), "failed")
          /\ UNCHANGED <<Indexes, runs, now>>
      BY <2>4, Zenon DEF Fail, owned, Terminal
    <3>2. QED
      BY <3>1, <1>FinishStep, Zenon
  <2>5. CASE \E delay \in Delays : Retry(i, token, delay)
    BY <2>5, <1>RetryStep, Zenon
  <2>6. QED
    BY <2>2, <2>3, <2>4, <2>5, Zenon
<1>6. CASE OperatorCall
  <2>1. CASE \E i \in DOMAIN executions : CancelExecution(i)
    <3>1. PICK i \in DOMAIN executions :
            /\ executions[i].status \notin Terminal
            /\ appendEvent(At(i, Finished(executions[i], "cancelled")), "cancelled")
            /\ UNCHANGED <<Indexes, runs, now>>
      BY <2>1, Zenon DEF CancelExecution
    <3>2. QED
      BY <3>1, <1>FinishStep, Zenon
  <2>2. CASE \E i \in DOMAIN executions : RestartExecution(i, 0)
    BY <2>2, <1>RestartStep, Zenon
  <2>3. CASE \E limit \in Limits, before \in 1..(now + 1) : Purge(before, limit)
    BY <2>3, <1>PurgeStep, Zenon
  <2>4. QED
    BY <1>6, <2>1, <2>2, <2>3, Zenon DEF OperatorCall
<1>7. CASE PipelineCall
  <2>1. CASE \E key \in IdempotencyKey \cup {None} : CreatePipelineRun(key)
    BY <2>1, <1>CreateRunStep, Zenon
  <2>2. CASE \E r \in DOMAIN runs : \E status \in RunStatus :
               SetPipelineRunStatus(r, runs[r].revision, status)
    BY <2>2, <1>SetStatusStep, Zenon
  <2>3. CASE \E r \in DOMAIN runs, root \in NodeKey : RestartPipelineSubgraph(r, root, 0)
    BY <2>3, <1>SubgraphStep, Zenon
  <2>4. CASE \E i \in DOMAIN executions, input \in Inputs, availableAt \in 0..now :
               ReleaseExecution(i, input, availableAt)
    BY <2>4, <1>ReleaseStep, Zenon
  <2>5. QED
    BY <1>7, <2>1, <2>2, <2>3, <2>4, Zenon DEF PipelineCall, RunStatus
<1>8. CASE UNCHANGED vars
  BY <1>8, Zenon DEF vars, IInv, TypeOK
<1>9. QED
  BY <1>1, <1>2, <1>3, <1>4, <1>5, <1>6, <1>7, <1>8, Zenon DEF Next

(* Every behaviour of the store keeps the inductive invariant. *)
THEOREM Invariance == Spec => []IInv
BY InitInv, NextInv, PTL DEF Spec

(* Type correctness of the store, for every set of tasks, keys, nodes and bounds. *)
THEOREM TypeCorrect == Spec => []TypeOK
<1>1. IInv => TypeOK
  BY Zenon DEF IInv
<1>2. QED
  BY <1>1, Invariance, PTL

(* The event log of every execution is a legal life that replays to its    *)
(* stored status and attempt (appendEvent and every caller of it).         *)
THEOREM LogReplays == Spec => []LogReplaysToState
<1>1. IInv => LogReplaysToState
  BY Zenon DEF IInv, Sound, LogReplaysToState
<1>2. QED
  BY <1>1, Invariance, PTL

(* A lease and a result always belong to the newest delivery (owned). *)
THEOREM NewestDeliveryOwnsResult == Spec => []ResultOfNewestDelivery
<1>1. ASSUME IInv PROVE ResultOfNewestDelivery
  <2> SUFFICES ASSUME NEW i \in DOMAIN executions
               PROVE  LET item == executions[i]
                          newest(k) == k \in Deliveries(i) /\ \A d \in Deliveries(i) : d <= k
                      IN  /\ item.status = "running" => newest(item.token)
                          /\ item.status # "running" => item.token = 0
                          /\ item.status = "succeeded" => newest(item.output)
                          /\ item.status # "succeeded" => item.output = 0
    BY Zenon DEF ResultOfNewestDelivery
  <2> DEFINE n == Len(events[i])
  <2>1. /\ executions[i] \in Execution /\ events[i] \in Seq(Event)
        /\ n \in Nat /\ n >= 1
        /\ executions[i].status = "running" => events[i][n].type = "started"
        /\ executions[i].status \in Terminal => events[i][n].type = executions[i].status
    BY <1>1, LastEvent, Zenon
  <2>2. LeaseSound(executions[i], events[i]) /\ Replays(executions[i], events[i])
    BY <1>1, Zenon DEF IInv, Sound
  <2>3. CASE executions[i].status = "running"
    BY <2>1, <2>2, <2>3 DEF LeaseSound, Deliveries
  <2>4. CASE executions[i].status = "succeeded"
    <3>1. events[i][n].type = "succeeded" /\ executions[i].output = n - 1
          /\ executions[i].token = 0
      BY <2>1, <2>2, <2>4, Zenon DEF LeaseSound, Terminal
    <3>2. n # 1
      BY <2>2, <3>1 DEF Replays
    <3> HIDE DEF n
    <3>3. n - 1 \in 1..(n - 1) /\ n - 1 \in 1..n /\ (n - 1) + 1 = n
      BY <2>1, <3>2
    <3> USE DEF n
    <3>4. Follows(events[i][n - 1], events[i][n])
      BY <2>2, <3>3, Zenon DEF Replays
    <3>5. events[i][n - 1].type = "started"
      BY <3>1, <3>4, Zenon DEF Follows
    <3>6. n - 1 \in Deliveries(i) /\ \A d \in Deliveries(i) : d <= n - 1
      BY <2>1, <3>1, <3>3, <3>5 DEF Deliveries
    <3>7. QED
      BY <2>4, <3>1, <3>6, Zenon
  <2>5. CASE executions[i].status \notin {"running", "succeeded"}
    BY <2>2, <2>5, Zenon DEF LeaseSound
  <2>6. QED
    BY <2>3, <2>4, <2>5, Zenon
<1>2. QED
  BY <1>1, Invariance, PTL

(* Due or abandoned work is wanted by exactly one of Claim and ReapExpired *)
(* (memory.go:159, memory.go:197).                                         *)
THEOREM NothingStranded == Spec => []NeverStranded
<1>1. ASSUME IInv PROVE NeverStranded
  <2>1. ASSUME NEW i \in DOMAIN executions
        PROVE  /\ executions[i] \in Execution /\ LifeSound(executions[i])
               /\ executions[i].status \in {"running", "blocked"} => executions[i].availableAt <= now
    BY <1>1, SoundFields, LastEvent, Zenon
  <2>2. ASSUME NEW i \in DOMAIN executions,
               \/ executions[i].status \in {"pending", "retry"} /\ executions[i].availableAt <= now
               \/ executions[i].status = "running" /\ Expired(executions[i])
        PROVE  Claimable(executions[i], {<<executions[i].name, executions[i].version>>})
                 <=> ~Reapable(executions[i])
    BY <2>1, <2>2, SMTT(30) DEF Claimable, Reapable, LifeSound, Execution
  <2>3. QED
    BY <2>2, Zenon DEF NeverStranded
<1>2. QED
  BY <1>1, Invariance, PTL

-----------------------------------------------------------------------------
(* What one step may do to an execution that survives it: nothing, a       *)
(* renewal of its lease, a release, or a logged transition that starts     *)
(* from unfinished work or is a restart.                                   *)
Touched(i) ==
  \/ executions'[i] = executions[i] /\ events'[i] = events[i]
  \/ /\ events'[i] = events[i] /\ executions[i].status = "running"
     /\ executions'[i].status = "running" /\ executions'[i].token = executions[i].token
  \/ /\ events'[i] = events[i] /\ executions[i].status = "blocked"
     /\ executions'[i].status = "pending"
  \/ /\ Len(events'[i]) = Len(events[i]) + 1
     /\ \/ executions[i].status \notin Terminal
        \/ executions'[i].status \in {"pending", "blocked"} /\ executions'[i].attempt = 0

(* Every step but a purge keeps every execution, and a purge only deletes. *)
LEMMA StepTouches ==
  ASSUME IInv, [Next]_vars
  PROVE  \/ \A i \in DOMAIN executions : i \in DOMAIN executions' /\ Touched(i)
         \/ \E before, limit : Purge(before, limit)
(* A step that writes no finished execution, except to restart it, keeps outcomes. *)
<1>CommitTouches.
  ASSUME NEW S \in SUBSET DOMAIN executions, NEW new, DOMAIN new = S, NEW type,
         appendEvent(new, type),
         \A i \in S : \/ executions[i].status \notin Terminal
                      \/ new[i].status \in {"pending", "blocked"} /\ new[i].attempt = 0
  PROVE  \A i \in DOMAIN executions : i \in DOMAIN executions' /\ Touched(i)
  <2> USE <1>CommitTouches
  <2> SUFFICES ASSUME NEW i \in DOMAIN executions
               PROVE  i \in DOMAIN executions' /\ Touched(i)
    BY Zenon
  <2>1. i \in DOMAIN executions'
    BY Zenon DEF appendEvent, Put
  <2>2. CASE i \in S
    <3> DEFINE ev == [type |-> type, attempt |-> new[i].attempt]
    <3>1. executions'[i] = new[i] /\ events'[i] = Append(events[i], ev)
      BY <2>2, Zenon DEF appendEvent, Put
    <3>2. Len(Append(events[i], ev)) = Len(events[i]) + 1
      <4>1. events[i] \in Seq(Event)
        BY LastEvent, Zenon
      <4> HIDE DEF ev
      <4>2. QED
        BY <4>1
    <3>3. QED
      BY <2>1, <2>2, <3>1, <3>2, Zenon DEF Touched
  <2>3. CASE i \notin S
    BY <2>1, <2>3, Zenon DEF appendEvent, Put, Touched, IInv, TypeOK
  <2>4. QED
    BY <2>2, <2>3, Zenon
(* A commit of one unfinished execution. *)
<1>CommitOneTouches.
  ASSUME NEW i \in DOMAIN executions, NEW value, NEW type,
         appendEvent(At(i, value), type),
         \/ executions[i].status \notin Terminal
         \/ value.status \in {"pending", "blocked"} /\ value.attempt = 0
  PROVE  \A j \in DOMAIN executions : j \in DOMAIN executions' /\ Touched(j)
  <2> USE <1>CommitOneTouches
  <2> DEFINE new == At(i, value)
  <2>1. DOMAIN new = {i} /\ new[i] = value /\ {i} \in SUBSET DOMAIN executions
    BY Zenon DEF At
  <2>2. appendEvent(new, type)
    BY Zenon
  <2> HIDE DEF new
  <2>3. QED
    BY <2>1, <2>2, <1>CommitTouches, Zenon
<1>ResetFields.
  ASSUME NEW i \in DOMAIN executions, NEW status, NEW availableAt
  PROVE  LET new == Reset(executions[i], status, availableAt)
         IN  new.status = status /\ new.attempt = 0
  <2> USE <1>ResetFields
  <2>1. executions[i] \in Execution
    BY LastEvent, Zenon
  <2>2. QED
    BY <2>1, Zenon DEF Reset, Unleased, Execution
<1> DEFINE Goal == \A i \in DOMAIN executions : i \in DOMAIN executions' /\ Touched(i)
<1>1. CASE UNCHANGED <<executions, events>>
  BY <1>1, Zenon DEF Touched
<1>2. CASE \E request \in EnqueueRequest \cup NodeRequest : CreateExecution(request)
  <2>1. PICK value, log : /\ executions' = Put(executions, At(lastID + 1, value))
                          /\ events' = Put(events, At(lastID + 1, log))
    BY <1>2, Zenon DEF CreateExecution
  <2>2. lastID + 1 \notin DOMAIN executions /\ DOMAIN events = DOMAIN executions
    BY DEF IInv, TypeOK
  <2>3. QED
    BY <2>1, <2>2, Zenon DEF Put, At, Touched
<1>3. CASE \E keys, limit : Claim(keys, limit)
  <2>1. PICK keys, batch : /\ batch \in SUBSET {i \in DOMAIN executions : Claimable(executions[i], keys)}
                           /\ appendEvent([i \in batch |-> Deliver(i)], "started")
    BY <1>3, Zenon DEF Claim
  <2> DEFINE new == [i \in batch |-> Deliver(i)]
  <2>2. DOMAIN new = batch /\ batch \in SUBSET DOMAIN executions /\ appendEvent(new, "started")
    BY <2>1, Zenon
  <2>3. \A i \in batch : executions[i].status \notin Terminal
    BY <2>1, Zenon DEF Claimable, Terminal
  <2> HIDE DEF new
  <2>4. QED
    BY <2>2, <2>3, <1>CommitTouches, Zenon
<1>4. CASE ReapExpired
  <2> DEFINE dead == {i \in DOMAIN executions : Reapable(executions[i])}
             new == [i \in dead |-> Finished(executions[i], "failed")]
  <2>1. DOMAIN new = dead /\ dead \in SUBSET DOMAIN executions /\ appendEvent(new, "failed")
    BY <1>4, Zenon DEF ReapExpired
  <2>2. \A i \in dead : executions[i].status \notin Terminal
    BY Zenon DEF Reapable, Terminal
  <2> HIDE DEF new, dead
  <2>3. QED
    BY <2>1, <2>2, <1>CommitTouches, Zenon
<1>5. CASE WorkerCall
  <2>1. PICK i \in DOMAIN executions : \E token :
          \/ Heartbeat(i, token)
          \/ Succeed(i, token)
          \/ Fail(i, token)
          \/ \E delay : Retry(i, token, delay)
    BY <1>5, Zenon DEF WorkerCall
  <2>2. executions[i].status = "running" /\ executions[i].status \notin Terminal
    BY <2>1, Zenon DEF Heartbeat, Succeed, Fail, Retry, owned, Terminal
  <2>3. CASE \E token : Heartbeat(i, token)
    <3>1. executions' = [executions EXCEPT ![i].leaseUntil = now + Lease] /\ events' = events
      BY <2>3, Zenon DEF Heartbeat
    <3>2. PICK until : executions' = [executions EXCEPT ![i].leaseUntil = until]
      BY <3>1, Zenon
    <3>3. executions[i] \in Execution
      BY LastEvent, Zenon
    <3>4. executions'[i].status = "running" /\ executions'[i].token = executions[i].token
      BY <2>2, <3>2, <3>3, Zenon DEF Execution
    <3>5. \A j \in DOMAIN executions : j # i => executions'[j] = executions[j]
      BY <3>2, Zenon
    <3>6. DOMAIN executions' = DOMAIN executions
      BY <3>2, Zenon
    <3>7. QED
      BY <2>2, <3>1, <3>4, <3>5, <3>6, Zenon DEF Touched
  <2>4. CASE \E value, type : appendEvent(At(i, value), type)
    BY <2>2, <2>4, <1>CommitOneTouches, Zenon
  <2>5. QED
    BY <2>1, <2>3, <2>4, Zenon DEF Succeed, Fail, Retry
<1>6. CASE \E i \in DOMAIN executions : CancelExecution(i)
  BY <1>6, <1>CommitOneTouches, Zenon DEF CancelExecution
<1>7. CASE \E i \in DOMAIN executions : RestartExecution(i, 0)
  <2>1. PICK i \in DOMAIN executions :
          appendEvent(At(i, Reset(executions[i], "pending", OrNow(0))), "restarted")
    BY <1>7, Zenon DEF RestartExecution
  <2> DEFINE value == Reset(executions[i], "pending", OrNow(0))
  <2>2. value.status = "pending" /\ value.attempt = 0
    BY <1>ResetFields
  <2>3. appendEvent(At(i, value), "restarted")
    BY <2>1, Zenon
  <2> HIDE DEF value
  <2>4. QED
    BY <2>2, <2>3, <1>CommitOneTouches, Zenon
<1>8. CASE \E r, root : RestartPipelineSubgraph(r, root, 0)
  <2>1. PICK r, root : RestartPipelineSubgraph(r, root, 0)
    BY <1>8, Zenon
  <2> DEFINE status(i) == IF executions[i].node = root THEN "pending" ELSE "blocked"
             new == [i \in Affected(r, root) |-> Reset(executions[i], status(i), OrNow(0))]
  <2>2. /\ DOMAIN new = Affected(r, root) /\ Affected(r, root) \in SUBSET DOMAIN executions
        /\ appendEvent(new, "restarted")
    BY <2>1, Zenon DEF RestartPipelineSubgraph, Affected
  <2>3. ASSUME NEW i \in Affected(r, root)
        PROVE  new[i].status \in {"pending", "blocked"} /\ new[i].attempt = 0
    <3>1. i \in DOMAIN executions /\ new[i] = Reset(executions[i], status(i), OrNow(0))
          /\ status(i) \in {"pending", "blocked"}
      BY <2>2, Zenon
    <3> HIDE DEF new, status
    <3>2. QED
      BY <3>1, <1>ResetFields
  <2> HIDE DEF new
  <2>4. QED
    BY <2>2, <2>3, <1>CommitTouches, Zenon
<1>9. CASE \E i \in DOMAIN executions, input \in Inputs, availableAt \in 0..now :
             ReleaseExecution(i, input, availableAt)
  <2> PICK i \in DOMAIN executions, input \in Inputs, availableAt \in 0..now :
        ReleaseExecution(i, input, availableAt)
    BY <1>9, Zenon
  <2> DEFINE at == OrNow(availableAt)
  <2>1. /\ executions[i].status = "blocked" /\ events' = events
        /\ executions' = [executions EXCEPT ![i].status = "pending", ![i].input = input,
                                            ![i].availableAt = at]
    BY Zenon DEF ReleaseExecution
  <2> HIDE DEF at
  <2>2. executions[i] \in Execution
    BY LastEvent, Zenon
  <2>3. executions'[i].status = "pending"
    BY <2>1, <2>2, Zenon DEF Execution
  <2>4. \A j \in DOMAIN executions : j # i => executions'[j] = executions[j]
    BY <2>1, Zenon
  <2>5. DOMAIN executions' = DOMAIN executions
    BY <2>1, Zenon
  <2>6. QED
    BY <2>1, <2>3, <2>4, <2>5, Zenon DEF Touched
<1>10. QED
  BY <1>1, <1>2, <1>3, <1>4, <1>5, <1>6, <1>7, <1>8, <1>9, Zenon
  DEF Next, Tick, OperatorCall, PipelineCall, CreatePipelineRun, SetPipelineRunStatus, vars

(* A finished execution keeps its outcome until a purge or a restart: no   *)
(* late worker call, reap or cancellation rewrites it (owned,              *)
(* CancelExecution).                                                       *)
THEOREM FinishedStaysFinished == Spec => TerminalIsFinal
<1> DEFINE Kept == \A i \in DOMAIN executions \cap DOMAIN executions' :
                     executions[i].status \in Terminal =>
                       \/ executions'[i] = executions[i]
                       \/ /\ executions'[i].status \in {"pending", "blocked"}
                          /\ executions'[i].attempt = 0
<1>1. ASSUME IInv, [Next]_vars PROVE Kept
  <2>1. CASE \A i \in DOMAIN executions : i \in DOMAIN executions' /\ Touched(i)
    BY <2>1, Zenon DEF Touched, Terminal
  <2>2. CASE \E before, limit : Purge(before, limit)
    <3>1. PICK dead : executions' = Restrict(executions, DOMAIN executions \ dead)
      BY <2>2, Zenon DEF Purge, deleteExecution
    <3>2. \A i \in DOMAIN executions' : executions'[i] = executions[i]
      BY <3>1, Zenon DEF Restrict
    <3>3. QED
      BY <3>2, Zenon
  <2>3. QED
    BY <1>1, <2>1, <2>2, StepTouches, Zenon
<1>2. QED
  BY <1>1, Invariance, PTL DEF Spec, TerminalIsFinal

(* Fencing: a superseded delivery never owns its execution again, not even *)
(* after a restart (uuid.New in Claim, owned).                             *)
THEOREM LeaseFencing == Spec => LostLeaseStaysLost
<1> DEFINE Fenced == \A i \in DOMAIN executions \cap DOMAIN executions' :
                       \A token \in Deliveries(i) : ~owned(i, token) => ~owned(i, token)'
<1>1. ASSUME IInv, IInv', [Next]_vars PROVE Fenced
  <2>1. CASE \A i \in DOMAIN executions : i \in DOMAIN executions' /\ Touched(i)
    <3> SUFFICES ASSUME NEW i \in DOMAIN executions, NEW token \in Deliveries(i),
                        i \in DOMAIN executions', owned(i, token)'
                 PROVE  owned(i, token)
      BY Zenon
    <3>1. /\ executions'[i].status = "running" /\ token # 0 /\ executions'[i].token = token
          /\ executions'[i].token = Len(events'[i])
      BY <1>1, Zenon DEF owned, IInv, Sound, LeaseSound
    <3>2. token <= Len(events[i]) /\ Len(events[i]) \in Nat /\ token \in Nat
      BY <1>1, LastEvent DEF Deliveries
    <3>3. Len(events'[i]) # Len(events[i]) + 1
      BY <3>1, <3>2
    <3>4. QED
      BY <2>1, <3>1, <3>3, Zenon DEF Touched, owned
  <2>2. CASE \E before, limit : Purge(before, limit)
    <3>1. PICK dead : executions' = Restrict(executions, DOMAIN executions \ dead)
      BY <2>2, Zenon DEF Purge, deleteExecution
    <3>2. \A i \in DOMAIN executions' : executions'[i] = executions[i]
      BY <3>1, Zenon DEF Restrict
    <3>3. QED
      BY <3>2, Zenon DEF owned
  <2>3. QED
    BY <1>1, <2>1, <2>2, StepTouches, Zenon
<1>2. QED
  BY <1>1, Invariance, PTL DEF Spec, LostLeaseStaysLost

(* An execution that stands alone is deleted only after its end. *)
LEMMA DeletedIsFinished ==
  ASSUME IInv, [Next]_vars
  PROVE  \A i \in DOMAIN executions \ DOMAIN executions' :
           executions[i].run = 0 => executions[i].status \in Terminal
<1>1. CASE \A i \in DOMAIN executions : i \in DOMAIN executions' /\ Touched(i)
  BY <1>1, Zenon
<1>2. CASE \E before, limit : Purge(before, limit)
  <2>1. PICK before, limit : Purge(before, limit)
    BY <1>2, Zenon
  <2>2. PICK batch \in SUBSET PurgeCandidates(before) :
          LET deadRuns == {c.id : c \in {b \in batch : b.pipeline}}
              dead == {i \in DOMAIN executions :
                         IF executions[i].run # 0 THEN executions[i].run \in deadRuns
                         ELSE \E c \in batch : ~c.pipeline /\ c.id = i}
          IN  executions' = Restrict(executions, DOMAIN executions \ dead)
    BY <2>1, Zenon DEF Purge, deleteExecution
  <2>3. ASSUME NEW i \in DOMAIN executions \ DOMAIN executions', executions[i].run = 0
        PROVE  \E c \in batch : ~c.pipeline /\ c.id = i
    BY <2>2, <2>3, Zenon DEF Restrict
  <2>4. ASSUME NEW i \in DOMAIN executions \ DOMAIN executions', executions[i].run = 0
        PROVE  executions[i].finishedAt # 0
    BY <2>3, <2>4 DEF PurgeCandidates
  <2>5. QED
    BY <2>4, SoundFields, Zenon DEF LifeSound
<1>3. QED
  BY <1>1, <1>2, StepTouches, Zenon

(* A standalone execution that is deleted was finished at that moment      *)
(* (memory.go:567).                                                        *)
THEOREM PurgeDeletesFinishedOnly == Spec => PurgeTakesOnlyTerminal
BY DeletedIsFinished, Invariance, PTL DEF Spec, PurgeTakesOnlyTerminal

-----------------------------------------------------------------------------
(***************************************************************************)
(* What a step of MemoryStore does, proved once per operation for the      *)
(* proofs that build on it: what happens to an execution that survives the *)
(* step (Moved), to the uniqueness indexes, which agree with executions    *)
(* and runs, to the clock and to the runs.                                 *)
(***************************************************************************)

(* The fields an execution keeps for life. *)
SameWork(a, b) ==
  /\ b.name = a.name /\ b.version = a.version /\ b.key = a.key
  /\ b.run = a.run /\ b.node = a.node /\ b.max = a.max /\ b.createdAt = a.createdAt

Logs(log, longer, type, attempt) == longer = Append(log, [type |-> type, attempt |-> attempt])

(* The six things that happen to an execution a with its log. *)
Starts(a, b, log, longer) ==
  /\ \/ a.status \in {"pending", "retry"}
     \/ a.status = "running" /\ Expired(a)
  /\ a.attempt < a.max
  /\ b.status = "running" /\ b.attempt = a.attempt + 1 /\ b.token = Len(log) + 1
  /\ b.leaseUntil = now + Lease /\ b.output = a.output /\ b.input = a.input
  /\ Logs(log, longer, "started", b.attempt)

Renews(a, b, log, longer) ==
  /\ a.status = "running" /\ b.status = "running"
  /\ b.attempt = a.attempt /\ b.token = a.token /\ b.output = a.output /\ b.input = a.input
  /\ b.leaseUntil = now + Lease
  /\ longer = log

Ends(a, b, log, longer) ==
  /\ a.status = "running"
  /\ \/ b.status \in {"succeeded", "failed"} /\ Logs(log, longer, b.status, b.attempt)
     \/ b.status = "retry" /\ a.attempt < a.max /\ Logs(log, longer, "retried", b.attempt)
  /\ b.attempt = a.attempt /\ b.token = 0 /\ b.leaseUntil = 0 /\ b.input = a.input
  /\ b.output = IF b.status = "succeeded" THEN a.token ELSE a.output

Cancels(a, b, log, longer) ==
  /\ a.status \notin Terminal /\ b.status = "cancelled"
  /\ b.attempt = a.attempt /\ b.token = 0 /\ b.leaseUntil = 0
  /\ b.output = a.output /\ b.input = a.input
  /\ Logs(log, longer, "cancelled", b.attempt)

Restarts(a, b, log, longer) ==
  /\ SameWork(a, b)
  /\ a.status \notin Active /\ b.status \in {"pending", "blocked"}
  /\ b.attempt = 0 /\ b.token = 0 /\ b.leaseUntil = 0 /\ b.output = 0 /\ b.input = a.input
  /\ Logs(log, longer, "restarted", b.attempt)

Releases(a, b, log, longer) ==
  /\ a.status = "blocked" /\ b.status = "pending"
  /\ b.attempt = a.attempt /\ b.token = a.token /\ b.leaseUntil = a.leaseUntil
  /\ b.output = a.output
  /\ longer = log

Moves(a, b, log, longer) ==
  \/ b = a /\ longer = log
  \/ /\ SameWork(a, b)
     /\ \/ Starts(a, b, log, longer) \/ Renews(a, b, log, longer) \/ Ends(a, b, log, longer)
        \/ Cancels(a, b, log, longer) \/ Releases(a, b, log, longer)

Moved(i) == Moves(executions[i], executions'[i], events[i], events'[i])
Reborn(i) == Restarts(executions[i], executions'[i], events[i], events'[i])

(* A step that creates and deletes no execution, and restarts none outside S. *)
Transition(S) ==
  /\ DOMAIN executions' = DOMAIN executions
  /\ \A i \in DOMAIN executions : Moved(i) \/ (i \in S /\ Reborn(i))
  /\ UNCHANGED <<idempotent, nodes, lastID>>

-----------------------------------------------------------------------------
(* What a commit of some executions leaves in the two maps. *)
LEMMA CommitValues ==
  ASSUME IInv, NEW S \in SUBSET DOMAIN executions, NEW new, DOMAIN new = S, NEW type,
         appendEvent(new, type)
  PROVE  /\ DOMAIN executions' = DOMAIN executions
         /\ \A i \in S : /\ executions'[i] = new[i]
                         /\ Logs(events[i], events'[i], type, new[i].attempt)
         /\ \A i \in DOMAIN executions \ S : executions'[i] = executions[i] /\ events'[i] = events[i]
BY Zenon DEF appendEvent, Put, Logs, IInv, TypeOK

-----------------------------------------------------------------------------
(* Each operation on its own: no execution is created or deleted, and none *)
(* is restarted that it does not name.                                     *)
LEMMA OperationTransitions ==
  ASSUME IInv
  PROVE  /\ ReapExpired => Transition({})
         /\ \A keys, limit : Claim(keys, limit) => Transition({})
         /\ \A i, token : Heartbeat(i, token) \/ Succeed(i, token) \/ Fail(i, token) => Transition({})
         /\ \A i, token, delay : Retry(i, token, delay) => Transition({})
         /\ \A i : CancelExecution(i) => Transition({})
         /\ \A i : RestartExecution(i, 0) => Transition({i})
         /\ \A i, input, availableAt : ReleaseExecution(i, input, availableAt) => Transition({})
         /\ \A r, root : RestartPipelineSubgraph(r, root, 0) => Transition(Affected(r, root))
(* A commit of some executions each of which moves is a transition. *)
<1>CommitTransition.
  ASSUME NEW S \in SUBSET DOMAIN executions, NEW new, DOMAIN new = S, NEW type,
         appendEvent(new, type), UNCHANGED Indexes, NEW R,
         \A i \in S : \A longer : Logs(events[i], longer, type, new[i].attempt) =>
                        \/ Moves(executions[i], new[i], events[i], longer)
                        \/ i \in R /\ Restarts(executions[i], new[i], events[i], longer)
  PROVE  Transition(R)
  <2> USE <1>CommitTransition
  <2>1. /\ DOMAIN executions' = DOMAIN executions
        /\ \A i \in S : /\ executions'[i] = new[i]
                        /\ Logs(events[i], events'[i], type, new[i].attempt)
        /\ \A i \in DOMAIN executions \ S : executions'[i] = executions[i] /\ events'[i] = events[i]
    BY CommitValues, Zenon
  <2>2. \A i \in S : Moved(i) \/ (i \in R /\ Reborn(i))
    BY <2>1, Zenon DEF Moved, Reborn
  <2>3. \A i \in DOMAIN executions \ S : Moved(i)
    BY <2>1, Zenon DEF Moved, Moves
  <2>4. QED
    BY <2>1, <2>2, <2>3, Zenon DEF Transition, Indexes
(* An operation that writes one execution moves that one and no other. *)
<1>CommitOneTransition.
  ASSUME NEW i \in DOMAIN executions, NEW value, NEW type,
         appendEvent(At(i, value), type), UNCHANGED Indexes, NEW R,
         \A longer : Logs(events[i], longer, type, value.attempt) =>
                       \/ Moves(executions[i], value, events[i], longer)
                       \/ i \in R /\ Restarts(executions[i], value, events[i], longer)
  PROVE  Transition(R)
  <2> USE <1>CommitOneTransition
  <2> DEFINE new == At(i, value)
  <2>1. DOMAIN new = {i} /\ new[i] = value /\ {i} \in SUBSET DOMAIN executions
    BY Zenon DEF At
  <2>2. appendEvent(new, type)
    BY Zenon
  <2> HIDE DEF new
  <2>3. QED
    BY <2>1, <2>2, <1>CommitTransition, Zenon
(* One lemma per operation on the record of an execution. *)
<1>LeasedMoves.
  ASSUME NEW item \in Execution, NEW attempt \in Nat, NEW token \in Nat, NEW until \in Nat
  PROVE  LET leased == Leased(item, attempt, token, until) IN
         /\ SameWork(item, leased)
         /\ leased.status = "running" /\ leased.attempt = attempt /\ leased.token = token
         /\ leased.leaseUntil = until /\ leased.output = item.output /\ leased.input = item.input
  BY <1>LeasedMoves, Zenon DEF Leased, Execution, SameWork
<1>DeliverMoves.
  ASSUME NEW i \in DOMAIN executions, NEW keys, Claimable(executions[i], keys), NEW longer,
         Logs(events[i], longer, "started", Deliver(i).attempt)
  PROVE  Moves(executions[i], Deliver(i), events[i], longer)
  <2> USE <1>DeliverMoves
  <2> DEFINE attempt == executions[i].attempt + 1
             token == Len(events[i]) + 1
             until == now + Lease
             leased == Leased(executions[i], attempt, token, until)
  <2>1. executions[i] \in Execution /\ attempt \in Nat /\ token \in Nat /\ until \in Nat
    <3>1. executions[i] \in Execution /\ executions[i].attempt \in Nat /\ Len(events[i]) \in Nat
      BY LastEvent, Zenon DEF Execution
    <3>2. Lease \in Nat /\ now \in Nat
      BY ConstantsAssumption, Zenon DEF IInv, TypeOK
    <3>3. QED
      BY <3>1, <3>2
  <2>2. Deliver(i) = leased
    BY Zenon DEF Deliver
  <2>3. attempt = executions[i].attempt + 1 /\ token = Len(events[i]) + 1 /\ until = now + Lease
    BY Zenon
  <2> HIDE DEF attempt, token, until
  <2>4. /\ SameWork(executions[i], leased)
        /\ leased.status = "running" /\ leased.attempt = attempt /\ leased.token = token
        /\ leased.leaseUntil = until
        /\ leased.output = executions[i].output /\ leased.input = executions[i].input
    BY <2>1, <1>LeasedMoves
  <2> HIDE DEF leased
  <2>5. Starts(executions[i], leased, events[i], longer)
    BY <2>2, <2>3, <2>4, Zenon DEF Starts, Claimable
  <2>6. QED
    BY <2>2, <2>4, <2>5, Zenon DEF Moves
(* What Finished makes of an execution. *)
<1>FinishedMoves.
  ASSUME NEW i \in DOMAIN executions, NEW status
  PROVE  LET new == Finished(executions[i], status) IN
         /\ SameWork(executions[i], new)
         /\ new.status = status /\ new.attempt = executions[i].attempt
         /\ new.token = 0 /\ new.leaseUntil = 0
         /\ new.output = executions[i].output /\ new.input = executions[i].input
  <2> USE <1>FinishedMoves
  <2>1. executions[i] \in Execution
    BY LastEvent, Zenon
  <2>2. QED
    BY <2>1, Zenon DEF Finished, Unleased, Execution, SameWork
<1>FailMoves.
  ASSUME NEW i \in DOMAIN executions, executions[i].status = "running", NEW longer,
         Logs(events[i], longer, "failed", Finished(executions[i], "failed").attempt)
  PROVE  Moves(executions[i], Finished(executions[i], "failed"), events[i], longer)
  <2> USE <1>FailMoves
  <2> DEFINE new == Finished(executions[i], "failed")
  <2>1. /\ SameWork(executions[i], new)
        /\ new.status = "failed" /\ new.attempt = executions[i].attempt
        /\ new.token = 0 /\ new.leaseUntil = 0
        /\ new.output = executions[i].output /\ new.input = executions[i].input
    BY <1>FinishedMoves, Zenon
  <2>2. Logs(events[i], longer, "failed", new.attempt)
    BY Zenon
  <2> HIDE DEF new
  <2>3. Moves(executions[i], new, events[i], longer)
    BY <2>1, <2>2, Zenon DEF Moves, Ends
  <2>4. QED
    BY <2>3, Zenon DEF new
<1>ResetRestarts.
  ASSUME NEW i \in DOMAIN executions, executions[i].status \notin Active,
         NEW status \in {"pending", "blocked"}, NEW availableAt, NEW longer,
         Logs(events[i], longer, "restarted", Reset(executions[i], status, availableAt).attempt)
  PROVE  Restarts(executions[i], Reset(executions[i], status, availableAt), events[i], longer)
  <2> USE <1>ResetRestarts
  <2> DEFINE new == Reset(executions[i], status, availableAt)
  <2>1. executions[i] \in Execution
    BY LastEvent, Zenon
  <2>2. /\ SameWork(executions[i], new)
        /\ new.status = status /\ new.attempt = 0 /\ new.token = 0 /\ new.leaseUntil = 0
        /\ new.output = 0 /\ new.input = executions[i].input
    BY <2>1, Zenon DEF Reset, Unleased, Execution, SameWork
  <2>3. Logs(events[i], longer, "restarted", new.attempt)
    BY Zenon
  <2> HIDE DEF new
  <2>4. Restarts(executions[i], new, events[i], longer)
    BY <2>2, <2>3, Zenon DEF Restarts
  <2>5. QED
    BY <2>4, Zenon DEF new
<1>SucceedTransition.
  ASSUME NEW i, NEW token, Succeed(i, token)
  PROVE  Transition({})
  <2> USE <1>SucceedTransition
  <2> DEFINE new == [Finished(executions[i], "succeeded") EXCEPT !.output = token]
  <2>1. /\ i \in DOMAIN executions /\ executions[i].status = "running" /\ executions[i].token = token
        /\ appendEvent(At(i, new), "succeeded") /\ UNCHANGED Indexes
    BY Zenon DEF Succeed, owned
  <2>2. executions[i] \in Execution
    BY <2>1, LastEvent, Zenon
  <2>3. /\ SameWork(executions[i], new)
        /\ new.status = "succeeded" /\ new.attempt = executions[i].attempt
        /\ new.token = 0 /\ new.leaseUntil = 0
        /\ new.output = token /\ new.input = executions[i].input
    BY <2>2, Zenon DEF Finished, Unleased, Execution, SameWork
  <2> HIDE DEF new
  <2>4. ASSUME NEW longer, Logs(events[i], longer, "succeeded", new.attempt)
        PROVE  Moves(executions[i], new, events[i], longer)
    BY <2>1, <2>3, <2>4, Zenon DEF Moves, Ends
  <2>5. QED
    BY <2>1, <2>4, <1>CommitOneTransition, Zenon
<1>RetryTransition.
  ASSUME NEW i, NEW token, NEW delay, Retry(i, token, delay)
  PROVE  Transition({})
  <2> USE <1>RetryTransition
  <2>1. i \in DOMAIN executions /\ executions[i].status = "running" /\ UNCHANGED Indexes
    BY Zenon DEF Retry, owned
  <2>2. executions[i] \in Execution
    BY <2>1, LastEvent, Zenon
  <2>3. CASE executions[i].attempt >= executions[i].max
    <3>1. appendEvent(At(i, Finished(executions[i], "failed")), "failed")
      BY <2>3, Zenon DEF Retry
    <3>2. QED
      BY <2>1, <3>1, <1>FailMoves, <1>CommitOneTransition, Zenon
  <2>4. CASE ~(executions[i].attempt >= executions[i].max)
    <3> DEFINE at == now + delay
               new == [Unleased(executions[i]) EXCEPT !.status = "retry", !.availableAt = at]
    <3>1. appendEvent(At(i, new), "retried")
      BY <2>4, Zenon DEF Retry
    <3> HIDE DEF at
    <3>2. /\ SameWork(executions[i], new)
          /\ new.status = "retry" /\ new.attempt = executions[i].attempt
          /\ new.token = 0 /\ new.leaseUntil = 0
          /\ new.output = executions[i].output /\ new.input = executions[i].input
      BY <2>2, Zenon DEF Unleased, Execution, SameWork
    <3> HIDE DEF new
    <3>3. executions[i].attempt < executions[i].max
      BY <2>2, <2>4 DEF Execution
    <3>4. ASSUME NEW longer, Logs(events[i], longer, "retried", new.attempt)
          PROVE  Moves(executions[i], new, events[i], longer)
      BY <2>1, <3>2, <3>3, <3>4, Zenon DEF Moves, Ends
    <3>5. QED
      BY <2>1, <3>1, <3>4, <1>CommitOneTransition, Zenon
  <2>5. QED
    BY <2>3, <2>4, Zenon
<1>CancelTransition.
  ASSUME NEW i, CancelExecution(i)
  PROVE  Transition({})
  <2> USE <1>CancelTransition
  <2> DEFINE new == Finished(executions[i], "cancelled")
  <2>1. /\ i \in DOMAIN executions /\ executions[i].status \notin Terminal
        /\ appendEvent(At(i, new), "cancelled") /\ UNCHANGED Indexes
    BY Zenon DEF CancelExecution
  <2>2. /\ SameWork(executions[i], new)
        /\ new.status = "cancelled" /\ new.attempt = executions[i].attempt
        /\ new.token = 0 /\ new.leaseUntil = 0
        /\ new.output = executions[i].output /\ new.input = executions[i].input
    BY <2>1, <1>FinishedMoves, Zenon
  <2> HIDE DEF new
  <2>3. ASSUME NEW longer, Logs(events[i], longer, "cancelled", new.attempt)
        PROVE  Moves(executions[i], new, events[i], longer)
    BY <2>1, <2>2, <2>3, Zenon DEF Moves, Cancels
  <2>4. QED
    BY <2>1, <2>3, <1>CommitOneTransition, Zenon
(* A call that writes one execution and appends no event. *)
<1>WriteTransition.
  ASSUME NEW i \in DOMAIN executions, NEW new, executions' = [executions EXCEPT ![i] = new],
         UNCHANGED <<events, Indexes>>, Moves(executions[i], new, events[i], events[i])
  PROVE  Transition({})
  BY <1>WriteTransition, Zenon DEF Transition, Moved, Moves, Indexes
<1>HeartbeatTransition.
  ASSUME NEW i, NEW token, Heartbeat(i, token)
  PROVE  Transition({})
  <2> USE <1>HeartbeatTransition
  <2> DEFINE until == now + Lease
             new == [executions[i] EXCEPT !.leaseUntil = until]
  <2>1. /\ i \in DOMAIN executions /\ executions[i].status = "running"
        /\ executions' = [executions EXCEPT ![i] = new] /\ UNCHANGED <<events, Indexes>>
    BY Zenon DEF Heartbeat, owned
  <2>2. executions[i] \in Execution /\ until = now + Lease
    BY <2>1, LastEvent, Zenon
  <2> HIDE DEF until
  <2>3. /\ SameWork(executions[i], new) /\ new.status = executions[i].status
        /\ new.attempt = executions[i].attempt /\ new.token = executions[i].token
        /\ new.leaseUntil = until
        /\ new.output = executions[i].output /\ new.input = executions[i].input
    BY <2>2, Zenon DEF Execution, SameWork
  <2> HIDE DEF new
  <2>4. Moves(executions[i], new, events[i], events[i])
    BY <2>1, <2>2, <2>3, Zenon DEF Moves, Renews
  <2>5. QED
    BY <2>1, <2>4, <1>WriteTransition, Zenon
<1>ReleaseTransition.
  ASSUME NEW i, NEW input, NEW availableAt, ReleaseExecution(i, input, availableAt)
  PROVE  Transition({})
  <2> USE <1>ReleaseTransition
  <2> DEFINE at == OrNow(availableAt)
             new == [executions[i] EXCEPT !.status = "pending", !.input = input, !.availableAt = at]
  <2>1. /\ i \in DOMAIN executions /\ executions[i].status = "blocked"
        /\ executions' = [executions EXCEPT ![i] = new] /\ UNCHANGED <<events, Indexes>>
    BY Zenon DEF ReleaseExecution
  <2>2. executions[i] \in Execution
    BY <2>1, LastEvent, Zenon
  <2> HIDE DEF at
  <2>3. /\ SameWork(executions[i], new) /\ new.status = "pending"
        /\ new.attempt = executions[i].attempt /\ new.token = executions[i].token
        /\ new.leaseUntil = executions[i].leaseUntil /\ new.output = executions[i].output
    BY <2>2, Zenon DEF Execution, SameWork
  <2> HIDE DEF new
  <2>4. Moves(executions[i], new, events[i], events[i])
    BY <2>1, <2>3, Zenon DEF Moves, Releases
  <2>5. QED
    BY <2>1, <2>4, <1>WriteTransition, Zenon
<1>ClaimTransition.
  ASSUME NEW keys, NEW limit, Claim(keys, limit)
  PROVE  Transition({})
  <2> USE <1>ClaimTransition
  <2>1. PICK batch \in SUBSET {i \in DOMAIN executions : Claimable(executions[i], keys)} :
          appendEvent([i \in batch |-> Deliver(i)], "started") /\ UNCHANGED Indexes
    BY Zenon DEF Claim
  <2> DEFINE new == [i \in batch |-> Deliver(i)]
  <2>2. /\ DOMAIN new = batch /\ batch \in SUBSET DOMAIN executions
        /\ \A i \in batch : new[i] = Deliver(i) /\ Claimable(executions[i], keys)
    BY Zenon
  <2> HIDE DEF new
  <2>3. appendEvent(new, "started")
    BY <2>1, Zenon DEF new
  <2>4. ASSUME NEW i \in batch, NEW longer, Logs(events[i], longer, "started", new[i].attempt)
        PROVE  Moves(executions[i], new[i], events[i], longer)
    BY <2>2, <2>4, <1>DeliverMoves, Zenon
  <2>5. QED
    BY <2>1, <2>2, <2>3, <2>4, <1>CommitTransition, Zenon
<1>ReapTransition.
  ASSUME ReapExpired
  PROVE  Transition({})
  <2> USE <1>ReapTransition
  <2> DEFINE dead == {i \in DOMAIN executions : Reapable(executions[i])}
             new == [i \in dead |-> Finished(executions[i], "failed")]
  <2>1. appendEvent(new, "failed") /\ UNCHANGED Indexes
    BY Zenon DEF ReapExpired
  <2>2. /\ DOMAIN new = dead /\ dead \in SUBSET DOMAIN executions
        /\ \A i \in dead : new[i] = Finished(executions[i], "failed") /\ executions[i].status = "running"
    BY Zenon DEF Reapable
  <2> HIDE DEF new, dead
  <2>3. ASSUME NEW i \in dead, NEW longer, Logs(events[i], longer, "failed", new[i].attempt)
        PROVE  Moves(executions[i], new[i], events[i], longer)
    BY <2>2, <2>3, <1>FailMoves, Zenon
  <2>4. QED
    BY <2>1, <2>2, <2>3, <1>CommitTransition, Zenon
<1>SubgraphTransition.
  ASSUME NEW r, NEW root, RestartPipelineSubgraph(r, root, 0)
  PROVE  Transition(Affected(r, root))
  <2> USE <1>SubgraphTransition
  <2> DEFINE status(i) == IF executions[i].node = root THEN "pending" ELSE "blocked"
             new == [i \in Affected(r, root) |-> Reset(executions[i], status(i), OrNow(0))]
  <2>1. appendEvent(new, "restarted") /\ UNCHANGED Indexes
    BY Zenon DEF RestartPipelineSubgraph
  <2>2. /\ DOMAIN new = Affected(r, root) /\ Affected(r, root) \in SUBSET DOMAIN executions
        /\ \A i \in Affected(r, root) : /\ new[i] = Reset(executions[i], status(i), OrNow(0))
                                        /\ status(i) \in {"pending", "blocked"}
                                        /\ executions[i].status \notin Active
    BY Zenon DEF RestartPipelineSubgraph, Affected
  <2> HIDE DEF new, status
  <2>3. ASSUME NEW i \in Affected(r, root), NEW longer,
               Logs(events[i], longer, "restarted", new[i].attempt)
        PROVE  Restarts(executions[i], new[i], events[i], longer)
    BY <2>2, <2>3, <1>ResetRestarts, Zenon
  <2>4. QED
    BY <2>1, <2>2, <2>3, <1>CommitTransition, Zenon
<1>RestartTransition.
  ASSUME NEW i, RestartExecution(i, 0)
  PROVE  Transition({i})
  <2> USE <1>RestartTransition
  <2>1. /\ i \in DOMAIN executions /\ executions[i].status \notin Active /\ UNCHANGED Indexes
        /\ appendEvent(At(i, Reset(executions[i], "pending", OrNow(0))), "restarted")
    BY Zenon DEF RestartExecution
  <2>2. QED
    BY <2>1, <1>ResetRestarts, <1>CommitOneTransition, Zenon
<1>FailTransition.
  ASSUME NEW i, NEW token, Fail(i, token)
  PROVE  Transition({})
  <2> USE <1>FailTransition
  <2>1. /\ i \in DOMAIN executions /\ executions[i].status = "running" /\ UNCHANGED Indexes
        /\ appendEvent(At(i, Finished(executions[i], "failed")), "failed")
    BY Zenon DEF Fail, owned
  <2>2. QED
    BY <2>1, <1>FailMoves, <1>CommitOneTransition, Zenon
<1> QED
  BY <1>HeartbeatTransition, <1>SucceedTransition, <1>FailTransition, <1>RetryTransition, <1>CancelTransition,
     <1>RestartTransition, <1>ReleaseTransition, <1>SubgraphTransition, <1>ClaimTransition, <1>ReapTransition, Zenon

(* Every step of the store moves each execution at most once, creates one, *)
(* or purges.                                                              *)
LEMMA StepTransition ==
  ASSUME IInv, [Next]_vars
  PROVE  \/ Transition({})
         \/ \E i : RestartExecution(i, 0) /\ Transition({i})
         \/ \E r \in DOMAIN runs, root \in NodeKey : /\ RestartPipelineSubgraph(r, root, 0)
                                                  /\ Transition(Affected(r, root))
         \/ \E request \in EnqueueRequest \cup NodeRequest : CreateExecution(request)
         \/ \E before, limit : Purge(before, limit)
<1>1. CASE UNCHANGED <<executions, events, idempotent, nodes, lastID>>
  BY <1>1, Zenon DEF Transition, Moved, Moves
<1>2. CASE \E keys, limit : Claim(keys, limit)
  BY <1>2, OperationTransitions, Zenon
<1>3. CASE ReapExpired
  BY <1>3, OperationTransitions, Zenon
<1>4. CASE WorkerCall
  <2>1. PICK i, token : \/ Heartbeat(i, token) \/ Succeed(i, token) \/ Fail(i, token)
                        \/ \E delay : Retry(i, token, delay)
    BY <1>4, Zenon DEF WorkerCall
  <2>2. QED
    BY <2>1, OperationTransitions, Zenon
<1>5. CASE OperatorCall
  BY <1>5, OperationTransitions, Zenon DEF OperatorCall
<1>6. CASE PipelineCall
  <2>1. CASE \E r \in DOMAIN runs, root \in NodeKey : RestartPipelineSubgraph(r, root, 0)
    BY <2>1, OperationTransitions, Zenon
  <2>2. CASE \E i, input, availableAt : ReleaseExecution(i, input, availableAt)
    BY <2>2, OperationTransitions, Zenon
  <2>3. CASE UNCHANGED <<executions, events, idempotent, nodes, lastID>>
    BY <1>1, <2>3, Zenon
  <2>4. QED
    BY <1>6, <2>1, <2>2, <2>3 DEF PipelineCall, CreatePipelineRun, SetPipelineRunStatus, Indexes
<1>7. QED
  BY <1>1, <1>2, <1>3, <1>4, <1>5, <1>6, Zenon DEF Next, Tick, vars

-----------------------------------------------------------------------------
(* What creation and purge leave in the maps. *)
LEMMA CreateValues ==
  ASSUME IInv, NEW request, CreateExecution(request)
  PROVE  LET id == lastID + 1
             log == <<[type |-> "created", attempt |-> 0]>>
         IN
         /\ id \notin DOMAIN executions /\ DOMAIN executions' = DOMAIN executions \cup {id}
         /\ executions'[id] = NewExecution(request) /\ events'[id] = log
         /\ \A i \in DOMAIN executions : executions'[i] = executions[i] /\ events'[i] = events[i]
         /\ lastID' = id /\ UNCHANGED <<runs, runIdempotent, lastRun, now>>
<1>1. lastID + 1 \notin DOMAIN executions /\ DOMAIN events = DOMAIN executions
  BY DEF IInv, TypeOK
<1>2. QED
  BY <1>1, Zenon DEF CreateExecution, Put, At

LEMMA PurgeValues ==
  ASSUME IInv, NEW before, NEW limit, Purge(before, limit)
  PROVE  /\ DOMAIN executions' \subseteq DOMAIN executions /\ DOMAIN runs' \subseteq DOMAIN runs
         /\ \A i \in DOMAIN executions' : executions'[i] = executions[i] /\ events'[i] = events[i]
         /\ \A r \in DOMAIN runs' : runs'[r] = runs[r]
         /\ UNCHANGED <<lastID, lastRun, now>>
<1>1. PICK dead, deadRuns :
        /\ executions' = Restrict(executions, DOMAIN executions \ dead)
        /\ events' = Restrict(events, DOMAIN events \ dead)
        /\ runs' = Restrict(runs, DOMAIN runs \ deadRuns)
        /\ UNCHANGED <<lastID, lastRun, now>>
  BY Zenon DEF Purge, deleteExecution
<1>2. DOMAIN events = DOMAIN executions
  BY Zenon DEF IInv, TypeOK
<1>3. QED
  BY <1>1, <1>2, Zenon DEF Restrict

-----------------------------------------------------------------------------
(* The two halves of IndexesAgree. *)
ExecutionIndexes ==
  /\ \A i \in DOMAIN executions :
       LET item == executions[i] IN
       /\ item.key # None => /\ <<item.name, item.key>> \in DOMAIN idempotent
                             /\ idempotent[<<item.name, item.key>>] = i
       /\ item.run # 0 => /\ <<item.run, item.node>> \in DOMAIN nodes
                          /\ nodes[<<item.run, item.node>>] = i
  /\ \A k \in DOMAIN idempotent :
       /\ idempotent[k] \in DOMAIN executions
       /\ k = <<executions[idempotent[k]].name, executions[idempotent[k]].key>>
       /\ executions[idempotent[k]].key # None
  /\ \A k \in DOMAIN nodes :
       /\ nodes[k] \in DOMAIN executions
       /\ k = <<executions[nodes[k]].run, executions[nodes[k]].node>>
       /\ executions[nodes[k]].run # 0

RunIndexes ==
  /\ \A r \in DOMAIN runs :
       runs[r].key # None => runs[r].key \in DOMAIN runIdempotent /\ runIdempotent[runs[r].key] = r
  /\ \A k \in DOMAIN runIdempotent :
       runIdempotent[k] \in DOMAIN runs /\ runs[runIdempotent[k]].key = k /\ k # None

(* A step that creates no run and deletes none keeps the keys of the runs. *)
LEMMA RunKeysKept ==
  ASSUME IInv, [Next]_vars
  PROVE  \/ /\ DOMAIN runs' = DOMAIN runs /\ \A r \in DOMAIN runs : runs'[r].key = runs[r].key
            /\ runIdempotent' = runIdempotent
         \/ \E key \in IdempotencyKey \cup {None} : CreatePipelineRun(key)
         \/ \E before, limit : Purge(before, limit)
<1>1. CASE UNCHANGED <<runs, runIdempotent>>
  BY <1>1, Zenon
<1>2. ASSUME NEW r \in DOMAIN runs, NEW status, NEW revision, NEW finished, UNCHANGED runIdempotent,
             runs' = [runs EXCEPT ![r].status = status, ![r].revision = revision, ![r].finishedAt = finished]
      PROVE  /\ DOMAIN runs' = DOMAIN runs /\ \A s \in DOMAIN runs : runs'[s].key = runs[s].key
             /\ runIdempotent' = runIdempotent
  <2>1. runs[r] \in PipelineRun
    BY Zenon DEF IInv, TypeOK
  <2>2. QED
    BY <1>2, <2>1, Zenon DEF PipelineRun
<1>3. CASE \E r \in DOMAIN runs : \E revision, status : SetPipelineRunStatus(r, revision, status)
  <2>1. PICK r, revision, status : SetPipelineRunStatus(r, revision, status)
    BY <1>3, Zenon
  <2> DEFINE next == runs[r].revision + 1
             finished == IF status \in Terminal THEN now ELSE runs[r].finishedAt
  <2>2. /\ r \in DOMAIN runs /\ UNCHANGED runIdempotent
        /\ runs' = [runs EXCEPT ![r].status = status, ![r].revision = next, ![r].finishedAt = finished]
    BY <2>1, Zenon DEF SetPipelineRunStatus, Indexes
  <2> HIDE DEF next, finished
  <2>3. QED
    BY <1>2, <2>2, Zenon
<1>4. CASE \E r \in DOMAIN runs : \E root : RestartPipelineSubgraph(r, root, 0)
  <2>1. PICK r, revision :
          /\ r \in DOMAIN runs /\ UNCHANGED runIdempotent
          /\ runs' = [runs EXCEPT ![r].status = "running", ![r].revision = revision, ![r].finishedAt = 0]
    BY <1>4, Zenon DEF RestartPipelineSubgraph, Indexes
  <2>2. QED
    BY <1>2, <2>1, Zenon
<1>5. CASE WorkerCall
  BY <1>1, <1>5, Zenon DEF WorkerCall, Heartbeat, Succeed, Fail, Retry, Indexes
<1>6. CASE OperatorCall
  BY <1>1, <1>6, Zenon DEF OperatorCall, CancelExecution, RestartExecution, Indexes
<1>7. CASE PipelineCall
  <2>1. CASE \E i, input, availableAt : ReleaseExecution(i, input, availableAt)
    BY <1>1, <2>1, Zenon DEF ReleaseExecution, Indexes
  <2>2. QED
    BY <1>3, <1>4, <1>7, <2>1, Zenon DEF PipelineCall
<1>8. QED
  BY <1>1, <1>5, <1>6, <1>7, Zenon DEF Next, Tick, CreateExecution, Claim, ReapExpired, Indexes, vars

(* Every step keeps the indexes exact. *)
LEMMA IndexStep == IInv /\ IndexesAgree /\ [Next]_vars => IndexesAgree'
<1> SUFFICES ASSUME IInv, IndexesAgree, [Next]_vars PROVE IndexesAgree'
  BY Zenon
<1>CreateKeepsIndexes.
  ASSUME ExecutionIndexes, NEW request \in EnqueueRequest \cup NodeRequest,
         CreateExecution(request)
  PROVE  ExecutionIndexes'
  <2> USE <1>CreateKeepsIndexes
  <2> DEFINE id == lastID + 1
             item == NewExecution(request)
             keyed == request.key # None
             noded == request.run # 0 /\ request.node # None
  <2>1. /\ id \notin DOMAIN executions /\ DOMAIN executions' = DOMAIN executions \cup {id}
        /\ executions'[id] = item
        /\ \A i \in DOMAIN executions : executions'[i] = executions[i]
    BY CreateValues, Zenon
  <2>2. item.key = request.key /\ item.name = request.name /\ item.run = request.run /\ item.node = request.node
    BY Zenon DEF NewExecution
  <2>3. request.run # 0 => request.node # None
    <3>1. CASE request \in EnqueueRequest
      BY <3>1, Zenon DEF EnqueueRequest
    <3>2. CASE request \in NodeRequest
      BY <3>2, ConstantsAssumption, Zenon DEF NodeRequest
    <3>3. QED
      BY <3>1, <3>2, Zenon
  <2>4. /\ keyed => /\ <<request.name, request.key>> \notin DOMAIN idempotent
                    /\ idempotent' = Put(idempotent, At(<<request.name, request.key>>, id))
        /\ ~keyed => idempotent' = idempotent
        /\ noded => /\ <<request.run, request.node>> \notin DOMAIN nodes
                    /\ nodes' = Put(nodes, At(<<request.run, request.node>>, id))
        /\ ~noded => nodes' = nodes
    BY Zenon DEF CreateExecution
  <2> HIDE DEF item, id
  <2>5. /\ keyed => /\ DOMAIN idempotent' = DOMAIN idempotent \cup {<<request.name, request.key>>}
                    /\ idempotent'[<<request.name, request.key>>] = id
        /\ \A k \in DOMAIN idempotent : k \in DOMAIN idempotent' /\ idempotent'[k] = idempotent[k]
    BY <2>4, Zenon DEF Put, At
  <2>6. /\ noded => /\ DOMAIN nodes' = DOMAIN nodes \cup {<<request.run, request.node>>}
                    /\ nodes'[<<request.run, request.node>>] = id
        /\ \A k \in DOMAIN nodes : k \in DOMAIN nodes' /\ nodes'[k] = nodes[k]
    BY <2>4, Zenon DEF Put, At
  <2>7. ASSUME NEW i \in DOMAIN executions'
        PROVE  /\ executions'[i].key # None =>
                    /\ <<executions'[i].name, executions'[i].key>> \in DOMAIN idempotent'
                    /\ idempotent'[<<executions'[i].name, executions'[i].key>>] = i
               /\ executions'[i].run # 0 =>
                    /\ <<executions'[i].run, executions'[i].node>> \in DOMAIN nodes'
                    /\ nodes'[<<executions'[i].run, executions'[i].node>>] = i
    <3>1. CASE i = id
      BY <2>1, <2>2, <2>3, <2>5, <2>6, <3>1, Zenon
    <3>2. CASE i \in DOMAIN executions
      BY <2>1, <2>5, <2>6, <3>2 DEF ExecutionIndexes
    <3>3. QED
      BY <2>1, <3>1, <3>2, Zenon
  <2>8. ASSUME NEW k \in DOMAIN idempotent'
        PROVE  /\ idempotent'[k] \in DOMAIN executions'
               /\ k = <<executions'[idempotent'[k]].name, executions'[idempotent'[k]].key>>
               /\ executions'[idempotent'[k]].key # None
    <3>1. CASE k \in DOMAIN idempotent
      BY <2>1, <2>5, <3>1 DEF ExecutionIndexes
    <3>2. CASE keyed /\ k = <<request.name, request.key>>
      BY <2>1, <2>2, <2>5, <3>2, Zenon
    <3>3. QED
      BY <2>4, <2>5, <3>1, <3>2
  <2>9. ASSUME NEW k \in DOMAIN nodes'
        PROVE  /\ nodes'[k] \in DOMAIN executions'
               /\ k = <<executions'[nodes'[k]].run, executions'[nodes'[k]].node>>
               /\ executions'[nodes'[k]].run # 0
    <3>1. CASE k \in DOMAIN nodes
      BY <2>1, <2>6, <3>1 DEF ExecutionIndexes
    <3>2. CASE noded /\ k = <<request.run, request.node>>
      BY <2>1, <2>2, <2>6, <3>2, Zenon
    <3>3. QED
      BY <2>4, <2>6, <3>1, <3>2
  <2>10. QED
    BY <2>7, <2>8, <2>9, Zenon DEF ExecutionIndexes
<1>PurgeKeepsIndexes.
  ASSUME IndexesAgree, NEW before, NEW limit, Purge(before, limit)
  PROVE  IndexesAgree'
  <2> USE <1>PurgeKeepsIndexes
  <2>1. PICK dead \in SUBSET DOMAIN executions, deadRuns \in SUBSET DOMAIN runs :
          /\ deleteExecution(dead)
          /\ runs' = Restrict(runs, DOMAIN runs \ deadRuns)
          /\ runIdempotent' = Restrict(runIdempotent, DOMAIN runIdempotent \ {runs[r].key : r \in deadRuns})
    <3>1. PICK batch \in SUBSET PurgeCandidates(before) :
            LET deadRuns == {c.id : c \in {b \in batch : b.pipeline}}
                dead == {i \in DOMAIN executions :
                           IF executions[i].run # 0 THEN executions[i].run \in deadRuns
                           ELSE \E c \in batch : ~c.pipeline /\ c.id = i}
            IN  /\ deleteExecution(dead)
                /\ runs' = Restrict(runs, DOMAIN runs \ deadRuns)
                /\ runIdempotent' = Restrict(runIdempotent,
                                      DOMAIN runIdempotent \ {runs[r].key : r \in deadRuns})
      BY Zenon DEF Purge
    <3> DEFINE deadRuns == {c.id : c \in {b \in batch : b.pipeline}}
               dead == {i \in DOMAIN executions :
                          IF executions[i].run # 0 THEN executions[i].run \in deadRuns
                          ELSE \E c \in batch : ~c.pipeline /\ c.id = i}
    <3>2. deadRuns \in SUBSET DOMAIN runs
      BY <3>1 DEF PurgeCandidates
    <3>3. dead \in SUBSET DOMAIN executions
      BY Zenon
    <3>4. /\ deleteExecution(dead)
          /\ runs' = Restrict(runs, DOMAIN runs \ deadRuns)
          /\ runIdempotent' = Restrict(runIdempotent,
                                DOMAIN runIdempotent \ {runs[r].key : r \in deadRuns})
      BY <3>1, Zenon
    <3> HIDE DEF dead, deadRuns
    <3>5. QED
      BY <3>2, <3>3, <3>4, Zenon
  <2>2. /\ DOMAIN executions' = DOMAIN executions \ dead
        /\ \A i \in DOMAIN executions' : executions'[i] = executions[i]
        /\ DOMAIN idempotent' = DOMAIN idempotent \ {<<executions[i].name, executions[i].key>> : i \in dead}
        /\ \A k \in DOMAIN idempotent' : idempotent'[k] = idempotent[k]
        /\ DOMAIN nodes' = DOMAIN nodes \ {<<executions[i].run, executions[i].node>> : i \in dead}
        /\ \A k \in DOMAIN nodes' : nodes'[k] = nodes[k]
    BY <2>1, Zenon DEF deleteExecution, Restrict
  <2>3. /\ DOMAIN runs' = DOMAIN runs \ deadRuns
        /\ \A r \in DOMAIN runs' : runs'[r] = runs[r]
        /\ DOMAIN runIdempotent' = DOMAIN runIdempotent \ {runs[r].key : r \in deadRuns}
        /\ \A k \in DOMAIN runIdempotent' : runIdempotent'[k] = runIdempotent[k]
    BY <2>1, Zenon DEF Restrict
  <2>4. ASSUME NEW i \in DOMAIN executions'
        PROVE  /\ executions'[i].key # None =>
                    /\ <<executions'[i].name, executions'[i].key>> \in DOMAIN idempotent'
                    /\ idempotent'[<<executions'[i].name, executions'[i].key>>] = i
               /\ executions'[i].run # 0 =>
                    /\ <<executions'[i].run, executions'[i].node>> \in DOMAIN nodes'
                    /\ nodes'[<<executions'[i].run, executions'[i].node>>] = i
    <3>1. i \in DOMAIN executions /\ i \notin dead /\ executions'[i] = executions[i]
      BY <2>2, Zenon
    <3>2. ASSUME executions[i].key # None
          PROVE  LET k == <<executions[i].name, executions[i].key>> IN
                 k \in DOMAIN idempotent' /\ idempotent'[k] = i
      <4> DEFINE k == <<executions[i].name, executions[i].key>>
      <4>1. k \in DOMAIN idempotent /\ idempotent[k] = i
        BY <3>1, <3>2, Zenon DEF IndexesAgree
      <4>2. ASSUME NEW j \in dead, k = <<executions[j].name, executions[j].key>> PROVE FALSE
        <5>1. executions[j].key = executions[i].key /\ executions[j].name = executions[i].name
          BY <4>2, Zenon
        <5>2. idempotent[k] = j
          BY <3>2, <4>2, <5>1, Zenon DEF IndexesAgree
        <5>3. QED
          BY <3>1, <4>1, <5>2, Zenon
      <4>3. k \in DOMAIN idempotent'
        BY <2>2, <4>1, <4>2
      <4>4. QED
        BY <2>2, <4>1, <4>3, Zenon
    <3>3. ASSUME executions[i].run # 0
          PROVE  LET k == <<executions[i].run, executions[i].node>> IN
                 k \in DOMAIN nodes' /\ nodes'[k] = i
      <4> DEFINE k == <<executions[i].run, executions[i].node>>
      <4>1. k \in DOMAIN nodes /\ nodes[k] = i
        BY <3>1, <3>3, Zenon DEF IndexesAgree
      <4>2. ASSUME NEW j \in dead, k = <<executions[j].run, executions[j].node>> PROVE FALSE
        <5>1. executions[j].run = executions[i].run /\ executions[j].node = executions[i].node
          BY <4>2, Zenon
        <5>2. nodes[k] = j
          BY <3>3, <4>2, <5>1, Zenon DEF IndexesAgree
        <5>3. QED
          BY <3>1, <4>1, <5>2, Zenon
      <4>3. k \in DOMAIN nodes'
        BY <2>2, <4>1, <4>2
      <4>4. QED
        BY <2>2, <4>1, <4>3, Zenon
    <3>4. QED
      BY <3>1, <3>2, <3>3, Zenon
  <2>5. ASSUME NEW k \in DOMAIN idempotent'
        PROVE  /\ idempotent'[k] \in DOMAIN executions'
               /\ k = <<executions'[idempotent'[k]].name, executions'[idempotent'[k]].key>>
               /\ executions'[idempotent'[k]].key # None
    BY <2>2 DEF IndexesAgree
  <2>6. ASSUME NEW k \in DOMAIN nodes'
        PROVE  /\ nodes'[k] \in DOMAIN executions'
               /\ k = <<executions'[nodes'[k]].run, executions'[nodes'[k]].node>>
               /\ executions'[nodes'[k]].run # 0
    BY <2>2 DEF IndexesAgree
  <2>7. RunIndexes'
    <3>1. RunIndexes
      BY Zenon DEF IndexesAgree, RunIndexes
    <3>2. ASSUME NEW r \in DOMAIN runs', runs'[r].key # None
          PROVE  runs'[r].key \in DOMAIN runIdempotent' /\ runIdempotent'[runs'[r].key] = r
      <4>1. r \in DOMAIN runs /\ r \notin deadRuns /\ runs'[r] = runs[r]
        BY <2>3, Zenon
      <4>2. runs[r].key \in DOMAIN runIdempotent /\ runIdempotent[runs[r].key] = r
        BY <3>1, <3>2, <4>1, Zenon DEF RunIndexes
      <4>3. ASSUME NEW d \in deadRuns, runs[d].key = runs[r].key PROVE FALSE
        BY <3>1, <3>2, <4>1, <4>2, <4>3 DEF RunIndexes
      <4>4. QED
        BY <2>3, <4>1, <4>2, <4>3
    <3>3. ASSUME NEW k \in DOMAIN runIdempotent'
          PROVE  runIdempotent'[k] \in DOMAIN runs' /\ runs'[runIdempotent'[k]].key = k /\ k # None
      <4>1. k \in DOMAIN runIdempotent /\ runIdempotent'[k] = runIdempotent[k]
        BY <2>3, Zenon
      <4>2. runIdempotent[k] \in DOMAIN runs /\ runs[runIdempotent[k]].key = k /\ k # None
        BY <3>1, <4>1, Zenon DEF RunIndexes
      <4>3. runIdempotent[k] \notin deadRuns
        BY <2>3, <4>2, Zenon
      <4>4. QED
        BY <2>3, <4>1, <4>2, <4>3, Zenon
    <3>4. QED
      BY <3>2, <3>3, Zenon DEF RunIndexes
  <2>8. QED
    BY <2>4, <2>5, <2>6, <2>7, Zenon DEF IndexesAgree, RunIndexes
<1>1. ExecutionIndexes /\ RunIndexes
  BY Zenon DEF IndexesAgree, ExecutionIndexes, RunIndexes
<1>2. CASE \E before, limit : Purge(before, limit)
  BY <1>2, <1>PurgeKeepsIndexes, Zenon
<1>3. CASE ~\E before, limit : Purge(before, limit)
  <2>1. ExecutionIndexes'
    <3>1. CASE \E S : Transition(S)
      <4>1. ASSUME NEW i \in DOMAIN executions PROVE SameWork(executions[i], executions'[i])
        BY <3>1, Zenon DEF Transition, Moved, Moves, Reborn, Restarts, SameWork
      <4>2. DOMAIN executions' = DOMAIN executions /\ idempotent' = idempotent /\ nodes' = nodes
        BY <3>1, Zenon DEF Transition
      <4>3. \A i \in DOMAIN executions :
              /\ executions'[i].key = executions[i].key /\ executions'[i].name = executions[i].name
              /\ executions'[i].run = executions[i].run /\ executions'[i].node = executions[i].node
        BY <4>1, Zenon DEF SameWork
      <4>4. ASSUME NEW k \in DOMAIN idempotent
            PROVE  /\ idempotent[k] \in DOMAIN executions
                   /\ k = <<executions'[idempotent[k]].name, executions'[idempotent[k]].key>>
                   /\ executions'[idempotent[k]].key # None
        BY <1>1, <4>3, Zenon DEF ExecutionIndexes
      <4>5. ASSUME NEW k \in DOMAIN nodes
            PROVE  /\ nodes[k] \in DOMAIN executions
                   /\ k = <<executions'[nodes[k]].run, executions'[nodes[k]].node>>
                   /\ executions'[nodes[k]].run # 0
        BY <1>1, <4>3, Zenon DEF ExecutionIndexes
      <4>6. ASSUME NEW i \in DOMAIN executions
            PROVE  /\ executions'[i].key # None =>
                        /\ <<executions'[i].name, executions'[i].key>> \in DOMAIN idempotent
                        /\ idempotent[<<executions'[i].name, executions'[i].key>>] = i
                   /\ executions'[i].run # 0 =>
                        /\ <<executions'[i].run, executions'[i].node>> \in DOMAIN nodes
                        /\ nodes[<<executions'[i].run, executions'[i].node>>] = i
        BY <1>1, <4>3 DEF ExecutionIndexes
      <4>7. QED
        BY <4>2, <4>4, <4>5, <4>6, Zenon DEF ExecutionIndexes
    <3>2. QED
      BY <1>1, <1>3, <3>1, StepTransition, <1>CreateKeepsIndexes, Zenon
  <2>2. RunIndexes'
    <3>1. CASE \E key \in IdempotencyKey \cup {None} : CreatePipelineRun(key)
      <4> PICK key \in IdempotencyKey \cup {None} : CreatePipelineRun(key)
        BY <3>1, Zenon
      <4> DEFINE id == lastRun + 1
                 run == [key |-> key, status |-> "pending", revision |-> 0, finishedAt |-> 0]
      <4>1. /\ runs' = Put(runs, At(id, run)) /\ run.key = key
            /\ key # None => key \notin DOMAIN runIdempotent
            /\ runIdempotent' = IF key # None THEN Put(runIdempotent, At(key, id)) ELSE runIdempotent
        BY Zenon DEF CreatePipelineRun
      <4>2. id \notin DOMAIN runs
        BY DEF IInv, TypeOK
      <4> HIDE DEF id, run
      <4>3. /\ DOMAIN runs' = DOMAIN runs \cup {id} /\ runs'[id] = run
            /\ \A r \in DOMAIN runs : runs'[r] = runs[r]
        BY <4>1, <4>2, Zenon DEF Put, At
      <4>4. /\ key # None => DOMAIN runIdempotent' = DOMAIN runIdempotent \cup {key} /\ runIdempotent'[key] = id
            /\ key = None => runIdempotent' = runIdempotent
            /\ \A k \in DOMAIN runIdempotent : k \in DOMAIN runIdempotent' /\ runIdempotent'[k] = runIdempotent[k]
        BY <4>1, Zenon DEF Put, At
      <4>5. QED
        BY <1>1, <4>1, <4>2, <4>3, <4>4 DEF RunIndexes
    <3>2. QED
      BY <1>1, <1>3, <3>1, RunKeysKept, Zenon DEF RunIndexes
  <2>3. QED
    BY <2>1, <2>2, Zenon DEF IndexesAgree, ExecutionIndexes, RunIndexes
<1>4. QED
  BY <1>2, <1>3, Zenon

(* The uniqueness indexes hold exactly the live executions and runs that   *)
(* carry a key or a node, so no two of them ever share one (the maps of    *)
(* MemoryStore, CreateExecution, CreatePipelineRun, Purge).                *)
THEOREM IndexesHold == Spec => []IndexesAgree
<1>1. Init => IndexesAgree
  BY DEF Init, IndexesAgree
<1>2. QED
  BY <1>1, IndexStep, Invariance, PTL DEF Spec

-----------------------------------------------------------------------------
LEMMA ClockStep ==
  ASSUME IInv, [Next]_vars
  PROVE  now \in Nat /\ now' \in Nat /\ now <= now'
<1>1. now \in Nat
  BY Zenon DEF IInv, TypeOK
<1>2. CASE Tick
  BY <1>1, <1>2 DEF Tick
<1>3. CASE now' = now
  BY <1>1, <1>3
<1>4. CASE WorkerCall
  BY <1>3, <1>4, Zenon DEF WorkerCall, Heartbeat, Succeed, Fail, Retry
<1>5. CASE OperatorCall
  BY <1>3, <1>5, Zenon DEF OperatorCall, CancelExecution, RestartExecution, Purge
<1>6. CASE PipelineCall
  BY <1>3, <1>6, Zenon DEF PipelineCall, CreatePipelineRun, SetPipelineRunStatus, RestartPipelineSubgraph,
                    ReleaseExecution
<1>7. QED
  BY <1>2, <1>3, <1>4, <1>5, <1>6, Zenon DEF Next, CreateExecution, Claim, ReapExpired, vars

(* A node execution belongs to a run that was created. *)
KnownRuns == \A i \in DOMAIN executions : executions[i].run <= lastRun

(* What the two calls that change the status of a run leave behind. *)
LEMMA SetValues ==
  ASSUME IInv, NEW r, NEW revision, NEW status, SetPipelineRunStatus(r, revision, status)
  PROVE  /\ r \in DOMAIN runs /\ DOMAIN runs' = DOMAIN runs
         /\ runs'[r].status = status /\ runs'[r].revision = runs[r].revision + 1
         /\ runs'[r].finishedAt = IF status \in Terminal THEN now ELSE runs[r].finishedAt
         /\ \A s \in DOMAIN runs : s # r => runs'[s] = runs[s]
         /\ UNCHANGED <<executions, events, lastRun, now>>
<1> DEFINE finished == IF status \in Terminal THEN now ELSE runs[r].finishedAt
           next == runs[r].revision + 1
<1>1. /\ r \in DOMAIN runs /\ UNCHANGED <<executions, events, lastRun, now>>
      /\ runs' = [runs EXCEPT ![r].status = status, ![r].revision = next, ![r].finishedAt = finished]
  BY Zenon DEF SetPipelineRunStatus, Indexes
<1>2. runs[r] \in PipelineRun
  BY <1>1, Zenon DEF IInv, TypeOK
<1> HIDE DEF finished, next
<1>3. /\ DOMAIN runs' = DOMAIN runs
      /\ runs'[r].status = status /\ runs'[r].revision = next /\ runs'[r].finishedAt = finished
      /\ \A s \in DOMAIN runs : s # r => runs'[s] = runs[s]
  BY <1>1, <1>2, Zenon DEF PipelineRun
<1>4. QED
  BY <1>1, <1>3, Zenon DEF finished, next

LEMMA SubgraphValues ==
  ASSUME IInv, NEW r, NEW root, RestartPipelineSubgraph(r, root, 0)
  PROVE  /\ r \in DOMAIN runs /\ DOMAIN runs' = DOMAIN runs
         /\ runs'[r].status = "running" /\ runs'[r].revision = runs[r].revision + 1
         /\ runs'[r].finishedAt = 0
         /\ \A s \in DOMAIN runs : s # r => runs'[s] = runs[s]
         /\ UNCHANGED <<lastRun, now>>
<1> DEFINE next == runs[r].revision + 1
<1>1. /\ r \in DOMAIN runs /\ UNCHANGED <<lastRun, now>>
      /\ runs' = [runs EXCEPT ![r].status = "running", ![r].revision = next, ![r].finishedAt = 0]
  BY Zenon DEF RestartPipelineSubgraph, Indexes
<1>2. runs[r] \in PipelineRun
  BY <1>1, Zenon DEF IInv, TypeOK
<1> HIDE DEF next
<1>3. /\ DOMAIN runs' = DOMAIN runs
      /\ runs'[r].status = "running" /\ runs'[r].revision = next /\ runs'[r].finishedAt = 0
      /\ \A s \in DOMAIN runs : s # r => runs'[s] = runs[s]
  BY <1>1, <1>2, Zenon DEF PipelineRun
<1>4. QED
  BY <1>1, <1>3, Zenon DEF next

(* Runs are numbered in the order of their creation. *)
LEMMA NewRuns ==
  ASSUME IInv, [Next]_vars
  PROVE  /\ lastRun \in Nat /\ lastRun' \in Nat /\ lastRun <= lastRun'
         /\ \A r \in DOMAIN runs' \ DOMAIN runs :
              r = lastRun + 1 /\ runs'[r].status = "pending" /\ runs'[r].finishedAt = 0
<1>1. lastRun \in Nat
  BY Zenon DEF IInv, TypeOK
<1>2. CASE DOMAIN runs' \subseteq DOMAIN runs /\ lastRun' = lastRun
  BY <1>1, <1>2
<1>3. CASE WorkerCall
  BY <1>2, <1>3, Zenon DEF WorkerCall, Heartbeat, Succeed, Fail, Retry, Indexes
<1>4. CASE OperatorCall
  BY <1>2, <1>4, PurgeValues, Zenon DEF OperatorCall, CancelExecution, RestartExecution, Indexes
<1>5. CASE PipelineCall
  <2>1. CASE \E key : CreatePipelineRun(key)
    <3>1. PICK key : /\ lastRun' = lastRun + 1
                     /\ runs' = Put(runs, At(lastRun + 1, [key |-> key, status |-> "pending",
                                                           revision |-> 0, finishedAt |-> 0]))
      BY <2>1, Zenon DEF CreatePipelineRun
    <3>2. QED
      BY <1>1, <3>1 DEF Put, At
  <2>2. CASE \E s, revision, status : SetPipelineRunStatus(s, revision, status)
    BY <1>2, <2>2, SetValues, Zenon
  <2>3. CASE \E s, root : RestartPipelineSubgraph(s, root, 0)
    BY <1>2, <2>3, SubgraphValues, Zenon
  <2>4. CASE \E i, input, availableAt : ReleaseExecution(i, input, availableAt)
    BY <1>2, <2>4, Zenon DEF ReleaseExecution, Indexes
  <2>5. QED
    BY <1>5, <2>1, <2>2, <2>3, <2>4, Zenon DEF PipelineCall
<1>6. QED
  BY <1>2, <1>3, <1>4, <1>5, Zenon DEF Next, Tick, CreateExecution, Claim, ReapExpired, Indexes, vars

LEMMA KnownRunsKept ==
  ASSUME IInv, KnownRuns, [Next]_vars
  PROVE  KnownRuns'
<1>1. lastRun \in Nat /\ lastRun' \in Nat /\ lastRun <= lastRun'
  BY NewRuns, Zenon
<1>2. ASSUME NEW i \in DOMAIN executions
      PROVE  executions[i].run \in Nat /\ executions[i].run <= lastRun /\ executions[i].run <= lastRun'
  <2>1. executions[i].run \in Nat /\ executions[i].run <= lastRun
    BY Zenon DEF KnownRuns, IInv, TypeOK, Execution
  <2>2. QED
    BY <1>1, <2>1
<1>3. CASE \E S : Transition(S)
  BY <1>2, <1>3, Zenon DEF Transition, Moved, Reborn, Moves, Restarts, SameWork, KnownRuns
<1>4. CASE \E request \in EnqueueRequest \cup NodeRequest : CreateExecution(request)
  <2>1. PICK request \in EnqueueRequest \cup NodeRequest : CreateExecution(request)
    BY <1>4, Zenon
  <2>2. request.run \in Nat /\ request.run <= lastRun'
    <3>1. CASE request \in EnqueueRequest
      BY <1>1, <3>1 DEF EnqueueRequest
    <3>2. CASE request \in NodeRequest
      <4>1. request.run \in 1..lastRun
        BY <3>2, Zenon DEF NodeRequest
      <4>2. QED
        BY <1>1, <4>1
    <3>3. QED
      BY <3>1, <3>2, Zenon
  <2>3. /\ DOMAIN executions' = DOMAIN executions \cup {lastID + 1}
        /\ executions'[lastID + 1] = NewExecution(request)
        /\ \A i \in DOMAIN executions : executions'[i] = executions[i]
    BY <2>1, CreateValues, Zenon
  <2>4. NewExecution(request).run = request.run
    BY Zenon DEF NewExecution
  <2>5. QED
    BY <1>2, <2>2, <2>3, <2>4, Zenon DEF KnownRuns
<1>5. CASE \E before, limit : Purge(before, limit)
  BY <1>2, <1>5, PurgeValues, Zenon DEF KnownRuns
<1>6. QED
  BY <1>3, <1>4, <1>5, StepTransition, Zenon

=============================================================================
