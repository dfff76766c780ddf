------------------------ MODULE MemoryStoreRefinement ------------------------
(***************************************************************************)
(* Proof that MemoryStore implements ExecutionContract: every step of the  *)
(* store, as MemoryStoreProofs describes it, is a step of the contract.    *)
(***************************************************************************)
EXTENDS MemoryStoreProofs

(* What the refinement needs beside IInv: only a running execution has a   *)
(* lease, and no lease ends later than one duration from now.              *)
LeasesEnd ==
  \A i \in DOMAIN executions :
    /\ executions[i].status = "running" => executions[i].leaseUntil <= now + Lease
    /\ executions[i].status # "running" => executions[i].leaseUntil = 0

LEMMA LeaseStep == IInv /\ LeasesEnd /\ [Next]_vars => LeasesEnd'
<1> SUFFICES ASSUME IInv, LeasesEnd, [Next]_vars PROVE LeasesEnd'
  BY Zenon
<1> DEFINE Held(item, at) == /\ item.status = "running" => item.leaseUntil <= at + Lease
                             /\ item.status # "running" => item.leaseUntil = 0
<1>1. now \in Nat /\ now' \in Nat /\ now <= now' /\ Lease \in Nat /\ now + Lease <= now' + Lease
  <2>1. ASSUME NEW m \in Nat, NEW n \in Nat, m <= n, NEW d \in Nat PROVE m + d <= n + d
    BY <2>1
  <2>2. QED
    BY <2>1, ClockStep, ConstantsAssumption, Zenon
<1>2. ASSUME NEW item, Held(item, now), item.leaseUntil \in Nat PROVE Held(item, now')
  BY <1>1, <1>2
<1>3. ASSUME NEW i \in DOMAIN executions
      PROVE  Held(executions[i], now) /\ executions[i].leaseUntil \in Nat
  BY LastEvent, Zenon DEF LeasesEnd, Execution
<1>4. CASE \E S : Transition(S)
  <2>1. ASSUME NEW i \in DOMAIN executions PROVE Held(executions'[i], now')
    <3>1. CASE executions'[i] = executions[i]
      BY <1>2, <1>3, <3>1, Zenon
    <3>2. CASE executions'[i].leaseUntil = now + Lease /\ executions'[i].status = "running"
      <4>1. ASSUME NEW item, item.leaseUntil = now + Lease, item.status = "running" PROVE Held(item, now')
        BY <1>1, <4>1, Zenon
      <4>2. QED
        BY <3>2, <4>1, Zenon
    <3>3. CASE executions'[i].leaseUntil = 0 /\ executions'[i].status # "running"
      BY <3>3, Zenon
    <3>4. QED
      BY <1>3, <1>4, <3>1, <3>2, <3>3, Zenon
      DEF Transition, Moved, Reborn, Moves, Starts, Renews, Ends, Cancels, Restarts, Releases
  <2>2. QED
    BY <1>4, <2>1, Zenon DEF Transition, LeasesEnd
<1>5. CASE \E request \in EnqueueRequest \cup NodeRequest : CreateExecution(request)
  <2>1. PICK request : CreateExecution(request)
    BY <1>5, Zenon
  <2>2. /\ DOMAIN executions' = DOMAIN executions \cup {lastID + 1} /\ now' = now
        /\ executions'[lastID + 1] = NewExecution(request)
        /\ \A i \in DOMAIN executions : executions'[i] = executions[i]
    BY <2>1, CreateValues, Zenon
  <2>3. NewExecution(request).status = "pending" /\ NewExecution(request).leaseUntil = 0
    BY Zenon DEF NewExecution
  <2>4. QED
    BY <1>3, <2>2, <2>3, Zenon DEF LeasesEnd
<1>6. CASE \E before, limit : Purge(before, limit)
  BY <1>3, <1>6, PurgeValues, Zenon DEF LeasesEnd
<1>7. QED
  BY <1>4, <1>5, <1>6, StepTransition, Zenon

(* A life, as Lives sees an execution and its log. *)
DeliveriesIn(log) == {k \in 1..Len(log) : log[k].type = "started"}

LifeOf(item, log) ==
  [run |-> item.run,
   status |-> item.status, attempt |-> item.attempt, max |-> item.max,
   deliveries |-> DeliveriesIn(log), holder |-> item.token, until |-> item.leaseUntil,
   output |-> item.output]

(* Lives are equal when their fields are. *)
IsLife(life) ==
  /\ life = [k \in DOMAIN life |-> life[k]]
  /\ DOMAIN life = {"run", "status", "attempt", "max", "deliveries", "holder", "until", "output"}

(* Two lives with the same fields are the same. *)
LEMMA SameLife ==
  ASSUME NEW r, NEW q, IsLife(r), IsLife(q),
         r.run = q.run, r.status = q.status, r.attempt = q.attempt, r.max = q.max,
         r.deliveries = q.deliveries, r.holder = q.holder, r.until = q.until, r.output = q.output
  PROVE  r = q
<1>1. \A k \in DOMAIN q : r[k] = q[k]
  BY Zenon DEF IsLife
<1>2. QED
  BY <1>1, Zenon DEF IsLife

(* What the steps of the contract write into a life. *)
LEMMA LifeConcluded ==
  ASSUME NEW item, NEW log, NEW status, NEW output
  PROVE  [LifeOf(item, log) EXCEPT !.status = status, !.holder = 0, !.until = 0, !.output = output]
         = [run |-> item.run, status |-> status, attempt |-> item.attempt, max |-> item.max,
            deliveries |-> DeliveriesIn(log), holder |-> 0, until |-> 0, output |-> output]
<1> DEFINE r == [LifeOf(item, log) EXCEPT !.status = status, !.holder = 0, !.until = 0, !.output = output]
           q == [run |-> item.run, status |-> status, attempt |-> item.attempt, max |-> item.max,
            deliveries |-> DeliveriesIn(log), holder |-> 0, until |-> 0, output |-> output]
<1>1. IsLife(r) /\ IsLife(q)
  BY Zenon DEF LifeOf, IsLife
<1>2. /\ r.run = q.run /\ r.status = q.status /\ r.attempt = q.attempt /\ r.max = q.max /\ r.deliveries = q.deliveries
      /\ r.holder = q.holder /\ r.until = q.until /\ r.output = q.output
  BY Zenon DEF LifeOf
<1> HIDE DEF r, q
<1>3. r = q
  BY <1>1, <1>2, SameLife, Zenon
<1>4. QED
  BY <1>3, Zenon DEF r, q

LEMMA LifeCancelled ==
  ASSUME NEW item, NEW log, NEW status
  PROVE  [LifeOf(item, log) EXCEPT !.status = status, !.holder = 0, !.until = 0]
         = [run |-> item.run, status |-> status, attempt |-> item.attempt, max |-> item.max,
            deliveries |-> DeliveriesIn(log), holder |-> 0, until |-> 0, output |-> item.output]
<1> DEFINE r == [LifeOf(item, log) EXCEPT !.status = status, !.holder = 0, !.until = 0]
           q == [run |-> item.run, status |-> status, attempt |-> item.attempt, max |-> item.max,
            deliveries |-> DeliveriesIn(log), holder |-> 0, until |-> 0, output |-> item.output]
<1>1. IsLife(r) /\ IsLife(q)
  BY Zenon DEF LifeOf, IsLife
<1>2. /\ r.run = q.run /\ r.status = q.status /\ r.attempt = q.attempt /\ r.max = q.max /\ r.deliveries = q.deliveries
      /\ r.holder = q.holder /\ r.until = q.until /\ r.output = q.output
  BY Zenon DEF LifeOf
<1> HIDE DEF r, q
<1>3. r = q
  BY <1>1, <1>2, SameLife, Zenon
<1>4. QED
  BY <1>3, Zenon DEF r, q

LEMMA LifeRestarted ==
  ASSUME NEW item, NEW log, NEW status
  PROVE  [LifeOf(item, log) EXCEPT !.status = status, !.attempt = 0, !.output = 0]
         = [run |-> item.run, status |-> status, attempt |-> 0, max |-> item.max, deliveries |-> DeliveriesIn(log),
            holder |-> item.token, until |-> item.leaseUntil, output |-> 0]
<1> DEFINE r == [LifeOf(item, log) EXCEPT !.status = status, !.attempt = 0, !.output = 0]
           q == [run |-> item.run, status |-> status, attempt |-> 0, max |-> item.max, deliveries |-> DeliveriesIn(log),
            holder |-> item.token, until |-> item.leaseUntil, output |-> 0]
<1>1. IsLife(r) /\ IsLife(q)
  BY Zenon DEF LifeOf, IsLife
<1>2. /\ r.run = q.run /\ r.status = q.status /\ r.attempt = q.attempt /\ r.max = q.max /\ r.deliveries = q.deliveries
      /\ r.holder = q.holder /\ r.until = q.until /\ r.output = q.output
  BY Zenon DEF LifeOf
<1> HIDE DEF r, q
<1>3. r = q
  BY <1>1, <1>2, SameLife, Zenon
<1>4. QED
  BY <1>3, Zenon DEF r, q

(* The deliveries of a life grow with the started events of its log. *)
LEMMA LoggedDeliveries ==
  ASSUME NEW log \in Seq(Event), NEW type \in EventType, NEW attempt \in Nat, NEW longer,
         Logs(log, longer, type, attempt)
  PROVE  /\ type = "started" => DeliveriesIn(longer) = DeliveriesIn(log) \cup {Len(log) + 1}
         /\ type # "started" => DeliveriesIn(longer) = DeliveriesIn(log)
<1> DEFINE ev == [type |-> type, attempt |-> attempt]
<1>1. ev \in Event /\ ev.type = type /\ longer = Append(log, ev)
  BY Zenon DEF Event, Logs
<1> HIDE DEF ev
<1>2. /\ Len(log) \in Nat /\ Len(longer) = Len(log) + 1
      /\ \A k \in 1..Len(log) : longer[k] = log[k]
      /\ longer[Len(log) + 1] = ev
  BY <1>1
<1>3. 1..(Len(log) + 1) = (1..Len(log)) \cup {Len(log) + 1}
  BY <1>2
<1>4. QED
  BY <1>1, <1>2, <1>3, Zenon DEF DeliveriesIn

(* One move of an execution is one step of its life. *)
LEMMA MoveIsStep ==
  ASSUME IInv, IInv', LeasesEnd, NEW i \in DOMAIN executions, i \in DOMAIN executions',
         Moved(i) \/ Reborn(i)
  PROVE  LET a == LifeOf(executions[i], events[i])
             b == LifeOf(executions'[i], events'[i])
         IN  b = a \/ Contract!Step(a, b)
<1> DEFINE item == executions[i]
           new == executions'[i]
           log == events[i]
           longer == events'[i]
           a == LifeOf(item, log)
           b == LifeOf(new, longer)
<1>1. /\ item \in Execution /\ new \in Execution /\ log \in Seq(Event)
      /\ LeaseSound(item, log) /\ now \in Nat /\ Lease \in Nat
      /\ item.status = "running" => item.leaseUntil <= now + Lease
      /\ item.status # "running" => item.leaseUntil = 0
  BY ConstantsAssumption, LastEvent, Zenon DEF IInv, TypeOK, Sound, LeasesEnd
<1>2. /\ a.status = item.status /\ a.attempt = item.attempt /\ a.max = item.max
      /\ a.deliveries = DeliveriesIn(log) /\ a.holder = item.token /\ a.until = item.leaseUntil
      /\ a.output = item.output
      /\ b.status = new.status /\ b.holder = new.token /\ b.until = new.leaseUntil
  BY Zenon DEF LifeOf
<1>3. Moves(item, new, log, longer) \/ Restarts(item, new, log, longer)
  BY Zenon DEF Moved, Reborn
<1>4. new.attempt \in Nat /\ new.leaseUntil \in Nat /\ item.leaseUntil \in Nat
  BY <1>1, Zenon DEF Execution
<1> SUFFICES b = a \/ Contract!Step(a, b)
  BY Zenon
<1> HIDE DEF item, new, log, longer
<1>5. CASE new = item /\ longer = log
  BY <1>5, Zenon
<1>6. CASE SameWork(item, new) /\ Starts(item, new, log, longer)
  <2>1. DeliveriesIn(longer) = DeliveriesIn(log) \cup {Len(log) + 1}
    BY <1>1, <1>4, <1>6, LoggedDeliveries DEF Starts, EventType
  <2>2. Len(log) + 1 \notin DeliveriesIn(log) \cup {0}
    BY <1>1 DEF DeliveriesIn
  <2> DEFINE attempt == a.attempt + 1
             deliveries == a.deliveries \cup {b.holder}
             holder == b.holder
             until == b.until
  <2>3. b = [a EXCEPT !.status = "running", !.attempt = attempt, !.holder = holder,
                      !.deliveries = deliveries, !.until = until]
    <3>1. /\ b.attempt = attempt /\ b.deliveries = deliveries /\ b.holder = holder /\ b.until = until
          /\ b.status = "running" /\ b.max = a.max /\ b.output = a.output
          /\ b.run = a.run
      BY <1>2, <1>6, <2>1, Zenon DEF Starts, SameWork, LifeOf
    <3> HIDE DEF attempt, deliveries, holder, until
    <3> DEFINE r == [a EXCEPT !.status = "running", !.attempt = attempt, !.holder = holder,
                              !.deliveries = deliveries, !.until = until]
    <3>2. IsLife(r) /\ IsLife(b)
      BY Zenon DEF LifeOf, IsLife
    <3>3. /\ r.status = "running" /\ r.attempt = attempt /\ r.max = a.max /\ r.deliveries = deliveries
          /\ r.holder = holder /\ r.until = until /\ r.output = a.output
          /\ r.run = a.run
      BY Zenon DEF LifeOf
    <3> HIDE DEF r, a, b
    <3>4. b = r
      BY <3>1, <3>2, <3>3, SameLife, Zenon
    <3>5. QED
      BY <3>4, Zenon DEF r
  <2>4. Contract!Delivered(a, b)
    <3>1. /\ a.status \in {"pending", "retry"} \/ (a.status = "running" /\ a.until <= now)
          /\ a.attempt < a.max
      <4> HIDE DEF a, b
      <4>1. QED
        BY <1>2, <1>6, Zenon DEF Starts, Expired
    <3>2. b.holder \notin a.deliveries \cup {0} /\ b.until <= now + Lease
      BY <1>1, <1>2, <1>4, <1>6, <2>2 DEF Starts
    <3>3. QED
      BY <2>3, <3>1, <3>2, Zenon DEF Contract!Delivered
  <2>5. QED
    BY <2>4, Zenon DEF Contract!Step
<1>7. CASE SameWork(item, new) /\ Renews(item, new, log, longer)
  <2>1. Contract!Extended(a, b)
    BY <1>1, <1>4, <1>7 DEF Contract!Extended, Renews, SameWork, LifeOf
  <2>2. QED
    BY <2>1, Zenon DEF Contract!Step
<1>8. CASE SameWork(item, new) /\ Ends(item, new, log, longer)
  <2>1. DeliveriesIn(longer) = DeliveriesIn(log)
    BY <1>1, <1>4, <1>8, LoggedDeliveries DEF Ends, EventType
  <2> DEFINE output == IF b.status = "succeeded" THEN a.holder ELSE a.output
  <2>2. b = [run |-> item.run, status |-> b.status, attempt |-> item.attempt, max |-> item.max,
             deliveries |-> DeliveriesIn(log), holder |-> 0, until |-> 0, output |-> output]
    BY <1>2, <1>8, <2>1, Zenon DEF Ends, SameWork, LifeOf
  <2>3. b = [a EXCEPT !.status = b.status, !.holder = 0, !.until = 0, !.output = output]
    <3> HIDE DEF output
    <3>1. QED
      BY <2>2, LifeConcluded, Zenon
  <2>4. Contract!Concluded(a, b)
    <3>1. b.status \in {"succeeded", "failed"} \cup (IF a.attempt < a.max THEN {"retry"} ELSE {})
      BY <1>2, <1>8, Zenon DEF Ends
    <3>2. QED
      BY <1>2, <1>8, <2>3, <3>1, Zenon DEF Contract!Concluded, Ends
  <2>5. QED
    BY <2>4, Zenon DEF Contract!Step
<1>9. CASE SameWork(item, new) /\ Cancels(item, new, log, longer)
  <2>1. DeliveriesIn(longer) = DeliveriesIn(log)
    BY <1>1, <1>4, <1>9, LoggedDeliveries DEF Cancels, EventType
  <2>2. b = [run |-> item.run, status |-> "cancelled", attempt |-> item.attempt, max |-> item.max,
             deliveries |-> DeliveriesIn(log), holder |-> 0, until |-> 0, output |-> item.output]
    BY <1>9, <2>1, Zenon DEF Cancels, SameWork, LifeOf
  <2>3. b = [a EXCEPT !.status = "cancelled", !.holder = 0, !.until = 0]
    BY <2>2, LifeCancelled, Zenon
  <2>4. Contract!Cancelled(a, b)
    BY <1>2, <1>9, <2>3, Zenon DEF Contract!Cancelled, Contract!Over, Cancels, Terminal
  <2>5. QED
    BY <2>4, Zenon DEF Contract!Step
<1>10. CASE Restarts(item, new, log, longer)
  <2>1. DeliveriesIn(longer) = DeliveriesIn(log)
    BY <1>1, <1>4, <1>10, LoggedDeliveries DEF Restarts, EventType
  <2>2. item.status \in {"succeeded", "failed", "cancelled", "blocked"}
    BY <1>1, <1>10, Zenon DEF Restarts, Active, Execution, Status
  <2>3. item.token = 0 /\ item.leaseUntil = 0
    BY <1>1, <2>2, Zenon DEF LeaseSound
  <2>4. b = [run |-> item.run, status |-> b.status, attempt |-> 0, max |-> item.max, deliveries |-> DeliveriesIn(log),
             holder |-> item.token, until |-> item.leaseUntil, output |-> 0]
    BY <1>2, <1>10, <2>1, <2>3, Zenon DEF Restarts, SameWork, LifeOf
  <2>5. b = [a EXCEPT !.status = b.status, !.attempt = 0, !.output = 0]
    BY <2>4, LifeRestarted, Zenon
  <2>6. Contract!Restarted(a, b)
    BY <1>2, <1>10, <2>2, <2>5, Zenon DEF Contract!Restarted, Contract!Over, Restarts
  <2>7. QED
    BY <2>6, Zenon DEF Contract!Step
<1>11. CASE SameWork(item, new) /\ Releases(item, new, log, longer)
  <2>1. Contract!Released(a, b)
    BY <1>1, <1>4, <1>11 DEF Contract!Released, Releases, SameWork, LifeOf
  <2>2. QED
    BY <2>1, Zenon DEF Contract!Step
<1>12. QED
  BY <1>3, <1>5, <1>6, <1>7, <1>8, <1>9, <1>10, <1>11, Zenon DEF Moves

LEMMA LivesValues ==
  /\ DOMAIN Lives = DOMAIN executions
  /\ \A i \in DOMAIN executions : Lives[i] = LifeOf(executions[i], events[i])
BY Zenon DEF Lives, LifeOf, Deliveries, DeliveriesIn

LEMMA LivesValuesNext ==
  /\ DOMAIN Lives' = DOMAIN executions'
  /\ \A i \in DOMAIN executions' : Lives'[i] = LifeOf(executions'[i], events'[i])
BY Zenon DEF Lives, LifeOf, Deliveries, DeliveriesIn

(* Every step of the store is a step of the contract. *)
LEMMA StepIsContractStep ==
  ASSUME IInv, IInv', LeasesEnd, [Next]_vars
  PROVE  Contract!Next
<1>1. now' >= now
  BY ClockStep, Zenon
<1>2. ASSUME NEW i \in DOMAIN Lives'
      PROVE  IF i \in DOMAIN Lives THEN Lives'[i] = Lives[i] \/ Contract!Step(Lives[i], Lives'[i])
                                   ELSE Contract!Created(Lives'[i])
  <2>1. /\ i \in DOMAIN executions' /\ Lives'[i] = LifeOf(executions'[i], events'[i])
        /\ i \in DOMAIN Lives <=> i \in DOMAIN executions
        /\ i \in DOMAIN executions => Lives[i] = LifeOf(executions[i], events[i])
    BY LivesValues, LivesValuesNext, Zenon
  <2>2. CASE \E S : Transition(S)
    BY <2>1, <2>2, MoveIsStep, Zenon DEF Transition
  <2>3. CASE \E request \in EnqueueRequest \cup NodeRequest : CreateExecution(request)
    <3>1. PICK request \in EnqueueRequest \cup NodeRequest : CreateExecution(request)
      BY <2>3, Zenon
    <3>2. CASE i \in DOMAIN executions
      BY <2>1, <3>1, <3>2, CreateValues, Zenon
    <3>3. CASE i \notin DOMAIN executions
      <4> DEFINE item == NewExecution(request)
                 log == <<[type |-> "created", attempt |-> 0]>>
      <4>1. executions'[i] = item /\ events'[i] = log
        BY <2>1, <3>1, <3>3, CreateValues, Zenon
      <4>2. DeliveriesIn(log) = {}
        BY DEF DeliveriesIn
      <4>3. item.max > 0
        BY <2>1, <4>1 DEF IInv, TypeOK, Execution
      <4>4. item.status = "pending" /\ item.attempt = 0 /\ item.token = 0 /\ item.leaseUntil = 0 /\ item.output = 0
        BY Zenon DEF NewExecution
      <4> HIDE DEF item, log
      <4>5. Contract!Created(LifeOf(item, log))
        BY <4>2, <4>3, <4>4, Zenon DEF Contract!Created, LifeOf
      <4>6. QED
        BY <2>1, <3>3, <4>1, <4>5, Zenon
    <3>4. QED
      BY <3>2, <3>3, Zenon
  <2>4. CASE \E before, limit : Purge(before, limit)
    BY <2>1, <2>4, PurgeValues, Zenon
  <2>5. QED
    BY <2>2, <2>3, <2>4, StepTransition, Zenon
<1>3. ASSUME NEW i \in DOMAIN Lives, i \notin DOMAIN Lives', Lives[i].run = 0
      PROVE  Contract!Over(Lives[i])
  <2>1. /\ i \in DOMAIN executions /\ i \notin DOMAIN executions'
        /\ Lives[i] = LifeOf(executions[i], events[i])
    BY <1>3, LivesValues, LivesValuesNext, Zenon
  <2>2. LET life == LifeOf(executions[i], events[i]) IN
        life.run = executions[i].run /\ life.status = executions[i].status
    BY Zenon DEF LifeOf
  <2>3. QED
    BY <1>3, <2>1, <2>2, DeletedIsFinished, Zenon DEF Contract!Over, Terminal
<1>4. QED
  BY <1>1, <1>2, <1>3, Zenon DEF Contract!Next

(* The in-memory store implements the contract every Store promises        *)
(* (execution/store.go): whatever the interleaving of its methods, each of *)
(* them moves every execution it touches by one legal step of its life.    *)
THEOREM StoreImplementsContract == Spec => ImplementsContract
<1>1. Init => LeasesEnd
  BY DEF Init, LeasesEnd
<1>2. Init => Contract!Init
  BY LivesValues DEF Init, Contract!Init, Lives
<1>3. Spec => []LeasesEnd
  BY <1>1, LeaseStep, Invariance, PTL DEF Spec
<1>4. IInv /\ IInv' /\ LeasesEnd /\ [Next]_vars => [Contract!Next]_<<Lives, now>>
  BY StepIsContractStep, Zenon
<1>5. QED
  BY <1>2, <1>3, <1>4, Invariance, PTL DEF Spec, ImplementsContract, Contract!Spec

=============================================================================
