------------------------------- MODULE Worker -------------------------------
(***************************************************************************)
(* The worker (worker/worker.go): processes whose polling loops reap,      *)
(* claim, execute and resolve, above the store.                            *)
(*                                                                         *)
(* A loop makes one store call per step.  The handler it starts runs in a  *)
(* goroutine of its own and outlives the loop's interest in it: after a    *)
(* timeout, a failed heartbeat or a shutdown the loop goes on, and nothing *)
(* can stop the handler but itself.  A store call may fail at any time     *)
(* (an infrastructure failure), and a process may be told to stop or may   *)
(* crash between any two steps.                                            *)
(*                                                                         *)
(* The pipeline engine is seen from here as the set of runs a node of      *)
(* which has ended since they were last advanced.                          *)
(***************************************************************************)
EXTENDS MemoryStore

CONSTANTS
  Worker,                \* the worker processes
  WorkerOf,              \* loop -> its worker, which has Options.Concurrency of them
  Timeouts,              \* whether the tasks have a timeout
  MaxConsecutiveErrors,  \* Options.MaxConsecutiveErrors
  MaxBeats,              \* bound on the heartbeats of one delivery
  MaxFailures,           \* bound on failing calls
  MaxDisturbances        \* bound on stops, crashes and operator calls together

Loop == DOMAIN WorkerOf

ASSUME WorkerAssumption ==
  /\ WorkerOf \in [Loop -> Worker]
  /\ Timeouts \in BOOLEAN
  /\ {MaxConsecutiveErrors, MaxBeats, MaxFailures, MaxDisturbances} \subseteq Nat
  /\ 1 \in Limits   \* what a loop claims

VARIABLES
  loops,         \* loop -> where it is and what it works on
  late,          \* the workers with a running handler no loop waits for
  workers,       \* worker -> the state of its Run
  owed,          \* the runs that have to be advanced
  failures, disturbances

workerVars == <<vars, loops, late, workers, owed, failures, disturbances>>

-----------------------------------------------------------------------------
Idle ==
  [pc |-> "reap", had |-> FALSE, errors |-> 0, runs |-> {},
   id |-> 0, token |-> 0, returned |-> FALSE, beats |-> 0]

WorkerInit ==
  /\ Init
  /\ loops = [l \in Loop |-> Idle]
  /\ late = {}
  /\ workers = [w \in Worker |-> "running"]
  /\ owed = {}
  /\ failures = 0 /\ disturbances = 0

Loops(w) == {l \in Loop : WorkerOf[l] = w}
Up(l) == workers[WorkerOf[l]] \in {"running", "stopping"}
Cancelled(l) == workers[WorkerOf[l]] = "stopping"

IsAt(l, pc) == Up(l) /\ loops[l].pc = pc
Goto(l, loop, pc) == loops' = [loops EXCEPT ![l] = [loop EXCEPT !.pc = pc]]

(* The executions that end in this step; their runs have to be advanced. *)
Ended == {i \in DOMAIN executions \cap DOMAIN executions' :
            executions[i].status \notin Terminal /\ executions'[i].status \in Terminal}

Faulty_Owe ==   \* a standalone execution is taken for a node
  owed' = owed \cup {executions[i].run : i \in Ended}

Owe == owed' = owed \cup ({executions[i].run : i \in Ended} \ {0})

Bounds == <<failures, disturbances>>

(* A call fails: with context.Canceled once the worker's context is        *)
(* cancelled, or for a reason of its own, which costs one of the failures. *)
(* A call whose answer alone is lost is a call that succeeds and is        *)
(* followed by one that fails.                                             *)
Interrupted(l) == Cancelled(l) /\ UNCHANGED <<vars, owed, Bounds>>

Failed ==
  /\ failures < MaxFailures
  /\ failures' = failures + 1
  /\ UNCHANGED <<vars, owed, disturbances>>

(* infrastructureFailure: the loop counts it, unless it is the cancelled   *)
(* context, and too many in a row stop the whole worker.  Without a limit  *)
(* the count is only shown by Health and is left out.                      *)
Faulty_infrastructureFailure(l, loop, pc) ==   \* the other loops are not told
  LET limited == MaxConsecutiveErrors > 0
      struck == [loop EXCEPT !.had = limited]
      errors == IF limited THEN loop.errors + 1 ELSE loop.errors
      stop == limited /\ errors >= MaxConsecutiveErrors
  IN
  /\ \/ Interrupted(l) /\ Goto(l, struck, pc)
     \/ Failed /\ Goto(l, [struck EXCEPT !.errors = errors], IF stop THEN "done" ELSE pc)
  /\ UNCHANGED <<workers, late>>

infrastructureFailure(l, loop, pc) ==
  LET limited == MaxConsecutiveErrors > 0
      struck == [loop EXCEPT !.had = limited]
      errors == IF limited THEN loop.errors + 1 ELSE loop.errors
      stop == limited /\ errors >= MaxConsecutiveErrors
  IN
  /\ \/ Interrupted(l) /\ Goto(l, struck, pc) /\ UNCHANGED workers
     \/ /\ Failed
        /\ Goto(l, [struck EXCEPT !.errors = errors], IF stop THEN "done" ELSE pc)
        /\ workers' = IF stop THEN [workers EXCEPT ![WorkerOf[l]] = "stopping"] ELSE workers
  /\ UNCHANGED late

-----------------------------------------------------------------------------
(* The head of the loop and ReapExpired. *)
Reap(l) ==
  LET loop == [Idle EXCEPT !.errors = loops[l].errors]
      dead == {i \in DOMAIN executions : Reapable(executions[i])}
      reaped == {executions[i].run : i \in dead} \ {0}
  IN
  /\ IsAt(l, "reap")
  /\ \/ /\ Cancelled(l)
        /\ Goto(l, loop, "done")
        /\ UNCHANGED <<vars, late, workers, owed, Bounds>>
     \/ ~Cancelled(l) /\ infrastructureFailure(l, loop, "wait")
     \/ /\ ~Cancelled(l)
        /\ IF dead = {} THEN UNCHANGED vars ELSE ReapExpired
        /\ Owe
        /\ Goto(l, [loop EXCEPT !.runs = reaped], IF reaped = {} THEN "claim" ELSE "advanceReaped")
        /\ UNCHANGED <<late, workers, Bounds>>

(* Advance of the reaped runs, one after the other. *)
AdvanceReaped(l) ==
  /\ IsAt(l, "advanceReaped")
  /\ \E r \in loops[l].runs :
       LET loop == [loops[l] EXCEPT !.runs = @ \ {r}]
           pc == IF loop.runs = {} THEN "claim" ELSE "advanceReaped"
       IN
       \/ infrastructureFailure(l, loop, pc)
       \/ /\ Goto(l, loop, pc)
          /\ owed' = owed \ {r}
          /\ UNCHANGED <<vars, late, workers, Bounds>>

healthy(loop) == IF loop.had THEN loop ELSE [loop EXCEPT !.errors = 0]

(* Claim of one execution.  When there is one, its handler starts.  The    *)
(* loop works on the copy it got: the run of a node is read from that.     *)
ClaimOne(l) ==
  LET keys == TaskName \X TaskVersion
      loop == healthy(loops[l])
  IN
  /\ IsAt(l, "claim")
  /\ \/ infrastructureFailure(l, loops[l], "reconcile")
     \/ /\ ~\E i \in DOMAIN executions : Claimable(executions[i], keys)
        /\ Goto(l, loops[l], "reconcile")
        /\ UNCHANGED <<vars, late, workers, owed, Bounds>>
     \/ /\ Claim(keys, 1)
        /\ \E i \in DOMAIN executions :
             /\ events'[i] # events[i]
             /\ Goto(l, [loop EXCEPT !.id = i, !.token = executions'[i].token,
                                     !.runs = {executions[i].run} \ {0}], "execute")
        /\ UNCHANGED <<late, workers, owed, Bounds>>

(* Nothing to execute: Reconcile advances every unfinished run. *)
Faulty_Reconcile(l) ==   \* an idle loop polls again at once
  /\ IsAt(l, "reconcile")
  /\ \/ infrastructureFailure(l, loops[l], "wait")
     \/ /\ Goto(l, healthy(loops[l]), "wait")
        /\ UNCHANGED <<vars, late, workers, owed, Bounds>>

Reconcile(l) ==
  /\ IsAt(l, "reconcile")
  /\ \/ infrastructureFailure(l, loops[l], "wait")
     \/ /\ Goto(l, healthy(loops[l]), "wait")
        /\ owed' = {}
        /\ UNCHANGED <<vars, late, workers, Bounds>>

wait(l) ==
  /\ IsAt(l, "wait")
  /\ Goto(l, loops[l], IF Cancelled(l) THEN "done" ELSE "reap")
  /\ UNCHANGED <<vars, late, workers, owed, Bounds>>

-----------------------------------------------------------------------------
(* execute: a select over the worker's context, the handler's context, the *)
(* handler's result and the heartbeat ticker.  The ticker and the timeout  *)
(* may fire at any instant: no step relies on a heartbeat being in time.   *)
Executing(l) == IsAt(l, "execute")

(* The loop leaves execute; a handler that has not returned runs on. *)
Leave(l, pc) ==
  LET loop == loops[l] IN
  /\ Goto(l, IF pc = "reap" THEN [Idle EXCEPT !.errors = loop.errors]
              ELSE [Idle EXCEPT !.errors = loop.errors, !.id = loop.id, !.runs = loop.runs], pc)
  /\ late' = IF loop.pc = "execute" /\ ~loop.returned
             THEN late \cup {WorkerOf[l]} ELSE late

(* A failure, ErrLeaseLost or ErrNotFound that is only reported to the     *)
(* observer: the delivery is left to its lease.                            *)
GiveUp(l) ==
  /\ \/ Interrupted(l)
     \/ Failed
     \/ /\ Executing(l) /\ ~owned(loops[l].id, loops[l].token)
        /\ UNCHANGED <<vars, owed, Bounds>>
  /\ Leave(l, "reap")
  /\ UNCHANGED workers

Abandon(l) ==
  /\ Executing(l)
  /\ Cancelled(l)
  /\ Leave(l, "reap")
  /\ UNCHANGED <<vars, workers, owed, Bounds>>

Beat(l) ==
  /\ Executing(l)
  /\ \/ GiveUp(l)
     \/ /\ loops[l].beats < MaxBeats
        /\ Heartbeat(loops[l].id, loops[l].token)
        /\ loops' = [loops EXCEPT ![l].beats = @ + 1]
        /\ UNCHANGED <<late, workers, owed, Bounds>>

(* What the select may resolve with: some result, if the handler returned, *)
(* and the error of the handler's context, once that is done.              *)
Outcomes(l) ==
  (IF loops[l].returned THEN {"ok", "error", "permanent"} ELSE {})
  \cup (IF Timeouts \/ Cancelled(l) THEN {"error"} ELSE {})

Faulty_resolve(l) ==   \* a retryable error is left to the lease
  LET id == loops[l].id
      token == loops[l].token
      next == IF loops[l].runs = {} THEN "reap" ELSE "advance"
  IN
  /\ Executing(l)
  /\ \E outcome \in Outcomes(l) :
     \/ GiveUp(l)
     \/ /\ \/ outcome = "ok" /\ Succeed(id, token) /\ Leave(l, next)
           \/ outcome = "permanent" /\ Fail(id, token) /\ Leave(l, next)
           \/ outcome = "error" /\ UNCHANGED vars /\ Leave(l, "reload")
        /\ Owe
        /\ UNCHANGED <<workers, Bounds>>

resolve(l) ==
  LET id == loops[l].id
      token == loops[l].token
      next == IF loops[l].runs = {} THEN "reap" ELSE "advance"
  IN
  /\ Executing(l)
  /\ \E outcome \in Outcomes(l) :
     \/ GiveUp(l)
     \/ /\ \/ outcome = "ok" /\ Succeed(id, token) /\ Leave(l, next)
           \/ outcome = "permanent" /\ Fail(id, token) /\ Leave(l, next)
           \/ /\ outcome = "error"
              /\ \E delay \in Delays : Retry(id, token, delay)
              /\ Leave(l, "reload")
        /\ Owe
        /\ UNCHANGED <<workers, Bounds>>

(* After Retry the execution is read again: it may have failed for good,   *)
(* or have been purged since.                                              *)
reload(l) ==
  LET id == loops[l].id
      dead == id \in DOMAIN executions /\ executions[id].status = "failed"
  IN
  /\ IsAt(l, "reload")
  /\ \/ GiveUp(l)
     \/ /\ Leave(l, IF dead /\ loops[l].runs # {} THEN "advance" ELSE "reap")
        /\ UNCHANGED <<vars, workers, owed, Bounds>>

advance(l) ==
  /\ IsAt(l, "advance")
  /\ \/ GiveUp(l)
     \/ /\ Leave(l, "reap")
        /\ owed' = owed \ loops[l].runs
        /\ UNCHANGED <<vars, workers, Bounds>>

-----------------------------------------------------------------------------
(* A handler returns to the loop that waits for it, or the last of those   *)
(* nobody waits for returns.                                               *)
HandlerReturns(l) ==
  /\ Executing(l)
  /\ ~loops[l].returned
  /\ loops' = [loops EXCEPT ![l].returned = TRUE]
  /\ UNCHANGED <<vars, late, workers, owed, Bounds>>

LateReturn(w) ==
  /\ w \in late
  /\ late' = late \ {w}
  /\ UNCHANGED <<vars, loops, workers, owed, Bounds>>

(* Run returns when its loops have ended and its handlers returned, or the *)
(* grace period is over (ErrShutdownTimeout).                              *)
Return(w) ==
  /\ workers[w] = "stopping"
  /\ \A l \in Loops(w) : loops[l].pc = "done"
  /\ workers' = [workers EXCEPT ![w] = IF w \in late THEN "timeout" ELSE "drained"]
  /\ UNCHANGED <<vars, loops, late, owed, Bounds>>

Disturb ==
  /\ disturbances < MaxDisturbances
  /\ disturbances' = disturbances + 1
  /\ UNCHANGED failures

Stop(w) ==
  /\ workers[w] = "running"
  /\ workers' = [workers EXCEPT ![w] = "stopping"]
  /\ Disturb
  /\ UNCHANGED <<vars, loops, late, owed>>

Crash(w) ==
  /\ workers[w] \in {"running", "stopping"}
  /\ workers' = [workers EXCEPT ![w] = "crashed"]
  /\ late' = late \ {w}
  /\ loops' = [l \in Loop |-> IF WorkerOf[l] = w THEN [Idle EXCEPT !.pc = "done"] ELSE loops[l]]
  /\ Disturb
  /\ UNCHANGED <<vars, owed>>

(* Operators cancel, restart and purge what a loop may be working on.  The *)
(* restart of a node goes through the pipeline engine and is not made here.*)
Operator ==
  /\ \/ \E i \in DOMAIN executions : CancelExecution(i) \/ RestartExecution(i, 0)
     \/ \E limit \in Limits, before \in 1..(now + 1) : Purge(before, limit)
  /\ Owe
  /\ Disturb
  /\ UNCHANGED <<loops, late, workers>>

(* Clients create runs, their nodes and standalone executions. *)
Client ==
  /\ \/ CreatePipelineRun(None)
     \/ \E request \in EnqueueRequest \cup NodeRequest : CreateExecution(request)
  /\ UNCHANGED <<loops, late, workers, owed, Bounds>>

(* Time matters only while a lease or an availability lies ahead. *)
Pass ==
  /\ \E i \in DOMAIN executions : /\ executions[i].status \in Active
                                  /\ executions[i].leaseUntil > now \/ executions[i].availableAt > now
  /\ Tick
  /\ UNCHANGED <<loops, late, workers, owed, Bounds>>

LoopStep(l) ==
  \/ Reap(l) \/ AdvanceReaped(l) \/ ClaimOne(l) \/ Reconcile(l) \/ wait(l)
  \/ Abandon(l) \/ Beat(l) \/ resolve(l) \/ reload(l) \/ advance(l)

WorkerNext ==
  \/ \E l \in Loop : LoopStep(l) \/ HandlerReturns(l)
  \/ \E w \in Worker : LateReturn(w) \/ Return(w) \/ Stop(w) \/ Crash(w)
  \/ Operator
  \/ Client
  \/ Pass

(* Loops are scheduled, timers fire and time goes on.  Nothing is assumed  *)
(* of handlers: those that never return are left to their timeout.         *)
WorkerSpec ==
  /\ WorkerInit
  /\ [][WorkerNext]_workerVars
  /\ \A l \in Loop : WF_workerVars(LoopStep(l))
  /\ WF_workerVars(Pass)

-----------------------------------------------------------------------------
(* Type invariant. *)
WorkerTypeOK ==
  /\ late \subseteq Worker
  /\ owed \subseteq 1..lastRun
  /\ workers \in [Worker -> {"running", "stopping", "drained", "timeout", "crashed"}]
  /\ \A l \in Loop :
       /\ loops[l].pc \in {"reap", "advanceReaped", "claim", "reconcile", "wait",
                           "execute", "reload", "advance", "done"}
       /\ loops[l].runs \subseteq 1..lastRun
       /\ loops[l].pc = "execute" => loops[l].id \in 1..lastID
       /\ loops[l].pc = "advanceReaped" => loops[l].runs # {}

(* Loop l works on the newest delivery of execution i. *)
Holds(l, i) ==
  loops[l].pc = "execute" /\ loops[l].id = i /\ loops[l].token = executions[i].token

(* While no call fails and no worker is stopped or dies, every running     *)
(* execution is held by the loop that got its newest delivery: no path     *)
(* through execute and resolve drops one, whichever of the timeout, the    *)
(* result, the ticker and a takeover comes first (worker.go:287, :306).    *)
HeldByItsLoop ==
  failures = 0 /\ (\A w \in Worker : workers[w] = "running") =>
    \A i \in DOMAIN executions : executions[i].status = "running" =>
      \E l \in Loop : Holds(l, i)

(* A lease protects its holder: before its end nobody but an operator ends *)
(* a delivery or takes it over except the loop that holds it, which leaves *)
(* execute in the same step.  The reaps and the claims of the other loops, *)
(* and the late results of handlers that lost the execution, never touch   *)
(* it (memory.go:155, memory.go:197, memory.go:615).                       *)
LeaseProtects ==
  [][\A i \in DOMAIN executions \cap DOMAIN executions' :
       /\ executions[i].status = "running" /\ ~Expired(executions[i])
       /\ executions'[i].token # executions[i].token
       => \/ executions'[i].status = "cancelled"
          \/ \E l \in Loop : Holds(l, i) /\ loops'[l].pc # "execute"]_workerVars

(* A worker that runs has all its loops: the one that gives up after too   *)
(* many failures takes the worker down with it, so that whoever waits for  *)
(* Run learns of it (worker.go:142), and no other path ends a loop.        *)
NoLoopLost ==
  \A l \in Loop : loops[l].pc = "done" => workers[WorkerOf[l]] # "running"

SomeWorkerRuns == \E w \in Worker : workers[w] = "running"

(* As long as some worker runs, every execution comes to an end: through   *)
(* lost calls, crashes, shutdowns, timeouts and handlers that never return,*)
(* by redelivery until the attempts are used up, and then by ReapExpired.  *)
WorkFinishes ==
  \A i \in 1..MaxExecutions :
    (i \in DOMAIN executions) ~>
      (\/ i \in DOMAIN executions /\ executions[i].status \in Terminal
       \/ ~SomeWorkerRuns)

(* As long as some worker runs, the end of a node is followed by an        *)
(* Advance of its run, also when the worker that resolved it died first,   *)
(* failed to reload it or failed to advance (worker.go:345, worker.go:206).*)
EndsAreAdvanced ==
  \A r \in 1..MaxRuns : (r \in owed) ~> (r \notin owed \/ ~SomeWorkerRuns)

=============================================================================
