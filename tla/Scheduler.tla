----------------------------- MODULE Scheduler -----------------------------
(***************************************************************************)
(* The cron scheduler (schedule/schedule.go): several instances of the     *)
(* application run the same definitions over one store.  An instance works *)
(* through the occurrences that are due one by one; each call it makes to  *)
(* the store is a step of its own, so workers, the clock and the other     *)
(* instances move between a check for active work and the trigger that     *)
(* follows it.  A cron expression is the set of instants it names.         *)
(*                                                                         *)
(* All occurrences of one initialize or tick are planned at its start:     *)
(* they depend on the instant it was given and on next alone, and nobody   *)
(* reads next before the plan is worked off, definition by definition and  *)
(* oldest first: the list due of one definition is the set of its members. *)
(* pipeline.Run is modelled up to CreatePipelineRun; the Advance that      *)
(* follows is PipelineEngine.                                              *)
(*                                                                         *)
(* A definition named Faulty_ or Stale is never used: it is the plausible  *)
(* mistake in the next definition that the checked properties rule out.    *)
(***************************************************************************)
EXTENDS MemoryStore, FiniteSetsExt

CONSTANTS
  Instance,        \* the processes that run a scheduler
  Configurations,  \* the lists of definitions a deployment may register
  MaxCrashes       \* how often an instance stops and is started again

Misfire == {"skip", "latest", "catch_up"}
Overlap == {"allow", "skip"}

Definition ==
  [kind: {"task", "pipeline"}, cron: SUBSET (Nat \ {0}), misfire: Misfire, overlap: Overlap,
   lookback: Nat, maxCatchUp: Int]

(* The callers of the store include the schedulers. *)
ASSUME SchedulerAssumption ==
  /\ Configurations \subseteq Seq(Definition)
  /\ \A list \in Configurations :
       /\ (DOMAIN list) \X (1..MaxTime) \subseteq IdempotencyKey
       /\ [definition: DOMAIN list, at: 1..MaxTime] \subseteq Inputs
  /\ TaskName # {} /\ TaskVersion # {} /\ MaxAttempts # {}
  /\ 0 \in Delays /\ 1 \in Limits
  /\ MaxTime > 0 /\ MaxCrashes \in Nat

VARIABLES
  definitions,  \* the registered definitions, in order
  sched,        \* the state of every instance
  ran,          \* history: the occurrences that were triggered
  crashes

schedulerVars == <<vars, definitions, sched, ran, crashes>>

Never == MaxTime + 1   \* after every instant of the model

(* cron.Schedule.Next: the first instant after t. *)
NextTime(d, t) == Min({c \in definitions[d].cron : c > t} \cup {Never})

CatchUpLimit(d) == IF definitions[d].maxCatchUp <= 0 THEN 100 ELSE definitions[d].maxCatchUp

occurrences(d, after, through) ==   \* the oldest, up to the limit
  LET due == {c \in definitions[d].cron : after < c /\ c <= through}
  IN {c \in due : Cardinality({e \in due : e < c}) < CatchUpLimit(d)}

(* The first list of an instance that starts at an instant begins after this. *)
LookedBack(d, at) ==
  at - (IF definitions[d].misfire = "skip" THEN 0 ELSE definitions[d].lookback)

Newest(due) == {c \in due : \A e \in due : e <= c}

(* What initialize and tick find due for one definition. *)
Missed(d, at) ==
  IF definitions[d].lookback = 0 \/ definitions[d].misfire = "skip" THEN {}
  ELSE LET due == occurrences(d, at - definitions[d].lookback, at)
       IN IF definitions[d].misfire = "latest" THEN Newest(due) ELSE due

Due(d, next, at) ==
  IF next > at THEN {}
  ELSE LET due == occurrences(d, next - 1, at)
       IN IF definitions[d].misfire = "catch_up" THEN due ELSE Newest(due)

(* The occurrence of a plan that is fired next. *)
Planned(plan) == {d \in DOMAIN plan : plan[d] # {}}

First(plan) ==
  LET d == Min(Planned(plan)) IN [definition |-> d, at |-> Min(plan[d])]

(* began is history: the instants after which the lists of due occurrences *)
(* of each definition began.                                               *)
Stopped ==
  [up |-> FALSE, began |-> << >>, next |-> << >>, plan |-> << >>, listed |-> 0, reported |-> {}]

SchedulerInit ==
  /\ Init
  /\ definitions \in Configurations
  /\ sched = [s \in Instance |-> Stopped]
  /\ ran = {}
  /\ crashes = 0

Update(s, new) == sched' = [sched EXCEPT ![s] = new]

(* Run: the missed occurrences first, then next is set. *)
Faulty_initialize(s) ==   \* a definition without a lookback is passed over
  /\ ~sched[s].up
  /\ Update(s, [Stopped EXCEPT !.up = TRUE,
                  !.began = [d \in DOMAIN definitions |-> {LookedBack(d, now)}],
                  !.next = [d \in {e \in DOMAIN definitions : definitions[e].lookback > 0} |-> NextTime(d, now)],
                  !.plan = [d \in DOMAIN definitions |-> Missed(d, now)]])
  /\ UNCHANGED <<vars, definitions, ran, crashes>>

initialize(s) ==
  /\ ~sched[s].up
  /\ Update(s, [Stopped EXCEPT !.up = TRUE,
                  !.began = [d \in DOMAIN definitions |-> {LookedBack(d, now)}],
                  !.next = [d \in DOMAIN definitions |-> NextTime(d, now)],
                  !.plan = [d \in DOMAIN definitions |-> Missed(d, now)]])
  /\ UNCHANGED <<vars, definitions, ran, crashes>>

(* A tick makes a list for every definition whose next instant has come. *)
Begun(s, at) ==
  [d \in DOMAIN definitions |->
     LET next == sched[s].next[d]
     IN sched[s].began[d] \cup (IF next > at THEN {} ELSE {next - 1})]

(* The ticker holds one instant until the loop is back, so tick may be     *)
(* given one that has passed.  A tick with nothing due changes nothing.    *)
Faulty_tick(s) ==   \* next is taken from a later reading of the clock
  \E at \in 1..now :
    LET plan == [d \in DOMAIN definitions |-> Due(d, sched[s].next[d], at)] IN
    /\ sched[s].up /\ Planned(sched[s].plan) = {}
    /\ Planned(plan) # {}
    /\ Update(s, [sched[s] EXCEPT !.plan = plan, !.began = Begun(s, at),
                    !.next = [d \in DOMAIN definitions |->
                                IF @[d] > at THEN @[d] ELSE NextTime(d, now)]])
    /\ UNCHANGED <<vars, definitions, ran, crashes>>

Staletick(s) ==   \* next is not set again
  \E at \in 1..now :
    LET plan == [d \in DOMAIN definitions |-> Due(d, sched[s].next[d], at)] IN
    /\ sched[s].up /\ Planned(sched[s].plan) = {}
    /\ Planned(plan) # {}
    /\ Update(s, [sched[s] EXCEPT !.plan = plan, !.began = Begun(s, at)])
    /\ UNCHANGED <<vars, definitions, ran, crashes>>

tick(s) ==
  \E at \in 1..now :
    LET plan == [d \in DOMAIN definitions |-> Due(d, sched[s].next[d], at)] IN
    /\ sched[s].up /\ Planned(sched[s].plan) = {}
    /\ Planned(plan) # {}
    /\ Update(s, [sched[s] EXCEPT !.plan = plan, !.began = Begun(s, at),
                    !.next = [d \in DOMAIN definitions |->
                                IF @[d] > at THEN @[d] ELSE NextTime(d, at)]])
    /\ UNCHANGED <<vars, definitions, ran, crashes>>

-----------------------------------------------------------------------------
(* fire, for the first occurrence of the plan. *)
Busy(s) == Planned(sched[s].plan) # {}

Fired(s) ==
  LET o == First(sched[s].plan)
  IN [sched[s] EXCEPT !.plan[o.definition] = @ \ {o.at}, !.listed = 0]

Reported(s) == [Fired(s) EXCEPT !.reported = @ \cup {First(sched[s].plan)}]

(* The task of the task definitions: its name is all that isActive compares. *)
Task == CHOOSE n \in TaskName : TRUE

(* The lists isActive asks the store for, one call each. *)
Lists(d) ==
  IF definitions[d].kind = "task" THEN <<{"pending"}, {"retry"}, {"running"}>>
  ELSE <<{"pending", "running"}>>

Listed(d, statuses) ==
  IF definitions[d].kind = "task"
  THEN {i \in DOMAIN executions : executions[i].name = Task /\ executions[i].status \in statuses}
  ELSE {r \in DOMAIN runs : runs[r].status \in statuses}

Checked(s) ==
  LET d == First(sched[s].plan).definition IN
  definitions[d].overlap = "skip" => sched[s].listed = Len(Lists(d))

(* The next list of isActive: the first that is not empty ends the firing. *)
isActive(s) ==
  LET d == First(sched[s].plan).definition
      active == Listed(d, Lists(d)[sched[s].listed + 1])
  IN
  /\ Busy(s)
  /\ ~Checked(s)
  /\ Update(s, IF active # {} THEN Reported(s) ELSE [sched[s] EXCEPT !.listed = @ + 1])
  /\ UNCHANGED <<vars, definitions, ran, crashes>>

(* "schedule:" + name + ":" + instant: the same in every instance. *)
Faulty_Key(o) == <<o.definition, now>>   \* the instant of the call

Key(o) == <<o.definition, o.at>>

(* definition.Enqueue; the task's input is a function of the occurrence. *)
Request(o) ==
  [name |-> Task, version |-> CHOOSE v \in TaskVersion : TRUE, key |-> Key(o),
   max |-> CHOOSE m \in MaxAttempts : TRUE, availableAt |-> 0, run |-> 0, node |-> None, input |-> o]

trigger(s) ==
  LET o == First(sched[s].plan) IN
  /\ Busy(s)
  /\ Checked(s)
  /\ Update(s, Fired(s))
  /\ IF definitions[o.definition].kind = "task"
     THEN \/ <<Task, Key(o)>> \in DOMAIN idempotent /\ UNCHANGED vars
          \/ \E request \in {Request(o)} : CreateExecution(request)
     ELSE \/ Key(o) \in DOMAIN runIdempotent /\ UNCHANGED vars
          \/ CreatePipelineRun(Key(o))
  /\ ran' = ran \cup {o}
  /\ UNCHANGED <<definitions, crashes>>

(* A call fails: the occurrence is reported and not tried again. *)
callFails(s) ==
  /\ Busy(s)
  /\ Update(s, Reported(s))
  /\ UNCHANGED <<vars, definitions, ran, crashes>>

Crash(s) ==
  /\ sched[s].up
  /\ crashes < MaxCrashes
  /\ Update(s, Stopped)
  /\ crashes' = crashes + 1
  /\ UNCHANGED <<vars, definitions, ran>>

(* Workers, the engine and the operator at the same store.  A delivery     *)
(* ends in Retry, which schedules another or, when there is none left,     *)
(* finishes the execution: isActive cannot tell the other outcomes from it.*)
Others ==
  /\ \/ Tick
     \/ Claim(TaskName \X TaskVersion, 1)
     \/ \E i \in DOMAIN executions : Retry(i, executions[i].token, 0)
     \/ \E r \in DOMAIN runs : /\ runs[r].status \notin Terminal
                               /\ \E status \in {"running", "succeeded"} :
                                    SetPipelineRunStatus(r, runs[r].revision, status)
     \/ \E limit \in Limits, before \in 1..now : Purge(before, limit)
  /\ UNCHANGED <<definitions, sched, ran, crashes>>

SchedulerNext ==
  \/ \E s \in Instance :
       initialize(s) \/ tick(s) \/ isActive(s) \/ trigger(s) \/ callFails(s) \/ Crash(s)
  \/ Others

SchedulerSpec == SchedulerInit /\ [][SchedulerNext]_schedulerVars

(* The loop of an instance that is up goes on, and its calls return. *)
FairSchedulerSpec ==
  /\ SchedulerSpec
  /\ \A s \in Instance : WF_schedulerVars(tick(s) \/ isActive(s) \/ trigger(s))

-----------------------------------------------------------------------------
(* Type invariant of the instances; the store has its own. *)
Occurrence == [definition: DOMAIN definitions, at: 1..MaxTime]

State(clock) ==
  [up: BOOLEAN, began: [DOMAIN definitions -> SUBSET Int] \cup {<< >>},
   next: [DOMAIN definitions -> 1..Never] \cup {<< >>},
   plan: [DOMAIN definitions -> SUBSET (1..clock)] \cup {<< >>}, listed: Nat, reported: SUBSET Occurrence]

WellFormed(state, clock) ==
  /\ state \in State(clock)
  /\ state.up => /\ state.began \in [DOMAIN definitions -> SUBSET Int]
                 /\ state.next \in [DOMAIN definitions -> 1..Never]
                 /\ state.plan \in [DOMAIN definitions -> SUBSET (1..clock)]
  /\ ~state.up => state.plan = << >>
  /\ IF Planned(state.plan) = {} THEN state.listed = 0
     ELSE state.listed <= Len(Lists(First(state.plan).definition))

SchedulerTypeOK ==
  /\ definitions \in Configurations
  /\ crashes \in 0..MaxCrashes
  /\ ran \subseteq Occurrence
  /\ DOMAIN sched = Instance
  /\ \A s \in Instance : WellFormed(sched[s], now)

(* scheduling.md:28: however many instances see an occurrence, late, after *)
(* a restart or at the same time, the store holds one execution for it,    *)
(* and none before its instant (fire's key, CreateExecution).              *)
OneExecutionPerOccurrence ==
  \A i \in DOMAIN executions :
    /\ executions[i].input.at <= executions[i].createdAt
    /\ \A j \in DOMAIN executions : executions[i].input = executions[j].input => i = j

(* An instance that is up has answered for every occurrence between the    *)
(* start of its lookback and its next one: of each list, those that        *)
(* maxCatchUp keeps, the oldest, were triggered, by this or by another     *)
(* instance, or reported to the observer, or are still planned, or, unless *)
(* the policy is catch_up, one of them gave way to a later one that was.   *)
(* So no delay of the loop, restart or reading of the clock makes it lose  *)
(* one silently, and none falls between two lists (initialize, tick).      *)
Answered(state, done, d, t) ==
  [definition |-> d, at |-> t] \in done \cup state.reported \/ t \in state.plan[d]

Seen(state, d) ==
  {c \in definitions[d].cron : c < state.next[d] /\ \E a \in state.began[d] : a < c}

(* The list t was in: no other began between its members. *)
ListOf(state, d, t) ==
  {c \in Seen(state, d) : \A a \in state.began[d] : a < c <=> a < t}

Kept(state, d, t) ==
  {c \in ListOf(state, d, t) : Cardinality({e \in ListOf(state, d, t) : e < c}) < CatchUpLimit(d)}

Accounted(state, done, d) ==
  \A t \in Seen(state, d) : t \in Kept(state, d, t) =>
    \/ Answered(state, done, d, t)
    \/ /\ definitions[d].misfire # "catch_up"
       /\ \E u \in Kept(state, d, t) : u > t /\ Answered(state, done, d, u)

NoOccurrenceLost ==
  \A s \in Instance : sched[s].up => \A d \in DOMAIN definitions : Accounted(sched[s], ran, d)

(* The loop never falls behind for good: when an instant has come, an      *)
(* instance that is up comes to have nothing due or planned up to it, all  *)
(* of it triggered, reported or overtaken, or it stops, whatever workers   *)
(* and the other instances do and however many instants come meanwhile.    *)
CatchesUp ==
  \A s \in Instance, t \in 1..MaxTime :
    sched[s].up /\ t <= now ~>
      \/ ~sched[s].up
      \/ \A d \in DOMAIN definitions : sched[s].next[d] > t /\ \A o \in sched[s].plan[d] : o > t

(* scheduling.md:56: with OverlapSkip no new run is created while one of   *)
(* the task is pending, in retry or running.                               *)
OverlapSkipHolds ==
  [][\A i \in DOMAIN executions' \ DOMAIN executions :
       definitions[executions'[i].input.definition].overlap = "skip" =>
         \A j \in DOMAIN executions : executions[j].status \notin Active]_schedulerVars

=============================================================================
