--------------------------- MODULE SchedulerProofs ---------------------------
(***************************************************************************)
(* Proofs about Scheduler.  The invariant adds to the checked ones what    *)
(* the store keeps true of its executions and indexes, where every         *)
(* execution comes from, the occurrence it was triggered for, and that the *)
(* lists of an instance began before its next time.                        *)
(***************************************************************************)
EXTENDS Scheduler, MemoryStoreProofs, WellFoundedInduction

(* An execution of the scheduler: its key and its input name one           *)
(* occurrence, which is not later than the execution.                      *)
Triggered(item) ==
  /\ item.name = Task /\ item.status # "blocked"
  /\ item.input \in Occurrence /\ item.key = Key(item.input)
  /\ item.input.at <= item.createdAt

(* An instance has answered for all it has seen. *)
Answers(state, done) ==
  \A d \in DOMAIN definitions :
    /\ Accounted(state, done, d)
    /\ \A a \in state.began[d] : a < state.next[d]

SchedulerInv ==
  /\ IInv /\ IndexesAgree /\ SchedulerTypeOK
  /\ \A s \in Instance : sched[s].up => Answers(sched[s], ran)
  /\ now <= MaxTime
  /\ \A i \in DOMAIN executions : Triggered(executions[i])

-----------------------------------------------------------------------------
(* Sets of instants. *)
LEMMA LeastNumber ==
  ASSUME NEW S \in SUBSET Nat, S # {}
  PROVE  Min(S) \in S /\ \A j \in S : Min(S) <= j
<1> DEFINE R == OpToRel(<, Nat)
<1>1. \E k \in S : \A j \in S : ~(<<j, k>> \in R)
  BY NatLessThanWellFounded, WFMin, Zenon
<1>2. \A j, k \in Nat : ~(<<j, k>> \in R) => k <= j
  BY DEF OpToRel
<1>3. \E k \in S : \A j \in S : k <= j
  BY <1>1, <1>2, Zenon
<1>4. QED
  BY <1>3, Zenon DEF Min

(* Every occurrence that gives way gives way to the newest one. *)
LEMMA NewestFound ==
  ASSUME NEW due \in SUBSET Nat, NEW bound \in Nat, \A c \in due : c <= bound, NEW t \in due
  PROVE  \E u \in Newest(due) : t <= u
<1> DEFINE gaps == {bound - c : c \in due}
           least == Min(gaps)
<1>1. gaps \in SUBSET Nat /\ gaps # {}
  OBVIOUS
<1>2. least \in gaps /\ \A g \in gaps : least <= g
  BY <1>1, LeastNumber, Zenon
<1> HIDE DEF least
<1>3. PICK u \in due : least = bound - u
  BY <1>2, Zenon
<1>4. \A c \in due : bound - u <= bound - c
  BY <1>2, <1>3, Zenon
<1>5. \A c \in due : c <= u
  BY <1>4
<1>6. QED
  BY <1>5, Zenon DEF Newest

LEMMA Policy ==
  ASSUME definitions \in Configurations, NEW d \in DOMAIN definitions
  PROVE  definitions[d] \in Definition /\ d \in Nat
BY SchedulerAssumption

LEMMA NextTimeValues ==
  ASSUME definitions \in Configurations, NEW d \in DOMAIN definitions, NEW t \in Nat, t <= MaxTime
  PROVE  /\ NextTime(d, t) \in 1..Never /\ NextTime(d, t) > t
         /\ \A c \in definitions[d].cron : c > t => NextTime(d, t) <= c
<1> DEFINE later == {c \in definitions[d].cron : c > t} \cup {Never}
<1>1. Never \in Nat /\ Never > t
  BY ConstantsAssumption DEF Never
<1>2. definitions[d].cron \in SUBSET Nat
  BY Policy, Zenon DEF Definition
<1>3. later \in SUBSET Nat /\ later # {}
  BY <1>1, <1>2, Zenon
<1>4. Min(later) \in later /\ \A j \in later : Min(later) <= j
  BY <1>3, LeastNumber, Zenon
<1>5. NextTime(d, t) = Min(later)
  BY Zenon DEF NextTime
<1>6. QED
  BY <1>1, <1>2, <1>4, <1>5

(* The first occurrence of a plan is one of it. *)
LEMMA FirstPlanned ==
  ASSUME definitions \in Configurations, NEW clock \in Nat,
         NEW plan \in [DOMAIN definitions -> SUBSET (1..clock)], Planned(plan) # {}
  PROVE  LET o == First(plan) IN
         /\ o.definition \in DOMAIN definitions
         /\ o.at \in plan[o.definition] /\ o.at \in 1..clock
         /\ o = [definition |-> o.definition, at |-> o.at]
<1> DEFINE d == Min(Planned(plan))
           t == Min(plan[d])
<1>1. Planned(plan) \in SUBSET Nat
  BY Policy, Zenon DEF Planned
<1>2. d \in Planned(plan)
  BY <1>1, LeastNumber, Zenon
<1>3. d \in DOMAIN definitions /\ plan[d] # {} /\ plan[d] \in SUBSET (1..clock)
  BY <1>2, Zenon DEF Planned
<1> HIDE DEF d
<1>4. plan[d] \in SUBSET Nat
  BY <1>3
<1>5. t \in plan[d]
  BY <1>3, <1>4, LeastNumber, Zenon
<1>6. First(plan) = [definition |-> d, at |-> t]
  BY Zenon DEF First, d
<1> HIDE DEF t
<1>7. QED
  BY <1>3, <1>5, <1>6

(* The occurrences of a definition between two instants. *)
Between(d, after, through) == {c \in definitions[d].cron : after < c /\ c <= through}

(* What the catch-up limit keeps of a list. *)
Oldest(d, list) == {c \in list : Cardinality({e \in list : e < c}) < CatchUpLimit(d)}

LEMMA OccurrencesBetween ==
  ASSUME definitions \in Configurations, NEW d \in DOMAIN definitions,
         NEW after \in Int, NEW through \in Nat
  PROVE  /\ occurrences(d, after, through) \subseteq Between(d, after, through)
         /\ Between(d, after, through) \in SUBSET (1..through)
<1>1. definitions[d].cron \in SUBSET (Nat \ {0})
  BY Policy, Zenon DEF Definition
<1>2. Between(d, after, through) \in SUBSET (1..through)
  BY <1>1 DEF Between
<1>3. QED
  BY <1>2, Zenon DEF occurrences, Between

(* What is kept of a list is what occurrences returned. *)
LEMMA KeptOldest ==
  ASSUME NEW state, NEW d, NEW t
  PROVE  Kept(state, d, t) = Oldest(d, ListOf(state, d, t))
BY Zenon DEF Kept, Oldest

LEMMA OccurrencesOldest ==
  ASSUME NEW d, NEW after, NEW through
  PROVE  occurrences(d, after, through) = Oldest(d, Between(d, after, through))
BY Zenon DEF occurrences, Oldest, Between

(* A policy other than catch_up keeps the newest of what is due. *)
LEMMA NewestAnswers ==
  ASSUME NEW bound \in Nat, NEW due \in SUBSET (1..bound), NEW t \in due
  PROVE  t \in Newest(due) \/ \E u \in due : u > t /\ u \in Newest(due)
<1>1. due \in SUBSET Nat /\ \A c \in due : c <= bound
  OBVIOUS
<1>2. PICK u \in Newest(due) : t <= u
  BY <1>1, NewestFound, Zenon
<1>3. u \in due
  BY Zenon DEF Newest
<1>4. QED
  BY <1>1, <1>2, <1>3

(* What initialize plans answers for the whole lookback. *)
LEMMA MissedValues ==
  ASSUME definitions \in Configurations, NEW d \in DOMAIN definitions, NEW at \in Nat
  PROVE  LET found == occurrences(d, LookedBack(d, at), at) IN
         /\ LookedBack(d, at) \in Int /\ LookedBack(d, at) <= at
         /\ Missed(d, at) \in SUBSET (1..at)
         /\ \A t \in found : \/ t \in Missed(d, at)
                            \/ /\ definitions[d].misfire # "catch_up"
                               /\ \E u \in found : u > t /\ u \in Missed(d, at)
<1> DEFINE policy == definitions[d]
           found == occurrences(d, LookedBack(d, at), at)
<1>1. policy.lookback \in Nat /\ policy.misfire \in Misfire
  BY Policy, Zenon DEF Definition
<1>2. LookedBack(d, at) \in Int /\ LookedBack(d, at) <= at
  BY <1>1 DEF LookedBack
<1>3. found \in SUBSET (1..at)
  BY <1>2, OccurrencesBetween, Zenon
<1>4. CASE policy.lookback = 0 \/ policy.misfire = "skip"
  <2>1. LookedBack(d, at) = at
    BY <1>1, <1>4 DEF LookedBack
  <2>2. Between(d, at, at) = {}
    <3>1. policy.cron \in SUBSET Nat
      BY Policy, Zenon DEF Definition
    <3>2. QED
      BY <3>1 DEF Between
  <2>3. found \subseteq Between(d, LookedBack(d, at), at)
    BY <1>2, OccurrencesBetween, Zenon
  <2>4. Missed(d, at) = {} /\ found = {}
    BY <1>4, <2>1, <2>2, <2>3, Zenon DEF Missed
  <2>5. QED
    BY <1>2, <2>4, Zenon
<1>5. CASE policy.lookback # 0 /\ policy.misfire # "skip"
  <2>1. LookedBack(d, at) = at - policy.lookback
    BY <1>5, Zenon DEF LookedBack
  <2>2. Missed(d, at) = IF policy.misfire = "latest" THEN Newest(found) ELSE found
    BY <1>5, <2>1, Zenon DEF Missed
  <2> HIDE DEF found
  <2>3. Newest(found) \in SUBSET (1..at)
    BY <1>3, Zenon DEF Newest
  <2>4. \A t \in found : t \in Newest(found) \/ \E u \in found : u > t /\ u \in Newest(found)
    BY <1>3, NewestAnswers, Zenon
  <2>5. policy.misfire = "latest" \/ policy.misfire = "catch_up"
    BY <1>1, <1>5, Zenon DEF Misfire
  <2>6. QED
    BY <1>2, <1>3, <2>2, <2>3, <2>4, <2>5, Zenon DEF found
<1>6. QED
  BY <1>4, <1>5, Zenon

(* What tick plans answers for everything from next to the instant of the tick. *)
LEMMA DueValues ==
  ASSUME definitions \in Configurations, NEW d \in DOMAIN definitions, NEW at \in Nat,
         NEW next \in 1..Never
  PROVE  LET found == occurrences(d, next - 1, at) IN
         /\ Due(d, next, at) \in SUBSET (1..at)
         /\ next > at => Due(d, next, at) = {}
         /\ next <= at => \A t \in found :
              \/ t \in Due(d, next, at)
              \/ /\ definitions[d].misfire # "catch_up"
                 /\ \E u \in found : u > t /\ u \in Due(d, next, at)
<1> DEFINE found == occurrences(d, next - 1, at)
<1>1. next \in Nat /\ next - 1 \in Int
  BY ConstantsAssumption DEF Never
<1>2. found \in SUBSET (1..at)
  BY <1>1, OccurrencesBetween, Zenon
<1>3. CASE next > at
  BY <1>1, <1>3 DEF Due
<1>4. CASE ~(next > at)
  <2>1. Due(d, next, at) = IF definitions[d].misfire = "catch_up" THEN found ELSE Newest(found)
    BY <1>4, Zenon DEF Due
  <2> HIDE DEF found
  <2>2. Newest(found) \in SUBSET (1..at)
    BY <1>2, Zenon DEF Newest
  <2>3. \A t \in found : t \in Newest(found) \/ \E u \in found : u > t /\ u \in Newest(found)
    BY <1>2, NewestAnswers, Zenon
  <2>4. QED
    BY <1>2, <1>4, <2>1, <2>2, <2>3, Zenon DEF found
<1>5. QED
  BY <1>3, <1>4, Zenon

-----------------------------------------------------------------------------
(* The state of an instance. *)
LEMMA ListsCounted == \A d : Len(Lists(d)) \in 1..3
BY DEF Lists

LEMMA StoppedWellFormed ==
  ASSUME NEW clock \in Nat
  PROVE  WellFormed(Stopped, clock) /\ ~Stopped.up
<1>1. Stopped \in State(clock) /\ ~Stopped.up /\ Stopped.plan = << >> /\ Stopped.listed = 0
  BY DEF Stopped, State
<1>2. Planned(<< >>) = {}
  BY DEF Planned
<1>3. QED
  BY <1>1, <1>2, Zenon DEF WellFormed

LEMMA WellFormedLater ==
  ASSUME NEW state, NEW clock \in Nat, NEW later \in Nat, clock <= later, WellFormed(state, clock)
  PROVE  WellFormed(state, later)
<1>1. SUBSET (1..clock) \subseteq SUBSET (1..later)
  OBVIOUS
<1>2. \A p \in [DOMAIN definitions -> SUBSET (1..clock)] : p \in [DOMAIN definitions -> SUBSET (1..later)]
  BY <1>1, Zenon
<1>3. state \in State(later)
  BY <1>1, <1>2, Zenon DEF WellFormed, State
<1>4. QED
  BY <1>2, <1>3, Zenon DEF WellFormed

(* Only an instance that is up has something planned. *)
LEMMA BusyUp ==
  ASSUME NEW state, NEW clock, WellFormed(state, clock), Planned(state.plan) # {}
  PROVE  /\ state.up /\ state.next \in [DOMAIN definitions -> 1..Never]
         /\ state.plan \in [DOMAIN definitions -> SUBSET (1..clock)]
         /\ state.began \in [DOMAIN definitions -> SUBSET Int]
<1>1. Planned(<< >>) = {}
  BY DEF Planned
<1>2. QED
  BY <1>1, Zenon DEF WellFormed

(* What firing an occurrence takes from the plan, and what it leaves. *)
LEMMA FiredValues ==
  ASSUME definitions \in Configurations, now \in Nat, now <= MaxTime,
         NEW s \in Instance, WellFormed(sched[s], now), Busy(s)
  PROVE  LET o == First(sched[s].plan) IN
         /\ o \in Occurrence /\ o.at <= now /\ sched[s].up
         /\ WellFormed(Fired(s), now) /\ WellFormed(Reported(s), now)
         /\ Fired(s).up /\ Fired(s).began = sched[s].began /\ Fired(s).next = sched[s].next
         /\ Reported(s).up /\ Reported(s).began = sched[s].began /\ Reported(s).next = sched[s].next
         /\ Fired(s).reported = sched[s].reported /\ Reported(s).reported = sched[s].reported \cup {o}
         /\ \A d \in DOMAIN definitions : \A t \in sched[s].plan[d] :
              \/ t \in Fired(s).plan[d] /\ t \in Reported(s).plan[d]
              \/ o = [definition |-> d, at |-> t]
<1> DEFINE state == sched[s]
           o == First(state.plan)
           plan == [state.plan EXCEPT ![o.definition] = @ \ {o.at}]
           fired == [state EXCEPT !.plan = plan, !.listed = 0]
           reported == [state EXCEPT !.plan = plan, !.listed = 0, !.reported = @ \cup {o}]
<1>1. /\ state.up /\ state.next \in [DOMAIN definitions -> 1..Never]
      /\ state.plan \in [DOMAIN definitions -> SUBSET (1..now)]
      /\ state.began \in [DOMAIN definitions -> SUBSET Int]
  BY BusyUp, Zenon DEF Busy
<1>2. /\ o.definition \in DOMAIN definitions /\ o.at \in state.plan[o.definition] /\ o.at \in 1..now
      /\ o = [definition |-> o.definition, at |-> o.at]
  BY <1>1, FirstPlanned, Zenon DEF Busy
<1>3. o \in Occurrence /\ o.at <= now
  <2>1. o.at \in 1..MaxTime
    BY <1>2, ConstantsAssumption
  <2>2. QED
    BY <1>2, <2>1 DEF Occurrence
<1>4. state \in State(now)
  BY Zenon DEF WellFormed
<1>5. Fired(s) = fired /\ Reported(s) = reported
  BY <1>4, Zenon DEF Fired, Reported, State
<1> HIDE DEF o
<1>6. plan \in [DOMAIN definitions -> SUBSET (1..now)]
  BY <1>1, <1>2, Zenon
<1>7. \A d \in DOMAIN definitions : \A t \in state.plan[d] : t \in plan[d] \/ o = [definition |-> d, at |-> t]
  BY <1>1, <1>2, Zenon
<1> HIDE DEF plan
<1>8. /\ fired \in State(now) /\ fired.up = state.up /\ fired.began = state.began /\ fired.next = state.next
      /\ fired.plan = plan /\ fired.listed = 0 /\ fired.reported = state.reported
  BY <1>4, <1>6, Zenon DEF State
<1>9. /\ reported \in State(now) /\ reported.up = state.up /\ reported.began = state.began
      /\ reported.next = state.next /\ reported.plan = plan /\ reported.listed = 0
      /\ reported.reported = state.reported \cup {o}
  BY <1>3, <1>4, <1>6, Zenon DEF State
<1> HIDE DEF fired, reported
<1>10. 0 <= Len(Lists(First(plan).definition))
  BY ListsCounted
<1>11. WellFormed(fired, now) /\ WellFormed(reported, now)
  BY <1>1, <1>4, <1>6, <1>8, <1>9, <1>10, Zenon DEF WellFormed
<1>12. QED
  BY <1>1, <1>3, <1>5, <1>7, <1>8, <1>9, <1>11, Zenon DEF o

(* An instance whose answers stay stays accounted for. *)
LEMMA AccountedKept ==
  ASSUME NEW old, NEW new, NEW done, NEW more, NEW d, Accounted(old, done, d),
         new.began[d] = old.began[d], new.next[d] = old.next[d],
         \A t : Answered(old, done, d, t) => Answered(new, more, d, t)
  PROVE  Accounted(new, more, d)
<1>1. Seen(new, d) = Seen(old, d)
  BY Zenon DEF Seen
<1>2. \A t : ListOf(new, d, t) = ListOf(old, d, t)
  BY <1>1 DEF ListOf
<1>3. \A t : Kept(new, d, t) = Kept(old, d, t)
  BY <1>2, KeptOldest, Zenon
<1>4. ASSUME NEW t \in Seen(new, d), t \in Kept(new, d, t)
      PROVE  \/ Answered(new, more, d, t)
             \/ /\ definitions[d].misfire # "catch_up"
                /\ \E u \in Kept(new, d, t) : u > t /\ Answered(new, more, d, u)
  <2>1. t \in Seen(old, d) /\ t \in Kept(old, d, t) /\ Kept(new, d, t) = Kept(old, d, t)
    BY <1>1, <1>3, <1>4, Zenon
  <2>2. \/ Answered(old, done, d, t)
        \/ /\ definitions[d].misfire # "catch_up"
           /\ \E u \in Kept(old, d, t) : u > t /\ Answered(old, done, d, u)
    BY <2>1, Zenon DEF Accounted
  <2>3. QED
    BY <2>1, <2>2, Zenon
<1>5. QED
  BY <1>4, Zenon DEF Accounted

LEMMA AnswersKept ==
  ASSUME NEW old, NEW new, NEW done, NEW more, Answers(old, done),
         new.began = old.began, new.next = old.next,
         \A d \in DOMAIN definitions : \A t : Answered(old, done, d, t) => Answered(new, more, d, t)
  PROVE  Answers(new, more)
BY AccountedKept, Zenon DEF Answers

-----------------------------------------------------------------------------
(* A step of an instance leaves it well formed, and answering for all it   *)
(* has seen.                                                               *)
Advances(s) ==
  \E new : Update(s, new) /\ WellFormed(new, now) /\ (new.up => Answers(new, ran'))

LEMMA InvFacts ==
  ASSUME SchedulerInv
  PROVE  /\ IInv /\ IndexesAgree /\ now \in Nat \ {0} /\ now \in Nat /\ now <= MaxTime
         /\ definitions \in Configurations /\ ran \subseteq Occurrence /\ DOMAIN sched = Instance
         /\ \A s \in Instance : WellFormed(sched[s], now) /\ (sched[s].up => Answers(sched[s], ran))
BY Zenon DEF SchedulerInv, SchedulerTypeOK, IInv, TypeOK

LEMMA initializeAdvances ==
  ASSUME SchedulerInv, NEW s \in Instance, initialize(s)
  PROVE  Advances(s)
<1> DEFINE next == [d \in DOMAIN definitions |-> NextTime(d, now)]
           plan == [d \in DOMAIN definitions |-> Missed(d, now)]
           began == [d \in DOMAIN definitions |-> {LookedBack(d, now)}]
           new == [Stopped EXCEPT !.up = TRUE, !.began = began, !.next = next, !.plan = plan]
<1>1. now \in Nat \ {0} /\ now \in Nat /\ now <= MaxTime /\ definitions \in Configurations
  BY InvFacts, Zenon
<1>2. Update(s, new) /\ ran' = ran
  BY Zenon DEF initialize
<1>3. /\ next \in [DOMAIN definitions -> 1..Never] /\ plan \in [DOMAIN definitions -> SUBSET (1..now)]
      /\ began \in [DOMAIN definitions -> SUBSET Int]
  BY <1>1, NextTimeValues, MissedValues, Zenon
<1>4. /\ new \in State(now) /\ new.up /\ new.began = began /\ new.next = next
      /\ new.plan = plan /\ new.listed = 0
  <2>1. Stopped \in State(now) /\ Stopped.listed = 0
    BY <1>1, StoppedWellFormed, Zenon DEF WellFormed, Stopped
  <2> HIDE DEF next, plan, began
  <2>2. new \in State(now)
    BY <1>3, <2>1, Zenon DEF State
  <2>3. new.up /\ new.began = began /\ new.next = next /\ new.plan = plan /\ new.listed = 0
    BY <2>1, Zenon DEF State
  <2>4. QED
    BY <2>2, <2>3, Zenon
<1> HIDE DEF new
<1>5. ASSUME NEW d \in DOMAIN definitions
      PROVE  Accounted(new, ran', d) /\ \A a \in new.began[d] : a < new.next[d]
  <2> DEFINE from == LookedBack(d, now)
             due == Between(d, from, now)
             found == occurrences(d, from, now)
  <2>1. new.began[d] = {from} /\ new.next[d] = NextTime(d, now) /\ new.plan[d] = Missed(d, now)
    BY <1>4, Zenon
  <2>2. from \in Int /\ from <= now /\ definitions[d].cron \in SUBSET Nat
    BY <1>1, MissedValues, Policy, Zenon DEF Definition
  <2>3. /\ NextTime(d, now) \in Nat /\ NextTime(d, now) > now
        /\ \A c \in definitions[d].cron : c > now => NextTime(d, now) <= c
    BY <1>1, NextTimeValues, ConstantsAssumption DEF Never
  <2> HIDE DEF from
  <2>4. Seen(new, d) = due
    BY <1>1, <2>1, <2>2, <2>3 DEF Seen, Between
  <2>5. \A t \in due : ListOf(new, d, t) = due
    <3>1. \A c \in due : from < c
      BY Zenon DEF Between
    <3> HIDE DEF due
    <3>2. \A t, c \in due : \A a \in new.began[d] : a < c <=> a < t
      BY <2>1, <3>1, Zenon
    <3>3. QED
      BY <2>4, <3>2, Zenon DEF ListOf
  <2>6. \A t \in due : Kept(new, d, t) = found
    <3>1. found = Oldest(d, due)
      BY OccurrencesOldest, Zenon
    <3> HIDE DEF due, found
    <3>2. QED
      BY <2>5, <3>1, KeptOldest, Zenon
  <2>7. \A t \in found : \/ t \in Missed(d, now)
                         \/ /\ definitions[d].misfire # "catch_up"
                            /\ \E u \in found : u > t /\ u \in Missed(d, now)
    BY <1>1, MissedValues, Zenon DEF from
  <2> HIDE DEF due, found
  <2>8. Accounted(new, ran', d)
    BY <2>1, <2>4, <2>6, <2>7, Zenon DEF Accounted, Answered
  <2>9. \A a \in new.began[d] : a < new.next[d]
    BY <1>1, <2>1, <2>2, <2>3
  <2>10. QED
    BY <2>8, <2>9, Zenon
<1>6. WellFormed(new, now)
  <2>1. 0 <= Len(Lists(First(plan).definition))
    BY ListsCounted
  <2> HIDE DEF next, plan, began
  <2>2. QED
    BY <1>3, <1>4, <2>1, Zenon DEF WellFormed
<1>7. QED
  BY <1>2, <1>5, <1>6, Zenon DEF Advances, Answers

LEMMA tickAdvances ==
  ASSUME SchedulerInv, NEW s \in Instance, tick(s)
  PROVE  Advances(s)
<1> DEFINE state == sched[s]
<1>1. /\ now \in Nat /\ now <= MaxTime /\ definitions \in Configurations
      /\ WellFormed(state, now) /\ (state.up => Answers(state, ran))
  BY InvFacts, Zenon
<1>2. PICK at \in 1..now :
        LET plan == [d \in DOMAIN definitions |-> Due(d, state.next[d], at)] IN
        /\ state.up /\ Planned(state.plan) = {}
        /\ Update(s, [state EXCEPT !.plan = plan, !.began = Begun(s, at),
                        !.next = [d \in DOMAIN definitions |->
                                    IF @[d] > at THEN @[d] ELSE NextTime(d, at)]])
        /\ ran' = ran
  BY Zenon DEF tick
<1> DEFINE plan == [d \in DOMAIN definitions |-> Due(d, state.next[d], at)]
           next == [d \in DOMAIN definitions |->
                      IF state.next[d] > at THEN state.next[d] ELSE NextTime(d, at)]
           began == Begun(s, at)
           new == [state EXCEPT !.plan = plan, !.began = began, !.next = next]
<1>3. at \in Nat /\ at <= now /\ at <= MaxTime
  BY <1>1, ConstantsAssumption
<1>4. /\ state \in State(now) /\ state.next \in [DOMAIN definitions -> 1..Never]
      /\ state.plan \in [DOMAIN definitions -> SUBSET (1..now)]
      /\ state.began \in [DOMAIN definitions -> SUBSET Int]
      /\ state.listed = 0
      /\ \A d \in DOMAIN definitions : state.plan[d] = {}
  BY <1>1, <1>2 DEF WellFormed, Planned, State
<1>5. /\ next \in [DOMAIN definitions -> 1..Never]
      /\ \A d \in DOMAIN definitions : Due(d, state.next[d], at) \in SUBSET (1..at)
  BY <1>1, <1>3, <1>4, NextTimeValues, DueValues, Zenon
<1>6. plan \in [DOMAIN definitions -> SUBSET (1..now)]
  BY <1>1, <1>3, <1>5
<1>began. began \in [DOMAIN definitions -> SUBSET Int]
  <2>1. \A d \in DOMAIN definitions : state.next[d] - 1 \in Int
    BY <1>4, ConstantsAssumption DEF Never
  <2>2. QED
    BY <1>4, <2>1, Zenon DEF Begun
<1>7. /\ new \in State(now) /\ new.up = state.up /\ new.began = began /\ new.next = next
      /\ new.plan = plan /\ new.listed = 0 /\ new.reported = state.reported
  <2> HIDE DEF next, plan, began
  <2>1. QED
    BY <1>4, <1>5, <1>6, <1>began, Zenon DEF State
<1> HIDE DEF new
<1>8. ASSUME NEW d \in DOMAIN definitions
      PROVE  Accounted(new, ran, d) /\ \A a \in new.began[d] : a < new.next[d]
  <2> DEFINE was == state.next[d]
             due == Between(d, was - 1, at)
             found == occurrences(d, was - 1, at)
             Done(t) == [definition |-> d, at |-> t] \in ran \cup state.reported
  <2>1. /\ was \in 1..Never /\ was \in Nat /\ was - 1 \in Int /\ definitions[d].cron \in SUBSET Nat
        /\ state.began[d] \in SUBSET Int
    BY <1>1, <1>4, Policy, ConstantsAssumption DEF Definition, Never
  <2>2. Accounted(state, ran, d) /\ \A a \in state.began[d] : a < was
    BY <1>1, <1>2, Zenon DEF Answers
  <2>3. \A t : Answered(state, ran, d, t) => Done(t)
    BY <1>4, Zenon DEF Answered
  <2>4. new.plan[d] = Due(d, was, at) /\ new.reported = state.reported
    BY <1>7, Zenon
  <2>5. CASE was > at
    <3>1. new.began[d] = state.began[d] /\ new.next[d] = state.next[d]
      BY <1>7, <2>1, <2>5 DEF Begun
    <3>2. \A t : Answered(state, ran, d, t) => Answered(new, ran, d, t)
      BY <2>3, <2>4, Zenon DEF Answered
    <3>3. QED
      BY <2>2, <3>1, <3>2, AccountedKept, Zenon
  <2>6. CASE was <= at
    <3>1. new.began[d] = state.began[d] \cup {was - 1} /\ new.next[d] = NextTime(d, at)
      BY <1>3, <1>7, <2>1, <2>6 DEF Begun
    <3>2. /\ NextTime(d, at) \in Nat /\ NextTime(d, at) > at
          /\ \A c \in definitions[d].cron : c > at => NextTime(d, at) <= c
      BY <1>1, <1>3, NextTimeValues, ConstantsAssumption DEF Never
    (* What was seen before is in the same lists as before. *)
    <3>3. Seen(new, d) = Seen(state, d) \cup due
      BY <1>3, <2>1, <2>2, <2>6, <3>1, <3>2 DEF Seen, Between
    <3>4. ASSUME NEW t \in Seen(state, d) PROVE Kept(new, d, t) = Kept(state, d, t)
      <4>1. t \in Nat /\ t < was
        BY <2>1, Zenon DEF Seen
      <4>2. \A c \in due : was - 1 < c /\ ~(was - 1 < t)
        BY <2>1, <4>1 DEF Between
      <4>3. \A c \in Seen(state, d) : ~(was - 1 < c) /\ ~(was - 1 < t)
        BY <2>1, <4>1 DEF Seen
      <4>4. ListOf(new, d, t) = ListOf(state, d, t)
        <5> HIDE DEF due
        <5>1. QED
          BY <3>1, <3>3, <4>2, <4>3, Zenon DEF ListOf
      <4>5. QED
        BY <4>4, Zenon DEF Kept
    (* What this tick lists is one list. *)
    <3>5. ASSUME NEW t \in due PROVE Kept(new, d, t) = found
      <4>1. \A c \in due : /\ was - 1 < c
                           /\ \A a \in state.began[d] : a < c
        BY <2>1, <2>2 DEF Between
      <4>2. \A c \in Seen(state, d) : ~(was - 1 < c)
        BY <2>1 DEF Seen
      <4>3. ListOf(new, d, t) = due
        <5> HIDE DEF due
        <5>1. \A c \in due : \A a \in new.began[d] : a < c <=> a < t
          BY <3>1, <3>5, <4>1, Zenon
        <5>2. \A c \in Seen(state, d) : \E a \in new.began[d] : ~(a < c <=> a < t)
          BY <3>1, <3>5, <4>1, <4>2, Zenon
        <5>3. QED
          BY <3>3, <5>1, <5>2, Zenon DEF ListOf
      <4>4. QED
        <5>1. found = Oldest(d, due)
          BY OccurrencesOldest, Zenon
        <5> HIDE DEF due, found
        <5>2. QED
          BY <4>3, <5>1, KeptOldest, Zenon
    <3>6. \A t \in found : \/ t \in Due(d, was, at)
                           \/ /\ definitions[d].misfire # "catch_up"
                              /\ \E u \in found : u > t /\ u \in Due(d, was, at)
      BY <1>1, <1>3, <2>1, <2>6, DueValues, Zenon
    <3> HIDE DEF due, found
    <3>7. ASSUME NEW t \in Seen(new, d), t \in Kept(new, d, t)
          PROVE  \/ Answered(new, ran, d, t)
                 \/ /\ definitions[d].misfire # "catch_up"
                    /\ \E u \in Kept(new, d, t) : u > t /\ Answered(new, ran, d, u)
      <4>1. CASE t \in Seen(state, d)
        BY <2>2, <2>3, <2>4, <3>4, <3>7, <4>1, Zenon DEF Accounted, Answered
      <4>2. CASE t \in due
        BY <2>4, <3>5, <3>6, <3>7, <4>2, Zenon DEF Answered
      <4>3. QED
        BY <3>3, <3>7, <4>1, <4>2, Zenon
    <3>8. \A a \in new.began[d] : a < new.next[d]
      BY <1>3, <2>1, <2>2, <2>6, <3>1, <3>2
    <3>9. QED
      BY <3>7, <3>8, Zenon DEF Accounted
  <2>7. QED
    BY <1>3, <2>1, <2>5, <2>6
<1> HIDE DEF next, plan, began
<1>9. WellFormed(new, now)
  <2>1. 0 <= Len(Lists(First(plan).definition))
    BY ListsCounted
  <2>2. QED
    BY <1>2, <1>4, <1>5, <1>6, <1>7, <1>began, <2>1, Zenon DEF WellFormed
<1>10. Update(s, new) /\ ran' = ran
  BY <1>2, Zenon DEF plan, next, began, new
<1>11. QED
  BY <1>8, <1>9, <1>10, Zenon DEF Advances, Answers

(* Firing: the occurrence leaves the plan when it was triggered or reported. *)
LEMMA FiredAnswers ==
  ASSUME SchedulerInv, NEW s \in Instance, Busy(s), ran' = ran \cup {First(sched[s].plan)}
  PROVE  WellFormed(Fired(s), now) /\ Answers(Fired(s), ran')
<1> DEFINE o == First(sched[s].plan)
<1>1. /\ now \in Nat /\ now <= MaxTime /\ definitions \in Configurations /\ WellFormed(sched[s], now)
      /\ (sched[s].up => Answers(sched[s], ran))
  BY InvFacts, Zenon
<1>2. /\ sched[s].up /\ WellFormed(Fired(s), now)
      /\ Fired(s).began = sched[s].began /\ Fired(s).next = sched[s].next
      /\ Fired(s).reported = sched[s].reported
      /\ \A d \in DOMAIN definitions : \A t \in sched[s].plan[d] :
           t \in Fired(s).plan[d] \/ o = [definition |-> d, at |-> t]
  BY <1>1, FiredValues, Zenon
<1>3. \A d \in DOMAIN definitions : \A t :
        Answered(sched[s], ran, d, t) => Answered(Fired(s), ran', d, t)
  BY <1>2, Zenon DEF Answered
<1>4. QED
  BY <1>1, <1>2, <1>3, AnswersKept

LEMMA ReportedAnswers ==
  ASSUME SchedulerInv, NEW s \in Instance, Busy(s)
  PROVE  WellFormed(Reported(s), now) /\ Answers(Reported(s), ran)
<1> DEFINE o == First(sched[s].plan)
<1>1. /\ now \in Nat /\ now <= MaxTime /\ definitions \in Configurations /\ WellFormed(sched[s], now)
      /\ (sched[s].up => Answers(sched[s], ran))
  BY InvFacts, Zenon
<1>2. /\ sched[s].up /\ WellFormed(Reported(s), now)
      /\ Reported(s).began = sched[s].began /\ Reported(s).next = sched[s].next
      /\ Reported(s).reported = sched[s].reported \cup {o}
      /\ \A d \in DOMAIN definitions : \A t \in sched[s].plan[d] :
           t \in Reported(s).plan[d] \/ o = [definition |-> d, at |-> t]
  BY <1>1, FiredValues, Zenon
<1>3. \A d \in DOMAIN definitions : \A t :
        Answered(sched[s], ran, d, t) => Answered(Reported(s), ran, d, t)
  BY <1>2, Zenon DEF Answered
<1>4. QED
  BY <1>1, <1>2, <1>3, AnswersKept

LEMMA isActiveAdvances ==
  ASSUME SchedulerInv, NEW s \in Instance, isActive(s)
  PROVE  Advances(s)
<1> DEFINE state == sched[s]
           new == [state EXCEPT !.listed = @ + 1]
           length == Len(Lists(First(state.plan).definition))
<1>1. Busy(s) /\ ~Checked(s) /\ ran' = ran /\ (Update(s, Reported(s)) \/ Update(s, new))
  BY Zenon DEF isActive
<1>2. CASE Update(s, Reported(s))
  BY <1>1, <1>2, ReportedAnswers, Zenon DEF Advances
<1>3. CASE Update(s, new)
  <2>1. WellFormed(state, now) /\ (state.up => Answers(state, ran)) /\ now \in Nat
    BY InvFacts, Zenon
  <2>2. state \in State(now) /\ state.listed <= length /\ state.listed # length /\ length \in Nat
    BY <1>1, <2>1, ListsCounted DEF WellFormed, Busy, Checked
  <2>3. /\ new \in State(now) /\ new.up = state.up /\ new.began = state.began /\ new.next = state.next
        /\ new.plan = state.plan /\ new.listed = state.listed + 1 /\ new.reported = state.reported
    BY <2>2 DEF State
  <2> HIDE DEF new
  <2>4. new.listed <= length
    <3>1. state.listed \in Nat
      BY <2>2, Zenon DEF State
    <3>2. QED
      BY <2>2, <2>3, <3>1
  <2>5. WellFormed(new, now)
    BY <1>1, <2>1, <2>3, <2>4, Zenon DEF WellFormed, Busy
  <2>6. new.up => Answers(new, ran)
    <3>1. \A d \in DOMAIN definitions : \A t : Answered(state, ran, d, t) => Answered(new, ran, d, t)
      BY <2>3, Zenon DEF Answered
    <3>2. QED
      BY <2>1, <2>3, <3>1, AnswersKept
  <2>7. QED
    BY <1>1, <1>3, <2>5, <2>6, Zenon DEF Advances
<1>4. QED
  BY <1>1, <1>2, <1>3, Zenon

(* Every step of an instance, and what it does to the history. *)
LEMMA InstanceAdvances ==
  ASSUME SchedulerInv, NEW s \in Instance,
         initialize(s) \/ tick(s) \/ isActive(s) \/ trigger(s) \/ callFails(s) \/ Crash(s)
  PROVE  Advances(s) /\ ran \subseteq ran' /\ ran' \subseteq Occurrence
<1>1. now \in Nat /\ ran \subseteq Occurrence
  BY InvFacts, Zenon
<1>2. CASE trigger(s)
  <2>1. Busy(s) /\ ran' = ran \cup {First(sched[s].plan)} /\ Update(s, Fired(s))
    BY <1>2, Zenon DEF trigger
  <2>2. First(sched[s].plan) \in Occurrence
    BY <2>1, InvFacts, FiredValues, Zenon
  <2>3. WellFormed(Fired(s), now) /\ Answers(Fired(s), ran')
    BY <2>1, FiredAnswers, Zenon
  <2>4. QED
    BY <1>1, <2>1, <2>2, <2>3, Zenon DEF Advances
<1>3. CASE callFails(s)
  <2>1. Busy(s) /\ ran' = ran /\ Update(s, Reported(s))
    BY <1>3, Zenon DEF callFails
  <2>2. QED
    BY <1>1, <2>1, ReportedAnswers, Zenon DEF Advances
<1>4. CASE Crash(s)
  <2>1. Update(s, Stopped) /\ ran' = ran
    BY <1>4, Zenon DEF Crash
  <2>2. QED
    BY <1>1, <2>1, StoppedWellFormed, Zenon DEF Advances
<1>5. CASE initialize(s) \/ tick(s) \/ isActive(s)
  <2>1. ran' = ran
    BY <1>5, Zenon DEF initialize, tick, isActive
  <2>2. QED
    BY <1>1, <1>5, <2>1, initializeAdvances, tickAdvances, isActiveAdvances, Zenon
<1>6. QED
  BY <1>2, <1>3, <1>4, <1>5, Zenon

-----------------------------------------------------------------------------
(* The schedulers and the others use the store only as it allows. *)
LEMMA RequestAllowed ==
  ASSUME definitions \in Configurations, NEW o \in Occurrence
  PROVE  /\ Key(o) \in IdempotencyKey /\ Request(o) \in EnqueueRequest
         /\ Request(o).name = Task /\ Request(o).key = Key(o) /\ Request(o).input = o
<1> DEFINE version == CHOOSE v \in TaskVersion : TRUE
           max == CHOOSE m \in MaxAttempts : TRUE
<1>1. Task \in TaskName /\ version \in TaskVersion /\ max \in MaxAttempts
  BY SchedulerAssumption, Zenon DEF Task
<1>2. Key(o) \in IdempotencyKey
  BY SchedulerAssumption, Zenon DEF Key, Occurrence
<1>3. o \in Inputs
  BY SchedulerAssumption, Zenon DEF Occurrence
<1>4. Request(o) = [name |-> Task, version |-> version, key |-> Key(o), max |-> max, availableAt |-> 0,
                    run |-> 0, node |-> None, input |-> o]
  BY Zenon DEF Request
<1> HIDE DEF version, max
<1>5. QED
  BY <1>1, <1>2, <1>3, <1>4 DEF EnqueueRequest

(* What an instance changes in the store: it creates the execution or the  *)
(* run of an occurrence whose instant has come.                            *)
LEMMA TriggerCalls ==
  ASSUME SchedulerInv, NEW s \in Instance, trigger(s)
  PROVE  \/ UNCHANGED vars
         \/ \E o \in Occurrence : o.at <= now /\ CreateExecution(Request(o))
         \/ \E o \in Occurrence : CreatePipelineRun(Key(o))
<1>1. Busy(s) /\ now \in Nat /\ now <= MaxTime /\ definitions \in Configurations /\ WellFormed(sched[s], now)
  BY InvFacts, Zenon DEF trigger
<1>2. First(sched[s].plan) \in Occurrence /\ First(sched[s].plan).at <= now
  BY <1>1, FiredValues, Zenon
<1>3. QED
  BY <1>2, Zenon DEF trigger

LEMMA HeldToken ==
  ASSUME IInv, NEW i \in DOMAIN executions, NEW token, owned(i, token)
  PROVE  token \in Deliveries(i)
<1>1. executions[i].status = "running" /\ token = executions[i].token
  BY Zenon DEF owned
<1>2. /\ Len(events[i]) \in Nat /\ Len(events[i]) >= 1
      /\ executions[i].status = "running" => events[i][Len(events[i])].type = "started"
  BY LastEvent, Zenon
<1>3. executions[i].status = "running" => executions[i].token = Len(events[i])
  BY Zenon DEF IInv, Sound, LeaseSound
<1>4. QED
  BY <1>1, <1>2, <1>3 DEF Deliveries

LEMMA OthersAllowed ==
  ASSUME SchedulerInv, Others
  PROVE  Next
<1>1. IInv /\ now \in Nat
  BY InvFacts, Zenon
<1>2. CASE Claim(TaskName \X TaskVersion, 1)
  <2>1. TaskName \X TaskVersion \in SUBSET (TaskName \X TaskVersion) /\ 1 \in Limits
    BY SchedulerAssumption, Zenon
  <2>2. QED
    BY <1>2, <2>1, Zenon DEF Next
<1>3. ASSUME NEW i \in DOMAIN executions, Retry(i, executions[i].token, 0) PROVE Next
  <2>1. executions[i].token \in Deliveries(i)
    BY <1>1, <1>3, HeldToken, Zenon DEF Retry
  <2>2. QED
    BY <1>3, <2>1, SchedulerAssumption, Zenon DEF Next, WorkerCall
<1>4. ASSUME NEW r \in DOMAIN runs, runs[r].status \notin Terminal, NEW status \in {"running", "succeeded"},
             SetPipelineRunStatus(r, runs[r].revision, status)
      PROVE  Next
  <2>1. status \in IF runs[r].status \in Terminal THEN {"cancelled"} ELSE RunStatus \ {"pending"}
    BY <1>4, Zenon DEF RunStatus
  <2>2. QED
    BY <1>4, <2>1, Zenon DEF Next, PipelineCall
<1>5. ASSUME NEW limit \in Limits, NEW before \in 1..now, Purge(before, limit) PROVE Next
  <2>1. before \in 1..(now + 1)
    BY <1>1
  <2>2. QED
    BY <1>5, <2>1, Zenon DEF Next, OperatorCall
<1>6. QED
  BY <1>2, <1>3, <1>4, <1>5, Zenon DEF Others, Next

(* Every step of the schedulers is a step of the store. *)
LEMMA SchedulerStepAllowed ==
  ASSUME SchedulerInv, [SchedulerNext]_schedulerVars
  PROVE  [Next]_vars
<1>1. definitions \in Configurations
  BY InvFacts, Zenon
<1>2. CASE UNCHANGED vars
  BY <1>2, Zenon
<1>3. ASSUME NEW s \in Instance, trigger(s) PROVE [Next]_vars
  BY <1>1, <1>3, TriggerCalls, RequestAllowed, Zenon DEF Next, PipelineCall
<1>4. QED
  BY <1>2, <1>3, OthersAllowed, Zenon
  DEF SchedulerNext, initialize, tick, isActive, callFails, Crash, schedulerVars

(* The clock of the model stops at MaxTime, and the definitions stay. *)
LEMMA Bounded ==
  ASSUME SchedulerInv, [SchedulerNext]_schedulerVars
  PROVE  /\ now' \in Nat /\ now <= now' /\ now' <= MaxTime
         /\ definitions' = definitions /\ crashes' \in 0..MaxCrashes
<1>1. now \in Nat /\ now <= MaxTime /\ crashes \in 0..MaxCrashes /\ MaxTime \in Nat /\ MaxCrashes \in Nat
  BY InvFacts, ConstantsAssumption, SchedulerAssumption, Zenon DEF SchedulerInv, SchedulerTypeOK
<1>2. definitions' = definitions
  BY Zenon DEF SchedulerNext, initialize, tick, isActive, trigger, callFails, Crash, Others, schedulerVars
<1>3. crashes' \in 0..MaxCrashes
  <2>1. ASSUME NEW s \in Instance, Crash(s) PROVE crashes' \in 0..MaxCrashes
    BY <1>1, <2>1 DEF Crash
  <2>2. CASE crashes' = crashes
    BY <1>1, <2>2, Zenon
  <2>3. QED
    BY <2>1, <2>2, Zenon DEF SchedulerNext, initialize, tick, isActive, trigger, callFails, Others, schedulerVars
<1>4. now' = now \/ Tick
  <2>1. ASSUME Others PROVE now' = now \/ Tick
    BY <2>1, Zenon DEF Others, Claim, Retry, SetPipelineRunStatus, Purge
  <2>2. ASSUME NEW s \in Instance, trigger(s) PROVE now' = now
    BY <2>2, TriggerCalls, Zenon DEF CreateExecution, CreatePipelineRun, vars
  <2>3. QED
    BY <2>1, <2>2, Zenon DEF SchedulerNext, initialize, tick, isActive, callFails, Crash, schedulerVars, vars
<1>5. QED
  BY <1>1, <1>2, <1>3, <1>4 DEF Tick

(* Every execution is that of an occurrence, through deliveries and purges. *)
LEMMA TriggeredKept ==
  ASSUME SchedulerInv, [SchedulerNext]_schedulerVars, NEW i \in DOMAIN executions'
  PROVE  Triggered(executions'[i])
<1>1. IInv /\ definitions \in Configurations /\ \A j \in DOMAIN executions : Triggered(executions[j])
  BY InvFacts, Zenon DEF SchedulerInv
<1>2. CASE Transition({})
  <2>1. i \in DOMAIN executions /\ Moved(i) /\ Triggered(executions[i])
    BY <1>1, <1>2, Zenon DEF Transition
  <2>2. QED
    BY <2>1 DEF Moved, Moves, Starts, Renews, Ends, Cancels, Releases, SameWork, Triggered, Terminal
<1>3. CASE UNCHANGED <<executions, events, idempotent, nodes, lastID>>
  BY <1>1, <1>3, Zenon
<1>4. CASE \E before, limit : Purge(before, limit)
  BY <1>1, <1>4, PurgeValues, Zenon
<1>5. ASSUME NEW o \in Occurrence, o.at <= now, CreateExecution(Request(o))
      PROVE  Triggered(executions'[i])
  <2>1. /\ Request(o).name = Task /\ Request(o).key = Key(o) /\ Request(o).input = o
    BY <1>1, RequestAllowed, Zenon
  <2>2. Triggered(NewExecution(Request(o)))
    BY <1>5, <2>1, Zenon DEF NewExecution, Triggered
  <2>3. QED
    BY <1>1, <1>5, <2>2, CreateValues, Zenon
<1>6. ASSUME NEW s \in Instance, trigger(s) PROVE Triggered(executions'[i])
  BY <1>3, <1>5, <1>6, TriggerCalls, Zenon DEF CreatePipelineRun, vars
<1>7. CASE Others
  <2>1. ASSUME NEW j, NEW token, Retry(j, token, 0) PROVE Transition({})
    BY <1>1, <2>1, OperationTransitions, Zenon
  <2>2. QED
    BY <1>1, <1>2, <1>3, <1>4, <1>7, <2>1, OperationTransitions, Zenon DEF Others, Tick, SetPipelineRunStatus, Indexes
<1>8. QED
  BY <1>3, <1>6, <1>7, Zenon DEF SchedulerNext, initialize, tick, isActive, callFails, Crash, schedulerVars, vars

-----------------------------------------------------------------------------
(* The invariant is kept.  The definitions never change, so what is said   *)
(* of the next state may be said with the definitions of this one.         *)
LEMMA SameDefinitions ==
  ASSUME definitions' = definitions
  PROVE  /\ Occurrence' = Occurrence
         /\ \A s \in Instance : WellFormed(sched[s], now)' <=> WellFormed(sched'[s], now')
         /\ \A s \in Instance : Answers(sched[s], ran)' <=> Answers(sched'[s], ran')
         /\ \A i \in DOMAIN executions' : Triggered(executions[i])' <=> Triggered(executions'[i])
<1>1. Occurrence' = Occurrence
  BY Zenon DEF Occurrence
<1>2. \A s \in Instance : WellFormed(sched[s], now)' <=> WellFormed(sched'[s], now')
  BY Zenon DEF WellFormed, State, Occurrence, Lists, Planned, First
<1>3. \A s \in Instance : Answers(sched[s], ran)' <=> Answers(sched'[s], ran')
  BY DEF Answers, Accounted, Answered, Seen, Kept, ListOf, CatchUpLimit
<1>4. \A i \in DOMAIN executions' : Triggered(executions[i])' <=> Triggered(executions'[i])
  BY Zenon DEF Triggered, Occurrence, Key
<1>5. QED
  BY <1>1, <1>2, <1>3, <1>4, Zenon

(* One instance advances, or none; the answers of the others stay. *)
LEMMA InstancesKept ==
  ASSUME SchedulerInv, [SchedulerNext]_schedulerVars
  PROVE  /\ DOMAIN sched' = Instance /\ ran' \subseteq Occurrence
         /\ \A s \in Instance : WellFormed(sched'[s], now') /\ (sched'[s].up => Answers(sched'[s], ran'))
<1>1. /\ DOMAIN sched = Instance /\ now \in Nat /\ ran \subseteq Occurrence
      /\ \A s \in Instance : WellFormed(sched[s], now) /\ (sched[s].up => Answers(sched[s], ran))
  BY InvFacts, Zenon
<1>2. now' \in Nat /\ now <= now'
  BY Bounded, Zenon
<1>3. CASE UNCHANGED <<sched, ran>>
  BY <1>1, <1>2, <1>3, WellFormedLater, Zenon
<1>4. ASSUME NEW s \in Instance, Advances(s), ran \subseteq ran', ran' \subseteq Occurrence
      PROVE  /\ DOMAIN sched' = Instance
             /\ \A q \in Instance : WellFormed(sched'[q], now') /\ (sched'[q].up => Answers(sched'[q], ran'))
  <2>1. PICK new : /\ sched' = [sched EXCEPT ![s] = new]
                   /\ WellFormed(new, now) /\ (new.up => Answers(new, ran'))
    BY <1>4, Zenon DEF Advances, Update
  <2>2. DOMAIN sched' = Instance /\ sched'[s] = new /\ \A q \in Instance \ {s} : sched'[q] = sched[q]
    BY <1>1, <2>1, Zenon
  <2>3. ASSUME NEW q \in Instance, sched[q].up PROVE Answers(sched[q], ran')
    <3>1. \A d \in DOMAIN definitions : \A t :
            Answered(sched[q], ran, d, t) => Answered(sched[q], ran', d, t)
      BY <1>4, Zenon DEF Answered
    <3>2. QED
      BY <1>1, <2>3, <3>1, AnswersKept, Zenon
  <2>4. QED
    BY <1>1, <1>2, <2>1, <2>2, <2>3, WellFormedLater, Zenon
<1>5. CASE Others
  BY <1>3, <1>5, Zenon DEF Others
<1>6. CASE UNCHANGED schedulerVars
  BY <1>3, <1>6, Zenon DEF schedulerVars
<1>7. QED
  BY <1>4, <1>5, <1>6, InstanceAdvances, Zenon DEF SchedulerNext

LEMMA SchedulerInitInv == SchedulerInit => SchedulerInv
<1> SUFFICES ASSUME SchedulerInit PROVE SchedulerInv
  BY Zenon
<1>1. IInv /\ IndexesAgree
  BY InitInv DEF SchedulerInit, Init, IndexesAgree
<1>2. now \in Nat /\ now <= MaxTime
  BY SchedulerAssumption, ConstantsAssumption DEF SchedulerInit, Init
<1>3. \A s \in Instance : sched[s] = Stopped
  BY Zenon DEF SchedulerInit
<1>4. SchedulerTypeOK
  <2>1. 0 \in 0..MaxCrashes
    BY SchedulerAssumption
  <2>2. QED
    BY <1>2, <1>3, <2>1, StoppedWellFormed, Zenon DEF SchedulerInit, SchedulerTypeOK
<1>5. \A s \in Instance : ~sched[s].up
  BY <1>2, <1>3, StoppedWellFormed, Zenon
<1>6. DOMAIN executions = {}
  BY DEF SchedulerInit, Init
<1>7. QED
  BY <1>1, <1>2, <1>4, <1>5, <1>6, Zenon DEF SchedulerInv

LEMMA SchedulerNextInv == SchedulerInv /\ [SchedulerNext]_schedulerVars => SchedulerInv'
<1> SUFFICES ASSUME SchedulerInv, [SchedulerNext]_schedulerVars PROVE SchedulerInv'
  BY Zenon
<1>1. IInv' /\ IndexesAgree'
  BY InvFacts, SchedulerStepAllowed, NextInv, IndexStep, Zenon
<1>2. /\ now' <= MaxTime /\ definitions' = definitions /\ crashes' \in 0..MaxCrashes
      /\ definitions \in Configurations
  BY Bounded, InvFacts, Zenon
<1>3. /\ DOMAIN sched' = Instance /\ ran' \subseteq Occurrence
      /\ \A s \in Instance : WellFormed(sched'[s], now') /\ (sched'[s].up => Answers(sched'[s], ran'))
  BY InstancesKept, Zenon
<1>4. SchedulerTypeOK'
  BY <1>2, <1>3, SameDefinitions, Zenon DEF SchedulerTypeOK
<1>5. (\A s \in Instance : sched[s].up => Answers(sched[s], ran))'
  BY <1>2, <1>3, SameDefinitions, Zenon
<1>6. (\A i \in DOMAIN executions : Triggered(executions[i]))'
  BY <1>2, TriggeredKept, SameDefinitions, Zenon
<1>7. QED
  BY <1>1, <1>2, <1>4, <1>5, <1>6, Zenon DEF SchedulerInv

-----------------------------------------------------------------------------
(* The invariant holds of every list of definitions, for any number of     *)
(* instances, with failing calls, crashes, workers and purges in between   *)
(* (Scheduler.Run).                                                        *)
THEOREM SchedulerInvariance == SchedulerSpec => []SchedulerInv
BY SchedulerInitInv, SchedulerNextInv, PTL DEF SchedulerSpec

(* The plan and the next times of an instance stay those of its            *)
(* definitions (initialize, tick, fire).                                   *)
THEOREM SchedulerTypeCorrect == SchedulerSpec => []SchedulerTypeOK
<1>1. SchedulerInv => SchedulerTypeOK
  BY Zenon DEF SchedulerInv
<1>2. QED
  BY <1>1, SchedulerInvariance, PTL

(* However many instances meet an occurrence, the store never holds two    *)
(* executions for it, and none earlier than its instant (fire's key and    *)
(* CreateExecution's uniqueness, scheduling.md:28).                        *)
THEOREM OccurrencesRunOnce == SchedulerSpec => []OneExecutionPerOccurrence
<1>1. SchedulerInv => OneExecutionPerOccurrence
  <2> SUFFICES ASSUME SchedulerInv, NEW i \in DOMAIN executions
               PROVE  /\ executions[i].input.at <= executions[i].createdAt
                      /\ \A j \in DOMAIN executions : executions[i].input = executions[j].input => i = j
    BY Zenon DEF OneExecutionPerOccurrence
  <2>1. \A j \in DOMAIN executions : Triggered(executions[j])
    BY Zenon DEF SchedulerInv
  <2>2. ASSUME NEW j \in DOMAIN executions
        PROVE  idempotent[<<Task, Key(executions[j].input)>>] = j
    <3>1. /\ executions[j].name = Task /\ executions[j].key = Key(executions[j].input)
          /\ executions[j].input \in Occurrence
      BY <2>1, Zenon DEF Triggered
    <3>2. executions[j].key # None
      BY <3>1, InvFacts, RequestAllowed, ConstantsAssumption
    <3>3. QED
      BY <3>1, <3>2, InvFacts, Zenon DEF IndexesAgree
  <2>3. QED
    BY <2>1, <2>2, Zenon DEF Triggered
<1>2. QED
  BY <1>1, SchedulerInvariance, PTL

(* An instance answers for every occurrence from the start of its lookback *)
(* to its next time that the catch-up limit keeps of the list it is in: it *)
(* is triggered, reported or planned, or, unless the policy is catch_up,   *)
(* gave way to a later one of that list; and no occurrence is in no list   *)
(* (initialize, tick, occurrences).                                        *)
THEOREM OccurrencesAnswered == SchedulerSpec => []NoOccurrenceLost
<1>1. SchedulerInv => NoOccurrenceLost
  BY Zenon DEF SchedulerInv, Answers, NoOccurrenceLost
<1>2. QED
  BY <1>1, SchedulerInvariance, PTL

(* The schedulers use the store only as its specification allows: what is  *)
(* proved of the store holds under them (definition.Enqueue, Definition.Run). *)
THEOREM SchedulersKeepStoreContract == SchedulerSpec => Spec
<1>1. SchedulerInit => Init
  BY Zenon DEF SchedulerInit
<1>2. SchedulerInv /\ [SchedulerNext]_schedulerVars => [Next]_vars
  BY SchedulerStepAllowed, Zenon
<1>3. QED
  BY <1>1, <1>2, SchedulerInvariance, PTL DEF SchedulerSpec, Spec

=============================================================================
