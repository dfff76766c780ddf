-------------------------- MODULE ExecutionContract --------------------------
(***************************************************************************)
(* What every Store promises about one execution, whatever it keeps it in  *)
(* (execution/store.go: "MemoryStore, postgres.Store, and redis.Store all  *)
(* implement this contract").  A life is the part of an execution that the *)
(* promise is about; indexes, queues, transactions and the size of batches *)
(* are the business of the stores.  One step of a store may move any       *)
(* number of lives, each by one of the steps below.                        *)
(***************************************************************************)
EXTENDS Integers

CONSTANT Lease  \* the longest lease a delivery is given

VARIABLES
  lives,  \* id -> Life, for the executions that exist
  clock

(* run is the run of a node (0: the execution stands alone), deliveries    *)
(* are the tokens ever handed out, holder the one that owns the lease      *)
(* (0: none) and output the delivery whose result is stored.               *)
Life ==
  [run: Nat,
   status: {"pending", "blocked", "running", "retry", "succeeded", "failed", "cancelled"},
   attempt: Nat, max: Nat \ {0}, deliveries: SUBSET (Nat \ {0}),
   holder: Nat, until: Nat, output: Nat]

Over(life) == life.status \in {"succeeded", "failed", "cancelled"}

Created(life) ==
  /\ life.status = "pending" /\ life.attempt = 0 /\ life.max > 0
  /\ life.deliveries = {} /\ life.holder = 0 /\ life.until = 0 /\ life.output = 0

(* A delivery goes to one new holder, uses one attempt, and takes work     *)
(* from another holder only when the lease of that one has ended.          *)
Delivered(a, b) ==
  /\ \/ a.status \in {"pending", "retry"}
     \/ a.status = "running" /\ a.until <= clock
  /\ a.attempt < a.max
  /\ b.holder \notin a.deliveries \cup {0}
  /\ b.until <= clock + Lease
  /\ b = [a EXCEPT !.status = "running", !.attempt = @ + 1, !.holder = b.holder,
                   !.deliveries = @ \cup {b.holder}, !.until = b.until]

(* The holder keeps its lease; the end of a lease never moves back. *)
Extended(a, b) ==
  /\ a.status = "running"
  /\ a.until <= b.until /\ b.until <= clock + Lease
  /\ b = [a EXCEPT !.until = b.until]

(* The current delivery ends: the result stored is its own, and another    *)
(* attempt is scheduled only while one is left.  A holder may end its      *)
(* delivery at any time, others only after its lease; who calls is not     *)
(* seen here, LeaseProtects of the module Worker is about it.              *)
Concluded(a, b) ==
  /\ a.status = "running"
  /\ b.status \in {"succeeded", "failed"} \cup (IF a.attempt < a.max THEN {"retry"} ELSE {})
  /\ b = [a EXCEPT !.status = b.status, !.holder = 0, !.until = 0,
                   !.output = IF b.status = "succeeded" THEN a.holder ELSE @]

Cancelled(a, b) ==
  /\ ~Over(a)
  /\ b = [a EXCEPT !.status = "cancelled", !.holder = 0, !.until = 0]

(* A restart starts from nothing but keeps the deliveries already made. *)
Restarted(a, b) ==
  /\ Over(a) \/ a.status = "blocked"
  /\ b.status \in {"pending", "blocked"}
  /\ b = [a EXCEPT !.status = b.status, !.attempt = 0, !.output = 0]

Released(a, b) == a.status = "blocked" /\ b = [a EXCEPT !.status = "pending"]

Step(a, b) ==
  \/ Delivered(a, b) \/ Extended(a, b) \/ Concluded(a, b)
  \/ Cancelled(a, b) \/ Restarted(a, b) \/ Released(a, b)

Init == lives = << >> /\ clock \in Nat

(* A node is deleted with its run, and one that stands alone only when it is over. *)
Next ==
  /\ clock' >= clock
  /\ \A i \in DOMAIN lives \ DOMAIN lives' : lives[i].run = 0 => Over(lives[i])
  /\ \A i \in DOMAIN lives' :
       IF i \in DOMAIN lives THEN lives'[i] = lives[i] \/ Step(lives[i], lives'[i])
                             ELSE Created(lives'[i])

Spec == Init /\ [][Next]_<<lives, clock>>

=============================================================================
