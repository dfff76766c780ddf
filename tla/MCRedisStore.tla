----------------------------- MODULE MCRedisStore -----------------------------
(* Small instances of RedisStore. *)
EXTENDS RedisStore, TLC

CONSTANTS w1, w2, o1, o2

MCDescendants == [n \in NodeKey |-> IF n = "a" THEN NodeKey \ {"a"} ELSE {}]
MCInputs == {{}}
MCIdempotencyKey == {<<0, "k">>}  \* comparable with the keys of nodes
MCSymmetry == Permutations(Worker) \cup Permutations(Operator)  \* callers are interchangeable

=============================================================================
