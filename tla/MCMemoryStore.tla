---------------------------- MODULE MCMemoryStore ----------------------------
(* Small instances of MemoryStore: a two-node pipeline a -> b. *)
EXTENDS MemoryStore

MCDescendants == [n \in NodeKey |-> IF n = "a" THEN NodeKey \ {"a"} ELSE {}]
MCInputs == {{}}
MCIdempotencyKey == {<<0, "k">>}  \* comparable with the keys of nodes

=============================================================================
