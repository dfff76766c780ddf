-------------------------- MODULE MCPipelineEngine --------------------------
(***************************************************************************)
(* Small pipelines for PipelineEngine: a chain a -> b, and a join a, b ->  *)
(* c.  They are what PipelineDefinition makes of these declarations.       *)
(***************************************************************************)
EXTENDS PipelineEngine, PipelineDefinition, TLC

CONSTANT Shape  \* "chain" or "join"

MCRawKey == {"a", " a", "b", "c"}
MCTrim == [key \in MCRawKey |-> IF key = " a" THEN "a" ELSE key]

MCNodeKey == IF Shape = "chain" THEN {"a", "b"} ELSE {"a", "b", "c"}
MCNodes == IF Shape = "chain" THEN <<"a", "b">> ELSE <<"a", "b", "c">>
MCDependencies ==
  IF Shape = "chain" THEN [n \in MCNodeKey |-> IF n = "b" THEN {"a"} ELSE {}]
  ELSE [n \in MCNodeKey |-> IF n = "c" THEN {"a", "b"} ELSE {}]
MCDescendants == [n \in MCNodeKey |-> {m \in MCNodeKey : n \in MCDependencies[m]}]
MCNodeTask == [n \in MCNodeKey |-> [name |-> "t", version |-> 1, max |-> CHOOSE m \in NodeAttempts : TRUE]]
MCInputs == UNION {[MCDependencies[n] -> 0..MaxEvents] : n \in MCNodeKey}
MCSymmetry == Permutations(Coordinator)  \* coordinators are interchangeable

ASSUME DeclaredAsAssumed ==
  LET result == validate(IF Shape = "chain" THEN Then(Start(<< >>, "a", TRUE), "a", "b", TRUE)
                         ELSE Join2(Start(Start(<< >>, " a", TRUE), "b", TRUE), "a", "b", "c", TRUE))
  IN
  /\ result.valid
  /\ MCNodes = [k \in DOMAIN result.nodes |-> result.nodes[k].key]
  /\ \A k \in DOMAIN result.nodes :
       LET n == result.nodes[k].key IN
       /\ MCDependencies[n] = ToSet(result.nodes[k].dependencies)
       /\ MCDescendants[n] = ToSet(descendantKeys(result.nodes, n))

=============================================================================
