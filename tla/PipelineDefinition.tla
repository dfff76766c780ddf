-------------------------- MODULE PipelineDefinition --------------------------
(***************************************************************************)
(* How a pipeline is declared (pipeline/definition.go): Start, Then and    *)
(* Join2 append nodes, validate accepts or refuses what was appended, and  *)
(* the engine later walks the accepted nodes once to find what a restart   *)
(* must reset (descendantKeys in pipeline/engine.go).                      *)
(*                                                                         *)
(* A node is its key, the keys it names as dependencies and whether it is  *)
(* usable: its task is valid, its mapper is not nil and its dependencies   *)
(* are nodes of a pipeline with the same name and version.  That check     *)
(* compares names only, so a dependency may be any key at all.             *)
(***************************************************************************)
EXTENDS Integers, Sequences, SequencesExt

CONSTANTS
  RawKey,    \* the keys callers write
  Trim,      \* strings.TrimSpace: raw key -> key
  EmptyKey

ASSUME KeysAssumption ==
  /\ Trim \in [RawKey -> RawKey]
  /\ \A key \in RawKey : Trim[Trim[key]] = Trim[key]

newNode(key, dependencies, usable) == [key |-> key, dependencies |-> dependencies, usable |-> usable]

Start(nodes, key, usable) == Append(nodes, newNode(key, << >>, usable))
Then(nodes, previous, key, usable) == Append(nodes, newNode(key, <<previous>>, usable))
Join2(nodes, first, second, key, usable) == Append(nodes, newNode(key, <<first, second>>, usable))

(* One turn of the loop of validate: the key is trimmed in place, the      *)
(* dependencies are not, and all of them must be among the keys seen.  The *)
(* loop ends at the first node that is refused.                            *)
Accept(state, node) ==
  LET trimmed == [node EXCEPT !.key = Trim[@]] IN
  IF ~state.valid \/ ~node.usable
  THEN [state EXCEPT !.valid = FALSE, !.nodes = Append(@, node)]
  ELSE [valid |-> /\ trimmed.key # EmptyKey
                  /\ trimmed.key \notin state.seen
                  /\ ToSet(node.dependencies) \subseteq state.seen,
        seen |-> state.seen \cup {trimmed.key},
        nodes |-> Append(state.nodes, trimmed)]

(* The verdict, and the nodes as validate leaves them. *)
Faulty_validate(nodes) ==   \* a dependency may be declared anywhere
  LET result == FoldLeft(Accept, [valid |-> TRUE, seen |-> {}, nodes |-> << >>],
                         [k \in DOMAIN nodes |-> [nodes[k] EXCEPT !.dependencies = << >>]])
  IN  [valid |-> result.valid /\ \A k \in DOMAIN nodes : ToSet(nodes[k].dependencies) \subseteq result.seen,
       nodes |-> [k \in DOMAIN nodes |-> [nodes[k] EXCEPT !.key = result.nodes[k].key]]]

validate(nodes) ==
  LET result == FoldLeft(Accept, [valid |-> TRUE, seen |-> {}, nodes |-> << >>], nodes)
  IN  [valid |-> result.valid, nodes |-> result.nodes]

(* The descendants of root in declaration order, found in one pass. *)
Faulty_descendantKeys(nodes, root) ==   \* only what depends on root itself
  FoldLeft(LAMBDA result, node :
             IF node.key # root /\ root \in ToSet(node.dependencies) THEN Append(result, node.key) ELSE result,
           << >>, nodes)

descendantKeys(nodes, root) ==
  FoldLeft(LAMBDA result, node :
             IF node.key # root /\ ToSet(node.dependencies) \cap ({root} \cup ToSet(result)) # {}
             THEN Append(result, node.key) ELSE result,
           << >>, nodes)

-----------------------------------------------------------------------------
(* The graph, without a word about declaration order. *)
Keys(nodes) == {nodes[k].key : k \in DOMAIN nodes}

DependsOn(nodes, n, m) == \E k \in DOMAIN nodes : nodes[k].key = n /\ m \in ToSet(nodes[k].dependencies)

(* The nodes at the end of a chain of dependencies that begins at root. *)
Reachable(nodes, root) ==
  {n \in Keys(nodes) \ {root} :
     \E chain \in UNION {[1..len -> Keys(nodes)] : len \in 2..Len(nodes)} :
       /\ chain[1] = root /\ chain[Len(chain)] = n
       /\ \A k \in 1..(Len(chain) - 1) : DependsOn(nodes, chain[k + 1], chain[k])}

=============================================================================
