--------------------------- MODULE PipelineBuilder ---------------------------
(***************************************************************************)
(* One *Definition over time: builder functions append nodes to it, and    *)
(* NewRegistry compiles it, perhaps more than once and before it is        *)
(* complete.  A compiled definition is a copy of the slice, but its nodes  *)
(* are the same pointers, and validate rewrites the keys behind them.      *)
(***************************************************************************)
EXTENDS PipelineDefinition

CONSTANT MaxNodes  \* bound on the nodes declared

VARIABLES
  declared,  \* the nodes of the *Definition
  compiled   \* how many of them the last registry holds (-1: there is none)

builderVars == <<declared, compiled>>

BuilderInit == declared = << >> /\ compiled = -1

Declare ==
  /\ Len(declared) < MaxNodes
  /\ \E key \in RawKey, usable \in BOOLEAN :
       /\ usable \/ \A k \in DOMAIN declared : declared[k].usable  \* one unusable node is enough
       /\ \/ declared' = Start(declared, key, usable)
          \/ \E previous \in RawKey : declared' = Then(declared, previous, key, usable)
          \/ \E first, second \in RawKey : declared' = Join2(declared, first, second, key, usable)
  /\ UNCHANGED compiled

(* Refused: the keys before the fault are trimmed all the same. *)
NewRegistry ==
  LET result == validate(declared) IN
  /\ declared' = result.nodes
  /\ compiled' = IF result.valid THEN Len(declared) ELSE compiled

BuilderNext == Declare \/ NewRegistry

BuilderSpec == BuilderInit /\ [][BuilderNext]_builderVars

Faulty_Compiled == declared   \* the registry keeps the *Definition itself

Compiled == SubSeq(declared, 1, compiled)

-----------------------------------------------------------------------------
(* In every definition a registry holds, keys are told apart and, for      *)
(* every root, the single pass of descendantKeys finds exactly the nodes   *)
(* that depend on it, each once and none before a node it depends on.  The *)
(* pass relies on validate refusing forward dependencies, through every    *)
(* order of declarations and compilations and although keys change behind  *)
(* the references that were handed out.                                    *)
RestartNamesDescendants ==
  compiled # -1 =>
    /\ \A j, k \in DOMAIN Compiled : Compiled[j].key = Compiled[k].key => j = k
    /\ \A root \in Keys(Compiled) :
         LET found == descendantKeys(Compiled, root) IN
         /\ ToSet(found) = Reachable(Compiled, root)
         /\ \A j, k \in DOMAIN found : j < k => found[j] # found[k] /\ ~DependsOn(Compiled, found[j], found[k])

(* A run of a compiled definition can always go on: whatever set of nodes  *)
(* has succeeded, some other node has all of its dependencies in it, so    *)
(* Advance is never left with nodes it may not schedule.                   *)
CompiledCanFinish ==
  compiled # -1 =>
    \A done \in SUBSET Keys(Compiled) : done # Keys(Compiled) =>
      \E k \in DOMAIN Compiled : Compiled[k].key \notin done /\ ToSet(Compiled[k].dependencies) \subseteq done

(* What a registry holds does not change under the engine: later builder   *)
(* calls and failed compilations of the same *Definition leave it alone,   *)
(* although they share its nodes (definition.go:196 copies the slice only).*)
CompiledStays == [][compiled # -1 /\ compiled' = compiled => Compiled' = Compiled]_builderVars

=============================================================================
