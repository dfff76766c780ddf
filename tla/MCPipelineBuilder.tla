--------------------------- MODULE MCPipelineBuilder ---------------------------
(* Keys for PipelineBuilder: padded is a key that TrimSpace turns into a. *)
EXTENDS PipelineBuilder, TLC

CONSTANTS a, b, c, padded

MCTrim == [key \in RawKey |-> IF key = padded THEN a ELSE key]
MCSymmetry == Permutations({b, c})  \* keys that need no trimming are interchangeable

=============================================================================
