------------------------------ MODULE MCWorker ------------------------------
(***************************************************************************)
(* Two loops, of one worker each.                                          *)
(***************************************************************************)
EXTENDS Worker

CONSTANTS l1, l2

MCOwnWorker == [l \in {l1, l2} |-> l]
MCDescendants == [n \in NodeKey |-> {}]
MCInputs == {{}}

=============================================================================
