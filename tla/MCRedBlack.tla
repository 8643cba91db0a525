----------------------------- MODULE MCRedBlack -----------------------------
(* Instances of RedBlack for TLC.  Nodes are model values and symmetric:  *)
(* malloc may hand out any free node, and no operation looks at which.     *)
EXTENDS RedBlack, TLC

CONSTANTS r1, r2, r3, r4, r5, r6, r7

MCNodeIds == {r1, r2, r3, r4, r5, r6, r7}

MCSymmetry == Permutations(MCNodeIds)

\* nil's parent pointer is written by every removal whose spliced node has
\* no children (x = nil in RBRemoverNo) and read only later in that same
\* removal, by RepararEliminado: states that differ only there behave alike.
MCView == <<[node EXCEPT ![NIL].pai = NIL], minimo, used>>
=============================================================================
