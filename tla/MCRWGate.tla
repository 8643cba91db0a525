------------------------------ MODULE MCRWGate ------------------------------
(* Model-checking instance of RWGate: three request threads (the server   *)
(* runs NUM_TC = 5) and the two monitors of the gate.                      *)
EXTENDS RWGate, TLC

CONSTANTS t1, t2, t3

MCThreads == {t1, t2, t3}
MCMons == {"monLeitores", "monEscritores"}

\* Threads are interchangeable: safety runs may use symmetry.
ThreadSymmetry == Permutations(MCThreads)
=============================================================================
