---------------------------- MODULE MCBlockCache ----------------------------
(* Instance of BlockCache for TLC: three blocks, a cache of two entries, *)
(* two block contents.                                                    *)
EXTENDS BlockCache, TLC

CONSTANTS b1, b2, b3, v1

MCBlocks == {b1, b2, b3}
MCValues == {Zero, v1}

BlockSymmetry == Permutations(MCBlocks)
============================================================================
