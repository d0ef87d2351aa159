---------------------------- MODULE MCChainState ----------------------------
(* ChainState on two slots, two hashes and four commit heights, so that two *)
(* heights share each slot.                                                 *)
EXTENDS ChainState, TLC

CONSTANTS h1, h2

MCBlockHashes == {h1, h2}

HashSymmetry == Permutations(MCBlockHashes)
=============================================================================
