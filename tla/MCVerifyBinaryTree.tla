------------------------- MODULE MCVerifyBinaryTree --------------------------
(* VerifyBinaryTree on all trees of up to eight leaves and all proofs of up  *)
(* to three siblings: trees of every shape up to the next complete one, and  *)
(* for the smaller ones proofs that are too long.                            *)
EXTENDS VerifyBinaryTree
=============================================================================
