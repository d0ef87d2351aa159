-------------------------- MODULE MCFungibleBridge --------------------------
(* FungibleBridge with one token whose supply on L1 is larger than a u64.   *)
EXTENDS FungibleBridge, TLC

CONSTANT token

Symmetry == Permutations(Depositors)
MCSupply == [a \in Assets |-> MaxUint256]
=============================================================================
