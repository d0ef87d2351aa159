--------------------------- MODULE MCTokenBridge ----------------------------
(* TokenBridge with one token that may report two different decimals, and   *)
(* deposits that fill the u64 supply.                                       *)
EXTENDS TokenBridge

MCFactors == [t \in Assets |-> {1, 2}]
MCTokenSupply == [t \in Assets |-> 8]
MCSupply == [t \in Assets |-> MaxUint64]
MCFuelAmounts == 0 .. MaxUint64
=============================================================================
