--------------------------- MODULE MCERC20Gateway ---------------------------
(* ERC20Gateway with one token that may report two different decimals.      *)
EXTENDS ERC20Gateway

CONSTANTS t1

MCFactors == [t \in Tokens |-> {1, 2}]
MCSupply == [t \in Tokens |-> 6]
=============================================================================
