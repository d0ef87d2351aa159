-------------------------- MODULE MCWithdrawalPath --------------------------
(* WithdrawalPath with two slots and three commits: a message in the block   *)
(* before the end of the first epoch, whose commit is overwritten by the     *)
(* third, and a message in the block that ends the second epoch, which only  *)
(* the third commit proves.                                                  *)
EXTENDS WithdrawalPath

MCMessages == {1, 4}
MCBlockOf == [m \in Messages |-> m]
MCAmount == [m \in Messages |-> 1]
=============================================================================
