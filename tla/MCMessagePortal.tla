-------------------------- MODULE MCMessagePortal ---------------------------
(* MessagePortal with two messages that carry ETH and one that carries      *)
(* none, in one block under one root.                                       *)
EXTENDS MessagePortal, TLC

CONSTANTS m1, m2, m3, alice, bob

MCMessages == {m1, m2, m3}
MCAmount ==
    LET amounts == (m1 :> 1) @@ (m2 :> 2) @@ (m3 :> 0) IN
    [m \in Messages |-> amounts[m]]
MCSender == (m1 :> alice) @@ (m2 :> bob) @@ (m3 :> bob)
MCHistory == Roots \X Blocks
MCIncluded == Blocks \X Messages
MCLimits == {4, 6}
MCDepositValues == {0, 2, 3, 4}
=============================================================================
