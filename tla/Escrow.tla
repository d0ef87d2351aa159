------------------------------- MODULE Escrow --------------------------------
(***************************************************************************)
(* What a bridge contract on L1 promises, with no call stack, no revert and *)
(* no proof: it holds what was deposited, and pays a claim at most once and *)
(* only out of what it holds.  Whoever is paid may deposit again in the     *)
(* same transaction, which is why Pay only bounds held' from below.         *)
(***************************************************************************)
EXTENDS Integers

CONSTANTS Claims, Worth

VARIABLES held, paid

Init == held = 0 /\ paid = {}

Deposit ==
    /\ held' \in Nat /\ held' > held
    /\ UNCHANGED paid

Pay(claim) ==
    /\ claim \notin paid
    /\ Worth[claim] <= held
    /\ paid' = paid \union {claim}
    /\ held' \in Nat /\ held' >= held - Worth[claim]

Next == Deposit \/ \E claim \in Claims : Pay(claim)

Spec == Init /\ [][Next]_<<held, paid>>

=============================================================================
