----------------------------- MODULE MCFuelHost -----------------------------
(* FuelHost with one token whose supply on L1 is larger than a u64.         *)
EXTENDS FuelHost

CONSTANT token

Deposit(k, h, x) == [sender |-> Gateway, kind |-> k, asset |-> token,
                     from |-> CHOOSE d \in Depositors : TRUE, to |-> h, amount |-> x]

\* A deposit too large for a u64, one that calls its receiver, and metadata.
MCTraffic ==
    {Deposit("DEPOSIT_TO_ADDRESS", h, 5) : h \in Users}
    \union {Deposit("DEPOSIT_WITH_DATA", h, 2) : h \in Contracts}
    \union {Deposit("METADATA", h, 0) : h \in Users}

MCSupply == [a \in Assets |-> MaxUint256]
=============================================================================
