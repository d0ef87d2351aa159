----------------------------- MODULE RateLimit ------------------------------
(***************************************************************************)
(* The withdrawal limiter, as operators.  FuelMessagePortalV3 keeps one    *)
(* for ETH and FuelERC20GatewayV4 one per token; the two contracts hold    *)
(* the same code twice.  A limiter is a record:                            *)
(*    amount   currentPeriodAmount, withdrawn so far in this period        *)
(*    end      currentPeriodEnd, the last second of this period            *)
(*    limit    limitAmount                                                 *)
(* The unchecked 256-bit additions are exact: no balance and no time gets  *)
(* near 2^256.                                                             *)
(***************************************************************************)
EXTENDS Integers

Limiters == [amount : Nat, end : Nat, limit : Nat]

Ended(limiter, time) == limiter.end < time

\* resetRateLimitAmount() with a bug: a running period starts over.
ResetStartingOver(limiter, newLimit, duration, time) ==
    [amount |-> 0, end |-> time + duration, limit |-> newLimit]

\* resetRateLimitAmount() with a bug: it puts off the end of a running period.
ResetExtending(limiter, newLimit, duration, time) ==
    IF Ended(limiter, time)
    THEN [amount |-> 0, end |-> time + duration, limit |-> newLimit]
    ELSE [limiter EXCEPT !.limit = newLimit, !.end = time + duration]

\* resetRateLimitAmount(): the new limit applies at once, but a running period
\* keeps its end and what was withdrawn in it.
Reset(limiter, newLimit, duration, time) ==
    IF Ended(limiter, time)
    THEN [amount |-> 0, end |-> time + duration, limit |-> newLimit]
    ELSE [limiter EXCEPT !.limit = newLimit]

\* _addWithdrawnAmount() with a bug: a new period keeps the old end.
ChargeKeepingEnd(limiter, withdrawn, duration, time) ==
    IF Ended(limiter, time)
    THEN [limiter EXCEPT !.amount = withdrawn]
    ELSE [limiter EXCEPT !.amount = @ + withdrawn]

\* _addWithdrawnAmount() with a bug: it counts down from what is left.
ChargeCountingDown(limiter, withdrawn, duration, time) ==
    IF Ended(limiter, time)
    THEN [limiter EXCEPT !.amount = limiter.limit, !.end = time + duration]
    ELSE [limiter EXCEPT !.amount = @ - withdrawn]

\* _addWithdrawnAmount(), before its check of the limit.
Charge(limiter, withdrawn, duration, time) ==
    IF Ended(limiter, time)
    THEN [limiter EXCEPT !.amount = withdrawn, !.end = time + duration]
    ELSE [limiter EXCEPT !.amount = @ + withdrawn]

\* The check of _addWithdrawnAmount(): the withdrawal is not rejected.
Allows(limiter, withdrawn, duration, time) ==
    Charge(limiter, withdrawn, duration, time).amount <= limiter.limit

=============================================================================
