---------------------------- MODULE RateLimiter -----------------------------
(***************************************************************************)
(* One limiter at work: the holder of SET_RATE_LIMITER_ROLE resets it,     *)
(* withdrawals are charged to it, time passes.  The duration of a period   *)
(* is a variable, as in FuelERC20GatewayV4; with one value in Durations    *)
(* this is the limiter of FuelMessagePortalV3.                             *)
(*                                                                         *)
(* spent, outflow and peak are history: what was withdrawn at each second, *)
(* and, since the running period began, what was withdrawn in all and the  *)
(* largest limit in force.                                                 *)
(***************************************************************************)
EXTENDS RateLimit, Functions

CONSTANTS
    Limits,         \* the amounts the role holder may set
    Durations,      \* the durations the role holder may set
    Withdrawals,    \* the amounts of withdrawals
    GenesisTime,
    MaxTime         \* bound: the largest L1 time

ASSUME LimiterAssumption ==
    /\ Limits \subseteq Nat
    /\ Durations \subseteq Nat
    /\ Withdrawals \subseteq Nat \ {0}
    /\ GenesisTime \in Nat \ {0}
    /\ MaxTime \in Nat
    /\ GenesisTime <= MaxTime

VARIABLES limiter, duration, now, spent, outflow, peak

vars == <<limiter, duration, now, spent, outflow, peak>>

Times == GenesisTime .. MaxTime

\* A limiter nobody has set up, as FuelERC20GatewayV4 leaves it.
InitGateway ==
    /\ limiter = [amount |-> 0, end |-> 0, limit |-> 0]
    /\ duration = 0

\* _setInitParams() of FuelMessagePortalV3.
InitPortal ==
    \E newLimit \in Limits, d \in Durations :
        /\ limiter = [amount |-> 0, end |-> GenesisTime + d, limit |-> newLimit]
        /\ duration = d

Init ==
    /\ InitGateway \/ InitPortal
    /\ now = GenesisTime
    /\ spent = [t \in Times |-> 0]
    /\ outflow = 0
    /\ peak = limiter.limit

resetRateLimitAmount(newLimit, newDuration) ==
    /\ limiter' = Reset(limiter, newLimit, newDuration, now)
    /\ duration' = newDuration
    /\ outflow' = IF Ended(limiter, now) THEN 0 ELSE outflow
    /\ peak' = IF Ended(limiter, now) \/ newLimit > peak THEN newLimit ELSE peak
    /\ UNCHANGED <<now, spent>>

addWithdrawnAmount(withdrawn) ==
    /\ Allows(limiter, withdrawn, duration, now)
    /\ limiter' = Charge(limiter, withdrawn, duration, now)
    /\ spent' = [spent EXCEPT ![now] = @ + withdrawn]
    /\ outflow' = IF Ended(limiter, now) THEN withdrawn ELSE outflow + withdrawn
    /\ peak' = IF Ended(limiter, now) THEN limiter.limit ELSE peak
    /\ UNCHANGED <<duration, now>>

Tick ==
    /\ now < MaxTime
    /\ now' = now + 1
    /\ UNCHANGED <<limiter, duration, spent, outflow, peak>>

Next ==
    \/ \E newLimit \in Limits, d \in Durations : resetRateLimitAmount(newLimit, d)
    \/ \E withdrawn \in Withdrawals : addWithdrawnAmount(withdrawn)
    \/ Tick

Spec == Init /\ [][Next]_vars

\* Time passes.
FairSpec == Spec /\ WF_vars(Tick)

-----------------------------------------------------------------------------
(* Properties *)

\* The shape of the state.
TypeOK ==
    /\ limiter \in Limiters
    /\ duration \in Durations \union {0}
    /\ now \in Times
    /\ spent \in [Times -> Nat]
    /\ outflow \in Nat
    /\ {peak, limiter.limit} \subseteq Limits \union {0}

\* Within a period the withdrawals never exceed the largest limit that was in
\* force during it: lowering the limit and raising it again in the same period
\* releases nothing extra (the comment at FuelMessagePortalV3.sol:90).
PeriodWithinPeak == outflow <= peak

During(from, to) == {t \in Times : from <= t /\ t <= to}

SpentDuring(from, to) == SumFunctionOnSet(spent, During(from, to))

\* shortest is no longer than any period, and largest no lower than any limit.
Extremes(shortest, largest) ==
    /\ \A d \in Durations : shortest <= d
    /\ \A amount \in Limits : amount <= largest

\* Whatever is reset and when, any stretch of time as long as the shortest
\* period lets out at most twice the largest limit.
SlidingWindowBounded ==
    \A from \in Times, shortest \in Durations, largest \in Limits :
        Extremes(shortest, largest)
            => SpentDuring(from, from + shortest) <= 2 * largest

\* However much was withdrawn, and however often the limiter is reset meanwhile,
\* one period later at the latest there is a moment at which any withdrawal
\* within the limit is let through.  One above it waits for another limit.
OpensAgain ==
    (\A d \in Durations : now + d < MaxTime)
        ~> \A w \in Withdrawals : w <= limiter.limit => Allows(limiter, w, duration, now)

=============================================================================
