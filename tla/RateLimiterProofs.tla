------------------------- MODULE RateLimiterProofs --------------------------
(***************************************************************************)
(* The bounds on what a period and a window of time let out, for every     *)
(* limit and every duration the role holder may choose, at every moment it *)
(* may choose them.                                                        *)
(*                                                                         *)
(* PeriodWithinPeak is not inductive: it needs that the contract's count   *)
(* of the period is the real one, and that the limit a withdrawal is       *)
(* compared with is never above the peak.                                  *)
(*                                                                         *)
(* For the window, WindowInv says where the running period began and what  *)
(* the time before it let out (BeganAt): a window no longer than a period  *)
(* meets at most two of them.                                              *)
(***************************************************************************)
EXTENDS RateLimiter, SumTheorems, TLAPS

CountIsExact ==
    /\ limiter.amount = outflow
    /\ limiter.limit <= peak

IInv == TypeOK /\ CountIsExact /\ PeriodWithinPeak

LEMMA Naturals ==
    /\ \A n \in Limits \union {0} : n \in Nat
    /\ \A d \in Durations \union {0} : d \in Nat
    /\ \A w \in Withdrawals : w \in Nat
    /\ \A t \in Times : t \in Nat
BY LimiterAssumption DEF Times

LEMMA InitIInv ==
    ASSUME Init
    PROVE  IInv
<1>1. /\ limiter \in Limiters /\ limiter.amount = 0
      /\ limiter.limit \in Limits \union {0}
      /\ duration \in Durations \union {0}
  <2>1. CASE InitGateway
    BY <2>1 DEF InitGateway, Limiters
  <2>2. CASE InitPortal
    <3>1. PICK newLimit \in Limits, d \in Durations :
            /\ limiter = [amount |-> 0, end |-> GenesisTime + d, limit |-> newLimit]
            /\ duration = d
      BY <2>2 DEF InitPortal
    <3>2. newLimit \in Nat /\ GenesisTime + d \in Nat
      BY LimiterAssumption
    <3> QED
      BY <3>1, <3>2 DEF Limiters
  <2> QED
    BY <2>1, <2>2 DEF Init
<1>2. TypeOK
  <2>1. GenesisTime \in Times
    BY LimiterAssumption DEF Times
  <2> QED
    BY <1>1, <2>1 DEF Init, TypeOK
<1>3. CountIsExact /\ PeriodWithinPeak
  <2>1. limiter.limit \in Nat
    BY <1>1, Naturals
  <2> QED
    BY <1>1, <2>1 DEF Init, CountIsExact, PeriodWithinPeak
<1> QED
  BY <1>2, <1>3 DEF IInv

LEMMA ResetIInv ==
    ASSUME IInv,
           NEW newLimit \in Limits, NEW d \in Durations,
           resetRateLimitAmount(newLimit, d)
    PROVE  IInv'
<1>1. /\ newLimit \in Nat /\ d \in Nat /\ now \in Nat /\ peak \in Nat
      /\ limiter \in Limiters /\ outflow \in Nat
  BY Naturals DEF IInv, TypeOK
<1>2. CASE Ended(limiter, now)
  <2>1. /\ limiter' = [amount |-> 0, end |-> now + d, limit |-> newLimit]
        /\ outflow' = 0 /\ peak' = newLimit
        /\ duration' = d /\ UNCHANGED <<now, spent>>
    BY <1>2 DEF resetRateLimitAmount, Reset
  <2>2. limiter' \in Limiters
    BY <1>1, <2>1 DEF Limiters
  <2> QED
    BY <1>1, <2>1, <2>2 DEF IInv, TypeOK, CountIsExact, PeriodWithinPeak
<1>3. CASE ~Ended(limiter, now)
  <2>1. /\ limiter' = [limiter EXCEPT !.limit = newLimit]
        /\ outflow' = outflow
        /\ peak' = IF newLimit > peak THEN newLimit ELSE peak
        /\ duration' = d /\ UNCHANGED <<now, spent>>
    BY <1>3 DEF resetRateLimitAmount, Reset
  <2>2. /\ limiter' \in Limiters
        /\ limiter'.amount = limiter.amount /\ limiter'.limit = newLimit
    BY <1>1, <2>1 DEF Limiters
  <2> QED
    BY <1>1, <2>1, <2>2 DEF IInv, TypeOK, CountIsExact, PeriodWithinPeak
<1> QED
  BY <1>2, <1>3

LEMMA ChargeIInv ==
    ASSUME IInv, NEW withdrawn \in Withdrawals, addWithdrawnAmount(withdrawn)
    PROVE  IInv'
<1>1. /\ withdrawn \in Nat /\ now \in Times /\ now \in Nat /\ peak \in Nat
      /\ duration \in Nat /\ limiter \in Limiters /\ outflow \in Nat
      /\ limiter.limit \in Nat /\ spent \in [Times -> Nat]
  BY Naturals DEF IInv, TypeOK, Limiters
<1>2. spent' \in [Times -> Nat]
  BY <1>1 DEF addWithdrawnAmount
<1>3. CASE Ended(limiter, now)
  <2>1. /\ limiter' = [limiter EXCEPT !.amount = withdrawn, !.end = now + duration]
        /\ limiter'.amount <= limiter.limit
        /\ outflow' = withdrawn /\ peak' = limiter.limit
        /\ UNCHANGED <<duration, now>>
    BY <1>3 DEF addWithdrawnAmount, Charge, Allows
  <2>2. /\ limiter' \in Limiters
        /\ limiter'.amount = withdrawn /\ limiter'.limit = limiter.limit
    <3>1. now + duration \in Nat
      BY <1>1
    <3>2. limiter' = [amount |-> withdrawn, end |-> now + duration,
                      limit |-> limiter.limit]
      BY <1>1, <2>1 DEF Limiters
    <3> QED
      BY <1>1, <3>1, <3>2 DEF Limiters
  <2>3. limiter.limit \in Limits \union {0}
    BY DEF IInv, TypeOK
  <2> QED
    BY <1>1, <1>2, <2>1, <2>2, <2>3 DEF IInv, TypeOK, CountIsExact, PeriodWithinPeak
<1>4. CASE ~Ended(limiter, now)
  <2>1. /\ limiter' = [limiter EXCEPT !.amount = @ + withdrawn]
        /\ limiter'.amount <= limiter.limit
        /\ outflow' = outflow + withdrawn /\ peak' = peak
        /\ UNCHANGED <<duration, now>>
    BY <1>4 DEF addWithdrawnAmount, Charge, Allows
  <2>2. /\ limiter' \in Limiters
        /\ limiter'.amount = limiter.amount + withdrawn
        /\ limiter'.limit = limiter.limit
    BY <1>1, <2>1 DEF Limiters
  <2> QED
    BY <1>1, <1>2, <2>1, <2>2 DEF IInv, TypeOK, CountIsExact, PeriodWithinPeak
<1> QED
  BY <1>3, <1>4

LEMMA NextIInv ==
    ASSUME IInv, [Next]_vars
    PROVE  IInv'
<1>1. CASE Tick
  <2>1. now' \in Times
    BY <1>1, LimiterAssumption DEF Tick, Times, IInv, TypeOK
  <2> QED
    BY <1>1, <2>1 DEF Tick, IInv, TypeOK, CountIsExact, PeriodWithinPeak
<1>2. CASE UNCHANGED vars
  BY <1>2 DEF vars, IInv, TypeOK, CountIsExact, PeriodWithinPeak
<1> QED
  BY <1>1, <1>2, ResetIInv, ChargeIInv DEF Next

\* At any moment, whatever the role holder did to the limit and whenever, the
\* withdrawals of the running period add up to no more than the largest limit
\* that was in force during it.
THEOREM PeriodOutflowBounded == Spec => []PeriodWithinPeak
<1>1. IInv => PeriodWithinPeak
  BY DEF IInv
<1> QED
  BY <1>1, InitIInv, NextIInv, PTL DEF Spec

-----------------------------------------------------------------------------
(* Sums over stretches of time *)

Over(f, from, to) == SumFunctionOnSet(f, During(from, to))

LEMMA DuringFinite ==
    ASSUME NEW from, NEW to
    PROVE  During(from, to) \subseteq Times /\ IsFiniteSet(During(from, to))
<1>1. IsFiniteSet(Times)
  BY LimiterAssumption, FS_Interval DEF Times
<1>2. During(from, to) \subseteq Times
  BY DEF During
<1> QED
  BY <1>1, <1>2, FS_Subset

LEMMA OverNat ==
    ASSUME NEW f \in [Times -> Nat], NEW from, NEW to
    PROVE  Over(f, from, to) \in Nat
<1>1. \A t \in During(from, to) : f[t] \in Nat
  BY DuringFinite
<1> QED
  BY <1>1, DuringFinite, SumNat DEF Over

\* A stretch lets out no more than a longer one.
LEMMA OverPart ==
    ASSUME NEW f \in [Times -> Nat], NEW a \in Int, NEW b \in Int,
           NEW c \in Int, NEW d \in Int, c <= a, b <= d \/ MaxTime <= d
    PROVE  Over(f, a, b) <= Over(f, c, d)
<1>1. During(a, b) \in SUBSET During(c, d)
  <2> SUFFICES ASSUME NEW t \in During(a, b)
               PROVE  t \in During(c, d)
    OBVIOUS
  <2>1. t \in Times /\ t \in Int /\ t <= MaxTime /\ a <= t /\ t <= b /\ MaxTime \in Int
    BY LimiterAssumption DEF During, Times
  <2>2. c <= t /\ t <= d
    BY <2>1
  <2> QED
    BY <2>1, <2>2 DEF During
<1>2. \A t \in During(c, d) : f[t] \in Nat
  BY DuringFinite
<1> QED
  BY <1>1, <1>2, DuringFinite, SumOfPart DEF Over

\* A stretch is cut in two before the time s.
LEMMA OverSplit ==
    ASSUME NEW f \in [Times -> Nat], NEW a \in Int, NEW b \in Int,
           NEW s \in Int, a <= s, s <= b
    PROVE  Over(f, a, b) = Over(f, a, s - 1) + Over(f, s, b)
<1> DEFINE R == During(a, s - 1)
           S == During(s, b)
<1>1. \A t \in Times : t \in Int
  BY LimiterAssumption DEF Times
<1>2. During(a, b) = R \union S /\ R \intersect S = {}
  BY <1>1 DEF During
<1>3. IsFiniteSet(R) /\ IsFiniteSet(S) /\ \A t \in R \union S : f[t] \in Int
  BY DuringFinite
<1>4. Over(f, a, s - 1) = SumFunctionOnSet(f, R) /\ Over(f, s, b) = SumFunctionOnSet(f, S)
      /\ Over(f, a, b) = SumFunctionOnSet(f, R \union S)
  BY <1>2 DEF Over
<1> HIDE DEF R, S
<1> QED
  BY <1>2, <1>3, <1>4, SumUnion

\* g is f with w more withdrawn at time t.
Withdraws(g, f, t, w) == g = [f EXCEPT ![t] = @ + w]

\* A withdrawal at time t counts in the stretches that t is in.
LEMMA OverCharge ==
    ASSUME NEW f \in [Times -> Nat], NEW t \in Times, NEW w \in Nat, NEW g,
           Withdraws(g, f, t, w), NEW a, NEW b
    PROVE  Over(g, a, b) = IF t \in During(a, b) THEN Over(f, a, b) + w ELSE Over(f, a, b)
<1> DEFINE S == During(a, b)
<1>1. /\ IsFiniteSet(S) /\ S \subseteq Times
      /\ \A x \in S : f[x] \in Int
  BY DuringFinite
<1>2. g[t] = f[t] + w /\ g[t] \in Int /\ \A x \in Times \ {t} : g[x] = f[x]
  BY DEF Withdraws
<1>3. Over(f, a, b) = SumFunctionOnSet(f, S) /\ Over(g, a, b) = SumFunctionOnSet(g, S)
  BY DEF Over
<1>4. Over(f, a, b) \in Int /\ f[t] \in Int
  BY OverNat
<1> SUFFICES Over(g, a, b) = IF t \in S THEN Over(f, a, b) + w ELSE Over(f, a, b)
  OBVIOUS
<1> HIDE DEF S
<1>5. CASE t \in S
  <2>1. \A x \in S \ {t} : g[x] = f[x]
    BY <1>1, <1>2
  <2>2. IsFiniteSet(S) /\ (\A x \in S : f[x] \in Int) /\ g[t] \in Int
    BY <1>1, <1>2
  <2>3. SumFunctionOnSet(g, S) = SumFunctionOnSet(f, S) - f[t] + g[t]
    BY <1>5, <2>1, <2>2, SumChange
  <2> QED
    BY <1>2, <1>3, <1>4, <1>5, <2>3
<1>6. CASE t \notin S
  <2>1. \A x \in S : f[x] = g[x]
    BY <1>1, <1>2, <1>6
  <2> QED
    BY <1>1, <1>3, <1>6, <2>1, SumSame
<1> QED
  BY <1>5, <1>6

LEMMA OverNothing ==
    ASSUME NEW f \in [Times -> Nat], NEW a, NEW b, \A t \in During(a, b) : f[t] = 0
    PROVE  Over(f, a, b) = 0
BY DuringFinite, SumZero DEF Over

-----------------------------------------------------------------------------
(* A stretch of time meets at most two periods *)

\* The running period began at start: the count of the limiter is all that was
\* withdrawn since, and the shortest period before it let out one limit.
BeganAt(start, f, out, end, time, shortest, largest) ==
    /\ start \in Int
    /\ start <= time
    /\ start + shortest <= end
    /\ Over(f, start, MaxTime) = out
    /\ Over(f, start - shortest, start - 1) <= largest

\* Nothing was withdrawn after the running period, and nobody withdraws before
\* a limit and a duration were set.
NothingLater == \A t \in Times : spent[t] # 0 => t <= limiter.end

SetUp == limiter.limit # 0 => duration \in Durations

PeriodsApart ==
    \A shortest \in Durations, largest \in Limits :
        Extremes(shortest, largest) =>
            \E start \in Int :
                BeganAt(start, spent, outflow, limiter.end, now, shortest, largest)

WindowInv ==
    /\ IInv
    /\ NothingLater
    /\ SetUp
    /\ PeriodsApart
    /\ SlidingWindowBounded

LEMMA WindowOfTwoPeriods ==
    ASSUME NEW f \in [Times -> Nat], NEW shortest \in Nat, NEW largest \in Nat,
           NEW out \in Nat, NEW end \in Nat, NEW time \in Times, NEW start,
           BeganAt(start, f, out, end, time, shortest, largest), out <= largest,
           NEW from \in Times, time \in During(from, from + shortest)
    PROVE  Over(f, from, from + shortest) <= 2 * largest
<1>1. /\ start \in Int /\ start <= time /\ from \in Int /\ time \in Int
      /\ from <= time /\ time <= from + shortest /\ MaxTime \in Int
      /\ start - shortest \in Int /\ start - 1 \in Int /\ from + shortest \in Int
  BY LimiterAssumption DEF BeganAt, During, Times
<1>2. /\ Over(f, start, MaxTime) = out
      /\ Over(f, start - shortest, start - 1) <= largest
  BY DEF BeganAt
<1>3. Over(f, start, from + shortest) <= out
  BY <1>1, <1>2, OverPart
<1>4. CASE start <= from
  <2>1. Over(f, from, from + shortest) <= Over(f, start, from + shortest)
    BY <1>1, <1>4, OverPart
  <2>2. Over(f, from, from + shortest) \in Nat /\ Over(f, start, from + shortest) \in Nat
    BY OverNat
  <2> QED
    BY <1>3, <2>1, <2>2
<1>5. CASE from < start
  <2>1. Over(f, from, from + shortest)
          = Over(f, from, start - 1) + Over(f, start, from + shortest)
    <3>1. from <= start /\ start <= from + shortest
      BY <1>1, <1>5
    <3> QED
      BY <1>1, <3>1, OverSplit
  <2>2. Over(f, from, start - 1) <= Over(f, start - shortest, start - 1)
    <3>1. start - shortest <= from
      BY <1>1
    <3> QED
      BY <1>1, <3>1, OverPart
  <2>3. /\ Over(f, from, start - 1) \in Nat /\ Over(f, start, from + shortest) \in Nat
        /\ Over(f, start - shortest, start - 1) \in Nat
    BY OverNat
  <2> QED
    BY <1>2, <1>3, <2>1, <2>2, <2>3
<1> QED
  BY <1>1, <1>4, <1>5

\* A period that begins when another has ended: the new one starts now, and the
\* shortest period before now lies in the old one.
LEMMA NextPeriodBegins ==
    ASSUME NEW f \in [Times -> Nat], NEW shortest \in Nat, NEW largest \in Nat,
           NEW out \in Nat, NEW end \in Nat, NEW time \in Times, NEW start,
           BeganAt(start, f, out, end, time, shortest, largest), out <= largest,
           end < time
    PROVE  Over(f, time - shortest, time - 1) <= largest
<1>1. /\ start \in Int /\ time \in Int /\ MaxTime \in Int /\ time <= MaxTime
      /\ start + shortest <= end
      /\ time - shortest \in Int /\ time - 1 \in Int
  BY LimiterAssumption DEF BeganAt, Times
<1>2. start <= time - shortest
  BY <1>1
<1>3. Over(f, time - shortest, time - 1) <= Over(f, start, MaxTime)
  BY <1>1, <1>2, OverPart
<1>4. Over(f, time - shortest, time - 1) \in Nat /\ Over(f, start, MaxTime) = out
  BY OverNat DEF BeganAt
<1> QED
  BY <1>3, <1>4

LEMMA BelowPeak ==
    ASSUME IInv, NEW shortest \in Durations, NEW largest \in Limits,
           Extremes(shortest, largest)
    PROVE  /\ shortest \in Nat /\ largest \in Nat
           /\ outflow \in Nat /\ outflow <= largest
           /\ limiter.end \in Nat /\ now \in Times
           /\ \A d \in Durations : d \in Nat /\ shortest <= d
<1>1. shortest \in Nat /\ largest \in Nat /\ \A d \in Durations : d \in Nat
  BY LimiterAssumption
<1>2. peak \in Nat /\ peak <= largest
  <2>1. peak \in Limits \union {0}
    BY DEF IInv, TypeOK
  <2> QED
    BY <1>1, <2>1, LimiterAssumption DEF Extremes
<1>3. outflow \in Nat /\ outflow <= peak /\ limiter.end \in Nat /\ now \in Times
  BY DEF IInv, TypeOK, PeriodWithinPeak, Limiters
<1> QED
  BY <1>1, <1>2, <1>3 DEF Extremes

LEMMA ExtremesStay ==
    ASSUME NEW shortest, NEW largest
    PROVE  Extremes(shortest, largest)' = Extremes(shortest, largest)
BY DEF Extremes

LEMMA NothingSpentAtFirst ==
    ASSUME spent = [t \in Times |-> 0]
    PROVE  spent \in [Times -> Nat] /\ \A a, b : Over(spent, a, b) = 0
<1>1. spent \in [Times -> Nat] /\ \A t \in Times : spent[t] = 0
  OBVIOUS
<1>2. ASSUME NEW a, NEW b
      PROVE  Over(spent, a, b) = 0
  <2>1. \A t \in During(a, b) : spent[t] = 0
    BY <1>1, DuringFinite
  <2> QED
    BY <1>1, <2>1, OverNothing
<1> QED
  BY <1>1, <1>2

LEMMA InitWindowInv ==
    ASSUME Init
    PROVE  WindowInv
<1>1. /\ IInv /\ now = GenesisTime /\ spent = [t \in Times |-> 0] /\ outflow = 0
      /\ spent \in [Times -> Nat] /\ \A a, b : Over(spent, a, b) = 0
  BY InitIInv, NothingSpentAtFirst DEF Init
<1>2. NothingLater
  BY <1>1 DEF NothingLater
<1>3. SetUp
  <2>1. CASE InitGateway
    BY <2>1 DEF InitGateway, SetUp
  <2>2. CASE InitPortal
    BY <2>2 DEF InitPortal, SetUp
  <2> QED
    BY <2>1, <2>2 DEF Init
<1>4. PeriodsApart
  <2> SUFFICES ASSUME NEW shortest \in Durations, NEW largest \in Limits,
                      Extremes(shortest, largest)
               PROVE  \E start \in Int :
                        BeganAt(start, spent, outflow, limiter.end, now, shortest, largest)
    BY DEF PeriodsApart
  <2>1. shortest \in Nat /\ largest \in Nat /\ GenesisTime \in Nat
    BY LimiterAssumption
  <2>2. CASE InitGateway
    <3>1. limiter.end = 0 /\ 0 - shortest \in Int /\ 0 - shortest <= now
          /\ (0 - shortest) + shortest <= 0
      BY <1>1, <2>1, <2>2 DEF InitGateway
    <3>2. BeganAt(0 - shortest, spent, outflow, limiter.end, now, shortest, largest)
      BY <1>1, <2>1, <3>1 DEF BeganAt
    <3> QED
      BY <3>1, <3>2
  <2>3. CASE InitPortal
    <3>1. PICK d \in Durations : limiter.end = GenesisTime + d
      BY <2>3 DEF InitPortal
    <3>2. shortest <= d /\ d \in Nat
      BY LimiterAssumption DEF Extremes
    <3>3. GenesisTime \in Int /\ GenesisTime <= now /\ GenesisTime + shortest <= limiter.end
      BY <1>1, <2>1, <3>1, <3>2
    <3>4. BeganAt(GenesisTime, spent, outflow, limiter.end, now, shortest, largest)
      BY <1>1, <2>1, <3>3 DEF BeganAt
    <3> QED
      BY <3>3, <3>4
  <2> QED
    BY <2>2, <2>3 DEF Init
<1>5. SlidingWindowBounded
  <2> SUFFICES ASSUME NEW from \in Times, NEW shortest \in Durations,
                      NEW largest \in Limits
               PROVE  SpentDuring(from, from + shortest) <= 2 * largest
    BY DEF SlidingWindowBounded
  <2>1. SpentDuring(from, from + shortest) = 0 /\ largest \in Nat
    BY <1>1, LimiterAssumption DEF SpentDuring, Over
  <2> QED
    BY <2>1
<1> QED
  BY <1>1, <1>2, <1>3, <1>4, <1>5 DEF WindowInv

\* A step that withdraws nothing and begins no period.
LEMMA QuietWindowInv ==
    ASSUME WindowInv, IInv', SetUp', UNCHANGED <<spent, outflow>>,
           limiter'.end = limiter.end, now' >= now
    PROVE  WindowInv'
<1>1. NothingLater'
  BY DEF WindowInv, NothingLater, Times
<1>2. PeriodsApart'
  <2> SUFFICES ASSUME NEW shortest \in Durations, NEW largest \in Limits,
                      Extremes(shortest, largest)
               PROVE  \E start \in Int :
                        BeganAt(start, spent', outflow', limiter'.end, now', shortest, largest)
    BY ExtremesStay DEF PeriodsApart, BeganAt, Over, During, Times
  <2>1. PICK start \in Int :
            BeganAt(start, spent, outflow, limiter.end, now, shortest, largest)
    BY DEF WindowInv, PeriodsApart
  <2>2. start <= now /\ now \in Nat /\ now' \in Nat
    BY <2>1, LimiterAssumption DEF BeganAt, WindowInv, IInv, TypeOK, Times
  <2>3. start <= now'
    BY <2>2
  <2>4. BeganAt(start, spent', outflow', limiter'.end, now', shortest, largest)
    BY <2>1, <2>3 DEF BeganAt
  <2> QED
    BY <2>4
<1>3. SlidingWindowBounded'
  BY DEF WindowInv, SlidingWindowBounded, SpentDuring, During, Times, Extremes
<1> QED
  BY <1>1, <1>2, <1>3 DEF WindowInv

\* A new period begins now, with w withdrawn at once.
LEMMA NewWindowInv ==
    ASSUME WindowInv, IInv', SetUp', Ended(limiter, now), UNCHANGED now,
           NEW w \in Nat, Withdraws(spent', spent, now, w), outflow' = w,
           NEW d \in Durations, limiter'.end = now + d
    PROVE  WindowInv'
<1>1. /\ spent \in [Times -> Nat] /\ spent' \in [Times -> Nat]
      /\ now \in Times /\ now \in Nat /\ d \in Nat /\ now <= MaxTime /\ MaxTime \in Nat
      /\ limiter.end < now /\ limiter.end \in Nat
      /\ limiter'.end = now + d
  BY LimiterAssumption DEF WindowInv, IInv, TypeOK, Times, Ended, Limiters, Withdraws
<1>2. /\ spent'[now] = spent[now] + w
      /\ \A t \in Times \ {now} : spent'[t] = spent[t]
  BY <1>1 DEF Withdraws
<1>3. \A t \in Times : t \in Int /\ (t >= now => spent[t] = 0)
  <2> SUFFICES ASSUME NEW t \in Times
               PROVE  t \in Int /\ (t >= now => spent[t] = 0)
    OBVIOUS
  <2>1. t \in Int
    BY LimiterAssumption DEF Times
  <2> QED
    BY <1>1, <2>1 DEF WindowInv, NothingLater
<1>4. NothingLater'
  <2> SUFFICES ASSUME NEW t \in Times, spent'[t] # 0
               PROVE  t <= now + d
    BY <1>1 DEF NothingLater, Times
  <2>1. CASE t = now
    BY <1>1, <2>1
  <2>2. CASE t # now
    <3>1. t \in Int /\ ~(t >= now)
      BY <1>2, <1>3, <2>2
    <3> QED
      BY <1>1, <3>1
  <2> QED
    BY <2>1, <2>2
<1>5. ASSUME NEW shortest \in Durations, NEW largest \in Limits,
             Extremes(shortest, largest)
      PROVE  BeganAt(now, spent', outflow', limiter'.end, now', shortest, largest)
  <2>0. /\ shortest \in Nat /\ largest \in Nat /\ outflow \in Nat /\ outflow <= largest
        /\ shortest <= d
    BY <1>5, BelowPeak DEF WindowInv
  <2>1. PICK start \in Int :
            BeganAt(start, spent, outflow, limiter.end, now, shortest, largest)
    BY <1>5 DEF WindowInv, PeriodsApart
  <2>2. Over(spent, now - shortest, now - 1) <= largest
    BY <1>1, <2>0, <2>1, NextPeriodBegins
  <2>3. Over(spent', now - shortest, now - 1) = Over(spent, now - shortest, now - 1)
    <3>1. now \notin During(now - shortest, now - 1)
      BY <1>1 DEF During
    <3> QED
      BY <1>1, <3>1, OverCharge
  <2>4. Over(spent', now, MaxTime) = w
    <3>1. now \in During(now, MaxTime)
      BY <1>1 DEF During
    <3>2. \A t \in During(now, MaxTime) : spent[t] = 0
      BY <1>3 DEF During
    <3>3. Over(spent, now, MaxTime) = 0
      BY <1>1, <3>2, OverNothing
    <3>4. Over(spent', now, MaxTime) = Over(spent, now, MaxTime) + w
      BY <1>1, <3>1, OverCharge
    <3> QED
      BY <3>3, <3>4
  <2>5. now \in Int /\ now <= now' /\ now + shortest <= limiter'.end
    BY <1>1, <2>0
  <2> QED
    BY <2>2, <2>3, <2>4, <2>5 DEF BeganAt
<1>6. PeriodsApart'
  BY <1>1, <1>5, ExtremesStay DEF PeriodsApart, BeganAt, Over, During, Times
<1>7. SlidingWindowBounded'
  <2> SUFFICES ASSUME NEW from \in Times, NEW shortest \in Durations,
                      NEW largest \in Limits, Extremes(shortest, largest)
               PROVE  Over(spent', from, from + shortest) <= 2 * largest
    BY ExtremesStay DEF SlidingWindowBounded, SpentDuring, Over, During, Times
  <2>1. Over(spent, from, from + shortest) <= 2 * largest
    BY DEF WindowInv, SlidingWindowBounded, SpentDuring, Over
  <2>2. CASE now \in During(from, from + shortest)
    <3>1. /\ shortest \in Nat /\ largest \in Nat /\ limiter'.end \in Nat
      BY <1>1, BelowPeak DEF WindowInv
    <3>2. w <= largest
      <4>1. peak' \in Limits \union {0} /\ w <= peak'
        BY DEF IInv, TypeOK, PeriodWithinPeak
      <4> QED
        BY <3>1, <4>1, LimiterAssumption DEF Extremes
    <3>3. BeganAt(now, spent', w, limiter'.end, now, shortest, largest)
      BY <1>5
    <3> QED
      BY <1>1, <2>2, <3>1, <3>2, <3>3, WindowOfTwoPeriods
  <2>3. CASE now \notin During(from, from + shortest)
    BY <1>1, <2>1, <2>3, OverCharge
  <2> QED
    BY <2>2, <2>3
<1> QED
  BY <1>4, <1>6, <1>7 DEF WindowInv

\* A withdrawal in the running period.
LEMMA SameWindowInv ==
    ASSUME WindowInv, IInv', SetUp', ~Ended(limiter, now), UNCHANGED now,
           NEW w \in Nat, Withdraws(spent', spent, now, w),
           outflow' = outflow + w, limiter'.end = limiter.end
    PROVE  WindowInv'
<1>1. /\ spent \in [Times -> Nat] /\ spent' \in [Times -> Nat]
      /\ now \in Times /\ now \in Nat /\ now <= MaxTime /\ MaxTime \in Nat
      /\ now <= limiter.end /\ limiter.end \in Nat
  BY LimiterAssumption DEF WindowInv, IInv, TypeOK, Times, Ended, Limiters, Withdraws
<1>2. /\ \A t \in Times \ {now} : spent'[t] = spent[t]
  BY <1>1 DEF Withdraws
<1>3. NothingLater'
  <2> SUFFICES ASSUME NEW t \in Times, spent'[t] # 0
               PROVE  t <= limiter.end
    BY DEF NothingLater, Times
  <2> QED
    BY <1>1, <1>2 DEF WindowInv, NothingLater
<1>4. ASSUME NEW shortest \in Durations, NEW largest \in Limits,
             Extremes(shortest, largest)
      PROVE  \E start \in Int :
                BeganAt(start, spent', outflow', limiter'.end, now', shortest, largest)
  <2>1. PICK start \in Int :
            BeganAt(start, spent, outflow, limiter.end, now, shortest, largest)
    BY <1>4 DEF WindowInv, PeriodsApart
  <2>2. Over(spent', start - shortest, start - 1) = Over(spent, start - shortest, start - 1)
    <3>1. start <= now
      BY <2>1 DEF BeganAt
    <3>2. now \notin During(start - shortest, start - 1)
      BY <1>1, <3>1 DEF During
    <3> QED
      BY <1>1, <3>2, OverCharge
  <2>3. Over(spent', start, MaxTime) = Over(spent, start, MaxTime) + w
    <3>1. now \in During(start, MaxTime)
      BY <1>1, <2>1 DEF During, BeganAt
    <3> QED
      BY <1>1, <3>1, OverCharge
  <2> QED
    BY <2>1, <2>2, <2>3 DEF BeganAt
<1>5. PeriodsApart'
  BY <1>4, ExtremesStay DEF PeriodsApart, BeganAt, Over, During, Times
<1>6. SlidingWindowBounded'
  <2> SUFFICES ASSUME NEW from \in Times, NEW shortest \in Durations,
                      NEW largest \in Limits, Extremes(shortest, largest)
               PROVE  Over(spent', from, from + shortest) <= 2 * largest
    BY ExtremesStay DEF SlidingWindowBounded, SpentDuring, Over, During, Times
  <2>1. Over(spent, from, from + shortest) <= 2 * largest
    BY DEF WindowInv, SlidingWindowBounded, SpentDuring, Over
  <2>2. CASE now \in During(from, from + shortest)
    <3>1. /\ shortest \in Nat /\ largest \in Nat
          /\ outflow' \in Nat /\ limiter'.end \in Nat
      BY BelowPeak DEF WindowInv, IInv, TypeOK, Limiters
    <3>2. outflow' <= largest
      <4>1. peak' \in Limits \union {0} /\ outflow' <= peak'
        BY DEF IInv, TypeOK, PeriodWithinPeak
      <4> QED
        BY <3>1, <4>1, LimiterAssumption DEF Extremes
    <3>3. PICK start \in Int :
            BeganAt(start, spent', outflow', limiter'.end, now, shortest, largest)
      BY <1>4
    <3> QED
      BY <1>1, <2>2, <3>1, <3>2, <3>3, WindowOfTwoPeriods
  <2>3. CASE now \notin During(from, from + shortest)
    BY <1>1, <2>1, <2>3, OverCharge
  <2> QED
    BY <2>2, <2>3
<1> QED
  BY <1>3, <1>5, <1>6 DEF WindowInv

LEMMA NextWindowInv ==
    ASSUME WindowInv, [Next]_vars
    PROVE  WindowInv'
<1>0. /\ IInv' /\ now \in Times /\ now \in Nat /\ limiter \in Limiters
      /\ spent \in [Times -> Nat] /\ duration \in Durations \union {0}
  BY NextIInv, LimiterAssumption DEF WindowInv, IInv, TypeOK, Times
<1>1. ASSUME NEW newLimit \in Limits, NEW d \in Durations,
             resetRateLimitAmount(newLimit, d)
      PROVE  WindowInv'
  <2>0. SetUp' /\ UNCHANGED <<now, spent>>
    BY <1>1 DEF SetUp, resetRateLimitAmount
  <2>1. CASE Ended(limiter, now)
    <3>1. limiter'.end = now + d /\ outflow' = 0
      BY <1>1, <2>1 DEF resetRateLimitAmount, Reset
    <3>2. Withdraws(spent', spent, now, 0)
      BY <1>0, <2>0 DEF Withdraws
    <3> QED
      BY <1>0, <2>0, <2>1, <3>1, <3>2, NewWindowInv
  <2>2. CASE ~Ended(limiter, now)
    <3>1. limiter'.end = limiter.end /\ outflow' = outflow
      BY <1>0, <1>1, <2>2 DEF resetRateLimitAmount, Reset, Limiters
    <3> QED
      BY <1>0, <2>0, <3>1, QuietWindowInv
  <2> QED
    BY <2>1, <2>2
<1>2. ASSUME NEW w \in Withdrawals, addWithdrawnAmount(w)
      PROVE  WindowInv'
  <2>0. w \in Nat /\ w # 0
    BY LimiterAssumption
  <2>1. /\ limiter' = Charge(limiter, w, duration, now)
        /\ limiter'.amount <= limiter.limit
        /\ Withdraws(spent', spent, now, w)
        /\ UNCHANGED <<duration, now>>
    BY <1>2 DEF addWithdrawnAmount, Allows, Withdraws
  <2>2. limiter'.limit = limiter.limit
    BY <1>0, <2>1 DEF Charge, Limiters
  <2>3. SetUp'
    BY <2>1, <2>2 DEF WindowInv, SetUp
  <2>4. CASE Ended(limiter, now)
    <3>1. /\ limiter'.end = now + duration /\ limiter'.amount = w /\ outflow' = w
      BY <1>0, <1>2, <2>1, <2>4 DEF addWithdrawnAmount, Charge, Limiters
    <3>2. duration \in Durations
      BY <1>0, <2>0, <2>1, <3>1 DEF WindowInv, SetUp, Limiters
    <3> QED
      BY <1>0, <2>0, <2>1, <2>3, <2>4, <3>1, <3>2, NewWindowInv
  <2>5. CASE ~Ended(limiter, now)
    <3>1. /\ limiter'.end = limiter.end /\ outflow' = outflow + w
      BY <1>0, <1>2, <2>1, <2>5 DEF addWithdrawnAmount, Charge, Limiters
    <3> QED
      BY <1>0, <2>0, <2>1, <2>3, <2>5, <3>1, SameWindowInv
  <2> QED
    BY <2>4, <2>5
<1>3. CASE Tick \/ UNCHANGED vars
  <2>1. UNCHANGED <<limiter, duration, spent, outflow>> /\ now' >= now
    BY <1>0, <1>3 DEF Tick, vars
  <2>2. SetUp'
    BY <2>1 DEF WindowInv, SetUp
  <2> QED
    BY <1>0, <2>1, <2>2, QuietWindowInv
<1> QED
  BY <1>1, <1>2, <1>3 DEF Next

\* However the role holder changes limits and durations, and whenever users
\* withdraw, no stretch of time as long as the shortest period lets out more
\* than twice the largest limit.
THEOREM WindowOutflowBounded == Spec => []SlidingWindowBounded
<1>1. WindowInv => SlidingWindowBounded
  BY DEF WindowInv
<1> QED
  BY <1>1, InitWindowInv, NextWindowInv, PTL DEF Spec
=============================================================================
