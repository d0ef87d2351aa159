------------------------- MODULE ERC20GatewayProofs -------------------------
(***************************************************************************)
(* Proofs about FuelERC20GatewayV4 for every set of tokens and Fuel        *)
(* contracts, every number of decimals they report, every amount and limit,*)
(* and calls within calls to any depth.                                    *)
(*                                                                         *)
(* A call that fails brings back the storage it began with, so what        *)
(* Collateralised says is shown of every storage that is saved, with the   *)
(* deposits that run below it on the stack (CollateralInv).                *)
(***************************************************************************)
EXTENDS ERC20Gateway, SumTheorems, TLAPS

LEMMA Parts ==
    ASSUME NEW g \in Gateways
    PROVE  /\ g.deposits \in [Tokens -> 0 .. MaxUint64]
           /\ g.depositLimits \in [Tokens -> Nat]
           /\ g.cachedFactor \in [Tokens -> Nat]
           /\ g.limiter \in [Tokens -> Limiters]
           /\ g.duration \in [Tokens -> Nat]
           /\ g.rateLimitStatus \in [Tokens -> BOOLEAN]
           /\ g.held \in [Tokens -> Nat]
           /\ g.outbox \in Seq(Messages)
           /\ g.released \in [Tokens -> Nat]
           /\ g.assetIssuerId \in FuelContracts \union {ZeroId}
BY DEF Gateways

LEMMA InitTypeOK ==
    ASSUME Init
    PROVE  TypeOK
<1>1. 0 \in 0 .. MaxUint64 /\ GenesisTime \in GenesisTime .. MaxTime
    BY GatewayAssumption, GatewayBounds
<1>2. [amount |-> 0, end |-> 0, limit |-> 0] \in Limiters
    BY DEF Limiters
<1>3. InitialGateway \in Gateways
    BY <1>1, <1>2 DEF InitialGateway, Gateways, Uncached
<1>4. <<>> \in Seq(Frames)
    OBVIOUS
<1> QED
    BY <1>1, <1>3, <1>4 DEF Init, TypeOK

-----------------------------------------------------------------------------
(* Calls within calls *)

\* A call begins: the storage as it was is saved.
LEMMA PushTypeOK ==
    ASSUME TypeOK, gateway' \in Gateways, UNCHANGED now,
           NEW kind \in {"deposit", "withdrawal"}, NEW token \in Tokens, NEW amount \in Nat,
           Push(Frame(kind, token, amount))
    PROVE  TypeOK'
<1> DEFINE f == Frame(kind, token, amount)
<1>1. f \in Frames
    BY DEF TypeOK, Frame, Frames
<1>2. stack \in Seq(Frames)
    BY DEF TypeOK
<1>3. stack' = <<f>> \o stack
    BY DEF Push
<1> HIDE DEF f
<1>4. stack' \in Seq(Frames)
    BY <1>1, <1>2, <1>3
<1> QED
    BY <1>4 DEF TypeOK

\* A call ends.
LEMMA PopTypeOK ==
    ASSUME TypeOK, gateway' \in Gateways, UNCHANGED now, stack # <<>>, Pop
    PROVE  TypeOK'
<1>1. Tail(stack) \in Seq(Frames)
    BY DEF TypeOK
<1> QED
    BY <1>1 DEF TypeOK, Pop

LEMMA HeadOf ==
    ASSUME TypeOK, stack # <<>>
    PROVE  /\ Head(stack).token \in Tokens /\ Head(stack).amount \in Nat
           /\ Head(stack).before \in Gateways
<1>1. Head(stack) \in Frames
    BY DEF TypeOK
<1> QED
    BY <1>1 DEF Frames

-----------------------------------------------------------------------------
(* Deposits and withdrawals *)

\* Nothing but the factors of the tokens is known of the amount of Fuel.
LEMMA FactorOf ==
    ASSUME TypeOK, NEW t \in Tokens, NEW factor \in Factors[t]
    PROVE  factor \in Nat \ {0}
BY GatewayAssumption

LEMMA MintedNat ==
    ASSUME NEW amount \in Nat, NEW factor \in Nat \ {0}
    PROVE  amount \div factor \in Nat /\ amount * factor \in Nat
OBVIOUS

LEMMA StartDepositTypeOK ==
    ASSUME TypeOK, NEW kind \in DepositKinds, NEW t \in Tokens, NEW amount \in DepositAmounts,
           NEW factor \in Factors[t], startDeposit(kind, t, amount, factor), UNCHANGED now
    PROVE  TypeOK'
<1> DEFINE minted == amount \div factor
<1> DEFINE updated == gateway.deposits[t] + minted
<1> DEFINE m == [kind |-> kind, token |-> t, amount |-> minted, issuer |-> gateway.assetIssuerId]
<1> DEFINE D == [gateway.deposits EXCEPT ![t] = updated]
<1> DEFINE F == [gateway.cachedFactor EXCEPT ![t] = factor]
<1> DEFINE O == Append(gateway.outbox, m)
<1>1. gateway \in Gateways
    BY DEF TypeOK
<1>2. amount \in Nat /\ factor \in Nat \ {0} /\ minted \in Nat
    BY FactorOf, MintedNat, GatewayAssumption
<1>3. minted <= MaxUint64 /\ updated <= MaxUint64 /\ gateway.assetIssuerId # ZeroId
    BY DEF startDeposit, WithinCaps
<1>4. gateway' = [gateway EXCEPT !.deposits = D, !.cachedFactor = F, !.outbox = O]
    BY <1>1 DEF startDeposit, Gateways
<1>5. Push(Frame("deposit", t, amount))
    BY DEF startDeposit
<1> HIDE DEF minted
<1>6. D \in [Tokens -> 0 .. MaxUint64]
  <2>1. gateway.deposits \in [Tokens -> 0 .. MaxUint64]
    BY <1>1, Parts
  <2>2. updated \in 0 .. MaxUint64
    BY <1>2, <1>3, <2>1, GatewayAssumption
  <2> HIDE DEF updated
  <2> QED
    BY <2>1, <2>2
<1>7. F \in [Tokens -> Nat]
    BY <1>1, <1>2, Parts
<1>8. O \in Seq(Messages)
  <2>1. gateway.assetIssuerId \in FuelContracts
    BY <1>1, <1>3, Parts
  <2>2. minted \in 0 .. MaxUint64
    BY <1>2, <1>3, GatewayAssumption
  <2>3. m \in Messages
    BY <2>1, <2>2 DEF Messages
  <2>4. gateway.outbox \in Seq(Messages)
    BY <1>1, Parts
  <2> HIDE DEF m
  <2> QED
    BY <2>3, <2>4
<1> HIDE DEF D, F, O
<1>9. gateway' \in Gateways
    BY <1>1, <1>4, <1>6, <1>7, <1>8 DEF Gateways
<1> QED
    BY <1>2, <1>5, <1>9, PushTypeOK

LEMMA DepositsTypeOK ==
    ASSUME TypeOK, Deposits, UNCHANGED now
    PROVE  TypeOK'
<1>1. PICK t \in Tokens, amount \in DepositAmounts :
            \E factor \in Factors[t], kind \in DepositKinds : startDeposit(kind, t, amount, factor)
    BY DEF Deposits, deposit, depositWithData, depositWithPermit, depositWithDataAndPermit,
       DepositKinds
<1> QED
    BY <1>1, StartDepositTypeOK

LEMMA DepositReturnsTypeOK ==
    ASSUME TypeOK, depositReturns, UNCHANGED now
    PROVE  TypeOK'
<1> DEFINE f == Head(stack)
<1>1. stack # <<>> /\ Pop /\ gateway \in Gateways
    BY DEF depositReturns, TypeOK
<1>2. f.token \in Tokens /\ f.amount \in Nat
    BY <1>1, HeadOf
<1>3. [gateway.held EXCEPT ![f.token] = @ + f.amount] \in [Tokens -> Nat]
    BY <1>1, <1>2, Parts
<1>4. gateway' = [gateway EXCEPT !.held = [gateway.held EXCEPT ![f.token] = @ + f.amount]]
    BY <1>1 DEF depositReturns, Gateways
<1>5. gateway' \in Gateways
    BY <1>1, <1>3, <1>4 DEF Gateways
<1> QED
    BY <1>1, <1>5, PopTypeOK

LEMMA MetadataTypeOK ==
    ASSUME TypeOK, NEW t \in Tokens, sendMetadata(t), UNCHANGED now
    PROVE  TypeOK'
<1> DEFINE m == [kind |-> "METADATA", token |-> t, amount |-> 0, issuer |-> gateway.assetIssuerId]
<1>1. gateway \in Gateways /\ gateway.outbox \in Seq(Messages)
    BY Parts DEF TypeOK
<1>2. gateway.assetIssuerId \in FuelContracts
    BY <1>1, Parts DEF sendMetadata
<1>3. m \in Messages
    BY <1>2, GatewayAssumption DEF Messages
<1>4. gateway' = [gateway EXCEPT !.outbox = Append(gateway.outbox, m)]
    BY <1>1 DEF sendMetadata, Gateways
<1> HIDE DEF m
<1>5. Append(gateway.outbox, m) \in Seq(Messages)
    BY <1>1, <1>3
<1>6. gateway' \in Gateways
    BY <1>1, <1>4, <1>5 DEF Gateways
<1> QED
    BY <1>6 DEF TypeOK, sendMetadata

LEMMA ChargeLimiter ==
    ASSUME NEW l \in Limiters, NEW amount \in Nat, NEW d \in Nat, NEW time \in Nat
    PROVE  Charge(l, amount, d, time) \in Limiters /\ Reset(l, amount, d, time) \in Limiters
<1>1. l.amount \in Nat /\ l.amount + amount \in Nat /\ time + d \in Nat
    BY DEF Limiters
<1>2. /\ [l EXCEPT !.amount = amount, !.end = time + d] \in Limiters
      /\ [l EXCEPT !.amount = l.amount + amount] \in Limiters
      /\ [amount |-> 0, end |-> time + d, limit |-> amount] \in Limiters
      /\ [l EXCEPT !.limit = amount] \in Limiters
    BY <1>1 DEF Limiters
<1>3. [l EXCEPT !.amount = @ + amount] = [l EXCEPT !.amount = l.amount + amount]
    BY DEF Limiters
<1> QED
    BY Zenon, <1>2, <1>3 DEF Charge, Reset

LEMMA NowNat ==
    ASSUME TypeOK
    PROVE  now \in Nat
BY GatewayBounds DEF TypeOK

LEMMA WithdrawalTypeOK ==
    ASSUME TypeOK, NEW t \in Tokens, NEW burnt \in WithdrawalAmounts, NEW sender,
           NEW factor \in Factors[t], finalizeWithdrawal(t, burnt, sender, factor), UNCHANGED now
    PROVE  TypeOK'
<1> DEFINE amount == burnt * factor
<1> DEFINE F == [gateway.cachedFactor EXCEPT ![t] = factor]
<1> DEFINE L == [gateway.limiter EXCEPT ![t] = LimiterAfter(t, amount)]
<1> DEFINE D == [gateway.deposits EXCEPT ![t] = @ - burnt]
<1> DEFINE H == [gateway.held EXCEPT ![t] = @ - amount]
<1> DEFINE R == [gateway.released EXCEPT ![t] = @ + burnt]
<1>1. gateway \in Gateways
    BY DEF TypeOK
<1>2. burnt \in Nat /\ factor \in Nat \ {0} /\ amount \in Nat
    BY FactorOf, MintedNat, GatewayAssumption
<1>3. burnt <= gateway.deposits[t] /\ amount <= gateway.held[t]
    BY DEF finalizeWithdrawal
<1>4. gateway' = [gateway EXCEPT !.cachedFactor = F, !.limiter = L, !.deposits = D, !.held = H,
                                 !.released = R]
    BY <1>1 DEF finalizeWithdrawal, Gateways
<1>5. Push(Frame("withdrawal", t, amount))
    BY DEF finalizeWithdrawal
<1> HIDE DEF amount
<1>6. LimiterAfter(t, amount) \in Limiters
    BY <1>1, <1>2, Parts, NowNat, ChargeLimiter DEF LimiterAfter
<1>7. F \in [Tokens -> Nat] /\ L \in [Tokens -> Limiters]
    BY <1>1, <1>2, <1>6, Parts
<1>8. D \in [Tokens -> 0 .. MaxUint64]
    BY <1>1, <1>2, <1>3, Parts, GatewayAssumption
<1>9. H \in [Tokens -> Nat] /\ R \in [Tokens -> Nat]
    BY <1>1, <1>2, <1>3, Parts
<1> HIDE DEF F, L, D, H, R
<1>10. gateway' \in Gateways
    BY <1>1, <1>4, <1>7, <1>8, <1>9 DEF Gateways
<1> QED
    BY <1>2, <1>5, <1>10, PushTypeOK

-----------------------------------------------------------------------------
(* Administration *)

LEMMA AdministrationTypeOK ==
    ASSUME TypeOK, Administration, UNCHANGED now
    PROVE  TypeOK'
<1>1. gateway \in Gateways /\ now \in Nat
    BY NowNat DEF TypeOK
<1>2. CASE pause \/ unpause
    BY <1>2 DEF pause, unpause, TypeOK, Gateways
<1>3. CASE \E id \in FuelContracts \union {ZeroId} : setAssetIssuerId(id)
    BY <1>3 DEF setAssetIssuerId, TypeOK, Gateways
<1>4. CASE \E value \in BOOLEAN : requireWhitelist(value)
    BY <1>4 DEF requireWhitelist, TypeOK, Gateways
<1>5. ASSUME NEW t \in Tokens, NEW limit \in DepositLimits, setGlobalDepositLimit(t, limit)
      PROVE  TypeOK'
  <2>1. [gateway.depositLimits EXCEPT ![t] = limit] \in [Tokens -> Nat]
    BY <1>1, <1>5, Parts, GatewayAssumption
  <2>2. gateway' = [gateway EXCEPT !.depositLimits = [gateway.depositLimits EXCEPT ![t] = limit]]
    BY <1>1, <1>5 DEF setGlobalDepositLimit, Gateways
  <2> QED
    BY <1>1, <1>5, <2>1, <2>2 DEF setGlobalDepositLimit, TypeOK, Gateways
<1>6. ASSUME NEW t \in Tokens, NEW newLimit \in Limits, NEW d \in Durations,
             resetRateLimitAmount(t, newLimit, d)
      PROVE  TypeOK'
  <2> DEFINE L == [gateway.limiter EXCEPT ![t] = Reset(@, newLimit, d, now)]
  <2> DEFINE D == [gateway.duration EXCEPT ![t] = d]
  <2>1. newLimit \in Nat /\ d \in Nat
    BY <1>6, GatewayAssumption
  <2>2. L \in [Tokens -> Limiters] /\ D \in [Tokens -> Nat]
    BY <1>1, <1>6, <2>1, Parts, ChargeLimiter
  <2>3. gateway' = [gateway EXCEPT !.limiter = L, !.duration = D] /\ UNCHANGED stack
    BY <1>1, <1>6 DEF resetRateLimitAmount, Gateways
  <2> HIDE DEF L, D
  <2> QED
    BY <1>1, <2>2, <2>3 DEF TypeOK, Gateways
<1>7. ASSUME NEW t \in Tokens, NEW value \in BOOLEAN, updateRateLimitStatus(t, value)
      PROVE  TypeOK'
  <2>1. [gateway.rateLimitStatus EXCEPT ![t] = value] \in [Tokens -> BOOLEAN]
    BY <1>1, <1>7, Parts
  <2>2. gateway' = [gateway EXCEPT
                        !.rateLimitStatus = [gateway.rateLimitStatus EXCEPT ![t] = value]]
    BY <1>1, <1>7 DEF updateRateLimitStatus, Gateways
  <2> QED
    BY <1>1, <1>7, <2>1, <2>2 DEF updateRateLimitStatus, TypeOK, Gateways
<1> QED
    BY <1>2, <1>3, <1>4, <1>5, <1>6, <1>7 DEF Administration

-----------------------------------------------------------------------------
(* The theorem *)

LEMMA NextTypeOK ==
    ASSUME TypeOK, [Next]_vars
    PROVE  TypeOK'
<1>1. CASE Deposits /\ UNCHANGED now
    BY <1>1, DepositsTypeOK
<1>2. CASE depositReturns /\ UNCHANGED now
    BY <1>2, DepositReturnsTypeOK
<1>3. CASE (\E t \in Tokens : sendMetadata(t)) /\ UNCHANGED now
    BY <1>3, MetadataTypeOK
<1>4. CASE Withdrawals /\ UNCHANGED now
    BY <1>4, WithdrawalTypeOK DEF Withdrawals
<1>5. CASE (withdrawalReturns \/ callReverts) /\ UNCHANGED now
  <2>1. stack # <<>> /\ Pop /\ gateway' \in Gateways
    BY <1>5, HeadOf DEF withdrawalReturns, callReverts, TypeOK
  <2> QED
    BY <1>5, <2>1, PopTypeOK
<1>6. CASE Administration /\ UNCHANGED now
    BY <1>6, AdministrationTypeOK
<1>7. CASE Tick
    BY <1>7, GatewayBounds DEF Tick, TypeOK
<1>8. CASE UNCHANGED vars
    BY <1>8 DEF vars, TypeOK
<1> QED
    BY <1>1, <1>2, <1>3, <1>4, <1>5, <1>6, <1>7, <1>8 DEF Next

\* What the gateway counts as deposited fits a u64, and so does every message, at
\* every moment of calls within calls and after any of them failed; no balance
\* is overdrawn (FuelERC20GatewayV4.sol:289-369).
THEOREM TypeCorrect == Spec => []TypeOK
<1>1. Init => TypeOK
    BY InitTypeOK
<1>2. TypeOK /\ [Next]_vars => TypeOK'
    BY NextTypeOK
<1> QED
    BY <1>1, <1>2, PTL DEF Spec

-----------------------------------------------------------------------------
(* The collateral of a storage and the frames below it *)

\* The running deposits of token t in the frames of s below the first k.
DepositsBelow(s, k, t) ==
    {i \in DOMAIN s : i > k /\ s[i].kind = "deposit" /\ s[i].token = t}

\* What they still have to bring in.
IncomingBelow(s, k, t) == SumFunctionOnSet(AmountsOf(s), DepositsBelow(s, k, t))

MessagesOf(g, t) == {i \in DOMAIN g.outbox : g.outbox[i].token = t}

OutstandingIn(g, t) == SumFunctionOnSet(AmountsOf(g.outbox), MessagesOf(g, t)) - g.released[t]

\* What Collateralised says of a storage, when x units of t are coming in.
Balanced(g, x, t) ==
    /\ g.deposits[t] = OutstandingIn(g, t)
    /\ g.cachedFactor[t] = Uncached => g.deposits[t] = 0
    /\ g.held[t] + x = g.cachedFactor[t] * g.deposits[t]

\* Every storage that a failing call may bring back is balanced with the frames
\* below that call.
CollateralInv ==
    /\ TypeOK
    /\ \A t \in Tokens : Balanced(gateway, IncomingBelow(stack, 0, t), t)
    /\ \A i \in DOMAIN stack, t \in Tokens :
            Balanced(stack[i].before, IncomingBelow(stack, i, t), t)

LEMMA FramesOf ==
    ASSUME NEW s \in Seq(Frames)
    PROVE  /\ DOMAIN s = 1 .. Len(s) /\ Len(s) \in Nat /\ IsFiniteSet(DOMAIN s)
           /\ \A i \in DOMAIN s : /\ s[i] \in Frames /\ s[i].amount \in Nat
                                  /\ AmountsOf(s)[i] = s[i].amount
<1>1. DOMAIN s = 1 .. Len(s) /\ Len(s) \in Nat /\ \A i \in DOMAIN s : s[i] \in Frames
    OBVIOUS
<1>2. IsFiniteSet(1 .. Len(s))
    BY <1>1, FS_Interval
<1>3. \A f \in Frames : f.amount \in Nat
    BY DEF Frames
<1> QED
    BY <1>1, <1>2, <1>3 DEF AmountsOf

LEMMA OutboxOf ==
    ASSUME NEW o \in Seq(Messages)
    PROVE  /\ DOMAIN o = 1 .. Len(o) /\ Len(o) \in Nat /\ IsFiniteSet(DOMAIN o)
           /\ \A i \in DOMAIN o : /\ o[i] \in Messages /\ o[i].amount \in Nat
                                  /\ AmountsOf(o)[i] = o[i].amount
<1>1. DOMAIN o = 1 .. Len(o) /\ Len(o) \in Nat /\ \A i \in DOMAIN o : o[i] \in Messages
    OBVIOUS
<1>2. IsFiniteSet(1 .. Len(o))
    BY <1>1, FS_Interval
<1>3. \A m \in Messages : m.amount \in Nat
    BY GatewayAssumption DEF Messages
<1> QED
    BY <1>1, <1>2, <1>3 DEF AmountsOf

LEMMA IncomingInt ==
    ASSUME NEW s \in Seq(Frames), NEW k, NEW t
    PROVE  IsFiniteSet(DepositsBelow(s, k, t)) /\ IncomingBelow(s, k, t) \in Nat
<1>1. DepositsBelow(s, k, t) \subseteq DOMAIN s
    BY DEF DepositsBelow
<1>2. IsFiniteSet(DepositsBelow(s, k, t))
    BY <1>1, FramesOf, FS_Subset
<1>3. \A i \in DepositsBelow(s, k, t) : AmountsOf(s)[i] \in Nat
    BY <1>1, FramesOf
<1> QED
    BY <1>2, <1>3, SumNat DEF IncomingBelow

\* A frame on top of s does not change what comes in below the others.
LEMMA IncomingUnder ==
    ASSUME NEW s \in Seq(Frames), NEW f \in Frames, NEW k \in Nat, NEW t
    PROVE  IncomingBelow(<<f>> \o s, k + 1, t) = IncomingBelow(s, k, t)
<1> DEFINE r == <<f>> \o s
<1> DEFINE next == [i \in DOMAIN s |-> i + 1]
<1> DEFINE S == DepositsBelow(s, k, t)
<1>1. r \in Seq(Frames) /\ Len(r) = Len(s) + 1
      /\ \A i \in DOMAIN s : r[i + 1] = s[i] /\ i + 1 \in DOMAIN r
    OBVIOUS
<1>2. S \subseteq DOMAIN s
    BY DEF DepositsBelow
<1>3. DepositsBelow(r, k + 1, t) = {next[i] : i \in S}
    <2>1. ASSUME NEW j \in DepositsBelow(r, k + 1, t)
          PROVE  \E i \in S : j = next[i]
        <3>1. j \in 1 .. Len(s) + 1 /\ j > k + 1 /\ r[j].kind = "deposit" /\ r[j].token = t
            BY <1>1 DEF DepositsBelow
        <3>2. j - 1 \in DOMAIN s /\ j - 1 > k /\ r[j] = s[j - 1] /\ (j - 1) + 1 = j
            BY <3>1
        <3>3. j - 1 \in S
            BY <3>1, <3>2 DEF DepositsBelow
        <3> QED
            BY <3>2, <3>3
    <2>2. ASSUME NEW i \in S
          PROVE  next[i] \in DepositsBelow(r, k + 1, t)
        BY <1>1 DEF DepositsBelow
    <2> QED
        BY <2>1, <2>2
<1>4. \A i, j \in S : next[i] = next[j] => i = j
    BY <1>2
<1>5. \A i \in S : AmountsOf(s)[i] \in Int /\ AmountsOf(r)[next[i]] = AmountsOf(s)[i]
    <2> SUFFICES ASSUME NEW i \in S
                 PROVE  AmountsOf(s)[i] \in Int /\ AmountsOf(r)[next[i]] = AmountsOf(s)[i]
        OBVIOUS
    <2>1. AmountsOf(s)[i] = s[i].amount /\ s[i].amount \in Nat /\ next[i] = i + 1
        BY <1>2, FramesOf
    <2>2. r[i + 1] = s[i] /\ i + 1 \in DOMAIN r
        BY <1>1, <1>2
    <2> QED
        BY <2>1, <2>2 DEF AmountsOf
<1>6. IsFiniteSet(S)
    BY IncomingInt
<1> HIDE DEF r, next, S
<1>7. SumFunctionOnSet(AmountsOf(r), {next[i] : i \in S}) = SumFunctionOnSet(AmountsOf(s), S)
    BY <1>4, <1>5, <1>6, SumImage
<1> QED
    BY <1>3, <1>7 DEF IncomingBelow, S, r

\* A frame on top brings in its amount if it is a deposit of t.
LEMMA IncomingTop ==
    ASSUME NEW s \in Seq(Frames), NEW f \in Frames, NEW t
    PROVE  IncomingBelow(<<f>> \o s, 0, t) =
            IncomingBelow(s, 0, t) + (IF f.kind = "deposit" /\ f.token = t THEN f.amount ELSE 0)
<1> DEFINE r == <<f>> \o s
<1> DEFINE D == DepositsBelow(r, 0, t)
<1> DEFINE E == DepositsBelow(r, 1, t)
<1>1. r \in Seq(Frames) /\ r[1] = f /\ 1 \in DOMAIN r
    OBVIOUS
<1>2. E = D \ {1} /\ (1 \in D <=> f.kind = "deposit" /\ f.token = t)
    <2>1. \A i \in DOMAIN r : i > 0 /\ (i > 1 <=> i # 1)
        BY <1>1
    <2> QED
        BY <1>1, <2>1 DEF DepositsBelow
<1>3. IncomingBelow(r, 0 + 1, t) = IncomingBelow(s, 0, t)
    BY IncomingUnder
<1>4. IncomingBelow(r, 1, t) = IncomingBelow(s, 0, t) /\ IncomingBelow(s, 0, t) \in Nat
    BY <1>3, IncomingInt
<1> SUFFICES IncomingBelow(r, 0, t) =
                IncomingBelow(s, 0, t) + (IF f.kind = "deposit" /\ f.token = t THEN f.amount ELSE 0)
    OBVIOUS
<1> HIDE DEF r
<1>5. f.amount \in Nat /\ AmountsOf(r)[1] = f.amount
    BY <1>1, FramesOf
<1>6. IsFiniteSet(D) /\ \A i \in D : AmountsOf(r)[i] \in Int
    <2>1. \A i \in DOMAIN r : AmountsOf(r)[i] \in Int
        BY <1>1, FramesOf
    <2>2. D \subseteq DOMAIN r
        BY DEF DepositsBelow
    <2>3. IsFiniteSet(D)
        BY <1>1, IncomingInt
    <2> QED
        BY <2>1, <2>2, <2>3
<1>7. IncomingBelow(r, 0, t) = SumFunctionOnSet(AmountsOf(r), D)
      /\ IncomingBelow(r, 1, t) = SumFunctionOnSet(AmountsOf(r), E)
    BY DEF IncomingBelow
<1> HIDE DEF D, E
<1>8. CASE f.kind = "deposit" /\ f.token = t
    <2>1. SumFunctionOnSet(AmountsOf(r), D) =
            AmountsOf(r)[1] + SumFunctionOnSet(AmountsOf(r), D \ {1})
        BY <1>2, <1>6, <1>8, SumRemove
    <2> QED
        BY <1>2, <1>4, <1>5, <1>7, <1>8, <2>1
<1>9. CASE ~(f.kind = "deposit" /\ f.token = t)
    <2>1. E = D
        BY <1>2, <1>9
    <2> QED
        BY <1>4, <1>7, <1>9, <2>1
<1> QED
    BY <1>8, <1>9

LEMMA OutstandingInt ==
    ASSUME NEW g \in Gateways, NEW t \in Tokens
    PROVE  /\ OutstandingIn(g, t) \in Int /\ IsFiniteSet(MessagesOf(g, t))
           /\ \A i \in MessagesOf(g, t) : AmountsOf(g.outbox)[i] \in Int
           /\ g.released[t] \in Int
           /\ SumFunctionOnSet(AmountsOf(g.outbox), MessagesOf(g, t)) \in Int
<1>1. g.outbox \in Seq(Messages) /\ g.released[t] \in Nat
    BY Parts
<1>2. MessagesOf(g, t) \subseteq DOMAIN g.outbox
    BY DEF MessagesOf
<1>3. IsFiniteSet(MessagesOf(g, t))
    BY <1>1, <1>2, OutboxOf, FS_Subset
<1>4. \A i \in MessagesOf(g, t) : AmountsOf(g.outbox)[i] \in Int
    BY <1>1, <1>2, OutboxOf
<1>5. SumFunctionOnSet(AmountsOf(g.outbox), MessagesOf(g, t)) \in Int
    BY <1>3, <1>4, SumInt
<1> QED
    BY <1>1, <1>3, <1>4, <1>5 DEF OutstandingIn

LEMMA NumbersOf ==
    ASSUME NEW g \in Gateways, NEW t \in Tokens
    PROVE  /\ g.deposits[t] \in Int /\ g.held[t] \in Int /\ g.cachedFactor[t] \in Int
           /\ g.released[t] \in Int
<1>1. g.deposits[t] \in 0 .. MaxUint64
    BY Parts
<1>2. g.held[t] \in Nat /\ g.cachedFactor[t] \in Nat /\ g.released[t] \in Nat
    BY Parts
<1> QED
    BY <1>1, <1>2, GatewayAssumption

\* h is g with one more message.
Sends(g, h, m) == h.outbox = Append(g.outbox, m) /\ h.released = g.released

LEMMA OutstandingGrows ==
    ASSUME NEW g \in Gateways, NEW h \in Gateways, NEW m \in Messages, Sends(g, h, m),
           NEW t \in Tokens
    PROVE  OutstandingIn(h, t) = OutstandingIn(g, t) + (IF m.token = t THEN m.amount ELSE 0)
<1> DEFINE n == Len(g.outbox) + 1
<1> DEFINE S == MessagesOf(g, t)
<1> DEFINE e == AmountsOf(g.outbox)
<1> DEFINE f == AmountsOf(h.outbox)
<1>1. g.outbox \in Seq(Messages)
    BY Parts
<1>2. /\ DOMAIN h.outbox = DOMAIN g.outbox \union {n} /\ n \notin DOMAIN g.outbox
      /\ h.outbox[n] = m /\ \A i \in DOMAIN g.outbox : h.outbox[i] = g.outbox[i]
    BY <1>1 DEF Sends
<1>3. MessagesOf(h, t) = IF m.token = t THEN S \union {n} ELSE S
    BY <1>2 DEF MessagesOf
<1>4. n \notin S /\ f[n] = m.amount /\ m.amount \in Int
    BY <1>2, GatewayAssumption DEF MessagesOf, AmountsOf, Messages
<1>5. \A i \in S : e[i] \in Int /\ f[i] = e[i]
    <2> SUFFICES ASSUME NEW i \in S
                 PROVE  e[i] \in Int /\ f[i] = e[i]
        OBVIOUS
    <2>1. i \in DOMAIN g.outbox /\ i \in DOMAIN h.outbox /\ h.outbox[i] = g.outbox[i]
        BY <1>2 DEF MessagesOf
    <2> QED
        BY <2>1, OutstandingInt DEF AmountsOf
<1>6. IsFiniteSet(S) /\ SumFunctionOnSet(e, S) \in Int /\ g.released[t] \in Int
    BY OutstandingInt
<1>7. /\ OutstandingIn(g, t) = SumFunctionOnSet(e, S) - g.released[t]
      /\ OutstandingIn(h, t) = SumFunctionOnSet(f, MessagesOf(h, t)) - g.released[t]
    BY DEF OutstandingIn, Sends
<1> HIDE DEF n, S, e, f
<1>8. SumFunctionOnSet(f, S) = SumFunctionOnSet(e, S)
    BY <1>5, <1>6, SumSame
<1>9. CASE m.token = t
    <2>1. \A i \in S \union {n} : f[i] \in Int
        BY <1>4, <1>5
    <2>2. SumFunctionOnSet(f, S \union {n}) = f[n] + SumFunctionOnSet(f, S)
        BY <1>4, <1>6, <2>1, SumAdd
    <2> QED
        BY <1>3, <1>4, <1>6, <1>7, <1>8, <1>9, <2>2
<1>10. CASE m.token # t
    BY <1>3, <1>6, <1>7, <1>8, <1>10
<1> QED
    BY <1>9, <1>10

\* Whole multiples of a factor.
LEMMA Multiples ==
    ASSUME NEW f \in Nat \ {0}, NEW x \in Nat, x % f = 0
    PROVE  x = f * (x \div f)
OBVIOUS

LEMMA Distribute ==
    ASSUME NEW f \in Int, NEW x \in Int, NEW y \in Int
    PROVE  f * (x + y) = f * x + f * y /\ f * (x - y) = f * x - f * y
OBVIOUS

LEMMA InitCollateral ==
    ASSUME Init
    PROVE  CollateralInv
<1>1. TypeOK
    BY InitTypeOK
<1>2. gateway = InitialGateway /\ stack = <<>> /\ DOMAIN stack = {}
    BY DEF Init
<1>3. ASSUME NEW t \in Tokens
      PROVE  Balanced(gateway, IncomingBelow(stack, 0, t), t)
    <2>1. IncomingBelow(stack, 0, t) = 0
        <3>1. DepositsBelow(stack, 0, t) = {}
            BY <1>2 DEF DepositsBelow
        <3> QED
            BY <3>1, SumEmpty DEF IncomingBelow
    <2>2. OutstandingIn(gateway, t) = 0
        <3>1. MessagesOf(gateway, t) = {} /\ gateway.released[t] = 0
            BY <1>2 DEF MessagesOf, InitialGateway
        <3> QED
            BY <3>1, SumEmpty DEF OutstandingIn
    <2>3. gateway.deposits[t] = 0 /\ gateway.held[t] = 0 /\ gateway.cachedFactor[t] = 0
        BY <1>2 DEF InitialGateway, Uncached
    <2> QED
        BY <2>1, <2>2, <2>3 DEF Balanced
<1> QED
    BY <1>1, <1>2, <1>3 DEF CollateralInv

-----------------------------------------------------------------------------
(* The collateral in every step *)

LEMMA PushBalanced ==
    ASSUME CollateralInv, NEW f \in Frames, f.before = gateway, Push(f), TypeOK',
           \A t \in Tokens : Balanced(gateway', IncomingBelow(stack, 0, t) +
                (IF f.kind = "deposit" /\ f.token = t THEN f.amount ELSE 0), t)
    PROVE  CollateralInv'
<1>1. stack \in Seq(Frames) /\ stack' = <<f>> \o stack
    BY DEF CollateralInv, TypeOK, Push
<1>2. ASSUME NEW t \in Tokens
      PROVE  Balanced(gateway', IncomingBelow(stack', 0, t), t)
    BY <1>1, IncomingTop
<1>3. ASSUME NEW i \in DOMAIN stack', NEW t \in Tokens
      PROVE  Balanced(stack'[i].before, IncomingBelow(stack', i, t), t)
    <2>1. CASE i = 1
        <3>1. stack'[1] = f
            BY <1>1
        <3>2. IncomingBelow(stack', 0 + 1, t) = IncomingBelow(stack, 0, t)
            BY <1>1, IncomingUnder
        <3> QED
            BY <2>1, <3>1, <3>2 DEF CollateralInv
    <2>2. CASE i # 1
        <3> DEFINE k == i - 1
        <3>1. k \in DOMAIN stack /\ k \in Nat /\ stack'[i] = stack[k] /\ i = k + 1
            BY <1>1, <2>2
        <3> HIDE DEF k
        <3>2. IncomingBelow(stack', k + 1, t) = IncomingBelow(stack, k, t)
            BY <1>1, <3>1, IncomingUnder
        <3> QED
            BY <3>1, <3>2 DEF CollateralInv
    <2> QED
        BY <2>1, <2>2
<1> QED
    BY <1>2, <1>3 DEF CollateralInv

LEMMA PopBalanced ==
    ASSUME CollateralInv, stack # <<>>, Pop, TypeOK',
           \A t \in Tokens : Balanced(gateway', IncomingBelow(Tail(stack), 0, t), t)
    PROVE  CollateralInv'
<1> DEFINE r == Tail(stack)
<1> DEFINE f == Head(stack)
<1>1. stack \in Seq(Frames) /\ stack' = r /\ r \in Seq(Frames) /\ f \in Frames
    BY DEF CollateralInv, TypeOK, Pop
<1>2. stack = <<f>> \o r /\ \A i \in DOMAIN r : i + 1 \in DOMAIN stack /\ r[i] = stack[i + 1]
    BY <1>1
<1> SUFFICES ASSUME \A t \in Tokens : Balanced(gateway', IncomingBelow(r, 0, t), t)
             PROVE  CollateralInv'
    OBVIOUS
<1> HIDE DEF r, f
<1>3. ASSUME NEW i \in DOMAIN r, NEW t \in Tokens
      PROVE  Balanced(r[i].before, IncomingBelow(r, i, t), t)
    <2>1. i \in Nat
        BY <1>1
    <2>2. IncomingBelow(stack, i + 1, t) = IncomingBelow(r, i, t)
        BY <1>1, <1>2, <2>1, IncomingUnder
    <2> QED
        BY <1>2, <2>2 DEF CollateralInv
<1> QED
    BY <1>1, <1>3 DEF CollateralInv

\* The frame that ends: what was coming in below it, and with it.
LEMMA HeadBalanced ==
    ASSUME CollateralInv, stack # <<>>, NEW t \in Tokens
    PROVE  LET f == Head(stack) IN
           /\ f \in Frames
           /\ Balanced(f.before, IncomingBelow(Tail(stack), 0, t), t)
           /\ IncomingBelow(Tail(stack), 0, t) \in Nat
           /\ Balanced(gateway, IncomingBelow(Tail(stack), 0, t) +
                (IF f.kind = "deposit" /\ f.token = t THEN f.amount ELSE 0), t)
<1> DEFINE r == Tail(stack)
<1> DEFINE f == Head(stack)
<1>1. stack \in Seq(Frames) /\ r \in Seq(Frames) /\ f \in Frames
    BY DEF CollateralInv, TypeOK
<1>2. stack = <<f>> \o r /\ 1 \in DOMAIN stack /\ stack[1] = f
    BY <1>1
<1> SUFFICES /\ Balanced(f.before, IncomingBelow(r, 0, t), t)
             /\ IncomingBelow(r, 0, t) \in Nat
             /\ Balanced(gateway, IncomingBelow(r, 0, t) +
                    (IF f.kind = "deposit" /\ f.token = t THEN f.amount ELSE 0), t)
    BY <1>1
<1> HIDE DEF r, f
<1>3. IncomingBelow(stack, 0 + 1, t) = IncomingBelow(r, 0, t)
    BY <1>1, <1>2, IncomingUnder
<1>4. IncomingBelow(stack, 0, t) =
        IncomingBelow(r, 0, t) + (IF f.kind = "deposit" /\ f.token = t THEN f.amount ELSE 0)
    BY <1>1, <1>2, IncomingTop
<1> QED
    BY <1>1, <1>2, <1>3, <1>4, IncomingInt DEF CollateralInv

\* A step that leaves the frames and the accounts of every token alone.
LEMMA SameBalanced ==
    ASSUME CollateralInv, TypeOK', UNCHANGED stack,
           gateway'.deposits = gateway.deposits, gateway'.cachedFactor = gateway.cachedFactor,
           gateway'.held = gateway.held, gateway'.released = gateway.released,
           \A t \in Tokens : OutstandingIn(gateway', t) = OutstandingIn(gateway, t)
    PROVE  CollateralInv'
BY DEF CollateralInv, Balanced

LEMMA DepositBalanced ==
    ASSUME CollateralInv, NEW kind \in DepositKinds, NEW u \in Tokens,
           NEW amount \in DepositAmounts,
           NEW factor \in Factors[u], startDeposit(kind, u, amount, factor), UNCHANGED now
    PROVE  CollateralInv'
<1> DEFINE minted == amount \div factor
<1> DEFINE f == Frame("deposit", u, amount)
<1> DEFINE m == [kind |-> kind, token |-> u, amount |-> minted, issuer |-> gateway.assetIssuerId]
<1>1. TypeOK /\ TypeOK' /\ gateway \in Gateways /\ gateway' \in Gateways
    BY StartDepositTypeOK DEF CollateralInv, TypeOK
<1>2. amount \in Nat /\ factor \in Nat \ {0} /\ minted \in Nat /\ minted \in Int
    BY <1>1, FactorOf, MintedNat, GatewayAssumption
<1>3. amount = factor * minted
    <2>1. amount % factor = 0
        BY DEF startDeposit, WholeOnFuel
    <2> QED
        BY <1>2, <2>1, Multiples
<1>4. f \in Frames /\ f.before = gateway /\ Push(f)
      /\ f.kind = "deposit" /\ f.token = u /\ f.amount = amount
    BY <1>1, <1>2 DEF Frame, Frames, startDeposit
<1>5. gateway.cachedFactor[u] = Uncached \/ factor = gateway.cachedFactor[u]
    BY DEF startDeposit, KnownFactor
<1>6. /\ gateway'.deposits = [gateway.deposits EXCEPT ![u] = gateway.deposits[u] + minted]
      /\ gateway'.cachedFactor = [gateway.cachedFactor EXCEPT ![u] = factor]
      /\ gateway'.held = gateway.held /\ Sends(gateway, gateway', m)
    BY <1>1 DEF startDeposit, Gateways, Sends
<1>7. m \in Messages /\ m.token = u /\ m.amount = minted
    <2>1. minted <= MaxUint64 /\ gateway.assetIssuerId # ZeroId
        BY DEF startDeposit
    <2> HIDE DEF minted
    <2>2. minted \in 0 .. MaxUint64
        BY <1>2, <2>1, GatewayAssumption
    <2> QED
        BY <1>1, <2>1, <2>2, Parts DEF Messages
<1> HIDE DEF f, m, minted
<1>8. ASSUME NEW t \in Tokens
      PROVE  Balanced(gateway', IncomingBelow(stack, 0, t) +
                (IF f.kind = "deposit" /\ f.token = t THEN f.amount ELSE 0), t)
    <2> DEFINE x == IncomingBelow(stack, 0, t)
    <2>1. Balanced(gateway, x, t) /\ x \in Nat
        BY IncomingInt DEF CollateralInv, TypeOK
    <2>2. OutstandingIn(gateway', t) =
            OutstandingIn(gateway, t) + (IF m.token = t THEN m.amount ELSE 0)
        BY <1>1, <1>6, <1>7, OutstandingGrows
    <2>3. /\ gateway.deposits[t] \in Int /\ gateway.held[t] \in Int
          /\ gateway.cachedFactor[t] \in Int
          /\ OutstandingIn(gateway, t) \in Int
        BY <1>1, NumbersOf, OutstandingInt
    <2> HIDE DEF x
    <2>4. CASE t = u
        <3>1. /\ gateway'.deposits[t] = gateway.deposits[t] + minted
              /\ gateway'.cachedFactor[t] = factor /\ gateway'.held[t] = gateway.held[t]
            BY <1>1, <1>6, <2>4, Parts
        <3>2. gateway'.deposits[t] = OutstandingIn(gateway', t)
            BY <1>2, <1>7, <2>1, <2>2, <2>3, <2>4, <3>1 DEF Balanced
        <3>3. gateway.held[t] + x = factor * gateway.deposits[t]
            <4>1. CASE gateway.cachedFactor[u] = Uncached
                BY <1>2, <2>1, <2>4, <4>1 DEF Balanced, Uncached
            <4>2. CASE factor = gateway.cachedFactor[u]
                BY <2>1, <2>4, <4>2 DEF Balanced
            <4> QED
                BY <1>5, <4>1, <4>2
        <3>4. gateway.held[t] + (x + amount) = factor * (gateway.deposits[t] + minted)
            <4>1. factor * (gateway.deposits[t] + minted) =
                    factor * gateway.deposits[t] + factor * minted
                BY <1>2, <2>3, Distribute
            <4> QED
                BY <1>2, <1>3, <2>1, <2>3, <3>3, <4>1
        <3>5. x + (IF f.kind = "deposit" /\ f.token = t THEN f.amount ELSE 0) = x + amount
            BY <1>4, <2>4
        <3>6. gateway'.cachedFactor[t] # Uncached
            BY <1>2, <3>1 DEF Uncached
        <3>7. Balanced(gateway', x + amount, t)
            BY <3>1, <3>2, <3>4, <3>6 DEF Balanced
        <3> QED
            BY <3>5, <3>7 DEF x
    <2>5. CASE t # u
        <3>1. /\ gateway'.deposits[t] = gateway.deposits[t]
              /\ gateway'.cachedFactor[t] = gateway.cachedFactor[t]
              /\ gateway'.held[t] = gateway.held[t]
            BY <1>1, <1>6, <2>5, Parts
        <3>2. OutstandingIn(gateway', t) = OutstandingIn(gateway, t)
            BY <1>7, <2>2, <2>3, <2>5
        <3>3. x + (IF f.kind = "deposit" /\ f.token = t THEN f.amount ELSE 0) = x
            BY <1>4, <2>1, <2>5
        <3> QED
            BY <2>1, <3>1, <3>2, <3>3 DEF Balanced, x
    <2> QED
        BY <2>4, <2>5
<1> QED
    BY <1>1, <1>4, <1>8, PushBalanced

LEMMA DepositReturnsBalanced ==
    ASSUME CollateralInv, depositReturns, UNCHANGED now
    PROVE  CollateralInv'
<1> DEFINE f == Head(stack)
<1>1. TypeOK /\ TypeOK' /\ gateway \in Gateways /\ gateway' \in Gateways
    BY DepositReturnsTypeOK DEF CollateralInv, TypeOK
<1>2. stack # <<>> /\ Pop /\ f.kind = "deposit"
    BY DEF depositReturns
<1>3. /\ gateway'.held = [gateway.held EXCEPT ![f.token] = @ + f.amount]
      /\ gateway'.deposits = gateway.deposits /\ gateway'.cachedFactor = gateway.cachedFactor
      /\ gateway'.outbox = gateway.outbox /\ gateway'.released = gateway.released
    BY <1>1 DEF depositReturns, Gateways
<1>4. f.token \in Tokens /\ f.amount \in Nat
    BY <1>1, <1>2, HeadOf
<1>5. ASSUME NEW t \in Tokens
      PROVE  Balanced(gateway', IncomingBelow(Tail(stack), 0, t), t)
    <2> DEFINE x == IncomingBelow(Tail(stack), 0, t)
    <2> DEFINE y == IF f.kind = "deposit" /\ f.token = t THEN f.amount ELSE 0
    <2>1. Balanced(gateway, x + y, t) /\ x \in Nat
        BY <1>2, HeadBalanced
    <2>2. gateway'.held[t] = gateway.held[t] + y /\ gateway.held[t] \in Int /\ y \in Int
        BY <1>1, <1>2, <1>3, <1>4, Parts
    <2>3. OutstandingIn(gateway', t) = OutstandingIn(gateway, t)
        BY <1>3 DEF OutstandingIn, MessagesOf
    <2> HIDE DEF x, y
    <2>4. gateway'.held[t] + x = gateway.held[t] + (x + y)
        BY <2>1, <2>2
    <2>5. Balanced(gateway', x, t)
        BY <1>3, <2>1, <2>3, <2>4 DEF Balanced
    <2> QED
        BY <2>5 DEF x
<1> QED
    BY <1>1, <1>2, <1>5, PopBalanced

LEMMA WithdrawalBalanced ==
    ASSUME CollateralInv, NEW u \in Tokens, NEW burnt \in WithdrawalAmounts, NEW sender,
           NEW factor \in Factors[u], finalizeWithdrawal(u, burnt, sender, factor), UNCHANGED now
    PROVE  CollateralInv'
<1> DEFINE amount == burnt * factor
<1> DEFINE f == Frame("withdrawal", u, amount)
<1>1. TypeOK /\ TypeOK' /\ gateway \in Gateways /\ gateway' \in Gateways
    BY WithdrawalTypeOK DEF CollateralInv, TypeOK
<1>2. burnt \in Nat /\ factor \in Nat \ {0} /\ amount \in Nat
    BY <1>1, FactorOf, MintedNat, GatewayAssumption
<1>3. /\ burnt # 0 /\ burnt <= gateway.deposits[u]
      /\ (gateway.cachedFactor[u] = Uncached \/ factor = gateway.cachedFactor[u])
    BY DEF finalizeWithdrawal, KnownFactor
<1>4. f \in Frames /\ f.before = gateway /\ Push(f) /\ f.kind = "withdrawal"
    <2>1. Push(f)
        BY DEF finalizeWithdrawal
    <2> HIDE DEF amount
    <2> QED
        BY <1>1, <1>2, <2>1 DEF Frame, Frames
<1>5. /\ gateway'.deposits = [gateway.deposits EXCEPT ![u] = gateway.deposits[u] - burnt]
      /\ gateway'.cachedFactor = [gateway.cachedFactor EXCEPT ![u] = factor]
      /\ gateway'.held = [gateway.held EXCEPT ![u] = gateway.held[u] - amount]
      /\ gateway'.released = [gateway.released EXCEPT ![u] = gateway.released[u] + burnt]
      /\ gateway'.outbox = gateway.outbox
    BY <1>1 DEF finalizeWithdrawal, Gateways
<1> HIDE DEF f
<1>6. ASSUME NEW t \in Tokens
      PROVE  Balanced(gateway', IncomingBelow(stack, 0, t) +
                (IF f.kind = "deposit" /\ f.token = t THEN f.amount ELSE 0), t)
    <2> DEFINE x == IncomingBelow(stack, 0, t)
    <2>1. Balanced(gateway, x, t) /\ x \in Nat
        BY IncomingInt DEF CollateralInv, TypeOK
    <2>2. /\ gateway.deposits[t] \in Int /\ gateway.held[t] \in Int
          /\ gateway.cachedFactor[t] \in Int
          /\ gateway.released[t] \in Int /\ OutstandingIn(gateway, t) \in Int
          /\ SumFunctionOnSet(AmountsOf(gateway.outbox), MessagesOf(gateway, t)) \in Int
        BY <1>1, NumbersOf, OutstandingInt
    <2>3. MessagesOf(gateway', t) = MessagesOf(gateway, t)
        BY <1>5 DEF MessagesOf
    <2>4. x + (IF f.kind = "deposit" /\ f.token = t THEN f.amount ELSE 0) = x
        BY <1>4, <2>1
    <2> SUFFICES Balanced(gateway', x, t)
        BY <2>4
    <2> HIDE DEF x
    <2>5. CASE t = u
        <3>1. /\ gateway'.deposits[t] = gateway.deposits[t] - burnt
              /\ gateway'.cachedFactor[t] = factor /\ gateway'.held[t] = gateway.held[t] - amount
              /\ gateway'.released[t] = gateway.released[t] + burnt
            <4> HIDE DEF amount
            <4> QED
                BY <1>1, <1>5, <2>5, Parts
        <3>2. OutstandingIn(gateway', t) = OutstandingIn(gateway, t) - burnt
            BY <1>2, <1>5, <2>2, <2>3, <3>1 DEF OutstandingIn
        <3>3. factor = gateway.cachedFactor[t] /\ factor # Uncached
            BY <1>2, <1>3, <2>1, <2>5 DEF Balanced, Uncached
        <3>4. gateway.held[t] - amount + x = factor * (gateway.deposits[t] - burnt)
            <4>1. factor * (gateway.deposits[t] - burnt) =
                    factor * gateway.deposits[t] - factor * burnt
                BY <1>2, <2>2, Distribute
            <4>2. factor * burnt = amount
                BY <1>2
            <4>3. gateway.held[t] + x = factor * gateway.deposits[t]
                BY <2>1, <3>3 DEF Balanced
            <4> HIDE DEF amount
            <4> QED
                BY <1>2, <2>1, <2>2, <4>1, <4>2, <4>3
        <3>5. gateway'.deposits[t] = OutstandingIn(gateway', t)
            BY <1>2, <2>1, <2>2, <3>1, <3>2 DEF Balanced
        <3> HIDE DEF amount
        <3> QED
            BY <3>1, <3>3, <3>4, <3>5 DEF Balanced
    <2>6. CASE t # u
        <3> HIDE DEF amount
        <3>1. /\ gateway'.deposits[t] = gateway.deposits[t]
              /\ gateway'.cachedFactor[t] = gateway.cachedFactor[t]
              /\ gateway'.held[t] = gateway.held[t] /\ gateway'.released[t] = gateway.released[t]
            BY <1>1, <1>5, <2>6, Parts
        <3>2. OutstandingIn(gateway', t) = OutstandingIn(gateway, t)
            BY <1>5, <2>3, <3>1 DEF OutstandingIn
        <3> QED
            BY <2>1, <3>1, <3>2 DEF Balanced
    <2> QED
        BY <2>5, <2>6
<1> QED
    BY <1>1, <1>4, <1>6, PushBalanced

LEMMA MetadataBalanced ==
    ASSUME CollateralInv, NEW u \in Tokens, sendMetadata(u), UNCHANGED now
    PROVE  CollateralInv'
<1> DEFINE m == [kind |-> "METADATA", token |-> u, amount |-> 0, issuer |-> gateway.assetIssuerId]
<1>1. TypeOK /\ TypeOK' /\ gateway \in Gateways /\ gateway' \in Gateways
    BY MetadataTypeOK DEF CollateralInv, TypeOK
<1>2. m \in Messages /\ m.amount = 0
    BY <1>1, Parts, GatewayAssumption DEF sendMetadata, Messages
<1>3. /\ gateway'.deposits = gateway.deposits /\ gateway'.cachedFactor = gateway.cachedFactor
      /\ gateway'.held = gateway.held /\ gateway'.released = gateway.released
      /\ Sends(gateway, gateway', m) /\ UNCHANGED stack
    BY <1>1 DEF sendMetadata, Gateways, Sends
<1> HIDE DEF m
<1>4. ASSUME NEW t \in Tokens
      PROVE  OutstandingIn(gateway', t) = OutstandingIn(gateway, t)
    <2>1. OutstandingIn(gateway', t) =
            OutstandingIn(gateway, t) + (IF m.token = t THEN m.amount ELSE 0)
        BY <1>1, <1>2, <1>3, OutstandingGrows
    <2> QED
        BY <1>1, <1>2, <2>1, OutstandingInt
<1> QED
    BY <1>1, <1>3, <1>4, SameBalanced

LEMMA AdministrationBalanced ==
    ASSUME CollateralInv, Administration, UNCHANGED now
    PROVE  CollateralInv'
<1>1. TypeOK /\ TypeOK' /\ gateway \in Gateways
    BY AdministrationTypeOK DEF CollateralInv, TypeOK
<1>2. /\ gateway'.deposits = gateway.deposits /\ gateway'.cachedFactor = gateway.cachedFactor
      /\ gateway'.held = gateway.held /\ gateway'.released = gateway.released
      /\ gateway'.outbox = gateway.outbox /\ UNCHANGED stack
    BY <1>1 DEF Administration, pause, unpause, setAssetIssuerId, requireWhitelist,
        setGlobalDepositLimit, resetRateLimitAmount, updateRateLimitStatus, Gateways
<1>3. \A t \in Tokens : OutstandingIn(gateway', t) = OutstandingIn(gateway, t)
    BY <1>2 DEF OutstandingIn, MessagesOf
<1> QED
    BY <1>1, <1>2, <1>3, SameBalanced

LEMMA NextCollateral ==
    ASSUME CollateralInv, [Next]_vars
    PROVE  CollateralInv'
<1>1. CASE Deposits /\ UNCHANGED now
    <2>1. PICK t \in Tokens, amount \in DepositAmounts :
            \E factor \in Factors[t], kind \in DepositKinds : startDeposit(kind, t, amount, factor)
        BY <1>1 DEF Deposits, deposit, depositWithData, depositWithPermit,
            depositWithDataAndPermit, DepositKinds
    <2> QED
        BY <1>1, <2>1, DepositBalanced
<1>2. CASE depositReturns /\ UNCHANGED now
    BY <1>2, DepositReturnsBalanced
<1>3. CASE (\E t \in Tokens : sendMetadata(t)) /\ UNCHANGED now
    BY <1>3, MetadataBalanced
<1>4. CASE Withdrawals /\ UNCHANGED now
    BY <1>4, WithdrawalBalanced DEF Withdrawals
<1>5. CASE withdrawalReturns /\ UNCHANGED now
    <2>1. stack # <<>> /\ Pop /\ gateway' = gateway /\ Head(stack).kind = "withdrawal"
        BY <1>5 DEF withdrawalReturns
    <2>2. TypeOK'
        BY <1>5, NextTypeOK DEF CollateralInv, Next
    <2>3. ASSUME NEW t \in Tokens
          PROVE  Balanced(gateway', IncomingBelow(Tail(stack), 0, t), t)
        <3> DEFINE x == IncomingBelow(Tail(stack), 0, t)
        <3>1. x \in Nat /\ Balanced(gateway, x + 0, t)
            BY <2>1, HeadBalanced
        <3>2. x + 0 = x
            BY <3>1
        <3> QED
            BY <2>1, <3>1, <3>2
    <2> QED
        BY <2>1, <2>2, <2>3, PopBalanced
<1>6. CASE callReverts /\ UNCHANGED now
    <2>1. stack # <<>> /\ Pop /\ gateway' = Head(stack).before
        BY <1>6 DEF callReverts
    <2>2. TypeOK'
        BY <1>6, NextTypeOK DEF CollateralInv, Next
    <2> QED
        BY <2>1, <2>2, HeadBalanced, PopBalanced
<1>7. CASE Administration /\ UNCHANGED now
    BY <1>7, AdministrationBalanced
<1>8. CASE Tick \/ UNCHANGED vars
    <2>1. TypeOK'
        BY <1>8, NextTypeOK DEF CollateralInv, Next
    <2> QED
        BY <1>8, <2>1 DEF Tick, vars, CollateralInv
<1> QED
    BY <1>1, <1>2, <1>3, <1>4, <1>5, <1>6, <1>7, <1>8 DEF Next

\* What the L2 bridge may have in circulation is counted, and backed by its
\* factor of tokens, whichever calls are running within each other and whichever
\* of them fail (FuelERC20GatewayV4.sol:289-369).
THEOREM AlwaysCollateralised == Spec => []Collateralised
<1>1. Init => CollateralInv
    BY InitCollateral
<1>2. CollateralInv /\ [Next]_vars => CollateralInv'
    BY NextCollateral
<1>3. CollateralInv => Collateralised
    <2> SUFFICES ASSUME CollateralInv, NEW t \in Tokens
                 PROVE  /\ gateway.deposits[t] = Outstanding(t)
                        /\ gateway.held[t] + Incoming(t) = gateway.cachedFactor[t] * Outstanding(t)
        BY DEF Collateralised
    <2>1. Outstanding(t) = OutstandingIn(gateway, t)
        BY DEF Outstanding, OutstandingIn, MessagesOf
    <2>2. Incoming(t) = IncomingBelow(stack, 0, t)
        <3>1. DepositsBelow(stack, 0, t) =
                {i \in DOMAIN stack : stack[i].kind = "deposit" /\ stack[i].token = t}
            BY FramesOf DEF DepositsBelow, CollateralInv, TypeOK
        <3> QED
            BY <3>1 DEF Incoming, IncomingBelow
    <2> QED
        BY <2>1, <2>2 DEF CollateralInv, Balanced
<1> QED
    BY <1>1, <1>2, <1>3, PTL DEF Spec
=============================================================================
