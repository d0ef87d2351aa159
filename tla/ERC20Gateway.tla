---------------------------- MODULE ERC20Gateway ----------------------------
(***************************************************************************)
(* FuelERC20GatewayV4.sol: the L1 contract that locks ERC-20 tokens when   *)
(* they are deposited to Fuel and releases them when they are withdrawn.   *)
(*                                                                         *)
(* Amounts on L1 are in units of the token, amounts on L2 in units of the  *)
(* minted asset, which has at most 9 decimals.  All the code makes of a    *)
(* number of decimals is the factor between the two, so a token is known   *)
(* by that factor: 10^(decimals - 9) above 9 decimals, and 1 otherwise,    *)
(* also when decimals() fails.                                             *)
(*                                                                         *)
(* deposit() and finalizeWithdrawal() end in a call to the token, which    *)
(* may call back the sender or the receiver of the tokens, and these may   *)
(* call the gateway again.  Both functions are two steps, up to that call  *)
(* and when it returns, and the frames of the running ones are a stack.    *)
(* gateway is one record because a call that fails brings it back whole.   *)
(*                                                                         *)
(* Administrators and users who are called back by a token are different   *)
(* accounts: an admin action is a transaction of its own.                  *)
(*                                                                         *)
(* The portal is the environment: it takes every message, and it calls     *)
(* finalizeWithdrawal() for any Fuel sender, but never while one runs      *)
(* already (nonReentrant in MessagePortal).  Tokens that move another      *)
(* amount than asked are left out, as the contract says (line 405).        *)
(***************************************************************************)
EXTENDS RateLimit, Sequences, FiniteSetsExt

CONSTANTS
    Tokens,             \* addresses of ERC-20 contracts
    Factors,            \* factors a token may report, should decimals() vary
    Supply,             \* of each token, in its units
    FuelContracts,      \* Fuel contract ids
    ZeroId,             \* bytes32(0)
    MaxUint64,
    DepositAmounts,     \* amounts of deposits, in units of the token
    WithdrawalAmounts,  \* amounts of withdrawals, in units of the L2 asset
    DepositLimits,      \* values of setGlobalDepositLimit, L2 units
    Limits, Durations,  \* values of resetRateLimitAmount, token units, seconds
    MaxDepth,           \* bound: calls of the gateway within each other
    MaxMessages,        \* bound: messages handed to the portal
    GenesisTime,
    MaxTime             \* bound: the largest L1 time

ASSUME GatewayAssumption ==
    /\ IsFiniteSet(Tokens)
    /\ Factors \in [Tokens -> SUBSET (Nat \ {0})]
    /\ \A t \in Tokens : Factors[t] # {}
    /\ Supply \in [Tokens -> Nat]
    /\ ZeroId \notin FuelContracts
    /\ MaxUint64 \in Nat
    /\ DepositAmounts \subseteq Nat
    /\ WithdrawalAmounts \subseteq Nat
    /\ DepositLimits \subseteq Nat
    /\ Limits \subseteq Nat
    /\ Durations \subseteq Nat

ASSUME GatewayBounds ==
    /\ {MaxDepth, MaxMessages} \subseteq Nat
    /\ GenesisTime \in Nat /\ MaxTime \in Nat /\ GenesisTime <= MaxTime

VARIABLES
    gateway,    \* storage of the gateway, its tokens and its history
    stack,      \* the calls of the gateway that wait for a token to return
    now         \* block.timestamp of L1

vars == <<gateway, stack, now>>

\* The kinds of message data, MessageType.
DepositKinds == {"DEPOSIT_TO_ADDRESS", "DEPOSIT_TO_CONTRACT", "DEPOSIT_WITH_DATA"}

Uncached == 0

InitialGateway == [
    paused            |-> FALSE,
    whitelistRequired |-> FALSE,
    assetIssuerId     |-> ZeroId,
    deposits          |-> [t \in Tokens |-> 0],         \* L2 units
    depositLimits     |-> [t \in Tokens |-> 0],
    cachedFactor      |-> [t \in Tokens |-> Uncached],  \* _decimalsCache
    limiter           |-> [t \in Tokens |-> [amount |-> 0, end |-> 0, limit |-> 0]],
    duration          |-> [t \in Tokens |-> 0],         \* rateLimitDuration
    rateLimitStatus   |-> [t \in Tokens |-> FALSE],
    held              |-> [t \in Tokens |-> 0],         \* balanceOf(gateway)
    outbox            |-> <<>>,     \* history: messages handed to the portal
    released          |-> [t \in Tokens |-> 0]]         \* history: L2 units

\* The state after initialize().
Init ==
    /\ gateway = InitialGateway
    /\ stack = <<>>
    /\ now = GenesisTime

-----------------------------------------------------------------------------
(* Decimals *)

\* The cache with a bug: it is written and never read.
FactorReadAgain(token, factor) == factor \in Factors[token]

\* _getTokenDecimals() returns the cached value, or reads and caches what the
\* token reports: factor is what the call uses from then on.
KnownFactor(token, factor) ==
    IF gateway.cachedFactor[token] = Uncached
    THEN factor \in Factors[token]
    ELSE factor = gateway.cachedFactor[token]

\* _adjustDepositDecimals() accepts the amount.
WholeOnFuel(amount, factor) == amount % factor = 0

-----------------------------------------------------------------------------
(* Deposits *)

Frame(kind, token, amount) ==
    [kind |-> kind, token |-> token, amount |-> amount, before |-> gateway]

Push(frame) == stack' = <<frame>> \o stack
Pop == stack' = Tail(stack)

\* The caps with a bug: the deposit being made is not counted.
CapsBeforeDeposit(token, updatedDeposits) ==
    /\ gateway.deposits[token] <= MaxUint64
    /\ gateway.whitelistRequired => updatedDeposits <= gateway.depositLimits[token]

\* The caps of _deposit(): BridgeFull and GlobalDepositLimit.
WithinCaps(token, updatedDeposits) ==
    /\ updatedDeposits <= MaxUint64
    /\ gateway.whitelistRequired => updatedDeposits <= gateway.depositLimits[token]

\* deposit() and depositWithData(), up to the call of safeTransferFrom().
startDeposit(kind, token, amount, factor) ==
    LET l2MintedAmount == amount \div factor
        updatedDeposits == gateway.deposits[token] + l2MintedAmount
    IN
    /\ Len(stack) < MaxDepth
    /\ Len(gateway.outbox) < MaxMessages
    /\ ~gateway.paused
    /\ gateway.assetIssuerId # ZeroId
    /\ KnownFactor(token, factor)
    /\ WholeOnFuel(amount, factor)
    /\ l2MintedAmount # 0
    /\ l2MintedAmount <= MaxUint64
    /\ WithinCaps(token, updatedDeposits)
    /\ gateway' = [gateway EXCEPT
            !.deposits[token] = updatedDeposits,
            !.cachedFactor[token] = factor,
            !.outbox = Append(@,
                [kind |-> kind, token |-> token, amount |-> l2MintedAmount,
                 issuer |-> gateway.assetIssuerId])]
    /\ Push(Frame("deposit", token, amount))

deposit(token, amount, factor) ==
    startDeposit("DEPOSIT_TO_ADDRESS", token, amount, factor)

depositWithData(token, amount, factor, dataLength) ==
    startDeposit(IF dataLength = 0 THEN "DEPOSIT_TO_CONTRACT" ELSE "DEPOSIT_WITH_DATA",
                 token, amount, factor)

\* The permit is tried and its failure ignored: what is left is the deposit.
depositWithPermit(token, amount, factor, deadline) ==
    /\ deadline # 0
    /\ deposit(token, amount, factor)

depositWithDataAndPermit(token, amount, factor, dataLength, deadline) ==
    /\ deadline # 0
    /\ depositWithData(token, amount, factor, dataLength)

\* safeTransferFrom() moved the tokens and returned.
depositReturns ==
    /\ stack # <<>>
    /\ Head(stack).kind = "deposit"
    /\ LET f == Head(stack) IN
        /\ gateway.held[f.token] + f.amount <= Supply[f.token]
        /\ gateway' = [gateway EXCEPT !.held[f.token] = @ + f.amount]
    /\ Pop

sendMetadata(token) ==
    /\ Len(gateway.outbox) < MaxMessages
    /\ ~gateway.paused
    /\ gateway.assetIssuerId # ZeroId
    /\ gateway' = [gateway EXCEPT !.outbox = Append(@,
            [kind |-> "METADATA", token |-> token, amount |-> 0,
             issuer |-> gateway.assetIssuerId])]
    /\ UNCHANGED stack

-----------------------------------------------------------------------------
(* Withdrawals *)

LimiterAfter(token, amount) ==
    IF gateway.rateLimitStatus[token]
    THEN Charge(gateway.limiter[token], amount, gateway.duration[token], now)
    ELSE gateway.limiter[token]

\* The check of the sender with a bug: any Fuel contract may withdraw.
AnyIssuer(sender) == sender # ZeroId

FromIssuer(sender) == sender = gateway.assetIssuerId

Withdrawing == \E i \in DOMAIN stack : stack[i].kind = "withdrawal"

\* finalizeWithdrawal(), called by the portal for a message of the Fuel
\* contract sender, up to the return of safeTransfer()'s callbacks: the tokens
\* move first.
finalizeWithdrawal(token, l2BurntAmount, sender, factor) ==
    LET amount == l2BurntAmount * factor IN
    /\ ~Withdrawing
    /\ Len(stack) < MaxDepth
    /\ ~gateway.paused
    /\ l2BurntAmount # 0
    /\ FromIssuer(sender)
    /\ KnownFactor(token, factor)
    /\ gateway.rateLimitStatus[token] =>
            LimiterAfter(token, amount).amount <= gateway.limiter[token].limit
    /\ l2BurntAmount <= gateway.deposits[token]
    /\ amount <= gateway.held[token]
    /\ gateway' = [gateway EXCEPT
            !.cachedFactor[token] = factor,
            !.limiter[token] = LimiterAfter(token, amount),
            !.deposits[token] = @ - l2BurntAmount,
            !.held[token] = @ - amount,
            !.released[token] = @ + l2BurntAmount]
    /\ Push(Frame("withdrawal", token, amount))

withdrawalReturns ==
    /\ stack # <<>>
    /\ Head(stack).kind = "withdrawal"
    /\ UNCHANGED gateway
    /\ Pop

\* The innermost call fails, in the token or in a callback: it is undone, with
\* everything that was called from it.
callReverts ==
    /\ stack # <<>>
    /\ gateway' = Head(stack).before
    /\ Pop

-----------------------------------------------------------------------------
(* Administration *)

pause ==
    /\ ~gateway.paused
    /\ gateway' = [gateway EXCEPT !.paused = TRUE]
    /\ UNCHANGED stack

unpause ==
    /\ gateway.paused
    /\ gateway' = [gateway EXCEPT !.paused = FALSE]
    /\ UNCHANGED stack

setAssetIssuerId(id) ==
    /\ gateway' = [gateway EXCEPT !.assetIssuerId = id]
    /\ UNCHANGED stack

requireWhitelist(value) ==
    /\ gateway' = [gateway EXCEPT !.whitelistRequired = value]
    /\ UNCHANGED stack

setGlobalDepositLimit(token, limit) ==
    /\ gateway' = [gateway EXCEPT !.depositLimits[token] = limit]
    /\ UNCHANGED stack

resetRateLimitAmount(token, newLimit, d) ==
    /\ gateway' = [gateway EXCEPT
            !.limiter[token] = Reset(@, newLimit, d, now),
            !.duration[token] = d]
    /\ UNCHANGED stack

updateRateLimitStatus(token, value) ==
    /\ gateway' = [gateway EXCEPT !.rateLimitStatus[token] = value]
    /\ UNCHANGED stack

Tick ==
    /\ stack = <<>>
    /\ now < MaxTime
    /\ now' = now + 1
    /\ UNCHANGED <<gateway, stack>>

Deposits ==
    \E t \in Tokens, amount \in DepositAmounts : \E factor \in Factors[t] :
        \/ deposit(t, amount, factor)
        \/ \E length \in {0, 1} : depositWithData(t, amount, factor, length)
        \/ \E deadline \in {0, 1} : depositWithPermit(t, amount, factor, deadline)
        \/ \E length \in {0, 1}, deadline \in {0, 1} :
                depositWithDataAndPermit(t, amount, factor, length, deadline)

Withdrawals ==
    \E t \in Tokens, amount \in WithdrawalAmounts, sender \in FuelContracts :
        \E factor \in Factors[t] : finalizeWithdrawal(t, amount, sender, factor)

Administration ==
    \/ pause \/ unpause
    \/ \E id \in FuelContracts \union {ZeroId} : setAssetIssuerId(id)
    \/ \E value \in BOOLEAN : requireWhitelist(value)
    \/ \E t \in Tokens :
        \/ \E limit \in DepositLimits : setGlobalDepositLimit(t, limit)
        \/ \E newLimit \in Limits, d \in Durations : resetRateLimitAmount(t, newLimit, d)
        \/ \E value \in BOOLEAN : updateRateLimitStatus(t, value)

Next ==
    \/ Deposits /\ UNCHANGED now
    \/ depositReturns /\ UNCHANGED now
    \/ (\E t \in Tokens : sendMetadata(t)) /\ UNCHANGED now
    \/ Withdrawals /\ UNCHANGED now
    \/ withdrawalReturns /\ UNCHANGED now
    \/ callReverts /\ UNCHANGED now
    \/ Administration /\ stack = <<>> /\ UNCHANGED now
    \/ Tick

Spec == Init /\ [][Next]_vars

-----------------------------------------------------------------------------
(* Properties *)

Messages == [kind : DepositKinds \union {"METADATA"}, token : Tokens,
             amount : 0 .. MaxUint64, issuer : FuelContracts]

Gateways == [
    paused            : BOOLEAN,
    whitelistRequired : BOOLEAN,
    assetIssuerId     : FuelContracts \union {ZeroId},
    deposits          : [Tokens -> 0 .. MaxUint64],
    depositLimits     : [Tokens -> Nat],
    cachedFactor      : [Tokens -> Nat],
    limiter           : [Tokens -> Limiters],
    duration          : [Tokens -> Nat],
    rateLimitStatus   : [Tokens -> BOOLEAN],
    held              : [Tokens -> Nat],
    outbox            : Seq(Messages),
    released          : [Tokens -> Nat]]

Frames == [kind : {"deposit", "withdrawal"}, token : Tokens, amount : Nat,
           before : Gateways]

\* The shape of the state, also of the storage a failing call brings back: no
\* counter goes below zero, and what the gateway counts as deposited, and each
\* message it sends, fits the u64 it is on Fuel.
TypeOK ==
    /\ gateway \in Gateways
    /\ stack \in Seq(Frames)
    /\ now \in GenesisTime .. MaxTime

AmountsOf(s) == [i \in DOMAIN s |-> s[i].amount]

\* What running deposits of the token still have to bring in.
Incoming(t) ==
    LET waiting == {i \in DOMAIN stack :
                        stack[i].kind = "deposit" /\ stack[i].token = t}
    IN  SumFunctionOnSet(AmountsOf(stack), waiting)

\* What the messages ever emitted let the L2 bridge mint, less what was released.
Outstanding(t) ==
    SumFunctionOnSet(AmountsOf(gateway.outbox),
                     {i \in DOMAIN gateway.outbox : gateway.outbox[i].token = t})
    - gateway.released[t]

\* Every unit the L2 bridge may have in circulation is counted in _deposits, and
\* backed by its factor of tokens, at every moment of nested deposits and
\* withdrawals, and also when the token changes the decimals it reports: what
\* counts is the first report.
Collateralised ==
    \A t \in Tokens :
        /\ gateway.deposits[t] = Outstanding(t)
        /\ gateway.held[t] + Incoming(t) = gateway.cachedFactor[t] * Outstanding(t)

=============================================================================
