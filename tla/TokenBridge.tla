---------------------------- MODULE TokenBridge -----------------------------
(***************************************************************************)
(* The ERC-20 bridge from end to end: FuelERC20GatewayV4 on L1 and         *)
(* bridge-fungible-token on Fuel, with the messages between them.          *)
(*                                                                         *)
(* The Fuel side is FungibleBridge, with what the gateway does instead of  *)
(* the L1 side it assumes.  A message of the gateway reaches Fuel when the *)
(* transaction that sent it is over, and each is spent at most once: Fuel's*)
(* ledger sees to that.  A message of the Fuel bridge reaches L1 through   *)
(* the portal, which executes it at most once (ExecutedOnce in             *)
(* MessagePortal) and can be asked again when the gateway reverts.  Both   *)
(* directions reorder and delay freely.                                    *)
(*                                                                         *)
(* The two chains share nothing while a transaction runs, so a step of one *)
(* is taken between transactions of the other.  Time stands still: nothing *)
(* but the limiter looks at it, and RateLimiter says what that does as     *)
(* time goes by.                                                           *)
(***************************************************************************)
EXTENDS FungibleBridge

CONSTANTS
    Factors, TokenSupply,   \* of each token on L1, see ERC20Gateway
    FuelBridge,             \* id of the Fuel bridge on L1
    OtherFuelContracts,     \* other ids the gateway may be given as its issuer
    ZeroId,
    L1DepositAmounts,       \* amounts of deposits, in units of the token
    DepositLimits, Limits, Durations,
    Now                     \* block.timestamp of L1

\* The gateway counts the units of a token on Fuel as a u64.
ASSUME TokenBridgeAssumption ==
    /\ Factors \in [Assets -> SUBSET (Nat \ {0})]
    /\ L1DepositAmounts \subseteq Nat
    /\ IsFiniteSet(OtherFuelContracts)
    /\ FuelBridge \notin OtherFuelContracts
    /\ ZeroId \notin {FuelBridge} \union OtherFuelContracts
    /\ Supply = [a \in Assets |-> MaxUint64]
    /\ DepositAmounts = 0 .. MaxUint64

VARIABLES
    gateway, stack,     \* see ERC20Gateway
    relaying,           \* the message of Fuel the portal executes at this moment
    elsewhere           \* units of each token with each other issuer

l1Vars == <<gateway, stack, relaying, elsewhere>>
bothVars == <<vars, l1Vars>>

L1 == INSTANCE ERC20Gateway WITH
    Tokens <- Assets,
    Supply <- TokenSupply,
    FuelContracts <- {FuelBridge} \union OtherFuelContracts,
    DepositAmounts <- L1DepositAmounts,
    WithdrawalAmounts <- 0 .. MaxUint64,
    MaxDepth <- 1,
    GenesisTime <- Now, MaxTime <- Now, now <- Now

NoMessage == [sender |-> ZeroId]

BothInit ==
    /\ Init
    /\ L1!Init
    /\ relaying = NoMessage
    /\ elsewhere = [c \in OtherFuelContracts |-> [t \in Assets |-> 0]]

-----------------------------------------------------------------------------
(* Steps of L1 *)

Receivers(kind) ==
    IF kind \in {"DEPOSIT_TO_CONTRACT", "DEPOSIT_WITH_DATA"} THEN Contracts ELSE Users

\* A message of the gateway as the Fuel bridge parses it.
MessageOf(e, depositor, receiver) == [
    sender |-> Gateway, kind |-> e.kind, asset |-> e.token, from |-> depositor,
    to |-> receiver, amount |-> e.amount]

LastSent(g) == g.outbox[Len(g.outbox)]

\* Message e is in a block of L1.  Another issuer is not looked into.
Emitted(e) ==
    IF e.issuer = FuelBridge
    THEN /\ \E d \in Depositors, h \in Receivers(e.kind) :
                l1' = [l1 EXCEPT !.messages = Append(@, MessageOf(e, d, h)),
                                 !.locked[e.token] = @ + e.amount]
         /\ UNCHANGED elsewhere
    ELSE /\ elsewhere' = [elsewhere EXCEPT ![e.issuer][e.token] = @ + e.amount]
         /\ UNCHANGED l1

DepositStarts == L1!Deposits /\ UNCHANGED <<relaying, elsewhere, l1>>

DepositEnds ==
    /\ L1!depositReturns
    /\ Emitted(LastSent(gateway))
    /\ UNCHANGED relaying

MetadataSent ==
    /\ stack = <<>>
    /\ \E t \in Assets : L1!sendMetadata(t)
    /\ Emitted(LastSent(gateway'))
    /\ UNCHANGED relaying

\* The portal with a bug: it executes a message of the Fuel bridge again.
RelayAgain(i) ==
    LET w == bridge.outbox[i] IN
    /\ \E factor \in Factors[w.asset] :
            L1!finalizeWithdrawal(w.asset, w.amount, FuelBridge, factor)
    /\ relaying' = [sender |-> FuelBridge, index |-> i, asset |-> w.asset, amount |-> w.amount]
    /\ UNCHANGED <<elsewhere, l1>>

\* The portal executes message i of the Fuel bridge.
RelayWithdrawal(i) ==
    LET w == bridge.outbox[i] IN
    /\ i \notin l1.released
    /\ \E factor \in Factors[w.asset] :
            L1!finalizeWithdrawal(w.asset, w.amount, FuelBridge, factor)
    /\ relaying' = [sender |-> FuelBridge, index |-> i, asset |-> w.asset, amount |-> w.amount]
    /\ UNCHANGED <<elsewhere, l1>>

\* The portal executes a message of another Fuel contract, which as an issuer
\* sends back no more than it was sent.
RelayForeign(t, amount, sender) ==
    /\ sender = gateway.assetIssuerId => amount <= elsewhere[sender][t]
    /\ \E factor \in Factors[t] : L1!finalizeWithdrawal(t, amount, sender, factor)
    /\ relaying' = [sender |-> sender, index |-> 0, asset |-> t, amount |-> amount]
    /\ UNCHANGED <<elsewhere, l1>>

RelayReturns ==
    /\ L1!withdrawalReturns
    /\ IF relaying.sender = FuelBridge
       THEN /\ l1' = [l1 EXCEPT !.released = @ \union {relaying.index},
                                !.locked[relaying.asset] = @ - relaying.amount]
            /\ UNCHANGED elsewhere
       ELSE /\ elsewhere' =
                    [elsewhere EXCEPT ![relaying.sender][relaying.asset] = @ - relaying.amount]
            /\ UNCHANGED l1
    /\ relaying' = NoMessage

L1Reverts ==
    /\ L1!callReverts
    /\ relaying' = NoMessage
    /\ UNCHANGED <<elsewhere, l1>>

\* The rest of the administration only makes the gateway refuse calls, which
\* nobody has to make here.
Administration ==
    /\ stack = <<>>
    /\ \E id \in {FuelBridge, ZeroId} \union OtherFuelContracts : L1!setAssetIssuerId(id)
    /\ UNCHANGED <<relaying, elsewhere, l1>>

L1Step ==
    \/ DepositStarts
    \/ DepositEnds
    \/ MetadataSent
    \/ \E i \in DOMAIN bridge.outbox : RelayWithdrawal(i)
    \/ \E t \in Assets, amount \in 0 .. MaxUint64, sender \in OtherFuelContracts :
            RelayForeign(t, amount, sender)
    \/ RelayReturns
    \/ L1Reverts
    \/ Administration

-----------------------------------------------------------------------------
(* Steps of Fuel *)

L2Step ==
    \/ ProcessMessage
    \/ callReturns
    \/ callFails
    \/ Claim
    \/ Withdraw
    \/ Transfers

BothNext ==
    \/ L1Step /\ ~InCall /\ UNCHANGED <<bridge, call, spent>>
    \/ L2Step /\ stack = <<>> /\ UNCHANGED <<l1, l1Vars>>

BothSpec == BothInit /\ [][BothNext]_bothVars

-----------------------------------------------------------------------------
(* Properties *)

AllElsewhere(t) == SumFunctionOnSet([c \in OtherFuelContracts |-> elsewhere[c][t]],
                                    OtherFuelContracts)

\* Between transactions what the gateway counts as deposited is, unit for unit,
\* the deposits on their way to Fuel, the supply there, the withdrawals on their
\* way back, and what is with other issuers, and it holds the tokens for it: also
\* when the issuer is replaced while messages to or from it are on their way.
\* Nobody else's message releases any, and nothing waits in a refund.
FullyBacked ==
    stack = <<>> => \A t \in Assets :
        /\ gateway.deposits[t] =
                InFlight(t) + bridge.minted[t] + Returning(t) + AllElsewhere(t)
        /\ gateway.held[t] = gateway.cachedFactor[t] * gateway.deposits[t]
        /\ \A c \in OtherFuelContracts : elsewhere[c][t] >= 0

\* The caps of the gateway are enough for the u64 supply on Fuel, in whatever
\* order the deposits arrive and withdrawals return: the Fuel bridge never has
\* to refuse a deposit.
NoDepositRefused == \A d \in Depositors, t \in Assets : bridge.refused[d][t] = 0

\* The gateway and the portal are what the Fuel bridge takes L1 for: they lock
\* what they report, once, never more than the supply it assumes, and release
\* what it sends, once.
FuelSideHolds == Spec

=============================================================================
