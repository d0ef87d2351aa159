--------------------------- MODULE MessagePortal ----------------------------
(***************************************************************************)
(* FuelMessagePortalV3.sol with the V1 and V2 code it inherits: the L1     *)
(* contract that takes ETH and messages to Fuel and executes the messages  *)
(* that come from Fuel.                                                    *)
(*                                                                         *)
(* The storage of the contract, its ETH balance and the history kept about *)
(* them are one record, portal, because the EVM treats them as one: when   *)
(* the call to the recipient of a message fails, relayMessage() reverts    *)
(* and everything done since it began is undone.                           *)
(*                                                                         *)
(* relayMessage() is two steps.  The first ends with the external call to  *)
(* the recipient, the second is taken when the call returns.  Between them *)
(* the recipient runs and may call back every function of the portal.  No  *)
(* other transaction can come in between: time and the chain state do not  *)
(* move during a call.                                                     *)
(*                                                                         *)
(* What the portal asks of others is a parameter.  finalizedRoots[c] is    *)
(* the set of root headers for which chain state c answers finalized().    *)
(* A proof that verifies is a pair of History or of Included: the Merkle   *)
(* proofs are sound.                                                       *)
(*                                                                         *)
(* A revert of the outermost call changes nothing and is no step.  Roles   *)
(* are left out: an admin action is taken by a holder of its role, who may *)
(* be the recipient of a message.                                          *)
(***************************************************************************)
EXTENDS RateLimit, FiniteSets, Functions

CONSTANTS
    Messages,           \* ids of the messages from Fuel
    Amount,             \* message.amount, in units of the Fuel base asset
    Sender,             \* message.sender, a Fuel address
    NullSender,         \* NULL_MESSAGE_SENDER
    Roots, Blocks,      \* root headers and block headers
    History,            \* <<root, block>>: block is in the history of root
    Included,           \* <<block, message>>: message is in block
    ChainStates,        \* FuelChainState contracts the portal may be pointed at
    FirstChainState,
    Precision,          \* PRECISION, wei per unit of the Fuel base asset
    MaxUint64,          \* type(uint64).max
    MaxDataSize,        \* MAX_MESSAGE_DATA_SIZE
    DepositLimit,       \* depositLimitGlobal, in wei
    RateLimitDuration,  \* RATE_LIMIT_DURATION, in seconds
    InitialLimit, Limits,
    DepositValues,      \* values of msg.value of sendMessage and depositETH
    DataSizes,          \* sizes of the data of sendMessage
    RelayValues,        \* values of msg.value of relayMessage, which is payable
    MaxNonce,           \* bound: messages sent to Fuel
    GenesisTime,
    MaxTime             \* bound: the largest L1 time

ASSUME MessagesAssumption ==
    /\ IsFiniteSet(Messages)
    /\ Amount \in [Messages -> Nat]
    /\ NullSender \notin {Sender[m] : m \in Messages}
    /\ History \subseteq Roots \X Blocks
    /\ Included \subseteq Blocks \X Messages

ASSUME PortalAssumption ==
    /\ FirstChainState \in ChainStates
    /\ Precision \in Nat \ {0}
    /\ {MaxUint64, MaxDataSize, DepositLimit, RateLimitDuration} \subseteq Nat
    /\ InitialLimit \in Limits
    /\ Limits \subseteq Nat
    /\ DepositValues \subseteq Nat
    /\ RelayValues \subseteq Nat
    /\ DataSizes \subseteq Nat

ASSUME PortalBounds ==
    /\ MaxNonce \in Nat
    /\ GenesisTime \in Nat \ {0} /\ MaxTime \in Nat /\ GenesisTime <= MaxTime

VARIABLES
    portal,             \* storage, balance and history of the portal
    call,               \* the relayMessage() whose recipient is running
    now,                \* block.timestamp of L1
    finalizedRoots      \* what each chain state answers to finalized()

vars == <<portal, call, now, finalizedRoots>>

NoCall == [running |-> FALSE]

CallTo(m) == [running |-> TRUE, message |-> m, before |-> portal]

InCall == call.running

\* What a message takes from the portal, in wei.
Withdrawn(m) == Amount[m] * Precision

InitialPortal == [
    paused             |-> FALSE,
    withdrawalsPaused  |-> FALSE,
    blacklist          |-> {},           \* messageIsBlacklisted
    fuelChainState     |-> FirstChainState,
    messageSender      |-> NullSender,   \* _incomingMessageSender
    successful         |-> {},           \* _incomingMessageSuccessful
    nonce              |-> 0,            \* _outgoingMessageNonce
    totalDeposited     |-> 0,
    limiter            |-> [amount |-> 0, end |-> GenesisTime + RateLimitDuration,
                            limit |-> InitialLimit],
    rateLimitEnabled   |-> FALSE,
    balance            |-> 0,            \* the ETH the contract holds
    \* history, not in the contract:
    executions         |-> [m \in Messages |-> 0],
    chargedAt          |-> [m \in Messages |-> 0],  \* when the limiter counted it
    sentToFuel         |-> 0,            \* units in the messages emitted
    paidOut            |-> 0]            \* units paid for executed messages

\* The state after initializerV3().
Init ==
    /\ portal = InitialPortal
    /\ call = NoCall
    /\ now = GenesisTime
    /\ finalizedRoots = [c \in ChainStates |-> {}]

-----------------------------------------------------------------------------
(* To Fuel *)

\* The check of the precision with a bug: only sums above one unit are checked.
CompatibleAboveOneUnit(value) ==
    value < 2 * Precision \/ (value \div Precision) * Precision = value

\* msg.value is a whole number of units of the Fuel base asset.
PrecisionCompatible(value) == (value \div Precision) * Precision = value

\* _sendOutgoingMessage() of V2.
_sendOutgoingMessage(value, dataSize) ==
    LET amount == value \div Precision IN
    /\ dataSize < MaxDataSize
    /\ portal.totalDeposited + value <= DepositLimit
    /\ PrecisionCompatible(value)
    /\ amount <= MaxUint64
    /\ portal.nonce < MaxNonce
    /\ portal' = [portal EXCEPT
            !.totalDeposited = @ + value,
            !.balance = @ + value,
            !.nonce = @ + 1,
            !.sentToFuel = @ + amount]
    /\ UNCHANGED call

sendMessage(value, dataSize) ==
    /\ ~portal.paused
    /\ _sendOutgoingMessage(value, dataSize)

depositETH(value) ==
    /\ ~portal.paused
    /\ _sendOutgoingMessage(value, 0)

-----------------------------------------------------------------------------
(* From Fuel *)

\* The guard of _executeMessage() with a bug: there is none.
Reentrant == TRUE

nonReentrant == ~InCall

\* Only withdrawals of ETH are limited, and only while the limiter is enabled.
Limited(m) == Amount[m] > 0 /\ portal.rateLimitEnabled

\* The limiter with a bug: it counts units of the Fuel base asset, not wei.
LimiterCountingUnits(m) ==
    IF Limited(m)
    THEN Charge(portal.limiter, Amount[m], RateLimitDuration, now)
    ELSE portal.limiter

LimiterAfter(m) ==
    IF Limited(m)
    THEN Charge(portal.limiter, Withdrawn(m), RateLimitDuration, now)
    ELSE portal.limiter

\* _executeMessage() with a bug: V1's, which knows of no totalDeposited.
ExecuteMessageOfV1(m, value) ==
    /\ nonReentrant
    /\ m \notin portal.successful
    /\ Withdrawn(m) <= portal.balance + value
    /\ Limited(m) => LimiterAfter(m).amount <= portal.limiter.limit
    /\ portal' = [portal EXCEPT
            !.messageSender = Sender[m],
            !.limiter = LimiterAfter(m),
            !.balance = @ + value - Withdrawn(m),
            !.executions[m] = @ + 1,
            !.chargedAt[m] = IF Limited(m) THEN now ELSE @,
            !.paidOut = @ + Amount[m]]
    /\ call' = CallTo(m)

\* _executeMessage() up to the call of the recipient, with value wei received
\* by relayMessage() itself.  The low-level call fails when the balance is
\* short, so it begins only when the balance is enough.
_executeMessage(m, value) ==
    /\ nonReentrant
    /\ m \notin portal.successful
    /\ Withdrawn(m) <= portal.totalDeposited
    /\ Withdrawn(m) <= portal.balance + value
    /\ Limited(m) => LimiterAfter(m).amount <= portal.limiter.limit
    /\ portal' = [portal EXCEPT
            !.messageSender = Sender[m],
            !.totalDeposited = @ - Withdrawn(m),
            !.limiter = LimiterAfter(m),
            !.balance = @ + value - Withdrawn(m),
            !.executions[m] = @ + 1,
            !.chargedAt[m] = IF Limited(m) THEN now ELSE @,
            !.paidOut = @ + Amount[m]]
    /\ call' = CallTo(m)

relayMessage(m, root, block, value) ==
    /\ ~portal.paused
    /\ ~portal.withdrawalsPaused
    /\ root \in finalizedRoots[portal.fuelChainState]
    /\ <<root, block>> \in History
    /\ m \notin portal.blacklist
    /\ <<block, m>> \in Included
    /\ _executeMessage(m, value)

\* A return with a bug: the sender is not unset.
CallLeavesSender ==
    /\ InCall
    /\ portal' = [portal EXCEPT !.successful = @ \union {call.message}]
    /\ call' = NoCall

\* The recipient returned: the rest of _executeMessage().
callSucceeds ==
    /\ InCall
    /\ portal' = [portal EXCEPT
            !.messageSender = NullSender,
            !.successful = @ \union {call.message}]
    /\ call' = NoCall

\* A failure with a bug: the ETH of the call is back, but relayMessage() does not
\* revert: the message can be relayed again and its ETH stays deducted.
CallFailureSwallowed ==
    /\ InCall
    /\ portal' = [portal EXCEPT
            !.messageSender = NullSender,
            !.balance = @ + Withdrawn(call.message),
            !.executions[call.message] = 0,
            !.paidOut = @ - Amount[call.message]]
    /\ call' = NoCall

\* The recipient reverted, and relayMessage() with it.
callFails ==
    /\ InCall
    /\ portal' = call.before
    /\ call' = NoCall

-----------------------------------------------------------------------------
(* Administration *)

pause ==
    /\ ~portal.paused
    /\ portal' = [portal EXCEPT !.paused = TRUE]
    /\ UNCHANGED call

unpause ==
    /\ portal.paused
    /\ portal' = [portal EXCEPT !.paused = FALSE]
    /\ UNCHANGED call

pauseWithdrawals ==
    /\ portal' = [portal EXCEPT !.withdrawalsPaused = TRUE]
    /\ UNCHANGED call

unpauseWithdrawals ==
    /\ portal' = [portal EXCEPT !.withdrawalsPaused = FALSE]
    /\ UNCHANGED call

addMessageToBlacklist(m) ==
    /\ portal' = [portal EXCEPT !.blacklist = @ \union {m}]
    /\ UNCHANGED call

removeMessageFromBlacklist(m) ==
    /\ portal' = [portal EXCEPT !.blacklist = @ \ {m}]
    /\ UNCHANGED call

updateRateLimitStatus(value) ==
    /\ portal' = [portal EXCEPT !.rateLimitEnabled = value]
    /\ UNCHANGED call

resetRateLimitAmount(newLimit) ==
    /\ portal' = [portal EXCEPT
            !.limiter = Reset(@, newLimit, RateLimitDuration, now)]
    /\ UNCHANGED call

setFuelChainState(c) ==
    /\ portal' = [portal EXCEPT !.fuelChainState = c]
    /\ UNCHANGED call

-----------------------------------------------------------------------------
(* The environment, between transactions *)

Tick ==
    /\ ~InCall
    /\ now < MaxTime
    /\ now' = now + 1
    /\ UNCHANGED <<portal, call, finalizedRoots>>

\* A commit matures, is overwritten, or a chain state is paused or resumed.
ChainStateMoves ==
    /\ ~InCall
    /\ \E c \in ChainStates, roots \in SUBSET Roots :
            finalizedRoots' = [finalizedRoots EXCEPT ![c] = roots]
    /\ UNCHANGED <<portal, call, now>>

ToFuel ==
    \/ \E value \in DepositValues, size \in DataSizes : sendMessage(value, size)
    \/ \E value \in DepositValues : depositETH(value)

FromFuel ==
    \/ \E m \in Messages, root \in Roots, block \in Blocks, value \in RelayValues :
            relayMessage(m, root, block, value)
    \/ callSucceeds
    \/ callFails

Administration ==
    \/ pause \/ unpause \/ pauseWithdrawals \/ unpauseWithdrawals
    \/ \E m \in Messages : addMessageToBlacklist(m) \/ removeMessageFromBlacklist(m)
    \/ \E value \in BOOLEAN : updateRateLimitStatus(value)
    \/ \E newLimit \in Limits : resetRateLimitAmount(newLimit)
    \/ \E c \in ChainStates : setFuelChainState(c)

PortalStep == ToFuel \/ FromFuel \/ Administration

Next ==
    \/ PortalStep /\ UNCHANGED <<now, finalizedRoots>>
    \/ Tick
    \/ ChainStateMoves

Spec == Init /\ [][Next]_vars

-----------------------------------------------------------------------------
(* Properties *)

Portals == [
    paused             : BOOLEAN,
    withdrawalsPaused  : BOOLEAN,
    blacklist          : SUBSET Messages,
    fuelChainState     : ChainStates,
    messageSender      : {Sender[m] : m \in Messages} \union {NullSender},
    successful         : SUBSET Messages,
    nonce              : Nat,
    totalDeposited     : Nat,
    limiter            : Limiters,
    rateLimitEnabled   : BOOLEAN,
    balance            : Nat,
    executions         : [Messages -> Nat],
    chargedAt          : [Messages -> 0 .. MaxTime],
    sentToFuel         : Nat,
    paidOut            : Nat]

\* The shape of the state.  No counter of the portal goes below zero.
TypeOK ==
    /\ portal \in Portals
    /\ call \in {NoCall} \union
               [running : {TRUE}, message : Messages, before : Portals]
    /\ now \in GenesisTime .. MaxTime
    /\ finalizedRoots \in [ChainStates -> SUBSET Roots]

\* A message is executed at most once, however often and on whatever root and
\* chain state it is relayed, and also when its recipient calls relayMessage()
\* while it runs: _incomingMessageSuccessful is set only after the call.
ExecutedOnce ==
    \A m \in Messages :
        portal.executions[m] =
            IF m \in portal.successful \/ (InCall /\ call.message = m) THEN 1 ELSE 0

\* totalDeposited is what went to Fuel less what came back, at every step of a
\* relay, whether the recipient deposits during the call or reverts it.
EthAccounted ==
    portal.totalDeposited = Precision * (portal.sentToFuel - portal.paidOut)

\* The portal holds the ETH it accounts for, so the transfer of a withdrawal
\* that passed the accounting never fails for lack of balance.
Solvent == portal.balance >= portal.totalDeposited

\* messageSender() names the Fuel sender of the message being executed while
\* its recipient runs, and nobody otherwise: no sender outlives its call, and
\* no callback changes it.
SenderOnlyDuringCall ==
    portal.messageSender = IF InCall THEN Sender[call.message] ELSE NullSender

\* What each message takes.
Worths == [m \in Messages |-> Withdrawn(m)]

\* The messages the limiter of the storage p counted in the period it describes.
CountedInPeriod(p) ==
    {m \in Messages : /\ p.chargedAt[m] >= p.limiter.end - RateLimitDuration
                      /\ p.chargedAt[m] # 0}

\* The limiter counts exactly the ETH that was paid while it was enabled in
\* the period it describes, through resets, disabled stretches and reverts.
PeriodCountExact ==
    portal.limiter.amount = SumFunctionOnSet(Worths, CountedInPeriod(portal))

-----------------------------------------------------------------------------
(* What the portal promises *)

\* The state as other transactions see it: a running relay has not happened
\* until its call returns.
committed == IF InCall THEN call.before ELSE portal

Vault == INSTANCE Escrow WITH
    Claims <- Messages,
    Worth <- Worths,
    held <- committed.totalDeposited,
    paid <- committed.successful

\* With its calls, callbacks and reverts, the portal is an escrow: a relay takes
\* effect as a whole or not at all, pays each message once, and never pays
\* more than was deposited.
ImplementsEscrow == Vault!Spec

=============================================================================
