--------------------------- MODULE FungibleBridge ---------------------------
(***************************************************************************)
(* bridge-fungible-token (main.sw): the Fuel contract that mints an asset   *)
(* when the L1 gateway reports a deposit of its token, and burns it when a  *)
(* withdrawal is sent back.                                                 *)
(*                                                                          *)
(* A transaction on Fuel either takes place whole or not at all: a failure  *)
(* in any contract it calls undoes everything, and leaves the messages it   *)
(* had as inputs unspent.  Only a deposit with data calls other code, so    *)
(* process_message() is one step for the other messages, and two for that   *)
(* one: up to the call of the receiver, and when the receiver returns.      *)
(* Between the two the receiver may call the bridge.                        *)
(*                                                                          *)
(* An asset is a pair of token address and token id, of which the sub id is *)
(* a hash.  u64 and u256 are as wide as MaxUint64 and MaxUint256 say, and   *)
(* arithmetic wraps or panics where the code has it so.                     *)
(*                                                                          *)
(* The L1 side is the environment: any gateway that locks what it reports,  *)
(* and releases a withdrawal once.  Not every gateway bounds deposits the   *)
(* way the present one does, and the refunds are there for those: amounts   *)
(* here go up to the supply of the token, which is a uint256 on L1.         *)
(***************************************************************************)
EXTENDS Integers, Sequences, FiniteSetsExt

CONSTANTS
    Assets,             \* assets the bridge may mint
    Depositors,         \* accounts on L1
    Users, Contracts,   \* accounts and contracts on Fuel
    Gateway,            \* BRIDGED_TOKEN_GATEWAY
    OtherSenders,       \* other senders of messages from L1
    MaxUint64, MaxUint256,
    Supply,             \* of each asset on L1
    DepositAmounts,     \* amounts in the messages, 0 in those that are no deposit
    WithdrawAmounts,    \* amounts of coins sent to withdraw()
    MaxMessages,        \* bound: messages from L1
    MaxWithdrawals      \* bound: messages to L1

ASSUME BridgeAssumption ==
    /\ IsFiniteSet(Assets) /\ IsFiniteSet(Depositors)
    /\ IsFiniteSet(Users \union Contracts)
    /\ Users \intersect Contracts = {}
    /\ Gateway \notin OtherSenders
    /\ MaxUint64 \in Nat /\ MaxUint256 \in Nat /\ MaxUint64 <= MaxUint256
    /\ Supply \in [Assets -> 0 .. MaxUint256]
    /\ DepositAmounts \subseteq 0 .. MaxUint256
    /\ WithdrawAmounts \subseteq 0 .. MaxUint64

ASSUME BridgeBounds == MaxMessages \in Nat /\ MaxWithdrawals \in Nat

VARIABLES
    bridge,     \* storage of the bridge, the coins it minted and its history
    call,       \* the process_message() whose receiver is running, if any
    spent,      \* indices of the messages from L1 that were spent
    l1          \* the messages L1 sent, and what it locked and released

vars == <<bridge, call, spent, l1>>

Holders == Users \union Contracts

\* The kinds of messages the gateway sends: MessageType on L1, the constants
\* DEPOSIT, CONTRACT_DEPOSIT, CONTRACT_DEPOSIT_WITH_DATA and METADATA on Fuel.
DepositKinds == {"DEPOSIT_TO_ADDRESS", "DEPOSIT_TO_CONTRACT", "DEPOSIT_WITH_DATA"}

Messages == [sender : {Gateway} \union OtherSenders,
             kind : DepositKinds \union {"METADATA"},
             asset : Assets, from : Depositors, to : Holders, amount : 0 .. MaxUint256]

InitialBridge == [
    registered  |-> {},     \* asset_to_sub_id, asset_to_token_id, l1_addresses, decimals
    totalAssets |-> 0,
    minted      |-> [a \in Assets |-> 0],                       \* tokens_minted
    refunds     |-> [d \in Depositors |-> [a \in Assets |-> 0]],  \* refund_amounts
    named       |-> {},     \* l1_names and l1_symbols
    coins       |-> [h \in Holders |-> [a \in Assets |-> 0]],   \* held on Fuel
    outbox      |-> <<>>,   \* messages sent to L1
    refused     |-> [d \in Depositors |-> [a \in Assets |-> 0]]]  \* history

Init ==
    /\ bridge = InitialBridge
    /\ call = <<>>
    /\ spent = {}
    /\ l1 = [messages |-> <<>>, locked |-> [a \in Assets |-> 0], released |-> {}]

InCall == call # <<>>

-----------------------------------------------------------------------------
(* Messages from L1 *)

\* register_refund(), when panic on overflow is disabled: the sum wraps.
WrappingSum(x, y) == (x + y) % (MaxUint256 + 1)

register_refund(m, amount) ==
    bridge' = [bridge EXCEPT !.refunds[m.from][m.asset] = amount,
                             !.refused[m.from][m.asset] = @ + m.amount]

PreviousRefund(m) == bridge.refunds[m.from][m.asset]

\* The refund with a bug: an amount that is no u64 is refused for good.
TooLargeReverts(m) == FALSE

\* The amount of the message is no u64.
refundTooLarge(m) ==
    /\ m.amount > MaxUint64
    /\ PreviousRefund(m) + m.amount <= MaxUint256
    /\ register_refund(m, PreviousRefund(m) + m.amount)

new_total_supply(m) == (bridge.minted[m.asset] + m.amount) % (MaxUint64 + 1)

\* The check of the supply with a bug: it finds only a sum that wraps to zero.
SupplyOverflowsToZero(m) == new_total_supply(m) = 0

SupplyOverflows(m) == new_total_supply(m) < bridge.minted[m.asset]

refundOverflow(m) ==
    /\ m.amount <= MaxUint64
    /\ SupplyOverflows(m)
    /\ register_refund(m, WrappingSum(PreviousRefund(m), m.amount))

Mints(m) == m.amount <= MaxUint64 /\ ~SupplyOverflows(m)

total_assets(m) ==
    IF m.asset \in bridge.registered THEN bridge.totalAssets ELSE bridge.totalAssets + 1

\* The rest of _process_deposit(): the asset is registered when it is new, the
\* coins are minted, and go to the receiver.
mintTo(m) ==
    /\ Mints(m)
    /\ bridge' = [bridge EXCEPT
            !.registered = @ \union {m.asset},
            !.totalAssets = total_assets(m),
            !.minted[m.asset] = new_total_supply(m),
            !.coins[m.to][m.asset] = @ + m.amount]

_process_deposit(m) ==
    /\ m.amount # 0
    /\ refundTooLarge(m) \/ refundOverflow(m) \/ mintTo(m)

\* Metadata with a bug: it is for assets with a supply.
MetadataNeedsSupply(m) ==
    /\ bridge.minted[m.asset] > 0
    /\ bridge' = [bridge EXCEPT !.named = @ \union {m.asset}]

_process_metadata(m) ==
    /\ m.asset \in bridge.registered
    /\ bridge' = [bridge EXCEPT !.named = @ \union {m.asset}]

\* The messages that are inputs of the transaction that is under way.
Inputs == IF InCall THEN {call[1].index} ELSE DOMAIN l1.messages \ spent

\* The guard with a bug: there is none.
Reentrant == TRUE

reentrancy_guard == ~InCall

\* The check of the sender with a bug: it looks at deposits to contracts only.
AuthorizedContractDeposit(m) == m.kind = "DEPOSIT_TO_CONTRACT" => m.sender = Gateway

Authorized(m) == m.sender = Gateway

CallsReceiver(m) == m.kind = "DEPOSIT_WITH_DATA" /\ Mints(m)

process_message(i) ==
    LET m == l1.messages[i] IN
    /\ i \in Inputs
    /\ reentrancy_guard
    /\ Authorized(m)
    /\ IF m.kind = "METADATA" THEN _process_metadata(m) ELSE _process_deposit(m)
    /\ IF CallsReceiver(m)
       THEN call' = <<[index |-> i, before |-> bridge]>> /\ UNCHANGED spent
       ELSE spent' = spent \union {i} /\ UNCHANGED call

\* The receiver returned.
callReturns ==
    /\ InCall
    /\ spent' = spent \union {call[1].index}
    /\ call' = <<>>
    /\ UNCHANGED bridge

\* The receiver failed, and the transaction with it.
callFails ==
    /\ InCall
    /\ bridge' = call[1].before
    /\ call' = <<>>
    /\ UNCHANGED spent

-----------------------------------------------------------------------------
(* Messages to L1 *)

Sent(to, asset, amount, refund) ==
    Append(bridge.outbox, [to |-> to, asset |-> asset, amount |-> amount, refund |-> refund])

\* claim_refund() with a bug: what was claimed can be claimed again.
claimAgain(from, asset) ==
    LET amount == bridge.refunds[from][asset] IN
    /\ amount # 0
    /\ Len(bridge.outbox) < MaxWithdrawals
    /\ bridge' = [bridge EXCEPT !.outbox = Sent(from, asset, amount, TRUE)]
    /\ UNCHANGED <<call, spent>>

claim_refund(from, asset) ==
    LET amount == bridge.refunds[from][asset] IN
    /\ amount # 0
    /\ Len(bridge.outbox) < MaxWithdrawals
    /\ bridge' = [bridge EXCEPT
            !.refunds[from][asset] = 0,
            !.outbox = Sent(from, asset, amount, TRUE)]
    /\ UNCHANGED <<call, spent>>

\* withdraw(), called with amount coins of the asset by a holder of them.
withdraw(holder, to, asset, amount) ==
    /\ amount # 0
    /\ amount <= bridge.coins[holder][asset]
    /\ asset \in bridge.registered
    /\ amount <= bridge.minted[asset]
    /\ Len(bridge.outbox) < MaxWithdrawals
    /\ bridge' = [bridge EXCEPT
            !.minted[asset] = @ - amount,
            !.coins[holder][asset] = @ - amount,
            !.outbox = Sent(to, asset, amount, FALSE)]
    /\ UNCHANGED <<call, spent>>

-----------------------------------------------------------------------------
(* The environment *)

\* The coins are native assets of Fuel, which anyone may pass on.
Transfer(holder, other, asset, amount) ==
    /\ amount <= bridge.coins[holder][asset]
    /\ holder # other
    /\ bridge' = [bridge EXCEPT !.coins[holder][asset] = @ - amount,
                                !.coins[other][asset] = @ + amount]
    /\ UNCHANGED <<call, spent>>

\* A message of L1 arrives.  The gateway locked what it reports.
Arrives(m) ==
    LET amount == IF m.sender = Gateway THEN m.amount ELSE 0 IN
    /\ ~InCall
    /\ Len(l1.messages) < MaxMessages
    /\ l1.locked[m.asset] + amount <= Supply[m.asset]
    /\ m.to \in (IF m.kind \in {"DEPOSIT_TO_CONTRACT", "DEPOSIT_WITH_DATA"}
                THEN Contracts ELSE Users)
    /\ m.kind = "METADATA" <=> m.amount = 0
    /\ l1' = [l1 EXCEPT !.messages = Append(@, m), !.locked[m.asset] = @ + amount]
    /\ UNCHANGED <<bridge, call, spent>>

\* L1 executes a message of the bridge, which it does once.
Releases(i) ==
    LET w == bridge.outbox[i] IN
    /\ ~InCall
    /\ i \in DOMAIN bridge.outbox \ l1.released
    /\ w.amount <= l1.locked[w.asset]
    /\ l1' = [l1 EXCEPT !.released = @ \union {i}, !.locked[w.asset] = @ - w.amount]
    /\ UNCHANGED <<bridge, call, spent>>

ProcessMessage == \E i \in DOMAIN l1.messages : process_message(i)

Claim == \E d \in Depositors, a \in Assets : claim_refund(d, a)

Withdraw ==
    \E h \in Holders, d \in Depositors, a \in Assets, amount \in WithdrawAmounts :
        withdraw(h, d, a, amount)

Transfers ==
    \E h, o \in Holders, a \in Assets, amount \in WithdrawAmounts : Transfer(h, o, a, amount)

L1Messages ==
    \E s \in {Gateway} \union OtherSenders, k \in DepositKinds \union {"METADATA"},
       a \in Assets, d \in Depositors, h \in Holders, x \in DepositAmounts :
        Arrives([sender |-> s, kind |-> k, asset |-> a, from |-> d, to |-> h, amount |-> x])

Next ==
    \/ ProcessMessage /\ UNCHANGED l1
    \/ callReturns /\ UNCHANGED l1
    \/ callFails /\ UNCHANGED l1
    \/ Claim /\ UNCHANGED l1
    \/ Withdraw /\ UNCHANGED l1
    \/ Transfers /\ UNCHANGED l1
    \/ L1Messages
    \/ \E i \in DOMAIN bridge.outbox : Releases(i)

Spec == Init /\ [][Next]_vars

-----------------------------------------------------------------------------
(* Properties *)

Amounts == [Depositors -> [Assets -> 0 .. MaxUint256]]

Bridges == [
    registered  : SUBSET Assets,
    totalAssets : 0 .. Cardinality(Assets),
    minted      : [Assets -> 0 .. MaxUint64],
    refunds     : Amounts,
    named       : SUBSET Assets,
    coins       : [Holders -> [Assets -> Nat]],
    outbox      : Seq([to : Depositors, asset : Assets, amount : 0 .. MaxUint256,
                       refund : BOOLEAN]),
    refused     : [Depositors -> [Assets -> Nat]]]

\* The shape of the state: every stored amount fits its type, and every asset is
\* counted once in total_assets.
TypeOK ==
    /\ bridge \in Bridges
    /\ call \in Seq([index : DOMAIN l1.messages, before : Bridges]) /\ Len(call) <= 1
    /\ spent \subseteq DOMAIN l1.messages
    /\ l1 \in [messages : Seq(Messages), locked : [Assets -> 0 .. MaxUint256],
               released : SUBSET DOMAIN bridge.outbox]
    /\ bridge.totalAssets = Cardinality(bridge.registered)

CoinsOf(a) == SumFunction([h \in Holders |-> bridge.coins[h][a]])

\* tokens_minted is the supply in the hands of the holders, also while a
\* receiver that was just given coins withdraws some of them in its call, and
\* only registered assets have one: so a withdrawal of coins that exist never
\* fails.
SupplyInCirculation ==
    \A a \in Assets :
        /\ bridge.minted[a] = CoinsOf(a)
        /\ bridge.minted[a] > 0 => a \in bridge.registered

AmountsOf(messages) == [i \in DOMAIN messages |-> messages[i].amount]

InFlight(a) ==
    LET waiting == {i \in DOMAIN l1.messages \ spent :
            /\ l1.messages[i].sender = Gateway
            /\ l1.messages[i].asset = a
            /\ ~(InCall /\ call[1].index = i)}
    IN  SumFunctionOnSet(AmountsOf(l1.messages), waiting)

Refundable(a) == SumFunction([d \in Depositors |-> bridge.refunds[d][a]])

Returning(a) ==
    SumFunctionOnSet(AmountsOf(bridge.outbox),
        {i \in DOMAIN bridge.outbox \ l1.released : bridge.outbox[i].asset = a})

\* Every unit locked on L1 is in exactly one place: in a message that was not
\* spent, in the supply, in a refund, or in a message to L1.  No unit is minted
\* twice or lost by callbacks, failed calls, overflows or refunds.
Backed ==
    \A a \in Assets :
        l1.locked[a] = InFlight(a) + bridge.minted[a] + Refundable(a) + Returning(a)

ClaimedBy(d, a) ==
    SumFunctionOnSet(AmountsOf(bridge.outbox),
        {i \in DOMAIN bridge.outbox :
            bridge.outbox[i].refund /\ bridge.outbox[i].to = d /\ bridge.outbox[i].asset = a})

\* A deposit that could not be minted goes back to the one who made it, whole
\* and once.
RefundsGoHome ==
    \A d \in Depositors, a \in Assets :
        bridge.refunds[d][a] + ClaimedBy(d, a) = bridge.refused[d][a]

\* Every deposit the gateway reports is settled in the end, as coins or as a
\* refund, whatever its amount.  Deposits with data are not: their receiver may
\* fail for ever (the TODO at line 445).
DepositsSettle ==
    \A i \in 1 .. MaxMessages :
        (/\ i \in DOMAIN l1.messages
         /\ l1.messages[i].sender = Gateway
         /\ l1.messages[i].kind \in {"DEPOSIT_TO_ADDRESS", "DEPOSIT_TO_CONTRACT"}
         /\ l1.messages[i].amount > 0) ~> i \in spent

\* Metadata that came before the first deposit of its token waits for it, and
\* is not lost.
MetadataSettles ==
    \A i \in 1 .. MaxMessages :
        (/\ i \in DOMAIN l1.messages
         /\ l1.messages[i].sender = Gateway
         /\ l1.messages[i].kind = "METADATA"
         /\ ~InCall
         /\ l1.messages[i].asset \in bridge.registered) ~> i \in spent

=============================================================================
