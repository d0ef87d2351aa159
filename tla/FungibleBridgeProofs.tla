------------------------ MODULE FungibleBridgeProofs ------------------------
(***************************************************************************)
(* Proofs about bridge-fungible-token for every set of assets, accounts    *)
(* and contracts, every width of the integers, every supply and amount, and*)
(* without bound on what a receiver does while it runs.                    *)
(*                                                                         *)
(* A call that fails brings back the storage from before it, so the        *)
(* inductive invariants say of the saved storage what they say of the      *)
(* current one: IInv for the types, and BooksInv for the accounts, where   *)
(* the message of the call counts as spent in the one storage and not in   *)
(* the other.                                                              *)
(*                                                                         *)
(* The accounts are sums over holders, depositors and messages.  What each *)
(* operation does to them is said of any two storages b and c, before and  *)
(* after it (RefundBooked ... TransferBooked), so that the same lemmas hold*)
(* for the storage and for the saved one.                                  *)
(*                                                                         *)
(* The second part is about the bridge among its neighbours: behind its    *)
(* proxy (FuelHost), and with the gateway at the other end (TokenBridge).  *)
(* Each composition is shown to take the steps of FungibleBridge and no    *)
(* others, so that whatever the first part shows holds in both: in the     *)
(* host for every set of operators, relayers and messages, every mistaken  *)
(* gateway, and every bound on the number of scripts and messages; between *)
(* the two ends for every set of tokens, factors, amounts, limits and      *)
(* issuers, and every bound on the number of messages.  Neither            *)
(* composition uses the other.                                             *)
(***************************************************************************)
EXTENDS FuelHost, TokenBridge, SumTheorems, TLAPS

Calls == [index : DOMAIN l1.messages, before : Bridges]

\* L1 cannot have released a message that a failing call takes back.
IInv ==
    /\ TypeOK
    /\ InCall => /\ l1.released \subseteq DOMAIN call[1].before.outbox
                 /\ call[1].before.totalAssets = Cardinality(call[1].before.registered)

-----------------------------------------------------------------------------
(* Values *)

LEMMA CallOf ==
    ASSUME IInv, InCall
    PROVE  call[1] \in Calls
<1>1. call \in Seq(Calls) /\ Len(call) <= 1
    BY DEF IInv, TypeOK, Calls
<1>2. call # <<>>
    BY DEF InCall
<1> QED
    BY <1>1, <1>2

LEMMA RecordOf ==
    ASSUME NEW b \in Bridges
    PROVE  /\ b.registered \subseteq Assets
           /\ b.totalAssets \in 0 .. Cardinality(Assets)
           /\ b.minted \in [Assets -> 0 .. MaxUint64]
           /\ b.refunds \in Amounts
           /\ b.named \subseteq Assets
           /\ b.coins \in [Holders -> [Assets -> Nat]]
           /\ b.outbox \in Seq([to : Depositors, asset : Assets, amount : 0 .. MaxUint256,
                                refund : BOOLEAN])
           /\ b.refused \in [Depositors -> [Assets -> Nat]]
BY DEF Bridges

\* total_assets after one more asset was registered, or after none was.
LEMMA CountOf ==
    ASSUME NEW R \in SUBSET Assets, NEW a \in Assets
    PROVE  /\ Cardinality(R \union {a}) =
                IF a \in R THEN Cardinality(R) ELSE Cardinality(R) + 1
           /\ Cardinality(R \union {a}) \in 0 .. Cardinality(Assets)
           /\ Cardinality(R) \in Nat
<1>1. IsFiniteSet(Assets)
    BY BridgeAssumption
<1>2. IsFiniteSet(R)
    BY <1>1, FS_Subset
<1>3. Cardinality(R \union {a}) = IF a \in R THEN Cardinality(R) ELSE Cardinality(R) + 1
    BY <1>2, FS_AddElement
<1>4. R \union {a} \subseteq Assets
    OBVIOUS
<1>5. Cardinality(R \union {a}) <= Cardinality(Assets)
    BY <1>1, <1>4, FS_Subset
<1>6. IsFiniteSet(R \union {a})
    BY <1>1, <1>4, FS_Subset
<1>7. Cardinality(R) \in Nat /\ Cardinality(R \union {a}) \in Nat /\ Cardinality(Assets) \in Nat
    BY <1>1, <1>2, <1>6, FS_CardinalityType
<1> QED
    BY <1>3, <1>5, <1>7

-----------------------------------------------------------------------------
(* What each step does to the storage *)

\* The storage is well typed, its assets are counted, and no message to L1 is
\* gone.
Grows ==
    /\ bridge' \in Bridges
    /\ bridge'.totalAssets = Cardinality(bridge'.registered)
    /\ DOMAIN bridge.outbox \subseteq DOMAIN bridge'.outbox

LEMMA RefundGrows ==
    ASSUME IInv, NEW m \in Messages, NEW x \in 0 .. MaxUint256, register_refund(m, x)
    PROVE  Grows
<1>1. m.from \in Depositors /\ m.asset \in Assets /\ m.amount \in Nat
    BY BridgeAssumption DEF Messages
<1>2. bridge \in Bridges /\ bridge.totalAssets = Cardinality(bridge.registered)
    BY DEF IInv, TypeOK
<1>3. [bridge.refunds EXCEPT ![m.from][m.asset] = x] \in Amounts
    BY <1>1, <1>2, RecordOf DEF Amounts
<1>4. [bridge.refused EXCEPT ![m.from][m.asset] = @ + m.amount] \in [Depositors -> [Assets -> Nat]]
    BY <1>1, <1>2, RecordOf
<1>5. bridge' = [bridge EXCEPT !.refunds = [bridge.refunds EXCEPT ![m.from][m.asset] = x],
                   !.refused = [bridge.refused EXCEPT ![m.from][m.asset] = @ + m.amount]]
    BY <1>2 DEF register_refund, Bridges
<1> QED
    BY <1>2, <1>3, <1>4, <1>5 DEF Grows, Bridges

LEMMA MintGrows ==
    ASSUME IInv, NEW m \in Messages, mintTo(m)
    PROVE  Grows
<1> DEFINE n == new_total_supply(m)
<1> DEFINE R == bridge.registered \union {m.asset}
<1> DEFINE C == [bridge.coins EXCEPT ![m.to][m.asset] = @ + m.amount]
<1>1. m.asset \in Assets /\ m.to \in Holders /\ m.amount \in Nat
    BY BridgeAssumption DEF Messages
<1>2. bridge \in Bridges /\ bridge.totalAssets = Cardinality(bridge.registered)
    BY DEF IInv, TypeOK
<1>3. n \in 0 .. MaxUint64
  <2>1. bridge.minted[m.asset] \in Nat
    BY <1>1, <1>2, RecordOf
  <2> QED
    BY <1>1, <2>1, BridgeAssumption DEF new_total_supply
<1>4. [bridge.minted EXCEPT ![m.asset] = n] \in [Assets -> 0 .. MaxUint64]
    BY <1>1, <1>2, <1>3, RecordOf
<1>5. C \in [Holders -> [Assets -> Nat]]
    BY <1>1, <1>2, RecordOf
<1>6. R \subseteq Assets /\ total_assets(m) = Cardinality(R)
      /\ Cardinality(R) \in 0 .. Cardinality(Assets)
    BY <1>1, <1>2, RecordOf, CountOf DEF total_assets
<1>7. bridge' = [bridge EXCEPT !.registered = R, !.totalAssets = total_assets(m),
                   !.minted = [bridge.minted EXCEPT ![m.asset] = n], !.coins = C]
    BY <1>2 DEF mintTo, Bridges
<1> HIDE DEF n, R, C
<1> QED
    BY <1>2, <1>4, <1>5, <1>6, <1>7 DEF Grows, Bridges

LEMMA ProcessGrows ==
    ASSUME IInv, NEW i \in DOMAIN l1.messages, process_message(i)
    PROVE  Grows
<1> DEFINE m == l1.messages[i]
<1>1. m \in Messages
    BY DEF IInv, TypeOK
<1>2. m.asset \in Assets /\ m.from \in Depositors /\ m.amount \in 0 .. MaxUint256
    BY <1>1 DEF Messages
<1>3. bridge \in Bridges /\ bridge.totalAssets = Cardinality(bridge.registered)
    BY DEF IInv, TypeOK
<1>4. PreviousRefund(m) \in 0 .. MaxUint256
    BY <1>2, <1>3, RecordOf DEF PreviousRefund, Amounts
<1>5. CASE _process_metadata(m)
    BY <1>2, <1>3, <1>5 DEF _process_metadata, Grows, Bridges
<1>6. CASE refundTooLarge(m)
  <2>1. PreviousRefund(m) + m.amount \in 0 .. MaxUint256
    BY <1>2, <1>4, <1>6, BridgeAssumption DEF refundTooLarge
  <2> QED
    BY <1>1, <1>6, <2>1, RefundGrows DEF refundTooLarge
<1>7. CASE refundOverflow(m)
  <2>1. WrappingSum(PreviousRefund(m), m.amount) \in 0 .. MaxUint256
    BY <1>2, <1>4, BridgeAssumption DEF WrappingSum
  <2> QED
    BY <1>1, <1>7, <2>1, RefundGrows DEF refundOverflow
<1>8. CASE mintTo(m)
    BY <1>1, <1>8, MintGrows
<1> QED
    BY <1>5, <1>6, <1>7, <1>8 DEF process_message, _process_deposit

\* A message to L1.
LEMMA OutboxGrows ==
    ASSUME IInv, NEW b \in Bridges, b.totalAssets = Cardinality(b.registered),
           NEW to \in Depositors, NEW asset \in Assets, NEW amount \in 0 .. MaxUint256,
           NEW refund \in BOOLEAN,
           bridge' = [b EXCEPT !.outbox = Sent(to, asset, amount, refund)]
    PROVE  Grows
<1> DEFINE w == [to |-> to, asset |-> asset, amount |-> amount, refund |-> refund]
<1> DEFINE W == [to : Depositors, asset : Assets, amount : 0 .. MaxUint256, refund : BOOLEAN]
<1>1. w \in W
    OBVIOUS
<1>2. bridge.outbox \in Seq(W)
    BY RecordOf DEF IInv, TypeOK
<1> HIDE DEF w, W
<1>3. /\ Append(bridge.outbox, w) \in Seq(W)
      /\ DOMAIN bridge.outbox \subseteq DOMAIN Append(bridge.outbox, w)
    BY <1>1, <1>2
<1>4. Sent(to, asset, amount, refund) = Append(bridge.outbox, w)
    BY DEF Sent, w
<1> QED
    BY <1>3, <1>4 DEF Grows, Bridges, W

LEMMA ClaimGrows ==
    ASSUME IInv, NEW d \in Depositors, NEW a \in Assets, claim_refund(d, a)
    PROVE  Grows
<1> DEFINE b == [bridge EXCEPT !.refunds = [bridge.refunds EXCEPT ![d][a] = 0]]
<1>1. bridge \in Bridges /\ bridge.totalAssets = Cardinality(bridge.registered)
    BY DEF IInv, TypeOK
<1>2. [bridge.refunds EXCEPT ![d][a] = 0] \in Amounts /\ bridge.refunds[d][a] \in 0 .. MaxUint256
    BY <1>1, RecordOf, BridgeAssumption DEF Amounts
<1>3. b \in Bridges /\ b.totalAssets = Cardinality(b.registered)
    BY <1>1, <1>2 DEF Bridges
<1>4. bridge' = [b EXCEPT !.outbox = Sent(d, a, bridge.refunds[d][a], TRUE)]
    BY <1>1 DEF claim_refund, Bridges
<1> HIDE DEF b
<1> QED
    BY <1>2, <1>3, <1>4, OutboxGrows

LEMMA WithdrawGrows ==
    ASSUME IInv, NEW h \in Holders, NEW d \in Depositors, NEW a \in Assets,
           NEW amount \in WithdrawAmounts, withdraw(h, d, a, amount)
    PROVE  Grows
<1> DEFINE M == [bridge.minted EXCEPT ![a] = @ - amount]
<1> DEFINE C == [bridge.coins EXCEPT ![h][a] = @ - amount]
<1> DEFINE b == [bridge EXCEPT !.minted = M, !.coins = C]
<1>1. bridge \in Bridges /\ bridge.totalAssets = Cardinality(bridge.registered)
    BY DEF IInv, TypeOK
<1>2. amount \in Nat /\ amount <= bridge.minted[a] /\ amount <= bridge.coins[h][a]
    BY BridgeAssumption DEF withdraw
<1>3. amount \in 0 .. MaxUint256
    BY BridgeAssumption
<1>4. M \in [Assets -> 0 .. MaxUint64]
    BY <1>1, <1>2, RecordOf, BridgeAssumption
<1>5. C \in [Holders -> [Assets -> Nat]]
    BY <1>1, <1>2, RecordOf
<1>6. bridge' = [b EXCEPT !.outbox = Sent(d, a, amount, FALSE)]
    BY <1>1 DEF withdraw, Bridges
<1> HIDE DEF M, C
<1>7. b \in Bridges /\ b.totalAssets = Cardinality(b.registered)
    BY <1>1, <1>4, <1>5 DEF Bridges
<1> HIDE DEF b
<1> QED
    BY <1>3, <1>6, <1>7, OutboxGrows

LEMMA TransferGrows ==
    ASSUME IInv, NEW h \in Holders, NEW o \in Holders, NEW a \in Assets,
           NEW amount \in WithdrawAmounts, Transfer(h, o, a, amount)
    PROVE  Grows
<1> DEFINE C == [bridge.coins EXCEPT ![h][a] = @ - amount]
<1> DEFINE D == [C EXCEPT ![o][a] = @ + amount]
<1>1. bridge \in Bridges /\ bridge.totalAssets = Cardinality(bridge.registered)
    BY DEF IInv, TypeOK
<1>2. amount \in Nat /\ amount <= bridge.coins[h][a]
    BY BridgeAssumption DEF Transfer
<1>3. C \in [Holders -> [Assets -> Nat]]
    BY <1>1, <1>2, RecordOf
<1>4. bridge' = [bridge EXCEPT !.coins = D]
    BY <1>1 DEF Transfer, Bridges
<1> HIDE DEF C
<1>5. D \in [Holders -> [Assets -> Nat]]
    BY <1>2, <1>3
<1> HIDE DEF D
<1> QED
    BY <1>1, <1>4, <1>5 DEF Grows, Bridges

-----------------------------------------------------------------------------
(* The invariant *)

LEMMA InitIInv ==
    ASSUME Init
    PROVE  IInv
<1>1. Cardinality({}) = 0 /\ Cardinality(Assets) \in Nat
    BY BridgeAssumption, FS_EmptySet, FS_CardinalityType
<1>2. InitialBridge \in Bridges
    BY <1>1, BridgeAssumption DEF InitialBridge, Bridges, Amounts
<1>3. InitialBridge.totalAssets = Cardinality(InitialBridge.registered)
    BY <1>1 DEF InitialBridge
<1>4. [a \in Assets |-> 0] \in [Assets -> 0 .. MaxUint256]
    BY BridgeAssumption
<1> QED
    BY <1>2, <1>3, <1>4 DEF Init, IInv, TypeOK, InCall

\* A step that leaves calls and messages alone, in a call or outside one.
LEMMA Kept ==
    ASSUME IInv, Grows, UNCHANGED <<call, spent, l1>>
    PROVE  IInv'
<1> USE DEF IInv, TypeOK, InCall, Grows
<1>1. TypeOK'
    OBVIOUS
<1>2. InCall' => /\ l1'.released \subseteq DOMAIN call'[1].before.outbox
                 /\ call'[1].before.totalAssets = Cardinality(call'[1].before.registered)
    OBVIOUS
<1> QED
    BY <1>1, <1>2

LEMMA ProcessStep ==
    ASSUME IInv, NEW i \in DOMAIN l1.messages, process_message(i), UNCHANGED l1
    PROVE  IInv'
<1>1. Grows
    BY ProcessGrows
<1>2. ~InCall
    BY DEF process_message, reentrancy_guard
<1>3. CASE spent' = spent \union {i} /\ UNCHANGED call
    BY <1>1, <1>2, <1>3 DEF IInv, TypeOK, InCall, Grows
<1>4. CASE call' = <<[index |-> i, before |-> bridge]>> /\ UNCHANGED spent
  <2>1. /\ bridge \in Bridges /\ bridge.totalAssets = Cardinality(bridge.registered)
        /\ l1.released \subseteq DOMAIN bridge.outbox
    BY DEF IInv, TypeOK
  <2>2. [index |-> i, before |-> bridge] \in [index : DOMAIN l1.messages, before : Bridges]
    BY <2>1
  <2>3. call' \in Seq([index : DOMAIN l1.messages, before : Bridges]) /\ Len(call') <= 1
    BY <1>4, <2>2
  <2>4. call'[1].before = bridge
    BY <1>4
  <2> QED
    BY <1>1, <1>4, <2>1, <2>3, <2>4 DEF IInv, TypeOK, Grows
<1> QED
    BY <1>3, <1>4 DEF process_message

LEMMA ReturnStep ==
    ASSUME IInv, callReturns \/ callFails, UNCHANGED l1
    PROVE  IInv'
<1>1. InCall /\ call' = <<>>
    BY DEF callReturns, callFails
<1>2. call[1].index \in DOMAIN l1.messages /\ call[1].before \in Bridges
    BY <1>1, CallOf DEF Calls
<1>3. /\ bridge' \in Bridges
      /\ bridge'.totalAssets = Cardinality(bridge'.registered)
      /\ l1.released \subseteq DOMAIN bridge'.outbox
    BY <1>1, <1>2 DEF IInv, TypeOK, callReturns, callFails
<1>4. spent' \subseteq DOMAIN l1.messages
    BY <1>2 DEF IInv, TypeOK, callReturns, callFails
<1>5. call' \in Seq([index : DOMAIN l1.messages, before : Bridges]) /\ Len(call') <= 1
    BY <1>1
<1> QED
    BY <1>1, <1>3, <1>4, <1>5 DEF IInv, TypeOK, InCall

LEMMA ArrivesStep ==
    ASSUME IInv, NEW m \in Messages, m.amount \in DepositAmounts, Arrives(m)
    PROVE  IInv'
<1> DEFINE amount == IF m.sender = Gateway THEN m.amount ELSE 0
<1> DEFINE M == Append(l1.messages, m)
<1> DEFINE L == [l1.locked EXCEPT ![m.asset] = @ + amount]
<1>1. m.asset \in Assets /\ amount \in Nat
    BY BridgeAssumption DEF Messages
<1>2. /\ l1.messages \in Seq(Messages) /\ l1.locked \in [Assets -> 0 .. MaxUint256]
      /\ ~InCall /\ call = <<>>
    BY DEF IInv, TypeOK, Arrives, InCall
<1>3. M \in Seq(Messages) /\ DOMAIN l1.messages \subseteq DOMAIN M
    BY <1>2
<1>4. L \in [Assets -> 0 .. MaxUint256]
  <2>1. l1.locked[m.asset] + amount <= Supply[m.asset]
    BY DEF Arrives
  <2>2. l1.locked[m.asset] + amount \in 0 .. MaxUint256
    BY <1>1, <1>2, <2>1, BridgeAssumption
  <2> QED
    BY <1>1, <1>2, <2>2
<1>5. l1' = [l1 EXCEPT !.messages = M, !.locked = L] /\ UNCHANGED <<bridge, call, spent>>
    BY DEF Arrives, IInv, TypeOK
<1> HIDE DEF amount, M, L
<1>6. l1' \in [messages : Seq(Messages), locked : [Assets -> 0 .. MaxUint256],
                released : SUBSET DOMAIN bridge.outbox]
    BY <1>3, <1>4, <1>5 DEF IInv, TypeOK
<1>7. call' = <<>> /\ spent' \subseteq DOMAIN l1'.messages
    BY <1>2, <1>3, <1>5 DEF IInv, TypeOK
<1>8. call' \in Seq([index : DOMAIN l1'.messages, before : Bridges]) /\ Len(call') <= 1
    BY <1>7
<1> QED
    BY <1>5, <1>6, <1>7, <1>8 DEF IInv, TypeOK, InCall

LEMMA ReleasesStep ==
    ASSUME IInv, NEW i \in DOMAIN bridge.outbox, Releases(i)
    PROVE  IInv'
<1> DEFINE w == bridge.outbox[i]
<1>1. w.asset \in Assets /\ w.amount \in Nat /\ w.amount <= l1.locked[w.asset]
  <2> DEFINE W == [to : Depositors, asset : Assets, amount : 0 .. MaxUint256,
                   refund : BOOLEAN]
  <2>1. bridge.outbox \in Seq(W)
    BY RecordOf DEF IInv, TypeOK
  <2> HIDE DEF W
  <2>2. w \in W
    BY <2>1
  <2> QED
    BY <2>2, BridgeAssumption DEF Releases, W
<1>2. [l1.locked EXCEPT ![w.asset] = @ - w.amount] \in [Assets -> 0 .. MaxUint256]
    BY <1>1, BridgeAssumption DEF IInv, TypeOK
<1>3. l1' = [l1 EXCEPT !.released = l1.released \union {i},
                       !.locked = [l1.locked EXCEPT ![w.asset] = @ - w.amount]]
    BY DEF Releases, IInv, TypeOK
<1> HIDE DEF w
<1>4. l1' \in [messages : Seq(Messages), locked : [Assets -> 0 .. MaxUint256],
                released : SUBSET DOMAIN bridge.outbox] /\ l1'.messages = l1.messages
    BY <1>2, <1>3 DEF IInv, TypeOK
<1> QED
    BY <1>4 DEF IInv, TypeOK, InCall, Releases

LEMMA NextIInv ==
    ASSUME IInv, [Next]_vars
    PROVE  IInv'
<1>1. CASE ProcessMessage /\ UNCHANGED l1
    BY <1>1, ProcessStep DEF ProcessMessage
<1>2. CASE (callReturns \/ callFails) /\ UNCHANGED l1
    BY <1>2, ReturnStep
<1>3. CASE Claim /\ UNCHANGED l1
  <2>1. PICK d \in Depositors, a \in Assets : claim_refund(d, a)
    BY <1>3 DEF Claim
  <2> QED
    BY <1>3, <2>1, ClaimGrows, Kept DEF claim_refund
<1>4. CASE Withdraw /\ UNCHANGED l1
  <2>1. PICK h \in Holders, d \in Depositors, a \in Assets, amount \in WithdrawAmounts :
            withdraw(h, d, a, amount)
    BY <1>4 DEF Withdraw
  <2> QED
    BY <1>4, <2>1, WithdrawGrows, Kept DEF withdraw
<1>5. CASE Transfers /\ UNCHANGED l1
  <2>1. PICK h \in Holders, o \in Holders, a \in Assets, amount \in WithdrawAmounts :
            Transfer(h, o, a, amount)
    BY <1>5 DEF Transfers
  <2> QED
    BY <1>5, <2>1, TransferGrows, Kept DEF Transfer
<1>6. CASE L1Messages
  <2>1. PICK s \in {Gateway} \union OtherSenders, k \in DepositKinds \union {"METADATA"},
             a \in Assets, d \in Depositors, h \in Holders, x \in DepositAmounts :
            Arrives([sender |-> s, kind |-> k, asset |-> a, from |-> d, to |-> h, amount |-> x])
    BY <1>6 DEF L1Messages
  <2> DEFINE m == [sender |-> s, kind |-> k, asset |-> a, from |-> d, to |-> h, amount |-> x]
  <2>2. m \in Messages /\ m.amount \in DepositAmounts /\ Arrives(m)
    BY <2>1, BridgeAssumption DEF Messages
  <2> HIDE DEF m
  <2> QED
    BY <2>2, ArrivesStep
<1>7. CASE \E i \in DOMAIN bridge.outbox : Releases(i)
    BY <1>7, ReleasesStep
<1>8. CASE UNCHANGED vars
    BY <1>8 DEF vars, IInv, TypeOK, InCall
<1> QED
    BY <1>1, <1>2, <1>3, <1>4, <1>5, <1>6, <1>7, <1>8 DEF Next

-----------------------------------------------------------------------------
(* The accounts of a storage b with an L1 side l *)

CoinsIn(b, a) == SumFunctionOnSet([h \in Holders |-> b.coins[h][a]], Holders)

RefundsIn(b, a) == SumFunctionOnSet([d \in Depositors |-> b.refunds[d][a]], Depositors)

Unreleased(b, l, a) == {i \in DOMAIN b.outbox \ l.released : b.outbox[i].asset = a}

ReturningIn(b, l, a) == SumFunctionOnSet(AmountsOf(b.outbox), Unreleased(b, l, a))

RefundsOf(b, d, a) ==
    {i \in DOMAIN b.outbox : b.outbox[i].refund /\ b.outbox[i].to = d /\ b.outbox[i].asset = a}

ClaimedIn(b, d, a) == SumFunctionOnSet(AmountsOf(b.outbox), RefundsOf(b, d, a))

InMessages(l, W) == SumFunctionOnSet(AmountsOf(l.messages), W)

\* What Backed, SupplyInCirculation and RefundsGoHome say of a storage, when the
\* messages W of asset a are not spent.
Booked(b, l, a, W) ==
    /\ b.minted[a] = CoinsIn(b, a)
    /\ b.minted[a] > 0 => a \in b.registered
    /\ l.locked[a] = InMessages(l, W) + b.minted[a] + RefundsIn(b, a) + ReturningIn(b, l, a)
    /\ \A d \in Depositors : b.refunds[d][a] + ClaimedIn(b, d, a) = b.refused[d][a]

Ledgers == [messages : Seq(Messages), locked : [Assets -> 0 .. MaxUint256],
            released : SUBSET Nat]

LEMMA HoldersFinite == IsFiniteSet(Holders) /\ IsFiniteSet(Depositors)
BY BridgeAssumption DEF Holders

LEMMA OutboxOf ==
    ASSUME NEW b \in Bridges
    PROVE  /\ IsFiniteSet(DOMAIN b.outbox) /\ DOMAIN b.outbox = 1 .. Len(b.outbox)
           /\ Len(b.outbox) \in Nat
           /\ \A i \in DOMAIN b.outbox :
                /\ b.outbox[i].amount \in Nat /\ AmountsOf(b.outbox)[i] = b.outbox[i].amount
                /\ b.outbox[i].asset \in Assets
<1> DEFINE W == [to : Depositors, asset : Assets, amount : 0 .. MaxUint256, refund : BOOLEAN]
<1>1. b.outbox \in Seq(W)
    BY RecordOf
<1>2. \A w \in W : w.amount \in Nat /\ w.asset \in Assets
    BY BridgeAssumption
<1> HIDE DEF W
<1>3. DOMAIN b.outbox = 1 .. Len(b.outbox) /\ Len(b.outbox) \in Nat
    BY <1>1
<1>4. IsFiniteSet(1 .. Len(b.outbox))
    BY <1>3, FS_Interval
<1>5. \A i \in DOMAIN b.outbox : b.outbox[i] \in W
    BY <1>1
<1> QED
    BY <1>2, <1>3, <1>4, <1>5 DEF AmountsOf

LEMMA MessagesOf ==
    ASSUME NEW l \in Ledgers
    PROVE  /\ IsFiniteSet(DOMAIN l.messages) /\ DOMAIN l.messages = 1 .. Len(l.messages)
           /\ Len(l.messages) \in Nat
           /\ \A i \in DOMAIN l.messages :
                /\ l.messages[i] \in Messages /\ l.messages[i].amount \in Nat
                /\ AmountsOf(l.messages)[i] = l.messages[i].amount
<1>1. l.messages \in Seq(Messages)
    BY DEF Ledgers
<1>2. \A m \in Messages : m.amount \in Nat
    BY BridgeAssumption DEF Messages
<1>3. DOMAIN l.messages = 1 .. Len(l.messages) /\ Len(l.messages) \in Nat
    BY <1>1
<1>4. IsFiniteSet(1 .. Len(l.messages))
    BY <1>3, FS_Interval
<1>5. \A i \in DOMAIN l.messages : l.messages[i] \in Messages
    BY <1>1
<1> QED
    BY <1>2, <1>3, <1>4, <1>5 DEF AmountsOf

LEMMA AccountsNat ==
    ASSUME NEW b \in Bridges, NEW l, NEW a \in Assets
    PROVE  /\ CoinsIn(b, a) \in Nat /\ RefundsIn(b, a) \in Nat /\ ReturningIn(b, l, a) \in Nat
           /\ b.minted[a] \in 0 .. MaxUint64
           /\ \A d \in Depositors :
                /\ ClaimedIn(b, d, a) \in Nat /\ b.refused[d][a] \in Nat
                /\ b.refunds[d][a] \in 0 .. MaxUint256 /\ b.refunds[d][a] <= RefundsIn(b, a)
<1>1. CoinsIn(b, a) \in Nat
    BY HoldersFinite, RecordOf, SumNat DEF CoinsIn
<1>2. \A d \in Depositors : b.refunds[d][a] \in 0 .. MaxUint256 /\ b.refunds[d][a] \in Nat
    BY BridgeAssumption, RecordOf DEF Amounts
<1>3. RefundsIn(b, a) \in Nat
    BY <1>2, HoldersFinite, SumNat DEF RefundsIn
<1>4. \A d \in Depositors : b.refunds[d][a] <= RefundsIn(b, a)
    <2> DEFINE f == [d \in Depositors |-> b.refunds[d][a]]
    <2> SUFFICES ASSUME NEW d \in Depositors
                 PROVE  f[d] <= SumFunctionOnSet(f, Depositors)
        BY DEF RefundsIn
    <2>1. \A x \in Depositors : f[x] \in Nat
        BY <1>2
    <2> HIDE DEF f
    <2>2. SumFunctionOnSet(f, Depositors) = f[d] + SumFunctionOnSet(f, Depositors \ {d})
        BY <2>1, HoldersFinite, SumRemove
    <2>3. SumFunctionOnSet(f, Depositors \ {d}) \in Nat
        BY <2>1, HoldersFinite, FS_Subset, SumNat
    <2> QED
        BY <2>1, <2>2, <2>3
<1>5. ReturningIn(b, l, a) \in Nat
    BY OutboxOf, FS_Subset, SumNat DEF ReturningIn, Unreleased
<1>6. \A d \in Depositors : ClaimedIn(b, d, a) \in Nat
    BY OutboxOf, FS_Subset, SumNat DEF ClaimedIn, RefundsOf
<1>7. b.minted[a] \in 0 .. MaxUint64 /\ \A d \in Depositors : b.refused[d][a] \in Nat
    BY RecordOf
<1> QED
    BY <1>1, <1>2, <1>3, <1>4, <1>5, <1>6, <1>7

LEMMA AccountsInt ==
    ASSUME NEW b \in Bridges, NEW l, NEW a \in Assets
    PROVE  /\ CoinsIn(b, a) \in Int /\ RefundsIn(b, a) \in Int /\ ReturningIn(b, l, a) \in Int
           /\ b.minted[a] \in Int
           /\ \A d \in Depositors :
                /\ ClaimedIn(b, d, a) \in Int /\ b.refused[d][a] \in Int
                /\ b.refunds[d][a] \in Int
<1>1. \A n \in Nat : n \in Int
    OBVIOUS
<1>2. \A n \in 0 .. MaxUint64 : n \in Int
    OBVIOUS
<1>3. \A n \in 0 .. MaxUint256 : n \in Int
    OBVIOUS
<1> QED
    BY <1>1, <1>2, <1>3, AccountsNat, Zenon

\* The storage as functions to the integers.
LEMMA FunctionsOf ==
    ASSUME NEW b \in Bridges
    PROVE  /\ b.refunds \in [Depositors -> [Assets -> Int]]
           /\ b.refused \in [Depositors -> [Assets -> Int]]
           /\ b.coins \in [Holders -> [Assets -> Nat]]
           /\ b.minted \in [Assets -> Int]
<1>1. b.refunds \in [Depositors -> [Assets -> Int]]
    BY RecordOf, BridgeAssumption DEF Amounts
<1> QED
    BY <1>1, RecordOf, BridgeAssumption

-----------------------------------------------------------------------------
(* What a change of the storage does to its accounts *)

\* c is b with one refund, or the coins of one holder, set to x.
RefundSet(b, c, d, e, x) == c.refunds = [b.refunds EXCEPT ![d][e] = x]

CoinsSet(b, c, h, e, x) == c.coins = [b.coins EXCEPT ![h][e] = x]

SentNothing(b, c) == c.outbox = b.outbox

SentMessage(b, c, w) == c.outbox = Append(b.outbox, w)

LEMMA RefundBooks ==
    ASSUME NEW b \in Bridges, NEW c \in Bridges, NEW d \in Depositors, NEW e \in Assets,
           NEW x \in 0 .. MaxUint256, RefundSet(b, c, d, e, x), NEW a \in Assets
    PROVE  RefundsIn(c, a) = RefundsIn(b, a) +
                (IF a = e THEN x - b.refunds[d][e] ELSE 0)
<1> DEFINE f == [i \in Depositors |-> b.refunds[i][a]]
<1> DEFINE g == [i \in Depositors |-> c.refunds[i][a]]
<1>1. b.refunds \in Amounts
    BY RecordOf
<1>2. \A i \in Depositors : f[i] \in Int /\ g[i] = IF i = d /\ a = e THEN x ELSE f[i]
    BY <1>1, BridgeAssumption DEF Amounts, RefundSet
<1>3. x \in Int
    BY BridgeAssumption
<1>4. f[d] = b.refunds[d][a]
    OBVIOUS
<1> HIDE DEF f, g
<1>5. CASE a = e
    <2>1. SumFunctionOnSet(g, Depositors) = SumFunctionOnSet(f, Depositors) - f[d] + g[d]
        BY <1>2, <1>3, <1>5, HoldersFinite, SumChange
    <2>2. SumFunctionOnSet(f, Depositors) \in Int
        BY <1>2, HoldersFinite, SumInt
    <2> QED
        BY <2>1, <2>2, <1>2, <1>3, <1>4, <1>5 DEF RefundsIn, f, g
<1>6. CASE a # e
    <2>1. SumFunctionOnSet(g, Depositors) = SumFunctionOnSet(f, Depositors)
        BY <1>2, <1>6, HoldersFinite, SumSame
    <2>2. SumFunctionOnSet(f, Depositors) \in Int
        BY <1>2, HoldersFinite, SumInt
    <2> QED
        BY <2>1, <2>2, <1>6 DEF RefundsIn, f, g
<1> QED
    BY <1>5, <1>6

LEMMA CoinBooks ==
    ASSUME NEW b \in Bridges, NEW c \in Bridges, NEW h \in Holders, NEW e \in Assets, NEW x \in Nat,
           CoinsSet(b, c, h, e, x), NEW a \in Assets
    PROVE  CoinsIn(c, a) = CoinsIn(b, a) + (IF a = e THEN x - b.coins[h][e] ELSE 0)
<1> DEFINE f == [i \in Holders |-> b.coins[i][a]]
<1> DEFINE g == [i \in Holders |-> c.coins[i][a]]
<1>1. b.coins \in [Holders -> [Assets -> Nat]]
    BY RecordOf
<1>2. \A i \in Holders : f[i] \in Int /\ g[i] = IF i = h /\ a = e THEN x ELSE f[i]
    BY <1>1 DEF CoinsSet
<1>3. f[h] = b.coins[h][a]
    OBVIOUS
<1> HIDE DEF f, g
<1>4. SumFunctionOnSet(f, Holders) \in Int
    BY <1>2, HoldersFinite, SumInt
<1>5. CASE a = e
    <2>1. SumFunctionOnSet(g, Holders) = SumFunctionOnSet(f, Holders) - f[h] + g[h]
        BY <1>2, <1>5, HoldersFinite, SumChange
    <2> QED
        BY <2>1, <1>2, <1>3, <1>4, <1>5 DEF CoinsIn, f, g
<1>6. CASE a # e
    <2>1. SumFunctionOnSet(g, Holders) = SumFunctionOnSet(f, Holders)
        BY <1>2, <1>6, HoldersFinite, SumSame
    <2> QED
        BY <2>1, <1>4, <1>6 DEF CoinsIn, f, g
<1> QED
    BY <1>5, <1>6

\* Nothing is sent to L1.
LEMMA SameOutbox ==
    ASSUME NEW b, NEW c, SentNothing(b, c), NEW l, NEW a
    PROVE  /\ ReturningIn(c, l, a) = ReturningIn(b, l, a)
           /\ \A d \in Depositors : ClaimedIn(c, d, a) = ClaimedIn(b, d, a)
BY DEF SentNothing, ReturningIn, Unreleased, ClaimedIn, RefundsOf

\* A message w is sent to L1.
LEMMA SendBooks ==
    ASSUME NEW b \in Bridges, NEW c \in Bridges,
           NEW w \in [to : Depositors, asset : Assets, amount : 0 .. MaxUint256, refund : BOOLEAN],
           SentMessage(b, c, w), NEW l, l.released \subseteq DOMAIN b.outbox, NEW a \in Assets
    PROVE  /\ ReturningIn(c, l, a) =
                ReturningIn(b, l, a) + (IF w.asset = a THEN w.amount ELSE 0)
           /\ \A d \in Depositors : ClaimedIn(c, d, a) =
                ClaimedIn(b, d, a) + (IF w.refund /\ w.to = d /\ w.asset = a THEN w.amount ELSE 0)
<1> DEFINE n == Len(b.outbox) + 1
<1> DEFINE f == AmountsOf(b.outbox)
<1> DEFINE g == AmountsOf(c.outbox)
<1>1. /\ n \notin DOMAIN b.outbox /\ DOMAIN c.outbox = DOMAIN b.outbox \union {n}
      /\ c.outbox[n] = w /\ \A i \in DOMAIN b.outbox : c.outbox[i] = b.outbox[i]
    <2> DEFINE W == [to : Depositors, asset : Assets, amount : 0 .. MaxUint256, refund : BOOLEAN]
    <2>1. b.outbox \in Seq(W) /\ w \in W
        BY RecordOf
    <2> HIDE DEF W
    <2> QED
        BY <2>1 DEF SentMessage
<1>2. g[n] = w.amount /\ w.amount \in Int
    BY <1>1, BridgeAssumption DEF AmountsOf
<1>3. \A i \in DOMAIN b.outbox : f[i] \in Int /\ g[i] = f[i]
    <2> SUFFICES ASSUME NEW i \in DOMAIN b.outbox
                 PROVE  f[i] \in Int /\ g[i] = f[i]
        OBVIOUS
    <2>1. f[i] = b.outbox[i].amount /\ b.outbox[i].amount \in Nat
        BY OutboxOf
    <2>2. i \in DOMAIN c.outbox /\ c.outbox[i] = b.outbox[i]
        BY <1>1
    <2> QED
        BY <2>1, <2>2 DEF AmountsOf
<1>4. IsFiniteSet(DOMAIN b.outbox)
    BY OutboxOf
<1> HIDE DEF n, f, g
<1>5. ASSUME NEW T \in SUBSET DOMAIN b.outbox
      PROVE  /\ SumFunctionOnSet(g, T) = SumFunctionOnSet(f, T)
             /\ SumFunctionOnSet(g, T \union {n}) = SumFunctionOnSet(f, T) + w.amount
             /\ SumFunctionOnSet(f, T) \in Int
    <2>1. /\ IsFiniteSet(T) /\ n \notin T
          /\ \A x \in T : f[x] \in Int
          /\ \A x \in T : g[x] = f[x]
          /\ g[n] \in Int
        BY <1>1, <1>2, <1>3, <1>4, FS_Subset
    <2>2. SumFunctionOnSet(g, T) = SumFunctionOnSet(f, T)
        BY <2>1, SumSame
    <2>3. SumFunctionOnSet(g, T \union {n}) = SumFunctionOnSet(f, T) + g[n]
        <3>1. \A x \in T \union {n} : g[x] \in Int
            BY <2>1
        <3>2. SumFunctionOnSet(g, T \union {n}) = g[n] + SumFunctionOnSet(g, T)
            BY <2>1, <3>1, SumAdd
        <3>3. SumFunctionOnSet(f, T) \in Int
            BY <2>1, SumInt
        <3> QED
            BY <2>1, <2>2, <3>2, <3>3
    <2> QED
        BY <2>1, <2>2, <2>3, <1>2, SumInt
<1>6. n \notin l.released
    BY <1>1
<1>7. ReturningIn(c, l, a) = ReturningIn(b, l, a) + (IF w.asset = a THEN w.amount ELSE 0)
    <2> DEFINE T == Unreleased(b, l, a)
    <2>1. T \in SUBSET DOMAIN b.outbox
        BY DEF Unreleased
    <2> HIDE DEF T
    <2>2. /\ SumFunctionOnSet(g, T) = SumFunctionOnSet(f, T)
          /\ SumFunctionOnSet(g, T \union {n}) = SumFunctionOnSet(f, T) + w.amount
          /\ SumFunctionOnSet(f, T) \in Int
        BY <2>1, <1>5
    <2>3. CASE w.asset = a
        <3>1. Unreleased(c, l, a) = T \union {n}
            BY <1>1, <1>6, <2>3 DEF Unreleased, T
        <3> QED
            BY <2>2, <2>3, <3>1 DEF ReturningIn, T, f, g
    <2>4. CASE w.asset # a
        <3>1. Unreleased(c, l, a) = T
            BY <1>1, <2>4 DEF Unreleased, T
        <3> QED
            BY <2>2, <2>4, <3>1 DEF ReturningIn, T, f, g
    <2> QED
        BY <2>3, <2>4
<1>8. ASSUME NEW d \in Depositors
      PROVE  ClaimedIn(c, d, a) =
                ClaimedIn(b, d, a) + (IF w.refund /\ w.to = d /\ w.asset = a THEN w.amount ELSE 0)
    <2> DEFINE T == RefundsOf(b, d, a)
    <2>1. T \in SUBSET DOMAIN b.outbox
        BY DEF RefundsOf
    <2> HIDE DEF T
    <2>2. /\ SumFunctionOnSet(g, T) = SumFunctionOnSet(f, T)
          /\ SumFunctionOnSet(g, T \union {n}) = SumFunctionOnSet(f, T) + w.amount
          /\ SumFunctionOnSet(f, T) \in Int
        BY <2>1, <1>5
    <2>3. CASE w.refund /\ w.to = d /\ w.asset = a
        <3>1. RefundsOf(c, d, a) = T \union {n}
            BY <1>1, <2>3 DEF RefundsOf, T
        <3> QED
            BY <2>2, <2>3, <3>1 DEF ClaimedIn, T, f, g
    <2>4. CASE ~(w.refund /\ w.to = d /\ w.asset = a)
        <3>1. RefundsOf(c, d, a) = T
            BY <1>1, <2>4 DEF RefundsOf, T
        <3> QED
            BY <2>2, <2>4, <3>1 DEF ClaimedIn, T, f, g
    <2> QED
        BY <2>3, <2>4
<1> QED
    BY <1>7, <1>8

\* Of the messages W of asset a, those in V are left when x of asset e was
\* taken out.
Leaves(l, W, V, a, e, x) ==
    /\ InMessages(l, V) \in Nat
    /\ InMessages(l, W) = InMessages(l, V) + (IF a = e THEN x ELSE 0)

\* A deposit of x of asset e becomes a refund.
Refunded(b, c, d, e, x) ==
    /\ b.refunds[d][e] + x <= MaxUint256
    /\ c.refunds = [b.refunds EXCEPT ![d][e] = b.refunds[d][e] + x]
    /\ c.refused = [b.refused EXCEPT ![d][e] = @ + x]
    /\ c.minted = b.minted /\ c.coins = b.coins /\ c.registered = b.registered
    /\ c.outbox = b.outbox

LEMMA RefundBooked ==
    ASSUME NEW b \in Bridges, NEW c \in Bridges, NEW l, NEW d \in Depositors, NEW e \in Assets,
           NEW x \in Nat, Refunded(b, c, d, e, x),
           NEW a \in Assets, NEW V, NEW W, Booked(b, l, a, W),
           Leaves(l, W, V, a, e, x)
    PROVE  Booked(c, l, a, V)
<1> USE DEF Refunded, Leaves
<1>1. b.refunds[d][e] + x \in 0 .. MaxUint256
    BY AccountsNat
<1>2. RefundsIn(c, a) = RefundsIn(b, a) + (IF a = e THEN x ELSE 0)
    <2> DEFINE y == b.refunds[d][e] + x
    <2>1. RefundSet(b, c, d, e, y) /\ y \in 0 .. MaxUint256
        BY <1>1 DEF RefundSet
    <2> HIDE DEF y
    <2>2. RefundsIn(c, a) = RefundsIn(b, a) + (IF a = e THEN y - b.refunds[d][e] ELSE 0)
        BY <2>1, RefundBooks
    <2>3. RefundsIn(b, a) \in Int /\ b.refunds[d][e] \in Int /\ y = b.refunds[d][e] + x
        BY AccountsInt DEF y
    <2> QED
        BY <2>2, <2>3
<1>3. /\ ReturningIn(c, l, a) = ReturningIn(b, l, a)
      /\ \A i \in Depositors : ClaimedIn(c, i, a) = ClaimedIn(b, i, a)
    BY SameOutbox DEF SentNothing
<1>4. CoinsIn(c, a) = CoinsIn(b, a)
    BY DEF CoinsIn
<1>5. \A i \in Depositors :
            /\ c.refunds[i][a] = b.refunds[i][a] + (IF i = d /\ a = e THEN x ELSE 0)
            /\ c.refused[i][a] = b.refused[i][a] + (IF i = d /\ a = e THEN x ELSE 0)
    <2>1. b.refunds \in [Depositors -> [Assets -> Int]]
        BY RecordOf, BridgeAssumption DEF Amounts
    <2>2. b.refused \in [Depositors -> [Assets -> Int]]
        BY RecordOf
    <2> QED
        BY <2>1, <2>2
<1>6. /\ b.minted[a] \in Int /\ RefundsIn(b, a) \in Int /\ ReturningIn(b, l, a) \in Int
      /\ b.refunds[d][e] \in Int
      /\ \A i \in Depositors : b.refunds[i][a] \in Int /\ ClaimedIn(b, i, a) \in Int
    BY AccountsInt
<1>7. l.locked[a] = InMessages(l, V) + c.minted[a] + RefundsIn(c, a) + ReturningIn(c, l, a)
    BY <1>2, <1>3, <1>6 DEF Booked
<1>8. \A i \in Depositors : c.refunds[i][a] + ClaimedIn(c, i, a) = c.refused[i][a]
    BY <1>3, <1>5, <1>6 DEF Booked
<1> QED
    BY <1>4, <1>7, <1>8 DEF Booked

\* A deposit of x of asset e is minted, and the coins go to h.
Minted(b, c, h, e, x) ==
    /\ c.minted = [b.minted EXCEPT ![e] = @ + x]
    /\ c.coins = [b.coins EXCEPT ![h][e] = @ + x]
    /\ c.registered = b.registered \union {e}
    /\ c.refunds = b.refunds /\ c.refused = b.refused /\ c.outbox = b.outbox

LEMMA MintBooked ==
    ASSUME NEW b \in Bridges, NEW c \in Bridges, NEW l, NEW h \in Holders, NEW e \in Assets,
           NEW x \in Nat, Minted(b, c, h, e, x),
           NEW a \in Assets, NEW V, NEW W, Booked(b, l, a, W),
           Leaves(l, W, V, a, e, x)
    PROVE  Booked(c, l, a, V)
<1> USE DEF Minted, Leaves
<1>1. b.coins[h][e] \in Nat /\ b.minted[e] \in Nat /\ b.minted[a] \in Nat
    BY RecordOf
<1>2. CoinsIn(c, a) = CoinsIn(b, a) + (IF a = e THEN x ELSE 0)
    <2> DEFINE y == b.coins[h][e] + x
    <2>1. CoinsSet(b, c, h, e, y) /\ y \in Nat
        BY <1>1 DEF CoinsSet
    <2> HIDE DEF y
    <2>2. CoinsIn(c, a) = CoinsIn(b, a) + (IF a = e THEN y - b.coins[h][e] ELSE 0)
        BY <2>1, CoinBooks
    <2>3. CoinsIn(b, a) \in Int /\ y = b.coins[h][e] + x
        BY AccountsInt DEF y
    <2> QED
        BY <1>1, <2>2, <2>3
<1>3. /\ ReturningIn(c, l, a) = ReturningIn(b, l, a)
      /\ \A i \in Depositors : ClaimedIn(c, i, a) = ClaimedIn(b, i, a)
    BY SameOutbox DEF SentNothing
<1>4. RefundsIn(c, a) = RefundsIn(b, a)
    BY DEF RefundsIn
<1>5. c.minted[a] = b.minted[a] + (IF a = e THEN x ELSE 0)
    BY RecordOf
<1>6. CoinsIn(b, a) \in Int /\ RefundsIn(b, a) \in Int /\ ReturningIn(b, l, a) \in Int
    BY AccountsInt
<1>7. c.minted[a] = CoinsIn(c, a)
    BY <1>1, <1>2, <1>5, <1>6 DEF Booked
<1>8. l.locked[a] = InMessages(l, V) + c.minted[a] + RefundsIn(c, a) + ReturningIn(c, l, a)
    BY <1>1, <1>3, <1>4, <1>5, <1>6 DEF Booked
<1>9. c.minted[a] > 0 => a \in c.registered
    BY <1>1, <1>5 DEF Booked
<1> QED
    BY <1>3, <1>7, <1>8, <1>9 DEF Booked

\* A depositor d claims a refund of asset e.
Claimed(b, c, d, e) ==
    /\ c.refunds = [b.refunds EXCEPT ![d][e] = 0]
    /\ c.outbox = Append(b.outbox, [to |-> d, asset |-> e, amount |-> b.refunds[d][e],
                                    refund |-> TRUE])
    /\ c.minted = b.minted /\ c.coins = b.coins /\ c.registered = b.registered
    /\ c.refused = b.refused

LEMMA ClaimBooked ==
    ASSUME NEW b \in Bridges, NEW c \in Bridges, NEW l, NEW d \in Depositors, NEW e \in Assets,
           l.released \subseteq DOMAIN b.outbox, Claimed(b, c, d, e),
           NEW a \in Assets, NEW W, Booked(b, l, a, W), InMessages(l, W) \in Nat
    PROVE  Booked(c, l, a, W)
<1> USE DEF Claimed
<1> DEFINE w == [to |-> d, asset |-> e, amount |-> b.refunds[d][e], refund |-> TRUE]
<1>1. w \in [to : Depositors, asset : Assets, amount : 0 .. MaxUint256, refund : BOOLEAN]
    BY AccountsNat
<1>2. w.asset = e /\ w.to = d /\ w.refund /\ w.amount = b.refunds[d][e]
    OBVIOUS
<1>3. SentMessage(b, c, w)
    BY DEF SentMessage
<1> HIDE DEF w
<1>4. /\ ReturningIn(c, l, a) = ReturningIn(b, l, a) + (IF w.asset = a THEN w.amount ELSE 0)
      /\ \A i \in Depositors : ClaimedIn(c, i, a) =
            ClaimedIn(b, i, a) + (IF w.refund /\ w.to = i /\ w.asset = a THEN w.amount ELSE 0)
    BY <1>1, <1>3, SendBooks
<1>5. RefundsIn(c, a) = RefundsIn(b, a) + (IF a = e THEN 0 - b.refunds[d][e] ELSE 0)
    <2>1. 0 \in 0 .. MaxUint256
        BY BridgeAssumption
    <2> QED
        BY <2>1, RefundBooks DEF RefundSet
<1>6. CoinsIn(c, a) = CoinsIn(b, a)
    BY DEF CoinsIn
<1>7. \A i \in Depositors :
            c.refunds[i][a] = IF i = d /\ a = e THEN 0 ELSE b.refunds[i][a]
    BY FunctionsOf
<1>8. /\ b.minted[a] \in Int /\ RefundsIn(b, a) \in Int /\ ReturningIn(b, l, a) \in Int
      /\ b.refunds[d][e] \in Int
      /\ \A i \in Depositors : b.refunds[i][a] \in Int /\ ClaimedIn(b, i, a) \in Int
    BY AccountsInt
<1>9. l.locked[a] = InMessages(l, W) + c.minted[a] + RefundsIn(c, a) + ReturningIn(c, l, a)
    <2>1. l.locked[a] = InMessages(l, W) + b.minted[a] + RefundsIn(b, a) + ReturningIn(b, l, a)
        BY DEF Booked
    <2>2. CASE a = e
        <3>1. ReturningIn(c, l, a) = ReturningIn(b, l, a) + b.refunds[d][e]
            BY <1>2, <1>4, <2>2
        <3>2. RefundsIn(c, a) = RefundsIn(b, a) - b.refunds[d][e]
            BY <1>5, <1>8, <2>2
        <3>3. c.minted[a] = b.minted[a]
            OBVIOUS
        <3>4. InMessages(l, W) \in Int
            OBVIOUS
        <3> QED
            BY <1>8, <2>1, <3>1, <3>2, <3>3, <3>4, SMTT(30)
    <2>3. CASE a # e
        BY <1>2, <1>4, <1>5, <1>8, <2>1, <2>3
    <2> QED
        BY <2>2, <2>3
<1>10. \A i \in Depositors : c.refunds[i][a] + ClaimedIn(c, i, a) = c.refused[i][a]
    BY <1>2, <1>4, <1>7, <1>8 DEF Booked
<1> QED
    BY <1>6, <1>9, <1>10 DEF Booked

\* A holder h withdraws x of asset e.
Withdrawn(b, c, h, d, e, x) ==
    /\ x <= b.coins[h][e] /\ x <= b.minted[e]
    /\ c.minted = [b.minted EXCEPT ![e] = @ - x]
    /\ c.coins = [b.coins EXCEPT ![h][e] = @ - x]
    /\ c.outbox = Append(b.outbox, [to |-> d, asset |-> e, amount |-> x, refund |-> FALSE])
    /\ c.registered = b.registered /\ c.refunds = b.refunds /\ c.refused = b.refused

LEMMA WithdrawBooked ==
    ASSUME NEW b \in Bridges, NEW c \in Bridges, NEW l, NEW h \in Holders, NEW d \in Depositors,
           NEW e \in Assets, NEW x \in Nat, Withdrawn(b, c, h, d, e, x),
           l.released \subseteq DOMAIN b.outbox,
           NEW a \in Assets, NEW W, Booked(b, l, a, W), InMessages(l, W) \in Nat
    PROVE  Booked(c, l, a, W)
<1> DEFINE w == [to |-> d, asset |-> e, amount |-> x, refund |-> FALSE]
<1>1. w \in [to : Depositors, asset : Assets, amount : 0 .. MaxUint256, refund : BOOLEAN]
    <2>1. b.minted[e] \in 0 .. MaxUint64
        BY AccountsNat
    <2> QED
        BY <2>1, BridgeAssumption DEF Withdrawn
<1>2. w.asset = e /\ ~w.refund /\ w.amount = x
    OBVIOUS
<1>3. SentMessage(b, c, w)
    BY DEF SentMessage, Withdrawn
<1> HIDE DEF w
<1>4. /\ ReturningIn(c, l, a) = ReturningIn(b, l, a) + (IF w.asset = a THEN w.amount ELSE 0)
      /\ \A i \in Depositors : ClaimedIn(c, i, a) =
            ClaimedIn(b, i, a) + (IF w.refund /\ w.to = i /\ w.asset = a THEN w.amount ELSE 0)
    BY <1>1, <1>3, SendBooks
<1>5. b.coins[h][e] \in Nat /\ b.minted[e] \in Nat /\ b.minted[a] \in Nat
    BY RecordOf
<1>6. CoinsIn(c, a) = CoinsIn(b, a) + (IF a = e THEN b.coins[h][e] - x - b.coins[h][e] ELSE 0)
    <2>1. CoinsSet(b, c, h, e, b.coins[h][e] - x)
        BY DEF CoinsSet, Withdrawn
    <2>2. b.coins[h][e] - x \in Nat
        BY <1>5 DEF Withdrawn
    <2> QED
        BY <2>1, <2>2, CoinBooks
<1>7. RefundsIn(c, a) = RefundsIn(b, a)
    BY DEF RefundsIn, Withdrawn
<1>8. c.minted[a] = b.minted[a] - (IF a = e THEN x ELSE 0)
    BY <1>5, FunctionsOf DEF Withdrawn
<1>9. /\ CoinsIn(b, a) \in Int /\ RefundsIn(b, a) \in Int /\ ReturningIn(b, l, a) \in Int
      /\ \A i \in Depositors : ClaimedIn(b, i, a) \in Int
    BY AccountsInt
<1>10. c.minted[a] = CoinsIn(c, a)
    <2>1. b.minted[a] = CoinsIn(b, a)
        BY DEF Booked
    <2> QED
        BY <1>5, <1>6, <1>8, <1>9, <2>1
<1>11. l.locked[a] = InMessages(l, W) + c.minted[a] + RefundsIn(c, a) + ReturningIn(c, l, a)
    BY <1>2, <1>4, <1>5, <1>7, <1>8, <1>9 DEF Booked, Withdrawn
<1>12. c.minted[a] > 0 => a \in c.registered
    BY <1>5, <1>8 DEF Booked, Withdrawn
<1>13. \A i \in Depositors : ClaimedIn(c, i, a) = ClaimedIn(b, i, a)
    BY <1>2, <1>4, <1>9
<1> QED
    BY <1>10, <1>11, <1>12, <1>13 DEF Booked, Withdrawn

\* Coins change hands.
Moved(b, c, h, o, e, x) ==
    /\ h # o /\ x <= b.coins[h][e]
    /\ c.coins = [[b.coins EXCEPT ![h][e] = @ - x] EXCEPT ![o][e] = @ + x]
    /\ c.minted = b.minted /\ c.registered = b.registered /\ c.refunds = b.refunds
    /\ c.refused = b.refused /\ c.outbox = b.outbox

LEMMA TransferBooked ==
    ASSUME NEW b \in Bridges, NEW c \in Bridges, NEW l, NEW h \in Holders, NEW o \in Holders,
           NEW e \in Assets, NEW x \in Nat, Moved(b, c, h, o, e, x),
           NEW a \in Assets, NEW W, Booked(b, l, a, W)
    PROVE  Booked(c, l, a, W)
<1> USE DEF Moved
<1> DEFINE C == [b.coins EXCEPT ![h][e] = b.coins[h][e] - x]
<1> DEFINE n == [b EXCEPT !.coins = C]
<1>1. b.coins \in [Holders -> [Assets -> Nat]]
    BY RecordOf
<1>2. b.coins[h][e] \in Nat /\ b.coins[o][e] \in Nat /\ b.coins[h][e] - x \in Nat
    BY <1>1
<1>3. C \in [Holders -> [Assets -> Nat]] /\ C[o][e] = b.coins[o][e]
    BY <1>1, <1>2
<1>4. n \in Bridges /\ n.coins = C /\ n.coins[o][e] = b.coins[o][e]
    BY <1>3 DEF Bridges
<1>5. CoinsSet(b, n, h, e, b.coins[h][e] - x)
    BY <1>4 DEF CoinsSet
<1>6. CoinsSet(n, c, o, e, b.coins[o][e] + x)
    BY <1>1, <1>3, <1>4 DEF CoinsSet
<1> HIDE DEF n, C
<1>7. CoinsIn(n, a) = CoinsIn(b, a) + (IF a = e THEN b.coins[h][e] - x - b.coins[h][e] ELSE 0)
    BY <1>2, <1>4, <1>5, CoinBooks
<1>8. CoinsIn(c, a) = CoinsIn(n, a) + (IF a = e THEN x ELSE 0)
    <2> DEFINE y == b.coins[o][e] + x
    <2>1. CoinsSet(n, c, o, e, y) /\ y \in Nat
        BY <1>2, <1>6
    <2> HIDE DEF y
    <2>2. CoinsIn(c, a) = CoinsIn(n, a) + (IF a = e THEN y - n.coins[o][e] ELSE 0)
        BY <1>4, <2>1, CoinBooks
    <2>3. CoinsIn(n, a) \in Int /\ y = b.coins[o][e] + x
        BY <1>4, AccountsInt DEF y
    <2> QED
        BY <1>2, <1>4, <2>2, <2>3
<1>9. CoinsIn(b, a) \in Int /\ CoinsIn(n, a) \in Int
    BY <1>4, AccountsInt
<1>10. CoinsIn(c, a) = CoinsIn(b, a)
    BY <1>2, <1>4, <1>7, <1>8, <1>9
<1>11. RefundsIn(c, a) = RefundsIn(b, a)
    BY DEF RefundsIn
<1>12. /\ ReturningIn(c, l, a) = ReturningIn(b, l, a)
       /\ \A i \in Depositors : ClaimedIn(c, i, a) = ClaimedIn(b, i, a)
    <2>1. SentNothing(b, c)
        BY DEF SentNothing
    <2> HIDE DEF Moved
    <2> QED
        BY <2>1, SameOutbox
<1> QED
    BY <1>10, <1>11, <1>12 DEF Booked

-----------------------------------------------------------------------------
(* The books in every state *)

\* The gateway's messages of asset a in l that are not among the messages s.
Unspent(l, s, a) ==
    {i \in DOMAIN l.messages \ s : l.messages[i].sender = Gateway /\ l.messages[i].asset = a}

\* The message whose receiver runs.
Running == IF InCall THEN {call[1].index} ELSE {}

\* While a receiver runs, its deposit counts as spent in the storage, and as
\* unspent in the storage that comes back when the call fails.
BooksInv ==
    /\ IInv
    /\ \A i \in DOMAIN l1.messages : l1.messages[i].kind = "METADATA" => l1.messages[i].amount = 0
    /\ \A a \in Assets : Booked(bridge, l1, a, Unspent(l1, spent, a) \ Running)
    /\ InCall => /\ call[1].index \notin spent
                 /\ \A a \in Assets : Booked(call[1].before, l1, a, Unspent(l1, spent, a))

LEMMA LedgersOf ==
    ASSUME IInv
    PROVE  l1 \in Ledgers /\ bridge \in Bridges /\ l1.released \subseteq DOMAIN bridge.outbox
<1>1. bridge \in Bridges /\ l1.released \subseteq DOMAIN bridge.outbox
    BY DEF IInv, TypeOK
<1>2. DOMAIN bridge.outbox \subseteq Nat
    BY <1>1, OutboxOf
<1> QED
    BY <1>1, <1>2 DEF IInv, TypeOK, Ledgers

LEMMA InMessagesNat ==
    ASSUME NEW l \in Ledgers, NEW W \in SUBSET DOMAIN l.messages
    PROVE  InMessages(l, W) \in Nat /\ IsFiniteSet(W)
BY MessagesOf, FS_Subset, SumNat DEF InMessages

LEMMA InMessagesRest ==
    ASSUME NEW l \in Ledgers, NEW W \in SUBSET DOMAIN l.messages, NEW i \in W
    PROVE  InMessages(l, W) = l.messages[i].amount + InMessages(l, W \ {i})
<1> DEFINE f == AmountsOf(l.messages)
<1>1. \A j \in W : f[j] \in Int
    BY MessagesOf
<1>2. IsFiniteSet(W)
    BY InMessagesNat
<1>3. f[i] = l.messages[i].amount
    BY MessagesOf
<1> HIDE DEF f
<1>4. SumFunctionOnSet(f, W) = f[i] + SumFunctionOnSet(f, W \ {i})
    BY <1>1, <1>2, SumRemove
<1> QED
    BY <1>3, <1>4 DEF InMessages, f

\* What message i of the gateway takes out of the unspent messages of asset a.
LEMMA UnspentRest ==
    ASSUME IInv, NEW i \in DOMAIN l1.messages \ spent, l1.messages[i].sender = Gateway,
           NEW a \in Assets
    PROVE  /\ Leaves(l1, Unspent(l1, spent, a), Unspent(l1, spent, a) \ {i}, a,
                     l1.messages[i].asset, l1.messages[i].amount)
           /\ Unspent(l1, spent \union {i}, a) = Unspent(l1, spent, a) \ {i}
<1> DEFINE W == Unspent(l1, spent, a)
<1>1. l1 \in Ledgers
    BY LedgersOf
<1>2. W \subseteq DOMAIN l1.messages
    BY DEF Unspent
<1>3. Unspent(l1, spent \union {i}, a) = W \ {i}
    BY DEF Unspent
<1>4. i \in W <=> a = l1.messages[i].asset
    BY DEF Unspent
<1> HIDE DEF W
<1>5. InMessages(l1, W) \in Nat /\ InMessages(l1, W \ {i}) \in Nat
    BY <1>1, <1>2, InMessagesNat
<1>6. l1.messages[i].amount \in Int
    BY <1>1, MessagesOf
<1>7. CASE i \in W
    <2>1. InMessages(l1, W) = l1.messages[i].amount + InMessages(l1, W \ {i})
        BY <1>1, <1>2, <1>7, InMessagesRest
    <2>2. Leaves(l1, W, W \ {i}, a, l1.messages[i].asset, l1.messages[i].amount)
        BY <1>4, <1>5, <1>6, <1>7, <2>1 DEF Leaves
    <2> QED
        BY <1>3, <2>2 DEF W
<1>8. CASE i \notin W
    <2>1. W \ {i} = W
        BY <1>8
    <2> QED
        BY <1>3, <1>4, <1>5, <1>8, <2>1 DEF W, Leaves
<1> QED
    BY <1>7, <1>8

LEMMA InitBooks ==
    ASSUME Init
    PROVE  BooksInv
<1>1. IInv
    BY InitIInv
<1>2. /\ l1.messages = <<>> /\ l1.locked = [a \in Assets |-> 0] /\ DOMAIN l1.messages = {}
      /\ bridge = InitialBridge /\ ~InCall
    BY DEF Init, InCall
<1>3. ASSUME NEW a \in Assets
      PROVE  Booked(bridge, l1, a, Unspent(l1, spent, a) \ Running)
    <2>1. CoinsIn(bridge, a) = 0
        BY <1>2, HoldersFinite, SumZero DEF CoinsIn, InitialBridge
    <2>2. RefundsIn(bridge, a) = 0
        BY <1>2, HoldersFinite, SumZero DEF RefundsIn, InitialBridge
    <2>3. bridge.outbox = <<>> /\ DOMAIN bridge.outbox = {}
        BY <1>2 DEF InitialBridge
    <2>4. ReturningIn(bridge, l1, a) = 0
        <3>1. Unreleased(bridge, l1, a) = {}
            BY <2>3 DEF Unreleased
        <3> QED
            BY <3>1, SumEmpty DEF ReturningIn
    <2>5. \A d \in Depositors : ClaimedIn(bridge, d, a) = 0
        <3>1. \A d \in Depositors : RefundsOf(bridge, d, a) = {}
            BY <2>3 DEF RefundsOf
        <3> QED
            BY <3>1, SumEmpty DEF ClaimedIn
    <2>6. InMessages(l1, Unspent(l1, spent, a) \ Running) = 0
        <3>1. Unspent(l1, spent, a) \ Running = {}
            BY <1>2 DEF Unspent
        <3> QED
            BY <3>1, SumEmpty DEF InMessages
    <2>7. /\ bridge.minted[a] = 0 /\ l1.locked[a] = 0
          /\ \A d \in Depositors : bridge.refunds[d][a] = 0 /\ bridge.refused[d][a] = 0
        BY <1>2 DEF InitialBridge
    <2> QED
        BY <2>1, <2>2, <2>4, <2>5, <2>6, <2>7 DEF Booked
<1> QED
    BY <1>1, <1>2, <1>3 DEF BooksInv

-----------------------------------------------------------------------------
(* Each step keeps the books *)

\* A sum of two amounts of w bits that is no less than the first did not wrap.
LEMMA NoWrap ==
    ASSUME NEW w \in Nat, NEW x \in 0 .. w, NEW y \in 0 .. w, (x + y) % (w + 1) >= x
    PROVE  (x + y) % (w + 1) = x + y
<1>1. CASE x + y <= w
    BY <1>1
<1>2. CASE x + y > w
    <2>1. (x + y) % (w + 1) = x + y - (w + 1)
        BY <1>2
    <2> QED
        BY <2>1
<1> QED
    BY <1>1, <1>2

\* Whatever becomes of message i, it leaves the unspent messages and enters the
\* accounts.  A refund that is added without a check does not wrap: what L1
\* locked is a uint256.
LEMMA ProcessBooks ==
    ASSUME BooksInv, NEW i \in DOMAIN l1.messages, process_message(i), NEW a \in Assets
    PROVE  Booked(bridge', l1, a, Unspent(l1, spent, a) \ {i})
<1> DEFINE m == l1.messages[i]
<1> DEFINE W == Unspent(l1, spent, a)
<1> SUFFICES Booked(bridge', l1, a, W \ {i})
    OBVIOUS
<1>1. IInv /\ ~InCall /\ Grows /\ bridge' \in Bridges
    BY ProcessGrows DEF BooksInv, process_message, reentrancy_guard, Grows
<1>2. bridge \in Bridges /\ l1 \in Ledgers
    BY <1>1, LedgersOf
<1>3. m.asset \in Assets /\ m.from \in Depositors /\ m.to \in Holders /\ m.amount \in Nat
      /\ m.amount \in 0 .. MaxUint256
    BY <1>2, MessagesOf, BridgeAssumption DEF Messages
<1>4. i \in DOMAIN l1.messages \ spent /\ m.sender = Gateway
    BY <1>1 DEF process_message, Inputs, Authorized
<1>5. Booked(bridge, l1, a, W) /\ Booked(bridge, l1, m.asset, Unspent(l1, spent, m.asset))
    <2>1. \A e \in Assets : Unspent(l1, spent, e) \ Running = Unspent(l1, spent, e)
        BY <1>1 DEF Running
    <2> QED
        BY <1>3, <2>1 DEF BooksInv
<1>6. Leaves(l1, W, W \ {i}, a, m.asset, m.amount)
    BY <1>1, <1>4, UnspentRest
<1>7. PreviousRefund(m) = bridge.refunds[m.from][m.asset]
    BY DEF PreviousRefund
<1>8. CASE m.kind = "METADATA"
    <2>1. m.amount = 0
        BY <1>8 DEF BooksInv
    <2>2. bridge' = [bridge EXCEPT !.named = @ \union {m.asset}]
        BY <1>8 DEF process_message, _process_metadata
    <2>3. /\ bridge'.minted = bridge.minted /\ bridge'.coins = bridge.coins
          /\ bridge'.refunds = bridge.refunds /\ bridge'.refused = bridge.refused
          /\ bridge'.outbox = bridge.outbox /\ bridge'.registered = bridge.registered
        BY <1>2, <2>2 DEF Bridges
    <2>4. InMessages(l1, W) = InMessages(l1, W \ {i})
        BY <1>6, <2>1 DEF Leaves
    <2> HIDE DEF W, m
    <2>5. /\ CoinsIn(bridge', a) = CoinsIn(bridge, a)
          /\ RefundsIn(bridge', a) = RefundsIn(bridge, a)
          /\ ReturningIn(bridge', l1, a) = ReturningIn(bridge, l1, a)
          /\ \A d \in Depositors : ClaimedIn(bridge', d, a) = ClaimedIn(bridge, d, a)
        BY <2>3 DEF CoinsIn, RefundsIn, ReturningIn, Unreleased, ClaimedIn, RefundsOf
    <2> QED
        BY <1>5, <2>3, <2>4, <2>5 DEF Booked
<1>9. CASE \E x : x = bridge.refunds[m.from][m.asset] + m.amount /\ x <= MaxUint256
                    /\ register_refund(m, x)
    <2>1. Refunded(bridge, bridge', m.from, m.asset, m.amount)
        BY <1>2, <1>9 DEF register_refund, Refunded, Bridges
    <2> HIDE DEF m, W
    <2> QED
        BY <1>1, <1>2, <1>3, <1>5, <1>6, <2>1, RefundBooked
<1>10. CASE refundOverflow(m)
    <2> DEFINE e == m.asset
    <2> DEFINE U == Unspent(l1, spent, e)
    <2>1. /\ bridge.refunds[m.from][e] \in 0 .. MaxUint256
          /\ bridge.refunds[m.from][e] <= RefundsIn(bridge, e)
        BY <1>2, <1>3, AccountsNat
    <2>2. /\ bridge.minted[e] \in Nat /\ ReturningIn(bridge, l1, e) \in Nat
          /\ RefundsIn(bridge, e) \in Nat
        BY <1>2, <1>3, AccountsNat
    <2>3. InMessages(l1, U) = InMessages(l1, U \ {i}) + m.amount /\ InMessages(l1, U \ {i}) \in Nat
        BY <1>1, <1>3, <1>4, UnspentRest DEF Leaves
    <2>4. l1.locked[e] = InMessages(l1, U) + bridge.minted[e] + RefundsIn(bridge, e)
                            + ReturningIn(bridge, l1, e)
        BY <1>5 DEF Booked
    <2>5. l1.locked[e] \in 0 .. MaxUint256
        BY <1>2, <1>3 DEF Ledgers
    <2>6. bridge.refunds[m.from][e] + m.amount <= MaxUint256
        <3> HIDE DEF m, e, U
        <3> QED
            BY <1>3, <2>1, <2>2, <2>3, <2>4, <2>5, BridgeAssumption
    <2>7. WrappingSum(PreviousRefund(m), m.amount) = bridge.refunds[m.from][e] + m.amount
        BY <1>3, <1>7, <2>1, <2>6, BridgeAssumption DEF WrappingSum
    <2> QED
        BY <1>9, <1>10, <2>6, <2>7 DEF refundOverflow
<1>11. CASE mintTo(m)
    <2>1. bridge.minted[m.asset] \in 0 .. MaxUint64
        BY <1>2, <1>3, AccountsNat
    <2>2. new_total_supply(m) = bridge.minted[m.asset] + m.amount
        <3>1. /\ m.amount \in 0 .. MaxUint64
              /\ ~(new_total_supply(m) < bridge.minted[m.asset])
            BY <1>3, <1>11 DEF mintTo, Mints, SupplyOverflows
        <3> QED
            BY <2>1, <3>1, NoWrap, BridgeAssumption DEF new_total_supply
    <2>3. Minted(bridge, bridge', m.to, m.asset, m.amount)
        BY <1>2, <1>11, <2>2 DEF mintTo, Minted, Bridges
    <2> HIDE DEF m, W
    <2> QED
        BY <1>1, <1>2, <1>3, <1>5, <1>6, <2>3, MintBooked
<1> QED
    BY <1>7, <1>8, <1>9, <1>10, <1>11 DEF process_message, _process_deposit, refundTooLarge

LEMMA ProcessBooksInv ==
    ASSUME BooksInv, NEW i \in DOMAIN l1.messages, process_message(i), UNCHANGED l1
    PROVE  BooksInv'
<1>1. IInv' /\ IInv /\ ~InCall
    BY ProcessStep DEF BooksInv, process_message, reentrancy_guard
<1>2. \A a \in Assets : Booked(bridge', l1, a, Unspent(l1, spent, a) \ {i})
    BY ProcessBooks
<1>3. i \in DOMAIN l1.messages \ spent /\ l1.messages[i].sender = Gateway
    BY <1>1 DEF process_message, Inputs, Authorized
<1>4. CASE spent' = spent \union {i} /\ UNCHANGED call
    <2>1. Running' = {} /\ ~InCall'
        BY <1>1, <1>4 DEF Running, InCall
    <2>2. ASSUME NEW a \in Assets
          PROVE  Unspent(l1', spent', a) \ Running' = Unspent(l1, spent, a) \ {i}
        BY <2>1, <1>1, <1>3, <1>4, UnspentRest
    <2> QED
        BY <1>1, <1>2, <2>1, <2>2 DEF BooksInv
<1>5. CASE call' = <<[index |-> i, before |-> bridge]>> /\ UNCHANGED spent
    <2>1. Running' = {i} /\ InCall' /\ call'[1].before = bridge /\ call'[1].index = i
        BY <1>5 DEF Running, InCall
    <2>2. ASSUME NEW a \in Assets
          PROVE  Booked(bridge, l1, a, Unspent(l1, spent, a))
        <3>1. Unspent(l1, spent, a) \ Running = Unspent(l1, spent, a)
            BY <1>1 DEF Running
        <3> QED
            BY <3>1 DEF BooksInv
    <2> QED
        BY <1>1, <1>2, <1>3, <1>5, <2>1, <2>2 DEF BooksInv
<1> QED
    BY <1>4, <1>5 DEF process_message

LEMMA ReturnBooks ==
    ASSUME BooksInv, callReturns \/ callFails, UNCHANGED l1
    PROVE  BooksInv'
<1> DEFINE i == call[1].index
<1>1. IInv' /\ InCall /\ ~InCall' /\ Running = {i} /\ Running' = {}
    BY ReturnStep DEF BooksInv, callReturns, callFails, InCall, Running
<1>2. CASE callReturns
    <2>1. spent' = spent \union {i} /\ bridge' = bridge
        BY <1>2 DEF callReturns
    <2>2. ASSUME NEW a \in Assets
          PROVE  Unspent(l1', spent', a) \ Running' = Unspent(l1, spent, a) \ Running
        BY <1>1, <2>1 DEF Unspent
    <2> QED
        BY <1>1, <2>1, <2>2 DEF BooksInv
<1>3. CASE callFails
    <2>1. spent' = spent /\ bridge' = call[1].before
        BY <1>3 DEF callFails
    <2>2. ASSUME NEW a \in Assets
          PROVE  Unspent(l1', spent', a) \ Running' = Unspent(l1, spent, a)
        BY <1>1, <2>1 DEF Unspent
    <2> QED
        BY <1>1, <2>1, <2>2 DEF BooksInv
<1> QED
    BY <1>2, <1>3

\* A step of Fuel that leaves calls and messages alone.
LEMMA KeptBooks ==
    ASSUME BooksInv, Grows, UNCHANGED <<call, spent, l1>>,
           \A a \in Assets : Booked(bridge', l1, a, Unspent(l1, spent, a) \ Running)
    PROVE  BooksInv'
<1>1. IInv'
    BY Kept DEF BooksInv
<1>2. /\ Running' = Running /\ InCall' = InCall
      /\ \A a \in Assets : Unspent(l1', spent', a) = Unspent(l1, spent, a)
    BY DEF Running, InCall
<1> QED
    BY <1>1, <1>2 DEF BooksInv

\* What BooksInv says of the current storage.
LEMMA BooksNow ==
    ASSUME BooksInv, NEW a \in Assets
    PROVE  /\ bridge \in Bridges /\ l1.released \subseteq DOMAIN bridge.outbox
           /\ Booked(bridge, l1, a, Unspent(l1, spent, a) \ Running)
           /\ InMessages(l1, Unspent(l1, spent, a) \ Running) \in Nat
<1>1. Unspent(l1, spent, a) \ Running \in SUBSET DOMAIN l1.messages
    BY DEF Unspent
<1> QED
    BY <1>1, LedgersOf, InMessagesNat DEF BooksInv

LEMMA ClaimBooks ==
    ASSUME BooksInv, NEW d \in Depositors, NEW e \in Assets, claim_refund(d, e), UNCHANGED l1
    PROVE  BooksInv'
<1>1. Grows /\ bridge' \in Bridges /\ bridge \in Bridges
    BY ClaimGrows, LedgersOf DEF BooksInv, Grows
<1>2. Claimed(bridge, bridge', d, e)
    BY <1>1 DEF claim_refund, Sent, Claimed, Bridges
<1>3. ASSUME NEW a \in Assets
      PROVE  Booked(bridge', l1, a, Unspent(l1, spent, a) \ Running)
    BY <1>1, <1>2, BooksNow, ClaimBooked
<1> QED
    BY <1>1, <1>3, KeptBooks DEF claim_refund

LEMMA WithdrawBooks ==
    ASSUME BooksInv, NEW h \in Holders, NEW d \in Depositors, NEW e \in Assets,
           NEW amount \in WithdrawAmounts, withdraw(h, d, e, amount), UNCHANGED l1
    PROVE  BooksInv'
<1>1. Grows /\ bridge' \in Bridges /\ bridge \in Bridges
    BY WithdrawGrows, LedgersOf DEF BooksInv, Grows
<1>2. Withdrawn(bridge, bridge', h, d, e, amount)
    BY <1>1 DEF withdraw, Sent, Withdrawn, Bridges
<1>3. amount \in Nat
    BY BridgeAssumption
<1>4. ASSUME NEW a \in Assets
      PROVE  Booked(bridge', l1, a, Unspent(l1, spent, a) \ Running)
    BY <1>1, <1>2, <1>3, BooksNow, WithdrawBooked
<1> QED
    BY <1>1, <1>4, KeptBooks DEF withdraw

LEMMA TransferBooks ==
    ASSUME BooksInv, NEW h \in Holders, NEW o \in Holders, NEW e \in Assets,
           NEW amount \in WithdrawAmounts, Transfer(h, o, e, amount), UNCHANGED l1
    PROVE  BooksInv'
<1>1. Grows /\ bridge' \in Bridges /\ bridge \in Bridges
    BY TransferGrows, LedgersOf DEF BooksInv, Grows
<1>2. Moved(bridge, bridge', h, o, e, amount)
    BY <1>1 DEF Transfer, Moved, Bridges
<1>3. amount \in Nat
    BY BridgeAssumption
<1>4. ASSUME NEW a \in Assets
      PROVE  Booked(bridge', l1, a, Unspent(l1, spent, a) \ Running)
    BY <1>1, <1>2, <1>3, BooksNow, TransferBooked
<1> QED
    BY <1>1, <1>4, KeptBooks DEF Transfer

\* A message of L1 joins the unspent ones of its asset, with what it locked.
LEMMA ArrivesBooks ==
    ASSUME BooksInv, NEW m \in Messages, m.amount \in DepositAmounts, Arrives(m)
    PROVE  BooksInv'
<1> DEFINE x == IF m.sender = Gateway THEN m.amount ELSE 0
<1> DEFINE n == Len(l1.messages) + 1
<1> DEFINE f == AmountsOf(l1.messages)
<1> DEFINE g == AmountsOf(l1'.messages)
<1>1. IInv' /\ IInv /\ ~InCall /\ ~InCall' /\ UNCHANGED <<bridge, call, spent>>
    BY ArrivesStep DEF BooksInv, Arrives, InCall
<1>2. l1 \in Ledgers /\ bridge \in Bridges
    BY <1>1, LedgersOf
<1>3. m.asset \in Assets /\ m.amount \in Nat /\ x \in Nat
    BY BridgeAssumption DEF Messages
<1>4. /\ l1'.messages = Append(l1.messages, m) /\ l1'.released = l1.released
      /\ l1'.locked = [l1.locked EXCEPT ![m.asset] = @ + x]
    BY DEF Arrives, IInv, TypeOK, BooksInv
<1>5. /\ DOMAIN l1'.messages = DOMAIN l1.messages \union {n} /\ n \notin DOMAIN l1.messages
      /\ l1'.messages[n] = m /\ \A j \in DOMAIN l1.messages : l1'.messages[j] = l1.messages[j]
    <2>1. l1.messages \in Seq(Messages)
        BY <1>2 DEF Ledgers
    <2> QED
        BY <1>4, <2>1
<1>6. \A j \in DOMAIN l1.messages : f[j] \in Int /\ g[j] = f[j]
    <2> SUFFICES ASSUME NEW j \in DOMAIN l1.messages
                 PROVE  f[j] \in Int /\ g[j] = f[j]
        OBVIOUS
    <2>1. f[j] = l1.messages[j].amount /\ l1.messages[j].amount \in Nat
        BY <1>2, MessagesOf
    <2>2. g[j] = l1'.messages[j].amount /\ l1'.messages[j] = l1.messages[j]
        BY <1>5 DEF AmountsOf
    <2> QED
        BY <2>1, <2>2
<1>7. g[n] = m.amount
    BY <1>5 DEF AmountsOf
<1>8. ASSUME NEW a \in Assets
      PROVE  Booked(bridge', l1', a, Unspent(l1', spent', a) \ Running')
    <2> DEFINE U == Unspent(l1, spent, a)
    <2> DEFINE y == IF a = m.asset THEN x ELSE 0
    <2>1. Unspent(l1, spent, a) \ Running = U /\ U \in SUBSET DOMAIN l1.messages /\ n \notin U
        BY <1>1, <1>5 DEF Running, Unspent
    <2>2. Unspent(l1', spent', a) \ Running' =
            IF m.sender = Gateway /\ m.asset = a THEN U \union {n} ELSE U
        <3>1. Running' = {} /\ n \notin spent /\ spent' = spent
            BY <1>1, <1>5 DEF Running, IInv, TypeOK
        <3> QED
            BY <1>5, <3>1 DEF Unspent
    <2>3. Booked(bridge, l1, a, U)
        BY <2>1 DEF BooksInv
    <2> HIDE DEF U, f, g, n
    <2>4. IsFiniteSet(U) /\ \A j \in U : f[j] \in Int /\ g[j] = f[j]
        BY <1>2, <1>6, <2>1, InMessagesNat
    <2>5. SumFunctionOnSet(g, U) = SumFunctionOnSet(f, U) /\ SumFunctionOnSet(f, U) \in Int
        BY <2>4, SumSame, SumInt
    <2>6. InMessages(l1', Unspent(l1', spent', a) \ Running') = InMessages(l1, U) + y
        <3>1. CASE m.sender = Gateway /\ m.asset = a
            <4>1. \A j \in U \union {n} : g[j] \in Int
                BY <1>3, <1>7, <2>4
            <4>2. SumFunctionOnSet(g, U \union {n}) = g[n] + SumFunctionOnSet(g, U)
                BY <2>1, <2>4, <4>1, SumAdd
            <4>3. /\ InMessages(l1', Unspent(l1', spent', a) \ Running')
                        = SumFunctionOnSet(g, U \union {n})
                  /\ InMessages(l1, U) = SumFunctionOnSet(f, U)
                BY <2>2, <3>1 DEF InMessages, f, g
            <4>4. g[n] = y /\ y \in Int
                BY <1>3, <1>7, <3>1
            <4> HIDE DEF y
            <4> QED
                BY <2>5, <4>2, <4>3, <4>4
        <3>2. CASE ~(m.sender = Gateway /\ m.asset = a)
            <4>1. y = 0 /\ Unspent(l1', spent', a) \ Running' = U
                BY <2>2, <3>2
            <4>2. /\ InMessages(l1', Unspent(l1', spent', a) \ Running') = SumFunctionOnSet(g, U)
                  /\ InMessages(l1, U) = SumFunctionOnSet(f, U)
                BY <4>1 DEF InMessages, f, g
            <4> HIDE DEF y
            <4> QED
                BY <2>5, <4>1, <4>2
        <3> QED
            BY <3>1, <3>2
    <2>7. l1'.locked[a] = l1.locked[a] + y
        <3>1. l1.locked \in [Assets -> Int]
            BY <1>2, BridgeAssumption DEF Ledgers
        <3> HIDE DEF x
        <3> QED
            BY <1>3, <1>4, <3>1
    <2>8. /\ CoinsIn(bridge, a) \in Int /\ RefundsIn(bridge, a) \in Int
          /\ ReturningIn(bridge, l1, a) \in Int /\ bridge.minted[a] \in Int
          /\ InMessages(l1, U) \in Int /\ y \in Int
        BY <1>2, <1>3, <2>5, AccountsInt DEF InMessages, f
    <2>9. bridge' = bridge /\ ReturningIn(bridge, l1', a) = ReturningIn(bridge, l1, a)
        BY <1>1, <1>4 DEF ReturningIn, Unreleased
    <2> HIDE DEF x, y
    <2> QED
        BY <2>3, <2>6, <2>7, <2>8, <2>9 DEF Booked
<1>9. \A j \in DOMAIN l1'.messages : l1'.messages[j].kind = "METADATA" => l1'.messages[j].amount = 0
    BY <1>5 DEF BooksInv, Arrives
<1> QED
    BY <1>1, <1>8, <1>9 DEF BooksInv

\* L1 releases a message: what it locked and what returns are less by the same.
LEMMA ReleasesBooks ==
    ASSUME BooksInv, NEW i \in DOMAIN bridge.outbox, Releases(i)
    PROVE  BooksInv'
<1> DEFINE w == bridge.outbox[i]
<1> DEFINE f == AmountsOf(bridge.outbox)
<1>1. IInv' /\ IInv /\ ~InCall /\ ~InCall' /\ UNCHANGED <<bridge, call, spent>>
    BY ReleasesStep DEF BooksInv, Releases, InCall
<1>2. l1 \in Ledgers /\ bridge \in Bridges
    BY <1>1, LedgersOf
<1>3. w.asset \in Assets /\ w.amount \in Nat /\ f[i] = w.amount
    BY <1>2, OutboxOf
<1>4. /\ l1'.messages = l1.messages /\ l1'.released = l1.released \union {i} /\ i \notin l1.released
      /\ l1'.locked = [l1.locked EXCEPT ![w.asset] = @ - w.amount]
    BY DEF Releases, IInv, TypeOK, BooksInv
<1>5. ASSUME NEW a \in Assets
      PROVE  Booked(bridge', l1', a, Unspent(l1', spent', a) \ Running')
    <2> DEFINE U == Unspent(l1, spent, a) \ Running
    <2> DEFINE R == Unreleased(bridge, l1, a)
    <2> DEFINE y == IF a = w.asset THEN w.amount ELSE 0
    <2>1. Unspent(l1', spent', a) \ Running' = U /\ InMessages(l1', U) = InMessages(l1, U)
        BY <1>1, <1>4 DEF Running, Unspent, InMessages
    <2>2. Booked(bridge, l1, a, U) /\ InMessages(l1, U) \in Nat
        BY BooksNow
    <2>3. Unreleased(bridge, l1', a) = R \ {i} /\ (i \in R <=> a = w.asset)
        BY <1>4 DEF Unreleased
    <2>4. IsFiniteSet(R) /\ \A j \in R : f[j] \in Int
        BY <1>2, OutboxOf, FS_Subset DEF Unreleased
    <2> HIDE DEF U, f, R, w
    <2>5. ReturningIn(bridge, l1', a) = ReturningIn(bridge, l1, a) - y
        <3>1. CASE a = w.asset
            <4>1. SumFunctionOnSet(f, R) = f[i] + SumFunctionOnSet(f, R \ {i})
                BY <2>3, <2>4, <3>1, SumRemove
            <4>2. IsFiniteSet(R \ {i}) /\ \A j \in R \ {i} : f[j] \in Int
                BY <2>4, FS_Subset
            <4>3. SumFunctionOnSet(f, R \ {i}) \in Int
                BY <4>2, SumInt
            <4>4. /\ ReturningIn(bridge, l1', a) = SumFunctionOnSet(f, R \ {i})
                  /\ ReturningIn(bridge, l1, a) = SumFunctionOnSet(f, R)
                BY <2>3 DEF ReturningIn, R, f
            <4> QED
                BY <1>3, <3>1, <4>1, <4>3, <4>4
        <3>2. CASE a # w.asset
            <4>1. Unreleased(bridge, l1', a) = R
                BY <2>3, <3>2
            <4>2. ReturningIn(bridge, l1', a) = ReturningIn(bridge, l1, a)
                BY <4>1 DEF ReturningIn, R
            <4> QED
                BY <1>2, <3>2, <4>2, AccountsInt
        <3> QED
            BY <3>1, <3>2
    <2>6. l1'.locked[a] = l1.locked[a] - y
        <3>1. l1.locked \in [Assets -> Int]
            BY <1>2, BridgeAssumption DEF Ledgers
        <3> QED
            BY <1>3, <1>4, <3>1
    <2>7. /\ CoinsIn(bridge, a) \in Int /\ RefundsIn(bridge, a) \in Int
          /\ ReturningIn(bridge, l1, a) \in Int /\ bridge.minted[a] \in Int /\ y \in Int
        BY <1>2, <1>3, AccountsInt
    <2> HIDE DEF y
    <2>8. l1'.locked[a] = InMessages(l1, U) + bridge.minted[a] + RefundsIn(bridge, a)
                            + ReturningIn(bridge, l1', a)
        BY <2>2, <2>5, <2>6, <2>7 DEF Booked
    <2> QED
        BY <1>1, <2>1, <2>2, <2>8 DEF Booked
<1> QED
    BY <1>1, <1>4, <1>5 DEF BooksInv

LEMMA NextBooks ==
    ASSUME BooksInv, [Next]_vars
    PROVE  BooksInv'
<1>1. CASE ProcessMessage /\ UNCHANGED l1
    BY <1>1, ProcessBooksInv DEF ProcessMessage
<1>2. CASE (callReturns \/ callFails) /\ UNCHANGED l1
    BY <1>2, ReturnBooks
<1>3. CASE Claim /\ UNCHANGED l1
    BY <1>3, ClaimBooks DEF Claim
<1>4. CASE Withdraw /\ UNCHANGED l1
    BY <1>4, WithdrawBooks DEF Withdraw
<1>5. CASE Transfers /\ UNCHANGED l1
    BY <1>5, TransferBooks DEF Transfers
<1>6. CASE L1Messages
  <2>1. PICK s \in {Gateway} \union OtherSenders, k \in DepositKinds \union {"METADATA"},
             a \in Assets, d \in Depositors, h \in Holders, x \in DepositAmounts :
            Arrives([sender |-> s, kind |-> k, asset |-> a, from |-> d, to |-> h, amount |-> x])
    BY <1>6 DEF L1Messages
  <2> DEFINE m == [sender |-> s, kind |-> k, asset |-> a, from |-> d, to |-> h, amount |-> x]
  <2>2. m \in Messages /\ m.amount \in DepositAmounts /\ Arrives(m)
    BY <2>1, BridgeAssumption DEF Messages
  <2> HIDE DEF m
  <2> QED
    BY <2>2, ArrivesBooks
<1>7. CASE \E i \in DOMAIN bridge.outbox : Releases(i)
    BY <1>7, ReleasesBooks
<1>8. CASE UNCHANGED vars
    <2>1. IInv'
        BY <1>8, NextIInv DEF BooksInv
    <2> QED
        BY <1>8, <2>1 DEF vars, BooksInv, InCall, Running
<1> QED
    BY <1>1, <1>2, <1>3, <1>4, <1>5, <1>6, <1>7, <1>8 DEF Next

-----------------------------------------------------------------------------
(* The theorems *)

\* The storage of the bridge keeps its types and total_assets counts every asset
\* once, whatever L1 sends, however sums wrap and whenever a receiver calls back,
\* returns or fails (main.sw:282-427).
THEOREM TypeCorrect == Spec => []TypeOK
<1>1. Init => IInv
    BY InitIInv
<1>2. IInv /\ [Next]_vars => IInv'
    BY NextIInv
<1>3. IInv => TypeOK
    BY DEF IInv
<1> QED
    BY <1>1, <1>2, <1>3, PTL DEF Spec

LEMMA BooksAlways == Spec => []BooksInv
<1>1. Init => BooksInv
    BY InitBooks
<1>2. BooksInv /\ [Next]_vars => BooksInv'
    BY NextBooks
<1> QED
    BY <1>1, <1>2, PTL DEF Spec

\* The sums of the properties are those of the accounts.
LEMMA AccountsNow ==
    ASSUME BooksInv, NEW a \in Assets
    PROVE  /\ CoinsOf(a) = CoinsIn(bridge, a)
           /\ InFlight(a) = InMessages(l1, Unspent(l1, spent, a) \ Running)
           /\ Refundable(a) = RefundsIn(bridge, a)
           /\ Returning(a) = ReturningIn(bridge, l1, a)
           /\ \A d \in Depositors : ClaimedBy(d, a) = ClaimedIn(bridge, d, a)
<1>1. CoinsOf(a) = CoinsIn(bridge, a)
    BY DEF CoinsOf, CoinsIn, SumFunction
<1>2. Refundable(a) = RefundsIn(bridge, a)
    BY DEF Refundable, RefundsIn, SumFunction
<1>3. InFlight(a) = InMessages(l1, Unspent(l1, spent, a) \ Running)
    <2> DEFINE U == {i \in DOMAIN l1.messages \ spent :
            /\ l1.messages[i].sender = Gateway
            /\ l1.messages[i].asset = a
            /\ ~(InCall /\ call[1].index = i)}
    <2>1. U = Unspent(l1, spent, a) \ Running
        BY DEF Unspent, Running
    <2> QED
        BY <2>1 DEF InFlight, InMessages
<1>4. Returning(a) = ReturningIn(bridge, l1, a)
    BY DEF Returning, ReturningIn, Unreleased
<1>5. \A d \in Depositors : ClaimedBy(d, a) = ClaimedIn(bridge, d, a)
    BY DEF ClaimedBy, ClaimedIn, RefundsOf
<1> QED
    BY <1>1, <1>2, <1>3, <1>4, <1>5

\* The supply of every asset is what its holders have, and only registered
\* assets have one, also while a receiver runs and after it failed
\* (main.sw:282-427, 124-155).
THEOREM SupplyIsHeld == Spec => []SupplyInCirculation
<1>1. BooksInv => SupplyInCirculation
    BY AccountsNow, BooksNow DEF SupplyInCirculation, Booked
<1> QED
    BY <1>1, BooksAlways, PTL

\* What L1 locked is in messages on their way, in the supply, in refunds or on its
\* way back: nothing is minted twice, lost or paid out twice (main.sw:90-155,
\* 282-427).
THEOREM AllIsBacked == Spec => []Backed
<1>1. BooksInv => Backed
    BY AccountsNow, BooksNow DEF Backed, Booked
<1> QED
    BY <1>1, BooksAlways, PTL

\* What was refused to a depositor is what the depositor can claim and what the
\* depositor claimed (main.sw:90-121, 429-448).
THEOREM RefusedIsRefunded == Spec => []RefundsGoHome
<1>1. BooksInv => RefundsGoHome
    BY AccountsNow, BooksNow DEF RefundsGoHome, Booked
<1> QED
    BY <1>1, BooksAlways, PTL

-----------------------------------------------------------------------------
(* The host *)

LEMMA TrafficSent ==
    ASSUME NEW m \in Traffic
    PROVE  m \in Messages /\ m.amount \in DepositAmounts /\ m.sender \notin OtherGateways
BY HostAssumption DEF Messages

\* An implementation with a gateway of its own processes the messages of that
\* gateway as the bridge does those of ours.
LEMMA SameBridge ==
    ASSUME NEW i, Via(Gateway)!process_message(i)
    PROVE  process_message(i)
BY Zenon DEF Via!process_message, Via!Inputs, Via!InCall, Via!reentrancy_guard, Via!Authorized,
       Via!_process_metadata, Via!_process_deposit, Via!CallsReceiver, Via!Mints,
       Via!SupplyOverflows, Via!new_total_supply, Via!mintTo, Via!total_assets,
       Via!refundTooLarge, Via!refundOverflow, Via!PreviousRefund, Via!WrappingSum,
       Via!register_refund,
       process_message, Inputs, InCall, reentrancy_guard, Authorized,
       _process_metadata, _process_deposit, CallsReceiver, Mints,
       SupplyOverflows, new_total_supply, mintTo, total_assets,
       refundTooLarge, refundOverflow, PreviousRefund, WrappingSum, register_refund

LEMMA SenderServed ==
    ASSUME NEW g, NEW i, Via(g)!process_message(i)
    PROVE  i \in Inputs /\ l1.messages[i].sender = g
BY DEF Via!process_message, Via!Inputs, Via!InCall, Via!Authorized, Inputs, InCall

-----------------------------------------------------------------------------
(* Messages and the inputs of transactions *)

\* What Fuel's ledger uses up: one message at a time, the one the bridge has.
LedgerInv ==
    /\ l1.messages \in Seq(Traffic)
    /\ consumed = spent
    /\ underway = IF InCall THEN {call[1].index} ELSE {}

\* The predicate lets a transaction pass with no message but its first input,
\* whose message the script processes.
LEMMA OneMessage ==
    ASSUME NEW tx, NEW S, tx.inputs \in Seq(S), tx.inputs # <<>>,
           predicate(tx), tx.inputs[1].type = "message"
    PROVE  MessagesIn(tx) = {tx.inputs[1].of}
<1>1. Len(tx.inputs) \in Nat /\ DOMAIN tx.inputs = 1 .. Len(tx.inputs) /\ Len(tx.inputs) >= 1
    OBVIOUS
<1>2. \A n \in 2 .. Len(tx.inputs) : tx.inputs[n].type # "message"
    BY <1>1 DEF predicate
<1>3. {k \in DOMAIN tx.inputs : tx.inputs[k].type = "message"} = {1}
    BY <1>1, <1>2
<1> QED
    BY <1>3 DEF MessagesIn

\* A transaction is a step of the bridge, and uses up the message it processes.
LEMMA ExecuteStep ==
    ASSUME LedgerInv, NEW tx, NEW S, tx.inputs \in Seq(S), tx.inputs # <<>>, Execute(tx)
    PROVE  ProcessMessage /\ UNCHANGED l1 /\ LedgerInv'
<1> DEFINE i == tx.inputs[1].of
<1>1. MessagesIn(tx) = {i}
    BY OneMessage DEF Execute, process_message_script
<1>2. PICK g \in {Gateway} \union OtherGateways : Via(g)!process_message(i)
    BY DEF Execute, process_message_script
<1>3. i \in DOMAIN l1.messages
    BY <1>1 DEF Execute
<1>4. g = Gateway
  <2>1. l1.messages[i] \in Traffic
    BY <1>3 DEF LedgerInv
  <2>2. l1.messages[i].sender = g
    BY <1>2, SenderServed
  <2> QED
    BY <1>2, <2>1, <2>2, TrafficSent
<1>5. process_message(i)
    BY <1>2, <1>4, SameBridge
<1> HIDE DEF i
<1>6. LedgerInv'
  <2>1. ~InCall /\ consumed = spent /\ l1' = l1 /\ l1.messages \in Seq(Traffic)
    BY DEF Execute, LedgerInv
  <2>2. ASSUME spent' = spent \union {i}, call' = call
        PROVE  LedgerInv'
    <3>1. ~InCall'
      BY <2>1, <2>2 DEF InCall
    <3>2. consumed' = consumed \union {i} /\ underway' = {}
      BY <1>1, <3>1 DEF Execute
    <3> QED
      BY <2>1, <2>2, <3>1, <3>2 DEF LedgerInv
  <2>3. ASSUME call' = <<[index |-> i, before |-> bridge]>>, spent' = spent
        PROVE  LedgerInv'
    <3>1. InCall' /\ call'[1].index = i
      BY <2>3 DEF InCall
    <3>2. consumed' = consumed /\ underway' = {i}
      BY <1>1, <3>1 DEF Execute
    <3> QED
      BY <2>1, <2>3, <3>1, <3>2 DEF LedgerInv
  <2>4. \/ spent' = spent \union {i} /\ call' = call
        \/ call' = <<[index |-> i, before |-> bridge]>> /\ spent' = spent
    BY Zenon, <1>5 DEF process_message
  <2> QED
    BY Zenon, <2>2, <2>3, <2>4
<1> QED
  <2>1. ProcessMessage
    BY <1>3, <1>5 DEF ProcessMessage
  <2> QED
    BY <1>6, <2>1 DEF Execute

\* The transactions anyone makes, and those of the relayer, are transactions.
LEMMA CraftedStep ==
    ASSUME LedgerInv, NEW tx \in CraftedTransactions, Execute(tx)
    PROVE  ProcessMessage /\ UNCHANGED l1 /\ LedgerInv'
<1> DEFINE M == {MessageInput(i) : i \in DOMAIN l1.messages}
<1> DEFINE C == ContractInput(proxy_target)
<1> DEFINE S == M \union {C, Coin}
<1>1. tx.inputs \in {<<m>> : m \in M} \union {<<m, C>> : m \in M} \union {<<Coin, m, C>> : m \in M}
        \union {<<m, n, C>> : m, n \in M} \union {<<m, C, n>> : m, n \in M}
    BY DEF CraftedTransactions
<1> HIDE DEF M, C
<1>2. M \subseteq S /\ C \in S /\ Coin \in S
    OBVIOUS
<1> HIDE DEF S
<1>3. ASSUME NEW m \in M, NEW n \in M
      PROVE  /\ <<m>> \in Seq(S) \ {<<>>} /\ <<m, C>> \in Seq(S) \ {<<>>}
             /\ <<Coin, m, C>> \in Seq(S) \ {<<>>}
             /\ <<m, n, C>> \in Seq(S) \ {<<>>} /\ <<m, C, n>> \in Seq(S) \ {<<>>}
  <2>1. m \in S /\ n \in S
    BY <1>2, <1>3
  <2> QED
    BY <1>2, <2>1
<1>4. \E m, n \in M : tx.inputs \in {<<m>>, <<m, C>>, <<Coin, m, C>>, <<m, n, C>>, <<m, C, n>>}
    BY <1>1
<1>5. tx.inputs \in Seq(S) /\ tx.inputs # <<>>
    BY <1>3, <1>4
<1> QED
    BY <1>5, ExecuteStep

LEMMA RelayStep ==
    ASSUME LedgerInv, Execute(RelayTransaction)
    PROVE  ProcessMessage /\ UNCHANGED l1 /\ LedgerInv'
<1> DEFINE M == MessageInput(relay[1].index)
<1> DEFINE C == ContractInput(relay[1].implementation)
<1> DEFINE S == {M, C, Coin}
<1>1. RelayTransaction.inputs = <<M, C, Coin>>
    BY DEF RelayTransaction
<1> HIDE DEF M, C
<1>2. RelayTransaction.inputs \in Seq(S) /\ RelayTransaction.inputs # <<>>
    BY <1>1
<1> HIDE DEF S
<1> QED
    BY <1>2, ExecuteStep

\* The steps that leave the bridge, its messages and the ledger alone.
ScriptSteps ==
    \/ \E i \in 1 .. MaxMessages : RelaySends(i)
    \/ deploy_bridge \/ Upgrades \/ Transfers_of_ownership
    \/ \E o \in Operators : ScriptStep(o) \/ ScriptEnds(o) \/ Revoke(o)

LEMMA ScriptsApart ==
    ASSUME ScriptSteps
    PROVE  UNCHANGED <<vars, consumed, underway>>
BY DEF ScriptSteps, RelaySends, deploy_bridge, Upgrades, upgrade_bridge, Start,
       Transfers_of_ownership, transfer_bridge_ownership, ScriptStep, ScriptEnds, Revoke,
       Unaffected, deployImplementation, deployProxy, readProxy, contractExists, deployUpgrade,
       setTarget, set_proxy_target, checkOwner, changeOwner

\* Every step together keeps the ledger and is a step of the bridge, or none.
LEMMA HostStep ==
    ASSUME IInv, LedgerInv, [HostNext]_allVars
    PROVE  LedgerInv' /\ [Next]_vars
<1>1. CASE ScriptSteps \/ UNCHANGED allVars
  <2>1. UNCHANGED <<vars, consumed, underway>>
    BY <1>1, ScriptsApart DEF allVars, hostVars
  <2> QED
    BY <2>1 DEF LedgerInv, vars, InCall
<1>2. CASE RelayIncluded
  <2>1. CASE Execute(RelayTransaction)
    BY <2>1, RelayStep DEF Next
  <2>2. CASE UNCHANGED <<vars, consumed, underway>>
    BY <2>2 DEF LedgerInv, vars, InCall
  <2> QED
    BY <1>2, <2>1, <2>2 DEF RelayIncluded
<1>3. CASE Crafted
    BY <1>3, CraftedStep DEF Crafted, Next
<1>4. CASE ReceiverReturns
    BY <1>4 DEF ReceiverReturns, callReturns, LedgerInv, InCall, Next
<1>5. CASE ReceiverFails
    BY <1>5 DEF ReceiverFails, callFails, LedgerInv, InCall, Next
<1>6. CASE SendsToL1
  <2>1. (Withdraw \/ Claim) /\ UNCHANGED <<l1, consumed, underway>>
    BY <1>6 DEF SendsToL1
  <2>2. UNCHANGED <<call, spent>>
    BY <2>1 DEF Withdraw, Claim, withdraw, claim_refund
  <2> QED
    BY <2>1, <2>2 DEF LedgerInv, InCall, Next
<1>7. CASE L1Steps
  <2>1. UNCHANGED <<consumed, underway>>
    BY <1>7 DEF L1Steps, hostVars
  <2>2. ASSUME NEW i \in DOMAIN bridge.outbox, Releases(i)
        PROVE  LedgerInv' /\ [Next]_vars
    <3>1. l1'.messages = l1.messages /\ UNCHANGED <<bridge, call, spent>>
      BY <2>2 DEF Releases, IInv, TypeOK
    <3> QED
      BY <2>1, <2>2, <3>1 DEF LedgerInv, InCall, Next
  <2>3. ASSUME NEW m \in Traffic, Arrives(m)
        PROVE  LedgerInv' /\ [Next]_vars
    <3>1. l1'.messages = Append(l1.messages, m) /\ UNCHANGED <<bridge, call, spent>>
      BY <2>3 DEF Arrives, IInv, TypeOK
    <3>2. LedgerInv'
      BY <2>1, <3>1 DEF LedgerInv, InCall
    <3>3. m = [sender |-> m.sender, kind |-> m.kind, asset |-> m.asset, from |-> m.from,
               to |-> m.to, amount |-> m.amount]
      BY TrafficSent DEF Messages
    <3>4. /\ m.sender \in {Gateway} \union OtherSenders
          /\ m.kind \in DepositKinds \union {"METADATA"}
          /\ m.asset \in Assets /\ m.from \in Depositors /\ m.to \in Holders
          /\ m.amount \in DepositAmounts
      BY TrafficSent DEF Messages
    <3>5. Arrives([sender |-> m.sender, kind |-> m.kind, asset |-> m.asset, from |-> m.from,
                   to |-> m.to, amount |-> m.amount])
      BY <2>3, <3>3
    <3>6. L1Messages
      BY <3>4, <3>5 DEF L1Messages
    <3> QED
      BY <3>2, <3>6 DEF Next
  <2> QED
    BY <1>7, <2>2, <2>3 DEF L1Steps
<1> QED
    BY <1>1, <1>2, <1>3, <1>4, <1>5, <1>6, <1>7 DEF HostNext, ScriptSteps

LEMMA InitLedger ==
    ASSUME HostInit
    PROVE  LedgerInv /\ Init
BY DEF HostInit, Init, LedgerInv, InCall

-----------------------------------------------------------------------------
(* The proxy *)

Proxies == [exists : BOOLEAN, target : {<<>>} \union {<<id>> : id \in Implementations},
            owner : Operators \union {Unset, Revoked}]

Starting == [step : {"deploy implementation", "deploy proxy"}]
Upgrading == [step : {"read", "look up", "deploy", "set target"}, id : Implementations]
Transferring == [step : {"check owner", "change owner"}, newOwner : Operators \union {Zero}]

Scripts == {Done} \union Starting \union Upgrading \union Transferring

\* What the scripts are about to point the proxy at is deployed, and so is what
\* it points at.  A target may be set by hand only in a proxy that is there, so
\* before that it has none.
ProxyInv ==
    /\ proxy \in Proxies
    /\ script \in [Operators -> Scripts]
    /\ scripts \in 0 .. MaxScripts
    /\ proxy.exists => proxy_target \in deployed
    /\ ~proxy.exists => proxy.target = <<>> /\ proxy.owner # Revoked
    /\ \A o \in Operators :
        /\ script[o].step = "deploy proxy" => InitialTarget \in deployed
        /\ script[o].step = "set target" => script[o].id \in deployed

LEMMA ScriptsNat ==
    ASSUME ProxyInv
    PROVE  scripts \in Nat /\ MaxScripts \in Nat /\ scripts \in 0 .. MaxScripts
<1>1. MaxScripts \in Nat
    BY Zenon, HostAssumption
<1>2. scripts \in 0 .. MaxScripts
    BY Zenon DEF ProxyInv
<1> QED
    BY <1>1, <1>2

LEMMA InitProxy ==
    ASSUME HostInit
    PROVE  ProxyInv
<1>1. proxy \in Proxies /\ ~proxy.exists /\ proxy.target = <<>> /\ proxy.owner # Revoked
    BY DEF HostInit, Proxies, Unset, Revoked
<1>2. Done \in Scripts /\ Done.step = "done"
    BY DEF Scripts, Done
<1>3. script \in [Operators -> Scripts] /\ \A o \in Operators : script[o] = Done
    BY <1>2 DEF HostInit
<1>4. scripts \in 0 .. MaxScripts
    BY HostAssumption DEF HostInit
<1> QED
    BY <1>1, <1>2, <1>3, <1>4 DEF ProxyInv

\* A script goes on, while implementations may be added.
LEMMA ScriptGoes ==
    ASSUME ProxyInv, NEW o \in Operators, NEW next \in Scripts, Goes(o, next),
           deployed \subseteq deployed', UNCHANGED proxy, scripts' \in 0 .. MaxScripts,
           next.step = "deploy proxy" => InitialTarget \in deployed',
           next.step = "set target" => next.id \in deployed'
    PROVE  ProxyInv'
<1>1. script' \in [Operators -> Scripts]
    BY DEF ProxyInv, Goes
<1>2. \A x \in Operators : script'[x] = IF x = o THEN next ELSE script[x]
    BY DEF ProxyInv, Goes
<1> QED
    BY <1>1, <1>2 DEF ProxyInv, proxy_target

\* A script changes the proxy and ends.
LEMMA ProxyChanges ==
    ASSUME ProxyInv, NEW o \in Operators, Goes(o, Done), UNCHANGED <<deployed, scripts>>,
           proxy' \in Proxies, proxy'.exists, proxy_target' \in deployed
    PROVE  ProxyInv'
<1>1. script' \in [Operators -> Scripts]
    BY DEF ProxyInv, Goes, Scripts
<1>2. \A x \in Operators : script'[x] = IF x = o THEN Done ELSE script[x]
    BY DEF ProxyInv, Goes
<1>3. Done.step = "done"
    BY DEF Done
<1>4. proxy'.exists /\ proxy' \in Proxies /\ scripts' \in 0 .. MaxScripts /\ deployed' = deployed
    BY DEF ProxyInv
<1>5. \A x \in Operators :
        /\ script'[x].step = "deploy proxy" => InitialTarget \in deployed'
        /\ script'[x].step = "set target" => script'[x].id \in deployed'
    BY <1>2, <1>3, <1>4 DEF ProxyInv
<1> QED
    BY <1>1, <1>4, <1>5 DEF ProxyInv

\* What a script is about to do tells which script it is.
LEMMA StepOf ==
    ASSUME ProxyInv, NEW o \in Operators
    PROVE  /\ script[o].step \in {"read", "look up", "deploy", "set target"}
                => script[o] \in Upgrading
           /\ script[o].step \in {"check owner", "change owner"} => script[o] \in Transferring
<1>1. script[o] \in {Done} \union Starting \union Upgrading \union Transferring
    BY Zenon DEF ProxyInv, Scripts
<1>2. Done.step = "done"
    BY DEF Done
<1>3. \A s \in Starting : s.step \in {"deploy implementation", "deploy proxy"}
    BY DEF Starting
<1>4. \A s \in Upgrading : s.step \in {"read", "look up", "deploy", "set target"}
    BY DEF Upgrading
<1>5. \A s \in Transferring : s.step \in {"check owner", "change owner"}
    BY DEF Transferring
<1> QED
    BY <1>1, <1>2, <1>3, <1>4, <1>5

LEMMA FirstSteps ==
    /\ [step |-> "deploy implementation"] \in Scripts /\ [step |-> "deploy proxy"] \in Scripts
    /\ \A id \in Implementations : [step |-> "read", id |-> id] \in Scripts
    /\ \A x \in Operators \union {Zero} : [step |-> "check owner", newOwner |-> x] \in Scripts
<1>1. [step |-> "deploy implementation"] \in Starting /\ [step |-> "deploy proxy"] \in Starting
    BY DEF Starting
<1>2. \A id \in Implementations : [step |-> "read", id |-> id] \in Upgrading
    BY DEF Upgrading
<1>3. \A x \in Operators \union {Zero} : [step |-> "check owner", newOwner |-> x] \in Transferring
    BY DEF Transferring
<1> QED
    BY Zenon, <1>1, <1>2, <1>3 DEF Scripts

LEMMA UpgradeGoes ==
    ASSUME NEW s \in Upgrading, NEW step \in {"read", "look up", "deploy", "set target"}
    PROVE  /\ s.id \in Implementations
           /\ [s EXCEPT !.step = step] \in Upgrading
           /\ [s EXCEPT !.step = step].step = step /\ [s EXCEPT !.step = step].id = s.id
BY DEF Upgrading

LEMMA TransferGoes ==
    ASSUME NEW s \in Transferring, NEW step \in {"check owner", "change owner"}
    PROVE  /\ s.newOwner \in Operators \union {Zero}
           /\ [s EXCEPT !.step = step] \in Transferring
           /\ [s EXCEPT !.step = step].step = step
BY DEF Transferring

\* The owner of a proxy that is there.
LEMMA OwnerOf ==
    ASSUME ProxyInv, NEW o \in Operators, only_owner(o)
    PROVE  proxy.exists /\ proxy.owner # Revoked
BY HostAssumption DEF only_owner, _proxy_owner, Unset, Revoked

LEMMA ScriptStepProxy ==
    ASSUME ProxyInv, NEW o \in Operators, ScriptStep(o)
    PROVE  ProxyInv' /\ (proxy.owner = Revoked => proxy' = proxy)
<1> USE DEF Unaffected, AtStep
<1>1. CASE deployImplementation(o)
  <2> QED
    BY <1>1, FirstSteps, ScriptGoes DEF deployImplementation, ProxyInv
<1>2. CASE deployProxy(o)
  <2>1. InitialTarget \in deployed /\ proxy \in Proxies
    BY <1>2 DEF deployProxy, ProxyInv
  <2>2. proxy' = [proxy EXCEPT !.exists = TRUE] /\ Goes(o, Done) /\ UNCHANGED <<deployed, scripts>>
    BY <1>2 DEF deployProxy
  <2>3. proxy' \in Proxies /\ proxy'.exists /\ proxy'.target = proxy.target
    BY <2>1, <2>2 DEF Proxies
  <2>4. proxy_target' \in deployed
    BY <2>1, <2>3 DEF ProxyInv, proxy_target
  <2>5. proxy.exists => proxy' = proxy
    BY <2>1, <2>2 DEF Proxies
  <2>6. ProxyInv'
    BY <2>2, <2>3, <2>4, ProxyChanges
  <2>7. proxy.owner = Revoked => proxy' = proxy
    BY <2>5 DEF ProxyInv
  <2> QED
    BY <2>6, <2>7
<1>3. CASE readProxy(o)
  <2> DEFINE next == [script[o] EXCEPT !.step = "look up"]
  <2>1. next \in Scripts /\ next.step = "look up" /\ Done \in Scripts /\ Done.step = "done"
    BY <1>3, StepOf, UpgradeGoes DEF readProxy, Scripts, Done
  <2>2. /\ Goes(o, next) \/ Goes(o, Done)
        /\ UNCHANGED <<proxy, deployed, scripts>>
    BY <1>3 DEF readProxy
  <2> HIDE DEF next
  <2> QED
    BY <2>1, <2>2, ScriptsNat, ScriptGoes
<1>4. CASE contractExists(o)
  <2> DEFINE set == [script[o] EXCEPT !.step = "set target"]
  <2> DEFINE deploy == [script[o] EXCEPT !.step = "deploy"]
  <2>1. /\ set \in Scripts /\ set.step = "set target" /\ set.id = script[o].id
        /\ deploy \in Scripts /\ deploy.step = "deploy"
    BY <1>4, StepOf, UpgradeGoes DEF contractExists, Scripts
  <2>2. /\ (Goes(o, set) /\ script[o].id \in deployed) \/ Goes(o, deploy)
        /\ UNCHANGED <<proxy, deployed, scripts>>
    BY <1>4 DEF contractExists
  <2> HIDE DEF set, deploy
  <2> QED
    BY <2>1, <2>2, ScriptsNat, ScriptGoes
<1>5. CASE deployUpgrade(o)
  <2> DEFINE set == [script[o] EXCEPT !.step = "set target"]
  <2>1. set \in Scripts /\ set.step = "set target" /\ set.id = script[o].id
    BY <1>5, StepOf, UpgradeGoes DEF deployUpgrade, Scripts
  <2>2. /\ Goes(o, set) /\ deployed' = deployed \union {script[o].id}
        /\ UNCHANGED <<proxy, scripts>>
    BY <1>5 DEF deployUpgrade
  <2> HIDE DEF set
  <2> QED
    BY <2>1, <2>2, ScriptsNat, ScriptGoes
<1>6. CASE setTarget(o)
  <2>1. script[o].id \in deployed /\ proxy \in Proxies /\ script[o].id \in Implementations
    <3>1. script[o] \in Upgrading /\ script[o].step = "set target"
      BY <1>6, StepOf DEF setTarget
    <3>2. script[o].id \in Implementations
      BY <3>1 DEF Upgrading
    <3> QED
      BY Zenon, <3>1, <3>2 DEF ProxyInv
  <2>2. /\ proxy' = [proxy EXCEPT !.target = <<script[o].id>>] /\ only_owner(o)
        /\ Goes(o, Done) /\ UNCHANGED <<deployed, scripts>>
    BY <1>6 DEF setTarget, set_proxy_target
  <2>3. proxy.exists /\ proxy.owner # Revoked
    BY <2>2, OwnerOf
  <2>4. proxy' \in Proxies /\ proxy'.exists /\ proxy'.target = <<script[o].id>>
    BY <2>1, <2>2, <2>3 DEF Proxies
  <2>5. proxy_target' \in deployed
    BY <2>1, <2>4 DEF proxy_target
  <2> QED
    BY <2>2, <2>3, <2>4, <2>5, ProxyChanges
<1>7. CASE checkOwner(o)
  <2> DEFINE next == [script[o] EXCEPT !.step = "change owner"]
  <2>1. next \in Scripts /\ next.step = "change owner" /\ Done \in Scripts /\ Done.step = "done"
    BY <1>7, StepOf, TransferGoes DEF checkOwner, Scripts, Done
  <2>2. /\ Goes(o, next) \/ Goes(o, Done)
        /\ UNCHANGED <<proxy, deployed, scripts>>
    BY <1>7 DEF checkOwner
  <2> HIDE DEF next
  <2> QED
    BY <2>1, <2>2, ScriptsNat, ScriptGoes
<1>8. CASE changeOwner(o)
  <2>1. script[o].newOwner \in Operators /\ proxy \in Proxies
    <3>1. script[o] \in Transferring
      BY <1>8, StepOf DEF changeOwner
    <3>2. script[o].newOwner \in Operators \union {Zero}
      BY <3>1 DEF Transferring
    <3>3. script[o].newOwner # Zero
      BY <1>8 DEF changeOwner, _proxy_change_owner
    <3>4. proxy \in Proxies
      BY Zenon DEF ProxyInv
    <3> QED
      BY <3>2, <3>3, <3>4
  <2>2. /\ proxy' = [proxy EXCEPT !.owner = script[o].newOwner] /\ only_owner(o)
        /\ Goes(o, Done) /\ UNCHANGED <<deployed, scripts>>
    BY <1>8 DEF changeOwner, _proxy_change_owner
  <2>3. proxy.exists /\ proxy.owner # Revoked
    BY <2>2, OwnerOf
  <2>4. proxy' \in Proxies /\ proxy'.exists /\ proxy'.target = proxy.target
    BY <2>1, <2>2, <2>3 DEF Proxies
  <2>5. proxy_target' \in deployed
    BY <2>3, <2>4 DEF proxy_target, ProxyInv
  <2> QED
    BY <2>2, <2>3, <2>4, <2>5, ProxyChanges
<1> QED
    BY <1>1, <1>2, <1>3, <1>4, <1>5, <1>6, <1>7, <1>8 DEF ScriptStep

LEMMA OneMore ==
    ASSUME NEW n \in Nat, NEW k \in Nat, n < k
    PROVE  n + 1 \in 0 .. k
OBVIOUS

LEMMA StartProxy ==
    ASSUME ProxyInv, NEW o \in Operators, NEW first \in Scripts, Start(o, first),
           first.step \in {"read", "check owner"}
    PROVE  ProxyInv' /\ proxy' = proxy
<1>1. scripts \in Nat /\ scripts < MaxScripts /\ scripts' = scripts + 1
    BY ScriptsNat DEF Start
<1>2. scripts' \in 0 .. MaxScripts
  <2>1. scripts + 1 \in 0 .. MaxScripts
    BY Zenon, <1>1, ScriptsNat, OneMore
  <2> QED
    BY Zenon, <1>1, <2>1
<1> QED
    BY <1>2, ScriptGoes DEF Start

LEMMA RevokeProxy ==
    ASSUME ProxyInv, NEW o \in Operators, Revoke(o)
    PROVE  ProxyInv' /\ proxy.owner # Revoked
<1>1. only_owner(o) /\ proxy' = [proxy EXCEPT !.owner = Revoked]
      /\ UNCHANGED <<script, scripts, deployed>>
    BY DEF Revoke, _proxy_revoke_ownership, Unaffected
<1>2. proxy' \in Proxies /\ proxy'.exists = proxy.exists /\ proxy'.target = proxy.target
    BY <1>1 DEF ProxyInv, Proxies
<1>3. proxy.exists /\ proxy.owner # Revoked
    BY <1>1, OwnerOf
<1>4. proxy_target' = proxy_target
    BY <1>2 DEF proxy_target
<1> QED
    BY <1>1, <1>2, <1>3, <1>4 DEF ProxyInv

LEMMA HostProxy ==
    ASSUME ProxyInv, [HostNext]_allVars
    PROVE  ProxyInv' /\ (proxy.owner = Revoked => proxy' = proxy)
<1>1. CASE \E o \in Operators : ScriptStep(o)
    BY <1>1, ScriptStepProxy
<1>2. CASE \E o \in Operators : ScriptEnds(o)
  <2>1. PICK o \in Operators : ScriptEnds(o)
    BY <1>2
  <2>2. Done \in Scripts /\ Done.step = "done"
    BY DEF Scripts, Done
  <2> QED
    BY <2>1, <2>2, ScriptGoes DEF ScriptEnds, ProxyInv
<1>3. CASE \E o \in Operators : Revoke(o)
    BY <1>3, RevokeProxy
<1>4. CASE deploy_bridge
  <2>1. [step |-> "deploy implementation"] \in Scripts /\ Deployer \in Operators
    BY HostAssumption, FirstSteps
  <2> QED
    BY <1>4, <2>1, ScriptGoes DEF deploy_bridge, ProxyInv
<1>5. CASE Upgrades
  <2>1. PICK o \in Operators, g \in {Gateway} \union OtherGateways : upgrade_bridge(o, g)
    BY <1>5 DEF Upgrades
  <2> DEFINE salt == IF o \in KmsOperators THEN scripts + 1 ELSE 0
  <2> DEFINE first == [step |-> "read", id |-> [gateway |-> g, salt |-> salt]]
  <2>2. Start(o, first) /\ scripts < MaxScripts
    BY <2>1 DEF upgrade_bridge, Start
  <2>3. salt \in 0 .. MaxScripts
    BY <2>2, ScriptsNat
  <2>4. first \in Scripts /\ first.step = "read"
    <3>1. [gateway |-> g, salt |-> salt] \in Implementations
      BY <2>3 DEF Implementations
    <3> QED
      BY <3>1, FirstSteps
  <2> HIDE DEF first, salt
  <2> QED
    BY <2>2, <2>4, StartProxy
<1>6. CASE Transfers_of_ownership
  <2>1. PICK o \in Operators, x \in Operators \union {Zero} : transfer_bridge_ownership(o, x)
    BY <1>6 DEF Transfers_of_ownership
  <2> QED
    BY <2>1, FirstSteps, StartProxy DEF transfer_bridge_ownership
<1>7. CASE UNCHANGED <<proxy, deployed, script, scripts>>
    BY <1>7 DEF ProxyInv, proxy_target
<1>8. \/ \E o \in Operators : ScriptStep(o) \/ ScriptEnds(o) \/ Revoke(o)
      \/ deploy_bridge \/ Upgrades \/ Transfers_of_ownership
      \/ UNCHANGED <<proxy, deployed, script, scripts>>
    BY DEF HostNext, RelaySends, RelayIncluded, Crafted, ReceiverReturns, ReceiverFails,
       SendsToL1, L1Steps, allVars, hostVars
<1> QED
    BY <1>1, <1>2, <1>3, <1>4, <1>5, <1>6, <1>7, <1>8

-----------------------------------------------------------------------------
(* The theorems about the host *)

\* Whatever scripts crash, fail or run into each other, the proxy points at an
\* implementation that is there (upgrade-bridge.ts:103-126).
THEOREM ProxyServes == HostSpec => []TargetDeployed
<1>1. HostInit => ProxyInv
    BY InitProxy
<1>2. ProxyInv /\ [HostNext]_allVars => ProxyInv'
    BY HostProxy
<1>3. ProxyInv => TargetDeployed
    BY DEF ProxyInv, TargetDeployed
<1> QED
    BY <1>1, <1>2, <1>3, PTL DEF HostSpec

\* A proxy whose ownership is revoked never changes again (proxy.sw:88-95).
THEOREM RevocationIsFinal == HostSpec => RevokedForGood
<1>1. HostInit => ProxyInv
    BY InitProxy
<1>2. ProxyInv /\ [HostNext]_allVars => ProxyInv'
    BY HostProxy
<1>3. ProxyInv /\ [HostNext]_allVars => [proxy.owner = Revoked => proxy' = proxy]_allVars
    BY HostProxy
<1> QED
    BY <1>1, <1>2, <1>3, PTL DEF HostSpec, RevokedForGood

HostIInv == IInv /\ LedgerInv

\* Through proxy, predicate, scripts and upgrades the bridge takes the steps of
\* the bridge and no others: a message that another gateway would have to send
\* is never processed, and the rest happens outside it.
THEOREM HostImplementsBridge == HostSpec => ImplementsBridge
<1>1. HostInit => HostIInv /\ Init
    BY InitLedger, InitIInv DEF HostIInv
<1>2. HostIInv /\ [HostNext]_allVars => HostIInv' /\ [Next]_vars
    BY HostStep, NextIInv DEF HostIInv
<1> QED
    BY <1>1, <1>2, PTL DEF HostSpec, ImplementsBridge, Spec

\* However transactions are put together, Fuel uses up a message when the bridge
\* processed it and no other (predicate_asm.rs:16-63).
THEOREM LedgerAgrees == HostSpec => []ConsumedAsProcessed
<1>1. HostInit => HostIInv
    BY InitLedger, InitIInv DEF HostIInv
<1>2. HostIInv /\ [HostNext]_allVars => HostIInv'
    BY HostStep, NextIInv DEF HostIInv
<1>3. HostIInv => ConsumedAsProcessed
    BY DEF HostIInv, LedgerInv, ConsumedAsProcessed
<1> QED
    BY <1>1, <1>2, <1>3, PTL DEF HostSpec

\* So what is proved of the bridge holds of it behind its proxy.
THEOREM HostTypeCorrect == HostSpec => []TypeOK
BY HostImplementsBridge, TypeCorrect, PTL DEF ImplementsBridge

-----------------------------------------------------------------------------
(* The two ends: their invariants *)

Issuers == {FuelBridge} \union OtherFuelContracts

Fields == DOMAIN L1!InitialGateway

\* A storage of the gateway.
Storage(g) ==
    /\ DOMAIN g = Fields
    /\ g.deposits \in [Assets -> 0 .. MaxUint64]
    /\ g.held \in [Assets -> Nat]
    /\ g.cachedFactor \in [Assets -> Nat]
    /\ g.outbox \in Seq(L1!Messages)
    /\ g.assetIssuerId \in Issuers \union {ZeroId}

\* It holds what it counts as deposited.
Holds(g) ==
    \A t \in Assets :
        /\ g.cachedFactor[t] = 0 => g.deposits[t] = 0
        /\ g.held[t] = g.cachedFactor[t] * g.deposits[t]

ElsewhereIn(x, t) == SumFunctionOnSet([c \in OtherFuelContracts |-> x[c][t]],
                                      OtherFuelContracts)

\* A gateway between transactions: what it counts as deposited is locked for the
\* Fuel bridge or for another issuer, and it sent what the Fuel bridge received.
Settled(g, l, x) ==
    /\ Storage(g)
    /\ Holds(g)
    /\ \A t \in Assets : g.deposits[t] = l.locked[t] + ElsewhereIn(x, t)
    /\ Len(l.messages) <= Len(g.outbox)

\* A deposit runs, and g is the gateway p with its message, short of its tokens.
Depositing(g, p, f) ==
    /\ f.kind = "deposit"
    /\ f.token \in Assets
    /\ Len(p.outbox) < MaxMessages
    /\ \E e \in L1!Messages, factor \in Nat \ {0} :
        /\ e.kind \in DepositKinds
        /\ e.token = f.token
        /\ e.amount # 0
        /\ g.outbox = Append(p.outbox, e)
        /\ g.deposits = [p.deposits EXCEPT ![f.token] = @ + e.amount]
        /\ g.cachedFactor = [p.cachedFactor EXCEPT ![f.token] = factor]
        /\ p.cachedFactor[f.token] \in {0, factor}
        /\ g.held = p.held
        /\ f.amount = factor * e.amount

\* Message r, which the portal executes, was not executed before.
Relayed(r, b, l, x) ==
    IF r.sender = FuelBridge
    THEN /\ r.index \in DOMAIN b.outbox \ l.released
         /\ r.asset = b.outbox[r.index].asset
         /\ r.amount = b.outbox[r.index].amount
    ELSE /\ r.sender \in OtherFuelContracts
         /\ r.asset \in Assets
         /\ r.amount \in 0 .. x[r.sender][r.asset]

\* A withdrawal runs, and g is the gateway p without it.
Withdrawing(g, p, f, r) ==
    /\ f.kind = "withdrawal"
    /\ Holds(g)
    /\ g.outbox = p.outbox
    /\ g.deposits = [p.deposits EXCEPT ![r.asset] = @ - r.amount]

\* The gateway, and the storage a failing call brings back.
GatewayInv ==
    /\ elsewhere \in [OtherFuelContracts -> [Assets -> Nat]]
    /\ Storage(gateway)
    /\ stack = <<>> => Settled(gateway, l1, elsewhere)
    /\ stack # <<>> =>
        /\ stack = <<stack[1]>>
        /\ ~InCall
        /\ Settled(stack[1].before, l1, elsewhere)
        /\ \/ Depositing(gateway, stack[1].before, stack[1])
           \/ /\ Relayed(relaying, bridge, l1, elsewhere)
              /\ Withdrawing(gateway, stack[1].before, stack[1], relaying)

NoneRefused(b) == \A d \in Depositors, a \in Assets : b.refused[d][a] = 0

FromGateway(messages) ==
    \A i \in DOMAIN messages : messages[i].sender = Gateway /\ messages[i].amount <= MaxUint64

\* The Fuel bridge has nothing but messages of the gateway, and refused none.
FuelInv ==
    /\ BooksInv
    /\ FromGateway(l1.messages)
    /\ NoneRefused(bridge)
    /\ InCall => NoneRefused(call[1].before)

-----------------------------------------------------------------------------
(* What is with other issuers *)

LEMMA ElsewhereNat ==
    ASSUME NEW x \in [OtherFuelContracts -> [Assets -> Nat]], NEW t \in Assets
    PROVE  ElsewhereIn(x, t) \in Nat
BY TokenBridgeAssumption, SumNat DEF ElsewhereIn

\* Issuer c has v units of token u in y, and otherwise what it has in x.
Given(x, y, c, u, v) == y = [x EXCEPT ![c][u] = v]

LEMMA ElsewhereChange ==
    ASSUME NEW x \in [OtherFuelContracts -> [Assets -> Nat]],
           NEW c \in OtherFuelContracts, NEW u \in Assets, NEW v \in Nat,
           NEW y, Given(x, y, c, u, v), NEW t \in Assets
    PROVE  ElsewhereIn(y, t) = ElsewhereIn(x, t) + (IF t = u THEN v - x[c][u] ELSE 0)
<1> DEFINE f == [d \in OtherFuelContracts |-> x[d][t]]
<1> DEFINE g == [d \in OtherFuelContracts |-> y[d][t]]
<1>1. /\ \A d \in OtherFuelContracts : f[d] \in Nat /\ x[d][t] = f[d]
      /\ \A d \in OtherFuelContracts \ {c} : g[d] = f[d]
      /\ g[c] = IF t = u THEN v ELSE f[c]
    BY DEF Given
<1>2. ElsewhereIn(x, t) = SumFunctionOnSet(f, OtherFuelContracts)
      /\ ElsewhereIn(y, t) = SumFunctionOnSet(g, OtherFuelContracts)
    BY DEF ElsewhereIn
<1> HIDE DEF f, g
<1>3. \A d \in OtherFuelContracts : f[d] \in Int
    BY <1>1
<1>4. g[c] \in Int
    BY <1>1
<1>5. IsFiniteSet(OtherFuelContracts)
    BY TokenBridgeAssumption
<1>6. SumFunctionOnSet(g, OtherFuelContracts) =
        SumFunctionOnSet(f, OtherFuelContracts) - f[c] + g[c]
    BY <1>1, <1>3, <1>4, <1>5, SumChange
<1>7. SumFunctionOnSet(f, OtherFuelContracts) \in Int
    BY <1>3, <1>5, SumInt
<1> QED
    BY <1>1, <1>2, <1>4, <1>6, <1>7

-----------------------------------------------------------------------------
(* The gateway *)

LEMMA InitGatewayInv ==
    ASSUME BothInit
    PROVE  GatewayInv
<1>1. /\ gateway = L1!InitialGateway /\ stack = <<>>
      /\ elsewhere = [c \in OtherFuelContracts |-> [t \in Assets |-> 0]]
      /\ l1.messages = <<>> /\ l1.locked = [a \in Assets |-> 0]
    BY DEF BothInit, Init, L1!Init
<1>2. /\ DOMAIN gateway = Fields
      /\ gateway.deposits = [t \in Assets |-> 0] /\ gateway.held = [t \in Assets |-> 0]
      /\ gateway.cachedFactor = [t \in Assets |-> 0]
      /\ gateway.outbox = <<>> /\ gateway.assetIssuerId = ZeroId
    BY <1>1 DEF Fields, L1!InitialGateway, L1!Uncached
<1>3. Storage(gateway) /\ Holds(gateway)
    BY <1>2, BridgeAssumption DEF Storage, Holds
<1>4. ASSUME NEW t \in Assets
      PROVE  ElsewhereIn(elsewhere, t) = 0
    BY <1>1, TokenBridgeAssumption, SumZero DEF ElsewhereIn
<1>5. Settled(gateway, l1, elsewhere)
    BY <1>1, <1>2, <1>3, <1>4 DEF Settled
<1> QED
    BY <1>1, <1>3, <1>5 DEF GatewayInv

\* Every deposit() begins in the same way.
LEMMA DepositBegun ==
    ASSUME L1!Deposits
    PROVE  \E kind \in DepositKinds, t \in Assets, amount \in L1DepositAmounts :
                \E factor \in Factors[t] : L1!startDeposit(kind, t, amount, factor)
BY DEF L1!Deposits, L1!deposit, L1!depositWithData, L1!depositWithPermit,
       L1!depositWithDataAndPermit, DepositKinds

LEMMA DepositStartsInv ==
    ASSUME GatewayInv, DepositStarts, ~InCall, UNCHANGED <<bridge, call, spent>>
    PROVE  GatewayInv'
<1>1. PICK kind \in DepositKinds, t \in Assets, amount \in L1DepositAmounts :
        \E factor \in Factors[t] : L1!startDeposit(kind, t, amount, factor)
    BY DepositBegun DEF DepositStarts
<1>2. PICK factor \in Factors[t] : L1!startDeposit(kind, t, amount, factor)
    BY <1>1
<1> DEFINE x == amount \div factor
<1> DEFINE e == [kind |-> kind, token |-> t, amount |-> x, issuer |-> gateway.assetIssuerId]
<1> DEFINE f == [kind |-> "deposit", token |-> t, amount |-> amount, before |-> gateway]
<1>3. factor \in Nat \ {0} /\ amount \in Nat /\ MaxUint64 \in Nat
    BY TokenBridgeAssumption, BridgeAssumption
<1>4. stack = <<>>
    BY <1>2 DEF L1!startDeposit, GatewayInv
<1>5. amount % factor = 0 /\ x # 0 /\ x <= MaxUint64 /\ Len(gateway.outbox) < MaxMessages
      /\ gateway.assetIssuerId # ZeroId /\ gateway.cachedFactor[t] \in {0, factor}
      /\ gateway.deposits[t] + x <= MaxUint64
    BY <1>2 DEF L1!startDeposit, L1!WholeOnFuel, L1!KnownFactor, L1!WithinCaps, L1!Uncached
<1>6. x \in Nat /\ amount = factor * x
    BY <1>3, <1>5
<1>7. /\ gateway' = [gateway EXCEPT !.deposits[t] = gateway.deposits[t] + x,
                                   !.cachedFactor[t] = factor,
                                   !.outbox = Append(gateway.outbox, e)]
      /\ stack' = <<f>>
    BY <1>2, <1>4 DEF L1!startDeposit, L1!Push, L1!Frame
<1>8. e \in L1!Messages /\ e.kind = kind /\ e.token = t /\ e.amount = x
    BY <1>3, <1>5, <1>6 DEF L1!Messages, L1!DepositKinds, DepositKinds, Storage, Issuers, GatewayInv
<1>9. Storage(gateway) /\ Settled(gateway, l1, elsewhere) /\ elsewhere \in [OtherFuelContracts -> [Assets -> Nat]]
    BY <1>4 DEF GatewayInv
<1> HIDE DEF x, e
<1>10. /\ DOMAIN gateway' = Fields
       /\ gateway'.deposits = [gateway.deposits EXCEPT ![t] = gateway.deposits[t] + x]
       /\ gateway'.cachedFactor = [gateway.cachedFactor EXCEPT ![t] = factor]
       /\ gateway'.outbox = Append(gateway.outbox, e)
       /\ gateway'.held = gateway.held /\ gateway'.assetIssuerId = gateway.assetIssuerId
    BY <1>7, <1>9 DEF Storage, Fields, L1!InitialGateway
<1>11. Storage(gateway')
    BY <1>3, <1>5, <1>6, <1>8, <1>9, <1>10 DEF Storage
<1>12. f.kind = "deposit" /\ f.token = t /\ f.amount = amount /\ f.before = gateway
    OBVIOUS
<1> HIDE DEF f
<1>13. Depositing(gateway', gateway, f)
    <2>1. /\ e \in L1!Messages /\ factor \in Nat \ {0}
          /\ e.kind \in DepositKinds /\ e.token = f.token /\ e.amount # 0
          /\ gateway'.outbox = Append(gateway.outbox, e)
          /\ gateway'.deposits =
                [gateway.deposits EXCEPT ![f.token] = gateway.deposits[f.token] + e.amount]
          /\ gateway'.cachedFactor = [gateway.cachedFactor EXCEPT ![f.token] = factor]
          /\ gateway.cachedFactor[f.token] \in {0, factor}
          /\ gateway'.held = gateway.held
          /\ f.amount = factor * e.amount
        BY <1>3, <1>5, <1>6, <1>8, <1>10, <1>12
    <2> QED
        BY <1>5, <1>12, <2>1, Zenon DEF Depositing
<1>14. stack' = <<stack'[1]>> /\ stack'[1] = f /\ stack' # <<>>
    BY <1>7
<1>15. stack'[1].before = gateway /\ UNCHANGED <<elsewhere, l1, call>>
    BY <1>12, <1>14 DEF DepositStarts
<1>16. Depositing(gateway', stack'[1].before, stack'[1])
    BY <1>13, <1>14, <1>15
<1>17. Settled(stack'[1].before, l1', elsewhere') /\ ~InCall'
    BY <1>9, <1>15 DEF InCall
<1>18. elsewhere' \in [OtherFuelContracts -> [Assets -> Nat]]
    BY <1>9, <1>15
<1> QED
    BY <1>11, <1>14, <1>16, <1>17, <1>18 DEF GatewayInv

\* What a message in a block of L1 does to the books of the two sides.
LEMMA EmittedBooks ==
    ASSUME l1 \in Ledgers, elsewhere \in [OtherFuelContracts -> [Assets -> Nat]],
           NEW e \in L1!Messages, Emitted(e), NEW t \in Assets
    PROVE  /\ elsewhere' \in [OtherFuelContracts -> [Assets -> Nat]]
           /\ l1'.locked[t] + ElsewhereIn(elsewhere', t) =
                l1.locked[t] + ElsewhereIn(elsewhere, t) + (IF t = e.token THEN e.amount ELSE 0)
           /\ Len(l1'.messages) \in {Len(l1.messages), Len(l1.messages) + 1}
<1>1. /\ e.token \in Assets /\ e.amount \in Nat /\ e.issuer \in Issuers
      /\ ElsewhereIn(elsewhere, t) \in Nat
      /\ l1.locked \in [Assets -> Nat] /\ l1.messages \in Seq(Messages)
      /\ DOMAIN l1 = {"messages", "locked", "released"}
    <2>1. e.token \in Assets /\ e.amount \in Nat /\ e.issuer \in Issuers
        BY BridgeAssumption DEF L1!Messages, Issuers
    <2>2. ElsewhereIn(elsewhere, t) \in Nat
        BY ElsewhereNat
    <2>3. l1.locked \in [Assets -> Nat] /\ l1.messages \in Seq(Messages)
          /\ DOMAIN l1 = {"messages", "locked", "released"}
        BY BridgeAssumption DEF Ledgers
    <2> QED
        BY <2>1, <2>2, <2>3
<1>2. CASE e.issuer = FuelBridge
    <2>1. PICK d \in Depositors, h \in Receivers(e.kind) :
            l1' = [l1 EXCEPT !.messages = Append(l1.messages, MessageOf(e, d, h)),
                             !.locked[e.token] = l1.locked[e.token] + e.amount]
        BY <1>2 DEF Emitted
    <2>2. /\ l1'.locked = [l1.locked EXCEPT ![e.token] = l1.locked[e.token] + e.amount]
          /\ l1'.messages = Append(l1.messages, MessageOf(e, d, h))
        BY <1>1, <2>1
    <2>3. elsewhere' = elsewhere
        BY <1>2 DEF Emitted
    <2>4. l1'.locked[t] = l1.locked[t] + (IF t = e.token THEN e.amount ELSE 0)
        BY <1>1, <2>2
    <2>5. Len(l1'.messages) = Len(l1.messages) + 1
        BY <1>1, <2>2
    <2>6. l1.locked[t] \in Nat
        BY <1>1
    <2> QED
        BY <1>1, <2>3, <2>4, <2>5, <2>6
<1>3. CASE e.issuer \in OtherFuelContracts
    <2> DEFINE v == elsewhere[e.issuer][e.token] + e.amount
    <2>1. l1' = l1 /\ elsewhere' = [elsewhere EXCEPT ![e.issuer][e.token] = v]
        BY <1>3, TokenBridgeAssumption DEF Emitted
    <2>2. elsewhere[e.issuer][e.token] \in Nat /\ v \in Nat
        BY <1>1, <1>3
    <2>3. v - elsewhere[e.issuer][e.token] = e.amount
        BY <1>1, <2>2
    <2> HIDE DEF v
    <2>4. ElsewhereIn(elsewhere', t) = ElsewhereIn(elsewhere, t)
            + (IF t = e.token THEN v - elsewhere[e.issuer][e.token] ELSE 0)
        <3>1. Given(elsewhere, elsewhere', e.issuer, e.token, v)
            BY <2>1 DEF Given
        <3>2. e.token \in Assets
            BY <1>1
        <3> QED
            BY <1>3, <2>2, <3>1, <3>2, ElsewhereChange
    <2>5. elsewhere' \in [OtherFuelContracts -> [Assets -> Nat]]
        BY <1>1, <1>3, <2>1, <2>2
    <2>6. l1.locked[t] \in Nat
        BY <1>1
    <2> QED
        BY <1>1, <2>1, <2>3, <2>4, <2>5, <2>6
<1> QED
    BY <1>1, <1>2, <1>3 DEF Issuers

\* A message in a block of L1 is one the Fuel bridge expects there.
LEMMA EmittedStep ==
    ASSUME l1 \in Ledgers, NEW e \in L1!Messages, Emitted(e), ~InCall,
           UNCHANGED <<bridge, call, spent>>,
           Len(l1.messages) < MaxMessages, l1.locked[e.token] + e.amount <= MaxUint64,
           e.kind = "METADATA" <=> e.amount = 0
    PROVE  [Next]_vars
<1>1. CASE e.issuer = FuelBridge
    <2>1. PICK d \in Depositors, h \in Receivers(e.kind) :
            l1' = [l1 EXCEPT !.messages = Append(l1.messages, MessageOf(e, d, h)),
                             !.locked[e.token] = l1.locked[e.token] + e.amount]
        BY <1>1 DEF Emitted
    <2> DEFINE m == MessageOf(e, d, h)
    <2>2. /\ m = [sender |-> Gateway, kind |-> e.kind, asset |-> e.token, from |-> d,
                  to |-> h, amount |-> e.amount]
          /\ m.sender = Gateway /\ m.kind = e.kind /\ m.asset = e.token /\ m.to = h
          /\ m.amount = e.amount
        BY DEF MessageOf
    <2>3. /\ e.token \in Assets /\ e.kind \in DepositKinds \union {"METADATA"}
          /\ e.amount \in DepositAmounts /\ h \in Holders
        BY TokenBridgeAssumption DEF L1!Messages, L1!DepositKinds, DepositKinds, Receivers, Holders
    <2>4. Supply[e.token] = MaxUint64
        BY <2>3, TokenBridgeAssumption
    <2> HIDE DEF m
    <2>5. Arrives(m)
        BY <2>1, <2>2, <2>4 DEF Arrives, Receivers, m
    <2>6. L1Messages
        BY <2>2, <2>3, <2>5 DEF L1Messages
    <2> QED
        BY <2>6 DEF Next
<1>2. CASE e.issuer # FuelBridge
    BY <1>2 DEF Emitted, vars
<1> QED
    BY <1>1, <1>2

LEMMA EmittedSettled ==
    ASSUME l1 \in Ledgers, elsewhere \in [OtherFuelContracts -> [Assets -> Nat]],
           NEW e \in L1!Messages, Emitted(e),
           NEW p, Settled(p, l1, elsewhere), NEW g, Storage(g), Holds(g),
           \A t \in Assets : g.deposits[t] = p.deposits[t] + (IF t = e.token THEN e.amount ELSE 0),
           Len(g.outbox) = Len(p.outbox) + 1
    PROVE  /\ elsewhere' \in [OtherFuelContracts -> [Assets -> Nat]]
           /\ Settled(g, l1', elsewhere')
<1>1. ASSUME NEW t \in Assets
      PROVE  g.deposits[t] = l1'.locked[t] + ElsewhereIn(elsewhere', t)
    BY EmittedBooks DEF Settled
<1>2. /\ elsewhere' \in [OtherFuelContracts -> [Assets -> Nat]]
      /\ Len(l1'.messages) \in {Len(l1.messages), Len(l1.messages) + 1}
    <2>1. e.token \in Assets
        BY DEF L1!Messages
    <2> QED
        BY <2>1, EmittedBooks
<1>3. Len(l1.messages) <= Len(p.outbox) /\ Len(l1.messages) \in Nat /\ Len(p.outbox) \in Nat
    BY DEF Settled, Storage, Ledgers
<1>4. Len(l1'.messages) <= Len(g.outbox)
    BY <1>2, <1>3
<1> QED
    BY <1>1, <1>2, <1>4 DEF Settled

LEMMA Times ==
    ASSUME NEW a \in Nat, NEW b \in Nat, NEW c \in Nat
    PROVE  a * (b + c) = a * b + a * c
OBVIOUS

LEMMA LastOf ==
    ASSUME NEW S, NEW s \in Seq(S), NEW e \in S, NEW g, g.outbox = Append(s, e)
    PROVE  LastSent(g) = e /\ Len(g.outbox) = Len(s) + 1
BY DEF LastSent

\* The deposit the running call makes, whose message is the last.
LEMMA DepositEndsParts ==
    ASSUME GatewayInv, L1!depositReturns
    PROVE  /\ stack = <<stack[1]>> /\ stack' = <<>>
           /\ Settled(stack[1].before, l1, elsewhere)
           /\ Depositing(gateway, stack[1].before, stack[1])
           /\ gateway' = [gateway EXCEPT !.held[stack[1].token] = @ + stack[1].amount]
<1>1. stack # <<>> /\ stack = <<stack[1]>> /\ Head(stack) = stack[1]
    BY DEF L1!depositReturns, GatewayInv
<1>2. Tail(stack) = <<>>
    <2>1. \A x : Tail(<<x>>) = <<>>
        OBVIOUS
    <2> QED
        BY <1>1, <2>1, Zenon
<1>3. stack[1].kind = "deposit"
    BY <1>1 DEF L1!depositReturns
<1> QED
    BY <1>1, <1>2, <1>3 DEF L1!depositReturns, L1!Pop, GatewayInv, Withdrawing

LEMMA DepositEndsInv ==
    ASSUME GatewayInv, l1 \in Ledgers, DepositEnds, ~InCall, UNCHANGED <<bridge, call, spent>>
    PROVE  GatewayInv' /\ [Next]_vars
<1> DEFINE p == stack[1].before
<1> DEFINE t == stack[1].token
<1>1. /\ stack' = <<>> /\ Settled(p, l1, elsewhere) /\ Depositing(gateway, p, stack[1])
      /\ gateway' = [gateway EXCEPT !.held[t] = @ + stack[1].amount]
      /\ Emitted(LastSent(gateway))
      /\ elsewhere \in [OtherFuelContracts -> [Assets -> Nat]]
      /\ Storage(gateway)
    BY DepositEndsParts DEF DepositEnds, GatewayInv
<1>2. Len(p.outbox) < MaxMessages /\ t \in Assets
    BY <1>1 DEF Depositing
<1>3. PICK e \in L1!Messages, factor \in Nat \ {0} :
        /\ e.kind \in DepositKinds
        /\ e.token = t
        /\ e.amount # 0
        /\ gateway.outbox = Append(p.outbox, e)
        /\ gateway.deposits = [p.deposits EXCEPT ![t] = p.deposits[t] + e.amount]
        /\ gateway.cachedFactor = [p.cachedFactor EXCEPT ![t] = factor]
        /\ p.cachedFactor[t] \in {0, factor}
        /\ gateway.held = p.held
        /\ stack[1].amount = factor * e.amount
    BY <1>1 DEF Depositing
<1>4. Storage(p) /\ Holds(p) /\ e.amount \in Nat
    BY <1>1, BridgeAssumption DEF Settled, L1!Messages
<1>5. LastSent(gateway) = e /\ Len(gateway.outbox) = Len(p.outbox) + 1
    BY <1>3, <1>4, LastOf DEF Storage
<1>6. /\ DOMAIN gateway' = Fields
      /\ gateway'.deposits = gateway.deposits /\ gateway'.cachedFactor = gateway.cachedFactor
      /\ gateway'.outbox = gateway.outbox /\ gateway'.assetIssuerId = gateway.assetIssuerId
      /\ gateway'.held = [gateway.held EXCEPT ![t] = gateway.held[t] + factor * e.amount]
    BY <1>1, <1>3 DEF Storage, Fields, L1!InitialGateway
<1> HIDE DEF p, t
<1>7. Storage(gateway')
    <2>1. factor * e.amount \in Nat /\ gateway.held[t] \in Nat
        BY <1>1, <1>2, <1>4 DEF Storage
    <2>2. gateway'.held \in [Assets -> Nat]
        BY <1>1, <1>2, <1>6, <2>1 DEF Storage
    <2> QED
        BY <1>1, <1>6, <2>2 DEF Storage
<1>8. ASSUME NEW u \in Assets
      PROVE  /\ gateway'.cachedFactor[u] = 0 => gateway'.deposits[u] = 0
             /\ gateway'.held[u] = gateway'.cachedFactor[u] * gateway'.deposits[u]
    <2>1. /\ p.cachedFactor \in [Assets -> Nat] /\ p.deposits \in [Assets -> Nat]
          /\ p.held \in [Assets -> Nat]
        BY <1>4, BridgeAssumption DEF Storage
    <2>2. /\ p.cachedFactor[u] = 0 => p.deposits[u] = 0
          /\ p.held[u] = p.cachedFactor[u] * p.deposits[u]
        BY <1>4 DEF Holds
    <2>3. CASE u # t
        BY <1>2, <1>3, <1>6, <2>1, <2>2, <2>3
    <2>4. CASE u = t
        <3>1. /\ gateway'.cachedFactor[u] = factor /\ gateway'.deposits[u] = p.deposits[u] + e.amount
              /\ gateway'.held[u] = p.held[u] + factor * e.amount
            BY <1>2, <1>3, <1>6, <2>1, <2>4
        <3>2. p.held[u] = factor * p.deposits[u]
            BY <1>3, <2>1, <2>2, <2>4
        <3>3. factor * (p.deposits[u] + e.amount) = factor * p.deposits[u] + factor * e.amount
            BY <1>4, <2>1, Times
        <3> QED
            BY <3>1, <3>2, <3>3
    <2> QED
        BY <2>3, <2>4
<1>9. Holds(gateway')
    BY <1>8 DEF Holds
<1>10. \A u \in Assets :
        gateway'.deposits[u] = p.deposits[u] + (IF u = e.token THEN e.amount ELSE 0)
    <2>1. p.deposits \in [Assets -> Nat]
        BY <1>4, BridgeAssumption DEF Storage
    <2> QED
        BY <1>2, <1>3, <1>6, <2>1
<1>11. Emitted(e) /\ Len(gateway'.outbox) = Len(p.outbox) + 1
    BY <1>1, <1>5, <1>6
<1>12. /\ elsewhere' \in [OtherFuelContracts -> [Assets -> Nat]]
       /\ Settled(gateway', l1', elsewhere')
    <2>1. Settled(p, l1, elsewhere) /\ elsewhere \in [OtherFuelContracts -> [Assets -> Nat]]
        BY <1>1
    <2> QED
        BY <2>1, <1>7, <1>9, <1>10, <1>11, EmittedSettled
<1>13. GatewayInv'
    BY <1>1, <1>7, <1>12 DEF GatewayInv
<1>14. l1.locked[t] + e.amount <= MaxUint64
    <2>1. /\ p.deposits[t] = l1.locked[t] + ElsewhereIn(elsewhere, t)
          /\ ElsewhereIn(elsewhere, t) \in Nat
        BY <1>1, <1>2, ElsewhereNat DEF Settled
    <2>2. gateway.deposits[t] = p.deposits[t] + e.amount /\ gateway.deposits[t] <= MaxUint64
        BY <1>1, <1>2, <1>3, <1>4 DEF Storage
    <2>3. l1.locked[t] \in Nat /\ MaxUint64 \in Nat
        BY <1>2, BridgeAssumption DEF Ledgers
    <2> QED
        BY <1>4, <2>1, <2>2, <2>3
<1>15. Len(l1.messages) < MaxMessages
    <2>1. Len(l1.messages) <= Len(p.outbox) /\ Len(l1.messages) \in Nat /\ Len(p.outbox) \in Nat
        BY <1>1, <1>4 DEF Settled, Storage, Ledgers
    <2> QED
        BY <1>2, <2>1, BridgeBounds
<1>16. e.kind # "METADATA"
    BY <1>3 DEF DepositKinds
<1>17. [Next]_vars
    BY <1>3, <1>11, <1>14, <1>15, <1>16, EmittedStep
<1> QED
    BY <1>13, <1>17

LEMMA MetadataSentInv ==
    ASSUME GatewayInv, l1 \in Ledgers, MetadataSent, ~InCall, UNCHANGED <<bridge, call, spent>>
    PROVE  GatewayInv' /\ [Next]_vars
<1>1. PICK t \in Assets : L1!sendMetadata(t)
    BY DEF MetadataSent
<1> DEFINE e == [kind |-> "METADATA", token |-> t, amount |-> 0,
                 issuer |-> gateway.assetIssuerId]
<1>2. /\ stack = <<>> /\ stack' = <<>> /\ Emitted(LastSent(gateway'))
      /\ Len(gateway.outbox) < MaxMessages /\ gateway.assetIssuerId # ZeroId
      /\ gateway' = [gateway EXCEPT !.outbox = Append(gateway.outbox, e)]
    BY <1>1 DEF MetadataSent, L1!sendMetadata
<1>3. /\ Storage(gateway) /\ Settled(gateway, l1, elsewhere)
      /\ elsewhere \in [OtherFuelContracts -> [Assets -> Nat]]
    BY <1>2 DEF GatewayInv
<1>4. e \in L1!Messages
    BY <1>2, <1>3, BridgeAssumption DEF L1!Messages, Storage, Issuers
<1>5. e.kind = "METADATA" /\ e.token = t /\ e.amount = 0
    OBVIOUS
<1> HIDE DEF e
<1>6. /\ DOMAIN gateway' = Fields
      /\ gateway'.deposits = gateway.deposits /\ gateway'.cachedFactor = gateway.cachedFactor
      /\ gateway'.outbox = Append(gateway.outbox, e) /\ gateway'.held = gateway.held
      /\ gateway'.assetIssuerId = gateway.assetIssuerId
    BY <1>2, <1>3 DEF Storage, Fields, L1!InitialGateway
<1>7. Storage(gateway') /\ Holds(gateway')
    BY <1>3, <1>4, <1>6 DEF Storage, Holds, Settled
<1>8. LastSent(gateway') = e /\ Len(gateway'.outbox) = Len(gateway.outbox) + 1
    BY <1>3, <1>4, <1>6, LastOf DEF Storage
<1>9. \A u \in Assets :
        gateway'.deposits[u] = gateway.deposits[u] + (IF u = e.token THEN e.amount ELSE 0)
    <2>1. \A u \in Assets : gateway.deposits[u] \in Nat
        BY <1>3, BridgeAssumption DEF Storage
    <2> QED
        BY <1>5, <1>6, <2>1
<1>10. Emitted(e)
    BY <1>2, <1>8
<1>11. /\ elsewhere' \in [OtherFuelContracts -> [Assets -> Nat]]
       /\ Settled(gateway', l1', elsewhere')
    BY <1>3, <1>4, <1>7, <1>8, <1>9, <1>10, EmittedSettled
<1>12. GatewayInv'
    BY <1>2, <1>7, <1>11 DEF GatewayInv
<1>13. l1.locked[e.token] + e.amount <= MaxUint64
    <2>1. /\ gateway.deposits[t] = l1.locked[t] + ElsewhereIn(elsewhere, t)
          /\ ElsewhereIn(elsewhere, t) \in Nat
        BY <1>3, ElsewhereNat DEF Settled
    <2>2. gateway.deposits[t] <= MaxUint64
        BY <1>3 DEF Storage
    <2>3. l1.locked[t] \in Nat /\ MaxUint64 \in Nat
        BY BridgeAssumption DEF Ledgers
    <2> QED
        BY <1>5, <2>1, <2>2, <2>3
<1>14. Len(l1.messages) < MaxMessages
    <2>1. /\ Len(l1.messages) <= Len(gateway.outbox) /\ Len(l1.messages) \in Nat
          /\ Len(gateway.outbox) \in Nat
        BY <1>3 DEF Settled, Storage, Ledgers
    <2> QED
        BY <1>2, <2>1, BridgeBounds
<1>15. [Next]_vars
    BY <1>4, <1>5, <1>10, <1>13, <1>14, EmittedStep
<1> QED
    BY <1>12, <1>15

\* What finalizeWithdrawal() does up to the call of the token.
LEMMA WithdrawalBegun ==
    ASSUME GatewayInv, NEW t \in Assets, NEW x \in Nat, NEW sender, NEW factor \in Factors[t],
           L1!finalizeWithdrawal(t, x, sender, factor),
           NEW r, r.asset = t, r.amount = x
    PROVE  /\ stack = <<>> /\ Settled(gateway, l1, elsewhere)
           /\ stack' # <<>> /\ stack' = <<stack'[1]>> /\ stack'[1].before = gateway
           /\ Storage(gateway') /\ Withdrawing(gateway', gateway, stack'[1], r)
           /\ sender = gateway.assetIssuerId
<1> DEFINE f == [kind |-> "withdrawal", token |-> t, amount |-> x * factor, before |-> gateway]
<1>1. stack = <<>>
    BY DEF L1!finalizeWithdrawal, GatewayInv
<1>2. Settled(gateway, l1, elsewhere) /\ Storage(gateway) /\ Holds(gateway)
    BY <1>1 DEF GatewayInv, Settled
<1>3. factor \in Nat \ {0}
    BY TokenBridgeAssumption
<1>4. /\ x # 0 /\ sender = gateway.assetIssuerId
      /\ gateway.cachedFactor[t] \in {0, factor}
      /\ x <= gateway.deposits[t] /\ x * factor <= gateway.held[t]
    BY DEF L1!finalizeWithdrawal, L1!FromIssuer, L1!KnownFactor, L1!Uncached
<1>5. stack' = <<f>>
    BY <1>1 DEF L1!finalizeWithdrawal, L1!Push, L1!Frame
<1>6. /\ DOMAIN gateway' = Fields
      /\ gateway'.deposits = [gateway.deposits EXCEPT ![t] = gateway.deposits[t] - x]
      /\ gateway'.held = [gateway.held EXCEPT ![t] = gateway.held[t] - x * factor]
      /\ gateway'.cachedFactor = [gateway.cachedFactor EXCEPT ![t] = factor]
      /\ gateway'.outbox = gateway.outbox /\ gateway'.assetIssuerId = gateway.assetIssuerId
    BY <1>2 DEF L1!finalizeWithdrawal, Storage, Fields, L1!InitialGateway
<1>7. /\ gateway.deposits \in [Assets -> Nat] /\ gateway.held \in [Assets -> Nat]
      /\ gateway.cachedFactor \in [Assets -> Nat]
      /\ gateway.deposits[t] <= MaxUint64 /\ MaxUint64 \in Nat
    BY <1>2, BridgeAssumption DEF Storage
<1>8. x * factor \in Nat
    BY <1>3
<1>9. gateway'.deposits \in [Assets -> 0 .. MaxUint64]
    <2>1. gateway.deposits[t] - x \in 0 .. MaxUint64
        BY <1>4, <1>7
    <2> QED
        BY <1>2, <1>6, <2>1 DEF Storage
<1>10. Storage(gateway')
    <2>1. gateway.held[t] - x * factor \in Nat
        BY <1>4, <1>7, <1>8
    <2> QED
        BY <1>2, <1>3, <1>6, <1>7, <1>9, <2>1 DEF Storage
<1>11. ASSUME NEW u \in Assets
       PROVE  /\ gateway'.cachedFactor[u] = 0 => gateway'.deposits[u] = 0
              /\ gateway'.held[u] = gateway'.cachedFactor[u] * gateway'.deposits[u]
    <2>1. /\ gateway.cachedFactor[u] = 0 => gateway.deposits[u] = 0
          /\ gateway.held[u] = gateway.cachedFactor[u] * gateway.deposits[u]
        BY <1>2 DEF Holds
    <2>2. CASE u # t
        BY <1>6, <1>7, <2>1, <2>2
    <2>3. CASE u = t
        <3> DEFINE y == gateway.deposits[t] - x
        <3>1. y \in Nat /\ gateway.deposits[t] = y + x
            BY <1>4, <1>7
        <3>2. gateway.cachedFactor[t] = factor
            BY <1>4, <1>7, <2>1, <2>3
        <3>3. gateway'.cachedFactor[u] = factor /\ gateway'.deposits[u] = y
              /\ gateway'.held[u] = gateway.held[t] - x * factor
            BY <1>6, <1>7, <2>3
        <3> HIDE DEF y
        <3>4. factor * (y + x) = factor * y + factor * x /\ x * factor = factor * x
            BY <1>3, <3>1, Times
        <3>5. gateway.held[t] = factor * y + factor * x
            BY <2>1, <2>3, <3>1, <3>2, <3>4
        <3>6. factor * y \in Nat /\ factor * x \in Nat
            BY <1>3, <3>1
        <3> QED
            BY <1>3, <3>3, <3>4, <3>5, <3>6
    <2> QED
        BY <2>2, <2>3
<1>12. f.kind = "withdrawal" /\ f.before = gateway
    OBVIOUS
<1> HIDE DEF f
<1>13. stack' # <<>> /\ stack' = <<stack'[1]>> /\ stack'[1] = f
    BY <1>5
<1>14. Withdrawing(gateway', gateway, f, r)
    BY <1>6, <1>11, <1>12 DEF Withdrawing, Holds
<1> QED
    BY <1>1, <1>2, <1>4, <1>10, <1>12, <1>13, <1>14

LEMMA RelayStartsInv ==
    ASSUME GatewayInv, ~InCall, UNCHANGED <<bridge, call, spent, elsewhere, l1>>,
           NEW t \in Assets, NEW x \in Nat, NEW sender, NEW factor \in Factors[t],
           L1!finalizeWithdrawal(t, x, sender, factor),
           relaying'.asset = t, relaying'.amount = x,
           Relayed(relaying', bridge, l1, elsewhere)
    PROVE  GatewayInv'
<1>1. /\ stack = <<>> /\ Settled(gateway, l1, elsewhere)
      /\ stack' # <<>> /\ stack' = <<stack'[1]>> /\ stack'[1].before = gateway
      /\ Storage(gateway') /\ Withdrawing(gateway', gateway, stack'[1], relaying')
    BY WithdrawalBegun
<1>2. elsewhere' \in [OtherFuelContracts -> [Assets -> Nat]]
    BY DEF GatewayInv
<1>3. ~InCall' /\ Settled(stack'[1].before, l1', elsewhere')
    BY <1>1 DEF InCall
<1>4. /\ Relayed(relaying', bridge', l1', elsewhere')
      /\ Withdrawing(gateway', stack'[1].before, stack'[1], relaying')
    BY <1>1
<1> QED
    BY <1>1, <1>2, <1>3, <1>4 DEF GatewayInv

LEMMA RelayWithdrawalInv ==
    ASSUME GatewayInv, bridge \in Bridges, ~InCall, UNCHANGED <<bridge, call, spent>>,
           NEW i \in DOMAIN bridge.outbox, RelayWithdrawal(i)
    PROVE  GatewayInv'
<1> DEFINE w == bridge.outbox[i]
<1>1. w.asset \in Assets /\ w.amount \in Nat
    BY OutboxOf
<1>2. PICK factor \in Factors[w.asset] :
        L1!finalizeWithdrawal(w.asset, w.amount, FuelBridge, factor)
    BY DEF RelayWithdrawal
<1>3. /\ relaying'.sender = FuelBridge /\ relaying'.index = i
      /\ relaying'.asset = w.asset /\ relaying'.amount = w.amount
      /\ i \notin l1.released /\ UNCHANGED <<elsewhere, l1>>
    BY DEF RelayWithdrawal
<1>4. Relayed(relaying', bridge, l1, elsewhere)
    BY <1>3 DEF Relayed
<1> HIDE DEF w
<1> QED
    BY <1>1, <1>2, <1>3, <1>4, RelayStartsInv

LEMMA RelayForeignInv ==
    ASSUME GatewayInv, ~InCall, UNCHANGED <<bridge, call, spent>>,
           NEW t \in Assets, NEW x \in 0 .. MaxUint64, NEW sender \in OtherFuelContracts,
           RelayForeign(t, x, sender)
    PROVE  GatewayInv'
<1>1. PICK factor \in Factors[t] : L1!finalizeWithdrawal(t, x, sender, factor)
    BY DEF RelayForeign
<1>2. /\ relaying'.sender = sender /\ relaying'.asset = t /\ relaying'.amount = x
      /\ UNCHANGED <<elsewhere, l1>>
    BY DEF RelayForeign
<1>3. x \in Nat
    BY BridgeAssumption
<1>4. x <= elsewhere[sender][t]
    BY <1>1 DEF RelayForeign, L1!finalizeWithdrawal, L1!FromIssuer
<1>5. elsewhere[sender][t] \in Nat
    BY DEF GatewayInv
<1>6. x \in 0 .. elsewhere[sender][t] /\ sender # FuelBridge
    BY <1>3, <1>4, <1>5, TokenBridgeAssumption
<1>7. Relayed(relaying', bridge, l1, elsewhere)
    BY <1>2, <1>6 DEF Relayed
<1> QED
    BY <1>1, <1>2, <1>3, <1>7, RelayStartsInv

LEMMA AdministrationInv ==
    ASSUME GatewayInv, Administration, ~InCall, UNCHANGED <<bridge, call, spent>>
    PROVE  GatewayInv'
<1>1. PICK id \in {FuelBridge, ZeroId} \union OtherFuelContracts : L1!setAssetIssuerId(id)
    BY DEF Administration
<1>2. /\ stack = <<>> /\ stack' = <<>> /\ UNCHANGED <<elsewhere, l1>>
      /\ gateway' = [gateway EXCEPT !.assetIssuerId = id]
    BY <1>1 DEF Administration, L1!setAssetIssuerId
<1>3. /\ Storage(gateway) /\ Settled(gateway, l1, elsewhere)
      /\ elsewhere \in [OtherFuelContracts -> [Assets -> Nat]]
    BY <1>2 DEF GatewayInv
<1>4. /\ DOMAIN gateway' = Fields
      /\ gateway'.deposits = gateway.deposits /\ gateway'.cachedFactor = gateway.cachedFactor
      /\ gateway'.outbox = gateway.outbox /\ gateway'.held = gateway.held
      /\ gateway'.assetIssuerId = id
    BY <1>2, <1>3 DEF Storage, Fields, L1!InitialGateway
<1>5. Storage(gateway') /\ Settled(gateway', l1', elsewhere')
    BY <1>2, <1>3, <1>4 DEF Storage, Holds, Settled, Issuers
<1> QED
    BY <1>2, <1>3, <1>5 DEF GatewayInv

\* The only running call ends.
LEMMA LastCall ==
    ASSUME GatewayInv, stack # <<>>
    PROVE  /\ Head(stack) = stack[1] /\ Tail(stack) = <<>> /\ stack = <<stack[1]>>
<1>1. stack = <<stack[1]>>
    BY DEF GatewayInv
<1>2. \A x : Tail(<<x>>) = <<>> /\ Head(<<x>>) = x
    OBVIOUS
<1> QED
    BY <1>1, <1>2, Zenon

LEMMA L1RevertsInv ==
    ASSUME GatewayInv, L1Reverts, ~InCall, UNCHANGED <<bridge, call, spent>>
    PROVE  GatewayInv'
<1>1. /\ stack # <<>> /\ stack' = <<>> /\ gateway' = stack[1].before
      /\ UNCHANGED <<elsewhere, l1>>
    BY LastCall DEF L1Reverts, L1!callReverts, L1!Pop
<1>2. /\ Settled(stack[1].before, l1, elsewhere)
      /\ elsewhere \in [OtherFuelContracts -> [Assets -> Nat]]
    BY <1>1 DEF GatewayInv
<1> QED
    BY <1>1, <1>2 DEF GatewayInv, Settled

\* What the bridge sent and L1 did not release is locked.
LEMMA UnreleasedLocked ==
    ASSUME BooksInv, NEW i \in DOMAIN bridge.outbox \ l1.released
    PROVE  bridge.outbox[i].amount <= l1.locked[bridge.outbox[i].asset]
<1> DEFINE a == bridge.outbox[i].asset
<1> DEFINE f == AmountsOf(bridge.outbox)
<1> DEFINE R == Unreleased(bridge, l1, a)
<1>1. bridge \in Bridges
    BY LedgersOf DEF BooksInv
<1>2. /\ a \in Assets /\ f[i] = bridge.outbox[i].amount /\ i \in R
      /\ IsFiniteSet(R) /\ \A j \in R : f[j] \in Nat
    BY <1>1, OutboxOf, FS_Subset DEF Unreleased
<1>3. ReturningIn(bridge, l1, a) = SumFunctionOnSet(f, R)
    BY DEF ReturningIn
<1>4. \A j \in R : f[j] \in Int
    BY <1>2
<1> HIDE DEF f, R
<1>5. SumFunctionOnSet(f, R) = f[i] + SumFunctionOnSet(f, R \ {i})
    BY <1>2, <1>4, SumRemove
<1>6. SumFunctionOnSet(f, R \ {i}) \in Nat
    BY <1>2, FS_Subset, SumNat
<1>7. /\ l1.locked[a] = InMessages(l1, Unspent(l1, spent, a) \ Running) + bridge.minted[a]
            + RefundsIn(bridge, a) + ReturningIn(bridge, l1, a)
      /\ InMessages(l1, Unspent(l1, spent, a) \ Running) \in Nat
    BY <1>2, BooksNow DEF Booked
<1>8. bridge.minted[a] \in Nat /\ RefundsIn(bridge, a) \in Nat /\ f[i] \in Nat
    BY <1>1, <1>2, AccountsNat
<1> QED
    BY <1>2, <1>3, <1>5, <1>6, <1>7, <1>8

LEMMA RelayReturnsInv ==
    ASSUME GatewayInv, BooksInv, RelayReturns, ~InCall, UNCHANGED <<bridge, call, spent>>
    PROVE  GatewayInv' /\ [Next]_vars
<1> DEFINE p == stack[1].before
<1> DEFINE a == relaying.asset
<1> DEFINE x == relaying.amount
<1>1. /\ stack # <<>> /\ stack' = <<>> /\ gateway' = gateway /\ stack[1].kind = "withdrawal"
    BY LastCall DEF RelayReturns, L1!withdrawalReturns, L1!Pop
<1>2. /\ Storage(gateway) /\ Settled(p, l1, elsewhere)
      /\ Withdrawing(gateway, p, stack[1], relaying)
      /\ Relayed(relaying, bridge, l1, elsewhere)
      /\ elsewhere \in [OtherFuelContracts -> [Assets -> Nat]]
    BY <1>1 DEF GatewayInv, Depositing
<1>3. l1 \in Ledgers /\ bridge \in Bridges
    BY LedgersOf DEF BooksInv
<1> HIDE DEF p
<1>4. /\ p.deposits \in [Assets -> Nat] /\ l1.locked \in [Assets -> Nat]
      /\ DOMAIN l1 = {"messages", "locked", "released"}
    BY <1>2, <1>3, BridgeAssumption DEF Settled, Storage, Ledgers
<1>5. /\ gateway.outbox = p.outbox /\ Holds(gateway)
      /\ gateway.deposits = [p.deposits EXCEPT ![a] = p.deposits[a] - x]
    BY <1>2 DEF Withdrawing
<1>6. ASSUME NEW t \in Assets
      PROVE  p.deposits[t] = l1.locked[t] + ElsewhereIn(elsewhere, t)
             /\ ElsewhereIn(elsewhere, t) \in Nat
    BY <1>2, ElsewhereNat DEF Settled
<1>7. CASE relaying.sender = FuelBridge
    <2> DEFINE i == relaying.index
    <2>1. /\ i \in DOMAIN bridge.outbox \ l1.released
          /\ a = bridge.outbox[i].asset /\ x = bridge.outbox[i].amount
        BY <1>2, <1>7 DEF Relayed
    <2>2. a \in Assets /\ x \in Nat
        BY <1>3, <2>1, OutboxOf
    <2>3. /\ l1' = [l1 EXCEPT !.released = l1.released \union {i},
                             !.locked[a] = l1.locked[a] - x]
          /\ elsewhere' = elsewhere
        BY <1>7 DEF RelayReturns
    <2>4. x <= l1.locked[a]
        BY <2>1, UnreleasedLocked
    <2>5. Releases(i)
        BY <2>1, <2>3, <2>4 DEF Releases
    <2>6. l1'.locked = [l1.locked EXCEPT ![a] = l1.locked[a] - x] /\ l1'.messages = l1.messages
        BY <1>4, <2>3
    <2> HIDE DEF a, x, i
    <2>7. ASSUME NEW t \in Assets
          PROVE  gateway.deposits[t] = l1'.locked[t] + ElsewhereIn(elsewhere', t)
        <3>1. p.deposits[t] = l1.locked[t] + ElsewhereIn(elsewhere, t)
              /\ ElsewhereIn(elsewhere, t) \in Nat
            BY <1>6
        <3>2. l1.locked[t] \in Nat
            BY <1>4
        <3>3. CASE t = a
            <4>1. gateway.deposits[t] = p.deposits[t] - x /\ l1'.locked[t] = l1.locked[t] - x
                BY <1>4, <1>5, <2>2, <2>6, <3>3
            <4> QED
                BY <2>2, <2>3, <3>1, <3>2, <4>1
        <3>4. CASE t # a
            BY <1>4, <1>5, <2>3, <2>6, <3>1, <3>4
        <3> QED
            BY <3>3, <3>4
    <2>8. Settled(gateway', l1', elsewhere')
        BY <1>1, <1>2, <1>5, <2>6, <2>7 DEF Settled
    <2>9. GatewayInv'
        BY <1>1, <1>2, <2>3, <2>8 DEF GatewayInv
    <2>10. [Next]_vars
        BY <2>1, <2>5 DEF Next
    <2> QED
        BY <2>9, <2>10
<1>8. CASE relaying.sender # FuelBridge
    <2> DEFINE c == relaying.sender
    <2> DEFINE v == elsewhere[c][a] - x
    <2>1. c \in OtherFuelContracts /\ a \in Assets /\ x \in 0 .. elsewhere[c][a]
        BY <1>2, <1>8 DEF Relayed
    <2>2. elsewhere[c][a] \in Nat
        BY <1>2, <2>1
    <2>3. v \in Nat /\ x \in Nat /\ v - elsewhere[c][a] = 0 - x
        BY <2>1, <2>2
    <2>4. l1' = l1 /\ elsewhere' = [elsewhere EXCEPT ![c][a] = v]
        BY <1>8 DEF RelayReturns
    <2>5. Given(elsewhere, elsewhere', c, a, v)
        BY <2>4 DEF Given
    <2>6. elsewhere' \in [OtherFuelContracts -> [Assets -> Nat]]
        BY <1>2, <2>1, <2>3, <2>4
    <2> HIDE DEF a, x, c, v
    <2>7. ASSUME NEW t \in Assets
          PROVE  gateway.deposits[t] = l1'.locked[t] + ElsewhereIn(elsewhere', t)
        <3>1. p.deposits[t] = l1.locked[t] + ElsewhereIn(elsewhere, t)
              /\ ElsewhereIn(elsewhere, t) \in Nat
            BY <1>6
        <3>2. l1.locked[t] \in Nat
            BY <1>4
        <3>3. ElsewhereIn(elsewhere', t) =
                ElsewhereIn(elsewhere, t) + (IF t = a THEN v - elsewhere[c][a] ELSE 0)
            BY <1>2, <2>1, <2>3, <2>5, ElsewhereChange
        <3>4. CASE t = a
            <4>1. gateway.deposits[t] = p.deposits[t] - x
                BY <1>4, <1>5, <2>1, <3>4
            <4>2. ElsewhereIn(elsewhere', t) = ElsewhereIn(elsewhere, t) + (0 - x)
                BY <2>3, <3>3, <3>4
            <4> QED
                BY <2>3, <2>4, <3>1, <3>2, <4>1, <4>2
        <3>5. CASE t # a
            <4>1. ElsewhereIn(elsewhere', t) = ElsewhereIn(elsewhere, t)
                BY <3>1, <3>3, <3>5
            <4> QED
                BY <1>4, <1>5, <2>4, <3>1, <3>5, <4>1
        <3> QED
            BY <3>4, <3>5
    <2>8. Settled(gateway', l1', elsewhere')
        BY <1>1, <1>2, <1>5, <2>4, <2>7 DEF Settled
    <2>9. GatewayInv'
        BY <1>1, <1>2, <2>6, <2>8 DEF GatewayInv
    <2>10. [Next]_vars
        BY <2>4 DEF vars
    <2> QED
        BY <2>9, <2>10
<1> QED
    BY <1>7, <1>8

-----------------------------------------------------------------------------
(* The Fuel bridge *)

\* What is locked for the bridge fits a u64.
LEMMA LockedFits ==
    ASSUME GatewayInv, stack = <<>>, l1 \in Ledgers, NEW a \in Assets
    PROVE  l1.locked[a] \in 0 .. MaxUint64
<1>1. /\ gateway.deposits[a] = l1.locked[a] + ElsewhereIn(elsewhere, a)
      /\ ElsewhereIn(elsewhere, a) \in Nat
    BY ElsewhereNat DEF GatewayInv, Settled
<1>2. gateway.deposits[a] \in 0 .. MaxUint64 /\ MaxUint64 \in Nat
    BY BridgeAssumption DEF GatewayInv, Storage
<1>3. l1.locked[a] \in Nat
    BY BridgeAssumption DEF Ledgers
<1> QED
    BY <1>1, <1>2, <1>3

LEMMA PartFits ==
    ASSUME NEW max \in Nat, NEW whole \in 0 .. max, NEW x \in Nat, NEW r \in Nat,
           NEW y \in Nat, NEW z \in Nat, NEW u \in Nat, whole = (x + r) + y + z + u
    PROVE  y + x \in 0 .. max
OBVIOUS

\* The supply of the bridge has room for a deposit that was not spent: both are
\* part of what is locked.
LEMMA RoomForDeposit ==
    ASSUME FuelInv, GatewayInv, stack = <<>>, ~InCall, NEW i \in DOMAIN l1.messages \ spent
    PROVE  Mints(l1.messages[i])
<1> DEFINE m == l1.messages[i]
<1> DEFINE a == m.asset
<1> DEFINE U == Unspent(l1, spent, a) \ Running
<1>1. l1 \in Ledgers /\ bridge \in Bridges
    BY LedgersOf DEF FuelInv, BooksInv
<1>2. m \in Messages /\ m.amount \in Nat /\ a \in Assets
    BY <1>1, MessagesOf DEF Messages
<1>3. m.sender = Gateway /\ m.amount <= MaxUint64
    BY DEF FuelInv, FromGateway
<1>4. i \in U /\ U \in SUBSET DOMAIN l1.messages
    BY <1>3 DEF Unspent, Running
<1>5. /\ l1.locked[a] = InMessages(l1, U) + bridge.minted[a] + RefundsIn(bridge, a)
                            + ReturningIn(bridge, l1, a)
    BY <1>2, BooksNow DEF Booked, FuelInv
<1> HIDE DEF U
<1>6. InMessages(l1, U) = m.amount + InMessages(l1, U \ {i})
    BY <1>1, <1>4, InMessagesRest
<1>7. InMessages(l1, U \ {i}) \in Nat
    BY <1>1, <1>4, InMessagesNat
<1>8. /\ bridge.minted[a] \in 0 .. MaxUint64 /\ RefundsIn(bridge, a) \in Nat
      /\ ReturningIn(bridge, l1, a) \in Nat
    BY <1>1, <1>2, AccountsNat
<1>9. l1.locked[a] \in 0 .. MaxUint64 /\ MaxUint64 \in Nat
    BY <1>1, <1>2, LockedFits, BridgeAssumption
<1> HIDE DEF m, a
<1>10. bridge.minted[a] + m.amount \in 0 .. MaxUint64
    <2>1. bridge.minted[a] \in Nat /\ m.amount \in Nat
        BY <1>2, <1>8, <1>9
    <2>2. l1.locked[a] = (m.amount + InMessages(l1, U \ {i})) + bridge.minted[a]
                            + RefundsIn(bridge, a) + ReturningIn(bridge, l1, a)
        BY <1>5, <1>6
    <2> QED
        BY <1>7, <1>8, <1>9, <2>1, <2>2, PartFits
<1>11. (bridge.minted[a] + m.amount) % (MaxUint64 + 1) = bridge.minted[a] + m.amount
    BY <1>9, <1>10
<1>12. ~(new_total_supply(m) < bridge.minted[m.asset])
    BY <1>2, <1>8, <1>10, <1>11 DEF new_total_supply, a
<1> QED
    BY <1>3, <1>12 DEF Mints, SupplyOverflows, m

\* What reaches the Fuel bridge is a message of the gateway.
LEMMA EmittedIsOurs ==
    ASSUME l1 \in Ledgers, FromGateway(l1.messages), NEW e \in L1!Messages, Emitted(e)
    PROVE  FromGateway(l1'.messages)
<1>1. CASE e.issuer = FuelBridge
    <2>1. PICK d \in Depositors, h \in Receivers(e.kind) :
            l1' = [l1 EXCEPT !.messages = Append(l1.messages, MessageOf(e, d, h)),
                             !.locked[e.token] = l1.locked[e.token] + e.amount]
        BY <1>1 DEF Emitted
    <2> DEFINE m == MessageOf(e, d, h)
    <2>2. m.sender = Gateway /\ m.amount <= MaxUint64
        BY BridgeAssumption DEF MessageOf, L1!Messages
    <2> HIDE DEF m
    <2>3. l1'.messages = Append(l1.messages, m) /\ l1.messages \in Seq(Messages)
        BY <2>1 DEF Ledgers, m
    <2>4. ASSUME NEW i \in DOMAIN l1'.messages
          PROVE  l1'.messages[i] = m \/ (i \in DOMAIN l1.messages /\ l1'.messages[i] = l1.messages[i])
        BY <2>3
    <2> QED
        BY <2>2, <2>4 DEF FromGateway
<1>2. CASE e.issuer # FuelBridge
    BY <1>2 DEF Emitted
<1> QED
    BY <1>1, <1>2

LEMMA L1StepFuel ==
    ASSUME GatewayInv, FuelInv, L1Step, ~InCall, UNCHANGED <<bridge, call, spent>>
    PROVE  FromGateway(l1'.messages)
<1>1. l1 \in Ledgers
    BY LedgersOf DEF FuelInv, BooksInv
<1>2. CASE DepositEnds
    <2>1. stack[1].before.outbox \in Seq(L1!Messages)
        BY <1>2, DepositEndsParts DEF DepositEnds, Settled, Storage
    <2>2. PICK e \in L1!Messages : gateway.outbox = Append(stack[1].before.outbox, e)
        BY <1>2, DepositEndsParts DEF DepositEnds, Depositing
    <2>3. LastSent(gateway) = e
        BY <2>1, <2>2, LastOf
    <2> QED
        BY <1>1, <1>2, <2>3, EmittedIsOurs DEF DepositEnds, FuelInv
<1>3. CASE MetadataSent
    <2>1. PICK t \in Assets : L1!sendMetadata(t)
        BY <1>3 DEF MetadataSent
    <2> DEFINE e == [kind |-> "METADATA", token |-> t, amount |-> 0,
                     issuer |-> gateway.assetIssuerId]
    <2>2. /\ gateway.assetIssuerId # ZeroId
          /\ gateway' = [gateway EXCEPT !.outbox = Append(gateway.outbox, e)]
        BY <2>1 DEF L1!sendMetadata
    <2>3. Storage(gateway)
        BY DEF GatewayInv
    <2>4. e \in L1!Messages
        BY <2>2, <2>3, BridgeAssumption DEF L1!Messages, Storage, Issuers
    <2> HIDE DEF e
    <2>5. gateway'.outbox = Append(gateway.outbox, e) /\ gateway.outbox \in Seq(L1!Messages)
        BY <2>2, <2>3 DEF Storage, Fields, L1!InitialGateway
    <2>6. LastSent(gateway') = e
        BY <2>4, <2>5, LastOf
    <2> QED
        BY <1>1, <1>3, <2>4, <2>6, EmittedIsOurs DEF MetadataSent, FuelInv
<1>4. CASE RelayReturns
    <2>1. l1'.messages = l1.messages
        BY <1>1, <1>4 DEF RelayReturns, Ledgers
    <2> QED
        BY <2>1 DEF FuelInv
<1>5. CASE ~DepositEnds /\ ~MetadataSent /\ ~RelayReturns
    BY <1>5 DEF L1Step, FuelInv, DepositStarts, RelayWithdrawal, RelayForeign, L1Reverts,
                Administration
<1> QED
    BY <1>2, <1>3, <1>4, <1>5

\* The gateway and the portal keep what they promise, and do nothing else that
\* the Fuel bridge would notice.
LEMMA L1StepGateway ==
    ASSUME GatewayInv, FuelInv, L1Step, ~InCall, UNCHANGED <<bridge, call, spent>>
    PROVE  GatewayInv' /\ [Next]_vars
<1>1. BooksInv /\ l1 \in Ledgers /\ bridge \in Bridges
    BY LedgersOf DEF FuelInv, BooksInv
<1>2. CASE DepositStarts
    BY <1>2, DepositStartsInv DEF DepositStarts, vars
<1>3. CASE DepositEnds
    BY <1>1, <1>3, DepositEndsInv
<1>4. CASE MetadataSent
    BY <1>1, <1>4, MetadataSentInv
<1>5. CASE \E i \in DOMAIN bridge.outbox : RelayWithdrawal(i)
    BY <1>1, <1>5, RelayWithdrawalInv DEF RelayWithdrawal, vars
<1>6. CASE \E t \in Assets, amount \in 0 .. MaxUint64, sender \in OtherFuelContracts :
                RelayForeign(t, amount, sender)
    BY <1>6, RelayForeignInv DEF RelayForeign, vars
<1>7. CASE RelayReturns
    BY <1>1, <1>7, RelayReturnsInv
<1>8. CASE L1Reverts
    BY <1>8, L1RevertsInv DEF L1Reverts, vars
<1>9. CASE Administration
    BY <1>9, AdministrationInv DEF Administration, vars
<1> QED
    BY <1>2, <1>3, <1>4, <1>5, <1>6, <1>7, <1>8, <1>9 DEF L1Step

\* No step of Fuel refuses a deposit.
LEMMA L2StepRefused ==
    ASSUME GatewayInv, FuelInv, L2Step, stack = <<>>, UNCHANGED <<l1, l1Vars>>
    PROVE  NoneRefused(bridge') /\ (InCall' => NoneRefused(call'[1].before))
<1>1. bridge \in Bridges /\ NoneRefused(bridge)
    BY LedgersOf DEF FuelInv, BooksInv
<1>2. DOMAIN bridge = DOMAIN InitialBridge
    BY <1>1 DEF Bridges, InitialBridge
<1>3. CASE ProcessMessage
    <2>1. PICK i \in DOMAIN l1.messages : process_message(i)
        BY <1>3 DEF ProcessMessage
    <2> DEFINE m == l1.messages[i]
    <2>2. ~InCall /\ i \in DOMAIN l1.messages \ spent
        BY <2>1 DEF process_message, reentrancy_guard, Inputs
    <2>3. Mints(m)
        BY <2>2, RoomForDeposit
    <2>4. _process_metadata(m) \/ _process_deposit(m)
        BY <2>1 DEF process_message
    <2>5. ~(m.amount > MaxUint64) /\ ~SupplyOverflows(m)
        <3>1. m.amount \in Nat /\ MaxUint64 \in Nat
            BY LedgersOf, MessagesOf, BridgeAssumption DEF FuelInv, BooksInv
        <3> QED
            BY <2>3, <3>1 DEF Mints
    <2>6. _process_metadata(m) \/ mintTo(m)
        BY <2>4, <2>5 DEF _process_deposit, refundTooLarge, refundOverflow
    <2>7. bridge'.refused = bridge.refused
        BY <1>2, <2>6 DEF _process_metadata, mintTo, InitialBridge
    <2>8. InCall' => call'[1].before = bridge
        <3>1. CASE CallsReceiver(m)
            BY <2>1, <3>1 DEF process_message
        <3>2. CASE ~CallsReceiver(m)
            BY <2>1, <2>2, <3>2 DEF process_message, InCall
        <3> QED
            BY <3>1, <3>2
    <2> QED
        BY <1>1, <2>7, <2>8 DEF NoneRefused
<1>4. CASE callReturns
    BY <1>1, <1>4 DEF callReturns, InCall
<1>5. CASE callFails
    BY <1>5 DEF callFails, InCall, FuelInv
<1>6. CASE Claim \/ Withdraw \/ Transfers
    <2>1. bridge'.refused = bridge.refused /\ call' = call
        <3>1. CASE Claim
            BY <1>2, <3>1 DEF Claim, claim_refund, InitialBridge
        <3>2. CASE Withdraw
            BY <1>2, <3>2 DEF Withdraw, withdraw, InitialBridge
        <3>3. CASE Transfers
            BY <1>2, <3>3 DEF Transfers, Transfer, InitialBridge
        <3> QED
            BY <1>6, <3>1, <3>2, <3>3
    <2> QED
        BY <1>1, <2>1 DEF NoneRefused, InCall, FuelInv
<1> QED
    BY <1>3, <1>4, <1>5, <1>6 DEF L2Step

BothInv == GatewayInv /\ FuelInv

LEMMA InitBoth ==
    ASSUME BothInit
    PROVE  BothInv
<1>1. GatewayInv
    BY InitGatewayInv
<1>2. BooksInv /\ NoneRefused(bridge) /\ ~InCall /\ l1.messages = <<>>
    BY InitBooks DEF BothInit, Init, InitialBridge, NoneRefused, InCall
<1>3. FromGateway(l1.messages)
    BY <1>2 DEF FromGateway
<1> QED
    BY <1>1, <1>2, <1>3 DEF BothInv, FuelInv

LEMMA NextBoth ==
    ASSUME BothInv, [BothNext]_bothVars
    PROVE  BothInv' /\ [Next]_vars
<1>1. GatewayInv /\ FuelInv /\ BooksInv
    BY DEF BothInv, FuelInv
<1>2. CASE L1Step /\ ~InCall /\ UNCHANGED <<bridge, call, spent>>
    <2>1. GatewayInv' /\ [Next]_vars
        BY <1>1, <1>2, L1StepGateway
    <2>2. FromGateway(l1'.messages)
        BY <1>1, <1>2, L1StepFuel
    <2>3. BooksInv'
        BY <1>1, <2>1, NextBooks
    <2>4. FuelInv'
        BY <1>1, <1>2, <2>2, <2>3 DEF FuelInv, NoneRefused, InCall
    <2> QED
        BY <2>1, <2>4 DEF BothInv
<1>3. CASE L2Step /\ stack = <<>> /\ UNCHANGED <<l1, l1Vars>>
    <2>1. Next
        BY <1>3 DEF L2Step, Next
    <2>2. BooksInv'
        BY <1>1, <2>1, NextBooks
    <2>3. NoneRefused(bridge') /\ (InCall' => NoneRefused(call'[1].before))
        BY <1>1, <1>3, L2StepRefused
    <2>4. FuelInv'
        BY <1>1, <1>3, <2>2, <2>3 DEF FuelInv
    <2>5. GatewayInv'
        BY <1>1, <1>3 DEF GatewayInv, l1Vars
    <2> QED
        BY <2>1, <2>4, <2>5 DEF BothInv
<1>4. CASE UNCHANGED bothVars
    <2>1. UNCHANGED vars /\ UNCHANGED l1Vars
        BY <1>4 DEF bothVars
    <2>2. BooksInv'
        BY <1>1, <2>1, NextBooks
    <2>3. FuelInv'
        BY <1>1, <2>1, <2>2 DEF FuelInv, vars, InCall
    <2>4. GatewayInv'
        BY <1>1, <2>1 DEF GatewayInv, vars, l1Vars, InCall
    <2> QED
        BY <2>1, <2>3, <2>4 DEF BothInv
<1> QED
    BY <1>2, <1>3, <1>4 DEF BothNext

-----------------------------------------------------------------------------
(* The theorems about both ends *)

\* The gateway and the portal are the L1 side FungibleBridge assumes: whatever it
\* promises of the Fuel bridge holds with FuelERC20GatewayV4 at the other end,
\* also while its issuer is replaced and other contracts' messages fail or pass.
THEOREM GatewaySuitsBridge == BothSpec => FuelSideHolds
<1>1. BothInit => Init /\ BothInv
    BY InitBoth DEF BothInit
<1>2. BothInv /\ [BothNext]_bothVars => BothInv' /\ [Next]_vars
    BY NextBoth
<1> QED
    BY <1>1, <1>2, PTL DEF BothSpec, FuelSideHolds, Spec

LEMMA BothAlways == BothSpec => []BothInv
<1>1. BothInit => BothInv
    BY InitBoth
<1>2. BothInv /\ [BothNext]_bothVars => BothInv'
    BY NextBoth
<1> QED
    BY <1>1, <1>2, PTL DEF BothSpec

\* The cap of the gateway (FuelERC20GatewayV4.sol:424) is enough: no deposit finds
\* the supply on Fuel full, so that the refunds of main.sw are never needed.
THEOREM NothingRefused == BothSpec => []NoDepositRefused
<1>1. BothInv => NoDepositRefused
    BY DEF BothInv, FuelInv, NoneRefused, NoDepositRefused
<1> QED
    BY <1>1, BothAlways, PTL

\* The tokens the gateway holds are what is on Fuel and on its way, unit for unit.
THEOREM EndToEndBacked == BothSpec => []FullyBacked
<1>1. ASSUME BothInv, stack = <<>>, NEW t \in Assets
      PROVE  /\ gateway.deposits[t] =
                    InFlight(t) + bridge.minted[t] + Returning(t) + AllElsewhere(t)
             /\ gateway.held[t] = gateway.cachedFactor[t] * gateway.deposits[t]
             /\ \A c \in OtherFuelContracts : elsewhere[c][t] >= 0
    <2>1. /\ BooksInv /\ NoneRefused(bridge) /\ Settled(gateway, l1, elsewhere)
          /\ elsewhere \in [OtherFuelContracts -> [Assets -> Nat]]
        BY <1>1 DEF BothInv, FuelInv, GatewayInv
    <2>2. bridge \in Bridges
        BY <2>1, LedgersOf DEF BooksInv
    <2>3. /\ l1.locked[t] = InFlight(t) + bridge.minted[t] + Refundable(t) + Returning(t)
          /\ \A d \in Depositors :
                bridge.refunds[d][t] + ClaimedIn(bridge, d, t) = bridge.refused[d][t]
        BY <2>1, BooksNow, AccountsNow DEF Booked
    <2>4. \A d \in Depositors : bridge.refunds[d][t] = 0
        <3>1. \A d \in Depositors : ClaimedIn(bridge, d, t) \in Nat /\ bridge.refunds[d][t] \in Nat
            BY <2>2, AccountsNat, BridgeAssumption
        <3>2. \A d \in Depositors : bridge.refused[d][t] = 0
            BY <2>1 DEF NoneRefused
        <3> QED
            BY <2>3, <3>1, <3>2
    <2>5. Refundable(t) = 0
        BY <2>4, HoldersFinite, SumZero DEF Refundable, SumFunction
    <2>6. /\ gateway.deposits[t] = l1.locked[t] + AllElsewhere(t)
          /\ gateway.held[t] = gateway.cachedFactor[t] * gateway.deposits[t]
        BY <2>1 DEF Settled, Holds, AllElsewhere, ElsewhereIn
    <2>7. \A c \in OtherFuelContracts : elsewhere[c][t] >= 0
        BY <2>1
    <2>8. InFlight(t) \in Int /\ bridge.minted[t] \in Int /\ Returning(t) \in Int
        <3>1. /\ InFlight(t) = InMessages(l1, Unspent(l1, spent, t) \ Running)
              /\ Returning(t) = ReturningIn(bridge, l1, t)
            BY <2>1, AccountsNow
        <3>2. InMessages(l1, Unspent(l1, spent, t) \ Running) \in Nat
            BY <2>1, BooksNow
        <3>3. bridge.minted[t] \in Int /\ ReturningIn(bridge, l1, t) \in Int
            BY <2>2, AccountsInt
        <3> QED
            BY <3>1, <3>2, <3>3
    <2> QED
        BY <2>3, <2>5, <2>6, <2>7, <2>8
<1>2. BothInv => FullyBacked
    BY <1>1 DEF FullyBacked
<1> QED
    BY <1>2, BothAlways, PTL

=============================================================================
