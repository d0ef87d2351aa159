------------------------------ MODULE FuelHost ------------------------------
(***************************************************************************)
(* The bridge as it runs on Fuel: its storage lives in a proxy (proxy.sw),  *)
(* which executes whatever implementation its owner names; a message is     *)
(* spent by a transaction that satisfies the predicate of its recipient     *)
(* (predicate_asm.rs) and runs the script the predicate demands             *)
(* (script_asm.rs).                                                         *)
(*                                                                          *)
(* Beside the contracts run the processes of test-utils/src/scripts: the    *)
(* operators' deploy-bridge, upgrade-bridge, upgrade-bridge-kms and         *)
(* transfer-bridge-ownership, each a number of calls with other people's    *)
(* transactions in between and a crash after any of them, and the relayer's *)
(* relay-deposit and relay-metadata.                                        *)
(*                                                                          *)
(* An implementation is the pair of the gateway it was configured with and  *)
(* the salt of its deployment, from which its contract id follows.  The     *)
(* proxy is the one with the id the scripts are given; deploy-bridge with   *)
(* another gateway or wallet would make another one.                        *)
(***************************************************************************)
EXTENDS FungibleBridge

CONSTANTS
    Operators,      \* wallets that run the operators' scripts
    KmsOperators,   \* those of them who sign with a KMS
    Deployer,       \* the wallet that runs deploy-bridge
    Zero,           \* the address that is all zeros
    OtherGateways,  \* mistaken values of L1_TOKEN_GATEWAY
    Traffic,        \* messages L1 may send
    MaxScripts      \* bound: scripts started to upgrade or transfer the proxy

\* Addresses that stand for nobody sign nothing, and nobody sends messages from an
\* address that an operator takes for the gateway by mistake.
ASSUME HostAssumption ==
    /\ Deployer \in Operators /\ KmsOperators \subseteq Operators
    /\ {Zero, "unset", "revoked"} \intersect Operators = {}
    /\ OtherGateways \intersect ({Gateway} \union OtherSenders) = {}
    /\ Traffic \subseteq {m \in Messages : m.amount \in DepositAmounts}
    /\ MaxScripts \in Nat

VARIABLES
    proxy,      \* the proxy: its storage, and whether it is deployed
    deployed,   \* implementations that are deployed
    script,     \* what each operator's script is about to do
    scripts,    \* number of scripts started, from which a random salt is made
    relay,      \* the transaction the relayer has sent, if any
    consumed,   \* messages that Fuel's ledger took as spent
    underway,   \* messages in the inputs of the transaction that is under way
    astray      \* messages to L1 that another gateway than ours would get

hostVars == <<proxy, deployed, script, scripts, relay, consumed, underway, astray>>

allVars == <<vars, hostVars>>

Implementations == [gateway : {Gateway} \union OtherGateways, salt : 0 .. MaxScripts]

\* The implementation deploy-bridge makes for our gateway, INITIAL_TARGET.
InitialTarget == [gateway |-> Gateway, salt |-> 0]

Unset == "unset"            \* State::Uninitialized
Revoked == "revoked"        \* State::Revoked
Done == [step |-> "done"]

HostInit ==
    /\ Init
    /\ proxy = [exists |-> FALSE, target |-> <<>>, owner |-> Unset]
    /\ deployed = {}
    /\ script = [o \in Operators |-> Done]
    /\ scripts = 0
    /\ relay = <<>>
    /\ consumed = {}
    /\ underway = {}
    /\ astray = {}

-----------------------------------------------------------------------------
(* proxy.sw *)

proxy_target == IF proxy.target = <<>> THEN InitialTarget ELSE proxy.target[1]

\* The owner with a bug: INITIAL_OWNER also stands in for an owner that is gone.
OwnerOrInitial == IF proxy.owner \in Operators THEN proxy.owner ELSE Deployer

_proxy_owner == IF proxy.owner = Unset THEN Deployer ELSE proxy.owner

only_owner(sender) == proxy.exists /\ _proxy_owner = sender

\* The upgrade with a bug: the new implementation starts with storage of its own.
SetTargetAfresh(sender, id) ==
    /\ only_owner(sender)
    /\ proxy' = [proxy EXCEPT !.target = <<id>>]
    /\ bridge' = InitialBridge
    /\ UNCHANGED <<call, spent, l1>>

set_proxy_target(sender, id) ==
    /\ only_owner(sender)
    /\ proxy' = [proxy EXCEPT !.target = <<id>>]
    /\ UNCHANGED vars

_proxy_change_owner(sender, owner) ==
    /\ only_owner(sender)
    /\ owner # Zero
    /\ proxy' = [proxy EXCEPT !.owner = owner]

_proxy_revoke_ownership(sender) ==
    /\ only_owner(sender)
    /\ proxy' = [proxy EXCEPT !.owner = Revoked]

\* fallback() runs the code of the target in the proxy's storage: the bridge,
\* configured with the gateway of that implementation.
Via(g) == INSTANCE FungibleBridge WITH Gateway <- g

Serves(g) == proxy.exists /\ proxy_target \in deployed /\ proxy_target.gateway = g

-----------------------------------------------------------------------------
(* Transactions that spend messages *)

\* A transaction: whether it runs the script the predicate was made for, and
\* its inputs, of which messages with data and contracts count.
MessageInput(i) == [type |-> "message", of |-> i]
ContractInput(id) == [type |-> "contract", of |-> id]
Coin == [type |-> "coin"]

MessagesIn(tx) == {tx.inputs[n].of : n \in {k \in DOMAIN tx.inputs : tx.inputs[k].type = "message"}}

HasContract(tx, id) == ContractInput(id) \in {tx.inputs[n] : n \in DOMAIN tx.inputs}

\* The predicate with a bug: its loop ends before it looks at the second input.
PredicateStopsEarly(tx) ==
    /\ tx.ourScript
    /\ \A n \in 3 .. Len(tx.inputs) : tx.inputs[n].type # "message"

\* The loop goes from the last input down to the second, and looks at the first
\* only when there is no other.
predicate(tx) ==
    /\ tx.ourScript
    /\ \A n \in (IF Len(tx.inputs) = 1 THEN 1 ELSE 2) .. Len(tx.inputs) :
            tx.inputs[n].type # "message"

\* The script calls process_message(0) of the contract its first input names,
\* which is the proxy.
process_message_script(tx) ==
    /\ tx.inputs[1].type = "message"
    /\ HasContract(tx, proxy_target)
    /\ \E g \in {Gateway} \union OtherGateways :
            Serves(g) /\ Via(g)!process_message(tx.inputs[1].of)

\* A transaction in a block.  Its messages are used up with it, unless it fails.
Execute(tx) ==
    /\ ~InCall
    /\ MessagesIn(tx) \subseteq DOMAIN l1.messages \ consumed
    /\ predicate(tx)
    /\ process_message_script(tx)
    /\ underway' = IF InCall' THEN MessagesIn(tx) ELSE {}
    /\ consumed' = IF InCall' THEN consumed ELSE consumed \union MessagesIn(tx)
    /\ UNCHANGED l1

\* The receiver that a deposit with data calls returns, or fails.
ReceiverReturns ==
    /\ callReturns
    /\ consumed' = consumed \union underway
    /\ underway' = {}
    /\ UNCHANGED <<l1, proxy, deployed, script, scripts, relay, astray>>

ReceiverFails ==
    /\ callFails
    /\ underway' = {}
    /\ UNCHANGED <<l1, proxy, deployed, script, scripts, relay, consumed, astray>>

\* Transactions anyone may put together from messages, with their script, or
\* with one that does something else.
CraftedTransactions ==
    LET M == {MessageInput(i) : i \in DOMAIN l1.messages}
        C == ContractInput(proxy_target)
    IN  [ourScript : BOOLEAN,
         inputs : {<<m>> : m \in M} \union {<<m, C>> : m \in M} \union {<<Coin, m, C>> : m \in M}
                  \union {<<m, n, C>> : m, n \in M} \union {<<m, C, n>> : m, n \in M}]

\* The receiver of the tokens relays its deposit itself, or anyone does.
Crafted ==
    /\ \E tx \in CraftedTransactions : Execute(tx)
    /\ UNCHANGED <<proxy, deployed, script, scripts, relay, astray>>

-----------------------------------------------------------------------------
(* relay-deposit.ts, relay-metadata.ts *)

\* The message with this nonce has come from L1; without it the wait times out.
waitForMessage(i) == i \in DOMAIN l1.messages

\* What the bridge would do with the message now.
DryRunSucceeds(i) ==
    /\ i \notin consumed
    /\ Serves(l1.messages[i].sender)
    /\ l1.messages[i].kind = "METADATA" => l1.messages[i].asset \in bridge.registered

\* main() of either script for the message with nonce i, which relay-deposit can
\* also look up by its recipient, up to sending the transaction: it reads the
\* implementation and waits for the message, and relayCommonMessage() simulates
\* the transaction, where the SDK adds the contracts that are missing.  Without
\* the message, or when the simulation fails, main() ends and nothing has
\* happened.
RelaySends(i) ==
    /\ relay = <<>>
    /\ ~InCall
    /\ waitForMessage(i)
    /\ DryRunSucceeds(i)
    /\ relay' = <<[index |-> i, implementation |-> proxy_target]>>
    /\ UNCHANGED <<vars, proxy, deployed, script, scripts, consumed, underway, astray>>

\* The transaction: the message, the contracts, the coin that pays the fee.
RelayTransaction ==
    [ourScript |-> TRUE,
     inputs |-> <<MessageInput(relay[1].index), ContractInput(relay[1].implementation), Coin>>]

\* A block takes the transaction, which fails when the message was spent or the
\* target replaced since the simulation.
RelayIncluded ==
    /\ relay # <<>>
    /\ ~InCall
    /\ relay' = <<>>
    /\ \/ Execute(RelayTransaction)
       \/ /\ ~(DryRunSucceeds(relay[1].index) /\ HasContract(RelayTransaction, proxy_target))
          /\ UNCHANGED <<vars, consumed, underway>>
    /\ UNCHANGED <<proxy, deployed, script, scripts, astray>>

-----------------------------------------------------------------------------
(* The operators' scripts *)

Goes(o, next) == script' = [script EXCEPT ![o] = next]

AtStep(o, step) == script[o].step = step /\ ~InCall

\* deploy-bridge, started over until it is done.
deploy_bridge ==
    /\ script[Deployer] = Done
    /\ ~proxy.exists
    /\ Goes(Deployer, [step |-> "deploy implementation"])
    /\ UNCHANGED <<vars, proxy, deployed, scripts, relay, consumed, underway, astray>>

Start(o, first) ==
    /\ script[o] = Done
    /\ scripts < MaxScripts
    /\ scripts' = scripts + 1
    /\ Goes(o, first)
    /\ UNCHANGED <<vars, proxy, deployed, relay, consumed, underway, astray>>

\* upgrade-bridge deploys with the salt zero, upgrade-bridge-kms, for those whose
\* key is in a KMS, with a random one.
upgrade_bridge(o, gateway) ==
    LET salt == IF o \in KmsOperators THEN scripts + 1 ELSE 0
    IN  Start(o, [step |-> "read", id |-> [gateway |-> gateway, salt |-> salt]])

transfer_bridge_ownership(o, owner) == Start(o, [step |-> "check owner", newOwner |-> owner])

\* A script ends before its time: a crash, or a call that fails and throws.
ScriptEnds(o) ==
    /\ script[o] # Done
    /\ Goes(o, Done)
    /\ UNCHANGED <<vars, proxy, deployed, scripts, relay, consumed, underway, astray>>

Unaffected == UNCHANGED <<scripts, relay, consumed, underway, astray>>

\* fetchIfDeployed() takes a contract that is there for the one just deployed.
deployImplementation(o) ==
    /\ AtStep(o, "deploy implementation")
    /\ deployed' = deployed \union {InitialTarget}
    /\ Goes(o, [step |-> "deploy proxy"])
    /\ UNCHANGED <<vars, proxy>> /\ Unaffected

deployProxy(o) ==
    /\ AtStep(o, "deploy proxy")
    /\ proxy' = [proxy EXCEPT !.exists = TRUE]
    /\ Goes(o, Done)
    /\ UNCHANGED <<vars, deployed>> /\ Unaffected

\* Target and owner of the proxy, read in two dry runs that change nothing.
readProxy(o) ==
    /\ AtStep(o, "read")
    /\ Goes(o, IF only_owner(o) /\ script[o].id # proxy_target
               THEN [script[o] EXCEPT !.step = "look up"] ELSE Done)
    /\ UNCHANGED <<vars, proxy, deployed>> /\ Unaffected

contractExists(o) ==
    /\ AtStep(o, "look up")
    /\ Goes(o, [script[o] EXCEPT !.step =
               IF script[o].id \in deployed THEN "set target" ELSE "deploy"])
    /\ UNCHANGED <<vars, proxy, deployed>> /\ Unaffected

\* The script with a bug: it does not look at the result of the deployment.
DeployUnchecked(o) ==
    /\ AtStep(o, "deploy")
    /\ deployed' \in {deployed, deployed \union {script[o].id}}
    /\ Goes(o, [script[o] EXCEPT !.step = "set target"])
    /\ UNCHANGED <<vars, proxy>> /\ Unaffected

\* The deployment fails when another script was faster, or for want of funds:
\* that is ScriptEnds.
deployUpgrade(o) ==
    /\ AtStep(o, "deploy")
    /\ script[o].id \notin deployed
    /\ deployed' = deployed \union {script[o].id}
    /\ Goes(o, [script[o] EXCEPT !.step = "set target"])
    /\ UNCHANGED <<vars, proxy>> /\ Unaffected

setTarget(o) ==
    /\ AtStep(o, "set target")
    /\ set_proxy_target(o, script[o].id)
    /\ Goes(o, Done)
    /\ UNCHANGED deployed /\ Unaffected

checkOwner(o) ==
    /\ AtStep(o, "check owner")
    /\ Goes(o, IF only_owner(o) THEN [script[o] EXCEPT !.step = "change owner"] ELSE Done)
    /\ UNCHANGED <<vars, proxy, deployed>> /\ Unaffected

changeOwner(o) ==
    /\ AtStep(o, "change owner")
    /\ _proxy_change_owner(o, script[o].newOwner)
    /\ Goes(o, Done)
    /\ UNCHANGED <<vars, deployed>> /\ Unaffected

\* No script revokes the ownership; its owner can.
Revoke(o) ==
    /\ ~InCall
    /\ _proxy_revoke_ownership(o)
    /\ UNCHANGED <<vars, deployed, script>> /\ Unaffected

ScriptStep(o) ==
    \/ deployImplementation(o) \/ deployProxy(o)
    \/ readProxy(o) \/ contractExists(o) \/ deployUpgrade(o) \/ setTarget(o)
    \/ checkOwner(o) \/ changeOwner(o)

Upgrades ==
    \E o \in Operators, g \in {Gateway} \union OtherGateways : upgrade_bridge(o, g)

Transfers_of_ownership ==
    \E o \in Operators : \E x \in (Operators \ {o}) \union {Zero} : transfer_bridge_ownership(o, x)

-----------------------------------------------------------------------------
(* Everything together *)

\* A message of the bridge goes to the gateway of the implementation that sent it.
SendsToL1 ==
    /\ Serves(proxy_target.gateway)
    /\ Withdraw \/ Claim
    /\ astray' = IF proxy_target.gateway = Gateway THEN astray
                 ELSE astray \union {Len(bridge.outbox) + 1}
    /\ UNCHANGED <<l1, proxy, deployed, script, scripts, relay, consumed, underway>>

L1Steps ==
    /\ (\E m \in Traffic : Arrives(m)) \/ (\E i \in DOMAIN bridge.outbox \ astray : Releases(i))
    /\ UNCHANGED hostVars

HostNext ==
    \/ \E i \in 1 .. MaxMessages : RelaySends(i)
    \/ RelayIncluded
    \/ Crafted
    \/ ReceiverReturns \/ ReceiverFails
    \/ SendsToL1
    \/ L1Steps
    \/ deploy_bridge \/ Upgrades \/ Transfers_of_ownership
    \/ \E o \in Operators : ScriptStep(o) \/ ScriptEnds(o) \/ Revoke(o)

\* A relayer who starts over with every message again and again, blocks that
\* take what is sent to them, and calls that end.
HostFairness ==
    /\ \A i \in 1 .. MaxMessages : SF_allVars(RelaySends(i))
    /\ SF_allVars(RelayIncluded)
    /\ WF_allVars(ReceiverReturns \/ ReceiverFails)

HostSpec == HostInit /\ [][HostNext]_allVars /\ HostFairness

-----------------------------------------------------------------------------
(* Properties *)

\* The proxy never points at an implementation that is not there, whatever
\* scripts crash, fail or run into each other: the bridge would be dead and its
\* messages stuck until the next upgrade (upgrade-bridge.ts:103-126).
TargetDeployed == proxy.exists => proxy_target \in deployed

\* Fuel's ledger uses up exactly the messages the bridge has processed, however
\* transactions are put together and whichever of several relayers comes first:
\* a message spent as a second input would be lost with its deposit
\* (predicate_asm.rs:38-43).
ConsumedAsProcessed == consumed = spent

\* Once the ownership is revoked nobody changes the proxy, in particular not its
\* initial owner, and no script that was under way.
RevokedForGood == [][proxy.owner = Revoked => proxy' = proxy]_allVars

\* Through proxy, predicate, scripts and upgrades the bridge is still the bridge
\* of FungibleBridge, so what holds of that one holds of this one.
ImplementsBridge == Spec

\* From some time on the proxy has a proper implementation.
ServedInTheEnd == <>[]Serves(Gateway)

\* Once upgrades leave the bridge with a proper implementation every deposit is
\* settled, minted or refunded, those included that were relayed while it changed
\* or was wrong; and so is metadata of registered assets, which may come first.
MessagesSettleOnceServed == ServedInTheEnd => DepositsSettle /\ MetadataSettles

=============================================================================
