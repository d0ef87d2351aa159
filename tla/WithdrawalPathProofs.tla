------------------------ MODULE WithdrawalPathProofs ------------------------
(***************************************************************************)
(* Proofs about the way of a message from Fuel to L1, for every number of  *)
(* messages, slots and commits, every length of an epoch, and however the  *)
(* committer repeats commits and clients fail, hang and start again.  What *)
(* speaks of finality holds as long as the clock stays within the uint32   *)
(* range (ClockFits); that the portal can pay what is on its way (LedgerInv)*)
(* holds at any time.                                                      *)
(***************************************************************************)
EXTENDS WithdrawalPath, SumTheorems, TLAPS

\* No stored time wraps around.
ClockFits == MaxTime < TimeModulus

Hashes == Heights \union {NoBlock}

Steps == {"waitForBlockCommit", "waitForCommitEvent", "waitForBlockFinalization",
          "relayMessage", "failed", "done"}

\* The contract keeps what the committer sent, and at the time it sent it, and
\* the committer sends what Fuel has produced.
SlotsInv ==
    /\ now \in 1 .. MaxTime
    /\ fuelHeight \in Nat
    /\ commitSlots \in [Chain!Slots -> [blockHash : Hashes, timestamp : Nat]]
    /\ lastCommit \in [Chain!Slots -> [blockHash : Hashes, commitHeight : Nat, at : Nat]]
    /\ \A s \in Chain!Slots :
        /\ commitSlots[s].blockHash = lastCommit[s].blockHash
        /\ commitSlots[s].timestamp = lastCommit[s].at
        /\ commitSlots[s].blockHash <= fuelHeight

\* The storage of the portal as far as it matters here.
Stored(p) ==
    /\ DOMAIN p = DOMAIN Portal!InitialPortal
    /\ p.fuelChainState = 0
    /\ p.executions \in [Messages -> Nat]

\* A failing relay takes executions back, and never adds one.
PortalInv ==
    /\ Stored(portal)
    /\ Portal!InCall => /\ Stored(call.before)
                        /\ \A m \in Messages :
                                call.before.executions[m] <= portal.executions[m]

\* What a client keeps while it waits proves its message.
ClientInv ==
    /\ client \in [Messages -> [pc : Steps, root : Hashes]]
    /\ \A m \in Messages : client[m].root # NoBlock => BlockOf[m] < client[m].root

-----------------------------------------------------------------------------
(* The chain state *)

LEMMA Parameters ==
    /\ NumSlots \in Nat /\ NumSlots # 0 /\ BlocksPerInterval \in Nat /\ BlocksPerInterval # 0
    /\ TimeToFinalize \in Nat /\ TimeModulus \in Nat /\ MaxCommitHeight \in Nat
    /\ MaxTime \in Nat /\ MaxTime >= 1
BY PathAssumption

LEMMA SlotInRange ==
    ASSUME NEW h \in Nat
    PROVE  Chain!SlotOf(h) \in Chain!Slots
BY Parameters DEF Chain!SlotOf, Chain!Slots

LEMMA EpochNat ==
    ASSUME NEW h \in Nat
    PROVE  h \div BlocksPerInterval \in Nat
BY Parameters

LEMMA HeightOf ==
    ASSUME NEW h \in 1 .. MaxCommitHeight
    PROVE  h * BlocksPerInterval \in Heights
<1>1. /\ h \in Nat /\ MaxCommitHeight - h \in Nat
      /\ BlocksPerInterval \in Nat
    BY Parameters
<1>2. \A x, y \in Nat : x * y \in Nat
    OBVIOUS
<1>3. MaxCommitHeight * BlocksPerInterval
        = h * BlocksPerInterval + (MaxCommitHeight - h) * BlocksPerInterval
    BY <1>1, Parameters
<1>4. h * BlocksPerInterval \in Nat /\ (MaxCommitHeight - h) * BlocksPerInterval \in Nat
    BY <1>1, <1>2
<1> QED
    BY <1>3, <1>4 DEF Heights, MaxHeight

LEMMA SubmitStep ==
    ASSUME ClockFits, SlotsInv, NEW h \in 1 .. MaxCommitHeight, Submit(h), UNCHANGED now
    PROVE  SlotsInv'
<1> DEFINE slot == Chain!SlotOf(h)
<1> DEFINE hash == h * BlocksPerInterval
<1>1. slot \in Chain!Slots /\ h \in Nat
    BY SlotInRange, Parameters
<1>2. hash \in Heights /\ hash <= fuelHeight /\ fuelHeight' = fuelHeight
    BY HeightOf DEF Submit
<1>3. Chain!Uint32(now) = now /\ now \in Nat
    BY Parameters DEF ClockFits, SlotsInv, Chain!Uint32
<1>4. /\ commitSlots' = [commitSlots EXCEPT ![slot] = [blockHash |-> hash, timestamp |-> now]]
      /\ lastCommit' = [lastCommit EXCEPT ![slot] =
                            [blockHash |-> hash, commitHeight |-> h, at |-> now]]
    BY <1>3 DEF Submit, Chain!commit
<1> HIDE DEF slot, hash
<1>5. commitSlots' \in [Chain!Slots -> [blockHash : Hashes, timestamp : Nat]]
    BY <1>1, <1>2, <1>3, <1>4 DEF SlotsInv, Hashes
<1>6. lastCommit' \in [Chain!Slots -> [blockHash : Hashes, commitHeight : Nat, at : Nat]]
    BY <1>1, <1>2, <1>3, <1>4 DEF SlotsInv, Hashes
<1>7. ASSUME NEW s \in Chain!Slots
      PROVE  /\ commitSlots'[s].blockHash = lastCommit'[s].blockHash
             /\ commitSlots'[s].timestamp = lastCommit'[s].at
             /\ commitSlots'[s].blockHash <= fuelHeight
    BY <1>1, <1>2, <1>4 DEF SlotsInv
<1> QED
    BY <1>2, <1>5, <1>6, <1>7 DEF SlotsInv

\* A root that is final stands in its slot, and has for the time to finalize.
LEMMA FinalRoot ==
    ASSUME SlotsInv, NEW root \in Heights, Chain!Finalized(root, root)
    PROVE  /\ root <= fuelHeight
           /\ \E s \in Chain!Slots : lastCommit[s].blockHash = root /\ Chain!MatureSlot(s)
<1> DEFINE slot == Chain!SlotOf(root \div BlocksPerInterval)
<1>1. slot \in Chain!Slots
    BY EpochNat, SlotInRange DEF Heights
<1>2. commitSlots[slot].blockHash = root /\ now >= commitSlots[slot].timestamp + TimeToFinalize
    BY DEF Chain!Finalized
<1> HIDE DEF slot
<1>3. lastCommit[slot].blockHash = root /\ root <= fuelHeight /\ Chain!MatureSlot(slot)
    BY <1>1, <1>2 DEF SlotsInv, Chain!MatureSlot
<1> QED
    BY <1>1, <1>3

-----------------------------------------------------------------------------
(* The portal *)

Fields == DOMAIN Portal!InitialPortal

LEMMA FieldsOf ==
    /\ "fuelChainState" \in Fields /\ "executions" \in Fields
BY DEF Fields, Portal!InitialPortal

\* A step that leaves executions and the chain state alone.
LEMMA QuietStep ==
    ASSUME PortalInv, ~Portal!InCall,
           (\E value \in DepositValues : depositETH(value)) \/ PauseWithdrawals \/ UnpauseWithdrawals
    PROVE  PortalInv' /\ portal'.executions = portal.executions
<1>1. UNCHANGED call
    BY DEF depositETH, PauseWithdrawals, UnpauseWithdrawals, Portal!depositETH,
       Portal!_sendOutgoingMessage, Portal!pauseWithdrawals, Portal!unpauseWithdrawals
<1>2. /\ DOMAIN portal' = DOMAIN portal
      /\ portal'.fuelChainState = portal.fuelChainState
      /\ portal'.executions = portal.executions
    BY FieldsOf DEF PortalInv, Stored, Fields, depositETH, PauseWithdrawals, UnpauseWithdrawals,
       Portal!depositETH, Portal!_sendOutgoingMessage, Portal!pauseWithdrawals,
       Portal!unpauseWithdrawals
<1> QED
    BY <1>1, <1>2 DEF PortalInv, Stored, Portal!InCall

LEMMA RelayStep ==
    ASSUME SlotsInv, PortalInv, ClientInv, NEW m \in Messages, relayMessage(m)
    PROVE  /\ PortalInv'
           /\ \A n \in Messages : n # m => portal'.executions[n] = portal.executions[n]
           /\ BlockOf[m] < client[m].root
           /\ client[m].root \in Heights
           /\ Chain!Finalized(client[m].root, client[m].root)
<1> DEFINE root == client[m].root
<1>1. Portal!relayMessage(m, root, BlockOf[m], 0)
    BY DEF relayMessage
<1>2. /\ root \in {r \in Heights : Chain!Finalized(r, r)}
      /\ <<root, BlockOf[m]>> \in {p \in Heights \X Heights : p[2] < p[1]}
    BY <1>1 DEF Portal!relayMessage, PortalInv, Stored
<1>3. BlockOf[m] < root
    BY <1>2
<1>4. /\ DOMAIN portal' = DOMAIN portal
      /\ portal'.fuelChainState = portal.fuelChainState
      /\ portal'.executions = [portal.executions EXCEPT ![m] = @ + 1]
    BY <1>1, FieldsOf DEF PortalInv, Stored, Fields, Portal!relayMessage, Portal!_executeMessage
<1>5. call'.before = portal
    BY <1>1 DEF Portal!relayMessage, Portal!_executeMessage, Portal!CallTo
<1>6. Stored(portal) /\ portal.executions \in [Messages -> Nat]
    BY DEF PortalInv, Stored
<1>7. /\ portal'.executions \in [Messages -> Nat]
      /\ \A n \in Messages : portal.executions[n] <= portal'.executions[n]
      /\ \A n \in Messages : n # m => portal'.executions[n] = portal.executions[n]
    BY <1>4, <1>6
<1>8. Stored(portal)'
    BY <1>4, <1>6, <1>7 DEF Stored
<1>9. PortalInv'
    BY <1>5, <1>6, <1>7, <1>8 DEF PortalInv, Stored
<1> QED
    BY <1>2, <1>3, <1>7, <1>9

LEMMA ReturnStep ==
    ASSUME PortalInv, callSucceeds \/ callFails
    PROVE  /\ PortalInv'
           /\ \A m \in Messages : portal'.executions[m] <= portal.executions[m]
<1>1. Portal!InCall /\ ~Portal!InCall'
    BY DEF callSucceeds, callFails, Portal!callSucceeds, Portal!callFails, Portal!InCall,
       Portal!NoCall
<1>2. CASE callFails
    BY <1>1, <1>2 DEF callFails, Portal!callFails, PortalInv, Stored
<1>3. CASE callSucceeds
  <2>1. /\ DOMAIN portal' = DOMAIN portal
        /\ portal'.fuelChainState = portal.fuelChainState
        /\ portal'.executions = portal.executions
    BY <1>3, FieldsOf DEF PortalInv, Stored, Fields, callSucceeds, Portal!callSucceeds
  <2> QED
    BY <1>1, <2>1 DEF PortalInv, Stored
<1> QED
    BY <1>2, <1>3

-----------------------------------------------------------------------------
(* The clients *)

LEMMA HeightsOf ==
    ASSUME NEW m \in Messages
    PROVE  /\ BlockOf[m] \in Nat /\ nextBlockHeight(m) = BlockOf[m] + 1
           /\ commitHeightFor(m) \in Nat
<1>1. BlockOf[m] \in Nat
  <2>1. BlockOf[m] \in 1 .. MaxHeight - 1
    BY PathAssumption
  <2>2. \A k, n : n \in 1 .. k => n \in Nat
    OBVIOUS
  <2> QED
    BY Zenon, <2>1, <2>2
<1>2. nextBlockHeight(m) = BlockOf[m] + 1 /\ nextBlockHeight(m) \in Nat
    BY <1>1 DEF nextBlockHeight
<1>3. nextBlockHeight(m) \div BlocksPerInterval \in Nat
    BY <1>2, EpochNat
<1> QED
    BY <1>1, <1>2, <1>3 DEF commitHeightFor

LEMMA GoesTo ==
    ASSUME ClientInv, NEW m, NEW pc \in Steps, NEW root \in Hashes,
           m \in Messages /\ root # NoBlock => BlockOf[m] < root,
           GoTo(m, pc, root)
    PROVE  ClientInv'
<1>1. client' \in [Messages -> [pc : Steps, root : Hashes]]
    BY DEF ClientInv, GoTo
<1>2. \A n \in Messages : client'[n].root = IF n = m THEN root ELSE client[n].root
    BY DEF ClientInv, GoTo
<1> QED
    BY <1>1, <1>2 DEF ClientInv

LEMMA ClientStep ==
    ASSUME SlotsInv, ClientInv, NEW m \in Messages, Client(m)
    PROVE  ClientInv'
<1>1. NoBlock \in Hashes
    BY DEF Hashes
<1>2. CASE waitForBlockCommit(m)
  <2> DEFINE hash == Chain!blockHashAtCommit(commitHeightFor(m))
  <2>1. hash \in Hashes
    BY HeightsOf, SlotInRange DEF SlotsInv, Chain!blockHashAtCommit
  <2>2. \/ GoTo(m, "waitForCommitEvent", NoBlock)
        \/ ~CommitMissing(m, hash) /\ GoTo(m, "waitForBlockFinalization", hash)
    BY <1>2 DEF waitForBlockCommit
  <2>3. ~CommitMissing(m, hash) => BlockOf[m] < hash
    BY <2>1, HeightsOf DEF CommitMissing, Hashes, Heights, NoBlock
  <2> HIDE DEF hash
  <2>4. "waitForCommitEvent" \in Steps /\ "waitForBlockFinalization" \in Steps
    BY DEF Steps
  <2> QED
    BY Zenon, <1>1, <2>1, <2>2, <2>3, <2>4, GoesTo
<1>3. CASE waitForCommitEvent(m) \/ relayFails(m) \/ restart(m)
  <2>1. GoTo(m, "waitForBlockCommit", NoBlock) \/ GoTo(m, "failed", NoBlock)
    BY <1>3 DEF waitForCommitEvent, relayFails, restart
  <2>2. "waitForBlockCommit" \in Steps /\ "failed" \in Steps
    BY DEF Steps
  <2> QED
    BY Zenon, <1>1, <2>1, <2>2, GoesTo
<1>4. CASE waitForBlockFinalization(m)
  <2>1. GoTo(m, "relayMessage", client[m].root)
    BY <1>4 DEF waitForBlockFinalization
  <2>2. client[m].root \in Hashes /\ (client[m].root # NoBlock => BlockOf[m] < client[m].root)
    BY DEF ClientInv
  <2>3. "relayMessage" \in Steps
    BY DEF Steps
  <2> QED
    BY Zenon, <2>1, <2>2, <2>3, GoesTo
<1>5. CASE relayMessage(m)
    BY <1>5 DEF relayMessage, ClientInv
<1> QED
    BY <1>2, <1>3, <1>4, <1>5 DEF Client

-----------------------------------------------------------------------------
(* Every step *)

PathInv == SlotsInv /\ PortalInv /\ ClientInv

\* The step pays a message only as PaidAfterFinality has it.
Paid ==
    \A m \in Messages :
        portal'.executions[m] > portal.executions[m] =>
            /\ BlockOf[m] <= fuelHeight
            /\ \E s \in Chain!Slots :
                /\ lastCommit[s].blockHash > BlockOf[m]
                /\ Chain!MatureSlot(s)

LEMMA InitPath ==
    ASSUME Init
    PROVE  PathInv
<1>1. SlotsInv
  <2>1. NoBlock \in Hashes /\ NoBlock <= 0
    BY DEF Hashes, NoBlock
  <2> QED
    BY <2>1, Parameters DEF Init, SlotsInv, Chain!Init, Chain!EmptySlot, Chain!NoCommit, GenesisTime
<1>2. PortalInv
    BY DEF Init, PortalInv, Stored, Portal!InitialPortal, Portal!NoCall, Portal!InCall
<1>3. ClientInv
  <2>1. [pc |-> "waitForBlockCommit", root |-> NoBlock] \in [pc : Steps, root : Hashes]
    BY DEF Steps, Hashes
  <2>2. client = [m \in Messages |-> [pc |-> "waitForBlockCommit", root |-> NoBlock]]
    BY DEF Init
  <2> QED
    BY <2>1, <2>2 DEF ClientInv
<1> QED
    BY <1>1, <1>2, <1>3 DEF PathInv

\* Executions that do not grow are nothing to be paid.
LEMMA NothingPaid ==
    ASSUME PortalInv, \A m \in Messages : portal'.executions[m] <= portal.executions[m],
           PortalInv'
    PROVE  Paid
BY DEF PortalInv, Stored, Paid

LEMMA SamePortal ==
    ASSUME PortalInv, UNCHANGED <<portal, call>>
    PROVE  PortalInv' /\ Paid
<1>1. PortalInv'
    BY DEF PortalInv, Stored, Portal!InCall
<1> QED
    BY <1>1, NothingPaid DEF PortalInv, Stored

LEMMA SameChain ==
    ASSUME SlotsInv, UNCHANGED <<commitSlots, lastCommit, now, fuelHeight>>
    PROVE  SlotsInv'
BY DEF SlotsInv

LEMMA SameClients ==
    ASSUME ClientInv, UNCHANGED client
    PROVE  ClientInv'
BY DEF ClientInv

LEMMA NextPath ==
    ASSUME ClockFits, PathInv, [Next]_vars
    PROVE  PathInv' /\ Paid
<1> USE DEF PathInv
<1>1. CASE ~Portal!InCall /\ \E value \in DepositValues : depositETH(value)
  <2>1. PortalInv' /\ portal'.executions = portal.executions
    BY <1>1, QuietStep
  <2>2. Paid
    BY <2>1, NothingPaid DEF PortalInv, Stored
  <2> QED
    BY <1>1, <2>1, <2>2, SameChain, SameClients DEF depositETH, chainVars
<1>2. CASE ProduceBlock
  <2>1. fuelHeight' = fuelHeight + 1 /\ UNCHANGED <<commitSlots, lastCommit, now, client, portal, call>>
    BY <1>2 DEF ProduceBlock, chainVars, portalVars
  <2>2. SlotsInv'
    BY <2>1 DEF SlotsInv, Hashes, Heights, NoBlock
  <2> QED
    BY <2>1, <2>2, SamePortal, SameClients
<1>3. CASE Committer
  <2>1. PICK h \in 1 .. MaxCommitHeight : Submit(h)
    BY <1>3 DEF Committer, Commit, CommitAgain
  <2>2. UNCHANGED <<now, client, portal, call>>
    BY <2>1 DEF Submit, portalVars
  <2> QED
    BY <2>1, <2>2, SubmitStep, SamePortal, SameClients
<1>4. CASE Tick
  <2>1. now < MaxTime /\ now' = now + 1
        /\ UNCHANGED <<commitSlots, lastCommit, fuelHeight, client, portal, call>>
    BY <1>4 DEF Tick, Chain!Tick, chainVars, portalVars
  <2>2. SlotsInv'
    BY <2>1, Parameters DEF SlotsInv
  <2> QED
    BY <2>1, <2>2, SamePortal, SameClients
<1>5. CASE PauseChain \/ UnpauseChain
  <2>1. UNCHANGED <<commitSlots, lastCommit, now, fuelHeight, client, portal, call>>
    BY <1>5 DEF PauseChain, UnpauseChain, Chain!pause, Chain!unpause, portalVars
  <2> QED
    BY <2>1, SameChain, SamePortal, SameClients
<1>6. CASE ~Portal!InCall /\ (PauseWithdrawals \/ UnpauseWithdrawals)
  <2>1. PortalInv' /\ portal'.executions = portal.executions
    BY <1>6, QuietStep
  <2>2. Paid
    BY <2>1, NothingPaid DEF PortalInv, Stored
  <2> QED
    BY <1>6, <2>1, <2>2, SameChain, SameClients DEF PauseWithdrawals, UnpauseWithdrawals, chainVars
<1>7. ASSUME NEW m \in Messages, Client(m)
      PROVE  PathInv' /\ Paid
  <2>1. ClientInv'
    BY <1>7, ClientStep
  <2>2. SlotsInv'
    BY <1>7, SameChain DEF Client, waitForBlockCommit, waitForCommitEvent, waitForBlockFinalization,
       relayMessage, relayFails, restart, chainVars
  <2>3. CASE relayMessage(m)
    <3>1. /\ PortalInv'
          /\ \A n \in Messages : n # m => portal'.executions[n] = portal.executions[n]
      BY <2>3, RelayStep
    <3>2. PICK s \in Chain!Slots :
            lastCommit[s].blockHash = client[m].root /\ Chain!MatureSlot(s)
      BY <2>3, RelayStep, FinalRoot
    <3>3. BlockOf[m] < client[m].root /\ client[m].root <= fuelHeight /\ client[m].root \in Nat
      BY <2>3, RelayStep, FinalRoot DEF Heights
    <3>4. BlockOf[m] <= fuelHeight /\ lastCommit[s].blockHash > BlockOf[m]
      BY <3>2, <3>3, HeightsOf DEF SlotsInv
    <3>5. ASSUME NEW n \in Messages, n # m
          PROVE  ~(portal'.executions[n] > portal.executions[n])
      BY <3>1, <3>5 DEF PortalInv, Stored
    <3>6. Paid
      BY <3>2, <3>4, <3>5 DEF Paid
    <3> QED
      BY <2>1, <2>2, <3>1, <3>6
  <2>4. CASE ~relayMessage(m)
    <3>1. UNCHANGED <<portal, call>>
      BY <1>7, <2>4 DEF Client, waitForBlockCommit, waitForCommitEvent, waitForBlockFinalization,
         relayFails, restart, portalVars
    <3> QED
      BY <2>1, <2>2, <3>1, SamePortal
  <2> QED
    BY <2>3, <2>4
<1>8. CASE callSucceeds \/ callFails
  <2>1. PortalInv' /\ Paid
    BY <1>8, ReturnStep, NothingPaid
  <2>2. GoTo(call.message, "done", NoBlock) \/ GoTo(call.message, "failed", NoBlock)
    BY <1>8 DEF callSucceeds, callFails
  <2>3. "done" \in Steps /\ "failed" \in Steps /\ NoBlock \in Hashes
    BY DEF Steps, Hashes
  <2>4. ClientInv'
    BY Zenon, <2>2, <2>3, GoesTo
  <2>5. SlotsInv'
    BY <1>8, SameChain DEF callSucceeds, callFails, chainVars
  <2> QED
    BY <2>1, <2>4, <2>5
<1>9. CASE UNCHANGED vars
    BY <1>9, SameChain, SamePortal, SameClients DEF vars
<1> QED
    BY <1>1, <1>2, <1>3, <1>4, <1>5, <1>6, <1>7, <1>8, <1>9 DEF Next, Administration

-----------------------------------------------------------------------------
(* The theorems *)

\* From the production of a block to the payment: a message is paid on L1 only
\* when Fuel had sent it and a commit of a later block has stood for
\* TIME_TO_FINALIZE seconds, whatever is committed again or overwritten in
\* between (FuelMessagePortalV2.sol:198-232, FuelChainState.sol:127-160).
THEOREM FinalityBeforePayment ==
    ASSUME ClockFits
    PROVE  Spec => PaidAfterFinality
<1>1. Init => PathInv
    BY InitPath
<1>2. PathInv /\ [Next]_vars => PathInv'
    BY NextPath
<1>3. PathInv /\ [Next]_vars => [Paid]_vars
    BY NextPath
<1> QED
    BY <1>1, <1>2, <1>3, PTL DEF Spec, PaidAfterFinality, Paid

\* No client is led to relay its message with a root that does not prove it
\* (waitForBlockCommit.ts).
THEOREM ClientRootsProve ==
    ASSUME ClockFits
    PROVE  Spec => []RootProvesMessage
<1>1. Init => PathInv
    BY InitPath
<1>2. PathInv /\ [Next]_vars => PathInv'
    BY NextPath
<1>3. PathInv => RootProvesMessage
    BY DEF PathInv, ClientInv, RootProvesMessage
<1> QED
    BY <1>1, <1>2, <1>3, PTL DEF Spec

-----------------------------------------------------------------------------
(* The portal can pay what is on its way.  This holds whatever the clock does. *)

\* The storage p balances, and it received the ETH the messages carry before
\* Fuel produced a block.
Balanced(p) ==
    /\ DOMAIN p = Fields
    /\ p.successful \in SUBSET Messages
    /\ p.sentToFuel \in Int /\ p.paidOut \in Int /\ p.totalDeposited \in Nat
    /\ p.totalDeposited = (p.sentToFuel - p.paidOut) * Precision
    /\ fuelHeight # 0 => AllAmounts <= p.sentToFuel

PaidFor(messages) == SumFunctionOnSet(Amount, messages)

\* The recipient of message m runs: p is the storage q before it with m paid.
Paying(p, q, m) ==
    /\ m \in Messages \ q.successful
    /\ p.successful = q.successful
    /\ p.paidOut = q.paidOut + Amount[m]

LedgerInv ==
    /\ fuelHeight \in Nat
    /\ Balanced(portal)
    /\ ~Portal!InCall => portal.paidOut = PaidFor(portal.successful)
    /\ Portal!InCall => /\ Balanced(call.before)
                        /\ call.before.paidOut = PaidFor(call.before.successful)
                        /\ Paying(portal, call.before, call.message)

LEMMA Values ==
    /\ IsFiniteSet(Messages) /\ Precision \in Nat /\ Precision # 0
    /\ Amount \in [Messages -> Nat]
    /\ \A m \in Messages : Amount[m] \in Nat /\ Portal!Withdrawn(m) = Amount[m] * Precision
    /\ \A value \in DepositValues : value \in Nat
BY PathAssumption DEF Portal!Withdrawn

LEMMA PortalFields ==
    Fields = {"paused", "withdrawalsPaused", "blacklist", "fuelChainState", "messageSender",
              "successful", "nonce", "totalDeposited", "limiter", "rateLimitEnabled",
              "balance", "executions", "chargedAt", "sentToFuel", "paidOut"}
BY DEF Fields, Portal!InitialPortal

\* The books of two storages are the same.
SameBooks(p, q) ==
    /\ DOMAIN p = DOMAIN q
    /\ p.successful = q.successful
    /\ p.sentToFuel = q.sentToFuel
    /\ p.paidOut = q.paidOut
    /\ p.totalDeposited = q.totalDeposited

LEMMA SameLedger ==
    ASSUME LedgerInv, SameBooks(portal', portal), UNCHANGED <<call, fuelHeight>>
    PROVE  LedgerInv'
<1>1. Balanced(portal)' /\ (Portal!InCall' <=> Portal!InCall)
    BY DEF LedgerInv, Balanced, SameBooks, Portal!InCall
<1>2. Portal!InCall => Balanced(call.before)'
    BY DEF LedgerInv, Balanced
<1> QED
    BY <1>1, <1>2 DEF LedgerInv, SameBooks, PaidFor, Paying

LEMMA InitLedger ==
    ASSUME Init
    PROVE  LedgerInv
<1>1. portal = Portal!InitialPortal /\ ~Portal!InCall /\ fuelHeight = 0
    BY DEF Init, Portal!NoCall, Portal!InCall
<1>2. /\ portal.successful = {} /\ portal.sentToFuel = 0 /\ portal.paidOut = 0
      /\ portal.totalDeposited = 0
    BY <1>1 DEF Portal!InitialPortal
<1>3. Balanced(portal)
    BY <1>1, <1>2, Values DEF Balanced, Fields
<1> QED
    BY <1>1, <1>2, <1>3, SumEmpty DEF LedgerInv, PaidFor

LEMMA DepositLedger ==
    ASSUME LedgerInv, ~Portal!InCall, NEW value \in DepositValues, depositETH(value)
    PROVE  LedgerInv'
<1> DEFINE units == value \div Precision
<1>1. value \in Nat /\ units \in Nat /\ units * Precision = value
  <2>1. value \in Nat /\ units \in Nat
    BY Values
  <2>2. units * Precision = value
    BY DEF depositETH, Portal!depositETH, Portal!_sendOutgoingMessage, Portal!PrecisionCompatible
  <2> QED
    BY <2>1, <2>2
<1>2. /\ portal' = [portal EXCEPT
              !.totalDeposited = @ + value,
              !.balance = @ + value,
              !.nonce = @ + 1,
              !.sentToFuel = @ + units]
      /\ UNCHANGED <<call, fuelHeight>>
    BY DEF depositETH, Portal!depositETH, Portal!_sendOutgoingMessage
<1> HIDE DEF units
<1>3. /\ DOMAIN portal' = Fields
      /\ portal'.successful = portal.successful
      /\ portal'.paidOut = portal.paidOut
      /\ portal'.totalDeposited = portal.totalDeposited + value
      /\ portal'.sentToFuel = portal.sentToFuel + units
    BY <1>2, PortalFields DEF LedgerInv, Balanced
<1>4. /\ portal.sentToFuel \in Int /\ portal.paidOut \in Int /\ portal.totalDeposited \in Nat
      /\ portal.totalDeposited = (portal.sentToFuel - portal.paidOut) * Precision
      /\ Precision \in Nat /\ AllAmounts \in Int
  <2>1. AllAmounts \in Int
    BY Values, SumInt DEF AllAmounts
  <2> QED
    BY <2>1, Values DEF LedgerInv, Balanced
<1>5. ((portal.sentToFuel + units) - portal.paidOut) * Precision
        = (portal.sentToFuel - portal.paidOut) * Precision + units * Precision
    BY <1>1, <1>4
<1>6. Balanced(portal)'
  <2>1. portal.totalDeposited + value \in Nat /\ portal.sentToFuel + units \in Int
    BY <1>1, <1>4
  <2>2. fuelHeight # 0 => AllAmounts <= portal.sentToFuel + units
    BY <1>1, <1>4 DEF LedgerInv, Balanced
  <2> QED
    BY <1>1, <1>2, <1>3, <1>4, <1>5, <2>1, <2>2 DEF LedgerInv, Balanced, AllAmounts
<1> QED
    BY <1>2, <1>3, <1>6 DEF LedgerInv, Portal!InCall, PaidFor

LEMMA RelayLedger ==
    ASSUME LedgerInv, NEW m \in Messages, relayMessage(m)
    PROVE  LedgerInv'
<1>1. Portal!_executeMessage(m, 0) /\ UNCHANGED fuelHeight
    BY DEF relayMessage, Portal!relayMessage
<1>2. /\ ~Portal!InCall /\ m \notin portal.successful
      /\ Portal!Withdrawn(m) <= portal.totalDeposited
      /\ call' = [running |-> TRUE, message |-> m, before |-> portal]
    BY <1>1 DEF Portal!_executeMessage, Portal!nonReentrant, Portal!CallTo
<1>3. /\ DOMAIN portal' = Fields
      /\ portal'.successful = portal.successful
      /\ portal'.sentToFuel = portal.sentToFuel
      /\ portal'.paidOut = portal.paidOut + Amount[m]
      /\ portal'.totalDeposited = portal.totalDeposited - Portal!Withdrawn(m)
    BY <1>1, PortalFields DEF LedgerInv, Balanced, Portal!_executeMessage
<1>4. /\ portal.sentToFuel \in Int /\ portal.paidOut \in Int /\ portal.totalDeposited \in Nat
      /\ portal.totalDeposited = (portal.sentToFuel - portal.paidOut) * Precision
      /\ Precision \in Nat /\ Amount[m] \in Nat
      /\ Portal!Withdrawn(m) = Amount[m] * Precision /\ Amount[m] * Precision \in Nat
    BY Values DEF LedgerInv, Balanced
<1>5. (portal.sentToFuel - (portal.paidOut + Amount[m])) * Precision
        = (portal.sentToFuel - portal.paidOut) * Precision - Amount[m] * Precision
    BY <1>4
<1>6. Balanced(portal)'
  <2>1. portal.totalDeposited - Portal!Withdrawn(m) \in Nat /\ portal.paidOut + Amount[m] \in Int
    BY <1>2, <1>4
  <2> QED
    BY <1>1, <1>3, <1>4, <1>5, <2>1 DEF LedgerInv, Balanced, AllAmounts
<1>7. Portal!InCall' /\ call'.before = portal /\ call'.message = m
    BY <1>2 DEF Portal!InCall
<1>8. Balanced(call.before)'
    BY <1>1, <1>7 DEF LedgerInv, Balanced, AllAmounts
<1>9. Paying(portal', portal, m)
    BY <1>2, <1>3 DEF Paying
<1> QED
    BY <1>1, <1>2, <1>6, <1>7, <1>8, <1>9 DEF LedgerInv, PaidFor

LEMMA SucceedsLedger ==
    ASSUME LedgerInv, callSucceeds
    PROVE  LedgerInv'
<1> DEFINE m == call.message
           done == portal.successful
<1>1. /\ Portal!InCall /\ ~Portal!InCall' /\ UNCHANGED fuelHeight
      /\ portal' = [portal EXCEPT !.messageSender = NoBlock, !.successful = @ \union {m}]
    BY DEF callSucceeds, Portal!callSucceeds, Portal!InCall, Portal!NoCall
<1>2. /\ Balanced(portal) /\ m \in Messages \ done
      /\ portal.paidOut = PaidFor(done) + Amount[m]
    BY <1>1 DEF LedgerInv, Paying
<1>3. /\ DOMAIN portal' = Fields
      /\ portal'.successful = done \union {m}
      /\ portal'.sentToFuel = portal.sentToFuel
      /\ portal'.paidOut = portal.paidOut
      /\ portal'.totalDeposited = portal.totalDeposited
    BY <1>1, <1>2, PortalFields DEF Balanced
<1>4. PaidFor(done \union {m}) = PaidFor(done) + Amount[m]
  <2>1. done \subseteq Messages /\ IsFiniteSet(done) /\ m \notin done
    BY <1>2, Values, FS_Subset DEF Balanced
  <2>2. \A x \in done \union {m} : Amount[x] \in Int
    BY <1>2, <2>1, Values
  <2>3. PaidFor(done) \in Int /\ Amount[m] \in Int
    BY <2>1, <2>2, SumInt DEF PaidFor
  <2> SUFFICES PaidFor(done \union {m}) = PaidFor(done) + Amount[m]
    OBVIOUS
  <2> HIDE DEF m, done
  <2>4. SumFunctionOnSet(Amount, done \union {m}) = Amount[m] + SumFunctionOnSet(Amount, done)
    BY <2>1, <2>2, SumAdd
  <2> QED
    BY <2>3, <2>4 DEF PaidFor
<1>5. Balanced(portal)'
    BY <1>1, <1>2, <1>3 DEF Balanced, AllAmounts
<1> QED
    BY <1>1, <1>2, <1>3, <1>4, <1>5 DEF LedgerInv, PaidFor

LEMMA FailsLedger ==
    ASSUME LedgerInv, callFails
    PROVE  LedgerInv'
<1>1. Portal!InCall /\ ~Portal!InCall' /\ portal' = call.before /\ UNCHANGED fuelHeight
    BY DEF callFails, Portal!callFails, Portal!InCall, Portal!NoCall
<1>2. Balanced(portal)'
    BY <1>1 DEF LedgerInv, Balanced, AllAmounts
<1> QED
    BY <1>1, <1>2 DEF LedgerInv, PaidFor

LEMMA BlockLedger ==
    ASSUME LedgerInv, ~Portal!InCall, ProduceBlock
    PROVE  LedgerInv'
<1>1. /\ AllAmounts <= portal.sentToFuel /\ fuelHeight' \in Nat
      /\ UNCHANGED <<portal, call>>
    BY DEF ProduceBlock, portalVars, LedgerInv
<1>2. Balanced(portal)'
    BY <1>1 DEF LedgerInv, Balanced, AllAmounts
<1> QED
    BY <1>1, <1>2 DEF LedgerInv, Portal!InCall, PaidFor

LEMMA NextLedger ==
    ASSUME LedgerInv, [Next]_vars
    PROVE  LedgerInv'
<1>1. CASE ~Portal!InCall /\ \E value \in DepositValues : depositETH(value)
    BY <1>1, DepositLedger
<1>2. CASE ~Portal!InCall /\ ProduceBlock
    BY <1>2, BlockLedger
<1>3. ASSUME UNCHANGED <<portal, call, fuelHeight>>
      PROVE  LedgerInv'
  <2>1. SameBooks(portal', portal)
    BY <1>3 DEF SameBooks
  <2> QED
    BY <1>3, <2>1, SameLedger
<1>4. CASE Committer \/ Tick \/ PauseChain \/ UnpauseChain \/ UNCHANGED vars
    BY <1>3, <1>4 DEF Committer, Commit, CommitAgain, Submit, Tick, PauseChain, UnpauseChain,
       portalVars, vars
<1>5. CASE PauseWithdrawals \/ UnpauseWithdrawals
  <2>1. SameBooks(portal', portal) /\ UNCHANGED <<call, fuelHeight>>
    BY <1>5, PortalFields DEF LedgerInv, Balanced, SameBooks, PauseWithdrawals,
       UnpauseWithdrawals, Portal!pauseWithdrawals, Portal!unpauseWithdrawals
  <2> QED
    BY <2>1, SameLedger
<1>6. ASSUME NEW m \in Messages, Client(m)
      PROVE  LedgerInv'
  <2>1. CASE relayMessage(m)
    BY <2>1, RelayLedger
  <2>2. CASE ~relayMessage(m)
    BY <1>3, <1>6, <2>2 DEF Client, waitForBlockCommit, waitForCommitEvent,
       waitForBlockFinalization, relayFails, restart, portalVars
  <2> QED
    BY <2>1, <2>2
<1>7. CASE callSucceeds \/ callFails
    BY <1>7, SucceedsLedger, FailsLedger
<1> QED
    BY <1>1, <1>2, <1>4, <1>5, <1>6, <1>7 DEF Next, Administration

\* What is on its way and what was paid is no more than all the messages carry,
\* and that was deposited.
LEMMA LedgerCovers ==
    ASSUME LedgerInv
    PROVE  WithdrawalsCovered
<1> DEFINE due == {m \in Messages : BlockOf[m] <= fuelHeight /\ m \notin portal.successful}
           done == portal.successful
<1> SUFFICES ASSUME ~Portal!InCall
             PROVE  SumFunctionOnSet(Portal!Worths, due) <= portal.totalDeposited
    BY DEF WithdrawalsCovered
<1>1. /\ Balanced(portal) /\ fuelHeight \in Nat /\ portal.paidOut = PaidFor(done)
      /\ portal.totalDeposited \in Nat
    BY DEF LedgerInv, Balanced
<1>2. /\ IsFiniteSet(due) /\ IsFiniteSet(done) /\ due \subseteq Messages
      /\ done \subseteq Messages /\ due \subseteq Messages \ done
    BY <1>1, Values, FS_Subset DEF Balanced
<1>3. CASE fuelHeight = 0
  <2>1. \A m \in Messages : ~(BlockOf[m] <= 0)
    <3>1. \A k, n : n \in 1 .. k => n \in Int /\ n >= 1
      OBVIOUS
    <3>2. \A m \in Messages : BlockOf[m] \in 1 .. MaxHeight - 1
      BY PathAssumption
    <3>3. \A m \in Messages : BlockOf[m] \in Int /\ BlockOf[m] >= 1
      BY Zenon, <3>1, <3>2
    <3> QED
      BY <3>3
  <2>2. due = {}
    BY <1>3, <2>1
  <2> QED
    BY <1>1, <2>2, SumEmpty
<1>4. CASE fuelHeight # 0
  <2> HIDE DEF due, done
  <2>1. SumFunctionOnSet(Portal!Worths, due) = PaidFor(due) * Precision
    <3>1. \A m \in due : Amount[m] \in Int /\ Portal!Worths[m] = Amount[m] * Precision
      BY <1>2, Values DEF Portal!Worths
    <3> QED
      BY <1>2, <3>1, Values, SumScale DEF PaidFor
  <2>2. AllAmounts = PaidFor(done) + PaidFor(Messages \ done)
    <3>1. /\ IsFiniteSet(Messages \ done) /\ done \intersect (Messages \ done) = {}
          /\ done \union (Messages \ done) = Messages
      BY <1>2, Values, FS_Subset
    <3>2. \A m \in Messages : Amount[m] \in Int
      BY Values
    <3> QED
      BY <1>2, <3>1, <3>2, SumUnion DEF PaidFor, AllAmounts
  <2>3. PaidFor(due) <= PaidFor(Messages \ done)
    <3>1. IsFiniteSet(Messages \ done) /\ \A m \in Messages \ done : Amount[m] \in Nat
      BY Values, FS_Subset
    <3> QED
      BY <1>2, <3>1, SumOfPart DEF PaidFor
  <2>4. /\ PaidFor(due) \in Nat /\ PaidFor(done) \in Nat /\ PaidFor(Messages \ done) \in Nat
    BY <1>2, Values, FS_Subset, SumNat DEF PaidFor
  <2>5. /\ portal.totalDeposited = (portal.sentToFuel - PaidFor(done)) * Precision
        /\ AllAmounts <= portal.sentToFuel /\ portal.sentToFuel \in Int
    BY <1>1, <1>4 DEF Balanced
  <2> DEFINE spare == portal.sentToFuel - PaidFor(done) - PaidFor(due)
  <2>6. spare \in Nat /\ portal.sentToFuel - PaidFor(done) = PaidFor(due) + spare
    BY <2>2, <2>3, <2>4, <2>5
  <2> HIDE DEF spare
  <2>7. (PaidFor(due) + spare) * Precision = PaidFor(due) * Precision + spare * Precision
        /\ spare * Precision \in Nat /\ PaidFor(due) * Precision \in Nat
    BY <2>4, <2>6, Values
  <2> QED
    BY <2>1, <2>5, <2>6, <2>7
<1> QED
    BY <1>3, <1>4

\* Nothing that is on its way from Fuel can find the portal short of ETH: what
\* the portal accounts for covers all the messages sent and not yet executed,
\* whatever relays fail and are tried again (FuelMessagePortalV3.sol).
THEOREM AlwaysCovered == Spec => []WithdrawalsCovered
<1> QED
    BY InitLedger, NextLedger, LedgerCovers, PTL DEF Spec

=============================================================================
