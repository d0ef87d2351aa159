--------------------------- MODULE WithdrawalPath ---------------------------
(***************************************************************************)
(* The way of a message from Fuel to L1: Fuel produces blocks, the block    *)
(* committer commits the last block of every epoch to FuelChainState, and   *)
(* the owner of the message waits for a commit that proves it, waits until  *)
(* the commit is final, and relays the message to FuelMessagePortal.        *)
(*                                                                          *)
(* The client is the code of test-utils: waitForBlockCommit.ts and          *)
(* waitForBlockFinalization.ts.  It reads the chain state at one moment and *)
(* uses what it read at others, while commits go on and slots are           *)
(* overwritten.                                                             *)
(*                                                                          *)
(* The committer and Fuel itself are not in the repository.  The committer  *)
(* is honest here and commits in order, but may repeat a commit.  A block   *)
(* is known by its height, and its hash and its header with it.  Messages   *)
(* carry ETH, which was deposited before it could be sent back.             *)
(***************************************************************************)
EXTENDS Integers, FiniteSets, Functions

CONSTANTS
    Messages, BlockOf,      \* messages, and the height of the block of each
    Amount, Precision, DepositValues, DepositLimit,
    NumSlots, BlocksPerInterval, TimeToFinalize, CommitCooldown, TimeModulus,
    MaxDeposits,            \* bound: deposits
    MaxCommitHeight,        \* bound: the largest commit height
    MaxRepeats,             \* bound: commits that are repeated
    MaxTime                 \* bound: the largest L1 time, see Tick

GenesisTime == 1

MaxHeight == MaxCommitHeight * BlocksPerInterval

Heights == 0 .. MaxHeight

NoBlock == -1

ASSUME PathAssumption ==
    /\ IsFiniteSet(Messages)
    /\ BlockOf \in [Messages -> 1 .. MaxHeight - 1]
    /\ Amount \in [Messages -> Nat]
    /\ Precision \in Nat \ {0}
    /\ DepositValues \subseteq Nat
    /\ {NumSlots, BlocksPerInterval} \subseteq Nat \ {0}
    /\ {TimeToFinalize, TimeModulus, MaxCommitHeight} \subseteq Nat
    /\ MaxTime \in Nat \ {0}

VARIABLES
    commitSlots, paused, lastCommit,    \* see ChainState
    portal, call,                       \* see MessagePortal
    now,            \* block.timestamp of L1
    fuelHeight,     \* height of the Fuel chain
    submitted,      \* the number of CommitSubmitted events of each commit height
    client          \* the client of each message

chainVars == <<commitSlots, paused, lastCommit>>
portalVars == <<portal, call>>
vars == <<commitSlots, paused, lastCommit, portal, call, now, fuelHeight, submitted,
          client>>

Chain == INSTANCE ChainState WITH BlockHashes <- Heights, ZeroHash <- NoBlock

Portal == INSTANCE MessagePortal WITH
    Sender <- [m \in Messages |-> m],
    NullSender <- NoBlock,
    Roots <- Heights, Blocks <- Heights,
    History <- {p \in Heights \X Heights : p[2] < p[1]},
    Included <- {<<BlockOf[m], m>> : m \in Messages},
    ChainStates <- {0}, FirstChainState <- 0,
    MaxUint64 <- DepositLimit, MaxDataSize <- 1,
    RateLimitDuration <- 0, InitialLimit <- 0, Limits <- {0},
    DataSizes <- {0}, RelayValues <- {0}, MaxNonce <- MaxDeposits,
    finalizedRoots <- [c \in {0} |-> {root \in Heights : Chain!Finalized(root, root)}]

Init ==
    /\ Chain!Init
    /\ portal = Portal!InitialPortal
    /\ call = Portal!NoCall
    /\ fuelHeight = 0
    /\ submitted = [h \in Chain!CommitHeights |-> 0]
    /\ client = [m \in Messages |-> [pc |-> "waitForBlockCommit", root |-> NoBlock]]

-----------------------------------------------------------------------------
(* Fuel and the block committer *)

depositETH(value) ==
    /\ Portal!depositETH(value)
    /\ UNCHANGED <<chainVars, now, fuelHeight, submitted, client>>

AllAmounts == SumFunctionOnSet(Amount, Messages)

\* A block with its messages.  The blocks are counted from the moment the ETH the
\* messages carry is on Fuel.
ProduceBlock ==
    /\ fuelHeight < MaxHeight
    /\ AllAmounts <= portal.sentToFuel
    /\ fuelHeight' = fuelHeight + 1
    /\ UNCHANGED <<chainVars, portalVars, now, submitted, client>>

Submit(commitHeight) ==
    /\ commitHeight * BlocksPerInterval <= fuelHeight
    /\ Chain!commit(commitHeight * BlocksPerInterval, commitHeight)
    /\ submitted' = [submitted EXCEPT ![commitHeight] = @ + 1]
    /\ UNCHANGED <<portalVars, now, fuelHeight, client>>

\* The committer submits the next epoch.
Commit ==
    \E commitHeight \in 1 .. MaxCommitHeight :
        /\ submitted[commitHeight] = 0
        /\ \A h \in 1 .. commitHeight - 1 : submitted[h] > 0
        /\ Submit(commitHeight)

\* It submits the last one again, having missed that it was taken.
CommitAgain ==
    \E commitHeight \in 1 .. MaxCommitHeight :
        /\ submitted[commitHeight] \in 1 .. MaxRepeats
        /\ \A h \in commitHeight + 1 .. MaxCommitHeight : submitted[h] = 0
        /\ Submit(commitHeight)

\* Time passes while something waits for it: a commit that is not final yet, or
\* a slot that is cooling down.
Tick ==
    /\ \E s \in Chain!Slots :
        /\ commitSlots[s] # Chain!EmptySlot
        /\ ~Chain!MatureSlot(s) \/ Chain!CoolingDown(s)
    /\ Chain!Tick
    /\ UNCHANGED <<chainVars, portalVars, fuelHeight, submitted, client>>

PauseChain == Chain!pause /\ UNCHANGED <<portalVars, now, fuelHeight, submitted, client>>

UnpauseChain == Chain!unpause /\ UNCHANGED <<portalVars, now, fuelHeight, submitted, client>>

PauseWithdrawals ==
    /\ ~portal.withdrawalsPaused
    /\ Portal!pauseWithdrawals
    /\ UNCHANGED <<chainVars, now, fuelHeight, submitted, client>>

UnpauseWithdrawals ==
    /\ portal.withdrawalsPaused
    /\ Portal!unpauseWithdrawals
    /\ UNCHANGED <<chainVars, now, fuelHeight, submitted, client>>

-----------------------------------------------------------------------------
(* The client of message m *)

At(m, pc) == client[m].pc = pc

GoTo(m, pc, root) == client' = [client EXCEPT ![m] = [pc |-> pc, root |-> root]]

\* The height to wait for with a bug: the block of the message itself.
SameBlockHeight(m) == BlockOf[m]

\* The first block whose history has the block of the message.
nextBlockHeight(m) == BlockOf[m] + 1

commitHeightFor(m) ==
    LET div == nextBlockHeight(m) \div BlocksPerInterval
        mod == nextBlockHeight(m) % BlocksPerInterval
    IN  IF mod = 0 THEN div ELSE div + 1

\* The check of the slot with a bug: what a lap of the buffer left there counts.
SlotIsEmpty(m, commitHashAtL1) == commitHashAtL1 = NoBlock

\* The slot of the commit is empty, or a block lies there that came before.
CommitMissing(m, commitHashAtL1) ==
    commitHashAtL1 = NoBlock \/ commitHashAtL1 < nextBlockHeight(m)

waitForBlockCommit(m) ==
    LET commitHashAtL1 == Chain!blockHashAtCommit(commitHeightFor(m)) IN
    /\ At(m, "waitForBlockCommit")
    /\ BlockOf[m] <= fuelHeight
    /\ IF CommitMissing(m, commitHashAtL1)
       THEN GoTo(m, "waitForCommitEvent", NoBlock)
       ELSE GoTo(m, "waitForBlockFinalization", commitHashAtL1)
    /\ UNCHANGED <<chainVars, portalVars, now, fuelHeight, submitted>>

\* It throws when it finds two events.
waitForCommitEvent(m) ==
    /\ At(m, "waitForCommitEvent")
    /\ submitted[commitHeightFor(m)] # 0
    /\ IF submitted[commitHeightFor(m)] > 1
       THEN GoTo(m, "failed", NoBlock)
       ELSE GoTo(m, "waitForBlockCommit", NoBlock)
    /\ UNCHANGED <<chainVars, portalVars, now, fuelHeight, submitted>>

\* It polls finalized(), and takes an error for an answer that may change.
waitForBlockFinalization(m) ==
    /\ At(m, "waitForBlockFinalization")
    /\ Chain!Finalized(client[m].root, client[m].root)
    /\ GoTo(m, "relayMessage", client[m].root)
    /\ UNCHANGED <<chainVars, portalVars, now, fuelHeight, submitted>>

relayMessage(m) ==
    /\ At(m, "relayMessage")
    /\ Portal!relayMessage(m, client[m].root, BlockOf[m], 0)
    /\ UNCHANGED <<chainVars, now, fuelHeight, submitted, client>>

\* The transaction fails: the portal rejects it, or it does not get through.
relayFails(m) ==
    /\ At(m, "relayMessage")
    /\ GoTo(m, "failed", NoBlock)
    /\ UNCHANGED <<chainVars, portalVars, now, fuelHeight, submitted>>

callSucceeds ==
    /\ Portal!callSucceeds
    /\ GoTo(call.message, "done", NoBlock)
    /\ UNCHANGED <<chainVars, now, fuelHeight, submitted>>

callFails ==
    /\ Portal!callFails
    /\ GoTo(call.message, "failed", NoBlock)
    /\ UNCHANGED <<chainVars, now, fuelHeight, submitted>>

\* finalized() will never answer again: the slot of the root was overwritten.
Hangs(m) ==
    /\ At(m, "waitForBlockFinalization")
    /\ Chain!blockHashAtCommit(client[m].root \div BlocksPerInterval) # client[m].root

\* The owner of the message starts the client again when it failed or hangs.
restart(m) ==
    /\ At(m, "failed") \/ Hangs(m)
    /\ GoTo(m, "waitForBlockCommit", NoBlock)
    /\ UNCHANGED <<chainVars, portalVars, now, fuelHeight, submitted>>

Client(m) ==
    \/ waitForBlockCommit(m)
    \/ waitForCommitEvent(m)
    \/ waitForBlockFinalization(m)
    \/ relayMessage(m)
    \/ relayFails(m)
    \/ restart(m)

Committer == Commit \/ CommitAgain

Administration == PauseChain \/ UnpauseChain \/ PauseWithdrawals \/ UnpauseWithdrawals

Next ==
    \/ /\ ~Portal!InCall
       /\ \/ \E value \in DepositValues : depositETH(value)
          \/ ProduceBlock
          \/ Committer
          \/ Tick
          \/ Administration
          \/ \E m \in Messages : Client(m)
    \/ callSucceeds
    \/ callFails

Spec == Init /\ [][Next]_vars

\* Fuel, the committer and time go on, a transaction has an outcome, the owner of
\* a message does not give up, and a recipient that is called again and again
\* accepts in the end.
Fairness ==
    /\ WF_vars(~Portal!InCall /\ ProduceBlock)
    /\ WF_vars(~Portal!InCall /\ Commit)
    /\ WF_vars(~Portal!InCall /\ Tick)
    /\ WF_vars(callSucceeds \/ callFails)
    /\ \A m \in Messages :
        /\ WF_vars(~Portal!InCall /\ Client(m))
        /\ SF_vars(~Portal!InCall /\ relayMessage(m))
        /\ SF_vars(callSucceeds /\ call.message = m)

FairSpec == Spec /\ Fairness

-----------------------------------------------------------------------------
(* Properties *)

\* A message is paid on L1 only when a commit of a later Fuel block has stood for
\* the time to finalize, by the real time of that commit, and only when Fuel had
\* sent it.
PaidAfterFinality ==
    [][\A m \in Messages :
            portal'.executions[m] > portal.executions[m] =>
                /\ BlockOf[m] <= fuelHeight
                /\ \E s \in Chain!Slots :
                    /\ lastCommit[s].blockHash > BlockOf[m]
                    /\ Chain!MatureSlot(s)]_vars

\* A client that keeps its root while slots are overwritten is never led to
\* relay a message with a root that does not prove it.
RootProvesMessage ==
    \A m \in Messages :
        client[m].root # NoBlock => BlockOf[m] < client[m].root

\* The portal can always pay what is on its way: nothing that was sent from Fuel
\* can find it short of ETH.
WithdrawalsCovered ==
    LET due == {m \in Messages : BlockOf[m] <= fuelHeight /\ m \notin portal.successful}
    IN  ~Portal!InCall => SumFunctionOnSet(Portal!Worths, due) <= portal.totalDeposited

\* Every message sent from Fuel is executed on L1 in the end, although slots are
\* overwritten, commits are repeated, and recipients and transactions fail, if
\* the contracts do not stay paused or are paused over and over.
MessagesArrive ==
    <>[](~paused /\ ~portal.withdrawalsPaused) =>
        \A m \in Messages : BlockOf[m] <= fuelHeight ~> m \in portal.successful

=============================================================================
