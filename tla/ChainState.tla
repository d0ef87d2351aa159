----------------------------- MODULE ChainState -----------------------------
(***************************************************************************)
(* FuelChainState.sol: the L1 contract that keeps the last NumSlots        *)
(* commits of Fuel block hashes in a circular buffer.  A commit becomes    *)
(* final TimeToFinalize seconds after it was made, and its slot may be     *)
(* overwritten CommitCooldown seconds after it was made.                   *)
(*                                                                         *)
(* The contract stores the time of a commit as a uint32, so stored times   *)
(* are taken modulo TimeModulus (2^32 in the contract).  The variable      *)
(* lastCommit is history: it remembers, per slot, the commit the contract  *)
(* accepted last with its height and its real time, neither of which the   *)
(* contract keeps.                                                         *)
(*                                                                         *)
(* Role checks are left out: each action is taken by an account that holds *)
(* the role the code asks for, and nothing is assumed of what a committer  *)
(* commits.                                                                *)
(***************************************************************************)
EXTENDS Integers

CONSTANTS
    NumSlots,           \* NUM_COMMIT_SLOTS (240)
    BlocksPerInterval,  \* BLOCKS_PER_COMMIT_INTERVAL
    TimeToFinalize,     \* TIME_TO_FINALIZE, in seconds
    CommitCooldown,     \* COMMIT_COOLDOWN, in seconds
    TimeModulus,        \* the number of values of a uint32 timestamp
    BlockHashes,        \* the hashes of Fuel block headers
    ZeroHash,           \* bytes32(0), what an empty slot holds
    MaxCommitHeight,    \* bound: the largest commit height
    GenesisTime,        \* the L1 time at which the contract is initialized
    MaxTime             \* bound: the largest L1 time

\* The four checks of the constructor, in its order.
ConstructorAccepts ==
    /\ TimeToFinalize # 0
    /\ TimeToFinalize <= CommitCooldown
    /\ TimeToFinalize <= NumSlots * BlocksPerInterval
    /\ CommitCooldown <= NumSlots * BlocksPerInterval

ASSUME ParametersAssumption ==
    /\ NumSlots \in Nat \ {0}
    /\ BlocksPerInterval \in Nat
    /\ TimeToFinalize \in Nat
    /\ CommitCooldown \in Nat
    /\ TimeModulus \in Nat \ {0}
    /\ CommitCooldown < TimeModulus
    /\ ConstructorAccepts

ASSUME HashAssumption == ZeroHash \notin BlockHashes

ASSUME BoundsAssumption ==
    /\ MaxCommitHeight \in Nat
    /\ GenesisTime \in Nat
    /\ MaxTime \in Nat
    /\ GenesisTime <= MaxTime

VARIABLES
    commitSlots,    \* the circular buffer _commitSlots
    paused,         \* Pausable
    now,            \* block.timestamp of L1
    lastCommit      \* history: the last commit accepted in each slot

chainVars == <<commitSlots, paused, lastCommit>>
vars == <<commitSlots, paused, now, lastCommit>>

Slots == 0 .. NumSlots - 1
CommitHeights == 0 .. MaxCommitHeight
Committable == BlockHashes \union {ZeroHash}

SlotOf(commitHeight) == commitHeight % NumSlots

EmptySlot == [blockHash |-> ZeroHash, timestamp |-> 0]
NoCommit == [blockHash |-> ZeroHash, commitHeight |-> 0, at |-> 0]

\* A uint32 addition in an unchecked block, and the cast of block.timestamp.
Uint32(n) == n % TimeModulus

-----------------------------------------------------------------------------
(* View functions *)

\* The cooldown with a bug: COMMIT_COOLDOWN is not added.
CooldownForgotten(s) == commitSlots[s].timestamp > Uint32(now)

CoolingDown(s) ==
    Uint32(commitSlots[s].timestamp + CommitCooldown) > Uint32(now)

\* finalized() with a bug: the age of the commit does not matter.
FinalizedAtOnce(blockHash, blockHeight) ==
    /\ ~paused
    /\ commitSlots[SlotOf(blockHeight \div BlocksPerInterval)].blockHash = blockHash

\* finalized() answers true.  It reverts while the contract is paused and when
\* the slot of the block's commit height holds another hash.
Finalized(blockHash, blockHeight) ==
    LET slot == SlotOf(blockHeight \div BlocksPerInterval) IN
    /\ ~paused
    /\ commitSlots[slot].blockHash = blockHash
    /\ now >= commitSlots[slot].timestamp + TimeToFinalize

blockHashAtCommit(commitHeight) == commitSlots[SlotOf(commitHeight)].blockHash

-----------------------------------------------------------------------------
(* The state after initialize(), and one action per operation *)

Init ==
    /\ commitSlots = [s \in Slots |-> EmptySlot]
    /\ paused = FALSE
    /\ now = GenesisTime
    /\ lastCommit = [s \in Slots |-> NoCommit]

\* commit() with a bug: the commit stores the time at which its slot unlocks,
\* and skips the cast.
CommitStoringUnlockTime(blockHash, commitHeight) ==
    LET slot == SlotOf(commitHeight) IN
    /\ ~paused
    /\ ~CoolingDown(slot)
    /\ commitSlots' = [commitSlots EXCEPT ![slot] =
            [blockHash |-> blockHash,
             timestamp |-> now + NumSlots * BlocksPerInterval]]
    /\ lastCommit' = [lastCommit EXCEPT ![slot] =
            [blockHash |-> blockHash, commitHeight |-> commitHeight, at |-> now]]
    /\ UNCHANGED paused

\* commit() with a bug: a hash that replaces another inherits its timestamp.
CommitKeepingTimestamp(blockHash, commitHeight) ==
    LET slot == SlotOf(commitHeight) IN
    /\ ~paused
    /\ ~CoolingDown(slot)
    /\ commitSlots' = [commitSlots EXCEPT ![slot].blockHash = blockHash]
    /\ lastCommit' = [lastCommit EXCEPT ![slot] =
            [blockHash |-> blockHash, commitHeight |-> commitHeight, at |-> now]]
    /\ UNCHANGED paused

commit(blockHash, commitHeight) ==
    LET slot == SlotOf(commitHeight) IN
    /\ ~paused
    /\ ~CoolingDown(slot)
    /\ commitSlots' = [commitSlots EXCEPT ![slot] =
            [blockHash |-> blockHash, timestamp |-> Uint32(now)]]
    /\ lastCommit' = [lastCommit EXCEPT ![slot] =
            [blockHash |-> blockHash, commitHeight |-> commitHeight, at |-> now]]
    /\ UNCHANGED paused

pause ==
    /\ ~paused
    /\ paused' = TRUE
    /\ UNCHANGED <<commitSlots, lastCommit>>

unpause ==
    /\ paused
    /\ paused' = FALSE
    /\ UNCHANGED <<commitSlots, lastCommit>>

\* The next L1 block has a later timestamp.
Tick ==
    /\ now < MaxTime
    /\ now' = now + 1

Next ==
    \/ \E blockHash \in Committable, commitHeight \in CommitHeights :
            commit(blockHash, commitHeight) /\ UNCHANGED now
    \/ pause /\ UNCHANGED now
    \/ unpause /\ UNCHANGED now
    \/ Tick /\ UNCHANGED chainVars

Spec == Init /\ [][Next]_vars

-----------------------------------------------------------------------------
(* Properties *)

\* The shape of the state: stored times fit a uint32, and the clock and the
\* history stay within the bounds.
TypeOK ==
    /\ commitSlots \in [Slots -> [blockHash : Committable,
                                  timestamp : 0 .. TimeModulus - 1]]
    /\ paused \in BOOLEAN
    /\ now \in GenesisTime .. MaxTime
    /\ lastCommit \in [Slots -> [blockHash : Committable,
                                 commitHeight : CommitHeights,
                                 at : 0 .. MaxTime]]

\* Whether the hash in slot s has been there for the time to finalize, by the
\* real time of its commit.
MatureSlot(s) == now >= lastCommit[s].at + TimeToFinalize

\* finalized() answers true only for a hash the committer put in that slot at
\* least TIME_TO_FINALIZE seconds of real time ago and nothing replaced since.
FinalizedIsMature ==
    \A blockHash \in BlockHashes, commitHeight \in CommitHeights :
        Finalized(blockHash, commitHeight * BlocksPerInterval) =>
            /\ lastCommit[SlotOf(commitHeight)].blockHash = blockHash
            /\ MatureSlot(SlotOf(commitHeight))

\* commit() never takes a slot from a commit that had no chance to become
\* final: whatever the committer does, a commit stays in the buffer until a
\* message of its block can be relayed.
NoCommitLostBeforeFinality ==
    [][\A s \in Slots :
            lastCommit[s].blockHash # ZeroHash /\ lastCommit'[s] # lastCommit[s]
                => MatureSlot(s)]_vars

\* docs/ARCHITECTURE.md:18 says of a final epoch that "it cannot be reverted or
\* changed": commit() never replaces the hash of a commit height that is final.
FinalCommitNeverChanged ==
    [][\A s \in Slots :
            /\ lastCommit[s].blockHash # ZeroHash
            /\ MatureSlot(s)
            /\ lastCommit'[s].commitHeight = lastCommit[s].commitHeight
            => lastCommit'[s].blockHash = lastCommit[s].blockHash]_vars

=============================================================================
