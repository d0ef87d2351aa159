# Fuel bridge in TLA+

A verification development of the Fuel bridge: TLA+ modules translated from the
contracts under `packages/`, and from the scripts that deploy, upgrade and operate
them, TLC runs that model-check them on small instances, and proofs for TLAPS that
carry the most important results to every value of the constants. Paths below are relative to the repository; `FuelMessagePortalV3.sol:187`
and the like name the file without its directory. `PROJECT.json` maps every
definition to the lines it translates.

## 1. The system

The bridge carries ETH, ERC-20 tokens and messages between Ethereum (L1) and
Fuel. L1 sends to Fuel by events that Fuel's nodes read; Fuel sends to L1 by
messages whose ids are leaves of a Merkle tree in each Fuel block, and L1 learns
of Fuel blocks from commits of block hashes.

```
        L1                                                   Fuel
  user -> FuelERC20GatewayV4 --sendMessage--> FuelMessagePortal ==event==> message
             |   ^                                                          | spent by the
   ERC-20 <--+   | finalizeWithdrawal                                        | message predicate
             |   |                                                          v
             +-- FuelMessagePortal <==relayMessage(proofs)== block <== bridge-fungible-token
                     | finalized(root)                                       | mints, burns
                     v                                                       v
               FuelChainState  <==commit(hash, height)== block committer   receiver contract
```

### Components, their state and their operations

| Component | State | Operations | Hard parts |
|---|---|---|---|
| `FuelChainState` | `_commitSlots`, a circular buffer of 240 (hash, uint32 time); paused | `commit`, `finalized`, `blockHashAtCommit`, `pause`, `unpause` | a slot is shared by all heights with one remainder, and may be reused after the cooldown; uint32 time |
| `FuelMessagePortal` V1 to V3 | successful and blacklisted messages, `totalDeposited`, nonce, running sender, pauses, limiter, chain state address, ETH | `sendMessage`, `depositETH`, `relayMessage`, administration | the recipient runs inside `relayMessage` and calls back; reverts; many roots prove one message; lazily updated limiter |
| Withdrawal limiter | amount and end of the period, limit, duration | `resetRateLimitAmount`, `_addWithdrawnAmount` | period boundaries, resets within a period, stretches without calls |
| `FuelERC20GatewayV4` | `_deposits`, caps, decimals cache, issuer, limiter per token, the tokens | `deposit`, `depositWithData`, the two with a permit, `sendMetadata`, `finalizeWithdrawal`, administration | tokens that call back before they move, tokens whose decimals change, u64 caps |
| `bridge-fungible-token` | registered assets, `tokens_minted`, refunds, metadata | `process_message`, `withdraw`, `claim_refund` | the receiver of a deposit with data runs inside; overflow with panics disabled; messages in any order |
| Block committer | none here | submits the last block of each epoch | external program; may repeat or, in the worst case, commit anything |
| Client (`test-utils`) | what it read so far | `waitForBlockCommit`, `waitForBlockFinalization`, `createRelayMessageParams`, relay | a slot it read is overwritten while it waits |
| `VerifyBinaryTree`, headers, `Cryptography` | none | proof and hash functions | trees whose size is no power of two |
| Message predicate and script | none | lets a transaction spend a contract message; calls `process_message` | a transaction with several messages |
| Proxy of the Fuel bridge | owner, target, each with an initial value in the code | `set_proxy_target`, `_proxy_change_owner`, `_proxy_revoke_ownership`, fallback | one storage for all targets; an owner that is not set or gone |
| Operators' and relayers' scripts of the Fuel side (`test-utils/src/scripts`) | none but what they read | deploy, upgrade (with a key or a KMS), transfer the ownership; relay a deposit or metadata | many calls, others' between them; a crash after any; an environment variable names the gateway |
| Deployment of the L1 contracts (`solidity-contracts/deploy`, six networks) | `.migrations.json`, records under `deployments/`, an address file | a list of scripts per network, run in order, each once or every time | a run dies between two steps; an upgrade is not in a block when the record is written; a multisig takes over |
| Tasks of the L1 operators (`scripts/hardhat`) | `grantedRoles.json`, `verification.json` | pause and unpause, withdrawals, blacklist, limits, roles, deposits, verification | several calls of a task with others' between them |
| ERC-20 gateways V1 to V3, ERC-721 gateways | as V4, deposits by token id | as V4 | superseded, or on their own track |
| Base asset contract, docker, harness | none that matters | | |

### What makes each correct

- **Chain state**: `finalized()` vouches only for a hash that stood unreplaced for
  the time to finalize; a commit stays until it could be used.
- **Portal**: a message executes at most once; books, ETH and payments agree even
  inside a call; `messageSender()` never speaks of another message than the one
  running; a relay takes effect whole or not at all.
- **Limiter**: no sequence of resets and withdrawals opens it for more than the
  configured amount.
- **Gateway**: every unit on Fuel is backed by tokens held; the units fit a u64.
- **Fuel bridge**: every unit locked on L1 is in exactly one place; what cannot be
  minted is refunded once, to its depositor; deposits settle.
- **Predicate, proxy and operators**: a message is used up exactly if the bridge
  processed it; behind its proxy the bridge is one bridge, whatever implementations
  follow each other; the proxy never points at nothing; a revoked owner stays so.
- **Deployment**: cut short and repeated, the scripts of a network end with contracts
  that refer to each other; no contract is ever without an administrator; after the
  hand-over the deployer can only pause, and a pause stands; records tell the truth.
- **Tasks**: what they report was so; what they verify is what the owners execute.
- **Together**: tokens held on L1 equal what is on Fuel and on its way; messages
  sent from Fuel arrive and only after finality.

The list of hazards these properties are aimed at, each at its line, is in
`PROJECT.json` under `hazards`.

## 2. Modules

| Module | Stands for | Composes |
|---|---|---|
| `ChainState` | `FuelChainState.sol` | |
| `RateLimit` | the limiter code, held twice by the contracts, as operators | |
| `RateLimiter` | one limiter at work | `RateLimit` |
| `MessagePortal` | `FuelMessagePortalV3.sol` with V2, V1 and `SafeCall` | `RateLimit` |
| `Escrow` | abstract: what a bridge contract on L1 promises | |
| `VerifyBinaryTree` | `VerifyBinaryTree.sol`, `Utils.sol`, `TreeHasher.sol` | |
| `ERC20Gateway` | `FuelERC20GatewayV4.sol` | `RateLimit` |
| `FungibleBridge` | `bridge-fungible-token` `main.sw`, and any L1 side that locks what it reports | |
| `TokenBridge` | both ends of the ERC-20 bridge, with the portal and Fuel's ledger between them by what they promise | `ERC20Gateway`, `FungibleBridge` |
| `WithdrawalPath` | Fuel, the committer, both core contracts and the client | `ChainState`, `MessagePortal` |
| `FuelHost` | `proxy.sw`, `predicate_asm.rs`, `script_asm.rs`, the scripts under `test-utils/src/scripts` that relay, deploy, upgrade and transfer | `FungibleBridge` |
| `L1Contracts` | roles, proxies and what calls of administration change, of all L1 contracts | |
| `DeployScripts` | the steps a deploy script is made of | `L1Contracts` |
| `MainnetScripts`, `TestnetScripts`, `DevnetScripts`, `HardhatScripts`, `ForkScripts`, `UpgradeTestScripts` | the scripts of each network, as data | `DeployScripts` |
| `Deployment` | `hardhat deploy` over those scripts, its files, the multisig | the six |
| `BridgeTasks` | the tasks under `scripts/hardhat` | `Deployment` |
| `DeploymentInvariants` | the inductive invariants of the two, and what the lists of scripts are to them | `BridgeTasks` |
| `*Proofs` | theorems | |
| `SumTheorems` | facts about sums over finite sets, for the accounts | |
| `MC*` | instances for TLC | |

### How state and steps correspond to the code

A step is as much of a transaction as no other code can interrupt. On L1 and on
Fuel one transaction runs at a time, so the only interleaving inside one comes
from calls to foreign code: the recipient of a message, a token, the receiver of
a deposit with data. Each such function is two steps, up to the call and after
it, and between the two whoever was called may enter the contract again. A failed
call restores what it found: the state before it is kept in the frame (`before`).
To make that one assignment, all that the EVM or FuelVM rolls back together is
one record, `portal`, `gateway` or `bridge`, with one field per storage variable;
the comment of each field names the variable when the names differ. History
fields, which the code does not have, are marked.

A revert of an outermost call changes nothing, so a `require` is a guard. Roles
are left out: an administrative action is taken by somebody who holds its role.

- **`ChainState`**. `commitSlots` is `_commitSlots`, `now` is `block.timestamp`.
  `commit` accepts any hash at any height: nothing is assumed of the committer.
  Times are stored modulo `TimeModulus`, which stands for 2^32, and the unlock
  time of a slot is added modulo the same, as the unchecked block does.
  `lastCommit` is history: the real time and the height of what lies in a slot.
- **`MessagePortal`**. `relayMessage` with `_executeMessage` up to the call,
  `callSucceeds` and `callFails` after it. While `InCall`, every function of the
  portal may be called, the administrative ones too (a recipient may hold a role).
  `nonReentrant` refuses a second `_executeMessage`. What a chain state answers is
  the variable `finalizedRoots`, which changes freely between transactions; proofs
  are sound pairs in `History` and `Included`, so one message may have many proofs.
- **`VerifyBinaryTree`**. The state is a claim and a proof that a relayer extends by
  one sibling a step; the verifier is an operator, one definition per decision of
  its loop. Digests are terms, so only digests of the tree can lead to its root.
  The trees themselves (`Level`, `TreeRoot`, `Siblings`) are external: Fuel builds them, and the
  tests do so with `@fuel-ts/merkle`. They are defined by levels, from the leaves up, while the
  verifier finds its way by halving from the top (`PathLength`) and by subtrees (`Rounds`), so that the two
  have nothing in common that could make them agree. What recurs is a recursive function, not a
  RECURSIVE operator, for the sake of the proofs. `MessagePortal` rests on this module: a pair of
  `History` or `Included` is a leaf that can be proved, and nothing else can.
- **`ERC20Gateway`**. A token is known by the factor between its units and those
  on Fuel, which is all the code makes of decimals; `Factors[t]` are the factors
  the token may report from call to call, and `cachedFactor` is the cache. `stack`
  holds the frames of running calls. The message to the portal goes out before
  the tokens arrive, as in `_deposit`.
- **`FungibleBridge`**. `registered` stands for the four storage maps that are
  written together when an asset is first minted. `new_total_supply` wraps as
  the code has it inside `disable_panic_on_overflow`. `coins` are the coins on Fuel, which
  move freely. `l1` is the environment: a gateway that locks what it reports, and
  executes a withdrawal once. Forged messages (`OtherSenders`) are among the inputs.
- **`TokenBridge`** is `FungibleBridge` with the gateway where that module has only what it
  assumes of L1. `l1` changes when a transaction of L1 is over (`Emitted`, `RelayReturns`),
  so that a deposit that reverts reaches nobody; who makes a deposit and who gets it is
  chosen freely then, since the gateway makes nothing of either. `relaying` is the message of
  Fuel that the portal executes, on which the return of the withdrawal depends. The issuer may be unset and
  replaced by another Fuel contract at any time: what is deposited for that one is its own
  (`elsewhere`), and `RelayForeign` is a message it sends, for no more than that while it is the issuer. Steps
  of one chain fall between transactions of the other, since within one they share nothing.
- **`FuelHost`** adds to `FungibleBridge` the ledger (`consumed`, `underway`), the proxy,
  and one process per operator (`script`) and relayer (`relay`). A transaction is its
  list of inputs; `predicate` and `process_message_script` read it as the two programs
  do; `CraftedTransactions` are all small ones anyone may put together. Each call of a
  script is a step, reads as well as writes, and `ScriptEnds` may take its place. An
  implementation is known by the gateway it was configured with and its salt, from
  which its contract id follows; deploying one that exists fails, except where
  `fetchIfDeployed` looks first. `Via(g)` is the bridge as configured with gateway g, which
  refuses what g did not send. The SDK adds the contract inputs that a simulation
  finds missing: that is external.
- **`L1Contracts` to `Deployment`**. A script is a sequence of step records (one
  transaction, one file, one wait), in the order of its `await`s, and `Deployment` has
  one operator for each kind of step. `job` is the position in the run; it is lost in
  a crash, while `chain` and `files` stay. `chain.sent` is an upgrade that OpenZeppelin's
  `upgradeProxy()` sent and did not wait for: it may be mined any time up to the next
  transaction of the deployer. A gateway is linked to the recorded portal, but the one of testnet/016 to an address that the script has
  written down (`WrittenDown`, the constant `WrittenPortal`), which looks up no record. A script that returned true is recorded and skipped from
  then on; a script whose call reverts ends the run, and the operator may enter it by
  hand (`EnterMigration`), as `.migrations.json` of devnet shows. The Safe executes one proposal per
  nonce. Mainnet is deployed with and without `relinquish_ownership`, whose `skip` is set.
- **`BridgeTasks`**. A task is a process: the record it looks up, the role it checks, the
  call it sends, the event it reads back. Scripts, owners and other tasks go on
  meanwhile. A verification reads all records when it starts (`records`, from `deployments.all()`) and compares
  each with the chain as it is then; what it has verified is a name with an implementation. Deposits are in blocks, so that `depositMetadata` may find a message of another.
- **`WithdrawalPath`**. Blocks are heights. `client[m]` is the point the client of
  message m has reached and the root it read. The environment is an honest
  committer that commits in order and may repeat the last commit.

## 3. Runs

All runs check for deadlock except those that end by their bounds (all messages
sent, all heights committed, the longest proof made, all scripts done): the
`FungibleBridge`, `FuelHost`, `WithdrawalPath`, `VerifyBinaryTree` and `Deployment` runs.

| Run | Question | Instance | Why it is enough |
|---|---|---|---|
| `chain_state` | Can a committer, who may commit anything, make `finalized()` vouch too early, or evict a commit before it could be used? | 2 slots, 4 commit heights, 2 hashes, time 1 to 9, cooldown 3, finality 2 | two heights share each slot, a slot is reused three times, equality and inequality of hashes both occur, cooldown longer than finality |
| `chain_state_wrap` (violation) | Does a time that no longer fits the stored type break finality? | as above with modulus 6 | finding 1 |
| `chain_state_recommit` (violation) | Can a final commit be changed? | as `chain_state` | finding 2 |
| `rate_limiter` | Can resets and idle stretches release more than configured, or keep the limiter shut? | both initial forms, limits 1 and 3, durations 1 and 2, time 1 to 6 | three periods of two seconds, the limit lowered and raised within one |
| `message_portal` | Do callbacks, failures, blacklists, pauses and resets upset execution, books, ETH, sender or limiter? Does a relay take effect whole or not at all? | 2 messages with ETH, 2 chain states, precision 2, deposits of 0 to 4, ETH sent with the relay, time 1 to 3 | a message proved to two chain states (more roots are in the proof); two periods of the limiter; odd values test the precision; deposits meet the cap |
| `verify_binary_tree` | Does the verifier accept exactly the leaves of the tree, each at its key, with one proof? | trees of 0 to 8 leaves, any key up to one past the next, any leaf or a foreign one, any proof of up to 3 siblings from the tree or a foreign digest | every shape of tree between two complete ones; smaller trees get proofs that are too long |
| `erc20_gateway` | Do nested deposits and withdrawals and changing decimals leave the tokens short? | 1 token, factors 1 and 2, stack of depth 2, u64 of 0 to 2, one Fuel contract (others are in `token_bridge`) | a call inside a call, in every combination of deposit and withdrawal, at the caps |
| `fungible_bridge` | Is a unit ever minted twice, lost, or refunded twice? | 2 depositors, a user, a contract, u64 of 0 to 3, u256 of 0 to 7, 3 messages, 2 withdrawals, forged senders | amounts below, at and above the u64, two deposits that overflow together, a callback that withdraws |
| `fungible_bridge_live` | Is the bridge behind proxy, predicate and upgrades still that bridge, and does every deposit settle? | 1 depositor, a user, a contract; a deposit too large for a u64, one that calls its receiver, metadata: 2 messages at once; 2 operators, one with a KMS; a wrong gateway; 2 scripts after the deployment | two scripts in every interleaving, each crashing anywhere; one upgrade to a wrong implementation and one back; two messages in one transaction |
| `token_bridge` | Do both ends agree, and is the gateway an L1 side `FungibleBridge` may assume? | 1 token with factors 1 and 2, u64 of 0 to 2, 3 messages to Fuel, 2 back, another Fuel contract as issuer | deposits that fill the u64, withdrawn and deposited again, metadata and foreign senders; the issuer unset, replaced and set back with messages of both kinds on their way |
| `withdrawal_path` | Is a message ever paid before finality or for a root that does not prove it, or the portal short? Does every message arrive? | 2 slots, 3 commits, 2 messages; `FairSpec` | the third commit overwrites the first while clients wait; one message sits in the last block of an epoch; for liveness see fairness |
| `deployment` | Cut short and repeated, do the scripts of each network leave contracts that are wired and governed, and records that are true? Do tasks report and verify what is? | all six networks, one crash anywhere, one more run; on mainnet the multisig and up to 2 tasks, 2 blocks of deposits, two signers | every position of a crash in every script; a task against every step of the hand-over; two calls or two deposits at once; the written-down portal of testnet/016 is the second proxy, which is the portal when no run was cut short before it and another contract or an abandoned proxy otherwise |

Bounds are constants of the modules marked "bound": the clock, the numbers of
messages, the depth of the stack, the number of repeated commits. Model values
that the code treats alike are symmetric where no liveness is checked (hashes in
`ChainState`, depositors in `FungibleBridge`).

For each property of each passing run `PROJECT.json` has a mutant: a bug written
out next to the definition it replaces ("... with a bug") under which the run finds
the property violated.

### Properties worth knowing

- `FinalizedIsMature`, `NoCommitLostBeforeFinality`: the buffer against an arbitrary
  committer.
- `ExecutedOnce`, `EthAccounted`, `Solvent`, `SenderOnlyDuringCall`,
  `PeriodCountExact`: all hold inside calls too. `ImplementsEscrow` is a refinement:
  what other transactions see of the portal is `Escrow!Spec`, where a payment is
  one step.
- `PeriodWithinPeak` is exact: the amount a period releases is bounded by the
  largest limit in force during it. `SlidingWindowBounded` says what an observer who
  does not know the periods may rely on: twice the limit, not once.
- `OpensAgain`: whatever is withdrawn or reset, the limiter opens again for what the limit
  allows within one period.
- `Collateralised` holds at every moment of nested calls. It counts what the messages
  let Fuel have, not what the gateway believes, so it covers messages whose transfer failed.
- `Backed`: locked = in messages + minted + refundable + on its way back.
- `FullyBacked` counts to the unit, in whatever order messages arrive and whoever is the issuer meanwhile.
- `FuelSideHolds`: `TokenBridge` refines the whole specification of `FungibleBridge`, so
  the environment assumed there is what the gateway and portal provide.
- `ImplementsBridge`: `FuelHost` refines `FungibleBridge` as well, from the other side: what
  was proved or checked of the bridge alone holds behind proxy, predicate and upgrades.
- `ConsumedAsProcessed`: whoever puts transactions together, and whoever is first.
- `Governed`, `PauseStands`: the hand-over on mainnet, twelve grants and renunciations by
  four scripts, which may be cut short between any two.
- `RecordTruthful` says exactly when a record is right: one that was written too early is wrong
  only until the script that replaces it (`Repairs`) is over, as mainnet 017 does with the record of 006.
- `VerifiedBeforeExecution` relates records read at the start of a task to what the owners
  may execute meanwhile: the implementation that was verified is the one the proposal names.
- `Completes`: every script can be cut short anywhere and run again. Those that are refused then
  (`NotRepeatable`) stop the runs; once the operator has entered them by hand, the others come to their end.
- `RootProvesMessage`, `WithdrawalsCovered`, `PaidAfterFinality`, `MessagesArrive`: the
  two core contracts and the client together.

### Fairness

- `FuelHost!HostSpec`. Anyone may run `relay-deposit` again and again for a message that is
  unspent: strong fairness of `RelaySends(i)` for each message, because a running call,
  an earlier failure or a wrong implementation disables it for a while. Blocks take what
  is sent (strong, since a callback may be under way), a call that began ends (weak).
  No operator has to do anything: `MessagesSettleOnceServed` has the premise that the proxy in
  the end stays with a deployed implementation of the right gateway. Deposits with data are
  excluded: a receiver may fail for ever, as the TODO at `main.sw:445` admits.
- `RateLimiter!FairSpec`. Time passes (weak).
- `BridgeTasks!TaskSpec`. A run of the scripts goes on, and the operator starts another
  after a crash (weak fairness of `Run`). Nothing is assumed of crashes, which are bounded,
  of the owners of the multisig, or of tasks.
- `WithdrawalPath!FairSpec`. Fuel produces blocks, the committer commits and time
  passes (weak); a transaction has an outcome (weak); the client goes on (weak).
  A relay that can be made again and again is made (strong), and a recipient that
  is called again and again accepts in the end (strong): the code cannot promise
  either, since transactions and recipients may fail for ever. No fairness of
  `unpause`: `MessagesArrive` has the premise that the contracts are in the end
  neither paused nor paused over and over. The user restarts a client that failed or
  that polls a root whose slot was overwritten (`restart`); without that the
  property fails, which is hazard `waitForBlockFinalization.ts:47`.

### Findings

1. `FuelChainState.sol:142` stores `uint32(block.timestamp)`, and `finalized()` (line 161)
   compares it with the full timestamp. From 2106 on a commit is final in the block
   that makes it. Run `chain_state_wrap`.
2. `docs/ARCHITECTURE.md:18` says of a final epoch that "it cannot be reverted or
   changed". `commit()` checks only the cooldown of the slot, and can replace a final
   commit at its own height. Run `chain_state_recommit`.

### What the exceptions in properties mean

Some properties hold except for cases they name. Those cases are behaviour of the
code that nothing documents otherwise, so they are no findings, but worth knowing.

- `ReadTooEarly`: `upgradeProxy()` does not wait, and the script reads the implementation
  behind the proxy at once, which may still be the old one, and records it as the new:
  mainnet 006; testnet 003, 007, 009 and 018; devnet 010 and 011. Later scripts wait. The exception ends where a later script
  replaces the record (`Repairs`): mainnet 017, testnet 010 and 014; for the others it names none.
- `NotRepeatable`: scripts that throw when run a second time after a crash. `unpause()`
  reverts when it is done (testnet and devnet), `reinitializeV3()` runs once (testnet 019, devnet
  018). Devnet 006 and 008 wait for `deploymentTransaction()` of a contract that was attached to,
  which is null: they throw always, and their ids are in `.migrations.json` by hand. `Completes` is about
  devnet too: it says that nothing else stops the runs once these were entered.
- `Wired`: testnet 016 has the address of the portal written down. Where testnet 002 was cut short after
  its proxy was deployed, and made another, the literal and the record differ. Which portal the literal
  names was decided when the script was written, so `WrittenPortal` is any number, and the
  property lets a gateway of testnet refer to that address. No other script is excepted.
- `PauseStands`: the deployer keeps `PAUSER_ROLE` on all contracts after `relinquish_ownership`.
- Seen while modelling and part of the model, without a property: mainnet 014 reads
  `SET_RATE_LIMITER_ROLE` of the gateway (line 21) and grants it on the portal (line 43), so the
  multisig cannot execute the proposal of mainnet 018 until it grants itself the role; proposals
  made before an earlier one is executed carry the same nonce of the Safe, and only one of
  them can be executed; mainnet 016 records a prepared gateway without what is needed to
  verify it, so the verification tasks throw until the owners upgrade; `resetERC20RateLimit.ts:45` looks
  up a record `FuelERC20Gateway` that no script saves; two `depositToken` of one signer replace
  each other's allowance (`depositToken.ts:64`); `depositMetadata.ts:45` takes the first `MessageSent` of the
  block, whoever sent it, and line 57 prints its nonce as that of its own message, so that the operator who
  gives it to `relay-metadata.ts:34` may relay another one.

## 4. Proofs

The theorems hold for every value of the constants that satisfies the named
assumptions of the modules, which TLC evaluates on each run.

**`HeaderProofs`**, the first part (`TypeCorrect`, `FinalityTakesTime`, `CommitsSurviveToFinality`).
Assumption beyond the constructor's checks: `ClockFits`, the clock plus one cooldown
fits the stored type. Finding 1 shows it is needed. The invariant is
`SlotsMirrorHistory`: what a slot stores is the last commit accepted there with its
real time, which is not in the future. With it `finalized()` speaks of real time, and
since the constructor demands `TIME_TO_FINALIZE <= COMMIT_COOLDOWN`, a slot that has
cooled down holds a mature commit. The constructor is also what makes
`BlocksPerInterval` positive, and so the slot of a block height well defined.

**`HeaderProofs`**, the second part (`VerifierIsExact`, `OnlyGenuineAccepted`, `AllLeavesProvable`): the Merkle
proofs under the header that a chain state vouches for, for trees of any number of leaves and proofs of any length. The run has
trees of up to eight leaves, which is where the shapes begin to differ; the theorem says that nothing else happens in
larger ones. `VerifierIsExact` is about the operators alone: `verifyBinaryTree` is true of `(k, leaf, siblings)` exactly
when `k` is a key of the tree, `leaf` is its leaf and `siblings` are the tree's own. The argument has
three parts. *Length*: `pathLengthFromKey`, which recurs into the right part of the tree, counts the levels on which
the way from the leaf to the root has a neighbour (`LengthOfPath`, by strong induction on the size of the tree). *Direction*: what the
loop decides from the end of a subtree, and the code after it from the orphan test, is whether that neighbour is on the
right (`Direction`). *Digest*: when the two agree, the terms are equal level by level (`ReachedIsGenuine`), and a node is
made of two digests in one way only. Since an induction theorem whose property is an operator cannot be used here,
`Induction` and `StrongInduction` have the property as a set of numbers, and each recursive function is first shown to
exist, put together from what it is up to any number, and then unfolded (`ShiftUnfolds`, `LevelUnfolds`, ...).

**`SumTheorems`**. The accounts of the bridge are sums over holders, depositors, messages or
moments (`SumFunctionOnSet` of the community modules, a function defined by recursion on
sets). What an element or a changed value adds to such a sum takes induction over finite sets.
The library's induction theorems have an operator as parameter, so the module states one of its
own whose property is a set of sets (`FiniteInduction`), and proves it from the theorem that the
subsets of a finite set are well-founded. The proofs below only use its lemmas (`SumAdd`, `SumRemove`,
`SumChange`, `SumExtend`, ...).

**`RateLimiterProofs`** (`PeriodOutflowBounded`, `WindowOutflowBounded`). For the first, the invariant adds
`CountIsExact`: the outflow of the period is the limiter's amount, and the limit never
exceeds the peak. `PeriodWithinPeak` alone is not inductive, because nothing would connect
the amount tested by the contract to the ETH that left. For the second, `WindowInv` adds
`PeriodsApart`: there is a moment at which the running period began, one shortest duration before
its end or earlier; what was withdrawn since then is the limiter's amount; and one shortest
duration before it let out no more than the largest limit. `NothingLater` and `SetUp` are what
makes a new period begin at the moment of a withdrawal.

**`MessagePortalProofs`** (`TypeCorrect`, `NoDoubleExecution`, `BooksBalance`,
`AlwaysSolvent`, `SenderScoped`, `LimiterCountsExactly`, `PortalIsEscrow`). The invariant speaks of two
portals at once while a call runs: the present one and the one the call began with
(`call.before`), to which a failure returns. Both have balanced books (`Balanced`);
the earlier one is `Settled` (no sender, every message executed as often as it is
marked); and the present one differs from it in relays by exactly the message that
is running (`Executing`), and holds at least what the earlier one held less that
message. The last part is what lets a return be a step of `Escrow`. Each action's
effect is a lemma (`SendEffect`, `ExecuteEffect`, `AdministrationEffect`), so that the
step lemmas do not open the record again. `CountInv` says of both portals that the limiter's
amount is the sum of what was charged in the running period; a failing relay returns to a
portal of which it was said before the call, since time stands still within a transaction.

**`FungibleBridgeProofs`** (`TypeCorrect`, `SupplyIsHeld`, `AllIsBacked`, `RefusedIsRefunded`). `TypeOK` says more than types: what is
minted fits a `u64`, refunds a `u256`, no balance is below zero, and `total_assets` counts
every registered asset once, which is the exact arithmetic of `_process_deposit`. The
invariant adds that L1 has released nothing that a failing call would take back
(`l1.released` lies within the outbox of `before`), for otherwise a failure could leave L1
with a withdrawal that was never made; and that the storage saved in the frame counts its
assets too. The three accounts are proved together (`BooksInv`), since a withdrawal moves units from
one to the other and an overflow is decided by the supply. `Booked` says them of a storage and a
set of messages that count as unspent: of the present storage without the message of the running
call, and of the saved one with it. One lemma per operation says what it does to the accounts of any
two storages (`MintBooked`, `RefundBooked`, `WithdrawBooked`, ...).

**`ERC20GatewayProofs`** (`TypeCorrect`, `AlwaysCollateralised`). Deposits and messages fit a `u64` and no balance
is overdrawn, at any depth of calls within calls. `TypeOK` is inductive because it types the
storage saved in every frame of the stack, and a failure returns to one of these. `Collateralised` holds
of the present storage with all running deposits, but not of a saved one: that of frame i lacks the
tokens of the deposits below it, and those above it had not begun. `CollateralInv` says it of each
storage with the deposits that wait below its frame (`IncomingBelow`). It needs
that nothing is counted as deposited while no factor is cached.

**`FungibleBridgeProofs`**, the bridge among its neighbours (`HostImplementsBridge`, `LedgerAgrees`, `ProxyServes`,
`RevocationIsFinal`, `HostTypeCorrect`): first behind its proxy. Assumed in `HostAssumption`: the addresses that
stand for nobody (zero, unset, revoked) sign nothing; L1 sends amounts that
`FungibleBridge` allows; and nobody sends messages from the address a wrong
implementation takes for its gateway. The last is what makes `HostImplementsBridge` true: such an
implementation refuses every message, and does nothing FungibleBridge would not do.
Two invariants are needed. `LedgerInv`: what the ledger used up is what the bridge
processed, and what is underway is the message of the running call; the predicate admits no
transaction with two messages, so the script of a transaction speaks of all of
its messages (`OneMessage`). `ProxyInv` speaks of scripts as well as of the proxy: what a
script is about to set as target is deployed, because it deployed or found it first and
nothing is ever undeployed. A revoked owner is the address of nobody, so
`checkOwner` passes for no script and the proxy stands. `HostTypeCorrect` follows from the
refinement and `FungibleBridgeProofs` without a step of its own.

Then with the gateway at the other end (`GatewaySuitsBridge`, `NothingRefused`, `EndToEndBacked`): the two
ends of the ERC-20 bridge. `TokenBridgeAssumption` gives `FungibleBridge` the amounts the gateway
can send, all that fit a `u64`, and one `u64` of supply per token. `GatewayInv` says what the gateway is between
transactions (`Settled`): what it counts as deposited is what is locked for the Fuel bridge and for other
issuers, with the tokens for it. While a deposit runs, the saved storage is settled and the present one
is that storage with one message more and its tokens still to come (`Depositing`); while a
withdrawal runs, it is that storage without the withdrawal (`Withdrawing`), and the message was
not executed before (`Relayed`). So what reaches Fuel at the end of a deposit is one message
with what was locked for it, and what an issuer sends back was locked for that issuer. `FuelInv`
adds to `BooksInv` that the Fuel bridge has nothing but messages of the gateway, and refused none, also in the
storage to which a failing call returns: by the accounts an unspent deposit and the supply are both part of
what is locked, which the gateway keeps within a `u64` (`RoomForDeposit`). `GatewaySuitsBridge` makes every
theorem about `FungibleBridge` one about the two ends.

**`WithdrawalPathProofs`** (`FinalityBeforePayment`, `ClientRootsProve`, `AlwaysCovered`). Assumption beyond
the module's for the first two: `ClockFits`, no stored time wraps (finding 1). The invariant has one part for
each component. `SlotsInv`: a slot stores what the committer sent and when, and a hash it
stores is of a block Fuel has produced. `PortalInv`: the portal refers to this chain state, and the
storage to which a failing call returns counts no execution more than the present one, so that a
failure is never taken for a payment. `ClientInv`: a root that a client holds is of a
block later than its message. `PaidAfterFinality` is an action property; the proof follows the
root given to `relayMessage` back to the slot and from there to the commit. `AlwaysCovered` needs no
assumption on the clock. `LedgerInv` is about both portals of a running call again: what each paid
is the sum of the messages it has executed, and it is kept for the one that runs that it was not
among these. What all messages carry came in before Fuel produced a block, so what is left covers the
rest.

**`DeploymentProofs`** (`GovernedThroughout`, `PauseStandsThroughout`, `ReportIsFaithful`,
`VerifiedThroughout`, `CommitterIsKept`, `WiredThroughout`, `RecordsTruthfulThroughout`). Its invariants are in `DeploymentInvariants`, which has no theorem, so
that TLC can evaluate them as well. The deployment and the tasks of its operators, for any number of
crashes, reruns, tasks and blocks, and for any accounts that sign but the multisig, which has
no key (`TaskBounds`). The runs stop after few crashes and a few tasks at most. What holds after a crash
depends on how far a list of scripts got, so `DeployInv` is an invariant of positions: `Over(i)` says that
script i is recorded, `Reached(i, k)` that its k-th step was taken, by the script that runs now or by one that came to its end. On mainnet it says:

- *order* (`OrderInv`): no script is refused, and one is over or due only if those before it are over,
  although a run that was cut short leaves some of its steps done and begins the script anew;
- *records* (`RecordsInv`): a recorded address is that of a proxy with the contract the name stands for, from the script on that
  creates it, whatever was deployed and abandoned;
- *proposals* (`ProposalsInv`): what is put before the owners grants and limits, or upgrades the portal to
  the implementation recorded last, by no script that another one follows that records another;
- *roles* (`RolesInv`): the deployer has only what it got by deploying; it has all of it until
  script 14 is over; after each step of 12 to 14 the multisig has the role that step hands over; after each of
  the six steps of 15 the deployer lacks what it gives up.

The last part is why no crash between `transfer_ownership` and `relinquish_ownership` leaves a contract without an
administrator: a step of 15 is reached only when 12 to 14 are over. On the other networks (`OthersInv`) there is no
hand-over, and of every contract the deployer, or the multisig on the fork, is still administrator. `ReportFaithful` needs what
happens between the queries of the filter (`Filtered`): whoever can revoke revokes from the deployer only
what it holds at the first query, and nobody grants to it. `VerifiedBeforeExecution` needs that a
proposal made is one to the recorded implementation as long as it is open, so that the records a task
reads at its start name what the owners may execute (`VerifyInv`): whatever scripts record later, what the
task finds in its records is that implementation, and it is verified or, when the
owners were faster, behind the proxy.

`CommitterKept` could break where the chain state is replaced, on testnet and devnet: the portal is pointed to
the recorded chain state, whatever proxy that is by then. `RegisterInv` says of the script that
replaces it, `chain_state_redeploy`, and the next, `redeploy_register_committer`, that no step of theirs
is refused, so that the operator has no reason to enter them as done by hand (`NotRefused`); that a run comes to a script
after them, or records one of them, only when all up to them are recorded (`InOrder`); that the recorded
chain state is a proxy then (`Replaced`); and that its committer is registered when the second is recorded
(`Registered`), which no script takes back. A portal is linked
two scripts later, so to a chain state with a committer. On mainnet the role outlives the hand-over, in
which the deployer gives up its own only; on the other networks nobody loses a role.

`Wired` is about every list at once. `Wiring` says of each which script makes the chain state,
the portal or a gateway, which renews its record, which links the portal anew, and in which order
(`TheWiring` reads it off the lists). Then `WiringInv` is one argument for all networks: scripts are recorded in
the order of the list (`WiredInOrder`); a record that a script past its deployment leaves is of a
contract of the right kind (`RightKinds`) and is linked to what its record names (`RightLinks`), which only the
making and the linking steps change; and within a script that makes something, what it has made is its own (`AtHand`).
A gateway whose script has the portal written down is linked to that address instead (`GivenTo`,
`AsWritten`). `LinkedInv` says that each portal refers to a contract that exists; of gateways it is not said, since
nothing is known of a literal.

`RecordTruthful` is hard because an upgrade is sent in one step and in a block later, while the script, or the
next one after a crash, may already read what is behind the proxy. `TruthInv` makes the records right up to
the scripts that are still to repair them: a record names what is behind its proxy, with no
upgrade of that proxy on its way (`Truthful`), or a script that upgrades it is not yet recorded as done and something
was cut short, was refused or is running (`Begun`). The second case is gone when a run comes to its end, since then every
script that is recorded at all is (`MigratedInOrder`). It is kept because a script that
makes or renews a proxy and waits reads when nothing is on its way (`ReadInTime`), so that the
record is right as its last step is done (`SavedInTime`). The exceptions in the property,
records of scripts that read without waiting (`ReadTooEarly`) and of upgrades only prepared, are
those of the code, and are where this argument breaks. `RepairInv` is why the first kind does not last: a script
that replaces such a record (`RepairedBy`) saves it in its last step, comes after the script that wrote it, and
is recorded only when that one is, which no run comes to again.

**Only model-checked**: liveness (`OpensAgain`, `MessagesSettleOnceServed`, `MessagesArrive`,
`Completes`), which is out of the prover's reach. Every safety property of a passing run is a theorem.

## 5. Not modelled

- Headers and hashing: a header is a value, a digest is a term.
- V1 to V3 of the ERC-20 gateway, the ERC-721 gateways, `rescueETH`, ETH sent along
  with gateway calls. Roles are in `L1Contracts`; in the modules of the bridge an action
  of administration is taken by somebody who may.
- Token names, symbols and decimals on Fuel, and the byte layout of messages.
- Tokens that move another amount than asked: `FuelERC20GatewayV4.sol:405` excludes them.
- Coins forwarded to `process_message`, and deposits to contracts that do not exist.
- Fees, gas and how signers and keys are obtained.
- External and modelled only by what the code here makes of it: hardhat-deploy, OpenZeppelin's
  upgrades plugin and contracts, the Safe, the Fuel SDK, Fuel's ledger and the block committer.
- Deployment of the retired networks beta5 and beta5devnet: superseded contracts, and scripts
  built like those of devnet. The scripts of live networks ran against earlier commits of the
  contracts; they are modelled with what the scripts say now.
- Harness and test set-up, `scripts/utils.ts`, `withdraw-init`, `deposit-to-coin` and the `check-*` scripts: one
  transaction or none each, which the bridge modules have as actions already.
- The base asset contract, which is constant, and docker images.

## 6. Plan

Written so far, in this order: the core contracts (`ChainState`, `RateLimit`,
`MessagePortal` with `Escrow` and their proofs), the proof verifier, the two ends of the
ERC-20 bridge, their composition, the path of a withdrawal, the bridge behind its proxy,
predicate and operators, and the deployment with its tasks. What is left:

1. **Extend the model.**
   - `ERC721Gateway`: deposits by token id, one owner of an id at any time.
   - `rescueETH` and `msg.value` in the gateway.
   - The portal with its limiter under fairness: a withdrawal within the limit is paid once
     a period has ended (`RateLimiter` has it of the limiter alone).
   - An abstract `Peg` (one supply, locked or free) that `TokenBridge` refines, as
     `MessagePortal` refines `Escrow`.
2. **Prove more.** Calls within calls of
   the gateway in `TokenBridge`, whose stack is one frame deep (`ERC20GatewayProofs` has any depth for
   the gateway alone).
