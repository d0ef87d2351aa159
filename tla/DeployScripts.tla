--------------------------- MODULE DeployScripts ----------------------------
(***************************************************************************)
(* A deploy script of hardhat-deploy as data: its id, and the steps it      *)
(* awaits one after the other.  A step is one transaction, one file that is *)
(* written, or one wait; Deployment says what each does.                    *)
(*                                                                          *)
(* A script that returns true is recorded in .migrations.json under its id  *)
(* and not run again.  The others run every time.                           *)
(***************************************************************************)
EXTENDS L1Contracts, Integers, Sequences

Script(id, steps) == [id |-> id, steps |-> steps, migrates |-> TRUE, skip |-> FALSE]
RepeatedScript(id, steps) == [id |-> id, steps |-> steps, migrates |-> FALSE, skip |-> FALSE]
SkippedScript(id, steps) == [id |-> id, steps |-> steps, migrates |-> TRUE, skip |-> TRUE]

-----------------------------------------------------------------------------
(* Steps.  Contracts are named by their record under deployments/.          *)

\* Stands for a record where a script has the address of a portal written down.
WrittenDown == "written down"

\* upgrades.deployProxy() and waitForDeployment(); linkedTo is the record of the
\* contract the initializer takes, "" if none.
DeployProxy(contract, initializer, linkedTo) ==
    [op |-> "deployProxy", contract |-> contract, initializer |-> initializer,
     linkedTo |-> linkedTo]

\* Reads the implementation behind the proxy at hand, and saves both.
Save(name) == [op |-> "save", name |-> name]

\* upgrades.upgradeProxy(): sends the upgrade and does not wait for its block.
UpgradeProxy(name) == [op |-> "upgradeProxy", name |-> name]

\* Waits until the upgrade that was sent is in a block.
AwaitUpgrade == [op |-> "awaitUpgrade"]

\* contract.deploymentTransaction().wait() of a contract that was attached to
\* and not deployed: there is no such transaction, and null has no wait().
AwaitDeployment == [op |-> "awaitDeployment"]

\* upgrades.prepareUpgrade(): deploys an implementation.
PrepareUpgrade(name) == [op |-> "prepareUpgrade", name |-> name]

\* upgradeProxy() to it, with a call of reinitializeV3().
UpgradeAndReinitialize(name) == [op |-> "upgradeAndReinitialize", name |-> name]

\* Saves it; verifiable are the records that hold the transaction that deployed
\* it and its constructor arguments.
SavePrepared(name, verifiable) ==
    [op |-> "savePrepared", name |-> name, verifiable |-> verifiable]

\* A transaction of the deployer, that is waited for.
Execute(name, call) == [op |-> "execute", name |-> name, sender |-> "deployer", call |-> call]
ExecuteAs(sender, name, call) ==
    [op |-> "execute", name |-> name, sender |-> sender, call |-> call]

\* setFuelChainState() with the recorded chain state.
LinkChainState(name) == [op |-> "linkChainState", name |-> name]

\* The record of the bridge contract on Fuel.
SaveL2Bridge == [op |-> "saveL2Bridge"]

\* A transaction of the Safe, signed by one owner and left to the others.
Propose(calls) == [op |-> "propose", calls |-> calls]

\* The proposal to upgrade to the recorded implementation.
ProposeUpgrade(name) == [op |-> "proposeUpgrade", name |-> name]

\* Tokens to test with: one that is deployed, and those put at the addresses
\* that known tokens have.
DeployToken == [op |-> "deployToken"]
SetToken(token) == [op |-> "setToken", token |-> token]

\* The addresses the other services of a local network fetch.
WriteAddresses(names) == [op |-> "writeAddresses", names |-> names]

-----------------------------------------------------------------------------
(* Steps that several scripts have in common *)

DeployAndSave(contract, initializer, linkedTo, name) ==
    <<DeployProxy(contract, initializer, linkedTo), Save(name)>>

UpgradeAndSave(name) == <<UpgradeProxy(name), Save(name)>>

GrantCommitter(name) == <<Execute(name, GrantRole("COMMITTER_ROLE", "committer"))>>

SetIssuer(name) == <<Execute(name, Call("setAssetIssuerId"))>>

Tokens == {"USDT", "USDC", "WBTC", "WETH"}

SetTokens == <<SetToken("USDT"), SetToken("USDC"), SetToken("WBTC"), SetToken("WETH")>>

=============================================================================
