----------------------------- MODULE Deployment -----------------------------
(***************************************************************************)
(* The deployment of the L1 contracts: hardhat-deploy runs the scripts of a *)
(* network in the order of their file names, each step of a script being a  *)
(* transaction or a file.  A run may stop between any two steps, because    *)
(* the process dies or a step throws.  The next run starts over with the    *)
(* first script that is not recorded as done, from its first step, with the *)
(* chain and the files as the last run left them.                           *)
(*                                                                          *)
(* The implementation a script deploys is named after it: the manifest of   *)
(* OpenZeppelin finds the one of an earlier attempt by its bytecode.  The   *)
(* proxies are numbered in the order they are deployed in.                  *)
(*                                                                          *)
(* On mainnet a multisig takes over.  Scripts propose transactions to it,   *)
(* with the nonce the Safe has at that moment, and its owners execute them  *)
(* when they see fit.                                                       *)
(***************************************************************************)
EXTENDS DeployScripts, FiniteSetsExt, Functions

CONSTANTS
    Networks,       \* the networks to look at
    WrittenPortal,  \* the address of the portal that testnet/016 has written down
    MaxCrashes,     \* bound: runs that die
    MaxReruns       \* bound: runs after one that came to its end

ASSUME WrittenPortalAssumption == WrittenPortal \in Nat

ASSUME DeploymentBounds == MaxCrashes \in Nat /\ MaxReruns \in Nat

Mainnet == INSTANCE MainnetScripts
Testnet == INSTANCE TestnetScripts
Devnet == INSTANCE DevnetScripts
Hardhat == INSTANCE HardhatScripts
Fork == INSTANCE ForkScripts
UpgradeTest == INSTANCE UpgradeTestScripts

ScriptsOf ==
    [mainnet |-> Mainnet!Scripts, testnet |-> Testnet!Scripts, devnet |-> Devnet!Scripts,
     hardhat |-> Hardhat!Scripts, fork |-> Fork!Scripts, upgradeTest |-> UpgradeTest!Scripts]

AllNetworks == DOMAIN ScriptsOf

ASSUME NetworksAssumption == Networks \subseteq AllNetworks

VARIABLES
    network,    \* the network, and whether relinquish_ownership is skipped
    chain,      \* the proxies, the upgrade that is not in a block, the tokens
    files,      \* deployments/, .migrations.json, deployments.local.json
    job,        \* the script that runs, if any
    safe,       \* the multisig: its nonce, its open proposals, what it executed
    seen        \* history

vars == <<network, chain, files, job, safe, seen>>

Scripts == ScriptsOf[network.name]

Idle == [at |-> 0, pc |-> 0, address |-> 0, implementation |-> "", reached |-> 0]

NothingSent == [address |-> 0, implementation |-> ""]

\* What a fork of mainnet starts from: the contracts the multisig administers.
MainnetContract(contract, linked) ==
    [NewContract(contract, "initializerV3", "mainnet", linked) EXCEPT
        !.roles = {"DEFAULT_ADMIN_ROLE", "PAUSER_ROLE"} \X {"multisig"},
        !.granted = {"DEFAULT_ADMIN_ROLE", "PAUSER_ROLE"} \X {"multisig"},
        !.issuer = TRUE, !.whitelist = TRUE]

ForkedContracts == <<
    MainnetContract("FuelChainState", 0), MainnetContract("FuelMessagePortal", 1),
    MainnetContract("FuelERC20Gateway", 2)>>

Record(address, implementation, script, prepared, verifiable) ==
    [address |-> address, implementation |-> implementation, script |-> script,
     prepared |-> prepared, verifiable |-> verifiable]

ForkedRecords ==
    LET Forked(address) == Record(address, "mainnet", "", FALSE, FALSE) IN
    [FuelChainState |-> Forked(1), FuelMessagePortal |-> Forked(2), FuelERC20GatewayV4 |-> Forked(3)]

Init ==
    /\ \E n \in Networks, s \in BOOLEAN :
            /\ s \/ n = "mainnet"
            /\ network = [name |-> n, skips |-> s]
            /\ chain = [contracts |-> IF n = "fork" THEN ForkedContracts ELSE <<>>,
                        sent |-> NothingSent, tokens |-> {}]
            /\ files = [records |-> IF n = "fork" THEN ForkedRecords ELSE <<>>,
                        migrations |-> {}, addresses |-> <<>>]
    /\ job = Idle
    /\ safe = [nonce |-> 0, open |-> {}, executed |-> {}]
    /\ seen = [refused |-> {}, finished |-> FALSE, byHand |-> FALSE, crashes |-> 0, reruns |-> 0]

-----------------------------------------------------------------------------
(* A run of the scripts *)

Running == job # Idle

InScript == job.pc > 0

script == Scripts[job.at]

step == script.steps[job.pc]

\* The scripts of a run: those not recorded as done, and not skipped.
ToRun(i) ==
    /\ Scripts[i].id \notin files.migrations
    /\ ~(Scripts[i].skip /\ network.skips)

\* hardhat deploy: starts with the first script there is to run.
Start ==
    /\ ~Running
    /\ seen.finished => seen.reruns < MaxReruns /\ \E i \in DOMAIN Scripts : ToRun(i)
    /\ job' = [Idle EXCEPT !.reached = 1]
    /\ seen' = [seen EXCEPT !.reruns = @ + (IF seen.finished THEN 1 ELSE 0),
                            !.finished = FALSE]
    /\ UNCHANGED <<network, chain, files, safe>>

\* The next script of the run, or its end.
NextScript ==
    LET rest == {i \in job.reached .. Len(Scripts) : ToRun(i)} IN
    /\ Running /\ ~InScript
    /\ IF rest # {}
       THEN /\ job' = [Idle EXCEPT !.at = Min(rest), !.pc = 1, !.reached = Min(rest)]
            /\ UNCHANGED seen
       ELSE /\ job' = Idle
            /\ seen' = [seen EXCEPT !.finished = TRUE]
    /\ UNCHANGED <<network, chain, files, safe>>

\* With a bug: a script that is not recorded comes again in the same run.
ScriptReturnsUnrecorded ==
    /\ InScript
    /\ job.pc > Len(script.steps)
    /\ files' = [files EXCEPT
            !.migrations = IF script.migrates THEN @ \union {script.id} ELSE @]
    /\ job' = [Idle EXCEPT !.reached = 1]
    /\ UNCHANGED <<network, chain, safe, seen>>

\* The script is done, and recorded if it returned true.
ScriptReturns ==
    /\ InScript
    /\ job.pc > Len(script.steps)
    /\ files' = [files EXCEPT
            !.migrations = IF script.migrates THEN @ \union {script.id} ELSE @]
    /\ job' = [Idle EXCEPT !.reached = job.at + 1]
    /\ UNCHANGED <<network, chain, safe, seen>>

Done == [job EXCEPT !.pc = @ + 1]

\* A step throws, and ends the run.
Throw ==
    /\ job' = Idle
    /\ seen' = [seen EXCEPT !.refused = @ \union {script.id}]
    /\ UNCHANGED <<network, chain, files, safe>>

Crash ==
    /\ Running
    /\ seen.crashes < MaxCrashes
    /\ job' = Idle
    /\ seen' = [seen EXCEPT !.crashes = @ + 1]
    /\ UNCHANGED <<network, chain, files, safe>>

\* The operator enters a script that can not be repeated as done, by hand.
EnterMigration(id) ==
    /\ ~Running
    /\ id \in seen.refused \ files.migrations
    /\ files' = [files EXCEPT !.migrations = @ \union {id}]
    /\ seen' = [seen EXCEPT !.byHand = TRUE]
    /\ UNCHANGED <<network, chain, job, safe>>

-----------------------------------------------------------------------------
(* Steps *)

Recorded(name) == name \in DOMAIN files.records

Address(name) == files.records[name].address

Contract(name) == chain.contracts[Address(name)]

\* What an initializer is given: nothing, an address, or that of a record.
Linked(name) ==
    CASE name = "" -> 0
      [] name = WrittenDown -> WrittenPortal
      [] OTHER -> Address(name)

\* An upgrade that was sent comes to be in a block, at the latest before the
\* next transaction of the deployer.
Settled ==
    IF chain.sent = NothingSent THEN chain.contracts
    ELSE [chain.contracts EXCEPT ![chain.sent.address].implementation = chain.sent.implementation]

Mined ==
    /\ chain.sent # NothingSent
    /\ chain' = [chain EXCEPT !.contracts = Settled, !.sent = NothingSent]
    /\ UNCHANGED <<network, files, job, safe, seen>>

deployProxy ==
    /\ step.op = "deployProxy"
    /\ LET new == NewContract(step.contract, step.initializer, script.id, Linked(step.linkedTo))
       IN  chain' = [chain EXCEPT !.contracts = Append(Settled, new), !.sent = NothingSent]
    /\ job' = [Done EXCEPT !.address = Len(chain.contracts) + 1]
    /\ UNCHANGED <<network, files, safe, seen>>

\* deployments.save(): the record of that name is new, or replaced.
SaveRecord(name, record) ==
    files' = [files EXCEPT !.records =
        [n \in DOMAIN @ \union {name} |-> IF n = name THEN record ELSE @[n]]]

save ==
    /\ step.op = "save"
    /\ SaveRecord(step.name,
            Record(job.address, chain.contracts[job.address].implementation,
                   script.id, FALSE, FALSE))
    /\ job' = Done
    /\ UNCHANGED <<network, chain, safe, seen>>

\* A call of a contract in a transaction that is waited for; a call that reverts
\* throws.
Transaction(address, sender, call) ==
    LET c == Settled[address] IN
    IF Allowed(c, sender, call)
    THEN /\ chain' = [chain EXCEPT !.contracts = [Settled EXCEPT ![address] = After(c, sender, call)],
                                   !.sent = NothingSent]
         /\ job' = [Done EXCEPT !.address = address]
         /\ UNCHANGED <<network, files, safe, seen>>
    ELSE Throw

upgradeProxy ==
    /\ step.op = "upgradeProxy"
    /\ LET address == Address(step.name) IN
       IF Allowed(Settled[address], "deployer", UpgradeTo(script.id))
       THEN /\ chain' = [chain EXCEPT !.contracts = Settled,
                    !.sent = [address |-> address, implementation |-> script.id]]
            /\ job' = [Done EXCEPT !.address = address]
            /\ UNCHANGED <<network, files, safe, seen>>
       ELSE Throw

awaitUpgrade ==
    /\ step.op = "awaitUpgrade"
    /\ chain.sent = NothingSent
    /\ job' = Done
    /\ UNCHANGED <<network, chain, files, safe, seen>>

awaitDeployment ==
    /\ step.op = "awaitDeployment"
    /\ Throw

prepareUpgrade ==
    /\ step.op = "prepareUpgrade"
    /\ job' = [Done EXCEPT !.address = Address(step.name), !.implementation = script.id]
    /\ UNCHANGED <<network, chain, files, safe, seen>>

upgradeAndReinitialize ==
    /\ step.op = "upgradeAndReinitialize"
    /\ LET address == Address(step.name)
           c == Settled[address]
           call == UpgradeToAndReinitialize(job.implementation)
       IN  IF Allowed(c, "deployer", call)
           THEN /\ chain' = [chain EXCEPT
                        !.contracts = [Settled EXCEPT ![address] = After(c, "deployer", call)],
                        !.sent = NothingSent]
                /\ job' = Done
                /\ UNCHANGED <<network, files, safe, seen>>
           ELSE Throw

savePrepared ==
    /\ step.op = "savePrepared"
    /\ SaveRecord(step.name,
            Record(Address(step.name), job.implementation, script.id, TRUE, step.verifiable))
    /\ job' = Done
    /\ UNCHANGED <<network, chain, safe, seen>>

execute ==
    /\ step.op = "execute"
    /\ Transaction(Address(step.name), step.sender, step.call)

linkChainState ==
    /\ step.op = "linkChainState"
    /\ Transaction(Address(step.name), "deployer", SetFuelChainState(Address("FuelChainState")))

saveL2Bridge ==
    /\ step.op = "saveL2Bridge"
    /\ SaveRecord("FuelL2BridgeId", Record(0, "", script.id, FALSE, FALSE))
    /\ job' = Done
    /\ UNCHANGED <<network, chain, safe, seen>>

ProposeCalls(calls) ==
    /\ safe' = [safe EXCEPT !.open = @ \union
            {[nonce |-> safe.nonce, script |-> script.id, calls |-> calls]}]
    /\ job' = Done
    /\ UNCHANGED <<network, chain, files, seen>>

propose ==
    /\ step.op = "propose"
    /\ ProposeCalls(step.calls)

proposeUpgrade ==
    /\ step.op = "proposeUpgrade"
    /\ ProposeCalls(<<[name |-> step.name,
                       call |-> UpgradeTo(files.records[step.name].implementation)]>>)

deployToken ==
    /\ step.op = "deployToken"
    /\ SaveRecord("Token", Record(0, "", script.id, FALSE, FALSE))
    /\ job' = Done
    /\ UNCHANGED <<network, chain, safe, seen>>

setToken ==
    /\ step.op = "setToken"
    /\ chain' = [chain EXCEPT !.tokens = @ \union {step.token}]
    /\ job' = Done
    /\ UNCHANGED <<network, files, safe, seen>>

writeAddresses ==
    /\ step.op = "writeAddresses"
    /\ files' = [files EXCEPT !.addresses =
            [n \in DOMAIN files.records \intersect step.names |-> files.records[n].address]]
    /\ job' = Done
    /\ UNCHANGED <<network, chain, safe, seen>>

\* The records a step gets: deployments.get() throws for one that is missing.
Looked(s) ==
    CASE s.op = "deployProxy" -> {s.linkedTo} \ {"", WrittenDown}
      [] s.op = "linkChainState" -> {s.name, "FuelChainState"}
      [] s.op \in {"upgradeProxy", "prepareUpgrade", "upgradeAndReinitialize", "savePrepared",
                   "execute", "proposeUpgrade"} -> {s.name}
      [] OTHER -> {}

Step ==
    /\ InScript
    /\ job.pc <= Len(script.steps)
    /\ IF ~ (Looked(step) \subseteq DOMAIN files.records) THEN Throw
       ELSE \/ deployProxy
            \/ save
            \/ upgradeProxy
            \/ awaitUpgrade
            \/ awaitDeployment
            \/ prepareUpgrade
            \/ upgradeAndReinitialize
            \/ savePrepared
            \/ execute
            \/ linkChainState
            \/ saveL2Bridge
            \/ propose
            \/ proposeUpgrade
            \/ deployToken
            \/ setToken
            \/ writeAddresses

-----------------------------------------------------------------------------
(* The multisig *)

\* The contracts after the calls of a proposal, which takes place whole or not
\* at all.  No proposal calls a contract twice.
Outcome(contracts, calls) ==
    [a \in DOMAIN contracts |->
        LET here == {c \in Range(calls) : Address(c.name) = a} IN
        IF here = {} THEN contracts[a]
        ELSE After(contracts[a], "multisig", (CHOOSE c \in here : TRUE).call)]

Executable(p) ==
    \A i \in DOMAIN p.calls : Allowed(Contract(p.calls[i].name), "multisig", p.calls[i].call)

\* The owners execute a proposal; the others with its nonce never can be.
ExecuteProposal(p) ==
    /\ p.nonce = safe.nonce
    /\ Executable(p)
    /\ chain' = [chain EXCEPT !.contracts = Outcome(@, p.calls)]
    /\ safe' = [nonce |-> safe.nonce + 1,
                open |-> {q \in safe.open : q.nonce # p.nonce},
                executed |-> safe.executed \union {p.script}]
    /\ UNCHANGED <<network, files, job, seen>>

\* The owners upgrade to an implementation that was prepared for them, without a
\* proposal of a script.
UpgradeByOwners(n) ==
    /\ files.records[n].prepared
    /\ LET call == UpgradeTo(files.records[n].implementation) IN
       /\ Contract(n).implementation # call.implementation
       /\ Allowed(Contract(n), "multisig", call)
       /\ chain' = [chain EXCEPT !.contracts[Address(n)] = After(@, "multisig", call)]
    /\ UNCHANGED <<network, files, job, safe, seen>>

Run == Start \/ NextScript \/ ScriptReturns \/ Step \/ Mined

Next ==
    \/ Start
    \/ NextScript
    \/ ScriptReturns
    \/ Step
    \/ Mined
    \/ Crash
    \/ \E id \in seen.refused : EnterMigration(id)
    \/ \E p \in safe.open : ExecuteProposal(p)
    \/ \E n \in DOMAIN files.records : UpgradeByOwners(n)

Spec == Init /\ [][Next]_vars

-----------------------------------------------------------------------------
(* Properties *)

Contracts == {n \in DOMAIN files.records : Address(n) > 0}

Has(c, role, account) == <<role, account>> \in c.roles

\* However runs are cut short and repeated, the hand-over to the multisig leaves
\* no recorded proxy without an administrator at any time; and once
\* relinquish_ownership is recorded, the deployer can only pause, and the
\* multisig governs all three contracts.
Governed ==
    /\ \A n \in Contracts : Holders(Contract(n), "DEFAULT_ADMIN_ROLE") # {}
    /\ "relinquish_ownership" \in files.migrations =>
        \A n \in Contracts :
            /\ \A r \in Roles \ {"PAUSER_ROLE"} : ~Has(Contract(n), r, "deployer")
            /\ \A r \in {"DEFAULT_ADMIN_ROLE", "PAUSER_ROLE"} : Has(Contract(n), r, "multisig")

\* A portal whose chain state has a committer is never pointed to one without:
\* withdrawals would wait for commits nobody can make.
CommitterKept ==
    [][\A p \in {i \in DOMAIN chain.contracts : chain.contracts[i].contract = "FuelMessagePortal"} :
            LET committed(contracts) ==
                    /\ contracts[p].linked > 0
                    /\ Has(contracts[contracts[p].linked], "COMMITTER_ROLE", "committer")
            IN  committed(chain.contracts) => committed(chain'.contracts)]_vars

\* When the scripts have come to their end, the recorded contracts refer to each
\* other, whatever proxies were deployed and abandoned on the way; but the gateway
\* of testnet to the portal whose address its script has written down, which may
\* be one that was abandoned.
Wired ==
    seen.finished /\ ~Running =>
        \A n \in Contracts :
            /\ Contract(n).contract = "FuelMessagePortal" =>
                    Contract(n).linked = Address("FuelChainState")
            /\ Contract(n).contract \in {"FuelERC20Gateway", "FuelERC721Gateway"} =>
                    \/ \E m \in Contracts :
                            /\ Contract(m).contract = "FuelMessagePortal"
                            /\ Contract(n).linked = Address(m)
                    \/ network.name = "testnet" /\ Contract(n).linked = WrittenPortal

\* The scripts whose record may name the implementation before theirs, because
\* they read it before their upgrade is in a block.
ReadTooEarly ==
    CASE network.name = "mainnet" -> {"set_deposit_limit_eth"}
      [] network.name = "testnet" ->
            {"portal_upgrade", "state_upgrade", "state_upgrade_2", "gateway_upgrade"}
      [] network.name = "devnet" -> {"portal_upgrade", "state_upgrade"}
      [] OTHER -> {}

\* The script that replaces a record of theirs, where there is one.
Repairs(id) ==
    CASE network.name = "mainnet" -> {"upgrade_portal"}
      [] network.name = "testnet" /\ id = "portal_upgrade" -> {"portal_upgrade_2"}
      [] network.name = "testnet" /\ id \in {"state_upgrade", "state_upgrade_2"} ->
            {"chain_state_redeploy"}
      [] OTHER -> {}

\* Between scripts, and after a crash at the latest when all are done, the
\* implementation in a record is the one behind the proxy, except in records of
\* scripts that do not wait for their upgrade, until another script replaces them;
\* of upgrades left to the multisig; and on a fork, whose scripts save nothing.
RecordTruthful ==
    /\ ~InScript /\ ~seen.byHand /\ network.name # "fork"
    /\ seen.finished \/ (seen.crashes = 0 /\ seen.refused = {})
    => \A n \in Contracts :
            LET r == files.records[n] IN
            \/ r.implementation = Contract(n).implementation
            \/ r.prepared
            \/ r.script \in ReadTooEarly /\ Repairs(r.script) \intersect files.migrations = {}

\* The scripts that can not be repeated after they were cut short, or not run
\* at all.
NotRepeatable ==
    CASE network.name = "testnet" -> {"portal_unpause", "state_unpause", "019_portal_upgrade"}
      [] network.name = "devnet" ->
            {"fuel_message_portal_redeploy", "portal_unpause", "state_redeploy",
             "state_unpause", "018_portal_upgrade"}
      [] OTHER -> {}

\* The next run would be refused as the last one was.
Stuck == NotRepeatable \intersect (seen.refused \ files.migrations) # {}

\* Any other script can be cut short anywhere and run again from its start: the
\* operator, who starts runs until one comes to its end, gets there, unless one of
\* those is refused and never entered as done by hand.
Completes == <>seen.finished \/ <>[]Stuck

=============================================================================
