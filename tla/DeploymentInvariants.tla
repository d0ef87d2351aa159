------------------------- MODULE DeploymentInvariants ------------------------
(***************************************************************************)
(* The inductive invariants of Deployment and BridgeTasks, as              *)
(* DeploymentProofs proves them, and what the lists of scripts are to      *)
(* them: which script makes, upgrades and saves which proxy, and which     *)
(* hands over or gives up which role.                                      *)
(***************************************************************************)
EXTENDS BridgeTasks

IsSequence(s) == Len(s) \in Nat /\ DOMAIN s = 1 .. Len(s)

------------------------------------------------------------------------------
(* What tasks are *)

CallFields == {"kind", "at", "signer", "name", "call", "checked"}

DepositFields == {"kind", "at", "name", "value", "block", "printed"}

FilterFields == {"kind", "at", "name", "todo", "report", "before", "after"}

VerifyFields == {"kind", "at", "records", "todo", "verified", "before"}

Verifying == {"verify", "verifyMainnet"}

ShapedTask(t) ==
    \/ /\ t.kind = "call" /\ t.at \in {"check", "send", "missing"}
       /\ DOMAIN t = CallFields
    \/ /\ t.kind = "call" /\ t.at \in {"done", "threw"}
       /\ DOMAIN t = {"kind", "at"}
    \/ /\ t.kind \in Deposits
       /\ t.at \in {"approve", "deposit", "query", "done", "threw", "missing"}
       /\ DOMAIN t = DepositFields
    \/ /\ t.kind = "filter" /\ t.at \in {"events", "roles", "done", "missing"}
       /\ DOMAIN t = FilterFields
    \/ /\ t.kind \in Verifying /\ t.at \in {"next", "done", "threw", "missing"}
       /\ DOMAIN t = VerifyFields

ShapeInv ==
    /\ IsSequence(tasks)
    /\ \A i \in DOMAIN tasks : ShapedTask(tasks[i])

TaskCalls ==
    {GrantRole("PAUSER_ROLE", "watchtower")} \union
        {Call(fn) : fn \in {"pause", "unpause", "pauseWithdrawals", "unpauseWithdrawals",
            "addMessageToBlacklist", "removeMessageFromBlacklist", "resetRateLimitAmount"}}

\* The task a StartTask adds.
CallStarts(t) ==
    /\ DOMAIN t = CallFields /\ t.kind = "call" /\ t.at \in {"check", "missing"}
    /\ t.signer \in Signers
    /\ t.name \in {"FuelMessagePortal", "FuelERC20GatewayV4", "FuelERC20Gateway"}
    /\ t.call \in TaskCalls

DepositStarts(t) ==
    /\ DOMAIN t = DepositFields /\ t.kind \in Deposits
    /\ t.at \in {"approve", "deposit", "missing"}

FilterStarts(t) ==
    /\ DOMAIN t = FilterFields /\ t.kind = "filter" /\ t.at \in {"events", "missing"}
    /\ t.name \in {"FuelMessagePortal", "FuelERC20GatewayV4", "FuelChainState"}
    /\ t.report = {} /\ t.before = {}
    /\ "gateway_ownership" \in files.migrations

VerifyStarts(t) ==
    /\ DOMAIN t = VerifyFields /\ t.kind \in Verifying /\ t.at \in {"next", "missing"}
    /\ t.records = files.records /\ t.todo = DOMAIN files.records /\ t.verified = {}
    /\ t.before = safe.open
    /\ "gateway_ownership" \in files.migrations

TaskStarts(t) == CallStarts(t) \/ DepositStarts(t) \/ FilterStarts(t) \/ VerifyStarts(t)

\* Until it sends its call, a task that calls is as it was started.
CallInv ==
    /\ ShapeInv
    /\ \A i \in DOMAIN tasks : tasks[i].kind = "call" /\ tasks[i].at \in {"check", "send", "missing"} =>
            tasks[i].signer \in Signers /\ tasks[i].call \in TaskCalls

------------------------------------------------------------------------------
(* What a contract is *)

ContractFields ==
    {"contract", "implementation", "linked", "roles", "granted", "paused", "withdrawalsPaused",
     "issuer", "whitelist", "limits", "versionThree"}

------------------------------------------------------------------------------
(* Addresses are of contracts, on every network *)

BaseInv ==
    /\ network.name \in AllNetworks
    /\ DOMAIN chain = {"contracts", "sent", "tokens"}
    /\ IsSequence(chain.contracts)
    /\ \A a \in DOMAIN chain.contracts : DOMAIN chain.contracts[a] = ContractFields
    /\ DOMAIN files = {"records", "migrations", "addresses"}
    /\ \A n \in DOMAIN files.records : Address(n) \in 0 .. Len(chain.contracts)
    /\ DOMAIN job = {"at", "pc", "address", "implementation", "reached"}
    /\ job.at \in Nat /\ job.pc \in Nat /\ job.reached \in Nat
    /\ job.address \in 0 .. Len(chain.contracts)
    /\ DOMAIN safe = {"nonce", "open", "executed"}
    /\ DOMAIN seen = {"refused", "finished", "byHand", "crashes", "reruns"}

------------------------------------------------------------------------------
(* The scripts of the other networks take nothing from anybody, and propose      *)
(* nothing.                                                                      *)

TestnetSavers == {1, 2, 3, 6, 7, 10, 11, 13, 15, 17}
DevnetSavers == {1, 2, 3, 6, 8, 10, 11, 13, 15, 17}
HardhatSavers == {1, 2, 3, 6}
ForkSavers == {}
UpgradeTestSavers == {1, 2, 3}

\* Script i of a list whose script r, if any, replaces the chain state, and of
\* which those in w save a proxy.
PlainStep(i, s, r, w) ==
    /\ s.op \notin {"propose", "proposeUpgrade"}
    /\ s.op = "execute" => s.call.fn \notin {"renounceRole", "setFuelChainState"}
    /\ s.op = "execute" /\ w # {} => s.call.fn \notin {"upgradeTo", "upgradeToAndCall"}
    /\ s.op = "linkChainState" => r > 0 /\ i = r + 3
    /\ s.op = "deployProxy" /\ s.contract = "FuelMessagePortal" => s.linkedTo = "FuelChainState"
    /\ s.op \in {"save", "savePrepared"} /\ s.name = "FuelChainState" => i <= r \/ r = 0
    /\ s.op \in {"save", "upgradeProxy"} => i \in w
    /\ s.op = "upgradeAndReinitialize" => r > 0 /\ i = IF r = 11 THEN 18 ELSE 19

Placed(i, id, r) ==
    /\ id = "chain_state" => i = 1
    /\ id = "chain_state_redeploy" => i = r
    /\ id = "fuel_message_portal" => i = 2
    /\ id = "fuel_erc20_gateway_v4" => i = IF r = 11 THEN 6 ELSE 3
    /\ id = "fuel_erc721_gateway_v2" => i = 6
    /\ id = "portal_set_chain_state" => i = r + 3
    /\ id = "gateway_redeploy" => i = r + 4
    /\ id = "portal_upgrade" => i = IF r = 11 THEN 3 ELSE 10
    /\ id = "portal_upgrade_2" => i = r + 2
    /\ id = "state_upgrade" => i = IF r = 11 THEN 7 ELSE 11
    /\ id = "state_upgrade_2" => i = 10
    /\ id = "gateway_upgrade" => i = 17
    /\ id = "fuel_message_portal_redeploy" => i = 6
    /\ id = "state_redeploy" => i = 8
    /\ id = "019_portal_upgrade" => i = 18
    /\ id = "018_portal_upgrade" => i = 19

Plain(i, S, r, w) ==
    /\ S.id \notin {"relinquish_ownership", "gateway_ownership"} /\ Placed(i, S.id, r)
    /\ r > 0 => /\ S.migrates = TRUE /\ S.skip = FALSE
                /\ (S.id = "chain_state_redeploy") <=> (i = r)
                /\ (S.id = "redeploy_register_committer") <=> (i = r + 1)
    /\ Len(S.steps) \in Nat
    /\ \A k \in 1 .. Len(S.steps) : PlainStep(i, S.steps[k], r, w)

------------------------------------------------------------------------------
(* The scripts of mainnet *)

Proxies == {"FuelChainState", "FuelMessagePortal", "FuelERC20GatewayV4"}

\* The script that deploys a proxy, and the contract behind it.
Creator(name) ==
    IF name = "FuelChainState" THEN 1 ELSE IF name = "FuelMessagePortal" THEN 2 ELSE 7

ContractOf(name) == IF name = "FuelERC20GatewayV4" THEN "FuelERC20Gateway" ELSE name

MainnetIds == <<
    "chain_state", "fuel_message_portal", "register_committer", "register_watchtower",
    "register_watchtower_portal", "set_deposit_limit_eth", "gateway",
    "gateway_enable_whitelist", "gateway_whitelist_usdc", "gateway_rate_limit_usdc",
    "set_asset_issuer", "portal_ownership", "state_ownership", "gateway_ownership",
    "relinquish_ownership", "upgrade_gateway", "upgrade_portal",
    "rate_limit_proposal", "pausers_proposal", "20_upgrade_portal",
    "21_deposit_caps_removal">>

\* The roles that step k of a script hands over to the multisig, and of which
\* contract.
HandOver(i, k) ==
    (IF i = 12
     THEN <<<<"FuelMessagePortal", "DEFAULT_ADMIN_ROLE">>,
            <<"FuelMessagePortal", "PAUSER_ROLE">>,
            <<"FuelMessagePortal", "SET_RATE_LIMITER_ROLE">>>>
     ELSE IF i = 13
     THEN <<<<"FuelChainState", "DEFAULT_ADMIN_ROLE">>, <<"FuelChainState", "PAUSER_ROLE">>>>
     ELSE <<<<"FuelERC20GatewayV4", "DEFAULT_ADMIN_ROLE">>,
            <<"FuelERC20GatewayV4", "PAUSER_ROLE">>,
            <<"FuelMessagePortal", "SET_RATE_LIMITER_ROLE">>>>)[k]

\* The role of the deployer that step k of relinquish_ownership gives up.
GivenUp(k) ==
    <<<<"FuelMessagePortal", "DEFAULT_ADMIN_ROLE">>,
      <<"FuelMessagePortal", "SET_RATE_LIMITER_ROLE">>,
      <<"FuelERC20GatewayV4", "DEFAULT_ADMIN_ROLE">>,
      <<"FuelERC20GatewayV4", "SET_RATE_LIMITER_ROLE">>,
      <<"FuelChainState", "DEFAULT_ADMIN_ROLE">>,
      <<"FuelChainState", "COMMITTER_ROLE">>>>[k]

Deploys(i, k, s) ==
    /\ s.op = "deployProxy" /\ k = 1
    /\ <<i, s.contract, s.linkedTo>> \in {
            <<1, "FuelChainState", "">>, <<2, "FuelMessagePortal", "FuelChainState">>,
            <<7, "FuelERC20Gateway", "FuelMessagePortal">>}

SavedIn(i, name) ==
    <<i, name>> \in {<<1, "FuelChainState">>, <<2, "FuelMessagePortal">>,
                     <<6, "FuelMessagePortal">>, <<7, "FuelERC20GatewayV4">>}

Saves(i, k, s) == s.op = "save" /\ k = 2 /\ SavedIn(i, s.name)

Upgrades(i, k, s) ==
    s.op = "upgradeProxy" /\ k = 1 /\ i = 6 /\ s.name = "FuelMessagePortal"

PreparedIn(i, name) ==
    <<i, name>> \in {<<16, "FuelERC20GatewayV4">>, <<17, "FuelMessagePortal">>,
                     <<20, "FuelMessagePortal">>}

Prepares(i, k, s) == s.op = "prepareUpgrade" /\ k = 1 /\ PreparedIn(i, s.name)

SavesPrepared(i, k, s) == s.op = "savePrepared" /\ k = 2 /\ PreparedIn(i, s.name)

\* Grants of single roles to others.
Grants(i, k, s) ==
    /\ s.op = "execute" /\ s.sender = "deployer" /\ k = 1
    /\ <<i, s.name>> \in {<<3, "FuelChainState">>, <<4, "FuelChainState">>,
                           <<5, "FuelMessagePortal">>}
    /\ \E r \in {"COMMITTER_ROLE", "PAUSER_ROLE"}, a \in {"committer", "watchtower"} :
            s.call = GrantRole(r, a)

HandsOver(i, k, s) ==
    /\ s.op = "execute" /\ s.sender = "deployer" /\ i \in {12, 13, 14}
    /\ s.name = HandOver(i, k)[1]
    /\ s.call = GrantRole(HandOver(i, k)[2], "multisig")

SetsUp(i, k, s) ==
    /\ s.op = "execute" /\ s.sender = "deployer" /\ k = 1
    /\ s.name = "FuelERC20GatewayV4"
    /\ <<i, s.call.fn>> \in {<<8, "requireWhitelist">>, <<9, "setGlobalDepositLimit">>,
                             <<10, "resetRateLimitAmount">>, <<11, "setAssetIssuerId">>}

SavesBridge(i, k, s) == s.op = "saveL2Bridge" /\ i = 11 /\ k = 2

Renounces(i, k, s) ==
    /\ s.op = "execute" /\ s.sender = "deployer" /\ i = 15
    /\ s.name = GivenUp(k)[1]
    /\ s.call = RenounceRole(GivenUp(k)[2], "deployer")

\* What scripts propose to the multisig in so many words.
Proposable(call) ==
    call = Call("updateRateLimitStatus") \/ call = GrantRole("PAUSER_ROLE", "pausers")

Proposes(i, k, s) ==
    /\ s.op = "propose" /\ k = 1 /\ i \in {18, 19}
    /\ \A j \in DOMAIN s.calls : s.calls[j].name \in Proxies /\ Proposable(s.calls[j].call)

ProposesUpgrade(i, k, s) ==
    s.op = "proposeUpgrade" /\ k = 1 /\ i = 21 /\ s.name = "FuelMessagePortal"

MainnetStep(i, k, s) ==
    \/ Deploys(i, k, s)
    \/ Saves(i, k, s)
    \/ Upgrades(i, k, s)
    \/ Prepares(i, k, s)
    \/ SavesPrepared(i, k, s)
    \/ Grants(i, k, s)
    \/ HandsOver(i, k, s)
    \/ SetsUp(i, k, s)
    \/ SavesBridge(i, k, s)
    \/ Renounces(i, k, s)
    \/ Proposes(i, k, s)
    \/ ProposesUpgrade(i, k, s)

\* The number of steps of a script.
StepCount(i) == <<2, 2, 1, 1, 1, 2, 2, 1, 1, 1, 2, 3, 2, 3, 6, 2, 2, 1, 1, 2, 1>>[i]

AsListed(i, S) ==
    /\ S.id = MainnetIds[i]
    /\ S.migrates = TRUE
    /\ S.skip <=> i = 15
    /\ Len(S.steps) = StepCount(i)
    /\ \A k \in 1 .. StepCount(i) : MainnetStep(i, k, S.steps[k])

------------------------------------------------------------------------------
(* The script that runs *)

JobInv ==
    /\ job # Idle => job.reached > 0
    /\ job.pc > 0 => job.at \in 1 .. Len(Scripts)

------------------------------------------------------------------------------
(* The other networks: the deployer stays the administrator of all it deploys,  *)
(* and the multisig of what a fork starts from.                                 *)

\* The script that replaces the chain state, where there is one.
Replaces ==
    IF network.name = "testnet" THEN 11 ELSE IF network.name = "devnet" THEN 13 ELSE 0

\* The scripts that save a proxy.
Savers ==
    CASE network.name = "testnet" -> TestnetSavers
      [] network.name = "devnet" -> DevnetSavers
      [] network.name = "hardhat" -> HardhatSavers
      [] network.name = "upgradeTest" -> UpgradeTestSavers
      [] OTHER -> ForkSavers

Administered(c) ==
    \/ <<"DEFAULT_ADMIN_ROLE", "deployer">> \in c.roles
    \/ network.name = "fork" /\ <<"DEFAULT_ADMIN_ROLE", "multisig">> \in c.roles

HandOverIds == {"relinquish_ownership", "gateway_ownership"}

OthersInv ==
    network.name # "mainnet" =>
        /\ \A a \in DOMAIN chain.contracts : Administered(chain.contracts[a])
        /\ safe.open = {}
        /\ HandOverIds \intersect (files.migrations \union seen.refused) = {}

------------------------------------------------------------------------------
(* Mainnet: the scripts are over in their order, and none was refused *)

Portal == "FuelMessagePortal"

Over(i) == MainnetIds[i] \in files.migrations

\* relinquish_ownership is left out on networks that skip it.
Due(i) == ~(i = 15 /\ network.skips)

\* Script i is over, or in its run it has done step k.
Reached(i, k) == Over(i) \/ (job.at = i /\ job.pc > k)

OrderInv ==
    /\ seen.refused = {}
    /\ \A i \in 1 .. 21, j \in 1 .. 21 : i < j /\ Over(j) /\ Due(i) => Over(i)
    /\ \A i \in 1 .. 21 : i < job.reached /\ Due(i) => Over(i)
    /\ job.pc > 0 => job.reached = job.at /\ ~Over(job.at) /\ Due(job.at)
    /\ job.pc = 0 => job.at = 0

------------------------------------------------------------------------------
(* Mainnet: records *)

\* What is recorded is a proxy with the contract it should have, or the bridge on
\* Fuel.
RecordedContract(n) ==
    IF n \in Proxies
    THEN Address(n) > 0 /\ Contract(n).contract = ContractOf(n)
    ELSE n = "FuelL2BridgeId" /\ Address(n) = 0

\* What a script that saves what it deployed or upgraded has at hand.
Saving ==
    job.pc = 2 =>
        /\ \A p \in Proxies : job.at = Creator(p) =>
                job.address > 0 /\ chain.contracts[job.address].contract = ContractOf(p)
        /\ job.at = 6 => job.address = Address(Portal)

RecordsInv ==
    /\ \A n \in DOMAIN files.records : RecordedContract(n)
    /\ \A p \in Proxies : Reached(Creator(p), 2) => p \in DOMAIN files.records
    /\ Saving

------------------------------------------------------------------------------
(* Mainnet: proposals *)

\* A proposal upgrades the portal to what is recorded, when no script is left that
\* records another.
ProposedCall(c) ==
    /\ c.name \in Proxies
    /\ \/ Proposable(c.call)
       \/ /\ c.name = Portal /\ Over(20)
          /\ c.call = UpgradeTo(files.records[Portal].implementation)

ProposalsInv ==
    /\ \A p \in safe.open : \A k \in DOMAIN p.calls : ProposedCall(p.calls[k])
    /\ Reached(7, 1) => chain.sent = NothingSent

------------------------------------------------------------------------------
(* Mainnet: roles *)

DeployersRoles(contract) ==
    {"DEFAULT_ADMIN_ROLE", "PAUSER_ROLE",
     IF contract = "FuelChainState" THEN "COMMITTER_ROLE" ELSE "SET_RATE_LIMITER_ROLE"}

\* The deployer has what it got by deploying and no more, and shares it with the
\* multisig only.
OwnRoles(c) ==
    /\ \A r : <<r, "deployer">> \in c.roles => r \in DeployersRoles(c.contract)
    /\ \A x : <<"DEFAULT_ADMIN_ROLE", x>> \in c.roles => x \in {"deployer", "multisig"}
    /\ c.roles \subseteq c.granted

\* What the scripts before the hand-over need.
Deployers(c) ==
    /\ <<"DEFAULT_ADMIN_ROLE", "deployer">> \in c.roles
    /\ c.contract = "FuelERC20Gateway" => <<"SET_RATE_LIMITER_ROLE", "deployer">> \in c.roles

HandedOver(i, k) ==
    <<HandOver(i, k)[2], "multisig">> \in Contract(HandOver(i, k)[1]).roles

Relinquished(k) ==
    <<GivenUp(k)[2], "deployer">> \notin Contract(GivenUp(k)[1]).roles

RolesInv ==
    /\ \A a \in DOMAIN chain.contracts : OwnRoles(chain.contracts[a])
    /\ ~Over(14) => \A a \in DOMAIN chain.contracts : Deployers(chain.contracts[a])
    /\ \A i \in 12 .. 14 : \A k \in 1 .. StepCount(i) : Reached(i, k) => HandedOver(i, k)
    /\ \A k \in 1 .. 6 : Reached(15, k) => Relinquished(k)

MainnetInv ==
    network.name = "mainnet" => OrderInv /\ RecordsInv /\ ProposalsInv /\ RolesInv

------------------------------------------------------------------------------
(* Mainnet: what its steps rely on *)

MainnetState ==
    /\ network.name = "mainnet"
    /\ BaseInv /\ CallInv /\ JobInv
    /\ OrderInv /\ RecordsInv /\ ProposalsInv /\ RolesInv

\* The proxies a step is about were deployed before it.
Before(i, name) == name \in Proxies /\ Creator(name) < i

DoesPrepare == Prepares(job.at, job.pc, step) /\ UNCHANGED <<chain, files, safe>>

------------------------------------------------------------------------------
(* All of it, on every network *)

DeployInv == BaseInv /\ CallInv /\ JobInv /\ OthersInv /\ MainnetInv

------------------------------------------------------------------------------
(* Tasks that only read *)

\* What a report lacks is still to be asked or nobody has, when now is what the
\* contract holds; and of what was held only the deployer loses, for good.
Filtered(t, now) ==
    /\ t.at = "events" => t.report = {}
    /\ t.at = "roles" =>
        /\ \A e \in t.before : e \in t.todo \/ e \in t.report \/ e \notin now
        /\ t.report \subseteq t.before \union now
        /\ \A r : <<r, "deployer">> \in now => <<r, "deployer">> \in t.before
        /\ \A e \in t.before : e \in now \/ \E r : e = <<r, "deployer">>
    /\ t.at = "done" =>
        /\ t.before \intersect t.after \subseteq t.report
        /\ t.report \subseteq t.before \union t.after

FilterTask(t) ==
    /\ network.name = "mainnet" /\ Over(14)
    /\ t.name \in Proxies
    /\ Filtered(t, Contract(t.name).roles)

FilterInv == \A i \in DOMAIN tasks : tasks[i].kind = "filter" => FilterTask(tasks[i])

------------------------------------------------------------------------------
(* Verifications *)

\* The portal has what is recorded.
UpToDate == Contract(Portal).implementation = files.records[Portal].implementation

Upgrading(t) == \E p \in t.before : \E k \in DOMAIN p.calls : p.calls[k].call.fn = "upgradeTo"

\* What was proposed when the task started upgrades the portal only.  Its record is
\* the one the task has read, and is still to be looked at, or the implementation in
\* it is verified, or behind the proxy.
VerifyTask(t) ==
    /\ network.name = "mainnet" /\ Over(14)
    /\ \A p \in t.before : \A k \in DOMAIN p.calls : ProposedCall(p.calls[k])
    /\ t.at \in {"next", "done"} /\ Upgrading(t) =>
            /\ t.records[Portal] = files.records[Portal]
            /\ \/ Portal \in t.todo
               \/ <<Portal, files.records[Portal].implementation>> \in t.verified
               \/ UpToDate
    /\ t.at = "done" => t.todo = {}

VerifyInv == \A i \in DOMAIN tasks : tasks[i].kind \in Verifying => VerifyTask(tasks[i])

TaskInv == DeployInv /\ FilterInv /\ VerifyInv

------------------------------------------------------------------------------
(* What portals refer to *)

LinkedInv ==
    \A a \in DOMAIN chain.contracts : chain.contracts[a].contract = "FuelMessagePortal" =>
        chain.contracts[a].linked \in 0 .. Len(chain.contracts)

Committing == <<"COMMITTER_ROLE", "committer">>

------------------------------------------------------------------------------
(* Where the chain state is replaced, a committer is registered before the       *)
(* portal is linked to it                                                        *)

Entered(i) == Scripts[i].id \in files.migrations

NotRefused == {"chain_state_redeploy", "redeploy_register_committer"} \intersect seen.refused = {}

InOrder ==
    /\ \A i \in 1 .. Replaces + 1 : i < job.reached => Entered(i)
    /\ job.pc > 0 => job.reached = job.at /\ ~Entered(job.at)
    /\ \A j \in Replaces .. Replaces + 1 : Entered(j) => \A i \in 1 .. j : Entered(i)

Replaced ==
    /\ job.at = Replaces /\ job.pc = 2 => job.address > 0
    /\ Entered(Replaces) \/ (job.at = Replaces /\ job.pc > 2) =>
            "FuelChainState" \in DOMAIN files.records /\ Address("FuelChainState") > 0

Registered ==
    Entered(Replaces + 1) \/ (job.at = Replaces + 1 /\ job.pc > 1) =>
        Committing \in Contract("FuelChainState").roles

RegisterInv == Replaces > 0 => NotRefused /\ InOrder /\ Replaced /\ Registered

------------------------------------------------------------------------------
(* The committer is kept *)

LinkingInv == DeployInv /\ LinkedInv /\ RegisterInv

------------------------------------------------------------------------------
(* The wiring: which script deploys which proxy, which one upgrades it and saves *)
(* its record again, and which one gives the portal its chain state last         *)

PortalName == IF network.name = "upgradeTest" THEN "FuelMessagePortalV3" ELSE "FuelMessagePortal"

Gateways == {"FuelERC20GatewayV4", "FuelERC721Gateway"}

ProxyNames == {"FuelChainState", PortalName} \union Gateways

\* The contract behind the proxy of that name, and the one it is initialised with.
KindOf(n) ==
    IF n = "FuelERC20GatewayV4" THEN "FuelERC20Gateway"
    ELSE IF n = PortalName THEN "FuelMessagePortal" ELSE n

NoLink == ""

LinkedTo(n) ==
    IF n = "FuelChainState" THEN NoLink ELSE IF n = PortalName THEN "FuelChainState" ELSE PortalName

\* What script i, which makes the proxy n, gives its initializer: testnet's gateway is
\* given the address of a portal that the script has written down.
Written(i) == network.name = "testnet" /\ i = 15

GivenTo(i, n) == IF Written(i) THEN WrittenDown ELSE LinkedTo(n)

\* Script i deploys and saves the proxy n; a fork starts with them.
MadeBy ==
    CASE network.name = "testnet" ->
            {<<1, "FuelChainState">>, <<2, "FuelMessagePortal">>, <<6, "FuelERC20GatewayV4">>,
             <<11, "FuelChainState">>, <<15, "FuelERC20GatewayV4">>}
      [] network.name = "devnet" ->
            {<<1, "FuelChainState">>, <<2, "FuelMessagePortal">>, <<3, "FuelERC20GatewayV4">>,
             <<13, "FuelChainState">>, <<17, "FuelERC20GatewayV4">>}
      [] network.name = "mainnet" ->
            {<<1, "FuelChainState">>, <<2, "FuelMessagePortal">>, <<7, "FuelERC20GatewayV4">>}
      [] network.name = "hardhat" ->
            {<<1, "FuelChainState">>, <<2, "FuelMessagePortal">>, <<3, "FuelERC20GatewayV4">>,
             <<6, "FuelERC721Gateway">>}
      [] network.name = "upgradeTest" ->
            {<<1, "FuelChainState">>, <<2, "FuelMessagePortalV3">>, <<3, "FuelERC20GatewayV4">>}
      [] OTHER ->
            {<<0, "FuelChainState">>, <<0, "FuelMessagePortal">>, <<0, "FuelERC20GatewayV4">>}

\* Script i upgrades the proxy n and saves it.
RenewedBy ==
    CASE network.name = "testnet" ->
            {<<3, "FuelMessagePortal">>, <<7, "FuelChainState">>, <<10, "FuelChainState">>,
             <<13, "FuelMessagePortal">>, <<17, "FuelERC20GatewayV4">>}
      [] network.name = "devnet" ->
            {<<6, "FuelMessagePortal">>, <<8, "FuelChainState">>, <<10, "FuelMessagePortal">>,
             <<11, "FuelChainState">>, <<15, "FuelMessagePortal">>}
      [] network.name = "mainnet" -> {<<6, "FuelMessagePortal">>}
      [] OTHER -> {}

\* Script i upgrades the proxy n to what it has prepared.
Reinitialized ==
    CASE network.name = "testnet" -> {<<18, "FuelMessagePortal">>}
      [] network.name = "devnet" -> {<<19, "FuelMessagePortal">>}
      [] OTHER -> {}

Link ==
    CASE network.name = "testnet" -> 14
      [] network.name = "devnet" -> 16
      [] network.name = "fork" -> 0
      [] OTHER -> 2

Makes(i) == \E n \in ProxyNames : <<i, n>> \in MadeBy

Wires(i) == Makes(i) \/ i = Link

\* The scripts are recorded as done and not run again.
Migrating == network.name \notin {"hardhat", "upgradeTest"}

Refused(i) == Scripts[i].id \in seen.refused

\* Script i is behind the operator, or behind this run of the scripts.
Passed(i) ==
    \/ i = 0 \/ Entered(i) \/ Refused(i)
    \/ IF Running THEN i < job.reached ELSE seen.finished

\* It has come that far, or the script that runs has just wired what it is to wire.
Past(i) == Passed(i) \/ (job.at = i /\ job.pc > IF Makes(i) THEN 2 ELSE 1)

WiredInOrder ==
    /\ Running => ~seen.finished
    /\ \A i, j \in 1 .. Len(Scripts) :
            Wires(i) /\ Wires(j) /\ i < j /\ (Entered(j) \/ Refused(j)) => Entered(i)
    /\ Migrating => \A i \in 1 .. Len(Scripts) : Wires(i) /\ i < job.reached => Entered(i)
    /\ job.pc > 0 => job.reached = job.at /\ ~Entered(job.at)

\* n is recorded with a proxy.
Deployed(n) == n \in DOMAIN files.records /\ Address(n) > 0

RightKinds ==
    \A n \in DOMAIN files.records :
        Address(n) > 0 =>
            /\ n \in ProxyNames /\ Contract(n).contract = KindOf(n)
            /\ \E i \in 0 .. Len(Scripts) : <<i, n>> \in MadeBy

PointsTo(n, m) == Deployed(n) /\ Deployed(m) /\ Contract(n).linked = Address(m)

AsWritten(n) == network.name = "testnet" /\ Deployed(n) /\ Contract(n).linked = WrittenPortal

RightLinks ==
    /\ \A i \in 0 .. Len(Scripts) : \A n \in ProxyNames :
            <<i, n>> \in MadeBy /\ Past(i) =>
                Deployed(n) /\ (n \in Gateways => PointsTo(n, PortalName) \/ AsWritten(n))
    /\ Past(Link) => PointsTo(PortalName, "FuelChainState")

\* What a script that makes or upgrades a proxy has at hand.
AtHand ==
    job.pc > 1 =>
        /\ \A n \in ProxyNames : <<job.at, n>> \in MadeBy /\ job.pc = 2 =>
                /\ job.address > 0
                /\ chain.contracts[job.address].contract = KindOf(n)
                /\ n # "FuelChainState" =>
                        /\ Deployed(LinkedTo(n))
                        /\ chain.contracts[job.address].linked = Linked(GivenTo(job.at, n))
        /\ \A n \in ProxyNames : <<job.at, n>> \in RenewedBy =>
                n \in DOMAIN files.records /\ job.address = Address(n)

WiringInv == WiredInOrder /\ RightKinds /\ RightLinks /\ AtHand

\* What is asked of the lists: who makes a proxy, in which order, and that no two
\* scripts are recorded under the same id.
Made(S, id, n, kind, linked) ==
    /\ S.id = id /\ S.migrates = Migrating /\ S.skip = FALSE
    /\ S.steps[1].op = "deployProxy" /\ S.steps[1].contract = kind
    /\ S.steps[1].linkedTo = linked
    /\ S.steps[2].op = "save" /\ S.steps[2].name = n
    /\ Len(S.steps) = 2 \/ (Len(S.steps) = 3 /\ S.steps[3].op = "execute" /\ Migrating)

Renewing(s, n) ==
    \/ s.op \in {"awaitUpgrade", "awaitDeployment"}
    \/ s.op \in {"save", "execute"} /\ s.name = n

\* It waits for its upgrade, or reads too early, or fails.
Renewed(S, id, n) ==
    /\ S.id = id /\ S.migrates = TRUE /\ S.skip = FALSE
    /\ S.steps[1].op = "upgradeProxy" /\ S.steps[1].name = n
    /\ \/ Len(S.steps) = 2 /\ S.steps[2].op = "save" /\ S.steps[2].name = n /\ id \in ReadTooEarly
       \/ /\ Len(S.steps) = 3 /\ S.steps[2].op = "awaitUpgrade"
          /\ S.steps[3].op = "save" /\ S.steps[3].name = n
       \/ /\ Len(S.steps) \in {3, 4} /\ S.steps[2].op = "awaitDeployment"
          /\ Renewing(S.steps[3], n)
          /\ Len(S.steps) = 4 => Renewing(S.steps[4], n)

Reinitialization(S, id, n) ==
    /\ S.id = id /\ S.migrates = TRUE /\ S.skip = FALSE /\ Len(S.steps) = 3
    /\ S.steps[1].op = "prepareUpgrade"
    /\ S.steps[2].op = "upgradeAndReinitialize" /\ S.steps[2].name = n
    /\ S.steps[3].op = "savePrepared" /\ S.steps[3].name = n

Linking(S, id) ==
    /\ S.id = id /\ S.migrates = TRUE /\ S.skip = FALSE /\ Len(S.steps) = 1
    /\ S.steps[1].op = "linkChainState" /\ S.steps[1].name = "FuelMessagePortal"

Alone(i, id) == \A j \in 1 .. Len(Scripts) : Scripts[j].id = id => j = i

InTurn(i, n) ==
    /\ n = "FuelChainState" => i < Link
    /\ n = PortalName => i <= Link /\ \A j, m : <<j, m>> \in MadeBy /\ m \in Gateways => i < j
    /\ n # "FuelChainState" => \E j \in 1 .. i - 1 : <<j, LinkedTo(n)>> \in MadeBy

Maker(i, n) ==
    /\ i \in 1 .. Len(Scripts) /\ n \in ProxyNames
    /\ Made(Scripts[i], Scripts[i].id, n, KindOf(n), GivenTo(i, n))
    /\ Alone(i, Scripts[i].id) /\ InTurn(i, n)

Renewer(i, n) ==
    /\ i \in 1 .. Len(Scripts) /\ n \in ProxyNames
    /\ Renewed(Scripts[i], Scripts[i].id, n) /\ Alone(i, Scripts[i].id) /\ ~Wires(i)

Reinitializer(i, n) ==
    /\ i \in 1 .. Len(Scripts) /\ n \in ProxyNames
    /\ Reinitialization(Scripts[i], Scripts[i].id, n) /\ Alone(i, Scripts[i].id) /\ ~Wires(i)

\* The portal is linked by the script that deploys it, or by one of its own.
LinkKept ==
    \/ <<Link, PortalName>> \in MadeBy
    \/ /\ Link \in 1 .. Len(Scripts) /\ ~Makes(Link) /\ Migrating
       /\ Linking(Scripts[Link], Scripts[Link].id) /\ Alone(Link, Scripts[Link].id)
       /\ PortalName = "FuelMessagePortal"
       /\ \E j \in 1 .. Link - 1 : <<j, PortalName>> \in MadeBy
       /\ \E j \in 1 .. Link - 1 : <<j, "FuelChainState">> \in MadeBy

Saver(i) == \E n \in ProxyNames : <<i, n>> \in MadeBy \union RenewedBy

\* A fork starts with its proxies, and makes none.
Wiring ==
    /\ \A i, n : <<i, n>> \in MadeBy => Maker(i, n) \/ (i = 0 /\ network.name = "fork")
    /\ \A i, n : <<i, n>> \in RenewedBy => Renewer(i, n)
    /\ \A i, n : <<i, n>> \in Reinitialized => Reinitializer(i, n)
    /\ LinkKept
    /\ \A i \in Savers : i \in 1 .. Len(Scripts) => Saver(i)

------------------------------------------------------------------------------
(* What the records say of the implementations *)

Upgraders == RenewedBy \union Reinitialized

\* The record of n is one RecordTruthful makes an exception of, or names what is
\* behind the proxy, and no upgrade of it is on its way.
Truthful(n) ==
    LET r == files.records[n] IN
    \/ r.prepared
    \/ r.script \in ReadTooEarly
    \/ r.implementation = Contract(n).implementation /\ chain.sent.address # Address(n)

\* A script that upgrades n is to be run, and may have been cut short or is at it.
Begun(n) ==
    \E i \in 1 .. Len(Scripts) :
        /\ <<i, n>> \in Upgraders /\ ~Entered(i)
        /\ seen.crashes # 0 \/ seen.refused # {} \/ (job.at = i /\ job.pc > 1)

\* What is recorded as done and never skipped is, up to where the run has come.
MigratedInOrder ==
    \A i \in 1 .. Len(Scripts) :
        /\ Scripts[i].migrates /\ Scripts[i].skip = FALSE
        /\ i < job.reached \/ seen.finished
        => Entered(i)

\* A script that reads an implementation does so when nothing is on its way.
ReadInTime ==
    /\ Makes(job.at) /\ job.pc = 2 => chain.sent = NothingSent
    /\ job.pc > 2 =>
        \A n \in ProxyNames : <<job.at, n>> \in RenewedBy =>
            /\ script.steps[2].op # "awaitDeployment"
            /\ job.pc = 3 /\ script.steps[2].op = "awaitUpgrade" => chain.sent = NothingSent

\* When it is done, the record is right.
SavedInTime ==
    job.pc > 0 /\ job.pc > Len(script.steps) =>
        \A n \in Contracts : <<job.at, n>> \in Upgraders => Truthful(n)

Recording ==
    ~seen.byHand /\ network.name # "fork" =>
        SavedInTime /\ \A n \in Contracts : Truthful(n) \/ Begun(n)

TruthInv == seen.crashes \in Nat /\ MigratedInOrder /\ ReadInTime /\ Recording

------------------------------------------------------------------------------
(* What is recorded too early is replaced *)

\* The record of n that script i saves too early, script j replaces.
RepairedBy ==
    CASE network.name = "mainnet" -> {<<6, 17, "FuelMessagePortal">>}
      [] network.name = "testnet" ->
            {<<3, 13, "FuelMessagePortal">>, <<7, 11, "FuelChainState">>,
             <<10, 11, "FuelChainState">>}
      [] OTHER -> {}

\* Script i saves no other record, is over before j, and its record does not outlast j.
Repaired(i, j, n) ==
    /\ Entered(j) => Entered(i)
    /\ \A m \in Contracts : files.records[m].script = Scripts[i].id =>
            m = n /\ ~Entered(j) /\ ~(job.at = j /\ job.pc > Len(script.steps))

RepairInv == ~seen.byHand => \A i, j, n : <<i, j, n>> \in RepairedBy => Repaired(i, j, n)
=============================================================================
