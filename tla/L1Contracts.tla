---------------------------- MODULE L1Contracts -----------------------------
(***************************************************************************)
(* What FuelChainState, FuelMessagePortal and FuelERC20Gateway have to do   *)
(* with their own administration: who holds which role, which calls a role  *)
(* allows, what a call changes, and the implementation behind each proxy.   *)
(* What the bridge does with them is the matter of ChainState,              *)
(* MessagePortal and ERC20Gateway.                                          *)
(*                                                                          *)
(* A contract is a record.  A call is a record too, so that scripts and     *)
(* proposals can hold calls that are made later.                            *)
(***************************************************************************)
Roles == {"DEFAULT_ADMIN_ROLE", "PAUSER_ROLE", "COMMITTER_ROLE", "SET_RATE_LIMITER_ROLE"}

Accounts == {"deployer", "committer", "watchtower", "pausers", "multisig"}

ContractNames == {"FuelChainState", "FuelMessagePortal", "FuelERC20Gateway", "FuelERC721Gateway"}

\* The roles an initializer grants its caller.
RolesAtInitialize(contract, initializer) ==
    {"DEFAULT_ADMIN_ROLE", "PAUSER_ROLE"} \union
        CASE contract = "FuelChainState" -> {"COMMITTER_ROLE"}
          [] contract = "FuelERC20Gateway" -> {"SET_RATE_LIMITER_ROLE"}
          [] contract = "FuelMessagePortal" /\ initializer = "initializerV3" -> {"SET_RATE_LIMITER_ROLE"}
          [] OTHER -> {}

\* A proxy after its constructor ran: linked is the contract it was initialised
\* with, 0 if none, and granted is what its RoleGranted events tell.
NewContract(contract, initializer, implementation, linked) ==
    LET roles == RolesAtInitialize(contract, initializer) \X {"deployer"} IN
    [contract       |-> contract,
     implementation |-> implementation,
     linked         |-> linked,     \* _fuelChainState, _fuelMessagePortal
     roles          |-> roles,
     granted        |-> roles,
     paused         |-> FALSE,
     withdrawalsPaused |-> FALSE,
     issuer         |-> FALSE,      \* assetIssuerId is set
     whitelist      |-> FALSE,      \* whitelistRequired
     limits         |-> {},         \* of deposits and withdrawals that were set
     versionThree   |-> initializer = "initializerV3"]  \* reinitializer(3) ran

-----------------------------------------------------------------------------
(* Calls *)

GrantRole(role, account) == [fn |-> "grantRole", role |-> role, account |-> account]
RenounceRole(role, account) == [fn |-> "renounceRole", role |-> role, account |-> account]
Call(fn) == [fn |-> fn]
UpgradeTo(implementation) == [fn |-> "upgradeTo", implementation |-> implementation]
UpgradeToAndReinitialize(implementation) ==
    [fn |-> "upgradeToAndCall", implementation |-> implementation]
SetFuelChainState(linked) == [fn |-> "setFuelChainState", linked |-> linked]
RequireWhitelist(value) == [fn |-> "requireWhitelist", value |-> value]

\* The calls that onlyRole() keeps for roles other than the administrator's.
Needs(fn) ==
    CASE fn \in {"pause", "pauseWithdrawals", "addMessageToBlacklist"} -> "PAUSER_ROLE"
      [] fn \in {"resetRateLimitAmount", "updateRateLimitStatus"} -> "SET_RATE_LIMITER_ROLE"
      [] OTHER -> "DEFAULT_ADMIN_ROLE"

\* Whether the call returns.  Pausable refuses to pause what is paused, and
\* initializers run once.
Allowed(c, sender, call) ==
    /\ call.fn = "renounceRole" \/ <<Needs(call.fn), sender>> \in c.roles
    /\ call.fn = "pause" => ~c.paused
    /\ call.fn = "unpause" => c.paused
    /\ call.fn = "upgradeToAndCall" => ~c.versionThree
    /\ call.fn = "renounceRole" => sender = call.account

Granted(c, role, account) ==
    [c EXCEPT !.roles = @ \union {<<role, account>>}, !.granted = @ \union {<<role, account>>}]

\* The contract after the call.  reinitializeV3() grants its caller a role; the
\* blacklist, which the other calls change, is left out.
After(c, sender, call) ==
    CASE call.fn = "grantRole" -> Granted(c, call.role, call.account)
      [] call.fn = "renounceRole" -> [c EXCEPT !.roles = @ \ {<<call.role, call.account>>}]
      [] call.fn \in {"pause", "unpause"} -> [c EXCEPT !.paused = (call.fn = "pause")]
      [] call.fn \in {"pauseWithdrawals", "unpauseWithdrawals"} ->
            [c EXCEPT !.withdrawalsPaused = (call.fn = "pauseWithdrawals")]
      [] call.fn = "upgradeTo" -> [c EXCEPT !.implementation = call.implementation]
      [] call.fn = "upgradeToAndCall" ->
            [Granted(c, "SET_RATE_LIMITER_ROLE", sender) EXCEPT
                !.implementation = call.implementation, !.versionThree = TRUE]
      [] call.fn = "setFuelChainState" -> [c EXCEPT !.linked = call.linked]
      [] call.fn = "setAssetIssuerId" -> [c EXCEPT !.issuer = TRUE]
      [] call.fn = "requireWhitelist" -> [c EXCEPT !.whitelist = call.value]
      [] call.fn \in {"setGlobalDepositLimit", "resetRateLimitAmount", "updateRateLimitStatus"} ->
            [c EXCEPT !.limits = @ \union {call.fn}]
      [] OTHER -> c

Holders(c, role) == {a \in Accounts : <<role, a>> \in c.roles}

=============================================================================
