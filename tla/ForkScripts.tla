---------------------------- MODULE ForkScripts -----------------------------
(* The scripts under deploy/fork, of a local fork of mainnet.  They act on  *)
(* the contracts of deployments/mainnet as the multisig, which they         *)
(* impersonate.                                                             *)
EXTENDS DeployScripts

token == RepeatedScript("token", <<DeployToken>>)

set_canonical_token_bytecode == RepeatedScript("set_canonical_token_bytecode", SetTokens)

upgrade_chain_state == Script("upgrade_chain_state", <<
    ExecuteAs("multisig", "FuelChainState", UpgradeTo("upgrade_chain_state")),
    ExecuteAs("multisig", "FuelChainState", GrantRole("COMMITTER_ROLE", "committer")),
    ExecuteAs("multisig", "FuelChainState", GrantRole("COMMITTER_ROLE", "deployer"))>>)

upgrade_portal == Script("upgrade_portal", <<
    ExecuteAs("multisig", "FuelMessagePortal", UpgradeTo("upgrade_portal")),
    ExecuteAs("multisig", "FuelMessagePortal", GrantRole("SET_RATE_LIMITER_ROLE", "deployer"))>>)

upgrade_gateway == Script("upgrade_gateway", <<
    ExecuteAs("multisig", "FuelERC20GatewayV4", UpgradeTo("upgrade_gateway")),
    ExecuteAs("multisig", "FuelERC20GatewayV4", GrantRole("DEFAULT_ADMIN_ROLE", "deployer")),
    ExecuteAs("multisig", "FuelERC20GatewayV4", GrantRole("SET_RATE_LIMITER_ROLE", "deployer")),
    ExecuteAs("multisig", "FuelERC20GatewayV4", RequireWhitelist(FALSE))>>)

\* The records of mainnet.
all == RepeatedScript("all", <<WriteAddresses(
    {"FuelChainState", "FuelMessagePortal", "FuelERC20GatewayV4"})>>)

Scripts == <<
    token, set_canonical_token_bytecode, upgrade_chain_state, upgrade_portal,
    upgrade_gateway, all>>

=============================================================================
