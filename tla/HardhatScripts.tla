--------------------------- MODULE HardhatScripts ---------------------------
(* The scripts under deploy/hardhat, of local networks.  None of them       *)
(* returns true: each run deploys the system anew.                          *)
EXTENDS DeployScripts

chain_state == RepeatedScript("chain_state",
    DeployAndSave("FuelChainState", "initialize", "", "FuelChainState"))

fuel_message_portal == RepeatedScript("fuel_message_portal",
    DeployAndSave("FuelMessagePortal", "initializerV3", "FuelChainState", "FuelMessagePortal"))

fuel_erc20_gateway_v4 == RepeatedScript("fuel_erc20_gateway_v4",
    DeployAndSave("FuelERC20Gateway", "initialize", "FuelMessagePortal", "FuelERC20GatewayV4"))

token == RepeatedScript("token", <<DeployToken>>)

register_committer == RepeatedScript("register_committer", GrantCommitter("FuelChainState"))

fuel_erc721_gateway_v2 == RepeatedScript("fuel_erc721_gateway_v2",
    DeployAndSave("FuelERC721Gateway", "initialize", "FuelMessagePortal", "FuelERC721Gateway"))

set_asset_issuer_id == RepeatedScript("set_asset_issuer_id",
    SetIssuer("FuelERC20GatewayV4") \o <<SaveL2Bridge>>)

set_canonical_token_bytecode == RepeatedScript("set_canonical_token_bytecode", SetTokens)

all == RepeatedScript("all", <<WriteAddresses(ContractNames \union
    {"FuelERC20GatewayV4", "Token", "FuelL2BridgeId"})>>)

\* The last has func.runAtTheEnd.
Scripts == <<
    chain_state, fuel_message_portal, fuel_erc20_gateway_v4, token, register_committer,
    fuel_erc721_gateway_v2, set_asset_issuer_id, set_canonical_token_bytecode, all>>

=============================================================================
