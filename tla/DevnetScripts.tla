--------------------------- MODULE DevnetScripts ----------------------------
(* The scripts under deploy/devnet.                                         *)
EXTENDS DeployScripts

chain_state == Script("chain_state",
    DeployAndSave("FuelChainState", "initialize", "", "FuelChainState")
        \o <<Execute("FuelChainState", Call("pause"))>>)

fuel_message_portal == Script("fuel_message_portal",
    DeployAndSave("FuelMessagePortal", "initialize", "FuelChainState", "FuelMessagePortal")
        \o <<Execute("FuelMessagePortal", Call("pause"))>>)

fuel_erc20_gateway_v4 == Script("fuel_erc20_gateway_v4",
    DeployAndSave("FuelERC20Gateway", "initialize", "FuelMessagePortal", "FuelERC20GatewayV4"))

token == Script("token", <<DeployToken>>)

register_committer == Script("register_committer", GrantCommitter("FuelChainState"))

fuel_message_portal_redeploy == Script("fuel_message_portal_redeploy",
    <<UpgradeProxy("FuelMessagePortal"), AwaitDeployment, Save("FuelMessagePortal")>>)

portal_unpause == Script("portal_unpause", <<Execute("FuelMessagePortal", Call("unpause"))>>)

state_redeploy == Script("state_redeploy", <<
    UpgradeProxy("FuelChainState"), AwaitDeployment, Save("FuelChainState"),
    Execute("FuelChainState", Call("unpause"))>>)

state_unpause == Script("state_unpause", <<Execute("FuelChainState", Call("unpause"))>>)

portal_upgrade == Script("portal_upgrade", UpgradeAndSave("FuelMessagePortal"))

state_upgrade == Script("state_upgrade", UpgradeAndSave("FuelChainState"))

set_asset_issuer == Script("set_asset_issuer",
    SetIssuer("FuelERC20GatewayV4") \o <<SaveL2Bridge>>)

chain_state_redeploy == Script("chain_state_redeploy",
    DeployAndSave("FuelChainState", "initialize", "", "FuelChainState"))

redeploy_register_committer == Script("redeploy_register_committer",
    GrantCommitter("FuelChainState"))

portal_upgrade_2 == Script("portal_upgrade_2",
    <<UpgradeProxy("FuelMessagePortal"), AwaitUpgrade, Save("FuelMessagePortal")>>)

portal_set_chain_state == Script("portal_set_chain_state",
    <<LinkChainState("FuelMessagePortal")>>)

gateway_redeploy == Script("gateway_redeploy",
    DeployAndSave("FuelERC20Gateway", "initialize", "FuelMessagePortal", "FuelERC20GatewayV4"))

set_asset_issuer_redeploy == Script("set_asset_issuer_redeploy",
    SetIssuer("FuelERC20GatewayV4") \o <<SaveL2Bridge>>)

portal_upgrade_018 == Script("018_portal_upgrade", <<
    PrepareUpgrade("FuelMessagePortal"),
    UpgradeAndReinitialize("FuelMessagePortal"),
    SavePrepared("FuelMessagePortal", FALSE)>>)

\* In the order of their file names.
Scripts == <<
    chain_state, fuel_message_portal, fuel_erc20_gateway_v4, token, register_committer,
    fuel_message_portal_redeploy, portal_unpause, state_redeploy, state_unpause,
    portal_upgrade, state_upgrade, set_asset_issuer, chain_state_redeploy,
    redeploy_register_committer, portal_upgrade_2, portal_set_chain_state,
    gateway_redeploy, set_asset_issuer_redeploy, portal_upgrade_018>>

=============================================================================
