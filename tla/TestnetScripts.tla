--------------------------- MODULE TestnetScripts ---------------------------
(* The scripts under deploy/testnet.                                        *)
EXTENDS DeployScripts

chain_state == Script("chain_state",
    DeployAndSave("FuelChainState", "initialize", "", "FuelChainState")
        \o <<Execute("FuelChainState", Call("pause"))>>)

fuel_message_portal == Script("fuel_message_portal",
    DeployAndSave("FuelMessagePortal", "initialize", "FuelChainState", "FuelMessagePortal")
        \o <<Execute("FuelMessagePortal", Call("pause"))>>)

portal_upgrade == Script("portal_upgrade", UpgradeAndSave("FuelMessagePortal"))

portal_unpause == Script("portal_unpause", <<Execute("FuelMessagePortal", Call("unpause"))>>)

state_unpause == Script("state_unpause", <<Execute("FuelChainState", Call("unpause"))>>)

fuel_erc20_gateway_v4 == Script("fuel_erc20_gateway_v4",
    DeployAndSave("FuelERC20Gateway", "initialize", "FuelMessagePortal", "FuelERC20GatewayV4"))

state_upgrade == Script("state_upgrade", UpgradeAndSave("FuelChainState"))

register_committer_2 == Script("register_committer_2", GrantCommitter("FuelChainState"))

set_asset_issuer == Script("set_asset_issuer", SetIssuer("FuelERC20GatewayV4"))

state_upgrade_2 == Script("state_upgrade_2", UpgradeAndSave("FuelChainState"))

\* A second chain state; the portal still trusts the first.
chain_state_redeploy == Script("chain_state_redeploy",
    DeployAndSave("FuelChainState", "initialize", "", "FuelChainState"))

redeploy_register_committer == Script("redeploy_register_committer",
    GrantCommitter("FuelChainState"))

\* With a bug: it does not wait.
portal_upgrade_2_unawaited == Script("portal_upgrade_2", UpgradeAndSave("FuelMessagePortal"))

portal_upgrade_2 == Script("portal_upgrade_2",
    <<UpgradeProxy("FuelMessagePortal"), AwaitUpgrade, Save("FuelMessagePortal")>>)

\* With a bug: the address is written down.
portal_set_chain_state_fixed == Script("portal_set_chain_state",
    <<Execute("FuelMessagePortal", SetFuelChainState(1))>>)

portal_set_chain_state == Script("portal_set_chain_state",
    <<LinkChainState("FuelMessagePortal")>>)

\* The address of the portal is written down in the script: no record is looked up.
gateway_redeploy == Script("gateway_redeploy",
    DeployAndSave("FuelERC20Gateway", "initialize", WrittenDown, "FuelERC20GatewayV4"))

set_asset_issuer_redeploy == Script("set_asset_issuer_redeploy",
    SetIssuer("FuelERC20GatewayV4") \o <<SaveL2Bridge>>)

gateway_upgrade == Script("gateway_upgrade", UpgradeAndSave("FuelERC20GatewayV4"))

portal_upgrade_019 == Script("019_portal_upgrade", <<
    PrepareUpgrade("FuelMessagePortal"),
    UpgradeAndReinitialize("FuelMessagePortal"),
    SavePrepared("FuelMessagePortal", FALSE)>>)

\* The order with a bug: the portal is given the chain state before that has its
\* committer.
ScriptsLinkedEarly == <<
    chain_state, fuel_message_portal, portal_upgrade, portal_unpause, state_unpause,
    fuel_erc20_gateway_v4, state_upgrade, register_committer_2, set_asset_issuer,
    state_upgrade_2, chain_state_redeploy, portal_set_chain_state, redeploy_register_committer,
    portal_upgrade_2, gateway_redeploy, set_asset_issuer_redeploy, gateway_upgrade,
    portal_upgrade_019>>

\* In the order of their file names.
Scripts == <<
    chain_state, fuel_message_portal, portal_upgrade, portal_unpause, state_unpause,
    fuel_erc20_gateway_v4, state_upgrade, register_committer_2, set_asset_issuer,
    state_upgrade_2, chain_state_redeploy, redeploy_register_committer, portal_upgrade_2,
    portal_set_chain_state, gateway_redeploy, set_asset_issuer_redeploy, gateway_upgrade,
    portal_upgrade_019>>

=============================================================================
