------------------------- MODULE UpgradeTestScripts -------------------------
(* The scripts under deploy/upgradeTest, which rehearse the preparation of  *)
(* upgrades for a multisig.  None of them returns true.                     *)
EXTENDS DeployScripts

chain_state == RepeatedScript("chain_state",
    DeployAndSave("FuelChainState", "initialize", "", "FuelChainState"))

fuel_message_portal == RepeatedScript("fuel_message_portal",
    DeployAndSave("FuelMessagePortal", "initializerV3", "FuelChainState", "FuelMessagePortalV3"))

fuel_erc20_gateway_v4 == RepeatedScript("fuel_erc20_gateway_v4",
    DeployAndSave("FuelERC20Gateway", "initialize", "FuelMessagePortalV3", "FuelERC20GatewayV4"))

prepareUpgrade_chain_state == RepeatedScript("prepareUpgrade_chain_state",
    <<PrepareUpgrade("FuelChainState"), SavePrepared("FuelChainState", TRUE)>>)

prepareUpgrade_erc20_gateway_v4 == RepeatedScript("prepareUpgrade_erc20_gateway_v4",
    <<PrepareUpgrade("FuelERC20GatewayV4"), SavePrepared("FuelERC20GatewayV4", TRUE)>>)

prepareUpgrade_fuel_message_portal == RepeatedScript("prepareUpgrade_fuel_message_portal",
    <<PrepareUpgrade("FuelMessagePortalV3"), SavePrepared("FuelMessagePortalV3", TRUE)>>)

Scripts == <<
    chain_state, fuel_message_portal, fuel_erc20_gateway_v4, prepareUpgrade_chain_state,
    prepareUpgrade_erc20_gateway_v4, prepareUpgrade_fuel_message_portal>>

=============================================================================
