--------------------------- MODULE MainnetScripts ---------------------------
(* The scripts under deploy/mainnet.                                        *)
EXTENDS DeployScripts

chain_state == Script("chain_state", DeployAndSave("FuelChainState", "initialize", "", "FuelChainState"))

fuel_message_portal == Script("fuel_message_portal",
    DeployAndSave("FuelMessagePortal", "initializerV3", "FuelChainState", "FuelMessagePortal"))

register_committer == Script("register_committer", GrantCommitter("FuelChainState"))

register_watchtower == Script("register_watchtower",
    <<Execute("FuelChainState", GrantRole("PAUSER_ROLE", "watchtower"))>>)

register_watchtower_portal == Script("register_watchtower_portal",
    <<Execute("FuelMessagePortal", GrantRole("PAUSER_ROLE", "watchtower"))>>)

set_deposit_limit_eth == Script("set_deposit_limit_eth", UpgradeAndSave("FuelMessagePortal"))

gateway == Script("gateway",
    DeployAndSave("FuelERC20Gateway", "initialize", "FuelMessagePortal", "FuelERC20GatewayV4"))

gateway_enable_whitelist == Script("gateway_enable_whitelist",
    <<Execute("FuelERC20GatewayV4", RequireWhitelist(TRUE))>>)

gateway_whitelist_usdc == Script("gateway_whitelist_usdc",
    <<Execute("FuelERC20GatewayV4", Call("setGlobalDepositLimit"))>>)

gateway_rate_limit_usdc == Script("gateway_rate_limit_usdc",
    <<Execute("FuelERC20GatewayV4", Call("resetRateLimitAmount"))>>)

set_asset_issuer == Script("set_asset_issuer",
    SetIssuer("FuelERC20GatewayV4") \o <<SaveL2Bridge>>)

\* A hand-over with a bug: it also gives up the role it has just passed on.
portal_ownership_renounced == Script("portal_ownership", <<
    Execute("FuelMessagePortal", GrantRole("DEFAULT_ADMIN_ROLE", "multisig")),
    Execute("FuelMessagePortal", RenounceRole("DEFAULT_ADMIN_ROLE", "deployer")),
    Execute("FuelMessagePortal", GrantRole("PAUSER_ROLE", "multisig")),
    Execute("FuelMessagePortal", GrantRole("SET_RATE_LIMITER_ROLE", "multisig"))>>)

portal_ownership == Script("portal_ownership", <<
    Execute("FuelMessagePortal", GrantRole("DEFAULT_ADMIN_ROLE", "multisig")),
    Execute("FuelMessagePortal", GrantRole("PAUSER_ROLE", "multisig")),
    Execute("FuelMessagePortal", GrantRole("SET_RATE_LIMITER_ROLE", "multisig"))>>)

\* A hand-over with a bug: it leaves out the administrator's role.
state_ownership_pauser == Script("state_ownership", <<
    Execute("FuelChainState", GrantRole("PAUSER_ROLE", "multisig"))>>)

state_ownership == Script("state_ownership", <<
    Execute("FuelChainState", GrantRole("DEFAULT_ADMIN_ROLE", "multisig")),
    Execute("FuelChainState", GrantRole("PAUSER_ROLE", "multisig"))>>)

\* The third grant is of the role read from the gateway, and is executed on the
\* portal.
gateway_ownership == Script("gateway_ownership", <<
    Execute("FuelERC20GatewayV4", GrantRole("DEFAULT_ADMIN_ROLE", "multisig")),
    Execute("FuelERC20GatewayV4", GrantRole("PAUSER_ROLE", "multisig")),
    Execute("FuelMessagePortal", GrantRole("SET_RATE_LIMITER_ROLE", "multisig"))>>)

\* With a bug: the deployer keeps the gateway.
relinquish_ownership_partial == SkippedScript("relinquish_ownership", <<
    Execute("FuelMessagePortal", RenounceRole("DEFAULT_ADMIN_ROLE", "deployer")),
    Execute("FuelMessagePortal", RenounceRole("SET_RATE_LIMITER_ROLE", "deployer")),
    Execute("FuelERC20GatewayV4", RenounceRole("SET_RATE_LIMITER_ROLE", "deployer")),
    Execute("FuelChainState", RenounceRole("DEFAULT_ADMIN_ROLE", "deployer")),
    Execute("FuelChainState", RenounceRole("COMMITTER_ROLE", "deployer"))>>)

relinquish_ownership == SkippedScript("relinquish_ownership", <<
    Execute("FuelMessagePortal", RenounceRole("DEFAULT_ADMIN_ROLE", "deployer")),
    Execute("FuelMessagePortal", RenounceRole("SET_RATE_LIMITER_ROLE", "deployer")),
    Execute("FuelERC20GatewayV4", RenounceRole("DEFAULT_ADMIN_ROLE", "deployer")),
    Execute("FuelERC20GatewayV4", RenounceRole("SET_RATE_LIMITER_ROLE", "deployer")),
    Execute("FuelChainState", RenounceRole("DEFAULT_ADMIN_ROLE", "deployer")),
    Execute("FuelChainState", RenounceRole("COMMITTER_ROLE", "deployer"))>>)

upgrade_gateway == Script("upgrade_gateway",
    <<PrepareUpgrade("FuelERC20GatewayV4"), SavePrepared("FuelERC20GatewayV4", FALSE)>>)

upgrade_portal == Script("upgrade_portal",
    <<PrepareUpgrade("FuelMessagePortal"), SavePrepared("FuelMessagePortal", FALSE)>>)

\* updateRateLimitStatus() of 26 tokens, in one transaction of the Safe.
rate_limit_proposal == Script("rate_limit_proposal",
    <<Propose(<<[name |-> "FuelERC20GatewayV4", call |-> Call("updateRateLimitStatus")]>>)>>)

\* The pausers on the three contracts.
pausers_proposal == Script("pausers_proposal",
    <<Propose([i \in 1 .. 3 |->
        [name |-> <<"FuelERC20GatewayV4", "FuelMessagePortal", "FuelChainState">>[i],
         call |-> GrantRole("PAUSER_ROLE", "pausers")]])>>)

second_upgrade_portal == Script("20_upgrade_portal",
    <<PrepareUpgrade("FuelMessagePortal"), SavePrepared("FuelMessagePortal", TRUE)>>)

deposit_caps_removal == Script("21_deposit_caps_removal",
    <<ProposeUpgrade("FuelMessagePortal")>>)

Scripts == <<
    chain_state, fuel_message_portal, register_committer, register_watchtower,
    register_watchtower_portal, set_deposit_limit_eth, gateway, gateway_enable_whitelist,
    gateway_whitelist_usdc, gateway_rate_limit_usdc, set_asset_issuer, portal_ownership,
    state_ownership, gateway_ownership, relinquish_ownership, upgrade_gateway,
    upgrade_portal, rate_limit_proposal, pausers_proposal, second_upgrade_portal,
    deposit_caps_removal>>

=============================================================================
