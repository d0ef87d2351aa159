---------------------------- MODULE MCBridgeTasks ----------------------------
(* BridgeTasks: every network is deployed, and tasks are run on mainnet.     *)
EXTENDS BridgeTasks

MCNetworks == AllNetworks
MCTaskNetworks == {"mainnet"}
MCSigners == {"deployer", "pausers"}
=============================================================================
