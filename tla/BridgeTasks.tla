----------------------------- MODULE BridgeTasks -----------------------------
(***************************************************************************)
(* The tasks of scripts/hardhat, which operators run on a deployment from    *)
(* their own machines: each is a process that reads the chain, signs, sends  *)
(* and waits, while deploy scripts, the multisig and other tasks go on.      *)
(*                                                                          *)
(* The signer is given or asked for; amounts, tokens and messages are        *)
(* abstracted to what the tasks do with them.                                *)
(***************************************************************************)
EXTENDS Deployment

CONSTANTS
    TaskNetworks,   \* the networks tasks are run on
    Signers,        \* the accounts that sign; a Safe signs nothing on its own
    MaxTasks,       \* bound: tasks
    MaxBlocks,      \* bound: blocks of L1 with deposits
    Amounts         \* the amounts of depositToken

ASSUME TaskBounds ==
    /\ Signers \subseteq Accounts \ {"multisig"}
    /\ MaxTasks \in Nat /\ MaxBlocks \in Nat
    /\ Amounts \subseteq Nat \ {0}

VARIABLES
    tasks,      \* the tasks, in the order they were started in
    world       \* the signer's allowance for the gateway, the block, MessageSent

taskVars == <<tasks, world>>

allVars == <<network, chain, files, job, safe, seen, tasks, world>>

TaskInit ==
    /\ Init
    /\ tasks = <<>>
    /\ world = [allowance |-> 0, block |-> 1, messages |-> <<>>]

Deposits == {"eth", "token", "metadata"}

Reading == {"filter", "verify", "verifyMainnet"}

\* Bounds: what is looked at is one task that only reads, from the hand-over on,
\* or, when all else is done, either calls or deposits.
InBounds(task) ==
    \/ /\ task.kind \in Reading
       /\ "gateway_ownership" \in files.migrations
       /\ tasks = <<>>
    \/ /\ task.kind \notin Reading
       /\ seen.finished /\ safe.open = {}
       /\ Len(tasks) < MaxTasks
       /\ \A i \in DOMAIN tasks :
            tasks[i].kind \notin Reading /\ (tasks[i].kind = "call" <=> task.kind = "call")

\* A task is started between runs of the scripts; a run may start while it is
\* under way.  A task whose record is missing says so, or throws.
Begin(name, task) ==
    /\ InBounds(task)
    /\ network.name \in TaskNetworks
    /\ ~Running
    /\ tasks' = Append(tasks, IF Recorded(name) THEN task ELSE [task EXCEPT !.at = "missing"])
    /\ UNCHANGED <<network, chain, files, job, safe, seen, world>>

Goes(i, at) == tasks' = [tasks EXCEPT ![i].at = at]

\* The end of a task that sends a call; what it was is forgotten.
Ends(i, at) == tasks' = [tasks EXCEPT ![i] = [kind |-> "call", at |-> at]]

\* The tasks that send one call, and the role they look up before.
CallTask(signer, name, call, checked) ==
    [kind |-> "call", at |-> "check", signer |-> signer, name |-> name, call |-> call,
     checked |-> checked]

pause(signer, name) ==
    Begin(name, CallTask(signer, name, Call("pause"), {"PAUSER_ROLE"}))

unpause(signer, name) ==
    Begin(name, CallTask(signer, name, Call("unpause"), {"DEFAULT_ADMIN_ROLE"}))

\* A signer without the role is only told so.
withdrawalPause(signer) ==
    Begin("FuelMessagePortal",
        CallTask(signer, "FuelMessagePortal", Call("pauseWithdrawals"), {}))

withdrawalResume(signer) ==
    Begin("FuelMessagePortal",
        CallTask(signer, "FuelMessagePortal", Call("unpauseWithdrawals"), {}))

withdrawalBlacklist(signer) ==
    Begin("FuelMessagePortal",
        CallTask(signer, "FuelMessagePortal", Call("addMessageToBlacklist"), {}))

withdrawalWhitelist(signer) ==
    Begin("FuelMessagePortal",
        CallTask(signer, "FuelMessagePortal", Call("removeMessageFromBlacklist"), {}))

\* The check is a static call of grantRole(); the task waits for a confirmation
\* after it.
grantRole(signer, name, account) ==
    Begin(name, CallTask(signer, name, GrantRole("PAUSER_ROLE", account), {"DEFAULT_ADMIN_ROLE"}))

resetETHRateLimit(signer) ==
    Begin("FuelMessagePortal",
        CallTask(signer, "FuelMessagePortal", Call("resetRateLimitAmount"), {}))

\* It looks for a record named FuelERC20Gateway.
resetERC20RateLimit(signer) ==
    Begin("FuelERC20Gateway",
        CallTask(signer, "FuelERC20Gateway", Call("resetRateLimitAmount"), {}))

CheckRole(i) ==
    /\ tasks[i].kind = "call" /\ tasks[i].at = "check"
    /\ IF \A r \in tasks[i].checked : Has(Contract(tasks[i].name), r, tasks[i].signer)
       THEN Goes(i, "send") ELSE Ends(i, "threw")
    /\ UNCHANGED <<network, chain, files, job, safe, seen, world>>

SendCall(i) ==
    /\ tasks[i].kind = "call" /\ tasks[i].at = "send"
    /\ LET t == tasks[i]
           c == Contract(t.name)
           allowed == Allowed(c, t.signer, t.call)
       IN  /\ Ends(i, IF allowed THEN "done" ELSE "threw")
           /\ chain' = IF allowed
                       THEN [chain EXCEPT !.contracts[Address(t.name)] = After(c, t.signer, t.call)]
                       ELSE chain
    /\ UNCHANGED <<network, files, job, safe, seen, world>>

-----------------------------------------------------------------------------
(* Deposits *)

\* A message is sent by the i-th task in the current block.
Message(i) == [block |-> world.block, by |-> i]

\* depositETH, depositToken and depositMetadata; value is 0 but for tokens.
DepositTask(kind, at, name, value) ==
    [kind |-> kind, at |-> at, name |-> name, value |-> value, block |-> 0, printed |-> 0]

depositETH ==
    Begin("FuelMessagePortal", DepositTask("eth", "deposit", "FuelMessagePortal", 0))

depositToken(value) ==
    Begin("FuelERC20GatewayV4", DepositTask("token", "approve", "FuelERC20GatewayV4", value))

depositMetadata ==
    Begin("FuelERC20GatewayV4", DepositTask("metadata", "deposit", "FuelERC20GatewayV4", 0))

\* Neither the contract that is called nor the portal is paused.
Open(name) == \A n \in {name, "FuelMessagePortal"} : ~Contract(n).paused

\* approve() sets the allowance of the signer, whatever it was.
Approve(i) ==
    /\ tasks[i].kind = "token" /\ tasks[i].at = "approve"
    /\ world' = [world EXCEPT !.allowance = tasks[i].value]
    /\ Goes(i, "deposit")
    /\ UNCHANGED <<network, chain, files, job, safe, seen>>

\* deposit(), sendMetadata() or depositETH() is mined, or reverts.
Deposit(i) ==
    /\ tasks[i].kind \in Deposits /\ tasks[i].at = "deposit"
    /\ IF Open(tasks[i].name) /\ tasks[i].value <= world.allowance
       THEN /\ world' = [world EXCEPT !.allowance = @ - tasks[i].value,
                                      !.messages = Append(@, Message(i))]
            /\ tasks' = [tasks EXCEPT
                    ![i].at = IF tasks[i].kind = "metadata" THEN "query" ELSE "done",
                    ![i].block = world.block]
       ELSE /\ Goes(i, "threw")
            /\ UNCHANGED world
    /\ UNCHANGED <<network, chain, files, job, safe, seen>>

\* Empty blocks are left out.
NewBlock ==
    /\ world.block < MaxBlocks
    /\ \E m \in DOMAIN world.messages : world.messages[m].block = world.block
    /\ world' = [world EXCEPT !.block = @ + 1]
    /\ UNCHANGED <<network, chain, files, job, safe, seen, tasks>>

SentIn(block) == {m \in DOMAIN world.messages : world.messages[m].block = block}

\* depositMetadata prints the nonce of the first message of the block.
QueryNonce(i) ==
    /\ tasks[i].kind = "metadata" /\ tasks[i].at = "query"
    /\ tasks[i].block < world.block
    /\ tasks' = [tasks EXCEPT ![i].at = "done", ![i].printed = Min(SentIn(tasks[i].block))]
    /\ UNCHANGED <<network, chain, files, job, safe, seen, world>>

-----------------------------------------------------------------------------
(* grant-role-event-filter *)

eventFilter(name) ==
    Begin(name, [kind |-> "filter", at |-> "events", name |-> name, todo |-> {}, report |-> {},
                 before |-> {}, after |-> {}])

\* With a bug: events of the same account count as one.
QueryEventsOfAccounts(i) ==
    /\ tasks[i].kind = "filter" /\ tasks[i].at = "events"
    /\ LET c == Contract(tasks[i].name)
           of(account) == {e \in c.granted : e[2] = account}
       IN  tasks' = [tasks EXCEPT ![i].at = "roles", ![i].before = c.roles,
                ![i].todo = {CHOOSE e \in of(a) : TRUE : a \in {e[2] : e \in c.granted}}]
    /\ UNCHANGED <<network, chain, files, job, safe, seen, world>>

\* The events RoleGranted, of each role and account one.
QueryEvents(i) ==
    /\ tasks[i].kind = "filter" /\ tasks[i].at = "events"
    /\ LET c == Contract(tasks[i].name) IN
       tasks' = [tasks EXCEPT ![i].at = "roles", ![i].before = c.roles, ![i].todo = c.granted]
    /\ UNCHANGED <<network, chain, files, job, safe, seen, world>>

\* hasRole() of one after the other, then the file.
QueryRole(i) ==
    /\ tasks[i].kind = "filter" /\ tasks[i].at = "roles"
    /\ LET t == tasks[i]
           roles == Contract(t.name).roles
       IN  IF t.todo = {}
           THEN tasks' = [tasks EXCEPT ![i].at = "done", ![i].after = roles]
           ELSE LET e == CHOOSE e \in t.todo : TRUE IN
                tasks' = [tasks EXCEPT ![i].todo = @ \ {e}, ![i].report = @ \union ({e} \intersect roles)]
    /\ UNCHANGED <<network, chain, files, job, safe, seen, world>>

-----------------------------------------------------------------------------
(* verify-deployment, verify-mainnet-deployments *)

\* records: deployments.all(), which is called once; verified: what was found to be
\* the implementation it should be, with its name; before: what is up for execution
\* when the task starts.
Verification(kind) ==
    [kind |-> kind, at |-> "next", records |-> files.records, todo |-> DOMAIN files.records,
     verified |-> {}, before |-> safe.open]

verifyDeployment == Begin("FuelChainState", Verification("verify"))

verifyMainnetDeployment ==
    /\ network.name = "mainnet"
    /\ Begin("FuelChainState", Verification("verifyMainnet"))

\* The proxy has the implementation of the record.
UpToDateRecord(r) ==
    r.address > 0 /\ r.implementation = chain.contracts[r.address].implementation

\* With a bug: the first record there is nothing to verify of ends the task.
VerifyUpToCurrent(i) ==
    /\ tasks[i].at = "next"
    /\ tasks[i].todo # {}
    /\ LET n == CHOOSE n \in tasks[i].todo : TRUE
           r == tasks[i].records[n]
       IN
       tasks' = CASE UpToDateRecord(r) -> [tasks EXCEPT ![i].at = "done", ![i].todo = {}]
                  [] r.address = 0 -> [tasks EXCEPT ![i].todo = @ \ {n}]
                  [] r.verifiable ->
                        [tasks EXCEPT ![i].todo = @ \ {n},
                                      ![i].verified = @ \union {<<n, r.implementation>>}]
                  [] OTHER -> [tasks EXCEPT ![i].at = "threw"]
    /\ UNCHANGED <<network, chain, files, job, safe, seen, world>>

\* One record after the other: the bridge on Fuel is no address, tokens are no proxies, and
\* without an upgrade there is nothing to verify.  A record without the
\* transaction and the arguments that made it ends the task.
Verify(i) ==
    /\ tasks[i].at = "next"
    /\ tasks[i].todo # {}
    /\ LET n == CHOOSE n \in tasks[i].todo : TRUE
           r == tasks[i].records[n]
       IN
       tasks' = CASE r.address = 0 \/ UpToDateRecord(r) -> [tasks EXCEPT ![i].todo = @ \ {n}]
                  [] r.verifiable ->
                        [tasks EXCEPT ![i].todo = @ \ {n},
                                      ![i].verified = @ \union {<<n, r.implementation>>}]
                  [] OTHER -> [tasks EXCEPT ![i].at = "threw"]
    /\ UNCHANGED <<network, chain, files, job, safe, seen, world>>

\* verification.json is written, by verify-deployment.
VerifyEnds(i) ==
    /\ tasks[i].at = "next"
    /\ tasks[i].todo = {}
    /\ Goes(i, "done")
    /\ UNCHANGED <<network, chain, files, job, safe, seen, world>>

-----------------------------------------------------------------------------

StartTask ==
    \/ \E signer \in Signers :
          \/ \E name \in {"FuelMessagePortal", "FuelERC20GatewayV4"} :
                \/ pause(signer, name)
                \/ unpause(signer, name)
                \/ \E account \in {"watchtower"} : grantRole(signer, name, account)
          \/ withdrawalPause(signer)
          \/ withdrawalResume(signer)
          \/ withdrawalBlacklist(signer)
          \/ withdrawalWhitelist(signer)
          \/ resetETHRateLimit(signer)
          \/ resetERC20RateLimit(signer)
    \/ depositETH
    \/ \E value \in Amounts : depositToken(value)
    \/ depositMetadata
    \/ \E name \in {"FuelMessagePortal", "FuelERC20GatewayV4", "FuelChainState"} : eventFilter(name)
    \/ verifyDeployment
    \/ verifyMainnetDeployment

TaskStep(i) ==
    \/ CheckRole(i)
    \/ SendCall(i)
    \/ Approve(i)
    \/ Deposit(i)
    \/ QueryNonce(i)
    \/ QueryEvents(i)
    \/ QueryRole(i)
    \/ Verify(i)
    \/ VerifyEnds(i)

TaskNext ==
    \/ Next /\ UNCHANGED taskVars
    \/ StartTask
    \/ \E i \in DOMAIN tasks : TaskStep(i)
    \/ NewBlock

TaskSpec == TaskInit /\ [][TaskNext]_allVars /\ WF_vars(Run /\ UNCHANGED taskVars)

-----------------------------------------------------------------------------
(* Properties *)

\* After the hand-over a pause stands until the multisig lifts it: of the
\* accounts that sign tasks some can pause, none can unpause.
PauseStands ==
    [][\A n \in Contracts :
            /\ "relinquish_ownership" \in files.migrations
            /\ Contract(n).paused
            => Contract(n).paused']_allVars

\* grantedRoles.json lists every role that was held when the task started and
\* when it ended, and none that was held at neither.
ReportFaithful ==
    \A i \in DOMAIN tasks :
        tasks[i].kind = "filter" /\ tasks[i].at = "done" =>
            /\ tasks[i].before \intersect tasks[i].after \subseteq tasks[i].report
            /\ tasks[i].report \subseteq tasks[i].before \union tasks[i].after

\* A verification that came to its end has verified the implementation of each
\* upgrade that was up for execution all along, although it works from records it
\* read at its start.
VerifiedBeforeExecution ==
    \A i \in DOMAIN tasks :
        tasks[i].kind \in {"verify", "verifyMainnet"} /\ tasks[i].at = "done" =>
            \A p \in tasks[i].before \intersect safe.open : \A k \in DOMAIN p.calls :
                p.calls[k].call.fn = "upgradeTo" =>
                    \/ <<p.calls[k].name, p.calls[k].call.implementation>> \in tasks[i].verified
                    \/ Contract(p.calls[k].name).implementation = p.calls[k].call.implementation

=============================================================================
