--------------------------- MODULE DeploymentProofs --------------------------
(***************************************************************************)
(* Theorems about Deployment and BridgeTasks, for any number of crashes,    *)
(* reruns, tasks and blocks, and for any accounts that sign.                *)
(***************************************************************************)
EXTENDS DeploymentInvariants, SequenceTheorems, WellFoundedInduction, TLAPS

LEMMA AppendSequence ==
    ASSUME NEW s, IsSequence(s), NEW e
    PROVE  /\ IsSequence(Append(s, e))
           /\ Len(Append(s, e)) = Len(s) + 1
           /\ DOMAIN Append(s, e) = 1 .. Len(s) + 1
           /\ \A i \in DOMAIN s : Append(s, e)[i] = s[i]
           /\ Append(s, e)[Len(s) + 1] = e
BY DEF IsSequence

LEMMA LeastOf ==
    ASSUME NEW S \in SUBSET Nat, S # {}
    PROVE  Min(S) \in S /\ \A j \in S : Min(S) <= j
<1>1. PICK m \in S : \A j \in S : <<j, m>> \notin OpToRel(<, Nat)
  BY NatLessThanWellFounded, WFMin
<1>2. \A j \in S : ~(j < m)
  BY <1>1 DEF OpToRel
<1>3. \A j \in S : m =< j
  BY <1>2
<1> QED
  BY <1>3 DEF Min

------------------------------------------------------------------------------
(* What tasks are, and what a step makes of them *)

LEMMA BeginEffect ==
    ASSUME NEW name, NEW t, Begin(name, t),
           TaskStarts(t), TaskStarts([t EXCEPT !.at = "missing"])
    PROVE  /\ \E s : TaskStarts(s) /\ tasks' = Append(tasks, s)
           /\ UNCHANGED <<network, chain, files, job, safe, seen, world>>
BY DEF Begin

LEMMA CallBegins ==
    ASSUME NEW signer \in Signers, NEW name, NEW call, NEW checked,
           name \in {"FuelMessagePortal", "FuelERC20GatewayV4", "FuelERC20Gateway"},
           call \in TaskCalls,
           Begin(name, CallTask(signer, name, call, checked))
    PROVE  /\ \E s : TaskStarts(s) /\ tasks' = Append(tasks, s)
           /\ UNCHANGED <<network, chain, files, job, safe, seen, world>>
<1> DEFINE t == CallTask(signer, name, call, checked)
<1>1. CallStarts(t)
  BY DEF CallStarts, CallTask, CallFields
<1>2. CallStarts([t EXCEPT !.at = "missing"])
  BY DEF CallStarts, CallTask, CallFields
<1> HIDE DEF t
<1> QED
  BY <1>1, <1>2, BeginEffect DEF TaskStarts, t

LEMMA DepositBegins ==
    ASSUME NEW kind \in Deposits, NEW at \in {"approve", "deposit"}, NEW name, NEW value,
           Begin(name, DepositTask(kind, at, name, value))
    PROVE  /\ \E s : TaskStarts(s) /\ tasks' = Append(tasks, s)
           /\ UNCHANGED <<network, chain, files, job, safe, seen, world>>
<1> DEFINE t == DepositTask(kind, at, name, value)
<1>1. DepositStarts(t)
  BY DEF DepositStarts, DepositTask, DepositFields
<1>2. DepositStarts([t EXCEPT !.at = "missing"])
  BY DEF DepositStarts, DepositTask, DepositFields
<1> HIDE DEF t
<1> QED
  BY <1>1, <1>2, BeginEffect DEF TaskStarts, t

LEMMA FilterBegins ==
    ASSUME NEW name \in {"FuelMessagePortal", "FuelERC20GatewayV4", "FuelChainState"},
           eventFilter(name)
    PROVE  /\ \E s : TaskStarts(s) /\ tasks' = Append(tasks, s)
           /\ UNCHANGED <<network, chain, files, job, safe, seen, world>>
<1> DEFINE t == [kind |-> "filter", at |-> "events", name |-> name, todo |-> {}, report |-> {},
                 before |-> {}, after |-> {}]
<1>1. Begin(name, t) /\ t.kind = "filter"
  BY DEF eventFilter
<1>2. "gateway_ownership" \in files.migrations
  BY <1>1 DEF Begin, InBounds, Reading
<1>3. FilterStarts(t)
  BY <1>2 DEF FilterStarts, FilterFields
<1>4. FilterStarts([t EXCEPT !.at = "missing"])
  BY <1>2 DEF FilterStarts, FilterFields
<1> HIDE DEF t
<1> QED
  BY <1>1, <1>3, <1>4, BeginEffect DEF TaskStarts

LEMMA VerifyBegins ==
    ASSUME NEW kind \in Verifying, Begin("FuelChainState", Verification(kind))
    PROVE  /\ \E s : TaskStarts(s) /\ tasks' = Append(tasks, s)
           /\ UNCHANGED <<network, chain, files, job, safe, seen, world>>
<1> DEFINE t == Verification(kind)
<1>1. t.kind \in Reading
  BY DEF Verification, Verifying, Reading
<1>2. "gateway_ownership" \in files.migrations
  BY <1>1 DEF Begin, InBounds
<1>3. VerifyStarts(t)
  BY <1>2 DEF VerifyStarts, VerifyFields, Verification
<1>4. VerifyStarts([t EXCEPT !.at = "missing"])
  BY <1>2 DEF VerifyStarts, VerifyFields, Verification
<1> HIDE DEF t
<1> QED
  BY <1>3, <1>4, BeginEffect DEF TaskStarts, t

LEMMA StartEffect ==
    ASSUME StartTask
    PROVE  /\ \E s : TaskStarts(s) /\ tasks' = Append(tasks, s)
           /\ UNCHANGED <<network, chain, files, job, safe, seen, world>>
<1>1. ASSUME NEW signer \in Signers, NEW name \in {"FuelMessagePortal", "FuelERC20GatewayV4"},
             \/ pause(signer, name)
             \/ unpause(signer, name)
             \/ grantRole(signer, name, "watchtower")
      PROVE  /\ \E s : TaskStarts(s) /\ tasks' = Append(tasks, s)
             /\ UNCHANGED <<network, chain, files, job, safe, seen, world>>
  <2>1. CASE pause(signer, name)
    BY <2>1, CallBegins DEF pause, TaskCalls
  <2>2. CASE unpause(signer, name)
    BY <2>2, CallBegins DEF unpause, TaskCalls
  <2>3. CASE grantRole(signer, name, "watchtower")
    BY <2>3, CallBegins DEF grantRole, TaskCalls
  <2> QED
    BY <1>1, <2>1, <2>2, <2>3
<1>2. ASSUME NEW signer \in Signers,
             \/ withdrawalPause(signer) \/ withdrawalResume(signer)
             \/ withdrawalBlacklist(signer) \/ withdrawalWhitelist(signer)
             \/ resetETHRateLimit(signer) \/ resetERC20RateLimit(signer)
      PROVE  /\ \E s : TaskStarts(s) /\ tasks' = Append(tasks, s)
             /\ UNCHANGED <<network, chain, files, job, safe, seen, world>>
  <2>1. CASE withdrawalPause(signer)
    BY <2>1, CallBegins DEF withdrawalPause, TaskCalls
  <2>2. CASE withdrawalResume(signer)
    BY <2>2, CallBegins DEF withdrawalResume, TaskCalls
  <2>3. CASE withdrawalBlacklist(signer)
    BY <2>3, CallBegins DEF withdrawalBlacklist, TaskCalls
  <2>4. CASE withdrawalWhitelist(signer)
    BY <2>4, CallBegins DEF withdrawalWhitelist, TaskCalls
  <2>5. CASE resetETHRateLimit(signer)
    BY <2>5, CallBegins DEF resetETHRateLimit, TaskCalls
  <2>6. CASE resetERC20RateLimit(signer)
    BY <2>6, CallBegins DEF resetERC20RateLimit, TaskCalls
  <2> QED
    BY <1>2, <2>1, <2>2, <2>3, <2>4, <2>5, <2>6
<1>3. ASSUME \/ depositETH
             \/ \E value \in Amounts : depositToken(value)
             \/ depositMetadata
      PROVE  /\ \E s : TaskStarts(s) /\ tasks' = Append(tasks, s)
             /\ UNCHANGED <<network, chain, files, job, safe, seen, world>>
  <2>1. CASE depositETH
    BY <2>1, DepositBegins DEF depositETH, Deposits
  <2>2. CASE \E value \in Amounts : depositToken(value)
    BY <2>2, DepositBegins DEF depositToken, Deposits
  <2>3. CASE depositMetadata
    BY <2>3, DepositBegins DEF depositMetadata, Deposits
  <2> QED
    BY <1>3, <2>1, <2>2, <2>3
<1>4. ASSUME verifyDeployment \/ verifyMainnetDeployment
      PROVE  /\ \E s : TaskStarts(s) /\ tasks' = Append(tasks, s)
             /\ UNCHANGED <<network, chain, files, job, safe, seen, world>>
  BY <1>4, VerifyBegins DEF verifyDeployment, verifyMainnetDeployment, Verifying
<1> QED
  BY <1>1, <1>2, <1>3, <1>4, FilterBegins DEF StartTask

LEMMA InitShape == TaskInit => ShapeInv
BY DEF TaskInit, ShapeInv, IsSequence

\* A task that is changed stays in its place, and the others are as they were.
LEMMA ChangedTask ==
    ASSUME ShapeInv, NEW i \in DOMAIN tasks, NEW t, tasks' = [tasks EXCEPT ![i] = t],
           ShapedTask(t)
    PROVE  ShapeInv'
<1>1. Len(tasks') = Len(tasks) /\ DOMAIN tasks' = DOMAIN tasks
  BY DEF ShapeInv, IsSequence
<1>2. IsSequence(tasks')
  BY <1>1 DEF ShapeInv, IsSequence
<1>3. \A j \in DOMAIN tasks' : ShapedTask(tasks'[j])
  BY <1>1 DEF ShapeInv
<1> QED
  BY <1>2, <1>3 DEF ShapeInv

LEMMA StartsShaped ==
    ASSUME NEW t, TaskStarts(t)
    PROVE  ShapedTask(t)
BY DEF TaskStarts, CallStarts, DepositStarts, FilterStarts, VerifyStarts, ShapedTask

\* A step of a task is an assignment to it.
LEMMA StepShape ==
    ASSUME ShapeInv, NEW i \in DOMAIN tasks, TaskStep(i)
    PROVE  \E t : tasks' = [tasks EXCEPT ![i] = t] /\ ShapedTask(t) /\ t.kind = tasks[i].kind
<1> DEFINE u == tasks[i]
<1> ShapedTask(u)
  BY DEF ShapeInv
<1>1. CASE CheckRole(i)
  <2>1. u.kind = "call" /\ DOMAIN u = CallFields
    BY <1>1 DEF CheckRole, ShapedTask, Deposits, Verifying
  <2>2. CASE tasks' = [tasks EXCEPT ![i].at = "send"]
    <3>1. tasks' = [tasks EXCEPT ![i] = [u EXCEPT !.at = "send"]]
      BY <2>2
    <3>2. ShapedTask([u EXCEPT !.at = "send"]) /\ [u EXCEPT !.at = "send"].kind = "call"
      BY <2>1 DEF ShapedTask, CallFields
    <3> QED
      BY <3>1, <3>2, <2>1
  <2>3. CASE tasks' = [tasks EXCEPT ![i] = [kind |-> "call", at |-> "threw"]]
    <3> DEFINE t == [kind |-> "call", at |-> "threw"]
    <3>1. ShapedTask(t) /\ t.kind = "call"
      BY DEF ShapedTask
    <3> HIDE DEF t
    <3>2. tasks' = [tasks EXCEPT ![i] = t]
      BY <2>3 DEF t
    <3> QED
      BY <2>1, <3>1, <3>2
  <2> QED
    BY <1>1, <2>2, <2>3 DEF CheckRole, Goes, Ends
<1>2. CASE SendCall(i)
  <2>1. PICK at \in {"done", "threw"} : tasks' = [tasks EXCEPT ![i] = [kind |-> "call", at |-> at]]
    BY <1>2 DEF SendCall, Ends
  <2> DEFINE t == [kind |-> "call", at |-> at]
  <2>2. ShapedTask(t) /\ t.kind = "call"
    BY DEF ShapedTask
  <2>3. u.kind = "call"
    BY <1>2 DEF SendCall
  <2> HIDE DEF t
  <2>4. tasks' = [tasks EXCEPT ![i] = t]
    BY <2>1 DEF t
  <2> QED
    BY <2>2, <2>3, <2>4
<1>3. CASE Approve(i)
  <2>1. u.kind = "token" /\ DOMAIN u = DepositFields
    BY <1>3 DEF Approve, ShapedTask, Deposits, Verifying
  <2>2. tasks' = [tasks EXCEPT ![i] = [u EXCEPT !.at = "deposit"]]
    BY <1>3 DEF Approve, Goes
  <2>3. ShapedTask([u EXCEPT !.at = "deposit"]) /\ [u EXCEPT !.at = "deposit"].kind = "token"
    BY <2>1 DEF ShapedTask, DepositFields, Deposits
  <2> QED
    BY <2>1, <2>2, <2>3
<1>4. CASE Deposit(i)
  <2>1. u.kind \in Deposits /\ DOMAIN u = DepositFields
    BY <1>4 DEF Deposit, ShapedTask, Deposits, Verifying
  <2>2. \A at, block : [[u EXCEPT !.at = at] EXCEPT !.block = block] =
                          [u EXCEPT !.at = at, !.block = block]
    OBVIOUS
  <2>3. PICK t \in {[u EXCEPT !.at = "threw"], [u EXCEPT !.at = "query", !.block = world.block],
                    [u EXCEPT !.at = "done", !.block = world.block]} :
              tasks' = [tasks EXCEPT ![i] = t]
    <3>1. CASE tasks' = [tasks EXCEPT ![i].at = "threw"]
      BY <3>1
    <3>2. CASE tasks' = [tasks EXCEPT
                ![i].at = IF tasks[i].kind = "metadata" THEN "query" ELSE "done",
                ![i].block = world.block]
      <4> DEFINE at == IF tasks[i].kind = "metadata" THEN "query" ELSE "done"
      <4>1. tasks' = [tasks EXCEPT ![i] = [u EXCEPT !.at = at, !.block = world.block]]
        BY <3>2
      <4> QED
        BY <4>1
    <3> QED
      BY <1>4, <3>1, <3>2 DEF Deposit, Goes
  <2>4. ShapedTask(t) /\ t.kind = u.kind
    BY <2>1, <2>3 DEF ShapedTask, DepositFields
  <2> QED
    BY <2>3, <2>4
<1>5. CASE QueryNonce(i)
  <2>1. u.kind = "metadata" /\ DOMAIN u = DepositFields
    BY <1>5 DEF QueryNonce, ShapedTask, Deposits, Verifying
  <2> DEFINE t == [u EXCEPT !.at = "done", !.printed = Min(SentIn(u.block))]
  <2>2. tasks' = [tasks EXCEPT ![i] = t]
    BY <1>5 DEF QueryNonce
  <2>3. ShapedTask(t) /\ t.kind = u.kind
    BY <2>1 DEF ShapedTask, DepositFields, Deposits
  <2> QED
    BY <2>2, <2>3
<1>6. CASE QueryEvents(i)
  <2>1. u.kind = "filter" /\ DOMAIN u = FilterFields
    BY <1>6 DEF QueryEvents, ShapedTask, Deposits, Verifying
  <2> DEFINE c == Contract(u.name)
  <2> DEFINE t == [u EXCEPT !.at = "roles", !.before = c.roles, !.todo = c.granted]
  <2>2. tasks' = [tasks EXCEPT ![i] = t]
    BY <1>6 DEF QueryEvents
  <2>3. ShapedTask(t) /\ t.kind = u.kind
    BY <2>1 DEF ShapedTask, FilterFields
  <2> QED
    BY <2>2, <2>3
<1>7. CASE QueryRole(i)
  <2>1. u.kind = "filter" /\ u.at = "roles" /\ DOMAIN u = FilterFields
    BY <1>7 DEF QueryRole, ShapedTask, Deposits, Verifying
  <2> DEFINE roles == Contract(u.name).roles
  <2> DEFINE e == CHOOSE e \in u.todo : TRUE
  <2>2. PICK t \in {[u EXCEPT !.at = "done", !.after = roles],
                    [u EXCEPT !.todo = @ \ {e}, !.report = @ \union ({e} \intersect roles)]} :
              tasks' = [tasks EXCEPT ![i] = t]
    BY <1>7 DEF QueryRole
  <2>3. ShapedTask(t) /\ t.kind = u.kind
    BY <2>1, <2>2 DEF ShapedTask, FilterFields
  <2> QED
    BY <2>2, <2>3
<1>8. CASE Verify(i)
  <2>1. u.kind \in Verifying /\ u.at = "next" /\ DOMAIN u = VerifyFields
    BY <1>8 DEF Verify, ShapedTask, Deposits, Verifying
  <2> DEFINE n == CHOOSE n \in u.todo : TRUE
  <2> DEFINE v == <<n, u.records[n].implementation>>
  <2>2. PICK t \in {[u EXCEPT !.todo = @ \ {n}],
                    [u EXCEPT !.todo = @ \ {n}, !.verified = @ \union {v}],
                    [u EXCEPT !.at = "threw"]} :
              tasks' = [tasks EXCEPT ![i] = t]
    <3>1. \/ tasks' = [tasks EXCEPT ![i].todo = @ \ {n}]
          \/ tasks' = [tasks EXCEPT ![i].todo = @ \ {n}, ![i].verified = @ \union {v}]
          \/ tasks' = [tasks EXCEPT ![i].at = "threw"]
      BY <1>8, SMT DEF Verify
    <3>2. CASE tasks' = [tasks EXCEPT ![i].todo = @ \ {n}]
      BY <3>2
    <3>3. CASE tasks' = [tasks EXCEPT ![i].todo = @ \ {n}, ![i].verified = @ \union {v}]
      <4>1. tasks' = [tasks EXCEPT ![i] = [u EXCEPT !.todo = @ \ {n}, !.verified = @ \union {v}]]
        BY <3>3
      <4> QED
        BY <4>1
    <3>4. CASE tasks' = [tasks EXCEPT ![i].at = "threw"]
      BY <3>4
    <3> QED
      BY <3>1, <3>2, <3>3, <3>4
  <2>3. ShapedTask(t) /\ t.kind = u.kind
    BY <2>1, <2>2 DEF ShapedTask, VerifyFields, Verifying
  <2> QED
    BY <2>2, <2>3
<1>9. CASE VerifyEnds(i)
  <2>1. u.kind \in Verifying /\ u.at = "next" /\ DOMAIN u = VerifyFields
    BY <1>9 DEF VerifyEnds, ShapedTask, Deposits, Verifying
  <2>2. tasks' = [tasks EXCEPT ![i] = [u EXCEPT !.at = "done"]]
    BY <1>9 DEF VerifyEnds, Goes
  <2>3. ShapedTask([u EXCEPT !.at = "done"]) /\ [u EXCEPT !.at = "done"].kind = u.kind
    BY <2>1 DEF ShapedTask, VerifyFields, Verifying
  <2> QED
    BY <2>2, <2>3
<1> QED
  BY <1>1, <1>2, <1>3, <1>4, <1>5, <1>6, <1>7, <1>8, <1>9 DEF TaskStep

LEMMA NextShape == ShapeInv /\ [TaskNext]_allVars => ShapeInv'
<1> SUFFICES ASSUME ShapeInv, [TaskNext]_allVars
             PROVE  ShapeInv'
  OBVIOUS
<1>1. CASE UNCHANGED tasks
  BY <1>1 DEF ShapeInv
<1>2. CASE StartTask
  <2>1. PICK t : TaskStarts(t) /\ tasks' = Append(tasks, t)
    BY <1>2, StartEffect
  <2>2. ShapedTask(t)
    BY <2>1, StartsShaped
  <2>3. ASSUME NEW i \in DOMAIN tasks'
        PROVE  tasks'[i] = t \/ (i \in DOMAIN tasks /\ tasks'[i] = tasks[i])
    <3>1. IsSequence(tasks)
      BY DEF ShapeInv
    <3>2. /\ DOMAIN tasks' = 1 .. Len(tasks) + 1
          /\ \A j \in DOMAIN tasks : tasks'[j] = tasks[j]
          /\ tasks'[Len(tasks) + 1] = t
      BY <2>1, <3>1, AppendSequence
    <3>3. i \in DOMAIN tasks \/ i = Len(tasks) + 1
      BY <3>1, <3>2 DEF IsSequence
    <3> QED
      BY <3>2, <3>3
  <2>4. IsSequence(tasks')
    BY <2>1, AppendSequence DEF ShapeInv
  <2> QED
    BY <2>2, <2>3, <2>4 DEF ShapeInv
<1>3. ASSUME NEW i \in DOMAIN tasks, TaskStep(i)
      PROVE  ShapeInv'
  BY <1>3, StepShape, ChangedTask
<1> QED
  BY <1>1, <1>2, <1>3 DEF TaskNext, allVars, taskVars, NewBlock

LEMMA NextCalls == CallInv /\ [TaskNext]_allVars => CallInv'
<1> SUFFICES ASSUME CallInv, [TaskNext]_allVars
             PROVE  CallInv'
  OBVIOUS
<1>0. ShapeInv'
  BY NextShape DEF CallInv
<1>1. CASE UNCHANGED tasks
  BY <1>0, <1>1 DEF CallInv
<1>2. CASE StartTask
  <2>1. PICK t : TaskStarts(t) /\ tasks' = Append(tasks, t)
    BY <1>2, StartEffect
  <2>2. t.kind = "call" => t.signer \in Signers /\ t.call \in TaskCalls
    BY <2>1 DEF TaskStarts, CallStarts, DepositStarts, FilterStarts, VerifyStarts,
        Deposits, Verifying
  <2>3. /\ IsSequence(tasks)
        /\ DOMAIN tasks' = 1 .. Len(tasks) + 1
        /\ \A i \in DOMAIN tasks : tasks'[i] = tasks[i]
        /\ tasks'[Len(tasks) + 1] = t
    BY <2>1, AppendSequence DEF CallInv, ShapeInv
  <2>4. \A i \in DOMAIN tasks' : i \in DOMAIN tasks \/ tasks'[i] = t
    BY <2>3 DEF IsSequence
  <2> QED
    BY <1>0, <2>2, <2>3, <2>4 DEF CallInv
<1>3. ASSUME NEW i \in DOMAIN tasks, TaskStep(i)
      PROVE  CallInv'
  <2>1. PICK t : tasks' = [tasks EXCEPT ![i] = t] /\ ShapedTask(t) /\ t.kind = tasks[i].kind
    BY <1>3, StepShape DEF CallInv
  <2>2. DOMAIN tasks' = DOMAIN tasks /\ tasks'[i] = t
        /\ \A j \in DOMAIN tasks : j # i => tasks'[j] = tasks[j]
    BY <2>1
  <2>3. SUFFICES ASSUME t.kind = "call", t.at \in {"check", "send", "missing"}
                 PROVE  t.signer \in Signers /\ t.call \in TaskCalls
    BY <1>0, <2>2 DEF CallInv
  <2>4. ShapedTask(tasks[i]) /\ tasks[i].kind = "call"
    BY <2>1, <2>3 DEF CallInv, ShapeInv
  <2>5. CheckRole(i)
    <3>1. ~SendCall(i)
      <4>1. ASSUME NEW at \in {"done", "threw"},
                   tasks' = [tasks EXCEPT ![i] = [kind |-> "call", at |-> at]]
            PROVE  FALSE
        BY <2>2, <2>3, <4>1
      <4> QED
        BY <4>1 DEF SendCall, Ends
    <3> QED
      BY <1>3, <2>4, <3>1 DEF TaskStep, Approve, Deposit, QueryNonce, QueryEvents, QueryRole,
          Verify, VerifyEnds, Deposits, ShapedTask, Verifying
  <2>6. tasks' = [tasks EXCEPT ![i].at = "send"]
    <3>1. tasks' # [tasks EXCEPT ![i] = [kind |-> "call", at |-> "threw"]]
      BY <2>2, <2>3
    <3> QED
      BY <2>5, <3>1 DEF CheckRole, Goes, Ends
  <2>7. tasks[i].at = "check"
    BY <2>5 DEF CheckRole
  <2>8. t = [tasks[i] EXCEPT !.at = "send"]
    BY <2>2, <2>6
  <2>9. t.signer = tasks[i].signer /\ t.call = tasks[i].call
    BY <2>4, <2>7, <2>8 DEF ShapedTask, CallFields, Deposits, Verifying
  <2> QED
    BY <2>4, <2>7, <2>9 DEF CallInv
<1> QED
  BY <1>1, <1>2, <1>3 DEF TaskNext, allVars, taskVars, NewBlock

------------------------------------------------------------------------------
(* What calls make of a contract *)

\* Nobody lost a role.
Grown(c, d) == DOMAIN d = ContractFields /\ c.roles \subseteq d.roles

\* Nobody lost a role, the deployer got none, nobody but the multisig became an
\* administrator, and all that was granted was an event.
Steady(c, d) ==
    /\ Grown(c, d)
    /\ d.contract = c.contract
    /\ \A r : <<r, "deployer">> \in d.roles => <<r, "deployer">> \in c.roles
    /\ \A a : <<"DEFAULT_ADMIN_ROLE", a>> \in d.roles =>
            a = "multisig" \/ <<"DEFAULT_ADMIN_ROLE", a>> \in c.roles
    /\ c.roles \subseteq c.granted => d.roles \subseteq d.granted

SteadyCall(call) ==
    /\ call.fn \notin {"renounceRole", "upgradeToAndCall"}
    /\ call.fn = "grantRole" =>
            /\ call.account # "deployer"
            /\ call.role = "DEFAULT_ADMIN_ROLE" => call.account = "multisig"

LEMMA AfterFields ==
    ASSUME NEW c, DOMAIN c = ContractFields, NEW sender, NEW call
    PROVE  DOMAIN After(c, sender, call) = ContractFields
BY DEF After, Granted, ContractFields

LEMMA AfterGrows ==
    ASSUME NEW c, DOMAIN c = ContractFields, NEW sender, NEW call, call.fn # "renounceRole"
    PROVE  Grown(c, After(c, sender, call))
<1>1. c.roles \subseteq After(c, sender, call).roles
  BY DEF After, Granted, ContractFields
<1> QED
  BY <1>1, AfterFields DEF Grown

LEMMA AfterSteady ==
    ASSUME NEW c, DOMAIN c = ContractFields, NEW sender, NEW call, SteadyCall(call)
    PROVE  Steady(c, After(c, sender, call))
<1> DEFINE d == After(c, sender, call)
<1>1. CASE call.fn = "grantRole"
  <2>1. d = Granted(c, call.role, call.account)
    BY <1>1 DEF After
  <2>2. /\ d.roles = c.roles \union {<<call.role, call.account>>}
        /\ d.granted = c.granted \union {<<call.role, call.account>>}
        /\ d.contract = c.contract
    BY <2>1 DEF Granted, ContractFields
  <2> HIDE DEF d
  <2>3. /\ \A r : <<r, "deployer">> \in d.roles => <<r, "deployer">> \in c.roles
        /\ \A a : <<"DEFAULT_ADMIN_ROLE", a>> \in d.roles =>
              a = "multisig" \/ <<"DEFAULT_ADMIN_ROLE", a>> \in c.roles
    BY <1>1, <2>2 DEF SteadyCall
  <2> QED
    BY <1>1, <2>2, <2>3, AfterGrows DEF Steady, d
<1>2. CASE call.fn # "grantRole"
  <2>1. d.roles = c.roles /\ d.granted = c.granted /\ d.contract = c.contract
    BY <1>2 DEF After, SteadyCall, ContractFields
  <2>2. DOMAIN d = ContractFields
    BY AfterFields
  <2> HIDE DEF d
  <2> QED
    BY <2>1, <2>2 DEF Steady, Grown, d
<1> QED
  BY <1>1, <1>2

\* Only an upgrade changes the implementation, and only two calls the pause.
LEMMA AfterFrame ==
    ASSUME NEW c, DOMAIN c = ContractFields, NEW sender, NEW call
    PROVE  /\ call.fn \notin {"upgradeTo", "upgradeToAndCall"} =>
                    After(c, sender, call).implementation = c.implementation
           /\ call.fn = "upgradeTo" => After(c, sender, call).implementation = call.implementation
           /\ call.fn # "unpause" => (c.paused => After(c, sender, call).paused)
BY DEF After, Granted, ContractFields

LEMMA NewFields ==
    ASSUME NEW contract, NEW initializer, NEW implementation, NEW linked
    PROVE  LET c == NewContract(contract, initializer, implementation, linked) IN
           /\ DOMAIN c = ContractFields /\ c.contract = contract
           /\ c.roles = RolesAtInitialize(contract, initializer) \X {"deployer"}
           /\ c.granted = c.roles
           /\ <<"DEFAULT_ADMIN_ROLE", "deployer">> \in c.roles
BY DEF NewContract, ContractFields, RolesAtInitialize

------------------------------------------------------------------------------
(* Addresses are of contracts, on every network *)

\* Contract c with another implementation.
Reimplemented(c, d) ==
    /\ DOMAIN d = DOMAIN c
    /\ \A f \in DOMAIN c \ {"implementation"} : d[f] = c[f]

LEMMA SettledContracts ==
    ASSUME BaseInv
    PROVE  /\ IsSequence(Settled) /\ Len(Settled) = Len(chain.contracts)
           /\ DOMAIN Settled = DOMAIN chain.contracts
           /\ \A a \in DOMAIN Settled : /\ DOMAIN Settled[a] = ContractFields
                                        /\ Reimplemented(chain.contracts[a], Settled[a])
<1>1. CASE chain.sent = NothingSent
  BY <1>1 DEF Settled, BaseInv, Reimplemented
<1>2. CASE chain.sent # NothingSent
  <2> DEFINE x == chain.sent.address
  <2> DEFINE t == [chain.contracts EXCEPT ![x].implementation = chain.sent.implementation]
  <2>1. Settled = t
    BY <1>2 DEF Settled
  <2>2. DOMAIN t = 1 .. Len(chain.contracts) /\ Len(chain.contracts) \in Nat
    BY DEF BaseInv, IsSequence
  <2>3. \A a \in DOMAIN chain.contracts :
          /\ DOMAIN t[a] = ContractFields
          /\ Reimplemented(chain.contracts[a], t[a])
    BY DEF BaseInv, Reimplemented
  <2> HIDE DEF t
  <2>4. Len(t) = Len(chain.contracts)
    BY <2>2
  <2> QED
    BY <2>1, <2>2, <2>3, <2>4 DEF BaseInv, IsSequence
<1> QED
  BY <1>1, <1>2

\* The step calls the contract at a.
CallsStep(a, sender, call) ==
    /\ step.op = "execute" => a = Address(step.name) /\ sender = step.sender /\ call = step.call
    /\ step.op # "execute" =>
            step.op \in {"linkChainState", "upgradeAndReinitialize"} /\ call.fn # "renounceRole"
    /\ Allowed(Settled[a], sender, call)
    /\ chain'.contracts = [Settled EXCEPT ![a] = After(Settled[a], sender, call)]

\* A step appends a contract, settles the upgrade that was sent, or calls.
ContractsStep ==
    \/ chain'.contracts = chain.contracts
    \/ chain'.contracts = Settled
    \/ /\ step.op = "deployProxy"
       /\ \E implementation, linked : chain'.contracts = Append(Settled,
            NewContract(step.contract, step.initializer, implementation, linked))
    \/ \E a \in 0 .. Len(chain.contracts) : \E sender, call : CallsStep(a, sender, call)

\* The step is done.
Advances ==
    /\ network' = network /\ seen' = seen
    /\ ContractsStep /\ DOMAIN chain' = {"contracts", "sent", "tokens"}
    /\ DOMAIN files' = {"records", "migrations", "addresses"}
    /\ files'.migrations = files.migrations
    /\ \A n \in DOMAIN files'.records : files'.records[n].address \in 0 .. Len(chain.contracts)
    /\ DOMAIN job' = {"at", "pc", "address", "implementation", "reached"}
    /\ job'.at = job.at /\ job'.pc = job.pc + 1 /\ job'.reached = job.reached
    /\ \/ job'.address \in 0 .. Len(chain.contracts)
       \/ /\ job'.address = Len(chain.contracts) + 1
          /\ Len(chain'.contracts) = Len(chain.contracts) + 1
    /\ DOMAIN safe' = {"nonce", "open", "executed"}
    /\ step.op \notin {"propose", "proposeUpgrade"} => safe' = safe

LEMMA TransactionEffect ==
    ASSUME BaseInv, NEW address \in 0 .. Len(chain.contracts), NEW sender, NEW call,
           step.op = "execute" => address = Address(step.name) /\ sender = step.sender /\ call = step.call,
           step.op # "execute" =>
                step.op \in {"linkChainState", "upgradeAndReinitialize"} /\ call.fn # "renounceRole",
           Transaction(address, sender, call)
    PROVE  Throw \/ Advances
<1>1. CASE ~Allowed(Settled[address], sender, call)
  BY <1>1 DEF Transaction
<1>2. CASE Allowed(Settled[address], sender, call)
  <2>1. /\ chain' = [chain EXCEPT
              !.contracts = [Settled EXCEPT ![address] = After(Settled[address], sender, call)],
              !.sent = NothingSent]
        /\ job' = [Done EXCEPT !.address = address]
        /\ UNCHANGED <<network, files, safe, seen>>
    BY <1>2 DEF Transaction
  <2>2. ContractsStep /\ DOMAIN chain' = {"contracts", "sent", "tokens"}
    BY <1>2, <2>1 DEF ContractsStep, CallsStep, BaseInv
  <2>3. /\ DOMAIN job' = {"at", "pc", "address", "implementation", "reached"}
        /\ job'.at = job.at /\ job'.pc = job.pc + 1 /\ job'.reached = job.reached
        /\ job'.address = address
    BY <2>1 DEF Done, BaseInv
  <2> QED
    BY <2>1, <2>2, <2>3 DEF Advances, BaseInv, Address
<1> QED
  BY <1>1, <1>2

LEMMA SaveEffect ==
    ASSUME BaseInv, NEW name, NEW record, SaveRecord(name, record),
           record.address \in 0 .. Len(chain.contracts),
           job' = Done, UNCHANGED <<network, chain, safe, seen>>
    PROVE  Advances
<1>1. /\ DOMAIN files' = {"records", "migrations", "addresses"}
      /\ files'.migrations = files.migrations
      /\ files'.records = [n \in DOMAIN files.records \union {name} |->
                                IF n = name THEN record ELSE files.records[n]]
  BY DEF SaveRecord, BaseInv
<1>2. \A n \in DOMAIN files'.records : files'.records[n].address \in 0 .. Len(chain.contracts)
  BY <1>1 DEF BaseInv, Address
<1> QED
  BY <1>1, <1>2 DEF Advances, BaseInv, Done, ContractsStep

LEMMA StepEffect ==
    ASSUME BaseInv, Step
    PROVE  Throw \/ Advances
<1>1. CASE ~(Looked(step) \subseteq DOMAIN files.records)
  BY <1>1 DEF Step
<1>2. CASE Looked(step) \subseteq DOMAIN files.records
  <2>0. step.op \in {"upgradeProxy", "prepareUpgrade", "upgradeAndReinitialize",
              "savePrepared", "execute", "linkChainState"}
          => Address(step.name) \in 0 .. Len(chain.contracts)
    BY <1>2 DEF Looked, BaseInv
  <2>1. CASE deployProxy
    <3>1. /\ step.op = "deployProxy"
          /\ \E linked : chain' = [chain EXCEPT
                !.contracts = Append(Settled,
                    NewContract(step.contract, step.initializer, script.id, linked)),
                !.sent = NothingSent]
          /\ job' = [Done EXCEPT !.address = Len(chain.contracts) + 1]
          /\ UNCHANGED <<network, files, safe, seen>>
      BY <2>1 DEF deployProxy
    <3>2. ContractsStep /\ DOMAIN chain' = {"contracts", "sent", "tokens"}
      BY <3>1 DEF ContractsStep, BaseInv
    <3>3. Len(chain'.contracts) = Len(chain.contracts) + 1
      BY <3>1, SettledContracts, AppendSequence DEF BaseInv
    <3> QED
      BY <3>1, <3>2, <3>3 DEF Advances, BaseInv, Done, Address
  <2>2. CASE save
    <3> DEFINE r == Record(job.address, chain.contracts[job.address].implementation,
                            script.id, FALSE, FALSE)
    <3>1. r.address = job.address
      BY DEF Record
    <3> HIDE DEF r
    <3> QED
      BY <2>2, <3>1, SaveEffect DEF save, r, BaseInv
  <2>3. CASE upgradeProxy
    <3> DEFINE sent == [address |-> Address(step.name), implementation |-> script.id]
    <3>1. CASE Throw
      BY <3>1
    <3>2. CASE /\ chain' = [chain EXCEPT !.contracts = Settled, !.sent = sent]
               /\ job' = [Done EXCEPT !.address = Address(step.name)]
               /\ UNCHANGED <<network, files, safe, seen>>
      <4> HIDE DEF sent
      <4>1. ContractsStep /\ DOMAIN chain' = {"contracts", "sent", "tokens"}
        BY <3>2 DEF ContractsStep, BaseInv
      <4>2. Address(step.name) \in 0 .. Len(chain.contracts)
        BY <2>0, <2>3 DEF upgradeProxy
      <4> DEFINE a == Address(step.name)
      <4> HIDE DEF a
      <4>3. job' = [Done EXCEPT !.address = a] /\ a \in 0 .. Len(chain.contracts)
        BY <3>2, <4>2 DEF a
      <4> QED
        BY <3>2, <4>1, <4>3 DEF Advances, BaseInv, Done, Address
    <3> QED
      BY <2>3, <3>1, <3>2 DEF upgradeProxy
  <2>4. CASE awaitUpgrade
    BY <2>4 DEF awaitUpgrade, Advances, BaseInv, Done, Address, ContractsStep
  <2>5. CASE awaitDeployment
    BY <2>5 DEF awaitDeployment
  <2>6. CASE prepareUpgrade
    <3> DEFINE a == Address(step.name)
    <3>1. a \in 0 .. Len(chain.contracts)
      BY <2>0, <2>6 DEF prepareUpgrade
    <3>2. job' = [Done EXCEPT !.address = a, !.implementation = script.id]
      BY <2>6 DEF prepareUpgrade
    <3> HIDE DEF a
    <3> QED
      BY <2>6, <3>1, <3>2 DEF prepareUpgrade, Advances, BaseInv, Done, Address, ContractsStep
  <2>7. CASE upgradeAndReinitialize
    <3> DEFINE a == Address(step.name)
    <3> DEFINE call == UpgradeToAndReinitialize(job.implementation)
    <3>1. a \in 0 .. Len(chain.contracts)
      BY <2>0, <2>7 DEF upgradeAndReinitialize
    <3>2. \/ Throw
          \/ /\ chain' = [chain EXCEPT
                    !.contracts = [Settled EXCEPT ![a] = After(Settled[a], "deployer", call)],
                    !.sent = NothingSent]
             /\ job' = Done
             /\ Allowed(Settled[a], "deployer", call)
             /\ UNCHANGED <<network, files, safe, seen>>
      BY <2>7 DEF upgradeAndReinitialize
    <3>3. call.fn # "renounceRole" /\ step.op = "upgradeAndReinitialize"
      BY <2>7 DEF UpgradeToAndReinitialize, upgradeAndReinitialize
    <3> HIDE DEF a, call
    <3>4. CASE Throw
      BY <3>4
    <3>5. CASE /\ chain' = [chain EXCEPT
                    !.contracts = [Settled EXCEPT ![a] = After(Settled[a], "deployer", call)],
                    !.sent = NothingSent]
               /\ job' = Done
               /\ Allowed(Settled[a], "deployer", call)
               /\ UNCHANGED <<network, files, safe, seen>>
      <4>1. ContractsStep /\ DOMAIN chain' = {"contracts", "sent", "tokens"}
        BY <3>1, <3>3, <3>5 DEF ContractsStep, CallsStep, BaseInv
      <4> QED
        BY <3>5, <4>1 DEF Advances, BaseInv, Done, Address
    <3> QED
      BY <3>2, <3>4, <3>5
  <2>8. CASE savePrepared
    <3> DEFINE r == Record(Address(step.name), job.implementation, script.id, TRUE,
                            step.verifiable)
    <3>1. r.address = Address(step.name)
      BY DEF Record
    <3> HIDE DEF r
    <3>2. r.address \in 0 .. Len(chain.contracts)
      BY <2>0, <2>8, <3>1 DEF savePrepared
    <3> QED
      BY <2>8, <3>2, SaveEffect DEF savePrepared, r
  <2>9. CASE execute
    BY <2>0, <2>9, TransactionEffect DEF execute
  <2>10. CASE linkChainState
    <3> DEFINE call == SetFuelChainState(Address("FuelChainState"))
    <3>1. call.fn # "renounceRole"
      BY DEF SetFuelChainState
    <3> HIDE DEF call
    <3> QED
      BY <2>0, <2>10, <3>1, TransactionEffect DEF linkChainState, call
  <2>11. CASE saveL2Bridge
    <3> DEFINE r == Record(0, "", script.id, FALSE, FALSE)
    <3>1. r.address \in 0 .. Len(chain.contracts)
      BY DEF Record, BaseInv, IsSequence
    <3> HIDE DEF r
    <3> QED
      BY <2>11, <3>1, SaveEffect DEF saveL2Bridge, r
  <2>12. CASE propose
    BY <2>12 DEF propose, ProposeCalls, Advances, BaseInv, Done, Address, ContractsStep
  <2>13. CASE proposeUpgrade
    BY <2>13 DEF proposeUpgrade, ProposeCalls, Advances, BaseInv, Done, Address, ContractsStep
  <2>14. CASE deployToken
    <3> DEFINE r == Record(0, "", script.id, FALSE, FALSE)
    <3>1. r.address \in 0 .. Len(chain.contracts)
      BY DEF Record, BaseInv, IsSequence
    <3> HIDE DEF r
    <3> QED
      BY <2>14, <3>1, SaveEffect DEF deployToken, r
  <2>15. CASE setToken
    <3>1. chain' = [chain EXCEPT !.tokens = @ \union {step.token}]
      BY <2>15 DEF setToken
    <3>2. DOMAIN chain' = {"contracts", "sent", "tokens"} /\ ContractsStep
      BY <3>1 DEF BaseInv, ContractsStep
    <3> QED
      BY <2>15, <3>2 DEF setToken, Advances, BaseInv, Done, Address
  <2>16. CASE writeAddresses
    <3>1. DOMAIN files' = {"records", "migrations", "addresses"}
          /\ files'.migrations = files.migrations /\ files'.records = files.records
      BY <2>16 DEF writeAddresses, BaseInv
    <3> QED
      BY <2>16, <3>1 DEF writeAddresses, Advances, BaseInv, Done, Address, ContractsStep
  <2> QED
    BY <1>2, <2>1, <2>2, <2>3, <2>4, <2>5, <2>6, <2>7, <2>8, <2>9, <2>10, <2>11, <2>12,
          <2>13, <2>14, <2>15, <2>16 DEF Step
<1> QED
  BY <1>1, <1>2

\* What the owners of the multisig may send to the contract at a.
OwnersCalls(a) ==
    {UpgradeTo(files.records[n].implementation) :
            n \in {m \in DOMAIN files.records : Address(m) = a}}
    \union UNION {{p.calls[k].call : k \in {j \in DOMAIN p.calls : Address(p.calls[j].name) = a}} :
            p \in safe.open}

\* Calls of tasks and of the owners.
Called ==
    /\ UNCHANGED <<network, files, job, seen>>
    /\ DOMAIN chain' = {"contracts", "sent", "tokens"} /\ chain'.sent = chain.sent
    /\ DOMAIN safe' = {"nonce", "open", "executed"} /\ safe'.open \subseteq safe.open
    /\ IsSequence(chain'.contracts) /\ Len(chain'.contracts) = Len(chain.contracts)
    /\ \A a \in DOMAIN chain.contracts :
            \/ chain'.contracts[a] = chain.contracts[a]
            \/ \E sender, call :
                    /\ \/ sender \in Signers /\ call \in TaskCalls
                       \/ sender = "multisig" /\ call \in OwnersCalls(a)
                    /\ Allowed(chain.contracts[a], sender, call)
                    /\ chain'.contracts[a] = After(chain.contracts[a], sender, call)

LEMMA OneCalled ==
    ASSUME BaseInv, NEW a, NEW sender, NEW call,
           \/ sender \in Signers /\ call \in TaskCalls
           \/ sender = "multisig" /\ call \in OwnersCalls(a),
           Allowed(chain.contracts[a], sender, call),
           chain' = [chain EXCEPT !.contracts[a] = After(chain.contracts[a], sender, call)],
           UNCHANGED <<network, files, job, safe, seen>>
    PROVE  Called
<1> DEFINE t == [chain.contracts EXCEPT ![a] = After(chain.contracts[a], sender, call)]
<1>1. chain'.contracts = t /\ chain'.sent = chain.sent
      /\ DOMAIN chain' = {"contracts", "sent", "tokens"}
  BY DEF BaseInv
<1>2. DOMAIN t = 1 .. Len(chain.contracts) /\ Len(chain.contracts) \in Nat
  BY DEF BaseInv, IsSequence
<1>3. \A b \in DOMAIN chain.contracts :
        \/ t[b] = chain.contracts[b]
        \/ b = a /\ t[b] = After(chain.contracts[b], sender, call)
  OBVIOUS
<1> HIDE DEF t
<1>4. Len(t) = Len(chain.contracts) /\ IsSequence(t)
  BY <1>2 DEF IsSequence
<1> QED
  BY <1>1, <1>3, <1>4 DEF Called, BaseInv

LEMMA ProposalCalled ==
    ASSUME BaseInv, NEW p \in safe.open, ExecuteProposal(p)
    PROVE  Called
<1> DEFINE t == Outcome(chain.contracts, p.calls)
<1>1. chain'.contracts = t /\ chain'.sent = chain.sent
      /\ DOMAIN chain' = {"contracts", "sent", "tokens"}
  BY DEF BaseInv, ExecuteProposal
<1>2. DOMAIN t = 1 .. Len(chain.contracts) /\ Len(chain.contracts) \in Nat
  BY DEF BaseInv, IsSequence, Outcome
<1>3. ASSUME NEW a \in DOMAIN chain.contracts, t[a] # chain.contracts[a]
      PROVE  \E call \in OwnersCalls(a) : /\ Allowed(chain.contracts[a], "multisig", call)
                                       /\ t[a] = After(chain.contracts[a], "multisig", call)
  <2> DEFINE here == {c \in Range(p.calls) : Address(c.name) = a}
  <2> DEFINE c == CHOOSE c \in here : TRUE
  <2>1. here # {}
    BY <1>3 DEF Outcome
  <2>2. c \in here
    BY <2>1
  <2>3. t[a] = After(chain.contracts[a], "multisig", c.call)
    BY <2>1 DEF Outcome
  <2> HIDE DEF t, c
  <2>4. PICK k \in DOMAIN p.calls : c = p.calls[k]
    BY <2>2 DEF Range
  <2>5. Contract(p.calls[k].name) = chain.contracts[a]
    BY <2>2, <2>4 DEF Contract
  <2>6. Allowed(chain.contracts[a], "multisig", c.call)
    BY <2>4, <2>5 DEF ExecuteProposal, Executable
  <2>7. c.call \in OwnersCalls(a)
    BY <2>2, <2>4 DEF OwnersCalls
  <2> QED
    BY <2>3, <2>6, <2>7
<1> HIDE DEF t
<1>4. Len(t) = Len(chain.contracts) /\ IsSequence(t)
  BY <1>2 DEF IsSequence
<1>5. /\ UNCHANGED <<network, files, job, seen>>
      /\ DOMAIN safe' = {"nonce", "open", "executed"} /\ safe'.open \subseteq safe.open
  BY DEF ExecuteProposal
<1> QED
  BY <1>1, <1>3, <1>4, <1>5 DEF Called

\* What a step is for the deployment.
LEMMA NextKinds ==
    ASSUME BaseInv, CallInv, [TaskNext]_allVars
    PROVE  \/ UNCHANGED vars
           \/ Start \/ NextScript \/ ScriptReturns \/ Step \/ Mined \/ Crash
           \/ \E id \in seen.refused : EnterMigration(id)
           \/ Called
<1>1. CASE Next
  <2>1. ASSUME NEW n \in DOMAIN files.records, UpgradeByOwners(n)
        PROVE  Called
    <3> DEFINE call == UpgradeTo(files.records[n].implementation)
    <3>1. /\ Allowed(chain.contracts[Address(n)], "multisig", call)
          /\ chain' = [chain EXCEPT
                !.contracts[Address(n)] = After(chain.contracts[Address(n)], "multisig", call)]
          /\ UNCHANGED <<network, files, job, safe, seen>>
      BY <2>1 DEF UpgradeByOwners, Contract
    <3>2. call \in OwnersCalls(Address(n))
      BY DEF OwnersCalls
    <3> HIDE DEF call
    <3> QED
      BY <3>1, <3>2, OneCalled
  <2> QED
    BY <1>1, <2>1, ProposalCalled DEF Next
<1>2. ASSUME NEW i \in DOMAIN tasks, TaskStep(i)
      PROVE  UNCHANGED vars \/ Called
  <2>1. CASE SendCall(i)
    <3> DEFINE t == tasks[i]
    <3>1. t.kind = "call" /\ t.at = "send"
      BY <2>1 DEF SendCall
    <3>2. t.signer \in Signers /\ t.call \in TaskCalls
      BY <3>1 DEF CallInv
    <3>3. CASE Allowed(Contract(t.name), t.signer, t.call)
      <4>1. /\ chain' = [chain EXCEPT !.contracts[Address(t.name)] =
                      After(Contract(t.name), t.signer, t.call)]
            /\ UNCHANGED <<network, files, job, safe, seen>>
        BY <2>1, <3>3 DEF SendCall
      <4> QED
        BY <3>2, <3>3, <4>1, OneCalled DEF Contract
    <3>4. CASE ~Allowed(Contract(t.name), t.signer, t.call)
      BY <2>1, <3>4 DEF SendCall, vars
    <3> QED
      BY <3>3, <3>4
  <2> QED
    BY <1>2, <2>1 DEF TaskStep, CheckRole, Approve, Deposit, QueryNonce, QueryEvents, QueryRole,
        Verify, VerifyEnds, vars
<1>3. CASE StartTask
  BY <1>3, StartEffect DEF vars
<1> QED
  BY <1>1, <1>2, <1>3 DEF TaskNext, allVars, taskVars, vars, NewBlock

LEMMA InitBase == TaskInit => BaseInv
<1> SUFFICES ASSUME TaskInit
             PROVE  BaseInv
  OBVIOUS
<1>1. PICK n \in Networks, s \in BOOLEAN :
        /\ network = [name |-> n, skips |-> s]
        /\ chain = [contracts |-> IF n = "fork" THEN ForkedContracts ELSE <<>>,
                    sent |-> NothingSent, tokens |-> {}]
        /\ files = [records |-> IF n = "fork" THEN ForkedRecords ELSE <<>>,
                    migrations |-> {}, addresses |-> <<>>]
  BY DEF TaskInit, Init
<1>2. job = Idle /\ safe = [nonce |-> 0, open |-> {}, executed |-> {}]
      /\ seen = [refused |-> {}, finished |-> FALSE, byHand |-> FALSE, crashes |-> 0, reruns |-> 0]
  BY DEF TaskInit, Init
<1>3. IsSequence(ForkedContracts) /\ Len(ForkedContracts) = 3
  BY DEF IsSequence, ForkedContracts
<1>4. \A a \in 1 .. 3 : DOMAIN ForkedContracts[a] = ContractFields
  <2>1. \A c, l : DOMAIN MainnetContract(c, l) = ContractFields
    BY DEF MainnetContract, NewContract, ContractFields
  <2> QED
    BY <2>1 DEF ForkedContracts
<1>5. \A r \in DOMAIN ForkedRecords : ForkedRecords[r].address \in 0 .. 3
  <2>1. DOMAIN ForkedRecords = {"FuelChainState", "FuelMessagePortal", "FuelERC20GatewayV4"}
    BY DEF ForkedRecords
  <2>2. /\ ForkedRecords["FuelChainState"].address = 1
        /\ ForkedRecords["FuelMessagePortal"].address = 2
        /\ ForkedRecords["FuelERC20GatewayV4"].address = 3
    BY DEF ForkedRecords, Record
  <2> QED
    BY <2>1, <2>2
<1>6. /\ network.name \in AllNetworks
      /\ DOMAIN chain = {"contracts", "sent", "tokens"}
      /\ DOMAIN files = {"records", "migrations", "addresses"}
      /\ DOMAIN safe = {"nonce", "open", "executed"}
      /\ DOMAIN seen = {"refused", "finished", "byHand", "crashes", "reruns"}
  BY <1>1, <1>2, NetworksAssumption
<1>7. /\ DOMAIN job = {"at", "pc", "address", "implementation", "reached"}
      /\ job.at = 0 /\ job.pc = 0 /\ job.reached = 0 /\ job.address = 0
  BY <1>2 DEF Idle
<1>8. CASE n = "fork"
  <2>1. chain.contracts = ForkedContracts /\ files.records = ForkedRecords
    BY <1>1, <1>8
  <2>2. DOMAIN chain.contracts = 1 .. 3 /\ Len(chain.contracts) = 3
    BY <1>3, <2>1 DEF IsSequence
  <2>3. \A a \in DOMAIN chain.contracts : DOMAIN chain.contracts[a] = ContractFields
    BY <1>4, <2>1, <2>2
  <2>4. \A r \in DOMAIN files.records : Address(r) \in 0 .. 3
    BY <1>5, <2>1 DEF Address
  <2>5. IsSequence(chain.contracts)
    BY <1>3, <2>1
  <2> QED
    BY <1>6, <1>7, <2>2, <2>3, <2>4, <2>5 DEF BaseInv
<1>9. CASE n # "fork"
  <2>1. chain.contracts = <<>> /\ files.records = <<>>
    BY <1>1, <1>9
  <2> QED
    BY <1>6, <1>7, <2>1 DEF BaseInv, Address, IsSequence
<1> QED
  BY <1>8, <1>9

LEMMA AdvancesBase ==
    ASSUME BaseInv, Advances
    PROVE  /\ BaseInv'
           /\ Len(chain'.contracts) >= Len(chain.contracts)
<1>0. /\ IsSequence(Settled) /\ Len(Settled) = Len(chain.contracts)
      /\ \A a \in DOMAIN Settled : DOMAIN Settled[a] = ContractFields
      /\ Len(chain.contracts) \in Nat
  BY SettledContracts DEF BaseInv, IsSequence
<1>1. /\ IsSequence(chain'.contracts)
      /\ \A a \in DOMAIN chain'.contracts : DOMAIN chain'.contracts[a] = ContractFields
      /\ Len(chain'.contracts) >= Len(chain.contracts)
  <2>1. CASE chain'.contracts = chain.contracts
    BY <1>0, <2>1 DEF BaseInv
  <2>2. CASE chain'.contracts = Settled
    BY <1>0, <2>2
  <2>3. CASE /\ step.op = "deployProxy"
             /\ \E implementation, linked : chain'.contracts = Append(Settled,
                  NewContract(step.contract, step.initializer, implementation, linked))
    <3>0. PICK implementation, linked : chain'.contracts = Append(Settled,
                NewContract(step.contract, step.initializer, implementation, linked))
      BY <2>3
    <3> DEFINE new == NewContract(step.contract, step.initializer, implementation, linked)
    <3>1. DOMAIN new = ContractFields
      BY NewFields
    <3> HIDE DEF new
    <3>2. chain'.contracts = Append(Settled, new)
      BY <3>0 DEF new
    <3>3. /\ IsSequence(chain'.contracts)
          /\ Len(chain'.contracts) = Len(Settled) + 1
          /\ DOMAIN chain'.contracts = 1 .. Len(Settled) + 1
          /\ \A a \in DOMAIN Settled : chain'.contracts[a] = Settled[a]
          /\ chain'.contracts[Len(Settled) + 1] = new
      BY <1>0, <3>2, AppendSequence
    <3>4. \A a \in DOMAIN chain'.contracts : a \in DOMAIN Settled \/ a = Len(Settled) + 1
      BY <1>0, <3>3 DEF IsSequence
    <3> QED
      BY <1>0, <3>1, <3>3, <3>4
  <2>4. CASE \E a \in 0 .. Len(chain.contracts) : \E sender, call : CallsStep(a, sender, call)
    <3>a. PICK a, sender, call : CallsStep(a, sender, call)
      BY <2>4
    <3>0. chain'.contracts = [Settled EXCEPT ![a] = After(Settled[a], sender, call)]
      BY <3>a DEF CallsStep
    <3> DEFINE t == [Settled EXCEPT ![a] = After(Settled[a], sender, call)]
    <3>1. DOMAIN t = 1 .. Len(Settled) /\ Len(Settled) \in Nat
      BY <1>0 DEF IsSequence
    <3>2. \A b \in DOMAIN Settled : DOMAIN t[b] = ContractFields
      BY <1>0, AfterFields
    <3> HIDE DEF t
    <3>3. Len(t) = Len(Settled) /\ IsSequence(t)
      BY <3>1 DEF IsSequence
    <3>4. chain'.contracts = t
      BY <3>0 DEF t
    <3> QED
      BY <1>0, <3>1, <3>2, <3>3, <3>4 DEF IsSequence
  <2>5. ContractsStep
    BY DEF Advances
  <2> QED
    BY <2>1, <2>2, <2>3, <2>4, <2>5 DEF ContractsStep
<1> QED
  BY <1>0, <1>1 DEF BaseInv, Advances, Address

------------------------------------------------------------------------------
(* The scripts of the other networks take nothing from anybody, and propose      *)
(* nothing.                                                                      *)

LEMMA ThreeSteps ==
    ASSUME NEW a, NEW b, NEW c
    PROVE  /\ Len(<<a, b>> \o <<c>>) = 3
           /\ (<<a, b>> \o <<c>>)[1] = a
           /\ (<<a, b>> \o <<c>>)[2] = b
           /\ (<<a, b>> \o <<c>>)[3] = c
OBVIOUS

LEMMA TestnetScripts ==
    Len(Testnet!Scripts) = 18 /\ \A i \in 1 .. 18 : Plain(i, Testnet!Scripts[i], 11, TestnetSavers)
<1>1. Plain(1, Testnet!Scripts[1], 11, TestnetSavers)
  <2> DEFINE S == Testnet!Scripts[1]
  <2> DEFINE a == Testnet!DeployProxy("FuelChainState", "initialize", "")
  <2> DEFINE b == Testnet!Save("FuelChainState")
  <2> DEFINE c == Testnet!Execute("FuelChainState", Testnet!Call("pause"))
  <2>1. /\ PlainStep(1, a, 11, TestnetSavers) /\ PlainStep(1, b, 11, TestnetSavers)
        /\ PlainStep(1, c, 11, TestnetSavers)
    BY DEF PlainStep, TestnetSavers, Testnet!DeployProxy, Testnet!Save, Testnet!Execute,
        Testnet!Call
  <2> HIDE DEF a, b, c
  <2>2. S.id = "chain_state" /\ S.migrates = TRUE /\ S.skip = FALSE /\ S.steps = <<a, b>> \o <<c>>
    BY DEF Testnet!Scripts, Testnet!chain_state, Testnet!Script, Testnet!DeployAndSave,
        a, b, c
  <2> HIDE DEF S
  <2>3. Len(S.steps) = 3 /\ S.steps[1] = a /\ S.steps[2] = b /\ S.steps[3] = c
    BY <2>2, ThreeSteps
  <2> QED
    BY <2>1, <2>2, <2>3 DEF S, Plain, Placed
<1>2. Plain(2, Testnet!Scripts[2], 11, TestnetSavers)
  <2> DEFINE S == Testnet!Scripts[2]
  <2>1. /\ S.id = "fuel_message_portal" /\ S.migrates = TRUE /\ S.skip = FALSE /\ Len(S.steps) = 3
        /\ PlainStep(2, S.steps[1], 11, TestnetSavers)
        /\ PlainStep(2, S.steps[2], 11, TestnetSavers)
        /\ PlainStep(2, S.steps[3], 11, TestnetSavers)
    BY DEF Testnet!Scripts, Testnet!fuel_message_portal, Testnet!Call,
        Testnet!DeployAndSave, Testnet!DeployProxy, Testnet!Execute, Testnet!Save,
        Testnet!Script, PlainStep, TestnetSavers
  <2> HIDE DEF S
  <2> QED
    BY <2>1 DEF S, Plain, Placed
<1>3. Plain(3, Testnet!Scripts[3], 11, TestnetSavers)
  <2> DEFINE S == Testnet!Scripts[3]
  <2>1. /\ S.id = "portal_upgrade" /\ S.migrates = TRUE /\ S.skip = FALSE /\ Len(S.steps) = 2
        /\ PlainStep(3, S.steps[1], 11, TestnetSavers)
        /\ PlainStep(3, S.steps[2], 11, TestnetSavers)
    BY DEF Testnet!Scripts, Testnet!portal_upgrade, Testnet!Save, Testnet!Script,
        Testnet!UpgradeAndSave, Testnet!UpgradeProxy, PlainStep, TestnetSavers
  <2> HIDE DEF S
  <2> QED
    BY <2>1 DEF S, Plain, Placed
<1>4. Plain(4, Testnet!Scripts[4], 11, TestnetSavers)
  <2> DEFINE S == Testnet!Scripts[4]
  <2>1. /\ S.id = "portal_unpause" /\ S.migrates = TRUE /\ S.skip = FALSE /\ Len(S.steps) = 1
        /\ PlainStep(4, S.steps[1], 11, TestnetSavers)
    BY DEF Testnet!Scripts, Testnet!portal_unpause, Testnet!Call, Testnet!Execute,
        Testnet!Script, PlainStep, TestnetSavers
  <2> HIDE DEF S
  <2> QED
    BY <2>1 DEF S, Plain, Placed
<1>5. Plain(5, Testnet!Scripts[5], 11, TestnetSavers)
  <2> DEFINE S == Testnet!Scripts[5]
  <2>1. /\ S.id = "state_unpause" /\ S.migrates = TRUE /\ S.skip = FALSE /\ Len(S.steps) = 1
        /\ PlainStep(5, S.steps[1], 11, TestnetSavers)
    BY DEF Testnet!Scripts, Testnet!state_unpause, Testnet!Call, Testnet!Execute,
        Testnet!Script, PlainStep, TestnetSavers
  <2> HIDE DEF S
  <2> QED
    BY <2>1 DEF S, Plain, Placed
<1>6. Plain(6, Testnet!Scripts[6], 11, TestnetSavers)
  <2> DEFINE S == Testnet!Scripts[6]
  <2>1. /\ S.id = "fuel_erc20_gateway_v4" /\ S.migrates = TRUE /\ S.skip = FALSE /\ Len(S.steps) = 2
        /\ PlainStep(6, S.steps[1], 11, TestnetSavers)
        /\ PlainStep(6, S.steps[2], 11, TestnetSavers)
    BY DEF Testnet!Scripts, Testnet!fuel_erc20_gateway_v4, Testnet!DeployAndSave,
        Testnet!DeployProxy, Testnet!Save, Testnet!Script, PlainStep, TestnetSavers
  <2> HIDE DEF S
  <2> QED
    BY <2>1 DEF S, Plain, Placed
<1>7. Plain(7, Testnet!Scripts[7], 11, TestnetSavers)
  <2> DEFINE S == Testnet!Scripts[7]
  <2>1. /\ S.id = "state_upgrade" /\ S.migrates = TRUE /\ S.skip = FALSE /\ Len(S.steps) = 2
        /\ PlainStep(7, S.steps[1], 11, TestnetSavers)
        /\ PlainStep(7, S.steps[2], 11, TestnetSavers)
    BY DEF Testnet!Scripts, Testnet!state_upgrade, Testnet!Save, Testnet!Script,
        Testnet!UpgradeAndSave, Testnet!UpgradeProxy, PlainStep, TestnetSavers
  <2> HIDE DEF S
  <2> QED
    BY <2>1 DEF S, Plain, Placed
<1>8. Plain(8, Testnet!Scripts[8], 11, TestnetSavers)
  <2> DEFINE S == Testnet!Scripts[8]
  <2>1. /\ S.id = "register_committer_2" /\ S.migrates = TRUE /\ S.skip = FALSE /\ Len(S.steps) = 1
        /\ PlainStep(8, S.steps[1], 11, TestnetSavers)
    BY DEF Testnet!Scripts, Testnet!register_committer_2, Testnet!Execute,
        Testnet!GrantCommitter, Testnet!GrantRole, Testnet!Script, PlainStep,
        TestnetSavers
  <2> HIDE DEF S
  <2> QED
    BY <2>1 DEF S, Plain, Placed
<1>9. Plain(9, Testnet!Scripts[9], 11, TestnetSavers)
  <2> DEFINE S == Testnet!Scripts[9]
  <2>1. /\ S.id = "set_asset_issuer" /\ S.migrates = TRUE /\ S.skip = FALSE /\ Len(S.steps) = 1
        /\ PlainStep(9, S.steps[1], 11, TestnetSavers)
    BY DEF Testnet!Scripts, Testnet!set_asset_issuer, Testnet!Call, Testnet!Execute,
        Testnet!Script, Testnet!SetIssuer, PlainStep, TestnetSavers
  <2> HIDE DEF S
  <2> QED
    BY <2>1 DEF S, Plain, Placed
<1>10. Plain(10, Testnet!Scripts[10], 11, TestnetSavers)
  <2> DEFINE S == Testnet!Scripts[10]
  <2>1. /\ S.id = "state_upgrade_2" /\ S.migrates = TRUE /\ S.skip = FALSE /\ Len(S.steps) = 2
        /\ PlainStep(10, S.steps[1], 11, TestnetSavers)
        /\ PlainStep(10, S.steps[2], 11, TestnetSavers)
    BY DEF Testnet!Scripts, Testnet!state_upgrade_2, Testnet!Save, Testnet!Script,
        Testnet!UpgradeAndSave, Testnet!UpgradeProxy, PlainStep, TestnetSavers
  <2> HIDE DEF S
  <2> QED
    BY <2>1 DEF S, Plain, Placed
<1>11. Plain(11, Testnet!Scripts[11], 11, TestnetSavers)
  <2> DEFINE S == Testnet!Scripts[11]
  <2>1. S.id = "chain_state_redeploy" /\ S.migrates = TRUE /\ S.skip = FALSE /\ Len(S.steps) = 2
    BY DEF Testnet!Scripts, Testnet!chain_state_redeploy, Testnet!DeployAndSave,
        Testnet!DeployProxy, Testnet!Save, Testnet!Script
  <2>2. PlainStep(11, S.steps[1], 11, TestnetSavers)
    BY DEF Testnet!Scripts, Testnet!chain_state_redeploy, Testnet!DeployAndSave,
        Testnet!DeployProxy, Testnet!Save, Testnet!Script, PlainStep, TestnetSavers
  <2>3. S.steps[2].op = "save"
    BY DEF Testnet!Scripts, Testnet!chain_state_redeploy, Testnet!DeployAndSave,
        Testnet!DeployProxy, Testnet!Save, Testnet!Script
  <2> HIDE DEF S
  <2>4. PlainStep(11, S.steps[2], 11, TestnetSavers)
    BY <2>3 DEF PlainStep, TestnetSavers
  <2> QED
    BY <2>1, <2>2, <2>4 DEF S, Plain, Placed
<1>12. Plain(12, Testnet!Scripts[12], 11, TestnetSavers)
  <2> DEFINE S == Testnet!Scripts[12]
  <2>1. /\ S.id = "redeploy_register_committer" /\ S.migrates = TRUE /\ S.skip = FALSE /\ Len(S.steps) = 1
        /\ PlainStep(12, S.steps[1], 11, TestnetSavers)
    BY DEF Testnet!Scripts, Testnet!redeploy_register_committer, Testnet!Execute,
        Testnet!GrantCommitter, Testnet!GrantRole, Testnet!Script, PlainStep,
        TestnetSavers
  <2> HIDE DEF S
  <2> QED
    BY <2>1 DEF S, Plain, Placed
<1>13. Plain(13, Testnet!Scripts[13], 11, TestnetSavers)
  <2> DEFINE S == Testnet!Scripts[13]
  <2>1. /\ S.id = "portal_upgrade_2" /\ S.migrates = TRUE /\ S.skip = FALSE /\ Len(S.steps) = 3
        /\ PlainStep(13, S.steps[1], 11, TestnetSavers)
        /\ PlainStep(13, S.steps[2], 11, TestnetSavers)
        /\ PlainStep(13, S.steps[3], 11, TestnetSavers)
    BY DEF Testnet!Scripts, Testnet!portal_upgrade_2, Testnet!AwaitUpgrade,
        Testnet!Save, Testnet!Script, Testnet!UpgradeProxy, PlainStep, TestnetSavers
  <2> HIDE DEF S
  <2> QED
    BY <2>1 DEF S, Plain, Placed
<1>14. Plain(14, Testnet!Scripts[14], 11, TestnetSavers)
  <2> DEFINE S == Testnet!Scripts[14]
  <2>1. /\ S.id = "portal_set_chain_state" /\ S.migrates = TRUE /\ S.skip = FALSE /\ Len(S.steps) = 1
        /\ PlainStep(14, S.steps[1], 11, TestnetSavers)
    BY DEF Testnet!Scripts, Testnet!portal_set_chain_state, Testnet!LinkChainState,
        Testnet!Script, PlainStep, TestnetSavers
  <2> HIDE DEF S
  <2> QED
    BY <2>1 DEF S, Plain, Placed
<1>15. Plain(15, Testnet!Scripts[15], 11, TestnetSavers)
  <2> DEFINE S == Testnet!Scripts[15]
  <2>1. /\ S.id = "gateway_redeploy" /\ S.migrates = TRUE /\ S.skip = FALSE /\ Len(S.steps) = 2
        /\ PlainStep(15, S.steps[1], 11, TestnetSavers)
        /\ PlainStep(15, S.steps[2], 11, TestnetSavers)
    BY DEF Testnet!Scripts, Testnet!gateway_redeploy, Testnet!DeployAndSave,
        Testnet!DeployProxy, Testnet!Save, Testnet!Script, PlainStep, TestnetSavers
  <2> HIDE DEF S
  <2> QED
    BY <2>1 DEF S, Plain, Placed
<1>16. Plain(16, Testnet!Scripts[16], 11, TestnetSavers)
  <2> DEFINE S == Testnet!Scripts[16]
  <2>1. /\ S.id = "set_asset_issuer_redeploy" /\ S.migrates = TRUE /\ S.skip = FALSE /\ Len(S.steps) = 2
        /\ PlainStep(16, S.steps[1], 11, TestnetSavers)
        /\ PlainStep(16, S.steps[2], 11, TestnetSavers)
    BY DEF Testnet!Scripts, Testnet!set_asset_issuer_redeploy, Testnet!Call,
        Testnet!Execute, Testnet!SaveL2Bridge, Testnet!Script, Testnet!SetIssuer,
        PlainStep, TestnetSavers
  <2> HIDE DEF S
  <2> QED
    BY <2>1 DEF S, Plain, Placed
<1>17. Plain(17, Testnet!Scripts[17], 11, TestnetSavers)
  <2> DEFINE S == Testnet!Scripts[17]
  <2>1. /\ S.id = "gateway_upgrade" /\ S.migrates = TRUE /\ S.skip = FALSE /\ Len(S.steps) = 2
        /\ PlainStep(17, S.steps[1], 11, TestnetSavers)
        /\ PlainStep(17, S.steps[2], 11, TestnetSavers)
    BY DEF Testnet!Scripts, Testnet!gateway_upgrade, Testnet!Save, Testnet!Script,
        Testnet!UpgradeAndSave, Testnet!UpgradeProxy, PlainStep, TestnetSavers
  <2> HIDE DEF S
  <2> QED
    BY <2>1 DEF S, Plain, Placed
<1>18. Plain(18, Testnet!Scripts[18], 11, TestnetSavers)
  <2> DEFINE S == Testnet!Scripts[18]
  <2>1. /\ S.id = "019_portal_upgrade" /\ S.migrates = TRUE /\ S.skip = FALSE /\ Len(S.steps) = 3
        /\ PlainStep(18, S.steps[1], 11, TestnetSavers)
        /\ PlainStep(18, S.steps[2], 11, TestnetSavers)
        /\ PlainStep(18, S.steps[3], 11, TestnetSavers)
    BY DEF Testnet!Scripts, Testnet!portal_upgrade_019, Testnet!PrepareUpgrade,
        Testnet!SavePrepared, Testnet!Script, Testnet!UpgradeAndReinitialize, PlainStep,
        TestnetSavers
  <2> HIDE DEF S
  <2> QED
    BY <2>1 DEF S, Plain, Placed
<1>19. Len(Testnet!Scripts) = 18
  BY DEF Testnet!Scripts
<1>20. ASSUME NEW i \in 1 .. 18
       PROVE  i = 1 \/ i = 2 \/ i = 3 \/ i = 4 \/ i = 5 \/ i = 6 \/ i = 7 \/ i = 8 \/ i = 9
           \/ i = 10 \/ i = 11 \/ i = 12 \/ i = 13 \/ i = 14 \/ i = 15 \/ i = 16 \/ i = 17 \/ i
           = 18
  OBVIOUS
<1> QED
  BY <1>1, <1>2, <1>3, <1>4, <1>5, <1>6, <1>7, <1>8, <1>9, <1>10, <1>11, <1>12, <1>13,
        <1>14, <1>15, <1>16, <1>17, <1>18, <1>19, <1>20

LEMMA DevnetScripts ==
    Len(Devnet!Scripts) = 19 /\ \A i \in 1 .. 19 : Plain(i, Devnet!Scripts[i], 13, DevnetSavers)
<1>1. Plain(1, Devnet!Scripts[1], 13, DevnetSavers)
  <2> DEFINE S == Devnet!Scripts[1]
  <2> DEFINE a == Devnet!DeployProxy("FuelChainState", "initialize", "")
  <2> DEFINE b == Devnet!Save("FuelChainState")
  <2> DEFINE c == Devnet!Execute("FuelChainState", Devnet!Call("pause"))
  <2>1. /\ PlainStep(1, a, 13, DevnetSavers) /\ PlainStep(1, b, 13, DevnetSavers)
        /\ PlainStep(1, c, 13, DevnetSavers)
    BY DEF PlainStep, DevnetSavers, Devnet!DeployProxy, Devnet!Save, Devnet!Execute,
        Devnet!Call
  <2> HIDE DEF a, b, c
  <2>2. S.id = "chain_state" /\ S.migrates = TRUE /\ S.skip = FALSE /\ S.steps = <<a, b>> \o <<c>>
    BY DEF Devnet!Scripts, Devnet!chain_state, Devnet!Script, Devnet!DeployAndSave, a, b, c
  <2> HIDE DEF S
  <2>3. Len(S.steps) = 3 /\ S.steps[1] = a /\ S.steps[2] = b /\ S.steps[3] = c
    BY <2>2, ThreeSteps
  <2> QED
    BY <2>1, <2>2, <2>3 DEF S, Plain, Placed
<1>2. Plain(2, Devnet!Scripts[2], 13, DevnetSavers)
  <2> DEFINE S == Devnet!Scripts[2]
  <2>1. /\ S.id = "fuel_message_portal" /\ S.migrates = TRUE /\ S.skip = FALSE /\ Len(S.steps) = 3
        /\ PlainStep(2, S.steps[1], 13, DevnetSavers)
        /\ PlainStep(2, S.steps[2], 13, DevnetSavers)
        /\ PlainStep(2, S.steps[3], 13, DevnetSavers)
    BY DEF Devnet!Scripts, Devnet!fuel_message_portal, Devnet!Call,
        Devnet!DeployAndSave, Devnet!DeployProxy, Devnet!Execute, Devnet!Save,
        Devnet!Script, PlainStep, DevnetSavers
  <2> HIDE DEF S
  <2> QED
    BY <2>1 DEF S, Plain, Placed
<1>3. Plain(3, Devnet!Scripts[3], 13, DevnetSavers)
  <2> DEFINE S == Devnet!Scripts[3]
  <2>1. /\ S.id = "fuel_erc20_gateway_v4" /\ S.migrates = TRUE /\ S.skip = FALSE /\ Len(S.steps) = 2
        /\ PlainStep(3, S.steps[1], 13, DevnetSavers)
        /\ PlainStep(3, S.steps[2], 13, DevnetSavers)
    BY DEF Devnet!Scripts, Devnet!fuel_erc20_gateway_v4, Devnet!DeployAndSave,
        Devnet!DeployProxy, Devnet!Save, Devnet!Script, PlainStep, DevnetSavers
  <2> HIDE DEF S
  <2> QED
    BY <2>1 DEF S, Plain, Placed
<1>4. Plain(4, Devnet!Scripts[4], 13, DevnetSavers)
  <2> DEFINE S == Devnet!Scripts[4]
  <2>1. /\ S.id = "token" /\ S.migrates = TRUE /\ S.skip = FALSE /\ Len(S.steps) = 1
        /\ PlainStep(4, S.steps[1], 13, DevnetSavers)
    BY DEF Devnet!Scripts, Devnet!token, Devnet!DeployToken, Devnet!Script, PlainStep,
        DevnetSavers
  <2> HIDE DEF S
  <2> QED
    BY <2>1 DEF S, Plain, Placed
<1>5. Plain(5, Devnet!Scripts[5], 13, DevnetSavers)
  <2> DEFINE S == Devnet!Scripts[5]
  <2>1. /\ S.id = "register_committer" /\ S.migrates = TRUE /\ S.skip = FALSE /\ Len(S.steps) = 1
        /\ PlainStep(5, S.steps[1], 13, DevnetSavers)
    BY DEF Devnet!Scripts, Devnet!register_committer, Devnet!Execute,
        Devnet!GrantCommitter, Devnet!GrantRole, Devnet!Script, PlainStep, DevnetSavers
  <2> HIDE DEF S
  <2> QED
    BY <2>1 DEF S, Plain, Placed
<1>6. Plain(6, Devnet!Scripts[6], 13, DevnetSavers)
  <2> DEFINE S == Devnet!Scripts[6]
  <2>1. /\ S.id = "fuel_message_portal_redeploy" /\ S.migrates = TRUE /\ S.skip = FALSE /\ Len(S.steps) = 3
        /\ PlainStep(6, S.steps[1], 13, DevnetSavers)
        /\ PlainStep(6, S.steps[2], 13, DevnetSavers)
        /\ PlainStep(6, S.steps[3], 13, DevnetSavers)
    BY DEF Devnet!Scripts, Devnet!fuel_message_portal_redeploy, Devnet!AwaitDeployment,
        Devnet!Save, Devnet!Script, Devnet!UpgradeProxy, PlainStep, DevnetSavers
  <2> HIDE DEF S
  <2> QED
    BY <2>1 DEF S, Plain, Placed
<1>7. Plain(7, Devnet!Scripts[7], 13, DevnetSavers)
  <2> DEFINE S == Devnet!Scripts[7]
  <2>1. /\ S.id = "portal_unpause" /\ S.migrates = TRUE /\ S.skip = FALSE /\ Len(S.steps) = 1
        /\ PlainStep(7, S.steps[1], 13, DevnetSavers)
    BY DEF Devnet!Scripts, Devnet!portal_unpause, Devnet!Call, Devnet!Execute,
        Devnet!Script, PlainStep, DevnetSavers
  <2> HIDE DEF S
  <2> QED
    BY <2>1 DEF S, Plain, Placed
<1>8. Plain(8, Devnet!Scripts[8], 13, DevnetSavers)
  <2> DEFINE S == Devnet!Scripts[8]
  <2>1. /\ S.id = "state_redeploy" /\ S.migrates = TRUE /\ S.skip = FALSE /\ Len(S.steps) = 4
        /\ PlainStep(8, S.steps[1], 13, DevnetSavers)
        /\ PlainStep(8, S.steps[2], 13, DevnetSavers)
        /\ PlainStep(8, S.steps[3], 13, DevnetSavers)
        /\ PlainStep(8, S.steps[4], 13, DevnetSavers)
    BY DEF Devnet!Scripts, Devnet!state_redeploy, Devnet!AwaitDeployment, Devnet!Call,
        Devnet!Execute, Devnet!Save, Devnet!Script, Devnet!UpgradeProxy, PlainStep,
        DevnetSavers
  <2> HIDE DEF S
  <2> QED
    BY <2>1 DEF S, Plain, Placed
<1>9. Plain(9, Devnet!Scripts[9], 13, DevnetSavers)
  <2> DEFINE S == Devnet!Scripts[9]
  <2>1. /\ S.id = "state_unpause" /\ S.migrates = TRUE /\ S.skip = FALSE /\ Len(S.steps) = 1
        /\ PlainStep(9, S.steps[1], 13, DevnetSavers)
    BY DEF Devnet!Scripts, Devnet!state_unpause, Devnet!Call, Devnet!Execute,
        Devnet!Script, PlainStep, DevnetSavers
  <2> HIDE DEF S
  <2> QED
    BY <2>1 DEF S, Plain, Placed
<1>10. Plain(10, Devnet!Scripts[10], 13, DevnetSavers)
  <2> DEFINE S == Devnet!Scripts[10]
  <2>1. /\ S.id = "portal_upgrade" /\ S.migrates = TRUE /\ S.skip = FALSE /\ Len(S.steps) = 2
        /\ PlainStep(10, S.steps[1], 13, DevnetSavers)
        /\ PlainStep(10, S.steps[2], 13, DevnetSavers)
    BY DEF Devnet!Scripts, Devnet!portal_upgrade, Devnet!Save, Devnet!Script,
        Devnet!UpgradeAndSave, Devnet!UpgradeProxy, PlainStep, DevnetSavers
  <2> HIDE DEF S
  <2> QED
    BY <2>1 DEF S, Plain, Placed
<1>11. Plain(11, Devnet!Scripts[11], 13, DevnetSavers)
  <2> DEFINE S == Devnet!Scripts[11]
  <2>1. /\ S.id = "state_upgrade" /\ S.migrates = TRUE /\ S.skip = FALSE /\ Len(S.steps) = 2
        /\ PlainStep(11, S.steps[1], 13, DevnetSavers)
        /\ PlainStep(11, S.steps[2], 13, DevnetSavers)
    BY DEF Devnet!Scripts, Devnet!state_upgrade, Devnet!Save, Devnet!Script,
        Devnet!UpgradeAndSave, Devnet!UpgradeProxy, PlainStep, DevnetSavers
  <2> HIDE DEF S
  <2> QED
    BY <2>1 DEF S, Plain, Placed
<1>12. Plain(12, Devnet!Scripts[12], 13, DevnetSavers)
  <2> DEFINE S == Devnet!Scripts[12]
  <2>1. /\ S.id = "set_asset_issuer" /\ S.migrates = TRUE /\ S.skip = FALSE /\ Len(S.steps) = 2
        /\ PlainStep(12, S.steps[1], 13, DevnetSavers)
        /\ PlainStep(12, S.steps[2], 13, DevnetSavers)
    BY DEF Devnet!Scripts, Devnet!set_asset_issuer, Devnet!Call, Devnet!Execute,
        Devnet!SaveL2Bridge, Devnet!Script, Devnet!SetIssuer, PlainStep, DevnetSavers
  <2> HIDE DEF S
  <2> QED
    BY <2>1 DEF S, Plain, Placed
<1>13. Plain(13, Devnet!Scripts[13], 13, DevnetSavers)
  <2> DEFINE S == Devnet!Scripts[13]
  <2>1. S.id = "chain_state_redeploy" /\ S.migrates = TRUE /\ S.skip = FALSE /\ Len(S.steps) = 2
    BY DEF Devnet!Scripts, Devnet!chain_state_redeploy, Devnet!DeployAndSave,
        Devnet!DeployProxy, Devnet!Save, Devnet!Script
  <2>2. PlainStep(13, S.steps[1], 13, DevnetSavers)
    BY DEF Devnet!Scripts, Devnet!chain_state_redeploy, Devnet!DeployAndSave,
        Devnet!DeployProxy, Devnet!Save, Devnet!Script, PlainStep, DevnetSavers
  <2>3. S.steps[2].op = "save"
    BY DEF Devnet!Scripts, Devnet!chain_state_redeploy, Devnet!DeployAndSave,
        Devnet!DeployProxy, Devnet!Save, Devnet!Script
  <2> HIDE DEF S
  <2>4. PlainStep(13, S.steps[2], 13, DevnetSavers)
    BY <2>3 DEF PlainStep, DevnetSavers
  <2> QED
    BY <2>1, <2>2, <2>4 DEF S, Plain, Placed
<1>14. Plain(14, Devnet!Scripts[14], 13, DevnetSavers)
  <2> DEFINE S == Devnet!Scripts[14]
  <2>1. /\ S.id = "redeploy_register_committer" /\ S.migrates = TRUE /\ S.skip = FALSE /\ Len(S.steps) = 1
        /\ PlainStep(14, S.steps[1], 13, DevnetSavers)
    BY DEF Devnet!Scripts, Devnet!redeploy_register_committer, Devnet!Execute,
        Devnet!GrantCommitter, Devnet!GrantRole, Devnet!Script, PlainStep, DevnetSavers
  <2> HIDE DEF S
  <2> QED
    BY <2>1 DEF S, Plain, Placed
<1>15. Plain(15, Devnet!Scripts[15], 13, DevnetSavers)
  <2> DEFINE S == Devnet!Scripts[15]
  <2>1. /\ S.id = "portal_upgrade_2" /\ S.migrates = TRUE /\ S.skip = FALSE /\ Len(S.steps) = 3
        /\ PlainStep(15, S.steps[1], 13, DevnetSavers)
        /\ PlainStep(15, S.steps[2], 13, DevnetSavers)
        /\ PlainStep(15, S.steps[3], 13, DevnetSavers)
    BY DEF Devnet!Scripts, Devnet!portal_upgrade_2, Devnet!AwaitUpgrade, Devnet!Save,
        Devnet!Script, Devnet!UpgradeProxy, PlainStep, DevnetSavers
  <2> HIDE DEF S
  <2> QED
    BY <2>1 DEF S, Plain, Placed
<1>16. Plain(16, Devnet!Scripts[16], 13, DevnetSavers)
  <2> DEFINE S == Devnet!Scripts[16]
  <2>1. /\ S.id = "portal_set_chain_state" /\ S.migrates = TRUE /\ S.skip = FALSE /\ Len(S.steps) = 1
        /\ PlainStep(16, S.steps[1], 13, DevnetSavers)
    BY DEF Devnet!Scripts, Devnet!portal_set_chain_state, Devnet!LinkChainState,
        Devnet!Script, PlainStep, DevnetSavers
  <2> HIDE DEF S
  <2> QED
    BY <2>1 DEF S, Plain, Placed
<1>17. Plain(17, Devnet!Scripts[17], 13, DevnetSavers)
  <2> DEFINE S == Devnet!Scripts[17]
  <2>1. /\ S.id = "gateway_redeploy" /\ S.migrates = TRUE /\ S.skip = FALSE /\ Len(S.steps) = 2
        /\ PlainStep(17, S.steps[1], 13, DevnetSavers)
        /\ PlainStep(17, S.steps[2], 13, DevnetSavers)
    BY DEF Devnet!Scripts, Devnet!gateway_redeploy, Devnet!DeployAndSave,
        Devnet!DeployProxy, Devnet!Save, Devnet!Script, PlainStep, DevnetSavers
  <2> HIDE DEF S
  <2> QED
    BY <2>1 DEF S, Plain, Placed
<1>18. Plain(18, Devnet!Scripts[18], 13, DevnetSavers)
  <2> DEFINE S == Devnet!Scripts[18]
  <2>1. /\ S.id = "set_asset_issuer_redeploy" /\ S.migrates = TRUE /\ S.skip = FALSE /\ Len(S.steps) = 2
        /\ PlainStep(18, S.steps[1], 13, DevnetSavers)
        /\ PlainStep(18, S.steps[2], 13, DevnetSavers)
    BY DEF Devnet!Scripts, Devnet!set_asset_issuer_redeploy, Devnet!Call,
        Devnet!Execute, Devnet!SaveL2Bridge, Devnet!Script, Devnet!SetIssuer, PlainStep,
        DevnetSavers
  <2> HIDE DEF S
  <2> QED
    BY <2>1 DEF S, Plain, Placed
<1>19. Plain(19, Devnet!Scripts[19], 13, DevnetSavers)
  <2> DEFINE S == Devnet!Scripts[19]
  <2>1. /\ S.id = "018_portal_upgrade" /\ S.migrates = TRUE /\ S.skip = FALSE /\ Len(S.steps) = 3
        /\ PlainStep(19, S.steps[1], 13, DevnetSavers)
        /\ PlainStep(19, S.steps[2], 13, DevnetSavers)
        /\ PlainStep(19, S.steps[3], 13, DevnetSavers)
    BY DEF Devnet!Scripts, Devnet!portal_upgrade_018, Devnet!PrepareUpgrade,
        Devnet!SavePrepared, Devnet!Script, Devnet!UpgradeAndReinitialize, PlainStep,
        DevnetSavers
  <2> HIDE DEF S
  <2> QED
    BY <2>1 DEF S, Plain, Placed
<1>20. Len(Devnet!Scripts) = 19
  BY DEF Devnet!Scripts
<1>21. ASSUME NEW i \in 1 .. 19
       PROVE  i = 1 \/ i = 2 \/ i = 3 \/ i = 4 \/ i = 5 \/ i = 6 \/ i = 7 \/ i = 8 \/ i = 9
           \/ i = 10 \/ i = 11 \/ i = 12 \/ i = 13 \/ i = 14 \/ i = 15 \/ i = 16 \/ i = 17 \/ i
           = 18 \/ i = 19
  OBVIOUS
<1> QED
  BY <1>1, <1>2, <1>3, <1>4, <1>5, <1>6, <1>7, <1>8, <1>9, <1>10, <1>11, <1>12, <1>13,
        <1>14, <1>15, <1>16, <1>17, <1>18, <1>19, <1>20, <1>21

LEMMA HardhatScripts ==
    Len(Hardhat!Scripts) = 9 /\ \A i \in 1 .. 9 : Plain(i, Hardhat!Scripts[i], 0, HardhatSavers)
<1>1. Plain(1, Hardhat!Scripts[1], 0, HardhatSavers)
  <2> DEFINE S == Hardhat!Scripts[1]
  <2>1. /\ S.id = "chain_state" /\ Len(S.steps) = 2
        /\ PlainStep(1, S.steps[1], 0, HardhatSavers)
        /\ PlainStep(1, S.steps[2], 0, HardhatSavers)
    BY DEF Hardhat!Scripts, Hardhat!chain_state, Hardhat!DeployAndSave,
        Hardhat!DeployProxy, Hardhat!RepeatedScript, Hardhat!Save, PlainStep,
        HardhatSavers
  <2> HIDE DEF S
  <2> QED
    BY <2>1 DEF S, Plain, Placed
<1>2. Plain(2, Hardhat!Scripts[2], 0, HardhatSavers)
  <2> DEFINE S == Hardhat!Scripts[2]
  <2>1. /\ S.id = "fuel_message_portal" /\ Len(S.steps) = 2
        /\ PlainStep(2, S.steps[1], 0, HardhatSavers)
        /\ PlainStep(2, S.steps[2], 0, HardhatSavers)
    BY DEF Hardhat!Scripts, Hardhat!fuel_message_portal, Hardhat!DeployAndSave,
        Hardhat!DeployProxy, Hardhat!RepeatedScript, Hardhat!Save, PlainStep,
        HardhatSavers
  <2> HIDE DEF S
  <2> QED
    BY <2>1 DEF S, Plain, Placed
<1>3. Plain(3, Hardhat!Scripts[3], 0, HardhatSavers)
  <2> DEFINE S == Hardhat!Scripts[3]
  <2>1. /\ S.id = "fuel_erc20_gateway_v4" /\ Len(S.steps) = 2
        /\ PlainStep(3, S.steps[1], 0, HardhatSavers)
        /\ PlainStep(3, S.steps[2], 0, HardhatSavers)
    BY DEF Hardhat!Scripts, Hardhat!fuel_erc20_gateway_v4, Hardhat!DeployAndSave,
        Hardhat!DeployProxy, Hardhat!RepeatedScript, Hardhat!Save, PlainStep,
        HardhatSavers
  <2> HIDE DEF S
  <2> QED
    BY <2>1 DEF S, Plain, Placed
<1>4. Plain(4, Hardhat!Scripts[4], 0, HardhatSavers)
  <2> DEFINE S == Hardhat!Scripts[4]
  <2>1. /\ S.id = "token" /\ Len(S.steps) = 1
        /\ PlainStep(4, S.steps[1], 0, HardhatSavers)
    BY DEF Hardhat!Scripts, Hardhat!token, Hardhat!DeployToken, Hardhat!RepeatedScript,
        PlainStep, HardhatSavers
  <2> HIDE DEF S
  <2> QED
    BY <2>1 DEF S, Plain, Placed
<1>5. Plain(5, Hardhat!Scripts[5], 0, HardhatSavers)
  <2> DEFINE S == Hardhat!Scripts[5]
  <2>1. /\ S.id = "register_committer" /\ Len(S.steps) = 1
        /\ PlainStep(5, S.steps[1], 0, HardhatSavers)
    BY DEF Hardhat!Scripts, Hardhat!register_committer, Hardhat!Execute,
        Hardhat!GrantCommitter, Hardhat!GrantRole, Hardhat!RepeatedScript, PlainStep,
        HardhatSavers
  <2> HIDE DEF S
  <2> QED
    BY <2>1 DEF S, Plain, Placed
<1>6. Plain(6, Hardhat!Scripts[6], 0, HardhatSavers)
  <2> DEFINE S == Hardhat!Scripts[6]
  <2>1. /\ S.id = "fuel_erc721_gateway_v2" /\ Len(S.steps) = 2
        /\ PlainStep(6, S.steps[1], 0, HardhatSavers)
        /\ PlainStep(6, S.steps[2], 0, HardhatSavers)
    BY DEF Hardhat!Scripts, Hardhat!fuel_erc721_gateway_v2, Hardhat!DeployAndSave,
        Hardhat!DeployProxy, Hardhat!RepeatedScript, Hardhat!Save, PlainStep,
        HardhatSavers
  <2> HIDE DEF S
  <2> QED
    BY <2>1 DEF S, Plain, Placed
<1>7. Plain(7, Hardhat!Scripts[7], 0, HardhatSavers)
  <2> DEFINE S == Hardhat!Scripts[7]
  <2>1. /\ S.id = "set_asset_issuer_id" /\ Len(S.steps) = 2
        /\ PlainStep(7, S.steps[1], 0, HardhatSavers)
        /\ PlainStep(7, S.steps[2], 0, HardhatSavers)
    BY DEF Hardhat!Scripts, Hardhat!set_asset_issuer_id, Hardhat!Call, Hardhat!Execute,
        Hardhat!RepeatedScript, Hardhat!SaveL2Bridge, Hardhat!SetIssuer, PlainStep,
        HardhatSavers
  <2> HIDE DEF S
  <2> QED
    BY <2>1 DEF S, Plain, Placed
<1>8. Plain(8, Hardhat!Scripts[8], 0, HardhatSavers)
  <2> DEFINE S == Hardhat!Scripts[8]
  <2>1. /\ S.id = "set_canonical_token_bytecode" /\ Len(S.steps) = 4
        /\ PlainStep(8, S.steps[1], 0, HardhatSavers)
        /\ PlainStep(8, S.steps[2], 0, HardhatSavers)
        /\ PlainStep(8, S.steps[3], 0, HardhatSavers)
        /\ PlainStep(8, S.steps[4], 0, HardhatSavers)
    BY DEF Hardhat!Scripts, Hardhat!set_canonical_token_bytecode,
        Hardhat!RepeatedScript, Hardhat!SetToken, Hardhat!SetTokens, PlainStep,
        HardhatSavers
  <2> HIDE DEF S
  <2> QED
    BY <2>1 DEF S, Plain, Placed
<1>9. Plain(9, Hardhat!Scripts[9], 0, HardhatSavers)
  <2> DEFINE S == Hardhat!Scripts[9]
  <2>1. /\ S.id = "all" /\ Len(S.steps) = 1
        /\ PlainStep(9, S.steps[1], 0, HardhatSavers)
    BY DEF Hardhat!Scripts, Hardhat!all, Hardhat!RepeatedScript, Hardhat!WriteAddresses,
        PlainStep, HardhatSavers
  <2> HIDE DEF S
  <2> QED
    BY <2>1 DEF S, Plain, Placed
<1>10. Len(Hardhat!Scripts) = 9
  BY DEF Hardhat!Scripts
<1>11. ASSUME NEW i \in 1 .. 9
       PROVE  i = 1 \/ i = 2 \/ i = 3 \/ i = 4 \/ i = 5 \/ i = 6 \/ i = 7 \/ i = 8 \/ i = 9
  OBVIOUS
<1> QED
  BY <1>1, <1>2, <1>3, <1>4, <1>5, <1>6, <1>7, <1>8, <1>9, <1>10, <1>11

LEMMA ForkScripts ==
    Len(Fork!Scripts) = 6 /\ \A i \in 1 .. 6 : Plain(i, Fork!Scripts[i], 0, ForkSavers)
<1>1. Plain(1, Fork!Scripts[1], 0, ForkSavers)
  <2> DEFINE S == Fork!Scripts[1]
  <2>1. /\ S.id = "token" /\ Len(S.steps) = 1
        /\ PlainStep(1, S.steps[1], 0, ForkSavers)
    BY DEF Fork!Scripts, Fork!token, Fork!DeployToken, Fork!RepeatedScript, PlainStep,
        ForkSavers
  <2> HIDE DEF S
  <2> QED
    BY <2>1 DEF S, Plain, Placed
<1>2. Plain(2, Fork!Scripts[2], 0, ForkSavers)
  <2> DEFINE S == Fork!Scripts[2]
  <2>1. /\ S.id = "set_canonical_token_bytecode" /\ Len(S.steps) = 4
        /\ PlainStep(2, S.steps[1], 0, ForkSavers) /\ PlainStep(2, S.steps[2], 0, ForkSavers)
        /\ PlainStep(2, S.steps[3], 0, ForkSavers) /\ PlainStep(2, S.steps[4], 0, ForkSavers)
    BY DEF Fork!Scripts, Fork!set_canonical_token_bytecode, Fork!RepeatedScript,
        Fork!SetToken, Fork!SetTokens, PlainStep, ForkSavers
  <2> HIDE DEF S
  <2> QED
    BY <2>1 DEF S, Plain, Placed
<1>3. Plain(3, Fork!Scripts[3], 0, ForkSavers)
  <2> DEFINE S == Fork!Scripts[3]
  <2>1. /\ S.id = "upgrade_chain_state" /\ Len(S.steps) = 3
        /\ PlainStep(3, S.steps[1], 0, ForkSavers) /\ PlainStep(3, S.steps[2], 0, ForkSavers)
        /\ PlainStep(3, S.steps[3], 0, ForkSavers)
    BY DEF Fork!Scripts, Fork!upgrade_chain_state, Fork!ExecuteAs, Fork!GrantRole,
        Fork!Script, Fork!UpgradeTo, PlainStep, ForkSavers
  <2> HIDE DEF S
  <2> QED
    BY <2>1 DEF S, Plain, Placed
<1>4. Plain(4, Fork!Scripts[4], 0, ForkSavers)
  <2> DEFINE S == Fork!Scripts[4]
  <2>1. /\ S.id = "upgrade_portal" /\ Len(S.steps) = 2
        /\ PlainStep(4, S.steps[1], 0, ForkSavers) /\ PlainStep(4, S.steps[2], 0, ForkSavers)
    BY DEF Fork!Scripts, Fork!upgrade_portal, Fork!ExecuteAs, Fork!GrantRole,
        Fork!Script, Fork!UpgradeTo, PlainStep, ForkSavers
  <2> HIDE DEF S
  <2> QED
    BY <2>1 DEF S, Plain, Placed
<1>5. Plain(5, Fork!Scripts[5], 0, ForkSavers)
  <2> DEFINE S == Fork!Scripts[5]
  <2>1. /\ S.id = "upgrade_gateway" /\ Len(S.steps) = 4
        /\ PlainStep(5, S.steps[1], 0, ForkSavers) /\ PlainStep(5, S.steps[2], 0, ForkSavers)
        /\ PlainStep(5, S.steps[3], 0, ForkSavers) /\ PlainStep(5, S.steps[4], 0, ForkSavers)
    BY DEF Fork!Scripts, Fork!upgrade_gateway, Fork!ExecuteAs, Fork!GrantRole,
        Fork!RequireWhitelist, Fork!Script, Fork!UpgradeTo, PlainStep, ForkSavers
  <2> HIDE DEF S
  <2> QED
    BY <2>1 DEF S, Plain, Placed
<1>6. Plain(6, Fork!Scripts[6], 0, ForkSavers)
  <2> DEFINE S == Fork!Scripts[6]
  <2>1. /\ S.id = "all" /\ Len(S.steps) = 1
        /\ PlainStep(6, S.steps[1], 0, ForkSavers)
    BY DEF Fork!Scripts, Fork!all, Fork!RepeatedScript, Fork!WriteAddresses, PlainStep,
        ForkSavers
  <2> HIDE DEF S
  <2> QED
    BY <2>1 DEF S, Plain, Placed
<1>7. Len(Fork!Scripts) = 6
  BY DEF Fork!Scripts
<1>8. ASSUME NEW i \in 1 .. 6
       PROVE  i = 1 \/ i = 2 \/ i = 3 \/ i = 4 \/ i = 5 \/ i = 6
  OBVIOUS
<1> QED
  BY <1>1, <1>2, <1>3, <1>4, <1>5, <1>6, <1>7, <1>8

LEMMA UpgradeTestScripts ==
    Len(UpgradeTest!Scripts) = 6 /\ \A i \in 1 .. 6 : Plain(i, UpgradeTest!Scripts[i], 0, UpgradeTestSavers)
<1>1. Plain(1, UpgradeTest!Scripts[1], 0, UpgradeTestSavers)
  <2> DEFINE S == UpgradeTest!Scripts[1]
  <2>1. /\ S.id = "chain_state" /\ Len(S.steps) = 2
        /\ PlainStep(1, S.steps[1], 0, UpgradeTestSavers)
        /\ PlainStep(1, S.steps[2], 0, UpgradeTestSavers)
    BY DEF UpgradeTest!Scripts, UpgradeTest!chain_state, UpgradeTest!DeployAndSave,
        UpgradeTest!DeployProxy, UpgradeTest!RepeatedScript, UpgradeTest!Save,
        PlainStep, UpgradeTestSavers
  <2> HIDE DEF S
  <2> QED
    BY <2>1 DEF S, Plain, Placed
<1>2. Plain(2, UpgradeTest!Scripts[2], 0, UpgradeTestSavers)
  <2> DEFINE S == UpgradeTest!Scripts[2]
  <2>1. /\ S.id = "fuel_message_portal" /\ Len(S.steps) = 2
        /\ PlainStep(2, S.steps[1], 0, UpgradeTestSavers)
        /\ PlainStep(2, S.steps[2], 0, UpgradeTestSavers)
    BY DEF UpgradeTest!Scripts, UpgradeTest!fuel_message_portal,
        UpgradeTest!DeployAndSave, UpgradeTest!DeployProxy, UpgradeTest!RepeatedScript,
        UpgradeTest!Save, PlainStep, UpgradeTestSavers
  <2> HIDE DEF S
  <2> QED
    BY <2>1 DEF S, Plain, Placed
<1>3. Plain(3, UpgradeTest!Scripts[3], 0, UpgradeTestSavers)
  <2> DEFINE S == UpgradeTest!Scripts[3]
  <2>1. /\ S.id = "fuel_erc20_gateway_v4" /\ Len(S.steps) = 2
        /\ PlainStep(3, S.steps[1], 0, UpgradeTestSavers)
        /\ PlainStep(3, S.steps[2], 0, UpgradeTestSavers)
    BY DEF UpgradeTest!Scripts, UpgradeTest!fuel_erc20_gateway_v4,
        UpgradeTest!DeployAndSave, UpgradeTest!DeployProxy, UpgradeTest!RepeatedScript,
        UpgradeTest!Save, PlainStep, UpgradeTestSavers
  <2> HIDE DEF S
  <2> QED
    BY <2>1 DEF S, Plain, Placed
<1>4. Plain(4, UpgradeTest!Scripts[4], 0, UpgradeTestSavers)
  <2> DEFINE S == UpgradeTest!Scripts[4]
  <2>1. /\ S.id = "prepareUpgrade_chain_state" /\ Len(S.steps) = 2
        /\ PlainStep(4, S.steps[1], 0, UpgradeTestSavers)
        /\ PlainStep(4, S.steps[2], 0, UpgradeTestSavers)
    BY DEF UpgradeTest!Scripts, UpgradeTest!prepareUpgrade_chain_state,
        UpgradeTest!PrepareUpgrade, UpgradeTest!RepeatedScript,
        UpgradeTest!SavePrepared, PlainStep, UpgradeTestSavers
  <2> HIDE DEF S
  <2> QED
    BY <2>1 DEF S, Plain, Placed
<1>5. Plain(5, UpgradeTest!Scripts[5], 0, UpgradeTestSavers)
  <2> DEFINE S == UpgradeTest!Scripts[5]
  <2>1. /\ S.id = "prepareUpgrade_erc20_gateway_v4" /\ Len(S.steps) = 2
        /\ PlainStep(5, S.steps[1], 0, UpgradeTestSavers)
        /\ PlainStep(5, S.steps[2], 0, UpgradeTestSavers)
    BY DEF UpgradeTest!Scripts, UpgradeTest!prepareUpgrade_erc20_gateway_v4,
        UpgradeTest!PrepareUpgrade, UpgradeTest!RepeatedScript,
        UpgradeTest!SavePrepared, PlainStep, UpgradeTestSavers
  <2> HIDE DEF S
  <2> QED
    BY <2>1 DEF S, Plain, Placed
<1>6. Plain(6, UpgradeTest!Scripts[6], 0, UpgradeTestSavers)
  <2> DEFINE S == UpgradeTest!Scripts[6]
  <2>1. /\ S.id = "prepareUpgrade_fuel_message_portal" /\ Len(S.steps) = 2
        /\ PlainStep(6, S.steps[1], 0, UpgradeTestSavers)
        /\ PlainStep(6, S.steps[2], 0, UpgradeTestSavers)
    BY DEF UpgradeTest!Scripts, UpgradeTest!prepareUpgrade_fuel_message_portal,
        UpgradeTest!PrepareUpgrade, UpgradeTest!RepeatedScript,
        UpgradeTest!SavePrepared, PlainStep, UpgradeTestSavers
  <2> HIDE DEF S
  <2> QED
    BY <2>1 DEF S, Plain, Placed
<1>7. Len(UpgradeTest!Scripts) = 6
  BY DEF UpgradeTest!Scripts
<1>8. ASSUME NEW i \in 1 .. 6
       PROVE  i = 1 \/ i = 2 \/ i = 3 \/ i = 4 \/ i = 5 \/ i = 6
  OBVIOUS
<1> QED
  BY <1>1, <1>2, <1>3, <1>4, <1>5, <1>6, <1>7, <1>8

LEMMA IdleJob ==
    /\ DOMAIN Idle = {"at", "pc", "address", "implementation", "reached"}
    /\ Idle.at = 0 /\ Idle.pc = 0 /\ Idle.reached = 0 /\ Idle.address = 0
BY DEF Idle

\* The scripts that are left, if any, have a first.
LEMMA NextEffect ==
    ASSUME BaseInv, NextScript
    PROVE  /\ UNCHANGED <<network, chain, files, safe>>
           /\ DOMAIN job' = {"at", "pc", "address", "implementation", "reached"}
           /\ DOMAIN seen' = DOMAIN seen /\ seen'.refused = seen.refused
           /\ job.pc <= 0
           /\ \/ /\ job' = Idle
                 /\ \A j \in job.reached .. Len(Scripts) : ~ToRun(j)
              \/ /\ job'.at \in job.reached .. Len(Scripts) /\ ToRun(job'.at)
                 /\ job'.pc = 1 /\ job'.reached = job'.at /\ job'.address = 0
                 /\ \A j \in job.reached .. job'.at - 1 : ~ToRun(j)
<1> DEFINE rest == {i \in job.reached .. Len(Scripts) : ToRun(i)}
<1>1. rest \in SUBSET Nat
  BY DEF BaseInv
<1>2. job.pc <= 0 /\ job.reached \in Nat
  BY DEF BaseInv, NextScript, InScript
<1>3. CASE rest = {}
  <2>1. job' = Idle /\ seen' = [seen EXCEPT !.finished = TRUE]
        /\ UNCHANGED <<network, chain, files, safe>>
    BY <1>3 DEF NextScript
  <2>2. \A j \in job.reached .. Len(Scripts) : ~ToRun(j)
    BY <1>3
  <2>3. DOMAIN seen' = DOMAIN seen /\ seen'.refused = seen.refused
    BY <2>1 DEF BaseInv
  <2> QED
    BY <1>2, <2>1, <2>2, <2>3, IdleJob
<1>4. CASE rest # {}
  <2> DEFINE m == Min(rest)
  <2>1. m \in rest /\ \A j \in rest : m <= j
    BY <1>1, <1>4, LeastOf
  <2>2. job' = [Idle EXCEPT !.at = m, !.pc = 1, !.reached = m]
        /\ UNCHANGED <<network, chain, files, safe, seen>>
    BY <1>4 DEF NextScript
  <2>3. \A j \in job.reached .. Len(Scripts) : ToRun(j) => m <= j
    BY <2>1
  <2>4. m \in job.reached .. Len(Scripts) /\ ToRun(m)
    BY <2>1
  <2> HIDE DEF m, rest
  <2>5. /\ DOMAIN job' = {"at", "pc", "address", "implementation", "reached"}
        /\ job'.at = m /\ job'.pc = 1 /\ job'.reached = m /\ job'.address = 0
    BY <2>2, IdleJob
  <2>6. ASSUME NEW j \in job.reached .. m - 1
        PROVE  ~ToRun(j)
    <3>1. j \in job.reached .. Len(Scripts) /\ ~(m <= j)
      BY <1>2, <2>4
    <3> QED
      BY <2>3, <3>1
  <2> QED
    BY <1>2, <2>2, <2>4, <2>5, <2>6
<1> QED
  BY <1>3, <1>4

LEMMA NextBase ==
    ASSUME BaseInv, CallInv, [TaskNext]_allVars
    PROVE  BaseInv' /\ Len(chain'.contracts) >= Len(chain.contracts)
<1>0. Len(chain.contracts) \in Nat
  BY DEF BaseInv, IsSequence
<1>1. CASE UNCHANGED vars
  BY <1>0, <1>1 DEF BaseInv, vars, Address
<1>2. CASE Start
  <2>1. /\ job' = [Idle EXCEPT !.reached = 1]
        /\ seen' = [seen EXCEPT !.reruns = @ + (IF seen.finished THEN 1 ELSE 0),
                                !.finished = FALSE]
        /\ UNCHANGED <<network, chain, files, safe>>
    BY <1>2 DEF Start
  <2>2. /\ DOMAIN job' = {"at", "pc", "address", "implementation", "reached"}
        /\ job'.at = 0 /\ job'.pc = 0 /\ job'.reached = 1 /\ job'.address = 0
    BY <2>1, IdleJob
  <2>3. DOMAIN seen' = DOMAIN seen
    BY <2>1
  <2> QED
    BY <1>0, <2>1, <2>2, <2>3 DEF BaseInv, Address
<1>3. CASE NextScript
  <2>1. /\ job'.at \in Nat /\ job'.pc \in Nat /\ job'.reached \in Nat /\ job'.address = 0
    BY <1>3, NextEffect, IdleJob DEF BaseInv
  <2> QED
    BY <1>0, <1>3, <2>1, NextEffect DEF BaseInv, Address
<1>4. CASE ScriptReturns
  <2>1. /\ job' = [Idle EXCEPT !.reached = job.at + 1]
        /\ \E m : files' = [files EXCEPT !.migrations = m]
        /\ UNCHANGED <<network, chain, safe, seen>>
    BY <1>4 DEF ScriptReturns
  <2>2. /\ DOMAIN job' = {"at", "pc", "address", "implementation", "reached"}
        /\ job'.at = 0 /\ job'.pc = 0 /\ job'.reached = job.at + 1 /\ job'.address = 0
    BY <2>1, IdleJob
  <2>3. DOMAIN files' = DOMAIN files /\ files'.records = files.records
    BY <2>1 DEF BaseInv
  <2> QED
    BY <1>0, <2>1, <2>2, <2>3 DEF BaseInv, Address
<1>5. CASE Step
  <2>1. CASE Throw
    <3>1. DOMAIN seen' = DOMAIN seen /\ job' = Idle /\ UNCHANGED <<network, chain, files, safe>>
      BY <2>1 DEF Throw
    <3> QED
      BY <1>0, <3>1, IdleJob DEF BaseInv, Address
  <2> QED
    BY <1>5, <2>1, StepEffect, AdvancesBase
<1>6. CASE Mined
  <2>1. /\ chain' = [chain EXCEPT !.contracts = Settled, !.sent = NothingSent]
        /\ UNCHANGED <<network, files, job, safe, seen>>
    BY <1>6 DEF Mined
  <2>2. DOMAIN chain' = DOMAIN chain /\ chain'.contracts = Settled
    BY <2>1 DEF BaseInv
  <2>3. /\ IsSequence(Settled) /\ Len(Settled) = Len(chain.contracts)
        /\ \A a \in DOMAIN Settled : DOMAIN Settled[a] = ContractFields
    BY SettledContracts
  <2> QED
    BY <1>0, <2>1, <2>2, <2>3 DEF BaseInv, Address
<1>7. CASE Crash
  <2>1. DOMAIN seen' = DOMAIN seen /\ job' = Idle /\ UNCHANGED <<network, chain, files, safe>>
    BY <1>7 DEF Crash
  <2> QED
    BY <1>0, <2>1, IdleJob DEF BaseInv, Address
<1>8. ASSUME NEW id, EnterMigration(id)
      PROVE  BaseInv' /\ Len(chain'.contracts) >= Len(chain.contracts)
  <2>1. /\ DOMAIN files' = DOMAIN files /\ files'.records = files.records
        /\ DOMAIN seen' = DOMAIN seen
        /\ UNCHANGED <<network, chain, job, safe>>
    BY <1>8 DEF EnterMigration, BaseInv
  <2> QED
    BY <1>0, <2>1 DEF BaseInv, Address
<1>9. CASE Called
  <2>1. ASSUME NEW a \in DOMAIN chain'.contracts
        PROVE  DOMAIN chain'.contracts[a] = ContractFields
    <3>1. a \in DOMAIN chain.contracts
      BY <1>9, <2>1 DEF Called, BaseInv, IsSequence
    <3>2. DOMAIN chain.contracts[a] = ContractFields
      BY <3>1 DEF BaseInv
    <3> QED
      BY <1>9, <3>1, <3>2, AfterFields DEF Called
  <2> QED
    BY <1>0, <1>9, <2>1 DEF Called, BaseInv, Address
<1> QED
  BY <1>1, <1>2, <1>3, <1>4, <1>5, <1>6, <1>7, <1>8, <1>9, NextKinds

------------------------------------------------------------------------------
(* The scripts of mainnet *)

LEMMA MainnetScripts ==
    ASSUME NEW i \in 1 .. 21
    PROVE  AsListed(i, Mainnet!Scripts[i])
<1> DEFINE S == Mainnet!Scripts[i]
<1>1. CASE i = 1
  <2>1. S.id = "chain_state" /\ S.migrates = TRUE /\ S.skip = FALSE /\ Len(S.steps) = 2
    BY <1>1 DEF Mainnet!Scripts, Mainnet!chain_state, Mainnet!Script,
        Mainnet!DeployAndSave, Mainnet!DeployProxy, Mainnet!Save
  <2>2. Deploys(i, 1, S.steps[1])
    BY <1>1 DEF Mainnet!Scripts, Mainnet!chain_state, Mainnet!Script,
        Mainnet!DeployAndSave, Mainnet!DeployProxy, Mainnet!Save, Deploys
  <2>3. Saves(i, 2, S.steps[2])
    BY <1>1 DEF Mainnet!Scripts, Mainnet!chain_state, Mainnet!Script,
        Mainnet!DeployAndSave, Mainnet!DeployProxy, Mainnet!Save, Saves, SavedIn
  <2> HIDE DEF S
  <2>4. StepCount(i) = 2
    BY <1>1 DEF StepCount
  <2>5. MainnetIds[i] = "chain_state"
    BY <1>1 DEF MainnetIds
  <2> QED
    BY <1>1, <2>1, <2>2, <2>3, <2>4, <2>5 DEF S, AsListed, MainnetStep
<1>2. CASE i = 2
  <2>1. S.id = "fuel_message_portal" /\ S.migrates = TRUE /\ S.skip = FALSE /\ Len(S.steps) = 2
    BY <1>2 DEF Mainnet!Scripts, Mainnet!fuel_message_portal, Mainnet!Script,
        Mainnet!DeployAndSave, Mainnet!DeployProxy, Mainnet!Save
  <2>2. Deploys(i, 1, S.steps[1])
    BY <1>2 DEF Mainnet!Scripts, Mainnet!fuel_message_portal, Mainnet!Script,
        Mainnet!DeployAndSave, Mainnet!DeployProxy, Mainnet!Save, Deploys
  <2>3. Saves(i, 2, S.steps[2])
    BY <1>2 DEF Mainnet!Scripts, Mainnet!fuel_message_portal, Mainnet!Script,
        Mainnet!DeployAndSave, Mainnet!DeployProxy, Mainnet!Save, Saves, SavedIn
  <2> HIDE DEF S
  <2>4. StepCount(i) = 2
    BY <1>2 DEF StepCount
  <2>5. MainnetIds[i] = "fuel_message_portal"
    BY <1>2 DEF MainnetIds
  <2> QED
    BY <1>2, <2>1, <2>2, <2>3, <2>4, <2>5 DEF S, AsListed, MainnetStep
<1>3. CASE i = 3
  <2>1. S.id = "register_committer" /\ S.migrates = TRUE /\ S.skip = FALSE /\ Len(S.steps) = 1
    BY <1>3 DEF Mainnet!Scripts, Mainnet!register_committer, Mainnet!Script,
        Mainnet!GrantCommitter, Mainnet!Execute, Mainnet!GrantRole
  <2>2. Grants(i, 1, S.steps[1])
    BY <1>3 DEF Mainnet!Scripts, Mainnet!register_committer, Mainnet!Script,
        Mainnet!GrantCommitter, Mainnet!Execute, Mainnet!GrantRole, Grants, GrantRole
  <2> HIDE DEF S
  <2>3. StepCount(i) = 1
    BY <1>3 DEF StepCount
  <2>4. MainnetIds[i] = "register_committer"
    BY <1>3 DEF MainnetIds
  <2> QED
    BY <1>3, <2>1, <2>2, <2>3, <2>4 DEF S, AsListed, MainnetStep
<1>4. CASE i = 4
  <2>1. S.id = "register_watchtower" /\ S.migrates = TRUE /\ S.skip = FALSE /\ Len(S.steps) = 1
    BY <1>4 DEF Mainnet!Scripts, Mainnet!register_watchtower, Mainnet!Script,
        Mainnet!Execute, Mainnet!GrantRole
  <2>2. Grants(i, 1, S.steps[1])
    BY <1>4 DEF Mainnet!Scripts, Mainnet!register_watchtower, Mainnet!Script,
        Mainnet!Execute, Mainnet!GrantRole, Grants, GrantRole
  <2> HIDE DEF S
  <2>3. StepCount(i) = 1
    BY <1>4 DEF StepCount
  <2>4. MainnetIds[i] = "register_watchtower"
    BY <1>4 DEF MainnetIds
  <2> QED
    BY <1>4, <2>1, <2>2, <2>3, <2>4 DEF S, AsListed, MainnetStep
<1>5. CASE i = 5
  <2>1. S.id = "register_watchtower_portal" /\ S.migrates = TRUE /\ S.skip = FALSE /\ Len(S.steps) = 1
    BY <1>5 DEF Mainnet!Scripts, Mainnet!register_watchtower_portal, Mainnet!Script,
        Mainnet!Execute, Mainnet!GrantRole
  <2>2. Grants(i, 1, S.steps[1])
    BY <1>5 DEF Mainnet!Scripts, Mainnet!register_watchtower_portal, Mainnet!Script,
        Mainnet!Execute, Mainnet!GrantRole, Grants, GrantRole
  <2> HIDE DEF S
  <2>3. StepCount(i) = 1
    BY <1>5 DEF StepCount
  <2>4. MainnetIds[i] = "register_watchtower_portal"
    BY <1>5 DEF MainnetIds
  <2> QED
    BY <1>5, <2>1, <2>2, <2>3, <2>4 DEF S, AsListed, MainnetStep
<1>6. CASE i = 6
  <2>1. S.id = "set_deposit_limit_eth" /\ S.migrates = TRUE /\ S.skip = FALSE /\ Len(S.steps) = 2
    BY <1>6 DEF Mainnet!Scripts, Mainnet!set_deposit_limit_eth, Mainnet!Script,
        Mainnet!UpgradeAndSave, Mainnet!UpgradeProxy, Mainnet!Save
  <2>2. Upgrades(i, 1, S.steps[1])
    BY <1>6 DEF Mainnet!Scripts, Mainnet!set_deposit_limit_eth, Mainnet!Script,
        Mainnet!UpgradeAndSave, Mainnet!UpgradeProxy, Mainnet!Save, Upgrades
  <2>3. Saves(i, 2, S.steps[2])
    BY <1>6 DEF Mainnet!Scripts, Mainnet!set_deposit_limit_eth, Mainnet!Script,
        Mainnet!UpgradeAndSave, Mainnet!UpgradeProxy, Mainnet!Save, Saves, SavedIn
  <2> HIDE DEF S
  <2>4. StepCount(i) = 2
    BY <1>6 DEF StepCount
  <2>5. MainnetIds[i] = "set_deposit_limit_eth"
    BY <1>6 DEF MainnetIds
  <2> QED
    BY <1>6, <2>1, <2>2, <2>3, <2>4, <2>5 DEF S, AsListed, MainnetStep
<1>7. CASE i = 7
  <2>1. S.id = "gateway" /\ S.migrates = TRUE /\ S.skip = FALSE /\ Len(S.steps) = 2
    BY <1>7 DEF Mainnet!Scripts, Mainnet!gateway, Mainnet!Script, Mainnet!DeployAndSave,
        Mainnet!DeployProxy, Mainnet!Save
  <2>2. Deploys(i, 1, S.steps[1])
    BY <1>7 DEF Mainnet!Scripts, Mainnet!gateway, Mainnet!Script, Mainnet!DeployAndSave,
        Mainnet!DeployProxy, Mainnet!Save, Deploys
  <2>3. Saves(i, 2, S.steps[2])
    BY <1>7 DEF Mainnet!Scripts, Mainnet!gateway, Mainnet!Script, Mainnet!DeployAndSave,
        Mainnet!DeployProxy, Mainnet!Save, Saves, SavedIn
  <2> HIDE DEF S
  <2>4. StepCount(i) = 2
    BY <1>7 DEF StepCount
  <2>5. MainnetIds[i] = "gateway"
    BY <1>7 DEF MainnetIds
  <2> QED
    BY <1>7, <2>1, <2>2, <2>3, <2>4, <2>5 DEF S, AsListed, MainnetStep
<1>8. CASE i = 8
  <2>1. S.id = "gateway_enable_whitelist" /\ S.migrates = TRUE /\ S.skip = FALSE /\ Len(S.steps) = 1
    BY <1>8 DEF Mainnet!Scripts, Mainnet!gateway_enable_whitelist, Mainnet!Script,
        Mainnet!Execute, Mainnet!RequireWhitelist
  <2>2. SetsUp(i, 1, S.steps[1])
    BY <1>8 DEF Mainnet!Scripts, Mainnet!gateway_enable_whitelist, Mainnet!Script,
        Mainnet!Execute, Mainnet!RequireWhitelist, SetsUp
  <2> HIDE DEF S
  <2>3. StepCount(i) = 1
    BY <1>8 DEF StepCount
  <2>4. MainnetIds[i] = "gateway_enable_whitelist"
    BY <1>8 DEF MainnetIds
  <2> QED
    BY <1>8, <2>1, <2>2, <2>3, <2>4 DEF S, AsListed, MainnetStep
<1>9. CASE i = 9
  <2>1. S.id = "gateway_whitelist_usdc" /\ S.migrates = TRUE /\ S.skip = FALSE /\ Len(S.steps) = 1
    BY <1>9 DEF Mainnet!Scripts, Mainnet!gateway_whitelist_usdc, Mainnet!Script,
        Mainnet!Execute, Mainnet!Call
  <2>2. SetsUp(i, 1, S.steps[1])
    BY <1>9 DEF Mainnet!Scripts, Mainnet!gateway_whitelist_usdc, Mainnet!Script,
        Mainnet!Execute, Mainnet!Call, SetsUp
  <2> HIDE DEF S
  <2>3. StepCount(i) = 1
    BY <1>9 DEF StepCount
  <2>4. MainnetIds[i] = "gateway_whitelist_usdc"
    BY <1>9 DEF MainnetIds
  <2> QED
    BY <1>9, <2>1, <2>2, <2>3, <2>4 DEF S, AsListed, MainnetStep
<1>10. CASE i = 10
  <2>1. S.id = "gateway_rate_limit_usdc" /\ S.migrates = TRUE /\ S.skip = FALSE /\ Len(S.steps) = 1
    BY <1>10 DEF Mainnet!Scripts, Mainnet!gateway_rate_limit_usdc, Mainnet!Script,
        Mainnet!Execute, Mainnet!Call
  <2>2. SetsUp(i, 1, S.steps[1])
    BY <1>10 DEF Mainnet!Scripts, Mainnet!gateway_rate_limit_usdc, Mainnet!Script,
        Mainnet!Execute, Mainnet!Call, SetsUp
  <2> HIDE DEF S
  <2>3. StepCount(i) = 1
    BY <1>10 DEF StepCount
  <2>4. MainnetIds[i] = "gateway_rate_limit_usdc"
    BY <1>10 DEF MainnetIds
  <2> QED
    BY <1>10, <2>1, <2>2, <2>3, <2>4 DEF S, AsListed, MainnetStep
<1>11. CASE i = 11
  <2>1. S.id = "set_asset_issuer" /\ S.migrates = TRUE /\ S.skip = FALSE /\ Len(S.steps) = 2
    BY <1>11 DEF Mainnet!Scripts, Mainnet!set_asset_issuer, Mainnet!Script,
        Mainnet!SetIssuer, Mainnet!Execute, Mainnet!Call, Mainnet!SaveL2Bridge
  <2>2. SetsUp(i, 1, S.steps[1])
    BY <1>11 DEF Mainnet!Scripts, Mainnet!set_asset_issuer, Mainnet!Script,
        Mainnet!SetIssuer, Mainnet!Execute, Mainnet!Call, Mainnet!SaveL2Bridge, SetsUp
  <2>3. SavesBridge(i, 2, S.steps[2])
    BY <1>11 DEF Mainnet!Scripts, Mainnet!set_asset_issuer, Mainnet!Script,
        Mainnet!SetIssuer, Mainnet!Execute, Mainnet!Call, Mainnet!SaveL2Bridge, SavesBridge
  <2> HIDE DEF S
  <2>4. StepCount(i) = 2
    BY <1>11 DEF StepCount
  <2>5. MainnetIds[i] = "set_asset_issuer"
    BY <1>11 DEF MainnetIds
  <2> QED
    BY <1>11, <2>1, <2>2, <2>3, <2>4, <2>5 DEF S, AsListed, MainnetStep
<1>12. CASE i = 12
  <2>1. S.id = "portal_ownership" /\ S.migrates = TRUE /\ S.skip = FALSE /\ Len(S.steps) = 3
    BY <1>12 DEF Mainnet!Scripts, Mainnet!portal_ownership, Mainnet!Script,
        Mainnet!Execute, Mainnet!GrantRole
  <2>2. HandsOver(i, 1, S.steps[1])
    BY <1>12 DEF Mainnet!Scripts, Mainnet!portal_ownership, Mainnet!Script,
        Mainnet!Execute, Mainnet!GrantRole, HandsOver, HandOver, GrantRole
  <2>3. HandsOver(i, 2, S.steps[2])
    BY <1>12 DEF Mainnet!Scripts, Mainnet!portal_ownership, Mainnet!Script,
        Mainnet!Execute, Mainnet!GrantRole, HandsOver, HandOver, GrantRole
  <2>4. HandsOver(i, 3, S.steps[3])
    BY <1>12 DEF Mainnet!Scripts, Mainnet!portal_ownership, Mainnet!Script,
        Mainnet!Execute, Mainnet!GrantRole, HandsOver, HandOver, GrantRole
  <2> HIDE DEF S
  <2>5. StepCount(i) = 3
    BY <1>12 DEF StepCount
  <2>6. MainnetIds[i] = "portal_ownership"
    BY <1>12 DEF MainnetIds
  <2> QED
    BY <1>12, <2>1, <2>2, <2>3, <2>4, <2>5, <2>6 DEF S, AsListed, MainnetStep
<1>13. CASE i = 13
  <2>1. S.id = "state_ownership" /\ S.migrates = TRUE /\ S.skip = FALSE /\ Len(S.steps) = 2
    BY <1>13 DEF Mainnet!Scripts, Mainnet!state_ownership, Mainnet!Script,
        Mainnet!Execute, Mainnet!GrantRole
  <2>2. HandsOver(i, 1, S.steps[1])
    BY <1>13 DEF Mainnet!Scripts, Mainnet!state_ownership, Mainnet!Script,
        Mainnet!Execute, Mainnet!GrantRole, HandsOver, HandOver, GrantRole
  <2>3. HandsOver(i, 2, S.steps[2])
    BY <1>13 DEF Mainnet!Scripts, Mainnet!state_ownership, Mainnet!Script,
        Mainnet!Execute, Mainnet!GrantRole, HandsOver, HandOver, GrantRole
  <2> HIDE DEF S
  <2>4. StepCount(i) = 2
    BY <1>13 DEF StepCount
  <2>5. MainnetIds[i] = "state_ownership"
    BY <1>13 DEF MainnetIds
  <2> QED
    BY <1>13, <2>1, <2>2, <2>3, <2>4, <2>5 DEF S, AsListed, MainnetStep
<1>14. CASE i = 14
  <2>1. S.id = "gateway_ownership" /\ S.migrates = TRUE /\ S.skip = FALSE /\ Len(S.steps) = 3
    BY <1>14 DEF Mainnet!Scripts, Mainnet!gateway_ownership, Mainnet!Script,
        Mainnet!Execute, Mainnet!GrantRole
  <2>2. HandsOver(i, 1, S.steps[1])
    BY <1>14 DEF Mainnet!Scripts, Mainnet!gateway_ownership, Mainnet!Script,
        Mainnet!Execute, Mainnet!GrantRole, HandsOver, HandOver, GrantRole
  <2>3. HandsOver(i, 2, S.steps[2])
    BY <1>14 DEF Mainnet!Scripts, Mainnet!gateway_ownership, Mainnet!Script,
        Mainnet!Execute, Mainnet!GrantRole, HandsOver, HandOver, GrantRole
  <2>4. HandsOver(i, 3, S.steps[3])
    BY <1>14 DEF Mainnet!Scripts, Mainnet!gateway_ownership, Mainnet!Script,
        Mainnet!Execute, Mainnet!GrantRole, HandsOver, HandOver, GrantRole
  <2> HIDE DEF S
  <2>5. StepCount(i) = 3
    BY <1>14 DEF StepCount
  <2>6. MainnetIds[i] = "gateway_ownership"
    BY <1>14 DEF MainnetIds
  <2> QED
    BY <1>14, <2>1, <2>2, <2>3, <2>4, <2>5, <2>6 DEF S, AsListed, MainnetStep
<1>15. CASE i = 15
  <2>1. S.id = "relinquish_ownership" /\ S.migrates = TRUE /\ S.skip = TRUE /\ Len(S.steps) = 6
    BY <1>15 DEF Mainnet!Scripts, Mainnet!relinquish_ownership, Mainnet!SkippedScript,
        Mainnet!Execute, Mainnet!RenounceRole
  <2>2. Renounces(i, 1, S.steps[1])
    BY <1>15 DEF Mainnet!Scripts, Mainnet!relinquish_ownership, Mainnet!SkippedScript,
        Mainnet!Execute, Mainnet!RenounceRole, Renounces, GivenUp, RenounceRole
  <2>3. Renounces(i, 2, S.steps[2])
    BY <1>15 DEF Mainnet!Scripts, Mainnet!relinquish_ownership, Mainnet!SkippedScript,
        Mainnet!Execute, Mainnet!RenounceRole, Renounces, GivenUp, RenounceRole
  <2>4. Renounces(i, 3, S.steps[3])
    BY <1>15 DEF Mainnet!Scripts, Mainnet!relinquish_ownership, Mainnet!SkippedScript,
        Mainnet!Execute, Mainnet!RenounceRole, Renounces, GivenUp, RenounceRole
  <2>5. Renounces(i, 4, S.steps[4])
    BY <1>15 DEF Mainnet!Scripts, Mainnet!relinquish_ownership, Mainnet!SkippedScript,
        Mainnet!Execute, Mainnet!RenounceRole, Renounces, GivenUp, RenounceRole
  <2>6. Renounces(i, 5, S.steps[5])
    BY <1>15 DEF Mainnet!Scripts, Mainnet!relinquish_ownership, Mainnet!SkippedScript,
        Mainnet!Execute, Mainnet!RenounceRole, Renounces, GivenUp, RenounceRole
  <2>7. Renounces(i, 6, S.steps[6])
    BY <1>15 DEF Mainnet!Scripts, Mainnet!relinquish_ownership, Mainnet!SkippedScript,
        Mainnet!Execute, Mainnet!RenounceRole, Renounces, GivenUp, RenounceRole
  <2> HIDE DEF S
  <2>8. StepCount(i) = 6
    BY <1>15 DEF StepCount
  <2>9. MainnetIds[i] = "relinquish_ownership"
    BY <1>15 DEF MainnetIds
  <2> QED
    BY <1>15, <2>1, <2>2, <2>3, <2>4, <2>5, <2>6, <2>7, <2>8, <2>9 DEF S, AsListed,
        MainnetStep
<1>16. CASE i = 16
  <2>1. S.id = "upgrade_gateway" /\ S.migrates = TRUE /\ S.skip = FALSE /\ Len(S.steps) = 2
    BY <1>16 DEF Mainnet!Scripts, Mainnet!upgrade_gateway, Mainnet!Script,
        Mainnet!PrepareUpgrade, Mainnet!SavePrepared
  <2>2. Prepares(i, 1, S.steps[1])
    BY <1>16 DEF Mainnet!Scripts, Mainnet!upgrade_gateway, Mainnet!Script,
        Mainnet!PrepareUpgrade, Mainnet!SavePrepared, Prepares, PreparedIn
  <2>3. SavesPrepared(i, 2, S.steps[2])
    BY <1>16 DEF Mainnet!Scripts, Mainnet!upgrade_gateway, Mainnet!Script,
        Mainnet!PrepareUpgrade, Mainnet!SavePrepared, SavesPrepared, PreparedIn
  <2> HIDE DEF S
  <2>4. StepCount(i) = 2
    BY <1>16 DEF StepCount
  <2>5. MainnetIds[i] = "upgrade_gateway"
    BY <1>16 DEF MainnetIds
  <2> QED
    BY <1>16, <2>1, <2>2, <2>3, <2>4, <2>5 DEF S, AsListed, MainnetStep
<1>17. CASE i = 17
  <2>1. S.id = "upgrade_portal" /\ S.migrates = TRUE /\ S.skip = FALSE /\ Len(S.steps) = 2
    BY <1>17 DEF Mainnet!Scripts, Mainnet!upgrade_portal, Mainnet!Script,
        Mainnet!PrepareUpgrade, Mainnet!SavePrepared
  <2>2. Prepares(i, 1, S.steps[1])
    BY <1>17 DEF Mainnet!Scripts, Mainnet!upgrade_portal, Mainnet!Script,
        Mainnet!PrepareUpgrade, Mainnet!SavePrepared, Prepares, PreparedIn
  <2>3. SavesPrepared(i, 2, S.steps[2])
    BY <1>17 DEF Mainnet!Scripts, Mainnet!upgrade_portal, Mainnet!Script,
        Mainnet!PrepareUpgrade, Mainnet!SavePrepared, SavesPrepared, PreparedIn
  <2> HIDE DEF S
  <2>4. StepCount(i) = 2
    BY <1>17 DEF StepCount
  <2>5. MainnetIds[i] = "upgrade_portal"
    BY <1>17 DEF MainnetIds
  <2> QED
    BY <1>17, <2>1, <2>2, <2>3, <2>4, <2>5 DEF S, AsListed, MainnetStep
<1>18. CASE i = 18
  <2>1. S.id = "rate_limit_proposal" /\ S.migrates = TRUE /\ S.skip = FALSE /\ Len(S.steps) = 1
    BY <1>18 DEF Mainnet!Scripts, Mainnet!rate_limit_proposal, Mainnet!Script,
        Mainnet!Propose, Mainnet!Call
  <2>2. Proposes(i, 1, S.steps[1])
    BY <1>18 DEF Mainnet!Scripts, Mainnet!rate_limit_proposal, Mainnet!Script,
        Mainnet!Propose, Mainnet!Call, Proposes, Proposable, Proxies, Call, GrantRole
  <2> HIDE DEF S
  <2>3. StepCount(i) = 1
    BY <1>18 DEF StepCount
  <2>4. MainnetIds[i] = "rate_limit_proposal"
    BY <1>18 DEF MainnetIds
  <2> QED
    BY <1>18, <2>1, <2>2, <2>3, <2>4 DEF S, AsListed, MainnetStep
<1>19. CASE i = 19
  <2>1. S.id = "pausers_proposal" /\ S.migrates = TRUE /\ S.skip = FALSE /\ Len(S.steps) = 1
    BY <1>19 DEF Mainnet!Scripts, Mainnet!pausers_proposal, Mainnet!Script,
        Mainnet!Propose, Mainnet!GrantRole
  <2>2. Proposes(i, 1, S.steps[1])
    BY <1>19 DEF Mainnet!Scripts, Mainnet!pausers_proposal, Mainnet!Script,
        Mainnet!Propose, Mainnet!GrantRole, Proposes, Proposable, Proxies, Call, GrantRole
  <2> HIDE DEF S
  <2>3. StepCount(i) = 1
    BY <1>19 DEF StepCount
  <2>4. MainnetIds[i] = "pausers_proposal"
    BY <1>19 DEF MainnetIds
  <2> QED
    BY <1>19, <2>1, <2>2, <2>3, <2>4 DEF S, AsListed, MainnetStep
<1>20. CASE i = 20
  <2>1. S.id = "20_upgrade_portal" /\ S.migrates = TRUE /\ S.skip = FALSE /\ Len(S.steps) = 2
    BY <1>20 DEF Mainnet!Scripts, Mainnet!second_upgrade_portal, Mainnet!Script,
        Mainnet!PrepareUpgrade, Mainnet!SavePrepared
  <2>2. Prepares(i, 1, S.steps[1])
    BY <1>20 DEF Mainnet!Scripts, Mainnet!second_upgrade_portal, Mainnet!Script,
        Mainnet!PrepareUpgrade, Mainnet!SavePrepared, Prepares, PreparedIn
  <2>3. SavesPrepared(i, 2, S.steps[2])
    BY <1>20 DEF Mainnet!Scripts, Mainnet!second_upgrade_portal, Mainnet!Script,
        Mainnet!PrepareUpgrade, Mainnet!SavePrepared, SavesPrepared, PreparedIn
  <2> HIDE DEF S
  <2>4. StepCount(i) = 2
    BY <1>20 DEF StepCount
  <2>5. MainnetIds[i] = "20_upgrade_portal"
    BY <1>20 DEF MainnetIds
  <2> QED
    BY <1>20, <2>1, <2>2, <2>3, <2>4, <2>5 DEF S, AsListed, MainnetStep
<1>21. CASE i = 21
  <2>1. S.id = "21_deposit_caps_removal" /\ S.migrates = TRUE /\ S.skip = FALSE /\ Len(S.steps) = 1
    BY <1>21 DEF Mainnet!Scripts, Mainnet!deposit_caps_removal, Mainnet!Script,
        Mainnet!ProposeUpgrade
  <2>2. ProposesUpgrade(i, 1, S.steps[1])
    BY <1>21 DEF Mainnet!Scripts, Mainnet!deposit_caps_removal, Mainnet!Script,
        Mainnet!ProposeUpgrade, ProposesUpgrade
  <2> HIDE DEF S
  <2>3. StepCount(i) = 1
    BY <1>21 DEF StepCount
  <2>4. MainnetIds[i] = "21_deposit_caps_removal"
    BY <1>21 DEF MainnetIds
  <2> QED
    BY <1>21, <2>1, <2>2, <2>3, <2>4 DEF S, AsListed, MainnetStep
<1> QED
  BY <1>1, <1>2, <1>3, <1>4, <1>5, <1>6, <1>7, <1>8, <1>9, <1>10, <1>11, <1>12, <1>13,
        <1>14, <1>15, <1>16, <1>17, <1>18, <1>19, <1>20, <1>21

LEMMA IdsDiffer ==
    ASSUME NEW i \in 1 .. 21, NEW j \in 1 .. 21, MainnetIds[i] = MainnetIds[j]
    PROVE  i = j
BY DEF MainnetIds

LEMMA MainnetLength == Len(Mainnet!Scripts) = 21
BY DEF Mainnet!Scripts

------------------------------------------------------------------------------
(* The script that runs *)

LEMMA InitJob == TaskInit => JobInv
BY IdleJob DEF TaskInit, Init, JobInv

LEMMA NextJob ==
    ASSUME BaseInv, CallInv, JobInv, [TaskNext]_allVars
    PROVE  JobInv' /\ Scripts' = Scripts
<1>0. job.at \in Nat /\ job.pc \in Nat /\ job.reached \in Nat
  BY DEF BaseInv
<1>1. network' = network => Scripts' = Scripts
  BY DEF Scripts
<1>2. CASE UNCHANGED vars
  BY <1>1, <1>2 DEF JobInv, vars
<1>3. CASE Start
  <2>1. job'.reached = 1 /\ job'.pc = 0 /\ network' = network
    BY <1>3, IdleJob DEF Start
  <2> QED
    BY <1>1, <2>1 DEF JobInv
<1>4. CASE NextScript
  <2>1. network' = network
    BY <1>4 DEF NextScript
  <2>2. job # Idle
    BY <1>4 DEF NextScript, Running
  <2>3. CASE job' = Idle
    BY <1>1, <2>1, <2>3, IdleJob DEF JobInv
  <2>4. CASE job' # Idle
    <3>1. job'.at \in job.reached .. Len(Scripts) /\ job'.reached = job'.at
      BY <1>4, <2>4, NextEffect
    <3> QED
      BY <1>0, <1>1, <2>1, <2>2, <3>1 DEF JobInv
  <2> QED
    BY <2>3, <2>4
<1>5. CASE ScriptReturns
  <2>1. job'.reached = job.at + 1 /\ job'.pc = 0 /\ network' = network
    BY <1>5, IdleJob DEF ScriptReturns
  <2> QED
    BY <1>0, <1>1, <2>1 DEF JobInv
<1>6. CASE Step
  <2>1. job.pc > 0 /\ job # Idle
    BY <1>6, IdleJob DEF Step, InScript
  <2>2. CASE Throw
    BY <1>1, <2>2, IdleJob DEF Throw, JobInv
  <2>3. CASE Advances
    BY <1>0, <1>1, <2>1, <2>3 DEF Advances, JobInv
  <2> QED
    BY <1>6, <2>2, <2>3, StepEffect
<1>7. CASE Mined
  BY <1>1, <1>7 DEF Mined, JobInv
<1>8. CASE Crash
  BY <1>1, <1>8, IdleJob DEF Crash, JobInv
<1>9. ASSUME NEW id, EnterMigration(id)
      PROVE  JobInv' /\ Scripts' = Scripts
  BY <1>1, <1>9 DEF EnterMigration, JobInv
<1>10. CASE Called
  BY <1>1, <1>10 DEF Called, JobInv
<1> QED
  BY <1>2, <1>3, <1>4, <1>5, <1>6, <1>7, <1>8, <1>9, <1>10, NextKinds

------------------------------------------------------------------------------
(* The other networks: the deployer stays the administrator of all it deploys,  *)
(* and the multisig of what a fork starts from.                                 *)

LEMMA OtherScripts ==
    ASSUME BaseInv, network.name # "mainnet", NEW i \in 1 .. Len(Scripts)
    PROVE  Plain(i, Scripts[i], Replaces, Savers)
<1>1. network.name \in {"testnet", "devnet", "hardhat", "fork", "upgradeTest"}
  BY DEF BaseInv, AllNetworks, ScriptsOf
<1>2. CASE network.name = "testnet"
  <2>1. Scripts = Testnet!Scripts /\ Replaces = 11 /\ Savers = TestnetSavers
    BY <1>2 DEF Scripts, ScriptsOf, Replaces, Savers
  <2> QED
    BY <2>1, TestnetScripts
<1>3. CASE network.name = "devnet"
  <2>1. Scripts = Devnet!Scripts /\ Replaces = 13 /\ Savers = DevnetSavers
    BY <1>3 DEF Scripts, ScriptsOf, Replaces, Savers
  <2> QED
    BY <2>1, DevnetScripts
<1>4. CASE network.name = "hardhat"
  <2>1. Scripts = Hardhat!Scripts /\ Replaces = 0 /\ Savers = HardhatSavers
    BY <1>4 DEF Scripts, ScriptsOf, Replaces, Savers
  <2> QED
    BY <2>1, HardhatScripts
<1>5. CASE network.name = "fork"
  <2>1. Scripts = Fork!Scripts /\ Replaces = 0 /\ Savers = ForkSavers
    BY <1>5 DEF Scripts, ScriptsOf, Replaces, Savers
  <2> QED
    BY <2>1, ForkScripts
<1>6. CASE network.name = "upgradeTest"
  <2>1. Scripts = UpgradeTest!Scripts /\ Replaces = 0 /\ Savers = UpgradeTestSavers
    BY <1>6 DEF Scripts, ScriptsOf, Replaces, Savers
  <2> QED
    BY <2>1, UpgradeTestScripts
<1> QED
  BY <1>1, <1>2, <1>3, <1>4, <1>5, <1>6

LEMMA InitOthers == TaskInit => OthersInv
<1> SUFFICES ASSUME TaskInit, network.name # "mainnet"
             PROVE  OthersInv
  BY DEF OthersInv
<1>1. /\ chain.contracts = IF network.name = "fork" THEN ForkedContracts ELSE <<>>
      /\ safe.open = {} /\ files.migrations = {} /\ seen.refused = {}
  BY DEF TaskInit, Init
<1>2. ASSUME network.name = "fork", NEW a \in DOMAIN ForkedContracts
      PROVE  Administered(ForkedContracts[a])
  <2>1. \A c, l : <<"DEFAULT_ADMIN_ROLE", "multisig">> \in MainnetContract(c, l).roles
    BY DEF MainnetContract, NewContract
  <2> QED
    BY <1>2, <2>1 DEF ForkedContracts, Administered
<1> QED
  BY <1>1, <1>2 DEF OthersInv

\* What a step that advances makes of a contract.
LEMMA StepContract ==
    ASSUME BaseInv, Advances, NEW a \in DOMAIN chain'.contracts
    PROVE  \/ /\ a \in DOMAIN chain.contracts
              /\ Reimplemented(chain.contracts[a], chain'.contracts[a])
           \/ /\ a \in DOMAIN chain.contracts
              /\ \E sender, call :
                    /\ step.op = "execute" => sender = step.sender /\ call = step.call
                    /\ step.op # "execute" => call.fn # "renounceRole"
                    /\ Allowed(Settled[a], sender, call)
                    /\ chain'.contracts[a] = After(Settled[a], sender, call)
           \/ /\ a = Len(chain.contracts) + 1
              /\ step.op = "deployProxy"
              /\ \E implementation, linked : chain'.contracts[a] =
                    NewContract(step.contract, step.initializer, implementation, linked)
<1>0. /\ IsSequence(Settled) /\ Len(Settled) = Len(chain.contracts)
      /\ DOMAIN Settled = DOMAIN chain.contracts
      /\ \A b \in DOMAIN Settled : Reimplemented(chain.contracts[b], Settled[b])
  BY SettledContracts
<1>1. CASE chain'.contracts = chain.contracts
  BY <1>1 DEF Reimplemented
<1>2. CASE chain'.contracts = Settled
  BY <1>0, <1>2
<1>3. CASE /\ step.op = "deployProxy"
           /\ \E implementation, linked : chain'.contracts = Append(Settled,
                NewContract(step.contract, step.initializer, implementation, linked))
  <2>1. PICK implementation, linked : chain'.contracts = Append(Settled,
              NewContract(step.contract, step.initializer, implementation, linked))
    BY <1>3
  <2> DEFINE new == NewContract(step.contract, step.initializer, implementation, linked)
  <2>2. chain'.contracts = Append(Settled, new)
    BY <2>1
  <2> HIDE DEF new
  <2>3. /\ DOMAIN chain'.contracts = 1 .. Len(Settled) + 1
        /\ \A b \in DOMAIN Settled : chain'.contracts[b] = Settled[b]
        /\ chain'.contracts[Len(Settled) + 1] = new
    BY <1>0, <2>2, AppendSequence
  <2>4. a \in DOMAIN Settled \/ a = Len(Settled) + 1
    BY <1>0, <2>3 DEF IsSequence
  <2> QED
    BY <1>0, <1>3, <2>3, <2>4 DEF new
<1>4. CASE \E b \in 0 .. Len(chain.contracts) : \E sender, call : CallsStep(b, sender, call)
  <2>1. PICK b, sender, call : CallsStep(b, sender, call)
    BY <1>4
  <2>2. /\ step.op = "execute" => sender = step.sender /\ call = step.call
        /\ step.op # "execute" => call.fn # "renounceRole"
        /\ Allowed(Settled[b], sender, call)
        /\ chain'.contracts = [Settled EXCEPT ![b] = After(Settled[b], sender, call)]
    BY <2>1 DEF CallsStep
  <2>3. a \in DOMAIN Settled
    BY <2>2
  <2>4. CASE a = b
    BY <1>0, <2>2, <2>3, <2>4
  <2>5. CASE a # b
    BY <1>0, <2>2, <2>3, <2>5
  <2> QED
    BY <2>4, <2>5
<1>5. ContractsStep
  BY DEF Advances
<1> QED
  BY <1>1, <1>2, <1>3, <1>4, <1>5 DEF ContractsStep

LEMMA ReimplementedFields ==
    ASSUME NEW c, DOMAIN c = ContractFields, NEW d, Reimplemented(c, d)
    PROVE  /\ DOMAIN d = ContractFields
           /\ d.roles = c.roles /\ d.granted = c.granted /\ d.contract = c.contract
           /\ d.paused = c.paused /\ d.linked = c.linked
BY DEF Reimplemented, ContractFields

\* Unless the step is of relinquish_ownership, nobody loses the administrator's
\* role, and who deploys has it.
LEMMA StepAdministered ==
    ASSUME BaseInv, Advances, step.op = "execute" => step.call.fn # "renounceRole",
           \A a \in DOMAIN chain.contracts : Administered(chain.contracts[a])
    PROVE  \A a \in DOMAIN chain'.contracts : Administered(chain'.contracts[a])
<1> SUFFICES ASSUME NEW a \in DOMAIN chain'.contracts
             PROVE  Administered(chain'.contracts[a])
  OBVIOUS
<1>1. a \in DOMAIN chain.contracts =>
        /\ DOMAIN chain.contracts[a] = ContractFields
        /\ DOMAIN Settled[a] = ContractFields
        /\ Settled[a].roles = chain.contracts[a].roles
  BY SettledContracts, ReimplementedFields DEF BaseInv
<1>2. CASE /\ a \in DOMAIN chain.contracts
           /\ Reimplemented(chain.contracts[a], chain'.contracts[a])
  BY <1>1, <1>2, ReimplementedFields DEF Administered
<1>3. CASE /\ a \in DOMAIN chain.contracts
           /\ \E sender, call :
                /\ step.op = "execute" => sender = step.sender /\ call = step.call
                /\ step.op # "execute" => call.fn # "renounceRole"
                /\ Allowed(Settled[a], sender, call)
                /\ chain'.contracts[a] = After(Settled[a], sender, call)
  <2>1. PICK sender, call :
              /\ step.op = "execute" => sender = step.sender /\ call = step.call
              /\ step.op # "execute" => call.fn # "renounceRole"
              /\ chain'.contracts[a] = After(Settled[a], sender, call)
    BY <1>3
  <2>2. call.fn # "renounceRole"
    BY <2>1
  <2>3. Grown(Settled[a], chain'.contracts[a])
    BY <1>1, <1>3, <2>1, <2>2, AfterGrows
  <2> QED
    BY <1>1, <1>3, <2>3 DEF Grown, Administered
<1>4. CASE \E implementation, linked : chain'.contracts[a] =
                NewContract(step.contract, step.initializer, implementation, linked)
  BY <1>4, NewFields DEF Administered
<1> QED
  BY <1>2, <1>3, <1>4, StepContract

LEMMA CalledAdministered ==
    ASSUME BaseInv, Called, safe.open = {},
           \A a \in DOMAIN chain.contracts : Administered(chain.contracts[a])
    PROVE  \A a \in DOMAIN chain'.contracts : Administered(chain'.contracts[a])
<1> SUFFICES ASSUME NEW a \in DOMAIN chain'.contracts
             PROVE  Administered(chain'.contracts[a])
  OBVIOUS
<1>1. a \in DOMAIN chain.contracts
  BY DEF Called, BaseInv, IsSequence
<1>2. CASE chain'.contracts[a] = chain.contracts[a]
  BY <1>1, <1>2
<1>3. ASSUME NEW sender, NEW call, call \in TaskCalls \union OwnersCalls(a),
             chain'.contracts[a] = After(chain.contracts[a], sender, call)
      PROVE  Administered(chain'.contracts[a])
  <2>1. call.fn # "renounceRole"
    BY <1>3 DEF TaskCalls, OwnersCalls, GrantRole, Call, UpgradeTo
  <2>2. Grown(chain.contracts[a], chain'.contracts[a])
    BY <1>1, <1>3, <2>1, AfterGrows DEF BaseInv
  <2> QED
    BY <1>1, <2>2 DEF Grown, Administered
<1> QED
  BY <1>1, <1>2, <1>3 DEF Called

LEMMA NetworkStays ==
    ASSUME BaseInv, CallInv, [TaskNext]_allVars
    PROVE  network' = network
<1>1. Step => network' = network
  BY StepEffect DEF Throw, Advances
<1> QED
  BY <1>1, NextKinds DEF vars, Start, NextScript, ScriptReturns, Mined, Crash, EnterMigration,
      Called

LEMMA NextOthers ==
    ASSUME BaseInv, CallInv, JobInv, OthersInv, [TaskNext]_allVars
    PROVE  OthersInv'
<1> DEFINE Others ==
        /\ \A a \in DOMAIN chain'.contracts : Administered(chain'.contracts[a])
        /\ safe'.open = {}
        /\ HandOverIds \intersect (files'.migrations \union seen'.refused) = {}
<1> SUFFICES ASSUME network.name # "mainnet"
             PROVE  Others
  BY NetworkStays DEF OthersInv, Administered
<1>1. /\ \A a \in DOMAIN chain.contracts : Administered(chain.contracts[a])
      /\ safe.open = {}
      /\ HandOverIds \intersect (files.migrations \union seen.refused) = {}
  BY DEF OthersInv
<1>2. job.pc > 0 => Plain(job.at, script, Replaces, Savers)
  BY OtherScripts DEF JobInv, script
<1>3. CASE UNCHANGED vars
  BY <1>1, <1>3 DEF vars
<1>4. CASE Start
  <2>1. UNCHANGED <<chain, files, safe>> /\ seen'.refused = seen.refused
    BY <1>4 DEF Start, BaseInv
  <2> QED
    BY <1>1, <2>1
<1>5. CASE NextScript
  BY <1>1, <1>5, NextEffect
<1>6. CASE ScriptReturns
  <2>1. script.id \notin HandOverIds
    BY <1>2, <1>6 DEF ScriptReturns, InScript, Plain, HandOverIds
  <2>2. files'.migrations \subseteq files.migrations \union {script.id}
        /\ UNCHANGED <<chain, safe, seen>>
    BY <1>6 DEF ScriptReturns, BaseInv
  <2> QED
    BY <1>1, <2>1, <2>2
<1>7. CASE Step
  <2>1. script.id \notin HandOverIds /\ PlainStep(job.at, step, Replaces, Savers)
    <3>1. job.pc \in 1 .. Len(script.steps) /\ Plain(job.at, script, Replaces, Savers)
      BY <1>2, <1>7 DEF Step, InScript, BaseInv, Plain
    <3> QED
      BY <3>1 DEF Plain, HandOverIds, step
  <2>2. CASE Throw
    <3>1. seen'.refused = seen.refused \union {script.id} /\ UNCHANGED <<chain, files, safe>>
      BY <2>2 DEF Throw, BaseInv
    <3> QED
      BY <1>1, <2>1, <3>1
  <2>3. CASE Advances
    <3>1. \A a \in DOMAIN chain'.contracts : Administered(chain'.contracts[a])
      BY <1>1, <2>1, <2>3, StepAdministered DEF PlainStep
    <3>2. safe' = safe /\ files'.migrations = files.migrations /\ seen' = seen
      BY <2>1, <2>3 DEF Advances, PlainStep
    <3> QED
      BY <1>1, <3>1, <3>2
  <2> QED
    BY <1>7, <2>2, <2>3, StepEffect
<1>8. CASE Mined
  <2>1. chain'.contracts = Settled /\ UNCHANGED <<files, safe, seen>>
    BY <1>8 DEF Mined, BaseInv
  <2>2. \A a \in DOMAIN Settled : Settled[a].roles = chain.contracts[a].roles
    BY SettledContracts, ReimplementedFields DEF BaseInv
  <2> QED
    BY <1>1, <2>1, <2>2, SettledContracts DEF Administered
<1>9. CASE Crash
  <2>1. UNCHANGED <<chain, files, safe>> /\ seen'.refused = seen.refused
    BY <1>9 DEF Crash, BaseInv
  <2> QED
    BY <1>1, <2>1
<1>10. ASSUME NEW id \in seen.refused, EnterMigration(id)
       PROVE  Others
  <2>1. /\ files'.migrations = files.migrations \union {id}
        /\ seen'.refused = seen.refused /\ UNCHANGED <<chain, safe>>
    BY <1>10 DEF EnterMigration, BaseInv
  <2> QED
    BY <1>1, <1>10, <2>1
<1>11. CASE Called
  <2>1. \A a \in DOMAIN chain'.contracts : Administered(chain'.contracts[a])
    BY <1>1, <1>11, CalledAdministered
  <2>2. safe'.open = {} /\ UNCHANGED <<files, seen>>
    BY <1>1, <1>11 DEF Called
  <2> QED
    BY <1>1, <2>1, <2>2
<1> QED
  BY <1>3, <1>4, <1>5, <1>6, <1>7, <1>8, <1>9, <1>10, <1>11, NextKinds

LEMMA OthersGoverned ==
    ASSUME BaseInv, OthersInv, network.name # "mainnet"
    PROVE  Governed
<1>1. "relinquish_ownership" \notin files.migrations
  BY DEF OthersInv, HandOverIds
<1>2. ASSUME NEW n \in Contracts
      PROVE  Holders(Contract(n), "DEFAULT_ADMIN_ROLE") # {}
  <2>1. Address(n) \in DOMAIN chain.contracts
    BY DEF Contracts, BaseInv, IsSequence
  <2>2. Administered(Contract(n))
    BY <2>1 DEF OthersInv, Contract
  <2>3. {"deployer", "multisig"} \subseteq Accounts
    BY DEF Accounts
  <2> QED
    BY <2>2, <2>3 DEF Administered, Holders
<1> QED
  BY <1>1, <1>2 DEF Governed

------------------------------------------------------------------------------
(* Mainnet: the order *)

LEMMA TheMainnet ==
    ASSUME network.name = "mainnet"
    PROVE  Scripts = Mainnet!Scripts /\ Len(Scripts) = 21
BY MainnetLength DEF Scripts, ScriptsOf

\* The script that runs, and its step, are those listed.
LEMMA TheScript ==
    ASSUME BaseInv, JobInv, network.name = "mainnet", job.pc > 0
    PROVE  job.at \in 1 .. 21 /\ AsListed(job.at, script)
BY TheMainnet, MainnetScripts DEF JobInv, script

LEMMA TheStep ==
    ASSUME BaseInv, JobInv, network.name = "mainnet", Step
    PROVE  /\ job.at \in 1 .. 21 /\ job.pc \in 1 .. StepCount(job.at)
           /\ MainnetStep(job.at, job.pc, step)
<1>1. job.pc > 0 /\ job.pc <= Len(script.steps) /\ job.pc \in Nat
  BY DEF Step, InScript, BaseInv
<1>2. job.at \in 1 .. 21 /\ AsListed(job.at, script)
  BY <1>1, TheScript
<1>3. Len(script.steps) = StepCount(job.at)
  BY <1>2 DEF AsListed
<1>4. StepCount(job.at) \in Nat
  BY <1>2 DEF StepCount
<1>5. job.pc \in 1 .. StepCount(job.at)
  BY <1>1, <1>3, <1>4
<1> QED
  BY <1>2, <1>5 DEF AsListed, step

LEMMA InitOrder == TaskInit /\ network.name = "mainnet" => OrderInv
BY IdleJob DEF TaskInit, Init, OrderInv, Over

LEMMA NextOrder ==
    ASSUME BaseInv, CallInv, JobInv, OrderInv, network.name = "mainnet", [TaskNext]_allVars,
           Step => ~Throw
    PROVE  OrderInv'
<1>0. /\ job.at \in Nat /\ job.pc \in Nat /\ job.reached \in Nat
      /\ network' = network
  BY NetworkStays DEF BaseInv
<1>1. ASSUME files'.migrations = files.migrations
      PROVE  \A i : Over(i)' <=> Over(i)
  BY <1>1 DEF Over
<1>2. \A i : Due(i)' <=> Due(i)
  BY <1>0 DEF Due
<1>3. CASE UNCHANGED vars
  BY <1>2, <1>3 DEF OrderInv, vars, Over
<1>4. CASE Start
  <2>1. /\ job'.reached = 1 /\ job'.pc = 0 /\ job'.at = 0
        /\ UNCHANGED files /\ seen'.refused = seen.refused
    BY <1>4, IdleJob DEF Start, BaseInv
  <2> QED
    BY <1>2, <2>1 DEF OrderInv, Over
<1>5. CASE NextScript
  <2>0. files' = files /\ seen'.refused = seen.refused /\ job.pc = 0
    BY <1>0, <1>5, NextEffect
  <2>1. CASE job' = Idle
    BY <1>2, <2>0, <2>1, IdleJob DEF OrderInv, Over
  <2>2. CASE job' # Idle
    <3>1. /\ job'.at \in job.reached .. 21 /\ ToRun(job'.at)
          /\ job'.pc = 1 /\ job'.reached = job'.at
          /\ \A j \in job.reached .. job'.at - 1 : ~ToRun(j)
      BY <1>5, <2>2, NextEffect, TheMainnet
    <3>2. job.reached > 0
      BY <1>5 DEF NextScript, Running, JobInv
    <3>3. ASSUME NEW i \in 1 .. 21
          PROVE  ToRun(i) <=> ~Over(i) /\ Due(i)
      <4>1. AsListed(i, Scripts[i])
        BY TheMainnet, MainnetScripts
      <4> QED
        BY <4>1 DEF AsListed, ToRun, Over, Due
    <3>4. ASSUME NEW i \in 1 .. 21, i < job'.at, Due(i)
          PROVE  Over(i)
      <4>1. CASE i < job.reached
        BY <3>4, <4>1 DEF OrderInv
      <4>2. CASE i \in job.reached .. job'.at - 1
        BY <3>1, <3>3, <3>4, <4>2
      <4> QED
        BY <1>0, <3>1, <3>4, <4>1, <4>2
    <3>5. job'.at \in 1 .. 21
      BY <1>0, <3>1, <3>2
    <3> QED
      BY <1>2, <2>0, <3>1, <3>3, <3>4, <3>5 DEF OrderInv, Over
  <2> QED
    BY <2>1, <2>2
<1>6. CASE ScriptReturns
  <2>1. job.pc > 0
    BY <1>6 DEF ScriptReturns, InScript
  <2>2. job.at \in 1 .. 21 /\ script.id = MainnetIds[job.at] /\ script.migrates = TRUE
    BY <2>1, TheScript DEF AsListed
  <2>3. /\ job'.reached = job.at + 1 /\ job'.pc = 0 /\ job'.at = 0
        /\ files'.migrations = files.migrations \union {MainnetIds[job.at]}
        /\ seen' = seen
    BY <1>6, <2>2, IdleJob DEF ScriptReturns, BaseInv
  <2>4. \A i \in 1 .. 21 : Over(i)' <=> Over(i) \/ i = job.at
    BY <2>2, <2>3, IdsDiffer DEF Over
  <2>5. \A i \in 1 .. 21 : i < job.at /\ Due(i) => Over(i)
    BY <2>1 DEF OrderInv
  <2>6. \A i \in 1 .. 21, j \in 1 .. 21 : i < j /\ Over(j)' /\ Due(i)' => Over(i)'
    BY <1>2, <2>4, <2>5 DEF OrderInv
  <2>7. \A i \in 1 .. 21 : i < job'.reached /\ Due(i)' => Over(i)'
    <3>1. \A i \in 1 .. 21 : i < job'.reached => i < job.at \/ i = job.at
      BY <2>2, <2>3
    <3> QED
      BY <1>2, <2>4, <2>5, <3>1
  <2> QED
    BY <2>3, <2>6, <2>7 DEF OrderInv
<1>7. CASE Step
  <2>1. Advances /\ job.pc > 0
    BY <1>7, StepEffect DEF Step, InScript
  <2>2. /\ job'.at = job.at /\ job'.pc = job.pc + 1 /\ job'.reached = job.reached
        /\ seen' = seen /\ files'.migrations = files.migrations
    BY <2>1 DEF Advances
  <2> QED
    BY <1>0, <1>2, <2>1, <2>2 DEF OrderInv, Over
<1>8. CASE Mined
  BY <1>2, <1>8 DEF Mined, OrderInv, Over
<1>9. CASE Crash
  <2>1. job' = Idle /\ files' = files /\ seen'.refused = seen.refused
    BY <1>9 DEF Crash, BaseInv
  <2> QED
    BY <1>2, <2>1, IdleJob DEF OrderInv, Over
<1>10. CASE \E id \in seen.refused : EnterMigration(id)
  BY <1>10 DEF OrderInv
<1>11. CASE Called
  BY <1>2, <1>11 DEF Called, OrderInv, Over
<1> QED
  BY <1>3, <1>4, <1>5, <1>6, <1>7, <1>8, <1>9, <1>10, <1>11, NextKinds

------------------------------------------------------------------------------
(* Mainnet: what the steps do *)

\* What was deployed before is recorded.
LEMMA Known ==
    ASSUME MainnetState, NEW p \in Proxies,
           Over(Creator(p)) \/ Creator(p) < job.reached
    PROVE  /\ p \in DOMAIN files.records
           /\ Address(p) \in DOMAIN chain.contracts
           /\ Contract(p).contract = ContractOf(p)
<1>1. Creator(p) \in 1 .. 21 /\ Due(Creator(p))
  BY DEF Creator, Due
<1>2. Over(Creator(p))
  BY <1>1 DEF MainnetState, OrderInv
<1>3. p \in DOMAIN files.records
  BY <1>2 DEF MainnetState, RecordsInv, Reached
<1>4. Address(p) > 0 /\ Contract(p).contract = ContractOf(p)
  BY <1>3 DEF MainnetState, RecordsInv, RecordedContract
<1>5. Address(p) \in 0 .. Len(chain.contracts) /\ IsSequence(chain.contracts)
  BY <1>3 DEF MainnetState, BaseInv
<1> QED
  BY <1>3, <1>4, <1>5 DEF IsSequence

\* A script that runs comes after those before it, and is not over.
LEMMA BeforeAndAfter ==
    ASSUME MainnetState, job.pc > 0
    PROVE  /\ job.reached = job.at /\ ~Over(job.at) /\ job.at \in 1 .. 21
           /\ \A i \in 1 .. 21 : i < job.at /\ Due(i) => Over(i)
           /\ \A i \in 1 .. 21 : job.at <= i => ~Over(i)
<1>1. job.at \in 1 .. 21
  BY TheScript DEF MainnetState
<1>2. job.reached = job.at /\ ~Over(job.at) /\ Due(job.at)
  BY DEF MainnetState, OrderInv
<1>3. \A i \in 1 .. 21 : i < job.at /\ Due(i) => Over(i)
  BY <1>2 DEF MainnetState, OrderInv
<1>4. ASSUME NEW i \in 1 .. 21, job.at <= i
      PROVE  ~Over(i)
  <2>1. CASE job.at = i
    BY <1>2, <2>1
  <2>2. CASE job.at < i
    BY <1>1, <1>2, <2>2 DEF MainnetState, OrderInv
  <2> QED
    BY <1>1, <1>4, <2>1, <2>2
<1> QED
  BY <1>1, <1>2, <1>3, <1>4

LEMMA ActionOf ==
    ASSUME Step, Looked(step) \subseteq DOMAIN files.records
    PROVE  /\ step.op = "deployProxy" => deployProxy
           /\ step.op = "save" => save
           /\ step.op = "upgradeProxy" => upgradeProxy
           /\ step.op = "prepareUpgrade" => prepareUpgrade
           /\ step.op = "savePrepared" => savePrepared
           /\ step.op = "execute" => execute
           /\ step.op = "linkChainState" => linkChainState
           /\ step.op = "upgradeAndReinitialize" => upgradeAndReinitialize
           /\ step.op = "saveL2Bridge" => saveL2Bridge
           /\ step.op = "propose" => propose
           /\ step.op = "proposeUpgrade" => proposeUpgrade
<1>1. /\ deployProxy => step.op = "deployProxy"
      /\ save => step.op = "save"
      /\ upgradeProxy => step.op = "upgradeProxy"
      /\ awaitUpgrade => step.op = "awaitUpgrade"
  BY DEF deployProxy, save, upgradeProxy, awaitUpgrade
<1>2. /\ awaitDeployment => step.op = "awaitDeployment"
      /\ prepareUpgrade => step.op = "prepareUpgrade"
      /\ upgradeAndReinitialize => step.op = "upgradeAndReinitialize"
      /\ savePrepared => step.op = "savePrepared"
  BY DEF awaitDeployment, prepareUpgrade, upgradeAndReinitialize, savePrepared
<1>3. /\ execute => step.op = "execute"
      /\ linkChainState => step.op = "linkChainState"
      /\ saveL2Bridge => step.op = "saveL2Bridge"
      /\ propose => step.op = "propose"
  BY DEF execute, linkChainState, saveL2Bridge, propose
<1>4. /\ proposeUpgrade => step.op = "proposeUpgrade"
      /\ deployToken => step.op = "deployToken"
      /\ setToken => step.op = "setToken"
      /\ writeAddresses => step.op = "writeAddresses"
  BY DEF proposeUpgrade, deployToken, setToken, writeAddresses
<1>5. \/ deployProxy \/ save \/ upgradeProxy \/ awaitUpgrade \/ awaitDeployment
      \/ prepareUpgrade \/ upgradeAndReinitialize \/ savePrepared \/ execute \/ linkChainState
      \/ saveL2Bridge \/ propose \/ proposeUpgrade \/ deployToken \/ setToken \/ writeAddresses
  BY DEF Step
<1> QED
  BY <1>1, <1>2, <1>3, <1>4, <1>5

\* The transaction of a step of mainnet.
Executes(i, k, s) == Grants(i, k, s) \/ HandsOver(i, k, s) \/ SetsUp(i, k, s) \/ Renounces(i, k, s)

LEMMA NamedBefore ==
    ASSUME NEW i \in 1 .. 21, NEW k \in 1 .. StepCount(i), NEW s
    PROVE  /\ Executes(i, k, s) => Before(i, s.name)
           /\ Upgrades(i, k, s) \/ Prepares(i, k, s) \/ SavesPrepared(i, k, s) => Before(i, s.name)
           /\ ProposesUpgrade(i, k, s) => Before(i, s.name)
           /\ Deploys(i, k, s) => s.linkedTo = "" \/ Before(i, s.linkedTo)
<1>1. Grants(i, k, s) => Before(i, s.name)
  BY DEF Grants, Before, Proxies, Creator
<1>2. HandsOver(i, k, s) => Before(i, s.name)
  BY DEF HandsOver, HandOver, StepCount, Before, Proxies, Creator
<1>3. SetsUp(i, k, s) => Before(i, s.name)
  BY DEF SetsUp, Before, Proxies, Creator
<1>4. Renounces(i, k, s) => Before(i, s.name)
  BY DEF Renounces, GivenUp, StepCount, Before, Proxies, Creator
<1>5. Upgrades(i, k, s) \/ Prepares(i, k, s) \/ SavesPrepared(i, k, s) => Before(i, s.name)
  BY DEF Upgrades, Prepares, SavesPrepared, PreparedIn, Before, Proxies, Creator
<1>6. ProposesUpgrade(i, k, s) => Before(i, s.name)
  BY DEF ProposesUpgrade, Before, Proxies, Creator
<1>7. Deploys(i, k, s) => s.linkedTo = "" \/ Before(i, s.linkedTo)
  <2>1. Deploys(i, k, s) => \/ i = 1 /\ s.linkedTo = ""
                            \/ i = 2 /\ s.linkedTo = "FuelChainState"
                            \/ i = 7 /\ s.linkedTo = "FuelMessagePortal"
    BY DEF Deploys
  <2>2. Before(2, "FuelChainState") /\ Before(7, "FuelMessagePortal")
    BY DEF Before, Proxies, Creator
  <2> QED
    BY <2>1, <2>2
<1> QED
  BY <1>1, <1>2, <1>3, <1>4, <1>5, <1>6, <1>7 DEF Executes

\* So no lookup fails.
LEMMA LookedUp ==
    ASSUME MainnetState, Step
    PROVE  Looked(step) \subseteq DOMAIN files.records
<1>1. /\ job.at \in 1 .. 21 /\ job.pc \in 1 .. StepCount(job.at)
      /\ MainnetStep(job.at, job.pc, step)
  BY TheStep DEF MainnetState
<1>2. ASSUME NEW name, Before(job.at, name)
      PROVE  name \in DOMAIN files.records
  <2>1. job.reached = job.at
    BY BeforeAndAfter DEF Step, InScript
  <2> QED
    BY <1>2, <2>1, Known DEF Before
<1>3. CASE Deploys(job.at, job.pc, step)
  <2>1. step.op = "deployProxy"
    BY <1>3 DEF Deploys
  <2> QED
    BY <1>1, <1>2, <1>3, <2>1, NamedBefore DEF Looked
<1>4. CASE \/ Executes(job.at, job.pc, step) \/ Upgrades(job.at, job.pc, step)
           \/ Prepares(job.at, job.pc, step) \/ SavesPrepared(job.at, job.pc, step)
           \/ ProposesUpgrade(job.at, job.pc, step)
  <2>1. step.op \in {"execute", "upgradeProxy", "prepareUpgrade", "savePrepared", "proposeUpgrade"}
    BY <1>4 DEF Executes, Grants, HandsOver, SetsUp, Renounces, Upgrades, Prepares,
        SavesPrepared, ProposesUpgrade
  <2>2. Before(job.at, step.name)
    BY <1>1, <1>4, NamedBefore
  <2> QED
    BY <1>2, <2>1, <2>2 DEF Looked
<1>5. CASE \/ Saves(job.at, job.pc, step) \/ SavesBridge(job.at, job.pc, step)
           \/ Proposes(job.at, job.pc, step)
  <2>1. step.op \in {"save", "saveL2Bridge", "propose"}
    BY <1>5 DEF Saves, SavesBridge, Proposes
  <2> QED
    BY <2>1 DEF Looked
<1> QED
  BY <1>1, <1>3, <1>4, <1>5 DEF MainnetStep, Executes

\* Until the hand-over is over the deployer may make the calls of the scripts.
LEMMA DeployerAllowed ==
    ASSUME MainnetState, Step, Executes(job.at, job.pc, step)
    PROVE  /\ step.op = "execute" /\ step.sender = "deployer"
           /\ Before(job.at, step.name)
           /\ Address(step.name) \in DOMAIN chain.contracts
           /\ Allowed(Settled[Address(step.name)], "deployer", step.call)
<1> DEFINE c == Contract(step.name)
<1> DEFINE d == Settled[Address(step.name)]
<1>1. /\ job.at \in 1 .. 21 /\ job.pc \in 1 .. StepCount(job.at)
      /\ job.reached = job.at /\ \A i \in 1 .. 21 : job.at <= i => ~Over(i)
  BY TheStep, BeforeAndAfter DEF MainnetState, Step, InScript
<1>2. Before(job.at, step.name)
  BY <1>1, NamedBefore
<1>3. /\ Address(step.name) \in DOMAIN chain.contracts
      /\ c.contract = ContractOf(step.name)
  BY <1>1, <1>2, Known DEF Before
<1>4. step.op = "execute" /\ step.sender = "deployer"
  BY DEF Executes, Grants, HandsOver, SetsUp, Renounces
<1>5. d.roles = c.roles /\ d.contract = c.contract
  BY <1>3, SettledContracts, ReimplementedFields DEF MainnetState, BaseInv, Contract
<1> HIDE DEF c, d
<1>6. CASE Renounces(job.at, job.pc, step)
  <2>1. step.call.fn = "renounceRole" /\ step.call.account = "deployer"
    BY <1>6 DEF Renounces, RenounceRole
  <2>2. Allowed(d, "deployer", step.call)
    BY <2>1 DEF Allowed
  <2> QED
    BY <1>2, <1>3, <1>4, <2>2 DEF d
<1>7. CASE job.at <= 14
  <2>1. Deployers(c)
    BY <1>1, <1>3, <1>7 DEF MainnetState, RolesInv, c, Contract
  <2>2. <<"DEFAULT_ADMIN_ROLE", "deployer">> \in d.roles
    BY <1>5, <2>1 DEF Deployers
  <2>3. CASE Grants(job.at, job.pc, step) \/ HandsOver(job.at, job.pc, step)
    <3>1. step.call.fn = "grantRole"
      BY <2>3 DEF Grants, HandsOver, GrantRole
    <3>2. Allowed(d, "deployer", step.call)
      BY <2>2, <3>1 DEF Allowed, Needs
    <3> QED
      BY <1>2, <1>3, <1>4, <3>2 DEF d
  <2>4. CASE SetsUp(job.at, job.pc, step)
    <3>1. /\ step.call.fn \in {"requireWhitelist", "setGlobalDepositLimit",
                    "resetRateLimitAmount", "setAssetIssuerId"}
          /\ step.name = "FuelERC20GatewayV4"
      BY <2>4 DEF SetsUp
    <3>2. <<"SET_RATE_LIMITER_ROLE", "deployer">> \in d.roles
      BY <1>3, <1>5, <2>1, <3>1 DEF Deployers, ContractOf
    <3>3. Allowed(d, "deployer", step.call)
      BY <2>2, <3>1, <3>2 DEF Allowed, Needs
    <3> QED
      BY <1>2, <1>3, <1>4, <3>3 DEF d
  <2>5. CASE Renounces(job.at, job.pc, step)
    BY <1>6, <2>5
  <2> QED
    BY <2>3, <2>4, <2>5 DEF Executes
<1>8. job.at <= 14 \/ Renounces(job.at, job.pc, step)
  BY DEF Executes, Grants, HandsOver, SetsUp
<1> QED
  BY <1>6, <1>7, <1>8

SavesAs(name, address) ==
    /\ DOMAIN files'.records = DOMAIN files.records \union {name}
    /\ files'.records[name].address = address
    /\ \A n \in DOMAIN files.records \ {name} : files'.records[n] = files.records[n]
    /\ UNCHANGED <<chain, safe>>

DoesDeploy ==
    /\ Deploys(job.at, job.pc, step)
    /\ \E initializer, implementation, linked : chain'.contracts =
            Append(Settled, NewContract(step.contract, initializer, implementation, linked))
    /\ chain'.sent = NothingSent
    /\ job'.address = Len(chain.contracts) + 1
    /\ UNCHANGED <<files, safe>>

DoesSave == Saves(job.at, job.pc, step) /\ SavesAs(step.name, job.address)

DoesSavePrepared ==
    SavesPrepared(job.at, job.pc, step) /\ SavesAs(step.name, Address(step.name))

DoesSaveBridge == SavesBridge(job.at, job.pc, step) /\ SavesAs("FuelL2BridgeId", 0)

DoesUpgrade ==
    /\ Upgrades(job.at, job.pc, step)
    /\ chain'.contracts = Settled
    /\ job'.address = Address(step.name)
    /\ UNCHANGED <<files, safe>>

DoesExecute ==
    /\ Executes(job.at, job.pc, step)
    /\ chain'.contracts = [Settled EXCEPT ![Address(step.name)] =
            After(Settled[Address(step.name)], "deployer", step.call)]
    /\ chain'.sent = NothingSent
    /\ UNCHANGED <<files, safe>>

DoesPropose ==
    /\ \E calls :
        /\ \/ Proposes(job.at, job.pc, step) /\ calls = step.calls
           \/ /\ ProposesUpgrade(job.at, job.pc, step)
              /\ calls = <<[name |-> step.name,
                            call |-> UpgradeTo(files.records[step.name].implementation)]>>
        /\ safe'.open = safe.open \union
                {[nonce |-> safe.nonce, script |-> script.id, calls |-> calls]}
    /\ UNCHANGED <<chain, files>>

MainnetDoes ==
    \/ DoesDeploy
    \/ DoesSave
    \/ DoesSavePrepared
    \/ DoesSaveBridge
    \/ DoesUpgrade
    \/ DoesPrepare
    \/ DoesExecute
    \/ DoesPropose

LEMMA SaveRecordEffect ==
    ASSUME BaseInv, NEW name, NEW record, SaveRecord(name, record), UNCHANGED <<chain, safe>>
    PROVE  SavesAs(name, record.address)
<1>1. files'.records = [n \in DOMAIN files.records \union {name} |->
                            IF n = name THEN record ELSE files.records[n]]
  BY DEF SaveRecord, BaseInv
<1> QED
  BY <1>1 DEF SavesAs

LEMMA StepDoes ==
    ASSUME MainnetState, Step
    PROVE  MainnetDoes /\ job' # Idle
<1>0. /\ DOMAIN job = {"at", "pc", "address", "implementation", "reached"} /\ job.pc \in Nat
      /\ DOMAIN chain = {"contracts", "sent", "tokens"}
      /\ DOMAIN safe = {"nonce", "open", "executed"}
  BY DEF MainnetState, BaseInv
<1>1. MainnetStep(job.at, job.pc, step)
  BY TheStep DEF MainnetState
<1>2. \A a, i : /\ Done # Idle
                /\ [Done EXCEPT !.address = a] # Idle
                /\ [Done EXCEPT !.address = a, !.implementation = i] # Idle
  <2>1. Done.pc = job.pc + 1 /\ DOMAIN Done = DOMAIN job
    BY <1>0 DEF Done
  <2>2. ASSUME NEW a, NEW i
        PROVE  /\ [Done EXCEPT !.address = a].pc = job.pc + 1
               /\ [Done EXCEPT !.address = a, !.implementation = i].pc = job.pc + 1
    BY <1>0, <2>1
  <2>3. job.pc + 1 # 0
    BY <1>0
  <2> QED
    BY <2>1, <2>2, <2>3, IdleJob
<1>3. Looked(step) \subseteq DOMAIN files.records
  BY LookedUp
<1>4. CASE Deploys(job.at, job.pc, step)
  <2>1. deployProxy
    BY <1>3, <1>4, ActionOf DEF Deploys
  <2>2. PICK linked :
          /\ chain' = [chain EXCEPT
                  !.contracts = Append(Settled,
                      NewContract(step.contract, step.initializer, script.id, linked)),
                  !.sent = NothingSent]
          /\ job' = [Done EXCEPT !.address = Len(chain.contracts) + 1]
          /\ UNCHANGED <<files, safe>>
    BY <2>1 DEF deployProxy
  <2>3. job'.address = Len(chain.contracts) + 1 /\ job' # Idle
    BY <1>0, <1>2, <2>2 DEF Done
  <2>4. /\ chain'.contracts =
              Append(Settled, NewContract(step.contract, step.initializer, script.id, linked))
        /\ chain'.sent = NothingSent
    BY <1>0, <2>2
  <2>5. DoesDeploy
    BY <1>4, <2>2, <2>3, <2>4 DEF DoesDeploy
  <2> QED
    BY <2>3, <2>5 DEF MainnetDoes
<1>5. CASE Saves(job.at, job.pc, step)
  <2>1. save
    BY <1>3, <1>5, ActionOf DEF Saves
  <2> DEFINE r == Record(job.address, chain.contracts[job.address].implementation,
                         script.id, FALSE, FALSE)
  <2>2. r.address = job.address
    BY DEF Record
  <2>3. SaveRecord(step.name, r) /\ job' = Done /\ UNCHANGED <<chain, safe>>
    BY <2>1 DEF save
  <2> HIDE DEF r
  <2>4. SavesAs(step.name, job.address)
    BY <2>2, <2>3, SaveRecordEffect DEF MainnetState
  <2> QED
    BY <1>2, <1>5, <2>3, <2>4 DEF MainnetDoes, DoesSave
<1>6. CASE SavesPrepared(job.at, job.pc, step)
  <2>1. savePrepared
    BY <1>3, <1>6, ActionOf DEF SavesPrepared
  <2> DEFINE r == Record(Address(step.name), job.implementation, script.id, TRUE,
                         step.verifiable)
  <2>2. r.address = Address(step.name)
    BY DEF Record
  <2>3. SaveRecord(step.name, r) /\ job' = Done /\ UNCHANGED <<chain, safe>>
    BY <2>1 DEF savePrepared
  <2> HIDE DEF r
  <2>4. SavesAs(step.name, Address(step.name))
    BY <2>2, <2>3, SaveRecordEffect DEF MainnetState
  <2> QED
    BY <1>2, <1>6, <2>3, <2>4 DEF MainnetDoes, DoesSavePrepared
<1>7. CASE SavesBridge(job.at, job.pc, step)
  <2>1. saveL2Bridge
    BY <1>3, <1>7, ActionOf DEF SavesBridge
  <2> DEFINE r == Record(0, "", script.id, FALSE, FALSE)
  <2>2. r.address = 0
    BY DEF Record
  <2>3. SaveRecord("FuelL2BridgeId", r) /\ job' = Done /\ UNCHANGED <<chain, safe>>
    BY <2>1 DEF saveL2Bridge
  <2> HIDE DEF r
  <2>4. SavesAs("FuelL2BridgeId", 0)
    BY <2>2, <2>3, SaveRecordEffect DEF MainnetState
  <2> QED
    BY <1>2, <1>7, <2>3, <2>4 DEF MainnetDoes, DoesSaveBridge
<1>8. CASE Upgrades(job.at, job.pc, step)
  <2>1. upgradeProxy
    BY <1>3, <1>8, ActionOf DEF Upgrades
  <2> DEFINE a == Address(step.name)
  <2>2. Allowed(Settled[a], "deployer", UpgradeTo(script.id))
    <3>1. /\ step.name = Portal /\ job.at = 6 /\ job.reached = job.at /\ ~Over(14)
      BY <1>8, BeforeAndAfter DEF Upgrades, Step, InScript, Portal
    <3>2. Portal \in Proxies /\ Creator(Portal) < 6
      BY DEF Portal, Proxies, Creator
    <3>3. a \in DOMAIN chain.contracts
      BY <3>1, <3>2, Known
    <3>4. Deployers(chain.contracts[a])
      BY <3>1, <3>3 DEF MainnetState, RolesInv
    <3>5. Settled[a].roles = chain.contracts[a].roles
      BY <3>3, SettledContracts, ReimplementedFields DEF MainnetState, BaseInv
    <3> QED
      BY <3>4, <3>5 DEF Deployers, Allowed, UpgradeTo, Needs
  <2>3. /\ chain' = [chain EXCEPT !.contracts = Settled,
                          !.sent = [address |-> a, implementation |-> script.id]]
        /\ job' = [Done EXCEPT !.address = a]
        /\ UNCHANGED <<files, safe>>
    BY <2>1, <2>2 DEF upgradeProxy
  <2> HIDE DEF a
  <2>4. chain'.contracts = Settled
    BY <1>0, <2>3
  <2>5. job'.address = a
    BY <1>0, <2>3 DEF Done
  <2> QED
    BY <1>2, <1>8, <2>3, <2>4, <2>5 DEF MainnetDoes, DoesUpgrade, a
<1>9. CASE Prepares(job.at, job.pc, step)
  <2>1. prepareUpgrade
    BY <1>3, <1>9, ActionOf DEF Prepares
  <2> QED
    BY <1>2, <1>9, <2>1 DEF prepareUpgrade, MainnetDoes, DoesPrepare
<1>10. CASE Executes(job.at, job.pc, step)
  <2>1. /\ step.op = "execute" /\ step.sender = "deployer"
        /\ Allowed(Settled[Address(step.name)], "deployer", step.call)
    BY <1>10, DeployerAllowed
  <2>2. execute
    BY <1>3, <2>1, ActionOf
  <2> DEFINE a == Address(step.name)
  <2>3. /\ chain' = [chain EXCEPT
              !.contracts = [Settled EXCEPT ![a] = After(Settled[a], "deployer", step.call)],
              !.sent = NothingSent]
        /\ job' = [Done EXCEPT !.address = a]
        /\ UNCHANGED <<files, safe>>
    BY <2>1, <2>2 DEF execute, Transaction
  <2> DEFINE t == [Settled EXCEPT ![a] = After(Settled[a], "deployer", step.call)]
  <2> HIDE DEF t
  <2>4. chain' = [chain EXCEPT !.contracts = t, !.sent = NothingSent]
    BY <2>3 DEF t
  <2>5. chain'.contracts = t /\ chain'.sent = NothingSent
    BY <1>0, <2>4
  <2> QED
    BY <1>2, <1>10, <2>3, <2>5 DEF MainnetDoes, DoesExecute, t
<1>11. CASE Proposes(job.at, job.pc, step)
  <2>1. propose
    BY <1>3, <1>11, ActionOf DEF Proposes
  <2>2. /\ safe'.open = safe.open \union
              {[nonce |-> safe.nonce, script |-> script.id, calls |-> step.calls]}
        /\ job' = Done /\ UNCHANGED <<chain, files>>
    BY <1>0, <2>1 DEF propose, ProposeCalls
  <2> QED
    BY <1>2, <1>11, <2>2 DEF MainnetDoes, DoesPropose
<1>12. CASE ProposesUpgrade(job.at, job.pc, step)
  <2>1. proposeUpgrade
    BY <1>3, <1>12, ActionOf DEF ProposesUpgrade
  <2> DEFINE calls == <<[name |-> step.name,
                         call |-> UpgradeTo(files.records[step.name].implementation)]>>
  <2>2. ProposeCalls(calls)
    BY <2>1 DEF proposeUpgrade
  <2> HIDE DEF calls
  <2>3. /\ safe'.open = safe.open \union
              {[nonce |-> safe.nonce, script |-> script.id, calls |-> calls]}
        /\ job' = Done /\ UNCHANGED <<chain, files>>
    BY <1>0, <2>2 DEF ProposeCalls
  <2> QED
    BY <1>2, <1>12, <2>3 DEF MainnetDoes, DoesPropose, calls
<1> QED
  BY <1>1, <1>4, <1>5, <1>6, <1>7, <1>8, <1>9, <1>10, <1>11, <1>12 DEF MainnetStep, Executes

\* No step of mainnet throws.
LEMMA NothingThrows ==
    ASSUME MainnetState, Step
    PROVE  ~Throw /\ Advances
BY StepDoes, StepEffect DEF Throw, MainnetState

LEMMA DoesByKind ==
    ASSUME MainnetDoes
    PROVE  /\ step.op = "deployProxy" => DoesDeploy
           /\ step.op = "save" => DoesSave
           /\ step.op = "upgradeProxy" => DoesUpgrade
           /\ step.op = "execute" => DoesExecute
           /\ step.op = "savePrepared" => DoesSavePrepared
           /\ step.op = "saveL2Bridge" => DoesSaveBridge
<1>1. /\ DoesDeploy => step.op = "deployProxy"
      /\ DoesSave => step.op = "save"
      /\ DoesSavePrepared => step.op = "savePrepared"
      /\ DoesSaveBridge => step.op = "saveL2Bridge"
  BY DEF DoesDeploy, Deploys, DoesSave, Saves, DoesSavePrepared, SavesPrepared, DoesSaveBridge,
      SavesBridge
<1>2. /\ DoesUpgrade => step.op = "upgradeProxy"
      /\ DoesPrepare => step.op = "prepareUpgrade"
      /\ DoesExecute => step.op = "execute"
      /\ DoesPropose => step.op \in {"propose", "proposeUpgrade"}
  BY DEF DoesUpgrade, Upgrades, DoesPrepare, Prepares, DoesExecute, Executes, Grants, HandsOver,
      SetsUp, Renounces, DoesPropose, Proposes, ProposesUpgrade
<1> QED
  BY <1>1, <1>2 DEF MainnetDoes

LEMMA CreatorSteps ==
    ASSUME NEW p \in Proxies, NEW k \in 1 .. 2, NEW s, MainnetStep(Creator(p), k, s)
    PROVE  /\ k = 1 => s.op = "deployProxy" /\ s.contract = ContractOf(p)
           /\ k = 2 => s.op = "save" /\ s.name = p
<1>1. Creator(p) \in {1, 2, 7}
  BY DEF Creator
<1>2. Deploys(Creator(p), k, s) \/ Saves(Creator(p), k, s)
  BY <1>1 DEF MainnetStep, Upgrades, Prepares, SavesPrepared, PreparedIn, Grants, HandsOver,
      SetsUp, SavesBridge, Renounces, Proposes, ProposesUpgrade
<1>3. CASE Deploys(Creator(p), k, s)
  <2>1. /\ k = 1 /\ s.op = "deployProxy"
        /\ \/ Creator(p) = 1 /\ s.contract = "FuelChainState"
           \/ Creator(p) = 2 /\ s.contract = "FuelMessagePortal"
           \/ Creator(p) = 7 /\ s.contract = "FuelERC20Gateway"
    BY <1>3 DEF Deploys
  <2> QED
    BY <2>1 DEF Creator, ContractOf, Proxies
<1>4. CASE Saves(Creator(p), k, s)
  <2>1. /\ k = 2 /\ s.op = "save"
        /\ \/ Creator(p) = 1 /\ s.name = "FuelChainState"
           \/ Creator(p) = 2 /\ s.name = "FuelMessagePortal"
           \/ Creator(p) = 7 /\ s.name = "FuelERC20GatewayV4"
    BY <1>1, <1>4 DEF Saves, SavedIn
  <2> QED
    BY <2>1 DEF Creator, Proxies
<1> QED
  BY <1>2, <1>3, <1>4

LEMMA UpgradeSteps ==
    ASSUME NEW s, MainnetStep(6, 1, s)
    PROVE  s.op = "upgradeProxy" /\ s.name = Portal
BY DEF MainnetStep, Deploys, Saves, Upgrades, Prepares, SavesPrepared, PreparedIn, Grants,
    HandsOver, SetsUp, SavesBridge, Renounces, Proposes, ProposesUpgrade, Portal

------------------------------------------------------------------------------
(* Mainnet: what steps leave of a contract *)

\* Only the deployer loses roles, and it gets none; nobody but the multisig
\* becomes an administrator; all that was granted was an event.
Kept(c, d) ==
    /\ d.contract = c.contract
    /\ \A e \in c.roles : e \in d.roles \/ \E r : e = <<r, "deployer">>
    /\ \A r : <<r, "deployer">> \in d.roles => <<r, "deployer">> \in c.roles
    /\ \A x : <<"DEFAULT_ADMIN_ROLE", x>> \in d.roles =>
            x = "multisig" \/ <<"DEFAULT_ADMIN_ROLE", x>> \in c.roles
    /\ c.roles \subseteq c.granted => d.roles \subseteq d.granted

LEMMA SteadyKept ==
    ASSUME NEW c, NEW d, Steady(c, d)
    PROVE  Kept(c, d) /\ c.roles \subseteq d.roles
BY DEF Steady, Grown, Kept

LEMMA ReimplementedKept ==
    ASSUME NEW c, DOMAIN c = ContractFields, NEW d, Reimplemented(c, d)
    PROVE  Kept(c, d) /\ c.roles \subseteq d.roles
BY ReimplementedFields DEF Kept

LEMMA KeptTwice ==
    ASSUME NEW c, NEW d, NEW e, Kept(c, d), d.roles = c.roles, Kept(d, e)
    PROVE  Kept(c, e)
BY DEF Kept

LEMMA RenouncedKept ==
    ASSUME NEW c, DOMAIN c = ContractFields, NEW role, NEW sender
    PROVE  LET d == After(c, sender, RenounceRole(role, "deployer")) IN
           Kept(c, d) /\ d.roles = c.roles \ {<<role, "deployer">>}
<1> DEFINE call == RenounceRole(role, "deployer")
<1> DEFINE d == After(c, sender, call)
<1>1. call.fn = "renounceRole" /\ call.role = role /\ call.account = "deployer"
  BY DEF RenounceRole
<1> HIDE DEF call
<1>2. d = [c EXCEPT !.roles = @ \ {<<role, "deployer">>}]
  BY <1>1 DEF After
<1>3. /\ d.contract = c.contract /\ d.granted = c.granted
      /\ d.roles = c.roles \ {<<role, "deployer">>}
  BY <1>2 DEF ContractFields
<1> HIDE DEF d
<1>4. Kept(c, d)
  BY <1>3 DEF Kept
<1> QED
  BY <1>3, <1>4 DEF d, call

\* The calls of scripts, but for relinquish_ownership.
LEMMA SteadyExecutes ==
    ASSUME NEW i, NEW k \in 1 .. StepCount(i), NEW s,
           Grants(i, k, s) \/ HandsOver(i, k, s) \/ SetsUp(i, k, s)
    PROVE  SteadyCall(s.call)
<1>1. CASE Grants(i, k, s)
  BY <1>1 DEF Grants, GrantRole, SteadyCall
<1>2. CASE HandsOver(i, k, s)
  BY <1>2 DEF HandsOver, GrantRole, SteadyCall
<1>3. CASE SetsUp(i, k, s)
  BY <1>3 DEF SetsUp, SteadyCall
<1> QED
  BY <1>1, <1>2, <1>3

\* The calls of tasks and of the owners.
LEMMA SteadyCalled ==
    ASSUME MainnetState, NEW a, NEW call \in TaskCalls \union OwnersCalls(a)
    PROVE  SteadyCall(call)
<1>1. CASE call \in TaskCalls
  BY <1>1 DEF TaskCalls, GrantRole, Call, SteadyCall
<1>2. ASSUME NEW x, call = UpgradeTo(x)
      PROVE  SteadyCall(call)
  BY <1>2 DEF UpgradeTo, SteadyCall
<1>3. ASSUME NEW p \in safe.open, NEW k \in DOMAIN p.calls, call = p.calls[k].call
      PROVE  SteadyCall(call)
  <2>1. ProposedCall(p.calls[k])
    BY DEF MainnetState, ProposalsInv
  <2>2. CASE Proposable(call)
    BY <2>2 DEF Proposable, Call, GrantRole, SteadyCall
  <2> QED
    BY <1>2, <1>3, <2>1, <2>2 DEF ProposedCall
<1> QED
  BY <1>1, <1>2, <1>3 DEF OwnersCalls

Renounced(a) ==
    /\ Step /\ Renounces(job.at, job.pc, step)
    /\ a = Address(step.name)
    /\ chain'.contracts[a].roles = chain.contracts[a].roles \ {<<GivenUp(job.pc)[2], "deployer">>}

\* What becomes of a contract.
LEMMA MainnetKeeps ==
    ASSUME MainnetState, [TaskNext]_allVars, NEW a \in DOMAIN chain.contracts
    PROVE  /\ a \in DOMAIN chain'.contracts
           /\ Kept(chain.contracts[a], chain'.contracts[a])
           /\ \/ chain.contracts[a].roles \subseteq chain'.contracts[a].roles
              \/ Renounced(a)
<1> DEFINE c == chain.contracts[a]
<1> DEFINE d == chain'.contracts[a]
<1>0. /\ BaseInv /\ BaseInv' /\ CallInv /\ DOMAIN c = ContractFields
      /\ a \in DOMAIN chain'.contracts
  <2>1. BaseInv' /\ Len(chain'.contracts) >= Len(chain.contracts) /\ BaseInv /\ CallInv
    BY NextBase DEF MainnetState
  <2> QED
    BY <2>1 DEF BaseInv, IsSequence
<1>1. ASSUME c = d
      PROVE  Kept(c, d) /\ c.roles \subseteq d.roles
  BY <1>1 DEF Kept
<1>2. /\ a \in DOMAIN Settled /\ DOMAIN Settled[a] = ContractFields
      /\ Reimplemented(c, Settled[a])
      /\ Kept(c, Settled[a]) /\ Settled[a].roles = c.roles
  BY <1>0, SettledContracts, ReimplementedKept, ReimplementedFields
<1>3. CASE Step
  <2>1. CASE chain' = chain
    BY <1>0, <1>1, <2>1
  <2>2. CASE DoesUpgrade
    BY <1>0, <1>2, <2>2 DEF DoesUpgrade
  <2>3. CASE DoesDeploy
    <3>1. PICK x : chain'.contracts = Append(Settled, x)
      BY <2>3 DEF DoesDeploy
    <3>2. d = Settled[a]
      BY <1>0, <1>2, <3>1, SettledContracts, AppendSequence
    <3> QED
      BY <1>0, <1>2, <3>2
  <2>4. CASE DoesExecute
    <3>1. chain'.contracts = [Settled EXCEPT ![Address(step.name)] =
                After(Settled[Address(step.name)], "deployer", step.call)]
      BY <2>4 DEF DoesExecute
    <3>2. CASE a # Address(step.name)
      <4>1. d = Settled[a]
        BY <1>2, <3>1, <3>2
      <4> QED
        BY <1>0, <1>2, <4>1
    <3>3. CASE a = Address(step.name)
      <4>1. d = After(Settled[a], "deployer", step.call)
        BY <1>2, <3>1, <3>3
      <4>2. CASE Renounces(job.at, job.pc, step)
        <5>1. step.call = RenounceRole(GivenUp(job.pc)[2], "deployer")
          BY <4>2 DEF Renounces
        <5>2. /\ Kept(Settled[a], d)
              /\ d.roles = Settled[a].roles \ {<<GivenUp(job.pc)[2], "deployer">>}
          BY <1>2, <4>1, <5>1, RenouncedKept
        <5> QED
          BY <1>0, <1>2, <1>3, <3>3, <4>2, <5>2, KeptTwice DEF Renounced
      <4>3. CASE ~Renounces(job.at, job.pc, step)
        <5>1. SteadyCall(step.call)
          <6>1. job.pc \in 1 .. StepCount(job.at)
            BY <1>3, TheStep DEF MainnetState
          <6> QED
            BY <2>4, <4>3, <6>1, SteadyExecutes DEF DoesExecute, Executes
        <5>2. Kept(Settled[a], d) /\ Settled[a].roles \subseteq d.roles
          BY <1>2, <4>1, <5>1, AfterSteady, SteadyKept
        <5> QED
          BY <1>0, <1>2, <5>2, KeptTwice
      <4> QED
        BY <4>2, <4>3
    <3> QED
      BY <3>2, <3>3
  <2> QED
    BY <1>3, <2>1, <2>2, <2>3, <2>4, StepDoes DEF MainnetDoes, DoesSave, DoesSavePrepared,
        DoesSaveBridge, DoesPrepare, DoesPropose, SavesAs
<1>4. CASE Mined
  <2>1. chain'.contracts = Settled
    BY <1>0, <1>4 DEF Mined, BaseInv
  <2> QED
    BY <1>0, <1>2, <2>1
<1>5. CASE Called
  <2>1. CASE d = c
    BY <1>0, <1>1, <2>1
  <2>2. CASE d # c
    <3>1. PICK sender, call : /\ call \in TaskCalls \union OwnersCalls(a)
                              /\ d = After(c, sender, call)
      BY <1>5, <2>2 DEF Called
    <3>2. SteadyCall(call)
      BY <3>1, SteadyCalled
    <3> QED
      BY <1>0, <3>1, <3>2, AfterSteady, SteadyKept
  <2> QED
    BY <2>1, <2>2
<1>6. CASE chain' = chain
  BY <1>0, <1>1, <1>6
<1>7. \/ Step \/ Mined \/ Called \/ chain' = chain
  BY <1>0, NextKinds DEF vars, Start, NextScript, ScriptReturns, Crash, EnterMigration
<1> QED
  BY <1>3, <1>4, <1>5, <1>6, <1>7

\* What is new was deployed by the step.
LEMMA MainnetAdds ==
    ASSUME MainnetState, [TaskNext]_allVars, NEW a \in DOMAIN chain'.contracts,
           a \notin DOMAIN chain.contracts
    PROVE  /\ Step /\ DoesDeploy
           /\ a = Len(chain.contracts) + 1
           /\ chain'.contracts[a].contract = step.contract
           /\ OwnRoles(chain'.contracts[a]) /\ Deployers(chain'.contracts[a])
<1>0. /\ BaseInv /\ CallInv /\ IsSequence(chain.contracts)
      /\ IsSequence(Settled) /\ Len(Settled) = Len(chain.contracts)
      /\ DOMAIN Settled = DOMAIN chain.contracts
  BY SettledContracts DEF MainnetState, BaseInv
<1>1. Step
  <2>1. ~Mined
    BY <1>0 DEF Mined, BaseInv
  <2>2. ~Called
    BY <1>0 DEF Called, IsSequence
  <2>3. chain' # chain
    OBVIOUS
  <2> QED
    BY <1>0, <2>1, <2>2, <2>3, NextKinds DEF vars, Start, NextScript, ScriptReturns, Crash,
        EnterMigration
<1>2. DoesDeploy
  <2>1. ~DoesExecute
    BY <1>0 DEF DoesExecute
  <2>2. ~DoesUpgrade
    BY <1>0 DEF DoesUpgrade
  <2> QED
    BY <1>1, <2>1, <2>2, StepDoes DEF MainnetDoes, DoesSave, DoesSavePrepared,
        DoesSaveBridge, DoesPrepare, DoesPropose, SavesAs
<1>3. PICK initializer, implementation, linked : chain'.contracts =
            Append(Settled, NewContract(step.contract, initializer, implementation, linked))
  BY <1>2 DEF DoesDeploy
<1> DEFINE new == NewContract(step.contract, initializer, implementation, linked)
<1>4. /\ new.contract = step.contract
      /\ new.roles = RolesAtInitialize(step.contract, initializer) \X {"deployer"}
      /\ new.granted = new.roles
      /\ <<"DEFAULT_ADMIN_ROLE", "deployer">> \in new.roles
  BY NewFields
<1>5. chain'.contracts = Append(Settled, new)
  BY <1>3
<1> HIDE DEF new
<1>6. a = Len(chain.contracts) + 1 /\ chain'.contracts[a] = new
  <2>1. /\ DOMAIN chain'.contracts = 1 .. Len(Settled) + 1
        /\ chain'.contracts[Len(Settled) + 1] = new
    BY <1>0, <1>5, AppendSequence
  <2>2. a = Len(Settled) + 1
    BY <1>0, <2>1 DEF IsSequence
  <2> QED
    BY <1>0, <2>1, <2>2
<1>7. step.contract \in {"FuelChainState", "FuelMessagePortal", "FuelERC20Gateway"}
  BY <1>2 DEF DoesDeploy, Deploys
<1>8. /\ RolesAtInitialize(step.contract, initializer) \subseteq DeployersRoles(step.contract)
      /\ step.contract = "FuelERC20Gateway" =>
            "SET_RATE_LIMITER_ROLE" \in RolesAtInitialize(step.contract, initializer)
  <2>1. CASE step.contract = "FuelChainState"
    BY <2>1 DEF RolesAtInitialize, DeployersRoles
  <2>2. CASE step.contract = "FuelERC20Gateway"
    BY <2>2 DEF RolesAtInitialize, DeployersRoles
  <2>3. CASE step.contract = "FuelMessagePortal"
    BY <2>3 DEF RolesAtInitialize, DeployersRoles
  <2> QED
    BY <1>7, <2>1, <2>2, <2>3
<1>9. OwnRoles(new)
  BY <1>4, <1>8 DEF OwnRoles
<1>10. Deployers(new)
  BY <1>4, <1>8 DEF Deployers
<1> QED
  BY <1>1, <1>2, <1>4, <1>6, <1>9, <1>10

------------------------------------------------------------------------------
(* Mainnet: records *)

LEMMA InitRecords == TaskInit /\ network.name = "mainnet" => RecordsInv
<1> SUFFICES ASSUME TaskInit, network.name = "mainnet"
             PROVE  RecordsInv
  OBVIOUS
<1>1. /\ files.records = <<>> /\ files.migrations = {} /\ job.pc = 0
  BY IdleJob DEF TaskInit, Init
<1>2. DOMAIN files.records = {}
  BY <1>1
<1> QED
  BY <1>1, <1>2 DEF RecordsInv, Reached, Over, Saving

\* The address in the record of a proxy stays, once its script is over.
LEMMA AddressKept ==
    ASSUME MainnetState, [TaskNext]_allVars, NEW p \in Proxies, Over(Creator(p))
    PROVE  p \in DOMAIN files'.records /\ files'.records[p].address = Address(p)
<1>0. p \in DOMAIN files.records
  BY Known
<1>1. CASE files' = files
  BY <1>0, <1>1 DEF Address
<1>2. CASE ScriptReturns
  <2>1. files'.records = files.records
    BY <1>2 DEF ScriptReturns, MainnetState, BaseInv
  <2> QED
    BY <1>0, <2>1 DEF Address
<1>3. CASE Step
  <2>1. job.pc > 0
    BY <1>3 DEF Step, InScript
  <2>2. Creator(p) # job.at
    BY <2>1, BeforeAndAfter
  <2>3. ASSUME NEW name, NEW address, SavesAs(name, address), p = name => address = Address(p)
        PROVE  p \in DOMAIN files'.records /\ files'.records[p].address = Address(p)
    BY <1>0, <2>3 DEF SavesAs, Address
  <2>4. CASE DoesSave
    <3>1. p = step.name => job.address = Address(p)
      <4>1. SUFFICES ASSUME p = step.name
                     PROVE  job.address = Address(p)
        OBVIOUS
      <4>2. SavedIn(job.at, p) /\ job.pc = 2
        BY <2>4, <4>1 DEF DoesSave, Saves
      <4>3. job.at = 6 /\ p = Portal
        BY <2>2, <4>2 DEF SavedIn, Creator, Portal
      <4> QED
        BY <4>2, <4>3 DEF MainnetState, RecordsInv, Saving
    <3> QED
      BY <2>3, <2>4, <3>1 DEF DoesSave
  <2>5. CASE DoesSavePrepared
    BY <2>3, <2>5 DEF DoesSavePrepared
  <2>6. CASE DoesSaveBridge
    <3>1. p # "FuelL2BridgeId"
      BY DEF Proxies
    <3> QED
      BY <2>3, <2>6, <3>1 DEF DoesSaveBridge
  <2>7. ~(DoesSave \/ DoesSavePrepared \/ DoesSaveBridge) => files' = files
    BY <1>3, StepDoes DEF MainnetDoes, DoesDeploy, DoesUpgrade, DoesPrepare, DoesExecute,
        DoesPropose
  <2> QED
    BY <1>1, <2>4, <2>5, <2>6, <2>7
<1>4. CASE \E id \in seen.refused : EnterMigration(id)
  BY <1>4 DEF MainnetState, OrderInv
<1>5. Step \/ ScriptReturns \/ files' = files \/ \E id \in seen.refused : EnterMigration(id)
  BY NextKinds DEF MainnetState, vars, Start, NextScript, Mined, Crash, Called
<1> QED
  BY <1>1, <1>2, <1>3, <1>4, <1>5

\* What was recorded stays what it is.
LEMMA RecordedStays ==
    ASSUME MainnetState, [TaskNext]_allVars, NEW n \in DOMAIN files.records,
           n \in DOMAIN files'.records, files'.records[n].address = files.records[n].address
    PROVE  RecordedContract(n)'
<1>1. RecordedContract(n)
  BY DEF MainnetState, RecordsInv
<1>2. CASE n \in Proxies
  <2>1. Address(n) \in DOMAIN chain.contracts
    BY <1>1, <1>2 DEF RecordedContract, MainnetState, BaseInv, IsSequence
  <2>2. chain'.contracts[Address(n)].contract = chain.contracts[Address(n)].contract
    BY <2>1, MainnetKeeps DEF Kept
  <2> QED
    BY <1>1, <1>2, <2>2 DEF RecordedContract, Contract, Address
<1>3. CASE n \notin Proxies
  BY <1>1, <1>3 DEF RecordedContract, Address
<1> QED
  BY <1>2, <1>3

LEMMA NextRecords ==
    ASSUME MainnetState, [TaskNext]_allVars
    PROVE  RecordsInv'
<1>0. /\ BaseInv /\ job.pc \in Nat /\ IsSequence(chain.contracts)
  BY DEF MainnetState, BaseInv
<1>1. CASE UNCHANGED vars \/ Mined \/ Called
  <2>1. UNCHANGED <<files, job>>
    BY <1>1 DEF vars, Mined, Called
  <2>2. \A n \in DOMAIN files'.records : RecordedContract(n)'
    BY <2>1, RecordedStays
  <2>3. \A p \in Proxies : Reached(Creator(p), 2)' => p \in DOMAIN files'.records
    BY <2>1 DEF MainnetState, RecordsInv, Reached, Over
  <2>4. ASSUME job.pc = 2, NEW p \in Proxies, job.at = Creator(p)
        PROVE  job.address > 0 /\ chain'.contracts[job.address].contract = ContractOf(p)
    <3>1. job.address > 0 /\ chain.contracts[job.address].contract = ContractOf(p)
      BY <2>4 DEF MainnetState, RecordsInv, Saving
    <3>2. job.address \in DOMAIN chain.contracts
      BY <1>0, <3>1 DEF BaseInv, IsSequence
    <3> QED
      BY <3>1, <3>2, MainnetKeeps DEF Kept
  <2>5. Saving'
    BY <2>1, <2>4 DEF Saving, MainnetState, RecordsInv, Address
  <2> QED
    BY <2>2, <2>3, <2>5 DEF RecordsInv
<1>2. CASE Start \/ NextScript \/ ScriptReturns \/ Crash
  <2>1. files'.records = files.records /\ job'.pc \in {0, 1}
    <3>1. CASE Start
      BY <3>1, IdleJob DEF Start
    <3>2. CASE NextScript
      BY <1>0, <3>2, NextEffect, IdleJob
    <3>3. CASE ScriptReturns
      BY <1>0, <3>3, IdleJob DEF ScriptReturns, BaseInv
    <3>4. CASE Crash
      BY <3>4, IdleJob DEF Crash
    <3> QED
      BY <1>2, <3>1, <3>2, <3>3, <3>4
  <2>2. ASSUME NEW p \in Proxies, Over(Creator(p))'
        PROVE  Reached(Creator(p), 2)
    <3>1. CASE ScriptReturns
      <4>1. /\ job.at \in 1 .. 21 /\ script.id = MainnetIds[job.at]
            /\ Len(script.steps) = StepCount(job.at) /\ job.pc > Len(script.steps)
        BY <3>1, TheScript DEF ScriptReturns, InScript, MainnetState, AsListed
      <4>2. files'.migrations \subseteq files.migrations \union {MainnetIds[job.at]}
        BY <1>0, <3>1, <4>1 DEF ScriptReturns, BaseInv
      <4>3. Creator(p) \in 1 .. 21 /\ StepCount(Creator(p)) = 2
        BY DEF Creator, StepCount
      <4>4. Over(Creator(p)) \/ Creator(p) = job.at
        BY <2>2, <4>1, <4>2, <4>3, IdsDiffer DEF Over
      <4> QED
        BY <4>1, <4>3, <4>4 DEF Reached
    <3>2. CASE files' = files
      BY <2>2, <3>2 DEF Over, Reached
    <3> QED
      BY <1>0, <1>2, <3>1, <3>2, NextEffect DEF Start, Crash
  <2>3. \A p \in Proxies : Reached(Creator(p), 2)' => p \in DOMAIN files'.records
    BY <2>1, <2>2 DEF Reached, MainnetState, RecordsInv
  <2>4. \A n \in DOMAIN files'.records : RecordedContract(n)'
    BY <2>1, RecordedStays
  <2> QED
    BY <2>1, <2>3, <2>4 DEF RecordsInv, Saving
<1>3. CASE Step
  <2>1. /\ job.at \in 1 .. 21 /\ job.pc \in 1 .. StepCount(job.at)
        /\ files'.migrations = files.migrations /\ job'.at = job.at /\ job'.pc = job.pc + 1
    BY <1>3, TheStep, NothingThrows DEF MainnetState, Advances
  <2>2. MainnetDoes /\ MainnetStep(job.at, job.pc, step) /\ job.reached = job.at
    BY <1>3, StepDoes, TheStep, BeforeAndAfter DEF MainnetState, Step, InScript
  <2>3. ASSUME NEW name, NEW address, SavesAs(name, address),
               name \in Proxies => address \in DOMAIN chain.contracts
                  /\ chain.contracts[address].contract = ContractOf(name),
               name \notin Proxies => name = "FuelL2BridgeId" /\ address = 0,
               NEW n \in DOMAIN files'.records
        PROVE  RecordedContract(n)'
    <3>1. CASE n = name
      <4>1. files'.records[n].address = address /\ chain' = chain
        BY <2>3, <3>1 DEF SavesAs
      <4>2. n \in Proxies => address > 0
        BY <1>0, <2>3, <3>1 DEF IsSequence
      <4> QED
        BY <2>3, <3>1, <4>1, <4>2 DEF RecordedContract, Contract, Address
    <3>2. CASE n # name
      <4>1. n \in DOMAIN files.records /\ files'.records[n] = files.records[n]
        BY <2>3, <3>2 DEF SavesAs
      <4> QED
        BY <4>1, RecordedStays
    <3> QED
      BY <3>1, <3>2
  <2>4. ASSUME NEW n \in DOMAIN files'.records
        PROVE  RecordedContract(n)'
    <3>1. CASE DoesSave
      <4>1. SavedIn(job.at, step.name) /\ job.pc = 2 /\ SavesAs(step.name, job.address)
        BY <3>1 DEF DoesSave, Saves
      <4>2. step.name \in Proxies
        BY <4>1 DEF SavedIn, Proxies
      <4>3. job.at = Creator(step.name) \/ (job.at = 6 /\ step.name = Portal)
        BY <4>1 DEF SavedIn, Creator, Portal
      <4>4. CASE job.at = Creator(step.name)
        <5>1. /\ job.address > 0
              /\ chain.contracts[job.address].contract = ContractOf(step.name)
          BY <4>1, <4>2, <4>4 DEF MainnetState, RecordsInv, Saving
        <5>2. job.address \in DOMAIN chain.contracts
          BY <1>0, <5>1 DEF BaseInv, IsSequence
        <5> QED
          BY <2>3, <4>1, <4>2, <5>1, <5>2
      <4>5. CASE job.at = 6 /\ step.name = Portal
        <5>1. Creator(step.name) < job.reached
          BY <2>2, <4>5 DEF Creator, Portal
        <5>2. job.address = Address(step.name)
          BY <4>1, <4>5 DEF MainnetState, RecordsInv, Saving
        <5>3. /\ job.address \in DOMAIN chain.contracts
              /\ chain.contracts[job.address].contract = ContractOf(step.name)
          BY <4>2, <5>1, <5>2, Known DEF Contract
        <5> QED
          BY <2>3, <4>1, <4>2, <5>3
      <4> QED
        BY <4>3, <4>4, <4>5
    <3>2. CASE DoesSavePrepared
      <4>1. Before(job.at, step.name) /\ SavesAs(step.name, Address(step.name))
        BY <2>1, <3>2, NamedBefore DEF DoesSavePrepared
      <4>2. /\ step.name \in Proxies
            /\ Address(step.name) \in DOMAIN chain.contracts
            /\ Contract(step.name).contract = ContractOf(step.name)
        BY <2>2, <4>1, Known DEF Before
      <4> QED
        BY <2>3, <4>1, <4>2 DEF Contract
    <3>3. CASE DoesSaveBridge
      <4>1. "FuelL2BridgeId" \notin Proxies
        BY DEF Proxies
      <4> QED
        BY <2>3, <3>3, <4>1 DEF DoesSaveBridge
    <3>4. CASE files' = files
      BY <3>4, RecordedStays
    <3> QED
      BY <2>2, <3>1, <3>2, <3>3, <3>4 DEF MainnetDoes, DoesDeploy, DoesUpgrade, DoesPrepare,
          DoesExecute, DoesPropose
  <2>5. DOMAIN files.records \subseteq DOMAIN files'.records
    BY <2>2 DEF MainnetDoes, DoesDeploy, DoesUpgrade, DoesPrepare, DoesExecute, DoesPropose,
        DoesSave, DoesSavePrepared, DoesSaveBridge, SavesAs
  <2>6. ASSUME NEW p \in Proxies, Reached(Creator(p), 2)'
        PROVE  p \in DOMAIN files'.records
    <3>1. CASE Over(Creator(p))
      BY <2>5, <3>1 DEF MainnetState, RecordsInv, Reached
    <3>2. CASE ~Over(Creator(p))
      <4>1. job.at = Creator(p) /\ job.pc + 1 > 2
        BY <2>1, <2>6, <3>2 DEF Reached, Over
      <4>2. StepCount(Creator(p)) = 2
        BY DEF Creator, StepCount
      <4>3. job.pc = 2
        BY <1>0, <2>1, <4>1, <4>2
      <4>4. step.op = "save" /\ step.name = p
        BY <2>2, <4>1, <4>3, CreatorSteps
      <4> QED
        BY <2>2, <4>4, DoesByKind DEF DoesSave, SavesAs
    <3> QED
      BY <3>1, <3>2
  <2>7. ASSUME job.pc = 1, NEW p \in Proxies, job.at = Creator(p)
        PROVE  job'.address > 0 /\ chain'.contracts[job'.address].contract = ContractOf(p)
    <3>1. step.op = "deployProxy" /\ step.contract = ContractOf(p)
      BY <2>2, <2>7, CreatorSteps
    <3>2. DoesDeploy
      BY <2>2, <3>1, DoesByKind
    <3>3. PICK x : chain'.contracts = Append(Settled, x)
      BY <3>2 DEF DoesDeploy
    <3>4. /\ job'.address = Len(chain.contracts) + 1
          /\ job'.address \in DOMAIN chain'.contracts
          /\ job'.address \notin DOMAIN chain.contracts
      BY <1>0, <3>2, <3>3, SettledContracts, AppendSequence DEF DoesDeploy, IsSequence
    <3> QED
      BY <1>0, <3>1, <3>4, MainnetAdds DEF IsSequence
  <2>8. ASSUME job.pc = 1, job.at = 6
        PROVE  job'.address = files'.records[Portal].address
    <3>1. step.op = "upgradeProxy" /\ step.name = Portal
      BY <2>2, <2>8, UpgradeSteps
    <3> QED
      BY <2>2, <3>1, DoesByKind DEF DoesUpgrade, Address
  <2>9. Saving'
    BY <1>0, <2>1, <2>7, <2>8 DEF Saving, Address
  <2> QED
    BY <2>4, <2>6, <2>9 DEF RecordsInv
<1>4. CASE \E id \in seen.refused : EnterMigration(id)
  BY <1>4 DEF MainnetState, OrderInv
<1> QED
  BY <1>1, <1>2, <1>3, <1>4, NextKinds DEF MainnetState

------------------------------------------------------------------------------
(* Mainnet: what was reached, and proposals *)

LEMMA OverStays ==
    ASSUME MainnetState, [TaskNext]_allVars, NEW i, Over(i)
    PROVE  Over(i)'
<1>1. CASE Step
  BY <1>1, NothingThrows DEF Advances, Over
<1>2. CASE ScriptReturns
  BY <1>2 DEF ScriptReturns, MainnetState, BaseInv, Over
<1>3. CASE \E id \in seen.refused : EnterMigration(id)
  BY <1>3 DEF MainnetState, OrderInv
<1>4. CASE files' = files
  BY <1>4 DEF Over
<1> QED
  BY <1>1, <1>2, <1>3, <1>4, NextKinds DEF MainnetState, vars, Start, NextScript, Mined, Crash,
      Called

\* A step is reached when it is done.
LEMMA NewlyReached ==
    ASSUME MainnetState, [TaskNext]_allVars, NEW i \in 1 .. 21, NEW k \in 1 .. StepCount(i),
           Reached(i, k)', ~Reached(i, k)
    PROVE  /\ Step /\ job.at = i /\ job.pc = k
           /\ MainnetDoes /\ MainnetStep(i, k, step) /\ job.reached = i
<1>0. k \in Nat /\ k > 0 /\ job.pc \in Nat
  BY DEF StepCount, MainnetState, BaseInv
<1>1. CASE UNCHANGED vars \/ Mined \/ Called
  BY <1>1 DEF vars, Mined, Called, Reached, Over
<1>2. CASE Start \/ NextScript \/ Crash
  <2>1. files' = files /\ job'.pc \in {0, 1}
    <3>1. CASE Start
      BY <3>1, IdleJob DEF Start
    <3>2. CASE NextScript
      BY <3>2, NextEffect, IdleJob DEF MainnetState
    <3>3. CASE Crash
      BY <3>3, IdleJob DEF Crash
    <3> QED
      BY <1>2, <3>1, <3>2, <3>3
  <2> QED
    BY <1>0, <2>1 DEF Reached, Over
<1>3. CASE ScriptReturns
  <2>1. /\ job.at \in 1 .. 21 /\ script.id = MainnetIds[job.at]
        /\ Len(script.steps) = StepCount(job.at) /\ job.pc > Len(script.steps)
    BY <1>3, TheScript DEF ScriptReturns, InScript, MainnetState, AsListed
  <2>2. files'.migrations \subseteq files.migrations \union {MainnetIds[job.at]} /\ job'.pc = 0
    BY <1>3, <2>1, IdleJob DEF ScriptReturns, MainnetState, BaseInv
  <2>3. Over(i) \/ i = job.at
    <3>1. Over(i)'
      <4>1. ~(job'.pc > k)
        BY <1>0, <2>2
      <4> QED
        BY <4>1 DEF Reached
    <3>2. MainnetIds[i] \in files.migrations \/ MainnetIds[i] = MainnetIds[job.at]
      BY <2>2, <3>1 DEF Over
    <3> QED
      BY <2>1, <3>2, IdsDiffer DEF Over
  <2>4. StepCount(i) \in Nat
    BY DEF StepCount
  <2> QED
    BY <1>0, <2>1, <2>3, <2>4 DEF Reached
<1>4. CASE Step
  <2>1. files'.migrations = files.migrations /\ job'.at = job.at /\ job'.pc = job.pc + 1
    BY <1>4, NothingThrows DEF Advances
  <2>2. job.at = i /\ job.pc = k
    BY <1>0, <2>1 DEF Reached, Over
  <2> QED
    BY <1>4, <2>2, StepDoes, TheStep, BeforeAndAfter DEF MainnetState, Step, InScript
<1>5. CASE \E id \in seen.refused : EnterMigration(id)
  BY <1>5 DEF MainnetState, OrderInv
<1> QED
  BY <1>1, <1>2, <1>3, <1>4, <1>5, NextKinds DEF MainnetState

\* Once the last script that saves the portal is over, its record stays.
LEMMA RecordKept ==
    ASSUME MainnetState, [TaskNext]_allVars, Over(20)
    PROVE  files'.records = files.records
<1>1. CASE Step
  <2>1. job.at = 21
    <3>1. job.at \in 1 .. 21 /\ ~(job.at <= 20)
      BY <1>1, BeforeAndAfter DEF Step, InScript
    <3> QED
      BY <3>1
  <2>2. /\ ~DoesSave /\ ~DoesSavePrepared /\ ~DoesSaveBridge
    BY <2>1 DEF DoesSave, Saves, SavedIn, DoesSavePrepared, SavesPrepared, PreparedIn,
        DoesSaveBridge, SavesBridge
  <2> QED
    BY <1>1, <2>2, StepDoes DEF MainnetDoes, DoesDeploy, DoesUpgrade, DoesPrepare, DoesExecute,
        DoesPropose
<1>2. CASE ScriptReturns
  BY <1>2 DEF ScriptReturns, MainnetState, BaseInv
<1>3. CASE \E id \in seen.refused : EnterMigration(id)
  BY <1>3 DEF MainnetState, OrderInv
<1>4. CASE files' = files
  BY <1>4
<1> QED
  BY <1>1, <1>2, <1>3, <1>4, NextKinds DEF MainnetState, vars, Start, NextScript, Mined, Crash,
      Called

LEMMA ProposedStays ==
    ASSUME MainnetState, [TaskNext]_allVars, NEW c, ProposedCall(c)
    PROVE  ProposedCall(c)'
<1>1. CASE Proposable(c.call)
  BY <1>1 DEF ProposedCall
<1>2. CASE /\ c.name = Portal /\ Over(20)
           /\ c.call = UpgradeTo(files.records[Portal].implementation)
  <2>1. Over(20)' /\ files'.records = files.records
    BY <1>2, OverStays, RecordKept
  <2> QED
    BY <1>2, <2>1 DEF ProposedCall
<1> QED
  BY <1>1, <1>2 DEF ProposedCall

LEMMA NextProposals ==
    ASSUME MainnetState, [TaskNext]_allVars
    PROVE  ProposalsInv'
<1>1. ASSUME NEW p \in safe'.open, NEW k \in DOMAIN p.calls
      PROVE  ProposedCall(p.calls[k])'
  <2>1. CASE p \in safe.open
    <3>1. ProposedCall(p.calls[k])
      BY <2>1 DEF MainnetState, ProposalsInv
    <3> QED
      BY <3>1, ProposedStays
  <2>2. CASE p \notin safe.open
    <3>1. Step
      BY <2>2, NextKinds, NextEffect DEF MainnetState, vars, Start, ScriptReturns, Mined,
          Crash, EnterMigration, Called
    <3>2. DoesPropose
      BY <2>2, <3>1, StepDoes DEF MainnetDoes, DoesDeploy, DoesUpgrade, DoesPrepare,
          DoesExecute, DoesSave, DoesSavePrepared, DoesSaveBridge, SavesAs
    <3>3. PICK calls :
            /\ \/ Proposes(job.at, job.pc, step) /\ calls = step.calls
               \/ /\ ProposesUpgrade(job.at, job.pc, step)
                  /\ calls = <<[name |-> step.name,
                                call |-> UpgradeTo(files.records[step.name].implementation)]>>
            /\ safe'.open = safe.open \union
                    {[nonce |-> safe.nonce, script |-> script.id, calls |-> calls]}
      BY <3>2 DEF DoesPropose
    <3>4. p.calls = calls /\ files' = files
      BY <2>2, <3>2, <3>3 DEF DoesPropose
    <3>5. CASE Proposes(job.at, job.pc, step) /\ calls = step.calls
      BY <1>1, <3>4, <3>5 DEF Proposes, ProposedCall
    <3>6. CASE /\ ProposesUpgrade(job.at, job.pc, step)
               /\ calls = <<[name |-> step.name,
                             call |-> UpgradeTo(files.records[step.name].implementation)]>>
      <4>1. job.at = 21 /\ step.name = Portal
        BY <3>6 DEF ProposesUpgrade, Portal
      <4>2. Over(20)
        BY <3>1, <4>1, BeforeAndAfter DEF Step, InScript, Due
      <4>3. /\ p.calls[k].name = Portal
            /\ p.calls[k].call = UpgradeTo(files.records[Portal].implementation)
        BY <1>1, <3>4, <3>6, <4>1
      <4> QED
        BY <3>4, <4>2, <4>3 DEF ProposedCall, Over, Portal, Proxies
    <3> QED
      BY <3>3, <3>5, <3>6
  <2> QED
    BY <2>1, <2>2
<1>2. ASSUME Reached(7, 1)'
      PROVE  chain'.sent = NothingSent
  <2>0. StepCount(7) = 2
    BY DEF StepCount
  <2>1. CASE Reached(7, 1)
    <3>1. chain.sent = NothingSent
      BY <2>1 DEF MainnetState, ProposalsInv
    <3>2. CASE Step
      <4>1. job.at # 6
        <5>1. job.at <= 7 => ~Over(7)
          BY <3>2, BeforeAndAfter DEF Step, InScript
        <5> QED
          BY <2>1, <5>1 DEF Reached
      <4>2. ~DoesUpgrade
        BY <4>1 DEF DoesUpgrade, Upgrades
      <4> QED
        BY <3>1, <3>2, <4>2, StepDoes DEF MainnetDoes, DoesDeploy, DoesPrepare, DoesExecute,
            DoesSave, DoesSavePrepared, DoesSaveBridge, SavesAs, DoesPropose
    <3>3. CASE Mined
      BY <3>1, <3>3 DEF Mined
    <3>4. CASE ~Step /\ ~Mined
      BY <3>1, <3>4, NextKinds, NextEffect DEF MainnetState, vars, Start, ScriptReturns,
          Crash, EnterMigration, Called
    <3> QED
      BY <3>2, <3>3, <3>4
  <2>2. CASE ~Reached(7, 1)
    <3>1. MainnetDoes /\ MainnetStep(7, 1, step)
      BY <1>2, <2>0, <2>2, NewlyReached
    <3>2. "FuelERC20GatewayV4" \in Proxies /\ Creator("FuelERC20GatewayV4") = 7
      BY DEF Proxies, Creator
    <3>3. step.op = "deployProxy"
      BY <3>1, <3>2, CreatorSteps
    <3> QED
      BY <3>1, <3>3, DoesByKind DEF DoesDeploy
  <2> QED
    BY <2>1, <2>2
<1> QED
  BY <1>1, <1>2 DEF ProposalsInv

LEMMA InitProposals == TaskInit /\ network.name = "mainnet" => ProposalsInv
BY DEF TaskInit, Init, ProposalsInv

------------------------------------------------------------------------------
(* Mainnet: the hand-over and what is given up *)

LEMMA InitRoles == TaskInit /\ network.name = "mainnet" => RolesInv
<1> SUFFICES ASSUME TaskInit, network.name = "mainnet"
             PROVE  RolesInv
  OBVIOUS
<1>1. /\ chain.contracts = <<>> /\ files.migrations = {} /\ job.pc = 0
  BY IdleJob DEF TaskInit, Init
<1>2. DOMAIN chain.contracts = {}
  BY <1>1
<1>3. ASSUME NEW i \in 1 .. 21, NEW k \in 1 .. StepCount(i)
      PROVE  ~Reached(i, k)
  <2>1. k > 0
    BY DEF StepCount
  <2> QED
    BY <1>1, <2>1 DEF Reached, Over
<1>4. StepCount(15) = 6
  BY DEF StepCount
<1> QED
  BY <1>2, <1>3, <1>4 DEF RolesInv

\* The steps of the scripts that hand over.
LEMMA HandOverSteps ==
    ASSUME NEW i \in 12 .. 14, NEW k \in 1 .. StepCount(i), NEW s, MainnetStep(i, k, s)
    PROVE  HandsOver(i, k, s) /\ s.op = "execute"
<1>1. i \in {12, 13, 14}
  OBVIOUS
<1>2. CASE i = 12
  BY <1>2 DEF MainnetStep, Deploys, Saves, SavedIn, Upgrades, Prepares, SavesPrepared,
      PreparedIn, Grants, HandsOver, SetsUp, SavesBridge, Renounces, Proposes, ProposesUpgrade
<1>3. CASE i = 13
  BY <1>3 DEF MainnetStep, Deploys, Saves, SavedIn, Upgrades, Prepares, SavesPrepared,
      PreparedIn, Grants, HandsOver, SetsUp, SavesBridge, Renounces, Proposes, ProposesUpgrade
<1>4. CASE i = 14
  BY <1>4 DEF MainnetStep, Deploys, Saves, SavedIn, Upgrades, Prepares, SavesPrepared,
      PreparedIn, Grants, HandsOver, SetsUp, SavesBridge, Renounces, Proposes, ProposesUpgrade
<1> QED
  BY <1>1, <1>2, <1>3, <1>4

LEMMA GivingUpSteps ==
    ASSUME NEW k \in 1 .. 6, NEW s, MainnetStep(15, k, s)
    PROVE  Renounces(15, k, s) /\ s.op = "execute"
BY DEF MainnetStep, Deploys, Saves, SavedIn, Upgrades, Prepares, SavesPrepared, PreparedIn, Grants,
    HandsOver, SetsUp, SavesBridge, Renounces, Proposes, ProposesUpgrade

LEMMA HandedNames ==
    /\ \A i \in 12 .. 14 : \A k \in 1 .. StepCount(i) :
            HandOver(i, k)[1] \in Proxies /\ Creator(HandOver(i, k)[1]) < 12
    /\ \A k \in 1 .. 6 : GivenUp(k)[1] \in Proxies /\ Creator(GivenUp(k)[1]) < 12
BY DEF HandOver, GivenUp, StepCount, Proxies, Creator

\* Once a script after it was begun, the script that deploys a proxy is over.
LEMMA CreatorOver ==
    ASSUME MainnetState, NEW p \in Proxies, NEW i \in 1 .. 21, Creator(p) < i,
           Over(i) \/ (job.pc > 0 /\ job.at = i)
    PROVE  Over(Creator(p))
<1>1. Creator(p) \in 1 .. 21 /\ Due(Creator(p))
  BY DEF Creator, Due
<1>2. CASE Over(i)
  BY <1>1, <1>2 DEF MainnetState, OrderInv
<1>3. CASE job.pc > 0 /\ job.at = i
  BY <1>1, <1>3, BeforeAndAfter
<1> QED
  BY <1>2, <1>3

\* What a recorded proxy has of roles that were handed over stays.
LEMMA HandedStays ==
    ASSUME MainnetState, [TaskNext]_allVars, NEW p \in Proxies, Over(Creator(p)), NEW r,
           <<r, "multisig">> \in Contract(p).roles
    PROVE  (<<r, "multisig">> \in Contract(p).roles)'
<1>1. Address(p) \in DOMAIN chain.contracts
  BY Known
<1>2. files'.records[p].address = Address(p)
  BY AddressKept
<1>3. Kept(chain.contracts[Address(p)], chain'.contracts[Address(p)])
  BY <1>1, MainnetKeeps
<1>4. <<r, "multisig">> \in chain'.contracts[Address(p)].roles
  BY <1>3 DEF Kept, Contract
<1> QED
  BY <1>2, <1>4 DEF Contract, Address

\* What the deployer gave up it does not get again.
LEMMA GivenUpStays ==
    ASSUME MainnetState, [TaskNext]_allVars, NEW p \in Proxies, Over(Creator(p)), NEW r,
           <<r, "deployer">> \notin Contract(p).roles
    PROVE  (<<r, "deployer">> \notin Contract(p).roles)'
<1>1. Address(p) \in DOMAIN chain.contracts
  BY Known
<1>2. files'.records[p].address = Address(p)
  BY AddressKept
<1>3. Kept(chain.contracts[Address(p)], chain'.contracts[Address(p)])
  BY <1>1, MainnetKeeps
<1>4. <<r, "deployer">> \notin chain'.contracts[Address(p)].roles
  BY <1>3 DEF Kept, Contract
<1> QED
  BY <1>2, <1>4 DEF Contract, Address

\* Reached is begun.
LEMMA ReachedOver ==
    ASSUME MainnetState, NEW i \in 12 .. 15, NEW k \in 1 .. StepCount(i), Reached(i, k),
           NEW p \in Proxies, Creator(p) < 12
    PROVE  Over(Creator(p))
<1>1. k > 0 /\ job.pc \in Nat /\ k \in Nat
  BY DEF StepCount, MainnetState, BaseInv
<1>2. Creator(p) < i /\ i \in 1 .. 21
  BY DEF Creator
<1>3. Over(i) \/ (job.pc > 0 /\ job.at = i)
  BY <1>1 DEF Reached
<1> QED
  BY <1>2, <1>3, CreatorOver

\* A call of the step is made to the contract recorded, and leaves the records.
LEMMA ExecutedCall ==
    ASSUME MainnetState, Step, MainnetDoes, Executes(job.at, job.pc, step), step.op = "execute"
    PROVE  /\ Address(step.name) \in DOMAIN chain.contracts
           /\ DOMAIN Settled[Address(step.name)] = ContractFields
           /\ chain'.contracts[Address(step.name)] =
                    After(Settled[Address(step.name)], "deployer", step.call)
           /\ files' = files
<1>1. Address(step.name) \in DOMAIN chain.contracts
  BY DeployerAllowed
<1>2. /\ DOMAIN Settled = DOMAIN chain.contracts
      /\ DOMAIN Settled[Address(step.name)] = ContractFields
  BY <1>1, SettledContracts DEF MainnetState
<1>3. DoesExecute
  BY DoesByKind
<1>4. /\ chain'.contracts = [Settled EXCEPT ![Address(step.name)] =
            After(Settled[Address(step.name)], "deployer", step.call)]
      /\ files' = files
  BY <1>3 DEF DoesExecute
<1>5. chain'.contracts[Address(step.name)] =
            After(Settled[Address(step.name)], "deployer", step.call)
  BY <1>1, <1>2, <1>4
<1> QED
  BY <1>1, <1>2, <1>4, <1>5

\* The transaction of a step of a hand-over, and of relinquish_ownership.
LEMMA NewlyHanded ==
    ASSUME MainnetState, [TaskNext]_allVars, NEW i \in 12 .. 14, NEW k \in 1 .. StepCount(i),
           Reached(i, k)', ~Reached(i, k)
    PROVE  HandedOver(i, k)'
<1> DEFINE n == HandOver(i, k)[1]
<1> DEFINE r == HandOver(i, k)[2]
<1>1. /\ Step /\ job.at = i /\ job.pc = k
      /\ MainnetDoes /\ MainnetStep(i, k, step)
  BY NewlyReached
<1>2. HandsOver(i, k, step) /\ step.op = "execute"
  BY <1>1, HandOverSteps
<1>3. step.name = n /\ step.call = GrantRole(r, "multisig")
  BY <1>2 DEF HandsOver
<1> DEFINE c == Settled[Address(step.name)]
<1>4. /\ DOMAIN c = ContractFields /\ files' = files
      /\ chain'.contracts[Address(step.name)] = After(c, "deployer", step.call)
  BY <1>1, <1>2, ExecutedCall DEF Executes
<1> HIDE DEF n, r, c
<1>5. After(c, "deployer", step.call) = Granted(c, r, "multisig")
  BY <1>3 DEF After, GrantRole
<1>6. <<r, "multisig">> \in Granted(c, r, "multisig").roles
  BY <1>4 DEF Granted, ContractFields
<1>7. <<r, "multisig">> \in chain'.contracts[files'.records[n].address].roles
  BY <1>3, <1>4, <1>5, <1>6 DEF Address
<1> QED
  BY <1>7 DEF HandedOver, Contract, Address, n, r

LEMMA NewlyGivenUp ==
    ASSUME MainnetState, [TaskNext]_allVars, NEW k \in 1 .. 6, Reached(15, k)', ~Reached(15, k)
    PROVE  Relinquished(k)'
<1> DEFINE n == GivenUp(k)[1]
<1> DEFINE r == GivenUp(k)[2]
<1>0. k \in 1 .. StepCount(15) /\ 15 \in 1 .. 21
  BY DEF StepCount
<1>1. /\ Step /\ job.at = 15 /\ job.pc = k
      /\ MainnetDoes /\ MainnetStep(15, k, step)
  BY <1>0, NewlyReached
<1>2. Renounces(15, k, step) /\ step.op = "execute"
  BY <1>1, GivingUpSteps
<1>3. step.name = n /\ step.call = RenounceRole(r, "deployer")
  BY <1>2 DEF Renounces
<1> DEFINE c == Settled[Address(step.name)]
<1>4. /\ DOMAIN c = ContractFields /\ files' = files
      /\ chain'.contracts[Address(step.name)] = After(c, "deployer", step.call)
  BY <1>1, <1>2, ExecutedCall DEF Executes
<1> HIDE DEF n, r, c
<1>5. After(c, "deployer", step.call).roles = c.roles \ {<<r, "deployer">>}
  BY <1>3, <1>4, RenouncedKept
<1>6. <<r, "deployer">> \notin chain'.contracts[files'.records[n].address].roles
  BY <1>3, <1>4, <1>5 DEF Address
<1> QED
  BY <1>6 DEF Relinquished, Contract, Address, n, r

LEMMA NextRoles ==
    ASSUME MainnetState, [TaskNext]_allVars
    PROVE  RolesInv'
<1>1. ASSUME NEW a \in DOMAIN chain'.contracts
      PROVE  OwnRoles(chain'.contracts[a])
  <2>1. CASE a \in DOMAIN chain.contracts
    <3>1. OwnRoles(chain.contracts[a])
      BY <2>1 DEF MainnetState, RolesInv
    <3>2. Kept(chain.contracts[a], chain'.contracts[a])
      BY <2>1, MainnetKeeps
    <3> QED
      BY <3>1, <3>2 DEF OwnRoles, Kept
  <2> QED
    BY <1>1, <2>1, MainnetAdds
<1>2. ASSUME ~Over(14)', NEW a \in DOMAIN chain'.contracts
      PROVE  Deployers(chain'.contracts[a])
  <2>1. CASE a \in DOMAIN chain.contracts
    <3>1. ~Over(14)
      BY <1>2, OverStays
    <3>2. Deployers(chain.contracts[a])
      BY <2>1, <3>1 DEF MainnetState, RolesInv
    <3>3. ~Renounced(a)
      <4>1. SUFFICES ASSUME Step, job.at = 15
                     PROVE  FALSE
        BY DEF Renounced, Renounces
      <4> QED
        BY <3>1, <4>1, BeforeAndAfter DEF Step, InScript, Due
    <3>4. /\ Kept(chain.contracts[a], chain'.contracts[a])
          /\ chain.contracts[a].roles \subseteq chain'.contracts[a].roles
      BY <2>1, <3>3, MainnetKeeps
    <3> QED
      BY <3>2, <3>4 DEF Deployers, Kept
  <2> QED
    BY <1>2, <2>1, MainnetAdds
<1>3. ASSUME NEW i \in 12 .. 14, NEW k \in 1 .. StepCount(i), Reached(i, k)'
      PROVE  HandedOver(i, k)'
  <2>1. CASE Reached(i, k)
    <3>1. HandedOver(i, k)
      BY <2>1 DEF MainnetState, RolesInv
    <3>2. HandOver(i, k)[1] \in Proxies /\ Creator(HandOver(i, k)[1]) < 12
      BY HandedNames
    <3>3. Over(Creator(HandOver(i, k)[1]))
      BY <2>1, <3>2, ReachedOver
    <3> QED
      BY <3>1, <3>2, <3>3, HandedStays DEF HandedOver
  <2> QED
    BY <1>3, <2>1, NewlyHanded
<1>4. ASSUME NEW k \in 1 .. 6, Reached(15, k)'
      PROVE  Relinquished(k)'
  <2>1. CASE Reached(15, k)
    <3>1. Relinquished(k)
      BY <2>1 DEF MainnetState, RolesInv
    <3>2. GivenUp(k)[1] \in Proxies /\ Creator(GivenUp(k)[1]) < 12
      BY HandedNames
    <3>3. Over(Creator(GivenUp(k)[1]))
      <4>1. k \in 1 .. StepCount(15)
        BY DEF StepCount
      <4> QED
        BY <2>1, <3>2, <4>1, ReachedOver
    <3> QED
      BY <3>1, <3>2, <3>3, GivenUpStays DEF Relinquished
  <2> QED
    BY <1>4, <2>1, NewlyGivenUp
<1> QED
  BY <1>1, <1>2, <1>3, <1>4 DEF RolesInv

------------------------------------------------------------------------------
(* The invariant, and who governs *)

LEMMA InitCalls == TaskInit => CallInv
BY InitShape DEF TaskInit, CallInv

LEMMA InitDeploy == TaskInit => DeployInv
BY InitBase, InitCalls, InitJob, InitOthers, InitOrder, InitRecords, InitProposals, InitRoles
    DEF DeployInv, MainnetInv

LEMMA NextDeploy == DeployInv /\ [TaskNext]_allVars => DeployInv'
<1> SUFFICES ASSUME DeployInv, [TaskNext]_allVars
             PROVE  DeployInv'
  OBVIOUS
<1>0. BaseInv /\ CallInv /\ JobInv /\ OthersInv /\ MainnetInv
  BY DEF DeployInv
<1>1. BaseInv' /\ CallInv' /\ JobInv' /\ OthersInv' /\ network' = network
  BY <1>0, NextBase, NextCalls, NextJob, NextOthers, NetworkStays
<1>2. ASSUME network.name = "mainnet"
      PROVE  (OrderInv /\ RecordsInv /\ ProposalsInv /\ RolesInv)'
  <2>1. MainnetState
    BY <1>0, <1>2 DEF MainnetState, MainnetInv
  <2>2. OrderInv'
    BY <1>0, <1>2, <2>1, NothingThrows, NextOrder DEF MainnetInv
  <2> QED
    BY <2>1, <2>2, NextRecords, NextProposals, NextRoles
<1> QED
  BY <1>1, <1>2 DEF DeployInv, MainnetInv

LEMMA DeployInvariant == TaskSpec => []DeployInv
BY InitDeploy, NextDeploy, PTL DEF TaskSpec

\* A recorded contract is one of the three proxies.
LEMMA RecordedProxy ==
    ASSUME MainnetState, NEW n \in Contracts
    PROVE  /\ n \in Proxies /\ Contract(n).contract = ContractOf(n)
           /\ Address(n) \in DOMAIN chain.contracts
<1>1. n \in DOMAIN files.records /\ Address(n) > 0
  BY DEF Contracts
<1>2. RecordedContract(n)
  BY <1>1 DEF MainnetState, RecordsInv
<1>3. n \in Proxies
  BY <1>1, <1>2 DEF RecordedContract
<1>4. Address(n) \in 0 .. Len(chain.contracts) /\ IsSequence(chain.contracts)
  BY <1>1 DEF MainnetState, BaseInv
<1> QED
  BY <1>1, <1>2, <1>3, <1>4 DEF RecordedContract, IsSequence

\* After the hand-over the multisig administers and pauses.
LEMMA MultisigGoverns ==
    ASSUME MainnetState, Over(14), NEW n \in Proxies, NEW r \in {"DEFAULT_ADMIN_ROLE", "PAUSER_ROLE"}
    PROVE  <<r, "multisig">> \in Contract(n).roles
<1>1. Over(12) /\ Over(13)
  BY DEF MainnetState, OrderInv, Due
<1>2. \A i \in 12 .. 14 : \A k \in 1 .. StepCount(i) : HandedOver(i, k)
  <2>1. \A i \in 12 .. 14 : i = 12 \/ i = 13 \/ i = 14
    OBVIOUS
  <2> QED
    BY <1>1, <2>1 DEF MainnetState, RolesInv, Reached
<1>3. /\ HandedOver(12, 1) /\ HandedOver(12, 2)
      /\ HandedOver(13, 1) /\ HandedOver(13, 2)
      /\ HandedOver(14, 1) /\ HandedOver(14, 2)
  <2>1. StepCount(12) = 3 /\ StepCount(13) = 2 /\ StepCount(14) = 3
    BY DEF StepCount
  <2> QED
    BY <1>2, <2>1
<1>4. /\ HandOver(12, 1) = <<"FuelMessagePortal", "DEFAULT_ADMIN_ROLE">>
      /\ HandOver(12, 2) = <<"FuelMessagePortal", "PAUSER_ROLE">>
      /\ HandOver(13, 1) = <<"FuelChainState", "DEFAULT_ADMIN_ROLE">>
      /\ HandOver(13, 2) = <<"FuelChainState", "PAUSER_ROLE">>
      /\ HandOver(14, 1) = <<"FuelERC20GatewayV4", "DEFAULT_ADMIN_ROLE">>
      /\ HandOver(14, 2) = <<"FuelERC20GatewayV4", "PAUSER_ROLE">>
  BY DEF HandOver
<1> QED
  BY <1>3, <1>4 DEF HandedOver, Proxies

\* Once ownership is relinquished, the deployer can only pause.
LEMMA DeployerRetired ==
    ASSUME MainnetState, Over(15), NEW n \in Contracts, NEW r,
           <<r, "deployer">> \in Contract(n).roles
    PROVE  r = "PAUSER_ROLE"
<1>1. /\ n \in Proxies /\ Contract(n).contract = ContractOf(n)
      /\ Address(n) \in DOMAIN chain.contracts
  BY RecordedProxy
<1>2. OwnRoles(Contract(n))
  BY <1>1 DEF MainnetState, RolesInv, Contract
<1>3. r \in DeployersRoles(ContractOf(n))
  BY <1>1, <1>2 DEF OwnRoles
<1>4. \A k \in 1 .. 6 : Relinquished(k)
  BY DEF MainnetState, RolesInv, Reached
<1>5. Relinquished(1) /\ Relinquished(2) /\ Relinquished(3) /\ Relinquished(4)
      /\ Relinquished(5) /\ Relinquished(6)
  BY <1>4
<1>6. /\ GivenUp(1) = <<"FuelMessagePortal", "DEFAULT_ADMIN_ROLE">>
      /\ GivenUp(2) = <<"FuelMessagePortal", "SET_RATE_LIMITER_ROLE">>
      /\ GivenUp(3) = <<"FuelERC20GatewayV4", "DEFAULT_ADMIN_ROLE">>
      /\ GivenUp(4) = <<"FuelERC20GatewayV4", "SET_RATE_LIMITER_ROLE">>
      /\ GivenUp(5) = <<"FuelChainState", "DEFAULT_ADMIN_ROLE">>
      /\ GivenUp(6) = <<"FuelChainState", "COMMITTER_ROLE">>
  BY DEF GivenUp
<1>7. CASE n = "FuelMessagePortal"
  BY <1>3, <1>5, <1>6, <1>7 DEF Relinquished, DeployersRoles, ContractOf
<1>8. CASE n = "FuelERC20GatewayV4"
  BY <1>3, <1>5, <1>6, <1>8 DEF Relinquished, DeployersRoles, ContractOf
<1>9. CASE n = "FuelChainState"
  BY <1>3, <1>5, <1>6, <1>9 DEF Relinquished, DeployersRoles, ContractOf
<1> QED
  BY <1>1, <1>7, <1>8, <1>9 DEF Proxies

LEMMA MainnetGoverned ==
    ASSUME MainnetState
    PROVE  Governed
<1>0. {"deployer", "multisig"} \subseteq Accounts
  BY DEF Accounts
<1>1. ASSUME NEW n \in Contracts
      PROVE  Holders(Contract(n), "DEFAULT_ADMIN_ROLE") # {}
  <2>1. n \in Proxies /\ Address(n) \in DOMAIN chain.contracts
    BY RecordedProxy
  <2>2. CASE Over(14)
    <3>1. <<"DEFAULT_ADMIN_ROLE", "multisig">> \in Contract(n).roles
      BY <2>1, <2>2, MultisigGoverns
    <3> QED
      BY <1>0, <3>1 DEF Holders
  <2>3. CASE ~Over(14)
    <3>1. Deployers(Contract(n))
      BY <2>1, <2>3 DEF MainnetState, RolesInv, Contract
    <3> QED
      BY <1>0, <3>1 DEF Deployers, Holders
  <2> QED
    BY <2>2, <2>3
<1>2. ASSUME "relinquish_ownership" \in files.migrations, NEW n \in Contracts
      PROVE  /\ \A r \in Roles \ {"PAUSER_ROLE"} : ~Has(Contract(n), r, "deployer")
             /\ \A r \in {"DEFAULT_ADMIN_ROLE", "PAUSER_ROLE"} : Has(Contract(n), r, "multisig")
  <2>1. Over(15)
    BY <1>2 DEF Over, MainnetIds
  <2>2. Over(14) /\ n \in Proxies
    BY <2>1, RecordedProxy DEF MainnetState, OrderInv, Due
  <2> QED
    BY <2>1, <2>2, DeployerRetired, MultisigGoverns DEF Has
<1> QED
  BY <1>1, <1>2 DEF Governed

\* However runs of the scripts are cut short and repeated, and whatever tasks and
\* the multisig do meanwhile, no recorded contract is without an administrator,
\* and once relinquish_ownership is recorded the deployer can only pause and the
\* multisig governs.
THEOREM GovernedThroughout == TaskSpec => []Governed
<1>1. DeployInv => Governed
  <2>1. DeployInv /\ network.name = "mainnet" => MainnetState
    BY DEF DeployInv, MainnetInv, MainnetState
  <2> QED
    BY <2>1, MainnetGoverned, OthersGoverned DEF DeployInv
<1> QED
  BY <1>1, DeployInvariant, PTL

------------------------------------------------------------------------------
(* Pauses *)

\* Scripts after relinquish_ownership leave the chain to the multisig.
LEMMA LaterSteps ==
    ASSUME MainnetState, Over(14), Step, job.at # 15
    PROVE  chain' = chain
<1>1. job.at \in 1 .. 21 /\ ~(job.at <= 15)
  <2>1. /\ job.at \in 1 .. 21
        /\ \A i \in 1 .. 21 : job.at <= i => ~Over(i)
    BY BeforeAndAfter DEF Step, InScript
  <2>2. ~(job.at <= 14)
    BY <2>1
  <2> QED
    BY <2>1, <2>2
<1>2. ~DoesDeploy
  <2>1. job.at \notin {1, 2, 7}
    BY <1>1
  <2> QED
    BY <2>1 DEF DoesDeploy, Deploys
<1>3. ~DoesUpgrade
  <2>1. job.at # 6
    BY <1>1
  <2> QED
    BY <2>1 DEF DoesUpgrade, Upgrades
<1>4. ~DoesExecute
  <2>1. job.at \notin {3, 4, 5, 8, 9, 10, 11, 12, 13, 14, 15}
    BY <1>1
  <2> QED
    BY <2>1 DEF DoesExecute, Executes, Grants, HandsOver, SetsUp, Renounces
<1> QED
  BY <1>2, <1>3, <1>4, StepDoes DEF MainnetDoes, DoesSave, DoesSavePrepared, DoesSaveBridge,
      DoesPrepare, DoesPropose, SavesAs

\* Of those who sign tasks, none administers what the multisig governs.
LEMMA SignersDoNotAdminister ==
    ASSUME MainnetState, Over(15), NEW n \in Contracts, NEW x,
           <<"DEFAULT_ADMIN_ROLE", x>> \in Contract(n).roles
    PROVE  x = "multisig" /\ x \notin Signers
<1>1. Address(n) \in DOMAIN chain.contracts
  BY RecordedProxy
<1>2. x \in {"deployer", "multisig"}
  BY <1>1 DEF MainnetState, RolesInv, OwnRoles, Contract
<1>3. x # "deployer"
  BY DeployerRetired
<1> QED
  BY <1>2, <1>3, TaskBounds

LEMMA PausedStays ==
    ASSUME MainnetState, [TaskNext]_allVars, Over(15), NEW n \in Contracts, Contract(n).paused
    PROVE  Contract(n).paused'
<1> DEFINE a == Address(n)
<1>0. /\ n \in Proxies /\ a \in DOMAIN chain.contracts
      /\ DOMAIN chain.contracts[a] = ContractFields /\ Over(14)
  BY RecordedProxy DEF MainnetState, BaseInv, OrderInv, Due
<1>1. Over(Creator(n))
  BY <1>0, CreatorOver DEF Creator
<1>2. files'.records[n].address = a
  BY <1>0, <1>1, AddressKept
<1>3. chain.contracts[a].paused
  BY DEF Contract
<1>4. SUFFICES chain'.contracts[a].paused
  BY <1>2 DEF Contract, Address
<1>5. CASE Step
  <2>1. job.at # 15
    BY <1>5, BeforeAndAfter DEF Step, InScript
  <2> QED
    BY <1>0, <1>3, <1>5, <2>1, LaterSteps
<1>6. CASE Mined
  <2>1. chain'.contracts = Settled
    BY <1>6 DEF Mined, MainnetState, BaseInv
  <2> QED
    BY <1>0, <1>3, <2>1, SettledContracts, ReimplementedFields DEF MainnetState
<1>7. CASE Called
  <2>1. CASE chain'.contracts[a] = chain.contracts[a]
    BY <1>3, <2>1
  <2>2. CASE chain'.contracts[a] # chain.contracts[a]
    <3>1. PICK sender, call :
            /\ \/ sender \in Signers /\ call \in TaskCalls
               \/ sender = "multisig" /\ call \in OwnersCalls(a)
            /\ Allowed(chain.contracts[a], sender, call)
            /\ chain'.contracts[a] = After(chain.contracts[a], sender, call)
      BY <1>0, <1>7, <2>2 DEF Called
    <3>2. call.fn # "unpause"
      <4>1. CASE sender \in Signers /\ call \in TaskCalls
        <5>1. SUFFICES ASSUME call.fn = "unpause"
                       PROVE  FALSE
          OBVIOUS
        <5>2. <<"DEFAULT_ADMIN_ROLE", sender>> \in Contract(n).roles
          BY <3>1, <5>1 DEF Allowed, Needs, Contract
        <5> QED
          BY <4>1, <5>2, SignersDoNotAdminister
      <4>2. CASE call \in OwnersCalls(a)
        <5>1. ASSUME NEW x, call = UpgradeTo(x)
              PROVE  call.fn # "unpause"
          BY <5>1 DEF UpgradeTo
        <5>2. ASSUME NEW p \in safe.open, NEW k \in DOMAIN p.calls, call = p.calls[k].call
              PROVE  call.fn # "unpause"
          <6>1. ProposedCall(p.calls[k])
            BY DEF MainnetState, ProposalsInv
          <6> QED
            BY <5>1, <5>2, <6>1 DEF ProposedCall, Proposable, Call, GrantRole
        <5> QED
          BY <4>2, <5>1, <5>2 DEF OwnersCalls
      <4> QED
        BY <3>1, <4>1, <4>2
    <3> QED
      BY <1>0, <1>3, <3>1, <3>2, AfterFrame
  <2> QED
    BY <2>1, <2>2
<1>8. CASE chain' = chain
  BY <1>3, <1>8
<1> QED
  BY <1>5, <1>6, <1>7, <1>8, NextKinds DEF MainnetState, vars, Start, NextScript, ScriptReturns,
      Crash, EnterMigration

\* Once relinquish_ownership is recorded, no account that signs tasks can end the
\* pause of a recorded contract.
THEOREM PauseStandsThroughout == TaskSpec => PauseStands
<1>1. DeployInv /\ [TaskNext]_allVars =>
        [\A n \in Contracts :
            /\ "relinquish_ownership" \in files.migrations
            /\ Contract(n).paused
            => Contract(n).paused']_allVars
  <2> SUFFICES ASSUME DeployInv, [TaskNext]_allVars, NEW n \in Contracts,
                      "relinquish_ownership" \in files.migrations, Contract(n).paused
               PROVE  Contract(n).paused'
    OBVIOUS
  <2>1. network.name = "mainnet"
    BY DEF DeployInv, OthersInv, HandOverIds
  <2>2. MainnetState
    BY <2>1 DEF DeployInv, MainnetInv, MainnetState
  <2>3. Over(15)
    BY DEF Over, MainnetIds
  <2> QED
    BY <2>2, <2>3, PausedStays
<1> QED
  BY <1>1, DeployInvariant, PTL DEF TaskSpec, PauseStands

------------------------------------------------------------------------------
(* Tasks that only read *)

\* A task is as it was, just begun, or took a step.
LEMMA NextTasks ==
    ASSUME ShapeInv, [TaskNext]_allVars, NEW j \in DOMAIN tasks'
    PROVE  \/ j \in DOMAIN tasks /\ tasks'[j] = tasks[j]
           \/ TaskStarts(tasks'[j]) /\ UNCHANGED <<network, chain, files, job, safe>>
           \/ /\ j \in DOMAIN tasks /\ ShapedTask(tasks[j])
              /\ TaskStep(j) /\ tasks'[j].kind = tasks[j].kind
<1>1. CASE UNCHANGED tasks
  BY <1>1
<1>2. CASE StartTask
  <2>1. PICK t : TaskStarts(t) /\ tasks' = Append(tasks, t)
    BY <1>2, StartEffect
  <2>2. /\ IsSequence(tasks)
        /\ DOMAIN tasks' = 1 .. Len(tasks) + 1
        /\ \A i \in DOMAIN tasks : tasks'[i] = tasks[i]
        /\ tasks'[Len(tasks) + 1] = t
    BY <2>1, AppendSequence DEF ShapeInv
  <2>3. j \in DOMAIN tasks \/ tasks'[j] = t
    BY <2>2 DEF IsSequence
  <2> QED
    BY <1>2, <2>1, <2>2, <2>3, StartEffect
<1>3. ASSUME NEW i \in DOMAIN tasks, TaskStep(i)
      PROVE  \/ j \in DOMAIN tasks /\ tasks'[j] = tasks[j]
             \/ /\ j \in DOMAIN tasks /\ ShapedTask(tasks[j])
                /\ TaskStep(j) /\ tasks'[j].kind = tasks[j].kind
  <2>1. PICK t : tasks' = [tasks EXCEPT ![i] = t] /\ t.kind = tasks[i].kind
    BY <1>3, StepShape
  <2>2. j \in DOMAIN tasks /\ ShapedTask(tasks[j])
    BY <2>1 DEF ShapeInv
  <2>3. CASE j = i
    BY <1>3, <2>1, <2>2, <2>3
  <2>4. CASE j # i
    BY <2>1, <2>2, <2>4
  <2> QED
    BY <2>3, <2>4
<1> QED
  BY <1>1, <1>2, <1>3 DEF TaskNext, allVars, taskVars, NewBlock

LEMMA FilteredStays ==
    ASSUME NEW t, NEW c, NEW d, Kept(c, d), Filtered(t, c.roles)
    PROVE  Filtered(t, d.roles)
<1>1. CASE t.at = "roles"
  <2>1. \A e \in t.before : e \in t.todo \/ e \in t.report \/ e \notin d.roles
    BY <1>1 DEF Filtered, Kept
  <2>2. t.report \subseteq t.before \union d.roles
    BY <1>1 DEF Filtered, Kept
  <2>3. \A r : <<r, "deployer">> \in d.roles => <<r, "deployer">> \in t.before
    BY <1>1 DEF Filtered, Kept
  <2>4. \A e \in t.before : e \in d.roles \/ \E r : e = <<r, "deployer">>
    BY <1>1 DEF Filtered, Kept
  <2> QED
    BY <1>1, <2>1, <2>2, <2>3, <2>4 DEF Filtered
<1> QED
  BY <1>1 DEF Filtered

\* After the hand-over the three proxies are recorded.
LEMMA AllRecorded ==
    ASSUME MainnetState, Over(14), NEW p \in Proxies
    PROVE  /\ Over(Creator(p)) /\ p \in DOMAIN files.records
           /\ Address(p) \in DOMAIN chain.contracts /\ Address(p) > 0
<1>1. Over(Creator(p))
  BY CreatorOver DEF Creator
<1>2. p \in DOMAIN files.records /\ Address(p) \in DOMAIN chain.contracts
  BY <1>1, Known
<1> QED
  BY <1>1, <1>2 DEF MainnetState, BaseInv, IsSequence

LEMMA FilterStays ==
    ASSUME MainnetState, [TaskNext]_allVars, NEW t, FilterTask(t)
    PROVE  FilterTask(t)'
<1> DEFINE n == t.name
<1>1. n \in Proxies /\ Over(14) /\ Filtered(t, Contract(n).roles)
  BY DEF FilterTask
<1>2. network'.name = "mainnet" /\ Over(14)'
  BY <1>1, NetworkStays, OverStays DEF MainnetState
<1>3. Over(Creator(n)) /\ Address(n) \in DOMAIN chain.contracts
  BY <1>1, AllRecorded
<1>4. files'.records[n].address = Address(n)
  BY <1>1, <1>3, AddressKept
<1>5. Kept(chain.contracts[Address(n)], chain'.contracts[Address(n)])
  BY <1>3, MainnetKeeps
<1>6. Filtered(t, chain'.contracts[Address(n)].roles)
  BY <1>1, <1>5, FilteredStays DEF Contract
<1> QED
  BY <1>1, <1>2, <1>4, <1>6 DEF FilterTask, Contract, Address

LEMMA FilterSteps ==
    ASSUME MainnetState, NEW i \in DOMAIN tasks, TaskStep(i), ShapedTask(tasks[i]),
           tasks[i].kind = "filter", FilterTask(tasks[i])
    PROVE  /\ UNCHANGED <<network, chain, files>>
           /\ tasks'[i].name = tasks[i].name
           /\ Filtered(tasks'[i], Contract(tasks[i].name).roles)
<1> DEFINE u == tasks[i]
<1> DEFINE c == Contract(u.name)
<1>1. DOMAIN u = FilterFields
  BY DEF ShapedTask, Deposits, Verifying
<1>2. Filtered(u, c.roles)
  BY DEF FilterTask
<1>3. c.roles \subseteq c.granted
  <2>1. Address(u.name) \in DOMAIN chain.contracts
    BY AllRecorded DEF FilterTask
  <2> QED
    BY <2>1 DEF MainnetState, RolesInv, OwnRoles, Contract
<1>4. CASE QueryEvents(i)
  <2>1. /\ tasks' = [tasks EXCEPT ![i].at = "roles", ![i].before = c.roles, ![i].todo = c.granted]
        /\ u.at = "events" /\ UNCHANGED <<network, chain, files>>
    BY <1>4 DEF QueryEvents
  <2> DEFINE t == [u EXCEPT !.at = "roles", !.before = c.roles, !.todo = c.granted]
  <2>2. tasks'[i] = t
    BY <2>1
  <2>3. /\ t.at = "roles" /\ t.before = c.roles /\ t.todo = c.granted
        /\ t.report = u.report /\ t.name = u.name
    BY <1>1 DEF FilterFields
  <2> HIDE DEF t, c
  <2>4. Filtered(t, c.roles)
    BY <1>2, <1>3, <2>1, <2>3 DEF Filtered
  <2> QED
    BY <2>1, <2>2, <2>3, <2>4 DEF c
<1>5. CASE QueryRole(i) /\ u.todo = {}
  <2>1. /\ tasks' = [tasks EXCEPT ![i].at = "done", ![i].after = c.roles]
        /\ u.at = "roles" /\ UNCHANGED <<network, chain, files>>
    BY <1>5 DEF QueryRole
  <2> DEFINE t == [u EXCEPT !.at = "done", !.after = c.roles]
  <2>2. tasks'[i] = t
    BY <2>1
  <2>3. /\ t.at = "done" /\ t.before = u.before /\ t.after = c.roles
        /\ t.report = u.report /\ t.name = u.name
    BY <1>1 DEF FilterFields
  <2> HIDE DEF t, c
  <2>4. Filtered(t, c.roles)
    BY <1>2, <1>5, <2>1, <2>3 DEF Filtered
  <2> QED
    BY <2>1, <2>2, <2>3, <2>4 DEF c
<1>6. CASE QueryRole(i) /\ u.todo # {}
  <2> DEFINE e == CHOOSE e \in u.todo : TRUE
  <2>1. /\ tasks' = [tasks EXCEPT ![i].todo = @ \ {e},
                          ![i].report = @ \union ({e} \intersect c.roles)]
        /\ u.at = "roles" /\ UNCHANGED <<network, chain, files>>
    BY <1>6 DEF QueryRole
  <2> DEFINE t == [u EXCEPT !.todo = @ \ {e}, !.report = @ \union ({e} \intersect c.roles)]
  <2>2. tasks'[i] = t
    BY <2>1
  <2>3. /\ t.at = u.at /\ t.before = u.before /\ t.todo = u.todo \ {e}
        /\ t.report = u.report \union ({e} \intersect c.roles) /\ t.name = u.name
    BY <1>1 DEF FilterFields
  <2> HIDE DEF t, c, e
  <2>4. Filtered(t, c.roles)
    BY <1>2, <2>1, <2>3 DEF Filtered
  <2> QED
    BY <2>1, <2>2, <2>3, <2>4 DEF c
<1>7. QueryEvents(i) \/ QueryRole(i)
  BY DEF TaskStep, CheckRole, SendCall, Approve, Deposit, QueryNonce, Verify, VerifyEnds, Deposits,
      ShapedTask, Verifying
<1> QED
  BY <1>4, <1>5, <1>6, <1>7

LEMMA NextFilter ==
    ASSUME DeployInv, FilterInv, [TaskNext]_allVars
    PROVE  FilterInv'
<1> SUFFICES ASSUME NEW j \in DOMAIN tasks', tasks'[j].kind = "filter"
             PROVE  FilterTask(tasks[j])'
  BY DEF FilterInv
<1>0. ShapeInv
  BY DEF DeployInv, CallInv
<1>1. network.name = "mainnet" => MainnetState
  BY DEF DeployInv, MainnetInv, MainnetState
<1>2. CASE j \in DOMAIN tasks /\ tasks'[j] = tasks[j]
  <2>1. FilterTask(tasks[j])
    BY <1>2 DEF FilterInv
  <2> DEFINE t == tasks[j]
  <2>2. MainnetState
    BY <1>1, <2>1 DEF FilterTask
  <2>3. \A s : FilterTask(s) => FilterTask(s)'
    BY <2>2, FilterStays
  <2> QED
    BY <1>2, <2>1, <2>3 DEF FilterTask
<1>3. CASE TaskStarts(tasks'[j]) /\ UNCHANGED <<network, chain, files, job, safe>>
  <2>1. FilterStarts(tasks'[j])
    BY <1>3 DEF TaskStarts, CallStarts, DepositStarts, VerifyStarts, Deposits, Verifying
  <2>2. network.name = "mainnet"
    BY <2>1 DEF FilterStarts, DeployInv, OthersInv, HandOverIds
  <2>3. Over(14)
    BY <2>1 DEF FilterStarts, Over, MainnetIds
  <2>4. tasks'[j].name \in Proxies /\ tasks'[j].at \in {"events", "missing"} /\ tasks'[j].report = {}
    BY <2>1 DEF FilterStarts, Proxies
  <2> QED
    BY <1>3, <2>2, <2>3, <2>4 DEF FilterTask, Filtered, Over
<1>4. CASE /\ j \in DOMAIN tasks /\ ShapedTask(tasks[j])
           /\ TaskStep(j) /\ tasks'[j].kind = tasks[j].kind
  <2>1. FilterTask(tasks[j])
    BY <1>4 DEF FilterInv
  <2>2. MainnetState
    BY <1>1, <2>1 DEF FilterTask
  <2>3. /\ UNCHANGED <<network, chain, files>>
        /\ tasks'[j].name = tasks[j].name
        /\ Filtered(tasks'[j], Contract(tasks[j].name).roles)
    BY <1>4, <2>1, <2>2, FilterSteps
  <2> QED
    BY <2>1, <2>3 DEF FilterTask, Over, Contract, Address
<1> QED
  BY <1>0, <1>2, <1>3, <1>4, NextTasks

------------------------------------------------------------------------------
(* Verifications *)

LEMMA ProposedUpgrade ==
    ASSUME NEW c, ProposedCall(c), c.call.fn = "upgradeTo"
    PROVE  /\ c.name = Portal /\ Over(20)
           /\ c.call = UpgradeTo(files.records[Portal].implementation)
BY DEF ProposedCall, Proposable, Call, GrantRole

LEMMA PortalNamed == Portal \in Proxies
BY DEF Portal, Proxies

\* No other record has the address of the portal.
LEMMA PortalAlone ==
    ASSUME MainnetState, Over(14), NEW n \in DOMAIN files.records, Address(n) = Address(Portal)
    PROVE  n = Portal
<1>1. Portal \in DOMAIN files.records /\ Address(Portal) > 0
  BY AllRecorded, PortalNamed
<1>2. n \in Contracts /\ Portal \in Contracts
  BY <1>1 DEF Contracts
<1>3. /\ n \in Proxies /\ Contract(n).contract = ContractOf(n)
      /\ Contract(Portal).contract = ContractOf(Portal)
  BY <1>2, RecordedProxy
<1>4. ContractOf(n) = ContractOf(Portal)
  BY <1>3 DEF Contract
<1> QED
  BY <1>3, <1>4 DEF ContractOf, Proxies, Portal

\* When no script is left that saves the portal, it is upgraded to what is
\* recorded only.
LEMMA UpToDateStays ==
    ASSUME MainnetState, [TaskNext]_allVars, Over(20), UpToDate
    PROVE  UpToDate'
<1> DEFINE a == Address(Portal)
<1> DEFINE c == chain.contracts[a]
<1>0. Over(14) /\ Over(7)
  BY DEF MainnetState, OrderInv, Due
<1>1. /\ a \in DOMAIN chain.contracts /\ DOMAIN c = ContractFields
      /\ files'.records = files.records
  BY <1>0, AllRecorded, PortalNamed, RecordKept DEF MainnetState, BaseInv
<1>2. c.implementation = files.records[Portal].implementation
  BY DEF UpToDate, Contract
<1>3. SUFFICES chain'.contracts[a].implementation = c.implementation
  BY <1>1, <1>2 DEF UpToDate, Contract, Address
<1>4. CASE Step
  <2>1. job.at # 15
    <3>1. \A i \in 1 .. 21 : job.at <= i => ~Over(i)
      BY <1>4, BeforeAndAfter DEF Step, InScript
    <3> QED
      BY <3>1
  <2> QED
    BY <1>0, <1>4, <2>1, LaterSteps
<1>5. ~Mined
  <2>1. chain.sent = NothingSent
    BY <1>0 DEF MainnetState, ProposalsInv, Reached
  <2> QED
    BY <2>1 DEF Mined
<1>6. CASE Called
  <2>1. CASE chain'.contracts[a] = c
    BY <2>1
  <2>2. CASE chain'.contracts[a] # c
    <3>1. PICK sender, call :
            /\ \/ sender \in Signers /\ call \in TaskCalls
               \/ sender = "multisig" /\ call \in OwnersCalls(a)
            /\ chain'.contracts[a] = After(c, sender, call)
      BY <1>1, <1>6, <2>2 DEF Called
    <3> HIDE DEF c, a
    <3>2. CASE call = UpgradeTo(files.records[Portal].implementation)
      BY <1>1, <1>2, <3>1, <3>2, AfterFrame DEF UpgradeTo
    <3>3. CASE call.fn \notin {"upgradeTo", "upgradeToAndCall"}
      BY <1>1, <3>1, <3>3, AfterFrame
    <3>4. CASE call \in TaskCalls
      <4>1. call.fn \notin {"upgradeTo", "upgradeToAndCall"}
        BY <3>4 DEF TaskCalls, Call, GrantRole
      <4> QED
        BY <3>3, <4>1
    <3>5. ASSUME NEW n \in DOMAIN files.records, Address(n) = a,
                 call = UpgradeTo(files.records[n].implementation)
          PROVE  call = UpgradeTo(files.records[Portal].implementation)
      <4>1. n = Portal
        BY <1>0, <3>5, PortalAlone DEF a
      <4> QED
        BY <3>5, <4>1
    <3>6. ASSUME NEW p \in safe.open, NEW k \in DOMAIN p.calls, call = p.calls[k].call
          PROVE  \/ call = UpgradeTo(files.records[Portal].implementation)
                 \/ call.fn \notin {"upgradeTo", "upgradeToAndCall"}
      <4>1. ProposedCall(p.calls[k])
        BY DEF MainnetState, ProposalsInv
      <4> QED
        BY <3>6, <4>1 DEF ProposedCall, Proposable, Call, GrantRole
    <3>7. CASE call \in OwnersCalls(a)
      BY <3>2, <3>3, <3>5, <3>6, <3>7 DEF OwnersCalls
    <3> QED
      BY <3>1, <3>4, <3>7
  <2> QED
    BY <2>1, <2>2
<1>7. CASE chain' = chain
  BY <1>7
<1> QED
  BY <1>4, <1>5, <1>6, <1>7, NextKinds DEF MainnetState, vars, Start, NextScript, ScriptReturns,
      Crash, EnterMigration

LEMMA UpgradingOver ==
    ASSUME NEW t, VerifyTask(t), Upgrading(t)
    PROVE  Over(20)
BY ProposedUpgrade DEF VerifyTask, Upgrading

LEMMA VerifyStays ==
    ASSUME MainnetState, [TaskNext]_allVars, NEW t, VerifyTask(t)
    PROVE  VerifyTask(t)'
<1>1. network'.name = "mainnet" /\ Over(14)'
  BY NetworkStays, OverStays DEF MainnetState, VerifyTask
<1>2. \A p \in t.before : \A k \in DOMAIN p.calls : ProposedCall(p.calls[k])'
  BY ProposedStays DEF VerifyTask
<1>3. ASSUME t.at \in {"next", "done"}, Upgrading(t)
      PROVE  /\ t.records[Portal] = files'.records[Portal]
             /\ \/ Portal \in t.todo
                \/ <<Portal, files'.records[Portal].implementation>> \in t.verified
                \/ UpToDate'
  <2>1. Over(20) /\ files'.records = files.records
    BY <1>3, UpgradingOver, RecordKept
  <2> QED
    BY <1>3, <2>1, UpToDateStays DEF VerifyTask
<1> QED
  BY <1>1, <1>2, <1>3 DEF VerifyTask, Upgrading, Portal

LEMMA VerifySteps ==
    ASSUME MainnetState, NEW i \in DOMAIN tasks, TaskStep(i), ShapedTask(tasks[i]),
           tasks[i].kind \in Verifying, VerifyTask(tasks[i])
    PROVE  /\ UNCHANGED <<network, chain, files>>
           /\ VerifyTask(tasks'[i])
<1> DEFINE u == tasks[i]
<1>1. DOMAIN u = VerifyFields
  BY DEF ShapedTask, Deposits, Verifying
<1>2. /\ network.name = "mainnet" /\ Over(14)
      /\ \A p \in u.before : \A k \in DOMAIN p.calls : ProposedCall(p.calls[k])
      /\ u.at \in {"next", "done"} /\ Upgrading(u) =>
            /\ u.records[Portal] = files.records[Portal]
            /\ \/ Portal \in u.todo
               \/ <<Portal, files.records[Portal].implementation>> \in u.verified
               \/ UpToDate
      /\ u.at = "done" => u.todo = {}
  BY DEF VerifyTask
<1>3. CASE Verify(i)
  <2> DEFINE n == CHOOSE n \in u.todo : TRUE
  <2> DEFINE r == u.records[n]
  <2> DEFINE v == <<n, r.implementation>>
  <2>1. n \in u.todo /\ u.at = "next" /\ UNCHANGED <<network, chain, files>>
    BY <1>3 DEF Verify
  <2>2. tasks' = CASE r.address = 0 \/ UpToDateRecord(r) -> [tasks EXCEPT ![i].todo = @ \ {n}]
                    [] r.verifiable ->
                          [tasks EXCEPT ![i].todo = @ \ {n}, ![i].verified = @ \union {v}]
                    [] OTHER -> [tasks EXCEPT ![i].at = "threw"]
    BY <1>3 DEF Verify
  <2> HIDE DEF n, v
  <2>3. \/ /\ r.address = 0 \/ UpToDateRecord(r)
           /\ tasks' = [tasks EXCEPT ![i].todo = @ \ {n}]
        \/ tasks' = [tasks EXCEPT ![i].todo = @ \ {n}, ![i].verified = @ \union {v}]
        \/ tasks' = [tasks EXCEPT ![i].at = "threw"]
    BY <2>2, SMT
  <2>4. CASE /\ r.address = 0 \/ UpToDateRecord(r)
             /\ tasks' = [tasks EXCEPT ![i].todo = @ \ {n}]
    <3> DEFINE t == [u EXCEPT !.todo = @ \ {n}]
    <3>1. tasks'[i] = t
      BY <2>4
    <3>2. /\ t.at = u.at /\ t.before = u.before /\ t.verified = u.verified
          /\ t.todo = u.todo \ {n} /\ t.records = u.records
      BY <1>1 DEF VerifyFields
    <3> HIDE DEF t
    <3>3. n = Portal /\ Upgrading(u) => UpToDate
      <4>1. Address(Portal) > 0
        BY <1>2, AllRecorded, PortalNamed
      <4> QED
        BY <1>2, <2>1, <2>4, <4>1 DEF UpToDate, UpToDateRecord, Contract, Address
    <3>4. VerifyTask(t)
      BY <1>2, <2>1, <3>2, <3>3 DEF VerifyTask, Upgrading
    <3> QED
      BY <2>1, <3>1, <3>4
  <2>5. CASE tasks' = [tasks EXCEPT ![i].todo = @ \ {n}, ![i].verified = @ \union {v}]
    <3> DEFINE t == [u EXCEPT !.todo = @ \ {n}, !.verified = @ \union {v}]
    <3>1. tasks'[i] = t
      BY <2>5
    <3>2. /\ t.at = u.at /\ t.before = u.before /\ t.verified = u.verified \union {v}
          /\ t.todo = u.todo \ {n} /\ t.records = u.records
      BY <1>1 DEF VerifyFields
    <3> HIDE DEF t
    <3>3. n = Portal /\ Upgrading(u) => v = <<Portal, files.records[Portal].implementation>>
      BY <1>2, <2>1 DEF v
    <3>4. VerifyTask(t)
      BY <1>2, <2>1, <3>2, <3>3 DEF VerifyTask, Upgrading
    <3> QED
      BY <2>1, <3>1, <3>4
  <2>6. CASE tasks' = [tasks EXCEPT ![i].at = "threw"]
    <3> DEFINE t == [u EXCEPT !.at = "threw"]
    <3>1. tasks'[i] = t
      BY <2>6
    <3>2. t.at = "threw" /\ t.before = u.before
      BY <1>1 DEF VerifyFields
    <3> HIDE DEF t
    <3>3. VerifyTask(t)
      BY <1>2, <3>2 DEF VerifyTask
    <3> QED
      BY <2>1, <3>1, <3>3
  <2> QED
    BY <2>3, <2>4, <2>5, <2>6
<1>4. CASE VerifyEnds(i)
  <2>1. /\ tasks' = [tasks EXCEPT ![i].at = "done"]
        /\ u.at = "next" /\ u.todo = {} /\ UNCHANGED <<network, chain, files>>
    BY <1>4 DEF VerifyEnds, Goes
  <2> DEFINE t == [u EXCEPT !.at = "done"]
  <2>2. tasks'[i] = t
    BY <2>1
  <2>3. /\ t.at = "done" /\ t.before = u.before /\ t.verified = u.verified
        /\ t.todo = u.todo /\ t.records = u.records
    BY <1>1 DEF VerifyFields
  <2> HIDE DEF t
  <2>4. VerifyTask(t)
    BY <1>2, <2>1, <2>3 DEF VerifyTask, Upgrading
  <2> QED
    BY <2>1, <2>2, <2>4
<1>5. Verify(i) \/ VerifyEnds(i)
  BY DEF TaskStep, CheckRole, SendCall, Approve, Deposit, QueryNonce, QueryEvents, QueryRole,
      Deposits, ShapedTask, Verifying
<1> QED
  BY <1>3, <1>4, <1>5

LEMMA NextVerify ==
    ASSUME DeployInv, VerifyInv, [TaskNext]_allVars
    PROVE  VerifyInv'
<1> SUFFICES ASSUME NEW j \in DOMAIN tasks', tasks'[j].kind \in Verifying
             PROVE  VerifyTask(tasks[j])'
  BY DEF VerifyInv, Verifying
<1>0. ShapeInv
  BY DEF DeployInv, CallInv
<1>1. network.name = "mainnet" => MainnetState
  BY DEF DeployInv, MainnetInv, MainnetState
<1>2. CASE j \in DOMAIN tasks /\ tasks'[j] = tasks[j]
  <2>1. VerifyTask(tasks[j])
    BY <1>2 DEF VerifyInv
  <2>2. MainnetState
    BY <1>1, <2>1 DEF VerifyTask
  <2>3. \A s : VerifyTask(s) => VerifyTask(s)'
    BY <2>2, VerifyStays
  <2> QED
    BY <1>2, <2>1, <2>3 DEF VerifyTask, Upgrading
<1>3. CASE TaskStarts(tasks'[j]) /\ UNCHANGED <<network, chain, files, job, safe>>
  <2>1. VerifyStarts(tasks'[j])
    BY <1>3 DEF TaskStarts, CallStarts, DepositStarts, FilterStarts, Deposits, Verifying
  <2>2. network.name = "mainnet"
    BY <2>1 DEF VerifyStarts, DeployInv, OthersInv, HandOverIds
  <2>3. MainnetState /\ Over(14)
    BY <1>1, <2>1, <2>2 DEF VerifyStarts, Over, MainnetIds
  <2>4. \A p \in safe.open : \A k \in DOMAIN p.calls : ProposedCall(p.calls[k])
    BY <2>3 DEF MainnetState, ProposalsInv
  <2>5. /\ tasks'[j].before = safe.open /\ tasks'[j].at \in {"next", "missing"}
        /\ Portal \in tasks'[j].todo /\ tasks'[j].records = files.records
    BY <2>1, <2>3, AllRecorded, PortalNamed DEF VerifyStarts
  <2>6. VerifyTask(tasks'[j])
    BY <2>2, <2>3, <2>4, <2>5 DEF VerifyTask
  <2> QED
    BY <1>3, <2>6 DEF VerifyTask, Over, ProposedCall, UpToDate, Contract, Address, Upgrading, Portal
<1>4. CASE /\ j \in DOMAIN tasks /\ ShapedTask(tasks[j])
           /\ TaskStep(j) /\ tasks'[j].kind = tasks[j].kind
  <2>1. VerifyTask(tasks[j])
    BY <1>4 DEF VerifyInv
  <2>2. MainnetState
    BY <1>1, <2>1 DEF VerifyTask
  <2>3. UNCHANGED <<network, chain, files>> /\ VerifyTask(tasks'[j])
    BY <1>4, <2>1, <2>2, VerifySteps
  <2> QED
    BY <2>3 DEF VerifyTask, Over, ProposedCall, UpToDate, Contract, Address, Upgrading, Portal
<1> QED
  BY <1>0, <1>2, <1>3, <1>4, NextTasks

------------------------------------------------------------------------------
LEMMA TaskInvariant == TaskSpec => []TaskInv
<1>1. TaskInit => TaskInv
  <2>1. TaskInit => tasks = <<>>
    BY DEF TaskInit
  <2> QED
    BY <2>1, InitDeploy DEF TaskInv, FilterInv, VerifyInv
<1>2. TaskInv /\ [TaskNext]_allVars => TaskInv'
  BY NextDeploy, NextFilter, NextVerify DEF TaskInv
<1> QED
  BY <1>1, <1>2, PTL DEF TaskSpec

\* grant-role-event-filter lists every role that was held from its first query to
\* its last, and none that was held at neither.
THEOREM ReportIsFaithful == TaskSpec => []ReportFaithful
<1>1. TaskInv => ReportFaithful
  BY DEF TaskInv, FilterInv, FilterTask, Filtered, ReportFaithful
<1> QED
  BY <1>1, TaskInvariant, PTL

\* A verification that came to its end has verified the implementation of each
\* upgrade that was open all along, with the records it read at its start, unless
\* the contract has that implementation already.
THEOREM VerifiedThroughout == TaskSpec => []VerifiedBeforeExecution
<1>1. TaskInv => VerifiedBeforeExecution
  <2> SUFFICES ASSUME TaskInv, NEW i \in DOMAIN tasks, tasks[i].kind \in Verifying,
                      tasks[i].at = "done",
                      NEW p \in tasks[i].before, NEW k \in DOMAIN p.calls,
                      p.calls[k].call.fn = "upgradeTo"
               PROVE  \/ <<p.calls[k].name, p.calls[k].call.implementation>> \in tasks[i].verified
                      \/ Contract(p.calls[k].name).implementation = p.calls[k].call.implementation
    BY DEF VerifiedBeforeExecution, Verifying
  <2>1. VerifyTask(tasks[i])
    BY DEF TaskInv, VerifyInv
  <2>2. /\ p.calls[k].name = Portal
        /\ p.calls[k].call = UpgradeTo(files.records[Portal].implementation)
    BY <2>1, ProposedUpgrade DEF VerifyTask
  <2>3. \/ <<Portal, files.records[Portal].implementation>> \in tasks[i].verified
        \/ UpToDate
    BY <2>1 DEF VerifyTask, Upgrading
  <2> QED
    BY <2>2, <2>3 DEF UpToDate, UpgradeTo
<1> QED
  BY <1>1, TaskInvariant, PTL

------------------------------------------------------------------------------
(* What contracts refer to *)

\* The step links a portal to the chain state that is recorded.
Links(a) ==
    /\ Step /\ step.op = "linkChainState"
    /\ "FuelChainState" \in DOMAIN files.records
    /\ chain'.contracts[a].linked = Address("FuelChainState")

LEMMA AfterLinks ==
    ASSUME NEW c, DOMAIN c = ContractFields, NEW sender, NEW call
    PROVE  /\ call.fn # "setFuelChainState" => After(c, sender, call).linked = c.linked
           /\ call.fn = "setFuelChainState" => After(c, sender, call).linked = call.linked
BY DEF After, Granted, ContractFields

\* No step of a script sets a chain state but the recorded one, and that only
\* after the script that registers its committer.
LEMMA LinkingSteps ==
    ASSUME DeployInv, Step
    PROVE  /\ step.op = "execute" => step.call.fn # "setFuelChainState"
           /\ step.op = "linkChainState" =>
                network.name # "mainnet" /\ Replaces > 0 /\ job.at = Replaces + 3
           /\ step.op = "deployProxy" /\ step.contract = "FuelMessagePortal" =>
                step.linkedTo = "FuelChainState"
<1>0. BaseInv /\ JobInv
  BY DEF DeployInv
<1>1. CASE network.name = "mainnet"
  <2>1. MainnetStep(job.at, job.pc, step)
    BY <1>0, <1>1, TheStep
  <2>2. CASE Grants(job.at, job.pc, step)
    BY <2>2 DEF Grants, GrantRole
  <2>3. CASE HandsOver(job.at, job.pc, step)
    BY <2>3 DEF HandsOver, GrantRole
  <2>4. CASE SetsUp(job.at, job.pc, step)
    BY <2>4 DEF SetsUp
  <2>5. CASE Renounces(job.at, job.pc, step)
    BY <2>5 DEF Renounces, RenounceRole
  <2> QED
    BY <2>1, <2>2, <2>3, <2>4, <2>5 DEF MainnetStep, Deploys, Saves, Upgrades, Prepares,
        SavesPrepared, SavesBridge, Proposes, ProposesUpgrade
<1>2. CASE network.name # "mainnet"
  <2>1. job.pc \in 1 .. Len(script.steps) /\ Plain(job.at, script, Replaces, Savers)
    <3>1. job.pc > 0 /\ job.pc <= Len(script.steps) /\ job.pc \in Nat
      BY <1>0 DEF Step, InScript, BaseInv
    <3>2. Plain(job.at, script, Replaces, Savers)
      BY <1>0, <1>2, <3>1, OtherScripts DEF JobInv, script
    <3> QED
      BY <3>1, <3>2 DEF Plain
  <2>2. PlainStep(job.at, step, Replaces, Savers)
    BY <2>1 DEF Plain, step
  <2> QED
    BY <1>2, <2>2 DEF PlainStep
<1> QED
  BY <1>1, <1>2

LEMMA StepLinks ==
    ASSUME DeployInv, Step, NEW a \in DOMAIN chain'.contracts
    PROVE  \/ /\ a \in DOMAIN chain.contracts
              /\ \/ chain'.contracts[a].linked = chain.contracts[a].linked
                 \/ Links(a)
           \/ /\ a \notin DOMAIN chain.contracts
              /\ chain'.contracts[a].contract = "FuelMessagePortal" =>
                    chain'.contracts[a].linked \in 0 .. Len(chain.contracts)
<1>0. /\ BaseInv /\ Len(chain.contracts) \in Nat
      /\ DOMAIN chain = {"contracts", "sent", "tokens"}
  BY DEF DeployInv, BaseInv, IsSequence
<1>1. /\ IsSequence(Settled) /\ Len(Settled) = Len(chain.contracts)
      /\ DOMAIN Settled = DOMAIN chain.contracts
      /\ \A b \in DOMAIN Settled : DOMAIN Settled[b] = ContractFields
      /\ \A b \in DOMAIN Settled : Settled[b].linked = chain.contracts[b].linked
  BY <1>0, SettledContracts, ReimplementedFields DEF BaseInv
<1>2. CASE chain'.contracts = chain.contracts
  BY <1>2
<1>3. CASE chain'.contracts = Settled
  BY <1>1, <1>3
<1>4. CASE Throw
  BY <1>2, <1>4 DEF Throw
<1>5. ASSUME Looked(step) \subseteq DOMAIN files.records, step.op = "linkChainState"
      PROVE  \/ chain'.contracts = chain.contracts
             \/ /\ a \in DOMAIN chain.contracts
                /\ \/ chain'.contracts[a].linked = chain.contracts[a].linked
                   \/ Links(a)
  <2> DEFINE x == Address(step.name)
  <2> DEFINE y == Address("FuelChainState")
  <2>1. Transaction(x, "deployer", SetFuelChainState(y))
    BY <1>5, ActionOf DEF linkChainState
  <2>2. CASE Throw
    BY <2>2 DEF Throw
  <2>3. CASE chain'.contracts =
                  [Settled EXCEPT ![x] = After(Settled[x], "deployer", SetFuelChainState(y))]
    <3>1. "FuelChainState" \in DOMAIN files.records
      BY <1>5 DEF Looked
    <3>2. a \in DOMAIN Settled
      BY <2>3
    <3>3. CASE a = x
      <4>1. chain'.contracts[a] = After(Settled[a], "deployer", SetFuelChainState(y))
        BY <2>3, <3>2, <3>3
      <4>2. SetFuelChainState(y).fn = "setFuelChainState" /\ SetFuelChainState(y).linked = y
        BY DEF SetFuelChainState
      <4>3. chain'.contracts[a].linked = y
        BY <1>1, <3>2, <4>1, <4>2, AfterLinks
      <4> QED
        BY <1>1, <1>5, <3>1, <3>2, <4>3 DEF Links
    <3>4. CASE a # x
      BY <1>1, <2>3, <3>2, <3>4
    <3> QED
      BY <3>3, <3>4
  <2>4. \/ Throw
        \/ chain' = [chain EXCEPT !.contracts =
                  [Settled EXCEPT ![x] = After(Settled[x], "deployer", SetFuelChainState(y))],
                  !.sent = NothingSent]
    BY <2>1 DEF Transaction
  <2> HIDE DEF x, y
  <2> QED
    BY <1>0, <2>2, <2>3, <2>4
<1>6. ASSUME Looked(step) \subseteq DOMAIN files.records, step.op = "upgradeAndReinitialize"
      PROVE  \/ chain'.contracts = chain.contracts
             \/ /\ a \in DOMAIN chain.contracts
                /\ chain'.contracts[a].linked = chain.contracts[a].linked
  <2> DEFINE x == Address(step.name)
  <2> DEFINE call == UpgradeToAndReinitialize(job.implementation)
  <2>1. \/ Throw
        \/ chain' = [chain EXCEPT !.contracts =
                  [Settled EXCEPT ![x] = After(Settled[x], "deployer", call)],
                  !.sent = NothingSent]
    BY <1>6, ActionOf DEF upgradeAndReinitialize
  <2>2. call.fn # "setFuelChainState"
    BY DEF UpgradeToAndReinitialize
  <2> HIDE DEF x, call
  <2>3. CASE Throw
    BY <2>3 DEF Throw
  <2>4. CASE chain'.contracts = [Settled EXCEPT ![x] = After(Settled[x], "deployer", call)]
    <3>1. a \in DOMAIN Settled
      BY <2>4
    <3>2. CASE a = x
      <4>1. chain'.contracts[a] = After(Settled[a], "deployer", call)
        BY <2>4, <3>1, <3>2
      <4> QED
        BY <1>1, <2>2, <3>1, <4>1, AfterLinks
    <3>3. CASE a # x
      BY <1>1, <2>4, <3>1, <3>3
    <3> QED
      BY <3>2, <3>3
  <2> QED
    BY <1>0, <2>1, <2>3, <2>4
<1>7. ASSUME Looked(step) \subseteq DOMAIN files.records, step.op = "deployProxy"
      PROVE  \/ /\ a \in DOMAIN chain.contracts
                /\ chain'.contracts[a].linked = chain.contracts[a].linked
             \/ /\ a \notin DOMAIN chain.contracts
                /\ chain'.contracts[a].contract = "FuelMessagePortal" =>
                      chain'.contracts[a].linked \in 0 .. Len(chain.contracts)
  <2> DEFINE linked == Linked(step.linkedTo)
  <2> DEFINE new == NewContract(step.contract, step.initializer, script.id, linked)
  <2>1. step.contract = "FuelMessagePortal" => linked \in 0 .. Len(chain.contracts)
    <3>1. Looked(step) = {step.linkedTo} \ {"", WrittenDown}
      BY <1>7 DEF Looked
    <3> SUFFICES ASSUME step.linkedTo = "FuelChainState"
                 PROVE  linked \in 0 .. Len(chain.contracts)
      BY <1>7, LinkingSteps
    <3>2. linked = Address("FuelChainState") /\ "FuelChainState" \in DOMAIN files.records
      BY <1>7, <3>1 DEF Linked, WrittenDown
    <3> HIDE DEF linked
    <3> QED
      BY <1>0, <3>2 DEF BaseInv
  <2>2. chain' = [chain EXCEPT !.contracts = Append(Settled, new), !.sent = NothingSent]
    BY <1>7, ActionOf DEF deployProxy
  <2>3. new.linked = linked /\ new.contract = step.contract
    BY DEF NewContract
  <2> HIDE DEF new, linked
  <2>4. chain'.contracts = Append(Settled, new)
    BY <1>0, <2>2
  <2>5. /\ DOMAIN chain'.contracts = 1 .. Len(Settled) + 1
        /\ \A b \in DOMAIN Settled : chain'.contracts[b] = Settled[b]
        /\ chain'.contracts[Len(Settled) + 1] = new
    BY <1>1, <2>4, AppendSequence
  <2>6. a \in DOMAIN Settled \/ (a = Len(Settled) + 1 /\ a \notin DOMAIN Settled)
    BY <1>1, <2>5 DEF IsSequence
  <2> QED
    BY <1>1, <2>1, <2>3, <2>5, <2>6
<1>8. ASSUME Advances, step.op \notin {"linkChainState", "upgradeAndReinitialize", "deployProxy"}
      PROVE  /\ a \in DOMAIN chain.contracts
             /\ chain'.contracts[a].linked = chain.contracts[a].linked
  <2>1. CASE chain'.contracts = chain.contracts
    BY <2>1
  <2>2. CASE chain'.contracts = Settled
    BY <1>1, <2>2
  <2>3. ASSUME NEW b, NEW sender, NEW call, CallsStep(b, sender, call)
        PROVE  /\ a \in DOMAIN chain.contracts
               /\ chain'.contracts[a].linked = chain.contracts[a].linked
    <3>1. /\ call.fn # "setFuelChainState"
          /\ chain'.contracts = [Settled EXCEPT ![b] = After(Settled[b], sender, call)]
      BY <1>8, <2>3, LinkingSteps DEF CallsStep
    <3>2. a \in DOMAIN Settled
      BY <3>1
    <3>3. CASE a = b
      <4>1. chain'.contracts[a] = After(Settled[a], sender, call)
        BY <3>1, <3>2, <3>3
      <4> QED
        BY <1>1, <3>1, <3>2, <4>1, AfterLinks
    <3>4. CASE a # b
      BY <1>1, <3>1, <3>2, <3>4
    <3> QED
      BY <3>3, <3>4
  <2> QED
    BY <1>8, <2>1, <2>2, <2>3 DEF Advances, ContractsStep
<1>9. CASE ~(Looked(step) \subseteq DOMAIN files.records)
  BY <1>4, <1>9 DEF Step
<1> QED
  BY <1>0, <1>2, <1>4, <1>5, <1>6, <1>7, <1>8, <1>9, StepEffect

\* Neither a task nor the owners set a chain state or take a role.
LEMMA KnownCalls ==
    ASSUME DeployInv, NEW a, NEW call \in TaskCalls \union OwnersCalls(a)
    PROVE  call.fn \notin {"setFuelChainState", "renounceRole"}
<1>1. CASE call \in TaskCalls
  BY <1>1 DEF TaskCalls, GrantRole, Call
<1>2. ASSUME NEW x, call = UpgradeTo(x)
      PROVE  call.fn \notin {"setFuelChainState", "renounceRole"}
  BY <1>2 DEF UpgradeTo
<1>3. ASSUME NEW p \in safe.open, NEW k \in DOMAIN p.calls, call = p.calls[k].call
      PROVE  call.fn \notin {"setFuelChainState", "renounceRole"}
  <2>1. ProposedCall(p.calls[k])
    BY <1>3 DEF DeployInv, MainnetInv, OthersInv, ProposalsInv
  <2>2. CASE Proposable(call)
    BY <2>2 DEF Proposable, Call, GrantRole
  <2> QED
    BY <1>2, <1>3, <2>1, <2>2 DEF ProposedCall
<1> QED
  BY <1>1, <1>2, <1>3 DEF OwnersCalls

\* What a contract is does not change.
LEMMA AfterKind ==
    ASSUME NEW c, DOMAIN c = ContractFields, NEW sender, NEW call
    PROVE  After(c, sender, call).contract = c.contract
BY DEF After, Granted, ContractFields

LEMMA KindStays ==
    ASSUME DeployInv, [TaskNext]_allVars, NEW a \in DOMAIN chain.contracts
    PROVE  /\ a \in DOMAIN chain'.contracts
           /\ chain'.contracts[a].contract = chain.contracts[a].contract
<1>0. /\ BaseInv /\ CallInv /\ DOMAIN chain.contracts[a] = ContractFields
      /\ a \in DOMAIN chain'.contracts
  <2>1. BaseInv /\ CallInv
    BY DEF DeployInv
  <2>2. BaseInv' /\ Len(chain'.contracts) >= Len(chain.contracts)
    BY <2>1, NextBase
  <2> QED
    BY <2>1, <2>2 DEF BaseInv, IsSequence
<1>1. /\ DOMAIN Settled = DOMAIN chain.contracts /\ DOMAIN Settled[a] = ContractFields
      /\ Settled[a].contract = chain.contracts[a].contract
  BY <1>0, SettledContracts, ReimplementedFields
<1>2. CASE chain'.contracts = chain.contracts
  BY <1>0, <1>2
<1>3. CASE Mined
  BY <1>0, <1>1, <1>3 DEF Mined, BaseInv
<1>4. CASE Step
  <2>1. CASE Throw
    BY <1>2, <2>1 DEF Throw
  <2>2. CASE Advances
    <3>1. CASE Reimplemented(chain.contracts[a], chain'.contracts[a])
      BY <1>0, <3>1, ReimplementedFields
    <3>2. ASSUME NEW sender, NEW call, chain'.contracts[a] = After(Settled[a], sender, call)
          PROVE  chain'.contracts[a].contract = chain.contracts[a].contract
      BY <1>1, <3>2, AfterKind
    <3>3. a # Len(chain.contracts) + 1
      BY <1>0 DEF BaseInv, IsSequence
    <3> QED
      BY <1>0, <2>2, <3>1, <3>2, <3>3, StepContract
  <2> QED
    BY <1>0, <1>4, <2>1, <2>2, StepEffect
<1>5. CASE Called
  BY <1>0, <1>5, AfterKind DEF Called
<1> QED
  BY <1>0, <1>2, <1>3, <1>4, <1>5, NextKinds DEF vars, Start, NextScript, ScriptReturns, Crash,
      EnterMigration

LEMMA NextLinks ==
    ASSUME DeployInv, LinkedInv, [TaskNext]_allVars
    PROVE  /\ LinkedInv'
           /\ \A a \in DOMAIN chain.contracts :
                \/ chain'.contracts[a].linked = chain.contracts[a].linked
                \/ Links(a)
<1>0. /\ BaseInv /\ CallInv /\ Len(chain.contracts) \in Nat
      /\ \A a \in DOMAIN chain.contracts : DOMAIN chain.contracts[a] = ContractFields
  BY DEF DeployInv, BaseInv, IsSequence
<1>1. /\ Len(chain'.contracts) \in Nat /\ Len(chain'.contracts) >= Len(chain.contracts)
      /\ \A a \in DOMAIN chain.contracts : a \in DOMAIN chain'.contracts
  <2>1. BaseInv' /\ Len(chain'.contracts) >= Len(chain.contracts)
    BY <1>0, NextBase
  <2> QED
    BY <1>0, <2>1 DEF BaseInv, IsSequence
<1>2. ASSUME NEW a \in DOMAIN chain'.contracts
      PROVE  \/ /\ a \in DOMAIN chain.contracts
                /\ \/ chain'.contracts[a].linked = chain.contracts[a].linked
                   \/ Links(a)
             \/ /\ a \notin DOMAIN chain.contracts
                /\ chain'.contracts[a].contract = "FuelMessagePortal" =>
                      chain'.contracts[a].linked \in 0 .. Len(chain.contracts)
  <2>1. CASE chain'.contracts = chain.contracts
    BY <2>1
  <2>2. CASE Step
    BY <2>2, StepLinks
  <2>3. CASE Mined
    <3>1. chain'.contracts = Settled
      BY <1>0, <2>3 DEF Mined, BaseInv
    <3>2. /\ DOMAIN Settled = DOMAIN chain.contracts
          /\ \A b \in DOMAIN Settled : Settled[b].linked = chain.contracts[b].linked
      BY <1>0, SettledContracts, ReimplementedFields
    <3> QED
      BY <3>1, <3>2
  <2>4. CASE Called
    <3>1. a \in DOMAIN chain.contracts
      BY <1>0, <2>4 DEF Called, BaseInv, IsSequence
    <3>2. ASSUME NEW sender, NEW call, call \in TaskCalls \union OwnersCalls(a),
                 chain'.contracts[a] = After(chain.contracts[a], sender, call)
          PROVE  chain'.contracts[a].linked = chain.contracts[a].linked
      <4>1. call.fn # "setFuelChainState"
        BY <3>2, KnownCalls
      <4> QED
        BY <1>0, <3>1, <3>2, <4>1, AfterLinks
    <3> QED
      BY <2>4, <3>1, <3>2 DEF Called
  <2> QED
    BY <1>0, <2>1, <2>2, <2>3, <2>4, NextKinds DEF vars, Start, NextScript, ScriptReturns,
        Crash, EnterMigration
<1>3. \A a \in DOMAIN chain.contracts :
        \/ chain'.contracts[a].linked = chain.contracts[a].linked
        \/ Links(a)
  BY <1>1, <1>2
<1>4. ASSUME NEW a \in DOMAIN chain'.contracts, chain'.contracts[a].contract = "FuelMessagePortal"
      PROVE  chain'.contracts[a].linked \in 0 .. Len(chain'.contracts)
  <2>1. chain'.contracts[a].linked \in 0 .. Len(chain.contracts)
    BY <1>0, <1>2, <1>4, KindStays DEF LinkedInv, Links, BaseInv
  <2> QED
    BY <1>0, <1>1, <2>1
<1> QED
  BY <1>3, <1>4 DEF LinkedInv

\* On the networks without a hand-over nobody loses a role.
LEMMA OthersGrow ==
    ASSUME DeployInv, network.name # "mainnet", [TaskNext]_allVars, NEW a \in DOMAIN chain.contracts
    PROVE  chain.contracts[a].roles \subseteq chain'.contracts[a].roles
<1>0. /\ BaseInv /\ CallInv /\ JobInv /\ DOMAIN chain.contracts[a] = ContractFields
      /\ a \in DOMAIN chain'.contracts
  <2>1. BaseInv /\ CallInv /\ JobInv
    BY DEF DeployInv
  <2>2. BaseInv' /\ Len(chain'.contracts) >= Len(chain.contracts)
    BY <2>1, NextBase
  <2> QED
    BY <2>1, <2>2 DEF BaseInv, IsSequence
<1>1. /\ DOMAIN Settled = DOMAIN chain.contracts /\ DOMAIN Settled[a] = ContractFields
      /\ Settled[a].roles = chain.contracts[a].roles
  BY <1>0, SettledContracts, ReimplementedFields
<1>2. CASE chain'.contracts = chain.contracts
  BY <1>2
<1>3. CASE Mined
  BY <1>0, <1>1, <1>3 DEF Mined, BaseInv
<1>4. CASE Step
  <2>1. step.op = "execute" => step.call.fn # "renounceRole"
    <3>1. job.pc > 0 /\ job.pc <= Len(script.steps) /\ job.pc \in Nat
      BY <1>0, <1>4 DEF Step, InScript, BaseInv
    <3>2. Plain(job.at, script, Replaces, Savers)
      BY <1>0, <3>1, OtherScripts DEF JobInv, script
    <3>3. job.pc \in 1 .. Len(script.steps)
      BY <3>1, <3>2 DEF Plain
    <3> QED
      BY <3>2, <3>3 DEF Plain, PlainStep, step
  <2>2. CASE Throw
    BY <1>2, <2>2 DEF Throw
  <2>3. CASE Advances
    <3>1. ASSUME NEW sender, NEW call,
                 step.op = "execute" => sender = step.sender /\ call = step.call,
                 step.op # "execute" => call.fn # "renounceRole",
                 chain'.contracts[a] = After(Settled[a], sender, call)
          PROVE  chain.contracts[a].roles \subseteq chain'.contracts[a].roles
      <4>1. call.fn # "renounceRole"
        BY <2>1, <3>1
      <4> QED
        BY <1>1, <3>1, <4>1, AfterGrows DEF Grown
    <3>2. CASE Reimplemented(chain.contracts[a], chain'.contracts[a])
      BY <1>0, <3>2, ReimplementedFields
    <3>3. a # Len(chain.contracts) + 1
      BY <1>0 DEF BaseInv, IsSequence
    <3> QED
      BY <1>0, <2>3, <3>1, <3>2, <3>3, StepContract
  <2> QED
    BY <1>0, <1>4, <2>2, <2>3, StepEffect
<1>5. CASE Called
  <2>1. ASSUME NEW sender, NEW call, call \in TaskCalls \union OwnersCalls(a),
               chain'.contracts[a] = After(chain.contracts[a], sender, call)
        PROVE  chain.contracts[a].roles \subseteq chain'.contracts[a].roles
    BY <1>0, <2>1, KnownCalls, AfterGrows DEF Grown
  <2> QED
    BY <1>5, <2>1 DEF Called
<1> QED
  BY <1>0, <1>2, <1>3, <1>4, <1>5, NextKinds DEF vars, Start, NextScript, ScriptReturns,
      Crash, EnterMigration

\* The committer keeps its role.
LEMMA CommittingStays ==
    ASSUME DeployInv, [TaskNext]_allVars, NEW a \in DOMAIN chain.contracts,
           Committing \in chain.contracts[a].roles
    PROVE  Committing \in chain'.contracts[a].roles
<1>1. CASE network.name = "mainnet"
  <2>1. MainnetState
    BY <1>1 DEF DeployInv, MainnetInv, MainnetState
  <2>2. Kept(chain.contracts[a], chain'.contracts[a])
    BY <2>1, MainnetKeeps
  <2>3. \A r : Committing # <<r, "deployer">>
    BY DEF Committing
  <2> QED
    BY <2>2, <2>3 DEF Kept
<1>2. CASE network.name # "mainnet"
  BY <1>2, OthersGrow
<1> QED
  BY <1>1, <1>2

------------------------------------------------------------------------------
(* Where the chain state is replaced, a committer is registered before the       *)
(* portal is linked to it                                                        *)

\* The script that replaces the chain state, and the one after it.
LEMMA ReplacingScripts ==
    ASSUME Replaces > 0
    PROVE  /\ network.name \notin {"mainnet", "fork"}
           /\ Replaces \in Nat /\ Replaces + 1 \in 1 .. Len(Scripts) /\ Len(Scripts) \in Nat
           /\ LET S == Scripts[Replaces].steps IN
                /\ Len(S) = 2
                /\ S[1].op = "deployProxy" /\ S[1].linkedTo = ""
                /\ S[2].op = "save" /\ S[2].name = "FuelChainState"
           /\ LET S == Scripts[Replaces + 1].steps IN
                /\ Len(S) = 1
                /\ S[1].op = "execute" /\ S[1].name = "FuelChainState"
                /\ S[1].sender = "deployer"
                /\ S[1].call = GrantRole("COMMITTER_ROLE", "committer")
<1>1. CASE network.name = "testnet"
  <2>1. Scripts = Testnet!Scripts /\ Replaces = 11 /\ Replaces + 1 = 12
    BY <1>1 DEF Scripts, ScriptsOf, Replaces
  <2>2. LET S == Testnet!Scripts[11].steps IN
          /\ Len(S) = 2
          /\ S[1].op = "deployProxy" /\ S[1].linkedTo = ""
          /\ S[2].op = "save" /\ S[2].name = "FuelChainState"
    BY DEF Testnet!Scripts, Testnet!chain_state_redeploy, Testnet!Script,
        Testnet!DeployAndSave, Testnet!DeployProxy, Testnet!Save
  <2>3. LET S == Testnet!Scripts[12].steps IN
          /\ Len(S) = 1
          /\ S[1].op = "execute" /\ S[1].name = "FuelChainState"
          /\ S[1].sender = "deployer"
          /\ S[1].call = GrantRole("COMMITTER_ROLE", "committer")
    BY DEF Testnet!Scripts, Testnet!redeploy_register_committer, Testnet!Script,
        Testnet!GrantCommitter, Testnet!Execute, Testnet!GrantRole, GrantRole
  <2>4. /\ network.name \notin {"mainnet", "fork"} /\ Replaces \in Nat
        /\ Replaces + 1 \in 1 .. Len(Scripts) /\ Len(Scripts) \in Nat
    BY <1>1, <2>1, TestnetScripts
  <2>5. Scripts[Replaces] = Testnet!Scripts[11] /\ Scripts[Replaces + 1] = Testnet!Scripts[12]
    BY <2>1
  <2> QED
    BY <2>2, <2>3, <2>4, <2>5
<1>2. CASE network.name = "devnet"
  <2>1. Scripts = Devnet!Scripts /\ Replaces = 13 /\ Replaces + 1 = 14
    BY <1>2 DEF Scripts, ScriptsOf, Replaces
  <2>2. LET S == Devnet!Scripts[13].steps IN
          /\ Len(S) = 2
          /\ S[1].op = "deployProxy" /\ S[1].linkedTo = ""
          /\ S[2].op = "save" /\ S[2].name = "FuelChainState"
    BY DEF Devnet!Scripts, Devnet!chain_state_redeploy, Devnet!Script,
        Devnet!DeployAndSave, Devnet!DeployProxy, Devnet!Save
  <2>3. LET S == Devnet!Scripts[14].steps IN
          /\ Len(S) = 1
          /\ S[1].op = "execute" /\ S[1].name = "FuelChainState"
          /\ S[1].sender = "deployer"
          /\ S[1].call = GrantRole("COMMITTER_ROLE", "committer")
    BY DEF Devnet!Scripts, Devnet!redeploy_register_committer, Devnet!Script,
        Devnet!GrantCommitter, Devnet!Execute, Devnet!GrantRole, GrantRole
  <2>4. /\ network.name \notin {"mainnet", "fork"} /\ Replaces \in Nat
        /\ Replaces + 1 \in 1 .. Len(Scripts) /\ Len(Scripts) \in Nat
    BY <1>2, <2>1, DevnetScripts
  <2>5. Scripts[Replaces] = Devnet!Scripts[13] /\ Scripts[Replaces + 1] = Devnet!Scripts[14]
    BY <2>1
  <2> QED
    BY <2>2, <2>3, <2>4, <2>5
<1>3. network.name = "testnet" \/ network.name = "devnet"
  BY DEF Replaces
<1> QED
  BY <1>1, <1>2, <1>3

\* What the lists say of any script that runs.
LEMMA RunningScript ==
    ASSUME DeployInv, Replaces > 0, job.pc > 0
    PROVE  /\ job.at \in 1 .. Len(Scripts) /\ job.pc \in Nat
           /\ script.migrates = TRUE
           /\ script.id = "chain_state_redeploy" <=> job.at = Replaces
           /\ script.id = "redeploy_register_committer" <=> job.at = Replaces + 1
           /\ Step => job.pc \in 1 .. Len(script.steps) /\ PlainStep(job.at, step, Replaces, Savers)
<1>0. BaseInv /\ JobInv /\ network.name # "mainnet"
  BY ReplacingScripts DEF DeployInv
<1>1. job.at \in 1 .. Len(Scripts) /\ job.pc \in Nat
  BY <1>0 DEF JobInv, BaseInv
<1>2. Plain(job.at, script, Replaces, Savers)
  BY <1>0, <1>1, OtherScripts DEF script
<1>3. Step => job.pc \in 1 .. Len(script.steps)
  BY <1>1, <1>2 DEF Step, Plain
<1> QED
  BY <1>1, <1>2, <1>3 DEF Plain, step

LEMMA ScriptNames ==
    ASSUME DeployInv, Replaces > 0, NEW i \in 1 .. Len(Scripts)
    PROVE  /\ Scripts[i].skip = FALSE
           /\ Scripts[i].id = "chain_state_redeploy" <=> i = Replaces
           /\ Scripts[i].id = "redeploy_register_committer" <=> i = Replaces + 1
<1>0. BaseInv /\ network.name # "mainnet"
  BY ReplacingScripts DEF DeployInv
<1> QED
  BY <1>0, OtherScripts DEF Plain

\* A record that is not saved stays.
LEMMA RecordUnsaved ==
    ASSUME DeployInv, Step, "FuelChainState" \in DOMAIN files.records,
           ~(step.op \in {"save", "savePrepared"} /\ step.name = "FuelChainState")
    PROVE  /\ "FuelChainState" \in DOMAIN files'.records
           /\ files'.records["FuelChainState"].address = Address("FuelChainState")
<1>0. DOMAIN files = {"records", "migrations", "addresses"}
  BY DEF DeployInv, BaseInv
<1>1. CASE files'.records = files.records
  BY <1>1 DEF Address
<1>2. ASSUME NEW name, NEW record, SaveRecord(name, record), name # "FuelChainState"
      PROVE  /\ "FuelChainState" \in DOMAIN files'.records
             /\ files'.records["FuelChainState"].address = Address("FuelChainState")
  <2>1. files'.records = [n \in DOMAIN files.records \union {name} |->
                              IF n = name THEN record ELSE files.records[n]]
    BY <1>0, <1>2 DEF SaveRecord
  <2> QED
    BY <1>2, <2>1 DEF Address
<1>3. CASE save
  BY <1>2, <1>3 DEF save
<1>4. CASE savePrepared
  BY <1>2, <1>4 DEF savePrepared
<1>5. CASE saveL2Bridge
  BY <1>2, <1>5 DEF saveL2Bridge
<1>6. CASE deployToken
  BY <1>2, <1>6 DEF deployToken
<1>7. CASE writeAddresses
  BY <1>0, <1>1, <1>7 DEF writeAddresses
<1>8. CASE files' = files
  BY <1>1, <1>8
<1>9. execute \/ linkChainState => files' = files
  BY DEF execute, linkChainState, Transaction, Throw
<1>10. upgradeProxy \/ upgradeAndReinitialize \/ awaitDeployment => files' = files
  BY DEF upgradeProxy, upgradeAndReinitialize, awaitDeployment, Throw
<1>11. deployProxy \/ awaitUpgrade \/ prepareUpgrade \/ setToken => files' = files
  BY DEF deployProxy, awaitUpgrade, prepareUpgrade, setToken
<1>12. propose \/ proposeUpgrade => files' = files
  BY DEF propose, proposeUpgrade, ProposeCalls
<1>13. Throw => files' = files
  BY DEF Throw
<1> QED
  BY <1>3, <1>4, <1>5, <1>6, <1>7, <1>8, <1>9, <1>10, <1>11, <1>12, <1>13 DEF Step

\* Both scripts do what they are for.
LEMMA ReplacingSteps ==
    ASSUME DeployInv, RegisterInv, Replaces > 0, Step,
           job.at \in Replaces .. Replaces + 1
    PROVE  /\ seen' = seen /\ job'.pc = job.pc + 1
           /\ job.at = Replaces => job.pc <= 2
           /\ job.at = Replaces + 1 => job.pc = 1
           /\ job.at = Replaces /\ job.pc = 1 => job'.address > 0
           /\ job.at = Replaces /\ job.pc = 2 =>
                /\ "FuelChainState" \in DOMAIN files'.records
                /\ files'.records["FuelChainState"].address > 0
           /\ job.at = Replaces + 1 =>
                /\ files' = files /\ "FuelChainState" \in DOMAIN files.records
                /\ Committing \in chain'.contracts[Address("FuelChainState")].roles
<1>0. /\ BaseInv /\ OthersInv /\ job.pc > 0 /\ job.pc \in Nat /\ job.pc <= Len(script.steps)
      /\ DOMAIN job = {"at", "pc", "address", "implementation", "reached"}
      /\ DOMAIN files = {"records", "migrations", "addresses"}
      /\ DOMAIN chain = {"contracts", "sent", "tokens"}
      /\ Len(chain.contracts) \in Nat
  BY DEF DeployInv, BaseInv, Step, InScript, IsSequence
<1>1. Replaces \in Nat
  BY ReplacingScripts
<1>2. CASE job.at = Replaces
  <2>0. job.at # Replaces + 1
    BY <1>1, <1>2
  <2>1. /\ Len(script.steps) = 2
        /\ job.pc = 1 => step.op = "deployProxy" /\ step.linkedTo = ""
        /\ job.pc = 2 => step.op = "save" /\ step.name = "FuelChainState"
    BY <1>2, ReplacingScripts DEF script, step
  <2>2. CASE job.pc = 1
    <3>1. step.op = "deployProxy" /\ Looked(step) \subseteq DOMAIN files.records
      BY <2>1, <2>2 DEF Looked
    <3>2. job' = [Done EXCEPT !.address = Len(chain.contracts) + 1] /\ seen' = seen
      BY <3>1, ActionOf DEF deployProxy
    <3>3. job'.pc = job.pc + 1 /\ job'.address = Len(chain.contracts) + 1
      BY <1>0, <3>2 DEF Done
    <3>4. job'.address > 0
      BY <1>0, <3>3
    <3> QED
      BY <2>0, <2>2, <3>2, <3>3, <3>4
  <2>3. CASE job.pc = 2
    <3> DEFINE r == Record(job.address, chain.contracts[job.address].implementation,
                            script.id, FALSE, FALSE)
    <3>1. step.op = "save" /\ Looked(step) \subseteq DOMAIN files.records
      BY <2>1, <2>3 DEF Looked
    <3>2. SaveRecord("FuelChainState", r) /\ job' = Done /\ seen' = seen
      BY <2>1, <2>3, <3>1, ActionOf DEF save
    <3>3. r.address = job.address
      BY DEF Record
    <3>4. job.address > 0
      BY <1>2, <2>3 DEF RegisterInv, Replaced
    <3> HIDE DEF r
    <3>5. files'.records = [n \in DOMAIN files.records \union {"FuelChainState"} |->
                                IF n = "FuelChainState" THEN r ELSE files.records[n]]
      BY <1>0, <3>2 DEF SaveRecord
    <3>6. job'.pc = job.pc + 1
      BY <1>0, <3>2 DEF Done
    <3> QED
      BY <2>0, <2>1, <2>3, <3>2, <3>3, <3>4, <3>5, <3>6
  <2>4. job.pc = 1 \/ job.pc = 2
    <3>1. Len(script.steps) = 2
      BY <2>1
    <3> QED
      BY <1>0, <3>1
  <2> QED
    BY <2>2, <2>3, <2>4
<1>3. CASE job.at = Replaces + 1
  <2>0. job.at # Replaces
    BY <1>1, <1>3
  <2>1. /\ job.pc = 1
        /\ step.op = "execute" /\ step.name = "FuelChainState" /\ step.sender = "deployer"
        /\ step.call = GrantRole("COMMITTER_ROLE", "committer")
    <3>1. Len(script.steps) = 1
      BY <1>3, ReplacingScripts DEF script
    <3>2. job.pc = 1
      BY <1>0, <3>1
    <3> QED
      BY <1>3, <3>2, ReplacingScripts DEF script, step
  <2> DEFINE a == Address("FuelChainState")
  <2> DEFINE call == GrantRole("COMMITTER_ROLE", "committer")
  <2>2. "FuelChainState" \in DOMAIN files.records /\ a > 0
    <3>1. Entered(Replaces)
      BY <1>0, <1>1, <1>3 DEF RegisterInv, InOrder
    <3> QED
      BY <3>1 DEF RegisterInv, Replaced
  <2>3. a \in DOMAIN chain.contracts
    BY <1>0, <2>2 DEF BaseInv, IsSequence
  <2>4. /\ DOMAIN Settled = DOMAIN chain.contracts /\ DOMAIN Settled[a] = ContractFields
        /\ Settled[a].roles = chain.contracts[a].roles
    BY <1>0, <2>3, SettledContracts, ReimplementedFields DEF BaseInv
  <2>5. <<"DEFAULT_ADMIN_ROLE", "deployer">> \in Settled[a].roles
    BY <1>0, <2>3, <2>4, ReplacingScripts DEF OthersInv, Administered
  <2>6. Allowed(Settled[a], "deployer", call)
    BY <2>5 DEF Allowed, GrantRole, Needs
  <2>7. Looked(step) \subseteq DOMAIN files.records
    BY <2>1, <2>2 DEF Looked
  <2>8. Transaction(a, "deployer", call)
    BY <2>1, <2>7, ActionOf DEF execute
  <2>9. /\ chain' = [chain EXCEPT !.contracts =
              [Settled EXCEPT ![a] = After(Settled[a], "deployer", call)], !.sent = NothingSent]
        /\ job' = [Done EXCEPT !.address = a]
        /\ files' = files /\ seen' = seen
    BY <2>6, <2>8 DEF Transaction
  <2>10. After(Settled[a], "deployer", call) =
              Granted(Settled[a], "COMMITTER_ROLE", "committer")
    BY DEF After, GrantRole
  <2>11. Committing \in Granted(Settled[a], "COMMITTER_ROLE", "committer").roles
    BY <2>4 DEF Granted, Committing, ContractFields
  <2> HIDE DEF a, call
  <2>12. chain'.contracts[a] = After(Settled[a], "deployer", call)
    BY <1>0, <2>3, <2>4, <2>9
  <2>13. job'.pc = job.pc + 1
    BY <1>0, <2>9 DEF Done
  <2> QED
    BY <1>3, <2>0, <2>1, <2>2, <2>9, <2>10, <2>11, <2>12, <2>13 DEF a
<1> QED
  BY <1>1, <1>2, <1>3

\* The recorded chain state, and its committer, stay what they are while no script
\* of the two runs.
LEMMA StaysReplaced ==
    ASSUME DeployInv, RegisterInv, Replaces > 0, [TaskNext]_allVars,
           "FuelChainState" \in DOMAIN files.records =>
                /\ "FuelChainState" \in DOMAIN files'.records
                /\ files'.records["FuelChainState"].address = Address("FuelChainState"),
           Entered(Replaces)' => Entered(Replaces) \/ (job.at = Replaces /\ job.pc > 2),
           Entered(Replaces + 1)' =>
                Entered(Replaces + 1) \/ (job.at = Replaces + 1 /\ job.pc > 1),
           \/ job'.pc <= 1
           \/ job'.at = job.at /\ job'.pc = job.pc /\ job'.address = job.address
           \/ job'.at \notin Replaces .. Replaces + 1
    PROVE  Replaced' /\ Registered'
<1>0. /\ BaseInv /\ Replaces' = Replaces /\ Replaces \in Nat
      /\ job'.pc \in Nat
  <2>1. network' = network /\ BaseInv /\ BaseInv'
    BY NetworkStays, NextBase DEF DeployInv
  <2>2. Replaces' = Replaces
    BY <2>1 DEF Replaces
  <2> QED
    BY <2>1, <2>2, ReplacingScripts DEF BaseInv
<1>1. ASSUME Entered(Replaces)' \/ (job'.at = Replaces /\ job'.pc > 2)
      PROVE  Entered(Replaces) \/ (job.at = Replaces /\ job.pc > 2)
  BY <1>0, <1>1
<1>2. ASSUME Entered(Replaces + 1)' \/ (job'.at = Replaces + 1 /\ job'.pc > 1)
      PROVE  Entered(Replaces + 1) \/ (job.at = Replaces + 1 /\ job.pc > 1)
  BY <1>0, <1>2
<1>3. ASSUME Entered(Replaces + 1) \/ (job.at = Replaces + 1 /\ job.pc > 1)
      PROVE  Entered(Replaces)
  <2>1. CASE Entered(Replaces + 1)
    BY <1>0, <2>1 DEF RegisterInv, InOrder
  <2>2. CASE job.at = Replaces + 1 /\ job.pc > 1
    <3>1. job.pc > 0 /\ Replaces \in 1 .. Replaces + 1 /\ Replaces < Replaces + 1
      BY <1>0, <2>2 DEF BaseInv
    <3> QED
      BY <2>2, <3>1 DEF RegisterInv, InOrder
  <2> QED
    BY <1>3, <2>1, <2>2
<1>4. Entered(Replaces) \/ (job.at = Replaces /\ job.pc > 2) =>
        /\ "FuelChainState" \in DOMAIN files'.records
        /\ files'.records["FuelChainState"].address = Address("FuelChainState")
        /\ Address("FuelChainState") > 0
  BY DEF RegisterInv, Replaced
<1>5. job'.at = Replaces /\ job'.pc = 2 => job'.address > 0
  BY <1>0 DEF RegisterInv, Replaced
<1>6. Replaced'
  BY <1>0, <1>1, <1>4, <1>5 DEF Replaced, Address
<1>7. ASSUME Entered(Replaces + 1)' \/ (job'.at = Replaces + 1 /\ job'.pc > 1)
      PROVE  Committing \in chain'.contracts[files'.records["FuelChainState"].address].roles
  <2>1. Address("FuelChainState") \in 0 .. Len(chain.contracts) /\ Address("FuelChainState") > 0
    <3>1. "FuelChainState" \in DOMAIN files.records
      BY <1>2, <1>3, <1>7 DEF RegisterInv, Replaced
    <3> QED
      BY <1>0, <1>2, <1>3, <1>4, <1>7, <3>1 DEF BaseInv
  <2>2. Address("FuelChainState") \in DOMAIN chain.contracts
    BY <1>0, <2>1 DEF BaseInv, IsSequence
  <2>3. Committing \in chain.contracts[Address("FuelChainState")].roles
    BY <1>2, <1>7 DEF RegisterInv, Registered, Contract
  <2>4. Committing \in chain'.contracts[Address("FuelChainState")].roles
    BY <2>2, <2>3, CommittingStays
  <2> QED
    BY <1>2, <1>3, <1>4, <1>7, <2>4
<1>8. Registered'
  BY <1>0, <1>7 DEF Registered, Contract, Address
<1> QED
  BY <1>6, <1>8

LEMMA NextRegister ==
    ASSUME DeployInv, RegisterInv, [TaskNext]_allVars
    PROVE  RegisterInv'
<1>0. /\ BaseInv /\ CallInv /\ JobInv
      /\ network' = network /\ Scripts' = Scripts /\ Replaces' = Replaces
  <2>1. BaseInv /\ CallInv /\ JobInv
    BY DEF DeployInv
  <2>2. network' = network
    BY <2>1, NetworkStays
  <2> QED
    BY <2>1, <2>2 DEF Scripts, Replaces
<1> SUFFICES ASSUME Replaces > 0
             PROVE  NotRefused' /\ InOrder' /\ Replaced' /\ Registered'
  BY <1>0 DEF RegisterInv
<1>1. /\ NotRefused /\ InOrder /\ Replaced /\ Registered
      /\ Replaces \in Nat /\ Replaces + 1 \in 1 .. Len(Scripts) /\ Len(Scripts) \in Nat
      /\ job.at \in Nat /\ job.pc \in Nat /\ job.reached \in Nat
  BY <1>0, ReplacingScripts DEF RegisterInv, BaseInv
<1>2. ASSUME job' = job, files' = files, seen'.refused = seen.refused
      PROVE  NotRefused' /\ InOrder' /\ Replaced' /\ Registered'
  <2>1. NotRefused' /\ InOrder'
    BY <1>0, <1>1, <1>2 DEF NotRefused, InOrder, Entered
  <2>2. \A i : Entered(i)' => Entered(i)
    BY <1>0, <1>2 DEF Entered
  <2>3. Replaced' /\ Registered'
    BY <1>0, <1>2, <2>2, StaysReplaced DEF Address
  <2> QED
    BY <2>1, <2>3
<1>3. ASSUME job'.pc = 0, job'.reached \in 0 .. 1, files' = files, NotRefused'
      PROVE  NotRefused' /\ InOrder' /\ Replaced' /\ Registered'
  <2>1. InOrder'
    BY <1>0, <1>1, <1>3 DEF InOrder, Entered
  <2>2. \A i : Entered(i)' => Entered(i)
    BY <1>0, <1>3 DEF Entered
  <2>3. Replaced' /\ Registered'
    BY <1>0, <1>3, <2>2, StaysReplaced DEF Address
  <2> QED
    BY <1>3, <2>1, <2>3
<1>4. CASE UNCHANGED vars
  BY <1>2, <1>4 DEF vars
<1>5. CASE Start
  <2>1. job'.pc = 0 /\ job'.reached = 1 /\ files' = files
    BY <1>5, IdleJob DEF Start
  <2>2. seen'.refused = seen.refused
    BY <1>0, <1>5 DEF Start, BaseInv
  <2> QED
    BY <1>1, <1>3, <2>1, <2>2 DEF NotRefused
<1>6. CASE NextScript
  <2>1. files' = files /\ seen'.refused = seen.refused
    BY <1>0, <1>6, NextEffect
  <2>2. NotRefused'
    BY <1>1, <2>1 DEF NotRefused
  <2>3. CASE job' = Idle
    BY <1>3, <2>1, <2>2, <2>3, IdleJob
  <2>4. CASE /\ job'.at \in job.reached .. Len(Scripts) /\ ToRun(job'.at)
             /\ job'.pc = 1 /\ job'.reached = job'.at
             /\ \A j \in job.reached .. job'.at - 1 : ~ToRun(j)
    <3>1. \A i : Entered(i)' <=> Entered(i)
      BY <1>0, <2>1 DEF Entered
    <3>2. \A i \in 1 .. Replaces + 1 : i < job'.at => Entered(i)
      <4> SUFFICES ASSUME NEW i \in 1 .. Replaces + 1, i < job'.at
                   PROVE  Entered(i)
        OBVIOUS
      <4>1. CASE i < job.reached
        BY <1>1, <4>1 DEF InOrder
      <4>2. CASE ~(i < job.reached)
        <5>1. ~ToRun(i)
          BY <1>1, <2>4, <4>2
        <5>2. Scripts[i].skip = FALSE
          <6>1. i \in 1 .. Len(Scripts)
            BY <1>1
          <6> QED
            BY <6>1, ScriptNames
        <5> QED
          BY <5>1, <5>2 DEF ToRun, Entered
      <4> QED
        BY <4>1, <4>2
    <3>3. ~Entered(job'.at)
      BY <2>4 DEF ToRun, Entered
    <3>4. InOrder'
      BY <1>0, <1>1, <2>4, <3>1, <3>2, <3>3 DEF InOrder
    <3>5. Replaced' /\ Registered'
      BY <1>0, <2>1, <2>4, <3>1, StaysReplaced DEF Address
    <3> QED
      BY <2>2, <3>4, <3>5
  <2> QED
    BY <1>0, <1>6, <2>3, <2>4, NextEffect
<1>7. CASE ScriptReturns
  <2>1. /\ job.pc > 0 /\ job.pc > Len(script.steps)
        /\ script.migrates = TRUE
        /\ job.at \in 1 .. Len(Scripts)
    BY <1>7, RunningScript DEF ScriptReturns, InScript
  <2>2. /\ files'.migrations = files.migrations \union {script.id}
        /\ files'.records = files.records
        /\ seen' = seen
    BY <1>0, <1>7, <2>1 DEF ScriptReturns, BaseInv
  <2>3. job'.pc = 0 /\ job'.reached = job.at + 1
    BY <1>7, IdleJob DEF ScriptReturns
  <2>4. \A i : Entered(i) \/ i = job.at => Entered(i)'
    BY <1>0, <2>2 DEF Entered, script
  <2>5. \A i \in 1 .. Replaces + 1 : i <= job.at => Entered(i)'
    BY <1>1, <2>1, <2>4 DEF InOrder
  <2>6. \A j \in Replaces .. Replaces + 1 : Entered(j)' => Entered(j) \/ job.at = j
    <3> SUFFICES ASSUME NEW j \in Replaces .. Replaces + 1, Entered(j)', ~Entered(j)
                 PROVE  job.at = j
      OBVIOUS
    <3>1. Scripts[j].id = script.id
      BY <1>0, <2>2 DEF Entered
    <3>2. j = Replaces \/ j = Replaces + 1
      BY <1>1
    <3>3. j \in 1 .. Len(Scripts)
      BY <1>1, <3>2
    <3> QED
      BY <2>1, <3>1, <3>2, <3>3, ScriptNames, RunningScript
  <2>7. InOrder'
    <3>1. ASSUME NEW j \in Replaces .. Replaces + 1, Entered(j)', NEW i \in 1 .. j
          PROVE  Entered(i)'
      <4>1. CASE Entered(j)
        BY <1>1, <2>4, <3>1, <4>1 DEF InOrder
      <4>2. CASE job.at = j
        BY <1>1, <2>5, <4>2
      <4> QED
        BY <2>6, <3>1, <4>1, <4>2
    <3>2. \A i \in 1 .. Replaces + 1 : i < job'.reached => Entered(i)'
      BY <1>1, <2>3, <2>5
    <3> QED
      BY <1>0, <2>3, <3>1, <3>2 DEF InOrder
  <2>8. /\ job.at = Replaces => job.pc > 2
        /\ job.at = Replaces + 1 => job.pc > 1
    BY <2>1, ReplacingScripts DEF script
  <2>9. Replaced' /\ Registered'
    <3>1. /\ Entered(Replaces)' => Entered(Replaces) \/ (job.at = Replaces /\ job.pc > 2)
          /\ Entered(Replaces + 1)' =>
                Entered(Replaces + 1) \/ (job.at = Replaces + 1 /\ job.pc > 1)
      BY <1>0, <1>1, <2>6, <2>8
    <3> QED
      BY <1>0, <2>2, <2>3, <3>1, StaysReplaced DEF Address
  <2> QED
    BY <1>1, <2>2, <2>7, <2>9 DEF NotRefused
<1>8. CASE Step
  <2>0. /\ job.pc > 0 /\ job.at \in 1 .. Len(Scripts)
        /\ script.id = "chain_state_redeploy" <=> job.at = Replaces
        /\ script.id = "redeploy_register_committer" <=> job.at = Replaces + 1
        /\ PlainStep(job.at, step, Replaces, Savers)
    BY <1>8, RunningScript DEF Step, InScript
  <2>1. CASE Throw
    <3>1. job' = Idle /\ files' = files
          /\ seen'.refused = seen.refused \union {script.id}
      BY <1>0, <2>1 DEF Throw, BaseInv
    <3>2. job.at \notin Replaces .. Replaces + 1
      <4>1. job'.pc # job.pc + 1
        BY <1>1, <2>0, <3>1, IdleJob
      <4> QED
        BY <1>8, <4>1, ReplacingSteps
    <3>3. NotRefused'
      BY <1>1, <2>0, <3>1, <3>2 DEF NotRefused
    <3> QED
      BY <1>3, <3>1, <3>3, IdleJob
  <2>2. CASE Advances
    <3>1. /\ seen' = seen /\ files'.migrations = files.migrations
          /\ job'.at = job.at /\ job'.pc = job.pc + 1 /\ job'.reached = job.reached
      BY <2>2 DEF Advances
    <3>2. \A i : Entered(i)' <=> Entered(i)
      BY <1>0, <3>1 DEF Entered
    <3>3. NotRefused' /\ InOrder'
      BY <1>0, <1>1, <2>0, <3>1, <3>2 DEF NotRefused, InOrder
    <3>4. ~Entered(job.at)
      BY <1>1, <2>0 DEF InOrder
    <3>5. CASE job.at \notin Replaces .. Replaces + 1
      <4>1. CASE step.op \in {"save", "savePrepared"} /\ step.name = "FuelChainState"
        <5>1. job.at <= Replaces
          BY <2>0, <4>1 DEF PlainStep
        <5>2. ~Entered(Replaces) /\ ~Entered(Replaces + 1)
          BY <1>1, <2>0, <3>4, <5>1 DEF InOrder
        <5>3. ~(job.at = Replaces) /\ ~(job.at = Replaces + 1)
          BY <1>1, <3>5
        <5>4. Replaced'
          BY <1>0, <3>1, <3>2, <5>2, <5>3 DEF Replaced
        <5>5. Registered'
          BY <1>0, <3>1, <3>2, <5>2, <5>3 DEF Registered
        <5> QED
          BY <3>3, <5>4, <5>5
      <4>2. CASE ~(step.op \in {"save", "savePrepared"} /\ step.name = "FuelChainState")
        <5>1. Replaced' /\ Registered'
          BY <1>0, <1>8, <3>1, <3>2, <3>5, <4>2, RecordUnsaved, StaysReplaced
        <5> QED
          BY <3>3, <5>1
      <4> QED
        BY <4>1, <4>2
    <3>6. CASE job.at = Replaces
      <4>1. ~Entered(Replaces) /\ ~Entered(Replaces + 1)
        BY <1>1, <2>0, <3>4, <3>6 DEF InOrder
      <4>2. /\ job.pc <= 2
            /\ job.pc = 1 => job'.address > 0
            /\ job.pc = 2 =>
                  /\ "FuelChainState" \in DOMAIN files'.records
                  /\ files'.records["FuelChainState"].address > 0
        BY <1>1, <1>8, <3>6, ReplacingSteps
      <4>3. Replaced'
        BY <1>0, <1>1, <3>1, <3>2, <3>6, <4>1, <4>2 DEF Replaced, Address
      <4>4. Registered'
        BY <1>0, <1>1, <3>1, <3>2, <3>6, <4>1 DEF Registered
      <4> QED
        BY <3>3, <4>3, <4>4
    <3>7. CASE job.at = Replaces + 1
      <4>1. files' = files /\ "FuelChainState" \in DOMAIN files.records
            /\ Committing \in chain'.contracts[Address("FuelChainState")].roles
        BY <1>1, <1>8, <3>7, ReplacingSteps
      <4>2. Entered(Replaces)
        BY <1>1, <2>0, <3>7 DEF InOrder
      <4>3. Replaced'
        BY <1>0, <1>1, <3>1, <3>7, <4>1, <4>2 DEF Replaced, Address
      <4>4. Registered'
        BY <1>0, <4>1 DEF Registered, Contract, Address
      <4> QED
        BY <3>3, <4>3, <4>4
    <3> QED
      BY <1>1, <3>5, <3>6, <3>7
  <2> QED
    BY <1>0, <1>8, <2>1, <2>2, StepEffect
<1>9. CASE Mined
  <2>1. job' = job /\ files' = files /\ seen' = seen
    BY <1>9 DEF Mined
  <2> QED
    BY <1>2, <2>1
<1>10. CASE Crash
  <2>1. job' = Idle /\ files' = files /\ seen'.refused = seen.refused
    BY <1>0, <1>10 DEF Crash, BaseInv
  <2>2. NotRefused'
    BY <1>1, <2>1 DEF NotRefused
  <2> QED
    BY <1>3, <2>1, <2>2, IdleJob
<1>11. ASSUME NEW id \in seen.refused, EnterMigration(id)
       PROVE  NotRefused' /\ InOrder' /\ Replaced' /\ Registered'
  <2>1. /\ files'.migrations = files.migrations \union {id}
        /\ files'.records = files.records
        /\ seen'.refused = seen.refused /\ job' = job /\ job = Idle
    BY <1>0, <1>11 DEF EnterMigration, BaseInv, Running
  <2>2. \A i : Entered(i) => Entered(i)'
    BY <1>0, <2>1 DEF Entered
  <2>3. \A j \in Replaces .. Replaces + 1 : Entered(j)' => Entered(j)
    <3> SUFFICES ASSUME NEW j \in Replaces .. Replaces + 1, Entered(j)', ~Entered(j)
                 PROVE  FALSE
      OBVIOUS
    <3>1. Scripts[j].id = id
      BY <1>0, <2>1 DEF Entered
    <3>2. j = Replaces \/ j = Replaces + 1
      BY <1>1
    <3>3. id \in {"chain_state_redeploy", "redeploy_register_committer"}
      <4>1. j \in 1 .. Len(Scripts)
        BY <1>1, <3>2
      <4> QED
        BY <3>1, <3>2, <4>1, ScriptNames
    <3> QED
      BY <1>1, <1>11, <3>3 DEF NotRefused
  <2>4. NotRefused' /\ InOrder'
    BY <1>0, <1>1, <2>1, <2>2, <2>3, IdleJob DEF NotRefused, InOrder
  <2>5. Replaced' /\ Registered'
    <3>1. /\ Entered(Replaces)' => Entered(Replaces)
          /\ Entered(Replaces + 1)' => Entered(Replaces + 1)
      BY <1>0, <1>1, <2>3
    <3> QED
      BY <1>0, <2>1, <3>1, IdleJob, StaysReplaced DEF Address
  <2> QED
    BY <2>4, <2>5
<1>12. CASE Called
  <2>1. job' = job /\ files' = files /\ seen' = seen
    BY <1>12 DEF Called
  <2> QED
    BY <1>2, <2>1
<1> QED
  BY <1>0, <1>4, <1>5, <1>6, <1>7, <1>8, <1>9, <1>10, <1>11, <1>12, NextKinds

------------------------------------------------------------------------------
(* The committer is kept *)

LEMMA InitLinking == TaskInit => LinkingInv
<1> SUFFICES ASSUME TaskInit
             PROVE  LinkedInv /\ RegisterInv
  BY InitDeploy DEF LinkingInv
<1>1. /\ chain.contracts = IF network.name = "fork" THEN ForkedContracts ELSE <<>>
      /\ files.migrations = {} /\ seen.refused = {} /\ job = Idle
  BY DEF TaskInit, Init
<1>2. \A a \in DOMAIN ForkedContracts : ForkedContracts[a].linked \in 0 .. Len(ForkedContracts)
  <2>1. \A c, l : MainnetContract(c, l).linked = l
    BY DEF MainnetContract, NewContract
  <2> QED
    BY <2>1 DEF ForkedContracts
<1>3. LinkedInv
  BY <1>1, <1>2 DEF LinkedInv
<1>4. ASSUME Replaces > 0
      PROVE  NotRefused /\ InOrder /\ Replaced /\ Registered
  <2>1. Replaces \in Nat
    BY <1>4, ReplacingScripts
  <2>2. \A i : ~Entered(i)
    BY <1>1 DEF Entered
  <2>3. job.at = 0 /\ job.pc = 0 /\ job.reached = 0
    BY <1>1, IdleJob
  <2> QED
    BY <1>1, <1>4, <2>1, <2>2, <2>3 DEF NotRefused, InOrder, Replaced, Registered
<1> QED
  BY <1>3, <1>4 DEF RegisterInv

LEMMA NextLinking == LinkingInv /\ [TaskNext]_allVars => LinkingInv'
BY NextDeploy, NextLinks, NextRegister DEF LinkingInv

\* The chain state that a step links has a committer.
LEMMA LinkedToCommitter ==
    ASSUME LinkingInv, NEW a, Links(a)
    PROVE  /\ Address("FuelChainState") \in DOMAIN chain.contracts
           /\ Address("FuelChainState") > 0
           /\ Committing \in chain.contracts[Address("FuelChainState")].roles
<1>0. DeployInv /\ RegisterInv /\ BaseInv /\ Step /\ step.op = "linkChainState"
  BY DEF LinkingInv, DeployInv, Links
<1>1. Replaces > 0 /\ job.at = Replaces + 3 /\ job.pc > 0
  BY <1>0, LinkingSteps DEF Step, InScript
<1>2. Replaces \in Nat
  BY <1>1, ReplacingScripts
<1>3. Entered(Replaces) /\ Entered(Replaces + 1)
  BY <1>0, <1>1, <1>2 DEF RegisterInv, InOrder
<1>4. "FuelChainState" \in DOMAIN files.records /\ Address("FuelChainState") > 0
  BY <1>0, <1>1, <1>3 DEF RegisterInv, Replaced
<1>5. Address("FuelChainState") \in DOMAIN chain.contracts
  BY <1>0, <1>4 DEF BaseInv, IsSequence
<1> QED
  BY <1>0, <1>1, <1>3, <1>4, <1>5 DEF RegisterInv, Registered, Contract

\* On no network, and however often its scripts are cut short and repeated, is a
\* portal whose chain state has a committer left with one that has none.
THEOREM CommitterIsKept == TaskSpec => CommitterKept
<1>1. LinkingInv /\ [TaskNext]_allVars =>
        [\A p \in {i \in DOMAIN chain.contracts : chain.contracts[i].contract = "FuelMessagePortal"} :
            LET committed(contracts) ==
                    /\ contracts[p].linked > 0
                    /\ Has(contracts[contracts[p].linked], "COMMITTER_ROLE", "committer")
            IN  committed(chain.contracts) => committed(chain'.contracts)]_vars
  <2> SUFFICES ASSUME LinkingInv, [TaskNext]_allVars, NEW p \in DOMAIN chain.contracts,
                      chain.contracts[p].contract = "FuelMessagePortal",
                      chain.contracts[p].linked > 0,
                      Committing \in chain.contracts[chain.contracts[p].linked].roles
               PROVE  /\ chain'.contracts[p].linked > 0
                      /\ Committing \in chain'.contracts[chain'.contracts[p].linked].roles
    BY DEF Has, Committing
  <2>0. DeployInv /\ LinkedInv /\ BaseInv
    BY DEF LinkingInv, DeployInv
  <2>1. CASE chain'.contracts[p].linked = chain.contracts[p].linked
    <3>1. chain.contracts[p].linked \in DOMAIN chain.contracts
      BY <2>0 DEF LinkedInv, BaseInv, IsSequence
    <3> QED
      BY <2>0, <2>1, <3>1, CommittingStays
  <2>2. CASE Links(p)
    <3> DEFINE a == Address("FuelChainState")
    <3>1. a \in DOMAIN chain.contracts /\ a > 0 /\ Committing \in chain.contracts[a].roles
      BY <2>2, LinkedToCommitter
    <3>2. chain'.contracts[p].linked = a
      BY <2>2 DEF Links
    <3> HIDE DEF a
    <3> QED
      BY <2>0, <3>1, <3>2, CommittingStays
  <2> QED
    BY <2>0, <2>1, <2>2, NextLinks
<1>2. TaskSpec => []LinkingInv
  BY InitLinking, NextLinking, PTL DEF TaskSpec
<1> QED
  BY <1>1, <1>2, PTL DEF TaskSpec, CommitterKept

------------------------------------------------------------------------------
(* The wiring: which script deploys which proxy, which one upgrades it and saves *)
(* its record again, and which one gives the portal its chain state last         *)

LEMMA MakerOf ==
    ASSUME NEW i \in 1 .. Len(Scripts), NEW n \in ProxyNames, NEW id, Alone(i, id), InTurn(i, n),
           Made(Scripts[i], id, n, KindOf(n), GivenTo(i, n))
    PROVE  Maker(i, n)
BY DEF Maker, Made

\* The makers of a proxy, each in its turn.
LEMMA MakesState ==
    ASSUME NEW i \in 1 .. Len(Scripts), i \in Nat, NEW id, Alone(i, id), i < Link,
           Made(Scripts[i], id, "FuelChainState", "FuelChainState", NoLink)
    PROVE  Maker(i, "FuelChainState")
<1>1. /\ "FuelChainState" \in ProxyNames /\ KindOf("FuelChainState") = "FuelChainState"
      /\ LinkedTo("FuelChainState") = NoLink /\ "FuelChainState" # PortalName
  BY DEF ProxyNames, KindOf, LinkedTo, PortalName
<1>2. InTurn(i, "FuelChainState") /\ ~Written(i)
  BY <1>1 DEF InTurn, Written, Link
<1> QED
  BY <1>1, <1>2, MakerOf DEF GivenTo

LEMMA MakesPortal ==
    ASSUME 2 \in 1 .. Len(Scripts), NEW id, Alone(2, id), 2 <= Link,
           <<1, "FuelChainState">> \in MadeBy,
           \A j, n : <<j, n>> \in MadeBy /\ n \in Gateways => 2 < j,
           Made(Scripts[2], id, PortalName, "FuelMessagePortal", "FuelChainState")
    PROVE  Maker(2, PortalName)
<1>1. /\ PortalName \in ProxyNames /\ KindOf(PortalName) = "FuelMessagePortal"
      /\ LinkedTo(PortalName) = "FuelChainState" /\ PortalName # "FuelChainState"
      /\ \E j \in 1 .. 2 - 1 : <<j, "FuelChainState">> \in MadeBy
  BY DEF ProxyNames, KindOf, LinkedTo, PortalName
<1>2. InTurn(2, PortalName) /\ ~Written(2)
  BY <1>1 DEF InTurn, Written
<1> QED
  BY <1>1, <1>2, MakerOf DEF GivenTo

LEMMA MakesGateway ==
    ASSUME NEW n \in Gateways, NEW i \in 1 .. Len(Scripts), i \in Nat, i > 2, NEW id,
           Alone(i, id), <<2, PortalName>> \in MadeBy, NEW linked,
           linked = IF Written(i) THEN WrittenDown ELSE PortalName,
           Made(Scripts[i], id, n, KindOf(n), linked)
    PROVE  Maker(i, n)
<1>1. /\ n \in ProxyNames /\ LinkedTo(n) = PortalName /\ n # PortalName /\ n # "FuelChainState"
  BY DEF ProxyNames, LinkedTo, PortalName, Gateways
<1>2. \E j \in 1 .. i - 1 : <<j, PortalName>> \in MadeBy
  OBVIOUS
<1>3. InTurn(i, n)
  BY <1>1, <1>2 DEF InTurn
<1> QED
  BY <1>1, <1>3, MakerOf DEF GivenTo

LEMMA RenewerOf ==
    ASSUME NEW i \in 1 .. Len(Scripts), NEW n \in ProxyNames, NEW id, Alone(i, id), ~Wires(i)
    PROVE  /\ Renewed(Scripts[i], id, n) => Renewer(i, n)
           /\ Reinitialization(Scripts[i], id, n) => Reinitializer(i, n)
BY DEF Renewer, Renewed, Reinitializer, Reinitialization

LEMMA PlacedAlone ==
    ASSUME BaseInv, network.name # "mainnet"
    PROVE  \A i \in Nat : \A id : (\A j : Placed(j, id, Replaces) => j = i) => Alone(i, id)
<1>1. \A j \in 1 .. Len(Scripts) : Placed(j, Scripts[j].id, Replaces)
  BY OtherScripts DEF Plain
<1> QED
  BY <1>1 DEF Alone

LEMMA MainnetAlone ==
    ASSUME network.name = "mainnet", NEW i \in 1 .. 21
    PROVE  Alone(i, MainnetIds[i])
<1>1. Scripts = Mainnet!Scripts /\ Len(Scripts) = 21
  BY MainnetLength DEF Scripts, ScriptsOf
<1>2. ASSUME NEW j \in 1 .. 21, Mainnet!Scripts[j].id = MainnetIds[i]
      PROVE  j = i
  <2>1. MainnetIds[j] = MainnetIds[i]
    BY <1>2, MainnetScripts DEF AsListed
  <2> QED
    BY <2>1, IdsDiffer
<1> QED
  BY <1>1, <1>2 DEF Alone

LEMMA TestnetWiring ==
    ASSUME BaseInv, network.name = "testnet"
    PROVE  Wiring
<1>1. /\ Scripts = Testnet!Scripts /\ Len(Scripts) = 18 /\ PortalName = "FuelMessagePortal"
      /\ Migrating = TRUE /\ Link = 14
  BY TestnetScripts DEF Scripts, ScriptsOf, PortalName, Migrating, Link
<1>2. /\ MadeBy = {<<1, "FuelChainState">>, <<2, "FuelMessagePortal">>, <<6,
            "FuelERC20GatewayV4">>, <<11, "FuelChainState">>, <<15, "FuelERC20GatewayV4">>}
      /\ RenewedBy = {<<3, "FuelMessagePortal">>, <<7, "FuelChainState">>, <<10,
            "FuelChainState">>, <<13, "FuelMessagePortal">>, <<17, "FuelERC20GatewayV4">>}
      /\ Reinitialized = {<<18, "FuelMessagePortal">>}
  BY DEF MadeBy, RenewedBy, Reinitialized
<1>3. Made(Testnet!Scripts[1], "chain_state", "FuelChainState", "FuelChainState",
        NoLink)
  <2> DEFINE S == Testnet!Scripts[1]
  <2> DEFINE a == Testnet!DeployProxy("FuelChainState", "initialize", "")
  <2> DEFINE b == Testnet!Save("FuelChainState")
  <2> DEFINE c == Testnet!Execute("FuelChainState", Testnet!Call("pause"))
  <2>1. /\ a.op = "deployProxy" /\ a.contract = "FuelChainState" /\ a.linkedTo = ""
        /\ b.op = "save" /\ b.name = "FuelChainState" /\ c.op = "execute"
    BY DEF Testnet!DeployProxy, Testnet!Save, Testnet!Execute
  <2> HIDE DEF a, b, c
  <2>2. S.id = "chain_state" /\ S.migrates = TRUE /\ S.skip = FALSE /\ S.steps = <<a, b>> \o <<c>>
    BY DEF Testnet!Scripts, Testnet!chain_state, Testnet!DeployAndSave, Testnet!Script,
        a, b, c
  <2> HIDE DEF S
  <2>3. Len(S.steps) = 3 /\ S.steps[1] = a /\ S.steps[2] = b /\ S.steps[3] = c
    BY <2>2, ThreeSteps
  <2> QED
    BY <1>1, <2>1, <2>2, <2>3 DEF S, Made, NoLink
<1>4. Made(Testnet!Scripts[2], "fuel_message_portal", "FuelMessagePortal", "FuelMessagePortal",
        "FuelChainState")
  <2> DEFINE S == Testnet!Scripts[2]
  <2> DEFINE a == Testnet!DeployProxy("FuelMessagePortal", "initialize", "FuelChainState")
  <2> DEFINE b == Testnet!Save("FuelMessagePortal")
  <2> DEFINE c == Testnet!Execute("FuelMessagePortal", Testnet!Call("pause"))
  <2>1. /\ a.op = "deployProxy" /\ a.contract = "FuelMessagePortal" /\ a.linkedTo = "FuelChainState"
        /\ b.op = "save" /\ b.name = "FuelMessagePortal" /\ c.op = "execute"
    BY DEF Testnet!DeployProxy, Testnet!Save, Testnet!Execute
  <2> HIDE DEF a, b, c
  <2>2. S.id = "fuel_message_portal" /\ S.migrates = TRUE /\ S.skip = FALSE /\ S.steps = <<a, b>> \o <<c>>
    BY DEF Testnet!Scripts, Testnet!fuel_message_portal, Testnet!DeployAndSave,
        Testnet!Script, a, b, c
  <2> HIDE DEF S
  <2>3. Len(S.steps) = 3 /\ S.steps[1] = a /\ S.steps[2] = b /\ S.steps[3] = c
    BY <2>2, ThreeSteps
  <2> QED
    BY <1>1, <2>1, <2>2, <2>3 DEF S, Made, NoLink
<1>5. Made(Testnet!Scripts[6], "fuel_erc20_gateway_v4", "FuelERC20GatewayV4", "FuelERC20Gateway",
        "FuelMessagePortal")
  BY DEF Testnet!Scripts, Testnet!fuel_erc20_gateway_v4, Testnet!DeployAndSave,
      Testnet!DeployProxy, Testnet!Save, Testnet!Script, Made, Migrating
<1>6. Made(Testnet!Scripts[11], "chain_state_redeploy", "FuelChainState", "FuelChainState",
        NoLink)
  BY DEF Testnet!Scripts, Testnet!chain_state_redeploy, Testnet!DeployAndSave,
      Testnet!DeployProxy, Testnet!Save, Testnet!Script, Made, Migrating, NoLink
<1>7. Made(Testnet!Scripts[15], "gateway_redeploy", "FuelERC20GatewayV4", "FuelERC20Gateway",
        WrittenDown)
  BY DEF Testnet!Scripts, Testnet!gateway_redeploy, Testnet!DeployAndSave,
      Testnet!DeployProxy, Testnet!Save, Testnet!Script, Made, Migrating,
      Testnet!WrittenDown, WrittenDown
<1>8. Renewed(Testnet!Scripts[3], "portal_upgrade", "FuelMessagePortal")
  BY DEF Testnet!Scripts, Testnet!portal_upgrade, Testnet!Save, Testnet!Script,
      Testnet!UpgradeAndSave, Testnet!UpgradeProxy, Renewed, Renewing, ReadTooEarly
<1>9. Renewed(Testnet!Scripts[7], "state_upgrade", "FuelChainState")
  BY DEF Testnet!Scripts, Testnet!state_upgrade, Testnet!Save, Testnet!Script,
      Testnet!UpgradeAndSave, Testnet!UpgradeProxy, Renewed, Renewing, ReadTooEarly
<1>10. Renewed(Testnet!Scripts[10], "state_upgrade_2", "FuelChainState")
  BY DEF Testnet!Scripts, Testnet!state_upgrade_2, Testnet!Save, Testnet!Script,
      Testnet!UpgradeAndSave, Testnet!UpgradeProxy, Renewed, Renewing, ReadTooEarly
<1>11. Renewed(Testnet!Scripts[13], "portal_upgrade_2", "FuelMessagePortal")
  BY DEF Testnet!Scripts, Testnet!portal_upgrade_2, Testnet!AwaitUpgrade, Testnet!Save,
      Testnet!Script, Testnet!UpgradeProxy, Renewed, Renewing, ReadTooEarly
<1>12. Renewed(Testnet!Scripts[17], "gateway_upgrade", "FuelERC20GatewayV4")
  BY DEF Testnet!Scripts, Testnet!gateway_upgrade, Testnet!Save, Testnet!Script,
      Testnet!UpgradeAndSave, Testnet!UpgradeProxy, Renewed, Renewing, ReadTooEarly
<1>13. Reinitialization(Testnet!Scripts[18], "019_portal_upgrade", "FuelMessagePortal")
  BY DEF Testnet!Scripts, Testnet!portal_upgrade_019, Testnet!PrepareUpgrade,
      Testnet!SavePrepared, Testnet!Script, Testnet!UpgradeAndReinitialize,
      Reinitialization
<1>14. Linking(Testnet!Scripts[14], "portal_set_chain_state")
  BY DEF Testnet!Scripts, Testnet!portal_set_chain_state, Testnet!LinkChainState,
      Testnet!Script, Linking
<1>15. /\ Alone(1, "chain_state") /\ Alone(2, "fuel_message_portal")
      /\ Alone(6, "fuel_erc20_gateway_v4") /\ Alone(11, "chain_state_redeploy")
      /\ Alone(15, "gateway_redeploy") /\ Alone(3, "portal_upgrade")
      /\ Alone(7, "state_upgrade") /\ Alone(10, "state_upgrade_2")
      /\ Alone(13, "portal_upgrade_2") /\ Alone(17, "gateway_upgrade")
      /\ Alone(18, "019_portal_upgrade") /\ Alone(14, "portal_set_chain_state")
  <2>1. network.name # "mainnet" /\ Replaces = 11
    BY DEF Replaces
  <2> QED
    BY <2>1, PlacedAlone DEF Placed
<1>16. Maker(1, "FuelChainState") /\ Maker(11, "FuelChainState")
  BY <1>1, <1>3, <1>6, <1>15, MakesState
<1>17. Maker(2, "FuelMessagePortal")
  BY <1>1, <1>2, <1>4, <1>15, MakesPortal DEF Gateways
<1>18. Maker(6, "FuelERC20GatewayV4")
  <2>1. "FuelERC20GatewayV4" \in Gateways /\ KindOf("FuelERC20GatewayV4") = "FuelERC20Gateway"
    BY <1>1 DEF Gateways, KindOf
  <2> QED
    BY <1>1, <1>2, <1>5, <1>15, <2>1, MakesGateway DEF Written
<1>19. Maker(15, "FuelERC20GatewayV4")
  <2>1. "FuelERC20GatewayV4" \in Gateways /\ KindOf("FuelERC20GatewayV4") = "FuelERC20Gateway"
    BY <1>1 DEF Gateways, KindOf
  <2> QED
    BY <1>1, <1>2, <1>7, <1>15, <2>1, MakesGateway DEF Written
<1>20. ASSUME NEW i, NEW n, <<i, n>> \in MadeBy
      PROVE  Maker(i, n)
  BY <1>2, <1>20, <1>16, <1>17, <1>18, <1>19
<1>21. ASSUME NEW i, NEW n
      PROVE  /\ <<i, n>> \in RenewedBy => Renewer(i, n)
             /\ <<i, n>> \in Reinitialized => Reinitializer(i, n)
  <2>1. ~Wires(3) /\ ~Wires(7) /\ ~Wires(10) /\ ~Wires(13) /\ ~Wires(17) /\ ~Wires(18)
    BY <1>1, <1>2 DEF Wires, Makes
  <2>2. "FuelMessagePortal" \in ProxyNames /\ "FuelChainState" \in ProxyNames /\ "FuelERC20GatewayV4" \in ProxyNames
    BY <1>1 DEF ProxyNames, Gateways
  <2> QED
    BY <1>1, <1>2, <1>8, <1>9, <1>10, <1>11, <1>12, <1>13, <1>15, <2>1, <2>2, RenewerOf
<1>22. LinkKept
  <2>1. /\ ~Makes(14) /\ 2 \in 1 .. 14 - 1 /\ <<2, "FuelMessagePortal">> \in MadeBy
        /\ 11 \in 1 .. 14 - 1 /\ <<11, "FuelChainState">> \in MadeBy
    BY <1>2 DEF Makes
  <2> QED
    BY <1>1, <1>14, <1>15, <2>1 DEF LinkKept, Linking, Alone
<1>23. \A i \in Savers : i \in 1 .. Len(Scripts) => Saver(i)
  <2>1. Savers = TestnetSavers
    BY DEF Savers
  <2> QED
    BY <1>1, <1>2, <2>1 DEF TestnetSavers, Saver, ProxyNames, Gateways
<1> QED
  BY <1>20, <1>21, <1>22, <1>23 DEF Wiring

LEMMA DevnetWiring ==
    ASSUME BaseInv, network.name = "devnet"
    PROVE  Wiring
<1>1. /\ Scripts = Devnet!Scripts /\ Len(Scripts) = 19 /\ PortalName = "FuelMessagePortal"
      /\ Migrating = TRUE /\ Link = 16
  BY DevnetScripts DEF Scripts, ScriptsOf, PortalName, Migrating, Link
<1>2. /\ MadeBy = {<<1, "FuelChainState">>, <<2, "FuelMessagePortal">>, <<3,
            "FuelERC20GatewayV4">>, <<13, "FuelChainState">>, <<17, "FuelERC20GatewayV4">>}
      /\ RenewedBy = {<<6, "FuelMessagePortal">>, <<8, "FuelChainState">>, <<10,
            "FuelMessagePortal">>, <<11, "FuelChainState">>, <<15, "FuelMessagePortal">>}
      /\ Reinitialized = {<<19, "FuelMessagePortal">>}
  BY DEF MadeBy, RenewedBy, Reinitialized
<1>3. Made(Devnet!Scripts[1], "chain_state", "FuelChainState", "FuelChainState",
        NoLink)
  <2> DEFINE S == Devnet!Scripts[1]
  <2> DEFINE a == Devnet!DeployProxy("FuelChainState", "initialize", "")
  <2> DEFINE b == Devnet!Save("FuelChainState")
  <2> DEFINE c == Devnet!Execute("FuelChainState", Devnet!Call("pause"))
  <2>1. /\ a.op = "deployProxy" /\ a.contract = "FuelChainState" /\ a.linkedTo = ""
        /\ b.op = "save" /\ b.name = "FuelChainState" /\ c.op = "execute"
    BY DEF Devnet!DeployProxy, Devnet!Save, Devnet!Execute
  <2> HIDE DEF a, b, c
  <2>2. S.id = "chain_state" /\ S.migrates = TRUE /\ S.skip = FALSE /\ S.steps = <<a, b>> \o <<c>>
    BY DEF Devnet!Scripts, Devnet!chain_state, Devnet!DeployAndSave, Devnet!Script, a,
        b, c
  <2> HIDE DEF S
  <2>3. Len(S.steps) = 3 /\ S.steps[1] = a /\ S.steps[2] = b /\ S.steps[3] = c
    BY <2>2, ThreeSteps
  <2> QED
    BY <1>1, <2>1, <2>2, <2>3 DEF S, Made, NoLink
<1>4. Made(Devnet!Scripts[2], "fuel_message_portal", "FuelMessagePortal", "FuelMessagePortal",
        "FuelChainState")
  <2> DEFINE S == Devnet!Scripts[2]
  <2> DEFINE a == Devnet!DeployProxy("FuelMessagePortal", "initialize", "FuelChainState")
  <2> DEFINE b == Devnet!Save("FuelMessagePortal")
  <2> DEFINE c == Devnet!Execute("FuelMessagePortal", Devnet!Call("pause"))
  <2>1. /\ a.op = "deployProxy" /\ a.contract = "FuelMessagePortal" /\ a.linkedTo = "FuelChainState"
        /\ b.op = "save" /\ b.name = "FuelMessagePortal" /\ c.op = "execute"
    BY DEF Devnet!DeployProxy, Devnet!Save, Devnet!Execute
  <2> HIDE DEF a, b, c
  <2>2. S.id = "fuel_message_portal" /\ S.migrates = TRUE /\ S.skip = FALSE /\ S.steps = <<a, b>> \o <<c>>
    BY DEF Devnet!Scripts, Devnet!fuel_message_portal, Devnet!DeployAndSave,
        Devnet!Script, a, b, c
  <2> HIDE DEF S
  <2>3. Len(S.steps) = 3 /\ S.steps[1] = a /\ S.steps[2] = b /\ S.steps[3] = c
    BY <2>2, ThreeSteps
  <2> QED
    BY <1>1, <2>1, <2>2, <2>3 DEF S, Made, NoLink
<1>5. Made(Devnet!Scripts[3], "fuel_erc20_gateway_v4", "FuelERC20GatewayV4", "FuelERC20Gateway",
        "FuelMessagePortal")
  BY DEF Devnet!Scripts, Devnet!fuel_erc20_gateway_v4, Devnet!DeployAndSave,
      Devnet!DeployProxy, Devnet!Save, Devnet!Script, Made, Migrating
<1>6. Made(Devnet!Scripts[13], "chain_state_redeploy", "FuelChainState", "FuelChainState",
        NoLink)
  BY DEF Devnet!Scripts, Devnet!chain_state_redeploy, Devnet!DeployAndSave,
      Devnet!DeployProxy, Devnet!Save, Devnet!Script, Made, Migrating, NoLink
<1>7. Made(Devnet!Scripts[17], "gateway_redeploy", "FuelERC20GatewayV4", "FuelERC20Gateway",
        "FuelMessagePortal")
  BY DEF Devnet!Scripts, Devnet!gateway_redeploy, Devnet!DeployAndSave,
      Devnet!DeployProxy, Devnet!Save, Devnet!Script, Made, Migrating
<1>8. Renewed(Devnet!Scripts[6], "fuel_message_portal_redeploy", "FuelMessagePortal")
  BY DEF Devnet!Scripts, Devnet!fuel_message_portal_redeploy, Devnet!AwaitDeployment,
      Devnet!Save, Devnet!Script, Devnet!UpgradeProxy, Renewed, Renewing, ReadTooEarly
<1>9. Renewed(Devnet!Scripts[8], "state_redeploy", "FuelChainState")
  BY DEF Devnet!Scripts, Devnet!state_redeploy, Devnet!AwaitDeployment, Devnet!Call,
      Devnet!Execute, Devnet!Save, Devnet!Script, Devnet!UpgradeProxy, Renewed, Renewing,
      ReadTooEarly
<1>10. Renewed(Devnet!Scripts[10], "portal_upgrade", "FuelMessagePortal")
  BY DEF Devnet!Scripts, Devnet!portal_upgrade, Devnet!Save, Devnet!Script,
      Devnet!UpgradeAndSave, Devnet!UpgradeProxy, Renewed, Renewing, ReadTooEarly
<1>11. Renewed(Devnet!Scripts[11], "state_upgrade", "FuelChainState")
  BY DEF Devnet!Scripts, Devnet!state_upgrade, Devnet!Save, Devnet!Script,
      Devnet!UpgradeAndSave, Devnet!UpgradeProxy, Renewed, Renewing, ReadTooEarly
<1>12. Renewed(Devnet!Scripts[15], "portal_upgrade_2", "FuelMessagePortal")
  BY DEF Devnet!Scripts, Devnet!portal_upgrade_2, Devnet!AwaitUpgrade, Devnet!Save,
      Devnet!Script, Devnet!UpgradeProxy, Renewed, Renewing, ReadTooEarly
<1>13. Reinitialization(Devnet!Scripts[19], "018_portal_upgrade", "FuelMessagePortal")
  BY DEF Devnet!Scripts, Devnet!portal_upgrade_018, Devnet!PrepareUpgrade,
      Devnet!SavePrepared, Devnet!Script, Devnet!UpgradeAndReinitialize, Reinitialization
<1>14. Linking(Devnet!Scripts[16], "portal_set_chain_state")
  BY DEF Devnet!Scripts, Devnet!portal_set_chain_state, Devnet!LinkChainState,
      Devnet!Script, Linking
<1>15. /\ Alone(1, "chain_state") /\ Alone(2, "fuel_message_portal")
      /\ Alone(3, "fuel_erc20_gateway_v4") /\ Alone(13, "chain_state_redeploy")
      /\ Alone(17, "gateway_redeploy") /\ Alone(6, "fuel_message_portal_redeploy")
      /\ Alone(8, "state_redeploy") /\ Alone(10, "portal_upgrade")
      /\ Alone(11, "state_upgrade") /\ Alone(15, "portal_upgrade_2")
      /\ Alone(19, "018_portal_upgrade") /\ Alone(16, "portal_set_chain_state")
  <2>1. network.name # "mainnet" /\ Replaces = 13
    BY DEF Replaces
  <2> QED
    BY <2>1, PlacedAlone DEF Placed
<1>16. Maker(1, "FuelChainState") /\ Maker(13, "FuelChainState")
  BY <1>1, <1>3, <1>6, <1>15, MakesState
<1>17. Maker(2, "FuelMessagePortal")
  BY <1>1, <1>2, <1>4, <1>15, MakesPortal DEF Gateways
<1>18. Maker(3, "FuelERC20GatewayV4")
  <2>1. "FuelERC20GatewayV4" \in Gateways /\ KindOf("FuelERC20GatewayV4") = "FuelERC20Gateway"
    BY <1>1 DEF Gateways, KindOf
  <2> QED
    BY <1>1, <1>2, <1>5, <1>15, <2>1, MakesGateway DEF Written
<1>19. Maker(17, "FuelERC20GatewayV4")
  <2>1. "FuelERC20GatewayV4" \in Gateways /\ KindOf("FuelERC20GatewayV4") = "FuelERC20Gateway"
    BY <1>1 DEF Gateways, KindOf
  <2> QED
    BY <1>1, <1>2, <1>7, <1>15, <2>1, MakesGateway DEF Written
<1>20. ASSUME NEW i, NEW n, <<i, n>> \in MadeBy
      PROVE  Maker(i, n)
  BY <1>2, <1>20, <1>16, <1>17, <1>18, <1>19
<1>21. ASSUME NEW i, NEW n
      PROVE  /\ <<i, n>> \in RenewedBy => Renewer(i, n)
             /\ <<i, n>> \in Reinitialized => Reinitializer(i, n)
  <2>1. ~Wires(6) /\ ~Wires(8) /\ ~Wires(10) /\ ~Wires(11) /\ ~Wires(15) /\ ~Wires(19)
    BY <1>1, <1>2 DEF Wires, Makes
  <2>2. "FuelMessagePortal" \in ProxyNames /\ "FuelChainState" \in ProxyNames
    BY <1>1 DEF ProxyNames, Gateways
  <2> QED
    BY <1>1, <1>2, <1>8, <1>9, <1>10, <1>11, <1>12, <1>13, <1>15, <2>1, <2>2, RenewerOf
<1>22. LinkKept
  <2>1. /\ ~Makes(16) /\ 2 \in 1 .. 16 - 1 /\ <<2, "FuelMessagePortal">> \in MadeBy
        /\ 13 \in 1 .. 16 - 1 /\ <<13, "FuelChainState">> \in MadeBy
    BY <1>2 DEF Makes
  <2> QED
    BY <1>1, <1>14, <1>15, <2>1 DEF LinkKept, Linking, Alone
<1>23. \A i \in Savers : i \in 1 .. Len(Scripts) => Saver(i)
  <2>1. Savers = DevnetSavers
    BY DEF Savers
  <2> QED
    BY <1>1, <1>2, <2>1 DEF DevnetSavers, Saver, ProxyNames, Gateways
<1> QED
  BY <1>20, <1>21, <1>22, <1>23 DEF Wiring

LEMMA MainnetWiring ==
    ASSUME BaseInv, network.name = "mainnet"
    PROVE  Wiring
<1>1. /\ Scripts = Mainnet!Scripts /\ Len(Scripts) = 21 /\ PortalName = "FuelMessagePortal"
      /\ Migrating = TRUE /\ Link = 2
  BY MainnetLength DEF Scripts, ScriptsOf, PortalName, Migrating, Link
<1>2. /\ MadeBy = {<<1, "FuelChainState">>, <<2, "FuelMessagePortal">>, <<7,
            "FuelERC20GatewayV4">>}
      /\ RenewedBy = {<<6, "FuelMessagePortal">>}
      /\ Reinitialized = {}
  BY DEF MadeBy, RenewedBy, Reinitialized
<1>3. Made(Mainnet!Scripts[1], "chain_state", "FuelChainState", "FuelChainState",
        NoLink)
  BY DEF Mainnet!Scripts, Mainnet!chain_state, Mainnet!DeployAndSave, Mainnet!DeployProxy,
      Mainnet!Save, Mainnet!Script, Made, Migrating, NoLink
<1>4. Made(Mainnet!Scripts[2], "fuel_message_portal", "FuelMessagePortal", "FuelMessagePortal",
        "FuelChainState")
  BY DEF Mainnet!Scripts, Mainnet!fuel_message_portal, Mainnet!DeployAndSave,
      Mainnet!DeployProxy, Mainnet!Save, Mainnet!Script, Made, Migrating
<1>5. Made(Mainnet!Scripts[7], "gateway", "FuelERC20GatewayV4", "FuelERC20Gateway",
        "FuelMessagePortal")
  BY DEF Mainnet!Scripts, Mainnet!gateway, Mainnet!DeployAndSave, Mainnet!DeployProxy,
      Mainnet!Save, Mainnet!Script, Made, Migrating
<1>6. Renewed(Mainnet!Scripts[6], "set_deposit_limit_eth", "FuelMessagePortal")
  BY DEF Mainnet!Scripts, Mainnet!set_deposit_limit_eth, Mainnet!Save, Mainnet!Script,
      Mainnet!UpgradeAndSave, Mainnet!UpgradeProxy, Renewed, Renewing, ReadTooEarly
<1>7. /\ Alone(1, "chain_state") /\ Alone(2, "fuel_message_portal")
      /\ Alone(7, "gateway") /\ Alone(6, "set_deposit_limit_eth")
  <2>1. /\ Alone(1, MainnetIds[1]) /\ Alone(2, MainnetIds[2])
        /\ Alone(7, MainnetIds[7]) /\ Alone(6, MainnetIds[6])
    BY MainnetAlone
  <2>2. /\ MainnetIds[1] = "chain_state" /\ MainnetIds[2] = "fuel_message_portal"
        /\ MainnetIds[7] = "gateway" /\ MainnetIds[6] = "set_deposit_limit_eth"
    BY DEF MainnetIds
  <2> QED
    BY <2>1, <2>2
<1>8. Maker(1, "FuelChainState")
  BY <1>1, <1>3, <1>7, MakesState
<1>9. Maker(2, "FuelMessagePortal")
  BY <1>1, <1>2, <1>4, <1>7, MakesPortal DEF Gateways
<1>10. Maker(7, "FuelERC20GatewayV4")
  <2>1. "FuelERC20GatewayV4" \in Gateways /\ KindOf("FuelERC20GatewayV4") = "FuelERC20Gateway"
    BY <1>1 DEF Gateways, KindOf
  <2> QED
    BY <1>1, <1>2, <1>5, <1>7, <2>1, MakesGateway DEF Written
<1>11. ASSUME NEW i, NEW n, <<i, n>> \in MadeBy
      PROVE  Maker(i, n)
  BY <1>2, <1>11, <1>8, <1>9, <1>10
<1>12. ASSUME NEW i, NEW n
      PROVE  /\ <<i, n>> \in RenewedBy => Renewer(i, n)
             /\ <<i, n>> \in Reinitialized => Reinitializer(i, n)
  <2>1. ~Wires(6)
    BY <1>1, <1>2 DEF Wires, Makes
  <2>2. "FuelMessagePortal" \in ProxyNames
    BY <1>1 DEF ProxyNames, Gateways
  <2> QED
    BY <1>1, <1>2, <1>6, <1>7, <2>1, <2>2, RenewerOf
<1>13. LinkKept
  BY <1>1, <1>2 DEF LinkKept
<1>14. \A i \in Savers : i \in 1 .. Len(Scripts) => Saver(i)
  BY DEF Savers, ForkSavers
<1> QED
  BY <1>11, <1>12, <1>13, <1>14 DEF Wiring

LEMMA HardhatWiring ==
    ASSUME BaseInv, network.name = "hardhat"
    PROVE  Wiring
<1>1. /\ Scripts = Hardhat!Scripts /\ Len(Scripts) = 9 /\ PortalName = "FuelMessagePortal"
      /\ Migrating = FALSE /\ Link = 2
  BY HardhatScripts DEF Scripts, ScriptsOf, PortalName, Migrating, Link
<1>2. /\ MadeBy = {<<1, "FuelChainState">>, <<2, "FuelMessagePortal">>, <<3,
            "FuelERC20GatewayV4">>, <<6, "FuelERC721Gateway">>}
      /\ RenewedBy = {}
      /\ Reinitialized = {}
  BY DEF MadeBy, RenewedBy, Reinitialized
<1>3. Made(Hardhat!Scripts[1], "chain_state", "FuelChainState", "FuelChainState",
        NoLink)
  BY DEF Hardhat!Scripts, Hardhat!chain_state, Hardhat!DeployAndSave, Hardhat!DeployProxy,
      Hardhat!RepeatedScript, Hardhat!Save, Made, Migrating, NoLink
<1>4. Made(Hardhat!Scripts[2], "fuel_message_portal", "FuelMessagePortal", "FuelMessagePortal",
        "FuelChainState")
  BY DEF Hardhat!Scripts, Hardhat!fuel_message_portal, Hardhat!DeployAndSave,
      Hardhat!DeployProxy, Hardhat!RepeatedScript, Hardhat!Save, Made, Migrating
<1>5. Made(Hardhat!Scripts[3], "fuel_erc20_gateway_v4", "FuelERC20GatewayV4", "FuelERC20Gateway",
        "FuelMessagePortal")
  BY DEF Hardhat!Scripts, Hardhat!fuel_erc20_gateway_v4, Hardhat!DeployAndSave,
      Hardhat!DeployProxy, Hardhat!RepeatedScript, Hardhat!Save, Made, Migrating
<1>6. Made(Hardhat!Scripts[6], "fuel_erc721_gateway_v2", "FuelERC721Gateway", "FuelERC721Gateway",
        "FuelMessagePortal")
  BY DEF Hardhat!Scripts, Hardhat!fuel_erc721_gateway_v2, Hardhat!DeployAndSave,
      Hardhat!DeployProxy, Hardhat!RepeatedScript, Hardhat!Save, Made, Migrating
<1>7. /\ Alone(1, "chain_state") /\ Alone(2, "fuel_message_portal")
      /\ Alone(3, "fuel_erc20_gateway_v4") /\ Alone(6, "fuel_erc721_gateway_v2")
  <2>1. network.name # "mainnet" /\ Replaces = 0
    BY DEF Replaces
  <2> QED
    BY <2>1, PlacedAlone DEF Placed
<1>8. Maker(1, "FuelChainState")
  BY <1>1, <1>3, <1>7, MakesState
<1>9. Maker(2, "FuelMessagePortal")
  BY <1>1, <1>2, <1>4, <1>7, MakesPortal DEF Gateways
<1>10. Maker(3, "FuelERC20GatewayV4")
  <2>1. "FuelERC20GatewayV4" \in Gateways /\ KindOf("FuelERC20GatewayV4") = "FuelERC20Gateway"
    BY <1>1 DEF Gateways, KindOf
  <2> QED
    BY <1>1, <1>2, <1>5, <1>7, <2>1, MakesGateway DEF Written
<1>11. Maker(6, "FuelERC721Gateway")
  <2>1. "FuelERC721Gateway" \in Gateways /\ KindOf("FuelERC721Gateway") = "FuelERC721Gateway"
    BY <1>1 DEF Gateways, KindOf
  <2> QED
    BY <1>1, <1>2, <1>6, <1>7, <2>1, MakesGateway DEF Written
<1>12. ASSUME NEW i, NEW n, <<i, n>> \in MadeBy
      PROVE  Maker(i, n)
  BY <1>2, <1>12, <1>8, <1>9, <1>10, <1>11
<1>13. ASSUME NEW i, NEW n
      PROVE  /\ <<i, n>> \in RenewedBy => Renewer(i, n)
             /\ <<i, n>> \in Reinitialized => Reinitializer(i, n)
  BY <1>2
<1>14. LinkKept
  BY <1>1, <1>2 DEF LinkKept
<1>15. \A i \in Savers : i \in 1 .. Len(Scripts) => Saver(i)
  <2>1. Savers = HardhatSavers
    BY DEF Savers
  <2> QED
    BY <1>1, <1>2, <2>1 DEF HardhatSavers, Saver, ProxyNames, Gateways
<1> QED
  BY <1>12, <1>13, <1>14, <1>15 DEF Wiring

LEMMA UpgradeTestWiring ==
    ASSUME BaseInv, network.name = "upgradeTest"
    PROVE  Wiring
<1>1. /\ Scripts = UpgradeTest!Scripts /\ Len(Scripts) = 6 /\ PortalName = "FuelMessagePortalV3"
      /\ Migrating = FALSE /\ Link = 2
  BY UpgradeTestScripts DEF Scripts, ScriptsOf, PortalName, Migrating, Link
<1>2. /\ MadeBy = {<<1, "FuelChainState">>, <<2, "FuelMessagePortalV3">>, <<3,
            "FuelERC20GatewayV4">>}
      /\ RenewedBy = {}
      /\ Reinitialized = {}
  BY DEF MadeBy, RenewedBy, Reinitialized
<1>3. Made(UpgradeTest!Scripts[1], "chain_state", "FuelChainState", "FuelChainState",
        NoLink)
  BY DEF UpgradeTest!Scripts, UpgradeTest!chain_state, UpgradeTest!DeployAndSave,
      UpgradeTest!DeployProxy, UpgradeTest!RepeatedScript, UpgradeTest!Save, Made,
      Migrating, NoLink
<1>4. Made(UpgradeTest!Scripts[2], "fuel_message_portal", "FuelMessagePortalV3", "FuelMessagePortal",
        "FuelChainState")
  BY DEF UpgradeTest!Scripts, UpgradeTest!fuel_message_portal, UpgradeTest!DeployAndSave,
      UpgradeTest!DeployProxy, UpgradeTest!RepeatedScript, UpgradeTest!Save, Made,
      Migrating
<1>5. Made(UpgradeTest!Scripts[3], "fuel_erc20_gateway_v4", "FuelERC20GatewayV4", "FuelERC20Gateway",
        "FuelMessagePortalV3")
  BY DEF UpgradeTest!Scripts, UpgradeTest!fuel_erc20_gateway_v4,
      UpgradeTest!DeployAndSave, UpgradeTest!DeployProxy, UpgradeTest!RepeatedScript,
      UpgradeTest!Save, Made, Migrating
<1>6. /\ Alone(1, "chain_state") /\ Alone(2, "fuel_message_portal")
      /\ Alone(3, "fuel_erc20_gateway_v4")
  <2>1. network.name # "mainnet" /\ Replaces = 0
    BY DEF Replaces
  <2> QED
    BY <2>1, PlacedAlone DEF Placed
<1>7. Maker(1, "FuelChainState")
  BY <1>1, <1>3, <1>6, MakesState
<1>8. Maker(2, "FuelMessagePortalV3")
  BY <1>1, <1>2, <1>4, <1>6, MakesPortal DEF Gateways
<1>9. Maker(3, "FuelERC20GatewayV4")
  <2>1. "FuelERC20GatewayV4" \in Gateways /\ KindOf("FuelERC20GatewayV4") = "FuelERC20Gateway"
    BY <1>1 DEF Gateways, KindOf
  <2> QED
    BY <1>1, <1>2, <1>5, <1>6, <2>1, MakesGateway DEF Written
<1>10. ASSUME NEW i, NEW n, <<i, n>> \in MadeBy
      PROVE  Maker(i, n)
  BY <1>2, <1>10, <1>7, <1>8, <1>9
<1>11. ASSUME NEW i, NEW n
      PROVE  /\ <<i, n>> \in RenewedBy => Renewer(i, n)
             /\ <<i, n>> \in Reinitialized => Reinitializer(i, n)
  BY <1>2
<1>12. LinkKept
  BY <1>1, <1>2 DEF LinkKept
<1>13. \A i \in Savers : i \in 1 .. Len(Scripts) => Saver(i)
  <2>1. Savers = UpgradeTestSavers
    BY DEF Savers
  <2> QED
    BY <1>1, <1>2, <2>1 DEF UpgradeTestSavers, Saver, ProxyNames, Gateways
<1> QED
  BY <1>10, <1>11, <1>12, <1>13 DEF Wiring
LEMMA TheWiring ==
    ASSUME BaseInv
    PROVE  Wiring
<1>1. CASE network.name = "fork"
  <2>1. /\ MadeBy = {<<0, "FuelChainState">>, <<0, "FuelMessagePortal">>, <<0, "FuelERC20GatewayV4">>}
        /\ RenewedBy = {} /\ Reinitialized = {} /\ Link = 0 /\ PortalName = "FuelMessagePortal"
        /\ Savers = {}
    BY <1>1 DEF MadeBy, RenewedBy, Reinitialized, Link, PortalName, Savers, ForkSavers
  <2> QED
    BY <1>1, <2>1 DEF Wiring, LinkKept
<1>2. network.name \in {"mainnet", "testnet", "devnet", "hardhat", "fork", "upgradeTest"}
  BY DEF BaseInv, AllNetworks, ScriptsOf
<1> QED
  BY <1>1, <1>2, TestnetWiring, DevnetWiring, MainnetWiring, HardhatWiring, UpgradeTestWiring

\* A script that wires is there, is never skipped, and is the only one of its id.
LEMMA WiringScript ==
    ASSUME BaseInv, NEW i, Wires(i), i # 0
    PROVE  /\ i \in 1 .. Len(Scripts) /\ Alone(i, Scripts[i].id) /\ Scripts[i].skip = FALSE
           /\ Scripts[i].migrates = Migrating /\ Len(Scripts[i].steps) \in Nat
           /\ Len(Scripts[i].steps) > IF Makes(i) THEN 1 ELSE 0
           /\ Makes(i) \/ Migrating
<1>0. Wiring
  BY TheWiring
<1>1. ASSUME NEW n, <<i, n>> \in MadeBy
      PROVE  /\ i \in 1 .. Len(Scripts) /\ Alone(i, Scripts[i].id) /\ Scripts[i].skip = FALSE
             /\ Scripts[i].migrates = Migrating /\ Len(Scripts[i].steps) \in Nat
             /\ Len(Scripts[i].steps) > 1 /\ Makes(i)
  <2>1. Maker(i, n)
    BY <1>0, <1>1 DEF Wiring
  <2>2. Len(Scripts[i].steps) \in {2, 3}
    BY <2>1 DEF Maker, Made
  <2> QED
    BY <1>1, <2>1, <2>2 DEF Maker, Made, Makes
<1>2. CASE \E n : <<i, n>> \in MadeBy
  <2>1. PICK n : <<i, n>> \in MadeBy
    BY <1>2
  <2> QED
    BY <1>1, <2>1
<1>3. CASE ~ \E n : <<i, n>> \in MadeBy
  <2>1. i = Link /\ ~Makes(i)
    BY <1>3 DEF Wires, Makes
  <2>2. /\ i \in 1 .. Len(Scripts) /\ Alone(i, Scripts[i].id) /\ Migrating = TRUE
        /\ Linking(Scripts[i], Scripts[i].id)
    BY <1>0, <1>3, <2>1 DEF Wiring, LinkKept, Migrating
  <2>3. Len(Scripts[i].steps) = 1 /\ Scripts[i].skip = FALSE /\ Scripts[i].migrates = TRUE
    BY <2>2 DEF Linking
  <2>4. Len(Scripts[i].steps) \in Nat /\ Len(Scripts[i].steps) > IF Makes(i) THEN 1 ELSE 0
    BY <2>1, <2>3
  <2>5. Scripts[i].migrates = Migrating /\ (Makes(i) \/ Migrating)
    BY <2>2, <2>3
  <2> QED
    BY <2>2, <2>3, <2>4, <2>5
<1> QED
  BY <1>2, <1>3

LEMMA Fixed ==
    ASSUME BaseInv, CallInv, [TaskNext]_allVars
    PROVE  /\ Scripts' = Scripts /\ MadeBy' = MadeBy /\ RenewedBy' = RenewedBy /\ Link' = Link
           /\ Reinitialized' = Reinitialized /\ PortalName' = PortalName /\ ProxyNames' = ProxyNames /\ Migrating' = Migrating
           /\ network' = network
           /\ \A i : (Wires(i) <=> Wires(i)') /\ (Makes(i) <=> Makes(i)')
           /\ \A n : KindOf(n)' = KindOf(n) /\ LinkedTo(n)' = LinkedTo(n)
           /\ \A i, n : GivenTo(i, n)' = GivenTo(i, n)
<1>1. network' = network
  BY NetworkStays
<1>2. /\ Scripts' = Scripts /\ MadeBy' = MadeBy /\ RenewedBy' = RenewedBy /\ Link' = Link
      /\ Reinitialized' = Reinitialized /\ PortalName' = PortalName /\ Migrating' = Migrating
  BY <1>1 DEF Scripts, MadeBy, RenewedBy, Reinitialized, Link, PortalName, Migrating
<1>3. ProxyNames' = ProxyNames
  BY <1>2 DEF ProxyNames
<1>4. NoLink' = NoLink
  BY DEF NoLink
<1>5. \A n : LinkedTo(n)' = LinkedTo(n)
  BY <1>2, <1>4 DEF LinkedTo
<1>6. \A i, n : GivenTo(i, n)' = GivenTo(i, n)
  BY <1>1, <1>5 DEF GivenTo, Written, WrittenDown
<1> QED
  BY <1>1, <1>2, <1>3, <1>5, <1>6 DEF Makes, Wires, KindOf

\* What a proxy is given: the address its script has written down, or that of a record.
LEMMA WhatIsGiven ==
    ASSUME NEW i, NEW n, n # "FuelChainState"
    PROVE  /\ Linked(GivenTo(i, n)) = IF Written(i) THEN WrittenPortal ELSE Address(LinkedTo(n))
           /\ <<i, n>> \in MadeBy /\ Written(i) => n \in Gateways
<1>1. LinkedTo(n) \in {"FuelChainState", PortalName}
  BY DEF LinkedTo
<1>2. LinkedTo(n) # "" /\ LinkedTo(n) # WrittenDown /\ WrittenDown # ""
  BY <1>1 DEF PortalName, WrittenDown
<1>3. Written(i) => Linked(GivenTo(i, n)) = WrittenPortal
  BY <1>2 DEF Linked, GivenTo
<1>4. ~Written(i) => Linked(GivenTo(i, n)) = Address(LinkedTo(n))
  BY <1>2 DEF Linked, GivenTo
<1>5. ASSUME <<i, n>> \in MadeBy, Written(i)
      PROVE  n \in Gateways
  <2>1. <<i, n>> \in {<<1, "FuelChainState">>, <<2, "FuelMessagePortal">>,
            <<6, "FuelERC20GatewayV4">>, <<11, "FuelChainState">>, <<15, "FuelERC20GatewayV4">>}
    BY <1>5 DEF Written, MadeBy
  <2> QED
    BY <1>5, <2>1 DEF Written, Gateways
<1> QED
  BY <1>3, <1>4, <1>5

\* What the scripts that wire, and only they, do.
LEMMA WiringStep ==
    ASSUME DeployInv, Step
    PROVE  /\ job.at \in 1 .. Len(Scripts) /\ job.pc \in Nat /\ job.pc > 0
           /\ \A n : <<job.at, n>> \in MadeBy =>
                /\ Maker(job.at, n)
                /\ \/ /\ job.pc = 1 /\ step.op = "deployProxy" /\ step.contract = KindOf(n)
                      /\ step.linkedTo = GivenTo(job.at, n)
                   \/ job.pc = 2 /\ step.op = "save" /\ step.name = n
                   \/ job.pc = 3 /\ step.op = "execute" /\ Migrating
           /\ \A n : <<job.at, n>> \in RenewedBy =>
                /\ Renewer(job.at, n)
                /\ \/ job.pc = 1 /\ step.op = "upgradeProxy" /\ step.name = n
                   \/ job.pc > 1 /\ Renewing(step, n)
           /\ job.at = Link /\ ~Makes(Link) =>
                job.pc = 1 /\ step.op = "linkChainState" /\ step.name = PortalName
           /\ step.op \in {"save", "upgradeProxy"} => Saver(job.at)
           /\ step.op = "linkChainState" => job.at = Link /\ ~Makes(Link)
<1>0. /\ BaseInv /\ JobInv /\ Wiring /\ step = script.steps[job.pc] /\ script = Scripts[job.at]
      /\ job.pc > 0 /\ job.pc <= Len(script.steps) /\ job.pc \in Nat
  BY TheWiring DEF DeployInv, Step, InScript, BaseInv, step, script
<1>1. job.at \in 1 .. Len(Scripts)
  BY <1>0 DEF JobInv
<1>2. ASSUME NEW n, <<job.at, n>> \in MadeBy
      PROVE  /\ Maker(job.at, n)
             /\ \/ /\ job.pc = 1 /\ step.op = "deployProxy" /\ step.contract = KindOf(n)
                   /\ step.linkedTo = GivenTo(job.at, n)
                \/ job.pc = 2 /\ step.op = "save" /\ step.name = n
                \/ job.pc = 3 /\ step.op = "execute" /\ Migrating
  <2>1. Maker(job.at, n)
    BY <1>0, <1>1, <1>2 DEF Wiring
  <2>2. Made(script, script.id, n, KindOf(n), GivenTo(job.at, n))
    BY <1>0, <2>1 DEF Maker
  <2>3. job.pc = 1 \/ job.pc = 2 \/ (job.pc = 3 /\ Len(script.steps) = 3)
    BY <1>0, <2>2 DEF Made
  <2> QED
    BY <1>0, <2>1, <2>2, <2>3 DEF Made
<1>3. ASSUME NEW n, <<job.at, n>> \in RenewedBy
      PROVE  /\ Renewer(job.at, n)
             /\ \/ job.pc = 1 /\ step.op = "upgradeProxy" /\ step.name = n
                \/ job.pc > 1 /\ Renewing(step, n)
  <2>1. Renewer(job.at, n)
    BY <1>0, <1>3 DEF Wiring
  <2>2. Renewed(script, script.id, n)
    BY <1>0, <2>1 DEF Renewer
  <2>3. \/ job.pc = 1 \/ job.pc = 2 \/ (job.pc = 3 /\ Len(script.steps) > 2)
        \/ (job.pc = 4 /\ Len(script.steps) > 3)
    BY <1>0, <2>2 DEF Renewed
  <2> QED
    BY <1>0, <2>1, <2>2, <2>3 DEF Renewed, Renewing
<1>4. ASSUME job.at = Link, ~Makes(Link)
      PROVE  job.pc = 1 /\ step.op = "linkChainState" /\ step.name = PortalName
  <2>1. Linking(script, script.id) /\ PortalName = "FuelMessagePortal"
    BY <1>0, <1>4 DEF Wiring, LinkKept, Makes, ProxyNames
  <2>2. job.pc = 1
    BY <1>0, <2>1 DEF Linking
  <2> QED
    BY <1>0, <2>1, <2>2 DEF Linking
<1>5. ASSUME step.op \in {"save", "upgradeProxy"}
      PROVE  Saver(job.at)
  <2>1. CASE network.name = "mainnet"
    <3>1. MainnetStep(job.at, job.pc, step)
      BY <1>0, <2>1, TheStep
    <3>2. SavedIn(job.at, step.name)
      BY <1>5, <3>1 DEF MainnetStep, Deploys, Saves, Upgrades, Prepares, SavesPrepared, Grants,
          HandsOver, SetsUp, SavesBridge, Renounces, Proposes, ProposesUpgrade, SavedIn
    <3>3. /\ MadeBy = {<<1, "FuelChainState">>, <<2, "FuelMessagePortal">>,
                <<7, "FuelERC20GatewayV4">>}
          /\ RenewedBy = {<<6, "FuelMessagePortal">>}
          /\ ProxyNames = {"FuelChainState", "FuelMessagePortal"} \union Gateways
      BY <2>1 DEF MadeBy, RenewedBy, ProxyNames, PortalName
    <3>4. <<job.at, step.name>> \in MadeBy \union RenewedBy /\ step.name \in ProxyNames
      BY <3>2, <3>3 DEF SavedIn, Gateways
    <3> QED
      BY <3>4 DEF Saver
  <2>2. CASE network.name # "mainnet"
    <3>1. Plain(job.at, script, Replaces, Savers)
      BY <1>0, <1>1, <2>2, OtherScripts
    <3>2. PlainStep(job.at, step, Replaces, Savers)
      BY <1>0, <3>1 DEF Plain
    <3> QED
      BY <1>0, <1>1, <1>5, <3>2 DEF PlainStep, Wiring
  <2> QED
    BY <2>1, <2>2
<1>6. ASSUME step.op = "linkChainState"
      PROVE  job.at = Link /\ ~Makes(Link)
  <2>1. Replaces > 0 /\ job.at = Replaces + 3
    BY <1>6, LinkingSteps
  <2>2. \/ network.name = "testnet" /\ Link = 14 /\ job.at = 14
        \/ network.name = "devnet" /\ Link = 16 /\ job.at = 16
    BY <2>1 DEF Replaces, Link
  <2>3. \A n : <<job.at, n>> \notin MadeBy
    <3>1. CASE network.name = "testnet"
      BY <2>2, <3>1 DEF MadeBy
    <3>2. CASE network.name = "devnet"
      BY <2>2, <3>2 DEF MadeBy
    <3> QED
      BY <2>2, <3>1, <3>2
  <2>4. ~Makes(job.at)
    BY <2>3 DEF Makes
  <2> QED
    BY <2>2, <2>4
<1> QED
  BY <1>0, <1>1, <1>2, <1>3, <1>4, <1>5, <1>6

\* While a script wires, none that comes later has.
LEMMA NotYet ==
    ASSUME BaseInv, WiredInOrder, job.pc > 0, job.at \in 1 .. Len(Scripts), Wires(job.at),
           NEW j \in 1 .. Len(Scripts), Wires(j), job.at < j
    PROVE  ~Past(j)
<1>1. job # Idle /\ job.reached = job.at /\ ~Entered(job.at)
  BY IdleJob DEF WiredInOrder, BaseInv
<1>2. ~Entered(j) /\ ~Refused(j)
  BY <1>1 DEF WiredInOrder
<1> QED
  BY <1>1, <1>2 DEF Past, Passed, Running

\* Whatever happens, the scripts that wire are passed in their order; and one that
\* was not passed before is the one that runs, which advances.
LEMMA PassedInOrder ==
    ASSUME DeployInv, WiredInOrder, [TaskNext]_allVars,
           Step /\ Throw /\ Wires(job.at) => Past(job.at) /\ Migrating
    PROVE  /\ WiredInOrder'
           /\ \A i : Past(i)' /\ Wires(i) =>
                    Past(i) \/ (Step /\ Advances /\ i = job.at)
<1> DEFINE OnlyPast == \A i : Past(i)' /\ Wires(i) => Past(i)
<1>0. /\ BaseInv /\ CallInv /\ JobInv /\ job.at \in Nat /\ job.pc \in Nat /\ job.reached \in Nat
      /\ Len(Scripts) \in Nat
  <2>1. BaseInv /\ CallInv /\ JobInv
    BY DEF DeployInv
  <2> QED
    BY <2>1 DEF BaseInv
<1>1. /\ Scripts' = Scripts /\ (Migrating' <=> Migrating)
      /\ \A i : (Wires(i) <=> Wires(i)') /\ (Makes(i) <=> Makes(i)')
  BY <1>0, Fixed
<1>2. /\ \A i : Entered(i)' <=> Scripts[i].id \in files'.migrations
      /\ \A i : Refused(i)' <=> Scripts[i].id \in seen'.refused
  BY <1>1 DEF Entered, Refused
<1>3. ASSUME UNCHANGED <<job, seen>>, files'.migrations = files.migrations
      PROVE  WiredInOrder' /\ OnlyPast
  <2>1. \A i : (Entered(i)' <=> Entered(i)) /\ (Refused(i)' <=> Refused(i))
    BY <1>2, <1>3 DEF Entered, Refused
  <2>2. \A i : Past(i)' <=> Past(i)
    BY <1>1, <1>3, <2>1 DEF Past, Passed, Running
  <2>3. WiredInOrder'
    BY <1>1, <1>3, <2>1 DEF WiredInOrder, Running
  <2> QED
    BY <2>2, <2>3
<1>4. CASE Start
  <2>1. /\ job'.reached = 1 /\ job'.pc = 0 /\ job'.at = 0 /\ UNCHANGED files
        /\ seen'.refused = seen.refused /\ seen'.finished = FALSE
    BY <1>0, <1>4, IdleJob DEF Start, BaseInv
  <2>2. \A i : (Entered(i)' <=> Entered(i)) /\ (Refused(i)' <=> Refused(i))
    BY <1>2, <2>1 DEF Entered, Refused
  <2>3. job' # Idle
    BY <2>1, IdleJob
  <2>4. OnlyPast
    <3>1. ASSUME NEW i, Past(i)', Wires(i)
          PROVE  Past(i)
      <4>1. i # 0 => i \in 1 .. Len(Scripts)
        BY <1>0, <3>1, WiringScript
      <4> QED
        BY <1>0, <2>1, <2>2, <2>3, <3>1, <4>1 DEF Past, Passed, Running
    <3> QED
      BY <3>1
  <2>5. WiredInOrder'
    BY <1>1, <2>1, <2>2 DEF WiredInOrder
  <2> QED
    BY <2>4, <2>5
<1>5. CASE NextScript
  <2>1. /\ files' = files /\ seen'.refused = seen.refused /\ job.pc = 0 /\ Running
    BY <1>0, <1>5, NextEffect DEF NextScript
  <2>2. \A i : (Entered(i)' <=> Entered(i)) /\ (Refused(i)' <=> Refused(i))
    BY <1>2, <2>1 DEF Entered, Refused
  <2>3. ASSUME NEW i \in job.reached .. Len(Scripts), Wires(i), ~ToRun(i)
        PROVE  Entered(i)
    <3>1. i # 0
      BY <1>0, <1>5 DEF NextScript, Running, JobInv
    <3> QED
      BY <1>0, <2>3, <3>1, WiringScript DEF ToRun, Entered
  <2>4. CASE job' = Idle
    <3>1. \A j \in job.reached .. Len(Scripts) : ~ToRun(j)
      BY <1>0, <1>5, <2>4, NextEffect, IdleJob
    <3>2. ASSUME NEW i, Wires(i)
          PROVE  Past(i)
      <4>1. i = 0 \/ i \in 1 .. Len(Scripts)
        BY <1>0, <3>2, WiringScript
      <4>2. i < job.reached \/ i = 0 \/ Entered(i)
        BY <1>0, <2>3, <3>1, <3>2, <4>1
      <4> QED
        BY <2>1, <4>2 DEF Past, Passed
    <3>3. WiredInOrder'
      BY <1>1, <2>2, <2>4, IdleJob DEF WiredInOrder, Running
    <3> QED
      BY <3>2, <3>3
  <2>5. CASE job' # Idle
    <3>1. /\ job'.at \in job.reached .. Len(Scripts) /\ ToRun(job'.at)
          /\ job'.pc = 1 /\ job'.reached = job'.at
          /\ \A j \in job.reached .. job'.at - 1 : ~ToRun(j)
      BY <1>0, <1>5, <2>5, NextEffect
    <3>2. seen' = seen
      BY <1>5, <2>5 DEF NextScript
    <3>3. ASSUME NEW i \in 1 .. Len(Scripts), Wires(i), i < job'.reached
          PROVE  i < job.reached \/ Entered(i)
      <4>1. i < job.reached \/ i \in job.reached .. job'.at - 1
        BY <1>0, <3>1, <3>3
      <4> QED
        BY <1>0, <2>3, <3>1, <3>3, <4>1
    <3>4. ASSUME NEW i, Past(i)', Wires(i)
          PROVE  Past(i)
      <4>1. i = 0 \/ i \in 1 .. Len(Scripts)
        BY <1>0, <3>4, WiringScript
      <4>2. i = 0 \/ Entered(i) \/ Refused(i) \/ i < job'.reached
        BY <2>2, <2>5, <3>1, <3>4 DEF Past, Passed, Running
      <4>3. i = 0 \/ Entered(i) \/ Refused(i) \/ i < job.reached
        BY <3>3, <3>4, <4>1, <4>2
      <4> QED
        BY <2>1, <4>3 DEF Past, Passed
    <3>5. ~Entered(job'.at)
      BY <3>1 DEF ToRun, Entered
    <3>6. WiredInOrder'
      BY <1>1, <2>1, <2>2, <3>1, <3>2, <3>3, <3>5 DEF WiredInOrder
    <3> QED
      BY <3>4, <3>6
  <2> QED
    BY <2>4, <2>5
<1>6. CASE ScriptReturns
  <2>1. /\ job.pc > Len(script.steps) /\ job.pc > 0 /\ script = Scripts[job.at]
        /\ job' = [Idle EXCEPT !.reached = job.at + 1] /\ seen' = seen
        /\ files'.migrations = IF script.migrates THEN files.migrations \union {script.id}
                               ELSE files.migrations
    BY <1>0, <1>6 DEF ScriptReturns, InScript, BaseInv, script
  <2>2. job'.reached = job.at + 1 /\ job'.pc = 0 /\ job'.at = 0 /\ Running
    BY <2>1, IdleJob DEF Running
  <2>3. job.at \in 1 .. Len(Scripts) /\ job.reached = job.at
    BY <2>1 DEF DeployInv, JobInv, WiredInOrder
  <2>4. \A i : Refused(i)' <=> Refused(i)
    BY <1>2, <2>1 DEF Refused
  <2>5. ASSUME Wires(job.at)
        PROVE  (script.migrates <=> Migrating) /\ Past(job.at)
    <3>0. job.at # 0
      BY <2>3
    <3>1. /\ script.migrates = Migrating /\ Len(script.steps) \in Nat
          /\ Len(script.steps) > IF Makes(job.at) THEN 1 ELSE 0
      BY <1>0, <2>1, <2>5, <3>0, WiringScript
    <3>2. job.pc > IF Makes(job.at) THEN 2 ELSE 1
      BY <1>0, <2>1, <3>1
    <3> QED
      BY <3>1, <3>2 DEF Past
  <2>6. ASSUME NEW i \in 1 .. Len(Scripts), Wires(i)
        PROVE  Entered(i)' <=> Entered(i) \/ (i = job.at /\ Migrating)
    <3>0. i # 0
      OBVIOUS
    <3>1. Scripts[i].id = script.id => i = job.at
      BY <1>0, <2>1, <2>3, <2>6, <3>0, WiringScript DEF Alone
    <3>2. Entered(i)' <=> Entered(i) \/ (script.migrates /\ Scripts[i].id = script.id)
      BY <1>2, <2>1 DEF Entered
    <3> QED
      BY <2>1, <2>5, <2>6, <3>1, <3>2
  <2>7. ASSUME NEW i, Past(i)', Wires(i)
        PROVE  Past(i)
    <3>1. i = 0 \/ i \in 1 .. Len(Scripts)
      BY <1>0, <2>7, WiringScript
    <3>2. i = 0 \/ Entered(i)' \/ Refused(i)' \/ i < job.at + 1 \/ (i = 0 /\ job'.pc > 0) \/ seen.finished
      BY <2>1, <2>2, <2>7 DEF Past, Passed
    <3>3. i = 0 \/ Entered(i) \/ Refused(i) \/ i < job.reached \/ i = job.at
      BY <2>2, <2>3, <2>4, <2>6, <2>7, <3>1, <3>2 DEF WiredInOrder
    <3> QED
      BY <2>2, <2>5, <2>7, <3>3 DEF Past, Passed
  <2>8. ~seen'.finished
    BY <2>1, <2>2 DEF WiredInOrder
  <2>9. ASSUME NEW i \in 1 .. Len(Scripts), NEW j \in 1 .. Len(Scripts), Wires(i), Wires(j), i < j,
               Entered(j)' \/ Refused(j)'
        PROVE  Entered(i)'
    <3>1. CASE Entered(j) \/ Refused(j)
      BY <2>6, <2>9, <3>1 DEF WiredInOrder
    <3>2. CASE j = job.at /\ Migrating
      BY <2>3, <2>6, <2>9, <3>2 DEF WiredInOrder
    <3> QED
      BY <2>4, <2>6, <2>9, <3>1, <3>2
  <2>10. ASSUME Migrating, NEW i \in 1 .. Len(Scripts), Wires(i), i < job.at + 1
         PROVE  Entered(i)'
    <3>1. i < job.reached \/ i = job.at
      BY <2>3, <2>10
    <3> QED
      BY <2>6, <2>10, <3>1 DEF WiredInOrder
  <2>11. WiredInOrder'
    BY <1>1, <2>2, <2>8, <2>9, <2>10 DEF WiredInOrder
  <2> QED
    BY <2>7, <2>11
<1>7. CASE Step
  <2>1. /\ job.pc > 0 /\ script = Scripts[job.at] /\ Running
        /\ job.at \in 1 .. Len(Scripts) /\ job.reached = job.at
    BY <1>7, IdleJob DEF Step, InScript, script, Running, DeployInv, JobInv, WiredInOrder
  <2>2. CASE Throw
    <3>1. /\ job' = Idle /\ files' = files
          /\ seen'.refused = seen.refused \union {script.id} /\ seen'.finished = seen.finished
      BY <1>0, <2>2 DEF Throw, BaseInv
    <3>2. \A i : Entered(i)' <=> Entered(i)
      BY <1>2, <3>1 DEF Entered
    <3>3. ASSUME NEW i \in 1 .. Len(Scripts), Wires(i), Refused(i)', ~Refused(i)
          PROVE  i = job.at /\ Past(job.at) /\ Migrating
      <4>1. Scripts[i].id = script.id
        BY <1>2, <3>1, <3>3 DEF Refused
      <4>0. i # 0
        OBVIOUS
      <4>2. i = job.at
        BY <1>0, <2>1, <3>3, <4>0, <4>1, WiringScript DEF Alone
      <4> QED
        BY <1>7, <2>2, <3>3, <4>2
    <3>4. ~seen.finished
      BY <2>1 DEF WiredInOrder
    <3>5. ASSUME NEW i, Past(i)', Wires(i)
          PROVE  Past(i)
      <4>1. i = 0 \/ i \in 1 .. Len(Scripts)
        BY <1>0, <3>5, WiringScript
      <4>2. i = 0 \/ Entered(i) \/ Refused(i)'
        BY <3>1, <3>2, <3>4, <3>5, IdleJob DEF Past, Passed, Running
      <4> QED
        BY <3>3, <3>5, <4>1, <4>2 DEF Past, Passed
    <3>6. ASSUME NEW i \in 1 .. Len(Scripts), NEW j \in 1 .. Len(Scripts), Wires(i), Wires(j), i < j,
                 Entered(j) \/ Refused(j)'
          PROVE  Entered(i)
      BY <2>1, <3>3, <3>6 DEF WiredInOrder
    <3>7. WiredInOrder'
      BY <1>1, <3>1, <3>2, <3>6, IdleJob DEF WiredInOrder, Running
    <3> QED
      BY <3>5, <3>7
  <2>3. CASE Advances
    <3>1. /\ job'.at = job.at /\ job'.pc = job.pc + 1 /\ job'.reached = job.reached
          /\ seen' = seen /\ files'.migrations = files.migrations /\ job' # Idle
      BY <1>0, <2>1, <2>3, IdleJob DEF Advances
    <3>2. \A i : (Entered(i)' <=> Entered(i)) /\ (Refused(i)' <=> Refused(i))
      BY <1>2, <3>1 DEF Entered, Refused
    <3>3. \A i : Past(i)' /\ Wires(i) => Past(i) \/ i = job.at
      BY <2>1, <3>1, <3>2 DEF Past, Passed, Running
    <3>4. WiredInOrder'
      BY <1>1, <2>1, <3>1, <3>2 DEF WiredInOrder, Running
    <3> QED
      BY <1>7, <2>3, <3>3, <3>4
  <2> QED
    BY <1>0, <1>7, <2>2, <2>3, StepEffect
<1>8. CASE Crash
  <2>1. job' = Idle /\ files' = files /\ seen'.refused = seen.refused /\ Running
        /\ seen'.finished = seen.finished
    BY <1>0, <1>8 DEF Crash, BaseInv
  <2>2. \A i : (Entered(i)' <=> Entered(i)) /\ (Refused(i)' <=> Refused(i))
    BY <1>2, <2>1 DEF Entered, Refused
  <2>3. ~seen.finished
    BY <2>1 DEF WiredInOrder
  <2>4. \A i : Past(i)' => Past(i)
    BY <2>1, <2>2, <2>3, IdleJob DEF Past, Passed, Running
  <2>5. WiredInOrder'
    BY <1>1, <2>1, <2>2, IdleJob DEF WiredInOrder, Running
  <2> QED
    BY <2>4, <2>5
<1>9. ASSUME NEW id \in seen.refused, EnterMigration(id)
      PROVE  WiredInOrder' /\ OnlyPast
  <2>1. /\ UNCHANGED job /\ seen'.refused = seen.refused /\ seen'.finished = seen.finished
        /\ files'.migrations = files.migrations \union {id} /\ ~Running
    BY <1>0, <1>9 DEF EnterMigration, BaseInv
  <2>2. \A i : /\ Entered(i) => Entered(i)'
               /\ Entered(i)' => Entered(i) \/ Refused(i)
               /\ Refused(i)' <=> Refused(i)
    BY <1>2, <2>1 DEF Entered, Refused
  <2>3. \A i : Past(i)' => Past(i)
    BY <1>1, <2>1, <2>2 DEF Past, Passed, Running
  <2>4. job.pc = 0 /\ job.reached = 0
    BY <2>1, IdleJob DEF Running
  <2>5. WiredInOrder'
    BY <1>1, <2>1, <2>2, <2>4 DEF WiredInOrder, Running
  <2> QED
    BY <2>3, <2>5
<1>10. CASE Mined \/ Called \/ UNCHANGED vars
  BY <1>3, <1>10 DEF Mined, Called, vars
<1> QED
  BY <1>0, <1>4, <1>5, <1>6, <1>7, <1>8, <1>9, <1>10, NextKinds

\* What is recorded stays so, but for records without a proxy.
RecordsStay ==
    /\ \A n \in DOMAIN files.records : n \in DOMAIN files'.records
    /\ \A n \in DOMAIN files'.records :
            \/ n \in DOMAIN files.records /\ files'.records[n].address = Address(n)
            \/ n \notin ProxyNames /\ files'.records[n].address = 0

LinksStay ==
    \A a \in DOMAIN chain.contracts : chain'.contracts[a].linked = chain.contracts[a].linked

\* A proxy that is deployed stays so, under the same record.
LEMMA StaysDeployed ==
    ASSUME DeployInv, [TaskNext]_allVars, NEW n, Deployed(n), n \in DOMAIN files'.records,
           files'.records[n].address = Address(n)
    PROVE  /\ Deployed(n)' /\ Address(n)' = Address(n) /\ Address(n) \in DOMAIN chain.contracts
           /\ Address(n) \in DOMAIN chain'.contracts
           /\ Contract(n) = chain.contracts[Address(n)]
           /\ Contract(n)' = chain'.contracts[Address(n)]
           /\ Contract(n)'.contract = Contract(n).contract
<1>1. Address(n)' = Address(n) /\ Deployed(n)'
  BY DEF Address, Deployed
<1>2. Address(n) \in DOMAIN chain.contracts
  BY DEF Deployed, DeployInv, BaseInv, IsSequence
<1> QED
  BY <1>1, <1>2, KindStays DEF Contract

LEMMA KindsStay ==
    ASSUME DeployInv, RightKinds, RecordsStay, [TaskNext]_allVars
    PROVE  RightKinds'
<1>1. /\ Scripts' = Scripts /\ MadeBy' = MadeBy /\ ProxyNames' = ProxyNames
      /\ \A n : KindOf(n)' = KindOf(n)
  BY Fixed DEF DeployInv
<1>2. ASSUME NEW n \in DOMAIN files'.records, files'.records[n].address > 0
      PROVE  /\ n \in ProxyNames /\ Contract(n)'.contract = KindOf(n)
             /\ \E i \in 0 .. Len(Scripts) : <<i, n>> \in MadeBy
  <2>1. n \in DOMAIN files.records /\ files'.records[n].address = Address(n)
    BY <1>2 DEF RecordsStay
  <2>2. Deployed(n)
    BY <1>2, <2>1 DEF Deployed
  <2> QED
    BY <1>2, <2>1, <2>2, StaysDeployed DEF RightKinds
<1> QED
  BY <1>1, <1>2 DEF RightKinds, Address

LEMMA PointersStay ==
    ASSUME DeployInv, RightKinds, RecordsStay, LinksStay, [TaskNext]_allVars, NEW n, NEW m
    PROVE  /\ Deployed(n) => Deployed(n)' /\ Address(n)' = Address(n)
           /\ PointsTo(n, m) => PointsTo(n, m)'
           /\ AsWritten(n) => AsWritten(n)'
<1>1. ASSUME NEW x, Deployed(x)
      PROVE  x \in DOMAIN files'.records /\ files'.records[x].address = Address(x)
  BY <1>1 DEF RecordsStay, RightKinds, Deployed
<1>2. ASSUME NEW x, Deployed(x)
      PROVE  /\ Deployed(x)' /\ Address(x)' = Address(x)
             /\ Contract(x)'.linked = Contract(x).linked
  BY <1>1, <1>2, StaysDeployed DEF LinksStay
<1>3. network' = network
  BY NetworkStays DEF DeployInv
<1> QED
  BY <1>2, <1>3 DEF PointsTo, AsWritten

\* So the wiring stays, unless something is newly wired.
LEMMA WiresStay ==
    ASSUME DeployInv, RightKinds, RightLinks, RecordsStay, LinksStay, [TaskNext]_allVars,
           \A i : Past(i)' /\ Wires(i) => Past(i)
    PROVE  RightKinds' /\ RightLinks'
<1>1. /\ Scripts' = Scripts /\ MadeBy' = MadeBy /\ ProxyNames' = ProxyNames
      /\ PortalName' = PortalName /\ Link' = Link
  BY Fixed DEF DeployInv
<1>2. \A i, n : <<i, n>> \in MadeBy /\ n \in ProxyNames => Wires(i)
  BY DEF Wires, Makes
<1>3. ASSUME NEW i \in 0 .. Len(Scripts), NEW n \in ProxyNames, <<i, n>> \in MadeBy, Past(i)'
      PROVE  Deployed(n)' /\ (n \in Gateways => PointsTo(n, PortalName)' \/ AsWritten(n)')
  <2>1. Past(i)
    BY <1>2, <1>3
  <2> QED
    BY <1>1, <1>3, <2>1, PointersStay DEF RightLinks
<1>4. Past(Link)' => PointsTo(PortalName, "FuelChainState")'
  <2>1. Past(Link)' => Past(Link)
    BY <1>1 DEF Wires
  <2> QED
    BY <1>1, <2>1, PointersStay DEF RightLinks
<1> QED
  BY <1>1, <1>3, <1>4, KindsStay DEF RightLinks

\* A step that advances does not throw, and found the records it looked up.
LEMMA AdvancingStep ==
    ASSUME BaseInv, Step, Advances
    PROVE  ~Throw /\ Looked(step) \subseteq DOMAIN files.records
<1>1. job'.pc > 0
  BY DEF Advances, BaseInv
<1>2. ~Throw
  BY <1>1, IdleJob DEF Throw
<1> QED
  BY <1>2 DEF Step

\* The records change where a script makes a proxy, and nowhere else.
LEMMA StepRecords ==
    ASSUME DeployInv, RightKinds, AtHand, Step, Advances,
           \A n : <<job.at, n>> \in MadeBy => job.pc # 2
    PROVE  RecordsStay
<1>0. BaseInv /\ ~Throw /\ Looked(step) \subseteq DOMAIN files.records
  BY AdvancingStep DEF DeployInv
<1>1. ASSUME files'.records = files.records
      PROVE  RecordsStay
  BY <1>1 DEF RecordsStay, Address
<1>2. ASSUME NEW n, NEW address, SavesAs(n, address),
             (n \in DOMAIN files.records /\ address = Address(n)) \/ (n \notin ProxyNames /\ address = 0)
      PROVE  RecordsStay
  BY <1>2 DEF RecordsStay, SavesAs, Address
<1>3. CASE save
  <2> DEFINE r == Record(job.address, chain.contracts[job.address].implementation,
                         script.id, FALSE, FALSE)
  <2>1. step.op = "save" /\ SaveRecord(step.name, r) /\ UNCHANGED <<chain, safe>>
    BY <1>3 DEF save
  <2>2. r.address = job.address
    BY DEF Record
  <2> HIDE DEF r
  <2>3. SavesAs(step.name, job.address)
    BY <1>0, <2>1, <2>2, SaveRecordEffect
  <2>4. PICK n \in ProxyNames : <<job.at, n>> \in MadeBy \/ <<job.at, n>> \in RenewedBy
    BY <2>1, WiringStep DEF Saver
  <2>5. <<job.at, n>> \notin MadeBy
    BY <2>1, WiringStep
  <2>6. job.pc > 1 /\ Renewing(step, n)
    BY <2>1, <2>4, <2>5, WiringStep
  <2>7. step.name = n
    BY <2>1, <2>6 DEF Renewing
  <2>8. n \in DOMAIN files.records /\ job.address = Address(n)
    BY <2>4, <2>5, <2>6 DEF AtHand
  <2> QED
    BY <1>2, <2>3, <2>7, <2>8
<1>4. CASE savePrepared
  <2> DEFINE r == Record(Address(step.name), job.implementation, script.id, TRUE, step.verifiable)
  <2>1. step.op = "savePrepared" /\ SaveRecord(step.name, r) /\ UNCHANGED <<chain, safe>>
    BY <1>4 DEF savePrepared
  <2>2. r.address = Address(step.name)
    BY DEF Record
  <2> HIDE DEF r
  <2>3. step.name \in DOMAIN files.records
    BY <1>0, <2>1 DEF Looked
  <2> QED
    BY <1>0, <1>2, <2>1, <2>2, <2>3, SaveRecordEffect
<1>5. ASSUME NEW name \in {"FuelL2BridgeId", "Token"},
             SaveRecord(name, Record(0, "", script.id, FALSE, FALSE)), UNCHANGED <<chain, safe>>
      PROVE  RecordsStay
  <2> DEFINE r == Record(0, "", script.id, FALSE, FALSE)
  <2>1. r.address = 0
    BY DEF Record
  <2> HIDE DEF r
  <2>2. SavesAs(name, r.address)
    BY <1>0, <1>5, SaveRecordEffect DEF r
  <2>3. name \notin ProxyNames
    BY <1>5 DEF ProxyNames, PortalName, Gateways
  <2> QED
    BY <1>2, <2>1, <2>2, <2>3
<1>6. CASE writeAddresses
  BY <1>0, <1>1, <1>6 DEF writeAddresses, BaseInv
<1>7. CASE execute \/ linkChainState
  BY <1>0, <1>1, <1>7 DEF execute, linkChainState, Transaction
<1>8. CASE \/ deployProxy \/ awaitUpgrade \/ prepareUpgrade \/ setToken \/ upgradeProxy
           \/ upgradeAndReinitialize
  BY <1>0, <1>1, <1>8 DEF deployProxy, awaitUpgrade, prepareUpgrade, setToken, upgradeProxy,
      upgradeAndReinitialize
<1>9. CASE saveL2Bridge \/ deployToken
  BY <1>5, <1>9 DEF saveL2Bridge, deployToken
<1>10. CASE propose \/ proposeUpgrade
  BY <1>1, <1>10 DEF propose, proposeUpgrade, ProposeCalls
<1> QED
  BY <1>0, <1>3, <1>4, <1>6, <1>7, <1>8, <1>9, <1>10 DEF Step, awaitDeployment

\* A script finds what the proxy it makes is to refer to.
LEMMA LinkedBefore ==
    ASSUME BaseInv, WiredInOrder, RightLinks, job.pc > 0, NEW n, Maker(job.at, n), n # "FuelChainState"
    PROVE  Deployed(LinkedTo(n))
<1>1. /\ job # Idle /\ job.reached = job.at /\ job.at \in 1 .. Len(Scripts)
      /\ Len(Scripts) \in Nat
  BY IdleJob DEF WiredInOrder, Maker, BaseInv
<1>2. PICK j \in 1 .. job.at - 1 : <<j, LinkedTo(n)>> \in MadeBy
  BY DEF Maker, InTurn
<1>3. j \in 0 .. Len(Scripts) /\ j < job.reached
  BY <1>1, <1>2
<1>4. Past(j)
  BY <1>1, <1>3 DEF Past, Passed, Running
<1>5. Maker(j, LinkedTo(n))
  BY <1>2, TheWiring DEF Wiring
<1> QED
  BY <1>2, <1>3, <1>4, <1>5 DEF RightLinks, Maker

\* What the portal is linked to is recorded, and the link is the deployer's to set.
LEMMA LinkStep ==
    ASSUME DeployInv, WiredInOrder, RightKinds, RightLinks, Step, step.op = "linkChainState"
    PROVE  /\ Advances /\ job.at = Link /\ ~Makes(Link)
           /\ Deployed(PortalName) /\ Deployed("FuelChainState")
           /\ UNCHANGED files
           /\ \A a \in DOMAIN chain.contracts :
                chain'.contracts[a].linked =
                    IF a = Address(PortalName) THEN Address("FuelChainState")
                    ELSE chain.contracts[a].linked
<1>0. /\ BaseInv /\ OthersInv /\ Wiring /\ job.at = Link /\ ~Makes(Link) /\ job.pc > 0
      /\ step.name = PortalName /\ job # Idle /\ DOMAIN chain = {"contracts", "sent", "tokens"}
  BY WiringStep, TheWiring, IdleJob DEF DeployInv, BaseInv
<1>1. /\ Link \in 1 .. Len(Scripts) /\ Len(Scripts) \in Nat
      /\ \E j \in 1 .. Link - 1 : <<j, PortalName>> \in MadeBy
      /\ \E j \in 1 .. Link - 1 : <<j, "FuelChainState">> \in MadeBy
  <2>1. ~(<<Link, PortalName>> \in MadeBy)
    BY <1>0 DEF Makes, ProxyNames
  <2>2. LinkKept
    BY <1>0 DEF Wiring
  <2>3. Len(Scripts) \in Nat
    OBVIOUS
  <2> QED
    BY <2>1, <2>2, <2>3 DEF LinkKept
<1>2. ASSUME NEW j \in 1 .. Link - 1, NEW n \in ProxyNames, <<j, n>> \in MadeBy
      PROVE  Deployed(n)
  <2>1. j \in 0 .. Len(Scripts) /\ j < job.reached
    BY <1>0, <1>1 DEF WiredInOrder
  <2>2. Past(j)
    BY <1>0, <2>1 DEF Past, Passed, Running
  <2> QED
    BY <1>2, <2>1, <2>2 DEF RightLinks
<1>3. Deployed(PortalName) /\ Deployed("FuelChainState")
  BY <1>1, <1>2 DEF ProxyNames
<1> DEFINE x == Address(PortalName)
<1> DEFINE call == SetFuelChainState(Address("FuelChainState"))
<1>4. Looked(step) \subseteq DOMAIN files.records
  BY <1>0, <1>3 DEF Looked, Deployed
<1>5. Transaction(x, "deployer", call)
  BY <1>0, <1>4, ActionOf DEF linkChainState
<1>6. x \in DOMAIN chain.contracts
  BY <1>0, <1>3 DEF Deployed, BaseInv, IsSequence
<1>7. /\ DOMAIN Settled = DOMAIN chain.contracts
      /\ \A a \in DOMAIN Settled : /\ DOMAIN Settled[a] = ContractFields
                                   /\ Settled[a].linked = chain.contracts[a].linked
                                   /\ Settled[a].roles = chain.contracts[a].roles
  BY <1>0, SettledContracts, ReimplementedFields DEF BaseInv
<1>8. <<"DEFAULT_ADMIN_ROLE", "deployer">> \in Settled[x].roles
  <2>1. network.name # "mainnet" /\ Replaces > 0
    BY LinkingSteps
  <2>2. network.name # "fork"
    BY <2>1 DEF Replaces
  <2> QED
    BY <1>0, <1>6, <1>7, <2>1, <2>2 DEF OthersInv, Administered
<1>9. call.fn = "setFuelChainState" /\ call.linked = Address("FuelChainState")
  BY DEF SetFuelChainState
<1> HIDE DEF x, call
<1>10. Allowed(Settled[x], "deployer", call)
  BY <1>8, <1>9 DEF Allowed, Needs
<1>11. /\ chain'.contracts = [Settled EXCEPT ![x] = After(Settled[x], "deployer", call)]
       /\ job' = [Done EXCEPT !.address = x] /\ UNCHANGED files
  BY <1>0, <1>5, <1>10 DEF Transaction
<1>12. ASSUME NEW a \in DOMAIN chain.contracts
       PROVE  chain'.contracts[a].linked =
                IF a = x THEN Address("FuelChainState") ELSE chain.contracts[a].linked
  <2>1. CASE a = x
    <3>1. chain'.contracts[a] = After(Settled[a], "deployer", call)
      BY <1>7, <1>11, <2>1
    <3> QED
      BY <1>7, <1>9, <2>1, <3>1, AfterLinks
  <2>2. CASE a # x
    BY <1>7, <1>11, <2>2
  <2> QED
    BY <2>1, <2>2
<1>13. Advances
  <2>1. job'.pc > 0
    BY <1>0, <1>11 DEF BaseInv, Done
  <2> QED
    BY <1>0, <2>1, IdleJob, StepEffect DEF Throw
<1> QED
  BY <1>0, <1>3, <1>11, <1>12, <1>13 DEF x

\* Nothing stops the scripts that wire, but what they do when it is wired.
LEMMA WiringAdvances ==
    ASSUME DeployInv, WiringInv, Step, Throw, Wires(job.at)
    PROVE  Past(job.at) /\ Migrating
<1>0. /\ BaseInv /\ WiredInOrder /\ RightKinds /\ RightLinks
      /\ job'.pc = 0 /\ job.pc \in Nat /\ job.pc > 0
      /\ DOMAIN job = {"at", "pc", "address", "implementation", "reached"}
  BY IdleJob DEF DeployInv, WiringInv, Throw, Step, InScript, BaseInv
<1>1. CASE ~Makes(job.at)
  <2>1. step.op = "linkChainState"
    BY <1>1, WiringStep DEF Wires
  <2>2. Advances
    BY <1>0, <2>1, LinkStep
  <2> QED
    BY <1>0, <2>2, AdvancingStep
<1>2. ASSUME NEW n \in ProxyNames, <<job.at, n>> \in MadeBy
      PROVE  Past(job.at) /\ Migrating
  <2>1. Makes(job.at)
    BY <1>2 DEF Makes
  <2>2. CASE job.pc = 1
    <3>1. Maker(job.at, n) /\ step.op = "deployProxy" /\ step.linkedTo = GivenTo(job.at, n)
      BY <1>2, <2>2, WiringStep
    <3>2. Looked(step) \subseteq DOMAIN files.records
      <4>1. n = "FuelChainState" => LinkedTo(n) = ""
        BY DEF LinkedTo, NoLink
      <4>2. n # "FuelChainState" => LinkedTo(n) \in DOMAIN files.records
        BY <1>0, <3>1, LinkedBefore DEF Deployed
      <4>3. Looked(step) \subseteq {LinkedTo(n)} \ {""}
        BY <3>1 DEF Looked, GivenTo
      <4> QED
        BY <4>1, <4>2, <4>3
    <3>3. job' = [Done EXCEPT !.address = Len(chain.contracts) + 1]
      BY <3>1, <3>2, ActionOf DEF deployProxy
    <3> QED
      BY <1>0, <3>3 DEF Done
  <2>3. CASE job.pc = 2
    <3>1. step.op = "save"
      BY <1>2, <2>3, WiringStep
    <3>2. Looked(step) = {}
      BY <3>1 DEF Looked
    <3>3. job' = Done
      BY <3>1, <3>2, ActionOf DEF save
    <3> QED
      BY <1>0, <3>3 DEF Done
  <2>4. CASE job.pc = 3
    <3>1. Migrating
      BY <1>2, <2>4, WiringStep
    <3>2. Past(job.at)
      BY <2>1, <2>4 DEF Past
    <3> QED
      BY <3>1, <3>2
  <2> QED
    BY <1>2, <2>2, <2>3, <2>4, WiringStep
<1> QED
  BY <1>1, <1>2 DEF Makes

\* When a script saves the proxy it made, nothing that is wired refers to the one
\* before it.
LEMMA MakerSaves ==
    ASSUME DeployInv, WiringInv, [TaskNext]_allVars, Step, Advances,
           NEW n, <<job.at, n>> \in MadeBy, job.pc = 2
    PROVE  RightKinds' /\ RightLinks'
<1>0. /\ BaseInv /\ WiredInOrder /\ RightKinds /\ RightLinks /\ AtHand /\ Wiring /\ LinkKept
      /\ Maker(job.at, n) /\ job.at \in 1 .. Len(Scripts) /\ n \in ProxyNames
      /\ InTurn(job.at, n) /\ Makes(job.at) /\ Wires(job.at)
      /\ step.op = "save" /\ step.name = n
      /\ \A m : <<job.at, m>> \in MadeBy => m = n
  BY WiringStep, TheWiring DEF DeployInv, WiringInv, Wiring, Maker, Makes, Wires
<1>1. /\ Scripts' = Scripts /\ MadeBy' = MadeBy /\ ProxyNames' = ProxyNames
      /\ PortalName' = PortalName /\ Link' = Link /\ \A m : KindOf(m)' = KindOf(m)
  BY Fixed DEF DeployInv
<1>2. SavesAs(n, job.address)
  <2> DEFINE r == Record(job.address, chain.contracts[job.address].implementation,
                         script.id, FALSE, FALSE)
  <2>1. save
    BY <1>0, AdvancingStep, ActionOf
  <2>2. SaveRecord(n, r) /\ UNCHANGED <<chain, safe>>
    BY <1>0, <2>1 DEF save
  <2>3. r.address = job.address
    BY DEF Record
  <2> HIDE DEF r
  <2> QED
    BY <1>0, <2>2, <2>3, SaveRecordEffect
<1>3. /\ job.address > 0 /\ chain.contracts[job.address].contract = KindOf(n)
      /\ n # "FuelChainState" =>
            /\ Deployed(LinkedTo(n))
            /\ chain.contracts[job.address].linked =
                    IF Written(job.at) THEN WrittenPortal ELSE Address(LinkedTo(n))
  BY <1>0, WhatIsGiven DEF AtHand
<1>4. /\ Deployed(n)' /\ Address(n)' = job.address
      /\ Contract(n)' = chain.contracts[job.address]
  BY <1>2, <1>3 DEF SavesAs, Deployed, Address, Contract
<1>5. ASSUME NEW m, m # n
      PROVE  /\ Deployed(m)' <=> Deployed(m)
             /\ Deployed(m) => Address(m)' = Address(m) /\ Contract(m)' = Contract(m)
  BY <1>2, <1>5 DEF SavesAs, Deployed, Address, Contract
<1>6. RightKinds'
  <2>1. ASSUME NEW m \in DOMAIN files'.records, Address(m)' > 0
        PROVE  /\ m \in ProxyNames /\ Contract(m)'.contract = KindOf(m)
               /\ \E i \in 0 .. Len(Scripts) : <<i, m>> \in MadeBy
    <3>1. CASE m = n
      BY <1>0, <1>3, <1>4, <3>1
    <3>2. CASE m # n
      <4>1. Deployed(m)
        BY <1>5, <2>1, <3>2 DEF Deployed
      <4> QED
        BY <1>0, <1>5, <3>2, <4>1 DEF RightKinds, Deployed
    <3> QED
      BY <3>1, <3>2
  <2> QED
    BY <1>1, <2>1 DEF RightKinds
<1>7. ASSUME NEW i, Wires(i), Past(i)'
      PROVE  i = job.at \/ (Past(i) /\ (i = 0 \/ i \in 1 .. Len(Scripts)) /\ ~(job.at < i))
  <2>1. i = job.at \/ Past(i)
    BY <1>0, <1>7, AdvancingStep, PassedInOrder
  <2>2. i = 0 \/ i \in 1 .. Len(Scripts)
    BY <1>0, <1>7, WiringScript
  <2> QED
    BY <1>0, <1>7, <2>1, <2>2, NotYet
<1>8. n \in Gateways => PointsTo(n, PortalName)' \/ AsWritten(n)'
  <2>1. ASSUME n \in Gateways
        PROVE  n # "FuelChainState" /\ LinkedTo(n) = PortalName /\ PortalName # n
    BY <2>1 DEF LinkedTo, Gateways, PortalName
  <2>2. ASSUME n \in Gateways, ~Written(job.at), NEW p, p = PortalName
        PROVE  PointsTo(n, p)'
    <3>1. Deployed(p) /\ p # n /\ chain.contracts[job.address].linked = Address(p)
      BY <1>3, <2>1, <2>2
    <3> QED
      BY <1>4, <1>5, <3>1 DEF PointsTo
  <2>3. ASSUME n \in Gateways, Written(job.at)
        PROVE  AsWritten(n)'
    <3>1. network' = network /\ network.name = "testnet"
      BY <2>3 DEF Advances, Written
    <3> QED
      BY <1>3, <1>4, <2>1, <2>3, <3>1 DEF AsWritten
  <2> QED
    BY <1>1, <2>2, <2>3
<1>9. ASSUME NEW i \in 0 .. Len(Scripts), NEW m \in ProxyNames, <<i, m>> \in MadeBy, Past(i)'
      PROVE  Deployed(m)' /\ (m \in Gateways => PointsTo(m, PortalName)' \/ AsWritten(m)')
  <2>0. Wires(i)
    BY <1>9 DEF Wires, Makes
  <2>1. CASE m = n
    BY <1>4, <1>8, <2>1
  <2>2. CASE m # n
    <3>1. i # job.at /\ Past(i) /\ ~(job.at < i)
      BY <1>0, <1>7, <1>9, <2>0, <2>2
    <3>2. Deployed(m) /\ (m \in Gateways => PointsTo(m, PortalName) \/ AsWritten(m))
      BY <1>0, <1>9, <3>1 DEF RightLinks
    <3>3. ASSUME m \in Gateways
          PROVE  PortalName # n
      BY <1>0, <1>9, <3>1, <3>3 DEF InTurn
    <3>4. ASSUME m \in Gateways, NEW p, p = PortalName
          PROVE  PointsTo(m, p)' \/ AsWritten(m)'
      <4>1. network' = network
        BY DEF Advances
      <4> QED
        BY <1>5, <2>2, <3>2, <3>3, <3>4, <4>1 DEF PointsTo, AsWritten
    <3> QED
      BY <1>1, <1>5, <2>2, <3>2, <3>4
  <2> QED
    BY <2>1, <2>2
<1>10. ASSUME Past(Link)'
       PROVE  PointsTo(PortalName, "FuelChainState")'
  <2>1. Link = job.at \/ (Past(Link) /\ ~(job.at < Link))
    BY <1>1, <1>7, <1>10 DEF Wires
  <2>2. n # "FuelChainState"
    <3>1. n = "FuelChainState" => job.at < Link
      BY <1>0 DEF InTurn
    <3> QED
      BY <1>0, <2>1, <3>1
  <2>3. CASE n = PortalName
    <3>1. LinkedTo(n) = "FuelChainState" /\ ~Written(job.at)
      <4>1. n \notin Gateways
        BY <2>3 DEF Gateways, PortalName
      <4> QED
        BY <1>0, <2>2, <2>3, <4>1, WhatIsGiven DEF LinkedTo, PortalName
    <3>2. PointsTo(n, "FuelChainState")'
      BY <1>3, <1>4, <1>5, <2>2, <3>1 DEF PointsTo
    <3> QED
      BY <1>1, <2>3, <3>2
  <2>4. CASE n # PortalName
    <3>1. Link # job.at
      <4>1. <<Link, PortalName>> \in MadeBy \/ ~Makes(Link)
        BY <1>0 DEF LinkKept
      <4> QED
        BY <1>0, <2>4, <4>1
    <3>2. PointsTo(PortalName, "FuelChainState")
      BY <1>0, <2>1, <3>1 DEF RightLinks
    <3>3. ASSUME NEW p, p = PortalName
          PROVE  PointsTo(p, "FuelChainState")'
      BY <1>5, <2>2, <2>4, <3>2, <3>3 DEF PointsTo
    <3> QED
      BY <1>1, <3>3
  <2> QED
    BY <2>3, <2>4
<1> QED
  BY <1>1, <1>6, <1>9, <1>10 DEF RightLinks

LEMMA OnlyAwaits ==
    ASSUME Step, Looked(step) \subseteq DOMAIN files.records, ~Throw,
           step.op \in {"awaitUpgrade", "awaitDeployment"}
    PROVE  awaitUpgrade
BY DEF Step, deployProxy, save, upgradeProxy, awaitDeployment, prepareUpgrade,
    upgradeAndReinitialize, savePrepared, execute, linkChainState, saveL2Bridge, propose,
    proposeUpgrade, deployToken, setToken, writeAddresses

\* A script that makes or upgrades a proxy has it at hand when it comes to save it.
LEMMA HandStays ==
    ASSUME DeployInv, LinkedInv, WiringInv, [TaskNext]_allVars
    PROVE  AtHand'
<1> DEFINE MadeAtHand(n) ==
        /\ job'.address > 0 /\ chain'.contracts[job'.address].contract = KindOf(n)
        /\ n # "FuelChainState" =>
                /\ Deployed(LinkedTo(n)) /\ files'.records = files.records
                /\ chain'.contracts[job'.address].linked = Linked(GivenTo(job'.at, n))
<1> DEFINE ToSave ==
        /\ \A n : <<job'.at, n>> \in MadeBy /\ job'.pc = 2 => MadeAtHand(n)
        /\ \A n : <<job'.at, n>> \in RenewedBy =>
                n \in DOMAIN files'.records /\ job'.address = files'.records[n].address
<1>0. /\ BaseInv /\ CallInv /\ WiredInOrder /\ RightKinds /\ RightLinks /\ AtHand /\ Wiring
      /\ job.pc \in Nat /\ DOMAIN job = {"at", "pc", "address", "implementation", "reached"}
      /\ DOMAIN chain = {"contracts", "sent", "tokens"}
      /\ Len(chain.contracts) \in Nat /\ DOMAIN chain.contracts = 1 .. Len(chain.contracts)
  BY TheWiring DEF DeployInv, WiringInv, BaseInv, IsSequence
<1>1. /\ MadeBy' = MadeBy /\ RenewedBy' = RenewedBy /\ ProxyNames' = ProxyNames
      /\ \A n : KindOf(n)' = KindOf(n) /\ LinkedTo(n)' = LinkedTo(n)
      /\ network' = network
  BY <1>0, Fixed
<1>2. ASSUME ToSave
      PROVE  AtHand'
  <2>1. ASSUME NEW n \in ProxyNames, <<job'.at, n>> \in MadeBy, job'.pc = 2, n # "FuelChainState"
        PROVE  /\ Deployed(LinkedTo(n))'
               /\ chain'.contracts[job'.address].linked = Linked(GivenTo(job.at, n))'
    <3>1. PICK m : m = LinkedTo(n)
      OBVIOUS
    <3>2. /\ Deployed(m)' /\ files'.records = files.records
          /\ chain'.contracts[job'.address].linked = Linked(GivenTo(job'.at, n))
      BY <1>2, <2>1, <3>1 DEF Deployed, Address
    <3>3. GivenTo(job.at, n)' = GivenTo(job'.at, n)
      BY <1>1 DEF GivenTo, Written, WrittenDown
    <3>4. Linked(GivenTo(job.at, n))' = Linked(GivenTo(job'.at, n))
      BY <3>2, <3>3 DEF Linked, Address, WrittenDown
    <3> QED
      BY <1>1, <3>1, <3>2, <3>4
  <2>2. ASSUME NEW n \in ProxyNames, <<job'.at, n>> \in MadeBy, job'.pc = 2
        PROVE  job'.address > 0 /\ chain'.contracts[job'.address].contract = KindOf(n)
    BY <1>2, <2>2
  <2>3. ASSUME NEW n \in ProxyNames, <<job'.at, n>> \in RenewedBy
        PROVE  n \in DOMAIN files'.records /\ job'.address = Address(n)'
    BY <1>2, <2>3 DEF Address
  <2> HIDE DEF ToSave, MadeAtHand
  <2> QED
    BY <1>1, <2>1, <2>2, <2>3 DEF AtHand
<1>3. CASE job'.pc \in {0, 1}
  BY <1>3 DEF AtHand
<1>4. ASSUME job.pc > 1, UNCHANGED job, files'.records = files.records, LinksStay
      PROVE  ToSave
  <2>1. ASSUME NEW n \in ProxyNames, <<job.at, n>> \in MadeBy, job.pc = 2
        PROVE  MadeAtHand(n)
    <3>1. job.address \in DOMAIN chain.contracts
      BY <1>0, <2>1 DEF AtHand, BaseInv
    <3> QED
      BY <1>0, <1>4, <2>1, <3>1, KindStays DEF AtHand, LinksStay
  <2>2. \A n : <<job.at, n>> \in MadeBy \union RenewedBy => n \in ProxyNames
    BY <1>0, <1>4, IdleJob DEF Wiring, Maker, Renewer, BaseInv, DeployInv, JobInv
  <2> QED
    BY <1>0, <1>4, <2>1, <2>2 DEF AtHand, Address
<1>5. CASE Step /\ Advances
  <2>0. /\ job'.at = job.at /\ job'.pc = job.pc + 1 /\ ~Throw
        /\ Looked(step) \subseteq DOMAIN files.records /\ job.pc > 0
    BY <1>0, <1>5, AdvancingStep DEF Advances, Step, InScript
  <2>1. ASSUME NEW n, <<job.at, n>> \in MadeBy, job.pc = 1
        PROVE  MadeAtHand(n)
    <3> DEFINE linked == Linked(step.linkedTo)
    <3> DEFINE new == NewContract(step.contract, step.initializer, script.id, linked)
    <3>1. /\ Maker(job.at, n) /\ step.op = "deployProxy" /\ step.contract = KindOf(n)
          /\ step.linkedTo = GivenTo(job.at, n)
      BY <1>5, <2>1, WiringStep
    <3>2. /\ chain' = [chain EXCEPT !.contracts = Append(Settled, new), !.sent = NothingSent]
          /\ job' = [Done EXCEPT !.address = Len(chain.contracts) + 1] /\ UNCHANGED files
      BY <1>5, <2>0, <3>1, ActionOf DEF deployProxy
    <3>3. new.contract = KindOf(n) /\ new.linked = linked
      BY <3>1 DEF NewContract
    <3>4. linked = Linked(GivenTo(job'.at, n))
      BY <2>0, <3>1
    <3>5. n # "FuelChainState" => Deployed(LinkedTo(n))
      BY <1>0, <2>0, <3>1, LinkedBefore
    <3> HIDE DEF new, linked
    <3>6. chain'.contracts = Append(Settled, new)
          /\ job'.address = Len(chain.contracts) + 1
      BY <1>0, <3>2 DEF Done
    <3>7. chain'.contracts[job'.address] = new
      BY <1>0, <3>6, SettledContracts, AppendSequence
    <3>8. job'.address > 0
      BY <1>0, <3>6
    <3> QED
      BY <3>2, <3>3, <3>4, <3>5, <3>7, <3>8
  <2>2. ASSUME NEW n, <<job.at, n>> \in RenewedBy
        PROVE  n \in DOMAIN files'.records /\ job'.address = files'.records[n].address
    <3>0. /\ n \in ProxyNames /\ ~Wires(job.at)
          /\ \/ job.pc = 1 /\ step.op = "upgradeProxy" /\ step.name = n
             \/ job.pc > 1 /\ Renewing(step, n)
      BY <1>5, <2>2, WiringStep DEF Renewer
    <3>1. job.pc > 1 => n \in DOMAIN files.records /\ job.address = Address(n)
      BY <1>0, <2>2, <3>0 DEF AtHand
    <3>2. CASE step.op = "upgradeProxy"
      <4>1. step.name = n
        BY <3>0, <3>2 DEF Renewing
      <4>2. n \in DOMAIN files.records /\ upgradeProxy
        BY <1>5, <2>0, <3>2, <4>1, ActionOf DEF Looked
      <4>3. job' = [Done EXCEPT !.address = Address(n)] /\ UNCHANGED files
        BY <2>0, <4>1, <4>2 DEF upgradeProxy
      <4> QED
        BY <1>0, <4>2, <4>3 DEF Done, Address
    <3>3. CASE step.op \in {"awaitUpgrade", "awaitDeployment"}
      <4>1. awaitUpgrade
        BY <1>5, <2>0, <3>3, OnlyAwaits
      <4> QED
        BY <1>0, <3>0, <3>1, <3>3, <4>1 DEF awaitUpgrade, Done, Address
    <3>4. CASE step.op = "execute" /\ step.name = n
      <4>1. n \in DOMAIN files.records /\ execute
        BY <1>5, <2>0, <3>4, ActionOf DEF Looked
      <4>2. job' = [Done EXCEPT !.address = Address(n)] /\ UNCHANGED files
        BY <2>0, <3>4, <4>1 DEF execute, Transaction
      <4> QED
        BY <1>0, <4>1, <4>2 DEF Done, Address
    <3>5. CASE step.op = "save" /\ step.name = n
      <4>1. save
        BY <1>5, <2>0, <3>5, ActionOf
      <4>2. job'.address = job.address
        BY <1>0, <4>1 DEF save, Done
      <4>3. RecordsStay
        <5>1. \A m : <<job.at, m>> \notin MadeBy
          BY <1>5, <3>0, WiringStep DEF Wires, Makes, Maker
        <5> QED
          BY <1>0, <1>5, <5>1, StepRecords
      <4> QED
        BY <3>0, <3>1, <3>5, <4>2, <4>3 DEF RecordsStay
    <3> QED
      BY <3>0, <3>2, <3>3, <3>4, <3>5 DEF Renewing
  <2>3. job'.pc = 2 => job.pc = 1
    BY <1>0, <2>0
  <2>4. ToSave
    BY <2>0, <2>1, <2>2, <2>3
  <2> QED
    BY <1>2, <2>4
<1>6. CASE Start \/ NextScript \/ ScriptReturns \/ Crash
  BY <1>0, <1>3, <1>6, NextEffect, IdleJob DEF Start, ScriptReturns, Crash
<1>7. CASE Step
  BY <1>0, <1>3, <1>5, <1>7, StepEffect, IdleJob DEF Throw
<1>8. ASSUME UNCHANGED job, files'.records = files.records, ~Step
      PROVE  AtHand'
  <2>1. LinksStay
    BY <1>8, NextLinks DEF LinksStay, Links
  <2>2. job.pc > 1 \/ job.pc \in {0, 1}
    BY <1>0
  <2> QED
    BY <1>2, <1>3, <1>4, <1>8, <2>1, <2>2
<1>9. CASE Mined \/ Called \/ UNCHANGED vars \/ \E id \in seen.refused : EnterMigration(id)
  <2>1. UNCHANGED job /\ files'.records = files.records
    BY <1>9 DEF Mined, Called, vars, EnterMigration, BaseInv, DeployInv
  <2> QED
    BY <1>7, <1>8, <2>1
<1> QED
  BY <1>0, <1>6, <1>7, <1>9, NextKinds

LEMMA NextWiring ==
    ASSUME DeployInv, LinkedInv, WiringInv, [TaskNext]_allVars
    PROVE  WiringInv'
<1>0. /\ BaseInv /\ CallInv /\ WiredInOrder /\ RightKinds /\ RightLinks /\ AtHand
      /\ job.pc \in Nat
  BY DEF DeployInv, WiringInv, BaseInv
<1>1. /\ WiredInOrder'
      /\ \A i : Past(i)' /\ Wires(i) => Past(i) \/ (Step /\ Advances /\ i = job.at)
  BY <1>0, WiringAdvances, PassedInOrder
<1>2. /\ Scripts' = Scripts /\ MadeBy' = MadeBy /\ ProxyNames' = ProxyNames
      /\ PortalName' = PortalName /\ Link' = Link
      /\ \A i : (Wires(i) <=> Wires(i)') /\ (Makes(i) <=> Makes(i)')
  BY <1>0, Fixed
<1>3. ASSUME ~(Step /\ Advances)
      PROVE  RightKinds' /\ RightLinks'
  <2>1. LinksStay
    <3>1. CASE Step
      BY <1>0, <1>3, <3>1, StepEffect DEF Throw, LinksStay
    <3>2. CASE ~Step
      BY <3>2, NextLinks DEF LinksStay, Links
    <3> QED
      BY <3>1, <3>2
  <2>2. files'.records = files.records
    BY <1>0, <1>3, NextKinds, StepEffect, NextEffect DEF Start, ScriptReturns, Mined, Crash,
        EnterMigration, Called, vars, Throw, BaseInv
  <2>3. RecordsStay
    BY <2>2 DEF RecordsStay, Address
  <2> QED
    BY <1>0, <1>1, <1>3, <2>1, <2>3, WiresStay
<1>4. ASSUME Step, Advances, step.op = "linkChainState"
      PROVE  RightKinds' /\ RightLinks'
  <2>1. /\ job.at = Link /\ ~Makes(Link) /\ UNCHANGED files
        /\ Deployed(PortalName) /\ Deployed("FuelChainState")
        /\ \A a \in DOMAIN chain.contracts :
              chain'.contracts[a].linked =
                  IF a = Address(PortalName) THEN Address("FuelChainState")
                  ELSE chain.contracts[a].linked
    BY <1>0, <1>4, LinkStep
  <2>2. RecordsStay
    BY <2>1 DEF RecordsStay, Address
  <2>3. ASSUME NEW n, Deployed(n)
        PROVE  /\ Deployed(n)' /\ Address(n)' = Address(n)
               /\ Address(n) \in DOMAIN chain.contracts
               /\ Contract(n) = chain.contracts[Address(n)]
               /\ Contract(n)' = chain'.contracts[Address(n)]
    <3>1. n \in DOMAIN files'.records /\ files'.records[n].address = Address(n)
      BY <2>1, <2>3 DEF Deployed, Address
    <3> QED
      BY <2>3, <3>1, StaysDeployed
  <2>4. ASSUME NEW n \in Gateways, Deployed(n)
        PROVE  Contract(n)'.linked = Contract(n).linked
    <3>1. Contract(n).contract = KindOf(n) /\ Contract(PortalName).contract = KindOf(PortalName)
      BY <1>0, <2>1, <2>4 DEF RightKinds, Deployed
    <3>2. KindOf(n) # KindOf(PortalName)
      BY <2>4 DEF KindOf, Gateways, PortalName
    <3>3. Address(n) # Address(PortalName)
      BY <3>1, <3>2 DEF Contract
    <3> QED
      BY <2>1, <2>3, <2>4, <3>3
  <2>5. ASSUME NEW n \in Gateways, NEW p, p = PortalName
        PROVE  /\ PointsTo(n, p) => PointsTo(n, p)'
               /\ AsWritten(n) => AsWritten(n)'
    <3>1. network' = network
      BY <1>4 DEF Advances
    <3>2. Deployed(p) /\ Deployed(p)' /\ Address(p)' = Address(p)
      BY <2>1, <2>3, <2>5
    <3> QED
      BY <2>3, <2>4, <2>5, <3>1, <3>2 DEF PointsTo, AsWritten
  <2>6. ASSUME NEW i \in 0 .. Len(Scripts), NEW n \in ProxyNames, <<i, n>> \in MadeBy, Past(i)'
        PROVE  Deployed(n)' /\ (n \in Gateways => PointsTo(n, PortalName)' \/ AsWritten(n)')
    <3>1. Makes(i) /\ Wires(i)
      BY <2>6 DEF Makes, Wires
    <3>2. Past(i)
      BY <1>1, <2>1, <2>6, <3>1
    <3> QED
      BY <1>0, <1>2, <2>3, <2>5, <2>6, <3>2 DEF RightLinks
  <2>7. PointsTo(PortalName, "FuelChainState")'
    <3>1. ASSUME NEW p, p = PortalName
          PROVE  PointsTo(p, "FuelChainState")'
      BY <2>1, <2>3, <3>1 DEF PointsTo
    <3> QED
      BY <1>2, <3>1
  <2> QED
    BY <1>0, <1>2, <2>2, <2>6, <2>7, KindsStay DEF RightLinks
<1>5. ASSUME Step, Advances, step.op # "linkChainState"
      PROVE  RightKinds' /\ RightLinks'
  <2>1. ASSUME NEW n, <<job.at, n>> \in MadeBy, job.pc = 2
        PROVE  RightKinds' /\ RightLinks'
    BY <1>5, <2>1, MakerSaves
  <2>2. CASE \A n : <<job.at, n>> \in MadeBy => job.pc # 2
    <3>1. RecordsStay
      BY <1>0, <1>5, <2>2, StepRecords
    <3>2. LinksStay
      BY <1>5, NextLinks DEF LinksStay, Links
    <3>3. ASSUME NEW i, i = job.at, Past(i)', Wires(i)
          PROVE  Past(i)
      <4>1. PICK n \in ProxyNames : <<job.at, n>> \in MadeBy
        BY <1>5, <3>3, WiringStep DEF Wires, Makes
      <4>2. job.pc \in {1, 3}
        BY <1>5, <2>2, <4>1, WiringStep
      <4>3. CASE job.pc = 3
        BY <3>3, <4>1, <4>3 DEF Past, Makes
      <4>4. CASE job.pc = 1
        <5>1. /\ job'.at = job.at /\ job'.pc = 2 /\ job'.reached = job.reached
              /\ seen' = seen /\ files'.migrations = files.migrations
              /\ job # Idle /\ job' # Idle
          BY <1>5, <4>4, IdleJob DEF Advances
        <5>2. Makes(job.at)
          BY <4>1 DEF Makes
        <5>3. Passed(i)'
          BY <1>2, <3>3, <5>1, <5>2 DEF Past
        <5> QED
          BY <1>2, <5>1, <5>3 DEF Past, Passed, Running, Entered, Refused
      <4> QED
        BY <4>2, <4>3, <4>4
    <3>4. \A i : Past(i)' /\ Wires(i) => Past(i)
      BY <1>1, <3>3
    <3> QED
      BY <1>0, <3>1, <3>2, <3>4, WiresStay
  <2> QED
    BY <2>1, <2>2
<1> QED
  BY <1>1, <1>3, <1>4, <1>5, HandStays DEF WiringInv

LEMMA InitWiring == TaskInit => WiringInv
<1> SUFFICES ASSUME TaskInit
             PROVE  WiringInv
  OBVIOUS
<1>0. /\ BaseInv /\ Wiring /\ Len(Scripts) \in Nat
  BY InitBase, TheWiring
<1>1. /\ job = Idle /\ files.migrations = {} /\ seen.refused = {} /\ seen.finished = FALSE
      /\ chain.contracts = IF network.name = "fork" THEN ForkedContracts ELSE <<>>
      /\ files.records = IF network.name = "fork" THEN ForkedRecords ELSE <<>>
  BY DEF TaskInit, Init
<1>2. job.at = 0 /\ job.pc = 0 /\ job.reached = 0 /\ ~Running
  BY <1>1, IdleJob DEF Running
<1>3. WiredInOrder /\ AtHand
  BY <1>1, <1>2 DEF WiredInOrder, AtHand, Entered, Refused
<1>4. \A i : Past(i) => i = 0
  BY <1>1, <1>2 DEF Past, Passed, Entered, Refused
<1>5. CASE network.name = "fork"
  <2>1. /\ MadeBy = {<<0, "FuelChainState">>, <<0, "FuelMessagePortal">>, <<0, "FuelERC20GatewayV4">>}
        /\ PortalName = "FuelMessagePortal"
        /\ ProxyNames = {"FuelChainState", "FuelMessagePortal", "FuelERC20GatewayV4", "FuelERC721Gateway"}
    BY <1>5 DEF MadeBy, PortalName, ProxyNames, Gateways
  <2>2. /\ DOMAIN files.records = {"FuelChainState", "FuelMessagePortal", "FuelERC20GatewayV4"}
        /\ Address("FuelChainState") = 1 /\ Address("FuelMessagePortal") = 2
        /\ Address("FuelERC20GatewayV4") = 3
    <3>1. /\ DOMAIN ForkedRecords = {"FuelChainState", "FuelMessagePortal", "FuelERC20GatewayV4"}
          /\ ForkedRecords["FuelChainState"].address = 1
          /\ ForkedRecords["FuelMessagePortal"].address = 2
          /\ ForkedRecords["FuelERC20GatewayV4"].address = 3
      BY DEF ForkedRecords, Record
    <3> QED
      BY <1>1, <1>5, <3>1 DEF Address
  <2>3. \A c, l : MainnetContract(c, l).contract = c /\ MainnetContract(c, l).linked = l
    BY DEF MainnetContract, NewContract
  <2>4. /\ chain.contracts[1].contract = "FuelChainState"
        /\ chain.contracts[2].contract = "FuelMessagePortal" /\ chain.contracts[2].linked = 1
        /\ chain.contracts[3].contract = "FuelERC20Gateway" /\ chain.contracts[3].linked = 2
    BY <1>1, <1>5, <2>3 DEF ForkedContracts
  <2>5. RightKinds
    <3>1. /\ KindOf("FuelChainState") = "FuelChainState"
          /\ KindOf("FuelMessagePortal") = "FuelMessagePortal"
          /\ KindOf("FuelERC20GatewayV4") = "FuelERC20Gateway"
      BY <2>1 DEF KindOf
    <3>2. 0 \in 0 .. Len(Scripts)
      BY <1>0
    <3> QED
      BY <2>1, <2>2, <2>4, <3>1, <3>2 DEF RightKinds, Contract
  <2>6. /\ PointsTo("FuelMessagePortal", "FuelChainState")
        /\ PointsTo("FuelERC20GatewayV4", "FuelMessagePortal")
        /\ Deployed("FuelChainState") /\ Deployed("FuelMessagePortal")
        /\ Deployed("FuelERC20GatewayV4")
    BY <2>2, <2>4 DEF PointsTo, Deployed, Contract
  <2>7. RightLinks
    BY <2>1, <2>6 DEF RightLinks, Gateways
  <2> QED
    BY <1>3, <2>5, <2>7 DEF WiringInv
<1>6. CASE network.name # "fork"
  <2>1. RightKinds
    BY <1>1, <1>6 DEF RightKinds
  <2>2. \A n : <<0, n>> \notin MadeBy
    BY <1>6, <1>0 DEF Wiring, Maker
  <2>3. Link # 0
    BY <1>6 DEF Link
  <2> QED
    BY <1>3, <1>4, <2>1, <2>2, <2>3 DEF WiringInv, RightLinks
<1> QED
  BY <1>5, <1>6

\* When the scripts have come to their end, the recorded contracts refer to each
\* other: no abandoned proxy is left behind a record, and none of those that are
\* recorded still refers to one, wherever runs were cut short; but the gateway of
\* testnet, which refers to the portal its script has written down.
THEOREM WiredThroughout == TaskSpec => []Wired
<1>1. LinkingInv /\ WiringInv /\ [TaskNext]_allVars => (LinkingInv /\ WiringInv)'
  BY NextLinking, NextWiring DEF LinkingInv
<1>2. ASSUME DeployInv, RightKinds, RightLinks
      PROVE  Wired
  <2> SUFFICES ASSUME seen.finished, ~Running, NEW n \in Contracts
               PROVE  /\ Contract(n).contract = "FuelMessagePortal" =>
                              Contract(n).linked = Address("FuelChainState")
                      /\ Contract(n).contract \in {"FuelERC20Gateway", "FuelERC721Gateway"} =>
                              \/ \E m \in Contracts :
                                      /\ Contract(m).contract = "FuelMessagePortal"
                                      /\ Contract(n).linked = Address(m)
                              \/ network.name = "testnet" /\ Contract(n).linked = WrittenPortal
    BY DEF Wired
  <2>1. \A i : Past(i)
    BY DEF Past, Passed
  <2>2. /\ n \in ProxyNames /\ Contract(n).contract = KindOf(n)
        /\ \E i \in 0 .. Len(Scripts) : <<i, n>> \in MadeBy
    BY <1>2 DEF RightKinds, Contracts
  <2>3. Contract(n).contract = "FuelMessagePortal" => n = PortalName
    BY <2>2 DEF KindOf, ProxyNames, Gateways, PortalName
  <2>4. PointsTo(PortalName, "FuelChainState")
    BY <1>2, <2>1 DEF RightLinks
  <2>5. ASSUME Contract(n).contract \in {"FuelERC20Gateway", "FuelERC721Gateway"}
        PROVE  n \in Gateways
    BY <2>2, <2>5 DEF KindOf, ProxyNames, Gateways, PortalName
  <2>6. n \in Gateways => PointsTo(n, PortalName) \/ AsWritten(n)
    BY <1>2, <2>1, <2>2 DEF RightLinks
  <2>7. Deployed(PortalName) => Contract(PortalName).contract = "FuelMessagePortal"
    <3>1. KindOf(PortalName) = "FuelMessagePortal"
      BY DEF KindOf, PortalName
    <3> QED
      BY <1>2, <3>1 DEF RightKinds, Deployed
  <2>8. ASSUME PointsTo(n, PortalName)
        PROVE  /\ PortalName \in Contracts /\ Contract(PortalName).contract = "FuelMessagePortal"
               /\ Contract(n).linked = Address(PortalName)
    BY <2>7, <2>8 DEF PointsTo, Deployed, Contracts
  <2> QED
    BY <2>3, <2>4, <2>5, <2>6, <2>8 DEF PointsTo, AsWritten
<1> QED
  BY <1>1, <1>2, InitLinking, InitWiring, PTL DEF TaskSpec, LinkingInv, WiringInv

------------------------------------------------------------------------------
(* What the records say of the implementations *)

\* The scripts that upgrade.
LEMMA TheUpgraders ==
    ASSUME BaseInv, NEW i, NEW n, <<i, n>> \in Upgraders
    PROVE  /\ i \in 1 .. Len(Scripts) /\ n \in ProxyNames /\ Alone(i, Scripts[i].id) /\ ~Makes(i)
           /\ Scripts[i].migrates /\ Scripts[i].skip = FALSE
           /\ Len(Scripts[i].steps) \in {2, 3, 4}
<1>1. Renewer(i, n) \/ Reinitializer(i, n)
  BY TheWiring DEF Upgraders, Wiring
<1> QED
  BY <1>1 DEF Renewer, Renewed, Reinitializer, Reinitialization, Wires

LEMMA ReinitializingStep ==
    ASSUME DeployInv, Step, NEW n, <<job.at, n>> \in Reinitialized
    PROVE  /\ Len(script.steps) = 3
           /\ \/ job.pc = 1 /\ step.op = "prepareUpgrade"
              \/ job.pc = 2 /\ step.op = "upgradeAndReinitialize" /\ step.name = n
              \/ job.pc = 3 /\ step.op = "savePrepared" /\ step.name = n
<1>1. /\ Wiring /\ step = script.steps[job.pc] /\ script = Scripts[job.at]
      /\ job.pc > 0 /\ job.pc <= Len(script.steps) /\ job.pc \in Nat
  BY TheWiring DEF DeployInv, Step, InScript, BaseInv, step, script
<1>2. Reinitialization(script, script.id, n)
  BY <1>1 DEF Wiring, Reinitializer
<1>3. job.pc \in {1, 2, 3}
  BY <1>1, <1>2 DEF Reinitialization
<1> QED
  BY <1>1, <1>2, <1>3 DEF Reinitialization

\* They, and no others, upgrade.
LEMMA UpgradingStep ==
    ASSUME DeployInv, Step, network.name # "fork"
    PROVE  /\ step.op \in {"upgradeProxy", "upgradeAndReinitialize"} =>
                <<job.at, step.name>> \in Upgraders
           /\ step.op = "execute" => step.call.fn \notin {"upgradeTo", "upgradeToAndCall"}
<1>0. /\ BaseInv /\ JobInv /\ step = script.steps[job.pc] /\ script = Scripts[job.at]
      /\ job.pc > 0 /\ job.pc <= Len(script.steps) /\ job.pc \in Nat
  BY DEF DeployInv, Step, InScript, BaseInv, step, script
<1>1. ASSUME step.op = "upgradeProxy"
      PROVE  <<job.at, step.name>> \in RenewedBy
  <2>1. PICK n \in ProxyNames : <<job.at, n>> \in MadeBy \/ <<job.at, n>> \in RenewedBy
    BY <1>1, WiringStep DEF Saver
  <2>2. <<job.at, n>> \in RenewedBy
    BY <1>1, <2>1, WiringStep
  <2>3. step.name = n
    BY <1>1, <2>2, WiringStep DEF Renewing
  <2> QED
    BY <2>2, <2>3
<1>2. CASE network.name = "mainnet"
  <2>1. MainnetStep(job.at, job.pc, step)
    BY <1>0, <1>2, TheStep
  <2>2. Grants(job.at, job.pc, step) => step.call.fn = "grantRole"
    BY DEF Grants, GrantRole
  <2>3. HandsOver(job.at, job.pc, step) => step.call.fn = "grantRole"
    BY DEF HandsOver, GrantRole
  <2>4. SetsUp(job.at, job.pc, step) => step.call.fn \notin {"upgradeTo", "upgradeToAndCall"}
    BY DEF SetsUp
  <2>5. Renounces(job.at, job.pc, step) => step.call.fn = "renounceRole"
    BY DEF Renounces, RenounceRole
  <2>6. /\ step.op # "upgradeAndReinitialize"
        /\ step.op = "execute" => Executes(job.at, job.pc, step)
    BY <2>1 DEF MainnetStep, Deploys, Saves, Upgrades, Prepares, SavesPrepared, Grants,
        HandsOver, SetsUp, SavesBridge, Renounces, Proposes, ProposesUpgrade, Executes
  <2> QED
    BY <1>1, <2>2, <2>3, <2>4, <2>5, <2>6 DEF Executes, Upgraders
<1>3. CASE network.name # "mainnet"
  <2>1. Plain(job.at, script, Replaces, Savers)
    BY <1>0, <1>3, OtherScripts DEF JobInv
  <2>2. PlainStep(job.at, step, Replaces, Savers)
    BY <1>0, <2>1 DEF Plain
  <2>3. Savers # {}
    <3>1. network.name \in {"testnet", "devnet", "hardhat", "upgradeTest"}
      BY <1>0, <1>3 DEF BaseInv, AllNetworks, ScriptsOf
    <3> QED
      BY <3>1 DEF Savers, TestnetSavers, DevnetSavers, HardhatSavers, UpgradeTestSavers
  <2>4. ASSUME step.op = "upgradeAndReinitialize"
        PROVE  <<job.at, step.name>> \in Reinitialized
    <3>1. Replaces > 0 /\ job.at = IF Replaces = 11 THEN 18 ELSE 19
      BY <2>2, <2>4 DEF PlainStep
    <3>2. \/ network.name = "testnet" /\ job.at = 18
          \/ network.name = "devnet" /\ job.at = 19
      BY <3>1 DEF Replaces
    <3>3. <<job.at, "FuelMessagePortal">> \in Reinitialized
      BY <3>2 DEF Reinitialized
    <3>4. step.name = "FuelMessagePortal"
      BY <2>4, <3>3, ReinitializingStep
    <3> QED
      BY <3>3, <3>4
  <2> QED
    BY <1>1, <2>2, <2>3, <2>4 DEF PlainStep, Upgraders
<1> QED
  BY <1>2, <1>3

\* Two names do not stand for one proxy.
LEMMA OneName ==
    ASSUME RightKinds, NEW n \in Contracts, NEW m \in DOMAIN files.records, Address(m) = Address(n)
    PROVE  m = n
<1>1. /\ n \in ProxyNames /\ m \in ProxyNames
      /\ Contract(n).contract = KindOf(n) /\ Contract(m).contract = KindOf(m)
  BY DEF RightKinds, Contracts
<1>2. KindOf(n) = KindOf(m)
  BY <1>1 DEF Contract
<1> QED
  BY <1>1, <1>2 DEF KindOf, ProxyNames, Gateways, PortalName

\* No upgrade of the proxy at a is sent, and none takes place.
Quiet(a) ==
    chain'.sent.address # a /\ chain'.contracts[a].implementation = chain.contracts[a].implementation

LEMMA SettledQuietly ==
    ASSUME BaseInv, NEW a \in DOMAIN chain.contracts, chain.sent.address # a
    PROVE  a \in DOMAIN Settled /\ Settled[a] = chain.contracts[a] /\ NothingSent.address # a
<1>1. a # 0
  BY DEF BaseInv, IsSequence
<1> QED
  BY <1>1 DEF Settled, NothingSent

LEMMA QuietStep ==
    ASSUME DeployInv, network.name # "fork", Step, Advances, NEW a \in DOMAIN chain.contracts,
           chain.sent.address # a,
           step.op \in {"upgradeProxy", "upgradeAndReinitialize"} => Address(step.name) # a
    PROVE  Quiet(a)
<1>0. /\ BaseInv /\ ~Throw /\ Looked(step) \subseteq DOMAIN files.records
      /\ DOMAIN chain = {"contracts", "sent", "tokens"}
      /\ a \in DOMAIN Settled /\ Settled[a] = chain.contracts[a] /\ NothingSent.address # a
      /\ DOMAIN Settled[a] = ContractFields
  BY AdvancingStep, SettledQuietly DEF DeployInv, BaseInv
<1>1. CASE deployProxy
  <2> DEFINE linked == Linked(step.linkedTo)
  <2> DEFINE new == NewContract(step.contract, step.initializer, script.id, linked)
  <2>1. chain' = [chain EXCEPT !.contracts = Append(Settled, new), !.sent = NothingSent]
    BY <1>1 DEF deployProxy
  <2> HIDE DEF new, linked
  <2>2. chain'.contracts = Append(Settled, new) /\ chain'.sent = NothingSent
    BY <1>0, <2>1
  <2>3. chain'.contracts[a] = Settled[a]
    BY <1>0, <2>2, SettledContracts, AppendSequence
  <2> QED
    BY <1>0, <2>2, <2>3 DEF Quiet
<1>2. ASSUME NEW x, NEW sender, NEW call,
             chain' = [chain EXCEPT !.contracts = [Settled EXCEPT ![x] = After(Settled[x], sender, call)],
                                    !.sent = NothingSent],
             x # a \/ call.fn \notin {"upgradeTo", "upgradeToAndCall"}
      PROVE  Quiet(a)
  <2>1. /\ chain'.contracts = [Settled EXCEPT ![x] = After(Settled[x], sender, call)]
        /\ chain'.sent = NothingSent
    BY <1>0, <1>2
  <2>2. CASE x # a
    BY <1>0, <2>1, <2>2 DEF Quiet
  <2>3. CASE x = a
    <3>1. chain'.contracts[a] = After(Settled[a], sender, call)
      BY <1>0, <2>1, <2>3
    <3>2. After(Settled[a], sender, call).implementation = Settled[a].implementation
      BY <1>0, <1>2, <2>3, AfterFrame
    <3> QED
      BY <1>0, <2>1, <3>1, <3>2 DEF Quiet
  <2> QED
    BY <2>2, <2>3
<1>3. CASE upgradeProxy
  <2>1. /\ chain' = [chain EXCEPT !.contracts = Settled,
              !.sent = [address |-> Address(step.name), implementation |-> script.id]]
        /\ step.op = "upgradeProxy"
    BY <1>0, <1>3 DEF upgradeProxy
  <2>2. chain'.contracts = Settled /\ chain'.sent.address = Address(step.name)
    BY <1>0, <2>1
  <2> QED
    BY <1>0, <2>1, <2>2 DEF Quiet
<1>4. CASE upgradeAndReinitialize
  <2> DEFINE x == Address(step.name)
  <2> DEFINE call == UpgradeToAndReinitialize(job.implementation)
  <2>1. /\ x # a
        /\ chain' = [chain EXCEPT !.contracts = [Settled EXCEPT ![x] =
                          After(Settled[x], "deployer", call)], !.sent = NothingSent]
    BY <1>0, <1>4 DEF upgradeAndReinitialize
  <2> HIDE DEF x, call
  <2> QED
    BY <1>2, <2>1
<1>5. ASSUME NEW x, NEW sender, NEW call, Transaction(x, sender, call),
             call.fn \notin {"upgradeTo", "upgradeToAndCall"}
      PROVE  Quiet(a)
  <2>1. chain' = [chain EXCEPT !.contracts = [Settled EXCEPT ![x] = After(Settled[x], sender, call)],
                               !.sent = NothingSent]
    BY <1>0, <1>5 DEF Transaction
  <2> QED
    BY <1>2, <1>5, <2>1
<1>6. CASE execute
  <2>1. Transaction(Address(step.name), step.sender, step.call) /\ step.op = "execute"
    BY <1>6 DEF execute
  <2>2. step.call.fn \notin {"upgradeTo", "upgradeToAndCall"}
    BY <2>1, UpgradingStep
  <2> QED
    BY <1>5, <2>1, <2>2
<1>7. CASE linkChainState
  <2> DEFINE call == SetFuelChainState(Address("FuelChainState"))
  <2>1. Transaction(Address(step.name), "deployer", call)
    BY <1>7 DEF linkChainState
  <2>2. call.fn \notin {"upgradeTo", "upgradeToAndCall"}
    BY DEF SetFuelChainState
  <2> HIDE DEF call
  <2> QED
    BY <1>5, <2>1, <2>2
<1>8. CASE chain'.contracts = chain.contracts /\ chain'.sent = chain.sent
  BY <1>8 DEF Quiet
<1>9. CASE setToken
  BY <1>0, <1>8, <1>9 DEF setToken
<1>10. CASE \/ save \/ awaitUpgrade \/ prepareUpgrade \/ savePrepared \/ saveL2Bridge \/ propose
           \/ proposeUpgrade \/ deployToken \/ writeAddresses
  BY <1>8, <1>10 DEF save, awaitUpgrade, prepareUpgrade, savePrepared, saveL2Bridge, propose,
      proposeUpgrade, ProposeCalls, deployToken, writeAddresses
<1> QED
  BY <1>0, <1>1, <1>3, <1>4, <1>6, <1>7, <1>9, <1>10 DEF Step, awaitDeployment

\* Whatever the owners upgrade n to is what is recorded.
LEMMA CalledTruth ==
    ASSUME DeployInv, RightKinds, Called, NEW n \in Contracts
    PROVE  \/ Contract(n)'.implementation = Contract(n).implementation
           \/ Contract(n)'.implementation = files.records[n].implementation
<1> DEFINE a == Address(n)
<1> DEFINE c == chain.contracts[a]
<1>0. /\ a \in DOMAIN chain.contracts /\ DOMAIN c = ContractFields /\ n \in DOMAIN files.records
      /\ Contract(n) = c /\ Contract(n)' = chain'.contracts[a]
  BY DEF DeployInv, BaseInv, IsSequence, Contracts, Contract, Called, Address
<1>1. CASE chain'.contracts[a] = c
  BY <1>0, <1>1
<1>2. CASE chain'.contracts[a] # c
  <2>1. PICK sender, call :
          /\ \/ sender \in Signers /\ call \in TaskCalls
             \/ sender = "multisig" /\ call \in OwnersCalls(a)
          /\ chain'.contracts[a] = After(c, sender, call)
    BY <1>0, <1>2 DEF Called
  <2> HIDE DEF c, a
  <2>2. CASE call = UpgradeTo(files.records[n].implementation)
    BY <1>0, <2>1, <2>2, AfterFrame DEF UpgradeTo
  <2>3. CASE call.fn \notin {"upgradeTo", "upgradeToAndCall"}
    BY <1>0, <2>1, <2>3, AfterFrame
  <2>4. CASE call \in TaskCalls
    <3>1. call.fn \notin {"upgradeTo", "upgradeToAndCall"}
      BY <2>4 DEF TaskCalls, Call, GrantRole
    <3> QED
      BY <2>3, <3>1
  <2>5. ASSUME NEW m \in DOMAIN files.records, Address(m) = a,
               call = UpgradeTo(files.records[m].implementation)
        PROVE  call = UpgradeTo(files.records[n].implementation)
    <3>1. m = n
      BY <2>5, OneName DEF a
    <3> QED
      BY <2>5, <3>1
  <2>6. ASSUME NEW p \in safe.open, NEW k \in DOMAIN p.calls, call = p.calls[k].call,
               Address(p.calls[k].name) = a
        PROVE  \/ call = UpgradeTo(files.records[n].implementation)
               \/ call.fn \notin {"upgradeTo", "upgradeToAndCall"}
    <3>1. network.name = "mainnet" /\ MainnetState
      BY DEF DeployInv, OthersInv, MainnetInv, MainnetState
    <3>2. ProposedCall(p.calls[k])
      BY <3>1 DEF MainnetState, ProposalsInv
    <3>3. CASE Proposable(call)
      BY <3>3 DEF Proposable, Call, GrantRole
    <3>4. CASE /\ p.calls[k].name = Portal /\ Over(20)
               /\ call = UpgradeTo(files.records[Portal].implementation)
      <4>1. Over(14)
        BY <3>1, <3>4 DEF MainnetState, OrderInv, Due
      <4>2. Portal \in DOMAIN files.records
        BY <3>1, <4>1, AllRecorded, PortalNamed
      <4> QED
        BY <2>5, <2>6, <3>4, <4>2
    <3> QED
      BY <2>6, <3>2, <3>3, <3>4 DEF ProposedCall
  <2>7. CASE call \in OwnersCalls(a)
    BY <2>2, <2>3, <2>5, <2>6, <2>7 DEF OwnersCalls
  <2> QED
    BY <2>1, <2>4, <2>7
<1> QED
  BY <1>1, <1>2

\* So what is truthful stays so, unless its record or its proxy is to change.
LEMMA TruthKept ==
    ASSUME DeployInv, RightKinds, network.name # "fork", [TaskNext]_allVars, NEW n \in Contracts,
           Truthful(n), n \in DOMAIN files'.records, files'.records[n] = files.records[n],
           Step /\ step.op \in {"upgradeProxy", "upgradeAndReinitialize"} => step.name # n
    PROVE  Truthful(n)'
<1> DEFINE a == Address(n)
<1> DEFINE c == chain.contracts[a]
<1>0. /\ BaseInv /\ CallInv /\ a \in DOMAIN chain.contracts
      /\ DOMAIN chain = {"contracts", "sent", "tokens"} /\ n \in DOMAIN files.records
      /\ Contract(n) = c /\ Contract(n)' = chain'.contracts[a] /\ Address(n)' = a
  BY DEF DeployInv, BaseInv, IsSequence, Contracts, Contract, Address
<1>1. ReadTooEarly' = ReadTooEarly
  BY <1>0, NetworkStays DEF ReadTooEarly
<1>2. ASSUME chain'.sent.address # a,
             \/ chain'.contracts[a].implementation = c.implementation
             \/ chain'.contracts[a].implementation = files.records[n].implementation,
             files.records[n].implementation = c.implementation
      PROVE  Truthful(n)'
  BY <1>0, <1>2 DEF Truthful
<1>3. CASE files.records[n].prepared \/ files.records[n].script \in ReadTooEarly
  BY <1>1, <1>3 DEF Truthful
<1>4. CASE files.records[n].implementation = c.implementation /\ chain.sent.address # a
  <2>1. CASE Step
    <3>1. CASE Throw
      BY <1>2, <1>4, <3>1 DEF Throw
    <3>2. CASE Advances
      <4>1. ASSUME step.op \in {"upgradeProxy", "upgradeAndReinitialize"}
            PROVE  Address(step.name) # a
        <5>1. step.name \in DOMAIN files.records
          BY <1>0, <2>1, <3>2, <4>1, AdvancingStep DEF Looked
        <5> QED
          BY <2>1, <4>1, <5>1, OneName
      <4>2. Quiet(a)
        BY <1>0, <1>4, <2>1, <3>2, <4>1, QuietStep
      <4> QED
        BY <1>2, <1>4, <4>2 DEF Quiet
    <3> QED
      BY <1>0, <2>1, <3>1, <3>2, StepEffect
  <2>2. CASE Mined
    <3>1. chain'.contracts = Settled /\ chain'.sent = NothingSent
      BY <1>0, <2>2 DEF Mined
    <3>2. Settled[a] = c /\ NothingSent.address # a
      BY <1>0, <1>4, SettledQuietly
    <3> QED
      BY <1>2, <1>4, <3>1, <3>2
  <2>3. CASE Called
    <3>1. \/ Contract(n)'.implementation = Contract(n).implementation
          \/ Contract(n)'.implementation = files.records[n].implementation
      BY <2>3, CalledTruth
    <3>2. chain'.sent = chain.sent
      BY <2>3 DEF Called
    <3> QED
      BY <1>0, <1>2, <1>4, <3>1, <3>2
  <2>4. CASE chain' = chain
    BY <1>2, <1>4, <2>4
  <2> QED
    BY <1>0, <2>1, <2>2, <2>3, <2>4, NextKinds DEF vars, Start, NextScript, ScriptReturns,
        Crash, EnterMigration
<1> QED
  BY <1>0, <1>3, <1>4 DEF Truthful

\* A script that has begun has, until it returns.
LEMMA BegunKept ==
    ASSUME DeployInv, [TaskNext]_allVars, seen.crashes \in Nat, ~seen'.byHand,
           NEW n, Begun(n), ~(ScriptReturns /\ <<job.at, n>> \in Upgraders)
    PROVE  Begun(n)'
<1>0. /\ BaseInv /\ CallInv /\ JobInv /\ job.pc \in Nat
  BY DEF DeployInv, BaseInv
<1>1. PICK i \in 1 .. Len(Scripts) :
        /\ <<i, n>> \in Upgraders /\ ~Entered(i)
        /\ seen.crashes # 0 \/ seen.refused # {} \/ (job.at = i /\ job.pc > 1)
  BY DEF Begun
<1>2. Scripts' = Scripts /\ Upgraders' = Upgraders
  BY <1>0, Fixed DEF Upgraders
<1>3. CASE Start \/ NextScript
  <2>1. UNCHANGED files /\ seen'.crashes = seen.crashes /\ seen'.refused = seen.refused /\ job.pc = 0
    <3>1. CASE Start
      BY <1>0, <3>1, IdleJob DEF Start, Running, BaseInv
    <3>2. CASE NextScript
      BY <1>0, <3>2 DEF NextScript, InScript, BaseInv
    <3> QED
      BY <1>3, <3>1, <3>2
  <2> QED
    BY <1>1, <1>2, <2>1 DEF Begun, Entered
<1>4. CASE ScriptReturns
  <2>1. /\ job.pc > 0 /\ seen' = seen /\ script = Scripts[job.at]
        /\ files'.migrations \subseteq files.migrations \union {script.id}
    BY <1>0, <1>4 DEF ScriptReturns, InScript, BaseInv, script
  <2>2. job.at # i /\ job.at \in 1 .. Len(Scripts)
    BY <1>0, <1>1, <1>4, <2>1 DEF JobInv
  <2>3. Scripts[i].id # script.id
    BY <1>0, <1>1, <2>1, <2>2, TheUpgraders DEF Alone
  <2>4. ~Entered(i)'
    BY <1>1, <1>2, <2>1, <2>3 DEF Entered
  <2> QED
    BY <1>1, <1>2, <2>1, <2>2, <2>4 DEF Begun
<1>5. CASE Step
  <2>1. CASE Throw
    <3>1. seen'.refused # {} /\ files' = files
      BY <1>0, <2>1 DEF Throw, BaseInv
    <3> QED
      BY <1>1, <1>2, <3>1 DEF Begun, Entered
  <2>2. CASE Advances
    <3>1. /\ seen' = seen /\ files'.migrations = files.migrations /\ job'.at = job.at
          /\ job'.pc = job.pc + 1
      BY <2>2 DEF Advances
    <3> QED
      BY <1>0, <1>1, <1>2, <3>1 DEF Begun, Entered
  <2> QED
    BY <1>0, <1>5, <2>1, <2>2, StepEffect
<1>6. CASE Crash
  <2>1. seen'.crashes # 0 /\ files' = files
    BY <1>0, <1>6 DEF Crash, BaseInv
  <2> QED
    BY <1>1, <1>2, <2>1 DEF Begun, Entered
<1>7. \A id \in seen.refused : ~EnterMigration(id)
  BY <1>0 DEF EnterMigration, BaseInv
<1>8. CASE UNCHANGED <<files, job, seen>>
  BY <1>1, <1>2, <1>8 DEF Begun, Entered
<1> QED
  BY <1>0, <1>3, <1>4, <1>5, <1>6, <1>7, <1>8, NextKinds DEF vars, Mined, Called

\* What is saved is truthful.
LEMMA SavedTruth ==
    ASSUME DeployInv, ReadInTime, Step, Advances, step.op \in {"save", "savePrepared"},
           NEW n, step.name = n
    PROVE  /\ files'.records[n].address > 0 => Truthful(n)'
           /\ files'.records[n].script = script.id
           /\ \A m \in DOMAIN files'.records \ {n} :
                m \in DOMAIN files.records /\ files'.records[m] = files.records[m]
<1>0. /\ BaseInv /\ CallInv /\ ~Throw /\ Looked(step) \subseteq DOMAIN files.records
      /\ DOMAIN files = {"records", "migrations", "addresses"} /\ network' = network
      /\ job.pc \in Nat
  BY AdvancingStep DEF DeployInv, BaseInv, Advances
<1>1. ReadTooEarly' = ReadTooEarly
  BY <1>0 DEF ReadTooEarly
<1>2. CASE step.op = "save"
  <2> DEFINE r == Record(job.address, chain.contracts[job.address].implementation, script.id,
                         FALSE, FALSE)
  <2>1. /\ files'.records = [m \in DOMAIN files.records \union {n} |->
                              IF m = n THEN r ELSE files.records[m]]
        /\ chain' = chain
    BY <1>0, <1>2, ActionOf DEF save, SaveRecord
  <2>2. /\ r.address = job.address /\ r.script = script.id
        /\ r.implementation = chain.contracts[job.address].implementation
    BY DEF Record
  <2> HIDE DEF r
  <2>3. /\ files'.records[n] = r
        /\ \A m \in DOMAIN files'.records \ {n} :
              m \in DOMAIN files.records /\ files'.records[m] = files.records[m]
    BY <2>1
  <2>4. CASE script.id \in ReadTooEarly
    BY <1>1, <2>2, <2>3, <2>4 DEF Truthful
  <2>5. ASSUME chain.sent = NothingSent, job.address > 0
        PROVE  Truthful(n)'
    <3>1. NothingSent.address = 0
      BY DEF NothingSent
    <3>2. /\ Address(n)' = job.address
          /\ Contract(n)'.implementation = files'.records[n].implementation
      BY <2>1, <2>2, <2>3 DEF Contract, Address
    <3> QED
      BY <2>1, <2>5, <3>1, <3>2 DEF Truthful
  <2>6. PICK m \in ProxyNames : <<job.at, m>> \in MadeBy \/ <<job.at, m>> \in RenewedBy
    BY <1>2, WiringStep DEF Saver
  <2>7. CASE <<job.at, m>> \in MadeBy
    <3>1. job.pc = 2 /\ Makes(job.at)
      BY <1>2, <2>6, <2>7, WiringStep DEF Makes
    <3> QED
      BY <2>2, <2>3, <2>5, <3>1 DEF ReadInTime
  <2>8. CASE <<job.at, m>> \in RenewedBy
    <3>1. /\ job.pc > 1 /\ job.pc <= Len(script.steps) /\ step = script.steps[job.pc]
          /\ Renewer(job.at, m) /\ script = Scripts[job.at]
      BY <1>2, <2>8, WiringStep DEF Step, step, script
    <3>2. Renewed(script, script.id, m)
      BY <3>1 DEF Renewer
    <3>3. job.pc = 2 \/ job.pc > 2
      BY <1>0, <3>1
    <3>4. job.pc > 2 =>
            /\ script.steps[2].op # "awaitDeployment"
            /\ job.pc = 3 /\ script.steps[2].op = "awaitUpgrade" => chain.sent = NothingSent
      BY <2>6, <2>8 DEF ReadInTime
    <3>5. script.id \in ReadTooEarly \/ chain.sent = NothingSent
      BY <1>0, <1>2, <3>1, <3>2, <3>3, <3>4 DEF Renewed
    <3> QED
      BY <2>2, <2>3, <2>4, <2>5, <3>5
  <2> QED
    BY <2>6, <2>7, <2>8
<1>3. CASE step.op = "savePrepared"
  <2> DEFINE r == Record(Address(n), job.implementation, script.id, TRUE, step.verifiable)
  <2>1. files'.records = [m \in DOMAIN files.records \union {n} |->
                              IF m = n THEN r ELSE files.records[m]]
    BY <1>0, <1>3, ActionOf DEF savePrepared, SaveRecord
  <2>2. r.prepared /\ r.script = script.id
    BY DEF Record
  <2> HIDE DEF r
  <2>3. /\ files'.records[n].prepared /\ files'.records[n].script = script.id
        /\ \A m \in DOMAIN files'.records \ {n} :
              m \in DOMAIN files.records /\ files'.records[m] = files.records[m]
    BY <2>1, <2>2
  <2> QED
    BY <2>3 DEF Truthful
<1> QED
  BY <1>2, <1>3

\* No other step changes the record of a contract.
LEMMA RecordsUnsaved ==
    ASSUME BaseInv, Step, Advances, step.op \notin {"save", "savePrepared"},
           NEW n \in DOMAIN files'.records, files'.records[n].address > 0
    PROVE  n \in DOMAIN files.records /\ files'.records[n] = files.records[n]
<1>0. ~Throw /\ Looked(step) \subseteq DOMAIN files.records
      /\ DOMAIN files = {"records", "migrations", "addresses"}
  BY AdvancingStep DEF BaseInv
<1>1. ASSUME NEW name, SaveRecord(name, Record(0, "", script.id, FALSE, FALSE))
      PROVE  n \in DOMAIN files.records /\ files'.records[n] = files.records[n]
  <2> DEFINE r == Record(0, "", script.id, FALSE, FALSE)
  <2>1. r.address = 0
    BY DEF Record
  <2> HIDE DEF r
  <2>2. files'.records = [m \in DOMAIN files.records \union {name} |->
                              IF m = name THEN r ELSE files.records[m]]
    BY <1>0, <1>1 DEF SaveRecord, r
  <2> QED
    BY <2>1, <2>2
<1>2. CASE saveL2Bridge \/ deployToken
  BY <1>1, <1>2 DEF saveL2Bridge, deployToken
<1>3. CASE files'.records = files.records
  BY <1>3
<1>4. CASE writeAddresses
  BY <1>0, <1>3, <1>4 DEF writeAddresses
<1>5. CASE execute \/ linkChainState
  BY <1>0, <1>3, <1>5 DEF execute, linkChainState, Transaction
<1>6. CASE \/ deployProxy \/ awaitUpgrade \/ prepareUpgrade \/ setToken \/ upgradeProxy
           \/ upgradeAndReinitialize \/ propose \/ proposeUpgrade
  BY <1>0, <1>3, <1>6 DEF deployProxy, awaitUpgrade, prepareUpgrade, setToken, upgradeProxy,
      upgradeAndReinitialize, propose, proposeUpgrade, ProposeCalls
<1> QED
  BY <1>0, <1>2, <1>4, <1>5, <1>6 DEF Step, awaitDeployment, save, savePrepared

LEMMA NextInOrder ==
    ASSUME DeployInv, WiredInOrder, MigratedInOrder, [TaskNext]_allVars
    PROVE  MigratedInOrder'
<1>0. /\ BaseInv /\ CallInv /\ JobInv /\ job.at \in Nat /\ job.pc \in Nat /\ job.reached \in Nat
      /\ DOMAIN seen = {"refused", "finished", "byHand", "crashes", "reruns"}
      /\ DOMAIN files = {"records", "migrations", "addresses"}
  BY DEF DeployInv, BaseInv
<1>1. Scripts' = Scripts
  BY <1>0, Fixed
<1>2. ASSUME files.migrations \subseteq files'.migrations,
             job'.reached = 0 \/ job'.reached = job.reached, seen'.finished = seen.finished
      PROVE  MigratedInOrder'
  BY <1>0, <1>1, <1>2 DEF MigratedInOrder, Entered
<1>3. CASE Start
  <2>1. job'.reached = 1 /\ seen'.finished = FALSE
    BY <1>0, <1>3, IdleJob DEF Start
  <2> QED
    BY <1>1, <2>1 DEF MigratedInOrder
<1>4. CASE NextScript
  <2>1. files' = files /\ Running
    BY <1>4 DEF NextScript
  <2>2. ASSUME NEW i \in 1 .. Len(Scripts), Scripts[i].migrates, Scripts[i].skip = FALSE,
               i < job.reached \/ ~ToRun(i)
        PROVE  Entered(i)
    BY <2>2 DEF MigratedInOrder, ToRun, Entered
  <2>3. CASE job' = Idle
    <3>1. \A j \in job.reached .. Len(Scripts) : ~ToRun(j)
      BY <1>0, <1>4, <2>3, NextEffect, IdleJob
    <3>2. \A i \in 1 .. Len(Scripts) : i < job.reached \/ i \in job.reached .. Len(Scripts)
      BY <1>0
    <3> QED
      BY <1>1, <2>1, <2>2, <3>1, <3>2 DEF MigratedInOrder, Entered
  <2>4. CASE job' # Idle
    <3>1. /\ job'.at \in job.reached .. Len(Scripts) /\ job'.reached = job'.at
          /\ \A j \in job.reached .. job'.at - 1 : ~ToRun(j)
      BY <1>0, <1>4, <2>4, NextEffect
    <3>2. ~seen'.finished
      BY <1>4, <2>1, <2>4 DEF NextScript, WiredInOrder
    <3>3. \A i \in 1 .. Len(Scripts) : i < job'.reached =>
                i < job.reached \/ i \in job.reached .. job'.at - 1
      BY <1>0, <3>1
    <3> QED
      BY <1>1, <2>1, <2>2, <3>1, <3>2, <3>3 DEF MigratedInOrder, Entered
  <2> QED
    BY <2>3, <2>4
<1>5. CASE ScriptReturns
  <2>1. /\ job.pc > 0 /\ script = Scripts[job.at] /\ seen' = seen
        /\ job' = [Idle EXCEPT !.reached = job.at + 1]
        /\ files'.migrations = IF script.migrates THEN files.migrations \union {script.id}
                               ELSE files.migrations
    BY <1>0, <1>5 DEF ScriptReturns, InScript, script
  <2>2. job'.reached = job.at + 1 /\ job.reached = job.at /\ ~seen.finished
    BY <1>0, <2>1, IdleJob DEF WiredInOrder, Running
  <2>3. \A i \in 1 .. Len(Scripts) : i < job'.reached => i < job.reached \/ i = job.at
    BY <1>0, <2>2
  <2> QED
    BY <1>1, <2>1, <2>2, <2>3 DEF MigratedInOrder, Entered
<1>6. CASE Step
  <2>1. CASE Throw
    BY <1>0, <1>2, <2>1, IdleJob DEF Throw
  <2>2. CASE Advances
    BY <1>2, <2>2 DEF Advances
  <2> QED
    BY <1>0, <1>6, <2>1, <2>2, StepEffect
<1>7. CASE Crash
  BY <1>0, <1>2, <1>7, IdleJob DEF Crash
<1>8. CASE \E id \in seen.refused : EnterMigration(id)
  BY <1>0, <1>2, <1>8 DEF EnterMigration
<1>9. CASE UNCHANGED <<files, job, seen>>
  BY <1>2, <1>9
<1> QED
  BY <1>0, <1>3, <1>4, <1>5, <1>6, <1>7, <1>8, <1>9, NextKinds DEF vars, Mined, Called

LEMMA NextRead ==
    ASSUME DeployInv, ReadInTime, [TaskNext]_allVars
    PROVE  ReadInTime'
<1>0. /\ BaseInv /\ CallInv /\ JobInv /\ job.pc \in Nat
      /\ DOMAIN chain = {"contracts", "sent", "tokens"}
  BY DEF DeployInv, BaseInv
<1>1. /\ Scripts' = Scripts /\ ProxyNames' = ProxyNames /\ RenewedBy' = RenewedBy
      /\ \A i : Makes(i) <=> Makes(i)'
  BY <1>0, Fixed
<1>2. CASE job'.pc \in {0, 1}
  BY <1>2 DEF ReadInTime
<1>3. CASE UNCHANGED job /\ (chain'.sent = chain.sent \/ chain.sent # NothingSent)
  <2>1. chain.sent = NothingSent => chain'.sent = NothingSent
    BY <1>3
  <2>2. script' = script
    BY <1>1, <1>3 DEF script
  <2> QED
    BY <1>1, <1>3, <2>1, <2>2 DEF ReadInTime
<1>4. CASE Step /\ Advances
  <2>0. /\ job'.at = job.at /\ job'.pc = job.pc + 1 /\ ~Throw /\ job.pc > 0
        /\ Looked(step) \subseteq DOMAIN files.records /\ step = script.steps[job.pc]
    BY <1>0, <1>4, AdvancingStep DEF Advances, Step, InScript, step
  <2>1. script' = script
    BY <1>1, <2>0 DEF script
  <2>2. ASSUME Makes(job.at), job.pc = 1
        PROVE  chain'.sent = NothingSent
    <3>1. PICK n : <<job.at, n>> \in MadeBy
      BY <2>2 DEF Makes
    <3>2. step.op = "deployProxy"
      BY <1>4, <2>2, <3>1, WiringStep
    <3>3. PICK s : chain' = [chain EXCEPT !.contracts = s, !.sent = NothingSent]
      BY <1>4, <2>0, <3>2, ActionOf DEF deployProxy
    <3> QED
      BY <1>0, <3>3
  <2>3. ASSUME NEW n \in ProxyNames, <<job.at, n>> \in RenewedBy, job.pc > 1
        PROVE  /\ script.steps[2].op # "awaitDeployment"
               /\ job.pc = 2 /\ script.steps[2].op = "awaitUpgrade" => chain'.sent = NothingSent
    <3>1. CASE job.pc = 2
      <4>1. step = script.steps[2]
        BY <2>0, <3>1
      <4>2. step.op \in {"awaitUpgrade", "awaitDeployment"} => awaitUpgrade
        BY <1>4, <2>0, OnlyAwaits
      <4> QED
        BY <4>1, <4>2 DEF awaitUpgrade
    <3>2. CASE job.pc > 2
      BY <2>3, <3>2 DEF ReadInTime
    <3> QED
      BY <1>0, <2>3, <3>1, <3>2
  <2>4. /\ job'.pc = 2 <=> job.pc = 1
        /\ job'.pc > 2 <=> job.pc > 1
        /\ job'.pc = 3 <=> job.pc = 2
    BY <1>0, <2>0
  <2> QED
    BY <1>1, <2>0, <2>1, <2>2, <2>3, <2>4 DEF ReadInTime
<1>5. CASE Start \/ ScriptReturns \/ Crash
  <2>1. job'.pc = 0
    BY <1>0, <1>5, IdleJob DEF Start, ScriptReturns, Crash
  <2> QED
    BY <1>2, <2>1
<1>6. CASE NextScript
  BY <1>0, <1>2, <1>6, NextEffect, IdleJob
<1>7. CASE Step /\ Throw
  BY <1>2, <1>7, IdleJob DEF Throw
<1>8. CASE Mined \/ Called \/ UNCHANGED vars \/ \E id \in seen.refused : EnterMigration(id)
  BY <1>3, <1>8 DEF Mined, Called, EnterMigration, vars
<1> QED
  BY <1>0, <1>4, <1>5, <1>6, <1>7, <1>8, NextKinds, StepEffect

\* A script that upgrades ends with saving.
LEMMA LastStep ==
    ASSUME DeployInv, ReadInTime, Step, Advances, job.pc + 1 > Len(script.steps),
           NEW n, <<job.at, n>> \in Upgraders
    PROVE  step.op \in {"save", "savePrepared"} /\ step.name = n
<1>0. /\ BaseInv /\ job.pc \in Nat /\ job.pc > 0 /\ job.pc <= Len(script.steps) /\ ~Throw
      /\ Looked(step) \subseteq DOMAIN files.records /\ step = script.steps[job.pc]
      /\ script = Scripts[job.at]
  BY AdvancingStep DEF DeployInv, BaseInv, Step, InScript, step, script
<1>1. CASE <<job.at, n>> \in Reinitialized
  <2>1. /\ Len(script.steps) = 3
        /\ job.pc \in {1, 2} \/ (job.pc = 3 /\ step.op = "savePrepared" /\ step.name = n)
    BY <1>1, ReinitializingStep
  <2>2. job.pc \notin {1, 2}
    BY <2>1
  <2> QED
    BY <2>1, <2>2
<1>2. CASE <<job.at, n>> \in RenewedBy
  <2>1. Renewer(job.at, n)
    BY <1>2, WiringStep
  <2>2. Renewed(script, script.id, n) /\ n \in ProxyNames
    BY <1>0, <2>1 DEF Renewer
  <2>3. job.pc > 2 => script.steps[2].op # "awaitDeployment"
    BY <1>2, <2>2 DEF ReadInTime
  <2>4. CASE Len(script.steps) = 2 /\ script.steps[2].op = "save" /\ script.steps[2].name = n
    BY <1>0, <2>4
  <2>5. CASE /\ Len(script.steps) = 3 /\ script.steps[3].op = "save"
             /\ script.steps[3].name = n
    BY <1>0, <2>5
  <2>6. CASE Len(script.steps) \in {3, 4} /\ script.steps[2].op = "awaitDeployment"
    <3>1. Len(script.steps) = 3 => job.pc > 2
      BY <1>0
    <3>2. Len(script.steps) = 4 => job.pc > 2
      BY <1>0
    <3> QED
      BY <2>3, <2>6, <3>1, <3>2
  <2> QED
    BY <2>2, <2>4, <2>5, <2>6 DEF Renewed
<1> QED
  BY <1>1, <1>2 DEF Upgraders

\* Once the operator has entered a script by hand, that stays known.
LEMMA NotByHand ==
    ASSUME BaseInv, CallInv, [TaskNext]_allVars, ~seen'.byHand
    PROVE  ~seen.byHand /\ \A id \in seen.refused : ~EnterMigration(id)
<1>0. DOMAIN seen = {"refused", "finished", "byHand", "crashes", "reruns"}
  BY DEF BaseInv
<1>1. Step => seen'.byHand = seen.byHand
  BY <1>0, StepEffect DEF Throw, Advances
<1>2. NextScript => seen'.byHand = seen.byHand
  BY <1>0 DEF NextScript
<1> QED
  BY <1>0, <1>1, <1>2, NextKinds DEF vars, Start, ScriptReturns, Mined, Crash,
      EnterMigration, Called

LEMMA NextRecording ==
    ASSUME DeployInv, WiringInv, TruthInv, [TaskNext]_allVars
    PROVE  Recording'
<1>0. /\ BaseInv /\ BaseInv' /\ CallInv /\ JobInv /\ RightKinds /\ WiredInOrder /\ job.pc \in Nat
      /\ DOMAIN files = {"records", "migrations", "addresses"}
      /\ DOMAIN seen = {"refused", "finished", "byHand", "crashes", "reruns"}
  BY NextBase DEF DeployInv, BaseInv, WiringInv
<1>1. Scripts' = Scripts /\ Upgraders' = Upgraders /\ network' = network
  BY <1>0, Fixed DEF Upgraders
<1> SUFFICES ASSUME ~seen'.byHand, network.name # "fork"
             PROVE  SavedInTime' /\ \A n \in Contracts' : Truthful(n)' \/ Begun(n)'
  BY <1>1 DEF Recording
<1>2. ~seen.byHand
  BY NotByHand DEF DeployInv
<1>3. SavedInTime /\ \A n \in Contracts : Truthful(n) \/ Begun(n)
  BY <1>2 DEF TruthInv, Recording
<1>4. ASSUME NEW n \in Contracts'
      PROVE  n \in DOMAIN files'.records /\ files'.records[n].address > 0
  BY <1>4 DEF Contracts, Address
<1>5. CASE Step /\ Advances
  <2>0. /\ ~ScriptReturns /\ seen' = seen /\ job'.at = job.at /\ job'.pc = job.pc + 1
        /\ files'.migrations = files.migrations /\ script' = script /\ job.pc > 0
    BY <1>0, <1>1, <1>5 DEF ScriptReturns, Step, Advances, script, InScript
  <2>1. ASSUME NEW n \in Contracts', step.op \in {"save", "savePrepared"}, step.name = n
        PROVE  Truthful(n)'
    BY <1>4, <1>5, <2>1, SavedTruth DEF TruthInv
  <2>2. ASSUME NEW n \in Contracts', ~(step.op \in {"save", "savePrepared"} /\ step.name = n)
        PROVE  /\ n \in DOMAIN files'.records /\ files'.records[n] = files.records[n]
               /\ n \in Contracts
    <3>1. n \in DOMAIN files.records /\ files'.records[n] = files.records[n]
      BY <1>0, <1>4, <1>5, <2>2, SavedTruth, RecordsUnsaved DEF TruthInv
    <3> QED
      BY <1>4, <2>2, <3>1 DEF Contracts, Address
  <2>3. ASSUME NEW n \in Contracts', step.op \in {"upgradeProxy", "upgradeAndReinitialize"},
               step.name = n
        PROVE  Begun(n)'
    <3>1. <<job.at, n>> \in Upgraders /\ job.at \in 1 .. Len(Scripts)
      BY <1>5, <2>3, UpgradingStep, WiringStep
    <3>2. ~Entered(job.at)
      BY <2>0 DEF WiringInv, WiredInOrder
    <3>3. job'.pc > 1
      BY <1>0, <2>0
    <3> QED
      BY <1>1, <2>0, <3>1, <3>2, <3>3 DEF Begun, Entered
  <2>4. ASSUME NEW n \in Contracts'
        PROVE  Truthful(n)' \/ Begun(n)'
    <3>1. CASE step.op \in {"save", "savePrepared"} /\ step.name = n
      BY <2>1, <3>1
    <3>2. CASE step.op \in {"upgradeProxy", "upgradeAndReinitialize"} /\ step.name = n
      BY <2>3, <3>2
    <3>3. CASE /\ ~(step.op \in {"save", "savePrepared"} /\ step.name = n)
               /\ ~(step.op \in {"upgradeProxy", "upgradeAndReinitialize"} /\ step.name = n)
      <4>1. n \in Contracts /\ n \in DOMAIN files'.records
            /\ files'.records[n] = files.records[n]
        BY <2>2, <3>3
      <4>2. CASE Truthful(n)
        BY <1>0, <3>3, <4>1, <4>2, TruthKept
      <4>3. CASE Begun(n)
        BY <2>0, <4>3, BegunKept DEF TruthInv
      <4> QED
        BY <1>3, <4>1, <4>2, <4>3
    <3> QED
      BY <3>1, <3>2, <3>3
  <2>5. SavedInTime'
    <3>1. ASSUME job'.pc > Len(script.steps), NEW n \in Contracts', <<job.at, n>> \in Upgraders
          PROVE  Truthful(n)'
      <4>1. step.op \in {"save", "savePrepared"} /\ step.name = n
        BY <1>5, <2>0, <3>1, LastStep DEF TruthInv
      <4> QED
        BY <2>1, <4>1
    <3> QED
      BY <1>1, <2>0, <3>1 DEF SavedInTime
  <2> QED
    BY <2>4, <2>5
<1>6. ASSUME ~(Step /\ Advances)
      PROVE  \A n \in Contracts' : Truthful(n)' \/ Begun(n)'
  <2>1. files'.records = files.records
    BY <1>0, <1>6, NextKinds, StepEffect, NextEffect DEF Start, ScriptReturns, Mined, Crash,
        EnterMigration, Called, vars, Throw
  <2>2. \A n \in Contracts' : n \in Contracts
    BY <2>1 DEF Contracts, Address
  <2>3. ASSUME NEW n \in Contracts, Truthful(n), Step => Throw
        PROVE  Truthful(n)'
    <3>1. n \in DOMAIN files'.records /\ files'.records[n] = files.records[n]
      BY <2>1 DEF Contracts
    <3>2. CASE ~Step
      BY <1>0, <2>3, <3>1, <3>2, TruthKept
    <3>3. CASE Throw
      <4>1. chain' = chain /\ ReadTooEarly' = ReadTooEarly
        BY <1>1, <3>3 DEF Throw, ReadTooEarly
      <4> QED
        BY <2>1, <2>3, <4>1 DEF Truthful, Contract, Address
    <3> QED
      BY <2>3, <3>2, <3>3
  <2>4. ASSUME NEW n \in Contracts, ScriptReturns, <<job.at, n>> \in Upgraders
        PROVE  Truthful(n)
    BY <1>3, <2>4 DEF ScriptReturns, InScript, SavedInTime
  <2>5. Step => Throw
    BY <1>0, <1>6, StepEffect
  <2> QED
    BY <1>3, <2>2, <2>3, <2>4, <2>5, BegunKept DEF TruthInv
<1>7. ASSUME ~(Step /\ Advances)
      PROVE  SavedInTime'
  <2>1. CASE job'.pc \in {0, 1}
    <3>1. CASE job'.pc = 0
      BY <3>1 DEF SavedInTime
    <3>2. CASE job'.pc = 1
      <4>1. ASSUME NEW n \in Contracts', <<job'.at, n>> \in Upgraders
            PROVE  ~(job'.pc > Len(script'.steps))
        <5>1. Len(Scripts[job'.at].steps) \in {2, 3, 4}
          BY <1>0, <4>1, TheUpgraders
        <5>2. script' = Scripts[job'.at]
          BY <1>1 DEF script
        <5> QED
          BY <3>2, <5>1, <5>2
      <4> QED
        BY <1>1, <4>1 DEF SavedInTime
    <3> QED
      BY <2>1, <3>1, <3>2
  <2>2. CASE UNCHANGED <<job, files>> /\ ~Step
    <3>1. script' = script
      BY <1>1, <2>2 DEF script
    <3>2. ASSUME NEW n \in Contracts', job.pc > 0, job.pc > Len(script.steps),
                 <<job.at, n>> \in Upgraders
          PROVE  Truthful(n)'
      <4>1. n \in Contracts /\ n \in DOMAIN files'.records
        BY <2>2, <3>2 DEF Contracts, Address
      <4>2. Truthful(n)
        BY <1>3, <3>2, <4>1 DEF SavedInTime
      <4> QED
        BY <1>0, <2>2, <4>1, <4>2, TruthKept
    <3> QED
      BY <1>1, <2>2, <3>1, <3>2 DEF SavedInTime
  <2>3. CASE Start \/ ScriptReturns \/ Crash
    <3>1. job'.pc = 0
      BY <1>0, <2>3, IdleJob DEF Start, ScriptReturns, Crash
    <3> QED
      BY <2>1, <3>1
  <2>4. CASE NextScript
    BY <1>0, <2>1, <2>4, NextEffect, IdleJob
  <2>5. CASE Step
    BY <1>0, <1>7, <2>1, <2>5, StepEffect, IdleJob DEF Throw
  <2>6. CASE (Mined \/ Called \/ UNCHANGED vars) /\ ~Step
    BY <2>2, <2>6 DEF Mined, Called, vars
  <2>7. ~ \E id \in seen.refused : EnterMigration(id)
    BY <1>0 DEF EnterMigration
  <2> QED
    BY <1>0, <2>3, <2>4, <2>5, <2>6, <2>7, NextKinds
<1> QED
  BY <1>5, <1>6, <1>7

LEMMA NextTruth ==
    ASSUME DeployInv, WiringInv, TruthInv, [TaskNext]_allVars
    PROVE  TruthInv'
<1>0. /\ BaseInv /\ CallInv /\ WiredInOrder /\ MigratedInOrder /\ ReadInTime
      /\ DOMAIN seen = {"refused", "finished", "byHand", "crashes", "reruns"}
  BY DEF DeployInv, WiringInv, TruthInv, BaseInv
<1>1. seen'.crashes \in Nat
  <2>1. Step => seen'.crashes = seen.crashes
    BY <1>0, StepEffect DEF Throw, Advances
  <2>2. Crash => seen'.crashes = seen.crashes + 1
    BY <1>0 DEF Crash
  <2>3. Start \/ NextScript => seen'.crashes = seen.crashes
    BY <1>0 DEF Start, NextScript
  <2>4. seen'.crashes = seen.crashes \/ seen'.crashes = seen.crashes + 1
    BY <1>0, <2>1, <2>2, <2>3, NextKinds DEF vars, ScriptReturns, Mined, EnterMigration, Called
  <2> QED
    BY <2>4 DEF TruthInv
<1> QED
  BY <1>0, <1>1, NextInOrder, NextRead, NextRecording DEF TruthInv

LEMMA InitTruth == TaskInit => TruthInv
<1> SUFFICES ASSUME TaskInit
             PROVE  TruthInv
  OBVIOUS
<1>1. /\ job = Idle /\ seen.crashes = 0 /\ seen.finished = FALSE
      /\ network.name # "fork" => files.records = <<>>
  BY DEF TaskInit, Init
<1>2. job.pc = 0 /\ job.reached = 0
  BY <1>1, IdleJob
<1>3. network.name # "fork" => Contracts = {}
  BY <1>1 DEF Contracts
<1> QED
  BY <1>1, <1>2, <1>3 DEF TruthInv, MigratedInOrder, ReadInTime, Recording, SavedInTime

------------------------------------------------------------------------------
(* What is recorded too early is replaced *)

LEMMA Repairers ==
    ASSUME BaseInv, NEW i, NEW j, NEW n, <<i, j, n>> \in RepairedBy
    PROVE  /\ i \in 1 .. Len(Scripts) /\ j \in 1 .. Len(Scripts) /\ i \in Nat /\ j \in Nat /\ i < j
           /\ Alone(i, Scripts[i].id) /\ Alone(j, Scripts[j].id)
           /\ Scripts[i].migrates /\ Scripts[i].skip = FALSE
           /\ Len(Scripts[j].steps) \in {2, 3, 4} /\ network.name # "fork"
           /\ <<i, n>> \in RenewedBy /\ n \in ProxyNames
           /\ \/ network.name = "mainnet" /\ j = 17 /\ n = "FuelMessagePortal"
              \/ Replaces = 11 /\ j = 11 /\ n = "FuelChainState"
              \/ <<j, n>> \in RenewedBy
<1>1. /\ <<i, n>> \in RenewedBy /\ i \in Nat /\ j \in Nat /\ i < j /\ network.name # "fork"
      /\ \/ network.name = "mainnet" /\ j = 17 /\ n = "FuelMessagePortal"
         \/ network.name = "testnet" /\ j = 11 /\ n = "FuelChainState"
         \/ <<j, n>> \in RenewedBy
  BY DEF RepairedBy, RenewedBy
<1>2. Renewer(i, n)
  BY <1>1, TheWiring DEF Wiring
<1>3. CASE network.name = "mainnet" /\ j = 17 /\ n = "FuelMessagePortal"
  <2>1. Scripts[17] = Mainnet!Scripts[17] /\ Len(Scripts) = 21
    BY <1>3, MainnetLength DEF Scripts, ScriptsOf
  <2>2. Scripts[17].id = MainnetIds[17] /\ Len(Scripts[17].steps) = 2
    BY <2>1, MainnetScripts DEF AsListed, StepCount
  <2>3. Alone(17, Scripts[17].id)
    BY <1>3, <2>2, MainnetAlone
  <2> QED
    BY <1>1, <1>2, <1>3, <2>1, <2>2, <2>3 DEF Renewer, Renewed
<1>4. CASE network.name = "testnet" /\ j = 11 /\ n = "FuelChainState"
  <2>1. Replaces = 11 /\ <<11, "FuelChainState">> \in MadeBy
    BY <1>4 DEF Replaces, MadeBy
  <2>2. Maker(11, "FuelChainState")
    BY <1>4, <2>1, TheWiring DEF Wiring
  <2> QED
    BY <1>1, <1>2, <1>4, <2>1, <2>2 DEF Renewer, Renewed, Maker, Made
<1>5. CASE <<j, n>> \in RenewedBy
  <2>1. Renewer(j, n)
    BY <1>5, TheWiring DEF Wiring
  <2> QED
    BY <1>1, <1>2, <1>5, <2>1 DEF Renewer, Renewed
<1> QED
  BY <1>1, <1>3, <1>4, <1>5

\* The script that replaces the record does so in its last step.
LEMMA RepairingStep ==
    ASSUME DeployInv, ReadInTime, Step, Advances,
           NEW i, NEW n, <<i, job.at, n>> \in RepairedBy, job.pc + 1 > Len(script.steps)
    PROVE  step.op \in {"save", "savePrepared"} /\ step.name = n
<1>0. /\ BaseInv /\ JobInv /\ script = Scripts[job.at] /\ step = script.steps[job.pc]
      /\ job.pc \in Nat /\ job.pc > 0
  BY DEF DeployInv, BaseInv, script, step, Step, InScript
<1>1. CASE network.name = "mainnet" /\ job.at = 17 /\ n = "FuelMessagePortal"
  <2>1. /\ job.pc \in 1 .. StepCount(17) /\ MainnetStep(17, job.pc, step) /\ StepCount(17) = 2
    BY <1>0, <1>1, TheStep DEF StepCount
  <2>2. Len(script.steps) = 2
    BY <1>0, <1>1, <2>1, TheScript DEF AsListed
  <2>3. job.pc = 2
    BY <1>0, <2>1, <2>2
  <2>4. SavesPrepared(17, 2, step)
    BY <2>1, <2>3 DEF MainnetStep, Deploys, Saves, SavedIn, Upgrades, Prepares, Grants,
        HandsOver, SetsUp, SavesBridge, Renounces, Proposes, ProposesUpgrade
  <2> QED
    BY <1>1, <2>4 DEF SavesPrepared, PreparedIn
<1>2. CASE Replaces = 11 /\ job.at = 11 /\ n = "FuelChainState"
  <2>0. Replaces > 0
    BY <1>2
  <2>1. Len(script.steps) = 2 /\ script.steps[2].op = "save" /\ script.steps[2].name = n
    BY <1>0, <1>2, <2>0, ReplacingScripts
  <2>2. job.pc = 2
    BY <1>0, <2>1 DEF Step
  <2> QED
    BY <1>0, <2>1, <2>2
<1>3. CASE <<job.at, n>> \in RenewedBy
  BY <1>3, LastStep DEF Upgraders
<1> QED
  BY <1>0, <1>1, <1>2, <1>3, Repairers

LEMMA NextRepair ==
    ASSUME DeployInv, WiringInv, TruthInv, RepairInv, [TaskNext]_allVars
    PROVE  RepairInv'
<1>0. /\ BaseInv /\ CallInv /\ JobInv /\ WiredInOrder /\ MigratedInOrder /\ ReadInTime
      /\ job.pc \in Nat
      /\ DOMAIN files = {"records", "migrations", "addresses"}
  BY DEF DeployInv, BaseInv, WiringInv, TruthInv
<1>1. Scripts' = Scripts /\ network' = network /\ RepairedBy' = RepairedBy
  BY <1>0, Fixed DEF RepairedBy
<1> SUFFICES ASSUME ~seen'.byHand, NEW i, NEW j, NEW n, <<i, j, n>> \in RepairedBy
             PROVE  Repaired(i, j, n)'
  BY <1>1 DEF RepairInv
<1>2. /\ ~seen.byHand /\ \A id \in seen.refused : ~EnterMigration(id)
      /\ Repaired(i, j, n)
  BY <1>0, NotByHand DEF RepairInv
<1>3. /\ i \in 1 .. Len(Scripts) /\ j \in 1 .. Len(Scripts) /\ i \in Nat /\ j \in Nat /\ i < j
      /\ Alone(i, Scripts[i].id) /\ Alone(j, Scripts[j].id)
      /\ Scripts[i].migrates /\ Scripts[i].skip = FALSE
      /\ Len(Scripts[j].steps) \in {2, 3, 4} /\ <<i, n>> \in RenewedBy
  BY <1>0, Repairers
\* Script j is entered when it returns, and no earlier script is left then.
<1>4. \/ files'.migrations = files.migrations
      \/ /\ ScriptReturns /\ job.at \in 1 .. Len(Scripts) /\ job.pc > 0
         /\ script = Scripts[job.at] /\ job.pc > Len(script.steps)
         /\ files'.migrations \in {files.migrations, files.migrations \union {script.id}}
  <2>1. CASE ScriptReturns
    BY <1>0, <2>1 DEF ScriptReturns, InScript, JobInv, script
  <2>2. CASE Step
    BY <1>0, <2>2, StepEffect DEF Throw, Advances
  <2> QED
    BY <1>0, <1>2, <2>1, <2>2, NextKinds, NextEffect DEF vars, Start, Mined, Crash, Called
<1>5. Entered(i) => Entered(i)'
  BY <1>1, <1>4 DEF Entered
<1>6. Entered(j)' => Entered(j) \/ (ScriptReturns /\ job.at = j /\ job.pc > 0 /\ job.pc > Len(script.steps))
  BY <1>1, <1>3, <1>4 DEF Entered, Alone
<1>7. Entered(j)' => Entered(i)'
  <2>1. ASSUME job.at = j, job.pc > 0
        PROVE  Entered(i)
    <3>1. i < job.reached
      BY <1>0, <1>3, <2>1 DEF WiredInOrder
    <3> QED
      BY <1>0, <1>3, <3>1 DEF MigratedInOrder
  <2> QED
    BY <1>2, <1>5, <1>6, <2>1 DEF Repaired
<1>8. ASSUME NEW m \in Contracts', files'.records[m].script = Scripts[i].id
      PROVE  m = n /\ ~Entered(j)' /\ ~(job'.at = j /\ job'.pc > Len(script'.steps))
  <2>0. m \in DOMAIN files'.records /\ files'.records[m].address > 0
    BY <1>8 DEF Contracts, Address
  <2>1. CASE Step /\ Advances
    <3>0. /\ script' = script /\ job'.at = job.at /\ job'.pc = job.pc + 1 /\ job.pc > 0
          /\ Entered(j)' <=> Entered(j)
          /\ job.at \in 1 .. Len(Scripts) /\ script = Scripts[job.at]
      BY <1>0, <1>1, <2>1 DEF Advances, Step, InScript, script, Entered, JobInv
    <3>1. CASE step.op \in {"save", "savePrepared"} /\ step.name = m
      <4>1. files'.records[m].script = script.id
        BY <1>0, <2>1, <3>1, SavedTruth
      <4>2. job.at = i
        BY <1>3, <1>8, <3>0, <4>1 DEF Alone
      <4>3. Renewing(step, n) \/ step.op = "upgradeProxy"
        BY <1>3, <2>1, <4>2, WiringStep
      <4>4. step.name = n
        BY <3>1, <4>3 DEF Renewing
      <4>5. ~Entered(i)
        BY <1>0, <3>0, <4>2 DEF WiredInOrder
      <4> QED
        BY <1>2, <1>3, <3>0, <3>1, <4>2, <4>4, <4>5 DEF Repaired
    <3>2. CASE ~(step.op \in {"save", "savePrepared"} /\ step.name = m)
      <4>1. m \in DOMAIN files.records /\ files'.records[m] = files.records[m]
        BY <1>0, <2>0, <2>1, <3>2, SavedTruth, RecordsUnsaved
      <4>2. m \in Contracts
        BY <2>0, <4>1 DEF Contracts, Address
      <4>3. m = n /\ ~Entered(j)
        BY <1>2, <1>8, <4>1, <4>2 DEF Repaired
      <4>4. ASSUME job.at = j, job.pc + 1 > Len(script.steps)
            PROVE  FALSE
        <5>1. step.op \in {"save", "savePrepared"} /\ step.name = n
          BY <1>0, <2>1, <4>4, RepairingStep
        <5> QED
          BY <3>2, <4>3, <5>1
      <4> QED
        BY <3>0, <4>3, <4>4
    <3> QED
      BY <3>1, <3>2
  <2>2. CASE ~(Step /\ Advances)
    <3>1. files'.records = files.records
      BY <1>0, <2>2, NextKinds, StepEffect, NextEffect DEF Start, ScriptReturns, Mined, Crash,
          EnterMigration, Called, vars, Throw
    <3>2. m \in Contracts
      BY <2>0, <3>1 DEF Contracts, Address
    <3>3. m = n /\ ~Entered(j) /\ ~(job.at = j /\ job.pc > Len(script.steps))
      BY <1>2, <1>8, <3>1, <3>2 DEF Repaired
    <3>4. ASSUME job'.at = j, job'.pc > Len(script'.steps)
          PROVE  FALSE
      <4>1. script' = Scripts[j]
        BY <1>1, <3>4 DEF script
      <4>2. job'.pc \notin {0, 1}
        <5>1. Len(script'.steps) \in {2, 3, 4}
          BY <1>3, <4>1
        <5>2. job'.pc > Len(script'.steps)
          BY <3>4
        <5>3. ~(0 > Len(script'.steps)) /\ ~(1 > Len(script'.steps))
          BY <5>1
        <5> QED
          BY <5>2, <5>3
      <4>3. UNCHANGED job
        <5>1. ~Start /\ ~ScriptReturns /\ ~Crash
          BY <1>0, <4>2, IdleJob DEF Start, ScriptReturns, Crash
        <5>2. ~NextScript
          BY <1>0, <4>2, NextEffect, IdleJob
        <5>3. ~Step
          BY <1>0, <2>2, <4>2, StepEffect, IdleJob DEF Throw
        <5> QED
          BY <1>0, <1>2, <5>1, <5>2, <5>3, NextKinds DEF Mined, Called, vars
      <4>4. script' = script
        BY <1>1, <4>3 DEF script
      <4> QED
        BY <3>3, <3>4, <4>3, <4>4
    <3> QED
      BY <1>6, <3>3, <3>4
  <2> QED
    BY <2>1, <2>2
<1> QED
  BY <1>1, <1>7, <1>8 DEF Repaired

\* No record outlasts the scripts that Repairs names.
LEMMA RepairedInTime ==
    ASSUME BaseInv, RepairInv, ~seen.byHand, NEW n \in Contracts
    PROVE  files.records[n].script \in ReadTooEarly =>
             Repairs(files.records[n].script) \intersect files.migrations = {}
<1> DEFINE s == files.records[n].script
<1> SUFFICES ASSUME s \in ReadTooEarly, NEW q \in Repairs(s), q \in files.migrations
             PROVE  FALSE
  OBVIOUS
<1> HIDE DEF s
<1>1. ASSUME NEW i, NEW j, NEW m, <<i, j, m>> \in RepairedBy, Scripts[i].id = s, Scripts[j].id = q
      PROVE  FALSE
  BY <1>1 DEF RepairInv, Repaired, Entered, s
<1>2. CASE network.name = "mainnet"
  <2>1. s = MainnetIds[6] /\ q = MainnetIds[17] /\ <<6, 17, "FuelMessagePortal">> \in RepairedBy
    BY <1>2 DEF ReadTooEarly, Repairs, MainnetIds, RepairedBy
  <2>2. Scripts = Mainnet!Scripts
    BY <1>2 DEF Scripts, ScriptsOf
  <2>3. Scripts[6].id = MainnetIds[6] /\ Scripts[17].id = MainnetIds[17]
    BY <2>2, MainnetScripts DEF AsListed
  <2> QED
    BY <1>1, <2>1, <2>3
<1>3. CASE network.name = "testnet"
  <2>1. Scripts = Testnet!Scripts
    BY <1>3 DEF Scripts, ScriptsOf
  <2>2. /\ Scripts[3].id = "portal_upgrade" /\ Scripts[7].id = "state_upgrade"
        /\ Scripts[10].id = "state_upgrade_2" /\ Scripts[11].id = "chain_state_redeploy"
        /\ Scripts[13].id = "portal_upgrade_2"
    BY <2>1 DEF Testnet!Scripts, Testnet!portal_upgrade, Testnet!state_upgrade,
        Testnet!state_upgrade_2, Testnet!chain_state_redeploy, Testnet!portal_upgrade_2,
        Testnet!Script
  <2>3. /\ <<3, 13, "FuelMessagePortal">> \in RepairedBy
        /\ <<7, 11, "FuelChainState">> \in RepairedBy
        /\ <<10, 11, "FuelChainState">> \in RepairedBy
    BY <1>3 DEF RepairedBy
  <2>4. \/ s = "portal_upgrade" /\ q = "portal_upgrade_2"
        \/ s \in {"state_upgrade", "state_upgrade_2"} /\ q = "chain_state_redeploy"
    BY <1>3 DEF ReadTooEarly, Repairs
  <2> QED
    BY <1>1, <2>2, <2>3, <2>4
<1> QED
  BY <1>2, <1>3 DEF Repairs

LEMMA InitRepair == TaskInit => RepairInv
<1> SUFFICES ASSUME TaskInit, NEW i, NEW j, NEW n, <<i, j, n>> \in RepairedBy
             PROVE  Repaired(i, j, n)
  BY DEF RepairInv
<1>1. network.name # "fork"
  BY DEF RepairedBy
<1>2. files.records = <<>> /\ files.migrations = {}
  BY <1>1 DEF TaskInit, Init
<1> QED
  BY <1>2 DEF Repaired, Entered, Contracts

\* But on a fork, and unless the operator enters scripts by hand: when no run is at a
\* script, and one has come to its end or none was cut short, every record names the
\* implementation behind its proxy, except the records of scripts that do not wait
\* for their upgrade, until another script has replaced them, and of upgrades left to
\* the multisig.
THEOREM RecordsTruthfulThroughout == TaskSpec => []RecordTruthful
<1>1. LinkingInv /\ WiringInv /\ TruthInv /\ RepairInv /\ [TaskNext]_allVars
        => (LinkingInv /\ WiringInv /\ TruthInv /\ RepairInv)'
  BY NextLinking, NextWiring, NextTruth, NextRepair DEF LinkingInv
<1>2. ASSUME DeployInv, TruthInv, RepairInv
      PROVE  RecordTruthful
  <2> SUFFICES ASSUME ~InScript, ~seen.byHand, network.name # "fork", NEW n \in Contracts,
                      seen.finished \/ (seen.crashes = 0 /\ seen.refused = {})
               PROVE  LET r == files.records[n] IN
                      \/ r.implementation = Contract(n).implementation
                      \/ r.prepared
                      \/ /\ r.script \in ReadTooEarly
                         /\ Repairs(r.script) \intersect files.migrations = {}
    BY DEF RecordTruthful
  <2>1. ~Begun(n)
    <3> SUFFICES ASSUME NEW i \in 1 .. Len(Scripts), <<i, n>> \in Upgraders, ~Entered(i),
                        seen.crashes # 0 \/ seen.refused # {} \/ (job.at = i /\ job.pc > 1)
                 PROVE  FALSE
      BY DEF Begun
    <3>1. ~(job.pc > 1)
      BY <1>2 DEF InScript, DeployInv, BaseInv
    <3>2. seen.finished
      BY <3>1
    <3>3. Scripts[i].migrates /\ Scripts[i].skip = FALSE
      BY <1>2, TheUpgraders DEF DeployInv
    <3> QED
      BY <1>2, <3>2, <3>3 DEF TruthInv, MigratedInOrder
  <2>2. Truthful(n)
    BY <1>2, <2>1 DEF TruthInv, Recording
  <2>3. files.records[n].script \in ReadTooEarly =>
            Repairs(files.records[n].script) \intersect files.migrations = {}
    <3>1. BaseInv
      BY <1>2 DEF DeployInv
    <3> QED
      BY <1>2, <3>1, RepairedInTime
  <2> QED
    BY <2>2, <2>3 DEF Truthful
<1> QED
  BY <1>1, <1>2, InitLinking, InitWiring, InitTruth, InitRepair, PTL DEF TaskSpec, LinkingInv
=============================================================================
