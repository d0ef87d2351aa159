------------------------ MODULE MessagePortalProofs -------------------------
(***************************************************************************)
(* Proofs about the portal for every set of messages, every amount, every  *)
(* root and history, every number of chain states, and without bound on    *)
(* what recipients do while they run.                                      *)
(*                                                                         *)
(* The safety properties speak of the storage at every step, inside a      *)
(* relay too, while a failing relay brings back the storage from before    *)
(* it.  The inductive invariant therefore says of the saved storage what   *)
(* it says of the current one, and how far the two may be apart while the  *)
(* recipient runs.                                                         *)
(*                                                                         *)
(* That the limiter counts what it should is an invariant on top of it     *)
(* (CountInv): the withdrawals of the period are a sum over the messages,  *)
(* of which a relay changes one.                                           *)
(***************************************************************************)
EXTENDS MessagePortal, SumTheorems, TLAPS

\* The books of a storage p balance.
Balanced(p) ==
    /\ p.totalDeposited = Precision * (p.sentToFuel - p.paidOut)
    /\ p.balance >= p.totalDeposited

\* No message is being executed in p.
Settled(p) ==
    /\ p.messageSender = NullSender
    /\ \A m \in Messages : p.executions[m] = IF m \in p.successful THEN 1 ELSE 0

\* How the storage p, in which message m is being executed, differs from the
\* storage q before its relay.  Deposits may come in, nothing else goes out.
Executing(p, q, m) ==
    /\ m \notin q.successful
    /\ Withdrawn(m) <= q.totalDeposited
    /\ p.messageSender = Sender[m]
    /\ p.successful = q.successful
    /\ p.executions = [q.executions EXCEPT ![m] = 1]
    /\ p.totalDeposited >= q.totalDeposited - Withdrawn(m)

IInv ==
    /\ TypeOK
    /\ Balanced(portal)
    /\ ~InCall => Settled(portal)
    /\ InCall => /\ Settled(call.before)
                 /\ Balanced(call.before)
                 /\ Executing(portal, call.before, call.message)

\* The parts of a storage IInv speaks of, and the parts sending leaves alone.
SameRelays(p, q) ==
    /\ p.messageSender = q.messageSender
    /\ p.successful = q.successful
    /\ p.executions = q.executions

SameBooks(p, q) ==
    /\ p.totalDeposited = q.totalDeposited
    /\ p.balance = q.balance
    /\ p.sentToFuel = q.sentToFuel
    /\ p.paidOut = q.paidOut

-----------------------------------------------------------------------------
(* Values *)

LEMMA WithdrawnNat ==
    ASSUME NEW m \in Messages
    PROVE  Withdrawn(m) \in Nat /\ Amount[m] \in Nat
BY MessagesAssumption, PortalAssumption DEF Withdrawn

LEMMA CallTyped ==
    ASSUME TypeOK, InCall
    PROVE  call.message \in Messages /\ call.before \in Portals
<1>1. call # NoCall
  BY DEF InCall, NoCall
<1>2. call \in [running : {TRUE}, message : Messages, before : Portals]
  BY <1>1 DEF TypeOK
<1> QED
  BY <1>2

LEMMA LimitersClosed ==
    ASSUME NEW limiter \in Limiters, NEW n \in Nat, NEW d \in Nat, NEW t \in Nat
    PROVE  Reset(limiter, n, d, t) \in Limiters /\ Charge(limiter, n, d, t) \in Limiters
<1>1. t + d \in Nat /\ limiter.amount + n \in Nat
  BY DEF Limiters
<1>2. Reset(limiter, n, d, t) \in Limiters
  BY <1>1 DEF Reset, Limiters
<1>3. Charge(limiter, n, d, t) \in Limiters
  <2>1. CASE Ended(limiter, t)
    <3>1. Charge(limiter, n, d, t)
            = [amount |-> n, end |-> t + d, limit |-> limiter.limit]
      BY <2>1 DEF Charge, Limiters
    <3> QED
      BY <1>1, <3>1 DEF Limiters
  <2>2. CASE ~Ended(limiter, t)
    <3>1. Charge(limiter, n, d, t) = [amount |-> limiter.amount + n,
                                      end |-> limiter.end, limit |-> limiter.limit]
      BY <2>2 DEF Charge, Limiters
    <3> QED
      BY <1>1, <3>1 DEF Limiters
  <2> QED
    BY <2>1, <2>2
<1> QED
  BY <1>2, <1>3

-----------------------------------------------------------------------------
(* What each kind of step does to the storage *)

LEMMA AdministrationEffect ==
    ASSUME TypeOK, Administration
    PROVE  /\ portal' \in Portals
           /\ SameRelays(portal', portal) /\ SameBooks(portal', portal)
           /\ UNCHANGED call
<1> USE DEF SameRelays, SameBooks
<1>0. portal \in Portals
  BY DEF TypeOK
<1>1. CASE pause
  BY <1>0, <1>1 DEF pause, Portals
<1>2. CASE unpause
  BY <1>0, <1>2 DEF unpause, Portals
<1>3. CASE pauseWithdrawals
  BY <1>0, <1>3 DEF pauseWithdrawals, Portals
<1>4. CASE unpauseWithdrawals
  BY <1>0, <1>4 DEF unpauseWithdrawals, Portals
<1>5. ASSUME NEW m \in Messages, addMessageToBlacklist(m)
      PROVE  /\ portal' \in Portals
             /\ SameRelays(portal', portal) /\ SameBooks(portal', portal)
             /\ UNCHANGED call
  BY <1>0, <1>5 DEF addMessageToBlacklist, Portals
<1>6. ASSUME NEW m \in Messages, removeMessageFromBlacklist(m)
      PROVE  /\ portal' \in Portals
             /\ SameRelays(portal', portal) /\ SameBooks(portal', portal)
             /\ UNCHANGED call
  BY <1>0, <1>6 DEF removeMessageFromBlacklist, Portals
<1>7. ASSUME NEW value \in BOOLEAN, updateRateLimitStatus(value)
      PROVE  /\ portal' \in Portals
             /\ SameRelays(portal', portal) /\ SameBooks(portal', portal)
             /\ UNCHANGED call
  BY <1>0, <1>7 DEF updateRateLimitStatus, Portals
<1>8. ASSUME NEW newLimit \in Limits, resetRateLimitAmount(newLimit)
      PROVE  /\ portal' \in Portals
             /\ SameRelays(portal', portal) /\ SameBooks(portal', portal)
             /\ UNCHANGED call
  <2>1. portal.limiter \in Limiters
    BY <1>0 DEF Portals
  <2>2. newLimit \in Nat /\ RateLimitDuration \in Nat /\ now \in Nat
    BY PortalAssumption, PortalBounds DEF TypeOK
  <2>3. Reset(portal.limiter, newLimit, RateLimitDuration, now) \in Limiters
    BY <2>1, <2>2, LimitersClosed
  <2> QED
    BY <1>0, <1>8, <2>3 DEF resetRateLimitAmount, Portals
<1>9. ASSUME NEW c \in ChainStates, setFuelChainState(c)
      PROVE  /\ portal' \in Portals
             /\ SameRelays(portal', portal) /\ SameBooks(portal', portal)
             /\ UNCHANGED call
  BY <1>0, <1>9 DEF setFuelChainState, Portals
<1> QED
  BY <1>1, <1>2, <1>3, <1>4, <1>5, <1>6, <1>7, <1>8, <1>9 DEF Administration

LEMMA SendEffect ==
    ASSUME TypeOK, Balanced(portal),
           NEW value \in Nat, NEW size \in Nat, _sendOutgoingMessage(value, size)
    PROVE  /\ portal' \in Portals
           /\ SameRelays(portal', portal)
           /\ Balanced(portal')
           /\ portal'.totalDeposited >= portal.totalDeposited
           /\ UNCHANGED call
<1> DEFINE amount == value \div Precision
<1>1. /\ portal \in Portals
      /\ amount \in Nat /\ amount * Precision = value
  <2>1. amount \in Nat
    BY PortalAssumption
  <2> QED
    BY <2>1 DEF TypeOK, _sendOutgoingMessage, PrecisionCompatible
<1>2. /\ portal' = [portal EXCEPT
              !.totalDeposited = @ + value,
              !.balance = @ + value,
              !.nonce = @ + 1,
              !.sentToFuel = @ + amount]
      /\ UNCHANGED call
  BY DEF _sendOutgoingMessage
<1>3. /\ portal' \in Portals
      /\ portal'.totalDeposited = portal.totalDeposited + value
      /\ portal'.balance = portal.balance + value
      /\ portal'.sentToFuel = portal.sentToFuel + amount
      /\ portal'.paidOut = portal.paidOut
      /\ SameRelays(portal', portal)
  <2>1. /\ portal.totalDeposited + value \in Nat /\ portal.balance + value \in Nat
        /\ portal.nonce + 1 \in Nat /\ portal.sentToFuel + amount \in Nat
    BY <1>1 DEF Portals
  <2> QED
    BY <1>1, <1>2, <2>1 DEF Portals, SameRelays
<1>4. /\ portal.sentToFuel \in Nat /\ portal.paidOut \in Nat
      /\ portal.totalDeposited \in Nat /\ portal.balance \in Nat /\ Precision \in Nat
  BY <1>1, PortalAssumption DEF Portals
<1>5. Precision * ((portal.sentToFuel + amount) - portal.paidOut)
        = Precision * (portal.sentToFuel - portal.paidOut) + value
  BY <1>1, <1>4
<1> QED
  BY <1>2, <1>3, <1>4, <1>5 DEF Balanced

LEMMA ExecuteEffect ==
    ASSUME IInv, NEW m \in Messages, NEW value \in Nat, _executeMessage(m, value)
    PROVE  /\ portal' \in Portals
           /\ Balanced(portal')
           /\ Executing(portal', portal, m)
           /\ Settled(portal)
           /\ call' = CallTo(m)
<1>1. /\ portal \in Portals /\ now \in Nat /\ now <= MaxTime
      /\ Withdrawn(m) \in Nat /\ Amount[m] \in Nat
      /\ ~InCall /\ m \notin portal.successful
      /\ Withdrawn(m) <= portal.totalDeposited
      /\ Withdrawn(m) <= portal.balance + value
  BY WithdrawnNat, PortalBounds
     DEF IInv, TypeOK, _executeMessage, nonReentrant
<1>2. /\ portal' = [portal EXCEPT
              !.messageSender = Sender[m],
              !.totalDeposited = @ - Withdrawn(m),
              !.limiter = LimiterAfter(m),
              !.balance = @ + value - Withdrawn(m),
              !.executions[m] = @ + 1,
              !.chargedAt[m] = IF Limited(m) THEN now ELSE @,
              !.paidOut = @ + Amount[m]]
      /\ call' = CallTo(m)
  BY DEF _executeMessage
<1>3. Settled(portal) /\ Balanced(portal)
  BY <1>1 DEF IInv
<1>4. LimiterAfter(m) \in Limiters
  <2>1. portal.limiter \in Limiters /\ RateLimitDuration \in Nat
    BY <1>1, PortalAssumption DEF Portals
  <2>2. Charge(portal.limiter, Withdrawn(m), RateLimitDuration, now) \in Limiters
    BY <1>1, <2>1, LimitersClosed
  <2> QED
    BY <2>1, <2>2 DEF LimiterAfter
<1>5. /\ portal.totalDeposited - Withdrawn(m) \in Nat
      /\ portal.balance + value - Withdrawn(m) \in Nat
      /\ portal.paidOut + Amount[m] \in Nat
      /\ portal.executions \in [Messages -> Nat]
      /\ portal.chargedAt \in [Messages -> 0 .. MaxTime]
  BY <1>1 DEF Portals
<1>6. portal.executions[m] = 0
  BY <1>1, <1>3 DEF Settled
<1>7. /\ [portal.executions EXCEPT ![m] = @ + 1]
            = [portal.executions EXCEPT ![m] = 1]
      /\ [portal.executions EXCEPT ![m] = 1] \in [Messages -> Nat]
      /\ [portal.chargedAt EXCEPT ![m] = IF Limited(m) THEN now ELSE @]
            \in [Messages -> 0 .. MaxTime]
  BY <1>1, <1>5, <1>6
<1>8. /\ portal' \in Portals
      /\ portal'.messageSender = Sender[m]
      /\ portal'.successful = portal.successful
      /\ portal'.executions = [portal.executions EXCEPT ![m] = 1]
      /\ portal'.totalDeposited = portal.totalDeposited - Withdrawn(m)
      /\ portal'.balance = portal.balance + value - Withdrawn(m)
      /\ portal'.sentToFuel = portal.sentToFuel
      /\ portal'.paidOut = portal.paidOut + Amount[m]
  BY <1>1, <1>2, <1>4, <1>5, <1>7 DEF Portals
<1>9. Balanced(portal')
  <2>1. /\ portal.sentToFuel \in Nat /\ portal.paidOut \in Nat
        /\ portal.totalDeposited \in Nat /\ portal.balance \in Nat
        /\ Precision \in Nat
    BY <1>1, PortalAssumption DEF Portals
  <2>2. Precision * (portal.sentToFuel - (portal.paidOut + Amount[m]))
          = Precision * (portal.sentToFuel - portal.paidOut) - Withdrawn(m)
    BY <1>1, <2>1 DEF Withdrawn
  <2> QED
    BY <1>1, <1>3, <1>8, <2>1, <2>2 DEF Balanced
<1>10. Executing(portal', portal, m)
  BY <1>1, <1>5, <1>8 DEF Executing
<1> QED
  BY <1>2, <1>3, <1>8, <1>9, <1>10

-----------------------------------------------------------------------------
(* The invariant is inductive *)

LEMMA InitIInv ==
    ASSUME Init
    PROVE  IInv
<1>1. [amount |-> 0, end |-> GenesisTime + RateLimitDuration,
       limit |-> InitialLimit] \in Limiters
  BY PortalAssumption, PortalBounds DEF Limiters
<1>2. portal \in Portals
  BY <1>1, PortalAssumption, PortalBounds DEF Init, InitialPortal, Portals
<1>3. ~InCall /\ call \in {NoCall}
  BY DEF Init, InCall, NoCall
<1>4. TypeOK
  BY <1>2, <1>3, PortalBounds DEF Init, TypeOK
<1>5. Balanced(portal)
  BY PortalAssumption DEF Init, InitialPortal, Balanced
<1>6. Settled(portal)
  BY DEF Init, InitialPortal, Settled
<1> QED
  BY <1>3, <1>4, <1>5, <1>6 DEF IInv

\* A step that leaves the messages alone and only adds deposits.
LEMMA KeepsIInv ==
    ASSUME IInv, portal' \in Portals, SameRelays(portal', portal),
           Balanced(portal'), portal'.totalDeposited >= portal.totalDeposited,
           UNCHANGED <<call, now, finalizedRoots>>
    PROVE  IInv'
<1>1. TypeOK'
  BY DEF IInv, TypeOK
<1>2. InCall' = InCall
  BY DEF InCall
<1>3. ASSUME ~InCall
      PROVE  Settled(portal')
  BY <1>3 DEF IInv, Settled, SameRelays
<1>4. ASSUME InCall
      PROVE  Executing(portal', call.before, call.message)
  <2>1. /\ Executing(portal, call.before, call.message)
        /\ call.message \in Messages /\ call.before \in Portals
        /\ portal \in Portals
    BY <1>4, CallTyped DEF IInv, TypeOK
  <2>2. /\ portal'.totalDeposited \in Nat /\ portal.totalDeposited \in Nat
        /\ call.before.totalDeposited \in Nat /\ Withdrawn(call.message) \in Nat
    BY <2>1, WithdrawnNat DEF Portals
  <2> QED
    BY <2>1, <2>2 DEF Executing, SameRelays
<1> QED
  BY <1>1, <1>2, <1>3, <1>4 DEF IInv

LEMMA SucceedsIInv ==
    ASSUME IInv, callSucceeds, UNCHANGED <<now, finalizedRoots>>
    PROVE  IInv'
<1> DEFINE m == call.message
<1>1. /\ InCall /\ portal \in Portals /\ m \in Messages /\ call.before \in Portals
      /\ Settled(call.before) /\ Balanced(portal)
      /\ Executing(portal, call.before, m)
  BY CallTyped DEF IInv, TypeOK, callSucceeds
<1>2. /\ portal' = [portal EXCEPT !.messageSender = NullSender,
                                  !.successful = @ \union {m}]
      /\ call' = NoCall
  BY DEF callSucceeds
<1>3. /\ portal' \in Portals
      /\ portal'.messageSender = NullSender
      /\ portal'.successful = portal.successful \union {m}
      /\ portal'.executions = portal.executions
      /\ SameBooks(portal', portal)
  BY <1>1, <1>2 DEF Portals, SameBooks
<1>4. ~InCall' /\ TypeOK'
  BY <1>2, <1>3 DEF InCall, NoCall, IInv, TypeOK
<1>5. Settled(portal')
  <2>1. ASSUME NEW n \in Messages
        PROVE  portal'.executions[n] = IF n \in portal'.successful THEN 1 ELSE 0
    <3>1. call.before.executions \in [Messages -> Nat]
      BY <1>1 DEF Portals
    <3>2. portal.executions = [call.before.executions EXCEPT ![m] = 1]
      BY <1>1 DEF Executing
    <3>3. CASE n = m
      BY <1>1, <1>3, <3>1, <3>2, <3>3
    <3>4. CASE n # m
      <4>1. portal.executions[n] = call.before.executions[n]
        BY <3>1, <3>2, <3>4
      <4>2. n \in portal'.successful <=> n \in call.before.successful
        BY <1>1, <1>3, <3>4 DEF Executing
      <4> QED
        BY <1>1, <1>3, <4>1, <4>2 DEF Settled
    <3> QED
      BY <3>3, <3>4
  <2> QED
    BY <1>3, <2>1 DEF Settled
<1>6. Balanced(portal')
  BY <1>1, <1>3 DEF Balanced, SameBooks
<1> QED
  BY <1>4, <1>5, <1>6 DEF IInv

LEMMA FailsIInv ==
    ASSUME IInv, callFails, UNCHANGED <<now, finalizedRoots>>
    PROVE  IInv'
<1>1. /\ InCall /\ call.before \in Portals
      /\ Settled(call.before) /\ Balanced(call.before)
      /\ portal' = call.before /\ call' = NoCall
  BY CallTyped DEF IInv, callFails
<1>2. ~InCall' /\ TypeOK'
  BY <1>1 DEF InCall, NoCall, IInv, TypeOK
<1> QED
  BY <1>1, <1>2 DEF IInv

LEMMA ExecuteIInv ==
    ASSUME IInv, NEW m \in Messages, NEW value \in Nat, _executeMessage(m, value),
           UNCHANGED <<now, finalizedRoots>>
    PROVE  IInv'
<1>1. /\ portal' \in Portals /\ Balanced(portal')
      /\ Executing(portal', portal, m) /\ Settled(portal) /\ Balanced(portal)
      /\ call' = [running |-> TRUE, message |-> m, before |-> portal]
      /\ portal \in Portals
  BY ExecuteEffect DEF IInv, TypeOK, CallTo
<1>2. /\ InCall' /\ TypeOK'
      /\ call'.message = m /\ call'.before = portal
  BY <1>1 DEF InCall, IInv, TypeOK
<1> QED
  BY <1>1, <1>2 DEF IInv

LEMMA NextIInv ==
    ASSUME IInv, [Next]_vars
    PROVE  IInv'
<1>1. ASSUME NEW value \in DepositValues, NEW size \in DataSizes \union {0},
             _sendOutgoingMessage(value, size), UNCHANGED <<now, finalizedRoots>>
      PROVE  IInv'
  <2>1. value \in Nat /\ size \in Nat
    BY PortalAssumption
  <2> QED
    BY <1>1, <2>1, SendEffect, KeepsIInv DEF IInv
<1>2. CASE ToFuel /\ UNCHANGED <<now, finalizedRoots>>
  BY <1>1, <1>2 DEF ToFuel, sendMessage, depositETH
<1>3. CASE FromFuel /\ UNCHANGED <<now, finalizedRoots>>
  <2>1. ASSUME NEW m \in Messages, NEW value \in RelayValues,
               _executeMessage(m, value)
        PROVE  IInv'
    <3>1. value \in Nat
      BY PortalAssumption
    <3> QED
      BY <1>3, <2>1, <3>1, ExecuteIInv
  <2> QED
    BY <1>3, <2>1, SucceedsIInv, FailsIInv DEF FromFuel, relayMessage
<1>4. CASE Administration /\ UNCHANGED <<now, finalizedRoots>>
  <2>1. /\ portal' \in Portals /\ portal \in Portals
        /\ SameRelays(portal', portal) /\ SameBooks(portal', portal)
        /\ UNCHANGED call
    BY <1>4, AdministrationEffect DEF IInv, TypeOK
  <2>2. Balanced(portal') /\ portal'.totalDeposited >= portal.totalDeposited
    BY <2>1 DEF IInv, Balanced, SameBooks, Portals
  <2> QED
    BY <1>4, <2>1, <2>2, KeepsIInv
<1>5. ASSUME UNCHANGED <<portal, call>>,
             now' \in GenesisTime .. MaxTime,
             finalizedRoots' \in [ChainStates -> SUBSET Roots]
      PROVE  IInv'
  BY <1>5 DEF IInv, TypeOK, InCall
<1>6. CASE Tick
  <2>1. /\ now \in GenesisTime .. MaxTime
        /\ finalizedRoots \in [ChainStates -> SUBSET Roots]
    BY DEF IInv, TypeOK
  <2>2. now' \in GenesisTime .. MaxTime
    BY <1>6, <2>1, PortalBounds DEF Tick
  <2> QED
    BY <1>5, <1>6, <2>1, <2>2 DEF Tick
<1>7. CASE ChainStateMoves
  BY <1>5, <1>7 DEF ChainStateMoves, IInv, TypeOK
<1>8. CASE UNCHANGED vars
  BY <1>5, <1>8 DEF vars, IInv, TypeOK
<1> QED
  BY <1>2, <1>3, <1>4, <1>6, <1>7, <1>8 DEF Next, PortalStep

-----------------------------------------------------------------------------
(* The theorems *)

\* No counter of the portal underflows and its storage keeps its shape.
THEOREM TypeCorrect == Spec => []TypeOK
<1>1. IInv => TypeOK
  BY DEF IInv
<1> QED
  BY <1>1, InitIInv, NextIInv, PTL DEF Spec

\* relayMessage() executes a message at most once, whatever its recipient does
\* while it runs and whichever chain states the portal is pointed at.
THEOREM NoDoubleExecution == Spec => []ExecutedOnce
<1>1. ASSUME IInv
      PROVE  ExecutedOnce
  <2> SUFFICES ASSUME NEW m \in Messages
               PROVE  portal.executions[m] =
                        IF m \in portal.successful \/ (InCall /\ call.message = m)
                        THEN 1 ELSE 0
    BY DEF ExecutedOnce
  <2>1. CASE ~InCall
    BY <1>1, <2>1 DEF IInv, Settled
  <2>2. CASE InCall
    <3>1. /\ call.before.executions \in [Messages -> Nat]
          /\ portal.executions = [call.before.executions EXCEPT ![call.message] = 1]
          /\ portal.successful = call.before.successful
          /\ Settled(call.before)
      BY <1>1, <2>2, CallTyped DEF IInv, Executing, Portals
    <3>2. CASE m = call.message
      BY <2>2, <3>1, <3>2
    <3>3. CASE m # call.message
      BY <2>2, <3>1, <3>3 DEF Settled
    <3> QED
      BY <3>2, <3>3
  <2> QED
    BY <2>1, <2>2
<1> QED
  BY <1>1, InitIInv, NextIInv, PTL DEF Spec

\* totalDeposited is what went to Fuel less what came back, at every step.
THEOREM BooksBalance == Spec => []EthAccounted
<1>1. IInv => EthAccounted
  BY DEF IInv, Balanced, EthAccounted
<1> QED
  BY <1>1, InitIInv, NextIInv, PTL DEF Spec

\* The portal can pay every withdrawal its books allow.
THEOREM AlwaysSolvent == Spec => []Solvent
<1>1. IInv => Solvent
  BY DEF IInv, Balanced, Solvent
<1> QED
  BY <1>1, InitIInv, NextIInv, PTL DEF Spec

\* messageSender() answers only while the message it speaks of is executed.
THEOREM SenderScoped == Spec => []SenderOnlyDuringCall
<1>1. IInv => SenderOnlyDuringCall
  BY DEF IInv, Settled, Executing, SenderOnlyDuringCall
<1> QED
  BY <1>1, InitIInv, NextIInv, PTL DEF Spec

-----------------------------------------------------------------------------
(* What the limiter counted *)

\* The limiter of the storage p at a time: its amount is the sum of what it
\* counted, its period began already, nothing was counted after its end, and
\* what was counted was executed, so that it is not counted again.
Counted(p, time) ==
    /\ p.limiter.amount = SumFunctionOnSet(Worths, CountedInPeriod(p))
    /\ p.limiter.end <= time + RateLimitDuration
    /\ \A m \in Messages : /\ p.chargedAt[m] <= p.limiter.end
                           /\ p.chargedAt[m] # 0 => p.executions[m] # 0

CountInv ==
    /\ IInv
    /\ Counted(portal, now)
    /\ InCall => Counted(call.before, now)

\* The parts of a storage Counted speaks of.
SameCount(p, q) ==
    /\ p.limiter.amount = q.limiter.amount
    /\ p.limiter.end = q.limiter.end
    /\ p.chargedAt = q.chargedAt
    /\ \A m \in Messages : q.executions[m] # 0 => p.executions[m] # 0

LEMMA StorageParts ==
    ASSUME NEW p \in Portals
    PROVE  /\ p.limiter \in Limiters
           /\ p.limiter.amount \in Nat /\ p.limiter.end \in Nat
           /\ p.chargedAt \in [Messages -> 0 .. MaxTime]
           /\ \A m \in Messages : p.chargedAt[m] \in Nat
           /\ p.executions \in [Messages -> Nat]
<1>1. p.limiter \in Limiters /\ p.chargedAt \in [Messages -> 0 .. MaxTime]
      /\ p.executions \in [Messages -> Nat]
  BY DEF Portals
<1> QED
  BY <1>1, PortalBounds DEF Limiters

LEMMA Durations == RateLimitDuration \in Nat /\ GenesisTime \in Nat \ {0}
BY PortalAssumption, PortalBounds

LEMMA NowNat ==
    ASSUME TypeOK
    PROVE  now \in Nat \ {0}
<1>1. now \in GenesisTime .. MaxTime
  BY DEF TypeOK
<1> QED
  BY <1>1, PortalBounds

LEMMA CountsAreFinite ==
    ASSUME NEW p
    PROVE  /\ IsFiniteSet(CountedInPeriod(p))
           /\ CountedInPeriod(p) \subseteq Messages
           /\ \A m \in Messages : Worths[m] = Withdrawn(m) /\ Worths[m] \in Int
<1>1. CountedInPeriod(p) \subseteq Messages
  BY DEF CountedInPeriod
<1>2. \A m \in Messages : Worths[m] = Withdrawn(m) /\ Worths[m] \in Int
  BY WithdrawnNat DEF Worths
<1> QED
  BY <1>1, <1>2, MessagesAssumption, FS_Subset

LEMMA CountedStays ==
    ASSUME NEW p \in Portals, NEW q, NEW t \in Nat, NEW u \in Nat, t <= u,
           Counted(p, t), SameCount(q, p)
    PROVE  Counted(q, u)
<1>1. CountedInPeriod(q) = CountedInPeriod(p)
  BY DEF CountedInPeriod, SameCount
<1>2. p.limiter.end <= u + RateLimitDuration
  <2>1. p.limiter.end \in Nat /\ p.limiter.end <= t + RateLimitDuration
    BY StorageParts DEF Counted
  <2> QED
    BY <2>1, Durations
<1> QED
  BY <1>1, <1>2 DEF Counted, SameCount

\* When a period has ended, everything counted so far was counted before now.
LEMMA CountedBefore ==
    ASSUME NEW p \in Portals, NEW t \in Nat, Counted(p, t), Ended(p.limiter, t),
           NEW m \in Messages
    PROVE  p.chargedAt[m] < t
<1>1. /\ p.chargedAt[m] \in Nat /\ p.limiter.end \in Nat
      /\ p.chargedAt[m] <= p.limiter.end /\ p.limiter.end < t
  BY StorageParts DEF Counted, Ended
<1> QED
  BY <1>1

LEMMA ResetCounts ==
    ASSUME NEW p \in Portals, NEW q, NEW t \in Nat, NEW limit \in Nat, Counted(p, t),
           q.limiter = Reset(p.limiter, limit, RateLimitDuration, t),
           q.chargedAt = p.chargedAt, q.executions = p.executions
    PROVE  Counted(q, t)
<1>0. p.limiter \in Limiters
  BY StorageParts
<1>1. CASE Ended(p.limiter, t)
  <2>1. q.limiter.amount = 0 /\ q.limiter.end = t + RateLimitDuration
    BY <1>1 DEF Reset
  <2>2. q.limiter.end - RateLimitDuration = t
    BY <2>1, Durations
  <2>3. \A m \in Messages : p.chargedAt[m] < t /\ p.chargedAt[m] \in Nat
    BY <1>1, CountedBefore, StorageParts
  <2>4. CountedInPeriod(q) = {}
    BY <2>2, <2>3 DEF CountedInPeriod
  <2>5. \A m \in Messages : q.chargedAt[m] <= q.limiter.end
    BY <2>1, <2>3, Durations
  <2>6. q.limiter.end <= t + RateLimitDuration
    BY <2>1, Durations
  <2> QED
    BY <2>1, <2>4, <2>5, <2>6, SumEmpty DEF Counted
<1>2. CASE ~Ended(p.limiter, t)
  <2>1. q.limiter.amount = p.limiter.amount /\ q.limiter.end = p.limiter.end
    BY <1>0, <1>2 DEF Reset, Limiters
  <2>2. SameCount(q, p)
    BY <2>1 DEF SameCount
  <2> QED
    BY <2>2, CountedStays
<1> QED
  BY <1>1, <1>2

\* The storage q is p with the message m executed and counted at time t.
ChargedTo(q, p, m, t) ==
    /\ q.limiter = Charge(p.limiter, Withdrawn(m), RateLimitDuration, t)
    /\ q.chargedAt = [p.chargedAt EXCEPT ![m] = t]
    /\ q.executions = [p.executions EXCEPT ![m] = 1]

LEMMA ChargeCounts ==
    ASSUME NEW p \in Portals, NEW q, NEW t \in Nat \ {0}, NEW m \in Messages,
           Counted(p, t), p.executions[m] = 0, ChargedTo(q, p, m, t)
    PROVE  Counted(q, t)
<1>0. /\ p.limiter \in Limiters
      /\ p.limiter.amount \in Nat /\ p.limiter.end \in Nat
      /\ p.limiter.end <= t + RateLimitDuration
      /\ p.chargedAt[m] = 0
      /\ \A n \in Messages : p.chargedAt[n] \in Nat
      /\ Withdrawn(m) \in Nat
  BY StorageParts, WithdrawnNat DEF Counted
<1>1. /\ q.chargedAt[m] = t /\ q.executions[m] # 0
      /\ \A n \in Messages \ {m} : /\ q.chargedAt[n] = p.chargedAt[n]
                                   /\ q.executions[n] = p.executions[n]
  BY StorageParts DEF ChargedTo
<1>2. \A n \in Messages : q.chargedAt[n] # 0 => q.executions[n] # 0
  BY <1>1 DEF Counted
<1>3. CASE Ended(p.limiter, t)
  <2>1. q.limiter.amount = Withdrawn(m) /\ q.limiter.end = t + RateLimitDuration
    BY <1>0, <1>3 DEF ChargedTo, Charge, Limiters
  <2>2. q.limiter.end - RateLimitDuration = t /\ t <= q.limiter.end
        /\ q.limiter.end <= t + RateLimitDuration
    BY <2>1, Durations
  <2>3. \A n \in Messages : p.chargedAt[n] < t
    BY <1>3, CountedBefore
  <2>4. \A n \in Messages \ {m} : ~(q.chargedAt[n] >= t) /\ q.chargedAt[n] <= q.limiter.end
    <3> SUFFICES ASSUME NEW n \in Messages \ {m}
                 PROVE  ~(q.chargedAt[n] >= t) /\ q.chargedAt[n] <= q.limiter.end
      OBVIOUS
    <3>1. q.chargedAt[n] \in Nat /\ q.chargedAt[n] < t
      BY <1>0, <1>1, <2>3
    <3> QED
      BY <2>1, <3>1, Durations
  <2>5. CountedInPeriod(q) = {m}
    BY <1>1, <2>2, <2>4 DEF CountedInPeriod
  <2>6. SumFunctionOnSet(Worths, {m}) = Withdrawn(m)
    <3>1. SumFunctionOnSet(Worths, {} \union {m}) = Worths[m] + SumFunctionOnSet(Worths, {})
      BY CountsAreFinite, SumAdd, FS_EmptySet
    <3>2. {} \union {m} = {m} /\ SumFunctionOnSet(Worths, {}) = 0
      BY SumEmpty
    <3> QED
      BY <1>0, <3>1, <3>2, CountsAreFinite
  <2> QED
    BY <1>1, <1>2, <2>1, <2>2, <2>4, <2>5, <2>6 DEF Counted
<1>4. CASE ~Ended(p.limiter, t)
  <2>1. /\ q.limiter.amount = p.limiter.amount + Withdrawn(m)
        /\ q.limiter.end = p.limiter.end
    BY <1>0, <1>4 DEF ChargedTo, Charge, Limiters
  <2>2. t <= p.limiter.end /\ t >= p.limiter.end - RateLimitDuration
    BY <1>0, <1>4, Durations DEF Ended
  <2>3. CountedInPeriod(q) = CountedInPeriod(p) \union {m} /\ m \notin CountedInPeriod(p)
    BY <1>0, <1>1, <2>1, <2>2 DEF CountedInPeriod
  <2>4. SumFunctionOnSet(Worths, CountedInPeriod(p) \union {m})
          = Worths[m] + SumFunctionOnSet(Worths, CountedInPeriod(p))
    BY <2>3, CountsAreFinite, SumAdd
  <2>5. q.limiter.amount = SumFunctionOnSet(Worths, CountedInPeriod(q))
    BY <1>0, <2>1, <2>3, <2>4, CountsAreFinite DEF Counted
  <2>6. \A n \in Messages : q.chargedAt[n] <= q.limiter.end
    BY <1>1, <2>1, <2>2 DEF Counted
  <2> QED
    BY <1>0, <1>2, <2>1, <2>5, <2>6 DEF Counted
<1> QED
  BY <1>3, <1>4

-----------------------------------------------------------------------------
(* The count is exact at every step *)

LEMMA InitCountInv ==
    ASSUME Init
    PROVE  CountInv
<1>1. IInv /\ ~InCall
  BY InitIInv DEF Init, InCall, NoCall
<1>2. portal.chargedAt = [m \in Messages |-> 0]
      /\ portal.limiter.amount = 0
      /\ portal.limiter.end = GenesisTime + RateLimitDuration
      /\ now = GenesisTime
  BY DEF Init, InitialPortal
<1>3. CountedInPeriod(portal) = {}
  BY <1>2 DEF CountedInPeriod
<1>4. portal.limiter.end <= now + RateLimitDuration /\ 0 <= portal.limiter.end
  BY <1>2, Durations
<1>5. Counted(portal, now)
  BY <1>2, <1>3, <1>4, SumEmpty DEF Counted
<1> QED
  BY <1>1, <1>5 DEF CountInv

LEMMA AdministrationCounts ==
    ASSUME CountInv, Administration
    PROVE  Counted(portal', now) /\ UNCHANGED call
<1>0. portal \in Portals /\ TypeOK /\ now \in Nat /\ Counted(portal, now)
  BY NowNat DEF CountInv, IInv, TypeOK
<1>1. ASSUME NEW newLimit \in Limits, resetRateLimitAmount(newLimit)
      PROVE  Counted(portal', now)
  <2>1. /\ portal'.limiter = Reset(portal.limiter, newLimit, RateLimitDuration, now)
        /\ portal'.chargedAt = portal.chargedAt
        /\ portal'.executions = portal.executions
    BY <1>0, <1>1 DEF resetRateLimitAmount, Portals
  <2>2. newLimit \in Nat
    BY PortalAssumption
  <2> QED
    BY <1>0, <2>1, <2>2, ResetCounts
<1>2. ASSUME portal'.limiter = portal.limiter,
             portal'.chargedAt = portal.chargedAt,
             portal'.executions = portal.executions
      PROVE  Counted(portal', now)
  <2>1. SameCount(portal', portal)
    BY <1>2 DEF SameCount
  <2> QED
    BY <1>0, <2>1, CountedStays
<1>3. \/ \E newLimit \in Limits : resetRateLimitAmount(newLimit)
      \/ /\ portal'.limiter = portal.limiter
         /\ portal'.chargedAt = portal.chargedAt
         /\ portal'.executions = portal.executions
  <2>1. CASE pause \/ unpause \/ pauseWithdrawals \/ unpauseWithdrawals
    BY <1>0, <2>1 DEF pause, unpause, pauseWithdrawals, unpauseWithdrawals, Portals
  <2>2. CASE \E m \in Messages : addMessageToBlacklist(m) \/ removeMessageFromBlacklist(m)
    BY <1>0, <2>2 DEF addMessageToBlacklist, removeMessageFromBlacklist, Portals
  <2>3. CASE \E value \in BOOLEAN : updateRateLimitStatus(value)
    BY <1>0, <2>3 DEF updateRateLimitStatus, Portals
  <2>4. CASE \E c \in ChainStates : setFuelChainState(c)
    BY <1>0, <2>4 DEF setFuelChainState, Portals
  <2> QED
    BY <2>1, <2>2, <2>3, <2>4 DEF Administration
<1> QED
  BY <1>0, <1>1, <1>2, <1>3, AdministrationEffect

LEMMA ExecuteCounts ==
    ASSUME CountInv, NEW m \in Messages, NEW value \in Nat, _executeMessage(m, value)
    PROVE  Counted(portal', now) /\ call'.before = portal
<1>0. /\ portal \in Portals /\ now \in Nat \ {0} /\ Counted(portal, now)
      /\ ~InCall /\ m \notin portal.successful
  BY NowNat DEF CountInv, IInv, TypeOK, _executeMessage, nonReentrant
<1>1. portal.executions[m] = 0
  BY <1>0 DEF CountInv, IInv, Settled
<1>2. Executing(portal', portal, m) /\ call' = CallTo(m)
  BY ExecuteEffect DEF CountInv
<1>3. portal'.executions = [portal.executions EXCEPT ![m] = 1]
  BY <1>2 DEF Executing
<1>4. /\ portal'.limiter = LimiterAfter(m)
      /\ portal'.chargedAt = [portal.chargedAt EXCEPT ![m] = IF Limited(m) THEN now ELSE @]
  BY <1>0 DEF _executeMessage, Portals
<1>5. CASE Limited(m)
  <2>1. ChargedTo(portal', portal, m, now)
    BY <1>3, <1>4, <1>5 DEF ChargedTo, LimiterAfter
  <2> QED
    BY <1>0, <1>1, <1>2, <2>1, ChargeCounts DEF CallTo
<1>6. CASE ~Limited(m)
  <2>1. portal'.chargedAt = portal.chargedAt
    BY <1>0, <1>4, <1>6, StorageParts
  <2>2. \A n \in Messages : portal.executions[n] # 0 => portal'.executions[n] # 0
    BY <1>0, <1>3, StorageParts
  <2>3. SameCount(portal', portal)
    BY <1>4, <1>6, <2>1, <2>2 DEF SameCount, LimiterAfter
  <2> QED
    BY <1>0, <1>2, <2>3, CountedStays DEF CallTo
<1> QED
  BY <1>5, <1>6

LEMMA NextCountInv ==
    ASSUME CountInv, [Next]_vars
    PROVE  CountInv'
<1>0. /\ IInv' /\ portal \in Portals /\ now \in Nat /\ Counted(portal, now)
      /\ InCall => call.before \in Portals /\ Counted(call.before, now)
  BY NextIInv, CallTyped, NowNat DEF CountInv, IInv, TypeOK
<1>1. ASSUME NEW value, NEW size, _sendOutgoingMessage(value, size),
             UNCHANGED <<now, finalizedRoots>>
      PROVE  CountInv'
  <2>1. /\ SameCount(portal', portal) /\ UNCHANGED call
    BY <1>0, <1>1 DEF _sendOutgoingMessage, SameCount, Portals
  <2>2. Counted(portal', now)
    BY <1>0, <2>1, CountedStays
  <2> QED
    BY <1>0, <1>1, <2>1, <2>2 DEF CountInv, InCall
<1>2. CASE ToFuel /\ UNCHANGED <<now, finalizedRoots>>
  BY <1>1, <1>2 DEF ToFuel, sendMessage, depositETH
<1>3. CASE Administration /\ UNCHANGED <<now, finalizedRoots>>
  BY <1>0, <1>3, AdministrationCounts DEF CountInv, InCall
<1>4. ASSUME NEW m \in Messages, NEW value \in RelayValues, _executeMessage(m, value),
             UNCHANGED <<now, finalizedRoots>>
      PROVE  CountInv'
  <2>1. value \in Nat
    BY PortalAssumption
  <2>2. Counted(portal', now) /\ call'.before = portal
    BY <1>4, <2>1, ExecuteCounts
  <2> QED
    BY <1>0, <1>4, <2>2 DEF CountInv
<1>5. CASE callSucceeds /\ UNCHANGED <<now, finalizedRoots>>
  <2>1. SameCount(portal', portal) /\ ~InCall'
    BY <1>0, <1>5 DEF callSucceeds, SameCount, Portals, InCall, NoCall
  <2>2. Counted(portal', now)
    BY <1>0, <2>1, CountedStays
  <2> QED
    BY <1>0, <1>5, <2>1, <2>2 DEF CountInv
<1>6. CASE callFails /\ UNCHANGED <<now, finalizedRoots>>
  <2>1. InCall /\ portal' = call.before /\ ~InCall'
    BY <1>6 DEF callFails, InCall, NoCall
  <2> QED
    BY <1>0, <1>6, <2>1 DEF CountInv
<1>7. CASE FromFuel /\ UNCHANGED <<now, finalizedRoots>>
  BY <1>4, <1>5, <1>6, <1>7 DEF FromFuel, relayMessage
<1>8. ASSUME UNCHANGED <<portal, call>>, now' \in Nat, now <= now'
      PROVE  CountInv'
  <2>1. SameCount(portal, portal) /\ (InCall => SameCount(call.before, call.before))
    BY DEF SameCount
  <2>2. Counted(portal, now') /\ (InCall => Counted(call.before, now'))
    BY <1>0, <1>8, <2>1, CountedStays
  <2> QED
    BY <1>0, <1>8, <2>2 DEF CountInv, InCall
<1>9. CASE Tick \/ ChainStateMoves \/ UNCHANGED vars
  BY <1>0, <1>8, <1>9 DEF Tick, ChainStateMoves, vars
<1> QED
  BY <1>2, <1>3, <1>7, <1>9 DEF Next, PortalStep

\* The limiter of the portal counts every withdrawal of its period once and
\* nothing else, although the role holder resets it, switches it off and on, and
\* relays revert after they were counted.
THEOREM LimiterCountsExactly == Spec => []PeriodCountExact
<1>1. CountInv => PeriodCountExact
  BY DEF CountInv, Counted, PeriodCountExact
<1> QED
  BY <1>1, InitCountInv, NextCountInv, PTL DEF Spec

-----------------------------------------------------------------------------
(* The portal implements the escrow *)

\* A step in which no relay begins or ends and no message changes its status.
LEMMA QuietStep ==
    ASSUME IInv, portal' \in Portals, SameRelays(portal', portal),
           portal'.totalDeposited >= portal.totalDeposited,
           UNCHANGED call
    PROVE  [Vault!Next]_<<committed.totalDeposited, committed.successful>>
<1>1. CASE InCall
  BY <1>1 DEF committed, InCall
<1>2. CASE ~InCall
  <2>1. committed = portal /\ committed' = portal'
    BY <1>2 DEF committed, InCall
  <2>2. /\ portal'.totalDeposited \in Nat /\ portal.totalDeposited \in Nat
        /\ portal'.successful = portal.successful
    BY DEF IInv, TypeOK, Portals, SameRelays
  <2>3. CASE portal'.totalDeposited = portal.totalDeposited
    BY <2>1, <2>2, <2>3
  <2>4. CASE portal'.totalDeposited > portal.totalDeposited
    <3>1. Vault!Deposit
      BY <2>1, <2>2, <2>4 DEF Vault!Deposit
    <3> QED
      BY <3>1 DEF Vault!Next
  <2> QED
    BY <2>2, <2>3, <2>4
<1> QED
  BY <1>1, <1>2

LEMMA EscrowStep ==
    ASSUME IInv, [Next]_vars
    PROVE  [Vault!Next]_<<committed.totalDeposited, committed.successful>>
<1> DEFINE Quiet == UNCHANGED <<committed.totalDeposited, committed.successful>>
<1>1. ASSUME NEW value \in DepositValues, NEW size \in DataSizes \union {0},
             _sendOutgoingMessage(value, size)
      PROVE  [Vault!Next]_<<committed.totalDeposited, committed.successful>>
  <2>1. value \in Nat /\ size \in Nat
    BY PortalAssumption
  <2> QED
    BY <1>1, <2>1, SendEffect, QuietStep DEF IInv
<1>2. CASE ToFuel
  BY <1>1, <1>2 DEF ToFuel, sendMessage, depositETH
<1>3. CASE Administration
  <2>1. /\ portal' \in Portals /\ portal \in Portals
        /\ SameRelays(portal', portal) /\ SameBooks(portal', portal)
        /\ UNCHANGED call
    BY <1>3, AdministrationEffect DEF IInv, TypeOK
  <2>2. portal'.totalDeposited >= portal.totalDeposited
    BY <2>1 DEF SameBooks, Portals
  <2> QED
    BY <2>1, <2>2, QuietStep
<1>4. ASSUME NEW m \in Messages, NEW value \in RelayValues, _executeMessage(m, value)
      PROVE  Quiet
  <2>1. ~InCall /\ call' = CallTo(m)
    BY <1>4 DEF _executeMessage, nonReentrant
  <2> QED
    BY <2>1 DEF committed, InCall, CallTo
<1>5. CASE callSucceeds
  <2> DEFINE m == call.message
  <2>1. /\ InCall /\ portal \in Portals /\ m \in Messages
        /\ call.before \in Portals
        /\ Executing(portal, call.before, m)
    BY <1>5, CallTyped DEF IInv, TypeOK, callSucceeds
  <2>2. /\ portal'.totalDeposited = portal.totalDeposited
        /\ portal'.successful = portal.successful \union {m}
        /\ ~InCall'
    BY <1>5, <2>1 DEF callSucceeds, Portals, InCall, NoCall
  <2>3. committed = call.before /\ committed' = portal'
    BY <2>1, <2>2 DEF committed
  <2>4. /\ portal.totalDeposited \in Nat /\ call.before.totalDeposited \in Nat
        /\ Withdrawn(m) \in Nat
    BY <2>1, WithdrawnNat DEF Portals
  <2>5. Vault!Pay(m)
    BY <2>1, <2>2, <2>3, <2>4 DEF Vault!Pay, Executing, Worths
  <2> QED
    BY <2>1, <2>5 DEF Vault!Next
<1>6. CASE callFails
  BY <1>6 DEF callFails, committed, InCall, NoCall
<1>7. CASE FromFuel
  BY <1>4, <1>5, <1>6, <1>7 DEF FromFuel, relayMessage
<1>8. CASE UNCHANGED <<portal, call>>
  BY <1>8 DEF committed, InCall
<1> QED
  BY <1>2, <1>3, <1>7, <1>8 DEF Next, PortalStep, Tick, ChainStateMoves, vars

\* The portal keeps the promise of the escrow: seen from other transactions, a
\* relay is one atomic payment of one message, made at most once and out of
\* what was deposited.
THEOREM PortalIsEscrow == Spec => ImplementsEscrow
<1>1. ASSUME Init
      PROVE  Vault!Init
  <2>1. committed = portal
    BY <1>1 DEF Init, committed, InCall, NoCall
  <2> QED
    BY <1>1, <2>1 DEF Vault!Init, Init, InitialPortal
<1> QED
  BY <1>1, InitIInv, NextIInv, EscrowStep, PTL DEF Spec, ImplementsEscrow, Vault!Spec

=============================================================================
