---------------------------- MODULE HeaderProofs -----------------------------
(***************************************************************************)
(* What L1 takes a block of Fuel at its word for: the hash of its header,   *)
(* once FuelChainState calls it final, and the leaves of the trees whose    *)
(* roots and sizes the header holds, once verifyBinaryTree() has accepted a *)
(* proof.                                                                   *)
(*                                                                          *)
(* The first part is about ChainState for every number of slots, every set  *)
(* of hashes and every timing the constructor accepts, as long as the clock *)
(* stays away from the end of the uint32 range (ClockFits).  Its safety     *)
(* properties are not inductive: they speak of real times and the contract  *)
(* compares stored ones.  SlotsMirrorHistory says the two agree, and it is  *)
(* what ClockFits buys.                                                     *)
(*                                                                          *)
(* The second part is about VerifyBinaryTree for trees of every size and    *)
(* proofs of every length.  The tree, the path of a leaf and the digest the *)
(* verifier climbs to are recursive functions: each is shown to be defined, *)
(* and then unfolded one level at a time.  On the way up from a leaf,       *)
(* LengthOfPath shows that pathLengthFromKey() counts the neighbours there  *)
(* are, Direction that the verifier puts each on the side it is on, and     *)
(* ReachedIsGenuine, from level to level, that it reaches the node of the   *)
(* tree from nothing but the leaf and its neighbours.                       *)
(***************************************************************************)
EXTENDS ChainState, VerifyBinaryTree, SequenceTheorems, WellFoundedInduction, TLAPS

\* No stored time and no end of a cooldown wraps around.
ClockFits == MaxTime + CommitCooldown < TimeModulus

SlotsMirrorHistory ==
    \A s \in Slots :
        /\ commitSlots[s].blockHash = lastCommit[s].blockHash
        /\ commitSlots[s].timestamp = lastCommit[s].at
        /\ lastCommit[s].at <= now

IInv == TypeOK /\ SlotsMirrorHistory

-----------------------------------------------------------------------------
(* Arithmetic                                                              *)

LEMMA SlotInRange ==
    ASSUME NEW h \in Nat
    PROVE  SlotOf(h) \in Slots
BY ParametersAssumption DEF SlotOf, Slots

LEMMA UintRange ==
    ASSUME NEW n \in Nat
    PROVE  Uint32(n) \in 0 .. TimeModulus - 1
BY ParametersAssumption DEF Uint32

\* A number that fits a uint32 is its own cast.
LEMMA UintExact ==
    ASSUME NEW n \in Nat, n < TimeModulus
    PROVE  Uint32(n) = n
BY ParametersAssumption DEF Uint32

LEMMA EpochOfItsHeight ==
    ASSUME NEW h \in Nat
    PROVE  (h * BlocksPerInterval) \div BlocksPerInterval = h
<1>1. BlocksPerInterval \in Nat /\ BlocksPerInterval # 0
  BY ParametersAssumption DEF ConstructorAccepts
<1> QED
  BY <1>1

-----------------------------------------------------------------------------
(* The invariant is inductive *)

LEMMA InitIInv ==
    ASSUME ClockFits, Init
    PROVE  IInv
<1>1. 0 \in 0 .. TimeModulus - 1 /\ 0 \in 0 .. MaxTime /\ 0 \in CommitHeights
  BY ParametersAssumption, BoundsAssumption DEF CommitHeights
<1>2. TypeOK
  <2>1. EmptySlot \in [blockHash : Committable, timestamp : 0 .. TimeModulus - 1]
    BY <1>1 DEF EmptySlot, Committable
  <2>2. NoCommit \in [blockHash : Committable, commitHeight : CommitHeights,
                      at : 0 .. MaxTime]
    BY <1>1 DEF NoCommit, Committable
  <2>3. now \in GenesisTime .. MaxTime
    BY BoundsAssumption DEF Init
  <2> QED
    BY <2>1, <2>2, <2>3 DEF Init, TypeOK
<1>3. SlotsMirrorHistory
  BY BoundsAssumption DEF Init, SlotsMirrorHistory, EmptySlot, NoCommit
<1> QED
  BY <1>2, <1>3 DEF IInv

\* What an accepted commit does to the buffer and to the history.
LEMMA CommitStep ==
    ASSUME ClockFits, IInv,
           NEW hash \in Committable, NEW h \in CommitHeights,
           commit(hash, h), UNCHANGED now
    PROVE  /\ IInv'
           /\ \A s \in Slots : s # SlotOf(h) => lastCommit'[s] = lastCommit[s]
           /\ MatureSlot(SlotOf(h))
<1> DEFINE slot == SlotOf(h)
<1>1. /\ slot \in Slots
      /\ now \in Nat /\ now <= MaxTime /\ now \in 0 .. TimeModulus - 1
      /\ Uint32(now) = now
  <2>1. now \in Nat /\ now <= MaxTime /\ now < TimeModulus
    BY BoundsAssumption, ParametersAssumption DEF IInv, TypeOK, ClockFits
  <2> QED
    BY <2>1, SlotInRange, UintExact, ParametersAssumption DEF CommitHeights
<1>2. /\ commitSlots' = [commitSlots EXCEPT ![slot] =
              [blockHash |-> hash, timestamp |-> now]]
      /\ lastCommit' = [lastCommit EXCEPT ![slot] =
              [blockHash |-> hash, commitHeight |-> h, at |-> now]]
      /\ UNCHANGED <<paused, now>>
  BY <1>1 DEF commit
<1>3. TypeOK'
  <2>1. [blockHash |-> hash, timestamp |-> now]
            \in [blockHash : Committable, timestamp : 0 .. TimeModulus - 1]
    BY <1>1
  <2>2. [blockHash |-> hash, commitHeight |-> h, at |-> now]
            \in [blockHash : Committable, commitHeight : CommitHeights,
                 at : 0 .. MaxTime]
    BY <1>1, BoundsAssumption
  <2>3. commitSlots' \in [Slots -> [blockHash : Committable,
                                    timestamp : 0 .. TimeModulus - 1]]
    BY <1>1, <1>2, <2>1 DEF IInv, TypeOK
  <2>4. lastCommit' \in [Slots -> [blockHash : Committable,
                                   commitHeight : CommitHeights,
                                   at : 0 .. MaxTime]]
    BY <1>1, <1>2, <2>2 DEF IInv, TypeOK
  <2> QED
    BY <1>2, <2>3, <2>4 DEF IInv, TypeOK
<1>4. SlotsMirrorHistory'
  BY <1>1, <1>2 DEF IInv, TypeOK, SlotsMirrorHistory
<1>5. ASSUME NEW s \in Slots, s # slot
      PROVE  lastCommit'[s] = lastCommit[s]
  BY <1>2, <1>5 DEF IInv, TypeOK
<1>6. MatureSlot(slot)
  <2>1. ~(Uint32(commitSlots[slot].timestamp + CommitCooldown) > now)
    BY <1>1 DEF commit, CoolingDown
  <2>2. /\ commitSlots[slot].timestamp = lastCommit[slot].at
        /\ lastCommit[slot].at \in Nat
        /\ lastCommit[slot].at <= now
    BY <1>1, BoundsAssumption DEF IInv, TypeOK, SlotsMirrorHistory
  <2>3. Uint32(lastCommit[slot].at + CommitCooldown)
            = lastCommit[slot].at + CommitCooldown
    <3>1. /\ lastCommit[slot].at + CommitCooldown \in Nat
          /\ lastCommit[slot].at + CommitCooldown < TimeModulus
      BY <1>1, <2>2, ParametersAssumption, BoundsAssumption DEF ClockFits
    <3> QED
      BY <3>1, UintExact
  <2> QED
    BY <1>1, <2>1, <2>2, <2>3, ParametersAssumption
       DEF MatureSlot, ConstructorAccepts
<1> QED
  BY <1>3, <1>4, <1>5, <1>6 DEF IInv

LEMMA NextIInv ==
    ASSUME ClockFits, IInv, [Next]_vars
    PROVE  IInv'
<1>1. ASSUME NEW hash \in Committable, NEW h \in CommitHeights,
             commit(hash, h), UNCHANGED now
      PROVE  IInv'
  BY <1>1, CommitStep
<1>2. CASE pause /\ UNCHANGED now
  BY <1>2 DEF pause, IInv, TypeOK, SlotsMirrorHistory
<1>3. CASE unpause /\ UNCHANGED now
  BY <1>3 DEF unpause, IInv, TypeOK, SlotsMirrorHistory
<1>4. CASE Tick /\ UNCHANGED chainVars
  <2>1. now' = now + 1 /\ now' \in GenesisTime .. MaxTime
    BY <1>4, BoundsAssumption DEF Tick, IInv, TypeOK
  <2>2. TypeOK'
    BY <1>4, <2>1 DEF chainVars, IInv, TypeOK
  <2>3. SlotsMirrorHistory'
    BY <1>4, <2>1, BoundsAssumption
       DEF chainVars, IInv, TypeOK, SlotsMirrorHistory
  <2> QED
    BY <2>2, <2>3 DEF IInv
<1>5. CASE UNCHANGED vars
  BY <1>5 DEF vars, IInv, TypeOK, SlotsMirrorHistory
<1> QED
  BY <1>1, <1>2, <1>3, <1>4, <1>5 DEF Next

-----------------------------------------------------------------------------
(* The theorems *)

\* The state of FuelChainState keeps its shape: every stored time is a uint32
\* and every slot holds a hash the committer sent, or none.
THEOREM TypeCorrect ==
    ASSUME ClockFits
    PROVE  Spec => []TypeOK
<1>1. IInv => TypeOK
  BY DEF IInv
<1> QED
  BY <1>1, InitIInv, NextIInv, PTL DEF Spec

LEMMA IInvImpliesMature ==
    ASSUME IInv
    PROVE  FinalizedIsMature
<1> SUFFICES ASSUME NEW blockHash \in BlockHashes, NEW h \in CommitHeights,
                    Finalized(blockHash, h * BlocksPerInterval)
             PROVE  /\ lastCommit[SlotOf(h)].blockHash = blockHash
                    /\ MatureSlot(SlotOf(h))
  BY DEF FinalizedIsMature
<1>1. h \in Nat
  BY BoundsAssumption DEF CommitHeights
<1>2. (h * BlocksPerInterval) \div BlocksPerInterval = h
  BY <1>1, EpochOfItsHeight
<1>3. /\ commitSlots[SlotOf(h)].blockHash = blockHash
      /\ now >= commitSlots[SlotOf(h)].timestamp + TimeToFinalize
  BY <1>2 DEF Finalized
<1>4. SlotOf(h) \in Slots
  BY <1>1, SlotInRange
<1> QED
  BY <1>3, <1>4 DEF IInv, SlotsMirrorHistory, MatureSlot

\* finalized() never answers true before TIME_TO_FINALIZE seconds have passed
\* since the commit of the hash it is asked about.
THEOREM FinalityTakesTime ==
    ASSUME ClockFits
    PROVE  Spec => []FinalizedIsMature
<1> QED
  BY IInvImpliesMature, InitIInv, NextIInv, PTL DEF Spec

\* commit() never overwrites a commit that had no chance to become final: the
\* constructor's TIME_TO_FINALIZE <= COMMIT_COOLDOWN is enough, whatever the
\* committer sends and however the heights alias in the buffer.
THEOREM CommitsSurviveToFinality ==
    ASSUME ClockFits
    PROVE  Spec => NoCommitLostBeforeFinality
<1> DEFINE Lost(s) ==
        lastCommit[s].blockHash # ZeroHash /\ lastCommit'[s] # lastCommit[s]
<1>1. ASSUME IInv, [Next]_vars
      PROVE  \A s \in Slots : Lost(s) => MatureSlot(s)
  <2> SUFFICES ASSUME NEW s \in Slots, Lost(s)
               PROVE  MatureSlot(s)
    OBVIOUS
  <2>1. lastCommit' # lastCommit
    OBVIOUS
  <2>2. PICK hash \in Committable, h \in CommitHeights :
            commit(hash, h) /\ UNCHANGED now
    BY <1>1, <2>1 DEF Next, vars, chainVars, pause, unpause
  <2>3. MatureSlot(SlotOf(h)) /\ (s # SlotOf(h) => lastCommit'[s] = lastCommit[s])
    BY <1>1, <2>2, CommitStep
  <2> QED
    BY <2>3
<1> QED
  BY <1>1, InitIInv, NextIInv, PTL DEF Spec, NoCommitLostBeforeFinality

-----------------------------------------------------------------------------
(* Induction, with the property to be shown as a set *)

LEMMA Least ==
    ASSUME NEW Q \in SUBSET Nat, Q # {}
    PROVE  \E m \in Q : \A j \in Q : m <= j
<1>1. PICK m \in Q : \A j \in Q : <<j, m>> \notin OpToRel(<, Nat)
    BY NatLessThanWellFounded, WFMin
<1>2. \A j \in Q : ~(j < m)
    BY <1>1 DEF OpToRel
<1> QED
    BY <1>2

LEMMA Induction ==
    ASSUME NEW P, 0 \in P, \A n \in Nat : n \in P => n + 1 \in P
    PROVE  Nat \subseteq P
<1> DEFINE Q == Nat \ P
<1>1. SUFFICES ASSUME Q # {}
               PROVE  FALSE
    OBVIOUS
<1>2. PICK m \in Q : \A j \in Q : m <= j
    BY <1>1, Least
<1>3. m # 0 /\ m - 1 \in Nat
    BY <1>2
<1>4. m - 1 \in P
    BY <1>2, <1>3
<1> QED
    BY <1>2, <1>3, <1>4

LEMMA StrongInduction ==
    ASSUME NEW P, \A n \in Nat : (\A m \in 0 .. n - 1 : m \in P) => n \in P
    PROVE  Nat \subseteq P
<1> DEFINE Q == Nat \ P
<1>1. SUFFICES ASSUME Q # {}
               PROVE  FALSE
    OBVIOUS
<1>2. PICK m \in Q : \A j \in Q : m <= j
    BY <1>1, Least
<1>3. \A j \in 0 .. m - 1 : j \in P
    BY <1>2
<1> QED
    BY <1>2, <1>3

-----------------------------------------------------------------------------
(* Shift is well defined *)

ShiftStep(g, h) ==
    IF h = 0 THEN 1 ELSE 2 * g[h - 1]

\* g is the function up to N.
ShiftUpTo(g, N) == g = [h \in 0 .. N |-> ShiftStep(g, h)]

LEMMA ShiftAt ==
    ASSUME NEW g, NEW N \in Nat, ShiftUpTo(g, N), NEW h \in 0 .. N
    PROVE  g[h] = ShiftStep(g, h)
BY DEF ShiftUpTo

LEMMA ShiftLocal ==
    ASSUME NEW g, NEW f, NEW h \in Nat, h # 0 => g[h - 1] = f[h - 1]
    PROVE  ShiftStep(g, h) = ShiftStep(f, h)
BY DEF ShiftStep

LEMMA ShiftAgree ==
    ASSUME NEW g, NEW f, NEW N \in Nat, NEW M \in Nat, N <= M,
           ShiftUpTo(g, N), ShiftUpTo(f, M)
    PROVE  g[N] = f[N]
<1> DEFINE P == {h \in Nat : h <= N => g[h] = f[h]}
<1>1. 0 \in P
    BY ShiftAt, ShiftLocal
<1>2. ASSUME NEW h \in Nat, h \in P
      PROVE  h + 1 \in P
    <2>1. SUFFICES ASSUME h + 1 <= N
                   PROVE  g[h + 1] = f[h + 1]
        OBVIOUS
    <2>2. g[(h + 1) - 1] = f[(h + 1) - 1]
        BY <1>2, <2>1
    <2>3. ShiftStep(g, h + 1) = ShiftStep(f, h + 1)
        BY <2>2, ShiftLocal
    <2> QED
        BY <2>1, <2>3, ShiftAt
<1> HIDE DEF P
<1>3. N \in P
    BY <1>1, <1>2, Induction
<1> QED
    BY <1>3 DEF P

LEMMA ShiftExists ==
    ASSUME NEW N \in Nat
    PROVE  \E g : ShiftUpTo(g, N)
<1> DEFINE P == {M \in Nat : \E g : ShiftUpTo(g, M)}
<1>1. 0 \in P
    <2> DEFINE g == [h \in 0 .. 0 |-> ShiftStep(<<>>, 0)]
    <2>1. \A h \in 0 .. 0 : g[h] = ShiftStep(g, h)
        BY ShiftLocal
    <2>2. g = [h \in 0 .. 0 |-> g[h]]
        OBVIOUS
    <2> HIDE DEF g
    <2>3. ShiftUpTo(g, 0)
        BY <2>1, <2>2 DEF ShiftUpTo
    <2> QED
        BY <2>3
<1>2. ASSUME NEW M \in Nat, M \in P
      PROVE  M + 1 \in P
    <2>1. PICK g : ShiftUpTo(g, M)
        BY <1>2
    <2> DEFINE f == [h \in 0 .. M + 1 |-> IF h <= M THEN g[h] ELSE ShiftStep(g, M + 1)]
    <2>2. ASSUME NEW h \in 0 .. M + 1
          PROVE  f[h] = ShiftStep(f, h)
        <3>1. h # 0 => f[h - 1] = g[h - 1]
            OBVIOUS
        <3>2. f[h] = ShiftStep(g, h)
            BY <2>1, ShiftAt
        <3> HIDE DEF f
        <3> QED
            BY <3>1, <3>2, ShiftLocal
    <2>3. f = [h \in 0 .. M + 1 |-> f[h]]
        OBVIOUS
    <2> HIDE DEF f
    <2>4. ShiftUpTo(f, M + 1)
        BY <2>2, <2>3 DEF ShiftUpTo
    <2> QED
        BY <2>4
<1> HIDE DEF P
<1>3. N \in P
    BY <1>1, <1>2, Induction
<1> QED
    BY <1>3 DEF P

LEMMA ShiftWhole ==
    ASSUME TRUE
    PROVE  \E f : f = [h \in Nat |-> ShiftStep(f, h)]
<1> DEFINE G(N) == CHOOSE g : ShiftUpTo(g, N)
<1> DEFINE f == [h \in Nat |-> G(h)[h]]
<1>1. \A N \in Nat : ShiftUpTo(G(N), N)
    BY ShiftExists
<1>2. ASSUME NEW h \in Nat
      PROVE  f[h] = ShiftStep(f, h)
    <2>1. h # 0 => G(h - 1)[h - 1] = G(h)[h - 1]
        <3>1. h # 0 => h - 1 \in Nat /\ h - 1 <= h
            OBVIOUS
        <3> HIDE DEF G
        <3> QED
            BY <1>1, <3>1, ShiftAgree
    <2>2. h # 0 => f[h - 1] = G(h)[h - 1]
        BY <2>1
    <2>3. f[h] = ShiftStep(G(h), h)
        BY <1>1, ShiftAt
    <2> HIDE DEF f, G
    <2> QED
        BY <2>2, <2>3, ShiftLocal
<1>3. f = [h \in Nat |-> f[h]]
    OBVIOUS
<1> HIDE DEF f
<1> QED
    BY <1>2, <1>3

LEMMA ShiftUnfolds ==
    ASSUME NEW h \in Nat
    PROVE  Shift[h] = IF h = 0 THEN 1 ELSE 2 * Shift[h - 1]
<1>1. Shift = CHOOSE f : f = [n \in Nat |-> ShiftStep(f, n)]
    BY DEF Shift, ShiftStep
<1>2. Shift = [n \in Nat |-> ShiftStep(Shift, n)]
    BY <1>1, ShiftWhole
<1>3. Shift[h] = ShiftStep(Shift, h)
    BY <1>2
<1> QED
    BY <1>3 DEF ShiftStep

-----------------------------------------------------------------------------
(* Level is well defined *)

LevelStep(g, h) ==
    [n \in Nat |-> [i \in Nat |->
        IF h = 0
        THEN leafDigest(i)
        ELSE IF (2 * i + 1) * Shift[h - 1] < n
        THEN nodeDigest(g[h - 1][n][2 * i], g[h - 1][n][2 * i + 1])
        ELSE g[h - 1][n][2 * i]]]

\* g is the function up to N.
LevelUpTo(g, N) == g = [h \in 0 .. N |-> LevelStep(g, h)]

LEMMA LevelAt ==
    ASSUME NEW g, NEW N \in Nat, LevelUpTo(g, N), NEW h \in 0 .. N
    PROVE  g[h] = LevelStep(g, h)
BY DEF LevelUpTo

LEMMA LevelLocal ==
    ASSUME NEW g, NEW f, NEW h \in Nat, h # 0 => g[h - 1] = f[h - 1]
    PROVE  LevelStep(g, h) = LevelStep(f, h)
BY DEF LevelStep

LEMMA LevelAgree ==
    ASSUME NEW g, NEW f, NEW N \in Nat, NEW M \in Nat, N <= M,
           LevelUpTo(g, N), LevelUpTo(f, M)
    PROVE  g[N] = f[N]
<1> DEFINE P == {h \in Nat : h <= N => g[h] = f[h]}
<1>1. 0 \in P
    BY LevelAt, LevelLocal
<1>2. ASSUME NEW h \in Nat, h \in P
      PROVE  h + 1 \in P
    <2>1. SUFFICES ASSUME h + 1 <= N
                   PROVE  g[h + 1] = f[h + 1]
        OBVIOUS
    <2>2. g[(h + 1) - 1] = f[(h + 1) - 1]
        BY <1>2, <2>1
    <2>3. LevelStep(g, h + 1) = LevelStep(f, h + 1)
        BY <2>2, LevelLocal
    <2> QED
        BY <2>1, <2>3, LevelAt
<1> HIDE DEF P
<1>3. N \in P
    BY <1>1, <1>2, Induction
<1> QED
    BY <1>3 DEF P

LEMMA LevelExists ==
    ASSUME NEW N \in Nat
    PROVE  \E g : LevelUpTo(g, N)
<1> DEFINE P == {M \in Nat : \E g : LevelUpTo(g, M)}
<1>1. 0 \in P
    <2> DEFINE g == [h \in 0 .. 0 |-> LevelStep(<<>>, 0)]
    <2>1. \A h \in 0 .. 0 : g[h] = LevelStep(g, h)
        BY LevelLocal
    <2>2. g = [h \in 0 .. 0 |-> g[h]]
        OBVIOUS
    <2> HIDE DEF g
    <2>3. LevelUpTo(g, 0)
        BY <2>1, <2>2 DEF LevelUpTo
    <2> QED
        BY <2>3
<1>2. ASSUME NEW M \in Nat, M \in P
      PROVE  M + 1 \in P
    <2>1. PICK g : LevelUpTo(g, M)
        BY <1>2
    <2> DEFINE f == [h \in 0 .. M + 1 |-> IF h <= M THEN g[h] ELSE LevelStep(g, M + 1)]
    <2>2. ASSUME NEW h \in 0 .. M + 1
          PROVE  f[h] = LevelStep(f, h)
        <3>1. h # 0 => f[h - 1] = g[h - 1]
            OBVIOUS
        <3>2. f[h] = LevelStep(g, h)
            BY <2>1, LevelAt
        <3> HIDE DEF f
        <3> QED
            BY <3>1, <3>2, LevelLocal
    <2>3. f = [h \in 0 .. M + 1 |-> f[h]]
        OBVIOUS
    <2> HIDE DEF f
    <2>4. LevelUpTo(f, M + 1)
        BY <2>2, <2>3 DEF LevelUpTo
    <2> QED
        BY <2>4
<1> HIDE DEF P
<1>3. N \in P
    BY <1>1, <1>2, Induction
<1> QED
    BY <1>3 DEF P

LEMMA LevelWhole ==
    ASSUME TRUE
    PROVE  \E f : f = [h \in Nat |-> LevelStep(f, h)]
<1> DEFINE G(N) == CHOOSE g : LevelUpTo(g, N)
<1> DEFINE f == [h \in Nat |-> G(h)[h]]
<1>1. \A N \in Nat : LevelUpTo(G(N), N)
    BY LevelExists
<1>2. ASSUME NEW h \in Nat
      PROVE  f[h] = LevelStep(f, h)
    <2>1. h # 0 => G(h - 1)[h - 1] = G(h)[h - 1]
        <3>1. h # 0 => h - 1 \in Nat /\ h - 1 <= h
            OBVIOUS
        <3> HIDE DEF G
        <3> QED
            BY <1>1, <3>1, LevelAgree
    <2>2. h # 0 => f[h - 1] = G(h)[h - 1]
        BY <2>1
    <2>3. f[h] = LevelStep(G(h), h)
        BY <1>1, LevelAt
    <2> HIDE DEF f, G
    <2> QED
        BY <2>2, <2>3, LevelLocal
<1>3. f = [h \in Nat |-> f[h]]
    OBVIOUS
<1> HIDE DEF f
<1> QED
    BY <1>2, <1>3

LEMMA LevelUnfolds ==
    ASSUME NEW h \in Nat, NEW n \in Nat, NEW i \in Nat
    PROVE  /\ Level[0][n][i] = leafDigest(i)
           /\ Level[h + 1][n][i] =
                IF (2 * i + 1) * Shift[h] < n
                THEN nodeDigest(Level[h][n][2 * i], Level[h][n][2 * i + 1])
                ELSE Level[h][n][2 * i]
<1>1. Level = CHOOSE f : f = [m \in Nat |-> LevelStep(f, m)]
    BY DEF Level, LevelStep
<1>2. Level = [m \in Nat |-> LevelStep(Level, m)]
    BY <1>1, LevelWhole
<1>3. \A m \in Nat : Level[m] = LevelStep(Level, m)
    <2> HIDE DEF Level
    <2> QED
        BY <1>2
<1>4. h + 1 \in Nat /\ h + 1 # 0 /\ (h + 1) - 1 = h
    OBVIOUS
<1>5. LevelStep(Level, 0)[n][i] = leafDigest(i)
    BY DEF LevelStep
<1>6. LevelStep(Level, h + 1)[n][i] =
            IF (2 * i + 1) * Shift[h] < n
            THEN nodeDigest(Level[h][n][2 * i], Level[h][n][2 * i + 1])
            ELSE Level[h][n][2 * i]
    BY <1>4 DEF LevelStep
<1> QED
    BY <1>3, <1>4, <1>5, <1>6

-----------------------------------------------------------------------------
(* Path is well defined *)

PathStep(g, h) ==
    [n \in Nat |-> [k \in Nat |->
        IF h = 0
        THEN <<>>
        ELSE LET i == NodeAbove(k, h - 1) IN
             IF HasNeighbour(n, i, h - 1)
             THEN Append(g[h - 1][n][k], Level[h - 1][n][Neighbour(i)])
             ELSE g[h - 1][n][k]]]

\* g is the function up to N.
PathUpTo(g, N) == g = [h \in 0 .. N |-> PathStep(g, h)]

LEMMA PathAt ==
    ASSUME NEW g, NEW N \in Nat, PathUpTo(g, N), NEW h \in 0 .. N
    PROVE  g[h] = PathStep(g, h)
BY DEF PathUpTo

LEMMA PathLocal ==
    ASSUME NEW g, NEW f, NEW h \in Nat, h # 0 => g[h - 1] = f[h - 1]
    PROVE  PathStep(g, h) = PathStep(f, h)
BY DEF PathStep

LEMMA PathAgree ==
    ASSUME NEW g, NEW f, NEW N \in Nat, NEW M \in Nat, N <= M,
           PathUpTo(g, N), PathUpTo(f, M)
    PROVE  g[N] = f[N]
<1> DEFINE P == {h \in Nat : h <= N => g[h] = f[h]}
<1>1. 0 \in P
    BY PathAt, PathLocal
<1>2. ASSUME NEW h \in Nat, h \in P
      PROVE  h + 1 \in P
    <2>1. SUFFICES ASSUME h + 1 <= N
                   PROVE  g[h + 1] = f[h + 1]
        OBVIOUS
    <2>2. g[(h + 1) - 1] = f[(h + 1) - 1]
        BY <1>2, <2>1
    <2>3. PathStep(g, h + 1) = PathStep(f, h + 1)
        BY <2>2, PathLocal
    <2> QED
        BY <2>1, <2>3, PathAt
<1> HIDE DEF P
<1>3. N \in P
    BY <1>1, <1>2, Induction
<1> QED
    BY <1>3 DEF P

LEMMA PathExists ==
    ASSUME NEW N \in Nat
    PROVE  \E g : PathUpTo(g, N)
<1> DEFINE P == {M \in Nat : \E g : PathUpTo(g, M)}
<1>1. 0 \in P
    <2> DEFINE g == [h \in 0 .. 0 |-> PathStep(<<>>, 0)]
    <2>1. \A h \in 0 .. 0 : g[h] = PathStep(g, h)
        BY PathLocal
    <2>2. g = [h \in 0 .. 0 |-> g[h]]
        OBVIOUS
    <2> HIDE DEF g
    <2>3. PathUpTo(g, 0)
        BY <2>1, <2>2 DEF PathUpTo
    <2> QED
        BY <2>3
<1>2. ASSUME NEW M \in Nat, M \in P
      PROVE  M + 1 \in P
    <2>1. PICK g : PathUpTo(g, M)
        BY <1>2
    <2> DEFINE f == [h \in 0 .. M + 1 |-> IF h <= M THEN g[h] ELSE PathStep(g, M + 1)]
    <2>2. ASSUME NEW h \in 0 .. M + 1
          PROVE  f[h] = PathStep(f, h)
        <3>1. h # 0 => f[h - 1] = g[h - 1]
            OBVIOUS
        <3>2. f[h] = PathStep(g, h)
            BY <2>1, PathAt
        <3> HIDE DEF f
        <3> QED
            BY <3>1, <3>2, PathLocal
    <2>3. f = [h \in 0 .. M + 1 |-> f[h]]
        OBVIOUS
    <2> HIDE DEF f
    <2>4. PathUpTo(f, M + 1)
        BY <2>2, <2>3 DEF PathUpTo
    <2> QED
        BY <2>4
<1> HIDE DEF P
<1>3. N \in P
    BY <1>1, <1>2, Induction
<1> QED
    BY <1>3 DEF P

LEMMA PathWhole ==
    ASSUME TRUE
    PROVE  \E f : f = [h \in Nat |-> PathStep(f, h)]
<1> DEFINE G(N) == CHOOSE g : PathUpTo(g, N)
<1> DEFINE f == [h \in Nat |-> G(h)[h]]
<1>1. \A N \in Nat : PathUpTo(G(N), N)
    BY PathExists
<1>2. ASSUME NEW h \in Nat
      PROVE  f[h] = PathStep(f, h)
    <2>1. h # 0 => G(h - 1)[h - 1] = G(h)[h - 1]
        <3>1. h # 0 => h - 1 \in Nat /\ h - 1 <= h
            OBVIOUS
        <3> HIDE DEF G
        <3> QED
            BY <1>1, <3>1, PathAgree
    <2>2. h # 0 => f[h - 1] = G(h)[h - 1]
        BY <2>1
    <2>3. f[h] = PathStep(G(h), h)
        BY <1>1, PathAt
    <2> HIDE DEF f, G
    <2> QED
        BY <2>2, <2>3, PathLocal
<1>3. f = [h \in Nat |-> f[h]]
    OBVIOUS
<1> HIDE DEF f
<1> QED
    BY <1>2, <1>3

LEMMA PathUnfolds ==
    ASSUME NEW h \in Nat, NEW n \in Nat, NEW k \in Nat
    PROVE  Path[h][n][k] =
                IF h = 0
                THEN <<>>
                ELSE IF HasNeighbour(n, NodeAbove(k, h - 1), h - 1)
                THEN Append(Path[h - 1][n][k],
                            Level[h - 1][n][Neighbour(NodeAbove(k, h - 1))])
                ELSE Path[h - 1][n][k]
<1>1. Path = CHOOSE f : f = [m \in Nat |-> PathStep(f, m)]
    BY DEF Path, PathStep
<1>2. Path = [m \in Nat |-> PathStep(Path, m)]
    BY <1>1, PathWhole
<1>3. Path[h] = PathStep(Path, h)
    BY <1>2
<1> QED
    BY <1>3 DEF PathStep

-----------------------------------------------------------------------------
(* climb is well defined *)

ClimbStep(digest, siblings, k, n, g, h) ==
    IF h = 0
    THEN digest
    ELSE IF OnLeft(k, n, h)
    THEN nodeDigest(g[h - 1], siblings[h])
    ELSE nodeDigest(siblings[h], g[h - 1])

\* g is the function up to N.
ClimbUpTo(digest, siblings, k, n, g, N) ==
    g = [h \in 0 .. N |-> ClimbStep(digest, siblings, k, n, g, h)]

LEMMA ClimbAt ==
    ASSUME NEW digest, NEW siblings, NEW k, NEW n, NEW g, NEW N \in Nat,
           ClimbUpTo(digest, siblings, k, n, g, N), NEW h \in 0 .. N
    PROVE  g[h] = ClimbStep(digest, siblings, k, n, g, h)
BY DEF ClimbUpTo

LEMMA ClimbLocal ==
    ASSUME NEW digest, NEW siblings, NEW k, NEW n, NEW g, NEW f, NEW h \in Nat,
           h # 0 => g[h - 1] = f[h - 1]
    PROVE  ClimbStep(digest, siblings, k, n, g, h) =
               ClimbStep(digest, siblings, k, n, f, h)
BY DEF ClimbStep

LEMMA ClimbAgree ==
    ASSUME NEW digest, NEW siblings, NEW k, NEW n, NEW g, NEW f,
           NEW N \in Nat, NEW M \in Nat, N <= M,
           ClimbUpTo(digest, siblings, k, n, g, N), ClimbUpTo(digest, siblings, k, n, f, M)
    PROVE  g[N] = f[N]
<1> DEFINE P == {h \in Nat : h <= N => g[h] = f[h]}
<1>1. 0 \in P
    BY ClimbAt, ClimbLocal
<1>2. ASSUME NEW h \in Nat, h \in P
      PROVE  h + 1 \in P
    <2>1. SUFFICES ASSUME h + 1 <= N
                   PROVE  g[h + 1] = f[h + 1]
        OBVIOUS
    <2>2. g[(h + 1) - 1] = f[(h + 1) - 1]
        BY <1>2, <2>1
    <2>3. ClimbStep(digest, siblings, k, n, g, h + 1) =
              ClimbStep(digest, siblings, k, n, f, h + 1)
        BY <2>2, ClimbLocal
    <2> QED
        BY <2>1, <2>3, ClimbAt
<1> HIDE DEF P
<1>3. N \in P
    BY <1>1, <1>2, Induction
<1> QED
    BY <1>3 DEF P

LEMMA ClimbExists ==
    ASSUME NEW digest, NEW siblings, NEW k, NEW n, NEW N \in Nat
    PROVE  \E g : ClimbUpTo(digest, siblings, k, n, g, N)
<1> DEFINE P == {M \in Nat : \E g : ClimbUpTo(digest, siblings, k, n, g, M)}
<1>1. 0 \in P
    <2> DEFINE g == [h \in 0 .. 0 |-> ClimbStep(digest, siblings, k, n, <<>>, 0)]
    <2>1. \A h \in 0 .. 0 : g[h] = ClimbStep(digest, siblings, k, n, g, h)
        BY ClimbLocal
    <2>2. g = [h \in 0 .. 0 |-> g[h]]
        OBVIOUS
    <2> HIDE DEF g
    <2>3. ClimbUpTo(digest, siblings, k, n, g, 0)
        BY <2>1, <2>2 DEF ClimbUpTo
    <2> QED
        BY <2>3
<1>2. ASSUME NEW M \in Nat, M \in P
      PROVE  M + 1 \in P
    <2>1. PICK g : ClimbUpTo(digest, siblings, k, n, g, M)
        BY <1>2
    <2> DEFINE f == [h \in 0 .. M + 1 |->
                        IF h <= M THEN g[h] ELSE ClimbStep(digest, siblings, k, n, g, M + 1)]
    <2>2. ASSUME NEW h \in 0 .. M + 1
          PROVE  f[h] = ClimbStep(digest, siblings, k, n, f, h)
        <3>1. h # 0 => f[h - 1] = g[h - 1]
            OBVIOUS
        <3>2. f[h] = ClimbStep(digest, siblings, k, n, g, h)
            BY <2>1, ClimbAt
        <3> HIDE DEF f
        <3> QED
            BY <3>1, <3>2, ClimbLocal
    <2>3. f = [h \in 0 .. M + 1 |-> f[h]]
        OBVIOUS
    <2> HIDE DEF f
    <2>4. ClimbUpTo(digest, siblings, k, n, f, M + 1)
        BY <2>2, <2>3 DEF ClimbUpTo
    <2> QED
        BY <2>4
<1> HIDE DEF P
<1>3. N \in P
    BY <1>1, <1>2, Induction
<1> QED
    BY <1>3 DEF P

LEMMA ClimbWhole ==
    ASSUME NEW digest, NEW siblings, NEW k, NEW n
    PROVE  \E f : f = [h \in Nat |-> ClimbStep(digest, siblings, k, n, f, h)]
<1> DEFINE G(N) == CHOOSE g : ClimbUpTo(digest, siblings, k, n, g, N)
<1> DEFINE f == [h \in Nat |-> G(h)[h]]
<1>1. \A N \in Nat : ClimbUpTo(digest, siblings, k, n, G(N), N)
    BY ClimbExists
<1>2. ASSUME NEW h \in Nat
      PROVE  f[h] = ClimbStep(digest, siblings, k, n, f, h)
    <2>1. h # 0 => G(h - 1)[h - 1] = G(h)[h - 1]
        <3>1. h # 0 => h - 1 \in Nat /\ h - 1 <= h
            OBVIOUS
        <3> HIDE DEF G
        <3> QED
            BY <1>1, <3>1, ClimbAgree
    <2>2. h # 0 => f[h - 1] = G(h)[h - 1]
        BY <2>1
    <2>3. f[h] = ClimbStep(digest, siblings, k, n, G(h), h)
        BY <1>1, ClimbAt
    <2> HIDE DEF f, G
    <2> QED
        BY <2>2, <2>3, ClimbLocal
<1>3. f = [h \in Nat |-> f[h]]
    OBVIOUS
<1> HIDE DEF f
<1> QED
    BY <1>2, <1>3

\* The digest after so much of the proof.
After(digest, siblings, k, n) ==
    CHOOSE f : f = [h \in Nat |-> ClimbStep(digest, siblings, k, n, f, h)]

LEMMA AfterUnfolds ==
    ASSUME NEW digest, NEW siblings, NEW k, NEW n, NEW h \in Nat
    PROVE  After(digest, siblings, k, n)[h] =
                IF h = 0
                THEN digest
                ELSE IF OnLeft(k, n, h)
                THEN nodeDigest(After(digest, siblings, k, n)[h - 1], siblings[h])
                ELSE nodeDigest(siblings[h], After(digest, siblings, k, n)[h - 1])
<1> DEFINE f == After(digest, siblings, k, n)
<1>1. f = [m \in Nat |-> ClimbStep(digest, siblings, k, n, f, m)]
    BY ClimbWhole DEF After
<1> HIDE DEF f
<1>2. f[h] = ClimbStep(digest, siblings, k, n, f, h)
    BY <1>1
<1> QED
    BY <1>2 DEF ClimbStep, f

LEMMA ClimbIsAfter ==
    ASSUME NEW digest, NEW siblings, NEW k, NEW n
    PROVE  climb(digest, siblings, k, n) = After(digest, siblings, k, n)[Len(siblings)]
BY Zenon DEF climb, After, ClimbStep

-----------------------------------------------------------------------------
(* Products, quotients and powers of two *)

LEMMA Product ==
    ASSUME NEW a \in Nat, NEW b \in Nat
    PROVE  a * b \in Nat
OBVIOUS

\* What is before the end of a block of width w is not in the next one.
LEMMA BlockOrder ==
    ASSUME NEW a \in Nat, NEW b \in Nat, NEW w \in Nat \ {0}
    PROVE  a * w < b * w <=> a < b
<1>1. ASSUME a < b
      PROVE  a * w < b * w
    <2>1. (b - a - 1) * w \in Nat
        BY <1>1, Product
    <2>2. (b - a - 1) * w = b * w - a * w - w
        OBVIOUS
    <2> QED
        BY <2>1, <2>2
<1>2. ASSUME b <= a
      PROVE  b * w <= a * w
    <2>1. (a - b) * w \in Nat
        BY <1>2, Product
    <2>2. (a - b) * w = a * w - b * w
        OBVIOUS
    <2> QED
        BY <2>1, <2>2
<1> QED
    BY <1>1, <1>2

LEMMA Quotient ==
    ASSUME NEW k \in Nat, NEW w \in Nat \ {0}
    PROVE  /\ k \div w \in Nat
           /\ (k \div w) * w <= k
           /\ k < (k \div w + 1) * w
OBVIOUS

LEMMA QuotientUnique ==
    ASSUME NEW k \in Nat, NEW w \in Nat \ {0}, NEW q \in Nat,
           q * w <= k, k < (q + 1) * w
    PROVE  k \div w = q
<1> DEFINE p == k \div w
<1>1. p \in Nat /\ p * w <= k /\ k < (p + 1) * w
    BY Quotient
<1> HIDE DEF p
<1>2. p * w < (q + 1) * w /\ q * w < (p + 1) * w
    BY <1>1
<1>3. p < q + 1 /\ q < p + 1
    BY <1>1, <1>2, BlockOrder
<1> QED
    BY <1>1, <1>3 DEF p

LEMMA ShiftNext ==
    ASSUME NEW h \in Nat
    PROVE  Shift[0] = 1 /\ Shift[h + 1] = 2 * Shift[h]
BY ShiftUnfolds

LEMMA ShiftGrows ==
    ASSUME NEW h \in Nat
    PROVE  Shift[h] \in Nat /\ Shift[h] > h
<1> DEFINE P == {m \in Nat : Shift[m] \in Nat /\ Shift[m] > m}
<1>1. 0 \in P
    BY ShiftNext
<1>2. ASSUME NEW m \in Nat, m \in P
      PROVE  m + 1 \in P
    BY <1>2, ShiftNext
<1> HIDE DEF P
<1>3. h \in P
    BY <1>1, <1>2, Induction
<1> QED
    BY <1>3 DEF P

LEMMA ShiftType ==
    ASSUME NEW h \in Nat
    PROVE  Shift[h] \in Nat \ {0}
BY ShiftGrows

\* 1 << (a + b) is (1 << a) * (1 << b).
LEMMA ShiftSum ==
    ASSUME NEW a \in Nat, NEW b \in Nat
    PROVE  Shift[a + b] = Shift[a] * Shift[b]
<1> DEFINE P == {m \in Nat : Shift[a + m] = Shift[a] * Shift[m]}
<1>1. 0 \in P
    BY ShiftNext, ShiftType
<1>2. ASSUME NEW m \in Nat, m \in P
      PROVE  m + 1 \in P
    <2>1. Shift[a + m] = Shift[a] * Shift[m]
        BY <1>2
    <2>2. Shift[a + (m + 1)] = 2 * Shift[a + m]
        <3>1. a + (m + 1) = (a + m) + 1 /\ a + m \in Nat
            OBVIOUS
        <3> QED
            BY <3>1, ShiftNext
    <2>3. Shift[m + 1] = 2 * Shift[m]
        BY ShiftNext
    <2>4. Shift[a] \in Nat /\ Shift[m] \in Nat
        BY ShiftType
    <2> QED
        BY <2>1, <2>2, <2>3, <2>4
<1> HIDE DEF P
<1>3. b \in P
    BY <1>1, <1>2, Induction
<1> QED
    BY <1>3 DEF P

LEMMA ShiftMonotone ==
    ASSUME NEW a \in Nat, NEW b \in Nat, a <= b
    PROVE  Shift[a] <= Shift[b]
<1>1. b - a \in Nat /\ a + (b - a) = b
    OBVIOUS
<1>2. Shift[b] = Shift[a] * Shift[b - a]
    BY <1>1, ShiftSum
<1>3. Shift[a] * (Shift[b - a] - 1) \in Nat
    BY <1>1, ShiftType, Product
<1>4. Shift[a] \in Nat /\ Shift[b - a] \in Nat
    BY <1>1, ShiftType
<1> QED
    BY <1>2, <1>3, <1>4

\* The height of a tree of two leaves or more: the subtree on its left, half of
\* the width, is full, and there is one leaf or more on its right.
LEMMA Height ==
    ASSUME NEW n \in Nat \ {0}
    PROVE  /\ treeHeight(n) \in Nat
           /\ Shift[treeHeight(n)] >= n
           /\ \A c \in 0 .. treeHeight(n) - 1 : Shift[c] < n
<1> DEFINE Q == {b \in Nat : Shift[b] >= n}
<1>1. n \in Q
    BY ShiftGrows
<1>2. PICK m \in Q : \A j \in Q : m <= j
    BY <1>1, Least
<1>3. /\ m \in 0 .. n
      /\ Shift[m] >= n
      /\ \A c \in 0 .. m - 1 : Shift[c] < n
    <2>1. \A c \in 0 .. m - 1 : c \in Nat /\ c \notin Q
        BY <1>2
    <2> QED
        BY <1>1, <1>2, <2>1, ShiftType
<1>4. \E b \in 0 .. n : Shift[b] >= n /\ \A c \in 0 .. b - 1 : Shift[c] < n
    BY <1>3
<1> HIDE DEF Q
<1> QED
    BY <1>4 DEF treeHeight

LEMMA HeightOfOne ==
    ASSUME TRUE
    PROVE  treeHeight(1) = 0
<1>1. treeHeight(1) \in Nat /\ \A c \in 0 .. treeHeight(1) - 1 : Shift[c] < 1
    BY Height
<1>2. Shift[0] = 1
    BY ShiftNext
<1> QED
    BY <1>1, <1>2

LEMMA HeightOfMore ==
    ASSUME NEW n \in Nat, n >= 2
    PROVE  /\ treeHeight(n) - 1 \in Nat
           /\ Shift[treeHeight(n) - 1] < n
           /\ n <= 2 * Shift[treeHeight(n) - 1]
<1> DEFINE H == treeHeight(n)
<1>1. H \in Nat /\ Shift[H] >= n /\ \A c \in 0 .. H - 1 : Shift[c] < n
    BY Height
<1> HIDE DEF H
<1>2. H # 0
    BY <1>1, ShiftNext
<1>3. H - 1 \in Nat /\ (H - 1) + 1 = H
    BY <1>1, <1>2
<1>4. Shift[H] = 2 * Shift[H - 1]
    BY <1>3, ShiftNext
<1> QED
    BY <1>1, <1>3, <1>4, ShiftType DEF H

-----------------------------------------------------------------------------
(* PathLength is well defined: it asks for smaller trees only *)

LeftWidth(n) == Shift[treeHeight(n) - 1]

LengthStep(g, n) ==
    [k \in Nat |->
        IF n <= 1
        THEN 0
        ELSE IF k <= LeftWidth(n) - 1
        THEN treeHeight(n)
        ELSE IF LeftWidth(n) = 1 \/ n - LeftWidth(n) <= 1
        THEN 1
        ELSE 1 + g[n - LeftWidth(n)][k - LeftWidth(n)]]

\* g is the function up to N.
LengthUpTo(g, N) == g = [n \in 0 .. N |-> LengthStep(g, n)]

LEMMA LengthAt ==
    ASSUME NEW g, NEW N \in Nat, LengthUpTo(g, N), NEW n \in 0 .. N
    PROVE  g[n] = LengthStep(g, n)
BY DEF LengthUpTo

LEMMA LengthLocal ==
    ASSUME NEW g, NEW f, NEW n \in Nat, \A m \in 0 .. n - 1 : g[m] = f[m]
    PROVE  LengthStep(g, n) = LengthStep(f, n)
<1>1. CASE n <= 1
    BY <1>1 DEF LengthStep
<1>2. CASE n >= 2
    <2>1. LeftWidth(n) \in Nat \ {0}
        BY <1>2, HeightOfMore, ShiftType DEF LeftWidth
    <2>2. LeftWidth(n) < n
        BY <1>2, HeightOfMore DEF LeftWidth
    <2>3. g[n - LeftWidth(n)] = f[n - LeftWidth(n)]
        BY <2>1, <2>2
    <2> QED
        BY <2>3 DEF LengthStep
<1> QED
    BY <1>1, <1>2

LEMMA LengthAgree ==
    ASSUME NEW g, NEW f, NEW N \in Nat, NEW M \in Nat, N <= M,
           LengthUpTo(g, N), LengthUpTo(f, M), NEW n \in 0 .. N
    PROVE  g[n] = f[n]
<1> DEFINE P == {m \in Nat : m <= N => g[m] = f[m]}
<1>1. ASSUME NEW m \in Nat, \A j \in 0 .. m - 1 : j \in P
      PROVE  m \in P
    <2>1. SUFFICES ASSUME m <= N
                   PROVE  g[m] = f[m]
        OBVIOUS
    <2>2. \A j \in 0 .. m - 1 : g[j] = f[j]
        BY <1>1, <2>1
    <2>3. LengthStep(g, m) = LengthStep(f, m)
        BY <2>2, LengthLocal
    <2> QED
        BY <2>1, <2>3, LengthAt
<1> HIDE DEF P
<1>2. n \in P
    BY <1>1, StrongInduction
<1> QED
    BY <1>2 DEF P

LEMMA LengthExists ==
    ASSUME NEW N \in Nat
    PROVE  \E g : LengthUpTo(g, N)
<1> DEFINE P == {M \in Nat : \E g : LengthUpTo(g, M)}
<1>1. 0 \in P
    <2> DEFINE g == [n \in 0 .. 0 |-> LengthStep(<<>>, 0)]
    <2>1. \A n \in 0 .. 0 : g[n] = LengthStep(g, n)
        BY LengthLocal
    <2>2. g = [n \in 0 .. 0 |-> g[n]]
        OBVIOUS
    <2> HIDE DEF g
    <2>3. LengthUpTo(g, 0)
        BY <2>1, <2>2 DEF LengthUpTo
    <2> QED
        BY <2>3
<1>2. ASSUME NEW M \in Nat, M \in P
      PROVE  M + 1 \in P
    <2>1. PICK g : LengthUpTo(g, M)
        BY <1>2
    <2> DEFINE f == [n \in 0 .. M + 1 |-> IF n <= M THEN g[n] ELSE LengthStep(g, M + 1)]
    <2>2. ASSUME NEW n \in 0 .. M + 1
          PROVE  f[n] = LengthStep(f, n)
        <3>1. \A m \in 0 .. n - 1 : f[m] = g[m]
            OBVIOUS
        <3>2. f[n] = LengthStep(g, n)
            BY <2>1, LengthAt
        <3> HIDE DEF f
        <3> QED
            BY <3>1, <3>2, LengthLocal
    <2>3. f = [n \in 0 .. M + 1 |-> f[n]]
        OBVIOUS
    <2> HIDE DEF f
    <2>4. LengthUpTo(f, M + 1)
        BY <2>2, <2>3 DEF LengthUpTo
    <2> QED
        BY <2>4
<1> HIDE DEF P
<1>3. N \in P
    BY <1>1, <1>2, Induction
<1> QED
    BY <1>3 DEF P

LEMMA LengthWhole ==
    ASSUME TRUE
    PROVE  \E f : f = [n \in Nat |-> LengthStep(f, n)]
<1> DEFINE G(N) == CHOOSE g : LengthUpTo(g, N)
<1> DEFINE f == [n \in Nat |-> G(n)[n]]
<1>1. \A N \in Nat : LengthUpTo(G(N), N)
    BY LengthExists
<1>2. ASSUME NEW n \in Nat
      PROVE  f[n] = LengthStep(f, n)
    <2>1. \A m \in 0 .. n - 1 : G(m)[m] = G(n)[m]
        <3>1. \A m \in 0 .. n - 1 : m \in Nat /\ m <= n /\ m \in 0 .. m
            OBVIOUS
        <3> HIDE DEF G
        <3> QED
            BY <1>1, <3>1, LengthAgree
    <2>2. \A m \in 0 .. n - 1 : f[m] = G(n)[m]
        BY <2>1
    <2>3. f[n] = LengthStep(G(n), n)
        BY <1>1, LengthAt
    <2> HIDE DEF f, G
    <2> QED
        BY <2>2, <2>3, LengthLocal
<1>3. f = [n \in Nat |-> f[n]]
    OBVIOUS
<1> HIDE DEF f
<1> QED
    BY <1>2, <1>3

LEMMA LengthUnfolds ==
    ASSUME NEW n \in Nat, NEW k \in Nat
    PROVE  PathLength[n][k] =
                IF n <= 1
                THEN 0
                ELSE IF k <= LeftWidth(n) - 1
                THEN treeHeight(n)
                ELSE IF LeftWidth(n) = 1 \/ n - LeftWidth(n) <= 1
                THEN 1
                ELSE 1 + PathLength[n - LeftWidth(n)][k - LeftWidth(n)]
<1>1. PathLength = CHOOSE f : f = [m \in Nat |-> LengthStep(f, m)]
    BY Zenon DEF PathLength, LengthStep, LeftWidth
<1>2. PathLength = [m \in Nat |-> LengthStep(PathLength, m)]
    BY <1>1, LengthWhole
<1>3. PathLength[n] = LengthStep(PathLength, n)
    BY <1>2
<1> QED
    BY <1>3 DEF LengthStep

-----------------------------------------------------------------------------
(* The way from a leaf to the root *)

\* The first leaf that is not below the node of level h above leaf k.
EndAbove(k, h) == (NodeAbove(k, h) + 1) * Shift[h]

LEMMA NodeType ==
    ASSUME NEW k \in Nat, NEW h \in Nat
    PROVE  /\ NodeAbove(k, h) \in Nat
           /\ NodeAbove(k, h) * Shift[h] <= k
           /\ k < EndAbove(k, h)
           /\ EndAbove(k, h) \in Nat
<1>1. Shift[h] \in Nat \ {0}
    BY ShiftType
<1>2. NodeAbove(k, h) \in Nat
    BY <1>1, Quotient DEF NodeAbove
<1>3. EndAbove(k, h) \in Nat
    BY <1>1, <1>2, Product DEF EndAbove
<1> QED
    BY <1>1, <1>2, <1>3, Quotient DEF NodeAbove, EndAbove

LEMMA NodeOfLeaf ==
    ASSUME NEW k \in Nat
    PROVE  NodeAbove(k, 0) = k
<1>1. Shift[0] = 1
    BY ShiftNext
<1> QED
    BY <1>1, QuotientUnique DEF NodeAbove

\* A node is the first or the second half of the one above it.
LEMMA NodeNext ==
    ASSUME NEW k \in Nat, NEW h \in Nat
    PROVE  \/ NodeAbove(k, h) = 2 * NodeAbove(k, h + 1)
           \/ NodeAbove(k, h) = 2 * NodeAbove(k, h + 1) + 1
<1> DEFINE w == Shift[h]
           i == NodeAbove(k, h)
           j == NodeAbove(k, h + 1)
<1>1. w \in Nat \ {0} /\ Shift[h + 1] = 2 * w
    BY ShiftType, ShiftNext
<1>2. i \in Nat /\ i * w <= k /\ k < (i + 1) * w
    BY NodeType DEF EndAbove
<1>3. j \in Nat /\ j * (2 * w) <= k /\ k < (j + 1) * (2 * w)
    <2>1. h + 1 \in Nat
        OBVIOUS
    <2>2. /\ j \in Nat
          /\ j * Shift[h + 1] <= k
          /\ k < (j + 1) * Shift[h + 1]
        BY <2>1, NodeType DEF EndAbove
    <2> QED
        BY <1>1, <2>2
<1> HIDE DEF w, i, j
<1>4. (2 * j) * w < (i + 1) * w
    BY <1>1, <1>2, <1>3
<1>5. i * w < (2 * j + 2) * w
    BY <1>1, <1>2, <1>3
<1>6. 2 * j < i + 1
    BY <1>1, <1>2, <1>3, <1>4, BlockOrder
<1>7. i < 2 * j + 2
    BY <1>1, <1>2, <1>3, <1>5, BlockOrder
<1> QED
    BY <1>2, <1>3, <1>6, <1>7 DEF i, j

LEMMA EndNext ==
    ASSUME NEW k \in Nat, NEW h \in Nat
    PROVE  /\ EndAbove(k, h) <= EndAbove(k, h + 1)
           /\ NodeAbove(k, h) % 2 = 0 => EndAbove(k, h) + Shift[h] = EndAbove(k, h + 1)
           /\ NodeAbove(k, h) % 2 # 0 => EndAbove(k, h) = EndAbove(k, h + 1)
<1> DEFINE w == Shift[h]
           i == NodeAbove(k, h)
           j == NodeAbove(k, h + 1)
<1>1. w \in Nat \ {0} /\ Shift[h + 1] = 2 * w
    BY ShiftType, ShiftNext
<1>2. i \in Nat /\ j \in Nat
    <2>1. h + 1 \in Nat
        OBVIOUS
    <2> QED
        BY <2>1, NodeType
<1>3. EndAbove(k, h) = (i + 1) * w /\ EndAbove(k, h + 1) = (j + 1) * (2 * w)
    BY <1>1 DEF EndAbove
<1>4. i = 2 * j \/ i = 2 * j + 1
    BY NodeNext
<1> HIDE DEF w, i, j
<1>5. CASE i = 2 * j
    <2>1. (i + 1) * w + w = (j + 1) * (2 * w)
        BY <1>1, <1>2, <1>5
    <2>2. i % 2 = 0
        BY <1>2, <1>5
    <2>3. (i + 1) * w \in Nat
        BY <1>1, <1>2, Product
    <2> QED
        BY <1>1, <1>3, <2>1, <2>2, <2>3 DEF i, w
<1>6. CASE i = 2 * j + 1
    <2>1. (i + 1) * w = (j + 1) * (2 * w)
        BY <1>1, <1>2, <1>6
    <2>2. i % 2 # 0
        BY <1>2, <1>6
    <2>3. (i + 1) * w \in Nat
        BY <1>1, <1>2, Product
    <2> QED
        BY <1>1, <1>3, <2>1, <2>2, <2>3 DEF i
<1> QED
    BY <1>4, <1>5, <1>6

LEMMA EndMonotone ==
    ASSUME NEW k \in Nat, NEW a \in Nat, NEW b \in Nat, a <= b
    PROVE  EndAbove(k, a) <= EndAbove(k, b)
<1> DEFINE P == {m \in Nat : a <= m => EndAbove(k, a) <= EndAbove(k, m)}
<1>1. 0 \in P
    BY NodeType
<1>2. ASSUME NEW m \in Nat, m \in P
      PROVE  m + 1 \in P
    <2>1. EndAbove(k, m) <= EndAbove(k, m + 1)
        BY EndNext
    <2>2. EndAbove(k, a) \in Nat /\ EndAbove(k, m) \in Nat /\ EndAbove(k, m + 1) \in Nat
        <3>1. m + 1 \in Nat
            OBVIOUS
        <3> QED
            BY <3>1, NodeType
    <2>3. CASE a <= m
        BY <1>2, <2>1, <2>2, <2>3
    <2>4. CASE a = m + 1
        BY <2>2, <2>4
    <2> QED
        BY <2>3, <2>4
<1> HIDE DEF P
<1>3. b \in P
    BY <1>1, <1>2, Induction
<1> QED
    BY <1>3 DEF P

\* All leaves are below the first node of the level that is as wide as the tree.
LEMMA NodeOnTop ==
    ASSUME NEW k \in Nat, NEW h \in Nat, k < Shift[h]
    PROVE  NodeAbove(k, h) = 0 /\ EndAbove(k, h) = Shift[h]
<1>1. Shift[h] \in Nat \ {0}
    BY ShiftType
<1>2. NodeAbove(k, h) = 0
    BY <1>1, QuotientUnique DEF NodeAbove
<1> QED
    BY <1>1, <1>2 DEF EndAbove

\* A right node has its neighbour; a left one has it when leaves follow.
LEMMA NeighbourWhen ==
    ASSUME NEW n \in Nat, NEW k \in Nat, k < n, NEW h \in Nat
    PROVE  HasNeighbour(n, NodeAbove(k, h), h)
                <=> (NodeAbove(k, h) % 2 # 0 \/ EndAbove(k, h) < n)
<1> DEFINE w == Shift[h]
           i == NodeAbove(k, h)
<1>1. w \in Nat \ {0}
    BY ShiftType
<1>2. i \in Nat /\ i * w <= k
    BY NodeType
<1>3. EndAbove(k, h) = (i + 1) * w
    BY DEF EndAbove
<1>4. HasNeighbour(n, NodeAbove(k, h), h) <=> Neighbour(i) * w < n
    BY DEF HasNeighbour
<1> HIDE DEF w, i
<1>5. CASE i % 2 = 0
    BY <1>3, <1>4, <1>5 DEF Neighbour, i
<1>6. CASE i % 2 # 0
    <2>1. Neighbour(i) = i - 1 /\ i - 1 \in Nat
        BY <1>2, <1>6 DEF Neighbour
    <2>2. (i - 1) * w = i * w - w /\ i * w \in Nat
        BY <1>1, <1>2, Product
    <2> QED
        BY <1>1, <1>2, <1>4, <1>6, <2>1, <2>2 DEF i
<1> QED
    BY <1>5, <1>6

-----------------------------------------------------------------------------
(* The length of a path *)

Nodes(n) == {Level[h][n][i] : h \in Nat, i \in Nat}

Steps(n, k, h) == Len(Path[h][n][k])

Joined(n, k, h) == HasNeighbour(n, NodeAbove(k, h), h)

LEMMA NeighbourType ==
    ASSUME NEW i \in Nat
    PROVE  Neighbour(i) \in Nat
BY DEF Neighbour

LEMMA PathNext ==
    ASSUME NEW n \in Nat, NEW k \in Nat, NEW h \in Nat
    PROVE  Path[h + 1][n][k] =
                IF Joined(n, k, h)
                THEN Append(Path[h][n][k], Level[h][n][Neighbour(NodeAbove(k, h))])
                ELSE Path[h][n][k]
<1>1. h + 1 \in Nat /\ h + 1 # 0 /\ (h + 1) - 1 = h
    OBVIOUS
<1>2. Path[h + 1][n][k] =
            IF HasNeighbour(n, NodeAbove(k, (h + 1) - 1), (h + 1) - 1)
            THEN Append(Path[(h + 1) - 1][n][k],
                        Level[(h + 1) - 1][n][Neighbour(NodeAbove(k, (h + 1) - 1))])
            ELSE Path[(h + 1) - 1][n][k]
    BY <1>1, PathUnfolds
<1> QED
    BY <1>1, <1>2 DEF Joined

LEMMA PathStart ==
    ASSUME NEW n \in Nat, NEW k \in Nat
    PROVE  Path[0][n][k] = <<>>
BY PathUnfolds

LEMMA PathType ==
    ASSUME NEW n \in Nat, NEW k \in Nat, NEW h \in Nat
    PROVE  Path[h][n][k] \in Seq(Nodes(n))
<1> DEFINE P == {m \in Nat : Path[m][n][k] \in Seq(Nodes(n))}
<1>1. 0 \in P
    BY PathStart, EmptySeq
<1>2. ASSUME NEW m \in Nat, m \in P
      PROVE  m + 1 \in P
    <2>1. Neighbour(NodeAbove(k, m)) \in Nat
        BY NodeType, NeighbourType
    <2>2. Level[m][n][Neighbour(NodeAbove(k, m))] \in Nodes(n)
        BY <2>1 DEF Nodes
    <2>3. Append(Path[m][n][k], Level[m][n][Neighbour(NodeAbove(k, m))]) \in Seq(Nodes(n))
        BY <1>2, <2>2, AppendProperties
    <2>4. Path[m + 1][n][k] \in Seq(Nodes(n))
        <3>1. CASE Joined(n, k, m)
            BY <2>3, <3>1, PathNext
        <3>2. CASE ~Joined(n, k, m)
            BY <1>2, <3>2, PathNext
        <3> QED
            BY <3>1, <3>2
    <2> QED
        BY <2>4
<1> HIDE DEF P
<1>3. h \in P
    BY <1>1, <1>2, Induction
<1> QED
    BY <1>3 DEF P

LEMMA StepsNext ==
    ASSUME NEW n \in Nat, NEW k \in Nat, NEW h \in Nat
    PROVE  /\ Steps(n, k, h) \in Nat
           /\ Steps(n, k, 0) = 0
           /\ Steps(n, k, h + 1) = Steps(n, k, h) + (IF Joined(n, k, h) THEN 1 ELSE 0)
<1>1. Path[h][n][k] \in Seq(Nodes(n))
    BY PathType
<1>2. Steps(n, k, h) \in Nat
    BY <1>1, LenProperties DEF Steps
<1>3. Steps(n, k, 0) = 0
    BY PathStart, EmptySeq DEF Steps
<1>4. Neighbour(NodeAbove(k, h)) \in Nat
    BY NodeType, NeighbourType
<1>5. Level[h][n][Neighbour(NodeAbove(k, h))] \in Nodes(n)
    BY <1>4 DEF Nodes
<1>6. CASE Joined(n, k, h)
    <2>1. Path[h + 1][n][k] = Append(Path[h][n][k], Level[h][n][Neighbour(NodeAbove(k, h))])
        BY <1>6, PathNext
    <2>2. Steps(n, k, h + 1) = Steps(n, k, h) + 1
        BY <1>1, <1>5, <2>1, AppendProperties DEF Steps
    <2> QED
        BY <1>2, <1>3, <1>6, <2>2
<1>7. CASE ~Joined(n, k, h)
    <2>1. Steps(n, k, h + 1) = Steps(n, k, h)
        BY <1>7, PathNext DEF Steps
    <2> QED
        BY <1>2, <1>3, <1>7, <2>1
<1> QED
    BY <1>6, <1>7

\* A leaf whose nodes all have a neighbour takes every step.
LEMMA StepsAll ==
    ASSUME NEW n \in Nat, NEW k \in Nat, NEW h \in Nat,
           \A g \in 0 .. h - 1 : Joined(n, k, g)
    PROVE  Steps(n, k, h) = h
<1> DEFINE P == {m \in Nat : m <= h => Steps(n, k, m) = m}
<1>1. 0 \in P
    BY StepsNext
<1>2. ASSUME NEW m \in Nat, m \in P
      PROVE  m + 1 \in P
    <2>1. SUFFICES ASSUME m + 1 <= h
                   PROVE  Steps(n, k, m + 1) = m + 1
        OBVIOUS
    <2>2. Steps(n, k, m) = m /\ Joined(n, k, m)
        BY <1>2, <2>1
    <2> QED
        BY <2>2, StepsNext
<1> HIDE DEF P
<1>3. h \in P
    BY <1>1, <1>2, Induction
<1> QED
    BY <1>3 DEF P

LEMMA StepsMonotone ==
    ASSUME NEW n \in Nat, NEW k \in Nat, NEW a \in Nat, NEW b \in Nat, a <= b
    PROVE  Steps(n, k, a) <= Steps(n, k, b)
<1> DEFINE P == {m \in Nat : a <= m => Steps(n, k, a) <= Steps(n, k, m)}
<1>1. 0 \in P
    BY StepsNext
<1>2. ASSUME NEW m \in Nat, m \in P
      PROVE  m + 1 \in P
    <2>1. Steps(n, k, m) <= Steps(n, k, m + 1)
        <3>1. CASE Joined(n, k, m)
            BY <3>1, StepsNext
        <3>2. CASE ~Joined(n, k, m)
            BY <3>2, StepsNext
        <3> QED
            BY <3>1, <3>2
    <2>2. Steps(n, k, a) \in Nat /\ Steps(n, k, m) \in Nat /\ Steps(n, k, m + 1) \in Nat
        <3>1. m + 1 \in Nat
            OBVIOUS
        <3> QED
            BY <3>1, StepsNext
    <2>3. CASE a <= m
        BY <1>2, <2>1, <2>2, <2>3
    <2>4. CASE a = m + 1
        BY <2>2, <2>4
    <2> QED
        BY <2>3, <2>4
<1> HIDE DEF P
<1>3. b \in P
    BY <1>1, <1>2, Induction
<1> QED
    BY <1>3 DEF P

\* In the full subtree on the left, every node has a neighbour.
LEMMA LeftSteps ==
    ASSUME NEW n \in Nat, n >= 2, NEW k \in Nat, k < LeftWidth(n)
    PROVE  Steps(n, k, treeHeight(n)) = treeHeight(n)
<1> DEFINE H == treeHeight(n)
<1>1. H - 1 \in Nat /\ Shift[H - 1] < n /\ k < Shift[H - 1]
    BY HeightOfMore DEF LeftWidth
<1> HIDE DEF H
<1>2. ASSUME NEW g \in 0 .. H - 1
      PROVE  Joined(n, k, g)
    <2> g \in Nat /\ g <= H - 1
        BY <1>1
    <2>1. EndAbove(k, g) <= EndAbove(k, H - 1)
        BY <1>1, EndMonotone
    <2>2. EndAbove(k, H - 1) = Shift[H - 1]
        BY <1>1, NodeOnTop
    <2>3. EndAbove(k, g) \in Nat /\ Shift[H - 1] \in Nat
        BY <1>1, NodeType, ShiftType
    <2>4. EndAbove(k, g) < n
        BY <1>1, <2>1, <2>2, <2>3
    <2>5. k < n
        BY <1>1, <2>3
    <2> QED
        BY <2>4, <2>5, NeighbourWhen DEF Joined
<1>3. H \in Nat
    BY <1>1, Height DEF H
<1> QED
    BY <1>2, <1>3, StepsAll DEF H

\* The rest of the tree is a tree of its own: its nodes are as many places
\* further on as there are nodes in the left subtree.
LEMMA RightNodes ==
    ASSUME NEW m \in Nat, NEW h \in 0 .. m, NEW k \in Nat
    PROVE  /\ NodeAbove(k + Shift[m], h) = NodeAbove(k, h) + Shift[m - h]
           /\ EndAbove(k + Shift[m], h) = EndAbove(k, h) + Shift[m]
<1> DEFINE w == Shift[h]
           c == Shift[m - h]
           i == NodeAbove(k, h)
<1> h \in Nat /\ m - h \in Nat
    OBVIOUS
<1>1. w \in Nat \ {0} /\ c \in Nat
    BY ShiftType
<1>2. Shift[m] = w * c
    <2>1. m - h \in Nat /\ h + (m - h) = m
        OBVIOUS
    <2> QED
        BY <2>1, ShiftSum
<1>3. i \in Nat /\ i * w <= k /\ k < (i + 1) * w
    BY NodeType DEF EndAbove
<1>4. w * c \in Nat
    BY <1>1, Product
<1> HIDE DEF w, c, i
<1>5. (i + c) * w <= k + w * c
    BY <1>1, <1>3, <1>4
<1>6. k + w * c < (i + c + 1) * w
    BY <1>1, <1>3, <1>4
<1>7. (k + w * c) \div w = i + c
    BY <1>1, <1>3, <1>4, <1>5, <1>6, QuotientUnique
<1>8. NodeAbove(k + Shift[m], h) = i + c
    BY <1>2, <1>7 DEF NodeAbove, w
<1>9. EndAbove(k + Shift[m], h) = (i + c + 1) * w
    BY <1>8 DEF EndAbove, w
<1>10. EndAbove(k, h) = (i + 1) * w
    BY DEF EndAbove, i, w
<1>11. (i + c + 1) * w = (i + 1) * w + w * c
    BY <1>1, <1>3
<1> QED
    BY <1>2, <1>8, <1>9, <1>10, <1>11 DEF i, c

LEMMA RightJoined ==
    ASSUME NEW m \in Nat, NEW h \in Nat, h < m, NEW n \in Nat, NEW k \in Nat, k < n
    PROVE  Joined(n + Shift[m], k + Shift[m], h) <=> Joined(n, k, h)
<1> DEFINE i == NodeAbove(k, h)
           c == Shift[m - h]
<1>1. Shift[m] \in Nat /\ i \in Nat /\ EndAbove(k, h) \in Nat
    BY ShiftType, NodeType
<1>2. NodeAbove(k + Shift[m], h) = i + c /\ EndAbove(k + Shift[m], h) = EndAbove(k, h) + Shift[m]
    BY RightNodes
<1>3. \E d \in Nat : c = 2 * d
    <2>1. m - h - 1 \in Nat /\ (m - h - 1) + 1 = m - h
        OBVIOUS
    <2>2. c = 2 * Shift[m - h - 1]
        BY <2>1, ShiftNext
    <2> QED
        BY <2>1, <2>2, ShiftType
<1>4. Joined(n, k, h) <=> (i % 2 # 0 \/ EndAbove(k, h) < n)
    BY NeighbourWhen DEF Joined
<1>5. Joined(n + Shift[m], k + Shift[m], h)
        <=> ((i + c) % 2 # 0 \/ EndAbove(k, h) + Shift[m] < n + Shift[m])
    <2>1. n + Shift[m] \in Nat /\ k + Shift[m] \in Nat /\ k + Shift[m] < n + Shift[m]
        BY <1>1
    <2> QED
        BY <1>2, <2>1, NeighbourWhen DEF Joined
<1> HIDE DEF i, c
<1>6. (i + c) % 2 = i % 2
    BY <1>1, <1>3
<1> QED
    BY <1>1, <1>4, <1>5, <1>6

LEMMA RightSteps ==
    ASSUME NEW m \in Nat, NEW n \in Nat, NEW k \in Nat, k < n
    PROVE  Steps(n + Shift[m], k + Shift[m], m) = Steps(n, k, m)
<1> DEFINE P == {h \in Nat : h <= m => Steps(n + Shift[m], k + Shift[m], h) = Steps(n, k, h)}
<1>1. n + Shift[m] \in Nat /\ k + Shift[m] \in Nat
    BY ShiftType
<1>2. 0 \in P
    BY <1>1, StepsNext
<1>3. ASSUME NEW h \in Nat, h \in P
      PROVE  h + 1 \in P
    <2>1. SUFFICES ASSUME h + 1 <= m
                   PROVE  Steps(n + Shift[m], k + Shift[m], h + 1) = Steps(n, k, h + 1)
        OBVIOUS
    <2>2. Steps(n + Shift[m], k + Shift[m], h) = Steps(n, k, h)
        BY <1>3, <2>1
    <2>3. Joined(n + Shift[m], k + Shift[m], h) <=> Joined(n, k, h)
        BY <2>1, RightJoined
    <2>4. Steps(n + Shift[m], k + Shift[m], h + 1) =
              Steps(n + Shift[m], k + Shift[m], h)
                + (IF Joined(n + Shift[m], k + Shift[m], h) THEN 1 ELSE 0)
        BY <1>1, StepsNext
    <2>5. Steps(n, k, h + 1) = Steps(n, k, h) + (IF Joined(n, k, h) THEN 1 ELSE 0)
        BY StepsNext
    <2> QED
        BY <2>2, <2>3, <2>4, <2>5, Zenon
<1> HIDE DEF P
<1>4. m \in P
    BY <1>2, <1>3, Induction
<1> QED
    BY <1>4 DEF P

\* Above the root of its own tree, a leaf takes no more steps.
LEMMA StepsOnTop ==
    ASSUME NEW n \in Nat, NEW k \in Nat, k < n, NEW a \in Nat, Shift[a] >= n,
           NEW b \in Nat, a <= b
    PROVE  Steps(n, k, b) = Steps(n, k, a)
<1> DEFINE P == {m \in Nat : a <= m => Steps(n, k, m) = Steps(n, k, a)}
<1>1. 0 \in P
    OBVIOUS
<1>2. ASSUME NEW m \in Nat, m \in P
      PROVE  m + 1 \in P
    <2>1. CASE m + 1 = a
        BY <2>1
    <2>2. CASE m + 1 < a
        BY <2>2
    <2>3. CASE a <= m
        <3>1. Shift[a] <= Shift[m] /\ Shift[a] \in Nat /\ Shift[m] \in Nat
            BY <2>3, ShiftMonotone, ShiftType
        <3>2. k < Shift[m] /\ n <= Shift[m]
            BY <3>1
        <3>3. NodeAbove(k, m) = 0 /\ EndAbove(k, m) = Shift[m]
            BY <3>2, NodeOnTop
        <3>4. ~Joined(n, k, m)
            BY <3>1, <3>2, <3>3, NeighbourWhen DEF Joined
        <3> QED
            BY <1>2, <2>3, <3>4, StepsNext
    <2> QED
        BY <2>1, <2>2, <2>3
<1> HIDE DEF P
<1>3. b \in P
    BY <1>1, <1>2, Induction
<1> QED
    BY <1>3 DEF P

\* pathLengthFromKey() counts the neighbours on the way to the root.
LEMMA LengthOfPath ==
    ASSUME NEW n \in Nat \ {0}, NEW k \in Nat, k < n
    PROVE  PathLength[n][k] = Steps(n, k, treeHeight(n))
<1> DEFINE P == {m \in Nat : m # 0 => \A j \in 0 .. m - 1 :
                                PathLength[m][j] = Steps(m, j, treeHeight(m))}
<1>1. ASSUME NEW m \in Nat, \A l \in 0 .. m - 1 : l \in P
      PROVE  m \in P
    <2>1. SUFFICES ASSUME m # 0, NEW j \in 0 .. m - 1
                   PROVE  PathLength[m][j] = Steps(m, j, treeHeight(m))
        OBVIOUS
    <2>2. CASE m = 1
        <3>1. j = 0 /\ j \in Nat
            BY <2>2
        <3>2. PathLength[m][j] = 0
            BY <2>2, <3>1, LengthUnfolds
        <3>3. Steps(m, j, 0) = 0
            BY <3>1, StepsNext
        <3> QED
            BY <2>2, <3>2, <3>3, HeightOfOne
    <2>3. CASE m >= 2
        <3> DEFINE H == treeHeight(m)
                   L == LeftWidth(m)
        <3>1. H - 1 \in Nat /\ L = Shift[H - 1] /\ L \in Nat \ {0} /\ L < m /\ m <= 2 * L
            BY <2>3, HeightOfMore, ShiftType DEF LeftWidth
        <3>2. CASE j < L
            BY <2>3, <3>1, <3>2, LeftSteps, LengthUnfolds
        <3>3. CASE j >= L
            <4> DEFINE r == m - L
                       i == j - L
            <4>1. r \in Nat \ {0} /\ r < m /\ r <= L /\ i \in 0 .. r - 1 /\ m = r + L /\ j = i + L
                BY <3>1, <3>3
            <4>2. PathLength[r][i] = Steps(r, i, treeHeight(r))
                BY <1>1, <4>1
            <4>3. r = 1 => PathLength[r][i] = 0
                BY <4>1, LengthUnfolds
            <4>4. PathLength[m][j] = 1 + PathLength[r][i]
                <5>1. PathLength[m][j] = IF L = 1 \/ r <= 1 THEN 1 ELSE 1 + PathLength[r][i]
                    BY <2>3, <3>1, <3>3, LengthUnfolds
                <5>2. L = 1 \/ r <= 1 <=> r = 1
                    BY <3>1, <4>1
                <5> HIDE DEF r, i, L
                <5> QED
                    BY <4>3, <5>1, <5>2
            <4>5. treeHeight(r) \in Nat /\ Shift[treeHeight(r)] >= r
                BY <4>1, Height
            <4>6. treeHeight(r) <= H - 1
                <5>1. \A c \in 0 .. treeHeight(r) - 1 : Shift[c] < r
                    BY <4>1, Height
                <5> QED
                    BY <3>1, <4>1, <4>5, <5>1
            <4>7. Steps(r, i, H - 1) = Steps(r, i, treeHeight(r))
                BY <3>1, <4>1, <4>5, <4>6, StepsOnTop
            <4>8. Steps(m, j, H - 1) = Steps(r, i, H - 1)
                BY <3>1, <4>1, RightSteps
            <4>9. Joined(m, j, H - 1)
                <5>1. i < Shift[H - 1]
                    BY <3>1, <4>1
                <5>2. NodeAbove(i, H - 1) = 0
                    BY <3>1, <4>1, <5>1, NodeOnTop
                <5>3. NodeAbove(j, H - 1) = NodeAbove(i, H - 1) + Shift[(H - 1) - (H - 1)]
                    <6>1. H - 1 \in 0 .. H - 1 /\ i \in Nat /\ j = i + Shift[H - 1]
                        BY <3>1, <4>1
                    <6> HIDE DEF H, i
                    <6> QED
                        BY <3>1, <6>1, RightNodes
                <5>4. NodeAbove(j, H - 1) = 1
                    BY <3>1, <5>2, <5>3, ShiftNext
                <5> QED
                    BY <3>1, <5>4, NeighbourWhen DEF Joined
            <4>10. Steps(m, j, H) = Steps(m, j, H - 1) + 1
                <5>1. (H - 1) + 1 = H
                    BY <3>1, <2>3, Height
                <5> HIDE DEF H
                <5> QED
                    BY <3>1, <4>9, <5>1, StepsNext
            <4>11. Steps(r, i, treeHeight(r)) \in Nat
                BY <4>1, <4>5, StepsNext
            <4> HIDE DEF r, i, H, L
            <4> QED
                BY <4>2, <4>4, <4>7, <4>8, <4>10, <4>11 DEF H
        <3> QED
            BY <3>1, <3>2, <3>3
    <2> QED
        BY <2>1, <2>2, <2>3
<1> HIDE DEF P
<1>2. n \in P
    BY <1>1, StrongInduction
<1> QED
    BY <1>2 DEF P

-----------------------------------------------------------------------------
(* The rounds of the verifier *)

LEMMA SubTreeEnd ==
    ASSUME NEW k \in Nat, NEW h \in Nat
    PROVE  /\ subTreeStartIndex(k, h) = NodeAbove(k, h) * Shift[h]
           /\ subTreeEndIndex(k, h) = EndAbove(k, h) - 1
<1>1. NodeAbove(k, h) \in Nat /\ Shift[h] \in Nat
    BY NodeType, ShiftType
<1>2. subTreeStartIndex(k, h) = NodeAbove(k, h) * Shift[h]
    BY DEF subTreeStartIndex, NodeAbove
<1>3. subTreeEndIndex(k, h) = NodeAbove(k, h) * Shift[h] + Shift[h] - 1
    BY <1>2 DEF subTreeEndIndex
<1> QED
    BY <1>1, <1>2, <1>3 DEF EndAbove

LEMMA CompleteWhen ==
    ASSUME NEW k \in Nat, NEW n \in Nat, NEW h \in Nat
    PROVE  Complete(k, n, h) <=> EndAbove(k, h) <= n
<1>1. EndAbove(k, h) \in Nat
    BY NodeType
<1>2. Complete(k, n, h) <=> EndAbove(k, h) - 1 < n
    BY SubTreeEnd DEF Complete
<1> QED
    BY <1>1, <1>2

\* The loop ends: there is a smallest subtree that is not complete.
LEMMA RoundsOf ==
    ASSUME NEW n \in Nat, NEW k \in Nat, k < n
    PROVE  /\ Rounds(k, n) \in Nat
           /\ \A g \in 0 .. Rounds(k, n) : EndAbove(k, g) <= n
           /\ \A g \in Nat : g > Rounds(k, n) => EndAbove(k, g) > n
<1> DEFINE Q == {g \in Nat : g # 0 /\ ~Complete(k, n, g)}
<1>1. n \in Q
    <2>1. Shift[n] \in Nat /\ Shift[n] > n
        BY ShiftGrows
    <2>2. EndAbove(k, n) = Shift[n]
        BY <2>1, NodeOnTop
    <2> QED
        BY <2>1, <2>2, CompleteWhen
<1>2. PICK m \in Q : \A j \in Q : m <= j
    BY <1>1, Least
<1>3. /\ m - 1 \in 0 .. n
      /\ \A g \in 1 .. m - 1 : Complete(k, n, g)
      /\ ~Complete(k, n, (m - 1) + 1)
    <2>1. m <= n /\ m \in Nat /\ m # 0 /\ ~Complete(k, n, m)
        BY <1>1, <1>2
    <2>2. \A g \in 1 .. m - 1 : Complete(k, n, g)
        BY <1>2, <2>1
    <2>3. (m - 1) + 1 = m
        BY <2>1
    <2> QED
        BY <2>1, <2>2, <2>3
<1>4. \E h \in 0 .. n : (\A g \in 1 .. h : Complete(k, n, g)) /\ ~Complete(k, n, h + 1)
    BY <1>3
<1> HIDE DEF Q
<1>5. /\ Rounds(k, n) \in 0 .. n
      /\ \A g \in 1 .. Rounds(k, n) : Complete(k, n, g)
      /\ ~Complete(k, n, Rounds(k, n) + 1)
    BY <1>4 DEF Rounds
<1> DEFINE R == Rounds(k, n)
<1>6. R \in Nat /\ R + 1 \in Nat
    BY <1>5
<1>7. ASSUME NEW g \in 0 .. R
      PROVE  EndAbove(k, g) <= n
    <2>1. CASE g = 0
        <3>1. EndAbove(k, 0) = k + 1
            BY NodeOfLeaf, ShiftNext DEF EndAbove
        <3> QED
            BY <2>1, <3>1
    <2>2. CASE g # 0
        <3>1. g \in 1 .. R /\ g \in Nat
            BY <1>6, <2>2
        <3> QED
            BY <1>5, <3>1, CompleteWhen
    <2> QED
        BY <2>1, <2>2
<1>8. ASSUME NEW g \in Nat, g > R
      PROVE  EndAbove(k, g) > n
    <2>1. EndAbove(k, R + 1) <= EndAbove(k, g)
        BY <1>6, <1>8, EndMonotone
    <2>2. EndAbove(k, R + 1) \in Nat /\ EndAbove(k, g) \in Nat
        BY <1>6, NodeType
    <2>3. ~(EndAbove(k, R + 1) <= n)
        BY <1>5, <1>6, CompleteWhen
    <2> QED
        BY <2>1, <2>2, <2>3
<1> QED
    BY <1>6, <1>7, <1>8

\* Below the last complete subtree, every node has a neighbour.
LEMMA RoundsJoined ==
    ASSUME NEW n \in Nat, NEW k \in Nat, k < n, NEW h \in Nat, h < Rounds(k, n)
    PROVE  Joined(n, k, h)
<1>1. h + 1 \in Nat /\ h + 1 <= Rounds(k, n) /\ Rounds(k, n) \in Nat
    BY RoundsOf
<1>2. EndAbove(k, h + 1) <= n
    BY <1>1, RoundsOf
<1>3. EndAbove(k, h) \in Nat /\ EndAbove(k, h + 1) \in Nat /\ Shift[h] \in Nat \ {0}
    BY <1>1, NodeType, ShiftType
<1>4. NodeAbove(k, h) % 2 = 0 => EndAbove(k, h) < n
    BY <1>2, <1>3, EndNext
<1> QED
    BY <1>4, NeighbourWhen DEF Joined

\* The last complete subtree is a left node; the orphan test tells whether it
\* has a neighbour.
LEMMA AtLastRound ==
    ASSUME NEW n \in Nat, NEW k \in Nat, k < n
    PROVE  /\ NodeAbove(k, Rounds(k, n)) % 2 = 0
           /\ Joined(n, k, Rounds(k, n)) <=> RightSiblingNext(k, n, Rounds(k, n))
<1> DEFINE R == Rounds(k, n)
<1>1. R \in Nat /\ R + 1 \in Nat /\ EndAbove(k, R) <= n /\ EndAbove(k, R + 1) > n
    BY RoundsOf
<1>2. EndAbove(k, R) \in Nat /\ EndAbove(k, R + 1) \in Nat
    BY <1>1, NodeType
<1> HIDE DEF R
<1>3. NodeAbove(k, R) % 2 = 0
    <2>1. NodeAbove(k, R) % 2 # 0 => EndAbove(k, R) = EndAbove(k, R + 1)
        BY <1>1, EndNext
    <2> QED
        BY <1>1, <1>2, <2>1
<1>4. Joined(n, k, R) <=> EndAbove(k, R) < n
    BY <1>1, <1>3, NeighbourWhen DEF Joined
<1>5. stableEnd(k, R) = EndAbove(k, R) - 1
    <2>1. CASE R = 0
        <3>1. EndAbove(k, 0) = k + 1
            BY NodeOfLeaf, ShiftNext DEF EndAbove
        <3> QED
            BY <2>1, <3>1 DEF stableEnd
    <2>2. CASE R # 0
        BY <1>1, <2>2, SubTreeEnd DEF stableEnd
    <2> QED
        BY <2>1, <2>2
<1>6. RightSiblingNext(k, n, R) <=> EndAbove(k, R) < n
    BY <1>1, <1>2, <1>5 DEF RightSiblingNext
<1> QED
    BY <1>3, <1>4, <1>6 DEF R

LEMMA AboveRounds ==
    ASSUME NEW n \in Nat, NEW k \in Nat, k < n, NEW h \in Nat, h > Rounds(k, n)
    PROVE  Joined(n, k, h) <=> NodeAbove(k, h) % 2 # 0
<1>1. EndAbove(k, h) > n /\ EndAbove(k, h) \in Nat
    BY RoundsOf, NodeType
<1> QED
    BY <1>1, NeighbourWhen DEF Joined

LEMMA StepsInRounds ==
    ASSUME NEW n \in Nat, NEW k \in Nat, k < n, NEW h \in 0 .. Rounds(k, n)
    PROVE  Steps(n, k, h) = h
<1>1. Rounds(k, n) \in Nat
    BY RoundsOf
<1>2. h \in Nat /\ \A g \in 0 .. h - 1 : g \in Nat /\ g < Rounds(k, n)
    BY <1>1
<1>3. \A g \in 0 .. h - 1 : Joined(n, k, g)
    BY <1>2, RoundsJoined
<1> QED
    BY <1>2, <1>3, StepsAll

LEMMA inFirstHalfWhen ==
    ASSUME NEW k \in Nat, NEW h \in Nat
    PROVE  inFirstHalf(k, h + 1) <=> NodeAbove(k, h) % 2 = 0
<1> DEFINE w == Shift[h]
           i == NodeAbove(k, h)
           j == NodeAbove(k, h + 1)
<1>1. w \in Nat \ {0} /\ Shift[h + 1] = 2 * w
    BY ShiftType, ShiftNext
<1>2. i \in Nat /\ i * w <= k /\ k < (i + 1) * w
    BY NodeType DEF EndAbove
<1>3. h + 1 \in Nat /\ (h + 1) - 1 = h
    OBVIOUS
<1>4. j \in Nat
    BY <1>3, NodeType
<1>5. inFirstHalf(k, h + 1) <=> k - j * (2 * w) < w
    BY <1>1, <1>3, SubTreeEnd DEF inFirstHalf
<1>6. i = 2 * j \/ i = 2 * j + 1
    BY NodeNext
<1> HIDE DEF w, i, j
<1>7. CASE i = 2 * j
    <2>1. k < j * (2 * w) + w
        BY <1>1, <1>2, <1>4, <1>7
    <2>2. i % 2 = 0
        BY <1>4, <1>7
    <2>3. j * (2 * w) \in Nat
        BY <1>1, <1>4, Product
    <2> QED
        BY <1>1, <1>5, <2>1, <2>2, <2>3 DEF i
<1>8. CASE i = 2 * j + 1
    <2>1. j * (2 * w) + w <= k
        BY <1>1, <1>2, <1>4, <1>8
    <2>2. i % 2 # 0
        BY <1>4, <1>8
    <2>3. j * (2 * w) \in Nat
        BY <1>1, <1>4, Product
    <2> QED
        BY <1>1, <1>5, <2>1, <2>2, <2>3 DEF i
<1> QED
    BY <1>6, <1>7, <1>8

\* Where a node has a neighbour, the verifier hashes it on the side it is on.
LEMMA Direction ==
    ASSUME NEW n \in Nat, NEW k \in Nat, k < n, NEW h \in Nat, Joined(n, k, h)
    PROVE  OnLeft(k, n, Steps(n, k, h) + 1) <=> NodeAbove(k, h) % 2 = 0
<1> DEFINE R == Rounds(k, n)
           p == Steps(n, k, h)
<1>1. R \in Nat /\ p \in Nat
    BY RoundsOf, StepsNext
<1>2. OnLeft(k, n, p + 1) <=>
        IF p + 1 <= R
        THEN inFirstHalf(k, p + 1)
        ELSE p + 1 = R + 1 /\ RightSiblingNext(k, n, R)
    BY DEF OnLeft
<1> HIDE DEF R, p
<1>3. CASE h < R
    <2>1. p = h
        BY <1>1, <1>3, StepsInRounds DEF R, p
    <2> QED
        BY <1>1, <1>2, <1>3, <2>1, inFirstHalfWhen DEF p
<1>4. CASE h = R
    <2>1. p = R
        BY <1>1, <1>4, StepsInRounds DEF R, p
    <2>2. NodeAbove(k, h) % 2 = 0 /\ RightSiblingNext(k, n, R)
        BY <1>4, AtLastRound DEF R
    <2> QED
        BY <1>1, <1>2, <2>1, <2>2 DEF p
<1>5. CASE h > R
    <2>1. NodeAbove(k, h) % 2 # 0
        BY <1>5, AboveRounds DEF R
    <2>2. R + 1 \in Nat /\ R + 1 <= h
        BY <1>1, <1>5
    <2>3. Steps(n, k, R + 1) <= p
        BY <2>2, StepsMonotone DEF p
    <2>4. Steps(n, k, R) = R
        BY <1>1, StepsInRounds DEF R
    <2>5. Steps(n, k, R + 1) = Steps(n, k, R) + (IF Joined(n, k, R) THEN 1 ELSE 0)
        BY <1>1, StepsNext
    <2>6. CASE Joined(n, k, R)
        <3>1. p >= R + 1
            BY <1>1, <2>3, <2>4, <2>5, <2>6
        <3> QED
            BY <1>1, <1>2, <2>1, <3>1 DEF p
    <2>7. CASE ~Joined(n, k, R)
        <3>1. p >= R
            BY <1>1, <2>3, <2>4, <2>5, <2>7
        <3>2. ~RightSiblingNext(k, n, R)
            BY <2>7, AtLastRound DEF R
        <3> QED
            BY <1>1, <1>2, <2>1, <3>1, <3>2 DEF p
    <2> QED
        BY <2>6, <2>7
<1> QED
    BY <1>1, <1>3, <1>4, <1>5

-----------------------------------------------------------------------------
(* What the verifier hashes together, against what the tree is made of *)

\* The digest above the claimed leaf, when the siblings up to there are used.
Reached(n, k, leaf, siblings, h) ==
    After(leafDigest(leaf), siblings, k, n)[Steps(n, k, h)]

\* The leaf and these siblings are those of the tree.
GenuineUpTo(n, k, leaf, siblings, h) ==
    /\ leaf = k
    /\ \A q \in 1 .. Steps(n, k, h) : siblings[q] = Path[h][n][k][q]

LEMMA LevelNext ==
    ASSUME NEW n \in Nat, NEW k \in Nat, k < n, NEW h \in Nat
    PROVE  LET i == NodeAbove(k, h) IN
           Level[h + 1][n][NodeAbove(k, h + 1)] =
                IF Joined(n, k, h)
                THEN IF i % 2 = 0
                     THEN nodeDigest(Level[h][n][i], Level[h][n][Neighbour(i)])
                     ELSE nodeDigest(Level[h][n][Neighbour(i)], Level[h][n][i])
                ELSE Level[h][n][i]
<1> DEFINE w == Shift[h]
           i == NodeAbove(k, h)
           j == NodeAbove(k, h + 1)
<1>1. h + 1 \in Nat /\ h + 1 # 0 /\ (h + 1) - 1 = h
    OBVIOUS
<1>2. i \in Nat /\ j \in Nat /\ w \in Nat \ {0} /\ i * w <= k
    BY <1>1, NodeType, ShiftType
<1>3. Level[h + 1][n][j] =
            IF (2 * j + 1) * w < n
            THEN nodeDigest(Level[h][n][2 * j], Level[h][n][2 * j + 1])
            ELSE Level[h][n][2 * j]
    <2> HIDE DEF j
    <2>1. j \in Nat
        BY <1>2
    <2> QED
        BY <2>1, LevelUnfolds
<1>4. i = 2 * j \/ i = 2 * j + 1
    BY NodeNext
<1>5. Joined(n, k, h) <=> (i % 2 # 0 \/ (i + 1) * w < n)
    BY NeighbourWhen DEF Joined, EndAbove
<1> HIDE DEF w, i, j
<1>6. CASE i = 2 * j
    <2>1. i % 2 = 0 /\ Neighbour(i) = 2 * j + 1
        BY <1>2, <1>6 DEF Neighbour
    <2>2. Joined(n, k, h) <=> (2 * j + 1) * w < n
        BY <1>5, <1>6, <2>1
    <2> QED
        BY <1>3, <1>6, <2>1, <2>2 DEF i, j
<1>7. CASE i = 2 * j + 1
    <2>1. i % 2 # 0 /\ Neighbour(i) = 2 * j
        BY <1>2, <1>7 DEF Neighbour
    <2>2. Joined(n, k, h)
        BY <1>5, <2>1
    <2>3. (2 * j + 1) * w < n
        <3>1. i * w \in Nat
            BY <1>2, Product
        <3> QED
            BY <1>2, <1>7, <3>1
    <2> QED
        BY <1>3, <1>7, <2>1, <2>2, <2>3 DEF i, j
<1> QED
    BY <1>4, <1>6, <1>7

LEMMA ReachedNext ==
    ASSUME NEW n \in Nat, NEW k \in Nat, k < n, NEW h \in Nat, NEW leaf, NEW siblings,
           Joined(n, k, h)
    PROVE  LET sibling == siblings[Steps(n, k, h) + 1] IN
           Reached(n, k, leaf, siblings, h + 1) =
                IF NodeAbove(k, h) % 2 = 0
                THEN nodeDigest(Reached(n, k, leaf, siblings, h), sibling)
                ELSE nodeDigest(sibling, Reached(n, k, leaf, siblings, h))
<1> DEFINE p == Steps(n, k, h)
           A == After(leafDigest(leaf), siblings, k, n)
<1>1. p \in Nat /\ Steps(n, k, h + 1) = p + 1
    BY StepsNext
<1>2. OnLeft(k, n, p + 1) <=> NodeAbove(k, h) % 2 = 0
    BY Direction
<1> HIDE DEF p
<1>3. p + 1 \in Nat /\ p + 1 # 0 /\ (p + 1) - 1 = p
    BY <1>1
<1>4. A[p + 1] =
            IF p + 1 = 0
            THEN leafDigest(leaf)
            ELSE IF OnLeft(k, n, p + 1)
            THEN nodeDigest(A[(p + 1) - 1], siblings[p + 1])
            ELSE nodeDigest(siblings[p + 1], A[(p + 1) - 1])
    BY <1>3, AfterUnfolds
<1>5. A[p + 1] =
            IF NodeAbove(k, h) % 2 = 0
            THEN nodeDigest(A[p], siblings[p + 1])
            ELSE nodeDigest(siblings[p + 1], A[p])
    BY <1>2, <1>3, <1>4
<1> HIDE DEF A
<1>6. Reached(n, k, leaf, siblings, h) = A[p] /\ Reached(n, k, leaf, siblings, h + 1) = A[p + 1]
    BY <1>1 DEF Reached, A, p
<1> QED
    BY <1>5, <1>6 DEF p

LEMMA GenuineNext ==
    ASSUME NEW n \in Nat, NEW k \in Nat, NEW h \in Nat, NEW leaf, NEW siblings
    PROVE  GenuineUpTo(n, k, leaf, siblings, h + 1) <=>
                /\ GenuineUpTo(n, k, leaf, siblings, h)
                /\ Joined(n, k, h) =>
                        siblings[Steps(n, k, h) + 1] = Level[h][n][Neighbour(NodeAbove(k, h))]
<1> DEFINE p == Steps(n, k, h)
           s == Path[h][n][k]
           t == Path[h + 1][n][k]
           d == Level[h][n][Neighbour(NodeAbove(k, h))]
<1>1. p \in Nat /\ s \in Seq(Nodes(n)) /\ Len(s) = p
    BY PathType, StepsNext DEF Steps
<1>2. d \in Nodes(n)
    <2>1. Neighbour(NodeAbove(k, h)) \in Nat
        BY NodeType, NeighbourType
    <2> QED
        BY <2>1 DEF Nodes
<1>3. CASE Joined(n, k, h)
    <2>1. t = Append(s, d) /\ Steps(n, k, h + 1) = p + 1
        BY <1>3, PathNext, StepsNext
    <2> HIDE DEF p, s, t, d
    <2>2. (\A q \in 1 .. p : t[q] = s[q]) /\ t[p + 1] = d
        BY <1>1, <1>2, <2>1, AppendProperties
    <2>3. 1 .. p + 1 = (1 .. p) \union {p + 1}
        BY <1>1
    <2>4. (\A q \in 1 .. p + 1 : siblings[q] = t[q])
            <=> (\A q \in 1 .. p : siblings[q] = s[q]) /\ siblings[p + 1] = d
        BY <2>2, <2>3
    <2> QED
        BY <1>3, <2>1, <2>4 DEF GenuineUpTo, p, s, t, d
<1>4. CASE ~Joined(n, k, h)
    <2>1. t = s
        BY <1>4, PathNext
    <2>2. Steps(n, k, h + 1) = p
        BY <2>1 DEF Steps
    <2> QED
        BY <1>4, <2>1, <2>2 DEF GenuineUpTo
<1> QED
    BY <1>3, <1>4

\* The digest reached on a level is the one of the tree only when the leaf and
\* all siblings used for it are.
LEMMA ReachedIsGenuine ==
    ASSUME NEW n \in Nat, NEW k \in Nat, k < n, NEW h \in Nat, NEW leaf, NEW siblings
    PROVE  Reached(n, k, leaf, siblings, h) = Level[h][n][NodeAbove(k, h)]
                <=> GenuineUpTo(n, k, leaf, siblings, h)
<1> DEFINE P == {m \in Nat : Reached(n, k, leaf, siblings, m) = Level[m][n][NodeAbove(k, m)]
                                <=> GenuineUpTo(n, k, leaf, siblings, m)}
<1>1. 0 \in P
    <2>1. Steps(n, k, 0) = 0 /\ NodeAbove(k, 0) = k
        BY StepsNext, NodeOfLeaf
    <2>2. Reached(n, k, leaf, siblings, 0) = leafDigest(leaf)
        BY <2>1, AfterUnfolds DEF Reached
    <2>3. Level[0][n][k] = leafDigest(k)
        BY LevelUnfolds
    <2>4. leafDigest(leaf) = leafDigest(k) <=> leaf = k
        BY DEF leafDigest
    <2>5. GenuineUpTo(n, k, leaf, siblings, 0) <=> leaf = k
        BY <2>1 DEF GenuineUpTo
    <2> QED
        BY <2>1, <2>2, <2>3, <2>4, <2>5
<1>2. ASSUME NEW m \in Nat, m \in P
      PROVE  m + 1 \in P
    <2> DEFINE i == NodeAbove(k, m)
               here == Level[m][n][i]
               beside == Level[m][n][Neighbour(i)]
               sibling == siblings[Steps(n, k, m) + 1]
               reached == Reached(n, k, leaf, siblings, m)
    <2>1. reached = here <=> GenuineUpTo(n, k, leaf, siblings, m)
        BY <1>2
    <2>2. GenuineUpTo(n, k, leaf, siblings, m + 1) <=>
                /\ GenuineUpTo(n, k, leaf, siblings, m)
                /\ Joined(n, k, m) => sibling = beside
        BY GenuineNext
    <2>3. Level[m + 1][n][NodeAbove(k, m + 1)] =
                IF Joined(n, k, m)
                THEN IF i % 2 = 0
                     THEN nodeDigest(here, beside)
                     ELSE nodeDigest(beside, here)
                ELSE here
        BY LevelNext
    <2>4. CASE Joined(n, k, m)
        <3>1. Reached(n, k, leaf, siblings, m + 1) =
                    IF i % 2 = 0
                    THEN nodeDigest(reached, sibling)
                    ELSE nodeDigest(sibling, reached)
            BY <2>4, ReachedNext
        <3> HIDE DEF i, here, beside, sibling, reached
        <3>2. Reached(n, k, leaf, siblings, m + 1) = Level[m + 1][n][NodeAbove(k, m + 1)]
                    <=> reached = here /\ sibling = beside
            BY <2>3, <2>4, <3>1 DEF nodeDigest
        <3> QED
            BY <2>1, <2>2, <2>4, <3>2
    <2>5. CASE ~Joined(n, k, m)
        <3>1. Steps(n, k, m + 1) = Steps(n, k, m)
            BY <2>5, StepsNext
        <3>2. Reached(n, k, leaf, siblings, m + 1) = reached
            BY <3>1 DEF Reached
        <3> HIDE DEF i, here, beside, sibling, reached
        <3> QED
            BY <2>1, <2>2, <2>3, <2>5, <3>2
    <2> QED
        BY <2>4, <2>5
<1> HIDE DEF P
<1>3. h \in P
    BY <1>1, <1>2, Induction
<1> QED
    BY <1>3 DEF P

-----------------------------------------------------------------------------
(* The verifier *)

\* In a tree of two leaves or more, no leaf is the root.
LEMMA SomeSteps ==
    ASSUME NEW n \in Nat, n >= 2, NEW k \in Nat, k < n
    PROVE  Steps(n, k, treeHeight(n)) # 0
<1> DEFINE H == treeHeight(n)
           L == LeftWidth(n)
<1>1. H - 1 \in Nat /\ L = Shift[H - 1] /\ L \in Nat \ {0} /\ n <= 2 * L
    BY HeightOfMore, ShiftType DEF LeftWidth
<1>2. H \in Nat /\ (H - 1) + 1 = H
    BY <1>1, Height
<1> HIDE DEF H, L
<1>3. CASE k < L
    <2>1. Steps(n, k, H) = H
        BY <1>3, LeftSteps DEF H, L
    <2> QED
        BY <1>1, <1>2, <2>1 DEF H
<1>4. CASE k >= L
    <2>1. NodeAbove(k, H - 1) = 1
        <3>1. 1 * L <= k /\ k < (1 + 1) * L
            BY <1>1, <1>4
        <3> QED
            BY <1>1, <3>1, QuotientUnique DEF NodeAbove
    <2>2. Joined(n, k, H - 1)
        BY <1>1, <2>1, NeighbourWhen DEF Joined
    <2>3. Steps(n, k, H - 1) \in Nat /\ Steps(n, k, H) = Steps(n, k, H - 1) + 1
        BY <1>1, <1>2, <2>2, StepsNext
    <2> QED
        BY <2>3 DEF H
<1> QED
    BY <1>1, <1>3, <1>4

\* When the loop ends, the proof is not used up too early.
LEMMA LongEnough ==
    ASSUME NEW n \in Nat \ {0}, NEW k \in Nat, k < n
    PROVE  /\ Rounds(k, n) <= Steps(n, k, treeHeight(n))
           /\ RightSiblingNext(k, n, Rounds(k, n)) => Rounds(k, n) < Steps(n, k, treeHeight(n))
<1> DEFINE R == Rounds(k, n)
           H == treeHeight(n)
<1>1. R \in Nat /\ H \in Nat /\ Shift[H] >= n
    BY RoundsOf, Height
<1>2. Steps(n, k, R) = R /\ Steps(n, k, H) \in Nat
    BY <1>1, StepsNext, StepsInRounds
<1> HIDE DEF R, H
<1>3. ASSUME NEW h \in Nat, h > H
      PROVE  Steps(n, k, h) = Steps(n, k, H)
    BY <1>1, <1>3, StepsOnTop
<1>4. ASSUME NEW h \in Nat
      PROVE  Steps(n, k, h) <= Steps(n, k, H)
    <2>1. CASE h <= H
        BY <1>1, <2>1, StepsMonotone
    <2>2. CASE h > H
        BY <1>2, <1>3, <2>2
    <2> QED
        BY <1>1, <2>1, <2>2
<1>5. Steps(n, k, R + 1) = R + (IF Joined(n, k, R) THEN 1 ELSE 0)
    <2>1. Steps(n, k, R + 1) = Steps(n, k, R) + (IF Joined(n, k, R) THEN 1 ELSE 0)
        BY <1>1, StepsNext
    <2> QED
        BY <1>2, <2>1, Zenon
<1>6. Joined(n, k, R) <=> RightSiblingNext(k, n, R)
    BY AtLastRound DEF R
<1>7. R <= Steps(n, k, H)
    BY <1>1, <1>2, <1>4
<1>8. RightSiblingNext(k, n, R) => R < Steps(n, k, H)
    <2>1. R + 1 \in Nat
        BY <1>1
    <2>2. Steps(n, k, R + 1) <= Steps(n, k, H)
        BY <1>4, <2>1
    <2> QED
        BY <1>1, <1>2, <1>5, <1>6, <2>2
<1> QED
    BY <1>7, <1>8 DEF R, H

\* For a tree of any size, verifyBinaryTree() accepts the leaf at the place the
\* key says, with the digests of the tree as its proof, and nothing else.
THEOREM VerifierIsExact ==
    ASSUME NEW n \in Nat, NEW k \in Nat, NEW leaf, NEW S, NEW siblings \in Seq(S)
    PROVE  verifyBinaryTree(TreeRoot(n), leaf, siblings, k, n)
                <=> k < n /\ leaf = k /\ siblings = Siblings(n, k)
<1>1. SUFFICES ASSUME k < n
               PROVE  verifyBinaryTree(TreeRoot(n), leaf, siblings, k, n)
                            <=> leaf = k /\ siblings = Siblings(n, k)
    BY DEF verifyBinaryTree, verifyBinaryTreeDigest, KeyInTree
<1> DEFINE H == treeHeight(n)
           length == Steps(n, k, H)
<1>2. n \in Nat \ {0} /\ Len(siblings) \in Nat
    BY <1>1, LenProperties
<1>3. H \in Nat /\ Shift[H] >= n /\ length \in Nat
    BY <1>2, Height, StepsNext
<1>4. TreeRoot(n) = Level[H][n][NodeAbove(k, H)]
    <2>1. k < Shift[H]
        BY <1>1, <1>2, <1>3, ShiftType
    <2> QED
        BY <1>2, <1>3, <2>1, NodeOnTop DEF TreeRoot
<1>5. (IF n <= 1 THEN 0 ELSE pathLengthFromKey(k, n)) = length
    <2>1. PathLength[n][k] = length
        BY <1>1, <1>2, LengthOfPath
    <2>2. n <= 1 => PathLength[n][k] = 0
        BY <1>2, LengthUnfolds
    <2> HIDE DEF length
    <2> QED
        BY <2>1, <2>2 DEF pathLengthFromKey
<1>6. siblings = Siblings(n, k)
        <=> Len(siblings) = length /\ \A q \in 1 .. length : siblings[q] = Path[H][n][k][q]
    <2> DEFINE t == Path[H][n][k]
               U == S \union Nodes(n)
    <2>1. t \in Seq(Nodes(n))
        BY <1>3, PathType
    <2>2. Len(t) = length
        BY DEF Steps
    <2>3. Siblings(n, k) = t
        BY DEF Siblings
    <2> HIDE DEF t, length
    <2>4. siblings \in Seq(U) /\ t \in Seq(U)
        BY <2>1
    <2> HIDE DEF U
    <2>5. Len(siblings) = Len(t) /\ (\A q \in 1 .. Len(siblings) : siblings[q] = t[q])
            => siblings = t
        BY <2>4, SeqEqual
    <2> QED
        BY <2>2, <2>3, <2>5 DEF t
<1>7. ASSUME Len(siblings) = length
      PROVE  TreeRoot(n) = climb(leafDigest(leaf), siblings, k, n)
                <=> leaf = k /\ \A q \in 1 .. length : siblings[q] = Path[H][n][k][q]
    <2>1. climb(leafDigest(leaf), siblings, k, n) = Reached(n, k, leaf, siblings, H)
        BY <1>7, ClimbIsAfter DEF Reached
    <2>2. Reached(n, k, leaf, siblings, H) = Level[H][n][NodeAbove(k, H)]
                <=> GenuineUpTo(n, k, leaf, siblings, H)
        BY <1>1, <1>3, ReachedIsGenuine
    <2> QED
        BY <1>4, <2>1, <2>2 DEF GenuineUpTo
<1>8. ASSUME Len(siblings) = length
      PROVE  verifyBinaryTree(TreeRoot(n), leaf, siblings, k, n)
                <=> TreeRoot(n) = climb(leafDigest(leaf), siblings, k, n)
    <2>1. CASE length = 0
        <3>1. climb(leafDigest(leaf), siblings, k, n) = leafDigest(leaf)
            BY <1>8, <2>1, ClimbIsAfter, AfterUnfolds
        <3>2. n = 1
            <4>1. ~(n >= 2)
                BY <1>1, <2>1, SomeSteps
            <4> QED
                BY <1>2, <4>1
        <3> QED
            BY <1>1, <1>5, <1>8, <2>1, <3>1, <3>2
                DEF verifyBinaryTree, verifyBinaryTreeDigest, KeyInTree
    <2>2. CASE length # 0
        <3>1. /\ Rounds(k, n) <= length
              /\ RightSiblingNext(k, n, Rounds(k, n)) => Rounds(k, n) < length
            BY <1>1, <1>2, LongEnough
        <3> HIDE DEF length
        <3> QED
            BY <1>1, <1>5, <1>8, <2>2, <3>1
                DEF verifyBinaryTree, verifyBinaryTreeDigest, KeyInTree
    <2> QED
        BY <2>1, <2>2
<1>9. verifyBinaryTree(TreeRoot(n), leaf, siblings, k, n) => Len(siblings) = length
    BY <1>5 DEF verifyBinaryTree, verifyBinaryTreeDigest
<1> HIDE DEF H, length
<1> QED
    BY <1>6, <1>7, <1>8, <1>9

-----------------------------------------------------------------------------
(* The relayer *)

\* The claim is about a tree and a place in it, and the proof is made of digests.
ClaimType ==
    /\ numLeaves \in Nat
    /\ key \in Nat
    /\ proof \in Seq(Usable(numLeaves))

LEMMA InitClaim ==
    ASSUME ClaimInit
    PROVE  ClaimType
<1>1. MaxLeaves \in Nat
    BY TreeBounds
<1>2. numLeaves \in Nat /\ key \in Nat
    BY <1>1 DEF ClaimInit
<1>3. proof \in Seq(Usable(numLeaves))
    BY EmptySeq DEF ClaimInit
<1> QED
    BY <1>2, <1>3 DEF ClaimType

LEMMA NextClaim ==
    ASSUME ClaimType, [ClaimNext]_claimVars
    PROVE  ClaimType'
<1>1. CASE AddSibling
    <2>1. PICK digest \in Usable(numLeaves) : proof' = Append(proof, digest)
        BY <1>1 DEF AddSibling
    <2>2. proof' \in Seq(Usable(numLeaves))
        BY <2>1, AppendProperties DEF ClaimType
    <2>3. numLeaves' = numLeaves /\ key' = key
        BY <1>1 DEF AddSibling
    <2> QED
        BY <2>2, <2>3 DEF ClaimType, Usable
<1>2. CASE UNCHANGED claimVars
    BY <1>2 DEF ClaimType, Usable, claimVars
<1> QED
    BY <1>1, <1>2 DEF ClaimNext

\* The type of a claim is kept.
THEOREM ClaimTypeInvariant == ClaimSpec => []ClaimType
<1>1. ClaimInit => ClaimType
    BY InitClaim
<1>2. ClaimType /\ [ClaimNext]_claimVars => ClaimType'
    BY NextClaim
<1> QED
    BY <1>1, <1>2, PTL DEF ClaimSpec

LEMMA AcceptedIsGenuine ==
    ASSUME ClaimType
    PROVE  Accepted <=> Genuine
BY VerifierIsExact DEF ClaimType, Accepted, Genuine

\* However many leaves the trees have and however long the proofs are,
\* verifyBinaryTree() accepts only the leaf that has the key, with the one proof
\* that the tree gives for it.
THEOREM OnlyGenuineAccepted == ClaimSpec => []OnlyGenuineProofs
<1>1. ClaimType => OnlyGenuineProofs
    BY AcceptedIsGenuine DEF OnlyGenuineProofs
<1> QED
    BY <1>1, ClaimTypeInvariant, PTL

\* And it accepts the proof of every leaf.
THEOREM AllLeavesProvable == ClaimSpec => []EveryLeafProvable
<1>1. ClaimType => EveryLeafProvable
    BY AcceptedIsGenuine DEF EveryLeafProvable
<1> QED
    BY <1>1, ClaimTypeInvariant, PTL

=============================================================================
