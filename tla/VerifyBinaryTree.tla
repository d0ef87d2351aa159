-------------------------- MODULE VerifyBinaryTree --------------------------
(***************************************************************************)
(* VerifyBinaryTree.sol with Utils.sol and TreeHasher.sol: the check, on   *)
(* L1, that a leaf with a given key is in a Merkle tree of Fuel with a     *)
(* given root and a given number of leaves.  FuelMessagePortal takes the   *)
(* root and the number from a block header the chain state vouches for,    *)
(* and the leaf, the key and the proof from whoever relays.                *)
(*                                                                         *)
(* Digests are terms: two are equal only when they were made of the same   *)
(* things, as for a hash without collisions, and the prefixes of leaves    *)
(* and nodes keep the two apart.  A sibling that is no part of the tree    *)
(* can therefore never lead to its root, so a relayer is given the digests *)
(* of the tree and one other.                                              *)
(*                                                                         *)
(* The loops of the verifier count a height up.  Here the number of rounds *)
(* of the first is a definition, and the digest a function of how much of  *)
(* the proof is used.                                                      *)
(***************************************************************************)
EXTENDS Integers, Sequences

CONSTANTS
    MaxLeaves,      \* bound: leaves of a tree
    MaxProofLength  \* bound: siblings of a proof

ASSUME TreeBounds == MaxLeaves \in Nat /\ MaxProofLength \in Nat

VARIABLES
    numLeaves,      \* the size of the tree the header commits to
    key, data,      \* the claim: data is the leaf with this key
    proof           \* the siblings the relayer has put together

claimVars == <<numLeaves, key, data, proof>>

leafDigest(leaf) == <<leaf>>

nodeDigest(left, right) == <<left, right>>

\* 1 << h
Shift[h \in Nat] == IF h = 0 THEN 1 ELSE 2 * Shift[h - 1]

\* The height of a tree, which is MAX_HEIGHT less getStartingBit().
treeHeight(n) ==
    CHOOSE b \in 0 .. n : Shift[b] >= n /\ \A c \in 0 .. b - 1 : Shift[c] < n

-----------------------------------------------------------------------------
(* The trees of Fuel, made level by level: neighbours are hashed together, and *)
(* a last node without one is elevated to the next level as it is.             *)

\* Node i of level h of the tree of n leaves, each leaf being its own index.
Level[h \in Nat] == [n \in Nat |-> [i \in Nat |->
    IF h = 0
    THEN leafDigest(i)
    ELSE IF (2 * i + 1) * Shift[h - 1] < n
    THEN nodeDigest(Level[h - 1][n][2 * i], Level[h - 1][n][2 * i + 1])
    ELSE Level[h - 1][n][2 * i]]]

EmptyRoot == <<>>

TreeRoot(n) == IF n = 0 THEN EmptyRoot ELSE Level[treeHeight(n)][n][0]

\* The node of level h above leaf k, and the neighbour it is hashed with.
NodeAbove(k, h) == k \div Shift[h]

Neighbour(i) == IF i % 2 = 0 THEN i + 1 ELSE i - 1

HasNeighbour(n, i, h) == Neighbour(i) * Shift[h] < n

\* The neighbours on the way from leaf k up to level h.
Path[h \in Nat] == [n \in Nat |-> [k \in Nat |->
    IF h = 0
    THEN <<>>
    ELSE LET i == NodeAbove(k, h - 1) IN
         IF HasNeighbour(n, i, h - 1)
         THEN Append(Path[h - 1][n][k], Level[h - 1][n][Neighbour(i)])
         ELSE Path[h - 1][n][k]]]

Siblings(n, k) == Path[treeHeight(n)][n][k]

-----------------------------------------------------------------------------
(* The verifier *)

\* The code calls itself only with two leaves or more.
PathLength[n \in Nat] == [k \in Nat |->
    IF n <= 1
    THEN 0
    ELSE LET pathLength == treeHeight(n)
             numLeavesLeftSubTree == Shift[pathLength - 1]
         IN  IF k <= numLeavesLeftSubTree - 1
             THEN pathLength
             ELSE IF numLeavesLeftSubTree = 1 \/ n - numLeavesLeftSubTree <= 1
             THEN 1
             ELSE 1 + PathLength[n - numLeavesLeftSubTree][k - numLeavesLeftSubTree]]

pathLengthFromKey(k, n) == PathLength[n][k]

subTreeStartIndex(k, height) == (k \div Shift[height]) * Shift[height]

subTreeEndIndex(k, height) == subTreeStartIndex(k, height) + Shift[height] - 1

Complete(k, n, height) == subTreeEndIndex(k, height) < n

\* The rounds of the loop, one for every complete subtree above the leaf.
Rounds(k, n) ==
    CHOOSE h \in 0 .. n : /\ \A g \in 1 .. h : Complete(k, n, g)
                          /\ ~Complete(k, n, h + 1)

inFirstHalf(k, height) == k - subTreeStartIndex(k, height) < Shift[height - 1]

stableEnd(k, rounds) == IF rounds = 0 THEN k ELSE subTreeEndIndex(k, rounds)

\* The test for an elevated orphan with a bug: there are none.
NeverOrphan(k, n, rounds) == TRUE

\* The next sibling is on the right: the subtree is not the end of the tree.
RightSiblingNext(k, n, rounds) == stableEnd(k, rounds) # n - 1

\* The digest is the left part of the next one: in the loop in the first half of
\* a subtree, and after it at most once.
OnLeft(k, n, height) ==
    LET rounds == Rounds(k, n) IN
    IF height <= rounds
    THEN inFirstHalf(k, height)
    ELSE height = rounds + 1 /\ RightSiblingNext(k, n, rounds)

\* The digest after all of the proof is hashed in.
climb(digest, siblings, k, n) ==
    LET after[height \in Nat] ==
            IF height = 0
            THEN digest
            ELSE IF OnLeft(k, n, height)
            THEN nodeDigest(after[height - 1], siblings[height])
            ELSE nodeDigest(siblings[height], after[height - 1])
    IN  after[Len(siblings)]

\* The key with a bug: one that is past the last leaf is taken.
AnyKey(k, n) == n > 0

KeyInTree(k, n) == k < n

verifyBinaryTreeDigest(root, digest, siblings, k, n) ==
    /\ Len(siblings) = IF n <= 1 THEN 0 ELSE pathLengthFromKey(k, n)
    /\ KeyInTree(k, n)
    /\ IF Len(siblings) = 0
       THEN n = 1 /\ root = digest
       ELSE LET rounds == Rounds(k, n) IN
            /\ rounds <= Len(siblings)
            /\ RightSiblingNext(k, n, rounds) => rounds < Len(siblings)
            /\ root = climb(digest, siblings, k, n)

verifyBinaryTree(root, leaf, siblings, k, n) ==
    verifyBinaryTreeDigest(root, leafDigest(leaf), siblings, k, n)

-----------------------------------------------------------------------------
(* The relayer, who claims anything and puts together any proof *)

ForeignLeaf(n) == n

Usable(n) ==
    {leafDigest(ForeignLeaf(n))} \union
        UNION {{Level[h][n][i] : i \in {j \in 0 .. n - 1 : j * Shift[h] < n}} :
                    h \in 0 .. treeHeight(n)}

ClaimInit ==
    /\ numLeaves \in 0 .. MaxLeaves
    /\ key \in 0 .. numLeaves + 1
    /\ data \in 0 .. ForeignLeaf(numLeaves)
    /\ proof = <<>>

AddSibling ==
    /\ Len(proof) < MaxProofLength
    /\ \E digest \in Usable(numLeaves) : proof' = Append(proof, digest)
    /\ UNCHANGED <<numLeaves, key, data>>

ClaimNext == AddSibling

ClaimSpec == ClaimInit /\ [][ClaimNext]_claimVars

-----------------------------------------------------------------------------
(* Properties *)

Accepted == verifyBinaryTree(TreeRoot(numLeaves), data, proof, key, numLeaves)

Genuine ==
    /\ key < numLeaves
    /\ data = key
    /\ proof = Siblings(numLeaves, key)

\* Whatever a relayer puts together, verifyBinaryTree() accepts only the leaf
\* that has the key, and for each key only one proof: no other leaf, no other
\* position, no inner node, no leaf past the end, no shortened or padded proof.
OnlyGenuineProofs == Accepted => Genuine

\* Every leaf of every tree can be proved, also in trees whose size is no power
\* of two, where the paths of the last leaves are shorter.
EveryLeafProvable == Genuine => Accepted

=============================================================================
