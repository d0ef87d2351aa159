----------------------------- MODULE SumTheorems -----------------------------
(***************************************************************************)
(* Facts about SumFunctionOnSet(f, S), the sum of f[x] over a finite set S:*)
(* what an element, a changed value, a disjoint set or a common bound does *)
(* to it.  The accounts of the bridge are such sums.                       *)
(*                                                                         *)
(* The sum is a recursive function on the subsets of S that takes one      *)
(* chosen element after the other.  That such a function exists, and that  *)
(* the choice does not matter, is shown by induction over finite sets, with*)
(* the property to be shown as a set of sets (FiniteInduction).            *)
(***************************************************************************)
EXTENDS Integers, Functions, FiniteSetTheorems, TLAPS

\* Induction over the subsets of a finite set: what passes from all the smaller
\* subsets to a set holds of the whole set.
LEMMA FiniteInduction ==
    ASSUME NEW S, IsFiniteSet(S), NEW P,
           \A T \in SUBSET S : (\A U \in SUBSET T : U # T => U \in P) => T \in P
    PROVE  S \in P
<1> DEFINE Q == (SUBSET S) \ P
<1>1. SUFFICES ASSUME Q # {}
               PROVE  FALSE
    OBVIOUS
<1>2. PICK T \in Q : \A U \in Q : <<U, T>> \notin StrictSubsetOrdering(S)
    <2>1. IsWellFoundedOn(StrictSubsetOrdering(S), SUBSET S)
        BY FS_StrictSubsetOrderingWellFounded, FS_FiniteSubsetsOfFinite
    <2>2. Q \subseteq SUBSET S
        BY DEF Q
    <2> HIDE DEF Q
    <2> QED
        BY <2>1, <2>2, <1>1, WFMin
<1>3. \A U \in SUBSET T : U # T => U \in P
    BY <1>2 DEF StrictSubsetOrdering
<1> QED
    BY <1>2, <1>3

-----------------------------------------------------------------------------
(* The sum is well defined *)

Chosen(s) == CHOOSE x \in s : TRUE

Rest(s) == s \ {Chosen(s)}

Body(f, g, s) == IF s = {} THEN 0 ELSE f[Chosen(s)] + g[Rest(s)]

\* g sums f over every subset of S.
Sums(f, S, g) == g = [s \in SUBSET S |-> Body(f, g, s)]

Summing(f, S) == CHOOSE g : Sums(f, S, g)

LEMMA SumIsSumming ==
    ASSUME NEW f, NEW S
    PROVE  SumFunctionOnSet(f, S) = Summing(f, S)[S]
BY Zenon DEF SumFunctionOnSet, FoldFunctionOnSet, MapThenFoldSet, Summing, Sums, Body,
             Rest, Chosen

LEMMA ChosenIn ==
    ASSUME NEW s, s # {}
    PROVE  Chosen(s) \in s /\ Rest(s) \subseteq s /\ Rest(s) # s
BY DEF Chosen, Rest

LEMMA SumsAt ==
    ASSUME NEW f, NEW S, NEW g, Sums(f, S, g), NEW s \in SUBSET S
    PROVE  g[s] = IF s = {} THEN 0 ELSE f[Chosen(s)] + g[Rest(s)]
<1>1. g[s] = [t \in SUBSET S |-> Body(f, g, t)][s]
    BY DEF Sums
<1>2. g[s] = Body(f, g, s)
    BY <1>1
<1> QED
    BY <1>2 DEF Body

\* Two functions that sum f agree where both do.
LEMMA SumsAgree ==
    ASSUME NEW f, NEW S, NEW R, NEW g, NEW h, Sums(f, S, g), Sums(f, R, h),
           NEW T, IsFiniteSet(T), T \subseteq S, T \subseteq R
    PROVE  g[T] = h[T]
<1> DEFINE P == {U \in SUBSET T : g[U] = h[U]}
<1>1. ASSUME NEW U \in SUBSET T, \A V \in SUBSET U : V # U => V \in P
      PROVE  U \in P
    <2>1. CASE U = {}
        BY <2>1, SumsAt
    <2>2. CASE U # {}
        <3>1. g[Rest(U)] = h[Rest(U)]
            BY <2>2, <1>1, ChosenIn
        <3>2. g[U] = f[Chosen(U)] + g[Rest(U)] /\ h[U] = f[Chosen(U)] + h[Rest(U)]
            BY <2>2, SumsAt
        <3> QED
            BY <3>1, <3>2
    <2> QED
        BY <2>1, <2>2
<1>2. T \in P
    <2> HIDE DEF P
    <2> QED
        BY <1>1, FiniteInduction
<1> QED
    BY <1>2

LEMMA SummingSums ==
    ASSUME NEW f, NEW S, IsFiniteSet(S)
    PROVE  Sums(f, S, Summing(f, S))
<1> DEFINE P == {U \in SUBSET S : \E g : Sums(f, U, g)}
<1>1. ASSUME NEW U \in SUBSET S, \A V \in SUBSET U : V # U => V \in P
      PROVE  U \in P
    <2> DEFINE G(V) == Summing(f, V)
    <2> DEFINE h == [s \in SUBSET U |-> IF s = {} THEN 0
                                         ELSE f[Chosen(s)] + G(Rest(s))[Rest(s)]]
    <2>1. \A V \in SUBSET U : V # U => Sums(f, V, G(V))
        BY <1>1 DEF Summing
    <2>2. ASSUME NEW V \in SUBSET U, V # U
          PROVE  h[V] = G(V)[V]
        <3>1. CASE V = {}
            <4>1. Sums(f, V, G(V))
                BY <2>1, <2>2
            <4>2. G(V)[V] = 0
                BY <3>1, <4>1, SumsAt
            <4>3. h[V] = 0
                BY <3>1
            <4> QED
                BY <4>2, <4>3
        <3>2. CASE V # {}
            <4>1. Rest(V) \subseteq V /\ Rest(V) # V /\ Rest(V) \in SUBSET U
                BY <3>2, ChosenIn
            <4>2. Rest(V) # U
                BY <4>1
            <4>3. IsFiniteSet(Rest(V))
                BY <4>1, FS_Subset
            <4>4. Sums(f, V, G(V)) /\ Sums(f, Rest(V), G(Rest(V)))
                BY <4>1, <4>2, <2>1, <2>2
            <4>5. G(V)[Rest(V)] = G(Rest(V))[Rest(V)]
                BY <4>4, <4>3, <4>1, SumsAgree
            <4>6. G(V)[V] = f[Chosen(V)] + G(V)[Rest(V)]
                BY <4>4, <3>2, SumsAt
            <4>7. h[V] = f[Chosen(V)] + G(Rest(V))[Rest(V)]
                BY <3>2
            <4> QED
                BY <4>5, <4>6, <4>7
        <3> QED
            BY <3>1, <3>2
    <2>3. ASSUME NEW s \in SUBSET U
          PROVE  h[s] = Body(f, h, s)
        <3>1. CASE s = {}
            BY <3>1 DEF Body
        <3>2. CASE s # {}
            <4>1. Rest(s) \in SUBSET U /\ Rest(s) # U
                BY <3>2, ChosenIn
            <4>2. h[Rest(s)] = G(Rest(s))[Rest(s)]
                BY <4>1, <2>2
            <4>3. h[s] = f[Chosen(s)] + G(Rest(s))[Rest(s)]
                BY <3>2
            <4> HIDE DEF h
            <4> QED
                BY <4>2, <4>3, <3>2 DEF Body
        <3> QED
            BY <3>1, <3>2
    <2>4. h = [s \in SUBSET U |-> h[s]]
        OBVIOUS
    <2> HIDE DEF h
    <2>5. Sums(f, U, h)
        BY <2>3, <2>4 DEF Sums
    <2> QED
        BY <2>5
<1>2. S \in P
    <2> HIDE DEF P
    <2> QED
        BY <1>1, FiniteInduction
<1> QED
    BY <1>2 DEF Summing

-----------------------------------------------------------------------------
(* The sum and its elements *)

LEMMA SumEmpty ==
    ASSUME NEW f
    PROVE  SumFunctionOnSet(f, {}) = 0
BY SumIsSumming, SummingSums, SumsAt, FS_EmptySet

LEMMA SumChosen ==
    ASSUME NEW f, NEW S, IsFiniteSet(S), S # {}
    PROVE  SumFunctionOnSet(f, S) = f[Chosen(S)] + SumFunctionOnSet(f, Rest(S))
<1>1. Rest(S) \subseteq S /\ IsFiniteSet(Rest(S))
    BY ChosenIn, FS_Subset
<1>2. Sums(f, S, Summing(f, S)) /\ Sums(f, Rest(S), Summing(f, Rest(S)))
    BY <1>1, SummingSums
<1>3. Summing(f, S)[Rest(S)] = Summing(f, Rest(S))[Rest(S)]
    BY <1>1, <1>2, SumsAgree
<1>4. Summing(f, S)[S] = f[Chosen(S)] + Summing(f, S)[Rest(S)]
    BY <1>2, SumsAt
<1> QED
    BY <1>3, <1>4, SumIsSumming

\* The sum stays in a set of numbers that is closed under adding a value.
LEMMA SumClosed ==
    ASSUME NEW S, IsFiniteSet(S), NEW f, NEW V, 0 \in V,
           \A x \in S, v \in V : f[x] + v \in V
    PROVE  SumFunctionOnSet(f, S) \in V
<1> DEFINE P == {T \in SUBSET S : SumFunctionOnSet(f, T) \in V}
<1>1. ASSUME NEW T \in SUBSET S, \A U \in SUBSET T : U # T => U \in P
      PROVE  T \in P
    <2>1. CASE T = {}
        BY <2>1, SumEmpty
    <2>2. CASE T # {}
        <3>1. SumFunctionOnSet(f, T) = f[Chosen(T)] + SumFunctionOnSet(f, Rest(T))
            BY <2>2, SumChosen, FS_Subset
        <3>2. Chosen(T) \in S /\ SumFunctionOnSet(f, Rest(T)) \in V
            BY <2>2, <1>1, ChosenIn
        <3> QED
            BY <3>1, <3>2
    <2> QED
        BY <2>1, <2>2
<1>2. S \in P
    <2> HIDE DEF P
    <2> QED
        BY <1>1, FiniteInduction
<1> QED
    BY <1>2

LEMMA SumInt ==
    ASSUME NEW S, IsFiniteSet(S), NEW f, \A x \in S : f[x] \in Int
    PROVE  SumFunctionOnSet(f, S) \in Int
<1>1. \A x \in S, v \in Int : f[x] + v \in Int
    OBVIOUS
<1> QED
    BY <1>1, SumClosed

LEMMA SumNat ==
    ASSUME NEW S, IsFiniteSet(S), NEW f, \A x \in S : f[x] \in Nat
    PROVE  SumFunctionOnSet(f, S) \in Nat
<1>1. \A x \in S, v \in Nat : f[x] + v \in Nat
    OBVIOUS
<1> QED
    BY <1>1, SumClosed

LEMMA SumZero ==
    ASSUME NEW S, IsFiniteSet(S), NEW f, \A x \in S : f[x] = 0
    PROVE  SumFunctionOnSet(f, S) = 0
<1>1. \A x \in S, v \in {0} : f[x] + v \in {0}
    OBVIOUS
<1>2. SumFunctionOnSet(f, S) \in {0}
    BY <1>1, SumClosed
<1> QED
    BY <1>2

\* It does not matter which element comes first.
LEMMA SumRemove ==
    ASSUME NEW S, IsFiniteSet(S), NEW f, \A x \in S : f[x] \in Int, NEW e \in S
    PROVE  SumFunctionOnSet(f, S) = f[e] + SumFunctionOnSet(f, S \ {e})
<1> DEFINE Sum(T) == SumFunctionOnSet(f, T)
<1> DEFINE P == {T \in SUBSET S : \A y \in T : Sum(T) = f[y] + Sum(T \ {y})}
<1>1. ASSUME NEW T \in SUBSET S, \A U \in SUBSET T : U # T => U \in P
      PROVE  T \in P
    <2> SUFFICES ASSUME NEW y \in T
                 PROVE  Sum(T) = f[y] + Sum(T \ {y})
        OBVIOUS
    <2> DEFINE c == Chosen(T)
    <2>1. c \in T /\ Rest(T) = T \ {c} /\ IsFiniteSet(T)
        BY ChosenIn, FS_Subset DEF Rest
    <2>2. Sum(T) = f[c] + Sum(T \ {c})
        BY <2>1, SumChosen
    <2>3. CASE y = c
        BY <2>3, <2>2
    <2>4. CASE y # c
        <3>1. Sum(T \ {c}) = f[y] + Sum((T \ {c}) \ {y})
            BY <2>1, <2>4, <1>1
        <3>2. Sum(T \ {y}) = f[c] + Sum((T \ {y}) \ {c})
            BY <2>1, <2>4, <1>1
        <3>3. Sum((T \ {c}) \ {y}) = Sum((T \ {y}) \ {c})
            <4>1. (T \ {c}) \ {y} = (T \ {y}) \ {c}
                OBVIOUS
            <4> QED
                BY <4>1
        <3>4. f[c] \in Int /\ f[y] \in Int /\ Sum((T \ {y}) \ {c}) \in Int
            <4>1. IsFiniteSet((T \ {y}) \ {c})
                BY <2>1, FS_Subset
            <4> QED
                BY <4>1, <2>1, SumInt
        <3> HIDE DEF c
        <3> QED
            BY <2>2, <3>1, <3>2, <3>3, <3>4
    <2> QED
        BY <2>3, <2>4
<1>2. S \in P
    <2> HIDE DEF P
    <2> QED
        BY <1>1, FiniteInduction
<1> QED
    BY <1>2

LEMMA SumAdd ==
    ASSUME NEW S, IsFiniteSet(S), NEW f, NEW e, e \notin S,
           \A x \in S \union {e} : f[x] \in Int
    PROVE  /\ IsFiniteSet(S \union {e})
           /\ SumFunctionOnSet(f, S \union {e}) = f[e] + SumFunctionOnSet(f, S)
<1>1. IsFiniteSet(S \union {e}) /\ (S \union {e}) \ {e} = S
    BY FS_AddElement
<1> QED
    BY <1>1, SumRemove

\* Only the values on the set count.
LEMMA SumSame ==
    ASSUME NEW S, IsFiniteSet(S), NEW f, NEW g, \A x \in S : f[x] = g[x]
    PROVE  SumFunctionOnSet(f, S) = SumFunctionOnSet(g, S)
<1> DEFINE P == {T \in SUBSET S : SumFunctionOnSet(f, T) = SumFunctionOnSet(g, T)}
<1>1. ASSUME NEW T \in SUBSET S, \A U \in SUBSET T : U # T => U \in P
      PROVE  T \in P
    <2>1. CASE T = {}
        BY <2>1, SumEmpty
    <2>2. CASE T # {}
        <3>1. /\ SumFunctionOnSet(f, T) = f[Chosen(T)] + SumFunctionOnSet(f, Rest(T))
              /\ SumFunctionOnSet(g, T) = g[Chosen(T)] + SumFunctionOnSet(g, Rest(T))
            BY <2>2, SumChosen, FS_Subset
        <3>2. /\ f[Chosen(T)] = g[Chosen(T)]
              /\ SumFunctionOnSet(f, Rest(T)) = SumFunctionOnSet(g, Rest(T))
            BY <2>2, <1>1, ChosenIn
        <3> QED
            BY <3>1, <3>2
    <2> QED
        BY <2>1, <2>2
<1>2. S \in P
    <2> HIDE DEF P
    <2> QED
        BY <1>1, FiniteInduction
<1> QED
    BY <1>2

\* One value changes.
LEMMA SumChange ==
    ASSUME NEW S, IsFiniteSet(S), NEW e \in S, NEW f, NEW g,
           \A x \in S : f[x] \in Int, g[e] \in Int,
           \A x \in S \ {e} : g[x] = f[x]
    PROVE  SumFunctionOnSet(g, S) = SumFunctionOnSet(f, S) - f[e] + g[e]
<1>1. IsFiniteSet(S \ {e}) /\ \A x \in S : g[x] \in Int
    BY FS_RemoveElement
<1>2. SumFunctionOnSet(g, S) = g[e] + SumFunctionOnSet(g, S \ {e})
    BY <1>1, SumRemove
<1>3. SumFunctionOnSet(f, S) = f[e] + SumFunctionOnSet(f, S \ {e})
    BY SumRemove
<1>4. SumFunctionOnSet(g, S \ {e}) = SumFunctionOnSet(f, S \ {e})
    BY <1>1, SumSame
<1>5. SumFunctionOnSet(f, S \ {e}) \in Int
    BY <1>1, SumInt
<1> QED
    BY <1>2, <1>3, <1>4, <1>5

\* One more term, in a function that agrees with the one before.
LEMMA SumExtend ==
    ASSUME NEW S, IsFiniteSet(S), NEW e, e \notin S, NEW f, NEW g,
           \A x \in S : f[x] \in Int, g[e] \in Int, \A x \in S : g[x] = f[x]
    PROVE  SumFunctionOnSet(g, S \union {e}) = SumFunctionOnSet(f, S) + g[e]
<1>1. SumFunctionOnSet(g, S \union {e}) = g[e] + SumFunctionOnSet(g, S)
    BY SumAdd
<1>2. SumFunctionOnSet(g, S) = SumFunctionOnSet(f, S)
    BY SumSame
<1>3. SumFunctionOnSet(f, S) \in Int
    BY SumInt
<1> QED
    BY <1>1, <1>2, <1>3

LEMMA SumUnion ==
    ASSUME NEW S, IsFiniteSet(S), NEW R, IsFiniteSet(R), S \intersect R = {},
           NEW f, \A x \in S \union R : f[x] \in Int
    PROVE  /\ IsFiniteSet(S \union R)
           /\ SumFunctionOnSet(f, S \union R) =
                SumFunctionOnSet(f, S) + SumFunctionOnSet(f, R)
<1> DEFINE Sum(T) == SumFunctionOnSet(f, T)
<1> DEFINE P == {T \in SUBSET R : Sum(S \union T) = Sum(S) + Sum(T)}
<1>0. Sum(S) \in Int
    BY SumInt
<1>1. ASSUME NEW T \in SUBSET R, \A U \in SUBSET T : U # T => U \in P
      PROVE  T \in P
    <2>1. CASE T = {}
        <3>1. S \union T = S /\ Sum(T) = 0
            BY <2>1, SumEmpty
        <3>2. Sum(S \union T) = Sum(S)
            BY <3>1
        <3> QED
            BY <3>1, <3>2, <1>0
    <2>2. CASE T # {}
        <3>0. PICK e \in T : TRUE
            BY <2>2
        <3>1. T \ {e} \in SUBSET T /\ T \ {e} # T /\ IsFiniteSet(T) /\ IsFiniteSet(T \ {e})
            BY <3>0, FS_Subset
        <3>2. Sum(S \union (T \ {e})) = Sum(S) + Sum(T \ {e})
            BY <3>1, <1>1
        <3>3. Sum(T) = f[e] + Sum(T \ {e})
            BY <3>1, <3>0, SumRemove
        <3>4. Sum(S \union T) = f[e] + Sum(S \union (T \ {e}))
            <4>1. IsFiniteSet(S \union T) /\ (S \union T) \ {e} = S \union (T \ {e})
                BY <3>0, <3>1, FS_Union
            <4>2. e \in S \union T /\ \A x \in S \union T : f[x] \in Int
                BY <3>0
            <4> QED
                BY <4>1, <4>2, SumRemove
        <3>5. f[e] \in Int /\ Sum(T \ {e}) \in Int
            BY <3>0, <3>1, SumInt
        <3> QED
            BY <3>2, <3>3, <3>4, <3>5, <1>0
    <2> QED
        BY <2>1, <2>2
<1>2. R \in P
    <2> HIDE DEF P
    <2> QED
        BY <1>1, FiniteInduction
<1> QED
    BY <1>2, FS_Union

\* The elements get other names: h[x] for x.
LEMMA SumImage ==
    ASSUME NEW S, IsFiniteSet(S), NEW h, \A x, y \in S : h[x] = h[y] => x = y,
           NEW f, NEW g, \A x \in S : f[x] \in Int /\ g[h[x]] = f[x]
    PROVE  SumFunctionOnSet(g, {h[x] : x \in S}) = SumFunctionOnSet(f, S)
<1> DEFINE Image(T) == {h[x] : x \in T}
<1> DEFINE P == {T \in SUBSET S :
                    IsFiniteSet(Image(T)) /\ SumFunctionOnSet(g, Image(T)) = SumFunctionOnSet(f, T)}
<1>1. ASSUME NEW T \in SUBSET S, \A U \in SUBSET T : U # T => U \in P
      PROVE  T \in P
    <2>1. CASE T = {}
        <3>1. Image(T) = {}
            BY <2>1
        <3> QED
            BY <2>1, <3>1, SumEmpty, FS_EmptySet
    <2>2. CASE T # {}
        <3>1. PICK y \in T : TRUE
            BY <2>2
        <3> DEFINE U == T \ {y}
        <3>2. IsFiniteSet(Image(U)) /\ SumFunctionOnSet(g, Image(U)) = SumFunctionOnSet(f, U)
            BY <1>1
        <3>3. h[y] \notin Image(U) /\ Image(T) = Image(U) \union {h[y]}
            OBVIOUS
        <3>4. IsFiniteSet(T) /\ (\A x \in T : f[x] \in Int) /\ \A x \in Image(T) : g[x] \in Int
            BY FS_Subset
        <3> HIDE DEF Image
        <3>5. SumFunctionOnSet(f, T) = f[y] + SumFunctionOnSet(f, U)
            BY <3>4, SumRemove
        <3>6. /\ IsFiniteSet(Image(U) \union {h[y]})
              /\ SumFunctionOnSet(g, Image(U) \union {h[y]}) =
                    g[h[y]] + SumFunctionOnSet(g, Image(U))
            BY <3>2, <3>3, <3>4, SumAdd
        <3>7. g[h[y]] = f[y]
            OBVIOUS
        <3> QED
            BY <3>2, <3>3, <3>5, <3>6, <3>7
    <2> QED
        BY <2>1, <2>2
<1>2. S \in P
    <2> HIDE DEF P
    <2> QED
        BY <1>1, FiniteInduction
<1> QED
    BY <1>2

\* Terms that are not negative: a part of the sum is no more than the whole.
LEMMA SumOfPart ==
    ASSUME NEW S, IsFiniteSet(S), NEW f, \A x \in S : f[x] \in Nat, NEW T \in SUBSET S
    PROVE  SumFunctionOnSet(f, T) <= SumFunctionOnSet(f, S)
<1>1. IsFiniteSet(T) /\ IsFiniteSet(S \ T)
    BY FS_Subset
<1>2. T \union (S \ T) = S /\ T \intersect (S \ T) = {}
    OBVIOUS
<1>3. SumFunctionOnSet(f, S) = SumFunctionOnSet(f, T) + SumFunctionOnSet(f, S \ T)
    <2>1. \A x \in T \union (S \ T) : f[x] \in Int
        OBVIOUS
    <2> QED
        BY <1>1, <1>2, <2>1, SumUnion
<1>4. SumFunctionOnSet(f, T) \in Nat /\ SumFunctionOnSet(f, S \ T) \in Nat
    BY <1>1, SumNat
<1> QED
    BY <1>3, <1>4

\* A common factor.
LEMMA SumScale ==
    ASSUME NEW S, IsFiniteSet(S), NEW f, NEW g, NEW c \in Int,
           \A x \in S : f[x] \in Int /\ g[x] = f[x] * c
    PROVE  SumFunctionOnSet(g, S) = SumFunctionOnSet(f, S) * c
<1> DEFINE P == {T \in SUBSET S : SumFunctionOnSet(g, T) = SumFunctionOnSet(f, T) * c}
<1>1. ASSUME NEW T \in SUBSET S, \A U \in SUBSET T : U # T => U \in P
      PROVE  T \in P
    <2>1. CASE T = {}
        BY <2>1, SumEmpty
    <2>2. CASE T # {}
        <3>1. /\ SumFunctionOnSet(f, T) = f[Chosen(T)] + SumFunctionOnSet(f, Rest(T))
              /\ SumFunctionOnSet(g, T) = g[Chosen(T)] + SumFunctionOnSet(g, Rest(T))
            BY <2>2, FS_Subset, SumChosen
        <3>2. Chosen(T) \in S /\ Rest(T) \subseteq S /\ IsFiniteSet(Rest(T))
            BY <2>2, ChosenIn, FS_Subset
        <3>3. SumFunctionOnSet(g, Rest(T)) = SumFunctionOnSet(f, Rest(T)) * c
            BY <1>1, <2>2, ChosenIn
        <3>4. f[Chosen(T)] \in Int /\ g[Chosen(T)] = f[Chosen(T)] * c
              /\ SumFunctionOnSet(f, Rest(T)) \in Int
            BY <3>2, SumInt
        <3> DEFINE a == f[Chosen(T)]
                   b == SumFunctionOnSet(f, Rest(T))
        <3>5. (a + b) * c = a * c + b * c
            <4>1. a \in Int /\ b \in Int
                BY <3>4
            <4> HIDE DEF a, b
            <4> QED
                BY <4>1
        <3> QED
            BY <3>1, <3>3, <3>4, <3>5
    <2> QED
        BY <2>1, <2>2
<1> HIDE DEF P
<1>2. S \in P
    BY <1>1, FiniteInduction
<1> QED
    BY <1>2 DEF P

=============================================================================
