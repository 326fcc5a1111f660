----------------------------- MODULE FiniteSums -----------------------------
(***************************************************************************)
(* Sums over finite sets, as MapThenSumSet computes them, for proofs: the  *)
(* sum exists, does not depend on the order in which the elements are      *)
(* taken, and changes by what one element contributes.  An induction over  *)
(* a finite set is an argument about a smallest counterexample: the        *)
(* natural numbers are well founded.                                       *)
(***************************************************************************)
EXTENDS Integers, FiniteSetsExt, FiniteSetTheorems, WellFoundedInduction, TLAPS

(* Every set of naturals that has an element has a least one.              *)
LEMMA LeastNat ==
    ASSUME NEW T \in SUBSET Nat, T # {}
    PROVE  \E x \in T : \A y \in T : x <= y
<1> DEFINE R == OpToRel(<, Nat)
<1>1. IsWellFoundedOn(R, Nat)
  BY NatLessThanWellFounded
<1>2. \A x, y \in Nat : <<y, x>> \in R <=> y < x
  BY DEF OpToRel
<1> HIDE DEF R
<1>3. PICK x \in T : \A y \in T : ~ (<<y, x>> \in R)
  BY <1>1, WFMin
<1>4. \A y \in T : ~ (y < x)
  BY <1>2, <1>3
<1> QED BY <1>4

(* A set of naturals that has an element and a bound has a maximum.        *)
LEMMA MaxOfBounded ==
    ASSUME NEW S \in SUBSET Nat, S # {}, NEW b \in Nat, \A x \in S : x <= b
    PROVE  Max(S) \in S /\ \A y \in S : y <= Max(S)
<1> DEFINE U == {u \in Nat : \A x \in S : x <= u}
<1>1. PICK m \in U : \A u \in U : m <= u
  BY LeastNat
<1>2. m \in S
  <2> SUFFICES ASSUME m \notin S PROVE FALSE
    OBVIOUS
  <2>1. PICK x \in S : TRUE
    OBVIOUS
  <2>2. m - 1 \in Nat /\ \A y \in S : y <= m - 1
    BY <1>1, <2>1
  <2> QED BY <1>1, <2>2
<1>3. \A y \in S : m >= y
  BY <1>1
<1>4. \E x \in S : \A y \in S : x >= y
  BY <1>2, <1>3
<1>5. Max(S) \in S /\ \A y \in S : Max(S) >= y
  BY <1>4 DEF Max
<1> QED BY <1>5

(* Among sets that are all finite, one has the fewest elements: no other   *)
(* is a part of it.                                                        *)
LEMMA SmallestSet ==
    ASSUME NEW C, C # {}, \A U \in C : IsFiniteSet(U)
    PROVE  \E U \in C : \A V \in C : V \subseteq U => V = U
<1> DEFINE sizes == {Cardinality(U) : U \in C}
<1>1. sizes \in SUBSET Nat /\ sizes # {}
  BY FS_CardinalityType
<1>2. PICK n \in sizes : \A m \in sizes : n <= m
  <2> HIDE DEF sizes
  <2> QED BY <1>1, LeastNat
<1>3. PICK U \in C : n = Cardinality(U)
  BY <1>2
<1>4. ASSUME NEW V \in C, V \subseteq U PROVE V = U
  <2>1. Cardinality(V) <= Cardinality(U) /\ (Cardinality(U) = Cardinality(V) => U = V)
    BY <1>4, FS_Subset
  <2>2. Cardinality(U) <= Cardinality(V) /\ Cardinality(U) \in Nat /\ Cardinality(V) \in Nat
    BY <1>2, <1>3, FS_CardinalityType
  <2> QED BY <2>1, <2>2
<1> QED BY <1>4
----------------------------------------------------------------------------
(* The sum of the values of f at the elements of S.                        *)
SumOver(f, S) == MapThenSumSet(LAMBDA x : f[x], S)

(* One unfolding of the recursion in it.                                   *)
Pick(s) == CHOOSE x \in s : TRUE
Unfolded(f, S, g) ==
    [s \in SUBSET S |-> IF s = {} THEN 0 ELSE f[Pick(s)] + g[s \ {Pick(s)}]]

LEMMA PickIn == ASSUME NEW S, S # {} PROVE Pick(S) \in S
  BY Zenon DEF Pick

(* Two functions that the recursion defines agree where both are defined.  *)
LEMMA UnfoldedUnique ==
    ASSUME NEW f, NEW S, NEW T, NEW g, NEW h,
           g = Unfolded(f, S, g), h = Unfolded(f, T, h),
           NEW U \in SUBSET (S \cap T), IsFiniteSet(U)
    PROVE  g[U] = h[U]
<1> DEFINE C == {V \in SUBSET U : g[V] # h[V]}
<1> SUFFICES ASSUME C # {} PROVE FALSE
  OBVIOUS
<1>1. \A V \in C : IsFiniteSet(V)
  BY FS_Subset
<1>2. PICK V \in C : \A W \in C : W \subseteq V => W = V
  <2>1. \A V \in C : IsFiniteSet(V)
    BY <1>1
  <2> HIDE DEF C
  <2> QED BY <2>1, SmallestSet
<1>3. V # {} => Pick(V) \in V /\ g[V \ {Pick(V)}] = h[V \ {Pick(V)}]
  BY <1>2, PickIn
<1>4. /\ g[V] = IF V = {} THEN 0 ELSE f[Pick(V)] + g[V \ {Pick(V)}]
      /\ h[V] = IF V = {} THEN 0 ELSE f[Pick(V)] + h[V \ {Pick(V)}]
  BY DEF Unfolded
<1> QED BY <1>3, <1>4

(* On a finite set there is such a function.                               *)
Folded(f, S) == CHOOSE g : g = Unfolded(f, S, g)

LEMMA UnfoldedExists ==
    ASSUME NEW f, NEW S, IsFiniteSet(S)
    PROVE  Folded(f, S) = Unfolded(f, S, Folded(f, S))
<1> DEFINE Defined(T) == Folded(f, T) = Unfolded(f, T, Folded(f, T))
           C == {T \in SUBSET S : ~Defined(T)}
<1>1. ASSUME NEW T, NEW g, g = Unfolded(f, T, g) PROVE Defined(T)
  BY <1>1 DEF Folded
<1> SUFFICES ASSUME C # {} PROVE FALSE
  OBVIOUS
<1>2. \A T \in SUBSET S : IsFiniteSet(T)
  BY FS_Subset
<1>3. PICK T \in C : \A V \in C : V \subseteq T => V = T
  <2>1. \A V \in C : IsFiniteSet(V)
    BY <1>2
  <2> HIDE DEF C
  <2> QED BY <2>1, SmallestSet
<1>4. ASSUME NEW V \in SUBSET T, V # T PROVE Defined(V)
  BY <1>3, <1>4
<1> DEFINE Rest(s) == s \ {Pick(s)}
           h == [s \in SUBSET T |-> IF s = {} THEN 0 ELSE f[Pick(s)] + Folded(f, Rest(s))[Rest(s)]]
<1> HIDE DEF Defined, C
<1>5. ASSUME NEW u \in SUBSET T, u # T PROVE h[u] = Folded(f, u)[u]
  <2>1. Folded(f, u)[u] = IF u = {} THEN 0 ELSE f[Pick(u)] + Folded(f, u)[Rest(u)]
    BY <1>4, <1>5 DEF Unfolded, Defined
  <2>2. CASE u = {}
    BY <2>1, <2>2
  <2>3. CASE u # {}
    <3>1. Rest(u) \in SUBSET T /\ Rest(u) # T /\ Rest(u) \subseteq u /\ IsFiniteSet(Rest(u))
      BY <1>2, <1>5 DEF C
    <3>2. Defined(u) /\ Defined(Rest(u))
      BY <1>4, <1>5, <3>1
    <3>3. Folded(f, u)[Rest(u)] = Folded(f, Rest(u))[Rest(u)]
      BY <3>1, <3>2, UnfoldedUnique DEF Defined
    <3> QED BY <2>1, <2>3, <3>3
  <2> QED BY <2>2, <2>3
<1>6. ASSUME NEW s \in SUBSET T, s # {} PROVE h[Rest(s)] = Folded(f, Rest(s))[Rest(s)]
  <2>1. Pick(s) \in s
    BY <1>6, PickIn
  <2> QED BY <1>5, <2>1
<1>7. h = Unfolded(f, T, h)
  BY <1>6 DEF Unfolded
<1> HIDE DEF h
<1> QED BY <1>1, <1>7 DEF C
----------------------------------------------------------------------------
(* The sum is the value that the recursion has at the whole set.           *)
LEMMA SumIsFolded ==
    ASSUME NEW f, NEW S
    PROVE  SumOver(f, S) = Folded(f, S)[S]
  BY DEF SumOver, MapThenSumSet, MapThenFoldSet, Folded, Unfolded, Pick

(* The empty sum, and the sum from any first element that is picked.       *)
LEMMA SumEmpty == ASSUME NEW f PROVE SumOver(f, {}) = 0
<1>1. Folded(f, {}) = Unfolded(f, {}, Folded(f, {}))
  BY FS_EmptySet, UnfoldedExists
<1>2. Folded(f, {})[{}] = 0
  BY <1>1 DEF Unfolded
<1> QED BY <1>2, SumIsFolded

LEMMA SumPicked ==
    ASSUME NEW f, NEW S, IsFiniteSet(S), S # {}
    PROVE  SumOver(f, S) = f[Pick(S)] + SumOver(f, S \ {Pick(S)})
<1> DEFINE R == S \ {Pick(S)}
<1>1. IsFiniteSet(R)
  BY FS_Subset
<1>2. Folded(f, S) = Unfolded(f, S, Folded(f, S)) /\ Folded(f, R) = Unfolded(f, R, Folded(f, R))
  BY <1>1, UnfoldedExists
<1>3. Folded(f, S)[R] = Folded(f, R)[R]
  BY <1>1, <1>2, UnfoldedUnique
<1>4. Folded(f, S)[S] = f[Pick(S)] + Folded(f, S)[R]
  BY <1>2 DEF Unfolded
<1> QED BY <1>3, <1>4, SumIsFolded

(* A sum of integers is an integer, of naturals a natural.                 *)
LEMMA SumInt ==
    ASSUME NEW f, NEW S, IsFiniteSet(S), \A x \in S : f[x] \in Int
    PROVE  SumOver(f, S) \in Int
<1> DEFINE C == {T \in SUBSET S : SumOver(f, T) \notin Int}
<1> SUFFICES ASSUME C # {} PROVE FALSE
  OBVIOUS
<1>1. \A T \in SUBSET S : IsFiniteSet(T)
  BY FS_Subset
<1>2. PICK T \in C : \A V \in C : V \subseteq T => V = T
  <2>1. \A V \in C : IsFiniteSet(V)
    BY <1>1
  <2> HIDE DEF C
  <2> QED BY <2>1, SmallestSet
<1>3. CASE T = {}
  BY <1>3, SumEmpty
<1>4. CASE T # {}
  <2>1. Pick(T) \in T
    BY <1>4, PickIn
  <2>2. SumOver(f, T) = f[Pick(T)] + SumOver(f, T \ {Pick(T)})
    BY <1>1, <1>4, SumPicked
  <2>3. SumOver(f, T \ {Pick(T)}) \in Int
    BY <1>2, <2>1
  <2> QED BY <2>1, <2>2, <2>3
<1> QED BY <1>3, <1>4

LEMMA SumNat ==
    ASSUME NEW f, NEW S, IsFiniteSet(S), \A x \in S : f[x] \in Nat
    PROVE  SumOver(f, S) \in Nat
<1> DEFINE C == {T \in SUBSET S : SumOver(f, T) \notin Nat}
<1> SUFFICES ASSUME C # {} PROVE FALSE
  OBVIOUS
<1>1. \A T \in SUBSET S : IsFiniteSet(T)
  BY FS_Subset
<1>2. PICK T \in C : \A V \in C : V \subseteq T => V = T
  <2>1. \A V \in C : IsFiniteSet(V)
    BY <1>1
  <2> HIDE DEF C
  <2> QED BY <2>1, SmallestSet
<1>3. CASE T = {}
  BY <1>3, SumEmpty
<1>4. CASE T # {}
  <2>1. Pick(T) \in T
    BY <1>4, PickIn
  <2>2. SumOver(f, T) = f[Pick(T)] + SumOver(f, T \ {Pick(T)})
    BY <1>1, <1>4, SumPicked
  <2>3. SumOver(f, T \ {Pick(T)}) \in Nat
    BY <1>2, <2>1
  <2> QED BY <2>1, <2>2, <2>3
<1> QED BY <1>3, <1>4

(* The order does not matter: any element may be taken out first.          *)
LEMMA SumRemove ==
    ASSUME NEW f, NEW S, IsFiniteSet(S), \A x \in S : f[x] \in Int, NEW a \in S
    PROVE  SumOver(f, S) = f[a] + SumOver(f, S \ {a})
<1> DEFINE Splits(T) == \A x \in T : SumOver(f, T) = f[x] + SumOver(f, T \ {x})
           C == {T \in SUBSET S : ~Splits(T)}
<1> SUFFICES ASSUME C # {} PROVE FALSE
  OBVIOUS
<1>1. \A T \in SUBSET S : IsFiniteSet(T) /\ SumOver(f, T) \in Int
  BY FS_Subset, SumInt
<1>2. PICK T \in C : \A V \in C : V \subseteq T => V = T
  <2>1. \A V \in C : IsFiniteSet(V)
    BY <1>1
  <2> HIDE DEF C
  <2> QED BY <2>1, SmallestSet
<1>3. PICK x \in T : SumOver(f, T) # f[x] + SumOver(f, T \ {x})
  BY <1>2
<1> DEFINE y == Pick(T)
<1>4. y \in T /\ SumOver(f, T) = f[y] + SumOver(f, T \ {y})
  BY <1>1, <1>3, PickIn, SumPicked
<1> HIDE DEF y
<1>5. x # y
  BY <1>3, <1>4
<1>6. Splits(T \ {x}) /\ Splits(T \ {y})
  BY <1>2, <1>3, <1>4
<1>7. /\ SumOver(f, T \ {y}) = f[x] + SumOver(f, T \ {x, y})
      /\ SumOver(f, T \ {x}) = f[y] + SumOver(f, T \ {x, y})
  <2>1. (T \ {y}) \ {x} = T \ {x, y} /\ (T \ {x}) \ {y} = T \ {x, y}
    OBVIOUS
  <2> QED BY <1>3, <1>4, <1>5, <1>6, <2>1
<1>8. f[x] \in Int /\ f[y] \in Int /\ SumOver(f, T \ {x, y}) \in Int
  BY <1>1, <1>3, <1>4
<1> QED BY <1>3, <1>4, <1>7, <1>8

(* Functions that agree on a set have the same sum over it.                *)
LEMMA SumSame ==
    ASSUME NEW f, NEW g, NEW S, IsFiniteSet(S), \A x \in S : f[x] = g[x]
    PROVE  SumOver(f, S) = SumOver(g, S)
<1> DEFINE C == {T \in SUBSET S : SumOver(f, T) # SumOver(g, T)}
<1> SUFFICES ASSUME C # {} PROVE FALSE
  OBVIOUS
<1>1. \A T \in SUBSET S : IsFiniteSet(T)
  BY FS_Subset
<1>2. PICK T \in C : \A V \in C : V \subseteq T => V = T
  <2>1. \A V \in C : IsFiniteSet(V)
    BY <1>1
  <2> HIDE DEF C
  <2> QED BY <2>1, SmallestSet
<1>3. CASE T = {}
  BY <1>3, SumEmpty
<1>4. CASE T # {}
  <2>1. Pick(T) \in T
    BY <1>4, PickIn
  <2>2. /\ SumOver(f, T) = f[Pick(T)] + SumOver(f, T \ {Pick(T)})
        /\ SumOver(g, T) = g[Pick(T)] + SumOver(g, T \ {Pick(T)})
    BY <1>1, <1>4, SumPicked
  <2>3. SumOver(f, T \ {Pick(T)}) = SumOver(g, T \ {Pick(T)})
    BY <1>2, <2>1
  <2> QED BY <2>1, <2>2, <2>3
<1> QED BY <1>3, <1>4

(* A change of one value changes the sum by as much.                       *)
LEMMA SumChanged ==
    ASSUME NEW f, NEW g, NEW S, IsFiniteSet(S), NEW a \in S,
           \A x \in S : f[x] \in Int /\ g[x] \in Int,
           \A x \in S \ {a} : f[x] = g[x]
    PROVE  SumOver(g, S) = SumOver(f, S) - f[a] + g[a]
<1>1. SumOver(f, S) = f[a] + SumOver(f, S \ {a}) /\ SumOver(g, S) = g[a] + SumOver(g, S \ {a})
  BY SumRemove
<1>2. IsFiniteSet(S \ {a})
  BY FS_Subset
<1>3. SumOver(f, S \ {a}) = SumOver(g, S \ {a}) /\ SumOver(f, S \ {a}) \in Int
  BY <1>2, SumSame, SumInt
<1> QED BY <1>1, <1>3

(* A sum of naturals is at least each of its terms.                        *)
LEMMA TermBelowSum ==
    ASSUME NEW f, NEW S, IsFiniteSet(S), \A x \in S : f[x] \in Nat, NEW a \in S
    PROVE  f[a] <= SumOver(f, S)
<1>1. IsFiniteSet(S \ {a})
  BY FS_Subset
<1>2. SumOver(f, S) = f[a] + SumOver(f, S \ {a}) /\ SumOver(f, S \ {a}) \in Nat
  BY <1>1, SumRemove, SumNat
<1> QED BY <1>2

(* Induction over a finite set, for a property given as the set of the     *)
(* subsets that have it: the empty set has it, and a set has it when it    *)
(* does without one of its elements.                                       *)
LEMMA SubsetInduction ==
    ASSUME NEW S, IsFiniteSet(S), NEW G, {} \in G,
           \A T \in SUBSET S : \A x \in T : T \ {x} \in G => T \in G
    PROVE  S \in G
<1> DEFINE C == {T \in SUBSET S : T \notin G}
<1> SUFFICES ASSUME C # {} PROVE FALSE
  OBVIOUS
<1>1. \A V \in C : IsFiniteSet(V)
  BY FS_Subset
<1>2. PICK T \in C : \A V \in C : V \subseteq T => V = T
  <2> HIDE DEF C
  <2> QED BY <1>1, SmallestSet
<1>3. PICK x : x \in T
  BY <1>2
<1>4. T \ {x} \in G
  BY <1>2, <1>3
<1> QED BY <1>2, <1>3, <1>4

(* Sums of sums, of smaller terms, of zeros.                               *)
LEMMA SumAdd ==
    ASSUME NEW S, IsFiniteSet(S), NEW f, NEW g, NEW h,
           \A x \in S : f[x] \in Int /\ g[x] \in Int /\ h[x] = f[x] + g[x]
    PROVE  SumOver(h, S) = SumOver(f, S) + SumOver(g, S)
<1> DEFINE G == {T \in SUBSET S : SumOver(h, T) = SumOver(f, T) + SumOver(g, T)}
<1>1. {} \in G
  BY SumEmpty
<1>2. ASSUME NEW T \in SUBSET S, NEW x \in T, T \ {x} \in G PROVE T \in G
  <2>1. IsFiniteSet(T) /\ IsFiniteSet(T \ {x})
    BY FS_Subset
  <2>2. /\ SumOver(f, T) = f[x] + SumOver(f, T \ {x})
        /\ SumOver(g, T) = g[x] + SumOver(g, T \ {x})
    BY <2>1, SumRemove
  <2>3. SumOver(h, T) = h[x] + SumOver(h, T \ {x})
    <3>1. \A y \in T : h[y] \in Int
      OBVIOUS
    <3> QED BY <2>1, <3>1, SumRemove
  <2>4. SumOver(f, T \ {x}) \in Int /\ SumOver(g, T \ {x}) \in Int
    BY <2>1, SumInt
  <2>5. f[x] \in Int /\ g[x] \in Int /\ h[x] = f[x] + g[x]
        /\ SumOver(h, T \ {x}) = SumOver(f, T \ {x}) + SumOver(g, T \ {x})
    BY <1>2
  <2>6. SumOver(h, T) = SumOver(f, T) + SumOver(g, T)
    BY <2>2, <2>3, <2>4, <2>5
  <2> QED BY <2>6
<1>3. S \in G
  <2> HIDE DEF G
  <2> QED BY <1>1, <1>2, SubsetInduction
<1> QED BY <1>3

LEMMA SumMonotone ==
    ASSUME NEW S, IsFiniteSet(S), NEW f, NEW g, \A x \in S : f[x] \in Int /\ g[x] \in Int /\ f[x] <= g[x]
    PROVE  SumOver(f, S) <= SumOver(g, S)
<1> DEFINE d == [x \in S |-> g[x] - f[x]]
<1>1. SumOver(d, S) \in Nat /\ SumOver(f, S) \in Int
  <2>1. \A x \in S : d[x] \in Nat
    OBVIOUS
  <2> HIDE DEF d
  <2> QED BY <2>1, SumNat, SumInt
<1>2. SumOver(g, S) = SumOver(f, S) + SumOver(d, S)
  <2>1. \A x \in S : f[x] \in Int /\ d[x] \in Int /\ g[x] = f[x] + d[x]
    OBVIOUS
  <2> HIDE DEF d
  <2> QED BY <2>1, SumAdd
<1> QED BY <1>1, <1>2

LEMMA SumZero ==
    ASSUME NEW S, IsFiniteSet(S), NEW f, \A x \in S : f[x] = 0
    PROVE  SumOver(f, S) = 0
<1> DEFINE G == {T \in SUBSET S : SumOver(f, T) = 0}
<1>1. {} \in G
  BY SumEmpty
<1>2. ASSUME NEW T \in SUBSET S, NEW x \in T, T \ {x} \in G PROVE T \in G
  <2>1. IsFiniteSet(T) /\ \A y \in T : f[y] \in Int
    BY FS_Subset
  <2>2. SumOver(f, T) = f[x] + SumOver(f, T \ {x})
    BY <2>1, SumRemove
  <2> QED BY <1>2, <2>2
<1>3. S \in G
  <2> HIDE DEF G
  <2> QED BY <1>1, <1>2, SubsetInduction
<1> QED BY <1>3

(* A sum over a part is one over the whole with zeros elsewhere.           *)
LEMMA SumPart ==
    ASSUME NEW T, IsFiniteSet(T), NEW S \in SUBSET T, NEW f, NEW g,
           \A x \in S : f[x] \in Int /\ g[x] = f[x], \A x \in T \ S : g[x] = 0
    PROVE  SumOver(g, T) = SumOver(f, S)
<1> DEFINE G == {U \in SUBSET (T \ S) : SumOver(g, S \cup U) = SumOver(f, S)}
<1>1. IsFiniteSet(S) /\ IsFiniteSet(T \ S)
  BY FS_Subset
<1>2. {} \in G
  <2>1. SumOver(g, S) = SumOver(f, S) /\ S \cup {} = S
    BY <1>1, SumSame
  <2> QED BY <2>1
<1>3. ASSUME NEW U \in SUBSET (T \ S), NEW x \in U, U \ {x} \in G PROVE U \in G
  <2>1. IsFiniteSet(S \cup U) /\ \A y \in S \cup U : g[y] \in Int
    <3>1. S \cup U \subseteq T
      OBVIOUS
    <3> QED BY <3>1, FS_Subset
  <2>2. SumOver(g, S \cup U) = g[x] + SumOver(g, (S \cup U) \ {x})
    BY <2>1, SumRemove
  <2>3. (S \cup U) \ {x} = S \cup (U \ {x}) /\ g[x] = 0
    OBVIOUS
  <2>4. SumOver(g, S \cup (U \ {x})) = SumOver(f, S) /\ SumOver(f, S) \in Int
    BY <1>1, <1>3, SumInt
  <2>5. SumOver(g, (S \cup U) \ {x}) = SumOver(f, S)
    BY <2>3, <2>4, Zenon
  <2>6. SumOver(g, S \cup U) = SumOver(f, S)
    <3> DEFINE a == SumOver(g, S \cup U)
               b == SumOver(g, (S \cup U) \ {x})
    <3>1. a = g[x] + b /\ g[x] = 0 /\ b = SumOver(f, S) /\ SumOver(f, S) \in Int
      BY <2>2, <2>3, <2>4, <2>5
    <3> HIDE DEF a, b
    <3>2. a = SumOver(f, S)
      BY <3>1
    <3> QED BY <3>2 DEF a
  <2> QED BY <2>6
<1>4. T \ S \in G
  <2> HIDE DEF G
  <2> QED BY <1>1, <1>2, <1>3, SubsetInduction
<1>5. S \cup (T \ S) = T
  OBVIOUS
<1> QED BY <1>4, <1>5

(* Renaming the indices one to one keeps the sum.                          *)
Renamed(h, S) == {h[x] : x \in S}

LEMMA SumRenamed ==
    ASSUME NEW S, IsFiniteSet(S), NEW f, NEW g, NEW h,
           \A x \in S : f[x] \in Int /\ g[h[x]] = f[x],
           \A x, y \in S : h[x] = h[y] => x = y
    PROVE  SumOver(g, Renamed(h, S)) = SumOver(f, S)
<1> DEFINE Image(T) == {h[x] : x \in T}
           G == {T \in SUBSET S : IsFiniteSet(Image(T)) /\ SumOver(g, Image(T)) = SumOver(f, T)}
<1>1. {} \in G
  <2>1. Image({}) = {}
    OBVIOUS
  <2> QED BY <2>1, SumEmpty, FS_EmptySet
<1>2. ASSUME NEW T \in SUBSET S, NEW x \in T, T \ {x} \in G PROVE T \in G
  <2>1. Image(T) = Image(T \ {x}) \cup {h[x]}
    OBVIOUS
  <2>2. h[x] \in Image(T) /\ Image(T) \ {h[x]} = Image(T \ {x})
    OBVIOUS
  <2>3. IsFiniteSet(T) /\ IsFiniteSet(Image(T))
    BY <1>2, <2>1, FS_Subset, FS_AddElement
  <2>4. \A y \in Image(T) : g[y] \in Int
    OBVIOUS
  <2>5. SumOver(f, T) = f[x] + SumOver(f, T \ {x})
    BY <2>3, SumRemove
  <2>6. SumOver(g, Image(T)) = g[h[x]] + SumOver(g, Image(T \ {x}))
    <3> DEFINE I == Image(T)
               a == h[x]
    <3>1. IsFiniteSet(I) /\ a \in I /\ \A y \in I : g[y] \in Int
      BY <2>2, <2>3, <2>4
    <3>2. SumOver(g, I) = g[a] + SumOver(g, I \ {a})
      <4> HIDE DEF I, a
      <4> QED BY <3>1, SumRemove
    <3> HIDE DEF Image
    <3> QED BY <2>2, <3>2
  <2>7. g[h[x]] = f[x] /\ SumOver(g, Image(T \ {x})) = SumOver(f, T \ {x})
    BY <1>2
  <2>8. SumOver(g, Image(T)) = SumOver(f, T)
    <3> HIDE DEF Image
    <3> QED BY <2>5, <2>6, <2>7
  <2> QED BY <2>3, <2>8
<1>3. S \in G
  <2> HIDE DEF G
  <2> QED BY <1>1, <1>2, SubsetInduction
<1> QED BY <1>3 DEF Renamed

(* The greater and the smaller of two integers.                            *)
LEMMA MaxOfTwo ==
    ASSUME NEW a \in Int, NEW b \in Int
    PROVE  Max({a, b}) = IF a >= b THEN a ELSE b
  BY DEF Max

LEMMA MinOfTwo ==
    ASSUME NEW a \in Int, NEW b \in Int
    PROVE  Min({a, b}) = IF a <= b THEN a ELSE b
  BY DEF Min
----------------------------------------------------------------------------
(* Induction up to n, with the property as a set.                          *)
LEMMA UpTo ==
    ASSUME NEW n \in Nat, NEW G, 0 \in G, \A i \in 1..n : i - 1 \in G => i \in G
    PROVE  \A i \in 0..n : i \in G
<1> DEFINE C == {i \in 0..n : i \notin G}
<1> SUFFICES ASSUME C # {} PROVE FALSE
  OBVIOUS
<1>1. PICK k \in C : \A i \in C : k <= i
  <2>1. C \in SUBSET Nat
    OBVIOUS
  <2> HIDE DEF C
  <2> QED BY <2>1, LeastNat
<1>2. k \in 1..n /\ k - 1 \in 0..n /\ k - 1 < k
  OBVIOUS
<1>3. k - 1 \in G
  BY <1>1, <1>2
<1> QED BY <1>2, <1>3

(* A recursion along the positions of a sequence has a solution.           *)
Solves(g, base, step, n, s) == g[0] = base /\ \A i \in 1..n : g[i] = step[<<g[i - 1], s[i]>>]

LEMMA RecursionAlong ==
    ASSUME NEW A, NEW B, NEW base \in A, NEW step \in [A \X B -> A], NEW n \in Nat, NEW s \in [1..n -> B]
    PROVE  \E g \in [0..n -> A] : Solves(g, base, step, n, s)
<1> DEFINE G == {k \in 0..n : \E g \in [0..k -> A] : Solves(g, base, step, k, s)}
<1>1. 0 \in G
  <2> DEFINE g == [i \in 0..0 |-> base]
  <2>1. g \in [0..0 -> A] /\ Solves(g, base, step, 0, s) /\ 0 \in 0..n
    BY DEF Solves
  <2> HIDE DEF g
  <2> QED BY <2>1
<1>2. ASSUME NEW k \in 1..n, k - 1 \in G PROVE k \in G
  <2>1. PICK g \in [0..(k - 1) -> A] : Solves(g, base, step, k - 1, s)
    BY <1>2
  <2> DEFINE h == [i \in 0..k |-> IF i = k THEN step[<<g[k - 1], s[k]>>] ELSE g[i]]
  <2>2. <<g[k - 1], s[k]>> \in A \X B
    OBVIOUS
  <2>3. step[<<g[k - 1], s[k]>>] \in A
    BY <2>2
  <2>4. h \in [0..k -> A]
    BY <2>3
  <2>5. h[0] = base
    BY <2>1 DEF Solves
  <2>6. ASSUME NEW i \in 1..k PROVE h[i] = step[<<h[i - 1], s[i]>>]
    <3>1. CASE i = k
      <4>1. k - 1 \in 0..k /\ k - 1 # k /\ k \in 0..k
        OBVIOUS
      <4>2. h[k] = step[<<g[k - 1], s[k]>>] /\ h[k - 1] = g[k - 1]
        BY <4>1
      <4> QED BY <3>1, <4>2
    <3>2. CASE i # k
      <4>1. i \in 1..(k - 1) /\ i - 1 \in 0..(k - 1) /\ i - 1 # k
        BY <3>2
      <4>2. h[i] = g[i] /\ h[i - 1] = g[i - 1]
        BY <3>2, <4>1
      <4> QED BY <2>1, <4>1, <4>2 DEF Solves
    <3> QED BY <3>1, <3>2
  <2> HIDE DEF h
  <2>7. Solves(h, base, step, k, s)
    BY <2>5, <2>6 DEF Solves
  <2> QED BY <2>4, <2>7
<1> HIDE DEF G
<1>3. \A i \in 1..n : i - 1 \in G => i \in G
  BY <1>2
<1>4. \A i \in 0..n : i \in G
  BY <1>1, <1>3, UpTo
<1>5. n \in G
  BY <1>4
<1> QED BY <1>5 DEF G
=============================================================================
