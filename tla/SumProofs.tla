----------------------------- MODULE SumProofs -----------------------------
(***************************************************************************)
(* Sums over finite sets: what FoldFunction gives for addition.            *)
(*                                                                         *)
(* The fold is a recursive function on the subsets of its indices, which   *)
(* takes an element away at each call.  That there is such a function, and *)
(* that the order does not matter, is proved by induction on the size of   *)
(* subsets: a least size at which a claim fails would be 0 or follow one   *)
(* at which it holds.                                                      *)
(***************************************************************************)
EXTENDS Functions, FiniteSetTheorems, TLAPS

\* The sum of f over S, as the fold computes it.
Sum(f, S) == FoldFunctionOnSet(LAMBDA x, y : x + y, 0, f, S)

Chosen(s) == CHOOSE x \in s : TRUE

\* What the fold's recursion makes of g at s.
Unfold(g, f, s) == IF s = {} THEN 0 ELSE f[Chosen(s)] + g[s \ {Chosen(s)}]

\* The function on the subsets of S that the recursion defines.
IsFold(g, f, S) == g = [s \in SUBSET S |-> Unfold(g, f, s)]
Fold(f, S) == CHOOSE g : IsFold(g, f, S)

LEMMA SumIsFold ==
  ASSUME NEW f, NEW S
  PROVE  Sum(f, S) = Fold(f, S)[S]
BY DEF Sum, FoldFunctionOnSet, MapThenFoldSet, Fold, IsFold, Unfold, Chosen

-----------------------------------------------------------------------------
(* Induction on sizes. *)

\* Numbers.
LEMMA SizeInduction ==
  ASSUME NEW T, T \subseteq Nat, 0 \in T, \A n \in T : n + 1 \in T
  PROVE  T = Nat
<1> SUFFICES ASSUME Nat \ T # {} PROVE FALSE
  OBVIOUS
<1>1. PICK n \in Nat \ T : \A m \in Nat \ T : <<m, n>> \notin OpToRel(<, Nat)
  BY WFMin, NatLessThanWellFounded
<1>2. n \in Nat /\ n - 1 \in Nat /\ n - 1 < n /\ (n - 1) + 1 = n
  <2>1. n \in Nat /\ n # 0
    OBVIOUS
  <2> QED BY <2>1
<1>3. <<n - 1, n>> \in OpToRel(<, Nat)
  BY <1>2 DEF OpToRel
<1>4. n - 1 \in T
  BY <1>1, <1>2, <1>3
<1>5. (n - 1) + 1 \in T
  BY <1>4
<1> QED BY <1>2, <1>5

\* Subsets of a finite set, each reached from those with an element less.
LEMMA SubsetInduction ==
  ASSUME NEW S, IsFiniteSet(S), NEW T, {} \in T,
         \A s \in SUBSET S : s # {} /\ (\A x \in s : s \ {x} \in T) => s \in T
  PROVE  SUBSET S \subseteq T
<1> DEFINE Reached == {n \in Nat : \A s \in SUBSET S : Cardinality(s) = n => s \in T}
<1>1. \A s \in SUBSET S : IsFiniteSet(s) /\ Cardinality(s) \in Nat
  BY FS_Subset, FS_CardinalityType
<1>2. 0 \in Reached
  BY <1>1, FS_EmptySet
<1>3. ASSUME NEW n \in Reached PROVE n + 1 \in Reached
  <2> SUFFICES ASSUME NEW s \in SUBSET S, Cardinality(s) = n + 1 PROVE s \in T
    OBVIOUS
  <2>1. s # {}
    BY FS_EmptySet
  <2>2. ASSUME NEW x \in s PROVE s \ {x} \in T
    <3>1. Cardinality(s \ {x}) = n
      BY <1>1, FS_RemoveElement
    <3> QED BY <3>1
  <2> QED BY <2>1, <2>2
<1>4. Reached = Nat
  <2> HIDE DEF Reached
  <2> QED BY <1>2, <1>3, SizeInduction DEF Reached
<1> QED BY <1>1, <1>4

-----------------------------------------------------------------------------
(* The recursion. *)

\* The recursion has a solution on the subsets of at most n elements, for each n.
LEMMA FoldExists ==
  ASSUME NEW S, IsFiniteSet(S), NEW f
  PROVE  \E g : IsFold(g, f, S)
<1> DEFINE Small(n) == {s \in SUBSET S : Cardinality(s) <= n}
           Solved   == {n \in Nat : \E g : g = [s \in Small(n) |-> Unfold(g, f, s)]}
<1>1. \A s \in SUBSET S : IsFiniteSet(s) /\ Cardinality(s) \in Nat
  BY FS_Subset, FS_CardinalityType
<1>2. \A s \in SUBSET S : s # {} =>
        /\ Chosen(s) \in s /\ s \ {Chosen(s)} \in SUBSET S
        /\ Cardinality(s \ {Chosen(s)}) = Cardinality(s) - 1
  <2> SUFFICES ASSUME NEW s \in SUBSET S, s # {}
               PROVE  /\ Chosen(s) \in s
                      /\ Cardinality(s \ {Chosen(s)}) = Cardinality(s) - 1
    OBVIOUS
  <2>1. Chosen(s) \in s
    BY DEF Chosen
  <2> QED BY <1>1, <2>1, FS_RemoveElement
<1>3. 0 \in Solved
  <2> DEFINE g == [s \in Small(0) |-> 0]
  <2>1. \A s \in Small(0) : s = {}
    BY <1>1, FS_EmptySet
  <2>2. g = [s \in Small(0) |-> Unfold(g, f, s)]
    BY <2>1 DEF Unfold
  <2> QED BY <2>2
<1>4. ASSUME NEW n \in Solved PROVE n + 1 \in Solved
  <2>1. PICK g : g = [s \in Small(n) |-> Unfold(g, f, s)]
    OBVIOUS
  <2> DEFINE h == [s \in Small(n + 1) |-> Unfold(g, f, s)]
  <2>2. Small(n) \subseteq Small(n + 1)
    BY <1>1
  <2>3. \A s \in Small(n) : h[s] = g[s]
    BY <2>1, <2>2
  <2>4. ASSUME NEW s \in Small(n + 1), s # {} PROVE s \ {Chosen(s)} \in Small(n)
    BY <1>1, <1>2, <2>4
  <2>5. \A s \in Small(n + 1) : Unfold(g, f, s) = Unfold(h, f, s)
    BY <2>3, <2>4 DEF Unfold
  <2>6. h = [s \in Small(n + 1) |-> Unfold(h, f, s)]
    BY <2>5
  <2>7. \E k : k = [s \in Small(n + 1) |-> Unfold(k, f, s)]
    <3> HIDE DEF h
    <3> QED BY <2>6
  <2>8. n + 1 \in Nat
    OBVIOUS
  <2> HIDE DEF Small
  <2> QED BY <2>7, <2>8
<1>5. Solved = Nat
  <2> HIDE DEF Solved
  <2> QED BY <1>3, <1>4, SizeInduction DEF Solved
<1>6. Cardinality(S) \in Nat /\ Small(Cardinality(S)) = SUBSET S
  BY <1>1, FS_Subset, FS_CardinalityType
<1>7. Cardinality(S) \in Solved
  BY <1>5, <1>6
<1>8. \E g : g = [s \in Small(Cardinality(S)) |-> Unfold(g, f, s)]
  BY <1>7
<1> HIDE DEF Small
<1> QED BY <1>6, <1>8, Zenon DEF IsFold

\* It is one on all of them.
LEMMA FoldUnfolds ==
  ASSUME NEW S, IsFiniteSet(S), NEW f, NEW s \in SUBSET S
  PROVE  Fold(f, S)[s] = Unfold(Fold(f, S), f, s)
<1> DEFINE g == Fold(f, S)
<1>1. IsFold(g, f, S)
  BY FoldExists DEF Fold
<1> HIDE DEF g
<1>2. g[s] = Unfold(g, f, s)
  BY <1>1 DEF IsFold
<1> QED BY <1>2 DEF g

\* It does not depend on what S is beyond the subset.
LEMMA FoldRestricts ==
  ASSUME NEW S, IsFiniteSet(S), NEW f, NEW s \in SUBSET S
  PROVE  Fold(f, S)[s] = Fold(f, s)[s]
<1> DEFINE T == {t \in SUBSET S : t \subseteq s => Fold(f, S)[t] = Fold(f, s)[t]}
<1>1. IsFiniteSet(s)
  BY FS_Subset
<1>2. {} \in T
  BY <1>1, FoldUnfolds DEF Unfold
<1>3. ASSUME NEW t \in SUBSET S, t # {}, \A x \in t : t \ {x} \in T PROVE t \in T
  <2> SUFFICES ASSUME t \subseteq s PROVE Fold(f, S)[t] = Fold(f, s)[t]
    OBVIOUS
  <2>1. Chosen(t) \in t
    BY <1>3 DEF Chosen
  <2>2. Fold(f, S)[t \ {Chosen(t)}] = Fold(f, s)[t \ {Chosen(t)}]
    BY <1>3, <2>1
  <2>3. Fold(f, S)[t] = Unfold(Fold(f, S), f, t) /\ Fold(f, s)[t] = Unfold(Fold(f, s), f, t)
    BY <1>1, FoldUnfolds
  <2> QED BY <2>2, <2>3 DEF Unfold
<1>4. SUBSET S \subseteq T
  <2> HIDE DEF T
  <2> QED BY <1>2, <1>3, SubsetInduction
<1> QED BY <1>4

\* The sum takes one element off after the other.
LEMMA SumUnfolds ==
  ASSUME NEW S, IsFiniteSet(S), NEW f
  PROVE  Sum(f, S) = IF S = {} THEN 0 ELSE f[Chosen(S)] + Sum(f, S \ {Chosen(S)})
<1>1. \A s : Sum(f, s) = Fold(f, s)[s]
  BY SumIsFold
<1>2. \A s \in SUBSET S : Sum(f, s) = Fold(f, S)[s]
  BY <1>1, FoldRestricts
<1>3. S # {} => S \ {Chosen(S)} \in SUBSET S
  OBVIOUS
<1>4. Fold(f, S)[S] = Unfold(Fold(f, S), f, S)
  BY FoldUnfolds
<1>5. CASE S = {}
  BY <1>2, <1>4, <1>5 DEF Unfold
<1>6. CASE S # {}
  <2>1. Fold(f, S)[S] = f[Chosen(S)] + Fold(f, S)[S \ {Chosen(S)}]
    BY <1>4, <1>6 DEF Unfold
  <2> QED BY <1>2, <1>3, <1>6, <2>1
<1> QED BY <1>5, <1>6

-----------------------------------------------------------------------------
(* What sums are. *)

\* The sum of nothing.
LEMMA SumEmpty == ASSUME NEW f PROVE Sum(f, {}) = 0
BY SumUnfolds, FS_EmptySet

\* Only the values at the indices matter.
LEMMA SumCongruent ==
  ASSUME NEW S, IsFiniteSet(S), NEW f, NEW g, \A x \in S : f[x] = g[x]
  PROVE  Sum(f, S) = Sum(g, S)
<1> DEFINE T == {s \in SUBSET S : Sum(f, s) = Sum(g, s)}
<1>1. {} \in T
  BY SumEmpty
<1>2. ASSUME NEW s \in SUBSET S, s # {}, \A x \in s : s \ {x} \in T PROVE s \in T
  <2>1. IsFiniteSet(s)
    BY FS_Subset
  <2>2. Chosen(s) \in s
    BY <1>2 DEF Chosen
  <2>3. Sum(f, s \ {Chosen(s)}) = Sum(g, s \ {Chosen(s)}) /\ f[Chosen(s)] = g[Chosen(s)]
    BY <1>2, <2>2
  <2> QED BY <1>2, <2>1, <2>3, SumUnfolds
<1>3. SUBSET S \subseteq T
  <2> HIDE DEF T
  <2> QED BY <1>1, <1>2, SubsetInduction
<1> QED BY <1>3

\* Integers have an integer sum.
LEMMA SumIsInt ==
  ASSUME NEW S, IsFiniteSet(S), NEW f, \A x \in S : f[x] \in Int
  PROVE  Sum(f, S) \in Int
<1> DEFINE T == {s \in SUBSET S : Sum(f, s) \in Int}
<1>1. {} \in T
  BY SumEmpty
<1>2. ASSUME NEW s \in SUBSET S, s # {}, \A x \in s : s \ {x} \in T PROVE s \in T
  <2>1. IsFiniteSet(s)
    BY FS_Subset
  <2>2. Chosen(s) \in s
    BY <1>2 DEF Chosen
  <2>3. Sum(f, s \ {Chosen(s)}) \in Int /\ f[Chosen(s)] \in Int
    BY <1>2, <2>2
  <2>4. Sum(f, s) = f[Chosen(s)] + Sum(f, s \ {Chosen(s)})
    BY <1>2, <2>1, SumUnfolds
  <2> QED BY <2>3, <2>4
<1>3. SUBSET S \subseteq T
  <2> HIDE DEF T
  <2> QED BY <1>1, <1>2, SubsetInduction
<1> QED BY <1>3

\* And naturals a natural one.
LEMMA SumIsNat ==
  ASSUME NEW S, IsFiniteSet(S), NEW f, \A x \in S : f[x] \in Nat
  PROVE  Sum(f, S) \in Nat
<1> DEFINE T == {s \in SUBSET S : Sum(f, s) \in Nat}
<1>1. {} \in T
  BY SumEmpty
<1>2. ASSUME NEW s \in SUBSET S, s # {}, \A x \in s : s \ {x} \in T PROVE s \in T
  <2>1. IsFiniteSet(s)
    BY FS_Subset
  <2>2. Chosen(s) \in s
    BY <1>2 DEF Chosen
  <2>3. Sum(f, s \ {Chosen(s)}) \in Nat /\ f[Chosen(s)] \in Nat
    BY <1>2, <2>2
  <2>4. Sum(f, s) = f[Chosen(s)] + Sum(f, s \ {Chosen(s)})
    BY <1>2, <2>1, SumUnfolds
  <2> QED BY <2>3, <2>4
<1>3. SUBSET S \subseteq T
  <2> HIDE DEF T
  <2> QED BY <1>1, <1>2, SubsetInduction
<1> QED BY <1>3

\* Any element may be taken off, not only the fold's choice.
LEMMA SumTakes ==
  ASSUME NEW S, IsFiniteSet(S), NEW f, \A x \in S : f[x] \in Int, NEW e \in S
  PROVE  Sum(f, S) = f[e] + Sum(f, S \ {e})
<1> DEFINE T == {s \in SUBSET S : \A x \in s : Sum(f, s) = f[x] + Sum(f, s \ {x})}
<1>0. \A s \in SUBSET S : IsFiniteSet(s) /\ Sum(f, s) \in Int
  BY FS_Subset, SumIsInt
<1>1. {} \in T
  OBVIOUS
<1>2. ASSUME NEW s \in SUBSET S, s # {}, \A x \in s : s \ {x} \in T PROVE s \in T
  <2> SUFFICES ASSUME NEW x \in s PROVE Sum(f, s) = f[x] + Sum(f, s \ {x})
    OBVIOUS
  <2> DEFINE c == Chosen(s)
  <2>1. c \in s
    BY DEF Chosen
  <2>2. Sum(f, s) = f[c] + Sum(f, s \ {c})
    BY <1>0, <1>2, SumUnfolds
  <2> HIDE DEF c
  <2>3. CASE c = x
    BY <2>2, <2>3
  <2>4. CASE c # x
    <3>1. s \ {c} \in T /\ s \ {x} \in T /\ x \in s \ {c} /\ c \in s \ {x}
      BY <1>2, <2>1, <2>4
    <3>2. /\ Sum(f, s \ {c}) = f[x] + Sum(f, (s \ {c}) \ {x})
          /\ Sum(f, s \ {x}) = f[c] + Sum(f, (s \ {x}) \ {c})
      BY <3>1
    <3>3. (s \ {c}) \ {x} = (s \ {x}) \ {c}
      OBVIOUS
    <3>4. f[x] \in Int /\ f[c] \in Int /\ Sum(f, (s \ {x}) \ {c}) \in Int
      BY <1>0, <2>1
    <3> DEFINE rest == Sum(f, (s \ {x}) \ {c})
    <3>5. Sum(f, s) = f[c] + (f[x] + rest) /\ Sum(f, s \ {x}) = f[c] + rest
      BY <2>2, <3>2, <3>3
    <3> HIDE DEF rest
    <3>6. rest \in Int
      BY <3>4 DEF rest
    <3> QED BY <3>4, <3>5, <3>6
  <2> QED BY <2>3, <2>4
<1>3. SUBSET S \subseteq T
  <2> HIDE DEF T
  <2> QED BY <1>1, <1>2, SubsetInduction
<1> QED BY <1>3

\* A sum of which one term changes.
LEMMA SumChanges ==
  ASSUME NEW S, IsFiniteSet(S), NEW e \in S, NEW f, NEW g,
         \A x \in S : f[x] \in Int /\ g[x] \in Int,
         \A x \in S \ {e} : g[x] = f[x]
  PROVE  Sum(g, S) = Sum(f, S) + (g[e] - f[e])
<1>1. Sum(f, S) = f[e] + Sum(f, S \ {e}) /\ Sum(g, S) = g[e] + Sum(g, S \ {e})
  BY SumTakes
<1>2. IsFiniteSet(S \ {e})
  BY FS_RemoveElement
<1>3. Sum(g, S \ {e}) = Sum(f, S \ {e}) /\ Sum(f, S \ {e}) \in Int
  BY <1>2, SumCongruent, SumIsInt
<1> QED BY <1>1, <1>3

\* Naturals are at most their sum.
LEMMA SumCovers ==
  ASSUME NEW S, IsFiniteSet(S), NEW f, \A x \in S : f[x] \in Nat, NEW e \in S
  PROVE  f[e] <= Sum(f, S)
<1>1. Sum(f, S) = f[e] + Sum(f, S \ {e})
  BY SumTakes
<1>2. IsFiniteSet(S \ {e})
  BY FS_RemoveElement
<1>3. Sum(f, S \ {e}) \in Nat
  BY <1>2, SumIsNat
<1> QED BY <1>1, <1>3

\* Zeros have the sum zero.
LEMMA SumOfZeros ==
  ASSUME NEW S, IsFiniteSet(S), NEW f, \A x \in S : f[x] = 0
  PROVE  Sum(f, S) = 0
<1> DEFINE T == {s \in SUBSET S : Sum(f, s) = 0}
<1>1. {} \in T
  BY SumEmpty
<1>2. ASSUME NEW s \in SUBSET S, s # {}, \A x \in s : s \ {x} \in T PROVE s \in T
  <2>1. IsFiniteSet(s)
    BY FS_Subset
  <2>2. Chosen(s) \in s
    BY <1>2 DEF Chosen
  <2>3. Sum(f, s \ {Chosen(s)}) = 0 /\ f[Chosen(s)] = 0
    BY <1>2, <2>2
  <2>4. Sum(f, s) = f[Chosen(s)] + Sum(f, s \ {Chosen(s)})
    BY <1>2, <2>1, SumUnfolds
  <2> QED BY <2>3, <2>4
<1>3. SUBSET S \subseteq T
  <2> HIDE DEF T
  <2> QED BY <1>1, <1>2, SubsetInduction
<1> QED BY <1>3

\* One of a family of counters changes.
LEMMA OneCounter ==
  ASSUME NEW S, IsFiniteSet(S), NEW f \in [S -> Nat], NEW g \in [S -> Nat], NEW e \in S,
         \A x \in S \ {e} : g[x] = f[x]
  PROVE  /\ Sum(f, S) \in Nat /\ Sum(g, S) \in Nat
         /\ Sum(g, S) = Sum(f, S) + (g[e] - f[e])
         /\ g[e] <= Sum(g, S)
<1>1. \A x \in S : f[x] \in Nat /\ g[x] \in Nat
  OBVIOUS
<1>2. Sum(f, S) \in Nat /\ Sum(g, S) \in Nat /\ g[e] <= Sum(g, S)
  BY <1>1, SumIsNat, SumCovers
<1>3. \A x \in S : f[x] \in Int /\ g[x] \in Int
  BY <1>1
<1>4. Sum(g, S) = Sum(f, S) + (g[e] - f[e])
  BY <1>3, SumChanges
<1> QED BY <1>2, <1>4

=============================================================================
