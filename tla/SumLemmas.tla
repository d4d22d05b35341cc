------------------------------ MODULE SumLemmas ------------------------------
(***************************************************************************)
(* Lemmas about finite sets that the proofs of the analytical tools share: *)
(* the least and the greatest element, induction, and sums as the          *)
(* community modules fold them.                                            *)
(***************************************************************************)
EXTENDS Integers, FiniteSets, FiniteSetsExt, FiniteSetTheorems, WellFoundedInduction, TLAPS

-----------------------------------------------------------------------------
(* Finite sets: elements, induction and folds.                             *)

\* A non-empty set of natural numbers has a least one.
LEMMA LeastExists ==
  ASSUME NEW S \in SUBSET Nat, S # {}
  PROVE  \E n \in S : \A m \in S : n <= m
<1> DEFINE R == OpToRel(<, Nat)
<1>1. R = {p \in Nat \X Nat : p[1] < p[2]}
  BY DEF OpToRel
<1>2. IsWellFoundedOn(R, Nat)
  BY NatLessThanWellFounded
<1>. HIDE DEF R
<1>3. PICK n \in S : \A m \in S : ~(<<m, n>> \in R)
  BY <1>2, WFMin
<1>4. ASSUME NEW m \in S PROVE n <= m
  <2>1. m \in Nat /\ n \in Nat /\ <<m, n>> \notin R
    BY <1>3
  <2>. QED
    BY <2>1, <1>1
<1>. QED
  BY <1>4

LEMMA GreaterOfTwo ==
  ASSUME NEW m \in Int, NEW n \in Int
  PROVE  Max({m, n}) \in {m, n} /\ Max({m, n}) >= m /\ Max({m, n}) >= n
<1>1. \E x \in {m, n} : \A y \in {m, n} : x >= y
  OBVIOUS
<1>2. Max({m, n}) \in {m, n} /\ \A y \in {m, n} : Max({m, n}) >= y
  BY <1>1 DEF Max
<1>. QED
  BY <1>2

LEMMA LesserOfTwo ==
  ASSUME NEW m \in Int, NEW n \in Int
  PROVE  Min({m, n}) \in {m, n} /\ Min({m, n}) <= m /\ Min({m, n}) <= n
<1>1. \E x \in {m, n} : \A y \in {m, n} : x <= y
  OBVIOUS
<1>2. Min({m, n}) \in {m, n} /\ \A y \in {m, n} : Min({m, n}) <= y
  BY <1>1 DEF Min
<1>. QED
  BY <1>2

\* A finite set has a first element in any total order that may have ties.
LEMMA FirstExists ==
  ASSUME NEW S, IsFiniteSet(S), S # {}, NEW R,
         \A x \in S, y \in S : <<x, y>> \in R \/ <<y, x>> \in R,
         \A x \in S, y \in S, z \in S : <<x, y>> \in R /\ <<y, z>> \in R => <<x, z>> \in R
  PROVE  \E x \in S : \A y \in S : <<x, y>> \in R
<1> DEFINE Ahead(x) == {y \in S : <<x, y>> \notin R}
           Numbers == {Cardinality(Ahead(x)) : x \in S}
<1>1. \A x \in S : IsFiniteSet(Ahead(x)) /\ Cardinality(Ahead(x)) \in Nat
  <2> SUFFICES ASSUME NEW x \in S PROVE IsFiniteSet(Ahead(x)) /\ Cardinality(Ahead(x)) \in Nat
    OBVIOUS
  <2>1. Ahead(x) \subseteq S
    OBVIOUS
  <2>. HIDE DEF Ahead
  <2>. QED
    BY <2>1, FS_Subset, FS_CardinalityType
<1>2. Numbers \in SUBSET Nat /\ Numbers # {} /\ \A y \in S : Cardinality(Ahead(y)) \in Numbers
  <2>. HIDE DEF Ahead
  <2>. QED
    BY <1>1
<1>3. PICK n \in Numbers : \A m \in Numbers : n <= m
  <2>. HIDE DEF Numbers
  <2>. QED
    BY <1>2, LeastExists
<1>4. PICK x \in S : n = Cardinality(Ahead(x))
  OBVIOUS
<1>5. ASSUME NEW y \in S, <<x, y>> \notin R PROVE FALSE
  <2>1. <<y, x>> \in R /\ <<y, y>> \in R
    BY <1>5
  <2>2. \A z \in S : <<x, z>> \in R => <<y, z>> \in R
    BY <2>1
  <2>3. Ahead(y) \subseteq Ahead(x) /\ y \in Ahead(x) /\ y \notin Ahead(y)
    BY <1>5, <2>1, <2>2
  <2>4. Cardinality(Ahead(x)) <= Cardinality(Ahead(y))
    <3>. HIDE DEF Ahead, Numbers
    <3>. QED
      BY <1>2, <1>3, <1>4
  <2>. HIDE DEF Ahead
  <2>5. Cardinality(Ahead(y)) <= Cardinality(Ahead(x))
        /\ (Cardinality(Ahead(y)) = Cardinality(Ahead(x)) => Ahead(y) = Ahead(x))
    BY <1>1, <2>3, FS_Subset
  <2>. QED
    BY <1>1, <2>3, <2>4, <2>5
<1>. QED
  BY <1>5

LEMMA MinExists ==
  ASSUME NEW S \in SUBSET Int, IsFiniteSet(S), S # {}
  PROVE  Min(S) \in S /\ \A n \in S : Min(S) <= n
<1> DEFINE R == {p \in S \X S : p[1] <= p[2]}
<1>1. \A x \in S, y \in S : <<x, y>> \in R <=> x <= y
  OBVIOUS
<1>2. /\ \A x \in S, y \in S : <<x, y>> \in R \/ <<y, x>> \in R
      /\ \A x \in S, y \in S, z \in S : <<x, y>> \in R /\ <<y, z>> \in R => <<x, z>> \in R
  BY <1>1
<1>. HIDE DEF R
<1>3. \E x \in S : \A y \in S : <<x, y>> \in R
  BY <1>2, FirstExists
<1>4. \E x \in S : \A y \in S : x <= y
  BY <1>1, <1>3
<1>. QED
  BY <1>4 DEF Min

LEMMA MaxExists ==
  ASSUME NEW S \in SUBSET Int, IsFiniteSet(S), S # {}
  PROVE  Max(S) \in S /\ \A n \in S : n <= Max(S)
<1> DEFINE R == {p \in S \X S : p[2] <= p[1]}
<1>1. \A x \in S, y \in S : <<x, y>> \in R <=> y <= x
  OBVIOUS
<1>2. /\ \A x \in S, y \in S : <<x, y>> \in R \/ <<y, x>> \in R
      /\ \A x \in S, y \in S, z \in S : <<x, y>> \in R /\ <<y, z>> \in R => <<x, z>> \in R
  BY <1>1
<1>. HIDE DEF R
<1>3. \E x \in S : \A y \in S : <<x, y>> \in R
  BY <1>2, FirstExists
<1>4. \E x \in S : \A y \in S : x >= y
  BY <1>1, <1>3
<1>5. Max(S) \in S /\ \A y \in S : Max(S) >= y
  BY <1>4 DEF Max
<1>. QED
  BY <1>5

LEMMA FiniteImage ==
  ASSUME NEW D, IsFiniteSet(D), NEW f
  PROVE  IsFiniteSet({f[x] : x \in D})
<1> DEFINE R == {f[x] : x \in D}
           g == [x \in D |-> f[x]]
<1>1. g \in Surjection(D, R)
  BY DEF Surjection
<1>. HIDE DEF g, R
<1>2. IsFiniteSet(R)
  BY <1>1, FS_Surjection
<1>. QED
  BY <1>2 DEF R

\* Induction over a finite set, by the set of the subsets for which it is shown.
LEMMA SetInduction ==
  ASSUME NEW S, IsFiniteSet(S), NEW P, {} \in P,
         \A s \in SUBSET S : s # {} /\ (\A x \in s : s \ {x} \in P) => s \in P
  PROVE  S \in P
<1> DEFINE Bad == {s \in SUBSET S : s \notin P}
           Sizes == {Cardinality(s) : s \in Bad}
<1> SUFFICES ASSUME S \notin P PROVE FALSE
  OBVIOUS
<1>1. \A s \in SUBSET S : IsFiniteSet(s) /\ Cardinality(s) \in Nat
  BY FS_Subset, FS_CardinalityType
<1>2. Sizes \in SUBSET Nat /\ Sizes # {}
  BY <1>1
<1>3. PICK n \in Sizes : \A m \in Sizes : n <= m
  <2>. HIDE DEF Sizes
  <2>. QED
    BY <1>2, LeastExists
<1>4. PICK s \in Bad : Cardinality(s) = n
  BY <1>3
<1>5. s \in SUBSET S /\ s \notin P /\ s # {}
  BY <1>4
<1>6. ASSUME NEW x \in s PROVE s \ {x} \in P
  <2>1. Cardinality(s \ {x}) = Cardinality(s) - 1 /\ s \ {x} \in SUBSET S
    BY <1>1, <1>5, FS_RemoveElement
  <2>2. Cardinality(s \ {x}) \in Nat /\ n \in Nat
    BY <1>1, <1>2, <2>1
  <2>3. s \ {x} \in Bad => Cardinality(s \ {x}) \in Sizes
    OBVIOUS
  <2>4. s \ {x} \notin Bad
    <3>. HIDE DEF Bad, Sizes
    <3>. QED
      BY <1>3, <1>4, <2>1, <2>2, <2>3
  <2>. QED
    BY <2>1, <2>4
<1>. QED
  BY <1>5, <1>6

FoldsTo(g, D, e, op, pick) ==
  \A s \in D : g[s] = IF s = {} THEN e ELSE op[<<pick[s], g[s \ {pick[s]}]>>]

\* A fold over the subsets of a finite set exists, whatever element it takes first.
LEMMA FoldExists ==
  ASSUME NEW S, IsFiniteSet(S), NEW V, NEW e \in V, NEW op \in [S \X V -> V],
         NEW pick, \A s \in SUBSET S : s # {} => pick[s] \in s
  PROVE  \E g \in [SUBSET S -> V] : FoldsTo(g, SUBSET S, e, op, pick)
<1> DEFINE Small(n) == {s \in SUBSET S : Cardinality(s) <= n}
           Lacking(n) == ~\E g \in [Small(n) -> V] : FoldsTo(g, Small(n), e, op, pick)
           Unfolded == {n \in Nat : Lacking(n)}
<1>1. \A s \in SUBSET S : IsFiniteSet(s) /\ Cardinality(s) \in Nat /\ Cardinality(s) <= Cardinality(S)
  BY FS_Subset, FS_CardinalityType
<1>2. \A s \in SUBSET S : s # {} => /\ pick[s] \in S /\ s \ {pick[s]} \in SUBSET S
                                    /\ Cardinality(s \ {pick[s]}) = Cardinality(s) - 1
  BY <1>1, FS_RemoveElement
<1>3. \A s \in SUBSET S : Cardinality(s) = 0 <=> s = {}
  BY <1>1, FS_EmptySet
<1>4. Unfolded = {}
  <2> SUFFICES ASSUME Unfolded # {} PROVE FALSE
    OBVIOUS
  <2>1. Unfolded \in SUBSET Nat
    OBVIOUS
  <2>2. PICK n \in Unfolded : \A m \in Unfolded : n <= m
    <3>. HIDE DEF Unfolded
    <3>. QED
      BY <2>1, LeastExists
  <2>3. n \in Nat /\ Lacking(n)
    BY <2>2
  <2>4. n # 0
    <3>1. Small(0) = {{}}
      BY <1>1, <1>3
    <3> DEFINE g == [s \in {{}} |-> e]
    <3>2. g \in [{{}} -> V] /\ FoldsTo(g, {{}}, e, op, pick)
      BY DEF FoldsTo
    <3>. HIDE DEF Small, g
    <3>. QED
      BY <2>3, <3>1, <3>2
  <2>5. n - 1 \in Nat /\ ~Lacking(n - 1)
    <3>1. n - 1 \in Nat /\ ~(n <= n - 1)
      BY <2>3, <2>4
    <3>. HIDE DEF Lacking
    <3>. QED
      BY <2>2, <3>1
  <2>6. PICK g \in [Small(n - 1) -> V] : FoldsTo(g, Small(n - 1), e, op, pick)
    BY <2>5
  <2> DEFINE h == [s \in Small(n) |-> IF s = {} THEN e ELSE op[<<pick[s], g[s \ {pick[s]}]>>]]
  <2>7. \A s \in Small(n) : s # {} => s \ {pick[s]} \in Small(n - 1)
    BY <1>1, <1>2, <2>3, <2>5
  <2>8. \A s \in Small(n) : s # {} => pick[s] \in S
    BY <1>2
  <2>9. \A s \in Small(n - 1) : s \in Small(n)
    BY <1>1, <2>3
  <2>. HIDE DEF Small
  <2>10. h \in [Small(n) -> V]
    BY <2>7, <2>8
  <2>11. \A s \in Small(n - 1) : h[s] = g[s]
    BY <2>6, <2>9 DEF FoldsTo
  <2>12. FoldsTo(h, Small(n), e, op, pick)
    BY <2>7, <2>11 DEF FoldsTo
  <2>. HIDE DEF h
  <2>. QED
    BY <2>3, <2>10, <2>12
<1>5. Cardinality(S) \in Nat /\ Small(Cardinality(S)) = SUBSET S
  BY <1>1
<1>6. ~Lacking(Cardinality(S))
  <2>. HIDE DEF Lacking
  <2>. QED
    BY <1>4, <1>5
<1>7. \E g \in [Small(Cardinality(S)) -> V] : FoldsTo(g, Small(Cardinality(S)), e, op, pick)
  <2>. HIDE DEF Small
  <2>. QED
    BY ONLY <1>6 DEF Lacking
<1> DEFINE All == Small(Cardinality(S))
<1>8. All = SUBSET S /\ \E g \in [All -> V] : FoldsTo(g, All, e, op, pick)
  BY ONLY <1>5, <1>7
<1>. HIDE DEF All
<1>. QED
  BY ONLY <1>8

Picked(s) == CHOOSE x \in s : TRUE

FoldedSum(f, S) == MapThenSumSet(LAMBDA x : f[x], S)

SumsUp(g, f, D) ==
  g = [s \in D |-> IF s = {} THEN 0 ELSE f[Picked(s)] + g[s \ {Picked(s)}]]

LEMMA SumUnfolds ==
  ASSUME NEW S, IsFiniteSet(S), NEW f, \A x \in S : f[x] \in Int
  PROVE  \E g : FoldedSum(f, S) = g[S] /\ SumsUp(g, f, SUBSET S)
<1> DEFINE op == [p \in S \X Int |-> f[p[1]] + p[2]]
           pick == [s \in SUBSET S |-> Picked(s)]
           iter == CHOOSE g : SumsUp(g, f, SUBSET S)
<1>1. \A s \in SUBSET S : s # {} => pick[s] \in s
  BY DEF Picked
<1>2. op \in [S \X Int -> Int]
  OBVIOUS
<1>3. 0 \in Int
  OBVIOUS
<1>4. PICK g \in [SUBSET S -> Int] : FoldsTo(g, SUBSET S, 0, op, pick)
  <2>. HIDE DEF op, pick
  <2>. QED
    BY <1>1, <1>2, <1>3, FoldExists
<1>5. SumsUp(g, f, SUBSET S)
  <2> DEFINE sum(s) == IF s = {} THEN 0 ELSE f[Picked(s)] + g[s \ {Picked(s)}]
  <2>1. \A s \in SUBSET S : g[s] = sum(s)
    <3>1. \A s \in SUBSET S : s # {} => s \ {pick[s]} \in SUBSET S /\ pick[s] \in S /\ pick[s] = Picked(s)
      BY <1>1
    <3>. HIDE DEF pick
    <3>2. \A s \in SUBSET S : s # {} => op[<<pick[s], g[s \ {pick[s]}]>>] = f[pick[s]] + g[s \ {pick[s]}]
      BY <3>1
    <3>. HIDE DEF op
    <3>. QED
      BY <1>4, <3>1, <3>2 DEF FoldsTo
  <2>2. g = [s \in SUBSET S |-> sum(s)]
    <3>. HIDE DEF sum
    <3>. QED
      BY <2>1
  <2>. QED
    BY <2>2 DEF SumsUp
<1>6. SumsUp(iter, f, SUBSET S)
  <2>. HIDE DEF op, pick
  <2>. QED
    BY <1>5
<1>7. FoldedSum(f, S) = iter[S]
  BY DEF FoldedSum, MapThenSumSet, MapThenFoldSet, Picked, SumsUp
<1>. HIDE DEF iter
<1>. QED
  BY <1>6, <1>7

\* A sum of natural numbers is one, and is no less than any of them; and one that
\* is at most twice another, element by element, is so as a whole.
LEMMA SumBounds ==
  ASSUME NEW S, IsFiniteSet(S), NEW f, NEW h, \A x \in S : f[x] \in Nat /\ h[x] \in Nat
  PROVE  /\ FoldedSum(f, S) \in Nat /\ FoldedSum(h, S) \in Nat
         /\ \A x \in S : f[x] <= FoldedSum(f, S)
         /\ (\A x \in S : f[x] <= 2 * h[x]) => FoldedSum(f, S) <= 2 * FoldedSum(h, S)
<1>0. \A x \in S : f[x] \in Int /\ h[x] \in Int
  OBVIOUS
<1>1. PICK F : FoldedSum(f, S) = F[S] /\ SumsUp(F, f, SUBSET S)
  BY <1>0, SumUnfolds
<1>2. PICK H : FoldedSum(h, S) = H[S] /\ SumsUp(H, h, SUBSET S)
  BY <1>0, SumUnfolds
<1> DEFINE Good(s) == /\ F[s] \in Nat /\ H[s] \in Nat
                      /\ \A x \in s : f[x] <= F[s]
                      /\ (\A x \in S : f[x] <= 2 * h[x]) => F[s] <= 2 * H[s]
           P == {s \in SUBSET S : Good(s)}
<1>3. {} \in P
  <2>1. F[{}] = 0 /\ H[{}] = 0
    BY <1>1, <1>2 DEF SumsUp
  <2>. QED
    BY <2>1
<1>4. ASSUME NEW s \in SUBSET S, s # {}, \A x \in s : s \ {x} \in P PROVE s \in P
  <2> DEFINE x == Picked(s)
             r == s \ {x}
  <2>1. x \in s /\ x \in S
    BY <1>4 DEF Picked
  <2>2. F[s] = f[x] + F[r] /\ H[s] = h[x] + H[r]
    BY <1>1, <1>2, <1>4 DEF SumsUp
  <2>. HIDE DEF x
  <2>3. Good(r)
    BY <1>4, <2>1
  <2>4. \A y \in s : (y = x \/ y \in r) /\ f[y] \in Nat
    OBVIOUS
  <2>5. f[x] \in Nat /\ h[x] \in Nat
    BY <2>1
  <2>. HIDE DEF r
  <2>6. F[s] \in Nat /\ H[s] \in Nat
    BY <2>2, <2>3, <2>5
  <2>7. \A y \in s : f[y] <= F[s]
    BY <2>2, <2>3, <2>4, <2>5
  <2>8. (\A y \in S : f[y] <= 2 * h[y]) => F[s] <= 2 * H[s]
    BY <2>1, <2>2, <2>3, <2>5
  <2>. QED
    BY <2>6, <2>7, <2>8
<1>5. S \in P
  <2>. HIDE DEF P
  <2>. QED
    BY <1>3, <1>4, SetInduction
<1>. QED
  BY <1>1, <1>2, <1>5

\* The sums of f over the subsets of S, whatever is taken first.
PartialSums(g, f, S) ==
  /\ g \in [SUBSET S -> Int] /\ g[{}] = 0
  /\ \A s \in SUBSET S : \A x \in s : g[s] = f[x] + g[s \ {x}]
  /\ \A s \in SUBSET S : g[s] = FoldedSum(f, s)

LEMMA SumOfParts ==
  ASSUME NEW S, IsFiniteSet(S), NEW f, \A x \in S : f[x] \in Int
  PROVE  \E g : PartialSums(g, f, S)
<1>1. PICK g : FoldedSum(f, S) = g[S] /\ SumsUp(g, f, SUBSET S)
  BY SumUnfolds
<1>2. /\ g[{}] = 0 /\ DOMAIN g = SUBSET S /\ g = [s \in SUBSET S |-> g[s]]
      /\ \A s \in SUBSET S : s # {} => g[s] = f[Picked(s)] + g[s \ {Picked(s)}]
  <2> DEFINE sum(s) == IF s = {} THEN 0 ELSE f[Picked(s)] + g[s \ {Picked(s)}]
  <2>1. g = [s \in SUBSET S |-> sum(s)]
    BY <1>1 DEF SumsUp
  <2>2. \A s \in SUBSET S : g[s] = sum(s)
    <3>. HIDE DEF sum
    <3>. QED
      BY <2>1
  <2>3. DOMAIN g = SUBSET S /\ g = [s \in SUBSET S |-> g[s]]
    <3>. HIDE DEF sum
    <3>. QED
      BY <2>1
  <2>. QED
    BY <2>2, <2>3
<1>3. \A s \in SUBSET S : s # {} => Picked(s) \in s
  BY DEF Picked
<1>4. \A s \in SUBSET S : IsFiniteSet(s)
  BY FS_Subset
<1>5. \A s \in SUBSET S : g[s] \in Int
  <2> DEFINE P == {s \in SUBSET S : g[s] \in Int}
  <2>1. {} \in P
    BY <1>2
  <2>2. ASSUME NEW s \in SUBSET S, s # {}, \A x \in s : s \ {x} \in P PROVE s \in P
    <3>1. Picked(s) \in s /\ g[s] = f[Picked(s)] + g[s \ {Picked(s)}]
      BY <1>2, <1>3, <2>2
    <3>2. g[s \ {Picked(s)}] \in Int /\ f[Picked(s)] \in Int
      BY <2>2, <3>1
    <3>. QED
      BY <3>1, <3>2
  <2>. HIDE DEF P
  <2>3. ASSUME NEW s \in SUBSET S PROVE s \in P
    <3>1. IsFiniteSet(s) /\ \A u \in SUBSET s : u \in SUBSET S
      BY <1>4
    <3>. QED
      BY <2>1, <2>2, <3>1, SetInduction
  <2>. QED
    BY <2>3 DEF P
<1>6. \A s \in SUBSET S : \A x \in s : g[s] = f[x] + g[s \ {x}]
  <2> DEFINE P == {s \in SUBSET S : \A x \in s : g[s] = f[x] + g[s \ {x}]}
  <2>1. {} \in P
    OBVIOUS
  <2>2. ASSUME NEW s \in SUBSET S, s # {}, \A x \in s : s \ {x} \in P PROVE s \in P
    <3> DEFINE p == Picked(s)
    <3>1. p \in s /\ g[s] = f[p] + g[s \ {p}]
      BY <1>2, <1>3, <2>2
    <3>. HIDE DEF p
    <3>2. ASSUME NEW x \in s, x # p PROVE g[s] = f[x] + g[s \ {x}]
      <4> DEFINE rest == (s \ {p}) \ {x}
      <4>1. g[s \ {p}] = f[x] + g[rest]
        BY <2>2, <3>1, <3>2
      <4>2. g[s \ {x}] = f[p] + g[(s \ {x}) \ {p}]
        BY <2>2, <3>1, <3>2
      <4>3. rest = (s \ {x}) \ {p} /\ rest \in SUBSET S
        OBVIOUS
      <4>4. g[rest] \in Int /\ f[x] \in Int /\ f[p] \in Int
        BY <1>5, <3>1, <4>3
      <4>. HIDE DEF rest
      <4>. QED
        BY <3>1, <4>1, <4>2, <4>3, <4>4
    <3>. QED
      BY <3>1, <3>2
  <2>. HIDE DEF P
  <2>3. ASSUME NEW s \in SUBSET S PROVE s \in P
    <3>1. IsFiniteSet(s) /\ \A u \in SUBSET s : u \in SUBSET S
      BY <1>4
    <3>. QED
      BY <2>1, <2>2, <3>1, SetInduction
  <2>. QED
    BY <2>3 DEF P
<1>7. ASSUME NEW s \in SUBSET S PROVE g[s] = FoldedSum(f, s)
  <2>1. PICK h : FoldedSum(f, s) = h[s] /\ SumsUp(h, f, SUBSET s)
    BY <1>4, SumUnfolds
  <2> DEFINE P == {u \in SUBSET s : g[u] = h[u]}
             sum(u) == IF u = {} THEN 0 ELSE f[Picked(u)] + h[u \ {Picked(u)}]
  <2>2. \A u \in SUBSET s : h[u] = sum(u)
    <3>1. h = [u \in SUBSET s |-> sum(u)]
      BY <2>1 DEF SumsUp
    <3>. HIDE DEF sum
    <3>. QED
      BY <3>1
  <2>3. {} \in P
    BY <1>2, <2>2
  <2>4. ASSUME NEW u \in SUBSET s, u # {}, \A x \in u : u \ {x} \in P PROVE u \in P
    <3>1. Picked(u) \in u /\ u \in SUBSET S
      BY <1>3, <2>4
    <3>2. h[u] = f[Picked(u)] + h[u \ {Picked(u)}]
      BY <2>2, <2>4
    <3>. HIDE DEF sum
    <3>. QED
      BY <1>2, <2>4, <3>1, <3>2
  <2>. HIDE DEF P, sum
  <2>5. s \in P
    BY <1>4, <2>3, <2>4, SetInduction
  <2>. QED
    BY <2>1, <2>5 DEF P
<1>8. g \in [SUBSET S -> Int]
  BY <1>2, <1>5
<1>. QED
  BY <1>2, <1>6, <1>7, <1>8 DEF PartialSums

\* What a sum is taken apart into, and when two of them are equal.
LEMMA SumTakesApart ==
  ASSUME NEW S, IsFiniteSet(S), NEW f, \A x \in S : f[x] \in Int
  PROVE  /\ FoldedSum(f, S) \in Int
         /\ \A x \in S : FoldedSum(f, S) = f[x] + FoldedSum(f, S \ {x})
<1>1. PICK g : PartialSums(g, f, S)
  BY SumOfParts
<1>2. S \in SUBSET S /\ \A x \in S : S \ {x} \in SUBSET S
  OBVIOUS
<1>. QED
  BY <1>1, <1>2 DEF PartialSums

LEMMA SameSum ==
  ASSUME NEW S, IsFiniteSet(S), NEW f, NEW h, \A x \in S : f[x] \in Int /\ h[x] = f[x]
  PROVE  FoldedSum(f, S) = FoldedSum(h, S)
<1>1. PICK F : PartialSums(F, f, S)
  <2>1. \A x \in S : f[x] \in Int
    OBVIOUS
  <2>. QED
    BY <2>1, SumOfParts
<1>2. PICK H : PartialSums(H, h, S)
  <2>1. \A x \in S : h[x] \in Int
    OBVIOUS
  <2>. QED
    BY <2>1, SumOfParts
<1> DEFINE P == {s \in SUBSET S : F[s] = H[s]}
<1>3. {} \in P
  BY <1>1, <1>2 DEF PartialSums
<1>4. ASSUME NEW s \in SUBSET S, s # {}, \A x \in s : s \ {x} \in P PROVE s \in P
  <2>1. PICK x \in s : TRUE
    BY <1>4
  <2>2. F[s] = f[x] + F[s \ {x}] /\ H[s] = h[x] + H[s \ {x}] /\ F[s \ {x}] = H[s \ {x}]
    BY <1>1, <1>2, <1>4, <2>1 DEF PartialSums
  <2>. QED
    BY <2>1, <2>2
<1>5. S \in P
  <2>. HIDE DEF P
  <2>. QED
    BY <1>3, <1>4, SetInduction
<1>. QED
  BY <1>1, <1>2, <1>5 DEF PartialSums

\* Equal numbers sum up to a product.
LEMMA EvenSum ==
  ASSUME NEW S, IsFiniteSet(S), NEW f, NEW c \in Int, \A x \in S : f[x] = c
  PROVE  FoldedSum(f, S) = Cardinality(S) * c
<1>1. PICK F : PartialSums(F, f, S)
  <2>1. \A x \in S : f[x] \in Int
    OBVIOUS
  <2>. QED
    BY <2>1, SumOfParts
<1> DEFINE P == {s \in SUBSET S : F[s] = Cardinality(s) * c}
<1>2. {} \in P
  BY <1>1, FS_EmptySet DEF PartialSums
<1>3. ASSUME NEW s \in SUBSET S, s # {}, \A x \in s : s \ {x} \in P PROVE s \in P
  <2>1. PICK x \in s : TRUE
    BY <1>3
  <2> DEFINE m == Cardinality(s \ {x})
  <2>2. F[s] = c + F[s \ {x}] /\ F[s \ {x}] = m * c
    BY <1>1, <1>3, <2>1 DEF PartialSums
  <2>3. IsFiniteSet(s) /\ Cardinality(s \ {x}) = Cardinality(s) - 1 /\ Cardinality(s) \in Nat
    BY <2>1, FS_Subset, FS_RemoveElement, FS_CardinalityType
  <2>4. m \in Int /\ Cardinality(s) = m + 1
    BY <2>3
  <2>. HIDE DEF m
  <2>5. (m + 1) * c = m * c + c
    BY <2>4
  <2>6. F[s] = (m + 1) * c
    BY <2>2, <2>4, <2>5
  <2>. QED
    BY <2>4, <2>6
<1>4. S \in P
  <2>. HIDE DEF P
  <2>. QED
    BY <1>2, <1>3, SetInduction
<1>. QED
  BY <1>1, <1>4 DEF PartialSums
=============================================================================
