----------------------------- MODULE RecipeProofs -----------------------------
(***************************************************************************)
(* Cleaning recipes, for any table, any steps and any length: the log      *)
(* accounts for what changed (LogAccounts, for recipes whose renamings do  *)
(* not take a name they have yet to read), a recipe that needs no review   *)
(* keeps the books (UnreviewedKeepsTheBooks), only the steps that dictate  *)
(* it put a text into a column of numbers (NumericColumnsStay), and what   *)
(* the profile recommends is accepted and settles, but for the steps that  *)
(* are stuck (RecommendationsSettle).                                      *)
(***************************************************************************)
EXTENDS CleaningRecipe, SumLemmas, SequenceTheorems

RecipeSpec == RecipeInit /\ [][RecipeNext]_recipeVars

-----------------------------------------------------------------------------
(* Positions that are kept, and sums that grow at their end.               *)

\* Places lists the positions that are kept, each once, and changes nothing
\* where all are.
LEMMA PlacesList ==
  ASSUME NEW n \in Nat, NEW kept \in SUBSET (1..n)
  PROVE  /\ IsFiniteSet(kept) /\ Cardinality(kept) \in 0..n
         /\ Places(kept) \in Bijection(1..Cardinality(kept), kept)
         /\ \A a, b \in 1..Cardinality(kept) : a < b => Places(kept)[a] < Places(kept)[b]
         /\ kept = 1..n => Places(kept) = [k \in 1..n |-> k] /\ Cardinality(kept) = n
<1> DEFINE m == Cardinality(kept)
           upto(i) == {j \in kept : j <= i}
           place == [i \in kept |-> Cardinality(upto(i))]
<1>1. /\ IsFiniteSet(1..n) /\ Cardinality(1..n) = n
      /\ IsFiniteSet(kept) /\ m \in Nat /\ m <= n
  <2>1. IsFiniteSet(1..n) /\ Cardinality(1..n) = n
    BY FS_Interval
  <2>. QED
    BY <2>1, FS_Subset, FS_CardinalityType
<1>2. \A i \in kept : IsFiniteSet(upto(i)) /\ place[i] \in 1..m
  <2> SUFFICES ASSUME NEW i \in kept PROVE IsFiniteSet(upto(i)) /\ Cardinality(upto(i)) \in 1..m
    OBVIOUS
  <2>1. i \in Int /\ upto(i) \in SUBSET kept /\ i \in upto(i)
    OBVIOUS
  <2>. HIDE DEF upto
  <2>2. IsFiniteSet(upto(i)) /\ Cardinality(upto(i)) <= m /\ Cardinality(upto(i)) \in Nat
    BY <1>1, <2>1, FS_Subset, FS_CardinalityType
  <2>3. Cardinality(upto(i)) # 0
    BY <2>1, <2>2, FS_EmptySet
  <2>. QED
    BY <1>1, <2>2, <2>3
<1>3. \A i, j \in kept : i < j => place[i] < place[j]
  <2> SUFFICES ASSUME NEW i \in kept, NEW j \in kept, i < j PROVE place[i] < place[j]
    OBVIOUS
  <2>1. upto(i) \in SUBSET upto(j) /\ upto(i) # upto(j)
    <3>1. i \in Int /\ j \in Int /\ kept \subseteq Int
      OBVIOUS
    <3>2. j \in upto(j) /\ j \notin upto(i)
      BY <3>1
    <3>3. \A k \in upto(i) : k \in kept /\ k <= j
      BY <3>1
    <3>4. \A k \in upto(i) : k \in upto(j)
      BY <3>3
    <3>. HIDE DEF upto
    <3>. QED
      BY <3>2, <3>4
  <2>. HIDE DEF upto
  <2>2. Cardinality(upto(i)) < Cardinality(upto(j))
    BY <1>2, <2>1, FS_Subset, FS_CardinalityType
  <2>. QED
    BY <2>2
<1>4. place \in Bijection(kept, 1..m)
  <2>1. place \in [kept -> 1..m]
    BY <1>2
  <2>2. \A i, j \in kept : place[i] = place[j] => i = j
    <3>1. \A i \in kept : i \in Int /\ place[i] \in Int
      BY <1>2
    <3>. HIDE DEF place
    <3>. QED
      BY <1>3, <3>1
  <2>. HIDE DEF place
  <2>3. place \in Injection(kept, 1..m)
    BY <2>1, <2>2 DEF Injection, IsInjective
  <2>4. IsFiniteSet(1..m) /\ Cardinality(1..m) = m
    BY <1>1, FS_Interval
  <2>5. place \in Surjection(kept, 1..m)
    BY <1>1, <2>3, <2>4, FS_Injection
  <2>. QED
    BY <2>3, <2>5 DEF Bijection
<1>5. /\ Places(kept) = [k \in 1..m |-> CHOOSE i \in kept : place[i] = k]
      /\ \A k \in 1..m : Places(kept)[k] \in kept /\ place[Places(kept)[k]] = k
  <2>1. \A k \in 1..m : \E i \in kept : place[i] = k
    <3>. HIDE DEF place, m
    <3>. QED
      BY <1>4 DEF Bijection, Surjection
  <2>2. \A k \in 1..m : (CHOOSE i \in kept : place[i] = k) = (CHOOSE i \in kept : Cardinality(upto(i)) = k)
    OBVIOUS
  <2>3. Places(kept) = [k \in 1..m |-> CHOOSE i \in kept : place[i] = k]
    BY <2>2 DEF Places
  <2>. HIDE DEF place, m
  <2>. QED
    BY <2>1, <2>3
<1>6. Places(kept) \in Bijection(1..m, kept)
  <2>. HIDE DEF place, m
  <2>1. Places(kept) \in [1..m -> kept]
    BY <1>5
  <2>2. \A a, b \in 1..m : Places(kept)[a] = Places(kept)[b] => a = b
    BY <1>5
  <2>3. \A i \in kept : \E k \in 1..m : Places(kept)[k] = i
    <3> SUFFICES ASSUME NEW i \in kept PROVE \E k \in 1..m : Places(kept)[k] = i
      OBVIOUS
    <3>1. place[i] \in 1..m /\ Places(kept)[place[i]] \in kept
          /\ place[Places(kept)[place[i]]] = place[i]
      BY <1>2, <1>5
    <3>2. Places(kept)[place[i]] = i
      BY <1>4, <3>1 DEF Bijection, Injection, IsInjective
    <3>. QED
      BY <3>1, <3>2
  <2>. QED
    BY <2>1, <2>2, <2>3 DEF Bijection, Injection, Surjection, IsInjective
<1>7. ASSUME kept = 1..n PROVE Places(kept) = [k \in 1..n |-> k] /\ m = n
  <2>1. m = n
    BY <1>1, <1>7
  <2>2. ASSUME NEW i \in 1..n PROVE place[i] = i
    <3>1. upto(i) = 1..i /\ i \in Nat
      BY <1>7
    <3>. HIDE DEF upto
    <3>2. Cardinality(upto(i)) = i
      BY <3>1, FS_Interval
    <3>. QED
      BY <1>7, <3>2
  <2>. HIDE DEF place, m
  <2>3. \A k \in 1..n : Places(kept)[k] = k
    BY <1>5, <1>7, <2>1, <2>2
  <2>. QED
    BY <1>5, <2>1, <2>3
<1>8. \A a, b \in 1..m : a < b => Places(kept)[a] < Places(kept)[b]
  <2> SUFFICES ASSUME NEW a \in 1..m, NEW b \in 1..m, a < b, ~(Places(kept)[a] < Places(kept)[b])
               PROVE  FALSE
    OBVIOUS
  <2> DEFINE i == Places(kept)[a]
             j == Places(kept)[b]
  <2>1. i \in kept /\ j \in kept /\ place[i] = a /\ place[j] = b
    BY <1>5
  <2>2. i \in Int /\ j \in Int /\ ~(i < j)
    <3>1. \A k \in kept : k \in Int
      OBVIOUS
    <3>2. ~(i < j)
      OBVIOUS
    <3>. HIDE DEF i, j, place
    <3>. QED
      BY <2>1, <3>1, <3>2
  <2>3. a \in Int /\ b \in Int /\ a < b
    BY <1>1
  <2>. HIDE DEF i, j, place
  <2>4. j < i \/ i = j
    BY <2>2
  <2>. QED
    BY <1>3, <2>1, <2>3, <2>4
<1>. QED
  BY <1>1, <1>6, <1>7, <1>8

\* A tally is the sum over the domain.
LEMMA TallyIs == ASSUME NEW f PROVE Tally(f) = FoldedSum(f, DOMAIN f)
  BY DEF Tally, FoldFunction, FoldFunctionOnSet, FoldedSum, MapThenSumSet

\* A tally grows by the value at its end.
LEMMA TallyGrows ==
  ASSUME NEW n \in Nat, NEW f, NEW g, DOMAIN f = 1..n, DOMAIN g = 1..(n + 1),
         \A i \in 1..(n + 1) : g[i] \in Nat, \A i \in 1..n : f[i] = g[i]
  PROVE  Tally(f) \in Nat /\ Tally(g) = Tally(f) + g[n + 1]
<1>1. IsFiniteSet(1..n) /\ IsFiniteSet(1..(n + 1)) /\ n + 1 \in 1..(n + 1)
  BY FS_Interval
<1>2. (1..(n + 1)) \ {n + 1} = 1..n
  OBVIOUS
<1>3. FoldedSum(g, 1..(n + 1)) = g[n + 1] + FoldedSum(g, 1..n)
  <2>1. \A i \in 1..(n + 1) : g[i] \in Int
    OBVIOUS
  <2>2. FoldedSum(g, 1..(n + 1)) = g[n + 1] + FoldedSum(g, (1..(n + 1)) \ {n + 1})
    BY <1>1, <2>1, SumTakesApart
  <2>. QED
    BY <1>2, <2>2
<1>4. FoldedSum(f, 1..n) = FoldedSum(g, 1..n)
  <2>1. \A i \in 1..n : f[i] \in Int /\ g[i] = f[i]
    OBVIOUS
  <2>. QED
    BY <1>1, <2>1, SameSum
<1>5. FoldedSum(f, 1..n) \in Nat
  <2>1. \A i \in 1..n : f[i] \in Nat /\ f[i] \in Nat
    OBVIOUS
  <2>. QED
    BY <1>1, <2>1, SumBounds
<1>. QED
  BY <1>3, <1>4, <1>5, TallyIs

-----------------------------------------------------------------------------
(* Cells.                                                                  *)

Bare    == {"none", "empty", "blank", "true", "false", "list"}
Numeral == {"number", "digits", "arabic", "money"}
Dates   == {"iso", "slash", "stamp", "spaced"}

\* What a cell of each shape consists of, and what makes one.
LEMMA CellForms ==
  ASSUME NEW c \in Cells
  PROVE  /\ c[1] \in Bare \cup Numeral \cup Dates \cup {"word"}
         /\ c[1] \in Bare => c = <<c[1]>>
         /\ c[1] \in Numeral => c = <<c[1], c[2]>> /\ c[2] \in Int
         /\ c[1] \in Dates => c = <<c[1], c[2], c[3]>> /\ c[2] \in Nat /\ c[3] \in Nat
         /\ c[1] = "word" => /\ c = <<"word", c[2], c[3], c[4]>> /\ c[2] \in STRING
                             /\ c[3] \in Cases /\ c[4] \in Pads
  BY DEF Cells, Bare, Numeral, Dates, None, Empty

LEMMA CellsMade ==
  /\ None \in Cells /\ Empty \in Cells /\ <<"true">> \in Cells /\ <<"false">> \in Cells
  /\ \A n \in Int : <<"number", n>> \in Cells /\ <<"digits", n>> \in Cells
  /\ \A d, m \in Nat : <<"iso", d, m>> \in Cells /\ <<"stamp", d, m>> \in Cells
  /\ \A w \in STRING, k \in Cases, p \in Pads : <<"word", w, k, p>> \in Cells
  BY DEF Cells

LEMMA NumberCell ==
  ASSUME NEW n \in Int
  PROVE  <<"number", n>> \in Cells /\ Reads(<<"number", n>>)
  BY CellsMade DEF Reads

LEMMA CellReadings ==
  ASSUME NEW c \in Cells
  PROVE  /\ Number(c) \in Int /\ Text(c) \in Cells
         /\ Stripped(c) \in Cells /\ Trimmed(c) \in Cells /\ Collapsed(c) \in Cells
<1>1. Number(c) \in Int
  BY CellForms DEF Number, Coerces, Reads, Numeral
<1>2. Text(c) \in Cells
  BY CellForms, CellsMade DEF Text, Numeral
<1>3. Stripped(c) \in Cells
  BY CellForms, CellsMade DEF Stripped, Pads
<1>4. c[1] = "word" => <<"word", c[2], c[3], "none">> \in Cells
  BY CellForms, CellsMade DEF Pads
<1>5. Trimmed(c) \in Cells
  BY <1>3, <1>4 DEF Trimmed
<1>6. Collapsed(c) \in Cells
  BY <1>4, <1>5 DEF Collapsed
<1>. QED
  BY <1>1, <1>2, <1>3, <1>5, <1>6

-----------------------------------------------------------------------------
(* Columns: what is left of one, its numbers in order, its statistics.     *)

\* The cells that pass a test keep their positions.
LEMMA Filtered ==
  ASSUME NEW cells
  PROVE  /\ Given(cells) = [i \in {i \in DOMAIN cells : ~Missing(cells[i])} |-> cells[i]]
         /\ Present(cells) = [i \in {i \in DOMAIN cells : ~Absent(cells[i])} |-> cells[i]]
         /\ RestrictValues(cells, Reads) = [i \in {i \in DOMAIN cells : Reads(cells[i])} |-> cells[i]]
         /\ RestrictValues(cells, Coerces) = [i \in {i \in DOMAIN cells : Coerces(cells[i])} |-> cells[i]]
  BY DEF Given, Present, RestrictValues, Restrict

LEMMA SortedList ==
  ASSUME NEW cells, IsFiniteSet(DOMAIN cells), \A i \in DOMAIN cells : Number(cells[i]) \in Int
  PROVE  /\ Size(cells) \in Nat
         /\ Sorted(cells) \in Seq(Int) /\ Len(Sorted(cells)) = Size(cells)
<1> DEFINE D == DOMAIN cells
           values == {Number(cells[i]) : i \in D}
           below(n) == {i \in D : Number(cells[i]) <= n}
           from(k) == {n \in values : k <= Cardinality(below(n))}
<1>1. Size(cells) = Cardinality(D) /\ Cardinality(D) \in Nat
  BY FS_CardinalityType DEF Size
<1>2. values \in SUBSET Int /\ IsFiniteSet(values)
  <2> DEFINE f == [i \in D |-> Number(cells[i])]
  <2>1. IsFiniteSet({f[i] : i \in D})
    BY FiniteImage
  <2>2. {f[i] : i \in D} = values
    OBVIOUS
  <2>. QED
    BY <2>1, <2>2
<1>3. ASSUME NEW k \in 1..Size(cells) PROVE Min(from(k)) \in Int
  <2>1. D # {}
    BY <1>1, <1>3, FS_EmptySet
  <2>2. values # {}
    BY <2>1
  <2>3. Max(values) \in values /\ \A n \in values : n <= Max(values)
    BY <1>2, <2>2, MaxExists
  <2>4. below(Max(values)) = D
    BY <2>3
  <2>5. Max(values) \in from(k)
    <3>. HIDE DEF below, D
    <3>. QED
      BY <1>1, <1>3, <2>3, <2>4
  <2>6. from(k) \in SUBSET values
    OBVIOUS
  <2>. HIDE DEF from, values
  <2>7. from(k) \in SUBSET Int /\ IsFiniteSet(from(k)) /\ from(k) # {}
    BY <1>2, <2>5, <2>6, FS_Subset
  <2>. QED
    BY <2>7, MinExists
<1>4. Sorted(cells) = [k \in 1..Size(cells) |-> Min(from(k))]
  BY DEF Sorted, Count, Quantify
<1>. HIDE DEF from
<1>5. Sorted(cells) \in [1..Size(cells) -> Int]
  BY <1>3, <1>4
<1>. QED
  BY <1>1, <1>5

LEMMA QuartileType ==
  ASSUME NEW sorted \in Seq(Int), sorted # <<>>, NEW k \in {1, 2, 3}
  PROVE  Quartile(sorted, k) \in Int
<1>1. Len(sorted) \in Nat /\ Len(sorted) >= 1 /\ \A i \in 1..Len(sorted) : sorted[i] \in Int
  OBVIOUS
<1> DEFINE p == k * (Len(sorted) - 1)
<1>2. /\ p \in Nat /\ p \div 4 + 1 \in 1..Len(sorted) /\ p % 4 \in 0..3
      /\ p % 4 # 0 => p \div 4 + 2 \in 1..Len(sorted)
  <2>1. CASE k = 1
    BY <1>1, <2>1
  <2>2. CASE k = 2
    BY <1>1, <2>2
  <2>3. CASE k = 3
    BY <1>1, <2>3
  <2>. QED
    BY <2>1, <2>2, <2>3
<1>3. ASSUME p % 4 # 0 PROVE (sorted[p \div 4 + 2] - sorted[p \div 4 + 1]) * (p % 4) \in Int
  <2>1. sorted[p \div 4 + 2] \in Int /\ sorted[p \div 4 + 1] \in Int /\ p % 4 \in Int
    BY <1>1, <1>2, <1>3
  <2>. QED
    BY <2>1
<1>4. sorted[p \div 4 + 1] \in Int
  BY <1>1, <1>2
<1>5. Quartile(sorted, k) = IF p % 4 = 0 THEN 4 * sorted[p \div 4 + 1]
        ELSE 4 * sorted[p \div 4 + 1] + (sorted[p \div 4 + 2] - sorted[p \div 4 + 1]) * (p % 4)
  BY DEF Quartile
<1>. HIDE DEF p
<1>. QED
  BY <1>3, <1>4, <1>5

\* The statistics of a column with cells are cells.
LEMMA StatisticCell ==
  ASSUME NEW cells, DOMAIN cells \in SUBSET Int, IsFiniteSet(DOMAIN cells), DOMAIN cells # {},
         \A i \in DOMAIN cells : cells[i] \in Cells,
         NEW step, step.statistic \in {"mean", "median", "mode"}
  PROVE  /\ Statistic(step, cells) \in Cells
         /\ step.statistic # "mode" => Reads(Statistic(step, cells))
         /\ step.statistic = "mode" => \E i \in DOMAIN cells : Statistic(step, cells) = Text(cells[i])
<1>1. \A i \in DOMAIN cells : Number(cells[i]) \in Int
  BY CellReadings
<1>2. Size(cells) \in Nat /\ Size(cells) > 0
  BY FS_CardinalityType, FS_EmptySet DEF Size
<1>3. CASE step.statistic = "mode"
  <2> DEFINE D == DOMAIN cells
             same(i) == {j \in D : Text(cells[j]) = Text(cells[i])}
             frequency == [i \in D |-> Cardinality(same(i))]
             best == {i \in D : \A j \in D : frequency[j] <= frequency[i]}
             R == {p \in D \X D : frequency[p[2]] <= frequency[p[1]]}
  <2>1. \A i \in D : frequency[i] \in Nat
    <3> SUFFICES ASSUME NEW i \in D PROVE Cardinality(same(i)) \in Nat
      OBVIOUS
    <3>1. same(i) \subseteq D
      OBVIOUS
    <3>. HIDE DEF same
    <3>. QED
      BY <3>1, FS_Subset, FS_CardinalityType
  <2>2. Statistic(step, cells) = Text(cells[Min(best)])
    BY <1>3 DEF Statistic, Mode, Count, Quantify
  <2>. HIDE DEF frequency
  <2>3. /\ \A x \in D, y \in D : <<x, y>> \in R <=> frequency[y] <= frequency[x]
        /\ \A x \in D, y \in D : <<x, y>> \in R \/ <<y, x>> \in R
        /\ \A x \in D, y \in D, z \in D : <<x, y>> \in R /\ <<y, z>> \in R => <<x, z>> \in R
    BY <2>1
  <2>. HIDE DEF R
  <2>4. \E x \in D : \A y \in D : <<x, y>> \in R
    BY <2>3, FirstExists
  <2>5. best # {} /\ best \subseteq D
    BY <2>3, <2>4
  <2>. HIDE DEF best
  <2>6. Min(best) \in DOMAIN cells
    <3>1. best \in SUBSET Int /\ IsFiniteSet(best)
      BY <2>5, FS_Subset
    <3>. QED
      BY <2>5, <3>1, MinExists
  <2>. QED
    BY <1>3, <2>2, <2>6, CellReadings
<1>4. CASE step.statistic = "median"
  <2>1. Sorted(cells) \in Seq(Int) /\ Sorted(cells) # <<>>
    BY <1>1, <1>2, SortedList
  <2>2. Quartile(Sorted(cells), 2) \in Int
    BY <2>1, QuartileType
  <2>3. Quartile(Sorted(cells), 2) \div 4 \in Int
    BY <2>2
  <2>4. Statistic(step, cells) = <<"number", Quartile(Sorted(cells), 2) \div 4>>
    BY <1>4 DEF Statistic
  <2>5. Statistic(step, cells) \in Cells /\ Reads(Statistic(step, cells))
    BY <2>3, <2>4, NumberCell
  <2>. QED
    BY <1>4, <2>5
<1>5. CASE step.statistic = "mean"
  <2> DEFINE f == [i \in DOMAIN cells |-> Number(cells[i])]
  <2>1. CellSum(cells) = FoldedSum(f, DOMAIN cells)
    BY TallyIs DEF CellSum
  <2>2. CellSum(cells) \in Int
    BY <1>1, <2>1, SumTakesApart
  <2>3. CellSum(cells) \div Size(cells) \in Int
    BY <1>2, <2>2
  <2>4. Statistic(step, cells) = <<"number", CellSum(cells) \div Size(cells)>>
    BY <1>5 DEF Statistic
  <2>5. Statistic(step, cells) \in Cells /\ Reads(Statistic(step, cells))
    BY <2>3, <2>4, NumberCell
  <2>. QED
    BY <1>5, <2>5
<1>. QED
  BY <1>3, <1>4, <1>5

-----------------------------------------------------------------------------
(* What a step writes into a cell.                                         *)

WorkingTable == rows \in Seq([Names -> Cells]) /\ columns \in Seq(Names) /\ IsInjective(columns)

LEMMA StepOptions ==
  ASSUME NEW step \in Steps
  PROVE  /\ step.columns \in Seq(Names) /\ Selected(step) \in SUBSET Names
         /\ step.kind = "standardize_case" => step.case \in Cases
         /\ step.kind = "replace_missing" => step.value \in Cells
         /\ step.kind = "map_values" => step.mapping \in [DOMAIN step.mapping -> Cells]
         /\ step.kind = "fill_missing_statistic" => step.statistic \in {"mean", "median", "mode"}
         /\ step.kind = "clip_outliers" =>
              step.method = "iqr" \/ (step.method = "absolute" /\ step.lower \in Int /\ step.upper \in Int)
         /\ step.kind \in {"deduplicate", "drop_duplicate_rows"} => step.keep \in {"first", "last"}
         /\ step.kind = "rename_column" =>
              /\ step.names \in Seq(Names \X Names)
              /\ \A j, k \in DOMAIN step.names : step.names[j][1] = step.names[k][1] => j = k
<1>1. step.columns \in Seq(Names) /\ Options(step)
  BY RecipeAssumption
<1>2. Selected(step) \in SUBSET Names
  BY <1>1 DEF Selected, ToSet
<1>3. step.kind = "standardize_case" => step.case \in Cases
  BY <1>1 DEF Options
<1>4. step.kind = "replace_missing" => step.value \in Cells
  BY <1>1 DEF Options
<1>5. step.kind = "map_values" => step.mapping \in [DOMAIN step.mapping -> Cells]
  BY <1>1 DEF Options
<1>6. step.kind = "fill_missing_statistic" => step.statistic \in {"mean", "median", "mode"}
  BY <1>1 DEF Options
<1>7. step.kind = "clip_outliers" =>
        step.method = "iqr" \/ (step.method = "absolute" /\ step.lower \in Int /\ step.upper \in Int)
  BY <1>1 DEF Options
<1>8. step.kind \in {"deduplicate", "drop_duplicate_rows"} => step.keep \in {"first", "last"}
  BY <1>1 DEF Options
<1>9. step.kind = "rename_column" =>
        /\ step.names \in Seq(Names \X Names)
        /\ \A j, k \in DOMAIN step.names : step.names[j][1] = step.names[k][1] => j = k
  BY <1>1 DEF Options
<1>. QED
  BY <1>1, <1>2, <1>3, <1>4, <1>5, <1>6, <1>7, <1>8, <1>9

\* What an accepted step has passed.
LEMMA Accepted ==
  ASSUME NEW step, Accepts(step)
  PROVE  /\ step.kind # "drop_duplicate_rows" =>
              step.columns # <<>> /\ Selected(step) \subseteq ToSet(columns)
         /\ step.kind = "replace_missing" =>
              /\ ~Absent(step.value)
              /\ IsText(step.value) /\ (\E n \in Selected(step) : Numeric(GivenIn(n)))
                   => Coerces(step.value)
         /\ step.kind = "fill_missing_statistic" =>
              step.statistic = "mode" \/ \A n \in Selected(step) : Numeric(GivenIn(n))
         /\ step.kind = "clip_outliers" =>
              \A n \in Selected(step) : Cardinality({i \in DOMAIN rows : Reads(rows[i][n])}) > 0
         /\ step.kind = "rename_column" =>
              LET new == {step.names[k][2] : k \in DOMAIN step.names}
              IN /\ Selected(step) = {step.names[k][1] : k \in DOMAIN step.names}
                 /\ new \cap (ToSet(columns) \ Selected(step)) = {}
                 /\ Cardinality(new) = Len(step.names)
<1>1. step.kind # "drop_duplicate_rows" =>
        step.columns # <<>> /\ Selected(step) \subseteq ToSet(columns)
  BY DEF Accepts
<1>2. step.kind = "replace_missing" =>
        /\ ~Absent(step.value)
        /\ IsText(step.value) /\ (\E n \in Selected(step) : Numeric(GivenIn(n))) => Coerces(step.value)
  BY DEF Accepts
<1>3. step.kind = "fill_missing_statistic" =>
        step.statistic = "mode" \/ \A n \in Selected(step) : Numeric(GivenIn(n))
  BY DEF Accepts
<1>4. step.kind = "clip_outliers" =>
        \A n \in Selected(step) : Cardinality({i \in DOMAIN rows : Reads(rows[i][n])}) > 0
  <2> SUFFICES ASSUME step.kind = "clip_outliers", NEW n \in Selected(step)
               PROVE  Cardinality({i \in DOMAIN rows : Reads(rows[i][n])}) > 0
    OBVIOUS
  <2>1. Count(Column(rows, n), Reads) > 0
    BY DEF Accepts
  <2>2. Count(Column(rows, n), Reads)
          = Cardinality({i \in DOMAIN Column(rows, n) : Reads(Column(rows, n)[i])})
    BY DEF Count, Quantify
  <2>3. {i \in DOMAIN Column(rows, n) : Reads(Column(rows, n)[i])}
          = {i \in DOMAIN rows : Reads(rows[i][n])}
    BY DEF Column
  <2>. QED
    BY <2>1, <2>2, <2>3
<1>5. step.kind = "rename_column" =>
        LET new == {step.names[k][2] : k \in DOMAIN step.names}
        IN /\ Selected(step) = {step.names[k][1] : k \in DOMAIN step.names}
           /\ new \cap (ToSet(columns) \ Selected(step)) = {}
           /\ Cardinality(new) = Len(step.names)
  BY DEF Accepts
<1>. QED
  BY <1>1, <1>2, <1>3, <1>4, <1>5

LEMMA ColumnCells ==
  ASSUME WorkingTable, NEW n \in Names
  PROVE  /\ Len(rows) \in Nat /\ DOMAIN rows = 1..Len(rows) /\ IsFiniteSet(DOMAIN rows)
         /\ \A i \in DOMAIN rows : rows[i] \in [Names -> Cells] /\ rows[i][n] \in Cells
         /\ Column(rows, n) = [i \in DOMAIN rows |-> rows[i][n]]
         /\ GivenIn(n) = [i \in {i \in DOMAIN rows : ~Missing(rows[i][n])} |-> rows[i][n]]
         /\ IsFiniteSet(DOMAIN GivenIn(n)) /\ DOMAIN GivenIn(n) \in SUBSET Int
         /\ \A i \in DOMAIN GivenIn(n) : GivenIn(n)[i] = rows[i][n] /\ GivenIn(n)[i] \in Cells
<1>1. Len(rows) \in Nat /\ DOMAIN rows = 1..Len(rows) /\ rows \in [1..Len(rows) -> [Names -> Cells]]
  BY DEF WorkingTable
<1>2. IsFiniteSet(DOMAIN rows)
  BY <1>1, FS_Interval
<1>3. \A i \in DOMAIN rows : rows[i] \in [Names -> Cells] /\ rows[i][n] \in Cells
  BY <1>1
<1>4. Column(rows, n) = [i \in DOMAIN rows |-> rows[i][n]]
  BY DEF Column
<1>5. GivenIn(n) = [i \in {i \in DOMAIN rows : ~Missing(rows[i][n])} |-> rows[i][n]]
  <2>1. Given(Column(rows, n)) = [i \in {i \in DOMAIN Column(rows, n) : ~Missing(Column(rows, n)[i])}
                                    |-> Column(rows, n)[i]]
    BY Filtered
  <2>. QED
    BY <1>4, <2>1 DEF GivenIn
<1>6. DOMAIN GivenIn(n) \subseteq DOMAIN rows
  BY <1>5
<1>7. IsFiniteSet(DOMAIN GivenIn(n)) /\ DOMAIN GivenIn(n) \in SUBSET Int
  BY <1>1, <1>2, <1>6, FS_Subset
<1>8. \A i \in DOMAIN GivenIn(n) : GivenIn(n)[i] = rows[i][n] /\ GivenIn(n)[i] \in Cells
  BY <1>3, <1>5
<1>. QED
  BY <1>1, <1>2, <1>3, <1>4, <1>5, <1>7, <1>8

LEMMA KnownFormats ==
  /\ DOMAIN Formats = 1..5
  /\ ToSet(Formats) = {"iso_datetime", "iso_datetime_space", "iso_date", "dmy_slash", "mdy_slash"}
  BY DEF Formats, ToSet

\* Which formats a cell can have, and what follows for the cell.
LEMMA FormatsFit ==
  ASSUME NEW c, NEW format, Fits(c, format)
  PROVE  \/ format = "iso_datetime" /\ c[1] = "stamp"
         \/ format = "iso_datetime_space" /\ c[1] = "spaced"
         \/ format = "iso_date" /\ c[1] = "iso"
         \/ format \in {"dmy_slash", "mdy_slash"} /\ c[1] = "slash"
         \/ format = "year" /\ c[1] \in {"number", "digits", "arabic"} /\ c[2] \in 1000..9999
  BY DEF Fits, Reads

LEMMA DatedCell ==
  ASSUME NEW c \in Cells, NEW format, Fits(c, format)
  PROVE  DateOf(c, format) \in Cells
<1>0. \A m \in Nat : <<"iso", 1, m>> \in Cells
  <2>1. 1 \in Nat
    OBVIOUS
  <2>. QED
    BY <2>1, CellsMade
<1>1. CASE format \in {"iso_datetime", "iso_date"}
  BY <1>1 DEF DateOf
<1>2. CASE format \in {"iso_datetime_space", "dmy_slash", "mdy_slash"}
  <2>1. c[1] \in Dates
    BY <1>2, FormatsFit DEF Dates
  <2>2. c[2] \in Nat /\ c[3] \in Nat
    BY <2>1, CellForms
  <2>. QED
    BY <1>2, <2>2, CellsMade DEF DateOf
<1>3. CASE format = "year"
  <2>1. c[2] \in 1000..9999
    BY <1>3, FormatsFit
  <2>2. PICK n \in 1000..9999 : c[2] = n
    BY <2>1
  <2>3. DateOf(c, format) = <<"iso", 1, 12 * n + 1>>
    BY <1>3, <2>2 DEF DateOf
  <2>4. <<"iso", 1, 12 * n + 1>> \in Cells
    <3>1. 12 * n + 1 \in Nat
      OBVIOUS
    <3>. QED
      BY <1>0, <3>1
  <2>. QED
    BY <2>3, <2>4
<1>. QED
  BY <1>1, <1>2, <1>3, FormatsFit

LEMMA ClippedCell ==
  ASSUME WorkingTable, NEW step \in Steps, step.kind = "clip_outliers", Accepts(step),
         NEW n \in Selected(step), NEW c \in Cells
  PROVE  Clipped(Number(c), Bounds(step, n)) \in Int
<1>0. n \in Names
  BY StepOptions
<1>1. Bounds(step, n).low \in Int /\ Bounds(step, n).high \in Int
  <2>1. CASE step.method = "absolute"
    BY <2>1, StepOptions DEF Bounds
  <2>2. CASE step.method = "iqr"
    <3> DEFINE D == {i \in DOMAIN rows : Reads(rows[i][n])}
               cells == RestrictValues(Column(rows, n), Reads)
               q1 == Quartile(Sorted(cells), 1)
               q3 == Quartile(Sorted(cells), 3)
    <3>1. cells = [i \in D |-> rows[i][n]]
      <4>1. cells = [i \in {i \in DOMAIN Column(rows, n) : Reads(Column(rows, n)[i])}
                      |-> Column(rows, n)[i]]
        BY Filtered
      <4>. QED
        BY <4>1 DEF Column
    <3>2. D \subseteq DOMAIN rows
      OBVIOUS
    <3>3. Cardinality(D) > 0
      BY Accepted
    <3>. HIDE DEF D, cells
    <3>4. IsFiniteSet(D) /\ DOMAIN cells = D
      BY <1>0, <3>1, <3>2, ColumnCells, FS_Subset
    <3>5. \A i \in DOMAIN cells : Number(cells[i]) \in Int
      BY <1>0, <3>1, <3>2, ColumnCells, CellReadings
    <3>6. Sorted(cells) \in Seq(Int) /\ Sorted(cells) # <<>>
      BY <3>3, <3>4, <3>5, SortedList DEF Size
    <3>7. q1 \in Int /\ q3 \in Int
      BY <3>6, QuartileType
    <3>8. Bounds(step, n) = [low  |-> (2 * q1 - 3 * (q3 - q1)) \div 8,
                             high |-> (2 * q3 + 3 * (q3 - q1)) \div 8]
      BY <2>2 DEF Bounds, cells
    <3>. HIDE DEF q1, q3
    <3>9. (2 * q1 - 3 * (q3 - q1)) \div 8 \in Int /\ (2 * q3 + 3 * (q3 - q1)) \div 8 \in Int
      BY <3>7
    <3>. QED
      BY <3>8, <3>9
  <2>. QED
    BY <2>1, <2>2, StepOptions
<1>2. Number(c) \in Int
  BY CellReadings
<1>3. Max({Number(c), Bounds(step, n).low}) \in Int
  BY <1>1, <1>2, GreaterOfTwo
<1>4. Min({Max({Number(c), Bounds(step, n).low}), Bounds(step, n).high}) \in Int
  BY <1>1, <1>3, LesserOfTwo
<1>. QED
  BY <1>4 DEF Clipped

\* An edit writes a cell; and into a column of numbers, unless it dictates what
\* is written, nothing but numbers, stored booleans and what counts as missing.
LEMMA EditedCell ==
  ASSUME WorkingTable, NEW step \in Steps, step.kind \in Edits, Accepts(step),
         NEW n \in Selected(step), NEW c \in Cells
  PROVE  /\ Edited(step, n, c) \in Cells
         /\ /\ ~Dictates(step) /\ Numeric(GivenIn(n))
            /\ Missing(c) \/ Reads(c)
            => \/ Missing(Edited(step, n, c)) \/ Reads(Edited(step, n, c))
               \/ Edited(step, n, c) \in {<<"true">>, <<"false">>}
<1> DEFINE e == Edited(step, n, c)
           Goal == /\ e \in Cells
                   /\ /\ ~Dictates(step) /\ Numeric(GivenIn(n))
                      /\ Missing(c) \/ Reads(c)
                      => Missing(e) \/ Reads(e) \/ e \in {<<"true">>, <<"false">>}
<1> SUFFICES Goal
  OBVIOUS
<1>0. Missing(c) \/ Reads(c) => c[1] \in {"none", "empty", "number", "digits", "arabic"}
  BY DEF Missing, Reads, None, Empty
<1>1. CASE step.kind = "trim_whitespace"
  <2>1. e = Trimmed(c)
    BY <1>1 DEF Edited
  <2>2. Missing(c) \/ Reads(c) => Trimmed(c) = c
    BY <1>0 DEF Trimmed, Stripped
  <2>. QED
    BY <2>1, <2>2, CellReadings
<1>2. CASE step.kind = "collapse_whitespace"
  <2>1. e = Collapsed(c)
    BY <1>2 DEF Edited
  <2>2. Missing(c) \/ Reads(c) => Collapsed(c) = c
    BY <1>0 DEF Collapsed, Trimmed, Stripped
  <2>. QED
    BY <2>1, <2>2, CellReadings
<1>3. CASE step.kind = "normalize_digits"
  <2>1. e = IF c[1] = "arabic" THEN <<"digits", c[2]>> ELSE c
    BY <1>3 DEF Edited
  <2>2. c[1] = "arabic" => <<"digits", c[2]>> \in Cells /\ Reads(<<"digits", c[2]>>)
    BY CellForms, CellsMade DEF Numeral, Reads
  <2>. QED
    BY <2>1, <2>2
<1>4. CASE step.kind = "standardize_case"
  <2>1. e = IF c[1] = "word" THEN <<"word", c[2], step.case, c[4]>> ELSE c
    BY <1>4 DEF Edited
  <2>2. c[1] = "word" => <<"word", c[2], step.case, c[4]>> \in Cells
    BY <1>4, CellForms, CellsMade, StepOptions
  <2>. QED
    BY <1>0, <2>1, <2>2
<1>5. CASE step.kind \in {"cast_number", "round_number"}
  <2>1. e \in {<<"number", Number(c)>>, c}
    BY <1>5 DEF Edited
  <2>. QED
    BY <2>1, CellReadings, NumberCell
<1>6. CASE step.kind = "cast_boolean"
  <2>1. e \in {c, <<"true">>, <<"false">>}
    BY <1>6 DEF Edited
  <2>. QED
    BY <2>1, CellsMade
<1>7. CASE step.kind = "parse_date"
  <2>1. e = IF Fits(c, FormatOf(step)) THEN DateOf(c, FormatOf(step)) ELSE c
    BY <1>7 DEF Edited
  <2>2. ASSUME FormatOf(step) \in ToSet(Formats), Missing(c) \/ Reads(c) PROVE ~Fits(c, FormatOf(step))
    <3>1. FormatOf(step) # "year"
      BY <2>2, KnownFormats
    <3>. QED
      BY <1>0, <2>2, <3>1 DEF Fits
  <2>3. ~Dictates(step) => FormatOf(step) \in ToSet(Formats)
    BY <1>7 DEF Dictates
  <2>. QED
    BY <2>1, <2>2, <2>3, DatedCell
<1>8. CASE step.kind = "replace_missing"
  <2>1. e = IF Missing(c) THEN ReplacementFor(step) ELSE c
    BY <1>8 DEF Edited
  <2>2. step.value \in Cells
    BY <1>8, StepOptions
  <2>3. <<"number", Number(step.value)>> \in Cells /\ Reads(<<"number", Number(step.value)>>)
    BY <2>2, CellReadings, NumberCell
  <2>4. ReplacementFor(step) \in Cells
    BY <2>2, <2>3 DEF ReplacementFor
  <2>5. ASSUME Numeric(GivenIn(n)), ~Dictates(step)
        PROVE  Reads(ReplacementFor(step)) \/ ReplacementFor(step) \in {<<"true">>, <<"false">>}
    <3>1. CASE IsText(step.value)
      BY <2>3, <2>5, <3>1 DEF ReplacementFor
    <3>2. CASE ~IsText(step.value)
      <4>1. ReplacementFor(step) = step.value
        BY <3>2 DEF ReplacementFor
      <4>2. ~Absent(step.value)
        BY <1>8, Accepted
      <4>3. step.value[1] \in {"number", "true", "false"}
        <5>1. step.value # <<"list">>
          BY <1>8, <2>5 DEF Dictates
        <5>. QED
          BY <2>2, <3>2, <4>2, <5>1, CellForms DEF IsText, Absent, Missing, None, Empty, Bare, Numeral, Dates
      <4>. QED
        BY <2>2, <4>1, <4>3, CellForms DEF Reads, Bare
    <3>. QED
      BY <3>1, <3>2
  <2>. QED
    BY <2>1, <2>4, <2>5
<1>9. CASE step.kind = "fill_missing_statistic"
  <2> DEFINE cells == GivenIn(n)
  <2>0. n \in Names
    BY StepOptions
  <2>1. e = IF Missing(c) /\ DOMAIN cells # {} THEN Statistic(step, cells) ELSE c
    BY <1>9 DEF Edited
  <2>2. step.statistic \in {"mean", "median", "mode"}
    BY <1>9, StepOptions
  <2>3. DOMAIN cells \in SUBSET Int /\ IsFiniteSet(DOMAIN cells) /\ \A i \in DOMAIN cells : cells[i] \in Cells
    BY <2>0, ColumnCells
  <2>. HIDE DEF cells
  <2>4. ASSUME DOMAIN cells # {} PROVE Statistic(step, cells) \in Cells
    BY <2>2, <2>3, <2>4, StatisticCell
  <2>5. ASSUME Numeric(cells) PROVE Reads(Statistic(step, cells))
    <3>1. DOMAIN cells # {} /\ \A i \in DOMAIN cells : Reads(cells[i])
      BY <2>5 DEF Numeric
    <3>2. \/ Reads(Statistic(step, cells))
          \/ \E i \in DOMAIN cells : Statistic(step, cells) = Text(cells[i])
      BY <2>2, <2>3, <3>1, StatisticCell
    <3>3. \A i \in DOMAIN cells : Reads(Text(cells[i]))
      BY <3>1 DEF Reads, Text
    <3>. QED
      BY <3>2, <3>3
  <2>. QED
    BY <2>1, <2>4, <2>5 DEF cells
<1>10. CASE step.kind = "map_values"
  <2>1. e \in {c} \cup {step.mapping[t] : t \in DOMAIN step.mapping}
    BY <1>10 DEF Edited
  <2>. QED
    BY <1>10, <2>1, StepOptions DEF Dictates
<1>11. CASE step.kind = "clip_outliers"
  <2>1. e = IF Reads(c) THEN <<"number", Clipped(Number(c), Bounds(step, n))>> ELSE c
    BY <1>11 DEF Edited
  <2>2. Clipped(Number(c), Bounds(step, n)) \in Int
    BY <1>11, ClippedCell
  <2>. QED
    BY <2>1, <2>2, NumberCell
<1>. HIDE DEF Goal
<1>. QED
  BY <1>1, <1>2, <1>3, <1>4, <1>5, <1>6, <1>7, <1>8, <1>9, <1>10, <1>11 DEF Edits

-----------------------------------------------------------------------------
(* What a step makes of the table.                                         *)

LEMMA KeptRows ==
  ASSUME NEW step
  PROVE  /\ Kept(step) \subseteq DOMAIN rows
         /\ step.kind \in Edits \cup {"drop_column", "rename_column"} => Kept(step) = DOMAIN rows
  BY DEF Kept, Edits

LEMMA RestrictedList ==
  ASSUME NEW S, NEW s \in Seq(S), NEW kept \in SUBSET (DOMAIN s)
  PROVE  /\ IsFiniteSet(kept) /\ Cardinality(kept) \in 0..Len(s)
         /\ Places(kept) \in Bijection(1..Cardinality(kept), kept)
         /\ Restricted(s, kept) \in Seq(S) /\ Len(Restricted(s, kept)) = Cardinality(kept)
         /\ DOMAIN Restricted(s, kept) = 1..Cardinality(kept)
         /\ \A k \in 1..Cardinality(kept) :
              Places(kept)[k] \in kept /\ Restricted(s, kept)[k] = s[Places(kept)[k]]
         /\ kept = DOMAIN s => Restricted(s, kept) = s /\ Cardinality(kept) = Len(s)
<1> DEFINE m == Cardinality(kept)
           order == Places(kept)
<1>1. Len(s) \in Nat /\ DOMAIN s = 1..Len(s) /\ s \in [1..Len(s) -> S] /\ kept \in SUBSET (1..Len(s))
  OBVIOUS
<1>2. /\ IsFiniteSet(kept) /\ m \in 0..Len(s) /\ order \in Bijection(1..m, kept)
      /\ kept = 1..Len(s) => order = [k \in 1..Len(s) |-> k] /\ m = Len(s)
  BY <1>1, PlacesList
<1>. HIDE DEF m, order
<1>3. order \in [1..m -> kept] /\ DOMAIN order = 1..m /\ m \in Nat
  BY <1>2 DEF Bijection, Injection
<1>4. Restricted(s, kept) = [k \in 1..m |-> s[order[k]]]
  BY <1>3 DEF Restricted, order
<1>5. Restricted(s, kept) \in [1..m -> S]
  BY <1>1, <1>3, <1>4
<1>6. Restricted(s, kept) \in Seq(S) /\ Len(Restricted(s, kept)) = m
  BY <1>3, <1>5
<1>7. ASSUME kept = DOMAIN s PROVE Restricted(s, kept) = s /\ m = Len(s)
  <2>1. m = Len(s) /\ \A k \in 1..Len(s) : order[k] = k
    BY <1>1, <1>2, <1>7
  <2>. QED
    BY <1>1, <1>4, <2>1
<1>. QED
  BY <1>2, <1>3, <1>4, <1>6, <1>7 DEF m, order

Move(r, pair) == [[r EXCEPT ![pair[1]] = None] EXCEPT ![pair[2]] = r[pair[1]]]

\* A renaming moves one cell after the other.
LEMMA RenamedOneByOne ==
  ASSUME NEW row \in [Names -> Cells], NEW names \in Seq(Names \X Names)
  PROVE  \E g \in [0..Len(names) -> [Names -> Cells]] :
           /\ g[0] = row /\ g[Len(names)] = Renamed(row, names)
           /\ \A k \in 1..Len(names) : g[k] = Move(g[k - 1], names[k])
<1> DEFINE m == Len(names)
           S == 1..m
           V == [Names -> Cells]
           op == [p \in S \X V |-> Move(p[2], names[p[1]])]
           pick == [s \in SUBSET S |-> Max(s)]
           Iterates(g) == g = [s \in SUBSET S |-> IF s = {} THEN row
                                 ELSE Move(g[s \ {Max(s)}], names[Max(s)])]
           iter == CHOOSE g : Iterates(g)
<1>1. m \in Nat /\ IsFiniteSet(S) /\ DOMAIN names = S /\ \A k \in S : names[k] \in Names \X Names
  BY FS_Interval
<1>2. \A s \in SUBSET S : s # {} => Max(s) \in s /\ \A k \in s : k <= Max(s)
  <2> SUFFICES ASSUME NEW s \in SUBSET S, s # {} PROVE Max(s) \in s /\ \A k \in s : k <= Max(s)
    OBVIOUS
  <2>1. s \in SUBSET Int
    OBVIOUS
  <2>2. IsFiniteSet(s)
    BY <1>1, FS_Subset
  <2>. QED
    BY <2>1, <2>2, MaxExists
<1>3. op \in [S \X V -> V]
  <2>1. \A k \in S, r \in V : Move(r, names[k]) \in V
    BY <1>1, CellsMade DEF Move
  <2>. QED
    BY <2>1
<1>4. PICK g \in [SUBSET S -> V] : FoldsTo(g, SUBSET S, row, op, pick)
  <2>1. \A s \in SUBSET S : s # {} => pick[s] \in s
    BY <1>2
  <2>. HIDE DEF op, pick, V, S
  <2>2. row \in V
    BY DEF V
  <2>. QED
    BY <1>1, <1>3, <2>1, <2>2, FoldExists
<1>5. Iterates(g)
  <2> DEFINE next(s) == IF s = {} THEN row ELSE Move(g[s \ {Max(s)}], names[Max(s)])
  <2>1. \A s \in SUBSET S : g[s] = next(s)
    <3>1. \A s \in SUBSET S : s # {} => s \ {Max(s)} \in SUBSET S /\ Max(s) \in S /\ pick[s] = Max(s)
      BY <1>2
    <3>2. \A k \in S, r \in V : op[<<k, r>>] = Move(r, names[k])
      OBVIOUS
    <3>. HIDE DEF op, pick, V, S
    <3>. QED
      BY <1>4, <3>1, <3>2 DEF FoldsTo
  <2>. HIDE DEF next, V, S
  <2>2. g = [s \in SUBSET S |-> next(s)]
    BY <2>1
  <2>. QED
    BY <2>2 DEF next
<1>6. Iterates(iter)
  <2>. HIDE DEF Iterates
  <2>. QED
    BY <1>5
<1>7. Renamed(row, names) = iter[S]
  BY <1>1 DEF Renamed, FoldLeft, MapThenFoldSet, Move
<1>. HIDE DEF iter
<1>8. \A s \in SUBSET S : iter[s] = IF s = {} THEN row ELSE Move(iter[s \ {Max(s)}], names[Max(s)])
  <2> DEFINE next(s) == IF s = {} THEN row ELSE Move(iter[s \ {Max(s)}], names[Max(s)])
  <2>1. iter = [s \in SUBSET S |-> next(s)]
    BY <1>6
  <2>. HIDE DEF next, S
  <2>2. \A s \in SUBSET S : iter[s] = next(s)
    BY <2>1
  <2>. QED
    BY <2>2 DEF next
<1> DEFINE h == [k \in 0..m |-> iter[1..k]]
<1>9. \A k \in 0..m : 1..k \in SUBSET S
  BY <1>1
<1>10. \A k \in S : Max(1..k) = k /\ (1..k) \ {k} = 1..(k - 1) /\ 1..k # {} /\ k - 1 \in 0..m
  <2> SUFFICES ASSUME NEW k \in S
               PROVE  Max(1..k) = k /\ (1..k) \ {k} = 1..(k - 1) /\ 1..k # {} /\ k - 1 \in 0..m
    OBVIOUS
  <2>1. k \in 1..k /\ k \in Int /\ 1 <= k /\ k <= m
    BY <1>1
  <2>2. Max(1..k) \in 1..k /\ k <= Max(1..k)
    <3> DEFINE s == 1..k
    <3>1. k \in s
      BY <2>1
    <3>2. \A j \in s : j \in S
      BY <1>1, <2>1
    <3>. HIDE DEF s, S
    <3>3. s \in SUBSET S /\ s # {}
      BY <3>1, <3>2
    <3>4. Max(s) \in s /\ k <= Max(s)
      BY <1>2, <3>1, <3>3
    <3>. QED
      BY <3>4 DEF s
  <2>. QED
    BY <1>1, <2>1, <2>2
<1>11. h[0] = row /\ h[m] = Renamed(row, names)
  <2>1. 1..0 = {} /\ 1..0 \in SUBSET S
    BY <1>1
  <2>2. iter[1..0] = row
    BY <1>8, <2>1
  <2>. QED
    BY <1>1, <1>7, <2>2
<1>12. \A k \in 1..m : h[k] = Move(h[k - 1], names[k])
  <2> SUFFICES ASSUME NEW k \in S PROVE h[k] = Move(h[k - 1], names[k])
    OBVIOUS
  <2>1. iter[1..k] = Move(iter[1..(k - 1)], names[k])
    BY <1>8, <1>9, <1>10, <1>1
  <2>. QED
    BY <1>1, <1>10, <2>1
<1>13. h \in [0..m -> V]
  <2>1. \A s \in SUBSET S : iter[s] = g[s]
    <3>1. \A s \in SUBSET S : g[s] = IF s = {} THEN row ELSE Move(g[s \ {Max(s)}], names[Max(s)])
      <4> DEFINE next(s) == IF s = {} THEN row ELSE Move(g[s \ {Max(s)}], names[Max(s)])
      <4>1. g = [s \in SUBSET S |-> next(s)]
        BY <1>5
      <4>. HIDE DEF next, S
      <4>2. \A s \in SUBSET S : g[s] = next(s)
        BY <4>1
      <4>. QED
        BY <4>2 DEF next
    <3> DEFINE P == {s \in SUBSET S : iter[s] = g[s]}
    <3>2. {} \in P
      BY <1>8, <3>1
    <3>3. ASSUME NEW s \in SUBSET S, s # {}, \A x \in s : s \ {x} \in P PROVE s \in P
      <4>1. iter[s \ {Max(s)}] = g[s \ {Max(s)}]
        BY <1>2, <3>3
      <4>. QED
        BY <1>8, <3>1, <3>3, <4>1
    <3>. HIDE DEF P, S
    <3>4. ASSUME NEW s \in SUBSET S PROVE s \in P
      <4>1. IsFiniteSet(s) /\ SUBSET s \subseteq SUBSET S
        BY <1>1, FS_Subset
      <4>2. \A u \in SUBSET s : u # {} /\ (\A x \in u : u \ {x} \in P) => u \in P
        BY <3>3, <4>1
      <4>. QED
        BY <3>2, <4>1, <4>2, SetInduction
    <3>. QED
      BY <3>4 DEF P
  <2>. HIDE DEF V, S
  <2>. QED
    BY <1>4, <1>9, <2>1
<1>. QED
  BY <1>11, <1>12, <1>13

\* Distinct columns get distinct names.
LEMMA NewNames ==
  ASSUME WorkingTable, NEW step \in Steps, step.kind = "rename_column", Accepts(step)
  PROVE  /\ \A k \in DOMAIN columns : NewName(step, columns[k]) \in Names
         /\ \A j, k \in DOMAIN columns : NewName(step, columns[j]) = NewName(step, columns[k]) => j = k
         /\ \A j, k \in DOMAIN step.names : step.names[j][2] = step.names[k][2] => j = k
         /\ \A j \in DOMAIN step.names : NewName(step, step.names[j][1]) = step.names[j][2]
<1> DEFINE names == step.names
           new == {names[k][2] : k \in DOMAIN names}
           old == {names[k][1] : k \in DOMAIN names}
           m == Len(names)
<1>1. /\ names \in Seq(Names \X Names)
      /\ \A j, k \in DOMAIN names : names[j][1] = names[k][1] => j = k
  BY StepOptions
<1>2. m \in Nat /\ DOMAIN names = 1..m /\ \A k \in 1..m : names[k][1] \in Names /\ names[k][2] \in Names
  BY <1>1
<1>3. /\ Selected(step) = old /\ Cardinality(new) = m
      /\ new \cap (ToSet(columns) \ Selected(step)) = {}
  BY Accepted
<1>4. \A j, k \in DOMAIN names : names[j][2] = names[k][2] => j = k
  <2> DEFINE f == [k \in 1..m |-> names[k][2]]
  <2>1. f \in Surjection(1..m, new)
    BY <1>2 DEF Surjection
  <2>2. IsFiniteSet(1..m) /\ Cardinality(1..m) = m
    BY <1>2, FS_Interval
  <2>. HIDE DEF f, new
  <2>3. f \in Injection(1..m, new)
    BY <1>3, <2>1, <2>2, FS_Surjection
  <2>4. \A j, k \in 1..m : f[j] = f[k] => j = k
    BY <2>3 DEF Injection, IsInjective
  <2>. QED
    BY <1>2, <2>4 DEF f
<1>5. \A j \in DOMAIN names : NewName(step, names[j][1]) = names[j][2]
  BY <1>1, <1>2 DEF NewName
<1>6. \A n \in Names : n \notin old => NewName(step, n) = n
  BY DEF NewName
<1>7. columns \in Seq(Names) /\ \A j, k \in DOMAIN columns : columns[j] = columns[k] => j = k
  BY DEF WorkingTable, IsInjective
<1>8. \A k \in DOMAIN columns : columns[k] \in Names /\ columns[k] \in ToSet(columns)
  BY <1>7 DEF ToSet
<1>9. \A k \in DOMAIN columns : NewName(step, columns[k]) \in Names
  BY <1>2, <1>5, <1>6, <1>8
<1>10. ASSUME NEW j \in DOMAIN columns, NEW k \in DOMAIN columns,
             NewName(step, columns[j]) = NewName(step, columns[k])
       PROVE columns[j] = columns[k]
  <2>1. CASE columns[j] \in old /\ columns[k] \in old
    BY <1>2, <1>4, <1>5, <1>10, <2>1
  <2>2. CASE columns[j] \notin old /\ columns[k] \notin old
    BY <1>6, <1>8, <1>10, <2>2
  <2>3. CASE columns[j] \in old /\ columns[k] \notin old
    <3>1. NewName(step, columns[j]) \in new
      BY <1>5, <2>3
    <3>. QED
      BY <1>3, <1>6, <1>8, <1>10, <2>3, <3>1
  <2>4. CASE columns[j] \notin old /\ columns[k] \in old
    <3>1. NewName(step, columns[k]) \in new
      BY <1>5, <2>4
    <3>. QED
      BY <1>3, <1>6, <1>8, <1>10, <2>4, <3>1
  <2>. QED
    BY <2>1, <2>2, <2>3, <2>4
<1>. QED
  BY <1>4, <1>5, <1>7, <1>9, <1>10

LEMMA StayingColumns ==
  ASSUME NEW step
  PROVE  /\ Staying(step) \subseteq DOMAIN columns
         /\ step.kind # "drop_column" => Staying(step) = DOMAIN columns
         /\ \A k \in Staying(step) : step.kind = "drop_column" => columns[k] \notin Selected(step)
  BY DEF Staying

LEMMA ColumnsOfStep ==
  ASSUME WorkingTable, NEW step \in Steps, Accepts(step)
  PROVE  /\ ColumnsAfter(step) \in Seq(Names) /\ IsInjective(ColumnsAfter(step))
         /\ Len(ColumnsAfter(step)) = Cardinality(Staying(step))
<1>1. columns \in Seq(Names) /\ \A j, k \in DOMAIN columns : columns[j] = columns[k] => j = k
  BY DEF WorkingTable, IsInjective
<1>2. CASE step.kind = "rename_column"
  <2>1. ColumnsAfter(step) = [k \in DOMAIN columns |-> NewName(step, columns[k])]
    BY <1>2 DEF ColumnsAfter
  <2>2. Len(columns) \in Nat /\ DOMAIN columns = 1..Len(columns)
    BY <1>1
  <2>3. ColumnsAfter(step) \in [1..Len(columns) -> Names]
    BY <1>2, <2>1, <2>2, NewNames
  <2>4. ColumnsAfter(step) \in Seq(Names) /\ Len(ColumnsAfter(step)) = Len(columns)
    BY <2>2, <2>3
  <2>5. Cardinality(Staying(step)) = Len(columns)
    BY <1>2, <2>2, StayingColumns, FS_Interval
  <2>6. IsInjective(ColumnsAfter(step))
    BY <1>2, <2>1, NewNames DEF IsInjective
  <2>. QED
    BY <2>4, <2>5, <2>6
<1>3. CASE step.kind # "rename_column"
  <2> DEFINE kept == Staying(step)
  <2>1. ColumnsAfter(step) = Restricted(columns, kept)
    BY <1>3 DEF ColumnsAfter
  <2>2. kept \in SUBSET (DOMAIN columns)
    BY StayingColumns
  <2>. HIDE DEF kept
  <2>3. /\ ColumnsAfter(step) \in Seq(Names) /\ Len(ColumnsAfter(step)) = Cardinality(kept)
        /\ DOMAIN ColumnsAfter(step) = 1..Cardinality(kept)
        /\ Places(kept) \in Bijection(1..Cardinality(kept), kept)
        /\ \A k \in 1..Cardinality(kept) :
             Places(kept)[k] \in kept /\ ColumnsAfter(step)[k] = columns[Places(kept)[k]]
    BY <1>1, <2>1, <2>2, RestrictedList
  <2>4. \A j, k \in 1..Cardinality(kept) : Places(kept)[j] = Places(kept)[k] => j = k
    BY <2>3 DEF Bijection, Injection, IsInjective
  <2>5. IsInjective(ColumnsAfter(step))
    BY <1>1, <2>2, <2>3, <2>4 DEF IsInjective
  <2>. QED
    BY <2>3, <2>5 DEF kept
<1>. QED
  BY <1>2, <1>3

LEMMA RowsOfStep ==
  ASSUME WorkingTable, NEW step \in Steps, Accepts(step)
  PROVE  RowsAfter(step) \in Seq([Names -> Cells]) /\ Len(RowsAfter(step)) = Cardinality(Kept(step))
<1>1. /\ Len(rows) \in Nat /\ DOMAIN rows = 1..Len(rows)
      /\ rows \in Seq([Names -> Cells]) /\ \A i \in DOMAIN rows : rows[i] \in [Names -> Cells]
  BY DEF WorkingTable
<1>2. Kept(step) = DOMAIN rows => Cardinality(Kept(step)) = Len(rows)
  <2> DEFINE n == Len(rows)
  <2>1. n \in Nat
    BY <1>1
  <2>. HIDE DEF n
  <2>2. Cardinality(1..n) = n
    BY <2>1, FS_Interval
  <2>. QED
    BY <1>1, <2>2 DEF n
<1>3. ASSUME NEW f \in [DOMAIN rows -> [Names -> Cells]], RowsAfter(step) = f, Kept(step) = DOMAIN rows
      PROVE  RowsAfter(step) \in Seq([Names -> Cells]) /\ Len(RowsAfter(step)) = Cardinality(Kept(step))
  <2>1. f \in [1..Len(rows) -> [Names -> Cells]]
    BY <1>1
  <2>2. f \in Seq([Names -> Cells]) /\ Len(f) = Len(rows)
    BY <1>1, <2>1
  <2>. QED
    BY <1>2, <1>3, <2>2
<1>4. CASE step.kind \in Edits
  <2> DEFINE f == [i \in DOMAIN rows |-> [n \in Names |->
                     IF n \in Selected(step) THEN Edited(step, n, rows[i][n]) ELSE rows[i][n]]]
  <2>1. RowsAfter(step) = f /\ Kept(step) = DOMAIN rows
    BY <1>4, KeptRows DEF RowsAfter
  <2>2. \A i \in DOMAIN rows : \A n \in Names :
          /\ rows[i][n] \in Cells
          /\ n \in Selected(step) => Edited(step, n, rows[i][n]) \in Cells
    BY <1>1, <1>4, EditedCell
  <2>3. f \in [DOMAIN rows -> [Names -> Cells]]
    BY <2>2
  <2>. HIDE DEF f
  <2>. QED
    BY <1>3, <2>1, <2>3
<1>5. CASE step.kind = "drop_column"
  <2> DEFINE f == [i \in DOMAIN rows |-> [n \in Names |->
                     IF n \in Selected(step) THEN None ELSE rows[i][n]]]
  <2>1. RowsAfter(step) = f /\ Kept(step) = DOMAIN rows
    BY <1>5, KeptRows DEF RowsAfter, Edits
  <2>2. f \in [DOMAIN rows -> [Names -> Cells]]
    BY <1>1, CellsMade
  <2>. HIDE DEF f
  <2>. QED
    BY <1>3, <2>1, <2>2
<1>6. CASE step.kind = "rename_column"
  <2> DEFINE f == [i \in DOMAIN rows |-> Renamed(rows[i], step.names)]
  <2>1. RowsAfter(step) = f /\ Kept(step) = DOMAIN rows
    BY <1>6, KeptRows DEF RowsAfter, Edits
  <2>2. step.names \in Seq(Names \X Names)
    BY <1>6, StepOptions
  <2>3. ASSUME NEW i \in DOMAIN rows PROVE Renamed(rows[i], step.names) \in [Names -> Cells]
    <3>1. PICK g \in [0..Len(step.names) -> [Names -> Cells]] :
            g[Len(step.names)] = Renamed(rows[i], step.names)
      BY <1>1, <2>2, RenamedOneByOne
    <3>2. Len(step.names) \in Nat
      BY <2>2
    <3>3. Len(step.names) \in 0..Len(step.names)
      BY <3>2
    <3>. QED
      BY <3>1, <3>3
  <2>4. f \in [DOMAIN rows -> [Names -> Cells]]
    BY <2>3
  <2>. HIDE DEF f
  <2>. QED
    BY <1>3, <2>1, <2>4
<1>7. CASE step.kind \notin Edits \cup {"drop_column", "rename_column"}
  <2>1. RowsAfter(step) = Restricted(rows, Kept(step))
    BY <1>7 DEF RowsAfter
  <2>. QED
    BY <1>1, <2>1, KeptRows, RestrictedList
<1>. QED
  BY <1>4, <1>5, <1>6, <1>7

-----------------------------------------------------------------------------
(* The type of the variables.                                              *)

Effects == [kind : {step.kind : step \in Steps}, changed : Nat, dropped : Nat, unresolved : Nat]

RecipeTypeOK ==
  /\ source \in Tables /\ WorkingTable /\ log \in Seq(Effects)
  /\ lineage = [rows |-> lineage.rows, columns |-> lineage.columns]
  /\ lineage.rows \in Seq(DOMAIN source.rows) /\ Len(lineage.rows) = Len(rows)
  /\ lineage.columns \in Seq(Names) /\ Len(lineage.columns) = Len(columns)
  /\ preview.outcome \in {"open", "refused", "previewed"}

LEMMA SourceTable ==
  ASSUME source \in Tables
  PROVE  /\ source.rows \in Seq([Names -> Cells]) /\ source.columns \in Seq(Names)
         /\ IsInjective(source.columns)
         /\ \A i \in DOMAIN source.rows : \A n \in Names \ ToSet(source.columns) : source.rows[i][n] = None
  BY RecipeAssumption DEF IsTable

LEMMA EffectType ==
  ASSUME WorkingTable, NEW step \in Steps
  PROVE  /\ Effect(step) \in Effects
         /\ Effect(step).dropped = Len(rows) - Cardinality(Kept(step))
         /\ IsFiniteSet((DOMAIN rows) \X Selected(step))
<1> DEFINE touched == (DOMAIN rows) \X Selected(step)
<1>1. /\ Len(rows) \in Nat /\ DOMAIN rows = 1..Len(rows) /\ rows \in Seq([Names -> Cells])
      /\ step.columns \in Seq(Names)
  BY StepOptions DEF WorkingTable
<1>2. IsFiniteSet(touched)
  <2> DEFINE s == step.columns
  <2>1. IsFiniteSet(DOMAIN s) /\ IsFiniteSet(DOMAIN rows)
    <3>1. DOMAIN s = 1..Len(s) /\ Len(s) \in Nat
      BY <1>1
    <3>. QED
      BY <1>1, <3>1, FS_Interval
  <2>2. IsFiniteSet({s[k] : k \in DOMAIN s})
    BY <2>1, FiniteImage
  <2>3. Selected(step) = {s[k] : k \in DOMAIN s}
    BY DEF Selected, ToSet
  <2>. QED
    BY <2>1, <2>2, <2>3, FS_Product
<1>3. \A T \in SUBSET touched : Cardinality(T) \in Nat
  BY <1>2, FS_Subset, FS_CardinalityType
<1>4. Cardinality(Kept(step)) \in 0..Len(rows)
  BY <1>1, KeptRows, RestrictedList
<1> DEFINE C == {t \in touched : Edited(step, t[2], rows[t[1]][t[2]]) # rows[t[1]][t[2]]}
           U == {t \in touched : Unresolved(step, rows[t[1]][t[2]])}
<1>5. Effect(step) = [kind       |-> step.kind,
                      changed    |-> IF step.kind \notin Edits THEN 0 ELSE Cardinality(C),
                      dropped    |-> Len(rows) - Cardinality(Kept(step)),
                      unresolved |-> Cardinality(U)]
  BY DEF Effect, Quantify
<1>6. C \in SUBSET touched /\ U \in SUBSET touched
  OBVIOUS
<1>. HIDE DEF C, U, touched
<1>7. /\ (IF step.kind \notin Edits THEN 0 ELSE Cardinality(C)) \in Nat
      /\ Len(rows) - Cardinality(Kept(step)) \in Nat /\ Cardinality(U) \in Nat
  BY <1>1, <1>3, <1>4, <1>6
<1>8. Effect(step) \in Effects
  BY <1>5, <1>7 DEF Effects
<1>. QED
  BY <1>2, <1>5, <1>8 DEF touched

LEMMA TypeInit == RecipeInit => RecipeTypeOK
<1> SUFFICES ASSUME RecipeInit PROVE RecipeTypeOK
  OBVIOUS
<1>1. /\ source.rows \in Seq([Names -> Cells]) /\ source.columns \in Seq(Names)
      /\ IsInjective(source.columns)
  BY SourceTable DEF RecipeInit
<1>2. [i \in DOMAIN source.rows |-> i] \in Seq(DOMAIN source.rows)
      /\ Len([i \in DOMAIN source.rows |-> i]) = Len(source.rows)
  <2>1. Len(source.rows) \in Nat /\ DOMAIN source.rows = 1..Len(source.rows)
    BY <1>1
  <2>2. [i \in DOMAIN source.rows |-> i] \in [1..Len(source.rows) -> DOMAIN source.rows]
    BY <2>1
  <2>. QED
    BY <2>1, <2>2
<1>3. log \in Seq(Effects)
  BY DEF RecipeInit
<1>. QED
  BY <1>1, <1>2, <1>3 DEF RecipeInit, RecipeTypeOK, WorkingTable, NoPreview

LEMMA TypeStep == RecipeTypeOK /\ [RecipeNext]_recipeVars => RecipeTypeOK'
<1> SUFFICES ASSUME RecipeTypeOK, [RecipeNext]_recipeVars PROVE RecipeTypeOK'
  OBVIOUS
<1>1. ASSUME NEW step \in Steps, ApplyStep(step) PROVE RecipeTypeOK'
  <2>1. /\ WorkingTable /\ Accepts(step) /\ source' = source /\ preview' = preview
        /\ rows' = RowsAfter(step) /\ columns' = ColumnsAfter(step)
        /\ log' = Append(log, Effect(step))
        /\ lineage' = [rows    |-> Restricted(lineage.rows, Kept(step)),
                       columns |-> Restricted(lineage.columns, Staying(step))]
    BY <1>1 DEF ApplyStep, RecipeTypeOK
  <2>2. WorkingTable' /\ Len(rows') = Cardinality(Kept(step)) /\ Len(columns') = Cardinality(Staying(step))
    BY <2>1, RowsOfStep, ColumnsOfStep DEF WorkingTable
  <2>3. log' \in Seq(Effects)
    <3>1. log \in Seq(Effects) /\ Effect(step) \in Effects
      BY <2>1, EffectType DEF RecipeTypeOK
    <3>2. Append(log, Effect(step)) \in Seq(Effects)
      BY <3>1
    <3>. QED
      BY <2>1, <3>2
  <2>4. /\ lineage.rows \in Seq(DOMAIN source.rows) /\ Kept(step) \in SUBSET (DOMAIN lineage.rows)
        /\ lineage.columns \in Seq(Names) /\ Staying(step) \in SUBSET (DOMAIN lineage.columns)
    <3>1. DOMAIN lineage.rows = DOMAIN rows /\ DOMAIN lineage.columns = DOMAIN columns
      BY <2>1 DEF RecipeTypeOK, WorkingTable
    <3>. QED
      BY <3>1, KeptRows, StayingColumns DEF RecipeTypeOK
  <2>5. /\ lineage'.rows \in Seq(DOMAIN source.rows) /\ Len(lineage'.rows) = Cardinality(Kept(step))
        /\ lineage'.columns \in Seq(Names) /\ Len(lineage'.columns) = Cardinality(Staying(step))
    BY <2>1, <2>4, RestrictedList
  <2>. QED
    BY <2>1, <2>2, <2>3, <2>5 DEF RecipeTypeOK
<1>2. ASSUME NEW step \in Steps, Refuse(step) PROVE RecipeTypeOK'
  BY <1>2 DEF Refuse, RecipeTypeOK, WorkingTable
<1>3. ASSUME Finish PROVE RecipeTypeOK'
  <2>1. preview'.outcome = "previewed" /\ UNCHANGED <<source, rows, columns, log, lineage>>
    BY <1>3 DEF Finish
  <2>. QED
    BY <2>1 DEF RecipeTypeOK, WorkingTable
<1>4. CASE UNCHANGED recipeVars
  BY <1>4 DEF recipeVars, RecipeTypeOK, WorkingTable
<1>. QED
  BY <1>1, <1>2, <1>3, <1>4 DEF RecipeNext

\* The working copy stays a table: its columns are distinct, every cell a step
\* writes is of a shape the readers know, the log counts, and every row and
\* column is traced to one of the source.
THEOREM RecipeTyped == RecipeSpec => []RecipeTypeOK
  BY TypeInit, TypeStep, PTL DEF RecipeSpec

-----------------------------------------------------------------------------
(* A column of numbers stays one.                                          *)

LEMMA GivenCells ==
  ASSUME NEW table, NEW n
  PROVE  /\ \A i : i \in DOMAIN Given(Column(table, n)) <=> i \in DOMAIN table /\ ~Missing(table[i][n])
         /\ \A i \in DOMAIN Given(Column(table, n)) : Given(Column(table, n))[i] = table[i][n]
         /\ \A c \in ToSet(Given(Column(table, n))) : ~Missing(c) /\ \E i \in DOMAIN table : c = table[i][n]
<1>1. Given(Column(table, n)) = [i \in {i \in DOMAIN table : ~Missing(table[i][n])} |-> table[i][n]]
  <2>1. Given(Column(table, n)) = [i \in {i \in DOMAIN Column(table, n) : ~Missing(Column(table, n)[i])}
                                    |-> Column(table, n)[i]]
    BY Filtered
  <2>. QED
    BY <2>1 DEF Column
<1>. QED
  BY <1>1 DEF ToSet

StaysNumeric ==
  \A n \in Names : GainsText(n) => \A step \in Steps : ApplyStep(step) => Dictates(step)

LEMMA NumericStep == RecipeTypeOK /\ [RecipeNext]_recipeVars => [StaysNumeric]_rows
<1> SUFFICES ASSUME RecipeTypeOK, NEW n \in Names, GainsText(n),
                    NEW step \in Steps, ApplyStep(step), ~Dictates(step)
             PROVE  FALSE
  BY DEF StaysNumeric
<1>1. PICK c \in ToSet(GivenIn(n)') : ~Reads(c) /\ c \notin {<<"true">>, <<"false">>}
  BY DEF GainsText
<1>2. WorkingTable /\ Accepts(step) /\ rows' = RowsAfter(step) /\ Numeric(GivenIn(n))
  BY DEF ApplyStep, RecipeTypeOK, GainsText
<1>3. step.kind \notin {"map_values", "rename_column"}
  BY DEF Dictates
<1>4. PICK i \in DOMAIN rows' : c = rows'[i][n] /\ ~Missing(c)
  BY <1>1, GivenCells DEF GivenIn
<1>5. \A j \in DOMAIN rows : rows[j][n] \in Cells /\ (Missing(rows[j][n]) \/ Reads(rows[j][n]))
  <2>1. \A j \in DOMAIN GivenIn(n) : Reads(GivenIn(n)[j])
    BY <1>2 DEF Numeric
  <2>. QED
    BY <1>2, <2>1, ColumnCells
<1>6. CASE step.kind \in Edits
  <2>1. i \in DOMAIN rows /\ c = IF n \in Selected(step) THEN Edited(step, n, rows[i][n]) ELSE rows[i][n]
    BY <1>2, <1>4, <1>6 DEF RowsAfter
  <2>. QED
    BY <1>1, <1>2, <1>4, <1>5, <1>6, <2>1, EditedCell
<1>7. CASE step.kind = "drop_column"
  <2>1. i \in DOMAIN rows /\ c = IF n \in Selected(step) THEN None ELSE rows[i][n]
    BY <1>2, <1>4, <1>7 DEF RowsAfter, Edits
  <2>. QED
    BY <1>1, <1>4, <1>5, <2>1 DEF Missing
<1>8. CASE step.kind \notin Edits \cup {"drop_column"}
  <2>1. rows' = Restricted(rows, Kept(step)) /\ rows \in Seq([Names -> Cells])
    BY <1>2, <1>3, <1>8 DEF RowsAfter, WorkingTable
  <2>2. \E j \in DOMAIN rows : rows'[i] = rows[j]
    BY <1>4, <2>1, KeptRows, RestrictedList
  <2>. QED
    BY <1>1, <1>4, <1>5, <2>2
<1>. QED
  BY <1>6, <1>7, <1>8

\* "A numeric column must not gain a text cell", whatever the table and the step,
\* unless the step dictates it.
THEOREM NumericColumnsAlwaysStay == RecipeSpec => NumericColumnsStay
<1>1. RecipeSpec => [][StaysNumeric]_rows
  BY RecipeTyped, NumericStep, PTL DEF RecipeSpec
<1>. QED
  BY <1>1 DEF NumericColumnsStay, StaysNumeric

-----------------------------------------------------------------------------
(* What the log says.                                                      *)

LEMMA LogTallies ==
  ASSUME RecipeTypeOK
  PROVE  Dropped \in Nat /\ Changed \in Nat /\ LeftOver \in Nat
<1>1. IsFiniteSet(DOMAIN log) /\ \A i \in DOMAIN log : log[i] \in Effects
  <2>1. log \in Seq(Effects)
    BY DEF RecipeTypeOK
  <2>2. Len(log) \in Nat /\ DOMAIN log = 1..Len(log) /\ \A i \in DOMAIN log : log[i] \in Effects
    BY <2>1
  <2>. QED
    BY <2>2, FS_Interval
<1>2. \A i \in DOMAIN log : log[i].dropped \in Nat /\ log[i].changed \in Nat /\ log[i].unresolved \in Nat
  BY <1>1 DEF Effects
<1>3. ASSUME NEW f, DOMAIN f = DOMAIN log, \A i \in DOMAIN log : f[i] \in Nat PROVE Tally(f) \in Nat
  BY <1>1, <1>3, SumBounds, TallyIs
<1>. QED
  BY <1>2, <1>3 DEF Dropped, Changed, LeftOver

LEMMA LogGrows ==
  ASSUME RecipeTypeOK, NEW step \in Steps, log' = Append(log, Effect(step))
  PROVE  /\ Dropped' = Dropped + Effect(step).dropped
         /\ Changed' = Changed + Effect(step).changed
         /\ DOMAIN log' = DOMAIN log \cup {Len(log) + 1}
         /\ \A i \in DOMAIN log : log'[i] = log[i]
         /\ log'[Len(log) + 1] = Effect(step)
<1> DEFINE n == Len(log)
<1>1. log \in Seq(Effects) /\ Effect(step) \in Effects
  BY EffectType DEF RecipeTypeOK
<1>2. /\ n \in Nat /\ DOMAIN log = 1..n /\ DOMAIN log' = 1..(n + 1)
      /\ \A i \in 1..n : log'[i] = log[i]
      /\ log'[n + 1] = Effect(step)
      /\ \A i \in 1..n : log[i] \in Effects
  BY <1>1
<1>3. \A i \in 1..(n + 1) : log'[i] \in Effects
  BY <1>1, <1>2
<1>4. Dropped' = Dropped + Effect(step).dropped
  <2> DEFINE f == [i \in 1..n |-> log[i].dropped]
             g == [i \in 1..(n + 1) |-> log'[i].dropped]
  <2>1. \A i \in 1..(n + 1) : g[i] \in Nat
    BY <1>3 DEF Effects
  <2>2. /\ Dropped = Tally(f) /\ Dropped' = Tally(g) /\ g[n + 1] = Effect(step).dropped
        /\ DOMAIN f = 1..n /\ DOMAIN g = 1..(n + 1) /\ \A i \in 1..n : f[i] = g[i]
    BY <1>2 DEF Dropped
  <2>. HIDE DEF f, g, n
  <2>. QED
    BY <1>2, <2>1, <2>2, TallyGrows
<1>5. Changed' = Changed + Effect(step).changed
  <2> DEFINE f == [i \in 1..n |-> log[i].changed]
             g == [i \in 1..(n + 1) |-> log'[i].changed]
  <2>1. \A i \in 1..(n + 1) : g[i] \in Nat
    BY <1>3 DEF Effects
  <2>2. /\ Changed = Tally(f) /\ Changed' = Tally(g) /\ g[n + 1] = Effect(step).changed
        /\ DOMAIN f = 1..n /\ DOMAIN g = 1..(n + 1) /\ \A i \in 1..n : f[i] = g[i]
    BY <1>2 DEF Changed
  <2>. HIDE DEF f, g, n
  <2>. QED
    BY <1>2, <2>1, <2>2, TallyGrows
<1>6. DOMAIN log' = DOMAIN log \cup {n + 1}
  BY <1>2
<1>. QED
  BY <1>2, <1>4, <1>5, <1>6

-----------------------------------------------------------------------------
(* A recipe that needs no review keeps the books.                          *)

Whole(table, n) == table # <<>> /\ \A i \in DOMAIN table : Reads(table[i][n])
Parsed(table, n) == RestrictValues(Given(Column(table, n)), Reads)

LEMMA ReadsGiven ==
  ASSUME NEW c, Reads(c)
  PROVE  ~Missing(c)
<1>1. c = None \/ c = Empty => c[1] \in {"none", "empty"}
  BY DEF None, Empty
<1>. QED
  BY <1>1 DEF Reads, Missing

LEMMA WholeColumn ==
  ASSUME NEW table, NEW n, \A i \in DOMAIN table : Reads(table[i][n])
  PROVE  Parsed(table, n) = Column(table, n)
<1> DEFINE D == {i \in DOMAIN table : ~Missing(table[i][n])}
           E == {i \in DOMAIN Column(table, n) : Reads(Column(table, n)[i])}
<1>1. D = DOMAIN table /\ Given(Column(table, n)) = [i \in D |-> table[i][n]]
  <2>1. \A i \in DOMAIN table : ~Missing(table[i][n])
    BY ReadsGiven
  <2>2. D = DOMAIN table
    BY <2>1
  <2>3. Given(Column(table, n)) = [i \in {i \in DOMAIN table : ~Missing(table[i][n])} |-> table[i][n]]
    <3>1. Given(Column(table, n)) = [i \in {i \in DOMAIN Column(table, n) : ~Missing(Column(table, n)[i])}
                                      |-> Column(table, n)[i]]
      BY Filtered
    <3>. QED
      BY <3>1 DEF Column
  <2>. QED
    BY <2>2, <2>3
<1>2. E = DOMAIN table /\ RestrictValues(Column(table, n), Reads) = [i \in E |-> Column(table, n)[i]]
  BY Filtered DEF Column
<1>3. Column(table, n) = [i \in DOMAIN table |-> table[i][n]]
  BY DEF Column
<1>. HIDE DEF D, E
<1>4. Given(Column(table, n)) = Column(table, n)
  BY <1>1, <1>3
<1>5. RestrictValues(Column(table, n), Reads) = Column(table, n)
  BY <1>2, <1>3
<1>. QED
  BY <1>4, <1>5 DEF Parsed

LEMMA NumericParsed ==
  ASSUME NEW table, NEW n, Numeric(Given(Column(table, n)))
  PROVE  Parsed(table, n) = Given(Column(table, n))
<1> DEFINE given == Given(Column(table, n))
<1>1. given = [i \in DOMAIN given |-> given[i]]
  BY Filtered
<1>2. {i \in DOMAIN given : Reads(given[i])} = DOMAIN given
  BY DEF Numeric
<1>. HIDE DEF given
<1>3. RestrictValues(given, Reads) = given
  BY <1>1, <1>2, Filtered
<1>. QED
  BY <1>3 DEF Parsed, given

LEMMA TotalsAre ==
  ASSUME NEW table, NEW names
  PROVE  /\ DOMAIN Totals(table, names)
              = {n \in names : /\ Size(Parsed(table, n)) > 0
                               /\ 2 * Size(Parsed(table, n)) >= Size(Given(Column(table, n)))}
         /\ \A n \in DOMAIN Totals(table, names) :
              Totals(table, names)[n].sum = CellSum(Parsed(table, n))
  BY DEF Totals, Parsed

\* What the metrics are computed from.
LEMMA MetricIs ==
  ASSUME NEW table, NEW m \in {"net_revenue", "gross_margin", "gross_margin_rate"},
         DatasetMetric(m, table).status = "completed"
  PROVE  LET sum(n) == CellSum(Column(table, n))
         IN /\ Whole(table, "revenue")
            /\ m # "net_revenue" => Whole(table, "cost")
            /\ DatasetMetric(m, table) =
                 [status |-> "completed",
                  value  |-> CASE m = "net_revenue"  -> sum("revenue")
                               [] m = "gross_margin" -> sum("revenue") - sum("cost")
                               [] m = "gross_margin_rate" ->
                                    (100 * (sum("revenue") - sum("cost"))) \div sum("revenue")]
<1>1. CASE m = "net_revenue"
  BY <1>1 DEF DatasetMetric, Whole
<1>2. CASE m = "gross_margin"
  BY <1>2 DEF DatasetMetric, Whole
<1>3. CASE m = "gross_margin_rate"
  BY <1>3 DEF DatasetMetric, Whole
<1>. QED
  BY <1>1, <1>2, <1>3

RowsAccounted == Len(rows) + Dropped = Len(source.rows)

\* Without a step that drops or renames columns they are those of the source,
\* and there is nothing outside them.
ColumnsStand ==
  (\A i \in DOMAIN log : log[i].kind \notin {"drop_column", "rename_column"}) =>
    /\ columns = source.columns
    /\ \A i \in DOMAIN rows : \A n \in Names \ ToSet(columns) : rows[i][n] = None

BooksInv == RowsAccounted /\ ColumnsStand /\ UnreviewedKeepsTheBooks

LEMMA EmptyTally == Tally(<<>>) = 0
<1>1. IsFiniteSet({}) /\ \A x \in {} : <<>>[x] = 0
  BY FS_EmptySet
<1>2. FoldedSum(<<>>, {}) = Cardinality({}) * 0
  <2>1. 0 \in Int
    OBVIOUS
  <2>. QED
    BY <1>1, <2>1, EvenSum
<1>3. DOMAIN <<>> = {}
  OBVIOUS
<1>. QED
  BY <1>2, <1>3, TallyIs, FS_EmptySet

LEMMA BooksInit == RecipeInit => BooksInv
<1> SUFFICES ASSUME RecipeInit PROVE BooksInv
  OBVIOUS
<1>1. source.rows \in Seq([Names -> Cells])
      /\ \A i \in DOMAIN source.rows : \A n \in Names \ ToSet(source.columns) : source.rows[i][n] = None
  BY SourceTable DEF RecipeInit
<1>2. Dropped = 0
  <2>1. log = <<>>
    BY DEF RecipeInit
  <2>2. [i \in DOMAIN log |-> log[i].dropped] = <<>>
    BY <2>1
  <2>. QED
    BY <2>2, EmptyTally DEF Dropped
<1>3. Len(source.rows) \in Nat
  BY <1>1
<1>. QED
  BY <1>1, <1>2, <1>3 DEF RecipeInit, BooksInv, RowsAccounted, ColumnsStand,
                          UnreviewedKeepsTheBooks, NoPreview

LEMMA RowsAccountedStep ==
  RecipeTypeOK /\ RowsAccounted /\ [RecipeNext]_recipeVars => RowsAccounted'
<1> SUFFICES ASSUME RecipeTypeOK, RowsAccounted, [RecipeNext]_recipeVars PROVE RowsAccounted'
  OBVIOUS
<1>1. ASSUME NEW step \in Steps, ApplyStep(step) PROVE RowsAccounted'
  <2>1. /\ WorkingTable /\ Accepts(step) /\ source' = source
        /\ rows' = RowsAfter(step) /\ log' = Append(log, Effect(step))
    BY <1>1 DEF ApplyStep, RecipeTypeOK
  <2>2. Len(rows') = Cardinality(Kept(step))
    BY <2>1, RowsOfStep
  <2>3. /\ Dropped' = Dropped + (Len(rows) - Cardinality(Kept(step)))
        /\ Dropped \in Nat
    BY <2>1, LogTallies, LogGrows, EffectType
  <2>4. Len(rows) \in Nat /\ Cardinality(Kept(step)) \in Nat
    <3>1. Len(rows) \in Nat /\ rows' \in Seq([Names -> Cells])
      BY <2>1, RowsOfStep DEF WorkingTable
    <3>2. Len(rows') \in Nat
      BY <3>1
    <3>. QED
      BY <2>2, <3>1, <3>2
  <2>5. Len(rows') + Dropped' = Len(rows) + Dropped
    BY <2>2, <2>3, <2>4
  <2>. QED
    BY <2>1, <2>5 DEF RowsAccounted
<1>2. CASE UNCHANGED <<source, rows, log>>
  BY <1>2 DEF RowsAccounted, Dropped
<1>. QED
  BY <1>1, <1>2 DEF RecipeNext, Refuse, Finish, recipeVars

LEMMA ColumnsStandStep ==
  RecipeTypeOK /\ ColumnsStand /\ [RecipeNext]_recipeVars => ColumnsStand'
<1> SUFFICES ASSUME RecipeTypeOK, ColumnsStand, [RecipeNext]_recipeVars PROVE ColumnsStand'
  OBVIOUS
<1>1. ASSUME NEW step \in Steps, ApplyStep(step) PROVE ColumnsStand'
  <2> SUFFICES ASSUME \A i \in DOMAIN log' : log'[i].kind \notin {"drop_column", "rename_column"}
               PROVE  /\ columns' = source'.columns
                      /\ \A i \in DOMAIN rows' : \A n \in Names \ ToSet(columns') : rows'[i][n] = None
    BY DEF ColumnsStand
  <2>1. /\ WorkingTable /\ Accepts(step) /\ source' = source
        /\ rows' = RowsAfter(step) /\ columns' = ColumnsAfter(step)
        /\ log' = Append(log, Effect(step))
    BY <1>1 DEF ApplyStep, RecipeTypeOK
  <2>2. /\ DOMAIN log' = DOMAIN log \cup {Len(log) + 1}
        /\ \A i \in DOMAIN log : log'[i] = log[i]
        /\ log'[Len(log) + 1] = Effect(step)
    BY <2>1, LogGrows
  <2>3. step.kind \notin {"drop_column", "rename_column"}
    <3>1. Effect(step).kind = step.kind
      BY DEF Effect
    <3>. QED
      BY <2>2, <3>1
  <2>4. /\ columns = source.columns
        /\ \A i \in DOMAIN rows : \A n \in Names \ ToSet(columns) : rows[i][n] = None
    BY <2>2 DEF ColumnsStand
  <2>5. columns' = columns
    <3>1. columns' = Restricted(columns, Staying(step)) /\ Staying(step) = DOMAIN columns
      BY <2>1, <2>3, StayingColumns DEF ColumnsAfter
    <3>2. columns \in Seq(Names)
      BY <2>1 DEF WorkingTable
    <3>. QED
      BY <3>1, <3>2, RestrictedList
  <2>6. ASSUME NEW i \in DOMAIN rows', NEW n \in Names \ ToSet(columns) PROVE rows'[i][n] = None
    <3>1. CASE step.kind \in Edits
      <4>1. n \notin Selected(step)
        <5>1. step.kind # "drop_duplicate_rows"
          BY <3>1 DEF Edits
        <5>. QED
          BY <2>1, <2>6, <5>1, Accepted
      <4>2. i \in DOMAIN rows /\ rows'[i][n] = rows[i][n]
        BY <2>1, <2>6, <3>1, <4>1 DEF RowsAfter
      <4>. QED
        BY <2>4, <2>6, <4>2
    <3>2. CASE step.kind \notin Edits
      <4>1. rows' = Restricted(rows, Kept(step)) /\ rows \in Seq([Names -> Cells])
        BY <2>1, <2>3, <3>2 DEF RowsAfter, WorkingTable
      <4>2. \E j \in DOMAIN rows : rows'[i] = rows[j]
        BY <2>6, <4>1, KeptRows, RestrictedList
      <4>. QED
        BY <2>4, <2>6, <4>2
    <3>. QED
      BY <3>1, <3>2
  <2>. QED
    BY <2>1, <2>4, <2>5, <2>6
<1>2. CASE UNCHANGED <<source, rows, columns, log>>
  BY <1>2 DEF ColumnsStand
<1>. QED
  BY <1>1, <1>2 DEF RecipeNext, Refuse, Finish, recipeVars

\* What a preview without reasons for a review says.
LEMMA NoReasons ==
  ASSUME NEW notes, NEW kinds, Reasons(notes, kinds) = {}
  PROVE  ~(Dropped > 0) /\ notes \subseteq {"unchanged"} /\ kinds \cap {"drop_column", "rename_column"} = {}
  BY DEF Reasons

\* A column of numbers that no note is about has the same sum.
LEMMA SameTotal ==
  ASSUME NEW before, NEW after, NEW n \in DOMAIN before, Notes(before, after) \subseteq {"unchanged"}
  PROVE  n \in DOMAIN after /\ before[n].sum = after[n].sum
<1>1. Note(before, after, n) = "unchanged"
  BY DEF Notes
<1>. QED
  BY <1>1 DEF Note

LEMMA BooksAtTheEnd ==
  ASSUME RecipeTypeOK, RowsAccounted, ColumnsStand, Finish, preview'.outcome = "previewed", ~preview'.review
  PROVE  UnreviewedKeepsTheBooks'
<1> DEFINE before == Totals(source.rows, ToSet(source.columns))
           after == Totals(rows, ToSet(columns))
           kinds == {log[i].kind : i \in DOMAIN log}
<1>1. /\ UNCHANGED <<source, rows, columns, log, lineage>>
      /\ Reasons(Notes(before, after), kinds) = {}
  BY DEF Finish
<1>2. /\ ~(Dropped > 0) /\ Notes(before, after) \subseteq {"unchanged"}
      /\ kinds \cap {"drop_column", "rename_column"} = {}
  BY <1>1, NoReasons
<1>3. /\ columns = source.columns
      /\ \A i \in DOMAIN rows : \A n \in Names \ ToSet(columns) : rows[i][n] = None
  BY <1>2 DEF ColumnsStand
<1>4. Len(rows) = Len(source.rows)
  <2>1. Dropped \in Nat /\ Len(rows) \in Nat
    BY LogTallies DEF RecipeTypeOK, WorkingTable
  <2>. QED
    BY <1>2, <2>1 DEF RowsAccounted
<1>5. ASSUME NEW n \in ToSet(columns), Numeric(Given(Column(source.rows, n)))
      PROVE  /\ Parsed(source.rows, n) = Given(Column(source.rows, n))
             /\ CellSum(Parsed(source.rows, n)) = CellSum(Parsed(rows, n))
             /\ DOMAIN Parsed(rows, n) # {}
  <2> DEFINE given == Given(Column(source.rows, n))
  <2>1. n \in Names /\ columns \in Seq(Names) /\ source.rows \in Seq([Names -> Cells])
    BY SourceTable DEF RecipeTypeOK, WorkingTable, ToSet
  <2>2. Parsed(source.rows, n) = given
    BY <1>5, NumericParsed
  <2>3. Size(given) \in Nat /\ Size(given) > 0
    <3>1. Len(source.rows) \in Nat /\ DOMAIN source.rows = 1..Len(source.rows)
      BY <2>1
    <3>2. IsFiniteSet(DOMAIN source.rows)
      BY <3>1, FS_Interval
    <3>3. DOMAIN given \subseteq DOMAIN source.rows
      BY GivenCells
    <3>4. DOMAIN given # {}
      BY <1>5 DEF Numeric
    <3>. HIDE DEF given
    <3>. QED
      BY <3>2, <3>3, <3>4, FS_Subset, FS_CardinalityType, FS_EmptySet DEF Size
  <2>4. n \in DOMAIN before /\ before[n].sum = CellSum(Parsed(source.rows, n))
    <3>1. 2 * Size(Parsed(source.rows, n)) >= Size(given) /\ Size(Parsed(source.rows, n)) > 0
      BY <2>2, <2>3
    <3>. QED
      BY <1>3, <3>1, TotalsAre
  <2>. HIDE DEF given, before, after
  <2>5. n \in DOMAIN after /\ before[n].sum = after[n].sum
    BY <1>2, <2>4, SameTotal
  <2>6. after[n].sum = CellSum(Parsed(rows, n)) /\ Size(Parsed(rows, n)) > 0
    BY <2>5, TotalsAre DEF after
  <2>7. DOMAIN Parsed(rows, n) # {}
    BY <2>6, FS_EmptySet DEF Size
  <2>. QED
    BY <2>2, <2>4, <2>5, <2>6, <2>7 DEF given
<1>6. ASSUME NEW n \in {"revenue", "cost"}, Whole(source.rows, n), Whole(rows, n)
      PROVE  CellSum(Column(source.rows, n)) = CellSum(Column(rows, n))
  <2>1. n \in Names
    BY RecipeAssumption
  <2>2. n \in ToSet(columns)
    <3>1. PICK i \in DOMAIN rows : Reads(rows[i][n])
      <4>1. rows \in Seq([Names -> Cells]) /\ rows # <<>>
        BY <1>6 DEF Whole, RecipeTypeOK, WorkingTable
      <4>2. 1 \in DOMAIN rows
        BY <4>1
      <4>. QED
        BY <1>6, <4>2 DEF Whole
    <3>2. ~Missing(rows[i][n])
      BY <3>1, ReadsGiven
    <3>. QED
      BY <1>3, <2>1, <3>2 DEF Missing
  <2>3. Parsed(source.rows, n) = Column(source.rows, n) /\ Parsed(rows, n) = Column(rows, n)
    BY <1>6, WholeColumn DEF Whole
  <2>4. Numeric(Given(Column(source.rows, n)))
    <3> DEFINE given == Given(Column(source.rows, n))
    <3>1. /\ \A i : i \in DOMAIN given <=> i \in DOMAIN source.rows /\ ~Missing(source.rows[i][n])
          /\ \A i \in DOMAIN given : given[i] = source.rows[i][n]
      BY GivenCells
    <3>2. 1 \in DOMAIN source.rows
      <4>1. source.rows \in Seq([Names -> Cells]) /\ source.rows # <<>>
        BY <1>6, SourceTable DEF Whole, RecipeTypeOK
      <4>. QED
        BY <4>1
    <3>3. 1 \in DOMAIN given
      <4>1. ~Missing(source.rows[1][n])
        BY <1>6, <3>2, ReadsGiven DEF Whole
      <4>. HIDE DEF given
      <4>. QED
        BY <3>1, <3>2, <4>1
    <3>. HIDE DEF given
    <3>4. \A i \in DOMAIN given : Reads(given[i])
      BY <1>6, <3>1 DEF Whole
    <3>5. Numeric(given)
      BY <3>3, <3>4 DEF Numeric
    <3>. QED
      BY <3>5 DEF given
  <2>. QED
    BY <1>5, <2>2, <2>3, <2>4
<1>7. ASSUME NEW m \in {"net_revenue", "gross_margin", "gross_margin_rate"},
             DatasetMetric(m, source.rows).status = "completed", DatasetMetric(m, rows).status = "completed"
      PROVE  DatasetMetric(m, source.rows) = DatasetMetric(m, rows)
  <2> DEFINE metric(sum) == [status |-> "completed",
                             value  |-> CASE m = "net_revenue"  -> sum[1]
                                          [] m = "gross_margin" -> sum[1] - sum[2]
                                          [] m = "gross_margin_rate" -> (100 * (sum[1] - sum[2])) \div sum[1]]
             sums(table) == <<CellSum(Column(table, "revenue")), CellSum(Column(table, "cost"))>>
  <2>1. /\ Whole(source.rows, "revenue") /\ Whole(rows, "revenue")
        /\ m # "net_revenue" => Whole(source.rows, "cost") /\ Whole(rows, "cost")
    BY <1>7, MetricIs
  <2>2. /\ DatasetMetric(m, source.rows) = metric(sums(source.rows))
        /\ DatasetMetric(m, rows) = metric(sums(rows))
    BY <1>7, MetricIs
  <2>3. /\ sums(source.rows)[1] = sums(rows)[1]
        /\ m # "net_revenue" => sums(source.rows)[2] = sums(rows)[2]
    BY <1>6, <2>1
  <2>. HIDE DEF sums
  <2>. QED
    BY <2>2, <2>3
<1>8. \A n \in ToSet(columns) :
        LET given == Given(Column(source.rows, n))
            now   == RestrictValues(GivenIn(n), Reads)
        IN Numeric(given) => DOMAIN now # {} /\ CellSum(given) = CellSum(now)
  BY <1>5 DEF Parsed, GivenIn
<1>9. UnreviewedKeepsTheBooks'
  <2>1. \A m \in {"net_revenue", "gross_margin", "gross_margin_rate"} :
          DatasetMetric(m, source.rows).status = "completed" /\ DatasetMetric(m, rows).status = "completed"
            => DatasetMetric(m, source.rows) = DatasetMetric(m, rows)
    BY <1>7
  <2>. QED
    BY <1>1, <1>3, <1>4, <1>8, <2>1 DEF UnreviewedKeepsTheBooks, GivenIn
<1>. QED
  BY <1>9

LEMMA BooksStep == RecipeTypeOK /\ BooksInv /\ [RecipeNext]_recipeVars => BooksInv'
<1> SUFFICES ASSUME RecipeTypeOK, BooksInv, [RecipeNext]_recipeVars PROVE UnreviewedKeepsTheBooks'
  BY RowsAccountedStep, ColumnsStandStep DEF BooksInv
<1>1. ASSUME NEW step \in Steps, ApplyStep(step) \/ Refuse(step) PROVE UnreviewedKeepsTheBooks'
  <2>1. preview'.outcome # "previewed"
    BY <1>1 DEF ApplyStep, Refuse, NoPreview
  <2>. QED
    BY <2>1 DEF UnreviewedKeepsTheBooks
<1>2. ASSUME Finish PROVE UnreviewedKeepsTheBooks'
  <2>1. CASE preview'.outcome = "previewed" /\ ~preview'.review
    BY <1>2, <2>1, BooksAtTheEnd DEF BooksInv
  <2>2. CASE ~(preview'.outcome = "previewed" /\ ~preview'.review)
    BY <2>2 DEF UnreviewedKeepsTheBooks
  <2>. QED
    BY <2>1, <2>2
<1>3. CASE UNCHANGED recipeVars
  BY <1>3 DEF recipeVars, BooksInv, UnreviewedKeepsTheBooks, GivenIn
<1>. QED
  BY <1>1, <1>2, <1>3 DEF RecipeNext

\* "A numeric column that changed total always deserves a human look", whatever
\* the table and however many steps are combined.
THEOREM UnreviewedRecipesKeepTheBooks == RecipeSpec => []UnreviewedKeepsTheBooks
<1>1. RecipeSpec => [](RecipeTypeOK /\ BooksInv)
  BY TypeInit, TypeStep, BooksInit, BooksStep, PTL DEF RecipeSpec
<1>2. BooksInv => UnreviewedKeepsTheBooks
  BY DEF BooksInv
<1>. QED
  BY <1>1, <1>2, PTL

-----------------------------------------------------------------------------
(* The log accounts for every change.                                      *)

\* No pair of a renaming writes a name that a later pair has yet to read.
NoNameReused ==
  \A step \in Steps : step.kind = "rename_column" =>
    \A j, k \in DOMAIN step.names : j < k => step.names[j][2] # step.names[k][1]

LEMMA MovedCell ==
  ASSUME NEW r \in [Names -> Cells], NEW pair \in Names \X Names, NEW n \in Names
  PROVE  Move(r, pair)[n] = IF n = pair[2] THEN r[pair[1]] ELSE IF n = pair[1] THEN None ELSE r[n]
  BY DEF Move

\* Such a renaming takes every cell along with its column.
LEMMA RenamedCell ==
  ASSUME NoNameReused, WorkingTable, NEW step \in Steps, step.kind = "rename_column", Accepts(step),
         NEW row \in [Names -> Cells], NEW c \in ToSet(columns)
  PROVE  Renamed(row, step.names)[NewName(step, c)] = row[c]
<1> DEFINE names == step.names
           m == Len(names)
           old == {names[k][1] : k \in DOMAIN names}
           new == {names[k][2] : k \in DOMAIN names}
<1>1. /\ names \in Seq(Names \X Names)
      /\ \A j, k \in DOMAIN names : names[j][1] = names[k][1] => j = k
  BY StepOptions
<1>2. /\ m \in Nat /\ DOMAIN names = 1..m
      /\ \A k \in 1..m : names[k] \in Names \X Names /\ names[k][1] \in Names /\ names[k][2] \in Names
  BY <1>1
<1>3. /\ Selected(step) = old /\ old \subseteq ToSet(columns)
      /\ new \cap (ToSet(columns) \ Selected(step)) = {}
  BY Accepted
<1>4. \A j, k \in 1..m : j < k => names[j][2] # names[k][1]
  BY <1>2 DEF NoNameReused
<1>5. \A j, k \in 1..m : names[j][2] = names[k][2] => j = k
  BY <1>2, NewNames
<1>6. PICK g \in [0..m -> [Names -> Cells]] :
        /\ g[0] = row /\ g[m] = Renamed(row, names)
        /\ \A k \in 1..m : g[k] = Move(g[k - 1], names[k])
  BY <1>1, RenamedOneByOne
<1>7. ToSet(columns) \subseteq Names
  BY DEF WorkingTable, ToSet
<1> DEFINE Moved(k) == \A j \in 1..k : g[k][names[j][2]] = row[names[j][1]]
           Left(k) == \A n \in ToSet(columns) : (\A j \in 1..k : names[j][1] # n) => g[k][n] = row[n]
           Bad == {k \in 0..m : ~(Moved(k) /\ Left(k))}
<1>8. Bad = {}
  <2> SUFFICES ASSUME Bad # {} PROVE FALSE
    OBVIOUS
  <2>1. Bad \in SUBSET Nat
    BY <1>2
  <2>2. PICK k \in Bad : \A j \in Bad : k <= j
    <3>. HIDE DEF Bad
    <3>. QED
      BY <2>1, LeastExists
  <2>3. k \in 0..m /\ ~(Moved(k) /\ Left(k))
    BY <2>2
  <2>4. k # 0
    <3>1. Moved(0) /\ Left(0)
      BY <1>6
    <3>. HIDE DEF Moved, Left
    <3>. QED
      BY <2>3, <3>1
  <2>5. k \in 1..m /\ k - 1 \in 0..m /\ ~(k <= k - 1)
    BY <1>2, <2>3, <2>4
  <2>6. k - 1 \notin Bad
    <3>. HIDE DEF Bad
    <3>. QED
      BY <2>2, <2>5
  <2>7. Moved(k - 1) /\ Left(k - 1)
    BY <2>5, <2>6
  <2> DEFINE old1 == names[k][1]
             new1 == names[k][2]
             h == g[k - 1]
  <2>8. h \in [Names -> Cells] /\ old1 \in Names /\ new1 \in Names /\ names[k] \in Names \X Names
    BY <1>2, <1>6, <2>5
  <2>9. g[k] = Move(h, names[k])
    BY <1>6, <2>5
  <2>10. \A n \in Names : g[k][n] = IF n = new1 THEN h[old1] ELSE IF n = old1 THEN None ELSE h[n]
    <3>. HIDE DEF h
    <3>. QED
      BY <2>8, <2>9, MovedCell
  <2>11. h[old1] = row[old1]
    <3>1. \A j \in 1..(k - 1) : names[j][1] # old1
      <4>1. \A j \in 1..(k - 1) : j \in 1..m /\ j # k
        BY <1>2, <2>5
      <4>2. \A j \in 1..m : names[j][1] = names[k][1] => j = k
        BY <1>1, <1>2, <2>5
      <4>. QED
        BY <4>1, <4>2
    <3>2. old1 \in ToSet(columns)
      BY <1>2, <1>3, <2>5
    <3>. QED
      BY <2>7, <3>1, <3>2
  <2>12. Moved(k)
    <3> SUFFICES ASSUME NEW j \in 1..k PROVE g[k][names[j][2]] = row[names[j][1]]
      OBVIOUS
    <3>1. j \in 1..m /\ names[j][2] \in Names
      BY <1>2, <2>5
    <3>2. CASE j = k
      BY <2>8, <2>10, <2>11, <3>2
    <3>3. CASE j # k
      <4>1. j \in 1..(k - 1) /\ j < k
        BY <2>5, <3>3
      <4>2. names[j][2] # new1 /\ names[j][2] # old1
        BY <1>4, <1>5, <2>5, <3>1, <3>3, <4>1
      <4>3. g[k][names[j][2]] = h[names[j][2]]
        BY <2>10, <3>1, <4>2
      <4>. QED
        BY <2>7, <4>1, <4>3
    <3>. QED
      BY <3>2, <3>3
  <2>13. Left(k)
    <3> SUFFICES ASSUME NEW n \in ToSet(columns), \A j \in 1..k : names[j][1] # n PROVE g[k][n] = row[n]
      OBVIOUS
    <3>1. n # old1 /\ n \in Names /\ \A j \in 1..(k - 1) : names[j][1] # n
      BY <1>7, <2>5
    <3>2. n # new1
      <4> SUFFICES ASSUME n = new1 PROVE FALSE
        OBVIOUS
      <4>1. n \in new
        BY <1>2, <2>5
      <4>2. n \in old
        BY <1>3, <4>1
      <4>3. PICK j \in 1..m : names[j][1] = n
        BY <1>2, <4>2
      <4>4. k < j
        BY <1>2, <2>5, <4>3
      <4>. QED
        BY <1>4, <2>5, <4>3, <4>4
    <3>3. g[k][n] = h[n]
      BY <2>10, <3>1, <3>2
    <3>. QED
      BY <2>7, <3>1, <3>3
  <2>. HIDE DEF Moved, Left
  <2>. QED
    BY <2>3, <2>12, <2>13
<1>9. Moved(m) /\ Left(m)
  <2>1. m \in 0..m /\ m \notin Bad
    BY <1>2, <1>8
  <2>. QED
    BY <2>1
<1>10. CASE c \in old
  <2>1. PICK j \in 1..m : names[j][1] = c
    BY <1>2, <1>10
  <2>2. NewName(step, c) = names[j][2]
    BY <1>2, <2>1, NewNames
  <2>. QED
    BY <1>6, <1>9, <2>1, <2>2
<1>11. CASE c \notin old
  <2>1. NewName(step, c) = c /\ \A j \in 1..m : names[j][1] # c
    BY <1>2, <1>11 DEF NewName
  <2>. QED
    BY <1>6, <1>9, <2>1
<1>. QED
  BY <1>10, <1>11

\* A cell of the working copy differs from the one it is traced to.
Differing ==
  {p \in (DOMAIN rows) \X (DOMAIN columns) :
     rows[p[1]][columns[p[2]]] # source.rows[lineage.rows[p[1]]][lineage.columns[p[2]]]}

LEMMA DifferingFinite ==
  ASSUME RecipeTypeOK
  PROVE  /\ IsFiniteSet(Differing) /\ Cardinality(Differing) \in Nat
         /\ DOMAIN rows = 1..Len(rows) /\ DOMAIN columns = 1..Len(columns)
         /\ DOMAIN lineage.rows = DOMAIN rows /\ DOMAIN lineage.columns = DOMAIN columns
<1>1. /\ Len(rows) \in Nat /\ Len(columns) \in Nat
      /\ DOMAIN rows = 1..Len(rows) /\ DOMAIN columns = 1..Len(columns)
      /\ DOMAIN lineage.rows = 1..Len(rows) /\ DOMAIN lineage.columns = 1..Len(columns)
  BY DEF RecipeTypeOK, WorkingTable
<1>2. IsFiniteSet(DOMAIN rows) /\ IsFiniteSet(DOMAIN columns)
  BY <1>1, FS_Interval
<1>3. IsFiniteSet((DOMAIN rows) \X (DOMAIN columns))
  BY <1>2, FS_Product
<1>4. Differing \subseteq (DOMAIN rows) \X (DOMAIN columns)
  BY DEF Differing
<1>. QED
  BY <1>1, <1>3, <1>4, FS_Subset, FS_CardinalityType

\* The rows and columns that stay keep their cells, unless the step edits them.
LEMMA CellsStay ==
  ASSUME NoNameReused, WorkingTable, NEW step \in Steps, Accepts(step), step.kind \notin Edits,
         NEW i \in DOMAIN RowsAfter(step), NEW k \in DOMAIN ColumnsAfter(step)
  PROVE  /\ Places(Kept(step))[i] \in DOMAIN rows /\ Places(Staying(step))[k] \in DOMAIN columns
         /\ RowsAfter(step)[i][ColumnsAfter(step)[k]]
              = rows[Places(Kept(step))[i]][columns[Places(Staying(step))[k]]]
<1> DEFINE a == Places(Kept(step))
           b == Places(Staying(step))
<1>1. /\ rows \in Seq([Names -> Cells]) /\ columns \in Seq(Names)
      /\ Kept(step) \in SUBSET (DOMAIN rows) /\ Staying(step) \in SUBSET (DOMAIN columns)
      /\ \A j \in DOMAIN columns : columns[j] \in Names /\ columns[j] \in ToSet(columns)
      /\ \A j \in DOMAIN rows : rows[j] \in [Names -> Cells]
      /\ Len(rows) \in Nat /\ DOMAIN rows = 1..Len(rows)
      /\ Len(columns) \in Nat /\ DOMAIN columns = 1..Len(columns)
  BY KeptRows, StayingColumns DEF WorkingTable, ToSet
<1>2. i \in 1..Cardinality(Kept(step)) /\ k \in 1..Cardinality(Staying(step))
  <2>1. /\ RowsAfter(step) \in Seq([Names -> Cells]) /\ Len(RowsAfter(step)) = Cardinality(Kept(step))
        /\ ColumnsAfter(step) \in Seq(Names) /\ Len(ColumnsAfter(step)) = Cardinality(Staying(step))
    BY RowsOfStep, ColumnsOfStep
  <2>. QED
    BY <2>1
<1>3. a[i] \in Kept(step) /\ b[k] \in Staying(step)
  BY <1>1, <1>2, RestrictedList
<1>4. /\ Kept(step) = DOMAIN rows => a[i] = i
      /\ Staying(step) = DOMAIN columns => b[k] = k
  <2>1. Kept(step) = 1..Len(rows) => a = [j \in 1..Len(rows) |-> j] /\ Cardinality(Kept(step)) = Len(rows)
    BY <1>1, PlacesList
  <2>2. Staying(step) = 1..Len(columns) =>
          b = [j \in 1..Len(columns) |-> j] /\ Cardinality(Staying(step)) = Len(columns)
    BY <1>1, PlacesList
  <2>. HIDE DEF a, b
  <2>. QED
    BY <1>1, <1>2, <2>1, <2>2
<1>. HIDE DEF a, b
<1>5. CASE step.kind = "rename_column"
  <2>1. a[i] = i /\ b[k] = k /\ i \in DOMAIN rows /\ k \in DOMAIN columns
    BY <1>1, <1>3, <1>4, <1>5, KeptRows, StayingColumns
  <2>2. RowsAfter(step)[i] = Renamed(rows[i], step.names)
    BY <1>5, <2>1 DEF RowsAfter, Edits
  <2>3. ColumnsAfter(step)[k] = NewName(step, columns[k])
    BY <1>5, <2>1 DEF ColumnsAfter
  <2>4. Renamed(rows[i], step.names)[NewName(step, columns[k])] = rows[i][columns[k]]
    BY <1>1, <1>5, <2>1, RenamedCell
  <2>. QED
    BY <2>1, <2>2, <2>3, <2>4 DEF a, b
<1>6. CASE step.kind # "rename_column"
  <2>1. ColumnsAfter(step)[k] = columns[b[k]]
    <3>1. ColumnsAfter(step) = Restricted(columns, Staying(step))
      BY <1>6 DEF ColumnsAfter
    <3>. QED
      BY <1>1, <1>2, <3>1, RestrictedList DEF b
  <2>2. CASE step.kind = "drop_column"
    <3>1. a[i] = i /\ i \in DOMAIN rows /\ columns[b[k]] \notin Selected(step) /\ columns[b[k]] \in Names
      BY <1>1, <1>3, <1>4, <2>2, KeptRows, StayingColumns
    <3>2. RowsAfter(step)[i][columns[b[k]]] = rows[i][columns[b[k]]]
      BY <2>2, <3>1 DEF RowsAfter, Edits
    <3>. QED
      BY <1>1, <1>3, <2>1, <3>1, <3>2 DEF a, b
  <2>3. CASE step.kind # "drop_column"
    <3>1. RowsAfter(step) = Restricted(rows, Kept(step))
      BY <1>6, <2>3 DEF RowsAfter
    <3>2. RowsAfter(step)[i] = rows[a[i]]
      <4>1. \A j \in 1..Cardinality(Kept(step)) :
              Restricted(rows, Kept(step))[j] = rows[Places(Kept(step))[j]]
        BY <1>1, RestrictedList
      <4>. QED
        BY <1>2, <3>1, <4>1 DEF a
    <3>. QED
      BY <1>1, <1>3, <2>1, <3>2 DEF a, b
  <2>. QED
    BY <2>2, <2>3
<1>. QED
  BY <1>5, <1>6

ChangesCounted == Changed >= Cardinality(Differing)

\* A step that edits nothing makes no cell differ.
LEMMA NoNewDifference ==
  ASSUME NoNameReused, RecipeTypeOK, NEW step \in Steps, ApplyStep(step), step.kind \notin Edits
  PROVE  Cardinality(Differing') \in Nat /\ Cardinality(Differing') <= Cardinality(Differing)
<1> DEFINE a == Places(Kept(step))
           b == Places(Staying(step))
           f == [p \in Differing' |-> <<a[p[1]], b[p[2]]>>]
           J == DOMAIN rows'
           K == DOMAIN columns'
           Differs(i, k) == rows'[i][columns'[k]] # source.rows[lineage'.rows[i]][lineage'.columns[k]]
<1>1. /\ WorkingTable /\ Accepts(step) /\ source' = source
      /\ rows' = RowsAfter(step) /\ columns' = ColumnsAfter(step)
      /\ lineage' = [rows    |-> Restricted(lineage.rows, Kept(step)),
                     columns |-> Restricted(lineage.columns, Staying(step))]
  BY DEF ApplyStep, RecipeTypeOK
<1>2. /\ DOMAIN lineage.rows = DOMAIN rows /\ DOMAIN lineage.columns = DOMAIN columns
      /\ lineage.rows \in Seq(DOMAIN source.rows) /\ lineage.columns \in Seq(Names)
      /\ Kept(step) \in SUBSET (DOMAIN lineage.rows) /\ Staying(step) \in SUBSET (DOMAIN lineage.columns)
  BY DifferingFinite, KeptRows, StayingColumns DEF RecipeTypeOK
<1>3. J = 1..Cardinality(Kept(step)) /\ K = 1..Cardinality(Staying(step))
  <2>1. /\ rows' \in Seq([Names -> Cells]) /\ Len(rows') = Cardinality(Kept(step))
        /\ columns' \in Seq(Names) /\ Len(columns') = Cardinality(Staying(step))
    BY <1>1, RowsOfStep, ColumnsOfStep
  <2>. QED
    BY <2>1
<1>4. /\ a \in Bijection(1..Cardinality(Kept(step)), Kept(step))
      /\ b \in Bijection(1..Cardinality(Staying(step)), Staying(step))
  BY <1>2, RestrictedList
<1>5. \A i \in J : lineage'.rows[i] = lineage.rows[a[i]]
  <2>1. \A i \in 1..Cardinality(Kept(step)) :
          Restricted(lineage.rows, Kept(step))[i] = lineage.rows[Places(Kept(step))[i]]
    BY <1>2, RestrictedList
  <2>. QED
    BY <1>1, <1>3, <2>1
<1>6. \A k \in K : lineage'.columns[k] = lineage.columns[b[k]]
  <2>1. \A k \in 1..Cardinality(Staying(step)) :
          Restricted(lineage.columns, Staying(step))[k] = lineage.columns[Places(Staying(step))[k]]
    BY <1>2, RestrictedList
  <2>. QED
    BY <1>1, <1>3, <2>1
<1>7. \A i \in J, k \in K :
        /\ a[i] \in DOMAIN rows /\ b[k] \in DOMAIN columns
        /\ rows'[i][columns'[k]] = rows[a[i]][columns[b[k]]]
  BY <1>1, CellsStay
<1>8. /\ \A i, j \in J : a[i] = a[j] => i = j
      /\ \A i, j \in K : b[i] = b[j] => i = j
  <2>. HIDE DEF a, b, J, K
  <2>. QED
    BY <1>3, <1>4 DEF Bijection, Injection, IsInjective
<1>9. Differing' = {p \in J \X K : Differs(p[1], p[2])}
  BY <1>1 DEF Differing
<1>. HIDE DEF a, b, J, K
<1>10. \A p \in Differing' : p = <<p[1], p[2]>> /\ p[1] \in J /\ p[2] \in K /\ f[p] \in Differing
  <2> SUFFICES ASSUME NEW p \in Differing'
               PROVE  p = <<p[1], p[2]>> /\ p[1] \in J /\ p[2] \in K /\ f[p] \in Differing
    OBVIOUS
  <2>1. p = <<p[1], p[2]>> /\ p[1] \in J /\ p[2] \in K /\ Differs(p[1], p[2])
    <3>. HIDE DEF Differs
    <3>. QED
      BY <1>9
  <2>2. <<a[p[1]], b[p[2]]>> \in Differing
    BY <1>5, <1>6, <1>7, <2>1 DEF Differing
  <2>. QED
    BY <2>1, <2>2
<1>11. f \in Injection(Differing', Differing)
  <2>1. f \in [Differing' -> Differing]
    BY <1>10
  <2>2. \A p, q \in Differing' : f[p] = f[q] => p = q
    BY <1>8, <1>10
  <2>. QED
    BY <2>1, <2>2 DEF Injection, IsInjective
<1>. HIDE DEF f
<1>. QED
  BY <1>11, DifferingFinite, FS_Injection, FS_CardinalityType

\* An edit counts every cell it makes differ.
LEMMA EditsCounted ==
  ASSUME RecipeTypeOK, NEW step \in Steps, ApplyStep(step), step.kind \in Edits
  PROVE  /\ Cardinality(Differing') \in Nat
         /\ Cardinality(Differing') <= Cardinality(Differing) + Effect(step).changed
<1> DEFINE touched == (DOMAIN rows) \X Selected(step)
           C == {t \in touched : Edited(step, t[2], rows[t[1]][t[2]]) # rows[t[1]][t[2]]}
           P == {p \in (DOMAIN rows) \X (DOMAIN columns) : <<p[1], columns[p[2]]>> \in C}
           f == [p \in P |-> <<p[1], columns[p[2]]>>]
<1>1. /\ WorkingTable /\ Accepts(step) /\ source' = source
      /\ rows' = RowsAfter(step) /\ columns' = ColumnsAfter(step)
      /\ lineage' = [rows    |-> Restricted(lineage.rows, Kept(step)),
                     columns |-> Restricted(lineage.columns, Staying(step))]
  BY DEF ApplyStep, RecipeTypeOK
<1>2. /\ DOMAIN lineage.rows = DOMAIN rows /\ DOMAIN lineage.columns = DOMAIN columns
      /\ lineage.rows \in Seq(DOMAIN source.rows) /\ lineage.columns \in Seq(Names)
      /\ columns \in Seq(Names)
      /\ Kept(step) = DOMAIN lineage.rows /\ Staying(step) = DOMAIN lineage.columns
  BY <1>1, DifferingFinite, KeptRows, StayingColumns DEF RecipeTypeOK, WorkingTable, Edits
<1>3. columns' = columns /\ lineage'.rows = lineage.rows /\ lineage'.columns = lineage.columns
  <2>1. columns' = Restricted(columns, DOMAIN columns)
    BY <1>1, <1>2 DEF ColumnsAfter, Edits
  <2>. QED
    BY <1>1, <1>2, <2>1, RestrictedList
<1>4. /\ DOMAIN rows' = DOMAIN rows
      /\ \A i \in DOMAIN rows, n \in Names :
           rows'[i][n] = IF n \in Selected(step) THEN Edited(step, n, rows[i][n]) ELSE rows[i][n]
  BY <1>1 DEF RowsAfter
<1>5. IsFiniteSet(C) /\ Effect(step).changed = Cardinality(C)
  <2>1. IsFiniteSet(touched)
    BY <1>1, EffectType
  <2>2. Effect(step).changed = Cardinality(C)
    BY DEF Effect, Quantify
  <2>3. C \subseteq touched
    OBVIOUS
  <2>. HIDE DEF C, touched
  <2>. QED
    BY <2>1, <2>2, <2>3, FS_Subset
<1>6. \A k \in DOMAIN columns : columns[k] \in Names
  BY <1>2
<1>7. Differing' \subseteq Differing \cup P
  <2> SUFFICES ASSUME NEW i \in DOMAIN rows, NEW k \in DOMAIN columns,
                      rows'[i][columns[k]] # source.rows[lineage.rows[i]][lineage.columns[k]],
                      <<i, k>> \notin P
               PROVE  <<i, k>> \in Differing
    <3>1. \A p \in Differing' :
            /\ p[1] \in DOMAIN rows /\ p[2] \in DOMAIN columns /\ p = <<p[1], p[2]>>
            /\ rows'[p[1]][columns[p[2]]] # source.rows[lineage.rows[p[1]]][lineage.columns[p[2]]]
      BY <1>1, <1>3, <1>4 DEF Differing
    <3>. HIDE DEF P, Differing
    <3>. QED
      BY <3>1
  <2>1. <<i, columns[k]>> \notin C
    OBVIOUS
  <2>2. rows'[i][columns[k]] = rows[i][columns[k]]
    BY <1>4, <1>6, <2>1
  <2>. QED
    BY <2>2 DEF Differing
<1>8. f \in Injection(P, C)
  <2>1. f \in [P -> C]
    <3>. HIDE DEF C
    <3>. QED
      OBVIOUS
  <2>2. \A j, k \in DOMAIN columns : columns[j] = columns[k] => j = k
    BY <1>1 DEF WorkingTable, IsInjective
  <2>3. \A p \in P : p = <<p[1], p[2]>> /\ p[2] \in DOMAIN columns
    OBVIOUS
  <2>4. \A p, q \in P : f[p] = f[q] => p = q
    <3>1. \A p \in P : f[p] = <<p[1], columns[p[2]]>>
      OBVIOUS
    <3>. HIDE DEF f, P, C
    <3>. QED
      BY <2>2, <2>3, <3>1
  <2>. HIDE DEF f, P, C
  <2>. QED
    BY <2>1, <2>4 DEF Injection, IsInjective
<1>. HIDE DEF f, P, C
<1>9. IsFiniteSet(P) /\ Cardinality(P) <= Cardinality(C)
  BY <1>5, <1>8, FS_Injection
<1>10. IsFiniteSet(Differing \cup P)
       /\ Cardinality(Differing \cup P) = Cardinality(Differing) + Cardinality(P) - Cardinality(Differing \cap P)
  BY <1>9, DifferingFinite, FS_Union
<1>11. Cardinality(Differing \cap P) \in Nat /\ Cardinality(P) \in Nat /\ Cardinality(C) \in Nat
  <2>1. IsFiniteSet(Differing \cap P)
    BY <1>9, FS_Subset
  <2>. QED
    BY <1>5, <1>9, <2>1, FS_CardinalityType
<1>12. Cardinality(Differing') <= Cardinality(Differing \cup P) /\ Cardinality(Differing') \in Nat
  <2>1. IsFiniteSet(Differing')
    BY <1>7, <1>10, FS_Subset
  <2>. QED
    BY <1>7, <1>10, <2>1, FS_Subset, FS_CardinalityType
<1>13. Cardinality(Differing) \in Nat
  BY DifferingFinite
<1>. QED
  BY <1>5, <1>9, <1>10, <1>11, <1>12, <1>13

LEMMA ChangesCountedStep ==
  ASSUME NoNameReused
  PROVE  RecipeTypeOK /\ ChangesCounted /\ [RecipeNext]_recipeVars => ChangesCounted'
<1> SUFFICES ASSUME RecipeTypeOK, ChangesCounted, [RecipeNext]_recipeVars
             PROVE  ChangesCounted'
  OBVIOUS
<1>1. ASSUME NEW step \in Steps, ApplyStep(step) PROVE ChangesCounted'
  <2>1. WorkingTable /\ log' = Append(log, Effect(step))
    BY <1>1 DEF ApplyStep, RecipeTypeOK
  <2>2. Changed' = Changed + Effect(step).changed /\ Changed \in Nat /\ Effect(step).changed \in Nat
    BY <2>1, LogGrows, LogTallies, EffectType DEF Effects
  <2>3. Cardinality(Differing) \in Nat
    BY DifferingFinite
  <2>4. CASE step.kind \in Edits
    BY <1>1, <2>2, <2>3, <2>4, EditsCounted DEF ChangesCounted
  <2>5. CASE step.kind \notin Edits
    <3>1. Cardinality(Differing') \in Nat /\ Cardinality(Differing') <= Cardinality(Differing)
      BY <1>1, <2>5, NoNewDifference
    <3>. QED
      BY <2>2, <2>3, <3>1 DEF ChangesCounted
  <2>. QED
    BY <2>4, <2>5
<1>2. CASE UNCHANGED <<source, rows, columns, log, lineage>>
  BY <1>2 DEF ChangesCounted, Changed, Differing
<1>. QED
  BY <1>1, <1>2 DEF RecipeNext, Refuse, Finish, recipeVars

LEMMA ChangesCountedInit == RecipeInit => ChangesCounted
<1> SUFFICES ASSUME RecipeInit PROVE ChangesCounted
  OBVIOUS
<1>1. Changed = 0
  <2>1. log = <<>>
    BY DEF RecipeInit
  <2>2. [i \in DOMAIN log |-> log[i].changed] = <<>>
    BY <2>1
  <2>. QED
    BY <2>2, EmptyTally DEF Changed
<1>2. Differing = {}
  <2>1. \A i \in DOMAIN rows : lineage.rows[i] = i
    BY DEF RecipeInit
  <2>2. rows = source.rows /\ lineage.columns = columns
    BY DEF RecipeInit
  <2>. QED
    BY <2>1, <2>2 DEF Differing
<1>. QED
  BY <1>1, <1>2, FS_EmptySet DEF ChangesCounted

\* "A reviewer approving a new dataset version has to be able to defend each
\* change": for any tables and steps of which no renaming writes a name that it
\* has yet to read, every differing cell and every row that is gone is counted.
THEOREM LogAlwaysAccounts ==
  ASSUME NoNameReused
  PROVE  RecipeSpec => []LogAccounts
<1>1. RecipeSpec => [](RecipeTypeOK /\ BooksInv)
  BY TypeInit, TypeStep, BooksInit, BooksStep, PTL DEF RecipeSpec
<1>2. RecipeSpec => []ChangesCounted
  BY RecipeTyped, ChangesCountedInit, ChangesCountedStep, PTL DEF RecipeSpec
<1>3. BooksInv /\ ChangesCounted => LogAccounts
  BY DEF BooksInv, RowsAccounted, ChangesCounted, LogAccounts, Differing, Quantify
<1>. QED
  BY <1>1, <1>2, <1>3, PTL

-----------------------------------------------------------------------------
(* What is recommended without a decision is accepted, and settles.        *)

Settled(proposals) == {p.step : p \in {p \in proposals : ~p.decision}}

ProfileIn(table, n) == ColumnProfile(n, Column(table, n))
PresentIn(table, n) == Present(Column(table, n))

\* The repairs of one column that need no decision.
Wanted(step, n, p) ==
  /\ step.columns = <<n>>
  /\ \/ step.kind = "trim_whitespace" /\ (p.untrimmed > 0 \/ p.controls > 0)
     \/ step.kind = "collapse_whitespace" /\ p.doubled > 0
     \/ step.kind = "standardize_case" /\ step.case = "title" /\ p.variants > 0
     \/ step.kind = "cast_number" /\ p.type = "number_text"
     \/ /\ step.kind = "parse_date" /\ "format" \in DOMAIN step
        /\ step.format = p.format /\ p.format \notin {"none", "iso_date"}
     \/ step.kind = "drop_column"

LEMMA SuggestedSteps ==
  ASSUME NEW n, NEW p, NEW proposal \in Suggested(n, p), ~proposal.decision
  PROVE  Wanted(proposal.step, n, p)
<1> DEFINE on(kind) == [kind |-> kind, columns |-> <<n>>]
<1>1. \/ proposal = Proposal(on("trim_whitespace"), FALSE) /\ (p.untrimmed > 0 \/ p.controls > 0)
      \/ proposal = Proposal(on("collapse_whitespace"), FALSE) /\ p.doubled > 0
      \/ /\ proposal = Proposal([kind |-> "standardize_case", columns |-> <<n>>, case |-> "title"], FALSE)
         /\ p.variants > 0
      \/ proposal = Proposal(on("cast_number"), FALSE) /\ p.type = "number_text"
      \/ proposal = Proposal(on("parse_date"), TRUE)
      \/ /\ proposal = Proposal([kind |-> "parse_date", columns |-> <<n>>, format |-> p.format], p.ambiguous)
         /\ p.format \notin {"none", "iso_date"}
      \/ proposal = Proposal(on("drop_column"), FALSE)
  BY DEF Suggested
<1>. QED
  BY <1>1 DEF Wanted, Proposal

LEMMA SettledSteps ==
  ASSUME NEW table, NEW names, NEW step \in Settled(Recommended(table, names))
  PROVE  \/ /\ step.kind = "deduplicate" /\ step.columns = names /\ step.keep = "first"
            /\ DuplicateRows(table, names) > 0
         \/ \E n \in ToSet(names) : Wanted(step, n, ProfileIn(table, n))
<1>1. PICK proposal \in Recommended(table, names) : ~proposal.decision /\ step = proposal.step
  BY DEF Settled
<1>2. CASE \E n \in ToSet(names) : proposal \in Suggested(n, ColumnProfile(n, Column(table, n)))
  BY <1>1, <1>2, SuggestedSteps DEF ProfileIn
<1>3. CASE ~\E n \in ToSet(names) : proposal \in Suggested(n, ColumnProfile(n, Column(table, n)))
  <2> DEFINE dedupe(s) == [kind |-> "deduplicate", columns |-> s, keep |-> "first"]
             bycolumn == UNION {Suggested(n, ColumnProfile(n, Column(table, n))) : n \in ToSet(names)}
             torows == IF DuplicateRows(table, names) > 0 THEN {Proposal(dedupe(names), FALSE)}
                       ELSE IF DuplicateKeys(table, names) > 0
                       THEN {Proposal(dedupe(<<BusinessKey(names)>>), TRUE)} ELSE {}
  <2>1. Recommended(table, names) = torows \cup bycolumn
    BY DEF Recommended
  <2>2. proposal \notin bycolumn
    BY <1>3
  <2>. HIDE DEF bycolumn
  <2>3. proposal \in torows
    BY <2>1, <2>2
  <2>4. proposal = Proposal(dedupe(names), FALSE) /\ DuplicateRows(table, names) > 0
    BY <1>1, <2>3 DEF Proposal
  <2>. QED
    BY <1>1, <2>4 DEF Proposal
<1>. QED
  BY <1>2, <1>3

\* Where the parts of a profile come from.
LEMMA ProfileParts ==
  ASSUME NEW table, NEW n
  PROVE  LET p     == ProfileIn(table, n)
             cells == PresentIn(table, n)
         IN /\ p.untrimmed \in {0, Untrimmed(cells)} /\ p.doubled \in {0, Doubled(cells)}
            /\ p.controls \in {0, Controls(cells)} /\ p.variants \in {0, CaseVariants(cells)}
            /\ p.type = SemanticType(n, cells, DetectedFormat(cells))
            /\ p.format \in {"none", DetectedFormat(cells)}
  BY DEF ProfileIn, PresentIn, ColumnProfile, ProfileOf

LEMMA PresentCells ==
  ASSUME NEW table, NEW n, IsFiniteSet(DOMAIN table)
  PROVE  /\ \A i : i \in DOMAIN PresentIn(table, n) <=> i \in DOMAIN table /\ ~Absent(table[i][n])
         /\ \A i \in DOMAIN PresentIn(table, n) : PresentIn(table, n)[i] = table[i][n]
         /\ IsFiniteSet(DOMAIN PresentIn(table, n))
<1> DEFINE D == {i \in DOMAIN table : ~Absent(table[i][n])}
<1>1. PresentIn(table, n) = [i \in D |-> table[i][n]]
  <2>1. PresentIn(table, n) = [i \in {i \in DOMAIN Column(table, n) : ~Absent(Column(table, n)[i])}
                                 |-> Column(table, n)[i]]
    BY Filtered DEF PresentIn
  <2>. QED
    BY <2>1 DEF Column
<1>2. D \subseteq DOMAIN table
  OBVIOUS
<1>3. \A i : i \in D <=> i \in DOMAIN table /\ ~Absent(table[i][n])
  OBVIOUS
<1>. HIDE DEF D
<1>4. IsFiniteSet(D)
  BY <1>2, FS_Subset
<1>. QED
  BY <1>1, <1>3, <1>4

LEMMA NoneUntrimmed ==
  ASSUME NEW cells, \A i \in DOMAIN cells : cells[i] = Stripped(cells[i])
  PROVE  Untrimmed(cells) = 0
<1>1. Untrimmed(cells) = Cardinality({i \in DOMAIN cells : cells[i] # Stripped(cells[i])})
  BY DEF Untrimmed, Count, Quantify
<1>2. {i \in DOMAIN cells : cells[i] # Stripped(cells[i])} = {}
  OBVIOUS
<1>. QED
  BY <1>1, <1>2, FS_EmptySet

LEMMA NoneDoubled ==
  ASSUME NEW cells, \A i \in DOMAIN cells : ~(cells[i][1] = "word" /\ cells[i][4] = "inside")
  PROVE  Doubled(cells) = 0
<1>1. Doubled(cells) = Cardinality({i \in DOMAIN cells : cells[i][1] = "word" /\ cells[i][4] = "inside"})
  BY DEF Doubled, Count, Quantify
<1>2. {i \in DOMAIN cells : cells[i][1] = "word" /\ cells[i][4] = "inside"} = {}
  OBVIOUS
<1>. QED
  BY <1>1, <1>2, FS_EmptySet

LEMMA NoneControlled ==
  ASSUME NEW cells,
         \A i \in DOMAIN cells : ~(cells[i][1] = "word" /\ cells[i][4] \in {"control", "invisible"})
  PROVE  Controls(cells) = 0
<1> DEFINE control == {i \in DOMAIN cells : cells[i][1] = "word" /\ cells[i][4] \in {"control", "invisible"}}
<1>1. Controls(cells) = Cardinality(control)
  BY DEF Controls, Count, Quantify
<1>2. control = {}
  OBVIOUS
<1>. QED
  BY <1>1, <1>2, FS_EmptySet

\* Words in one case have no variants.
LEMMA NoVariants ==
  ASSUME NEW cells, \A i \in DOMAIN cells : cells[i] \in Cells /\ (cells[i][1] = "word" => cells[i][3] = "title")
  PROVE  CaseVariants(cells) = 0
<1> DEFINE texts == {Stripped(cells[i]) : i \in {i \in DOMAIN cells : IsText(cells[i])}}
           varied == {d \in texts : \E e \in texts : e # d /\ Folded(e) = Folded(d)}
<1>1. \A d \in texts : /\ d[1] = "word" => d = <<"word", d[2], "title", d[4]>>
                       /\ Folded(d) = IF d[1] = "word" THEN <<"word", d[2], d[4]>> ELSE d
  <2> SUFFICES ASSUME NEW c \in Cells, c[1] = "word" => c[3] = "title", NEW d, d = Stripped(c)
               PROVE  /\ d[1] = "word" => d = <<"word", d[2], "title", d[4]>>
                      /\ Folded(d) = IF d[1] = "word" THEN <<"word", d[2], d[4]>> ELSE d
    OBVIOUS
  <2>1. CASE c[1] = "word" /\ c[4] = "ends"
    <3>1. d = <<"word", c[2], "title", "none">>
      BY <2>1 DEF Stripped
    <3>2. Stripped(d) = d
      BY <3>1 DEF Stripped
    <3>. QED
      BY <3>1, <3>2 DEF Folded
  <2>2. CASE c[1] = "word" /\ c[4] # "ends"
    <3>1. d = c /\ Stripped(d) = d /\ c = <<"word", c[2], c[3], c[4]>>
      BY <2>2, CellForms DEF Stripped
    <3>. QED
      BY <2>2, <3>1 DEF Folded
  <2>3. CASE c[1] # "word"
    <3>1. d[1] # "word"
      BY <2>3 DEF Stripped, Empty
    <3>. QED
      BY <3>1 DEF Folded
  <2>. QED
    BY <2>1, <2>2, <2>3
<1>. HIDE DEF texts
<1>2. \A d, e \in texts : Folded(e) = Folded(d) => e = d
  <2> SUFFICES ASSUME NEW d \in texts, NEW e \in texts, Folded(e) = Folded(d) PROVE e = d
    OBVIOUS
  <2>1. CASE d[1] = "word" /\ e[1] = "word"
    <3>1. <<"word", d[2], d[4]>> = <<"word", e[2], e[4]>>
      BY <1>1, <2>1
    <3>2. d[2] = e[2] /\ d[4] = e[4]
      BY <3>1
    <3>3. d = <<"word", d[2], "title", d[4]>> /\ e = <<"word", e[2], "title", e[4]>>
      BY <1>1, <2>1
    <3>. QED
      BY <3>2, <3>3
  <2>2. CASE d[1] # "word" /\ e[1] # "word"
    BY <1>1, <2>2
  <2>3. CASE d[1] # "word" /\ e[1] = "word"
    BY <1>1, <2>3
  <2>4. CASE d[1] = "word" /\ e[1] # "word"
    BY <1>1, <2>4
  <2>. QED
    BY <2>1, <2>2, <2>3, <2>4
<1>3. {Folded(c) : c \in varied} = {}
  BY <1>2
<1>4. CaseVariants(cells) = Cardinality({Folded(c) : c \in varied})
  BY DEF CaseVariants, texts
<1>. QED
  BY <1>3, <1>4, FS_EmptySet

\* What a step on one column makes of it.
LEMMA OneColumn ==
  ASSUME WorkingTable, NEW step, NEW n \in ToSet(columns), step.columns = <<n>>
  PROVE  /\ n \in Names /\ Selected(step) = {n}
         /\ step.kind \in Edits =>
              /\ DOMAIN RowsAfter(step) = DOMAIN rows
              /\ \A i \in DOMAIN rows : RowsAfter(step)[i][n] = Edited(step, n, rows[i][n])
         /\ IsFiniteSet(DOMAIN rows) /\ \A i \in DOMAIN rows : rows[i][n] \in Cells
<1>1. n \in Names
  BY DEF WorkingTable, ToSet
<1>2. Selected(step) = {n}
  BY DEF Selected, ToSet
<1>3. step.kind \in Edits =>
        /\ DOMAIN RowsAfter(step) = DOMAIN rows
        /\ \A i \in DOMAIN rows : RowsAfter(step)[i][n] = Edited(step, n, rows[i][n])
  BY <1>1, <1>2 DEF RowsAfter
<1>. QED
  BY <1>1, <1>2, <1>3, ColumnCells

LEMMA CastSettles ==
  ASSUME WorkingTable, NEW step, NEW n \in ToSet(columns), step.columns = <<n>>, step.kind = "cast_number",
         ProfileIn(rows, n).type = "number_text", ProfileIn(RowsAfter(step), n).type = "number_text"
  PROVE  Effect(step).unresolved > 0
<1> DEFINE table == RowsAfter(step)
           cells == PresentIn(table, n)
           touched == (DOMAIN rows) \X Selected(step)
           U == {t \in touched : Unresolved(step, rows[t[1]][t[2]])}
<1>1. /\ Selected(step) = {n} /\ DOMAIN table = DOMAIN rows /\ IsFiniteSet(DOMAIN rows)
      /\ \A i \in DOMAIN rows : rows[i][n] \in Cells /\ table[i][n] = Edited(step, n, rows[i][n])
  BY OneColumn DEF Edits
<1>2. IsFiniteSet(U)
  <2>1. IsFiniteSet(touched)
    BY <1>1, FS_Singleton, FS_Product
  <2>2. U \subseteq touched
    OBVIOUS
  <2>. HIDE DEF U, touched
  <2>. QED
    BY <2>1, <2>2, FS_Subset
<1>3. Effect(step).unresolved = Cardinality(U)
  BY DEF Effect, Quantify
<1>4. SUFFICES ASSUME U = {} PROVE FALSE
  <2>. HIDE DEF U
  <2>1. U # {} => Cardinality(U) \in Nat /\ Cardinality(U) # 0
    BY <1>2, FS_CardinalityType, FS_EmptySet
  <2>. QED
    BY <1>3, <2>1
<1>5. \A i \in DOMAIN rows : Missing(rows[i][n]) \/ Coerces(rows[i][n])
  <2> SUFFICES ASSUME NEW i \in DOMAIN rows PROVE Missing(rows[i][n]) \/ Coerces(rows[i][n])
    OBVIOUS
  <2>1. <<i, n>> \notin U /\ <<i, n>> \in touched
    BY <1>1, <1>4
  <2>2. ~Unresolved(step, rows[i][n])
    BY <2>1
  <2>. QED
    BY <2>2 DEF Unresolved
<1>6. \A i \in DOMAIN rows : Missing(table[i][n]) \/ Reads(table[i][n])
  <2> SUFFICES ASSUME NEW i \in DOMAIN rows PROVE Missing(table[i][n]) \/ Reads(table[i][n])
    OBVIOUS
  <2>1. table[i][n] = IF Coerces(rows[i][n]) THEN <<"number", Number(rows[i][n])>> ELSE rows[i][n]
    BY <1>1 DEF Edited
  <2>. QED
    BY <1>5, <2>1 DEF Reads
<1>. HIDE DEF table
<1>7. IsFiniteSet(DOMAIN cells) /\ \A i \in DOMAIN cells : Reads(cells[i])
  BY <1>1, <1>6, PresentCells DEF Absent
<1>. HIDE DEF cells
<1>8. Count(cells, Reads) = Size(cells)
  <2>1. {i \in DOMAIN cells : Reads(cells[i])} = DOMAIN cells
    BY <1>7
  <2>. QED
    BY <2>1 DEF Count, Quantify, Size
<1>9. Size(cells) \in Nat
  BY <1>7, FS_CardinalityType DEF Size
<1>10. \A format : SemanticType(n, cells, format) # "number_text"
  BY <1>8, <1>9 DEF SemanticType
<1>. QED
  BY <1>10, ProfileParts DEF cells, table

\* A parsed date no longer has the format it was read in, unless that is ISO 8601.
LEMMA DatesSettle ==
  ASSUME WorkingTable, NEW step, NEW n \in ToSet(columns), step.columns = <<n>>, step.kind = "parse_date",
         "format" \in DOMAIN step, step.format \notin {"none", "iso_date", "iso_datetime"}
  PROVE  ProfileIn(RowsAfter(step), n).format # step.format
<1> DEFINE table == RowsAfter(step)
           cells == PresentIn(table, n)
           texts == Given(cells)
<1>1. /\ DOMAIN table = DOMAIN rows /\ IsFiniteSet(DOMAIN rows)
      /\ \A i \in DOMAIN rows : table[i][n] = Edited(step, n, rows[i][n])
  BY OneColumn DEF Edits
<1>2. \A i \in DOMAIN rows : ~Fits(table[i][n], step.format)
  <2> SUFFICES ASSUME NEW i \in DOMAIN rows PROVE ~Fits(table[i][n], step.format)
    OBVIOUS
  <2>1. table[i][n] = IF Fits(rows[i][n], step.format) THEN DateOf(rows[i][n], step.format) ELSE rows[i][n]
    BY <1>1 DEF Edited, FormatOf
  <2>2. CASE Fits(rows[i][n], step.format)
    <3>1. step.format \in {"iso_datetime_space", "dmy_slash", "mdy_slash", "year"}
      BY <2>2, FormatsFit
    <3>2. DateOf(rows[i][n], step.format)[1] = IF step.format = "iso_datetime_space" THEN "stamp" ELSE "iso"
      BY <3>1 DEF DateOf
    <3>3. table[i][n][1] \in {"stamp", "iso"} /\ (step.format # "iso_datetime_space" => table[i][n][1] = "iso")
      BY <2>1, <2>2, <3>2
    <3>. QED
      BY <3>1, <3>3, FormatsFit
  <2>. QED
    BY <2>1, <2>2
<1>. HIDE DEF table
<1>3. IsFiniteSet(DOMAIN cells) /\ \A i \in DOMAIN cells : ~Fits(cells[i], step.format)
  BY <1>1, <1>2, PresentCells
<1>. HIDE DEF cells
<1>4. /\ DOMAIN texts \subseteq DOMAIN cells
      /\ \A i \in DOMAIN texts : texts[i] = cells[i]
  <2>1. texts = [i \in {i \in DOMAIN cells : ~Missing(cells[i])} |-> cells[i]]
    BY Filtered
  <2>. QED
    BY <2>1
<1>. HIDE DEF texts
<1>5. Matching(texts, step.format) = 0
  <2>1. {i \in DOMAIN texts : Fits(texts[i], step.format)} = {}
    BY <1>3, <1>4
  <2>2. Matching(texts, step.format) = Cardinality({i \in DOMAIN texts : Fits(texts[i], step.format)})
    BY DEF Matching, Count, Quantify
  <2>. QED
    BY <2>1, <2>2, FS_EmptySet
<1> DEFINE share == (6 * Size(texts)) \div 10
<1>6. Max({1, share}) \in Int /\ Max({1, share}) >= 1
  <2>1. Size(texts) \in Nat
    BY <1>3, <1>4, FS_Subset, FS_CardinalityType DEF Size
  <2>2. share \in Int
    BY <2>1
  <2>. HIDE DEF share
  <2>3. 1 \in Int
    OBVIOUS
  <2>. QED
    BY <2>2, <2>3, GreaterOfTwo
<1>7. DetectedFormat(cells) # step.format
  <2> DEFINE first == Formats[Min({i \in DOMAIN Formats : \A j \in DOMAIN Formats :
                                     Matching(texts, Formats[j]) <= Matching(texts, Formats[i])})]
  <2>1. DetectedFormat(cells) = IF Matching(texts, first) >= Max({1, share}) THEN first ELSE "none"
    BY DEF DetectedFormat, texts
  <2>. HIDE DEF first, share
  <2>2. first = step.format => ~(Matching(texts, first) >= Max({1, share}))
    BY <1>5, <1>6
  <2>. QED
    BY <2>1, <2>2
<1>. QED
  BY <1>7, ProfileParts DEF cells, table

\* A text operation on a cell leaves nothing for a second one to do, but for
\* a control character inside a word.
LEMMA TrimmedOnce ==
  ASSUME NEW c, NEW d, d = Trimmed(c)
  PROVE  /\ d = Stripped(d)
         /\ ~(c[1] = "word" /\ c[4] = "control")
              => ~(d[1] = "word" /\ d[4] \in {"control", "invisible"})
<1>1. CASE c[1] = "word" /\ c[4] \in {"ends", "invisible"}
  <2>1. d = <<"word", c[2], c[3], "none">>
    BY <1>1 DEF Trimmed, Stripped
  <2>. QED
    BY <2>1 DEF Stripped
<1>2. CASE c[1] = "blank"
  <2>1. d = <<"empty">>
    BY <1>2 DEF Trimmed, Stripped, Empty
  <2>. QED
    BY <2>1 DEF Stripped
<1>3. CASE ~(c[1] = "word" /\ c[4] \in {"ends", "invisible"}) /\ c[1] # "blank"
  <2>1. d = c
    BY <1>3 DEF Trimmed, Stripped
  <2>. QED
    BY <1>3, <2>1 DEF Stripped
<1>. QED
  BY <1>1, <1>2, <1>3

LEMMA CollapsedOnce ==
  ASSUME NEW c, NEW d, d = Collapsed(c)
  PROVE  ~(d[1] = "word" /\ d[4] = "inside")
<1>1. CASE c[1] = "word" /\ c[4] \in {"ends", "inside", "invisible"}
  <2>1. d = <<"word", c[2], c[3], "none">>
    BY <1>1 DEF Collapsed, Trimmed, Stripped
  <2>. QED
    BY <2>1
<1>2. CASE c[1] = "blank"
  <2>1. d = <<"empty">>
    BY <1>2 DEF Collapsed, Trimmed, Stripped, Empty
  <2>. QED
    BY <2>1
<1>3. CASE ~(c[1] = "word" /\ c[4] \in {"ends", "inside", "invisible"}) /\ c[1] # "blank"
  <2>1. d = c
    BY <1>3 DEF Collapsed, Trimmed, Stripped
  <2>. QED
    BY <1>3, <2>1
<1>. QED
  BY <1>1, <1>2, <1>3

LEMMA TitledOnce ==
  ASSUME NEW c \in Cells, NEW d, d = IF c[1] = "word" THEN <<"word", c[2], "title", c[4]>> ELSE c
  PROVE  d \in Cells /\ (d[1] = "word" => d[3] = "title")
<1>1. CASE c[1] = "word"
  <2>1. d = <<"word", c[2], "title", c[4]>>
    BY <1>1
  <2>2. c[2] \in STRING /\ c[4] \in Pads
    BY <1>1, CellForms
  <2>3. "title" \in Cases
    BY DEF Cases
  <2>4. d \in Cells
    BY <2>1, <2>2, <2>3, CellsMade
  <2>. QED
    BY <2>1, <2>4
<1>2. CASE c[1] # "word"
  BY <1>2
<1>. QED
  BY <1>1, <1>2

LEMMA TextSettles ==
  ASSUME WorkingTable, NEW step, NEW n \in ToSet(columns), step.columns = <<n>>
  PROVE  LET p == ProfileIn(RowsAfter(step), n)
         IN /\ step.kind = "trim_whitespace" /\ ~Stuck(step) => ~(p.untrimmed > 0 \/ p.controls > 0)
            /\ step.kind = "collapse_whitespace" => ~(p.doubled > 0)
            /\ step.kind = "standardize_case" /\ step.case = "title" => ~(p.variants > 0)
<1> DEFINE table == RowsAfter(step)
           cells == PresentIn(table, n)
<1>1. /\ IsFiniteSet(DOMAIN rows)
      /\ \A i \in DOMAIN rows : rows[i][n] \in Cells
      /\ step.kind \in Edits => /\ DOMAIN table = DOMAIN rows
                                /\ \A i \in DOMAIN rows : table[i][n] = Edited(step, n, rows[i][n])
  BY OneColumn
<1>2. ASSUME step.kind = "trim_whitespace", ~Stuck(step) PROVE Untrimmed(cells) = 0 /\ Controls(cells) = 0
  <2>1. \A i \in DOMAIN rows : table[i][n] = Trimmed(rows[i][n])
    BY <1>1, <1>2 DEF Edited, Edits
  <2>2. \A i \in DOMAIN rows : ~(rows[i][n][1] = "word" /\ rows[i][n][4] = "control")
    BY <1>2, OneColumn DEF Stuck
  <2>3. \A i \in DOMAIN rows : /\ table[i][n] = Stripped(table[i][n])
                               /\ ~(table[i][n][1] = "word" /\ table[i][n][4] \in {"control", "invisible"})
    <3>. HIDE DEF table
    <3>. QED
      BY <2>1, <2>2, TrimmedOnce
  <2>4. DOMAIN table = DOMAIN rows
    BY <1>1, <1>2 DEF Edits
  <2>. HIDE DEF table
  <2>5. \A i \in DOMAIN cells : /\ cells[i] = Stripped(cells[i])
                               /\ ~(cells[i][1] = "word" /\ cells[i][4] \in {"control", "invisible"})
    BY <1>1, <2>3, <2>4, PresentCells
  <2>. QED
    BY <2>5, NoneUntrimmed, NoneControlled
<1>3. ASSUME step.kind = "collapse_whitespace" PROVE Doubled(cells) = 0
  <2>1. \A i \in DOMAIN rows : table[i][n] = Collapsed(rows[i][n])
    BY <1>1, <1>3 DEF Edited, Edits
  <2>2. \A i \in DOMAIN rows : ~(table[i][n][1] = "word" /\ table[i][n][4] = "inside")
    BY <2>1, CollapsedOnce
  <2>3. DOMAIN table = DOMAIN rows
    BY <1>1, <1>3 DEF Edits
  <2>. HIDE DEF table
  <2>4. \A i \in DOMAIN cells : ~(cells[i][1] = "word" /\ cells[i][4] = "inside")
    BY <1>1, <2>2, <2>3, PresentCells
  <2>. QED
    BY <2>4, NoneDoubled
<1>4. ASSUME step.kind = "standardize_case", step.case = "title" PROVE CaseVariants(cells) = 0
  <2>1. \A i \in DOMAIN rows : table[i][n] = IF rows[i][n][1] = "word"
                                             THEN <<"word", rows[i][n][2], "title", rows[i][n][4]>>
                                             ELSE rows[i][n]
    BY <1>1, <1>4 DEF Edited, Edits
  <2>2. \A i \in DOMAIN rows : table[i][n] \in Cells /\ (table[i][n][1] = "word" => table[i][n][3] = "title")
    BY <1>1, <2>1, TitledOnce
  <2>3. DOMAIN table = DOMAIN rows
    BY <1>1, <1>4 DEF Edits
  <2>. HIDE DEF table
  <2>4. \A i \in DOMAIN cells : cells[i] \in Cells /\ (cells[i][1] = "word" => cells[i][3] = "title")
    BY <1>1, <2>2, <2>3, PresentCells
  <2>. QED
    BY <2>4, NoVariants
<1>. QED
  BY <1>2, <1>3, <1>4, ProfileParts

\* Without the repeated rows none is repeated.
LEMMA DuplicatesSettle ==
  ASSUME WorkingTable, NEW step, step.kind = "deduplicate", step.columns = columns, step.keep = "first"
  PROVE  /\ ColumnsAfter(step) = columns
         /\ DuplicateRows(RowsAfter(step), columns) = 0
<1> DEFINE kept == Kept(step)
           order == Places(kept)
           m == Cardinality(kept)
           same(r, s) == \A n \in ToSet(columns) : Text(r[n]) = Text(s[n])
<1>1. ColumnsAfter(step) = columns
  <2>1. ColumnsAfter(step) = Restricted(columns, DOMAIN columns) /\ columns \in Seq(Names)
    BY StayingColumns DEF ColumnsAfter, WorkingTable
  <2>. QED
    BY <2>1, RestrictedList
<1>2. /\ rows \in Seq([Names -> Cells]) /\ kept \in SUBSET (DOMAIN rows)
      /\ DOMAIN rows = 1..Len(rows) /\ Len(rows) \in Nat
  BY KeptRows DEF WorkingTable
<1>3. RowsAfter(step) = Restricted(rows, kept)
  BY DEF RowsAfter, Edits
<1>4. /\ DOMAIN RowsAfter(step) = 1..m
      /\ \A k \in 1..m : order[k] \in kept /\ RowsAfter(step)[k] = rows[order[k]]
  BY <1>2, <1>3, RestrictedList
<1>5. \A a, b \in 1..m : a < b => order[a] < order[b]
  BY <1>2, PlacesList
<1>6. \A i \in kept : \A j \in 1..(i - 1) : ~same(rows[i], rows[j])
  BY DEF Kept, Selected
<1>7. ASSUME NEW i \in 1..m, NEW j \in 1..m, j < i, same(RowsAfter(step)[i], RowsAfter(step)[j]) PROVE FALSE
  <2>1. order[i] \in kept /\ order[j] \in kept /\ order[j] < order[i]
    BY <1>4, <1>5, <1>7
  <2>2. order[j] \in 1..(order[i] - 1)
    BY <1>2, <2>1
  <2>3. same(rows[order[i]], rows[order[j]])
    BY <1>4, <1>7
  <2>. HIDE DEF order, kept, same
  <2>. QED
    BY <1>6, <2>1, <2>2, <2>3
<1>8. Repeated(RowsAfter(step), ToSet(columns)) = {}
  <2> DEFINE table == RowsAfter(step)
  <2>1. Repeated(table, ToSet(columns))
          = {i \in DOMAIN table : \E j \in DOMAIN table : j < i /\ same(table[i], table[j])}
    BY DEF Repeated
  <2>. HIDE DEF same, table, m
  <2>. QED
    BY <1>4, <1>7, <2>1 DEF table
<1>. QED
  BY <1>1, <1>8, FS_EmptySet DEF DuplicateRows

\* A column that is dropped is not there any more.
LEMMA DroppedIsGone ==
  ASSUME WorkingTable, NEW step, step.kind = "drop_column", NEW n \in Selected(step)
  PROVE  n \notin ToSet(ColumnsAfter(step))
<1>1. columns \in Seq(Names) /\ Staying(step) \in SUBSET (DOMAIN columns)
  BY StayingColumns DEF WorkingTable
<1>2. ColumnsAfter(step) = Restricted(columns, Staying(step))
  BY DEF ColumnsAfter
<1>3. \A k \in DOMAIN ColumnsAfter(step) : \E j \in Staying(step) : ColumnsAfter(step)[k] = columns[j]
  BY <1>1, <1>2, RestrictedList
<1>. QED
  BY <1>3, StayingColumns DEF ToSet

\* A repair of one column is accepted and settles.
LEMMA RepairSettles ==
  ASSUME WorkingTable, NEW step, NEW n \in ToSet(columns), Wanted(step, n, ProfileIn(rows, n))
  PROVE  /\ Accepts(step)
         /\ \/ step \notin Settled(Recommended(RowsAfter(step), ColumnsAfter(step)))
            \/ Stuck(step)
<1> DEFINE q == ProfileIn(RowsAfter(step), n)
<1>1. step.columns = <<n>> /\ Selected(step) = {n}
  BY OneColumn DEF Wanted
<1>2. \/ step.kind \in {"trim_whitespace", "collapse_whitespace", "cast_number", "drop_column"}
      \/ step.kind = "standardize_case" /\ step.case = "title"
      \/ /\ step.kind = "parse_date" /\ "format" \in DOMAIN step
         /\ step.format \notin {"none", "iso_date"}
  BY DEF Wanted
<1>3. Accepts(step)
  BY <1>1, <1>2 DEF Accepts
<1>4. ASSUME step \in Settled(Recommended(RowsAfter(step), ColumnsAfter(step)))
      PROVE  n \in ToSet(ColumnsAfter(step)) /\ Wanted(step, n, q)
  <2>1. step.kind # "deduplicate"
    BY <1>2
  <2>2. PICK m \in ToSet(ColumnsAfter(step)) : Wanted(step, m, ProfileIn(RowsAfter(step), m))
    BY <1>4, <2>1, SettledSteps
  <2>3. m = n
    BY <1>1, <2>2 DEF Wanted
  <2>. QED
    BY <2>2, <2>3
<1>5. SUFFICES ASSUME n \in ToSet(ColumnsAfter(step)), Wanted(step, n, q)
               PROVE  Stuck(step)
  BY <1>3, <1>4
<1>6. CASE step.kind = "drop_column"
  BY <1>1, <1>5, <1>6, DroppedIsGone
<1>7. CASE step.kind = "cast_number"
  <2>1. ProfileIn(rows, n).type = "number_text" /\ q.type = "number_text"
    BY <1>5, <1>7 DEF Wanted
  <2>. QED
    BY <1>1, <1>7, <2>1, CastSettles DEF Stuck
<1>8. CASE step.kind = "parse_date"
  <2>1. q.format = step.format
    BY <1>5, <1>8 DEF Wanted
  <2>2. step.format = "iso_datetime"
    BY <1>1, <1>2, <1>8, <2>1, DatesSettle
  <2>. QED
    BY <1>2, <1>8, <2>2 DEF FormatOf, Stuck
<1>9. CASE step.kind \in {"trim_whitespace", "collapse_whitespace", "standardize_case"}
  <2>1. \/ step.kind = "trim_whitespace" /\ (q.untrimmed > 0 \/ q.controls > 0)
        \/ step.kind = "collapse_whitespace" /\ q.doubled > 0
        \/ step.kind = "standardize_case" /\ step.case = "title" /\ q.variants > 0
    BY <1>5, <1>9 DEF Wanted
  <2>2. /\ step.kind = "trim_whitespace" /\ ~Stuck(step) => ~(q.untrimmed > 0 \/ q.controls > 0)
        /\ step.kind = "collapse_whitespace" => ~(q.doubled > 0)
        /\ step.kind = "standardize_case" /\ step.case = "title" => ~(q.variants > 0)
    BY <1>1, TextSettles
  <2>. QED
    BY <2>1, <2>2
<1>. QED
  BY <1>2, <1>6, <1>7, <1>8, <1>9

\* So is the removal of the repeated rows.
LEMMA DeduplicationSettles ==
  ASSUME WorkingTable, columns # <<>>, NEW step,
         step.kind = "deduplicate", step.columns = columns, step.keep = "first"
  PROVE  /\ Accepts(step)
         /\ step \notin Settled(Recommended(RowsAfter(step), ColumnsAfter(step)))
<1>1. Accepts(step)
  BY DEF Accepts, Selected
<1>2. ASSUME step \in Settled(Recommended(RowsAfter(step), ColumnsAfter(step))) PROVE FALSE
  <2>1. ~\E n \in ToSet(ColumnsAfter(step)) : Wanted(step, n, ProfileIn(RowsAfter(step), n))
    BY DEF Wanted
  <2>2. DuplicateRows(RowsAfter(step), ColumnsAfter(step)) > 0
    BY <1>2, <2>1, SettledSteps
  <2>. QED
    BY <2>2, DuplicatesSettle
<1>. QED
  BY <1>1, <1>2

\* The repairs that the profile of the working copy recommends and that need
\* no decision are accepted by the recipe, and a profile of what they make of
\* the table does not recommend them again, but for the steps that are stuck
\* (_suggest in profiling.py and _apply_step in cleaning.py agree on the rest).
THEOREM RecommendationsAlwaysSettle == RecipeSpec => []RecommendationsSettle
<1>1. RecipeTypeOK => RecommendationsSettle
  <2> SUFFICES ASSUME WorkingTable, columns # <<>>, NEW step \in Settled(Recommended(rows, columns))
               PROVE  /\ Accepts(step)
                      /\ \/ step \notin Settled(Recommended(RowsAfter(step), ColumnsAfter(step)))
                         \/ Stuck(step)
    BY DEF RecommendationsSettle, Settled, RecipeTypeOK
  <2>1. CASE \E n \in ToSet(columns) : Wanted(step, n, ProfileIn(rows, n))
    BY <2>1, RepairSettles
  <2>2. CASE step.kind = "deduplicate" /\ step.columns = columns /\ step.keep = "first"
    BY <2>2, DeduplicationSettles
  <2>. QED
    BY <2>1, <2>2, SettledSteps
<1>. QED
  BY <1>1, RecipeTyped, PTL
=============================================================================
