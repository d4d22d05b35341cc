------------------------------- MODULE Profiling -------------------------------
(***************************************************************************)
(* The deterministic profile of a table (profiling.py): how each cell      *)
(* reads, what a column is taken to hold, how well formed the table is and *)
(* which repairs are proposed.  Module CleaningRecipe applies the repairs. *)
(*                                                                         *)
(* A cell is one of a few shapes of value that the readers of the code     *)
(* tell apart:                                                             *)
(*   <<"none">>, <<"empty">>, <<"blank">>    null, "", white space only    *)
(*   <<"number", n>>                         a stored number               *)
(*   <<"digits", n>>, <<"arabic", n>>        text that float() reads       *)
(*   <<"money", n>>                          text coerce_number repairs    *)
(*   <<"true">>, <<"false">>                 a stored boolean              *)
(*   <<"list">>                              a stored list or object       *)
(*   <<"iso", d, m>>, <<"slash", a, b>>      date texts (days below 29)    *)
(*   <<"stamp", d, m>>, <<"spaced", d, m>>   dates with a time of day, the *)
(*                                           two joined by T or by a space *)
(*   <<"word", w, case, pad>>                any other text                *)
(* The months of a date are counted through the years: 12 y + k is month k *)
(* of year y, and 1..12 are those of the year of the slash dates.  A word  *)
(* has at most one anomaly, its pad: white space around it ("ends") or     *)
(* doubled in it ("inside"), a control character in it ("control", which   *)
(* str.strip and the repairs leave) or an invisible one ("invisible").     *)
(* Letters whose cases do not match one to one, the ".0" in the text of a  *)
(* float, the texts of booleans and lists, e-mail addresses, telephone     *)
(* numbers and the hours are left out, as are examples and the statistics  *)
(* that decide nothing.                                                    *)
(***************************************************************************)
EXTENDS Integers, Sequences, FiniteSets, FiniteSetsExt, SequencesExt

CONSTANT Identifiers   \* column names that follow the identifier convention

None  == <<"none">>
Empty == <<"empty">>

Cases == {"lower", "upper", "title"}
Pads  == {"none", "ends", "inside", "control", "invisible"}
Cells == {None, Empty, <<"blank">>, <<"true">>, <<"false">>, <<"list">>}
         \cup ({"number", "digits", "arabic", "money"} \X Int)
         \cup ({"iso", "slash", "stamp", "spaced"} \X Nat \X Nat)
         \cup ({"word"} \X STRING \X Cases \X Pads)

\* str(): it tells any two cells apart, but a number from its digits.
Text(c) == IF c[1] = "number" THEN <<"digits", c[2]>> ELSE c

IsText(c)  == c[1] \in {"empty", "blank", "digits", "arabic", "money",
                       "iso", "slash", "stamp", "spaced", "word"}
Missing(c) == c \in {None, Empty}          \* the missing cells of a recipe
Absent(c)  == Missing(c) \/ c[1] = "blank" \* those of a profile

-----------------------------------------------------------------------------
(* Reading one cell.                                                       *)

\* as_number: what float() accepts, and no boolean.
Reads(c) == c[1] \in {"number", "digits", "arabic"}

\* coerce_number also repairs notations.  (0 stands for an unreadable cell.)
Coerces(c) == Reads(c) \/ c[1] = "money"
Number(c)  == IF Coerces(c) THEN c[2] ELSE 0

\* coerce_boolean: a table of words, which has no Arabic-Indic digits.
BooleanOf(c) ==
  CASE c \in {<<"true">>, <<"digits", 1>>}  -> TRUE
    [] c \in {<<"false">>, <<"digits", 0>>} -> FALSE
    [] c[1] = "word" -> c[2] = "yes"

IsBoolean(c) ==
  \/ c[1] \in {"true", "false"}
  \/ c[1] = "digits" /\ c[2] \in {0, 1}
  \/ c[1] = "word" /\ c[2] \in {"yes", "no"} /\ c[4] \in {"none", "ends"}

\* The known date formats, in the order they are tried.  (Six more, with
\* other separators or the name of the month, read as the slash dates do.)
Formats == <<"iso_datetime", "iso_datetime_space", "iso_date", "dmy_slash", "mdy_slash">>

\* A step may name a pattern of its own: "year" stands for %Y.
Fits(c, format) ==
  \/ c[1] = "stamp" /\ format = "iso_datetime"
  \/ c[1] = "spaced" /\ format = "iso_datetime_space"
  \/ c[1] = "iso" /\ format = "iso_date"
  \/ c[1] = "slash" /\ format = "dmy_slash" /\ c[3] <= 12
  \/ c[1] = "slash" /\ format = "mdy_slash" /\ c[2] <= 12
  \/ Reads(c) /\ format = "year" /\ c[2] \in 1000..9999

\* isoformat: a date with a time of day keeps it.
DateOf(c, format) ==
  CASE format \in {"iso_datetime", "iso_date"} -> c
    [] format = "iso_datetime_space" -> <<"stamp", c[2], c[3]>>
    [] format = "dmy_slash" -> <<"iso", c[2], c[3]>>
    [] format = "mdy_slash" -> <<"iso", c[3], c[2]>>
    [] format = "year"      -> <<"iso", 1, 12 * c[2] + 1>>

-----------------------------------------------------------------------------
(* Reading a column: a function from positions to cells.  The cells that   *)
(* are left when others are set aside keep their positions.                *)

Size(cells)        == Cardinality(DOMAIN cells)
Count(cells, P(_)) == Quantify(DOMAIN cells, LAMBDA i : P(cells[i]))

Tally(f)       == FoldFunction(+, 0, f)
CellSum(cells) == Tally([i \in DOMAIN cells |-> Number(cells[i])])

Given(cells)   == RestrictValues(cells, LAMBDA c : ~Missing(c))
Present(cells) == RestrictValues(cells, LAMBDA c : ~Absent(c))

Matching(cells, format) == Count(cells, LAMBDA c : Fits(c, format))

\* detect_date_format: the first of the formats that fit most, if it fits 60 %;
\* "none" otherwise.
DetectedFormat(cells) ==
  LET texts == Given(cells)
      best  == {i \in DOMAIN Formats : \A j \in DOMAIN Formats :
                  Matching(texts, Formats[j]) <= Matching(texts, Formats[i])}
      first == Formats[Min(best)]
      need  == Max({1, (6 * Size(texts)) \div 10})
  IN IF Matching(texts, first) >= need THEN first ELSE "none"

\* Every slash date fits both orders.
Ambiguous(cells) ==
  LET slashes == {i \in DOMAIN cells : cells[i][1] = "slash"}
  IN /\ DetectedFormat(cells) \in {"dmy_slash", "mdy_slash"}
     /\ slashes # {}
     /\ \A i \in slashes : cells[i][2] <= 12 /\ cells[i][3] <= 12

\* classify_date_values: the format of each cell is the first that fits.
FormatsFound(cells) ==
  {Formats[i] : i \in {i \in DOMAIN Formats : \E k \in DOMAIN cells :
     Fits(cells[k], Formats[i]) /\ \A j \in 1..(i - 1) : ~Fits(cells[k], Formats[j])}}

AmbiguousCells(cells) ==
  Count(cells, LAMBDA c : c[1] = "slash" /\ c[2] <= 12 /\ c[3] <= 12)

Mostly(n, cells) == 10 * n >= 9 * Size(cells)

\* _semantic_type, of the present cells of a column whose date format is detected.
SemanticType(name, cells, format) ==
  LET distinct == Cardinality({Text(cells[i]) : i \in DOMAIN cells})
      limit    == Max({2, Min({50, Size(cells) \div 5})})
  IN CASE Size(cells) = 0 -> "empty"
       [] Size(cells) > 0 /\ name \in Identifiers -> "identifier"
       [] OTHER ->
          IF Count(cells, IsBoolean) = Size(cells) THEN "boolean"
          ELSE IF format # "none" /\ Mostly(Matching(cells, format), cells) THEN "date"
          ELSE IF Count(cells, Reads) = Size(cells) THEN "number"
          ELSE IF Mostly(Count(cells, Coerces), cells) THEN "number_text"
          ELSE IF distinct <= limit /\ distinct < Size(cells) THEN "categorical"
          ELSE "text"

\* Four times the quantile k/4 of a sorted sequence, interpolated.
Quartile(sorted, k) ==
  LET p == k * (Len(sorted) - 1)
      o == sorted[p \div 4 + 1]
  IN IF p % 4 = 0 THEN 4 * o ELSE 4 * o + (sorted[p \div 4 + 2] - o) * (p % 4)

\* The k-th number is the least that k cells do not exceed.
Sorted(cells) ==
  LET upto(n) == Count(cells, LAMBDA c : Number(c) <= n)
  IN [k \in 1..Size(cells) |-> Min({n \in {Number(cells[i]) : i \in DOMAIN cells} : k <= upto(n)})]

\* Values beyond one and a half interquartile ranges of the quartiles.
Outliers(numbers) ==
  LET q1 == Quartile(numbers, 1)
      q3 == Quartile(numbers, 3)
  IN IF numbers = <<>> \/ q3 <= q1 THEN 0
     ELSE Quantify(DOMAIN numbers, LAMBDA i :
            \/ 8 * numbers[i] < 2 * q1 - 3 * (q3 - q1)
            \/ 8 * numbers[i] > 2 * q3 + 3 * (q3 - q1))

\* _text_anomalies: a word is spelled in several cases once trimmed.
Stripped(c) == IF c[1] = "word" /\ c[4] = "ends" THEN <<"word", c[2], c[3], "none">>
               ELSE IF c[1] = "blank" THEN Empty ELSE c
Folded(c)   == IF c[1] = "word" THEN <<"word", c[2], Stripped(c)[4]>> ELSE c

CaseVariants(cells) ==
  LET texts == {Stripped(cells[i]) : i \in {i \in DOMAIN cells : IsText(cells[i])}}
  IN Cardinality({Folded(c) : c \in {d \in texts : \E e \in texts : e # d /\ Folded(e) = Folded(d)}})

Untrimmed(cells) == Count(cells, LAMBDA c : c # Stripped(c))
Doubled(cells)   == Count(cells, LAMBDA c : c[1] = "word" /\ c[4] = "inside")
Controls(cells)  == Count(cells, LAMBDA c : c[1] = "word" /\ c[4] \in {"control", "invisible"})

\* profile_column, of the present cells of a column.
ProfileOf(cells, absent, type, format) ==
  LET number  == \/ type \in {"number", "number_text"}
                 \/ type = "identifier" /\ Mostly(Count(cells, Coerces), cells)
      date    == type \in {"date", "text", "categorical", "identifier"} /\ format # "none"
      text    == type \in {"text", "categorical", "identifier", "number_text"}
      readable == RestrictValues(cells, Coerces)
  IN [type        |-> type,
      nulls       |-> absent,
      constant    |-> Size(cells) > 1 /\ \A i, j \in DOMAIN cells : Text(cells[i]) = Text(cells[j]),
      readable    |-> IF number THEN Size(readable) ELSE 0,
      unparsable  |-> IF number THEN Size(cells) - Size(readable) ELSE 0,
      outliers    |-> IF number THEN Outliers(Sorted(readable)) ELSE 0,
      format      |-> IF date THEN format ELSE "none",
      undated     |-> IF date THEN Size(cells) - Matching(cells, format) ELSE 0,
      ambiguous   |-> date /\ (Ambiguous(cells) \/ AmbiguousCells(cells) > 0),
      mixed       |-> date /\ Cardinality(FormatsFound(cells)) > 1,
      untrimmed   |-> IF text THEN Untrimmed(cells) ELSE 0,
      doubled     |-> IF text THEN Doubled(cells) ELSE 0,
      controls    |-> IF text THEN Controls(cells) ELSE 0,
      variants    |-> IF text THEN CaseVariants(cells) ELSE 0]

ColumnProfile(name, all) ==
  LET cells  == Present(all)
      format == DetectedFormat(cells)
  IN ProfileOf(cells, Size(all) - Size(cells), SemanticType(name, cells, format), format)

-----------------------------------------------------------------------------
(* A table: a sequence of rows, functions from column names to cells, and  *)
(* the sequence of its columns.                                            *)

Column(rows, name) == [i \in DOMAIN rows |-> rows[i][name]]

\* The rows that have an earlier row with the same texts in these columns.
Repeated(rows, names) ==
  {i \in DOMAIN rows : \E j \in DOMAIN rows : j < i /\ \A n \in names : Text(rows[i][n]) = Text(rows[j][n])}

\* The first column named like an identifier; "" if there is none.
BusinessKey(columns) ==
  LET named == {i \in DOMAIN columns : columns[i] \in Identifiers}
  IN IF named = {} THEN "" ELSE columns[Min(named)]

\* Repeated business keys; rows without a key are not counted.
DuplicateKeys(rows, columns) ==
  LET key == BusinessKey(columns)
  IN IF key = "" THEN 0
     ELSE LET keyed == RestrictValues(rows, LAMBDA r : ~Missing(r[key]))
          IN Cardinality(Repeated(keyed, {key}))

\* Mutant of DuplicateRows: only the business key is compared.
SameKeyRows(rows, columns) ==
  IF BusinessKey(columns) = "" THEN 0 ELSE Cardinality(Repeated(rows, {BusinessKey(columns)}))

DuplicateRows(rows, columns) == Cardinality(Repeated(rows, ToSet(columns)))

Proposal(step, decision) == [step |-> step, decision |-> decision]

\* _suggest: the repairs proposed for one column.
Suggested(name, p) ==
  LET when(condition, proposal) == IF condition THEN {proposal} ELSE {}
      on(kind) == [kind |-> kind, columns |-> <<name>>]
  IN when(p.untrimmed > 0 \/ p.controls > 0, Proposal(on("trim_whitespace"), FALSE))
     \cup when(p.doubled > 0, Proposal(on("collapse_whitespace"), FALSE))
     \cup when(p.variants > 0,
             Proposal([kind |-> "standardize_case", columns |-> <<name>>, case |-> "title"], FALSE))
     \cup when(p.type = "number_text" /\ p.readable > 0, Proposal(on("cast_number"), FALSE))
     \cup when(p.mixed, Proposal(on("parse_date"), TRUE))
     \cup when(~p.mixed /\ p.format \notin {"none", "iso_date"},
             Proposal([kind |-> "parse_date", columns |-> <<name>>, format |-> p.format], p.ambiguous))
     \cup when(p.constant, Proposal(on("drop_column"), FALSE))

\* The recommended steps of a table.
Recommended(rows, columns) ==
  LET duplicates == DuplicateRows(rows, columns)
      keys       == DuplicateKeys(rows, columns)
      dedupe(names) == [kind |-> "deduplicate", columns |-> names, keep |-> "first"]
  IN (IF duplicates > 0 THEN {Proposal(dedupe(columns), FALSE)}
      ELSE IF keys > 0 THEN {Proposal(dedupe(<<BusinessKey(columns)>>), TRUE)} ELSE {})
     \cup UNION {Suggested(n, ColumnProfile(n, Column(rows, n))) : n \in ToSet(columns)}

\* _quality_score: five ratios of the cells, in points of a thousand.  (The
\* rounding of the ratios is left out.)
Score(profiles, cells, repeated) ==
  LET total(F(_)) == MapThenSumSet(LAMBDA i : F(profiles[i]), DOMAIN profiles)
      rest(n)     == Max({0, cells - n})
      invalid(p)  == IF p.type \in {"number", "number_text"} THEN p.unparsable
                     ELSE IF p.type = "date" THEN p.undated ELSE 0
  IN (300 * rest(total(LAMBDA p : p.nulls))
      + 200 * rest(repeated)
      + 250 * rest(total(invalid))
      + 150 * rest(total(LAMBDA p : p.untrimmed + p.doubled + p.variants + p.controls))
      + 100 * rest(total(LAMBDA p : p.outliers))) \div cells

\* The score of a table; -1 if there is nothing to assess.
Quality(rows, columns) ==
  IF rows = <<>> \/ columns = <<>> THEN -1
  ELSE Score([i \in DOMAIN columns |-> ColumnProfile(columns[i], Column(rows, columns[i]))],
             Len(rows) * Len(columns),
             Len(columns) * (DuplicateRows(rows, columns) + DuplicateKeys(rows, columns)))

\* dataset_metric (analytics.py): a value only if every row could be read.
DatasetMetric(metric, rows) ==
  LET whole(name) == rows # <<>> /\ \A i \in DOMAIN rows : Reads(rows[i][name])
      sum(name)   == CellSum(Column(rows, name))
      refused     == [status |-> "insufficient_data"]
      margin      == sum("revenue") - sum("cost")
  IN CASE metric = "net_revenue" ->
            IF whole("revenue") THEN [status |-> "completed", value |-> sum("revenue")] ELSE refused
       [] metric = "gross_margin" ->
            IF whole("revenue") /\ whole("cost") THEN [status |-> "completed", value |-> margin]
            ELSE refused
       [] metric = "gross_margin_rate" ->
            IF whole("revenue") /\ whole("cost") /\ sum("revenue") # 0
            THEN [status |-> "completed", value |-> (100 * margin) \div sum("revenue")] ELSE refused
       [] OTHER -> refused

Grade(score) ==
  IF score < 0 THEN "not_assessable"
  ELSE IF score >= 900 THEN "ready"
  ELSE IF score >= 750 THEN "usable_with_caveats"
  ELSE IF score >= 500 THEN "repair_required" ELSE "not_fit_for_reporting"
=============================================================================
