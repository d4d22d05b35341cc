---------------------------- MODULE CleaningRecipe ----------------------------
(***************************************************************************)
(* A cleaning recipe over a table (cleaning.py): run_recipe applies        *)
(* reviewed steps one after the other to a copy of the rows, logs what     *)
(* each step touched and could not touch, and compares control totals to   *)
(* decide whether a human has to look before a version is published        *)
(* (module DatasetVersions).                                               *)
(*                                                                         *)
(* Cells are those of module Profiling.  A row is a function from every    *)
(* column name to a cell; a key the dictionary lacks reads as None, as     *)
(* row.get does.  Numbers are integers: a mean, median or quantile is      *)
(* taken to the integer below it.  Left out: examples, wording, the        *)
(* percentile method and the comparisons of text by order.                 *)
(***************************************************************************)
EXTENDS Profiling

CONSTANTS
  Names,      \* column names
  Tables,     \* source tables: records of rows and columns
  Steps,      \* steps a reviewer may choose
  MaxSteps    \* bound: steps in a recipe (40 in the code)

\* A table has each column once, and its rows have nothing outside its columns.
IsTable(t) ==
  /\ t.rows \in Seq([Names -> Cells]) /\ t.columns \in Seq(Names) /\ IsInjective(t.columns)
  /\ \A i \in DOMAIN t.rows : \A n \in Names \ ToSet(t.columns) : t.rows[i][n] = None

\* The options of a step that the checks on its kind let through.
Options(step) ==
  CASE step.kind = "standardize_case" -> step.case \in Cases
    [] step.kind = "replace_missing"  -> step.value \in Cells
    [] step.kind = "map_values"       -> step.mapping \in [DOMAIN step.mapping -> Cells]
    [] step.kind = "fill_missing_statistic" -> step.statistic \in {"mean", "median", "mode"}
    [] step.kind = "clip_outliers" ->
         \/ step.method = "iqr"
         \/ step.method = "absolute" /\ step.lower \in Int /\ step.upper \in Int
    [] step.kind \in {"deduplicate", "drop_duplicate_rows"} -> step.keep \in {"first", "last"}
    [] step.kind = "rename_column" ->
         /\ step.names \in Seq(Names \X Names)
         /\ \A j, k \in DOMAIN step.names : step.names[j][1] = step.names[k][1] => j = k
    [] OTHER -> TRUE

ASSUME RecipeAssumption ==
  /\ Identifiers \cup {"revenue", "cost"} \subseteq Names /\ MaxSteps \in 1..40
  /\ \A t \in Tables : IsTable(t)
  /\ \A step \in Steps : step.columns \in Seq(Names) /\ Options(step)

VARIABLES
  source,     \* the table of the version
  rows,       \* the working copy
  columns,    \* its columns
  log,        \* the effects of the steps so far
  preview,    \* what the reviewer is shown; NoPreview until the end
  lineage     \* history: the source row and column behind each row and column

recipeVars == <<source, rows, columns, log, preview, lineage>>

NoPreview == [outcome |-> "open"]

RecipeInit ==
  /\ source \in Tables
  /\ rows = source.rows /\ columns = source.columns
  /\ log = <<>> /\ preview = NoPreview
  /\ lineage = [rows |-> [i \in DOMAIN source.rows |-> i], columns |-> source.columns]

-----------------------------------------------------------------------------
(* What a step does to one cell.                                           *)

Selected(step)  == ToSet(step.columns)
CellsOf(step)   == [p \in (DOMAIN rows) \X Selected(step) |-> rows[p[1]][p[2]]]
GivenIn(name)   == Given(Column(rows, name))
Numeric(cells)  == DOMAIN cells # {} /\ \A i \in DOMAIN cells : Reads(cells[i])

\* Mutant of ReplacementFor: only the first selected column is looked at.
FirstColumnsReplacement(step) ==
  IF Numeric(GivenIn(step.columns[1])) /\ IsText(step.value)
  THEN <<"number", Number(step.value)>> ELSE step.value

\* A text replacement becomes a number when a selected column holds numbers.
ReplacementFor(step) ==
  IF IsText(step.value) /\ \E n \in Selected(step) : Numeric(GivenIn(n))
  THEN <<"number", Number(step.value)>> ELSE step.value

\* The most frequent text, the first of them.
Mode(cells) ==
  LET frequency(i) == Count(cells, LAMBDA c : Text(c) = Text(cells[i]))
      best == {i \in DOMAIN cells : \A j \in DOMAIN cells : frequency(j) <= frequency(i)}
  IN Text(cells[Min(best)])

Statistic(step, cells) ==
  CASE step.statistic = "mode"   -> Mode(cells)
    [] step.statistic = "median" -> <<"number", Quartile(Sorted(cells), 2) \div 4>>
    [] step.statistic = "mean"   -> <<"number", CellSum(cells) \div Size(cells)>>

\* The bounds of clip_outliers.
Bounds(step, name) ==
  LET sorted == Sorted(RestrictValues(Column(rows, name), Reads))
      q1 == Quartile(sorted, 1)
      q3 == Quartile(sorted, 3)
  IN IF step.method = "absolute" THEN [low |-> step.lower, high |-> step.upper]
     ELSE [low |-> (2 * q1 - 3 * (q3 - q1)) \div 8, high |-> (2 * q3 + 3 * (q3 - q1)) \div 8]

Clipped(n, b) == Min({Max({n, b.low}), b.high})

\* The format of a parse_date step: given, or detected in all its columns.
FormatOf(step) ==
  IF "format" \in DOMAIN step THEN step.format
  ELSE DetectedFormat(CellsOf(step))

Edits == {"trim_whitespace", "collapse_whitespace", "normalize_digits", "standardize_case",
          "cast_number", "round_number", "cast_boolean", "parse_date", "replace_missing",
          "fill_missing_statistic", "map_values", "clip_outliers"}

\* strip(), after the invisible characters are taken out.
Trimmed(c) == IF c[1] = "word" /\ c[4] = "invisible" THEN <<"word", c[2], c[3], "none">>
              ELSE Stripped(c)

\* Runs of white space become one; a lone control character is no run.
Collapsed(c) == IF c[1] = "word" /\ c[4] = "inside" THEN <<"word", c[2], c[3], "none">>
                ELSE Trimmed(c)

\* The transforms given to edit.
Edited(step, name, c) ==
  CASE step.kind = "trim_whitespace"     -> Trimmed(c)
    [] step.kind = "collapse_whitespace" -> Collapsed(c)
    [] step.kind = "normalize_digits" -> IF c[1] = "arabic" THEN <<"digits", c[2]>> ELSE c
    [] step.kind = "standardize_case" ->
         IF c[1] = "word" THEN <<"word", c[2], step.case, c[4]>> ELSE c
    [] step.kind = "cast_number"  -> IF Coerces(c) THEN <<"number", Number(c)>> ELSE c
    [] step.kind = "round_number" -> IF Reads(c) THEN <<"number", Number(c)>> ELSE c
    [] step.kind = "cast_boolean" ->
         IF IsBoolean(c) THEN (IF BooleanOf(c) THEN <<"true">> ELSE <<"false">>) ELSE c
    [] step.kind = "parse_date" ->
         IF Fits(c, FormatOf(step)) THEN DateOf(c, FormatOf(step)) ELSE c
    [] step.kind = "replace_missing" -> IF Missing(c) THEN ReplacementFor(step) ELSE c
    [] step.kind = "fill_missing_statistic" ->
         IF Missing(c) /\ DOMAIN GivenIn(name) # {} THEN Statistic(step, GivenIn(name)) ELSE c
    [] step.kind = "map_values" ->
         IF c # None /\ Text(c) \in DOMAIN step.mapping THEN step.mapping[Text(c)] ELSE c
    [] step.kind = "clip_outliers" ->
         IF Reads(c) THEN <<"number", Clipped(Number(c), Bounds(step, name))>> ELSE c

\* The cells a cast could not read.
Unresolved(step, c) ==
  /\ ~Missing(c)
  /\ CASE step.kind = "cast_number"  -> ~Coerces(c)
       [] step.kind = "round_number" -> ~Reads(c)
       [] step.kind = "cast_boolean" -> ~IsBoolean(c)
       [] step.kind = "parse_date"   -> ~Fits(c, FormatOf(step))
       [] OTHER -> FALSE

-----------------------------------------------------------------------------
(* What a step does to the rows and the columns.                           *)

\* The rows a step keeps, by position.
Kept(step) ==
  LET all == DOMAIN rows
      keys == IF step.kind = "deduplicate" THEN Selected(step) ELSE ToSet(columns)
      same(i, j) == \A n \in keys : Text(rows[i][n]) = Text(rows[j][n])
      value(i) == rows[i][step.columns[1]]
      equal(i) == \/ Text(value(i)) = Text(step.value)
                  \/ Reads(value(i)) /\ Reads(step.value) /\ Number(value(i)) = Number(step.value)
  IN CASE step.kind = "drop_missing_rows" ->
            {i \in all : \A n \in Selected(step) : ~Missing(rows[i][n])}
       [] step.kind \in {"deduplicate", "drop_duplicate_rows"} /\ step.keep = "first" ->
            {i \in all : \A j \in 1..(i - 1) : ~same(i, j)}
       [] step.kind \in {"deduplicate", "drop_duplicate_rows"} /\ step.keep = "last" ->
            {i \in all : \A j \in (i + 1)..Len(rows) : ~same(i, j)}
       [] step.kind = "filter_rows" /\ step.operator = "not_null" -> {i \in all : ~Missing(value(i))}
       [] step.kind = "filter_rows" /\ step.operator = "eq" -> {i \in all : equal(i)}
       [] step.kind = "filter_rows" /\ step.operator = "ne" -> {i \in all : ~equal(i)}
       [] OTHER -> all

\* The positions that are kept, in their order, and a sequence without the others.
Places(kept) == [k \in 1..Cardinality(kept) |->
                   CHOOSE i \in kept : Cardinality({j \in kept : j <= i}) = k]

Restricted(s, kept) ==
  LET order == Places(kept)
  IN [k \in DOMAIN order |-> s[order[k]]]

\* row[new] = row.pop(old), one pair after the other.
Renamed(row, names) ==
  FoldLeft(LAMBDA r, pair : [[r EXCEPT ![pair[1]] = None] EXCEPT ![pair[2]] = r[pair[1]]],
           row, names)

NewName(step, n) ==
  IF \E k \in DOMAIN step.names : step.names[k][1] = n
  THEN step.names[CHOOSE k \in DOMAIN step.names : step.names[k][1] = n][2] ELSE n

\* _require_columns and the checks of each kind; otherwise 422 or 409.
Accepts(step) ==
  /\ \/ step.kind = "drop_duplicate_rows"
     \/ step.columns # <<>> /\ Selected(step) \subseteq ToSet(columns)
  /\ CASE step.kind = "parse_date" ->
            \/ "format" \in DOMAIN step
            \/ /\ FormatOf(step) # "none"
               /\ Ambiguous(CellsOf(step)) => "day_first_confirmed" \in DOMAIN step
       [] step.kind = "replace_missing" ->
            /\ ~Absent(step.value)
            /\ IsText(step.value) /\ (\E n \in Selected(step) : Numeric(GivenIn(n)))
                 => Coerces(step.value)
       [] step.kind = "fill_missing_statistic" ->
            step.statistic = "mode" \/ \A n \in Selected(step) : Numeric(GivenIn(n))
       [] step.kind = "clip_outliers" ->
            \A n \in Selected(step) : Count(Column(rows, n), Reads) > 0
       [] step.kind = "rename_column" ->
            LET new == {step.names[k][2] : k \in DOMAIN step.names}
            IN /\ Selected(step) = {step.names[k][1] : k \in DOMAIN step.names}
               /\ new \cap (ToSet(columns) \ Selected(step)) = {}
               /\ Cardinality(new) = Len(step.names)
       [] OTHER -> TRUE

\* The table after a step.
RowsAfter(step) ==
  IF step.kind \in Edits
  THEN [i \in DOMAIN rows |-> [n \in Names |->
          IF n \in Selected(step) THEN Edited(step, n, rows[i][n]) ELSE rows[i][n]]]
  ELSE IF step.kind = "drop_column"
  THEN [i \in DOMAIN rows |-> [n \in Names |-> IF n \in Selected(step) THEN None ELSE rows[i][n]]]
  ELSE IF step.kind = "rename_column" THEN [i \in DOMAIN rows |-> Renamed(rows[i], step.names)]
  ELSE Restricted(rows, Kept(step))

\* The columns a step keeps, by position.
Staying(step) ==
  {k \in DOMAIN columns : step.kind # "drop_column" \/ columns[k] \notin Selected(step)}

ColumnsAfter(step) ==
  IF step.kind = "rename_column" THEN [k \in DOMAIN columns |-> NewName(step, columns[k])]
  ELSE Restricted(columns, Staying(step))

\* Mutant of Effect: a cell that was missing is not counted as changed.
FilledUncounted(step) ==
  LET touched == (DOMAIN rows) \X Selected(step)
  IN [kind       |-> step.kind,
      changed    |-> IF step.kind \notin Edits THEN 0
                     ELSE Quantify(touched, LAMBDA t :
                            /\ ~Missing(rows[t[1]][t[2]])
                            /\ Edited(step, t[2], rows[t[1]][t[2]]) # rows[t[1]][t[2]]),
      dropped    |-> Len(rows) - Cardinality(Kept(step)),
      unresolved |-> Quantify(touched, LAMBDA t : Unresolved(step, rows[t[1]][t[2]]))]

\* StepEffect.
Effect(step) ==
  LET touched == (DOMAIN rows) \X Selected(step)
  IN [kind       |-> step.kind,
      changed    |-> IF step.kind \notin Edits THEN 0
                     ELSE Quantify(touched, LAMBDA t :
                            Edited(step, t[2], rows[t[1]][t[2]]) # rows[t[1]][t[2]]),
      dropped    |-> Len(rows) - Cardinality(Kept(step)),
      unresolved |-> Quantify(touched, LAMBDA t : Unresolved(step, rows[t[1]][t[2]]))]

ApplyStep(step) ==
  /\ preview = NoPreview /\ Len(log) < MaxSteps
  /\ Accepts(step)
  /\ rows' = RowsAfter(step) /\ columns' = ColumnsAfter(step)
  /\ log' = Append(log, Effect(step))
  /\ lineage' = [rows    |-> Restricted(lineage.rows, Kept(step)),
                 columns |-> Restricted(lineage.columns, Staying(step))]
  /\ UNCHANGED <<source, preview>>

\* A step that does not fit the table as it now is refuses the whole recipe.
Refuse(step) ==
  /\ preview = NoPreview /\ Len(log) < MaxSteps
  /\ ~Accepts(step)
  /\ preview' = [outcome |-> "refused"]
  /\ UNCHANGED <<source, rows, columns, log, lineage>>

-----------------------------------------------------------------------------
(* The preview.                                                            *)

\* control_totals: the columns at least half of whose cells read as numbers.
Totals(table, names) ==
  LET given(n)  == Given(Column(table, n))
      parsed(n) == RestrictValues(given(n), Reads)
      readable  == {n \in names : Size(parsed(n)) > 0 /\ 2 * Size(parsed(n)) >= Size(given(n))}
  IN [n \in readable |->
        [sum |-> CellSum(parsed(n)), unreadable |-> Size(given(n)) - Size(parsed(n))]]

\* Mutant of Note: a column that only one side can total is passed over.
LenientNote(before, after, n) ==
  IF n \notin DOMAIN before \cap DOMAIN after \/ before[n].sum = after[n].sum THEN "unchanged"
  ELSE "unexplained_change"

\* _compare_totals: the note on one column.
Note(before, after, n) ==
  CASE n \notin DOMAIN after  -> "became_unreadable"
    [] n \in DOMAIN after /\ n \notin DOMAIN before -> "became_readable"
    [] OTHER ->
       IF before[n].sum = after[n].sum THEN "unchanged"
       ELSE IF before[n].unreadable > after[n].unreadable THEN "explained" ELSE "unexplained_change"

Dropped  == Tally([i \in DOMAIN log |-> log[i].dropped])
Changed  == Tally([i \in DOMAIN log |-> log[i].changed])
LeftOver == Tally([i \in DOMAIN log |-> log[i].unresolved])

\* Why a recipe needs a review, given the notes on the totals.
Reasons(notes, kinds) ==
  (IF Dropped > 0 THEN {"rows_removed"} ELSE {})
  \cup (IF notes \subseteq {"unchanged"} THEN {} ELSE {"control_total_changed"})
  \cup (IF kinds \cap {"drop_column", "rename_column"} = {} THEN {} ELSE {"column_set_changed"})

\* summarize: what the preview warns of.
Caveats(notes, kinds) ==
  (notes \cap {"explained", "unexplained_change"})
  \cup (kinds \cap {"fill_missing_statistic", "clip_outliers"})
  \cup (IF LeftOver > 0 THEN {"left_as_they_were"} ELSE {})
  \cup (IF \E i \in DOMAIN log : log[i].changed = 0 /\ log[i].dropped = 0
        THEN {"changed_nothing"} ELSE {})

Notes(before, after) == {Note(before, after, n) : n \in DOMAIN before \cup DOMAIN after}
Graded(score) == [score |-> score, grade |-> Grade(score)]

\* The end of run_recipe.
Finish ==
  LET notes == Notes(Totals(source.rows, ToSet(source.columns)), Totals(rows, ToSet(columns)))
      kinds == {log[i].kind : i \in DOMAIN log}
  IN
  /\ preview = NoPreview /\ log # <<>>
  /\ preview' = [outcome  |-> "previewed",
                 reasons  |-> Reasons(notes, kinds),
                 review   |-> Reasons(notes, kinds) # {},
                 caveats  |-> Caveats(notes, kinds),
                 quality  |-> <<Graded(Quality(source.rows, source.columns)),
                                Graded(Quality(rows, columns))>>]
  /\ UNCHANGED <<source, rows, columns, log, lineage>>

RecipeNext ==
  \/ \E step \in Steps : ApplyStep(step) \/ Refuse(step)
  \/ Finish

-----------------------------------------------------------------------------
(* Properties.                                                             *)

\* Every cell of a surviving row and column that differs from the source is
\* counted by the log, and so is every row that is gone: "a reviewer approving
\* a new dataset version has to be able to defend each change".
LogAccounts ==
  /\ Len(rows) + Dropped = Len(source.rows)
  /\ Changed >= Quantify((DOMAIN rows) \X (DOMAIN columns), LAMBDA p :
       rows[p[1]][columns[p[2]]] # source.rows[lineage.rows[p[1]]][lineage.columns[p[2]]])

\* "A numeric column that changed total always deserves a human look": without
\* a review no row or column is gone, every column of numbers still has its
\* numbers and their sum, and a governed metric that could be computed before
\* and after has not moved, whatever steps were combined to get there.
UnreviewedKeepsTheBooks ==
  preview.outcome = "previewed" /\ ~preview.review =>
    /\ Len(rows) = Len(source.rows) /\ columns = source.columns
    /\ \A n \in ToSet(columns) :
         LET given == Given(Column(source.rows, n))
             now   == RestrictValues(GivenIn(n), Reads)
         IN Numeric(given) => DOMAIN now # {} /\ CellSum(given) = CellSum(now)
    /\ \A m \in {"net_revenue", "gross_margin", "gross_margin_rate"} :
         LET before == DatasetMetric(m, source.rows)
             after  == DatasetMetric(m, rows)
         IN before.status = "completed" /\ after.status = "completed" => before = after

\* The steps that say themselves what a cell of numbers becomes: a mapping, a
\* renaming, a date pattern outside the known formats, a list for a value.
Dictates(step) ==
  \/ step.kind \in {"map_values", "rename_column"}
  \/ step.kind = "parse_date" /\ FormatOf(step) \notin ToSet(Formats)
  \/ step.kind = "replace_missing" /\ step.value = <<"list">>

\* A column of numbers gains a cell that is no number and no stored boolean.
GainsText(n) ==
  Numeric(GivenIn(n)) /\ \E c \in ToSet(GivenIn(n)') : ~Reads(c) /\ c \notin {<<"true">>, <<"false">>}

\* "A numeric column must not gain a text cell": no step puts one into a column
\* of numbers unless it dictates it.  A detected or known date format, a
\* statistic, a replacement typed as text or a cast never does.
NumericColumnsStay ==
  [][\A n \in Names : GainsText(n) =>
       \A step \in Steps : ApplyStep(step) => Dictates(step)]_rows

\* The recommended steps that need no decision and have nothing to repair: a
\* cast that leaves cells of the column unread, the trimming of a column with
\* a control character inside a word, and the parsing of dates and times that
\* are in ISO 8601 already.
Stuck(step) ==
  \/ step.kind = "cast_number" /\ Effect(step).unresolved > 0
  \/ /\ step.kind = "trim_whitespace"
     /\ \E i \in DOMAIN rows : \E n \in Selected(step) :
          rows[i][n][1] = "word" /\ rows[i][n][4] = "control"
  \/ step.kind = "parse_date" /\ FormatOf(step) = "iso_datetime"

\* What the profile recommends without asking for a decision, the recipe
\* accepts, and a profile of the result does not recommend it again, unless it
\* is stuck.
RecommendationsSettle ==
  preview = NoPreview /\ columns # <<>> =>
    LET settled(proposals) == {p.step : p \in {p \in proposals : ~p.decision}}
    IN \A step \in settled(Recommended(rows, columns)) :
         /\ Accepts(step)
         /\ \/ step \notin settled(Recommended(RowsAfter(step), ColumnsAfter(step)))
            \/ Stuck(step)
=============================================================================
