-------------------------------- MODULE MCAnalysis --------------------------------
(***************************************************************************)
(* Small instances of the analysis tools and the overview: a behaviour     *)
(* uses one of them, and the variables of the others keep the value they   *)
(* have when nothing was asked.                                            *)
(***************************************************************************)
EXTENDS CleaningRecipe, Forecasting, Planning, Insights, Overview

VARIABLE tool

vars == <<tool, recipeVars, forecastVars, planningVars, totals, overviewVars>>

-----------------------------------------------------------------------------
(* Tables and recipes.                                                     *)

W(w, case, pad) == <<"word", w, case, pad>>
D(n) == <<"digits", n>>
M(n) == <<"money", n>>

MCNames == {"order_id", "revenue", "cost"}

\* Columns of three rows: keys that are complete, repeated, missing twice...
KeyColumns == {<<D(1), D(2), D(3)>>, <<D(1), D(1), D(2)>>, <<None, Empty, D(1)>>}

\* ... and values that mix what the readers tell apart.
ValueColumns == {
  <<D(1), <<"number", 5>>, D(9)>>, <<D(1), None, <<"arabic", 0>>>>,
  <<M(5), D(5), M(7)>>, <<M(5), D(4), W("x", "lower", "none")>>,
  <<W("x", "lower", "ends"), W("x", "upper", "none"), <<"blank">>>>,
  <<W("yes", "lower", "inside"), W("no", "lower", "none"), Empty>>,
  <<W("yes", "lower", "none"), W("no", "lower", "ends"), W("yes", "title", "none")>>,
  <<W("x", "lower", "none"), W("x", "lower", "none"), None>>,
  <<<<"slash", 3, 4>>, <<"slash", 5, 20>>, <<"iso", 1, 2>>>>,
  <<<<"slash", 3, 4>>, <<"slash", 5, 6>>, None>>,
  <<<<"slash", 20, 4>>, <<"slash", 5, 6>>, D(3)>>,
  <<W("x", "lower", "control"), W("x", "upper", "ends"), W("x", "title", "invisible")>>,
  <<W("y", "lower", "invisible"), W("y", "lower", "none"), None>>,
  <<<<"stamp", 1, 2>>, <<"stamp", 1, 3>>, None>>,
  <<<<"spaced", 1, 2>>, <<"spaced", 1, 3>>, None>>,
  <<D(2024), <<"number", 2025>>, None>>, <<D(1), <<"list">>, <<"arabic", 1>>>>}

\* Longer columns: one outlier, and one cell in ten that no cast can read.
LongColumns == {
  [i \in 1..5 |-> D(IF i = 5 THEN 100 ELSE i)],
  [i \in 1..10 |-> IF i = 10 THEN W("x", "title", "none") ELSE <<"number", i % 3>>],
  [i \in 1..10 |-> IF i = 10 THEN W("x", "title", "ends") ELSE M(i)]}

MCTables ==
  {[columns |-> <<"revenue">>,
    rows |-> [i \in DOMAIN v |-> [n \in MCNames |-> IF n = "revenue" THEN v[i] ELSE None]]]
     : v \in LongColumns} \cup
  {[columns |-> <<"order_id", "revenue">>,
    rows |-> [i \in 1..3 |-> [n \in MCNames |->
                IF n = "order_id" THEN k[i] ELSE IF n = "revenue" THEN v[i] ELSE None]]]
     : k \in KeyColumns, v \in ValueColumns}

On(kind) == [kind |-> kind, columns |-> <<"revenue">>]

Renaming(names) == [kind |-> "rename_column", names |-> names,
                    columns |-> [k \in DOMAIN names |-> names[k][1]]]

CommonSteps ==
  {On(k) : k \in {"trim_whitespace", "collapse_whitespace", "normalize_digits", "cast_number",
                  "round_number", "cast_boolean", "parse_date", "drop_missing_rows",
                  "drop_column"}}
  \cup {On("standardize_case") @@ [case |-> "title"],
        On("parse_date") @@ [format |-> "dmy_slash"],
        On("parse_date") @@ [format |-> "iso_datetime"],
        On("parse_date") @@ [format |-> "year"],
        On("parse_date") @@ [day_first_confirmed |-> TRUE],
        [kind |-> "replace_missing", columns |-> <<"revenue", "order_id">>, value |-> M(7)],
        [kind |-> "replace_missing", columns |-> <<"revenue", "order_id">>, value |-> W("x", "lower", "none")],
        On("fill_missing_statistic") @@ [statistic |-> "mean"],
        On("fill_missing_statistic") @@ [statistic |-> "median"],
        On("fill_missing_statistic") @@ [statistic |-> "mode"],
        On("map_values") @@ [mapping |-> (D(5) :> M(5)) @@ (W("x", "title", "none") :> D(5))],
        On("clip_outliers") @@ [method |-> "absolute", lower |-> 2, upper |-> 6],
        On("clip_outliers") @@ [method |-> "iqr"],
        On("filter_rows") @@ [operator |-> "not_null"],
        On("filter_rows") @@ [operator |-> "eq", value |-> D(5)],
        On("filter_rows") @@ [operator |-> "ne", value |-> D(5)],
        [kind |-> "deduplicate", columns |-> <<"order_id">>, keep |-> "last"],
        [kind |-> "deduplicate", columns |-> <<"order_id", "revenue">>, keep |-> "first"],
        [kind |-> "drop_duplicate_rows", columns |-> <<>>, keep |-> "last"],
        [kind |-> "replace_missing", columns |-> <<"revenue">>, value |-> <<"true">>],
        [kind |-> "replace_missing", columns |-> <<"revenue">>, value |-> <<"list">>],
        Renaming(<<<<"revenue", "cost">>>>)}

\* A renaming that exchanges two names.
Swap == Renaming(<<<<"order_id", "revenue">>, <<"revenue", "order_id">>>>)

RenameSteps == CommonSteps \cup {Swap}

-----------------------------------------------------------------------------
(* Histories: consecutive months from November 2023; -99 is one without    *)
(* rows.  Two end in months of losses, one of them after none like it.     *)

History(s) ==
  [p \in {NextMonth(<<2023, 11>>, k - 1) : k \in {k \in DOMAIN s : s[k] # -99}} |->
     s[MonthNumber(p) - MonthNumber(<<2023, 11>>) + 1]]

MCHistories == {History(s) : s \in {
  <<>>, [i \in 1..11 |-> i],
  [i \in 1..12 |-> i], [i \in 1..12 |-> 5], [i \in 1..13 |-> 5 + (i % 3)],
  [i \in 1..14 |-> IF i \in {5, 6} THEN -99 ELSE i % 4],
  [i \in 1..15 |-> IF i < 10 THEN 3 ELSE 9],
  [i \in 1..16 |-> IF i > 14 THEN 9 ELSE i % 2],
  [i \in 1..16 |-> IF i = 15 THEN 9 ELSE 4 + (i % 2)],
  [i \in 1..15 |-> IF i > 13 THEN -9 ELSE 2 + (i % 4)],
  [i \in 1..17 |-> (IF i % 5 = 0 THEN -7 ELSE 3) + (i % 3)],
  [i \in 1..18 |-> (i * i) % 7],
  [i \in 1..20 |-> IF i > 17 THEN 8 ELSE (i * 3) % 5],
  [i \in 1..24 |-> (i % 12) \div 3],
  [i \in 1..25 |-> IF i > 20 THEN 6 ELSE (i % 12) \div 4]}}

-----------------------------------------------------------------------------
(* Crews and tasks, in half thousandths of an hour; even and skewed splits.*)

Crews == {<<[skills |-> {"x", "y"}, capacity |-> a], [skills |-> {"x"}, capacity |-> b]>> :
            a \in {1, 4, 5, 9}, b \in {0, 1, 4, 5, 9}}

Task(s, h) == [skill |-> s, hours |-> h]

MCPlans ==
  {[workers |-> w, tasks |-> t] : w \in Crews, t \in
     {<<Task(s, h), Task("x", k)>> : s \in {"x", "y", "z"}, h \in {2, 3}, k \in {1, 4, 5}}
     \cup {<<Task("y", 2), Task("x", 2), Task("x", 3)>>, [i \in 1..4 |-> Task("x", 1)]}}

MCSplits == {<<3, 3, 3>>, <<3, 3, 3, 3>>, <<2, 2, 2, 2, 2>>, <<6, 1, 1, 1, 0, 1>>,
             [i \in 1..9 |-> 1], <<0, 0, 0, 0>>}

-----------------------------------------------------------------------------
(* The company and two of its members.                                     *)

\* Records of two departments, with a customer of each and one of both.
MCRecords == {
  [id |-> 1, kind |-> "order", department |-> "sales", customer |-> 5, month |-> 24,
   revenue |-> 6, cost |-> {2}],
  [id |-> 2, kind |-> "order", department |-> "ops", customer |-> 6, month |-> 12,
   revenue |-> 3, cost |-> {}],
  [id |-> 3, kind |-> "case", department |-> "ops", customer |-> 5, month |-> 25],
  [id |-> 4, kind |-> "project", department |-> "sales", month |-> 23, delayed |-> TRUE],
  [id |-> 5, kind |-> "customer"], [id |-> 6, kind |-> "customer"],
  [id |-> 7, kind |-> "employee", department |-> "sales", overloaded |-> TRUE],
  [id |-> 8, kind |-> "employee", department |-> "ops", overloaded |-> TRUE],
  [id |-> 9, kind |-> "supplier"]}

MCRevisable == {r \in MCRecords : r.id \in {1, 2, 4}}

MCViewers == {
  [role |-> "department_manager", departments |-> {"sales"}, people |-> {"department"}],
  [role |-> "analyst", departments |-> {}, people |-> {"aggregate"}]}

-----------------------------------------------------------------------------
RecipeIdle ==
  /\ source = [rows |-> <<>>, columns |-> <<>>] /\ rows = <<>> /\ columns = <<>>
  /\ log = <<>> /\ preview = [outcome |-> "none"] /\ lineage = [rows |-> <<>>, columns |-> <<>>]

ForecastIdle == request = [horizon |-> 0] /\ answer = [stage |-> "none"]
PlanningIdle == plan = NoPlan /\ result = [feasibility |-> "none"] /\ desk = NoDesk
InsightsIdle == totals = <<>>

Init ==
  /\ OverviewInit
  /\ \/ tool = "recipe" /\ RecipeInit /\ ForecastIdle /\ PlanningIdle /\ InsightsIdle
     \/ tool = "forecast" /\ RecipeIdle /\ ForecastInit /\ PlanningIdle /\ InsightsIdle
     \/ tool = "planning" /\ RecipeIdle /\ ForecastIdle /\ PlanningInit /\ InsightsIdle
     \/ tool = "insights" /\ RecipeIdle /\ ForecastIdle /\ PlanningIdle /\ InsightsInit
     \/ tool = "overview" /\ RecipeIdle /\ ForecastIdle /\ PlanningIdle /\ InsightsIdle

Next ==
  \/ /\ tool = "recipe" /\ RecipeNext
     /\ UNCHANGED <<tool, forecastVars, planningVars, totals, overviewVars>>
  \/ /\ tool = "forecast" /\ ForecastNext
     /\ UNCHANGED <<tool, recipeVars, planningVars, totals, overviewVars>>
  \/ /\ tool = "planning" /\ PlanningNext
     /\ UNCHANGED <<tool, recipeVars, forecastVars, totals, overviewVars>>
  \/ /\ tool = "insights" /\ InsightsNext
     /\ UNCHANGED <<tool, recipeVars, forecastVars, planningVars, overviewVars>>
  \/ /\ tool = "overview" /\ OverviewNext
     /\ UNCHANGED <<tool, recipeVars, forecastVars, planningVars, totals>>

Spec == Init /\ [][Next]_vars
=============================================================================
