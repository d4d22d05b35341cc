------------------------------ MODULE Forecasting ------------------------------
(***************************************************************************)
(* A forecast (forecasting.py: forecast_series): the months of a history   *)
(* are laid out without gaps, a level shift may cut the history, candidate *)
(* models compete on rolling origins of a working window, the errors of    *)
(* the selected one calibrate an interval, the months held out measure it  *)
(* and may widen it, and the model is refitted for the months to come.     *)
(*                                                                         *)
(* Values are integers, negative ones included (a net revenue may be), and *)
(* predictions are rounded down to integers.  Decimal of these units make  *)
(* a unit of the fourth decimal place, to which the code rounds the mean   *)
(* errors it compares and the rows of the holdout it reports.  A radius is *)
(* kept as its square, because it may be multiplied by the square root of  *)
(* the horizon; the final rounding of what is published to two decimals is *)
(* left out.  Which split the detector of level shifts reports, if any, is *)
(* a nondeterministic choice (its least squares are left out), and so are  *)
(* left out the four smoothing models, the seasonal decomposition and the  *)
(* anomaly list, which are functions of the history like those kept and    *)
(* decide nothing.                                                         *)
(***************************************************************************)
EXTENDS Integers, Sequences, FiniteSets, FiniteSetsExt, SequencesExt

CONSTANTS
  Histories,  \* functions from months <<year, month>> to integers
  Horizons,   \* months asked for, 1..24
  Gaps,       \* sizes of the level shifts that may be detected
  Interval,   \* the interval asked for, in per cent, 50..99
  Decimal     \* the units of a value that make one of the fourth decimal place

VARIABLES
  request,    \* the history, the horizon and whether values are non-negative
  answer      \* what the function has computed so far, by stage

forecastVars == <<request, answer>>

-----------------------------------------------------------------------------
(* The calendar.                                                           *)

MonthNumber(p) == p[1] * 12 + p[2] - 1

NextMonth(p, k) == LET n == MonthNumber(p) + k IN <<n \div 12, (n % 12) + 1>>

\* A history has a first and a last month unless it is empty, and a horizon is
\* at least a month.
ASSUME ForecastAssumption ==
  /\ \A counts \in Histories :
       /\ DOMAIN counts \subseteq Nat \X (1..12) /\ \A p \in DOMAIN counts : counts[p] \in Int
       /\ DOMAIN counts # {} => \E first, last \in DOMAIN counts : \A p \in DOMAIN counts :
            MonthNumber(first) <= MonthNumber(p) /\ MonthNumber(p) <= MonthNumber(last)
  /\ Horizons \subseteq Nat \ {0} /\ Interval \in 50..99 /\ Decimal \in Nat \ {0}

\* monthly_series: every month from the first observed to the last, 0 if absent.
Periods(counts) ==
  LET first == CHOOSE p \in DOMAIN counts : \A q \in DOMAIN counts : MonthNumber(p) <= MonthNumber(q)
      last  == CHOOSE p \in DOMAIN counts : \A q \in DOMAIN counts : MonthNumber(q) <= MonthNumber(p)
  IN IF DOMAIN counts = {} THEN <<>>
     ELSE [k \in 1..(MonthNumber(last) - MonthNumber(first) + 1) |-> NextMonth(first, k - 1)]

Values(counts) ==
  LET periods == Periods(counts)
  IN [k \in DOMAIN periods |-> IF periods[k] \in DOMAIN counts THEN counts[periods[k]] ELSE 0]

-----------------------------------------------------------------------------
(* The models: what each predicts k months after a history.                *)

Total(s) ==
  LET upTo[i \in 0..Len(s)] == IF i = 0 THEN 0 ELSE upTo[i - 1] + s[i] IN upTo[Len(s)]

Recent(s, n) == SubSeq(s, Max({1, Len(s) - n + 1}), Len(s))
Absolute(n)  == IF n < 0 THEN -n ELSE n

\* round(n / d, 4): the nearest multiple of Decimal, an even one of two as near.
Rounded(n, d) ==
  LET unit  == d * Decimal
      below == n \div unit
      twice == 2 * (n % unit)
  IN Decimal * (IF twice < unit \/ (twice = unit /\ below % 2 = 0) THEN below ELSE below + 1)

\* The names of build_models, in its order, with their minimum histories.
Models(season) ==
  <<[name |-> "naive", minimum |-> 2], [name |-> "mean", minimum |-> 3],
    [name |-> "drift", minimum |-> 3], [name |-> "moving_average_3", minimum |-> 4],
    [name |-> "moving_average_6", minimum |-> 7], [name |-> "linear_trend", minimum |-> 4]>>
  \o (IF season < 2 THEN <<>> ELSE <<[name |-> "seasonal_naive", minimum |-> season + 1]>>)

\* Least squares over the positions 0, 1, ..., extrapolated.
LinearTrend(h, k) ==
  LET n == Len(h)
      moment  == Total([i \in DOMAIN h |-> (i - 1) * h[i]])
      squares == Total([i \in DOMAIN h |-> (i - 1) * (i - 1)])
      sum     == (n * (n - 1)) \div 2
      total   == Total(h)
      slope   == n * moment - sum * total          \* over spread
      spread  == n * squares - sum * sum
  IN (2 * spread * total + n * slope * (n - 1 + 2 * k)) \div (2 * n * spread)

Predict(model, season, h, k) ==
  CASE model.name = "naive" -> Last(h)
    [] model.name = "mean"  -> Total(h) \div Len(h)
    [] model.name = "drift" -> Last(h) + (k * (Last(h) - h[1])) \div (Len(h) - 1)
    [] model.name = "moving_average_3" -> Total(Recent(h, 3)) \div Len(Recent(h, 3))
    [] model.name = "moving_average_6" -> Total(Recent(h, 6)) \div Len(Recent(h, 6))
    [] model.name = "linear_trend" -> LinearTrend(h, k)
    [] model.name = "seasonal_naive" ->
         IF Len(h) < season THEN Last(h) ELSE h[Len(h) - season + ((k - 1) % season) + 1]

\* Seasonal models need two full cycles.
Season(values) == IF Len(values) >= 24 THEN 12 ELSE 1

-----------------------------------------------------------------------------
(* The windows.                                                            *)

HoldoutLength(values, horizon) ==
  LET wanted == Min({Max({2, horizon}), Max({2, Len(values) \div 5})})
  IN IF Len(values) - wanted < 10 THEN 2 ELSE wanted

\* Mutant of Working: nothing is held back.
Everything(values, horizon) == values

Working(values, horizon) == SubSeq(values, 1, Len(values) - HoldoutLength(values, horizon))

\* Mutant of FirstOrigin: no shorter warm-up for a short history.
FixedWarmUp(working, season) == Max({4, Min({season + 1, Len(working) \div 2})})

\* The rolling origins run from here to the last month of the window.
FirstOrigin(working, season) ==
  LET warmUp == Max({4, Min({season + 1, Len(working) \div 2})})
  IN IF Len(working) - warmUp >= 3 THEN warmUp ELSE Max({2, Len(working) \div 2})

\* _rolling_errors, at one horizon.
Errors(model, season, working, k) ==
  LET first == Max({FirstOrigin(working, season), model.minimum})
      folds == Max({0, Len(working) - k - first + 1})
  IN [i \in 1..folds |->
        LET origin == first + i - 1
        IN working[origin + k] - Predict(model, season, SubSeq(working, 1, origin), k)]

AllErrors(model, season, working, steps) ==
  FlattenSeq([k \in 1..steps |-> Errors(model, season, working, k)])

\* The models that could be evaluated, with their places in the list.
Candidates(season, working, steps) ==
  LET models == Models(season)
      fitting == {i \in DOMAIN models : models[i].minimum <= Len(working)}
      evaluated == {[place |-> i, model |-> models[i],
                     errors |-> AllErrors(models[i], season, working, steps)] : i \in fitting}
  IN {c \in evaluated : c.errors # <<>>}

Loss(errors) == Total([j \in DOMAIN errors |-> Absolute(errors[j])])

\* The lowest mean absolute error as it is reported, the first of them.
Chosen(candidates) ==
  LET mae(c) == Rounded(Loss(c.errors), Len(c.errors))
      best == {c \in candidates : \A d \in candidates : mae(c) <= mae(d)}
  IN (CHOOSE c \in best : \A d \in best : c.place <= d.place).model

-----------------------------------------------------------------------------
(* The interval.                                                           *)

\* _quantile, by the next higher order statistic: the least of the numbers that
\* so many of them do not exceed.
Quantile(numbers) ==
  LET rank == (Interval * (Len(numbers) - 1) + 99) \div 100 + 1
      atMost(n) == Quantify(DOMAIN numbers, LAMBDA i : numbers[i] <= n)
  IN Min({numbers[i] : i \in {i \in DOMAIN numbers : atMost(numbers[i]) >= rank}})

\* The square of the radius at a horizon, before it is made monotone.
RawRadius(model, season, working, steps, k) ==
  LET bucket == IF k <= steps THEN Errors(model, season, working, k) ELSE <<>>
      pooled == AllErrors(model, season, working, steps)
      used   == IF Len(bucket) < 4 THEN pooled ELSE bucket
      growth == IF Len(bucket) < 4 THEN k ELSE 1
      q      == Quantile([i \in DOMAIN used |-> Absolute(used[i])])
  IN q * q * growth

\* Mutant of Radii: uncertainty may fall as the horizon grows.
JumpyRadii(model, season, working, steps, horizon) ==
  [k \in 1..horizon |-> RawRadius(model, season, working, steps, k)]

Radii(model, season, working, steps, horizon) ==
  LET raw == [k \in 1..horizon |-> RawRadius(model, season, working, steps, k)]
  IN [k \in 1..horizon |-> Max({raw[j] : j \in 1..k})]

Clip(n) == IF request.nonNegative THEN Max({0, n}) ELSE n

\* An actual value is inside the band around a prediction; widening is the
\* square of the factor, as a fraction.
Inside(actual, prediction, radius, widening) ==
  /\ (actual - prediction) * (actual - prediction) * widening[2] <= radius * widening[1]
  /\ request.nonNegative => actual >= 0

Covered(holdout, radii, widening) ==
  Quantify(DOMAIN holdout, LAMBDA k :
    Inside(holdout[k].actual, holdout[k].prediction, radii[k], widening))

\* A row of the holdout as it is reported.
Reported(row) == [actual |-> Rounded(row.actual, 1), prediction |-> Rounded(row.prediction, 1),
                  error |-> Rounded(row.actual - row.prediction, 1)]

-----------------------------------------------------------------------------
(* The stages.                                                             *)

Asked == [stage |-> "asked", values |-> <<>>, season |-> 1, model |-> "none", radii |-> <<>>,
          holdout |-> <<>>, widened |-> FALSE, widening |-> <<1, 1>>, coverage |-> 0,
          forecast |-> <<>>]

ForecastInit ==
  /\ request \in [counts : Histories, horizon : Horizons, nonNegative : BOOLEAN]
  /\ answer = Asked

TooShort ==
  /\ answer.stage = "asked" /\ Len(Values(request.counts)) < 12
  /\ answer' = [answer EXCEPT !.stage = "insufficient"]
  /\ UNCHANGED request

\* No shift is reported, or one old enough to model what follows it.
Segment(split) ==
  LET values == Values(request.counts)
      kept   == SubSeq(values, split + 1, Len(values))
  IN
  /\ answer.stage = "asked" /\ Len(values) >= 12
  /\ split = 0 \/ (split >= 3 /\ Len(values) - split >= 6)
  /\ answer' = [answer EXCEPT !.stage = "segmented", !.values = kept, !.season = Season(kept)]
  /\ UNCHANGED request

\* _regime_change_estimate: the shift is too recent, its level is carried on.
LevelEstimate(split, gap) ==
  LET values == Values(request.counts)
      recent == SubSeq(values, split + 1, Len(values))
      sorted == SortSeq(recent, <)
      level  == (sorted[(Len(recent) + 1) \div 2] + sorted[Len(recent) \div 2 + 1]) \div 2
      radius == Max({Last(sorted) - sorted[1], gap \div 4, Absolute(level) \div 10})
  IN
  /\ answer.stage = "asked" /\ Len(values) >= 12
  /\ split >= 3 /\ Len(values) - split \in 3..5
  /\ answer' = [answer EXCEPT !.stage = "regime_change",
                !.forecast = [k \in 1..request.horizon |->
                  [period |-> NextMonth(Last(Periods(request.counts)), k),
                   value |-> level, radius |-> <<radius * radius * k, 1>>]]]
  /\ UNCHANGED request

EvaluatedSteps(values) == Min({request.horizon, HoldoutLength(values, request.horizon)})

Select ==
  LET working == Working(answer.values, request.horizon)
      candidates == Candidates(answer.season, working, EvaluatedSteps(answer.values))
  IN
  /\ answer.stage = "segmented"
  /\ answer' = IF candidates = {} THEN [answer EXCEPT !.stage = "insufficient"]
               ELSE [answer EXCEPT !.stage = "selected", !.model = Chosen(candidates)]
  /\ UNCHANGED request

Calibrate ==
  /\ answer.stage = "selected"
  /\ answer' = [answer EXCEPT !.stage = "calibrated",
                !.radii = Radii(answer.model, answer.season,
                                Working(answer.values, request.horizon),
                                EvaluatedSteps(answer.values), request.horizon)]
  /\ UNCHANGED request

\* The reserved months measure the band; one that covers too few is widened to
\* their errors, as they are reported, and measured again against those rows.
Evaluate ==
  LET values  == answer.values
      working == Working(values, request.horizon)
      start   == Len(values) - HoldoutLength(values, request.horizon)
      measured == [k \in 1..EvaluatedSteps(values) |->
                    [actual     |-> values[start + k],
                     prediction |-> Clip(Predict(answer.model, answer.season, working, k))]]
      holdout == [k \in DOMAIN measured |-> Reported(measured[k])]
      needed  == Quantile([k \in DOMAIN holdout |-> Absolute(holdout[k].error)])
      covered == Covered(measured, answer.radii, <<1, 1>>)
      narrow  == /\ 100 * covered < Interval * Len(holdout)
                 /\ needed * needed > answer.radii[1] /\ answer.radii[1] > 0
      widening == IF narrow THEN <<needed * needed, answer.radii[1]>> ELSE <<1, 1>>
  IN
  /\ answer.stage = "calibrated"
  /\ answer' = [answer EXCEPT !.stage = "evaluated", !.holdout = holdout, !.widened = narrow,
                !.widening = widening,
                !.coverage = IF narrow THEN Covered(holdout, answer.radii, widening) ELSE covered]
  /\ UNCHANGED request

\* The model is refitted on the whole segment, and the radii are the widened ones.
Publish ==
  /\ answer.stage = "evaluated"
  /\ answer' = [answer EXCEPT !.stage = "completed",
                !.forecast = [k \in 1..request.horizon |->
                  [period |-> NextMonth(Last(Periods(request.counts)), k),
                   value  |-> Clip(Predict(answer.model, answer.season, answer.values, k)),
                   radius |-> <<answer.radii[k] * answer.widening[1], answer.widening[2]>>]]]
  /\ UNCHANGED request

ForecastNext ==
  \/ TooShort
  \/ \E split \in 0..(Len(Values(request.counts)) - 3) :
       Segment(split) \/ \E gap \in Gaps : LevelEstimate(split, gap)
  \/ Select \/ Calibrate \/ Evaluate \/ Publish

-----------------------------------------------------------------------------
(* Properties.                                                             *)

\* "The holdout is reserved first so nothing can leak into it": once the
\* history is cut, what is selected and how it is calibrated do not depend on
\* the months held out, whatever their values had been.
HoldoutUnseen ==
  answer.stage = "calibrated" =>
    LET n == Len(answer.values)
        held == HoldoutLength(answer.values, request.horizon)
    IN \A other \in {-1, 9} :
         LET values == [i \in 1..n |-> IF i > n - held THEN other ELSE answer.values[i]]
             working == Working(values, request.horizon)
         IN /\ answer.model = Chosen(Candidates(answer.season, working, EvaluatedSteps(values)))
            /\ answer.radii = Radii(answer.model, answer.season, working,
                                    EvaluatedSteps(values), request.horizon)

\* "widening it is the honest response": within the radius published at every
\* horizon lies at least the share asked for of the errors reported for the
\* months held out, and the coverage published beside it falls short of that
\* share by no more than the months it cannot count: those whose actual value is
\* below the zero at which the band is cut, and those whose rounded error is not
\* the difference of the rounded values.
WidenedBandCovers ==
  answer.stage = "completed" /\ answer.widened =>
    LET rows == answer.holdout
        uncounted(j) == \/ request.nonNegative /\ rows[j].actual < 0
                        \/ rows[j].error # rows[j].actual - rows[j].prediction
    IN /\ \A k \in 1..request.horizon :
            LET radius == answer.forecast[k].radius
            IN 100 * Quantify(DOMAIN rows,
                              LAMBDA j : rows[j].error * rows[j].error * radius[2] <= radius[1])
                 >= Interval * Len(rows)
       /\ 100 * (answer.coverage + Quantify(DOMAIN rows, uncounted)) >= Interval * Len(rows)

\* What is forecast are the months that follow the last one recorded, every one
\* of them and in order.
MonthsFollow ==
  answer.stage \in {"completed", "regime_change"} =>
    LET last == Last(Periods(request.counts))
    IN /\ last \in DOMAIN request.counts
       /\ \A p \in DOMAIN request.counts : MonthNumber(p) <= MonthNumber(last)
       /\ Len(answer.forecast) = request.horizon
       /\ \A k \in 1..request.horizon :
            LET p == answer.forecast[k].period
            IN p[2] \in 1..12 /\ MonthNumber(p) - MonthNumber(last) = k

\* A year of history is enough: whatever shift is detected, some model can be
\* evaluated, and the answer is about the months that follow.
YearIsEnough ==
  /\ answer.stage = "insufficient" => Len(Values(request.counts)) < 12
  /\ MonthsFollow
=============================================================================
