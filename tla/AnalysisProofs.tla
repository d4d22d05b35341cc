--------------------------- MODULE AnalysisProofs ---------------------------
(***************************************************************************)
(* The analytical tools, for any data: FiguresEvidenced of Overview, for   *)
(* any records, viewers and number of overviews under way; OneQueue and    *)
(* AssignmentsSound of Planning, for any agents, arrivals, service times,  *)
(* workers and tasks; YearIsEnough, WidenedBandCovers and HoldoutUnseen of *)
(* Forecasting, for any histories, horizons and shifts; and                *)
(* ConcentrationJudged of Insights, for any totals.                        *)
(***************************************************************************)
EXTENDS Overview, Planning, Forecasting, Insights, SumLemmas, SequenceTheorems

-----------------------------------------------------------------------------
(* The overview: what its SELECTs depend on.                               *)

OverviewSpec == OverviewInit /\ [][OverviewNext]_overviewVars

\* Overviews of one scope find the same records.
LEMMA SameScope ==
  ASSUME NEW v, NEW w, ScopeOf(v) = ScopeOf(w), NEW stored
  PROVE  Found(v, stored) = Found(w, stored)
<1>1. Scoped(v) <=> Scoped(w)
  BY DEF ScopeOf
<1>2. Scoped(v) => v.departments = w.departments
  BY <1>1 DEF ScopeOf
<1>3. \A kind : Of(kind, v, stored) = Of(kind, w, stored)
  BY <1>1, <1>2 DEF Of
<1>. QED
  BY <1>3 DEF Found

\* The records found for a department manager are the departments' own.
LEMMA OwnOf ==
  ASSUME NEW v, Scoped(v), NEW kind, kind \notin {"customer", "supplier"}
  PROVE  Of(kind, v, recorded) = Of(kind, v, OwnRecords(v))
  BY DEF Of, OwnRecords

LEMMA OwnFound ==
  ASSUME NEW v, Scoped(v)
  PROVE  Found(v, recorded) = Found(v, OwnRecords(v))
  BY OwnOf DEF Found

LEMMA OwnItems ==
  ASSUME NEW v, Scoped(v), NEW page \in Pages
  PROVE  Items(v, page, recorded) = Items(v, page, OwnRecords(v))
<1>1. /\ Of("order", v, recorded) = Of("order", v, OwnRecords(v))
      /\ Of("case", v, recorded) = Of("case", v, OwnRecords(v))
  BY OwnOf
<1>2. {r \in recorded : r.kind = "customer"} = {r \in OwnRecords(v) : r.kind = "customer"}
  BY DEF OwnRecords
<1>3. CASE page = "customers"
  BY <1>1, <1>2, <1>3 DEF Items
<1>4. CASE page = "people"
  <2> DEFINE limited == Scoped(v) \/ ("department" \in v.people /\ "approved" \notin v.people)
             staff(stored) == {r \in stored : r.kind = "employee"
                                              /\ (limited => r.department \in v.departments)}
             listed(people) ==
               IF "aggregate" \in v.people /\ "approved" \notin v.people
               THEN {<<d, Cardinality({r \in people : r.department = d})>> :
                       d \in {r.department : r \in people}}
               ELSE IF v.people = {} THEN {} ELSE people
  <2>1. staff(recorded) = staff(OwnRecords(v))
    BY DEF OwnRecords
  <2>2. Shown(page, staff(recorded)) = Shown(page, staff(OwnRecords(v)))
    BY <2>1
  <2>3. /\ Items(v, page, recorded) = listed(Shown(page, staff(recorded)))
        /\ Items(v, page, OwnRecords(v)) = listed(Shown(page, staff(OwnRecords(v))))
    BY <1>4, Zenon DEF Items
  <2>. HIDE DEF listed, staff
  <2>. QED
    BY <2>2, <2>3
<1>5. CASE page = "suppliers"
  BY <1>5 DEF Items
<1>6. CASE page \in DOMAIN KindOn
  <2>1. Of(KindOn[page], v, recorded) = Of(KindOn[page], v, OwnRecords(v))
    BY <1>6, OwnOf DEF KindOn
  <2>. QED
    BY <1>6, <2>1 DEF Items, KindOn
<1>. QED
  BY <1>3, <1>4, <1>5, <1>6 DEF Pages

-----------------------------------------------------------------------------
(* The overview: the results its figures cite.                             *)

QueryOf(m) == IF m \in {"net_revenue", "gross_margin"} THEN "orders"
              ELSE IF m = "support_case_count" THEN "cases" ELSE "projects"

\* The figure of a metric as the records stand.
Figure(m, found) == Figures(QueryOf(m), found)[m]

Shaped(v) ==
  /\ DOMAIN v.figures = ToSet(Metrics)
  /\ DOMAIN v = {"at", "viewer", "step", "figures", "new", "trend", "mixed"}
  /\ v.at \in {"closed", "reading", "checking", "trend", "attention"}
  /\ v.at = "reading" => v.step \in 1..3 /\ v.new = {}
  /\ v.at = "checking" => v.step \in 1..5 /\ v.new \subseteq ToSet(Metrics)

Shapes == view = [t \in Views |-> view[t]] /\ \A t \in Views : Shaped(view[t])

\* Overviews under way at the same time have all met a change, or none has, ...
Together ==
  \A s, t \in Views : Underway(s) /\ Underway(t) => (view[s].mixed <=> view[t].mixed)

\* ... and without a change they read what is recorded now.
HasRead(v, m) == v.at = "checking" \/ \E i \in 1..(v.step - 1) : Queries[i] = QueryOf(m)

Current(t) ==
  Underway(t) /\ ~view[t].mixed =>
    \A m \in ToSet(Metrics) :
      HasRead(view[t], m) => view[t].figures[m] = Figure(m, Found(view[t].viewer, recorded))

\* A result that was looked up is there, or about to be stored.
LookedUp(t) ==
  view[t].at = "checking" =>
    \A k \in 1..(view[t].step - 1) :
      Metrics[k] \in view[t].new \/ IdOf(t, Metrics[k]) \in DOMAIN evidence

\* All results are there ...
Cited(t) == \A m \in ToSet(Metrics) : IdOf(t, m) \in DOMAIN evidence

\* ... if another overview stored one of those this one is about to store, ...
Overtaken(t) ==
  view[t].at = "checking" /\ ~view[t].mixed
    /\ (\E m \in view[t].new : IdOf(t, m) \in DOMAIN evidence) => Cited(t)

\* ... and when the figures are shown.
Evidenced(t) == view[t].at \in {"trend", "attention"} /\ ~view[t].mixed => Cited(t)

Truthful == \A id \in DOMAIN evidence : evidence[id] = id[3]

Sound(t) == Current(t) /\ LookedUp(t) /\ Overtaken(t) /\ Evidenced(t)

OInv == Shapes /\ Together /\ Truthful /\ \A t \in Views : Sound(t)

LEMMA ShapedNew == Shaped(NoView) /\ NoView.at = "closed"
  BY DEF NoView, NoFigures, Shaped

LEMMA InitOInv == OverviewInit => OInv
<1> SUFFICES ASSUME OverviewInit PROVE OInv
  OBVIOUS
<1>1. view = [t \in Views |-> view[t]] /\ \A t \in Views : view[t] = NoView
  BY DEF OverviewInit
<1>2. Shapes /\ Together
  BY <1>1, ShapedNew DEF Shapes, Together, Underway
<1>3. Truthful
  BY DEF OverviewInit, Truthful
<1>4. \A t \in Views : Sound(t)
  BY <1>1, ShapedNew DEF Sound, Current, LookedUp, Overtaken, Evidenced, Underway
<1>. QED
  BY <1>2, <1>3, <1>4 DEF OInv

LEMMA FourMetrics ==
  /\ ToSet(Metrics) = {"net_revenue", "gross_margin", "support_case_count", "project_delay_rate"}
  /\ Len(Metrics) = 4 /\ Len(Queries) = 3
  /\ \A k \in 1..4 : Metrics[k] \in ToSet(Metrics)
  /\ \A m \in ToSet(Metrics) : \E k \in 1..4 : Metrics[k] = m
  /\ \A m \in ToSet(Metrics) : \E i \in 1..3 : Queries[i] = QueryOf(m)
  /\ \A i, j \in 1..3 : Queries[i] = Queries[j] => i = j
  BY DEF Metrics, Queries, ToSet, QueryOf

LEMMA FiguresOf ==
  ASSUME NEW i \in 1..3, NEW found
  PROVE  /\ DOMAIN Figures(Queries[i], found) = {m \in ToSet(Metrics) : QueryOf(m) = Queries[i]}
         /\ \A m \in DOMAIN Figures(Queries[i], found) : Figures(Queries[i], found)[m] = Figure(m, found)
<1>1. ToSet(Metrics) = {"net_revenue", "gross_margin", "support_case_count", "project_delay_rate"}
  BY FourMetrics
<1>2. /\ Queries[1] = "orders" /\ Queries[2] = "cases" /\ Queries[3] = "projects"
      /\ i \in {1, 2, 3}
  BY DEF Queries
<1>3. DOMAIN Figures("orders", found) = {"net_revenue", "gross_margin"}
  BY DEF Figures
<1>4. DOMAIN Figures("cases", found) = {"support_case_count"}
  BY DEF Figures
<1>5. DOMAIN Figures("projects", found) = {"project_delay_rate"}
  BY DEF Figures
<1>. QED
  BY <1>1, <1>2, <1>3, <1>4, <1>5 DEF QueryOf, Figure

\* A step of one overview that leaves the results alone leaves the others as they are.
LEMMA OthersSound ==
  ASSUME OInv, NEW t \in Views, NEW s \in Views \ {t},
         view'[s] = view[s], UNCHANGED <<recorded, evidence>>
  PROVE  Sound(s)'
<1>1. Sound(s)
  BY DEF OInv
<1>. QED
  BY <1>1 DEF Sound, Current, LookedUp, Overtaken, Evidenced, Cited, IdOf, Underway

LEMMA StepOpen ==
  ASSUME OInv, NEW t \in Views, NEW v \in Viewers, OpenView(t, v) PROVE OInv'
<1>1. /\ view'[t] = [NoView EXCEPT !.at = "reading", !.viewer = v, !.step = 1,
           !.mixed = \E other \in Views \ {t} : Underway(other) /\ view[other].mixed]
      /\ \A s \in Views \ {t} : view'[s] = view[s]
      /\ view' = [s \in Views |-> view'[s]] /\ UNCHANGED <<recorded, evidence>>
  BY DEF OpenView, OInv, Shapes
<1>2. /\ view'[t].at = "reading" /\ view'[t].step = 1
      /\ view'[t].mixed = \E other \in Views \ {t} : Underway(other) /\ view[other].mixed
  BY <1>1 DEF NoView
<1>3. Shaped(view'[t])
  BY <1>1, ShapedNew DEF Shaped, NoView
<1>4. Shapes'
  BY <1>1, <1>3 DEF OInv, Shapes
<1>5. Together'
  BY <1>1, <1>2 DEF OInv, Together, Underway
<1>6. Sound(t)'
  BY <1>2 DEF Sound, Current, LookedUp, Overtaken, Evidenced, HasRead
<1>7. Truthful'
  BY <1>1 DEF OInv, Truthful
<1>. QED
  BY <1>1, <1>4, <1>5, <1>6, <1>7, OthersSound DEF OInv

LEMMA StepRead ==
  ASSUME OInv, NEW t \in Views, ReadFigures(t) PROVE OInv'
<1> DEFINE read == Figures(Queries[view[t].step], Found(view[t].viewer, recorded))
<1>1. /\ Shaped(view[t]) /\ view[t].at = "reading" /\ view[t].step \in 1..3 /\ view[t].new = {}
  BY DEF OInv, Shapes, Shaped, ReadFigures
<1>2. /\ view'[t] = [view[t] EXCEPT
           !.at = IF view[t].step = 3 THEN "checking" ELSE "reading",
           !.step = IF view[t].step = 3 THEN 1 ELSE view[t].step + 1,
           !.figures = [m \in ToSet(Metrics) |->
                          IF m \in DOMAIN read THEN read[m] ELSE view[t].figures[m]]]
      /\ \A s \in Views \ {t} : view'[s] = view[s]
      /\ view' = [s \in Views |-> view'[s]] /\ UNCHANGED <<recorded, evidence>>
  BY FourMetrics DEF ReadFigures, OInv, Shapes
<1>3. /\ view'[t].at = IF view[t].step = 3 THEN "checking" ELSE "reading"
      /\ view'[t].step = IF view[t].step = 3 THEN 1 ELSE view[t].step + 1
      /\ view'[t].new = {} /\ view'[t].viewer = view[t].viewer /\ view'[t].mixed = view[t].mixed
      /\ view'[t].figures = [m \in ToSet(Metrics) |-> IF m \in DOMAIN read THEN read[m] ELSE view[t].figures[m]]
  BY <1>1, <1>2 DEF Shaped
<1>4. Shaped(view'[t])
  BY <1>1, <1>2, <1>3 DEF Shaped
<1>5. Shapes'
  BY <1>2, <1>4 DEF OInv, Shapes
<1>6. Together'
  <2>1. \A s \in Views : view'[s].mixed = view[s].mixed /\ (Underway(s)' => Underway(s))
    BY <1>1, <1>2, <1>3 DEF Underway
  <2>. QED
    BY <2>1 DEF OInv, Together
<1>7. Current(t)'
  <2> SUFFICES ASSUME ~view[t].mixed, NEW m \in ToSet(Metrics), HasRead(view'[t], m)
               PROVE  view'[t].figures[m] = Figure(m, Found(view[t].viewer, recorded))
    BY <1>2, <1>3 DEF Current
  <2>1. /\ DOMAIN read = {n \in ToSet(Metrics) : QueryOf(n) = Queries[view[t].step]}
        /\ \A n \in DOMAIN read : read[n] = Figure(n, Found(view[t].viewer, recorded))
    BY <1>1, FiguresOf
  <2>2. CASE m \in DOMAIN read
    BY <1>3, <2>1, <2>2
  <2>3. CASE m \notin DOMAIN read
    <3>1. HasRead(view[t], m)
      BY <1>1, <1>3, <2>1, <2>3, FourMetrics DEF HasRead
    <3>2. view[t].figures[m] = Figure(m, Found(view[t].viewer, recorded))
      BY <1>1, <3>1 DEF OInv, Sound, Current, Underway
    <3>. QED
      BY <1>3, <2>3, <3>2
  <2>. QED
    BY <2>2, <2>3
<1>8. Sound(t)'
  BY <1>3, <1>7 DEF Sound, LookedUp, Overtaken, Evidenced
<1>9. Truthful'
  BY <1>2 DEF OInv, Truthful
<1>. QED
  BY <1>2, <1>5, <1>6, <1>8, <1>9, OthersSound DEF OInv

LEMMA StepLookUp ==
  ASSUME OInv, NEW t \in Views, LookUp(t) PROVE OInv'
<1> DEFINE k == view[t].step
<1>1. /\ Shaped(view[t]) /\ view[t].at = "checking" /\ k \in 1..4
      /\ view[t].new \subseteq ToSet(Metrics) /\ Metrics[k] \in ToSet(Metrics)
  BY FourMetrics DEF OInv, Shapes, Shaped, LookUp
<1>2. /\ view'[t] = [view[t] EXCEPT
           !.step = k + 1,
           !.new = view[t].new \cup {m \in {Metrics[k]} : IdOf(t, m) \notin DOMAIN evidence}]
      /\ \A s \in Views \ {t} : view'[s] = view[s]
      /\ view' = [s \in Views |-> view'[s]] /\ UNCHANGED <<recorded, evidence>>
  BY DEF LookUp, OInv, Shapes
<1>3. /\ view'[t].at = "checking" /\ view'[t].step = k + 1
      /\ view'[t].new = view[t].new \cup {m \in {Metrics[k]} : IdOf(t, m) \notin DOMAIN evidence}
      /\ view'[t].viewer = view[t].viewer /\ view'[t].mixed = view[t].mixed
      /\ view'[t].figures = view[t].figures
  BY <1>1, <1>2 DEF Shaped
<1>4. Shapes'
  <2>1. Shaped(view'[t])
    BY <1>1, <1>2, <1>3 DEF Shaped
  <2>. QED
    BY <1>2, <2>1 DEF OInv, Shapes
<1>5. Together'
  <2>1. \A s \in Views : view'[s].mixed = view[s].mixed /\ (Underway(s)' => Underway(s))
    BY <1>1, <1>2, <1>3 DEF Underway
  <2>. QED
    BY <2>1 DEF OInv, Together
<1>6. \A m : IdOf(t, m)' = IdOf(t, m)
  BY <1>3 DEF IdOf
<1>7. Sound(t)
  BY DEF OInv
<1>8. Current(t)'
  BY <1>1, <1>2, <1>3, <1>7 DEF Sound, Current, Underway, HasRead
<1>9. LookedUp(t)'
  BY <1>1, <1>2, <1>3, <1>6, <1>7 DEF Sound, LookedUp
<1>10. Overtaken(t)'
  BY <1>1, <1>2, <1>3, <1>6, <1>7 DEF Sound, Overtaken, Cited
<1>11. Sound(t)'
  BY <1>3, <1>8, <1>9, <1>10 DEF Sound, Evidenced
<1>12. Truthful'
  BY <1>2 DEF OInv, Truthful
<1>. QED
  BY <1>2, <1>4, <1>5, <1>11, <1>12, OthersSound DEF OInv

\* What is stored stays; the results of an overview that sees a name clash are there.
LEMMA StepStore ==
  ASSUME OInv, NEW t \in Views, StoreEvidence(t) PROVE OInv'
<1> DEFINE new   == view[t].new
           added == {IdOf(t, m) : m \in new}
           kept  == added \cap DOMAIN evidence # {}
<1>1. /\ Shaped(view[t]) /\ view[t].at = "checking" /\ view[t].step = 5 /\ new \subseteq ToSet(Metrics)
      /\ Sound(t)
  BY FourMetrics DEF OInv, Shapes, Shaped, StoreEvidence
<1>2. /\ view'[t] = [view[t] EXCEPT !.at = "trend"]
      /\ \A s \in Views \ {t} : view'[s] = view[s]
      /\ view' = [s \in Views |-> view'[s]] /\ UNCHANGED recorded
  BY DEF StoreEvidence, OInv, Shapes
<1>3. /\ view'[t].at = "trend"
      /\ view'[t].viewer = view[t].viewer /\ view'[t].mixed = view[t].mixed
      /\ view'[t].figures = view[t].figures
  BY <1>1, <1>2 DEF Shaped
<1>4. \A s \in Views : \A m : IdOf(s, m)' = IdOf(s, m)
  BY <1>2, <1>3 DEF IdOf
<1>5. /\ DOMAIN evidence' = DOMAIN evidence \cup (IF kept THEN {} ELSE added)
      /\ \A id \in DOMAIN evidence : evidence'[id] = evidence[id]
      /\ \A id \in DOMAIN evidence' \ DOMAIN evidence : evidence'[id] = id[3]
  <2> DEFINE figureOf(id) == view[t].figures[CHOOSE m \in new : IdOf(t, m) = id]
  <2>1. evidence' = IF kept THEN evidence
                    ELSE [id \in added \cup DOMAIN evidence |->
                            IF id \in added THEN figureOf(id) ELSE evidence[id]]
    BY DEF StoreEvidence
  <2>2. ASSUME NEW id \in added PROVE figureOf(id) = id[3]
    <3> DEFINE m == CHOOSE m \in new : IdOf(t, m) = id
    <3>1. m \in new /\ IdOf(t, m) = id
      OBVIOUS
    <3>. HIDE DEF m
    <3>. QED
      BY <3>1 DEF IdOf, ResultId
  <2>. HIDE DEF figureOf, added
  <2>. QED
    BY <2>1, <2>2
<1>. HIDE DEF added
<1>6. Cited(t)' \/ view[t].mixed
  <2> SUFFICES ASSUME ~view[t].mixed, NEW m \in ToSet(Metrics)
               PROVE  IdOf(t, m) \in DOMAIN evidence'
    BY <1>4 DEF Cited
  <2>1. PICK k \in 1..4 : Metrics[k] = m
    BY FourMetrics
  <2>2. m \in new \/ IdOf(t, m) \in DOMAIN evidence
    BY <1>1, <2>1 DEF Sound, LookedUp
  <2>3. CASE kept
    <3>1. \E n \in new : IdOf(t, n) \in DOMAIN evidence
      BY <2>3 DEF added
    <3>. QED
      BY <1>1, <1>5, <3>1 DEF Sound, Overtaken, Cited
  <2>4. CASE ~kept
    BY <1>5, <2>2, <2>4 DEF added
  <2>. QED
    BY <2>3, <2>4
<1>7. ASSUME NEW s \in Views \ {t} PROVE Sound(s)'
  <2>1. Sound(s) /\ view'[s] = view[s]
    BY <1>2 DEF OInv
  <2>2. Cited(s) => Cited(s)'
    BY <1>4, <1>5 DEF Cited
  <2>3. Current(s)' /\ Evidenced(s)'
    BY <1>2, <2>1, <2>2 DEF Sound, Current, Evidenced, Underway
  <2>4. LookedUp(s)'
    BY <1>4, <1>5, <2>1 DEF Sound, LookedUp
  <2>5. Overtaken(s)'
    <3> SUFFICES ASSUME view[s].at = "checking", ~view[s].mixed,
                        NEW m \in view[s].new, IdOf(s, m) \in DOMAIN evidence'
                 PROVE  Cited(s)'
      BY <1>4, <2>1 DEF Overtaken
    <3>1. CASE IdOf(s, m) \in DOMAIN evidence
      BY <2>1, <2>2, <3>1 DEF Sound, Overtaken
    <3>2. CASE IdOf(s, m) \notin DOMAIN evidence
      <4>1. PICK n \in new : IdOf(s, m) = IdOf(t, n)
        BY <1>5, <3>2 DEF added
      <4>2. ScopeOf(view[s].viewer) = ScopeOf(view[t].viewer)
        BY <4>1 DEF IdOf, ResultId
      <4>3. Found(view[s].viewer, recorded) = Found(view[t].viewer, recorded)
        BY <4>2, SameScope
      <4>4. ~view[t].mixed
        BY <1>1 DEF OInv, Together, Underway
      <4>5. \A x \in ToSet(Metrics) : view[s].figures[x] = view[t].figures[x]
        BY <1>1, <2>1, <4>3, <4>4 DEF Sound, Current, Underway, HasRead
      <4>6. \A x \in ToSet(Metrics) : IdOf(s, x) = IdOf(t, x)
        BY <4>2, <4>5 DEF IdOf, ResultId
      <4>. QED
        BY <1>4, <1>6, <4>4, <4>6 DEF Cited
    <3>. QED
      BY <3>1, <3>2
  <2>. QED
    BY <2>3, <2>4, <2>5 DEF Sound
<1>8. Sound(t)'
  BY <1>3, <1>6 DEF Sound, Current, LookedUp, Overtaken, Evidenced, Underway
<1>9. Shapes'
  <2>1. Shaped(view'[t])
    BY <1>1, <1>2, <1>3 DEF Shaped
  <2>. QED
    BY <1>2, <2>1 DEF OInv, Shapes
<1>10. Together'
  <2>1. \A s \in Views : view'[s].mixed = view[s].mixed /\ (Underway(s)' => Underway(s))
    BY <1>1, <1>2, <1>3 DEF Underway
  <2>. QED
    BY <2>1 DEF OInv, Together
<1>11. Truthful'
  BY <1>5 DEF OInv, Truthful
<1>. QED
  BY <1>7, <1>8, <1>9, <1>10, <1>11 DEF OInv

LEMMA StepShow ==
  ASSUME OInv, NEW t \in Views, ReadTrend(t) \/ ReadAttention(t) PROVE OInv'
<1>1. Shaped(view[t]) /\ view[t].at \in {"trend", "attention"} /\ Sound(t)
  BY DEF OInv, Shapes, ReadTrend, ReadAttention
<1>2. /\ view'[t] \in {NoView, [view[t] EXCEPT !.at = "attention",
                                 !.trend = Trend(Found(view[t].viewer, recorded))]}
      /\ \A s \in Views \ {t} : view'[s] = view[s]
      /\ view' = [s \in Views |-> view'[s]] /\ UNCHANGED <<recorded, evidence>>
  BY DEF ReadTrend, ReadAttention, OInv, Shapes
<1>3. /\ Shaped(view'[t]) /\ ~Underway(t)'
      /\ \/ view'[t].at = "closed"
         \/ /\ view'[t].viewer = view[t].viewer /\ view'[t].figures = view[t].figures
            /\ view'[t].mixed = view[t].mixed
  BY <1>1, <1>2, ShapedNew DEF Shaped, Underway
<1>4. Shapes'
  BY <1>2, <1>3 DEF OInv, Shapes
<1>5. Together'
  <2>1. \A s \in Views : Underway(s)' => view'[s] = view[s] /\ Underway(s)
    BY <1>2, <1>3 DEF Underway
  <2>. QED
    BY <2>1 DEF OInv, Together
<1>6. Sound(t)'
  BY <1>1, <1>2, <1>3 DEF Sound, Current, LookedUp, Overtaken, Evidenced, Cited, IdOf, Underway
<1>7. Truthful'
  BY <1>2 DEF OInv, Truthful
<1>. QED
  BY <1>2, <1>4, <1>5, <1>6, <1>7, OthersSound DEF OInv

\* A change of the records is met by every overview under way.
LEMMA StepRevise ==
  ASSUME OInv, NEW r \in Revisable, Revise(r) PROVE OInv'
<1>1. /\ view' = [t \in Views |-> IF Underway(t) THEN [view[t] EXCEPT !.mixed = TRUE] ELSE view[t]]
      /\ UNCHANGED evidence
  BY DEF Revise
<1>2. ASSUME NEW t \in Views
      PROVE  /\ Shaped(view'[t]) /\ Sound(t)' /\ (Underway(t)' => view'[t].mixed)
  <2>1. Shaped(view[t]) /\ Sound(t)
    BY DEF OInv, Shapes
  <2>2. CASE Underway(t)
    <3>1. view'[t] = [view[t] EXCEPT !.mixed = TRUE]
      BY <1>1, <2>2
    <3>2. /\ view'[t].mixed /\ view'[t].at = view[t].at /\ view'[t].step = view[t].step
          /\ view'[t].new = view[t].new /\ view'[t].viewer = view[t].viewer
          /\ view'[t].figures = view[t].figures /\ DOMAIN view'[t] = DOMAIN view[t]
      BY <2>1, <3>1 DEF Shaped
    <3>3. Shaped(view'[t])
      BY <2>1, <3>2 DEF Shaped
    <3>4. LookedUp(t)'
      BY <1>1, <2>1, <3>2 DEF Sound, LookedUp, IdOf
    <3>. QED
      BY <3>2, <3>3, <3>4 DEF Sound, Current, Overtaken, Evidenced
  <2>3. CASE ~Underway(t)
    <3>1. view'[t] = view[t]
      BY <1>1, <2>3
    <3>. QED
      BY <1>1, <2>1, <2>3, <3>1
         DEF Sound, Current, LookedUp, Overtaken, Evidenced, Cited, IdOf, Underway
  <2>. QED
    BY <2>2, <2>3
<1>3. Shapes'
  BY <1>1, <1>2 DEF Shapes
<1>4. Together'
  BY <1>2 DEF Together
<1>5. Truthful'
  BY <1>1 DEF OInv, Truthful
<1>. QED
  BY <1>2, <1>3, <1>4, <1>5 DEF OInv

LEMMA NextOInv == OInv /\ [OverviewNext]_overviewVars => OInv'
<1> SUFFICES ASSUME OInv, [OverviewNext]_overviewVars PROVE OInv'
  OBVIOUS
<1>1. CASE OverviewNext
  BY <1>1, StepOpen, StepRead, StepLookUp, StepStore, StepShow, StepRevise DEF OverviewNext
<1>2. CASE UNCHANGED overviewVars
  BY <1>2 DEF overviewVars, OInv, Shapes, Together, Truthful, Sound, Current, LookedUp,
              Overtaken, Evidenced, Cited, IdOf, Underway
<1>. QED
  BY <1>1, <1>2

\* However many overviews run against each other, each of its figures cites a
\* stored result that says the same; and a department manager is shown nothing
\* that the records of other departments could change.
THEOREM OverviewsAreEvidenced == OverviewSpec => []FiguresEvidenced
<1>1. OverviewInit => OInv
  BY InitOInv
<1>2. OInv /\ [OverviewNext]_overviewVars => OInv'
  BY NextOInv
<1>3. OInv => FiguresEvidenced
  <2> SUFFICES ASSUME OInv, NEW t \in Views, view[t].at \in {"trend", "attention"}
               PROVE  LET v     == view[t].viewer
                          found == Found(v, recorded)
                          own   == Found(v, OwnRecords(v))
                      IN /\ ~view[t].mixed =>
                              \A m \in DOMAIN view[t].figures :
                                /\ IdOf(t, m) \in DOMAIN evidence
                                /\ evidence[IdOf(t, m)] = view[t].figures[m]
                         /\ Scoped(v) =>
                              /\ \A q \in ToSet(Queries) : Figures(q, found) = Figures(q, own)
                              /\ Trend(found) = Trend(own) /\ Attention(found) = Attention(own)
                              /\ \A page \in Pages :
                                   Items(v, page, recorded) = Items(v, page, OwnRecords(v))
    BY DEF FiguresEvidenced
  <2>1. ASSUME ~view[t].mixed, NEW m \in DOMAIN view[t].figures
        PROVE  IdOf(t, m) \in DOMAIN evidence /\ evidence[IdOf(t, m)] = view[t].figures[m]
    <3>1. m \in ToSet(Metrics)
      BY DEF OInv, Shapes, Shaped
    <3>2. IdOf(t, m) \in DOMAIN evidence
      BY <2>1, <3>1 DEF OInv, Sound, Evidenced, Cited
    <3>. QED
      BY <3>2 DEF OInv, Truthful, IdOf, ResultId
  <2>. QED
    BY <2>1, OwnFound, OwnItems
<1>. QED
  BY <1>1, <1>2, <1>3, PTL DEF OverviewSpec

-----------------------------------------------------------------------------
(* The simulated desk.  S is the log of those served, f when the agents    *)
(* are free, c the clock, and g says which agent served whom: the code     *)
(* does not record it, the argument needs it.                              *)

PlanningSpec == PlanningInit /\ [][PlanningNext]_planningVars

Servings == Nat \X Nat \X Nat

Line(S, f, N, c, g) ==
  /\ S \in Seq(Servings) /\ f \in [1..N -> Nat] /\ c \in Nat /\ g \in [1..Len(S) -> 1..N]
  /\ \A i \in 1..Len(S) :
       /\ S[i][1] <= c /\ S[i][3] <= f[g[i]]
       /\ S[i][2] = S[i][1] \/ \E k \in 1..(i - 1) : g[k] = g[i] /\ S[k][3] = S[i][2]
       /\ \A a \in 1..N : S[i][2] <= c \/ S[i][2] <= f[a]
  /\ \A i, j \in 1..Len(S) : i < j /\ g[i] = g[j] => S[i][3] <= S[j][2]
  /\ \A a \in 1..N : f[a] = 0 \/ \E i \in 1..Len(S) : g[i] = a /\ S[i][3] = f[a]

InService(S, t, n) == {j \in 1..n : S[j][2] <= t /\ t < S[j][3]}

\* What OneQueue says of customer i.
InTurn(S, N, i) ==
  /\ i > 1 => S[i - 1][2] <= S[i][2]
  /\ Cardinality(InService(S, S[i][2], i - 1)) < N
  /\ \A t \in S[i][1]..(S[i][2] - 1) : Cardinality(InService(S, t, i - 1)) = N

LEMMA Earlier ==
  ASSUME NEW n \in Nat, NEW j \in 1..n, NEW k \in 1..(j - 1)
  PROVE  k \in 1..n /\ k < j
OBVIOUS

LEMMA Appended ==
  ASSUME NEW S \in Seq(Servings), NEW last \in Servings, NEW more, more = Append(S, last)
  PROVE  /\ more \in Seq(Servings) /\ Len(more) = Len(S) + 1 /\ more[Len(S) + 1] = last
         /\ \A j \in 1..Len(S) : more[j] = S[j]
BY AppendProperties

LEMMA LineTypes ==
  ASSUME NEW S, NEW f, NEW N \in Nat \ {0}, NEW c, NEW g, Line(S, f, N, c, g)
  PROVE  /\ Len(S) \in Nat /\ c \in Nat
         /\ \A j \in 1..Len(S) : /\ S[j] \in Servings /\ g[j] \in 1..N
                                 /\ S[j][1] \in Nat /\ S[j][2] \in Nat /\ S[j][3] \in Nat
         /\ \A a \in 1..N : f[a] \in Nat
<1>1. S \in Seq(Servings) /\ f \in [1..N -> Nat] /\ c \in Nat /\ g \in [1..Len(S) -> 1..N]
  BY DEF Line
<1>2. Len(S) \in Nat /\ \A j \in 1..Len(S) : S[j] \in Servings
  BY <1>1, LenProperties, ElementOfSeq
<1>3. \A s \in Servings : s[1] \in Nat /\ s[2] \in Nat /\ s[3] \in Nat
  BY DEF Servings
<1>. QED
  BY <1>1, <1>2, <1>3

\* Those in service at a time have different agents.
LEMMA OneEach ==
  ASSUME NEW S, NEW f, NEW N \in Nat \ {0}, NEW c, NEW g, Line(S, f, N, c, g), NEW t \in Nat
  PROVE  /\ IsFiniteSet(InService(S, t, Len(S)))
         /\ [j \in InService(S, t, Len(S)) |-> g[j]] \in Injection(InService(S, t, Len(S)), 1..N)
<1> DEFINE B == InService(S, t, Len(S))
           h == [j \in B |-> g[j]]
<1>1. /\ Len(S) \in Nat /\ B \subseteq 1..Len(S)
      /\ \A j \in 1..Len(S) : S[j][2] \in Nat /\ S[j][3] \in Nat /\ g[j] \in 1..N
  BY LineTypes DEF InService
<1>2. IsFiniteSet(B)
  <2>1. IsFiniteSet(1..Len(S))
    BY <1>1, FS_Interval
  <2>. QED
    BY <1>1, <2>1, FS_Subset
<1>3. h \in [B -> 1..N]
  BY <1>1
<1>4. ASSUME NEW i \in B, NEW j \in B, g[i] = g[j], i < j PROVE FALSE
  <2>1. S[i][3] <= S[j][2]
    BY <1>1, <1>4 DEF Line
  <2>2. S[j][2] <= t /\ t < S[i][3]
    BY <1>4 DEF InService
  <2>. QED
    BY <1>1, <2>1, <2>2
<1>5. ASSUME NEW i \in B, NEW j \in B, g[i] = g[j] PROVE i = j
  BY <1>1, <1>4, <1>5
<1>6. h \in Injection(B, 1..N)
  <2>1. DOMAIN h = B /\ \A j \in B : h[j] = g[j]
    OBVIOUS
  <2>. HIDE DEF h
  <2>. QED
    BY <1>3, <1>5, <2>1 DEF Injection, IsInjective
<1>. QED
  BY <1>2, <1>6

\* Somebody is served by the agent who is free first: not all agents are busy
\* then, and all of them are while a customer waits.
LEMMA NextInTurn ==
  ASSUME NEW S, NEW f, NEW N \in Nat \ {0}, NEW c, NEW g, Line(S, f, N, c, g),
         NEW a \in 1..N, \A b \in 1..N : f[a] <= f[b],
         NEW arrival \in Nat, c <= arrival,
         NEW start \in Nat, arrival <= start, f[a] <= start, start = arrival \/ start = f[a]
  PROVE  /\ Cardinality(InService(S, start, Len(S))) < N
         /\ \A t \in arrival..(start - 1) : Cardinality(InService(S, t, Len(S))) = N
         /\ \A i \in 1..Len(S) : S[i][2] <= start
<1>1. /\ Len(S) \in Nat /\ c \in Nat /\ \A b \in 1..N : f[b] \in Nat
      /\ \A j \in 1..Len(S) : /\ S[j][1] \in Nat /\ S[j][2] \in Nat /\ S[j][3] \in Nat
                              /\ g[j] \in 1..N
  BY LineTypes
<1>2. IsFiniteSet(1..N) /\ Cardinality(1..N) = N
  BY FS_Interval
<1>3. Cardinality(InService(S, start, Len(S))) < N
  <2> DEFINE B == InService(S, start, Len(S))
             h == [j \in B |-> g[j]]
  <2>1. h \in Injection(B, 1..N) /\ IsFiniteSet(B)
    BY OneEach
  <2>2. Cardinality(B) <= N /\ (Cardinality(B) = N => h \in Surjection(B, 1..N))
    BY <1>2, <2>1, FS_Injection
  <2>3. \A j \in B : g[j] # a
    <3> SUFFICES ASSUME NEW j \in B, g[j] = a PROVE FALSE
      OBVIOUS
    <3>1. j \in 1..Len(S) /\ start < S[j][3]
      BY DEF InService
    <3>2. S[j][3] <= f[a]
      BY <3>1 DEF Line
    <3>. QED
      BY <1>1, <3>1, <3>2
  <2>4. h \notin Surjection(B, 1..N)
    <3>1. \A j \in B : h[j] # a
      BY <2>3
    <3>. QED
      BY <3>1 DEF Surjection
  <2>5. Cardinality(B) \in Nat
    BY <2>1, FS_CardinalityType
  <2>. QED
    BY <2>2, <2>4, <2>5
<1>4. ASSUME NEW t \in arrival..(start - 1) PROVE Cardinality(InService(S, t, Len(S))) = N
  <2> DEFINE B == InService(S, t, Len(S))
             h == [j \in B |-> g[j]]
  <2>0. t \in Nat /\ arrival <= t /\ t < start
    OBVIOUS
  <2>1. h \in Injection(B, 1..N) /\ IsFiniteSet(B)
    BY <2>0, OneEach
  <2>2. ASSUME NEW b \in 1..N PROVE \E j \in B : g[j] = b
    <3>1. t < f[b] /\ f[b] \in Nat
      BY <1>1, <2>0
    <3> DEFINE T == {j \in 1..Len(S) : g[j] = b /\ t < S[j][3]}
    <3>2. T # {} /\ T \subseteq Nat
      <4>1. f[b] # 0
        BY <2>0, <3>1
      <4>2. \E i \in 1..Len(S) : g[i] = b /\ S[i][3] = f[b]
        BY <4>1 DEF Line
      <4>. QED
        BY <1>1, <3>1, <4>2
    <3>3. PICK j \in T : \A k \in T : j <= k
      <4>. HIDE DEF T
      <4>. QED
        BY <3>2, LeastExists
    <3>4. S[j][1] <= c /\ j \in 1..Len(S) /\ g[j] = b
      BY DEF Line
    <3>5. S[j][2] <= t
      <4> SUFFICES ASSUME t < S[j][2] PROVE FALSE
        BY <1>1, <2>0, <3>4
      <4>1. S[j][2] # S[j][1]
        BY <1>1, <2>0, <3>4
      <4>2. PICK k \in 1..(j - 1) : g[k] = g[j] /\ S[k][3] = S[j][2]
        BY <3>4, <4>1 DEF Line
      <4>. HIDE DEF T
      <4>3. k \in 1..Len(S) /\ k < j
        <5>1. Len(S) \in Nat /\ j \in 1..Len(S)
          BY <1>1, <3>4
        <5>. QED
          BY <5>1, Earlier, Zenon
      <4>4. g[k] = b /\ t < S[k][3]
        BY <3>4, <4>2
      <4>5. j <= k
        BY <3>3, <4>3, <4>4 DEF T
      <4>. QED
        BY <3>4, <4>3, <4>5
    <3>. QED
      BY <3>4, <3>5 DEF InService
  <2>3. h \in Surjection(B, 1..N)
    <3>1. \A b \in 1..N : \E j \in B : h[j] = b
      BY <2>2
    <3>. QED
      BY <2>1, <3>1 DEF Injection, Surjection
  <2>. QED
    BY <1>2, <2>1, <2>3, FS_Injection
<1>5. ASSUME NEW i \in 1..Len(S) PROVE S[i][2] <= start
  <2>1. S[i][2] <= c \/ S[i][2] <= f[a]
    BY DEF Line
  <2>. QED
    BY <1>1, <2>1
<1>. QED
  BY <1>3, <1>4, <1>5

\* The line goes on with the next customer.
LEMMA LineGrows ==
  ASSUME NEW S, NEW f, NEW N \in Nat \ {0}, NEW c, NEW g, Line(S, f, N, c, g),
         NEW a \in 1..N, \A b \in 1..N : f[a] <= f[b],
         NEW arrival \in Nat, c <= arrival, NEW service \in Nat,
         NEW start \in Nat, arrival <= start, f[a] <= start, start = arrival \/ start = f[a],
         NEW more, more = Append(S, <<arrival, start, start + service>>),
         NEW free, free = [f EXCEPT ![a] = start + service]
  PROVE  \E who : Line(more, free, N, arrival, who)
<1> DEFINE n == Len(S) + 1
           last == <<arrival, start, start + service>>
           who == [j \in 1..n |-> IF j = n THEN a ELSE g[j]]
<1>1. /\ Len(S) \in Nat /\ c \in Nat /\ \A b \in 1..N : f[b] \in Nat
      /\ \A j \in 1..Len(S) : /\ S[j][1] \in Nat /\ S[j][2] \in Nat /\ S[j][3] \in Nat
                              /\ g[j] \in 1..N
      /\ S \in Seq(Servings) /\ f \in [1..N -> Nat]
  <2>1. S \in Seq(Servings) /\ f \in [1..N -> Nat]
    BY DEF Line
  <2>. QED
    BY <2>1, LineTypes
<1>2. last \in Servings /\ last[1] = arrival /\ last[2] = start /\ last[3] = start + service
  BY DEF Servings
<1>3. /\ more \in Seq(Servings) /\ Len(more) = n /\ more[n] = last
      /\ \A j \in 1..Len(S) : more[j] = S[j]
  <2>1. S \in Seq(Servings) /\ last \in Servings
    BY <1>1, <1>2
  <2>2. more = Append(S, last)
    OBVIOUS
  <2>. HIDE DEF last
  <2>. QED
    BY <2>1, <2>2, Appended
<1>4. /\ free \in [1..N -> Nat] /\ free[a] = start + service
      /\ \A b \in 1..N : b # a => free[b] = f[b]
  BY <1>1
<1>5. /\ who \in [1..n -> 1..N] /\ who[n] = a
      /\ \A j \in 1..Len(S) : who[j] = g[j]
  BY <1>1
<1>6. /\ f[a] <= start /\ arrival <= start /\ (start = arrival \/ start = f[a])
      /\ start <= start + service /\ start + service \in Nat
      /\ \A b \in 1..N : f[b] <= free[b]
  BY <1>1, <1>4
<1>7. n \in 1..n /\ \A j \in 1..n : j = n \/ j \in 1..Len(S)
  BY <1>1
<1>8. /\ \A i \in 1..Len(S) :
           /\ S[i][1] <= c /\ S[i][3] <= f[g[i]]
           /\ S[i][2] = S[i][1] \/ \E k \in 1..(i - 1) : g[k] = g[i] /\ S[k][3] = S[i][2]
           /\ \A b \in 1..N : S[i][2] <= c \/ S[i][2] <= f[b]
      /\ \A i, j \in 1..Len(S) : i < j /\ g[i] = g[j] => S[i][3] <= S[j][2]
      /\ \A b \in 1..N : f[b] = 0 \/ \E i \in 1..Len(S) : g[i] = b /\ S[i][3] = f[b]
  BY DEF Line
<1>. HIDE DEF last, who
<1>9. ASSUME NEW i \in 1..n
      PROVE  more[i][1] <= arrival /\ more[i][3] <= free[who[i]]
  <2>1. CASE i = n
    BY <1>2, <1>3, <1>4, <1>5, <1>6, <2>1
  <2>2. CASE i \in 1..Len(S)
    <3>1. S[i][1] <= c /\ S[i][3] <= f[g[i]]
      BY <1>8, <2>2
    <3>2. f[g[i]] <= free[g[i]] /\ free[g[i]] \in Nat
      BY <1>1, <1>4, <1>6, <2>2
    <3>3. more[i] = S[i] /\ who[i] = g[i]
      BY <1>3, <1>5, <2>2
    <3>4. S[i][1] \in Nat /\ S[i][3] \in Nat /\ f[g[i]] \in Nat
      <4>1. g[i] \in 1..N /\ S[i][1] \in Nat /\ S[i][3] \in Nat
        BY <1>1, <2>2
      <4>. QED
        BY <1>1, <4>1
    <3>5. S[i][1] <= arrival
      <4>1. c \in Nat /\ S[i][1] <= c
        BY <1>1, <3>1
      <4>. QED
        BY <3>4, <4>1
    <3>6. S[i][3] <= free[g[i]]
      BY <3>1, <3>2, <3>4
    <3>. QED
      BY <3>3, <3>5, <3>6
  <2>. QED
    BY <1>7, <2>1, <2>2
<1>10. ASSUME NEW i \in 1..n
       PROVE  more[i][2] = more[i][1] \/ \E k \in 1..(i - 1) : who[k] = who[i] /\ more[k][3] = more[i][2]
  <2>1. CASE i = n /\ start # arrival
    <3>1. f[a] # 0 /\ start = f[a]
      BY <1>1, <1>6, <2>1
    <3>2. PICK k \in 1..Len(S) : g[k] = a /\ S[k][3] = f[a]
      BY <1>8, <3>1
    <3>3. k \in 1..(i - 1)
      BY <1>1, <2>1
    <3>. QED
      BY <1>2, <1>3, <1>5, <2>1, <3>1, <3>2, <3>3
  <2>2. CASE i = n /\ start = arrival
    BY <1>2, <1>3, <2>2
  <2>3. CASE i \in 1..Len(S)
    <3>1. \A k \in 1..(i - 1) : k \in 1..Len(S)
      BY <1>1, <2>3
    <3>2. S[i][2] = S[i][1] \/ \E k \in 1..(i - 1) : g[k] = g[i] /\ S[k][3] = S[i][2]
      BY <1>8, <2>3
    <3>. QED
      BY <1>3, <1>5, <2>3, <3>1, <3>2
  <2>. QED
    BY <1>7, <2>1, <2>2, <2>3
<1>11. ASSUME NEW i \in 1..n, NEW b \in 1..N PROVE more[i][2] <= arrival \/ more[i][2] <= free[b]
  <2>1. CASE i = n
    BY <1>1, <1>2, <1>3, <1>4, <1>6, <2>1
  <2>2. CASE i \in 1..Len(S)
    <3>1. S[i][2] <= c \/ (S[i][2] <= f[b] /\ S[i][2] <= f[a])
      BY <1>8, <2>2
    <3>2. f[b] <= free[b] /\ free[b] \in Nat /\ f[b] \in Nat
      BY <1>1, <1>4, <1>6
    <3>3. S[i][2] \in Nat /\ more[i] = S[i] /\ c \in Nat
      BY <1>1, <1>3, <2>2
    <3>. QED
      BY <3>1, <3>2, <3>3, SMTT(30)
  <2>. QED
    BY <1>7, <2>1, <2>2
<1>12. ASSUME NEW i \in 1..n, NEW j \in 1..n, i < j, who[i] = who[j] PROVE more[i][3] <= more[j][2]
  <2>1. i \in 1..Len(S)
    BY <1>1, <1>12
  <2>2. CASE j = n
    <3>1. S[i][3] <= f[a]
      BY <1>5, <1>8, <1>12, <2>1, <2>2
    <3>. QED
      BY <1>1, <1>2, <1>3, <1>6, <2>1, <2>2, <3>1
  <2>3. CASE j \in 1..Len(S)
    <3>1. g[i] = g[j] /\ more[i] = S[i] /\ more[j] = S[j]
      BY <1>3, <1>5, <1>12, <2>1, <2>3
    <3>. QED
      BY <1>8, <1>12, <2>1, <2>3, <3>1
  <2>. QED
    BY <1>7, <2>2, <2>3
<1>13. ASSUME NEW b \in 1..N PROVE free[b] = 0 \/ \E i \in 1..n : who[i] = b /\ more[i][3] = free[b]
  <2>1. CASE b = a
    <3>1. n \in 1..n /\ who[n] = b /\ more[n][3] = free[b]
      BY <1>2, <1>3, <1>4, <1>5, <1>7, <2>1
    <3>. HIDE DEF n
    <3>. QED
      BY <3>1
  <2>2. CASE b # a
    <3>1. f[b] = 0 \/ \E i \in 1..Len(S) : g[i] = b /\ S[i][3] = f[b]
      BY <1>8
    <3>2. \A i \in 1..Len(S) : i \in 1..n
      BY <1>1
    <3>. QED
      BY <1>3, <1>4, <1>5, <2>2, <3>1, <3>2
  <2>. QED
    BY <2>1, <2>2
<1>14. Line(more, free, N, arrival, who)
  BY <1>3, <1>4, <1>5, <1>9, <1>10, <1>11, <1>12, <1>13, ZenonT(40) DEF Line
<1>. QED
  BY <1>14

\* Nothing happens to the line while time passes.
LEMMA TimePasses ==
  ASSUME NEW S, NEW f, NEW N \in Nat \ {0}, NEW c, NEW g, Line(S, f, N, c, g),
         NEW arrival \in Nat, c <= arrival
  PROVE  Line(S, f, N, arrival, g)
<1>1. /\ c \in Nat /\ \A j \in 1..Len(S) : S[j][1] \in Nat /\ S[j][2] \in Nat
  BY LineTypes
<1>2. \A i \in 1..Len(S) : S[i][1] <= c /\ \A a \in 1..N : S[i][2] <= c \/ S[i][2] <= f[a]
  BY DEF Line
<1>3. \A i \in 1..Len(S) : S[i][1] <= arrival
  BY <1>1, <1>2
<1>4. \A i \in 1..Len(S) : \A a \in 1..N : S[i][2] <= arrival \/ S[i][2] <= f[a]
  BY <1>1, <1>2
<1>. QED
  BY <1>3, <1>4 DEF Line

\* Who had his turn keeps it.
LEMMA TurnsKept ==
  ASSUME NEW S \in Seq(Servings), NEW T \in Seq(Servings), NEW N, NEW i \in 1..Len(S),
         \A j \in 1..Len(S) : T[j] = S[j], InTurn(S, N, i)
  PROVE  InTurn(T, N, i)
<1>1. Len(S) \in Nat /\ T[i] = S[i] /\ (i > 1 => T[i - 1] = S[i - 1])
  BY LenProperties
<1>2. \A t : InService(T, t, i - 1) = InService(S, t, i - 1)
  <2>1. \A j \in 1..(i - 1) : T[j] = S[j]
    BY <1>1
  <2>. QED
    BY <2>1 DEF InService
<1>. QED
  BY <1>1, <1>2 DEF InTurn

\* A line in which everybody was served in turn.
Served(S, f, N, c) ==
  /\ \E g : Line(S, f, N, c, g)
  /\ \A i \in 1..Len(S) : InTurn(S, N, i)

LEMMA OneMoreServed ==
  ASSUME NEW S, NEW f, NEW N \in Nat \ {0}, NEW c, Served(S, f, N, c),
         NEW a \in 1..N, \A b \in 1..N : f[a] <= f[b],
         NEW arrival \in Nat, c <= arrival, NEW service \in Nat,
         NEW start \in Nat, arrival <= start, f[a] <= start, start = arrival \/ start = f[a],
         NEW more, more = Append(S, <<arrival, start, start + service>>),
         NEW free, free = [f EXCEPT ![a] = start + service]
  PROVE  Served(more, free, N, arrival)
<1> DEFINE last == <<arrival, start, start + service>>
<1>1. PICK g : Line(S, f, N, c, g)
  BY DEF Served
<1>2. \E who : Line(more, free, N, arrival, who)
  BY <1>1, LineGrows
<1>3. /\ S \in Seq(Servings) /\ Len(S) \in Nat
      /\ last \in Servings /\ last[1] = arrival /\ last[2] = start
  <2>1. S \in Seq(Servings) /\ Len(S) \in Nat
    BY <1>1, LineTypes DEF Line
  <2>2. last \in Servings /\ last[1] = arrival /\ last[2] = start
    BY DEF Servings
  <2>. QED
    BY <2>1, <2>2
<1>4. /\ more \in Seq(Servings) /\ Len(more) = Len(S) + 1 /\ more[Len(S) + 1] = last
      /\ \A j \in 1..Len(S) : more[j] = S[j]
  <2>1. S \in Seq(Servings) /\ last \in Servings
    BY <1>3
  <2>2. more = Append(S, last)
    OBVIOUS
  <2>. HIDE DEF last
  <2>3. /\ Append(S, last) \in Seq(Servings) /\ Len(Append(S, last)) = Len(S) + 1
        /\ Append(S, last)[Len(S) + 1] = last
        /\ \A j \in 1..Len(S) : Append(S, last)[j] = S[j]
    BY <2>1, AppendProperties
  <2>. QED
    BY <2>2, <2>3, Zenon
<1>. HIDE DEF last
<1>5. /\ Cardinality(InService(S, start, Len(S))) < N
      /\ \A t \in arrival..(start - 1) : Cardinality(InService(S, t, Len(S))) = N
      /\ \A i \in 1..Len(S) : S[i][2] <= start
  BY <1>1, NextInTurn
<1>6. \A t : InService(more, t, Len(S)) = InService(S, t, Len(S))
  BY <1>4 DEF InService
<1>7. InTurn(more, N, Len(S) + 1)
  <2> DEFINE n == Len(S) + 1
  <2>1. n - 1 = Len(S) /\ more[n][1] = arrival /\ more[n][2] = start
    BY <1>3, <1>4
  <2>2. n > 1 => more[n - 1][2] <= more[n][2]
    <3>1. n > 1 => Len(S) \in 1..Len(S)
      BY <1>3
    <3>. QED
      BY <1>4, <1>5, <2>1, <3>1
  <2>3. Cardinality(InService(more, more[n][2], n - 1)) < N
    BY <1>5, <1>6, <2>1
  <2>4. \A t \in more[n][1]..(more[n][2] - 1) : Cardinality(InService(more, t, n - 1)) = N
    BY <1>5, <1>6, <2>1
  <2>. QED
    BY <2>2, <2>3, <2>4 DEF InTurn
<1>8. ASSUME NEW i \in 1..Len(more) PROVE InTurn(more, N, i)
  <2>1. CASE i \in 1..Len(S)
    BY <1>3, <1>4, <2>1, TurnsKept DEF Served
  <2>2. CASE i \notin 1..Len(S)
    BY <1>3, <1>4, <1>7, <2>2
  <2>. QED
    BY <2>1, <2>2
<1>. QED
  BY <1>2, <1>8 DEF Served

LEMMA NobodyServed ==
  ASSUME NEW N \in Nat \ {0}, NEW S, S = <<>>, NEW f, f = [a \in 1..N |-> 0]
  PROVE  Served(S, f, N, 0)
<1> DEFINE g == [i \in 1..Len(S) |-> 1]
<1>1. S \in Seq(Servings) /\ Len(S) = 0 /\ f \in [1..N -> Nat] /\ \A a \in 1..N : f[a] = 0
  OBVIOUS
<1>2. g \in [1..Len(S) -> 1..N] /\ 1..Len(S) = {}
  BY <1>1
<1>. HIDE DEF g
<1>3. Line(S, f, N, 0, g)
  BY <1>1, <1>2 DEF Line
<1>. QED
  BY <1>2, <1>3 DEF Served

Simulated ==
  /\ DOMAIN desk = {"freeAt", "clock", "completed", "open", "served"}
  /\ \E N \in Nat \ {0} : Served(desk.served, desk.freeAt, N, desk.clock)

DInv == desk = NoDesk \/ Simulated

LEMMA InitDInv == PlanningInit => DInv
<1> SUFFICES ASSUME NEW N \in Agents, desk = OpenDesk(N) PROVE Simulated
  BY DEF PlanningInit, DInv
<1>1. N \in Nat \ {0}
  BY PlanningAssumption
<1>2. /\ desk.freeAt = [a \in 1..N |-> 0] /\ desk.clock = 0 /\ desk.served = <<>>
      /\ DOMAIN desk = {"freeAt", "clock", "completed", "open", "served"}
  BY DEF OpenDesk
<1>3. Served(desk.served, desk.freeAt, N, 0)
  BY <1>1, <1>2, NobodyServed
<1>. QED
  BY <1>1, <1>2, <1>3 DEF Simulated

\* The agent who is free first.
LEMMA NextAgentFree ==
  ASSUME NEW d, NEW N \in Nat \ {0}, d.freeAt \in [1..N -> Nat]
  PROVE  NextAgent(d) \in 1..N /\ \A b \in 1..N : d.freeAt[NextAgent(d)] <= d.freeAt[b]
<1> DEFINE f == d.freeAt
           Times == {f[a] : a \in 1..N}
<1>1. 1 \in 1..N /\ Times \subseteq Nat /\ DOMAIN f = 1..N
  OBVIOUS
<1>2. PICK n \in Times : \A m \in Times : n <= m
  <2>1. Times # {}
    BY <1>1
  <2>. HIDE DEF Times
  <2>. QED
    BY <1>1, <2>1, LeastExists
<1>3. PICK a \in 1..N : f[a] = n
  BY <1>2
<1>4. \A b \in 1..N : f[b] \in Times
  OBVIOUS
<1>5. \A b \in DOMAIN f : f[a] <= f[b]
  <2>. HIDE DEF Times, f
  <2>. QED
    BY <1>1, <1>2, <1>3, <1>4
<1>. QED
  BY <1>1, <1>3, <1>5 DEF NextAgent

LEMMA ArriveDInv ==
  ASSUME Simulated, NEW gap \in Draws, NEW service \in Draws, Arrive(gap, service)
  PROVE  Simulated'
<1> DEFINE arrival == desk.clock + gap
           a == NextAgent(desk)
           start == Max({arrival, desk.freeAt[a]})
<1>1. PICK N \in Nat \ {0} : Served(desk.served, desk.freeAt, N, desk.clock)
  BY DEF Simulated
<1>2. PICK g : Line(desk.served, desk.freeAt, N, desk.clock, g)
  BY <1>1 DEF Served
<1>3. /\ desk.freeAt \in [1..N -> Nat] /\ desk.clock \in Nat
      /\ arrival \in Nat /\ desk.clock <= arrival /\ service \in Nat
  <2>1. desk.freeAt \in [1..N -> Nat] /\ desk.clock \in Nat
    BY <1>2 DEF Line
  <2>2. gap \in Nat /\ service \in Nat
    BY PlanningAssumption
  <2>. QED
    BY <2>1, <2>2
<1>4. a \in 1..N /\ \A b \in 1..N : desk.freeAt[a] <= desk.freeAt[b]
  BY <1>3, NextAgentFree
<1>5. /\ start \in Nat /\ arrival <= start /\ desk.freeAt[a] <= start
      /\ start = arrival \/ start = desk.freeAt[a]
  <2>1. desk.freeAt[a] \in Nat
    BY <1>3, <1>4
  <2>2. \E x \in {arrival, desk.freeAt[a]} : \A y \in {arrival, desk.freeAt[a]} : x >= y
    BY <1>3, <2>1, SMTT(30)
  <2>3. start \in {arrival, desk.freeAt[a]} /\ \A y \in {arrival, desk.freeAt[a]} : start >= y
    BY <2>2 DEF Max
  <2>. QED
    BY <1>3, <2>1, <2>3
<1>6. /\ arrival > Opening => desk' = [desk EXCEPT !.clock = arrival, !.open = FALSE]
      /\ ~(arrival > Opening) =>
           \E done : desk' = [desk EXCEPT !.clock = arrival,
                                         !.freeAt = [desk.freeAt EXCEPT ![a] = start + service],
                                         !.served = Append(desk.served, <<arrival, start, start + service>>),
                                         !.completed = done]
  <2>1. /\ arrival > Opening => desk' = [desk EXCEPT !.clock = arrival, !.open = FALSE]
        /\ ~(arrival > Opening) =>
             desk' = [desk EXCEPT !.clock     = arrival,
                                  !.freeAt    = [desk.freeAt EXCEPT ![a] = start + service],
                                  !.served    = Append(desk.served, <<arrival, start, start + service>>),
                                  !.completed = IF start + service <= Opening THEN @ + 1 ELSE @]
    BY Zenon DEF Arrive
  <2>. QED
    BY <2>1, Zenon
<1>. HIDE DEF start, a, arrival
<1>7. CASE arrival > Opening
  <2>1. /\ desk'.freeAt = desk.freeAt /\ desk'.served = desk.served /\ desk'.clock = arrival
        /\ DOMAIN desk' = DOMAIN desk
    BY <1>6, <1>7 DEF Simulated
  <2>2. Line(desk.served, desk.freeAt, N, arrival, g)
    BY <1>2, <1>3, TimePasses
  <2>3. Served(desk.served, desk.freeAt, N, arrival)
    BY <1>1, <2>2 DEF Served
  <2>. QED
    BY <2>1, <2>3 DEF Simulated
<1>8. CASE ~(arrival > Opening)
  <2> DEFINE more == Append(desk.served, <<arrival, start, start + service>>)
             free == [desk.freeAt EXCEPT ![a] = start + service]
  <2>1. PICK done : desk' = [desk EXCEPT !.clock = arrival, !.freeAt = free, !.served = more, !.completed = done]
    BY <1>6, <1>8
  <2>2. Served(more, free, N, arrival)
    BY <1>1, <1>3, <1>4, <1>5, OneMoreServed
  <2>. HIDE DEF more, free
  <2>3. /\ desk'.freeAt = free /\ desk'.served = more /\ desk'.clock = arrival
        /\ DOMAIN desk' = DOMAIN desk
    BY <2>1 DEF Simulated
  <2>. QED
    BY <2>2, <2>3 DEF Simulated
<1>. QED
  BY <1>7, <1>8

LEMMA NextDInv == DInv /\ [PlanningNext]_planningVars => DInv'
<1> SUFFICES ASSUME DInv, [PlanningNext]_planningVars PROVE DInv'
  OBVIOUS
<1>1. ASSUME NEW gap \in Draws, NEW service \in Draws, Arrive(gap, service) PROVE DInv'
  BY <1>1, ArriveDInv DEF DInv, Arrive
<1>2. ASSUME Solve \/ Enumerate \/ UNCHANGED planningVars PROVE DInv'
  <2>1. desk' = desk
    BY <1>2 DEF Solve, Enumerate, planningVars
  <2>. QED
    BY <2>1 DEF DInv, Simulated
<1>. QED
  BY <1>1, <1>2 DEF PlanningNext

\* For any number of agents and any draws, the simulated desk is one queue.
THEOREM DeskIsOneQueue == PlanningSpec => []OneQueue
<1>1. PlanningInit => DInv
  BY InitDInv
<1>2. DInv /\ [PlanningNext]_planningVars => DInv'
  BY NextDInv
<1>3. DInv => OneQueue
  <2> SUFFICES ASSUME Simulated, NEW i \in DOMAIN desk.served
               PROVE  LET served == desk.served
                          busy(t, before) == Quantify(1..before, LAMBDA j : served[j][2] <= t /\ t < served[j][3])
                      IN /\ i > 1 => served[i - 1][2] <= served[i][2]
                         /\ busy(served[i][2], i - 1) < Len(desk.freeAt)
                         /\ \A t \in served[i][1]..(served[i][2] - 1) : busy(t, i - 1) = Len(desk.freeAt)
    BY Zenon DEF DInv, OneQueue
  <2> DEFINE S == desk.served
  <2>1. PICK N \in Nat \ {0} : Served(S, desk.freeAt, N, desk.clock)
    BY DEF Simulated
  <2>2. S \in Seq(Servings) /\ desk.freeAt \in [1..N -> Nat]
    BY <2>1 DEF Served, Line
  <2>3. DOMAIN S = 1..Len(S) /\ Len(desk.freeAt) = N
    BY <2>2
  <2>4. InTurn(S, N, i)
    BY <2>1, <2>3 DEF Served
  <2>5. \A t, n : Quantify(1..n, LAMBDA j : S[j][2] <= t /\ t < S[j][3]) = Cardinality(InService(S, t, n))
    BY Zenon DEF Quantify, InService
  <2>. QED
    BY <2>3, <2>4, <2>5, Zenon DEF InTurn
<1>. QED
  BY <1>1, <1>2, <1>3, PTL DEF PlanningSpec

-----------------------------------------------------------------------------
(* Assignments: what the engines are given to choose from.                 *)

Honest(c) ==
  /\ \A t \in Tasks : Skilled(t, c[t])
  /\ \A w \in Workers : Load(c, RealHours, w) <= plan.workers[w].capacity

LEMMA PlanParts ==
  ASSUME plan \in Plans
  PROVE  /\ Len(plan.tasks) \in Nat \ {0} /\ Tasks = 1..Len(plan.tasks) /\ IsFiniteSet(Tasks)
         /\ Len(plan.workers) \in Nat \ {0} /\ Workers = 1..Len(plan.workers) /\ IsFiniteSet(Workers)
         /\ \A t \in Tasks : plan.tasks[t].hours \in Nat
         /\ \A w \in Workers : plan.workers[w].capacity \in Nat
<1>1. /\ plan.workers \in Seq([skills : SUBSET STRING, capacity : Nat]) /\ plan.workers # <<>>
      /\ plan.tasks \in Seq([skill : STRING, hours : Nat \ {0}]) /\ plan.tasks # <<>>
  BY PlanningAssumption, Zenon
<1>2. /\ Len(plan.tasks) \in Nat \ {0} /\ Tasks = 1..Len(plan.tasks)
      /\ Len(plan.workers) \in Nat \ {0} /\ Workers = 1..Len(plan.workers)
  BY <1>1, LenProperties, EmptySeq DEF Tasks, Workers
<1>3. IsFiniteSet(Tasks) /\ IsFiniteSet(Workers)
  <2>1. 1 \in Int /\ Len(plan.tasks) \in Int /\ Len(plan.workers) \in Int
    BY <1>2
  <2>. QED
    BY <1>2, <2>1, FS_Interval
<1>4. /\ \A t \in Tasks : plan.tasks[t] \in [skill : STRING, hours : Nat \ {0}]
      /\ \A w \in Workers : plan.workers[w] \in [skills : SUBSET STRING, capacity : Nat]
  <2>1. \A t \in Tasks : plan.tasks[t] \in [skill : STRING, hours : Nat \ {0}]
    <3> DEFINE Task == [skill : STRING, hours : Nat \ {0}]
               tasks == plan.tasks
    <3>1. tasks \in Seq(Task) /\ Tasks = 1..Len(tasks)
      BY <1>1, <1>2
    <3>. HIDE DEF Task, tasks
    <3>2. \A t \in Tasks : tasks[t] \in Task
      BY <3>1, ElementOfSeq
    <3>. QED
      BY <3>2 DEF Task, tasks
  <2>2. \A w \in Workers : plan.workers[w] \in [skills : SUBSET STRING, capacity : Nat]
    BY <1>1, <1>2, ElementOfSeq
  <2>. QED
    BY <2>1, <2>2
<1>. QED
  BY <1>2, <1>3, <1>4

\* What the solver is given to choose from is honest: it rounds hours up and
\* capacities down.
LEMMA SolverHonest ==
  ASSUME plan \in Plans, NEW c \in SolverChoices
  PROVE  Honest(c)
<1>1. /\ c \in [Tasks -> Workers] /\ \A t \in Tasks : Skilled(t, c[t])
      /\ \A w \in Workers : Load(c, SolverHours, w) <= SolverCapacity(w)
  BY DEF SolverChoices
<1>2. ASSUME NEW w \in Workers PROVE Load(c, RealHours, w) <= plan.workers[w].capacity
  <2> DEFINE S == {t \in Tasks : c[t] = w}
             cap == plan.workers[w].capacity
  <2>1. IsFiniteSet(S) /\ \A t \in S : t \in Tasks
    BY PlanParts, FS_Subset
  <2>2. \A t \in Tasks : plan.tasks[t].hours \in Nat
    BY PlanParts
  <2>3. \A t \in S : /\ RealHours[t] \in Nat /\ SolverHours[t] \in Nat
                     /\ RealHours[t] <= 2 * SolverHours[t]
    <3>1. \A n \in Nat : (n + 1) \div 2 \in Nat /\ n <= 2 * ((n + 1) \div 2)
      OBVIOUS
    <3>2. \A t \in S : /\ RealHours[t] = plan.tasks[t].hours
                       /\ SolverHours[t] = (plan.tasks[t].hours + 1) \div 2
      BY <2>1 DEF RealHours, SolverHours
    <3>. HIDE DEF S
    <3>. QED
      BY <2>1, <2>2, <3>1, <3>2
  <2>4. /\ Load(c, RealHours, w) = FoldedSum(RealHours, S)
        /\ Load(c, SolverHours, w) = FoldedSum(SolverHours, S)
    BY DEF Load, FoldedSum
  <2>5. Load(c, SolverHours, w) <= SolverCapacity(w)
    BY <1>1
  <2>. HIDE DEF S
  <2>6. /\ FoldedSum(RealHours, S) \in Nat /\ FoldedSum(SolverHours, S) \in Nat
        /\ FoldedSum(RealHours, S) <= 2 * FoldedSum(SolverHours, S)
    BY <2>1, <2>3, SumBounds
  <2>7. cap \in Nat
    BY PlanParts
  <2>8. SolverCapacity(w) = cap \div 2
    BY DEF SolverCapacity
  <2>. HIDE DEF cap
  <2>9. cap \div 2 \in Nat /\ 2 * (cap \div 2) <= cap
    BY <2>7
  <2>10. Load(c, RealHours, w) <= cap
    BY <2>4, <2>5, <2>6, <2>7, <2>8, <2>9
  <2>. QED
    BY <2>10 DEF cap
<1>. QED
  BY <1>1, <1>2 DEF Honest

\* What the enumeration goes through is all that is honest.
LEMMA HonestFits ==
  ASSUME plan \in Plans, NEW c \in [Tasks -> Workers], Honest(c)
  PROVE  c \in Fitting /\ \A t \in Tasks : Eligible(t) # {}
<1>1. ASSUME NEW t \in Tasks PROVE c[t] \in Eligible(t)
  <2> DEFINE w == c[t]
             S == {u \in Tasks : c[u] = w}
  <2>1. w \in Workers /\ t \in S
    OBVIOUS
  <2>2. IsFiniteSet(S) /\ \A u \in S : u \in Tasks
    BY PlanParts, FS_Subset
  <2>3. Load(c, RealHours, w) = FoldedSum(RealHours, S)
    BY DEF Load, FoldedSum
  <2>4. Skilled(t, w) /\ Load(c, RealHours, w) <= plan.workers[w].capacity
    BY <2>1 DEF Honest
  <2>. HIDE DEF w, S
  <2>5. \A u \in S : RealHours[u] \in Nat
    BY <2>2, PlanParts DEF RealHours
  <2>6. FoldedSum(RealHours, S) \in Nat /\ RealHours[t] <= FoldedSum(RealHours, S)
    BY <2>1, <2>2, <2>5, SumBounds
  <2>7. RealHours[t] \in Nat /\ plan.workers[w].capacity \in Nat
    BY <2>1, <2>5, PlanParts
  <2>8. RealHours[t] <= plan.workers[w].capacity
    BY <2>3, <2>4, <2>6, <2>7
  <2>9. w \in Eligible(t)
    BY <2>1, <2>4, <2>8 DEF Eligible
  <2>. QED
    BY <2>9 DEF w
<1>. QED
  BY <1>1 DEF Fitting, Enumerated, Honest

LEMMA FittingHonest == ASSUME NEW c \in Fitting PROVE Honest(c) /\ c \in [Tasks -> Workers]
  BY DEF Fitting, Enumerated, Eligible, Honest

-----------------------------------------------------------------------------
(* The enumeration finds a best choice.                                    *)

\* c is the first of F, by rank and then in lexical order.
IsFirst(c, F, n, rank) ==
  \A d \in F : \/ d = c
              \/ rank[c] < rank[d]
              \/ /\ rank[c] = rank[d]
                 /\ \E t \in 1..n : c[t] < d[t] /\ \A s \in 1..(t - 1) : c[s] = d[s]

\* A finite set of sequences has a first one, by a rank and then in lexical order.
LEMMA FirstInOrder ==
  ASSUME NEW n \in Nat, NEW F \in SUBSET [1..n -> Nat], IsFiniteSet(F), F # {},
         NEW I, \A c \in F : I[c] \in Int
  PROVE  \E c \in F : IsFirst(c, F, n, I)
<1> DEFINE lexical(c, d) == \E t \in 1..n : c[t] < d[t] /\ \A s \in 1..(t - 1) : c[s] = d[s]
           before(c, d) == d = c \/ I[c] < I[d] \/ (I[c] = I[d] /\ lexical(c, d))
           R == {p \in F \X F : before(p[1], p[2])}
<1>1. \A c \in F, d \in F : <<c, d>> \in R <=> before(c, d)
  <2>. HIDE DEF before
  <2>. QED
    OBVIOUS
<1>2. ASSUME NEW c \in F, NEW d \in F, c # d PROVE lexical(c, d) \/ lexical(d, c)
  <2> DEFINE D == {t \in 1..n : c[t] # d[t]}
  <2>1. D \in SUBSET Nat /\ D # {}
    <3>1. PICK t \in 1..n : c[t] # d[t]
      BY <1>2
    <3>2. t \in D
      BY <3>1
    <3>3. D \subseteq 1..n
      OBVIOUS
    <3>. HIDE DEF D
    <3>. QED
      BY <3>2, <3>3
  <2>2. PICK t \in D : \A s \in D : t <= s
    <3>. HIDE DEF D
    <3>. QED
      BY <2>1, LeastExists
  <2>3. \A s \in 1..(t - 1) : c[s] = d[s]
    BY <2>2
  <2>4. t \in 1..n /\ c[t] # d[t] /\ c[t] \in Nat /\ d[t] \in Nat
    BY <2>2
  <2>5. c[t] < d[t] \/ d[t] < c[t]
    BY <2>4
  <2>. QED
    BY <2>3, <2>4, <2>5
<1>3. ASSUME NEW c \in F, NEW d \in F, NEW e \in F, lexical(c, d), lexical(d, e) PROVE lexical(c, e)
  <2>1. PICK t \in 1..n : c[t] < d[t] /\ \A s \in 1..(t - 1) : c[s] = d[s]
    BY <1>3
  <2>2. PICK u \in 1..n : d[u] < e[u] /\ \A s \in 1..(u - 1) : d[s] = e[s]
    BY <1>3
  <2>3. \A i \in 1..n : c[i] \in Nat /\ d[i] \in Nat /\ e[i] \in Nat
    OBVIOUS
  <2>4. CASE t < u
    <3>1. c[t] < e[t] /\ \A s \in 1..(t - 1) : c[s] = e[s]
      BY <2>1, <2>2, <2>3, <2>4
    <3>. QED
      BY <3>1
  <2>5. CASE u < t
    <3>1. c[u] < e[u] /\ \A s \in 1..(u - 1) : c[s] = e[s]
      BY <2>1, <2>2, <2>3, <2>5
    <3>. QED
      BY <3>1
  <2>6. CASE u = t
    <3>1. c[t] < e[t] /\ \A s \in 1..(t - 1) : c[s] = e[s]
      BY <2>1, <2>2, <2>3, <2>6
    <3>. QED
      BY <3>1
  <2>. QED
    BY <2>4, <2>5, <2>6
<1>. HIDE DEF lexical
<1>4. \A c \in F, d \in F : before(c, d) \/ before(d, c)
  BY <1>2
<1>5. \A c \in F, d \in F, e \in F : before(c, d) /\ before(d, e) => before(c, e)
  <2> SUFFICES ASSUME NEW c \in F, NEW d \in F, NEW e \in F, before(c, d), before(d, e)
               PROVE  before(c, e)
    OBVIOUS
  <2>1. I[c] \in Int /\ I[d] \in Int /\ I[e] \in Int
    OBVIOUS
  <2>2. lexical(c, d) /\ lexical(d, e) => lexical(c, e)
    BY <1>3
  <2>3. CASE d = c \/ e = d
    <3>. HIDE DEF before
    <3>. QED
      BY <2>3
  <2>4. CASE I[c] < I[d] /\ (I[d] < I[e] \/ I[d] = I[e])
    <3>1. I[c] < I[e]
      BY <2>1, <2>4
    <3>. QED
      BY <3>1
  <2>5. CASE I[c] = I[d] /\ I[d] < I[e]
    BY <2>1, <2>5
  <2>6. CASE I[c] = I[d] /\ I[d] = I[e] /\ lexical(c, d) /\ lexical(d, e)
    BY <2>2, <2>6
  <2>. QED
    BY <2>3, <2>4, <2>5, <2>6
<1>6. PICK c \in F : \A d \in F : <<c, d>> \in R
  <2>1. /\ \A x \in F, y \in F : <<x, y>> \in R \/ <<y, x>> \in R
        /\ \A x \in F, y \in F, z \in F : <<x, y>> \in R /\ <<y, z>> \in R => <<x, z>> \in R
    <3>. HIDE DEF before, R
    <3>. QED
      BY <1>1, <1>4, <1>5
  <2>. HIDE DEF R
  <2>. QED
    BY <2>1, FirstExists
<1>7. \A d \in F : before(c, d)
  <2>. HIDE DEF before, R
  <2>. QED
    BY <1>1, <1>6
<1>. HIDE DEF R
<1>. QED
  BY <1>7, Zenon DEF lexical, IsFirst

\* The product of the capacities.
LEMMA ProductNat ==
  ASSUME plan \in Plans
  PROVE  FoldLeft(LAMBDA p, w : p * w.capacity, 1, plan.workers) \in Int
<1> DEFINE D == DOMAIN plan.workers
           op == [p \in D \X Int |-> p[2] * plan.workers[p[1]].capacity]
           pick == [s \in SUBSET D |-> Max(s)]
           times(g, s) == IF s = {} THEN 1 ELSE g[s \ {Max(s)}] * plan.workers[Max(s)].capacity
           Multiplies(g) == g = [s \in SUBSET D |-> times(g, s)]
           iter == CHOOSE g : Multiplies(g)
<1>1. IsFiniteSet(D) /\ D \subseteq Int /\ \A w \in D : plan.workers[w].capacity \in Int
  BY PlanParts DEF Workers
<1>2. FoldLeft(LAMBDA p, w : p * w.capacity, 1, plan.workers) = iter[D]
  BY DEF FoldLeft, MapThenFoldSet
<1>. HIDE DEF D
<1>3. \A s \in SUBSET D : s # {} => Max(s) \in s
  <2> SUFFICES ASSUME NEW s \in SUBSET D, s # {} PROVE Max(s) \in s
    OBVIOUS
  <2>1. s \in SUBSET Int /\ IsFiniteSet(s)
    BY <1>1, FS_Subset
  <2>. QED
    BY <2>1, MaxExists
<1>4. op \in [D \X Int -> Int]
  <2>1. ASSUME NEW p \in D \X Int PROVE p[2] * plan.workers[p[1]].capacity \in Int
    <3>1. p[1] \in D /\ p[2] \in Int
      OBVIOUS
    <3>2. plan.workers[p[1]].capacity \in Int
      BY <1>1, <3>1
    <3>. QED
      BY <3>1, <3>2
  <2>. QED
    BY <2>1
<1>5. \A s \in SUBSET D : s # {} => pick[s] \in s
  BY <1>3
<1>6. PICK g \in [SUBSET D -> Int] : FoldsTo(g, SUBSET D, 1, op, pick)
  <2>1. 1 \in Int
    OBVIOUS
  <2>. HIDE DEF op, pick
  <2>. QED
    BY <1>1, <1>4, <1>5, <2>1, FoldExists
<1>7. Multiplies(g)
  <2>1. \A s \in SUBSET D : g[s] = times(g, s)
    <3>1. \A s \in SUBSET D : s # {} => s \ {Max(s)} \in SUBSET D /\ Max(s) \in D /\ pick[s] = Max(s)
      BY <1>3
    <3>. HIDE DEF pick
    <3>2. \A s \in SUBSET D : s # {} =>
            op[<<Max(s), g[s \ {Max(s)}]>>] = g[s \ {Max(s)}] * plan.workers[Max(s)].capacity
      BY <3>1
    <3>. HIDE DEF op
    <3>. QED
      BY <1>6, <3>1, <3>2 DEF FoldsTo
  <2>. HIDE DEF times
  <2>. QED
    BY <2>1
<1>8. Multiplies(iter)
  <2>. HIDE DEF Multiplies
  <2>. QED
    BY <1>7
<1>. HIDE DEF iter
<1>9. \A s \in SUBSET D : iter[s] = times(iter, s)
  <2>. HIDE DEF times
  <2>. QED
    BY <1>8
<1> DEFINE P == {s \in SUBSET D : iter[s] \in Int}
<1>10. {} \in P
  <2>1. iter[{}] = times(iter, {})
    <3>. HIDE DEF times
    <3>. QED
      BY <1>9
  <2>2. iter[{}] = 1
    BY <2>1, Zenon
  <2>. QED
    BY <2>2
<1>11. ASSUME NEW s \in SUBSET D, s # {}, \A x \in s : s \ {x} \in P PROVE s \in P
  <2>1. Max(s) \in s /\ iter[s \ {Max(s)}] \in Int
    BY <1>3, <1>11
  <2>2. plan.workers[Max(s)].capacity \in Int
    BY <1>1, <2>1
  <2>3. iter[s] = iter[s \ {Max(s)}] * plan.workers[Max(s)].capacity
    BY <1>9, <1>11
  <2>. QED
    BY <2>1, <2>2, <2>3
<1>12. D \in P
  <2>. HIDE DEF P
  <2>. QED
    BY <1>1, <1>10, <1>11, SetInduction
<1>. QED
  BY <1>2, <1>12

LEMMA ImbalanceInt ==
  ASSUME plan \in Plans, \A w \in Workers : plan.workers[w].capacity # 0,
         NEW c \in [Tasks -> Workers]
  PROVE  Imbalance(c) \in Int
<1> DEFINE all == FoldLeft(LAMBDA p, w : p * w.capacity, 1, plan.workers)
           share(w) == Load(c, RealHours, w) * (all \div plan.workers[w].capacity)
           used == {share(w) : w \in Workers}
           f == [w \in Workers |-> share(w)]
<1>1. Imbalance(c) = Max(used) - Min(used)
  BY DEF Imbalance
<1>2. all \in Int
  BY ProductNat
<1>. HIDE DEF all
<1>3. ASSUME NEW w \in Workers PROVE share(w) \in Int
  <2> DEFINE S == {t \in Tasks : c[t] = w}
  <2>1. Load(c, RealHours, w) = FoldedSum(RealHours, S)
    BY DEF Load, FoldedSum
  <2>2. IsFiniteSet(S) /\ \A t \in S : RealHours[t] \in Nat
    BY PlanParts, FS_Subset DEF RealHours
  <2>. HIDE DEF S
  <2>3. FoldedSum(RealHours, S) \in Nat
    BY <2>2, SumBounds
  <2>4. plan.workers[w].capacity \in Nat \ {0}
    BY PlanParts
  <2>5. all \div plan.workers[w].capacity \in Int
    BY <1>2, <2>4
  <2>. QED
    BY <2>1, <2>3, <2>5
<1>. HIDE DEF share
<1>4. used \in SUBSET Int /\ used # {}
  <2>1. 1 \in Workers
    BY PlanParts
  <2>. QED
    BY <1>3, <2>1
<1>5. IsFiniteSet(used)
  <2>1. IsFiniteSet({f[w] : w \in Workers})
    <3>. HIDE DEF f
    <3>. QED
      BY PlanParts, FiniteImage
  <2>2. used = {f[w] : w \in Workers}
    OBVIOUS
  <2>. HIDE DEF used, f
  <2>. QED
    BY <2>1, <2>2
<1>. HIDE DEF used
<1>6. Max(used) \in Int /\ Min(used) \in Int
  BY <1>4, <1>5, MaxExists, MinExists
<1>. QED
  BY <1>1, <1>6

LEMMA ChoicesFinite ==
  ASSUME NEW T, IsFiniteSet(T), NEW W, IsFiniteSet(W)
  PROVE  IsFiniteSet([T -> W])
<1> DEFINE graph(c) == {<<t, c[t]>> : t \in T}
           f == [c \in [T -> W] |-> graph(c)]
<1>1. IsFiniteSet(SUBSET (T \X W))
  BY FS_Product, FS_SUBSET
<1>2. \A c \in [T -> W] : graph(c) \in SUBSET (T \X W)
  OBVIOUS
<1>3. ASSUME NEW c \in [T -> W], NEW d \in [T -> W], graph(c) = graph(d) PROVE c = d
  <2>1. \A t \in T : c[t] = d[t]
    <3> SUFFICES ASSUME NEW t \in T PROVE c[t] = d[t]
      OBVIOUS
    <3>1. <<t, c[t]>> \in graph(d)
      BY <1>3
    <3>. QED
      BY <3>1
  <2>. QED
    BY <2>1
<1>. HIDE DEF graph
<1>4. f \in Injection([T -> W], SUBSET (T \X W))
  BY <1>2, <1>3 DEF Injection, IsInjective
<1>. HIDE DEF f
<1>. QED
  BY <1>1, <1>4, FS_Injection

\* The enumeration finds a best choice where there is one that fits.
LEMMA BestExists ==
  ASSUME plan \in Plans, \A w \in Workers : plan.workers[w].capacity # 0, Fitting # {}
  PROVE  \E c \in Fitting : \A d \in Fitting : d = c \/ Before(c, d)
<1> DEFINE n == Len(plan.tasks)
           F == Fitting
           I == [c \in Fitting |-> Imbalance(c)]
<1>1. n \in Nat /\ Tasks = 1..n /\ Workers \subseteq Nat
  BY PlanParts
<1>2. \A c \in Fitting : c \in [Tasks -> Workers]
  BY FittingHonest
<1>3. Fitting \in SUBSET [1..n -> Nat]
  BY <1>1, <1>2
<1>4. IsFiniteSet(Fitting)
  <2>1. IsFiniteSet([Tasks -> Workers])
    BY PlanParts, ChoicesFinite
  <2>2. Fitting \in SUBSET [Tasks -> Workers]
    BY <1>2
  <2>. QED
    BY <2>1, <2>2, FS_Subset
<1>5. \A c \in Fitting : I[c] \in Int /\ I[c] = Imbalance(c)
  BY <1>2, ImbalanceInt
<1>6. PICK c \in Fitting : IsFirst(c, Fitting, n, I)
  <2>1. /\ n \in Nat /\ F \in SUBSET [1..n -> Nat] /\ IsFiniteSet(F) /\ F # {}
        /\ \A c \in F : I[c] \in Int
    BY <1>1, <1>3, <1>4, <1>5
  <2>. HIDE DEF n, F, I
  <2>2. \E c \in F : IsFirst(c, F, n, I)
    BY <2>1, FirstInOrder
  <2>. QED
    BY <2>2 DEF F
<1>. HIDE DEF n, I
<1>7. ASSUME NEW d \in Fitting PROVE d = c \/ Before(c, d)
  <2>1. I[c] = Imbalance(c) /\ I[d] = Imbalance(d)
    BY <1>5
  <2>. QED
    BY <1>1, <1>6, <2>1, Zenon DEF Before, IsFirst
<1>. QED
  BY <1>7

-----------------------------------------------------------------------------
(* What an answer says.                                                    *)

Reliable(r) ==
  /\ r.feasibility = "feasible" => Honest(r.choice)
  /\ r.feasibility = "infeasible" /\ r.claim = "infeasibility_witness" =>
       ~\E c \in [Tasks -> Workers] : Honest(c)

LEMMA SolveReliable == ASSUME plan \in Plans, Solve PROVE Reliable(result')
<1>1. CASE SolverChoices = {} /\ result' \in {Infeasible("no_feasible_solution_returned"), [feasibility |-> "unknown"]}
  BY <1>1 DEF Reliable, Infeasible
<1>2. ASSUME NEW c \in SolverChoices,
             result' \in {[feasibility |-> "unknown"], Feasible(c, "feasible_solution_not_proven"),
                          Feasible(c, "optimal_for_bounded_search")}
      PROVE  Reliable(result')
  BY <1>2, SolverHonest DEF Reliable, Feasible
<1>. QED
  <2>1. \/ SolverChoices = {} /\ result' \in {Infeasible("no_feasible_solution_returned"), [feasibility |-> "unknown"]}
        \/ \E c \in SolverChoices :
             result' \in {[feasibility |-> "unknown"], Feasible(c, "feasible_solution_not_proven"),
                          Feasible(c, "optimal_for_bounded_search")}
    BY DEF Solve
  <2>. QED
    BY <1>1, <1>2, <2>1

LEMMA EnumerateReliable == ASSUME plan \in Plans, Enumerate PROVE Reliable(result')
<1> DEFINE hopeless == {t \in Tasks : Eligible(t) = {}}
           best == {c \in Fitting : \A d \in Fitting : d = c \/ Before(c, d)}
<1>1. CASE hopeless # {}
  <2>1. result' = Hopeless(hopeless)
    BY <1>1 DEF Enumerate
  <2>2. result'.feasibility = "infeasible"
    BY <2>1 DEF Hopeless
  <2>3. ~\E c \in [Tasks -> Workers] : Honest(c)
    BY <1>1, HonestFits
  <2>. QED
    BY <2>2, <2>3 DEF Reliable
<1>2. CASE hopeless = {}
  <2>1. CASE result' \in {[feasibility |-> "unsupported"], DivisionByZero}
    BY <2>1 DEF Reliable, DivisionByZero
  <2>2. CASE Fitting = {} /\ result' = Infeasible("infeasibility_witness")
    BY <2>2, HonestFits DEF Reliable, Infeasible
  <2>3. CASE /\ Fitting # {} /\ \A w \in Workers : plan.workers[w].capacity # 0
             /\ result' = Feasible(CHOOSE c \in best : TRUE, "optimal_for_bounded_search")
    <3>1. best # {}
      BY <2>3, BestExists
    <3> DEFINE c == CHOOSE x \in best : TRUE
    <3>2. c \in Fitting
      BY <3>1
    <3>3. Honest(c)
      BY <3>2, FittingHonest
    <3>4. result'.feasibility = "feasible" /\ result'.choice = c
      BY <2>3 DEF Feasible
    <3>. HIDE DEF c
    <3>. QED
      BY <3>3, <3>4 DEF Reliable
  <2>. QED
    BY <1>2, <2>1, <2>2, <2>3 DEF Enumerate
<1>. QED
  BY <1>1, <1>2

AInv == (plan \in Plans \/ result # NoResult) /\ Reliable(result)

LEMMA InitAInv == PlanningInit => AInv
  BY DEF PlanningInit, NoResult, AInv, Reliable

LEMMA SamePlan == ASSUME UNCHANGED plan, Reliable(result') PROVE Reliable(result)'
<1>1. ASSUME NEW c PROVE Honest(c)' <=> Honest(c)
  BY DEF Honest, Tasks, Workers, Skilled, Load, RealHours, MapThenSumSet, MapThenFoldSet
<1>2. Tasks' = Tasks /\ Workers' = Workers
  BY DEF Tasks, Workers
<1>. QED
  BY <1>1, <1>2, Zenon DEF Reliable

LEMMA NextAInv == AInv /\ [PlanningNext]_planningVars => AInv'
<1> SUFFICES ASSUME AInv, [PlanningNext]_planningVars PROVE AInv'
  OBVIOUS
<1>1. CASE Solve \/ Enumerate
  <2>1. plan \in Plans /\ UNCHANGED plan
    BY <1>1 DEF AInv, Solve, Enumerate
  <2>2. Reliable(result')
    BY <1>1, <2>1, SolveReliable, EnumerateReliable
  <2>. QED
    BY <2>1, <2>2, SamePlan DEF AInv
<1>2. ASSUME UNCHANGED <<plan, result>> PROVE AInv'
  <2>1. Reliable(result')
    BY <1>2 DEF AInv
  <2>. QED
    BY <1>2, <2>1, SamePlan DEF AInv
<1>. QED
  BY <1>1, <1>2 DEF PlanningNext, planningVars, Arrive

\* Whatever crew and tasks are asked about, an assignment that is returned is one
\* the crew can do in real hours, by the solver and by the enumeration, and where
\* the enumeration says that there is none, there is none.
THEOREM AssignmentsAreSound == PlanningSpec => []AssignmentsSound
<1>1. PlanningInit => AInv
  BY InitAInv
<1>2. AInv /\ [PlanningNext]_planningVars => AInv'
  BY NextAInv
<1>3. AInv => AssignmentsSound
  BY Zenon DEF AInv, Reliable, Honest, AssignmentsSound
<1>. QED
  BY <1>1, <1>2, <1>3, PTL DEF PlanningSpec

-----------------------------------------------------------------------------
(* Forecasts: the windows.                                                 *)

ForecastSpec == ForecastInit /\ [][ForecastNext]_forecastVars

\* Something is held out, and four months are left to work with.
LEMMA HeldOut ==
  ASSUME NEW values, Len(values) \in Nat, Len(values) >= 6, NEW horizon \in Nat \ {0}
  PROVE  HoldoutLength(values, horizon) \in 1..(Len(values) - 4)
<1> DEFINE n == Len(values)
           a == Max({2, horizon})
           b == Max({2, n \div 5})
           wanted == Min({a, b})
<1>1. n \in Nat /\ n >= 6 /\ n \div 5 \in Int /\ horizon \in Int /\ 2 \in Int
  OBVIOUS
<1>2. a \in {2, horizon} /\ a >= 2
  BY <1>1, GreaterOfTwo, Zenon
<1>3. b \in {2, n \div 5} /\ b >= 2
  BY <1>1, GreaterOfTwo, Zenon
<1>. HIDE DEF a, b
<1>4. wanted \in {a, b} /\ wanted <= a /\ wanted <= b
  <2>1. a \in Int /\ b \in Int
    BY <1>1, <1>2, <1>3
  <2>. QED
    BY <2>1, LesserOfTwo, Zenon
<1>5. HoldoutLength(values, horizon) = IF n - wanted < 10 THEN 2 ELSE wanted
  BY DEF HoldoutLength, a, b
<1>. HIDE DEF wanted, n
<1>6. wanted \in Nat /\ wanted >= 2
  BY <1>1, <1>2, <1>3, <1>4
<1>7. CASE n - wanted < 10
  BY <1>1, <1>5, <1>7 DEF n
<1>8. CASE ~(n - wanted < 10)
  <2>1. wanted <= n - 4
    BY <1>1, <1>6, <1>8
  <2>. QED
    BY <1>5, <1>6, <1>8, <2>1 DEF n
<1>. QED
  BY <1>7, <1>8

\* What is left to work with.
LEMMA WorkingLength ==
  ASSUME NEW V, NEW values \in Seq(V), Len(values) >= 6, NEW horizon \in Nat \ {0}
  PROVE  /\ Working(values, horizon) \in Seq(V) /\ Len(Working(values, horizon)) \in Nat
         /\ Len(Working(values, horizon)) >= 4
<1> DEFINE n == Len(values) - HoldoutLength(values, horizon)
<1>1. Len(values) \in Nat
  BY LenProperties
<1>2. n \in Nat /\ n >= 4 /\ n <= Len(values)
  <2>1. HoldoutLength(values, horizon) \in 1..(Len(values) - 4)
    BY <1>1, HeldOut
  <2>. QED
    BY <1>1, <2>1
<1>3. Working(values, horizon) = SubSeq(values, 1, n)
  BY DEF Working
<1>. HIDE DEF n
<1>4. \A i \in 1..n : values[i] \in V
  <2>1. \A i \in 1..n : i \in 1..Len(values)
    BY <1>1, <1>2
  <2>. QED
    BY <2>1, ElementOfSeq
<1>5. /\ SubSeq(values, 1, n) \in Seq(V)
      /\ Len(SubSeq(values, 1, n)) = IF 1 <= n THEN n - 1 + 1 ELSE 0
  BY <1>2, <1>4, SubSeqProperties
<1>. QED
  BY <1>2, <1>3, <1>5

\* What is worked on does not depend on what is held out.
LEMMA SameWorking ==
  ASSUME NEW V, NEW values \in Seq(V), NEW others \in Seq(V), Len(values) = Len(others),
         Len(values) >= 6, NEW horizon \in Nat \ {0},
         \A i \in 1..(Len(values) - HoldoutLength(values, horizon)) : others[i] = values[i]
  PROVE  /\ HoldoutLength(others, horizon) = HoldoutLength(values, horizon)
         /\ Working(others, horizon) = Working(values, horizon)
<1> DEFINE n == Len(values) - HoldoutLength(values, horizon)
<1>1. Len(values) \in Nat
  BY LenProperties
<1>2. HoldoutLength(others, horizon) = HoldoutLength(values, horizon)
  BY DEF HoldoutLength
<1>3. n \in Int /\ n <= Len(values)
  <2>1. HoldoutLength(values, horizon) \in 1..(Len(values) - 4)
    BY <1>1, HeldOut
  <2>. QED
    BY <1>1, <2>1
<1>4. Working(values, horizon) = SubSeq(values, 1, n) /\ Working(others, horizon) = SubSeq(others, 1, n)
  BY <1>2 DEF Working
<1>. HIDE DEF n
<1>5. \A i \in 1..n : values[i] \in V /\ others[i] \in V /\ others[i] = values[i]
  <2>1. \A i \in 1..n : i \in 1..Len(values)
    BY <1>1, <1>3
  <2>. QED
    BY <2>1, ElementOfSeq DEF n
<1>6. /\ SubSeq(values, 1, n) \in Seq(V) /\ Len(SubSeq(values, 1, n)) = IF 1 <= n THEN n - 1 + 1 ELSE 0
      /\ \A i \in 1..(n - 1 + 1) : SubSeq(values, 1, n)[i] = values[1 + i - 1]
  BY <1>3, <1>5, SubSeqProperties
<1>7. /\ SubSeq(others, 1, n) \in Seq(V) /\ Len(SubSeq(others, 1, n)) = IF 1 <= n THEN n - 1 + 1 ELSE 0
      /\ \A i \in 1..(n - 1 + 1) : SubSeq(others, 1, n)[i] = others[1 + i - 1]
  BY <1>3, <1>5, SubSeqProperties
<1>8. \A i \in 1..Len(SubSeq(values, 1, n)) : SubSeq(values, 1, n)[i] = SubSeq(others, 1, n)[i]
  <2> SUFFICES ASSUME NEW i \in 1..Len(SubSeq(values, 1, n))
               PROVE  SubSeq(values, 1, n)[i] = SubSeq(others, 1, n)[i]
    OBVIOUS
  <2>1. i \in 1..n /\ i \in 1..(n - 1 + 1) /\ 1 + i - 1 = i
    BY <1>3, <1>6
  <2>. QED
    BY <1>5, <1>6, <1>7, <2>1
<1>9. SubSeq(values, 1, n) = SubSeq(others, 1, n)
  BY <1>6, <1>7, <1>8, SeqEqual
<1>. QED
  BY <1>2, <1>4, <1>9

LEMMA StepsEvaluated ==
  ASSUME NEW values, Len(values) \in Nat, Len(values) >= 6, request.horizon \in Nat \ {0}
  PROVE  /\ EvaluatedSteps(values) \in 1..request.horizon
         /\ EvaluatedSteps(values) <= HoldoutLength(values, request.horizon)
<1> DEFINE held == HoldoutLength(values, request.horizon)
<1>1. held \in 1..(Len(values) - 4)
  BY HeldOut
<1>2. held \in Int /\ held >= 1 /\ request.horizon \in Int
  BY <1>1
<1>3. EvaluatedSteps(values) = Min({request.horizon, held})
  BY DEF EvaluatedSteps
<1>. HIDE DEF held
<1>4. /\ Min({request.horizon, held}) \in {request.horizon, held}
      /\ Min({request.horizon, held}) <= request.horizon /\ Min({request.horizon, held}) <= held
  BY <1>2, LesserOfTwo, Zenon
<1>5. EvaluatedSteps(values) \in 1..request.horizon /\ EvaluatedSteps(values) <= held
  BY <1>2, <1>3, <1>4
<1>. QED
  BY <1>5 DEF held

-----------------------------------------------------------------------------
(* The models: what they predict is a number.                              *)

\* Partial sums, and the sum of a sequence as the last of them.
LEMMA Summed ==
  ASSUME NEW s \in Seq(Int)
  PROVE  \E g \in [0..Len(s) -> Int] :
           /\ g[0] = 0 /\ \A i \in 1..Len(s) : g[i] = g[i - 1] + s[i]
           /\ Total(s) = g[Len(s)]
<1> DEFINE n == Len(s)
           Sums(f, m) == f = [i \in 0..m |-> IF i = 0 THEN 0 ELSE f[i - 1] + s[i]]
           Unsummed == {m \in 0..n : ~\E f : Sums(f, m)}
<1>0. Unsummed \in SUBSET Nat /\ \A m \in 0..n : m \notin Unsummed => \E f : Sums(f, m)
  <2>1. Unsummed \subseteq 0..n
    BY Zenon
  <2>2. \A m \in 0..n : m \notin Unsummed => \E f : Sums(f, m)
    BY Zenon
  <2>3. 0..n \subseteq Nat
    OBVIOUS
  <2>. QED
    BY <2>1, <2>2, <2>3, Zenon
<1>n. n \in Nat
  BY LenProperties
<1>1. Unsummed = {}
  <2> SUFFICES ASSUME Unsummed # {} PROVE FALSE
    OBVIOUS
  <2>1. PICK m \in Unsummed : \A k \in Unsummed : m <= k
    <3>. HIDE DEF Unsummed
    <3>. QED
      BY <1>0, LeastExists
  <2>2. m \in 0..n /\ ~\E f : Sums(f, m)
    OBVIOUS
  <2>3. CASE m = 0
    <3>1. Sums([i \in 0..0 |-> 0], 0)
      OBVIOUS
    <3>. QED
      BY <2>2, <2>3, <3>1
  <2>4. CASE m # 0
    <3>1. m - 1 \in 0..n /\ m - 1 \notin Unsummed
      <4>. HIDE DEF Unsummed
      <4>. QED
        BY <1>n, <2>1, <2>2, <2>4
    <3>2. PICK f : Sums(f, m - 1)
      <4>1. \E f : Sums(f, m - 1)
        BY <1>0, <3>1, Zenon
      <4>. QED
        BY <4>1, Zenon
    <3> DEFINE g == [i \in 0..m |-> IF i = m THEN f[m - 1] + s[m] ELSE f[i]]
    <3>3. ASSUME NEW i \in 0..m
          PROVE  g[i] = IF i = 0 THEN 0 ELSE g[i - 1] + s[i]
      <4>1. CASE i = m
        <5>1. m \in 0..m /\ m - 1 \in 0..m /\ m - 1 # m
          BY <1>n, <2>2, <2>4
        <5>2. g[m] = f[m - 1] + s[m] /\ g[m - 1] = f[m - 1]
          BY <5>1
        <5>. HIDE DEF g
        <5>. QED
          BY <2>4, <4>1, <5>2
      <4>2. CASE i # m
        <5>1. i \in 0..(m - 1) /\ (i # 0 => i - 1 \in 0..m /\ i - 1 # m)
          BY <1>n, <2>2, <4>2
        <5>2. f[i] = IF i = 0 THEN 0 ELSE f[i - 1] + s[i]
          BY <3>2, <5>1
        <5>. QED
          BY <4>2, <5>1, <5>2
      <4>. QED
        BY <4>1, <4>2
    <3>4. Sums(g, m)
      BY <3>3
    <3>. QED
      BY <2>2, <3>4
  <2>. QED
    BY <2>3, <2>4
<1> DEFINE g == CHOOSE f : Sums(f, n)
<1>2. Sums(g, n)
  <2>1. n \in 0..n /\ n \notin Unsummed
    <3>. HIDE DEF Unsummed
    <3>. QED
      BY <1>1, <1>n
  <2>2. \E f : Sums(f, n)
    BY <1>0, <2>1, Zenon
  <2>. QED
    BY <2>2, Zenon
<1>3. Total(s) = g[n]
  BY DEF Total
<1>. HIDE DEF g
<1>4. g[0] = 0 /\ \A i \in 1..n : g[i] = g[i - 1] + s[i]
  <2>1. \A i \in 0..n : g[i] = IF i = 0 THEN 0 ELSE g[i - 1] + s[i]
    BY <1>2
  <2>2. 0 \in 0..n /\ \A i \in 1..n : i \in 0..n /\ i # 0
    BY <1>n
  <2>. QED
    BY <2>1, <2>2
<1> DEFINE Bad == {i \in 0..n : g[i] \notin Int}
<1>5. Bad = {}
  <2> SUFFICES ASSUME Bad # {} PROVE FALSE
    OBVIOUS
  <2>0. Bad \in SUBSET Nat
    OBVIOUS
  <2>1. PICK i \in Bad : \A k \in Bad : i <= k
    <3>. HIDE DEF Bad
    <3>. QED
      BY <2>0, LeastExists
  <2>2. i \in 0..n /\ g[i] \notin Int /\ i # 0
    BY <1>4
  <2>3. i \in 1..n /\ i - 1 \in 0..n /\ i - 1 \notin Bad
    <3>. HIDE DEF Bad
    <3>. QED
      BY <1>n, <2>1, <2>2
  <2>4. g[i - 1] \in Int /\ s[i] \in Int
    BY <2>3, ElementOfSeq
  <2>5. g[i] = g[i - 1] + s[i]
    BY <1>4, <2>3
  <2>. QED
    BY <2>2, <2>4, <2>5
<1>6. g \in [0..n -> Int]
  <2>1. g = [i \in 0..n |-> g[i]]
    BY <1>2
  <2>. HIDE DEF Sums
  <2>. QED
    BY <1>5, <2>1
<1>. QED
  BY <1>3, <1>4, <1>6

LEMMA TotalInt == ASSUME NEW s \in Seq(Int) PROVE Total(s) \in Int
  BY Summed, LenProperties

\* The positions that LinearTrend fits to: their squares, ...
LEMMA SquaresSummed ==
  ASSUME NEW n \in Nat
  PROVE  6 * Total([i \in 1..n |-> (i - 1) * (i - 1)]) = (n - 1) * n * (2 * n - 1)
<1> DEFINE s == [i \in 1..n |-> (i - 1) * (i - 1)]
<1>1. s \in Seq(Int) /\ Len(s) = n /\ \A i \in 1..n : s[i] = (i - 1) * (i - 1)
  OBVIOUS
<1>. HIDE DEF s
<1>2. PICK g \in [0..n -> Int] : /\ g[0] = 0 /\ \A i \in 1..n : g[i] = g[i - 1] + s[i]
                                 /\ Total(s) = g[n]
  BY <1>1, Summed
<1> DEFINE Bad == {i \in 1..n : 6 * g[i] # (i - 1) * i * (2 * i - 1)}
<1>3. Bad = {}
  <2> SUFFICES ASSUME Bad # {} PROVE FALSE
    OBVIOUS
  <2>0. Bad \in SUBSET Nat
    OBVIOUS
  <2>1. PICK i \in Bad : \A k \in Bad : i <= k
    <3>. HIDE DEF Bad
    <3>. QED
      BY <2>0, LeastExists
  <2>2. i \in 1..n /\ 6 * g[i] # (i - 1) * i * (2 * i - 1)
    OBVIOUS
  <2>3. i # 1
    BY <1>1, <1>2, <2>2
  <2>4. i - 1 \in 1..n /\ i - 1 \notin Bad
    <3>. HIDE DEF Bad
    <3>. QED
      BY <2>1, <2>2, <2>3
  <2>5. 6 * g[i - 1] = (i - 2) * (i - 1) * (2 * i - 3)
    BY <2>4
  <2>. HIDE DEF Bad
  <2>6. g[i] = g[i - 1] + (i - 1) * (i - 1) /\ g[i - 1] \in Int
    BY <1>1, <1>2, <2>2, <2>4
  <2>7. (i - 2) * (i - 1) * (2 * i - 3) + 6 * ((i - 1) * (i - 1)) = (i - 1) * i * (2 * i - 1)
    <3>1. i \in Int
      BY <2>2
    <3>. HIDE <2>1, <2>2
    <3>. QED
      BY <3>1
  <2> DEFINE a == (i - 2) * (i - 1) * (2 * i - 3)
             b == (i - 1) * (i - 1)
             c == (i - 1) * i * (2 * i - 1)
  <2>8. 6 * g[i - 1] = a /\ a + 6 * b = c /\ g[i] = g[i - 1] + b /\ 6 * g[i] # c
        /\ a \in Int /\ b \in Int /\ g[i - 1] \in Int
    BY <2>2, <2>5, <2>6, <2>7
  <2>. HIDE DEF a, b, c
  <2>9. 6 * (g[i - 1] + b) = 6 * g[i - 1] + 6 * b
    BY <2>8
  <2>10. 6 * g[i] = 6 * (g[i - 1] + b) /\ 6 * g[i - 1] + 6 * b = c /\ 6 * g[i] # c
    <3>1. g[i] = g[i - 1] + b /\ 6 * g[i - 1] = a /\ a + 6 * b = c /\ 6 * g[i] # c
      BY <2>8
    <3>. QED
      BY <3>1, Zenon
  <2>. QED
    BY <2>9, <2>10, Zenon
<1>4. n # 0 => 6 * g[n] = (n - 1) * n * (2 * n - 1)
  BY <1>3
<1>. HIDE DEF Bad
<1>5. n = 0 => 6 * g[n] = (n - 1) * n * (2 * n - 1)
  BY <1>2
<1>. QED
  BY <1>2, <1>4, <1>5 DEF s

\* ... so that it divides by a positive spread.
LEMMA Spread ==
  ASSUME NEW n \in Nat, n >= 2, NEW squares \in Int, NEW sum \in Int,
         6 * squares = (n - 1) * n * (2 * n - 1), 2 * sum = n * (n - 1)
  PROVE  n * squares - sum * sum > 0
<1>1. 12 * (n * squares) = 2 * n * ((n - 1) * n * (2 * n - 1))
  OBVIOUS
<1>2. 4 * (sum * sum) = (n * (n - 1)) * (n * (n - 1))
  OBVIOUS
<1>3. 12 * (n * squares - sum * sum) = (n * n) * ((n - 1) * (n + 1))
  BY <1>1, <1>2
<1>4. n * n > 0 /\ (n - 1) * (n + 1) > 0
  OBVIOUS
<1>5. (n * n) * ((n - 1) * (n + 1)) > 0
  <2> DEFINE a == n * n  b == (n - 1) * (n + 1)
  <2>1. a \in Int /\ b \in Int /\ a > 0 /\ b > 0
    BY <1>4
  <2>. HIDE DEF a, b
  <2>2. a * b > 0
    BY <2>1
  <2>. QED
    BY <2>2 DEF a, b
<1>. QED
  BY <1>3, <1>5

LEMMA TrendInt ==
  ASSUME NEW h \in Seq(Int), Len(h) >= 2, NEW k \in Int
  PROVE  LinearTrend(h, k) \in Int
<1> DEFINE n == Len(h)
           moment  == Total([i \in DOMAIN h |-> (i - 1) * h[i]])
           squares == Total([i \in DOMAIN h |-> (i - 1) * (i - 1)])
           sum     == (n * (n - 1)) \div 2
           total   == Total(h)
           slope   == n * moment - sum * total
           spread  == n * squares - sum * sum
<1>1. n \in Nat /\ n >= 2 /\ DOMAIN h = 1..n /\ \A i \in 1..n : h[i] \in Int
  BY ElementOfSeq, LenProperties
<1>2. moment \in Int
  <2>1. [i \in DOMAIN h |-> (i - 1) * h[i]] \in Seq(Int)
    BY <1>1
  <2>. QED
    BY <2>1, TotalInt
<1>3. squares \in Int /\ 6 * squares = (n - 1) * n * (2 * n - 1)
  <2>1. [i \in DOMAIN h |-> (i - 1) * (i - 1)] \in Seq(Int)
    BY <1>1
  <2>2. squares = Total([i \in 1..n |-> (i - 1) * (i - 1)])
    BY <1>1
  <2>3. squares \in Int
    BY <2>1, TotalInt
  <2>. HIDE DEF n, squares
  <2>. QED
    BY <1>1, <2>2, <2>3, SquaresSummed
<1>4. total \in Int
  BY TotalInt
<1>5. LinearTrend(h, k) = (2 * spread * total + n * slope * (n - 1 + 2 * k)) \div (2 * n * spread)
  BY DEF LinearTrend
<1>. HIDE DEF n, moment, squares, total
<1>6. sum \in Int /\ 2 * sum = n * (n - 1)
  <2>1. n * (n - 1) \in Int /\ (n * (n - 1)) % 2 = 0
    <3>1. n % 2 = 0 \/ n % 2 = 1
      BY <1>1
    <3>2. CASE n % 2 = 0
      <4>1. PICK m \in Int : n = 2 * m
        BY <1>1, <3>2
      <4>2. n * (n - 1) = 2 * (m * (n - 1)) /\ m * (n - 1) \in Int
        BY <1>1, <4>1
      <4>. QED
        BY <4>2
    <3>3. CASE n % 2 = 1
      <4>1. PICK m \in Int : n = 2 * m + 1
        BY <1>1, <3>3
      <4>2. n * (n - 1) = 2 * (n * m) /\ n * m \in Int
        BY <1>1, <4>1
      <4>. QED
        BY <4>2
    <3>. QED
      BY <3>1, <3>2, <3>3
  <2> DEFINE p == n * (n - 1)
  <2>2. p \in Int /\ p % 2 = 0 /\ sum = p \div 2
    BY <2>1
  <2>. HIDE DEF p, sum
  <2>3. sum \in Int /\ 2 * sum = p
    BY <2>2
  <2>. QED
    BY <2>3 DEF p
<1>. HIDE DEF sum
<1>7. spread > 0
  BY <1>1, <1>3, <1>6, Spread
<1>8. spread \in Int /\ slope \in Int
  BY <1>1, <1>2, <1>3, <1>4, <1>6
<1>. HIDE DEF spread, slope
<1> DEFINE x == 2 * spread * total + n * slope * (n - 1 + 2 * k)
           y == 2 * n * spread
<1>9. x \in Int /\ y \in Int /\ y > 0
  <2>1. x \in Int /\ y \in Int
    BY <1>1, <1>4, <1>8
  <2>2. 2 * n > 0 /\ 2 * n \in Int
    BY <1>1
  <2> DEFINE a == 2 * n
  <2>. HIDE DEF a
  <2>3. a \in Int /\ a > 0
    BY <2>2 DEF a
  <2>4. a * spread > 0
    BY <2>3, <1>7, <1>8
  <2>. QED
    BY <2>1, <2>4 DEF a
<1>10. LinearTrend(h, k) = x \div y
  BY <1>5
<1>. HIDE DEF x, y
<1>. QED
  BY <1>9, <1>10

\* The models by name, with what they need.
LEMMA ModelsNamed ==
  ASSUME NEW season \in Nat, NEW j \in DOMAIN Models(season)
  PROVE  LET m == Models(season)[j] IN
         /\ m.minimum \in Nat /\ m.minimum >= 2
         /\ m.name \in {"naive", "mean", "drift", "moving_average_3", "moving_average_6",
                        "linear_trend", "seasonal_naive"}
         /\ m.name = "seasonal_naive" => season >= 2
<1>1. CASE season < 2
  BY <1>1 DEF Models
<1>2. CASE ~(season < 2)
  BY <1>2 DEF Models
<1>. QED
  BY <1>1, <1>2

LEMMA RecentInt ==
  ASSUME NEW h \in Seq(Int), Len(h) >= 2, NEW n \in Nat \ {0}
  PROVE  Recent(h, n) \in Seq(Int) /\ Len(Recent(h, n)) \in Nat \ {0}
<1> DEFINE from == Max({1, Len(h) - n + 1})
<1>1. Len(h) \in Nat /\ 1 \in Int /\ Len(h) - n + 1 \in Int /\ \A i \in 1..Len(h) : h[i] \in Int
  BY LenProperties, ElementOfSeq
<1>2. from \in {1, Len(h) - n + 1} /\ from >= 1
  BY <1>1, GreaterOfTwo, Zenon
<1>3. Recent(h, n) = SubSeq(h, from, Len(h))
  BY DEF Recent
<1>. HIDE DEF from
<1>4. from \in 1..Len(h)
  BY <1>1, <1>2
<1>5. \A i \in from..Len(h) : h[i] \in Int
  BY <1>1, <1>4
<1>6. /\ SubSeq(h, from, Len(h)) \in Seq(Int)
      /\ Len(SubSeq(h, from, Len(h))) = IF from <= Len(h) THEN Len(h) - from + 1 ELSE 0
  BY <1>1, <1>4, <1>5, SubSeqProperties
<1>. QED
  BY <1>1, <1>3, <1>4, <1>6

LEMMA PredictInt ==
  ASSUME NEW season \in Nat, NEW j \in DOMAIN Models(season),
         NEW h \in Seq(Int), Len(h) >= 2, NEW k \in Nat \ {0}
  PROVE  Predict(Models(season)[j], season, h, k) \in Int
<1> DEFINE m == Models(season)[j]
           p == Predict(m, season, h, k)
<1>1. /\ m.name \in {"naive", "mean", "drift", "moving_average_3", "moving_average_6",
                     "linear_trend", "seasonal_naive"}
      /\ m.name = "seasonal_naive" => season >= 2
  BY ModelsNamed
<1>. HIDE DEF m
<1>2. /\ Len(h) \in Nat /\ \A i \in 1..Len(h) : h[i] \in Int
      /\ Last(h) = h[Len(h)] /\ h[Len(h)] \in Int /\ h[1] \in Int
  <2>1. Len(h) \in Nat /\ \A i \in 1..Len(h) : h[i] \in Int
    BY LenProperties, ElementOfSeq
  <2>. QED
    BY <2>1 DEF Last
<1>3. ASSUME m.name = "naive" PROVE p \in Int
  BY <1>2, <1>3 DEF Predict
<1>4. ASSUME m.name = "mean" PROVE p \in Int
  <2>1. p = Total(h) \div Len(h)
    BY <1>4 DEF Predict
  <2>2. Total(h) \in Int /\ Len(h) \in Nat \ {0}
    BY <1>2, TotalInt
  <2>. QED
    BY <2>1, <2>2
<1>5. ASSUME m.name = "drift" PROVE p \in Int
  <2> DEFINE x == k * (h[Len(h)] - h[1])
             y == Len(h) - 1
  <2>1. p = h[Len(h)] + x \div y
    BY <1>2, <1>5 DEF Predict
  <2>2. x \in Int /\ y \in Nat \ {0}
    BY <1>2
  <2>. HIDE DEF x, y
  <2>3. x \div y \in Int
    BY <2>2
  <2>. QED
    BY <1>2, <2>1, <2>3
<1>6. ASSUME m.name = "moving_average_3" PROVE p \in Int
  <2>1. p = Total(Recent(h, 3)) \div Len(Recent(h, 3))
    BY <1>6 DEF Predict
  <2>2. Recent(h, 3) \in Seq(Int) /\ Len(Recent(h, 3)) \in Nat \ {0}
    BY RecentInt
  <2>3. Total(Recent(h, 3)) \in Int
    BY <2>2, TotalInt
  <2>. QED
    BY <2>1, <2>2, <2>3
<1>7. ASSUME m.name = "moving_average_6" PROVE p \in Int
  <2>1. p = Total(Recent(h, 6)) \div Len(Recent(h, 6))
    BY <1>7 DEF Predict
  <2>2. Recent(h, 6) \in Seq(Int) /\ Len(Recent(h, 6)) \in Nat \ {0}
    BY RecentInt
  <2>3. Total(Recent(h, 6)) \in Int
    BY <2>2, TotalInt
  <2>. QED
    BY <2>1, <2>2, <2>3
<1>8. ASSUME m.name = "linear_trend" PROVE p \in Int
  <2>1. p = LinearTrend(h, k) /\ k \in Int
    BY <1>8 DEF Predict
  <2>. QED
    BY <2>1, TrendInt
<1>9. ASSUME m.name = "seasonal_naive" PROVE p \in Int
  <2>1. p = IF Len(h) < season THEN h[Len(h)] ELSE h[Len(h) - season + ((k - 1) % season) + 1]
    BY <1>2, <1>9 DEF Predict
  <2>2. season \in Nat \ {0} /\ (k - 1) % season \in 0..(season - 1)
    BY <1>1, <1>9
  <2>3. ~(Len(h) < season) => Len(h) - season + ((k - 1) % season) + 1 \in 1..Len(h)
    BY <1>2, <2>2
  <2>. QED
    BY <1>2, <2>1, <2>3
<1>10. p \in Int
  BY <1>1, <1>3, <1>4, <1>5, <1>6, <1>7, <1>8, <1>9
<1>. QED
  BY <1>10 DEF m

LEMMA ClipInt == ASSUME NEW n \in Int PROVE Clip(n) \in Int
<1>1. 0 \in Int
  OBVIOUS
<1>2. Max({0, n}) \in {0, n}
  BY <1>1, GreaterOfTwo, Zenon
<1>. QED
  BY <1>2 DEF Clip

-----------------------------------------------------------------------------
(* The candidates: there is always one.                                    *)

\* Sequences put end to end.
LEMMA Flattened ==
  ASSUME NEW V, NEW n \in Nat \ {0}, NEW seqs \in [1..n -> Seq(V)]
  PROVE  FlattenSeq(seqs) \in Seq(V) /\ Len(FlattenSeq(seqs)) >= Len(seqs[1])
<1> DEFINE Flattens(f, m) == f = [i \in 1..m |-> IF i = 1 THEN seqs[i] ELSE f[i - 1] \o seqs[i]]
           Unflattened == {m \in 1..n : ~\E f : Flattens(f, m)}
<1>0. Unflattened \in SUBSET Nat /\ \A m \in 1..n : m \notin Unflattened => \E f : Flattens(f, m)
  <2>1. Unflattened \subseteq 1..n
    BY Zenon
  <2>2. \A m \in 1..n : m \notin Unflattened => \E f : Flattens(f, m)
    BY Zenon
  <2>3. 1..n \subseteq Nat
    OBVIOUS
  <2>. QED
    BY <2>1, <2>2, <2>3, Zenon
<1>1. Unflattened = {}
  <2> SUFFICES ASSUME Unflattened # {} PROVE FALSE
    OBVIOUS
  <2>1. PICK m \in Unflattened : \A k \in Unflattened : m <= k
    <3>. HIDE DEF Unflattened
    <3>. QED
      BY <1>0, LeastExists
  <2>2. m \in 1..n /\ ~\E f : Flattens(f, m)
    OBVIOUS
  <2>3. CASE m = 1
    <3>1. Flattens([i \in 1..1 |-> seqs[1]], 1)
      OBVIOUS
    <3>. QED
      BY <2>3, <3>1
  <2>4. CASE m # 1
    <3>1. m - 1 \in 1..n /\ m - 1 \notin Unflattened
      <4>. HIDE DEF Unflattened
      <4>. QED
        BY <2>1, <2>2, <2>4
    <3>2. PICK f : Flattens(f, m - 1)
      <4>1. \E f : Flattens(f, m - 1)
        BY <1>0, <3>1, Zenon
      <4>. QED
        BY <4>1, Zenon
    <3> DEFINE g == [i \in 1..m |-> IF i = m THEN f[m - 1] \o seqs[m] ELSE f[i]]
    <3>3. ASSUME NEW i \in 1..m
          PROVE  g[i] = IF i = 1 THEN seqs[i] ELSE g[i - 1] \o seqs[i]
      <4>1. CASE i = m
        <5>1. m \in 1..m /\ m - 1 \in 1..m /\ m - 1 # m
          BY <2>2, <2>4
        <5>2. g[m] = f[m - 1] \o seqs[m] /\ g[m - 1] = f[m - 1]
          BY <5>1
        <5>. HIDE DEF g
        <5>. QED
          BY <2>4, <4>1, <5>2
      <4>2. CASE i # m
        <5>1. i \in 1..(m - 1) /\ (i # 1 => i - 1 \in 1..m /\ i - 1 # m)
          BY <2>2, <4>2
        <5>2. f[i] = IF i = 1 THEN seqs[i] ELSE f[i - 1] \o seqs[i]
          BY <3>2, <5>1
        <5>. QED
          BY <4>2, <5>1, <5>2
      <4>. QED
        BY <4>1, <4>2
    <3>4. Flattens(g, m)
      BY <3>3
    <3>. QED
      BY <3>4
  <2>. QED
    BY <2>3, <2>4
<1> DEFINE flat == CHOOSE f : Flattens(f, n)
<1>2. Flattens(flat, n)
  <2>1. n \in 1..n /\ n \notin Unflattened
    <3>. HIDE DEF Unflattened
    <3>. QED
      BY <1>1
  <2>2. \E f : Flattens(f, n)
    BY <1>0, <2>1, Zenon
  <2>. QED
    BY <2>2, Zenon
<1>3. FlattenSeq(seqs) = flat[n]
  <2>1. Len(seqs) = n
    OBVIOUS
  <2>. QED
    BY <2>1 DEF FlattenSeq
<1>. HIDE DEF flat
<1> DEFINE Joined(i) == flat[i] \in Seq(V) /\ Len(flat[i]) >= Len(seqs[1])
           Bad == {i \in 1..n : ~Joined(i)}
<1>4. Bad = {}
  <2> SUFFICES ASSUME Bad # {} PROVE FALSE
    OBVIOUS
  <2>0. Bad \in SUBSET Nat
    OBVIOUS
  <2>1. PICK i \in Bad : \A k \in Bad : i <= k
    <3>. HIDE DEF Bad
    <3>. QED
      BY <2>0, LeastExists
  <2>2. i \in 1..n /\ ~Joined(i) /\ 1 \in 1..n
    OBVIOUS
  <2>3. flat[i] = IF i = 1 THEN seqs[i] ELSE flat[i - 1] \o seqs[i]
    BY <1>2, <2>2
  <2>4. i # 1
    BY <2>2, <2>3
  <2>5. Joined(i - 1) /\ seqs[i] \in Seq(V)
    BY <2>1, <2>2, <2>4
  <2>. HIDE DEF Bad
  <2>6. flat[i] = flat[i - 1] \o seqs[i]
    BY <2>3, <2>4
  <2>7. flat[i] \in Seq(V) /\ Len(flat[i]) = Len(flat[i - 1]) + Len(seqs[i])
    BY <2>5, <2>6, ConcatProperties
  <2>8. Len(flat[i - 1]) \in Nat /\ Len(seqs[i]) \in Nat /\ Len(seqs[1]) \in Nat
    BY <2>2, <2>5, LenProperties
  <2>. QED
    BY <2>2, <2>5, <2>7, <2>8
<1>5. Joined(n)
  <2>1. n \in 1..n
    OBVIOUS
  <2>. QED
    BY <1>4, <2>1, Zenon
<1>. HIDE DEF Bad
<1>. QED
  BY <1>3, <1>5

\* The rolling origins leave months to predict.
LEMMA OriginsEarly ==
  ASSUME NEW working, Len(working) \in Nat, Len(working) >= 4, NEW season \in Nat
  PROVE  FirstOrigin(working, season) \in 2..(Len(working) - 2)
<1> DEFINE w == Len(working)
           half == w \div 2
           seasonal == Min({season + 1, half})
           warmUp == Max({4, seasonal})
           least == Max({2, half})
<1>1. w \in Nat /\ w >= 4 /\ half \in Int /\ half >= 2 /\ 2 * half <= w /\ season + 1 \in Int
  OBVIOUS
<1>2. FirstOrigin(working, season) = IF w - warmUp >= 3 THEN warmUp ELSE least
  BY DEF FirstOrigin
<1>. HIDE DEF w, half
<1>3. seasonal \in Int
  <2>1. seasonal \in {season + 1, half}
    BY <1>1, LesserOfTwo, Zenon
  <2>. QED
    BY <1>1, <2>1
<1>. HIDE DEF seasonal
<1>4. warmUp \in {4, seasonal} /\ warmUp >= 4
  <2>1. 4 \in Int
    OBVIOUS
  <2>. QED
    BY <1>3, <2>1, GreaterOfTwo, Zenon
<1>5. least \in {2, half} /\ least >= 2
  <2>1. 2 \in Int
    OBVIOUS
  <2>. QED
    BY <1>1, <2>1, GreaterOfTwo, Zenon
<1>. HIDE DEF warmUp, least
<1>6. warmUp \in Int /\ least \in Int /\ least <= w - 2
  BY <1>1, <1>3, <1>4, <1>5
<1>7. FirstOrigin(working, season) \in 2..(w - 2)
  BY <1>1, <1>2, <1>4, <1>5, <1>6
<1>. QED
  BY <1>7 DEF w


\* The errors of a model at a horizon.
LEMMA ErrorsInt ==
  ASSUME NEW working \in Seq(Int), Len(working) >= 4, NEW season \in Nat,
         NEW j \in DOMAIN Models(season), NEW k \in Nat \ {0}
  PROVE  /\ Errors(Models(season)[j], season, working, k) \in Seq(Int)
         /\ k = 1 /\ Models(season)[j].minimum = 2
              => Len(Errors(Models(season)[j], season, working, k)) > 0
<1> DEFINE m == Models(season)[j]
           origin == FirstOrigin(working, season)
           first == Max({origin, m.minimum})
           more  == Len(working) - k - first + 1
           folds == Max({0, more})
           error(i) == working[first + i - 1 + k]
                         - Predict(m, season, SubSeq(working, 1, first + i - 1), k)
<1>0. Len(working) \in Nat /\ \A i \in 1..Len(working) : working[i] \in Int
  BY LenProperties, ElementOfSeq
<1>1. origin \in 2..(Len(working) - 2)
  BY <1>0, OriginsEarly
<1>2. origin \in Int /\ m.minimum \in Int
  BY <1>0, <1>1, ModelsNamed
<1>3. Errors(m, season, working, k) = [i \in 1..folds |-> error(i)]
  BY DEF Errors
<1>. HIDE DEF origin, m
<1>4. first \in {origin, m.minimum} /\ first >= origin /\ first >= m.minimum
  BY <1>2, GreaterOfTwo, Zenon
<1>. HIDE DEF first
<1>5. more \in Int /\ 0 \in Int /\ first \in Int /\ first >= 2
  BY <1>0, <1>1, <1>2, <1>4
<1>6. k = 1 /\ m.minimum = 2 => more > 0
  BY <1>0, <1>1, <1>2, <1>4
<1>. HIDE DEF more
<1>7. folds \in {0, more} /\ folds >= 0 /\ folds >= more
  BY <1>5, GreaterOfTwo, Zenon
<1>. HIDE DEF folds
<1>8. folds \in Nat /\ (k = 1 /\ m.minimum = 2 => folds > 0)
  BY <1>5, <1>6, <1>7
<1>9. ASSUME NEW i \in 1..folds PROVE error(i) \in Int
  <2> DEFINE last == first + i - 1
  <2>1. last \in 2..Len(working) /\ last + k \in 1..Len(working)
    BY <1>0, <1>5, <1>7, <1>8 DEF more
  <2>2. working[last + k] \in Int
    BY <1>0, <2>1
  <2>3. SubSeq(working, 1, last) \in Seq(Int) /\ Len(SubSeq(working, 1, last)) >= 2
    <3>1. last \in Int /\ \A x \in 1..last : working[x] \in Int
      BY <1>0, <2>1
    <3>. HIDE DEF last
    <3>2. /\ SubSeq(working, 1, last) \in Seq(Int)
          /\ Len(SubSeq(working, 1, last)) = IF 1 <= last THEN last - 1 + 1 ELSE 0
      BY <3>1, SubSeqProperties
    <3>. QED
      BY <1>0, <2>1, <3>2
  <2>. HIDE DEF last
  <2>4. Predict(m, season, SubSeq(working, 1, last), k) \in Int
    BY <2>3, PredictInt DEF m
  <2>5. error(i) = working[last + k] - Predict(m, season, SubSeq(working, 1, last), k)
    BY Zenon DEF last
  <2>. HIDE DEF error
  <2>. QED
    BY <2>2, <2>4, <2>5
<1>10. /\ [i \in 1..folds |-> error(i)] \in Seq(Int)
       /\ Len([i \in 1..folds |-> error(i)]) = folds
  <2>. HIDE DEF error
  <2>1. [i \in 1..folds |-> error(i)] \in [1..folds -> Int]
    BY <1>9
  <2> DEFINE e == [i \in 1..folds |-> error(i)]
  <2>2. e \in [1..folds -> Int]
    BY <2>1
  <2>. HIDE DEF e
  <2>3. e \in Seq(Int) /\ Len(e) = folds
    BY <1>8, <2>2
  <2>. QED
    BY <2>3 DEF e
<1>11. Errors(m, season, working, k) \in Seq(Int) /\ Len(Errors(m, season, working, k)) = folds
  <2>. HIDE DEF error
  <2>. QED
    BY <1>3, <1>10, Zenon
<1>. QED
  BY <1>8, <1>11 DEF m

LEMMA AllErrorsInt ==
  ASSUME NEW working \in Seq(Int), Len(working) >= 4, NEW season \in Nat,
         NEW j \in DOMAIN Models(season), NEW steps \in Nat \ {0}
  PROVE  /\ AllErrors(Models(season)[j], season, working, steps) \in Seq(Int)
         /\ Models(season)[j].minimum = 2
              => AllErrors(Models(season)[j], season, working, steps) # <<>>
<1> DEFINE m == Models(season)[j]
           seqs == [k \in 1..steps |-> Errors(m, season, working, k)]
<1>1. AllErrors(m, season, working, steps) = FlattenSeq(seqs)
  BY DEF AllErrors
<1>2. \A k \in 1..steps : Errors(m, season, working, k) \in Seq(Int)
  BY ErrorsInt
<1>3. m.minimum = 2 => Len(Errors(m, season, working, 1)) > 0
  BY ErrorsInt
<1>. HIDE DEF m
<1>4. 1 \in 1..steps
  OBVIOUS
<1>5. seqs \in [1..steps -> Seq(Int)] /\ seqs[1] = Errors(m, season, working, 1)
  BY <1>2, <1>4
<1>. HIDE DEF seqs
<1>6. FlattenSeq(seqs) \in Seq(Int) /\ Len(FlattenSeq(seqs)) >= Len(seqs[1])
  BY <1>5, Flattened
<1>7. m.minimum = 2 => FlattenSeq(seqs) # <<>>
  <2>1. Len(FlattenSeq(seqs)) \in Nat /\ Len(seqs[1]) \in Nat /\ Len(<<>>) = 0
    BY <1>5, <1>6, <1>4, LenProperties
  <2>. QED
    BY <1>3, <1>5, <1>6, <2>1
<1>. QED
  BY <1>1, <1>6, <1>7 DEF m

\* The naive model can always be evaluated.
LEMMA NaiveEvaluated ==
  ASSUME NEW working \in Seq(Int), Len(working) >= 4, NEW season \in Nat,
         NEW steps \in Nat \ {0}
  PROVE  Candidates(season, working, steps) # {}
<1> DEFINE models == Models(season)
<1>1. 1 \in DOMAIN models /\ models[1].minimum = 2
  BY DEF Models
<1>2. AllErrors(models[1], season, working, steps) # <<>>
  BY <1>1, AllErrorsInt
<1>3. models[1].minimum <= Len(working)
  BY <1>1
<1>. HIDE DEF models
<1>4. [place |-> 1, model |-> models[1], errors |-> AllErrors(models[1], season, working, steps)]
        \in Candidates(season, working, steps)
  BY <1>1, <1>2, <1>3 DEF Candidates, models
<1>. QED
  BY <1>4

LEMMA RoundedInt ==
  ASSUME NEW n \in Int, NEW d \in Nat \ {0}
  PROVE  Rounded(n, d) \in Int
<1> DEFINE unit  == d * Decimal
           below == n \div unit
           whole == IF 2 * (n % unit) < unit \/ (2 * (n % unit) = unit /\ below % 2 = 0)
                    THEN below ELSE below + 1
<1>1. Decimal \in Nat \ {0}
  BY ForecastAssumption, Zenon
<1>2. unit \in Int /\ unit > 0
  BY <1>1
<1>3. Rounded(n, d) = Decimal * whole
  BY Zenon DEF Rounded
<1>. HIDE DEF unit
<1>4. below \in Int
  BY <1>2
<1>. HIDE DEF below
<1>5. whole \in Int
  BY <1>4
<1>. HIDE DEF whole
<1>. QED
  BY <1>1, <1>3, <1>5

\* The chosen model is one of those that could be evaluated.
LEMMA ChosenEvaluated ==
  ASSUME NEW working \in Seq(Int), Len(working) >= 4, NEW season \in Nat,
         NEW steps \in Nat \ {0}
  PROVE  \E j \in DOMAIN Models(season) :
           /\ Chosen(Candidates(season, working, steps)) = Models(season)[j]
           /\ AllErrors(Models(season)[j], season, working, steps) # <<>>
<1> DEFINE C == Candidates(season, working, steps)
           mae(c) == Rounded(Loss(c.errors), Len(c.errors))
           noWorse(c, d) == mae(c) <= mae(d)
           R == {p \in C \X C : noWorse(p[1], p[2])}
           best == {c \in C : \A d \in C : noWorse(c, d)}
<1>1. ASSUME NEW c \in C
      PROVE  \E j \in DOMAIN Models(season) :
               /\ c.place = j /\ c.model = Models(season)[j]
               /\ c.errors = AllErrors(Models(season)[j], season, working, steps)
               /\ c.errors # <<>>
  BY DEF Candidates
<1>2. ASSUME NEW c \in C
      PROVE  c.place \in Nat /\ mae(c) \in Int
  <2>1. PICK j \in DOMAIN Models(season) :
               /\ c.place = j /\ c.model = Models(season)[j]
               /\ c.errors = AllErrors(Models(season)[j], season, working, steps)
               /\ c.errors # <<>>
    BY <1>1
  <2>2. c.errors \in Seq(Int)
    BY <2>1, AllErrorsInt
  <2>3. Len(c.errors) \in Nat \ {0}
    BY <2>1, <2>2, LenProperties, EmptySeq
  <2>4. DOMAIN Models(season) \subseteq Nat
    BY DEF Models
  <2>5. Loss(c.errors) \in Int
    <3> DEFINE e == c.errors
               s == [x \in DOMAIN e |-> Absolute(e[x])]
    <3>1. Loss(e) = Total(s)
      BY DEF Loss
    <3>2. \A x \in 1..Len(e) : e[x] \in Int
      BY <2>2, ElementOfSeq
    <3>3. DOMAIN e = 1..Len(e) /\ Len(e) \in Nat
      BY <2>2, LenProperties
    <3>. HIDE DEF e
    <3>4. \A x \in DOMAIN e : Absolute(e[x]) \in Int
      BY <3>2, <3>3 DEF Absolute
    <3>5. s \in Seq(Int)
      BY <3>3, <3>4
    <3>. HIDE DEF s
    <3>. QED
      BY <3>1, <3>5, TotalInt DEF e
  <2>6. mae(c) \in Int
    BY <2>3, <2>5, RoundedInt
  <2>. QED
    BY <2>1, <2>4, <2>6
<1>3. IsFiniteSet(C) /\ C # {}
  <2>1. C # {}
    BY NaiveEvaluated
  <2>2. IsFiniteSet(DOMAIN Models(season))
    <3>1. DOMAIN Models(season) \subseteq 1..7
      BY DEF Models
    <3>2. IsFiniteSet(1..7)
      <4>1. 1 \in Int /\ 7 \in Int
        OBVIOUS
      <4>. QED
        BY <4>1, FS_Interval, Zenon
    <3>. QED
      BY <3>1, <3>2, FS_Subset
  <2> DEFINE candidate(j) == [place |-> j, model |-> Models(season)[j],
                              errors |-> AllErrors(Models(season)[j], season, working, steps)]
             All == {candidate(j) : j \in DOMAIN Models(season)}
             f == [j \in DOMAIN Models(season) |-> candidate(j)]
  <2>3. C \subseteq All
    BY DEF Candidates
  <2>4. f \in Surjection(DOMAIN Models(season), All)
    <3>. HIDE DEF candidate
    <3>. QED
      BY DEF Surjection
  <2>5. IsFiniteSet(All)
    <3>. HIDE DEF f, All
    <3>. QED
      BY <2>2, <2>4, FS_Surjection
  <2>. QED
    BY <2>1, <2>3, <2>5, FS_Subset
<1>. HIDE DEF C, mae
<1>4. \A c \in C, d \in C : <<c, d>> \in R <=> noWorse(c, d)
  <2>. HIDE DEF noWorse
  <2>. QED
    OBVIOUS
<1>5. \A c \in C, d \in C : noWorse(c, d) \/ noWorse(d, c)
  BY <1>2
<1>6. \A c \in C, d \in C, e \in C : noWorse(c, d) /\ noWorse(d, e) => noWorse(c, e)
  BY <1>2
<1>7. \E c \in C : \A d \in C : <<c, d>> \in R
  <2>1. \A c \in C, d \in C : <<c, d>> \in R \/ <<d, c>> \in R
    <3>. HIDE DEF noWorse, R
    <3>. QED
      BY <1>4, <1>5
  <2>2. \A c \in C, d \in C, e \in C : <<c, d>> \in R /\ <<d, e>> \in R => <<c, e>> \in R
    <3>. HIDE DEF noWorse, R
    <3>. QED
      BY <1>4, <1>6
  <2>. HIDE DEF R
  <2>. QED
    BY <1>3, <2>1, <2>2, FirstExists
<1>8. best # {} /\ best \subseteq C
  <2>. HIDE DEF noWorse, R
  <2>. QED
    BY <1>4, <1>7
<1>9. Chosen(C) = (CHOOSE c \in best : \A d \in best : c.place <= d.place).model
  BY Zenon DEF Chosen, mae
<1>. HIDE DEF best
<1>10. \E c \in best : \A d \in best : c.place <= d.place
  <2> DEFINE P == {c.place : c \in best}
  <2>1. P \in SUBSET Nat /\ P # {}
    BY <1>2, <1>8
  <2>2. PICK n \in P : \A x \in P : n <= x
    <3>. HIDE DEF P
    <3>. QED
      BY <2>1, LeastExists
  <2>. QED
    BY <2>2
<1>11. PICK c \in best : Chosen(C) = c.model
  BY <1>9, <1>10
<1>. QED
  BY <1>1, <1>8, <1>11 DEF C

-----------------------------------------------------------------------------
(* The band.                                                               *)

LEMMA IntervalBounds == Interval \in Nat /\ Interval >= 50 /\ Interval <= 99
<1>1. Interval \in 50..99
  BY ForecastAssumption, Zenon
<1>. QED
  BY <1>1

\* A quantile is one of the numbers, and at least the share asked for is within it.
LEMMA QuantileOf ==
  ASSUME NEW numbers \in Seq(Int), Len(numbers) > 0
  PROVE  /\ \E i \in DOMAIN numbers : Quantile(numbers) = numbers[i]
         /\ Quantile(numbers) \in Int
         /\ LET within == {i \in DOMAIN numbers : numbers[i] <= Quantile(numbers)}
            IN IsFiniteSet(within) /\ 100 * Cardinality(within) >= Interval * Len(numbers)
<1> DEFINE n == Len(numbers)
           rank == (Interval * (n - 1) + 99) \div 100 + 1
           within(q) == {i \in DOMAIN numbers : numbers[i] <= q}
           high == {i \in DOMAIN numbers : Cardinality(within(numbers[i])) >= rank}
           values == {numbers[i] : i \in high}
           all == {numbers[i] : i \in DOMAIN numbers}
<1>1. n \in Nat \ {0} /\ DOMAIN numbers = 1..n /\ \A i \in 1..n : numbers[i] \in Int
  BY LenProperties, ElementOfSeq
<1>2. Quantile(numbers) = Min(values)
  BY Zenon DEF Quantile, Quantify
<1>3. rank \in Int /\ rank <= n /\ 100 * rank >= Interval * n
  <2> DEFINE x == Interval * (n - 1)
             d == (x + 99) \div 100
  <2>1. Interval \in Int /\ Interval >= 50 /\ Interval <= 99
    BY IntervalBounds
  <2>2. x \in Int /\ x = Interval * n - Interval /\ x <= 100 * (n - 1)
    <3>1. (100 - Interval) * (n - 1) >= 0 /\ (100 - Interval) * (n - 1) = 100 * (n - 1) - x
      BY <1>1, <2>1
    <3>2. x \in Int /\ x = Interval * n - Interval
      BY <1>1, <2>1
    <3>. QED
      BY <1>1, <3>1, <3>2
  <2>3. rank = d + 1
    OBVIOUS
  <2>4. Interval * n \in Int
    BY <1>1, <2>1
  <2>. HIDE DEF x, rank, n
  <2>5. d \in Int /\ 100 * d <= x + 99 /\ x + 99 < 100 * d + 100
    BY <2>2
  <2>. HIDE DEF d
  <2>. QED
    BY <1>1, <2>1, <2>2, <2>3, <2>4, <2>5
<1>4. IsFiniteSet(1..n) /\ Cardinality(1..n) = n
  <2>1. 1 \in Int /\ n \in Int /\ ~(1 > n) /\ n - 1 + 1 = n
    BY <1>1
  <2>. QED
    BY <2>1, FS_Interval
<1>5. IsFiniteSet(all) /\ all \in SUBSET Int /\ all # {}
  <2>1. IsFiniteSet(all)
    BY <1>1, <1>4, FiniteImage
  <2>. QED
    BY <1>1, <2>1
<1>6. PICK i \in 1..n : \A j \in 1..n : numbers[j] <= numbers[i]
  <2>1. Max(all) \in all /\ \A x \in all : x <= Max(all)
    <3>. HIDE DEF all
    <3>. QED
      BY <1>5, MaxExists
  <2>. QED
    BY <1>1, <2>1
<1>7. i \in high
  <2>1. within(numbers[i]) = 1..n
    BY <1>1, <1>6
  <2>. QED
    BY <1>1, <1>3, <1>4, <2>1
<1>8. Min(values) \in values
  <2>1. values \subseteq all
    OBVIOUS
  <2>2. IsFiniteSet(values) /\ values \in SUBSET Int
    BY <1>5, <2>1, FS_Subset
  <2>3. values # {}
    BY <1>7
  <2>. HIDE DEF values
  <2>. QED
    BY <2>2, <2>3, MinExists
<1>9. PICK j \in high : Quantile(numbers) = numbers[j]
  <2>. HIDE DEF high
  <2>. QED
    BY <1>2, <1>8
<1>10. within(numbers[j]) \in SUBSET (1..n)
  BY <1>1
<1>11. IsFiniteSet(within(numbers[j])) /\ Cardinality(within(numbers[j])) \in Nat
  BY <1>4, <1>10, FS_Subset, FS_CardinalityType
<1>12. 100 * Cardinality(within(numbers[j])) >= Interval * n
  <2>1. Cardinality(within(numbers[j])) >= rank /\ Interval * n \in Int
    BY <1>1, IntervalBounds
  <2> DEFINE c == Cardinality(within(numbers[j]))
  <2>. HIDE DEF rank, within, n
  <2>. QED
    BY <1>3, <1>11, <2>1
<1>. QED
  BY <1>1, <1>9, <1>11, <1>12

\* The radii never fall below the first.
LEMMA RadiiGrow ==
  ASSUME NEW working \in Seq(Int), Len(working) >= 4, NEW season \in Nat,
         NEW steps \in Nat \ {0}, NEW horizon \in Nat \ {0}, NEW j \in DOMAIN Models(season),
         AllErrors(Models(season)[j], season, working, steps) # <<>>
  PROVE  LET radii == Radii(Models(season)[j], season, working, steps, horizon)
         IN radii \in [1..horizon -> Int] /\ \A k \in 1..horizon : radii[1] <= radii[k]
<1> DEFINE m == Models(season)[j]
           pooled == AllErrors(m, season, working, steps)
           raw == [k \in 1..horizon |-> RawRadius(m, season, working, steps, k)]
           reached(k) == {raw[i] : i \in 1..k}
           radii == [k \in 1..horizon |-> Max(reached(k))]
<1>1. Radii(m, season, working, steps, horizon) = radii
  BY DEF Radii
<1>2. pooled \in Seq(Int) /\ Len(pooled) > 0
  <2>1. pooled \in Seq(Int)
    BY AllErrorsInt
  <2>2. pooled # <<>>
    OBVIOUS
  <2>. HIDE DEF pooled
  <2>. QED
    BY <2>1, <2>2, LenProperties, EmptySeq
<1>3. ASSUME NEW k \in 1..horizon PROVE RawRadius(m, season, working, steps, k) \in Int
  <2> DEFINE bucket == IF k <= steps THEN Errors(m, season, working, k) ELSE <<>>
             used == IF Len(bucket) < 4 THEN pooled ELSE bucket
             growth == IF Len(bucket) < 4 THEN k ELSE 1
             sizes == [i \in DOMAIN used |-> Absolute(used[i])]
             q == Quantile(sizes)
  <2>1. bucket \in Seq(Int)
    <3>1. Errors(m, season, working, k) \in Seq(Int)
      BY ErrorsInt
    <3>. QED
      BY <3>1
  <2>2. RawRadius(m, season, working, steps, k) = q * q * growth
    BY DEF RawRadius
  <2>3. growth \in Int
    OBVIOUS
  <2>. HIDE DEF m, pooled, bucket, growth
  <2>4. used \in Seq(Int) /\ Len(used) > 0
    <3>1. Len(bucket) \in Nat
      BY <2>1, LenProperties
    <3>. QED
      BY <1>2, <2>1, <3>1
  <2>. HIDE DEF used
  <2>5. \A i \in DOMAIN used : Absolute(used[i]) \in Int
    BY <2>4, LenProperties, ElementOfSeq DEF Absolute
  <2>6. DOMAIN used = 1..Len(used) /\ Len(used) \in Nat
    BY <2>4, LenProperties
  <2>7. sizes \in Seq(Int) /\ Len(sizes) > 0
    BY <2>4, <2>5, <2>6
  <2>. HIDE DEF sizes
  <2>8. q \in Int
    BY <2>7, QuantileOf
  <2>. HIDE DEF q
  <2>. QED
    BY <2>2, <2>3, <2>8
<1>4. raw \in [1..horizon -> Int]
  BY <1>3
<1>. HIDE DEF raw
<1>5. ASSUME NEW k \in 1..horizon
      PROVE  Max(reached(k)) \in Int /\ raw[1] <= Max(reached(k)) /\ (k = 1 => Max(reached(k)) = raw[1])
  <2>1. IsFiniteSet(1..k)
    <3>1. 1 \in Int /\ k \in Int
      OBVIOUS
    <3>. QED
      BY <3>1, FS_Interval
  <2>2. IsFiniteSet(reached(k))
    BY <2>1, FiniteImage
  <2>3. reached(k) \in SUBSET Int /\ raw[1] \in reached(k) /\ (k = 1 => reached(k) = {raw[1]})
    BY <1>4
  <2> DEFINE r == reached(k)
  <2>4. IsFiniteSet(r) /\ r \in SUBSET Int /\ raw[1] \in r /\ (k = 1 => r = {raw[1]})
    BY <2>2, <2>3
  <2>. HIDE DEF r
  <2>5. Max(r) \in r /\ \A x \in r : x <= Max(r)
    BY <2>4, MaxExists
  <2>6. Max(r) \in Int /\ raw[1] <= Max(r) /\ (k = 1 => Max(r) = raw[1])
    BY <2>4, <2>5
  <2>. QED
    BY <2>6 DEF r
<1>6. radii \in [1..horizon -> Int] /\ \A k \in 1..horizon : radii[1] <= radii[k]
  <2>. HIDE DEF reached
  <2>1. 1 \in 1..horizon
    OBVIOUS
  <2>. QED
    BY <1>5, <2>1
<1>. QED
  BY <1>1, <1>6 DEF m

LEMMA Scaled ==
  ASSUME NEW d \in Int, NEW q \in Nat, Absolute(d) <= q, NEW r \in Nat, NEW R \in Int, r <= R
  PROVE  d * d * r <= R * (q * q)
<1>1. -q <= d /\ d <= q
  BY DEF Absolute
<1>2. (q - d) * (q + d) >= 0 /\ (q - d) * (q + d) = q * q - d * d
  BY <1>1
<1>3. q * q \in Nat /\ d * d \in Int
  OBVIOUS
<1>4. d * d <= q * q
  BY <1>2, <1>3
<1>5. (d * d) * r <= (q * q) * r
  BY <1>3, <1>4
<1>6. (q * q) * r <= (q * q) * R
  BY <1>3
<1>. QED
  BY <1>3, <1>5, <1>6

\* The rows whose error lies within a radius, and those no band can count.
Reached(rows, radius) == {j \in DOMAIN rows : rows[j].error * rows[j].error * radius[2] <= radius[1]}

Uncounted(rows) ==
  {j \in DOMAIN rows : \/ request.nonNegative /\ rows[j].actual < 0
                       \/ rows[j].error # rows[j].actual - rows[j].prediction}

\* The radii of a band reach the share asked for, and so does its coverage but
\* for the months it cannot count.
WideEnough(rows, radius) == 100 * Cardinality(Reached(rows, radius)) >= Interval * Len(rows)

ToldHonestly(rows, coverage) ==
  100 * (coverage + Cardinality(Uncounted(rows))) >= Interval * Len(rows)

\* A holdout of n months with actual values a, predictions p and errors e as they
\* are reported, their sizes, and radii that never fall below the first.
Measured(n, a, p, e, rows, misses, horizon, radii) ==
  /\ n \in Nat \ {0} /\ a \in [1..n -> Int] /\ p \in [1..n -> Int] /\ e \in [1..n -> Int]
  /\ DOMAIN rows = 1..n /\ Len(rows) = n
  /\ \A k \in 1..n : rows[k].actual = a[k] /\ rows[k].prediction = p[k] /\ rows[k].error = e[k]
  /\ misses \in Seq(Int) /\ Len(misses) = n
  /\ \A k \in 1..n : misses[k] = Absolute(e[k])
  /\ horizon \in Nat /\ n <= horizon /\ radii \in [1..horizon -> Int]
  /\ radii[1] > 0 /\ \A k \in 1..horizon : radii[1] <= radii[k]

\* A band widened to the quantile of its errors reaches, at every horizon, those
\* within the quantile; it covers them unless it cannot count them.
LEMMA WidenedCovers ==
  ASSUME NEW n, NEW a, NEW p, NEW e, NEW rows, NEW misses, NEW horizon, NEW radii,
         Measured(n, a, p, e, rows, misses, horizon, radii),
         NEW q, q = Quantile(misses)
  PROVE  /\ ToldHonestly(rows, Covered(rows, radii, <<q * q, radii[1]>>))
         /\ \A k \in 1..horizon : WideEnough(rows, <<radii[k] * (q * q), radii[1]>>)
<1>. USE DEF Measured
<1> DEFINE within == {k \in DOMAIN misses : misses[k] <= q}
           covered == {k \in DOMAIN rows :
                         Inside(rows[k].actual, rows[k].prediction, radii[k], <<q * q, radii[1]>>)}
           missed == Uncounted(rows)
           reached(k) == Reached(rows, <<radii[k] * (q * q), radii[1]>>)
<1>1. Covered(rows, radii, <<q * q, radii[1]>>) = Cardinality(covered)
  BY DEF Covered, Quantify
<1>2. /\ DOMAIN rows = 1..n /\ Len(rows) = n /\ n \in Nat
      /\ \A k \in 1..n : rows[k].actual = a[k] /\ rows[k].prediction = p[k] /\ rows[k].error = e[k]
  OBVIOUS
<1>3. misses \in Seq(Int) /\ Len(misses) = n /\ DOMAIN misses = 1..n
      /\ \A k \in 1..n : misses[k] = Absolute(e[k])
  OBVIOUS
<1>4. /\ q \in Int /\ \E i \in 1..n : q = misses[i]
      /\ IsFiniteSet(within) /\ 100 * Cardinality(within) >= Interval * n
  <2>1. Len(misses) > 0
    BY <1>3
  <2>2. /\ \E i \in DOMAIN misses : Quantile(misses) = misses[i]
        /\ Quantile(misses) \in Int
        /\ LET w == {i \in DOMAIN misses : misses[i] <= Quantile(misses)}
           IN IsFiniteSet(w) /\ 100 * Cardinality(w) >= Interval * Len(misses)
    BY <1>3, <2>1, QuantileOf
  <2>. QED
    BY <1>3, <2>2, Zenon
<1>5. q >= 0
  <2>1. \A d \in Int : Absolute(d) \in Int /\ Absolute(d) >= 0
    BY DEF Absolute
  <2>2. PICK i \in 1..n : q = Absolute(e[i])
    BY <1>3, <1>4, Zenon
  <2>3. e[i] \in Int
    OBVIOUS
  <2>. QED
    BY <2>1, <2>2, <2>3, Zenon
<1>6. ASSUME NEW j \in within, NEW k \in 1..horizon
      PROVE  /\ j \in 1..n /\ j \in 1..horizon /\ e[j] \in Int
             /\ e[j] * e[j] * radii[1] <= radii[k] * (q * q)
  <2> DEFINE d == e[j]
             r == radii[1]
  <2>1. j \in 1..n /\ j \in 1..horizon /\ Absolute(d) <= q
    BY <1>3
  <2>2. d \in Int /\ r \in Int /\ r > 0 /\ radii[k] \in Int /\ r <= radii[k]
    BY <2>1
  <2>. HIDE DEF d, r
  <2>3. q \in Nat /\ r \in Nat
    BY <1>4, <1>5, <2>2
  <2>4. d * d * r <= radii[k] * (q * q)
    BY <2>1, <2>2, <2>3, Scaled, Zenon
  <2>. QED
    BY <2>1, <2>2, <2>4 DEF d, r
<1>7. \A k \in 1..horizon : within \subseteq reached(k)
  <2> SUFFICES ASSUME NEW k \in 1..horizon, NEW j \in within PROVE j \in reached(k)
    BY Zenon
  <2>. HIDE DEF within
  <2>1. j \in DOMAIN rows /\ rows[j].error = e[j]
    BY <1>2, <1>6
  <2>2. e[j] * e[j] * radii[1] <= radii[k] * (q * q)
    BY <1>6
  <2>. QED
    BY <2>1, <2>2 DEF Reached
<1>8. within \subseteq covered \cup missed
  <2> SUFFICES ASSUME NEW j \in within, j \notin missed PROVE j \in covered
    OBVIOUS
  <2>1. 1 \in 1..horizon
    OBVIOUS
  <2>. HIDE DEF within
  <2>2. j \in 1..n /\ j \in 1..horizon /\ e[j] * e[j] * radii[1] <= radii[j] * (q * q)
    BY <1>6, <2>1
  <2>3. e[j] = a[j] - p[j] /\ (request.nonNegative => a[j] >= 0)
    <3>1. rows[j].error = rows[j].actual - rows[j].prediction
          /\ ~(request.nonNegative /\ rows[j].actual < 0)
      BY <1>2, <2>2 DEF Uncounted
    <3>2. rows[j].actual = a[j] /\ rows[j].prediction = p[j] /\ rows[j].error = e[j]
      BY <1>2, <2>2
    <3>3. a[j] < 0 \/ a[j] >= 0
      BY <2>2
    <3>. QED
      BY <3>1, <3>2, <3>3, Zenon
  <2>4. Inside(a[j], p[j], radii[j], <<q * q, radii[1]>>)
    BY <2>2, <2>3 DEF Inside
  <2>. QED
    BY <1>2, <2>2, <2>4
<1>9. IsFiniteSet(1..n)
  <2>1. 1 \in Int /\ n \in Int
    BY <1>2
  <2>. QED
    BY <2>1, FS_Interval
<1>10. covered \in SUBSET (1..n) /\ missed \in SUBSET (1..n)
       /\ \A k \in 1..horizon : reached(k) \in SUBSET (1..n)
  BY <1>2 DEF Uncounted, Reached
<1>11. Interval * n \in Int
  BY <1>2, IntervalBounds
<1>. HIDE DEF within, covered, missed, reached
<1>12. Cardinality(within) \in Nat
  BY <1>4, FS_CardinalityType
<1>13. \A x \in Nat, y \in Nat, z \in Int : x <= y /\ 100 * x >= z => 100 * y >= z
  OBVIOUS
<1>14. ASSUME NEW k \in 1..horizon
       PROVE  100 * Cardinality(reached(k)) >= Interval * n
  <2>1. IsFiniteSet(reached(k)) /\ Cardinality(reached(k)) \in Nat
    BY <1>9, <1>10, FS_Subset, FS_CardinalityType
  <2>2. within \in SUBSET reached(k)
    BY <1>7
  <2>3. Cardinality(within) <= Cardinality(reached(k))
    BY <2>1, <2>2, FS_Subset
  <2>. QED
    BY <1>4, <1>11, <1>12, <1>13, <2>1, <2>3, Zenon
<1>15. 100 * (Cardinality(covered) + Cardinality(missed)) >= Interval * n
  <2>1. IsFiniteSet(covered) /\ IsFiniteSet(missed)
    BY <1>9, <1>10, FS_Subset
  <2>2. Cardinality(covered) \in Nat /\ Cardinality(missed) \in Nat
    BY <2>1, FS_CardinalityType
  <2>3. /\ IsFiniteSet(covered \cup missed)
        /\ Cardinality(covered \cup missed)
             = Cardinality(covered) + Cardinality(missed) - Cardinality(covered \cap missed)
    BY <2>1, FS_Union
  <2>4. IsFiniteSet(covered \cap missed)
    BY <2>1, FS_Intersection
  <2>5. Cardinality(covered \cap missed) \in Nat /\ Cardinality(covered \cup missed) \in Nat
    BY <2>3, <2>4, FS_CardinalityType
  <2>6. within \in SUBSET (covered \cup missed)
    BY <1>8
  <2>7. Cardinality(within) <= Cardinality(covered \cup missed)
    BY <2>3, <2>6, FS_Subset
  <2>8. Cardinality(within) <= Cardinality(covered) + Cardinality(missed)
    BY <1>12, <2>2, <2>3, <2>5, <2>7
  <2>9. Cardinality(covered) + Cardinality(missed) \in Nat
    BY <2>2
  <2>. QED
    BY <1>4, <1>11, <1>12, <1>13, <2>8, <2>9, Zenon
<1>16. ToldHonestly(rows, Covered(rows, radii, <<q * q, radii[1]>>))
  BY <1>1, <1>2, <1>15, Zenon DEF ToldHonestly, missed
<1>17. \A k \in 1..horizon : WideEnough(rows, <<radii[k] * (q * q), radii[1]>>)
  BY <1>2, <1>14, Zenon DEF WideEnough, reached
<1>. QED
  BY <1>16, <1>17

-----------------------------------------------------------------------------
(* The calendar.                                                           *)

LEMMA LastMonth ==
  ASSUME NEW counts \in Histories, DOMAIN counts # {}
  PROVE  /\ Last(Periods(counts)) \in DOMAIN counts /\ DOMAIN counts \subseteq Nat \X (1..12)
         /\ \A p \in DOMAIN counts : MonthNumber(p) <= MonthNumber(Last(Periods(counts)))
<1> DEFINE first == CHOOSE p \in DOMAIN counts : \A q \in DOMAIN counts : MonthNumber(p) <= MonthNumber(q)
           last  == CHOOSE p \in DOMAIN counts : \A q \in DOMAIN counts : MonthNumber(q) <= MonthNumber(p)
           n     == MonthNumber(last) - MonthNumber(first) + 1
<1>1. /\ DOMAIN counts \subseteq Nat \X (1..12)
      /\ \E p \in DOMAIN counts : \A q \in DOMAIN counts : MonthNumber(p) <= MonthNumber(q)
      /\ \E p \in DOMAIN counts : \A q \in DOMAIN counts : MonthNumber(q) <= MonthNumber(p)
  BY ForecastAssumption
<1>2. first \in DOMAIN counts /\ \A q \in DOMAIN counts : MonthNumber(first) <= MonthNumber(q)
  BY <1>1
<1>3. last \in DOMAIN counts /\ \A q \in DOMAIN counts : MonthNumber(q) <= MonthNumber(last)
  BY <1>1
<1>4. Periods(counts) = [k \in 1..n |-> NextMonth(first, k - 1)]
  BY DEF Periods
<1>. HIDE DEF first, last
<1>5. ASSUME NEW p \in Nat \X (1..12)
      PROVE  /\ MonthNumber(p) \in Nat
             /\ p = <<MonthNumber(p) \div 12, (MonthNumber(p) % 12) + 1>>
  <2>1. p = <<p[1], p[2]>> /\ p[1] \in Nat /\ p[2] \in 1..12
    OBVIOUS
  <2>2. (p[1] * 12 + p[2] - 1) \div 12 = p[1] /\ (p[1] * 12 + p[2] - 1) % 12 = p[2] - 1
    BY <2>1
  <2>. QED
    BY <2>1, <2>2 DEF MonthNumber
<1>6. MonthNumber(first) \in Nat /\ MonthNumber(last) \in Nat /\ n \in Nat \ {0}
  BY <1>1, <1>2, <1>3, <1>5
<1>7. Len(Periods(counts)) = n /\ n \in 1..n
  BY <1>4, <1>6
<1>8. Last(Periods(counts)) = NextMonth(first, n - 1)
  BY <1>4, <1>7 DEF Last
<1>9. NextMonth(first, n - 1) = last
  <2>1. MonthNumber(first) + (n - 1) = MonthNumber(last)
    BY <1>6
  <2>2. NextMonth(first, n - 1) = <<MonthNumber(last) \div 12, (MonthNumber(last) % 12) + 1>>
    BY <2>1 DEF NextMonth
  <2>. QED
    BY <1>1, <1>3, <1>5, <2>2
<1>. QED
  BY <1>1, <1>3, <1>8, <1>9

LEMMA YearAndMonth ==
  ASSUME NEW n \in Nat
  PROVE  n \div 12 \in Int /\ n % 12 \in 0..11 /\ (n \div 12) * 12 + (n % 12) = n
<1>1. n \div 12 \in Int
  OBVIOUS
<1>2. n % 12 \in 0..11
  OBVIOUS
<1>3. n = 12 * (n \div 12) + (n % 12)
  OBVIOUS
<1>. QED
  BY <1>1, <1>2, <1>3

LEMMA LaidOut ==
  ASSUME NEW counts \in Histories, DOMAIN counts # {}
  PROVE  \E n \in Nat : \E e : Periods(counts) = [k \in 1..n |-> e[k]]
<1> DEFINE first == CHOOSE p \in DOMAIN counts : \A q \in DOMAIN counts : MonthNumber(p) <= MonthNumber(q)
           last  == CHOOSE p \in DOMAIN counts : \A q \in DOMAIN counts : MonthNumber(q) <= MonthNumber(p)
           n     == MonthNumber(last) - MonthNumber(first) + 1
<1>1. /\ DOMAIN counts \subseteq Nat \X (1..12)
      /\ \E p \in DOMAIN counts : \A q \in DOMAIN counts : MonthNumber(p) <= MonthNumber(q)
      /\ \E p \in DOMAIN counts : \A q \in DOMAIN counts : MonthNumber(q) <= MonthNumber(p)
  BY ForecastAssumption
<1>2. first \in DOMAIN counts /\ last \in DOMAIN counts /\ MonthNumber(first) <= MonthNumber(last)
  BY <1>1
<1>3. n \in Nat
  <2>1. \A p \in Nat \X (1..12) : MonthNumber(p) \in Nat
    BY DEF MonthNumber
  <2>. HIDE DEF first, last
  <2>. QED
    BY <1>1, <1>2, <2>1
<1>4. Periods(counts) = [k \in 1..n |-> NextMonth(first, k - 1)]
  BY DEF Periods
<1>. HIDE DEF first, last, n
<1>5. Periods(counts) = [k \in 1..n |-> Periods(counts)[k]]
  BY <1>4
<1>. QED
  BY <1>3, <1>5

LEMMA ValuesInt ==
  ASSUME NEW counts \in Histories, DOMAIN counts # {}
  PROVE  Values(counts) \in Seq(Int)
<1>1. PICK n \in Nat : \E e : Periods(counts) = [k \in 1..n |-> e[k]]
  BY LaidOut
<1>2. DOMAIN Periods(counts) = 1..n
  BY <1>1
<1>3. \A p \in DOMAIN counts : counts[p] \in Int
  BY ForecastAssumption
<1> DEFINE value(k) == IF Periods(counts)[k] \in DOMAIN counts THEN counts[Periods(counts)[k]] ELSE 0
<1>4. Values(counts) = [k \in 1..n |-> value(k)]
  BY <1>2 DEF Values
<1>5. \A k \in 1..n : value(k) \in Int
  BY <1>3
<1>. HIDE DEF value
<1>. QED
  BY <1>4, <1>5

LEMMA MonthsOn ==
  ASSUME NEW p \in Nat \X (1..12), NEW k \in Nat
  PROVE  /\ NextMonth(p, k)[2] \in 1..12
         /\ MonthNumber(NextMonth(p, k)) - MonthNumber(p) = k
<1> DEFINE n == MonthNumber(p) + k
<1>1. n \in Nat /\ MonthNumber(p) \in Nat
  BY DEF MonthNumber
<1>2. NextMonth(p, k)[1] = n \div 12 /\ NextMonth(p, k)[2] = (n % 12) + 1
  BY DEF NextMonth
<1>. HIDE DEF n
<1>3. n \div 12 \in Int /\ n % 12 \in 0..11 /\ (n \div 12) * 12 + (n % 12) = n
  BY <1>1, YearAndMonth
<1>4. MonthNumber(NextMonth(p, k)) = (n \div 12) * 12 + ((n % 12) + 1) - 1
  BY <1>2 DEF MonthNumber
<1>5. MonthNumber(NextMonth(p, k)) = n
  BY <1>1, <1>3, <1>4
<1>6. NextMonth(p, k)[2] \in 1..12
  BY <1>2, <1>3
<1>. QED
  BY <1>1, <1>5, <1>6 DEF n

\* A history of a year is not empty.
LEMMA YearRecorded ==
  ASSUME NEW counts, Len(Values(counts)) >= 12
  PROVE  DOMAIN counts # {}
<1> SUFFICES ASSUME DOMAIN counts = {} PROVE FALSE
  OBVIOUS
<1>1. Periods(counts) = <<>>
  BY DEF Periods
<1>2. Values(counts) = [k \in {} |-> IF Periods(counts)[k] \in DOMAIN counts THEN counts[Periods(counts)[k]] ELSE 0]
  BY <1>1 DEF Values
<1>3. Len(Values(counts)) = 0
  BY <1>2
<1>. QED
  BY <1>3

-----------------------------------------------------------------------------
(* The invariant: what each stage hands on to the next.                    *)

AnswerFields ==
  {"stage", "values", "season", "model", "radii", "holdout", "widened", "widening", "coverage",
   "forecast"}

ForecastShape ==
  /\ DOMAIN answer = AnswerFields
  /\ request.counts \in Histories /\ request.horizon \in Horizons

\* What was cut is a history of at least half a year, from one of a year.
Segmented ==
  answer.stage \in {"segmented", "selected", "calibrated", "evaluated"} =>
    /\ DOMAIN request.counts # {}
    /\ answer.values \in Seq(Int) /\ Len(answer.values) >= 6
    /\ answer.season \in Nat

\* Only a history of less than a year is refused.
Enough == answer.stage = "insufficient" => Len(Values(request.counts)) < 12

ChosenFor(values) ==
  Chosen(Candidates(answer.season, Working(values, request.horizon), EvaluatedSteps(values)))

RadiiFor(values) ==
  Radii(answer.model, answer.season, Working(values, request.horizon), EvaluatedSteps(values),
        request.horizon)

Derived ==
  /\ answer.stage \in {"selected", "calibrated"} => answer.model = ChosenFor(answer.values)
  /\ answer.stage = "calibrated" => answer.radii = RadiiFor(answer.values)

\* A band that was widened does what the one published will do.
Covering ==
  answer.stage = "evaluated" /\ answer.widened =>
    /\ ToldHonestly(answer.holdout, answer.coverage)
    /\ \A k \in 1..request.horizon :
         WideEnough(answer.holdout, <<answer.radii[k] * answer.widening[1], answer.widening[2]>>)

FInv ==
  /\ ForecastShape /\ Segmented /\ Enough /\ Derived /\ Covering
  /\ MonthsFollow /\ WidenedBandCovers

LEMMA InitFInv == ForecastInit => FInv
<1> SUFFICES ASSUME ForecastInit PROVE FInv
  OBVIOUS
<1>1. request.counts \in Histories /\ request.horizon \in Horizons
  BY DEF ForecastInit
<1>2. DOMAIN answer = AnswerFields /\ answer.stage = "asked"
  BY DEF ForecastInit, Asked, AnswerFields
<1>. QED
  BY <1>1, <1>2 DEF FInv, ForecastShape, Segmented, Enough, Derived, Covering, MonthsFollow,
         WidenedBandCovers

\* A forecast that runs over the months after the last one.
LEMMA ForecastFollows ==
  ASSUME ForecastShape, DOMAIN request.counts # {}, UNCHANGED request,
         Len(answer'.forecast) = request.horizon,
         \A k \in 1..request.horizon :
           answer'.forecast[k].period = NextMonth(Last(Periods(request.counts)), k)
  PROVE  MonthsFollow'
<1> DEFINE last == Last(Periods(request.counts))
<1>1. request.counts \in Histories /\ request.horizon \in Nat
  BY ForecastAssumption DEF ForecastShape
<1>2. /\ last \in Nat \X (1..12) /\ last \in DOMAIN request.counts
      /\ \A p \in DOMAIN request.counts : MonthNumber(p) <= MonthNumber(last)
  BY <1>1, LastMonth
<1>. HIDE DEF last
<1>3. ASSUME NEW k \in 1..request.horizon
      PROVE  /\ answer'.forecast[k].period[2] \in 1..12
             /\ MonthNumber(answer'.forecast[k].period) - MonthNumber(last) = k
  <2>1. answer'.forecast[k].period = NextMonth(last, k)
    BY DEF last
  <2>2. k \in Nat
    OBVIOUS
  <2>. QED
    BY <1>2, <2>1, <2>2, MonthsOn
<1>. QED
  BY <1>2, <1>3 DEF last, MonthsFollow

LEMMA SegmentStep == ASSUME FInv, NEW split \in Nat, Segment(split) PROVE FInv'
<1> DEFINE values == Values(request.counts)
           kept == SubSeq(values, split + 1, Len(values))
<1>1. DOMAIN request.counts # {}
  BY YearRecorded DEF Segment
<1>2. values \in Seq(Int) /\ Len(values) \in Nat
  BY <1>1, ValuesInt, LenProperties DEF FInv, ForecastShape
<1>3. /\ answer.stage = "asked"
      /\ split = 0 \/ Len(values) - split >= 6
      /\ Len(values) >= 12
      /\ answer' = [answer EXCEPT !.stage = "segmented", !.values = kept, !.season = Season(kept)]
      /\ UNCHANGED request
  BY DEF Segment
<1>. HIDE DEF values
<1>4. kept \in Seq(Int) /\ Len(kept) >= 6
  <2>1. \A i \in (split + 1)..Len(values) : values[i] \in Int
    BY <1>2, ElementOfSeq
  <2>2. /\ kept \in Seq(Int)
        /\ Len(kept) = IF split + 1 <= Len(values) THEN Len(values) - (split + 1) + 1 ELSE 0
    BY <1>2, <2>1, SubSeqProperties
  <2>3. split + 1 <= Len(values) /\ Len(values) - (split + 1) + 1 >= 6
    BY <1>2, <1>3
  <2>. QED
    BY <2>2, <2>3
<1>. HIDE DEF kept
<1>5. /\ answer'.stage = "segmented" /\ answer'.values = kept /\ DOMAIN answer' = DOMAIN answer
      /\ answer'.season = Season(kept)
  BY <1>3 DEF FInv, ForecastShape, AnswerFields
<1>6. Season(kept) \in Nat
  BY DEF Season
<1>. QED
  BY <1>1, <1>3, <1>4, <1>5, <1>6 DEF FInv, ForecastShape, Segmented, Enough, Derived, Covering, MonthsFollow,
         WidenedBandCovers

LEMMA LevelStep == ASSUME FInv, NEW split, NEW gap, LevelEstimate(split, gap) PROVE FInv'
<1>1. DOMAIN request.counts # {} /\ UNCHANGED request
  BY YearRecorded DEF LevelEstimate
<1>2. PICK value, radius :
        answer' = [answer EXCEPT !.stage = "regime_change",
                     !.forecast = [k \in 1..request.horizon |->
                       [period |-> NextMonth(Last(Periods(request.counts)), k),
                        value |-> value[k], radius |-> radius[k]]]]
  <2> DEFINE values == Values(request.counts)
             recent == SubSeq(values, split + 1, Len(values))
             sorted == SortSeq(recent, <)
             level  == (sorted[(Len(recent) + 1) \div 2] + sorted[Len(recent) \div 2 + 1]) \div 2
             radius == Max({Last(sorted) - sorted[1], gap \div 4, Absolute(level) \div 10})
             value == [k \in 1..request.horizon |-> level]
             wide == [k \in 1..request.horizon |-> <<radius * radius * k, 1>>]
             forecast == [k \in 1..request.horizon |->
                            [period |-> NextMonth(Last(Periods(request.counts)), k),
                             value |-> value[k], radius |-> wide[k]]]
  <2>1. answer' = [answer EXCEPT !.stage = "regime_change", !.forecast = 
                     [k \in 1..request.horizon |->
                       [period |-> NextMonth(Last(Periods(request.counts)), k),
                        value |-> level, radius |-> <<radius * radius * k, 1>>]]]
    BY Zenon DEF LevelEstimate
  <2>. HIDE DEF level, radius
  <2>2. answer' = [answer EXCEPT !.stage = "regime_change", !.forecast = forecast]
    BY <2>1
  <2>. QED
    BY <2>2, Zenon
<1> DEFINE forecast == [k \in 1..request.horizon |->
                          [period |-> NextMonth(Last(Periods(request.counts)), k),
                           value |-> value[k], radius |-> radius[k]]]
<1>3. Len(forecast) = request.horizon
      /\ \A k \in 1..request.horizon :
           forecast[k].period = NextMonth(Last(Periods(request.counts)), k)
  <2>1. request.horizon \in Nat
    BY ForecastAssumption DEF FInv, ForecastShape
  <2>2. DOMAIN forecast = 1..request.horizon
    OBVIOUS
  <2>3. ASSUME NEW k \in 1..request.horizon
        PROVE  forecast[k].period = NextMonth(Last(Periods(request.counts)), k)
    OBVIOUS
  <2>. HIDE DEF forecast
  <2>. QED
    BY <2>1, <2>2, <2>3
<1>4. answer' = [answer EXCEPT !.stage = "regime_change", !.forecast = forecast]
  BY <1>2
<1>. HIDE DEF forecast
<1>5. /\ answer'.stage = "regime_change" /\ DOMAIN answer' = DOMAIN answer
      /\ answer'.forecast = forecast
  BY <1>4 DEF FInv, ForecastShape, AnswerFields
<1>6. MonthsFollow'
  BY <1>1, <1>3, <1>5, ForecastFollows DEF FInv
<1>. QED
  BY <1>1, <1>5, <1>6 DEF FInv, ForecastShape, Segmented, Enough, Derived, Covering,
         WidenedBandCovers

LEMMA SelectStep == ASSUME FInv, Select PROVE FInv'
<1> DEFINE candidates == Candidates(answer.season, Working(answer.values, request.horizon),
                                    EvaluatedSteps(answer.values))
<1>1. answer.stage = "segmented" /\ UNCHANGED request
  BY DEF Select
<1>2. \/ candidates = {}
      \/ answer' = [answer EXCEPT !.stage = "selected", !.model = Chosen(candidates)]
  BY Zenon DEF Select
<1>3. candidates # {}
  <2> DEFINE working == Working(answer.values, request.horizon)
             steps == EvaluatedSteps(answer.values)
  <2>1. /\ answer.values \in Seq(Int) /\ Len(answer.values) \in Nat /\ Len(answer.values) >= 6
        /\ answer.season \in Nat /\ request.horizon \in Nat \ {0}
    BY <1>1, LenProperties, ForecastAssumption DEF FInv, Segmented, ForecastShape
  <2>2. working \in Seq(Int) /\ Len(working) >= 4
    BY <2>1, WorkingLength
  <2>3. steps \in Nat \ {0}
    BY <2>1, StepsEvaluated
  <2>. HIDE DEF working, steps
  <2>4. working \in Seq(Int)
    BY <2>2
  <2>5. Candidates(answer.season, working, steps) # {}
    BY <2>1, <2>2, <2>3, <2>4, NaiveEvaluated
  <2>. QED
    BY <2>5 DEF working, steps
<1>4. ASSUME answer' = [answer EXCEPT !.stage = "selected", !.model = Chosen(candidates)] PROVE FInv'
  <2> DEFINE chosen == Chosen(candidates)
  <2>1. chosen = ChosenFor(answer.values)
    BY DEF ChosenFor
  <2>2. answer' = [answer EXCEPT !.stage = "selected", !.model = chosen]
    BY <1>4
  <2>. HIDE DEF chosen
  <2>3. /\ answer'.stage = "selected" /\ DOMAIN answer' = DOMAIN answer
        /\ answer'.values = answer.values /\ answer'.season = answer.season /\ answer'.model = chosen
    BY <2>2 DEF FInv, ForecastShape, AnswerFields
  <2>4. ChosenFor(answer.values)' = ChosenFor(answer.values)
    BY <1>1, <2>3 DEF ChosenFor, EvaluatedSteps
  <2>. QED
    BY <1>1, <2>1, <2>3, <2>4 DEF FInv, ForecastShape, Segmented, Enough, Derived, Covering, MonthsFollow,
         WidenedBandCovers
<1>. QED
  BY <1>2, <1>3, <1>4

LEMMA CalibrateStep == ASSUME FInv, Calibrate PROVE FInv'
<1> DEFINE radii == RadiiFor(answer.values)
<1>1. answer.stage = "selected" /\ UNCHANGED request
  BY DEF Calibrate
<1>2. answer' = [answer EXCEPT !.stage = "calibrated", !.radii = radii]
  BY Zenon DEF Calibrate, RadiiFor
<1>. HIDE DEF radii
<1>3. /\ answer'.stage = "calibrated" /\ DOMAIN answer' = DOMAIN answer /\ answer'.radii = radii
      /\ answer'.values = answer.values /\ answer'.season = answer.season
      /\ answer'.model = answer.model
  BY <1>2 DEF FInv, ForecastShape, AnswerFields
<1>4. /\ ChosenFor(answer.values)' = ChosenFor(answer.values)
      /\ RadiiFor(answer.values)' = RadiiFor(answer.values)
  BY <1>1, <1>3 DEF ChosenFor, RadiiFor, EvaluatedSteps
<1>. QED
  BY <1>1, <1>3, <1>4 DEF radii, FInv, ForecastShape, Segmented, Enough, Derived, Covering, MonthsFollow,
         WidenedBandCovers

LEMMA EvaluateStep == ASSUME FInv, Evaluate PROVE FInv'
<1> DEFINE values  == answer.values
           working == Working(values, request.horizon)
           start   == Len(values) - HoldoutLength(values, request.horizon)
           measured == [k \in 1..EvaluatedSteps(values) |->
                         [actual     |-> values[start + k],
                          prediction |-> Clip(Predict(answer.model, answer.season, working, k))]]
           holdout == [k \in DOMAIN measured |-> Reported(measured[k])]
           misses  == [k \in DOMAIN holdout |-> Absolute(holdout[k].error)]
           needed  == Quantile(misses)
           covered == Covered(measured, answer.radii, <<1, 1>>)
           narrow  == /\ 100 * covered < Interval * Len(holdout)
                      /\ needed * needed > answer.radii[1] /\ answer.radii[1] > 0
           widening == IF narrow THEN <<needed * needed, answer.radii[1]>> ELSE <<1, 1>>
           coverage == IF narrow THEN Covered(holdout, answer.radii, widening) ELSE covered
<1>1. answer.stage = "calibrated" /\ UNCHANGED request
  BY DEF Evaluate
<1>2. answer' = [answer EXCEPT !.stage = "evaluated", !.holdout = holdout, !.widened = narrow,
                               !.widening = widening, !.coverage = coverage]
  BY Zenon DEF Evaluate
<1>3. narrow => answer.radii[1] > 0
  BY Zenon
<1>. HIDE DEF narrow
<1>4. narrow => /\ ToldHonestly(holdout, coverage)
                /\ \A k \in 1..request.horizon :
                     WideEnough(holdout, <<answer.radii[k] * widening[1], widening[2]>>)
  <2> SUFFICES ASSUME narrow
               PROVE  /\ ToldHonestly(holdout, Covered(holdout, answer.radii, widening))
                      /\ \A k \in 1..request.horizon :
                           WideEnough(holdout, <<answer.radii[k] * widening[1], widening[2]>>)
    BY Zenon
  <2> DEFINE season == answer.season
             steps == EvaluatedSteps(values)
             horizon == request.horizon
             r == answer.radii
             q == Quantile(misses)
             actual(k) == values[start + k]
             predicted(k) == Clip(Predict(answer.model, season, working, k))
             a == [k \in 1..steps |-> Rounded(actual(k), 1)]
             p == [k \in 1..steps |-> Rounded(predicted(k), 1)]
             e == [k \in 1..steps |-> Rounded(actual(k) - predicted(k), 1)]
  <2>1. /\ values \in Seq(Int) /\ Len(values) \in Nat /\ Len(values) >= 6
        /\ season \in Nat /\ horizon \in Nat \ {0}
    BY <1>1, LenProperties, ForecastAssumption DEF FInv, Segmented, ForecastShape
  <2>2. working \in Seq(Int) /\ Len(working) >= 4
    BY <2>1, WorkingLength
  <2>3. steps \in 1..horizon /\ steps <= HoldoutLength(values, horizon)
    BY <2>1, StepsEvaluated
  <2>4. HoldoutLength(values, horizon) \in 1..(Len(values) - 4)
    BY <2>1, HeldOut
  <2>5. answer.model = Chosen(Candidates(season, working, steps))
    BY <1>1 DEF FInv, Derived, ChosenFor
  <2>6. r = Radii(answer.model, season, working, steps, horizon)
    BY <1>1 DEF FInv, Derived, RadiiFor
  <2>7. widening = <<q * q, r[1]>> /\ r[1] > 0
    BY <1>3, Zenon
  <2>8. holdout = [k \in 1..steps |-> [actual |-> a[k], prediction |-> p[k], error |-> e[k]]]
    <3>1. DOMAIN measured = 1..steps
      OBVIOUS
    <3>2. ASSUME NEW k \in 1..steps
          PROVE  Reported(measured[k]) = [actual |-> a[k], prediction |-> p[k], error |-> e[k]]
      <4>1. measured[k] = [actual |-> actual(k), prediction |-> predicted(k)]
        OBVIOUS
      <4>2. measured[k].actual = actual(k) /\ measured[k].prediction = predicted(k)
        BY <4>1
      <4>. HIDE DEF measured, actual, predicted
      <4>. QED
        BY <4>2, Zenon DEF Reported
    <3>. HIDE DEF measured, a, p, e
    <3>. QED
      BY <3>1, <3>2, Zenon
  <2>9. \A k \in 1..steps : actual(k) \in Int
    <3>1. \A i \in 1..Len(values) : values[i] \in Int
      BY <2>1, ElementOfSeq
    <3> DEFINE held == HoldoutLength(values, horizon)
    <3>2. start = Len(values) - held
      OBVIOUS
    <3>. HIDE DEF values, start, steps, held, horizon
    <3>3. held \in Nat /\ held <= Len(values) - 4 /\ steps \in Nat /\ steps <= held
      BY <2>1, <2>3, <2>4 DEF held
    <3>4. ASSUME NEW k \in 1..steps PROVE values[start + k] \in Int
      <4>1. start + k \in 1..Len(values)
        BY <2>1, <3>2, <3>3
      <4>. QED
        BY <3>1, <4>1
    <3>. QED
      BY <3>4
  <2>10. working \in Seq(Int) /\ steps \in Nat \ {0}
    <3>. HIDE DEF working, steps, horizon
    <3>. QED
      BY <2>1, <2>2, <2>3
  <2>. HIDE DEF working, steps, season, horizon, measured, holdout, misses, widening
  <2>11. PICK j \in DOMAIN Models(season) :
           /\ answer.model = Models(season)[j]
           /\ AllErrors(Models(season)[j], season, working, steps) # <<>>
    <3>1. season \in Nat /\ Len(working) >= 4
      BY <2>1, <2>2
    <3>2. \E j \in DOMAIN Models(season) :
            /\ Chosen(Candidates(season, working, steps)) = Models(season)[j]
            /\ AllErrors(Models(season)[j], season, working, steps) # <<>>
      BY <2>10, <3>1, ChosenEvaluated, Zenon
    <3>. QED
      BY <2>5, <3>2, Zenon
  <2>12. r \in [1..horizon -> Int] /\ \A k \in 1..horizon : r[1] <= r[k]
    <3>1. r = Radii(Models(season)[j], season, working, steps, horizon)
      BY <2>6, <2>11
    <3>2. season \in Nat /\ horizon \in Nat \ {0} /\ Len(working) >= 4
      BY <2>1, <2>2
    <3>. HIDE DEF r
    <3>. QED
      BY <2>10, <2>11, <3>1, <3>2, RadiiGrow
  <2>13. \A k \in 1..steps : predicted(k) \in Int
    <3> SUFFICES ASSUME NEW k \in 1..steps PROVE predicted(k) \in Int
      OBVIOUS
    <3>1. k \in Nat \ {0} /\ Len(working) >= 2
      BY <2>2, <2>10, LenProperties
    <3>2. Predict(answer.model, season, working, k) \in Int
      BY <2>1, <2>10, <2>11, <3>1, PredictInt
    <3>. QED
      BY <3>2, ClipInt
  <2>. HIDE DEF actual, predicted
  <2>14. a \in [1..steps -> Int] /\ p \in [1..steps -> Int] /\ e \in [1..steps -> Int]
    <3>1. ASSUME NEW k \in 1..steps
          PROVE  /\ Rounded(actual(k), 1) \in Int /\ Rounded(predicted(k), 1) \in Int
                 /\ Rounded(actual(k) - predicted(k), 1) \in Int
      <4>1. actual(k) \in Int /\ predicted(k) \in Int /\ actual(k) - predicted(k) \in Int
        BY <2>9, <2>13
      <4>2. 1 \in Nat \ {0}
        OBVIOUS
      <4>. QED
        BY <4>1, <4>2, RoundedInt
    <3>. QED
      BY <3>1
  <2>15. steps <= horizon /\ horizon \in Nat
    BY <2>1, <2>3
  <2>16. misses = [k \in DOMAIN holdout |-> Absolute(holdout[k].error)]
    BY DEF misses
  <2>17. q = Quantile(misses)
    OBVIOUS
  <2>. HIDE DEF values, start, a, p, e, r, q
  <2>18. /\ DOMAIN holdout = 1..steps /\ Len(holdout) = steps
         /\ \A k \in 1..steps :
              holdout[k].actual = a[k] /\ holdout[k].prediction = p[k] /\ holdout[k].error = e[k]
    BY <2>8, <2>10
  <2>19. /\ misses \in Seq(Int) /\ Len(misses) = steps
         /\ \A k \in 1..steps : misses[k] = Absolute(e[k])
    <3>1. \A k \in 1..steps : Absolute(e[k]) \in Int
      BY <2>14 DEF Absolute
    <3>2. misses = [k \in 1..steps |-> Absolute(e[k])]
      BY <2>16, <2>18
    <3>. QED
      BY <2>10, <3>1, <3>2
  <2>20. /\ ToldHonestly(holdout, Covered(holdout, r, <<q * q, r[1]>>))
         /\ \A k \in 1..horizon : WideEnough(holdout, <<r[k] * (q * q), r[1]>>)
    <3>1. Measured(steps, a, p, e, holdout, misses, horizon, r)
      BY <2>7, <2>10, <2>12, <2>14, <2>15, <2>18, <2>19 DEF Measured
    <3>. QED
      BY <2>17, <3>1, WidenedCovers
  <2>21. widening[1] = q * q /\ widening[2] = r[1]
    BY <2>7
  <2>. QED
    BY <2>7, <2>20, <2>21, Zenon DEF r, horizon
<1>. HIDE DEF widening, holdout, coverage
<1>5. /\ answer'.stage = "evaluated" /\ DOMAIN answer' = DOMAIN answer
      /\ answer'.values = answer.values /\ answer'.season = answer.season
      /\ answer'.holdout = holdout /\ answer'.widened = narrow /\ answer'.widening = widening
      /\ answer'.radii = answer.radii /\ answer'.coverage = coverage
  BY <1>2 DEF FInv, ForecastShape, AnswerFields
<1>6. Covering'
  BY <1>1, <1>4, <1>5, Zenon DEF Covering, ToldHonestly, WideEnough, Reached, Uncounted
<1>. QED
  BY <1>1, <1>5, <1>6, SMTT(30) DEF FInv, ForecastShape, Segmented, Enough, Derived, MonthsFollow, WidenedBandCovers

\* What is published is what was measured.
LEMMA PublishedCovers ==
  WidenedBandCovers <=>
    (answer.stage = "completed" /\ answer.widened =>
       /\ ToldHonestly(answer.holdout, answer.coverage)
       /\ \A k \in 1..request.horizon : WideEnough(answer.holdout, answer.forecast[k].radius))
  BY Zenon DEF WidenedBandCovers, ToldHonestly, WideEnough, Reached, Uncounted, Quantify

LEMMA PublishStep == ASSUME FInv, Publish PROVE FInv'
<1> DEFINE value == [k \in 1..request.horizon |-> Clip(Predict(answer.model, answer.season, answer.values, k))]
           forecast == [k \in 1..request.horizon |->
                          [period |-> NextMonth(Last(Periods(request.counts)), k),
                           value |-> value[k],
                           radius |-> <<answer.radii[k] * answer.widening[1], answer.widening[2]>>]]
<1>1. answer.stage = "evaluated" /\ UNCHANGED request
  BY DEF Publish
<1>2. answer' = [answer EXCEPT !.stage = "completed", !.forecast = forecast]
  <2>1. answer' = [answer EXCEPT !.stage = "completed",
          !.forecast = [k \in 1..request.horizon |->
                  [period |-> NextMonth(Last(Periods(request.counts)), k),
                   value  |-> Clip(Predict(answer.model, answer.season, answer.values, k)),
                   radius |-> <<answer.radii[k] * answer.widening[1], answer.widening[2]>>]]]
    BY Zenon DEF Publish
  <2>. QED
    BY <2>1
<1>. HIDE DEF forecast
<1>3. /\ answer'.stage = "completed" /\ DOMAIN answer' = DOMAIN answer
      /\ answer'.forecast = forecast /\ answer'.coverage = answer.coverage
      /\ answer'.widened = answer.widened /\ answer'.holdout = answer.holdout
  BY <1>2 DEF FInv, ForecastShape, AnswerFields
<1>4. MonthsFollow'
  <2>1. DOMAIN request.counts # {}
    BY <1>1 DEF FInv, Segmented
  <2>2. Len(forecast) = request.horizon
        /\ \A k \in 1..request.horizon :
             forecast[k].period = NextMonth(Last(Periods(request.counts)), k)
    <3>1. request.horizon \in Nat
      BY ForecastAssumption DEF FInv, ForecastShape
    <3>2. DOMAIN forecast = 1..request.horizon
      BY DEF forecast
    <3>3. ASSUME NEW k \in 1..request.horizon
          PROVE  forecast[k].period = NextMonth(Last(Periods(request.counts)), k)
      BY DEF forecast
    <3>. QED
      BY <3>1, <3>2, <3>3
  <2>. QED
    BY <1>1, <1>3, <2>1, <2>2, ForecastFollows DEF FInv
<1>5. WidenedBandCovers'
  <2>1. answer.widened =>
          /\ ToldHonestly(answer.holdout, answer.coverage)
          /\ \A k \in 1..request.horizon :
               WideEnough(answer.holdout, <<answer.radii[k] * answer.widening[1], answer.widening[2]>>)
    BY <1>1 DEF FInv, Covering
  <2>2. \A k \in 1..request.horizon :
          forecast[k].radius = <<answer.radii[k] * answer.widening[1], answer.widening[2]>>
    BY DEF forecast
  <2>3. (WidenedBandCovers <=>
          (answer.stage = "completed" /\ answer.widened =>
             /\ ToldHonestly(answer.holdout, answer.coverage)
             /\ \A k \in 1..request.horizon : WideEnough(answer.holdout, answer.forecast[k].radius)))'
    BY PublishedCovers, PTL
  <2>4. /\ ToldHonestly(answer.holdout, answer.coverage)' <=> ToldHonestly(answer.holdout, answer.coverage)
        /\ \A k \in 1..request.horizon :
             WideEnough(answer'.holdout, answer'.forecast[k].radius)
               <=> WideEnough(answer.holdout, forecast[k].radius)
    BY <1>1, <1>3, Zenon DEF ToldHonestly, WideEnough, Reached, Uncounted
  <2>. QED
    BY <1>1, <1>3, <2>1, <2>2, <2>3, <2>4, Zenon
<1>. QED
  BY <1>1, <1>3, <1>4, <1>5 DEF FInv, ForecastShape, Segmented, Enough, Derived, Covering

LEMMA NextFInv == FInv /\ [ForecastNext]_forecastVars => FInv'
<1> SUFFICES ASSUME FInv, [ForecastNext]_forecastVars PROVE FInv'
  OBVIOUS
<1>1. ASSUME TooShort PROVE FInv'
  <2>1. /\ answer'.stage = "insufficient" /\ DOMAIN answer' = DOMAIN answer /\ UNCHANGED request
        /\ Len(Values(request.counts)) < 12
    BY <1>1 DEF TooShort, FInv, ForecastShape, AnswerFields
  <2>. QED
    BY <2>1 DEF FInv, ForecastShape, Segmented, Enough, Derived, Covering, MonthsFollow,
         WidenedBandCovers
<1>2. ASSUME NEW split \in 0..(Len(Values(request.counts)) - 3), Segment(split) PROVE FInv'
  BY <1>2, SegmentStep
<1>3. ASSUME UNCHANGED forecastVars PROVE FInv'
  <2>1. UNCHANGED request /\ UNCHANGED answer
    BY <1>3 DEF forecastVars
  <2>2. ForecastShape' /\ Segmented' /\ Enough' /\ MonthsFollow'
    BY <2>1 DEF FInv, ForecastShape, Segmented, Enough, MonthsFollow
  <2>3. Derived'
    BY <2>1 DEF FInv, Derived, ChosenFor, RadiiFor, EvaluatedSteps
  <2>4. Covering'
    BY <2>1, Zenon DEF FInv, Covering, ToldHonestly, WideEnough, Reached, Uncounted
  <2>5. WidenedBandCovers'
    BY <2>1, Zenon DEF FInv, WidenedBandCovers, Quantify
  <2>. QED
    BY <2>2, <2>3, <2>4, <2>5 DEF FInv
<1>. QED
  BY <1>1, <1>2, <1>3, LevelStep, SelectStep, CalibrateStep, EvaluateStep, PublishStep
     DEF ForecastNext

\* Whatever the history and however the level of its values shifted, a year of it
\* is answered, and a forecast has the months that follow the last one recorded,
\* without a gap.
THEOREM AYearIsEnough == ForecastSpec => []YearIsEnough
<1>1. ForecastInit => FInv
  BY InitFInv
<1>2. FInv /\ [ForecastNext]_forecastVars => FInv'
  BY NextFInv
<1>3. FInv => YearIsEnough
  BY DEF FInv, Enough, YearIsEnough
<1>. QED
  BY <1>1, <1>2, <1>3, PTL DEF ForecastSpec

\* A band that is published as widened reaches, at every horizon, the share asked
\* for of the errors reported for the months held out, whatever their values
\* were, negative ones included, whichever model was chosen and however wide its
\* band had been; the coverage published with it falls short of that share by no
\* more than the months it cannot count.
THEOREM WidenedBandsCover == ForecastSpec => []WidenedBandCovers
<1>1. ForecastInit => FInv
  BY InitFInv
<1>2. FInv /\ [ForecastNext]_forecastVars => FInv'
  BY NextFInv
<1>3. FInv => WidenedBandCovers
  BY DEF FInv
<1>. QED
  BY <1>1, <1>2, <1>3, PTL DEF ForecastSpec

\* Which model is chosen, and how wide its band is, could not be any different
\* whatever had happened in the months held out.
THEOREM HoldoutNeverSeen == ForecastSpec => []HoldoutUnseen
<1>1. ForecastInit => FInv
  BY InitFInv
<1>2. FInv /\ [ForecastNext]_forecastVars => FInv'
  BY NextFInv
<1>3. FInv => HoldoutUnseen
  <2> SUFFICES ASSUME FInv, answer.stage = "calibrated", NEW other
               PROVE  LET n == Len(answer.values)
                          held == HoldoutLength(answer.values, request.horizon)
                          values == [i \in 1..n |-> IF i > n - held THEN other ELSE answer.values[i]]
                          working == Working(values, request.horizon)
                      IN /\ answer.model = Chosen(Candidates(answer.season, working, EvaluatedSteps(values)))
                         /\ answer.radii = Radii(answer.model, answer.season, working,
                                                 EvaluatedSteps(values), request.horizon)
    BY Zenon DEF HoldoutUnseen
  <2> DEFINE n == Len(answer.values)
             held == HoldoutLength(answer.values, request.horizon)
             values == [i \in 1..n |-> IF i > n - held THEN other ELSE answer.values[i]]
  <2>1. answer.values \in Seq(Int)
    BY DEF FInv, Segmented
  <2> DEFINE W == Int \cup {other}
  <2>2. n \in Nat /\ n >= 6 /\ request.horizon \in Nat \ {0}
    BY <2>1, LenProperties, ForecastAssumption DEF FInv, Segmented, ForecastShape
  <2>3. held \in Int
    BY <2>2, HeldOut
  <2>. HIDE DEF held
  <2>4. \A i \in 1..n : answer.values[i] \in Int
    BY <2>1, ElementOfSeq
  <2>5. answer.values \in Seq(W) /\ values \in Seq(W) /\ Len(values) = n
    BY <2>1, <2>2, <2>4, SMTT(30)
  <2>6. \A i \in 1..(n - held) : values[i] = answer.values[i]
    <3>1. held >= 0
      BY <2>2, HeldOut DEF held
    <3>. QED
      BY <2>2, <2>3, <3>1
  <2>. HIDE DEF values, n, W
  <2>7. /\ HoldoutLength(values, request.horizon) = HoldoutLength(answer.values, request.horizon)
        /\ Working(values, request.horizon) = Working(answer.values, request.horizon)
    BY <2>2, <2>5, <2>6, SameWorking DEF held, n
  <2>8. EvaluatedSteps(values) = EvaluatedSteps(answer.values)
    BY <2>7 DEF EvaluatedSteps
  <2>9. answer.model = ChosenFor(answer.values) /\ answer.radii = RadiiFor(answer.values)
    BY DEF FInv, Derived
  <2>10. answer.model = ChosenFor(values) /\ answer.radii = RadiiFor(values)
    BY <2>7, <2>8, <2>9 DEF ChosenFor, RadiiFor
  <2>. QED
    BY <2>10, Zenon DEF ChosenFor, RadiiFor, values, held, n
<1>. QED
  BY <1>1, <1>2, <1>3, PTL DEF ForecastSpec
-----------------------------------------------------------------------------
(* Concentration: what a group of categories carries.                      *)

InsightsSpec == InsightsInit /\ [][InsightsNext]_totals

\* What groups carry are sums.
LEMMA CarriedSums ==
  ASSUME NEW t \in Seq(Int)
  PROVE  /\ IsFiniteSet(DOMAIN t) /\ DOMAIN t = 1..Len(t) /\ Cardinality(DOMAIN t) = Len(t)
         /\ Len(t) \in Nat /\ \A k \in DOMAIN t : t[k] \in Int
         /\ \A group \in SUBSET DOMAIN t :
              /\ IsFiniteSet(group) /\ Cardinality(group) \in Nat
              /\ Carried(t, group) = FoldedSum(t, group) /\ Carried(t, group) \in Int
<1>1. DOMAIN t = 1..Len(t) /\ Len(t) \in Nat /\ \A k \in DOMAIN t : t[k] \in Int
  BY ElementOfSeq, LenProperties
<1>2. IsFiniteSet(1..Len(t)) /\ Cardinality(1..Len(t)) = Len(t)
  <2>1. 1 \in Int /\ Len(t) \in Int /\ Len(t) >= 0
    BY <1>1
  <2>2. IsFiniteSet(1..Len(t)) /\ Cardinality(1..Len(t)) = IF 1 > Len(t) THEN 0 ELSE Len(t) - 1 + 1
    BY <2>1, FS_Interval
  <2>. QED
    BY <2>1, <2>2
<1>3. ASSUME NEW group \in SUBSET DOMAIN t
      PROVE  /\ IsFiniteSet(group) /\ Cardinality(group) \in Nat
             /\ Carried(t, group) = FoldedSum(t, group) /\ Carried(t, group) \in Int
  <2>1. IsFiniteSet(group) /\ Cardinality(group) \in Nat
    BY <1>1, <1>2, FS_Subset, FS_CardinalityType
  <2>2. Carried(t, group) = FoldedSum(t, group)
    BY DEF Carried, FoldedSum
  <2>3. \A k \in group : t[k] \in Int
    BY <1>1
  <2>4. FoldedSum(t, group) \in Int
    BY <2>1, <2>3, SumTakesApart
  <2>. QED
    BY <2>1, <2>2, <2>4
<1>. QED
  BY <1>1, <1>2, <1>3

\* The leading category has the greatest total.
LEMMA LeadingIs ==
  ASSUME NEW t \in Seq(Int), t # <<>>
  PROVE  /\ Leading(t) \in Int /\ \A k \in DOMAIN t : t[k] <= Leading(t)
         /\ \E k \in DOMAIN t : t[k] = Leading(t)
<1> DEFINE S == {t[k] : k \in DOMAIN t}
<1>1. IsFiniteSet(DOMAIN t) /\ DOMAIN t = 1..Len(t) /\ \A k \in DOMAIN t : t[k] \in Int
  BY CarriedSums
<1>2. Len(t) \in Nat /\ Len(t) # 0
  BY EmptySeq, LenProperties
<1>3. S \in SUBSET Int /\ S # {}
  BY <1>1, <1>2
<1>4. IsFiniteSet(S)
  BY <1>1, FiniteImage
<1>5. Leading(t) = Max(S)
  BY DEF Leading, ToSet
<1>6. Max(S) \in S /\ \A n \in S : n <= Max(S)
  <2>. HIDE DEF S
  <2>. QED
    BY <1>3, <1>4, MaxExists
<1>. QED
  BY <1>3, <1>5, <1>6

\* What an element adds to the sum over S, and S without two elements.
Part(f, k, S) == IF k \in S THEN f[k] ELSE 0

Without(S, a, b) == (S \ {a}) \ {b}

\* A sum by the parts of two elements.
InParts(f, S, a, b) ==
  /\ FoldedSum(f, Without(S, a, b)) \in Int
  /\ FoldedSum(f, S) = Part(f, a, S) + Part(f, b, S) + FoldedSum(f, Without(S, a, b))

LEMMA SumByTwo ==
  ASSUME NEW S, IsFiniteSet(S), NEW f, \A x \in S : f[x] \in Int, NEW a, NEW b, a # b
  PROVE  InParts(f, S, a, b)
<1> DEFINE A == S \ {a}
           B == A \ {b}
<1>1. IsFiniteSet(A) /\ IsFiniteSet(B)
  BY FS_Subset
<1>2. (\A x \in A : f[x] \in Int) /\ (\A x \in B : f[x] \in Int)
  OBVIOUS
<1>. HIDE DEF A, B
<1>3. FoldedSum(f, S) \in Int /\ \A x \in S : FoldedSum(f, S) = f[x] + FoldedSum(f, S \ {x})
  BY SumTakesApart
<1>4. FoldedSum(f, A) \in Int /\ \A x \in A : FoldedSum(f, A) = f[x] + FoldedSum(f, A \ {x})
  BY <1>1, <1>2, SumTakesApart
<1>5. FoldedSum(f, B) \in Int
  BY <1>1, <1>2, SumTakesApart
<1>6. FoldedSum(f, S) = Part(f, a, S) + FoldedSum(f, A)
  <2>1. CASE a \in S
    BY <1>3, <2>1 DEF A, Part
  <2>2. CASE a \notin S
    <3>1. A = S
      BY <2>2 DEF A
    <3>. QED
      BY <1>3, <2>2, <3>1 DEF Part
  <2>. QED
    BY <2>1, <2>2
<1>7. FoldedSum(f, A) = Part(f, b, S) + FoldedSum(f, B)
  <2>1. CASE b \in S
    <3>1. b \in A
      BY <2>1 DEF A
    <3>. QED
      BY <1>4, <2>1, <3>1 DEF B, Part
  <2>2. CASE b \notin S
    <3>1. B = A
      BY <2>2 DEF A, B
    <3>. QED
      BY <1>4, <2>2, <3>1 DEF Part
  <2>. QED
    BY <2>1, <2>2
<1>8. Part(f, a, S) \in Int /\ Part(f, b, S) \in Int
  BY DEF Part
<1>9. FoldedSum(f, S) = Part(f, a, S) + Part(f, b, S) + FoldedSum(f, B)
  BY <1>5, <1>6, <1>7, <1>8
<1>10. B = Without(S, a, b)
  BY DEF A, B, Without
<1>. QED
  BY <1>5, <1>9, <1>10 DEF InParts

\* The top group is no larger than any that carries enough.
LEMMA TopCountIs ==
  ASSUME NEW t \in Seq(Nat), NEW group \in SUBSET DOMAIN t,
         5 * Carried(t, group) >= 4 * Grand(t)
  PROVE  /\ TopCount(t) \in Nat /\ TopCount(t) <= Cardinality(group)
         /\ \E g \in SUBSET DOMAIN t :
              5 * Carried(t, g) >= 4 * Grand(t) /\ Cardinality(g) = TopCount(t)
<1> DEFINE enough == {g \in SUBSET DOMAIN t : 5 * Carried(t, g) >= 4 * Grand(t)}
           sizes == {Cardinality(g) : g \in enough}
<1>1. t \in Seq(Int)
  BY SeqDef
<1>2. IsFiniteSet(DOMAIN t) /\ \A g \in SUBSET DOMAIN t : Cardinality(g) \in Nat
  BY <1>1, CarriedSums
<1>3. group \in enough
  OBVIOUS
<1>4. IsFiniteSet(enough)
  <2>1. IsFiniteSet(SUBSET DOMAIN t)
    BY <1>2, FS_SUBSET
  <2>2. enough \in SUBSET (SUBSET DOMAIN t)
    OBVIOUS
  <2>. HIDE DEF enough
  <2>. QED
    BY <2>1, <2>2, FS_Subset
<1>5. TopCount(t) = Min(sizes)
  BY DEF TopCount
<1>6. \A g \in enough : g \in SUBSET DOMAIN t /\ 5 * Carried(t, g) >= 4 * Grand(t)
  OBVIOUS
<1>. HIDE DEF enough
<1>7. sizes \in SUBSET Int /\ sizes # {} /\ Cardinality(group) \in sizes
  BY <1>2, <1>3, <1>6
<1>8. IsFiniteSet(sizes)
  <2> DEFINE size == [g \in enough |-> Cardinality(g)]
  <2>1. sizes = {size[g] : g \in enough}
    OBVIOUS
  <2>2. IsFiniteSet({size[g] : g \in enough})
    <3>. HIDE DEF size
    <3>. QED
      BY <1>4, FiniteImage
  <2>. QED
    BY <2>1, <2>2
<1>9. Min(sizes) \in sizes /\ \A n \in sizes : Min(sizes) <= n
  <2>. HIDE DEF sizes
  <2>. QED
    BY <1>7, <1>8, MinExists
<1>10. PICK g \in enough : Cardinality(g) = Min(sizes)
  BY <1>9
<1>. QED
  BY <1>2, <1>5, <1>6, <1>7, <1>9, <1>10

\* Business that moves from i to the leader l.
LEMMA Consolidated ==
  ASSUME totals \in Seq(Nat), NEW i \in DOMAIN totals, Consolidate(i)
  PROVE  \E l \in DOMAIN totals :
           /\ l # i /\ totals[l] = Leading(totals) /\ totals[i] > 0
           /\ totals' \in Seq(Nat) /\ DOMAIN totals' = DOMAIN totals /\ Len(totals') = Len(totals)
           /\ totals'[i] = totals[i] - 1 /\ totals'[l] = totals[l] + 1
           /\ \A k \in DOMAIN totals \ {i, l} : totals'[k] = totals[k]
<1> DEFINE l == CHOOSE k \in DOMAIN totals : totals[k] = Leading(totals)
<1>1. totals \in Seq(Int) /\ totals # <<>>
  <2>1. DOMAIN totals # {}
    OBVIOUS
  <2>. QED
    BY <2>1, SeqDef, EmptySeq
<1>2. \E k \in DOMAIN totals : totals[k] = Leading(totals)
  BY <1>1, LeadingIs
<1>3. l \in DOMAIN totals /\ totals[l] = Leading(totals)
  BY <1>2, Zenon
<1>4. /\ i \in DOMAIN totals \ {l} /\ totals[i] > 0
      /\ totals' = [totals EXCEPT ![i] = totals[i] - 1, ![l] = totals[l] + 1]
  BY DEF Consolidate
<1>5. DOMAIN totals = 1..Len(totals) /\ Len(totals) \in Nat /\ \A k \in DOMAIN totals : totals[k] \in Nat
  BY ElementOfSeq, LenProperties
<1>. HIDE DEF l
<1>6. /\ DOMAIN totals' = DOMAIN totals /\ totals'[i] = totals[i] - 1 /\ totals'[l] = totals[l] + 1
      /\ \A k \in DOMAIN totals \ {i, l} : totals'[k] = totals[k]
  BY <1>3, <1>4
<1>7. totals' = [k \in 1..Len(totals) |-> totals'[k]]
  BY <1>4, <1>5
<1>8. \A k \in 1..Len(totals) : totals'[k] \in Nat
  BY <1>3, <1>4, <1>5, <1>6
<1>9. totals' \in Seq(Nat) /\ Len(totals') = Len(totals)
  <2> DEFINE u == totals'
  <2>1. u = [k \in 1..Len(totals) |-> u[k]] /\ \A k \in 1..Len(totals) : u[k] \in Nat
    BY <1>7, <1>8
  <2>. HIDE DEF u
  <2>2. u \in Seq(Nat)
    BY <1>5, <2>1, IsASeq
  <2>3. DOMAIN u = 1..Len(totals)
    BY <2>1
  <2>4. Len(u) = Len(totals)
    BY <1>5, <2>2, <2>3, LenProperties
  <2>. QED
    BY <2>2, <2>4 DEF u
<1>. QED
  BY <1>3, <1>4, <1>6, <1>9

\* The total stays, the squares and the leader grow, and a group that carried
\* enough still does once the leader takes i's place in it.
LEMMA MoreSkewed ==
  ASSUME NEW t \in Seq(Nat), NEW u \in Seq(Nat), DOMAIN u = DOMAIN t,
         NEW i \in DOMAIN t, NEW l \in DOMAIN t, l # i, t[l] = Leading(t), t[i] > 0,
         u[i] = t[i] - 1, u[l] = t[l] + 1, \A k \in DOMAIN t \ {i, l} : u[k] = t[k]
  PROVE  /\ Grand(u) = Grand(t) /\ Grand(t) \in Int
         /\ Squares(u) >= Squares(t) /\ Squares(u) \in Int /\ Squares(t) \in Int
         /\ Leading(u) >= Leading(t) /\ Leading(u) \in Int /\ Leading(t) \in Int
         /\ 5 * Carried(t, DOMAIN t) >= 4 * Grand(t)
         /\ TopCount(t) \in Nat /\ TopCount(u) \in Nat /\ TopCount(u) <= TopCount(t)
<1>1. t \in Seq(Int) /\ u \in Seq(Int) /\ t # <<>> /\ u # <<>>
  BY SeqDef, EmptySeq
<1>2. \A k \in DOMAIN t : t[k] \in Nat /\ u[k] \in Nat
  BY ElementOfSeq, SMTT(30)
<1>3. /\ IsFiniteSet(DOMAIN t) /\ DOMAIN t = 1..Len(t) /\ DOMAIN u = 1..Len(u)
      /\ \A group \in SUBSET DOMAIN t :
           /\ IsFiniteSet(group) /\ Cardinality(group) \in Nat
           /\ Carried(t, group) = FoldedSum(t, group) /\ Carried(t, group) \in Int
           /\ Carried(u, group) = FoldedSum(u, group) /\ Carried(u, group) \in Int
  BY <1>1, CarriedSums
<1>4. /\ Leading(u) \in Int /\ Leading(t) \in Int
      /\ \A k \in DOMAIN t : t[k] <= Leading(t) /\ u[k] <= Leading(u)
  BY <1>1, LeadingIs
<1>5. Leading(u) >= Leading(t) /\ t[i] <= t[l] /\ t[i] \in Nat /\ t[l] \in Nat
  <2>1. u[l] <= Leading(u) /\ t[i] <= Leading(t) /\ t[i] \in Nat /\ t[l] \in Nat
    BY <1>2, <1>4
  <2>. QED
    BY <1>4, <2>1
<1>6. ASSUME NEW g \in SUBSET DOMAIN t
      PROVE  /\ Carried(t, g) = Part(t, i, g) + Part(t, l, g) + FoldedSum(t, Without(g, i, l))
             /\ Carried(u, g) = Part(u, i, g) + Part(u, l, g) + FoldedSum(t, Without(g, i, l))
             /\ FoldedSum(t, Without(g, i, l)) \in Int
  <2>1. i # l
    OBVIOUS
  <2>2. IsFiniteSet(g) /\ (\A k \in g : t[k] \in Int) /\ (\A k \in g : u[k] \in Int)
    BY <1>2, <1>3
  <2>3. InParts(t, g, i, l) /\ InParts(u, g, i, l)
    BY <2>1, <2>2, SumByTwo
  <2>4. FoldedSum(t, Without(g, i, l)) = FoldedSum(u, Without(g, i, l))
    <3>1. IsFiniteSet(Without(g, i, l))
      <4>1. Without(g, i, l) \in SUBSET g
        BY DEF Without
      <4>. QED
        BY <2>2, <4>1, FS_Subset
    <3>2. \A k \in Without(g, i, l) : t[k] \in Int /\ u[k] = t[k]
      BY <2>2 DEF Without
    <3>. QED
      BY <3>1, <3>2, SameSum
  <2>. QED
    BY <1>3, <2>3, <2>4 DEF InParts
<1>7. Grand(u) = Grand(t) /\ Grand(t) \in Nat
  <2>1. DOMAIN t \in SUBSET DOMAIN t
    OBVIOUS
  <2>2. Carried(u, DOMAIN t) = Carried(t, DOMAIN t)
    <3>1. /\ Part(u, i, DOMAIN t) = t[i] - 1 /\ Part(u, l, DOMAIN t) = t[l] + 1
          /\ Part(t, i, DOMAIN t) = t[i] /\ Part(t, l, DOMAIN t) = t[l]
      BY DEF Part
    <3>. QED
      BY <1>5, <1>6, <2>1, <3>1
  <2>3. FoldedSum(t, DOMAIN t) \in Nat
    BY <1>2, <1>3, SumBounds
  <2>. QED
    BY <1>3, <2>1, <2>2, <2>3 DEF Grand
<1>8. Squares(u) >= Squares(t) /\ Squares(u) \in Int /\ Squares(t) \in Int
  <2> DEFINE f == [k \in DOMAIN t |-> t[k] * t[k]]
             h == [k \in DOMAIN u |-> u[k] * u[k]]
             D == DOMAIN t
  <2>1. \A k \in D : f[k] \in Int /\ h[k] \in Int
    <3>1. SUFFICES ASSUME NEW k \in D
                   PROVE  f[k] \in Int /\ h[k] \in Int
      OBVIOUS
    <3>2. t[k] \in Int /\ u[k] \in Int
      BY <1>2
    <3>3. f[k] = t[k] * t[k] /\ h[k] = u[k] * u[k]
      OBVIOUS
    <3>. HIDE DEF f, h
    <3>4. \A m \in Int : m * m \in Int
      OBVIOUS
    <3>. QED
      BY <3>2, <3>3, <3>4, Zenon
  <2>2. \A k \in Without(D, i, l) : f[k] = h[k]
    BY <1>2 DEF Without
  <2>3. f \in Seq(Int) /\ h \in Seq(Int) /\ DOMAIN f = D /\ DOMAIN h = D
    <3>1. Len(t) \in Nat /\ Len(u) \in Nat
      BY LenProperties
    <3>2. f = [k \in 1..Len(t) |-> f[k]] /\ h = [k \in 1..Len(u) |-> h[k]]
      BY <1>3
    <3>3. (\A k \in 1..Len(t) : f[k] \in Int) /\ (\A k \in 1..Len(u) : h[k] \in Int)
      BY <1>3, <2>1
    <3>4. DOMAIN f = D /\ DOMAIN h = D
      OBVIOUS
    <3>. HIDE DEF f, h
    <3>5. f \in Seq(Int) /\ h \in Seq(Int)
      BY <3>1, <3>2, <3>3, IsASeq
    <3>. QED
      BY <3>4, <3>5
  <2>4. f[i] = t[i] * t[i] /\ f[l] = t[l] * t[l] /\ h[i] = u[i] * u[i] /\ h[l] = u[l] * u[l]
    OBVIOUS
  <2>5. Squares(t) = Carried(f, D) /\ Squares(u) = Carried(h, D)
    BY <2>3 DEF Squares, Grand
  <2>. HIDE DEF f, h
  <2>6. Squares(t) = FoldedSum(f, D) /\ Squares(u) = FoldedSum(h, D)
        /\ Squares(u) \in Int /\ Squares(t) \in Int
    BY <2>3, <2>5, CarriedSums
  <2>7. /\ FoldedSum(f, Without(D, i, l)) \in Int
        /\ FoldedSum(f, D) = Part(f, i, D) + Part(f, l, D) + FoldedSum(f, Without(D, i, l))
        /\ FoldedSum(h, D) = Part(h, i, D) + Part(h, l, D) + FoldedSum(h, Without(D, i, l))
    <3>1. IsFiniteSet(D) /\ (\A k \in D : f[k] \in Int) /\ (\A k \in D : h[k] \in Int)
      BY <1>3, <2>1
    <3>. HIDE DEF D
    <3>2. i # l
      OBVIOUS
    <3>3. InParts(f, D, i, l) /\ InParts(h, D, i, l)
      BY <3>1, <3>2, SumByTwo
    <3>. QED
      BY <3>3 DEF InParts
  <2>8. FoldedSum(f, Without(D, i, l)) = FoldedSum(h, Without(D, i, l))
    <3>1. IsFiniteSet(Without(D, i, l)) /\ Without(D, i, l) \in SUBSET D
      <4>1. Without(D, i, l) \in SUBSET D
        BY DEF Without
      <4>. QED
        BY <1>3, <4>1, FS_Subset
    <3>2. \A k \in Without(D, i, l) : f[k] \in Int /\ h[k] = f[k]
      BY <2>1, <2>2, <3>1
    <3>. HIDE DEF D
    <3>. QED
      BY <3>1, <3>2, SameSum
  <2>9. u[i] * u[i] + u[l] * u[l] >= t[i] * t[i] + t[l] * t[l]
    <3>1. \A x \in Nat, y \in Nat : (x - 1) * (x - 1) = x * x - 2 * x + 1 /\ (y + 1) * (y + 1) = y * y + 2 * y + 1
      OBVIOUS
    <3>2. /\ u[i] * u[i] = t[i] * t[i] - 2 * t[i] + 1
          /\ u[l] * u[l] = t[l] * t[l] + 2 * t[l] + 1
      BY <1>5, <3>1
    <3>3. t[i] * t[i] \in Int /\ t[l] * t[l] \in Int
      BY <1>5
    <3> DEFINE a == t[i] * t[i]
               b == t[l] * t[l]
               c == u[i] * u[i]
               d == u[l] * u[l]
               x == t[i]
               y == t[l]
    <3>4. /\ c = a - 2 * x + 1 /\ d = b + 2 * y + 1 /\ a \in Int /\ b \in Int
          /\ x \in Nat /\ y \in Nat /\ x <= y
      BY <1>5, <3>2, <3>3
    <3>. HIDE DEF a, b, c, d, x, y
    <3>5. c + d >= a + b
      BY <3>4
    <3>. QED
      BY <3>5 DEF a, b, c, d
  <2>10. h[i] + h[l] >= f[i] + f[l] /\ f[i] \in Int /\ f[l] \in Int /\ h[i] \in Int /\ h[l] \in Int
    BY <2>1, <2>4, <2>9
  <2>11. FoldedSum(f, D) = f[i] + f[l] + FoldedSum(f, Without(D, i, l))
         /\ FoldedSum(h, D) = h[i] + h[l] + FoldedSum(f, Without(D, i, l))
    <3>1. /\ Part(f, i, D) = f[i] /\ Part(f, l, D) = f[l]
          /\ Part(h, i, D) = h[i] /\ Part(h, l, D) = h[l]
      BY DEF Part
    <3>. QED
      BY <2>7, <2>8, <3>1
  <2> DEFINE w == FoldedSum(f, Without(D, i, l))
             a == f[i]
             b == f[l]
             c == h[i]
             d == h[l]
  <2>12. /\ Squares(t) = a + b + w /\ Squares(u) = c + d + w /\ c + d >= a + b
         /\ a \in Int /\ b \in Int /\ c \in Int /\ d \in Int /\ w \in Int
    <3>. HIDE DEF D
    <3>. QED
      BY <2>6, <2>7, <2>10, <2>11, Zenon
  <2>. HIDE DEF w, a, b, c, d
  <2>13. Squares(u) >= Squares(t)
    BY <2>12
  <2>. QED
    BY <2>6, <2>13
<1>9. 5 * Carried(t, DOMAIN t) >= 4 * Grand(t)
  BY <1>7 DEF Grand
<1>10. /\ TopCount(t) \in Nat
       /\ \E g \in SUBSET DOMAIN t :
            5 * Carried(t, g) >= 4 * Grand(t) /\ Cardinality(g) = TopCount(t)
  BY <1>9, TopCountIs
<1>11. PICK g \in SUBSET DOMAIN t :
         5 * Carried(t, g) >= 4 * Grand(t) /\ Cardinality(g) = TopCount(t)
  BY <1>10
<1> DEFINE G == IF i \in g /\ l \notin g THEN (g \ {i}) \cup {l} ELSE g
<1>12. G \in SUBSET DOMAIN u /\ G \in SUBSET DOMAIN t
  OBVIOUS
<1>13. Cardinality(G) = Cardinality(g)
  <2>1. IsFiniteSet(g) /\ IsFiniteSet(g \ {i}) /\ Cardinality(g) \in Nat
    BY <1>3
  <2>2. CASE i \in g /\ l \notin g
    <3>1. Cardinality(g \ {i}) = Cardinality(g) - 1
      BY <2>1, <2>2, FS_RemoveElement
    <3>2. Cardinality((g \ {i}) \cup {l}) = Cardinality(g \ {i}) + 1
      BY <2>1, <2>2, FS_AddElement
    <3>. QED
      BY <2>1, <2>2, <3>1, <3>2
  <2>. QED
    BY <2>2
<1>14. Carried(u, G) >= Carried(t, g)
  <2>1. Without(G, i, l) = Without(g, i, l)
    BY DEF Without
  <2>2. /\ Carried(t, g) = Part(t, i, g) + Part(t, l, g) + FoldedSum(t, Without(g, i, l))
        /\ Carried(u, G) = Part(u, i, G) + Part(u, l, G) + FoldedSum(t, Without(g, i, l))
        /\ FoldedSum(t, Without(g, i, l)) \in Int
    BY <1>6, <1>12, <2>1
  <2>3. Part(u, i, G) + Part(u, l, G) >= Part(t, i, g) + Part(t, l, g)
    BY <1>5 DEF Part
  <2>4. /\ Part(u, i, G) \in Int /\ Part(u, l, G) \in Int
        /\ Part(t, i, g) \in Int /\ Part(t, l, g) \in Int
    BY <1>2 DEF Part
  <2>. HIDE DEF G
  <2>. QED
    BY <2>2, <2>3, <2>4
<1>15. 5 * Carried(u, G) >= 4 * Grand(u)
  <2>1. Carried(u, G) \in Int /\ Carried(t, g) \in Int
    BY <1>3, <1>12
  <2>. HIDE DEF G
  <2>. QED
    BY <1>7, <1>11, <1>14, <2>1
<1>16. TopCount(u) \in Nat /\ TopCount(u) <= Cardinality(G)
  <2>. HIDE DEF G
  <2>. QED
    BY <1>12, <1>15, TopCountIs
<1>. QED
  BY <1>4, <1>5, <1>7, <1>8, <1>9, <1>10, <1>11, <1>13, <1>16

-----------------------------------------------------------------------------
(* Concentration: how it is judged.                                        *)

\* The judgement by its numbers: of n categories that sum up to g the leading
\* has m, the index is q over d, and top categories carry four fifths.
Judged(n, g, m, q, d, top) ==
  IF n < 4 \/ g <= 0 THEN Silent
  ELSE IF 100 * q < 20 * d /\ n * m < 3 * g THEN Silent
  ELSE [rank |-> IF 100 * q > 50 * d \/ 100 * m > 50 * g THEN 3
                 ELSE IF 100 * q > 30 * d \/ 100 * m > 35 * g THEN 2 ELSE 1,
        top  |-> top]

\* The normalised index of t is its unevenness over that of a single name.
Unevenness(t) == Len(t) * Squares(t) - Grand(t) * Grand(t)

Unevenest(t) == (Len(t) - 1) * Grand(t) * Grand(t)

LEMMA JudgedBy ==
  ASSUME NEW t
  PROVE  Concentration(t)
           = Judged(Len(t), Grand(t), Leading(t), Unevenness(t), Unevenest(t), TopCount(t))
BY DEF Concentration, Judged, Normalized, Above, Unevenness, Unevenest

\* A greater index and a greater leader are judged no milder.
LEMMA JudgedHarder ==
  ASSUME NEW n \in Nat, NEW g \in Int, NEW d \in Int,
         NEW m \in Int, NEW M \in Int, m <= M, NEW q \in Int, NEW Q \in Int, q <= Q,
         NEW top \in Nat, NEW Top \in Nat, Top <= top
  PROVE  LET before == Judged(n, g, m, q, d, top)
             after  == Judged(n, g, M, Q, d, Top)
         IN /\ after.rank >= before.rank
            /\ before.rank > 0 => after.top <= before.top
<1> DEFINE x == n * m
           y == n * M
<1>1. x \in Int /\ y \in Int /\ x <= y
  <2>1. M - m \in Nat /\ n * (M - m) = y - x /\ x \in Int /\ y \in Int
    OBVIOUS
  <2>2. n * (M - m) \in Nat
    BY <2>1
  <2>. HIDE DEF x, y
  <2>. QED
    BY <2>1, <2>2
<1> DEFINE before == Judged(n, g, m, q, d, top)
           after  == Judged(n, g, M, Q, d, Top)
           rank(i, j) == IF 100 * i > 50 * d \/ 100 * j > 50 * g THEN 3
                         ELSE IF 100 * i > 30 * d \/ 100 * j > 35 * g THEN 2 ELSE 1
<1>2. /\ before = IF n < 4 \/ g <= 0 THEN Silent
                  ELSE IF 100 * q < 20 * d /\ x < 3 * g THEN Silent
                  ELSE [rank |-> rank(q, m), top |-> top]
      /\ after = IF n < 4 \/ g <= 0 THEN Silent
                 ELSE IF 100 * Q < 20 * d /\ y < 3 * g THEN Silent
                 ELSE [rank |-> rank(Q, M), top |-> Top]
  BY DEF Judged
<1>3. rank(q, m) \in 1..3 /\ rank(Q, M) \in 1..3 /\ rank(q, m) <= rank(Q, M)
  OBVIOUS
<1>4. Silent.rank = 0 /\ Silent.top = 0
  BY DEF Silent
<1>. HIDE DEF x, y, before, after, rank
<1>5. CASE n < 4 \/ g <= 0 \/ (100 * q < 20 * d /\ x < 3 * g)
  <2>1. before = Silent /\ before.rank = 0
    BY <1>2, <1>4, <1>5
  <2>2. after.rank >= 0
    BY <1>2, <1>3, <1>4
  <2>. QED
    BY <2>1, <2>2 DEF before, after
<1>6. CASE ~(n < 4 \/ g <= 0 \/ (100 * q < 20 * d /\ x < 3 * g))
  <2>1. ~(100 * Q < 20 * d /\ y < 3 * g)
    BY <1>1, <1>6
  <2>2. before = [rank |-> rank(q, m), top |-> top] /\ after = [rank |-> rank(Q, M), top |-> Top]
    BY <1>2, <1>6, <2>1
  <2>. QED
    BY <1>3, <2>2 DEF before, after
<1>. QED
  BY <1>5, <1>6

\* The index of an even split is zero, and its leader has one share.
LEMMA EvenSilent ==
  ASSUME NEW t \in Seq(Nat), Cardinality(ToSet(t)) = 1
  PROVE  Concentration(t) = Silent
<1>1. t \in Seq(Int)
  BY SeqDef
<1>2. /\ IsFiniteSet(DOMAIN t) /\ DOMAIN t = 1..Len(t) /\ Cardinality(DOMAIN t) = Len(t)
      /\ Len(t) \in Nat /\ \A k \in DOMAIN t : t[k] \in Int
      /\ Grand(t) = FoldedSum(t, DOMAIN t)
  BY <1>1, CarriedSums DEF Grand
<1>3. PICK c : ToSet(t) = {c}
  <2>1. IsFiniteSet(ToSet(t))
    BY <1>2, FiniteImage DEF ToSet
  <2>. QED
    BY <2>1, FS_Singleton
<1>4. (\A k \in DOMAIN t : t[k] = c) /\ DOMAIN t # {}
  BY <1>3 DEF ToSet
<1>5. c \in Nat
  BY <1>4, ElementOfSeq, <1>2
<1> DEFINE n == Len(t)
           f == [k \in DOMAIN t |-> t[k] * t[k]]
<1>6. Grand(t) = n * c
  BY <1>2, <1>4, <1>5, EvenSum, ZenonT(40)
<1>7. Squares(t) = n * (c * c)
  <2>1. DOMAIN f = DOMAIN t /\ \A k \in DOMAIN t : f[k] = c * c
    BY <1>4
  <2>2. c * c \in Int /\ \A k \in 1..n : f[k] \in Int
    BY <1>2, <1>5, <2>1
  <2>3. f = [k \in 1..n |-> f[k]]
    BY <1>2
  <2>4. Squares(t) = Carried(f, DOMAIN f)
    BY DEF Squares, Grand
  <2>. HIDE DEF f
  <2>5. f \in Seq(Int)
    BY <1>2, <2>2, <2>3, IsASeq
  <2>6. Squares(t) = FoldedSum(f, DOMAIN t)
    BY <2>1, <2>4, <2>5, CarriedSums
  <2>7. FoldedSum(f, DOMAIN t) = Cardinality(DOMAIN t) * (c * c)
    BY <1>2, <2>1, <2>2, EvenSum
  <2>. QED
    BY <1>2, <2>6, <2>7
<1>8. Leading(t) = c
  <2>1. t # <<>>
    BY <1>4
  <2>. QED
    BY <1>1, <1>4, <2>1, LeadingIs
<1>9. n * (n * (c * c)) = (n * c) * (n * c)
  BY <1>2, <1>5
<1> DEFINE g == n * c
<1>10. g \in Int /\ g * g \in Int /\ Unevenness(t) = 0 /\ Unevenest(t) = (n - 1) * g * g /\ Grand(t) = g
  <2>1. g \in Int /\ g * g \in Int /\ n * Squares(t) = g * g
    BY <1>2, <1>5, <1>7, <1>9
  <2>. HIDE DEF g
  <2>2. Grand(t) = g
    BY <1>6 DEF g
  <2>3. Unevenness(t) = g * g - g * g /\ Unevenest(t) = (n - 1) * g * g
    BY <2>1, <2>2 DEF Unevenness, Unevenest
  <2> DEFINE z == g * g
  <2>4. Unevenness(t) = z - z /\ z \in Int
    BY <2>1, <2>3
  <2>5. Unevenness(t) = 0
    <3>. HIDE DEF z
    <3>. QED
      BY <2>4
  <2>. QED
    BY <2>1, <2>2, <2>3, <2>5
<1>11. g > 0 /\ n >= 4 => (n - 1) * g * g > 0
  <2> SUFFICES ASSUME g > 0, n >= 4 PROVE (n - 1) * g * g > 0
    OBVIOUS
  <2>1. \A x \in Nat \ {0}, y \in Nat \ {0} : x * y \in Nat \ {0}
    OBVIOUS
  <2>2. n - 1 \in Nat \ {0} /\ g \in Nat \ {0}
    BY <1>2, <1>10, SMTT(30)
  <2>. HIDE DEF g, n
  <2>3. (n - 1) * g \in Nat \ {0}
    BY <2>1, <2>2
  <2>4. (n - 1) * g * g \in Nat \ {0}
    BY <2>1, <2>2, <2>3
  <2>. QED
    BY <2>4
<1>12. Concentration(t) = Judged(n, g, c, 0, (n - 1) * g * g, TopCount(t))
  BY <1>8, <1>10, JudgedBy
<1> DEFINE d == (n - 1) * g * g
<1>13. g > 0 /\ n >= 4 => d > 0 /\ n * c = g
  BY <1>11
<1>14. d \in Int /\ n \in Nat
  BY <1>2, <1>10
<1>. HIDE DEF d, g, n
<1>15. g > 0 /\ n >= 4 => 100 * 0 < 20 * d /\ n * c < 3 * g
  BY <1>10, <1>13, <1>14
<1>16. Judged(n, g, c, 0, d, TopCount(t)) = Silent
  <2>1. n < 4 \/ g <= 0 \/ (g > 0 /\ n >= 4)
    BY <1>10, <1>14
  <2>. QED
    BY <1>15, <2>1, Zenon DEF Judged
<1>. QED
  BY <1>12, <1>16, Zenon DEF d

LEMMA ConsolidationHarder ==
  ASSUME totals \in Seq(Nat), NEW i \in DOMAIN totals, Consolidate(i)
  PROVE  /\ totals' \in Seq(Nat)
         /\ Concentration(totals').rank >= Concentration(totals).rank
         /\ Concentration(totals).rank > 0 => Concentration(totals').top <= Concentration(totals).top
<1>1. PICK l \in DOMAIN totals :
        /\ l # i /\ totals[l] = Leading(totals) /\ totals[i] > 0
        /\ totals' \in Seq(Nat) /\ DOMAIN totals' = DOMAIN totals /\ Len(totals') = Len(totals)
        /\ totals'[i] = totals[i] - 1 /\ totals'[l] = totals[l] + 1
        /\ \A k \in DOMAIN totals \ {i, l} : totals'[k] = totals[k]
  BY Consolidated
<1> DEFINE t == totals
           u == totals'
<1>2. /\ t \in Seq(Nat) /\ u \in Seq(Nat) /\ DOMAIN u = DOMAIN t /\ Len(u) = Len(t)
      /\ i \in DOMAIN t /\ l \in DOMAIN t /\ l # i /\ t[l] = Leading(t) /\ t[i] > 0
      /\ u[i] = t[i] - 1 /\ u[l] = t[l] + 1 /\ \A k \in DOMAIN t \ {i, l} : u[k] = t[k]
  BY <1>1
<1>. HIDE DEF t, u
<1>3. /\ Grand(u) = Grand(t) /\ Grand(t) \in Int
      /\ Squares(u) >= Squares(t) /\ Squares(u) \in Int /\ Squares(t) \in Int
      /\ Leading(u) >= Leading(t) /\ Leading(u) \in Int /\ Leading(t) \in Int
      /\ TopCount(t) \in Nat /\ TopCount(u) \in Nat /\ TopCount(u) <= TopCount(t)
  BY <1>2, MoreSkewed
<1> DEFINE n == Len(t)
           a == Squares(t)
           b == Squares(u)
           g == Grand(t)
<1>4. n \in Nat /\ a \in Int /\ b \in Int /\ a <= b /\ g \in Int
  BY <1>2, <1>3, LenProperties
<1>5. /\ Unevenness(t) = n * a - g * g /\ Unevenness(u) = n * b - g * g
      /\ Unevenest(t) = (n - 1) * g * g /\ Unevenest(u) = (n - 1) * g * g
  BY <1>2, <1>3 DEF Unevenness, Unevenest
<1>. HIDE DEF n, a, b, g
<1>6. Unevenness(t) \in Int /\ Unevenness(u) \in Int /\ Unevenness(t) <= Unevenness(u)
  <2> DEFINE x == n * a
             y == n * b
             z == g * g
  <2>1. b - a \in Nat /\ n * (b - a) = y - x /\ x \in Int /\ y \in Int /\ z \in Int
    BY <1>4
  <2>2. n * (b - a) \in Nat
    BY <1>4, <2>1
  <2>3. Unevenness(t) = x - z /\ Unevenness(u) = y - z
    BY <1>5
  <2>. HIDE DEF x, y, z
  <2>4. y - x >= 0
    BY <2>1, <2>2
  <2>. QED
    BY <2>1, <2>3, <2>4
<1>7. Unevenest(t) \in Int /\ Unevenest(u) = Unevenest(t)
  BY <1>4, <1>5
<1>8. Len(u) = Len(t) /\ Len(t) \in Nat
  BY <1>2, LenProperties
<1>9. /\ Concentration(t)
           = Judged(Len(t), Grand(t), Leading(t), Unevenness(t), Unevenest(t), TopCount(t))
      /\ Concentration(u)
           = Judged(Len(t), Grand(t), Leading(u), Unevenness(u), Unevenest(t), TopCount(u))
  BY <1>3, <1>7, <1>8, JudgedBy
<1>10. /\ Concentration(u).rank >= Concentration(t).rank
       /\ Concentration(t).rank > 0 => Concentration(u).top <= Concentration(t).top
  <2>1. Leading(t) <= Leading(u)
    BY <1>3
  <2>. QED
    BY <1>3, <1>6, <1>7, <1>8, <1>9, <2>1, JudgedHarder
<1>. QED
  BY <1>2, <1>10 DEF t, u

\* An even split of the business is never called concentrated; and when business
\* moves to the leader, the finding gets no milder and the group said to carry
\* four fifths no larger: for any number of categories and any totals.
THEOREM ConcentrationIsJudged == InsightsSpec => ConcentrationJudged
<1>1. InsightsInit => totals \in Seq(Nat)
  BY InsightsAssumption DEF InsightsInit
<1>2. totals \in Seq(Nat) /\ [InsightsNext]_totals => (totals \in Seq(Nat))'
  <2>1. ASSUME totals \in Seq(Nat), NEW i \in DOMAIN totals, Consolidate(i)
        PROVE  totals' \in Seq(Nat)
    BY <2>1, ConsolidationHarder
  <2>. QED
    BY <2>1 DEF InsightsNext
<1>3. totals \in Seq(Nat) /\ [InsightsNext]_totals =>
        [/\ Cardinality(ToSet(totals)) = 1 => Concentration(totals) = Silent
         /\ Concentration(totals').rank >= Concentration(totals).rank
         /\ Concentration(totals).rank > 0 => Concentration(totals').top <= Concentration(totals).top]_totals
  <2> SUFFICES ASSUME totals \in Seq(Nat), NEW i \in DOMAIN totals, Consolidate(i)
               PROVE  /\ Cardinality(ToSet(totals)) = 1 => Concentration(totals) = Silent
                      /\ Concentration(totals').rank >= Concentration(totals).rank
                      /\ Concentration(totals).rank > 0 =>
                           Concentration(totals').top <= Concentration(totals).top
    BY DEF InsightsNext
  <2>1. Cardinality(ToSet(totals)) = 1 => Concentration(totals) = Silent
    BY EvenSilent
  <2>2. /\ Concentration(totals').rank >= Concentration(totals).rank
        /\ Concentration(totals).rank > 0 => Concentration(totals').top <= Concentration(totals).top
    BY ConsolidationHarder
  <2>. QED
    BY <2>1, <2>2
<1>. QED
  BY <1>1, <1>2, <1>3, PTL DEF InsightsSpec, ConcentrationJudged
=============================================================================
