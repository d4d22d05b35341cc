-------------------------------- MODULE Overview --------------------------------
(***************************************************************************)
(* The company overview (main.py: overview, analytics.py: company_metrics) *)
(* and the company pages (main.py: _company_items): what a viewer is shown *)
(* of the company's records, restricted to the departments of a department *)
(* manager, and the stored results that the figures of an overview cite.   *)
(*                                                                         *)
(* An overview reads the figures with one SELECT after the other, looks up *)
(* the result each figure would have, and stores those that are missing in *)
(* one commit; when another overview stored one of them meanwhile, it      *)
(* rolls back and goes on.  No endpoint writes the records themselves.     *)
(* A value that may be null is a set of at most one number.  Average       *)
(* resolution time and budget variance, which are read like the others,    *)
(* the margin rate, which follows from two figures, and an organization    *)
(* without a reporting date are left out.                                  *)
(***************************************************************************)
EXTENDS FiniteSets, FiniteSetsExt, Integers, Sequences, SequencesExt, TLC

CONSTANTS
  Records,      \* records that may be stored: [id, kind, department, ...]
  Viewers,      \* [role, departments, people]: a membership and its people permissions
  Views,        \* overviews under way at a time
  Cutoff,       \* the month of the reporting date
  PageLimit,    \* rows on a page, 250 in the code
  Revisable,    \* bound: the records that may go and come back
  MaxRevisions  \* bound on changes of the records

VARIABLES
  recorded,     \* the records stored now
  revisions,    \* changes made to them
  evidence,     \* metric_results: from the identity of a result to its figure
  view          \* each overview; its field `mixed` is a history field

overviewVars == <<recorded, revisions, evidence, view>>

-----------------------------------------------------------------------------
(* Scope.                                                                  *)

Scoped(v) == v.role = "department_manager"

\* scoped_departments, as it is written into a result.
ScopeOf(v) == IF Scoped(v) THEN <<"departments", v.departments>> ELSE <<"company", {}>>

\* The records of a kind that a viewer's SELECT finds in a table.
Of(kind, v, stored) ==
  {r \in stored : r.kind = kind /\ (Scoped(v) => r.department \in v.departments)}

\* What the SELECTs of an overview find, by kind.
Found(v, stored) == [kind \in {"order", "case", "project", "employee"} |-> Of(kind, v, stored)]

-----------------------------------------------------------------------------
(* company_metrics: a SELECT for each table.                               *)

Queries == <<"orders", "cases", "projects">>

\* SUM of no rows is null; nulls are not summed.
SumOf(F(_), from) ==
  LET given == {r \in from : F(r) # {}}
  IN IF given = {} THEN {} ELSE {MapThenSumSet(LAMBDA r : CHOOSE n \in F(r) : TRUE, given)}

Revenue(orders) == SumOf(LAMBDA r : {r.revenue}, orders)
Cost(orders)    == SumOf(LAMBDA r : r.cost, orders)

Figures(query, found) ==
  LET before(kind) == {r \in found[kind] : r.month <= Cutoff}
  IN CASE query = "orders" ->
            [net_revenue  |-> Revenue(before("order")),
             gross_margin |-> {x - y : x \in Revenue(before("order")),
                                       y \in Cost(before("order"))}]
       [] query = "cases" -> [support_case_count |-> {Cardinality(before("case"))}]
       [] query = "projects" ->
            [project_delay_rate |->
               {(100 * Cardinality({r \in before("project") : r.delayed}))
                  \div Cardinality(before("project")) : p \in before("project")}]

Metrics == <<"net_revenue", "gross_margin", "support_case_count", "project_delay_rate">>

\* Mutant of ResultId: the figure is not part of a result's identity.
UnvaluedId(v, metric, figure) == <<ScopeOf(v), metric>>

\* stable_hash of scope, metric and calculation.
ResultId(v, metric, figure) == <<ScopeOf(v), metric, figure>>

\* The revenue of the last six months, and of the same months a year before.
Trend(found) ==
  LET orders == {r \in found.order : r.month <= Cutoff}
      revenue(month) == Revenue({r \in orders : r.month = month})
  IN [k \in 0..5 |-> <<revenue(Cutoff - k), revenue(Cutoff - k - 12)>>]

\* Delayed projects, whenever due, and overloaded employees.
Attention(found) ==
  [delayed    |-> Cardinality({r \in found.project : r.delayed}),
   overloaded |-> Cardinality({r \in found.employee : r.overloaded})]

-----------------------------------------------------------------------------
(* _company_items.                                                         *)

KindOn == [projects |-> "project", operations |-> "order", costs |-> "expense",
           support |-> "case", objectives |-> "objective"]

Pages == {"customers", "people", "suppliers"} \cup DOMAIN KindOn

\* ORDER BY date DESC, id on dated pages and by id on the others, then LIMIT.
Shown(page, found) ==
  LET precedes(x, y) == IF page \in {"operations", "costs", "support"} /\ x.month # y.month
                        THEN x.month > y.month ELSE x.id < y.id
  IN IF page = "objectives" THEN found
     ELSE {r \in found : Cardinality({x \in found : precedes(x, r)}) < PageLimit}

\* What a page shows: records, or headcounts by department; nothing stands for
\* the refusal of the people page.
Items(v, page, stored) ==
  LET linked(r) == \E x \in Of("order", v, stored) \cup Of("case", v, stored) : x.customer = r.id
      customers == {r \in stored : r.kind = "customer" /\ (Scoped(v) => linked(r))}
      limited   == Scoped(v) \/ ("department" \in v.people /\ "approved" \notin v.people)
      people    == Shown(page, {r \in stored : r.kind = "employee"
                                               /\ (limited => r.department \in v.departments)})
      headcount == {<<d, Cardinality({r \in people : r.department = d})>> :
                      d \in {r.department : r \in people}}
  IN CASE page = "customers" -> Shown(page, customers)
       [] page = "people" ->
            IF "aggregate" \in v.people /\ "approved" \notin v.people THEN headcount
            ELSE IF v.people = {} THEN {} ELSE people
       [] page = "suppliers" -> IF Scoped(v) THEN {} ELSE {r \in stored : r.kind = "supplier"}
       [] OTHER -> Shown(page, Of(KindOn[page], v, stored))

-----------------------------------------------------------------------------
(* An overview, step by step.                                              *)

NoFigures == [m \in ToSet(Metrics) |-> {}]

NoView == [at |-> "closed", viewer |-> {}, step |-> 0, figures |-> NoFigures, new |-> {},
           trend |-> <<>>, mixed |-> FALSE]

OverviewInit ==
  /\ recorded = Records
  /\ revisions = 0
  /\ evidence = [id \in {} |-> {}]
  /\ view = [t \in Views |-> NoView]

Underway(t) == view[t].at \in {"reading", "checking"}

OpenView(t, v) ==
  /\ view[t].at = "closed"
  /\ view' = [view EXCEPT ![t] = [NoView EXCEPT
       !.at = "reading", !.viewer = v, !.step = 1,
       !.mixed = \E other \in Views \ {t} : Underway(other) /\ view[other].mixed]]
  /\ UNCHANGED <<recorded, revisions, evidence>>

\* The next SELECT of company_metrics.
ReadFigures(t) ==
  /\ view[t].at = "reading"
  /\ LET i    == view[t].step
         read == Figures(Queries[i], Found(view[t].viewer, recorded))
     IN view' = [view EXCEPT ![t] = [view[t] EXCEPT
          !.at = IF i = Len(Queries) THEN "checking" ELSE "reading",
          !.step = IF i = Len(Queries) THEN 1 ELSE i + 1,
          !.figures = [m \in ToSet(Metrics) |->
                         IF m \in DOMAIN read THEN read[m] ELSE view[t].figures[m]]]]
  /\ UNCHANGED <<recorded, revisions, evidence>>

IdOf(t, m) == ResultId(view[t].viewer, m, view[t].figures[m])

\* db.get for the next metric.
LookUp(t) ==
  /\ view[t].at = "checking" /\ view[t].step <= Len(Metrics)
  /\ view' = [view EXCEPT ![t] = [view[t] EXCEPT
       !.step = view[t].step + 1,
       !.new = view[t].new \cup {m \in {Metrics[view[t].step]} : IdOf(t, m) \notin DOMAIN evidence}]]
  /\ UNCHANGED <<recorded, revisions, evidence>>

\* The commit, or the rollback when one of the results is there by now.
StoreEvidence(t) ==
  LET added == {IdOf(t, m) : m \in view[t].new}
      figureOf(id) == view[t].figures[CHOOSE m \in view[t].new : IdOf(t, m) = id]
  IN
  /\ view[t].at = "checking" /\ view[t].step > Len(Metrics)
  /\ evidence' = IF added \cap DOMAIN evidence # {} THEN evidence
                 ELSE [id \in added \cup DOMAIN evidence |->
                       IF id \in added THEN figureOf(id) ELSE evidence[id]]
  /\ view' = [view EXCEPT ![t].at = "trend"]
  /\ UNCHANGED <<recorded, revisions>>

ReadTrend(t) ==
  /\ view[t].at = "trend"
  /\ view' = [view EXCEPT ![t] = [view[t] EXCEPT
       !.at = "attention", !.trend = Trend(Found(view[t].viewer, recorded))]]
  /\ UNCHANGED <<recorded, revisions, evidence>>

\* With these counts the answer is complete, and leaves.
ReadAttention(t) ==
  /\ view[t].at = "attention"
  /\ view' = [view EXCEPT ![t] = NoView]
  /\ UNCHANGED <<recorded, revisions, evidence>>

\* A record is removed or added behind the overviews under way.
Revise(r) ==
  /\ revisions < MaxRevisions /\ revisions' = revisions + 1
  /\ recorded' = IF r \in recorded THEN recorded \ {r} ELSE recorded \cup {r}
  /\ view' = [t \in Views |-> IF Underway(t) THEN [view[t] EXCEPT !.mixed = TRUE] ELSE view[t]]
  /\ UNCHANGED evidence

OverviewNext ==
  \/ \E t \in Views :
       \/ \E v \in Viewers : OpenView(t, v)
       \/ ReadFigures(t) \/ LookUp(t) \/ StoreEvidence(t) \/ ReadTrend(t) \/ ReadAttention(t)
  \/ \E r \in Revisable : Revise(r)

-----------------------------------------------------------------------------
\* What a department manager may know of: master data and the own departments' records.
OwnRecords(v) ==
  {r \in recorded : r.kind \in {"customer", "supplier"} \/ r.department \in v.departments}

(* Every figure of an overview cites a stored result that says the same,   *)
(* also when another overview stored some of them first and this one       *)
(* rolled back (unless the records changed while they overlapped: then a   *)
(* rolled back figure that differs is cited and not stored).  And what a   *)
(* department manager is shown next, of the overview and of every page, is *)
(* what it would be if the other departments had no records at all.        *)
FiguresEvidenced ==
  \A t \in Views : view[t].at \in {"trend", "attention"} =>
    LET v == view[t].viewer
    IN /\ ~view[t].mixed =>
            \A m \in DOMAIN view[t].figures :
              /\ IdOf(t, m) \in DOMAIN evidence
              /\ evidence[IdOf(t, m)] = view[t].figures[m]
       /\ Scoped(v) =>
            LET found == Found(v, recorded)
                own   == Found(v, OwnRecords(v))
            IN /\ \A q \in ToSet(Queries) : Figures(q, found) = Figures(q, own)
               /\ Trend(found) = Trend(own) /\ Attention(found) = Attention(own)
               /\ \A page \in Pages : Items(v, page, recorded) = Items(v, page, OwnRecords(v))
=============================================================================
