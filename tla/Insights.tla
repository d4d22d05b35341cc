-------------------------------- MODULE Insights --------------------------------
(***************************************************************************)
(* The concentration finding of insights.py: how few categories carry a    *)
(* total, judged against an even split over as many categories.  The       *)
(* totals are natural numbers; shares are compared as fractions.  The step *)
(* of the machine is the world's: business moves to the leading category.  *)
(* The other findings, and the wording of this one, are left out.          *)
(***************************************************************************)
EXTENDS Integers, Sequences, FiniteSets, FiniteSetsExt, SequencesExt

CONSTANT Splits     \* sequences: the totals of the categories

ASSUME InsightsAssumption == Splits \subseteq Seq(Nat)

VARIABLE totals

Carried(t, group) == MapThenSumSet(LAMBDA k : t[k], group)

Grand(t)   == Carried(t, DOMAIN t)
Squares(t) == Grand([k \in DOMAIN t |-> t[k] * t[k]])
Leading(t) == Max(ToSet(t))

\* Mutant of Normalized: the Herfindahl index as it is.
Herfindahl(t) == <<Squares(t), Grand(t) * Grand(t)>>

\* Normalised concentration as a fraction: 0 for an even split, 1 for one name.
Normalized(t) == <<Len(t) * Squares(t) - Grand(t) * Grand(t), (Len(t) - 1) * Grand(t) * Grand(t)>>

Above(q, points) == 100 * q[1] > points * q[2]

\* How many of the largest categories carry four fifths of the total: no fewer
\* categories do.
TopCount(t) ==
  LET enough == {group \in SUBSET DOMAIN t : 5 * Carried(t, group) >= 4 * Grand(t)}
  IN Min({Cardinality(group) : group \in enough})

Silent == [rank |-> 0, top |-> 0]

\* The finding on one dimension: low, medium or high.
Concentration(t) ==
  LET share == <<Leading(t), Grand(t)>>
      q     == Normalized(t)
  IN IF Len(t) < 4 \/ Grand(t) <= 0 THEN Silent
     ELSE IF 100 * q[1] < 20 * q[2] /\ Len(t) * Leading(t) < 3 * Grand(t) THEN Silent
     ELSE [rank |-> IF Above(q, 50) \/ Above(share, 50) THEN 3
                    ELSE IF Above(q, 30) \/ Above(share, 35) THEN 2 ELSE 1,
           top  |-> TopCount(t)]

InsightsInit == totals \in Splits

\* A unit of business moves from a category to the leading one.
Consolidate(i) ==
  LET leader == CHOOSE k \in DOMAIN totals : totals[k] = Leading(totals)
  IN /\ i \in DOMAIN totals \ {leader} /\ totals[i] > 0
     /\ totals' = [totals EXCEPT ![i] = @ - 1, ![leader] = @ + 1]

InsightsNext == \E i \in DOMAIN totals : Consolidate(i)

\* "Comparing it to a fixed threshold declares every three-category breakdown
\* concentrated": an even split is never a finding, however many categories it
\* has, and business that moves to the leader never makes the finding milder
\* nor the group that is said to carry the total larger.
ConcentrationJudged ==
  [][/\ Cardinality(ToSet(totals)) = 1 => Concentration(totals) = Silent
     /\ Concentration(totals').rank >= Concentration(totals).rank
     /\ Concentration(totals).rank > 0 => Concentration(totals').top <= Concentration(totals).top]_totals
=============================================================================
