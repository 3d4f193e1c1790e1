------------------------------- MODULE Scoring -------------------------------
(***************************************************************************)
(* Aggregation of the evidence of one claim cluster                        *)
(*   backend/app/domain/scoring.py  aggregate_cluster                      *)
(* in exact arithmetic: a quality is a multiple of 1/Scale, a strength and *)
(* the confidence are numerators over Whole.  An item of evidence is a     *)
(* record [link, stance, group, quality].                                  *)
(***************************************************************************)
EXTENDS Integers, FiniteSets, Folds

CONSTANTS
  Scale,       \* quality 1.0
  Most         \* bound on the number of items of a cluster

ASSUME ScoringAssumption == Scale \in Nat \ {0} /\ Most \in Nat

Labels == {"disputed", "well_supported", "supported", "emerging", "weak"}

Unit == 4 * Scale
Whole == Unit ^ Most

(* The provers have no theory of `^`. *)
ASSUME PowersAssumption ==
  /\ Unit ^ 0 = 1
  /\ \A n \in 1..Most : Unit ^ n \in Nat /\ Unit ^ n = Unit * Unit ^ (n - 1)

Peers(items, i) ==
  {j \in items : j.stance = i.stance /\ j.group = i.group}

(* Mutant: the first of a group counts in full, not the best. *)
FirstInFull(items, i) ==
  IF \A j \in Peers(items, i) : i.link <= j.link
  THEN 4 * i.quality ELSE i.quality

(* The best item of a stance in an independence group counts in full, its  *)
(* peers count a quarter.                                                  *)
Weighted(items, i) ==
  IF \A j \in Peers(items, i) :
       i.quality > j.quality \/ (i.quality = j.quality /\ i.link <= j.link)
  THEN 4 * i.quality ELSE i.quality

Of(items, stance) == {i \in items : i.stance = stance}

(* The product of 1 - weighted quality over the items of a stance, as a    *)
(* numerator over one Unit per item: _combined_strength takes it from 1.   *)
Doubt(items, stance) ==
  MapThenFoldSet(LAMBDA x, y : x * y, 1,
                 LAMBDA i : Unit - Weighted(items, i),
                 LAMBDA S : CHOOSE i \in S : TRUE,
                 Of(items, stance))

Strength(items, stance) ==
  LET n == Cardinality(Of(items, stance))
  IN (Unit ^ n - Doubt(items, stance)) * Unit ^ (Most - n)

Support(items) == Strength(items, "supports")
Contradiction(items) == Strength(items, "contradicts")

(* support * (1 - contradiction): there are Most factors at most.          *)
Confidence(items) ==
  LET n == Cardinality(Of(items, "supports"))
      m == Cardinality(Of(items, "contradicts"))
  IN (Unit ^ n - Doubt(items, "supports")) * Doubt(items, "contradicts")
       * Unit ^ (Most - n - m)

SupportingGroups(items) == {i.group : i \in Of(items, "supports")}

(* value >= percent / 100                                                  *)
Reaches(value, percent) == 20 * value >= (percent \div 5) * Whole

(* Mutant: the repeated evidence of one group is well supported. *)
LabelWithoutGroups(items) ==
  IF Reaches(Contradiction(items), 55) THEN "disputed"
  ELSE IF Reaches(Confidence(items), 75) THEN "well_supported"
  ELSE "weak"

Label(items) ==
  IF Reaches(Contradiction(items), 55) THEN "disputed"
  ELSE IF /\ Reaches(Confidence(items), 75)
          /\ Cardinality(SupportingGroups(items)) >= 2 THEN "well_supported"
  ELSE IF Reaches(Confidence(items), 55) THEN "supported"
  ELSE IF Reaches(Confidence(items), 35) THEN "emerging"
  ELSE "weak"
=============================================================================
