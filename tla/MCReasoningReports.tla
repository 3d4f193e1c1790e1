------------------------- MODULE MCReasoningReports -------------------------
(* Instance of ReasoningReports for TLC.                                    *)
EXTENDS ReasoningReports, TLC

CONSTANTS price, demand, v1, v2, n1, n2, g1, g2

(* Claims 1 and 2 are about one thing and disagree, claim 3 stands alone.   *)
Key == 1 :> price @@ 2 :> price @@ 3 :> demand
Sure == 1 :> 2 @@ 2 :> 3 @@ 3 :> 3

Evidence(claim, doc, stance, quality) ==
  [claim |-> claim, doc |-> doc, stance |-> stance, quality |-> quality]

(* Claim 1 is well supported by two documents as long as nobody objects,    *)
(* claim 2 objects weakly, claim 3 is disputed.                             *)
Cites == 1 :> Evidence(1, 1, "supports", 4) @@ 2 :> Evidence(1, 3, "supports", 3)
         @@ 3 :> Evidence(2, 2, "contradicts", 1)
         @@ 4 :> Evidence(3, 2, "supports", 3)
         @@ 5 :> Evidence(3, 1, "contradicts", 3)

Signal(kind, value) == [kind |-> kind, value |-> value]
Basic(d) == {Signal("source", d), Signal("content", d)}
Carried == [d \in 1..3 |-> Basic(d)]

Decide(claim, action) == [claim |-> claim, action |-> action]
SomeDecisions ==
  {Decide(2, "rejected"), Decide(3, "rejected"), Decide(3, "accepted")}

Symmetry ==
  Permutations(Reviews) \cup Permutations(Reasonings) \cup Permutations(Generators)
=============================================================================
