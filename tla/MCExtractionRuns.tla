-------------------------- MODULE MCExtractionRuns --------------------------
(* Instance of ExtractionRuns for TLC.                                      *)
EXTENDS ExtractionRuns, TLC

CONSTANTS r1, r2, r3, r4, memo, brief, org, a, b

Key == r1 :> memo @@ r2 :> memo @@ r3 :> brief @@ r4 :> memo

Quoted == {[passage |-> 0, exact |-> TRUE]}
Entity(id, name, list) ==
  [id |-> id, type |-> org, name |-> name, aliases |-> list,
   mentions |-> Quoted]
Cites(passage, stance) == {[passage |-> passage, stance |-> stance]}
Claim(subject, evidence) == [subject |-> subject, evidence |-> evidence]
Answer(entities, statements) ==
  [entities |-> entities, claims |-> statements]

First == Entity(a, 1, <<4, Blank, 3>>)
Second == Entity(b, 2, <<>>)
Support == Cites(0, "supports")
Grounded == Answer(<<First, Second>>,
                   <<Claim(a, Support), Claim(Absent, Support)>>)

(* One answer for each way to be refused.                                   *)
Refused == {
  Malformed,
  Answer(<<First, [Second EXCEPT !.id = a]>>, <<>>),
  Answer(<<[First EXCEPT !.name = Blank]>>, <<>>),
  Answer(<<[First EXCEPT !.mentions = {[passage |-> 7, exact |-> TRUE]}]>>, <<>>),
  Answer(<<[First EXCEPT !.mentions = {[passage |-> 0, exact |-> FALSE]}]>>, <<>>),
  Answer(<<First>>, <<Claim(b, Support)>>),
  Answer(<<First>>, <<Claim(a, Cites(7, "supports"))>>),
  Answer(<<First>>, <<Claim(a, Cites(0, "irrelevant"))>>)}

(* The brief names the entities of the memo in the opposite order, or by    *)
(* an alias, or one entity twice.                                           *)
Reversed == Answer(<<Entity(a, 2, <<3>>), Entity(b, 1, <<2>>)>>,
                   <<Claim(b, Support)>>)
ByAlias == Answer(<<Entity(a, 3, <<1>>), Entity(b, 1, <<2, 1>>)>>,
                  <<Claim(a, Support)>>)

Answers == memo :> {Grounded} \cup Refused @@ brief :> {Reversed, ByAlias}
=============================================================================
