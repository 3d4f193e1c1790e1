------------------------- MODULE MCEvidenceScoring -------------------------
(* Instance of EvidenceScoring for TLC: three documents, three links.       *)
EXTENDS EvidenceScoring

Signal(kind, value) == [kind |-> kind, value |-> value]
Basic(source, content) == {Signal("source", source), Signal("content", content)}

(* Documents that share a source, a content, a publisher family, an         *)
(* upstream URL, or two of them.                                            *)
SomeProfiles ==
  {Basic(1, 1), Basic(1, 2), Basic(2, 1),
   Basic(2, 2) \cup {Signal("upstream", 1)},
   Basic(3, 3) \cup {Signal("upstream", 1), Signal("publisher-family", 1)},
   Basic(4, 4) \cup {Signal("publisher-family", 1)}}

Each(doc, stances, qualities) ==
  [doc : {doc}, stance : stances, quality : qualities]
SomeReadings ==
  Each(1, {"supports"}, {1, 4}) \cup Each(2, {"supports"}, {3})
  \cup Each(3, {"supports"}, {4}) \cup Each(1, {"contradicts"}, {3})
  \cup Each(2, {"contradicts"}, {2}) \cup Each(3, {"context"}, {4})
=============================================================================
