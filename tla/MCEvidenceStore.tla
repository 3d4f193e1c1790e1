--------------------------- MODULE MCEvidenceStore ---------------------------
(* Instances of EvidenceStore for TLC.                                      *)
EXTENDS EvidenceStore, TLC

CONSTANTS c1, c2, c3, c4, l1, l2, l3, r1, site, blog, url, tracked, upstream,
          text, edit, Acme, Zenith, zenith

Page(u, c) == [run |-> r1, url |-> u, content |-> c]

(* c1 and c2 capture the same text under two spellings of one URL, c3 and   *)
(* c4 two other pages.                                                      *)
Pages == c1 :> Page(url, text) @@ c2 :> Page(tracked, text)
         @@ c3 :> Page(url, edit) @@ c4 :> Page(upstream, text)

(* c1 leaves the family of its source open, c3 and c4 spell one family in   *)
(* two ways, c2 declares a family that conflicts with theirs.               *)
Declared == c1 :> Undeclared @@ c2 :> Acme @@ c3 :> Zenith @@ c4 :> zenith

OneSource == [t \in Captures |-> site]
TwoSources == [t \in Captures |-> IF t = c2 THEN blog ELSE site]

Spellings == url :> url @@ tracked :> url @@ upstream :> upstream
Classes == Acme :> Acme @@ Zenith :> zenith @@ zenith :> zenith

LinkPages == [l \in Links |-> Page(url, text)]
LinkUrls == l1 :> upstream @@ l2 :> upstream @@ l3 :> tracked
=============================================================================
