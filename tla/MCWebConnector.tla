--------------------------- MODULE MCWebConnector ---------------------------
(* Instances of WebConnector for TLC: a site, its unencrypted twin on the   *)
(* same host, and a foreign site.                                           *)
EXTENDS WebConnector, TLC

CONSTANTS t1, t2, t3, page, moved, private, robots, plain, foreign, intranet,
          site, twin, mirror, host, mirror_host

SitePages == {page, moved, private, robots}
AllPages == SitePages \cup {plain, foreign, intranet}
Encrypted == AllPages \ {plain}

Origin == [p \in Pages |-> CASE p \in SitePages -> site [] p = plain -> twin
                             [] OTHER -> mirror]
SharedHost == [o \in Origins |-> IF o = mirror THEN mirror_host ELSE host]
Robots == site :> robots @@ twin :> plain @@ mirror :> foreign

(* Two collections of one page, and one that the policy refuses.            *)
Targets == [t \in Tasks |-> IF t = t3 THEN intranet ELSE page]

File(allowed, seconds) == [allows |-> allowed, delay |-> seconds]
SlowFile == {File(Pages \ {private}, 2)}
Files == SlowFile \cup {File({private}, 0), File(Pages, 3)}
=============================================================================
