----------------------------- MODULE MCServices -----------------------------
(* Instances of Services for TLC.                                          *)
EXTENDS Services, TLC

CONSTANTS c1, c2, c3, m1, p1, p2, n1, n2, e1, e2, v5, v6

Pages == (m1 :> m1) @@ (p1 :> m1) @@ (p2 :> m1) @@ (n1 :> n1) @@ (n2 :> n2)
Releases == (e1 :> v5) @@ (e2 :> v6)
Alike == {<<v5, v6>>}
=============================================================================
