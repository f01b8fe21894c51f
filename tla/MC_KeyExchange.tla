--------------------------- MODULE MC_KeyExchange ---------------------------
(* Small instance: two containers, three helpers (two for c1, run one     *)
(* after the other by the runtime, one for c2) and a silent client.        *)
EXTENDS KeyExchange, TLC

CONSTANTS h1, h2, h3, s1, c1, c2, k1, k2

MCHelpers == {h1, h2, h3, s1}
MCSilent == {s1}
MCContainers == {c1, c2}
MCKeys == {k1, k2}
MCTarget == (h1 :> c1) @@ (h2 :> c1) @@ (h3 :> c2) @@ (s1 :> c1)
MCKeyOf == (h1 :> k1) @@ (h2 :> k2) @@ (h3 :> k1) @@ (s1 :> k1)

=============================================================================
