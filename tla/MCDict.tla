------------------------------- MODULE MCDict -------------------------------
(* Instances of Dict for TLC: the real minimum size, sizes and unsigned    *)
(* arithmetic scaled down together, keys whose probe sequences collide.    *)
EXTENDS Dict, TLC

CONSTANTS k1, k2, k3, v1, v2, v3, v4

DictProbe == INSTANCE DictProbe

\* Hashes 1 and 33 collide at slot 1 of 8, 16 and 32 slots and then part;
\* 9 collides with them at 8 slots only.
HashOf == (k1 :> 1) @@ (k2 :> 9) @@ (k3 :> 33)

\* Two strings for one key, one for the others; no string has two keys.
MCValsOf == [k \in ValKeys |->
  CASE k = k1 -> {v1, v2} [] k = k2 -> {v3} [] k = k3 -> {v4}]

\* The first visits of every probe sequence, computed once.
FirstVisit == [k \in Keys |-> [n \in Sizes |-> DictProbe!FirstVisits(HashOf[k], n)]]

MCRank(k, n, s) == FirstVisit[k][n][s]
=============================================================================
