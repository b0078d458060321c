------------------------------ MODULE MCClients ------------------------------
(* Instances of Clients for TLC: the real minimum size, unsigned arithmetic *)
(* scaled down, descriptors and callsigns whose probe sequences collide,    *)
(* and two callsigns of sixteen characters of which the same l15 are kept.  *)
EXTENDS Clients, TLC

CONSTANTS f1, f2, f3, n1, n2, n3, k16, l16, l15

DictProbe == INSTANCE DictProbe

MCStored(n) == IF n \in {k16, l16} THEN l15 ELSE n

\* Hashes 1 and 9 collide at slot 1 of 8 slots and part after it; 33 goes
\* the way of 1 and parts later.
HashOf ==
  (f1 :> 1) @@ (f2 :> 9) @@ (f3 :> 33) @@ (n1 :> 1) @@ (n2 :> 9) @@ (n3 :> 33)
  @@ (k16 :> 2) @@ (l16 :> 3) @@ (l15 :> 4)

\* The first visits of every probe sequence, computed once.
FirstVisit ==
  [k \in Calls \cup Fd |-> [n \in Sizes |-> DictProbe!FirstVisits(HashOf[k], n)]]

MCRank(k, n, s) == FirstVisit[k][n][s]

Symmetry == Permutations(Obj)
=============================================================================
