------------------------------ MODULE DictProbe ------------------------------
(***************************************************************************)
(* The probe sequence of dict_lookup (src/dict.cpp): the slots it visits   *)
(* for a hash in a table of n slots, n a power of two.  Unsigned overflow  *)
(* of i needs no modelling: i is masked with n-1 and n divides 2^32.       *)
(***************************************************************************)
EXTENDS Naturals, FiniteSetsExt

\* The loop variables after j iterations: i, the slot then visited, and
\* perturb, which perturb >>= PERTURB_SHIFT divides by 2^5.
ProbeState(h, n) ==
  LET st[j \in Nat] ==
        IF j = 0 THEN [i |-> h % n, perturb |-> h]
        ELSE LET p == st[j-1]
             IN [i |-> (5 * p.i + p.perturb + 1) % n, perturb |-> p.perturb \div 32]
  IN st

\* Seven shifts empty 32 bits; from there on the sequence i -> 5i + 1 has
\* period n, so this many probes visit every slot.
Horizon(n) == 7 + n

\* The slots visited up to the horizon, and for each slot the number of the
\* probe that first visits it (the horizon itself if none does).
Visits(h, n) == LET st == ProbeState(h, n) IN [j \in 0 .. Horizon(n) - 1 |-> st[j].i]

FirstVisits(h, n) ==
  LET visit == Visits(h, n)
  IN [s \in 0 .. n-1 |->
        IF \E j \in DOMAIN visit : visit[j] = s
        THEN Min({j \in DOMAIN visit : visit[j] = s})
        ELSE Horizon(n)]
=============================================================================
