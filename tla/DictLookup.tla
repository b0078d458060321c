----------------------------- MODULE DictLookup -----------------------------
(***************************************************************************)
(* dict_lookup (src/dict.cpp) run one probe at a time, to show that its    *)
(* loop computes the Lookup of module Dict: it stops, and at the slot that *)
(* the probe order puts first among the free slots and those of the key.   *)
(* A slot is free (key NULL), holds the key looked up or holds another;    *)
(* the branch for DUMMY_PTR is left out because no slot ever holds it.     *)
(***************************************************************************)
EXTENDS Naturals

CONSTANTS
  Size,    \* d->size, a power of two
  Hashes   \* the values dict_hash returns for the key

ASSUME LookupAssumption == Size \in Nat \ {0} /\ Hashes \subseteq Nat

DictProbe == INSTANCE DictProbe

VARIABLES
  slots,    \* what each slot of d->table holds for this key
  hash,     \* dict_hash(key)
  i,        \* the slot last looked at
  perturb,
  done      \* dict_lookup has returned slot i

vars == <<slots, hash, i, perturb, done>>

Stops(s) == slots[s] \in {"free", "key"}

\* A table holds the key at most once, or several times after a chain broke;
\* the loop is run on tables with up to one copy and any free slots.
Tables ==
  {[s \in 0 .. Size-1 |-> IF s \in free THEN "free" ELSE "other"] : free \in SUBSET (0 .. Size-1)}

Init ==
  /\ \E t \in Tables, p \in 0 .. Size-1 : slots \in {t, [t EXCEPT ![p] = "key"]}
  /\ hash \in Hashes
  /\ i = hash % Size /\ perturb = hash
  /\ done = Stops(hash % Size)

\* Mutants of Probe: the higher bits of the hash never join in; a probe
\* without the + 1 returns to where it was.
ProbeLinear ==
  /\ ~done
  /\ i' = (5 * i + 1) % Size
  /\ done' = Stops((5 * i + 1) % Size)
  /\ UNCHANGED <<slots, hash, perturb>>

ProbeInPlace ==
  /\ ~done
  /\ i' = (5 * i + perturb) % Size
  /\ done' = Stops((5 * i + perturb) % Size)
  /\ perturb' = perturb \div 32
  /\ UNCHANGED <<slots, hash>>

\* One iteration of the probe loop.
Probe ==
  /\ ~done
  /\ i' = (4 * i + i + perturb + 1) % Size
  /\ done' = Stops((4 * i + i + perturb + 1) % Size)
  /\ perturb' = perturb \div 32
  /\ UNCHANGED <<slots, hash>>

Return == done /\ UNCHANGED vars

Next == Probe \/ Return

\* The loop runs to its end: nothing else runs in the process meanwhile.
Spec == Init /\ [][Next]_vars /\ WF_vars(Probe)

-----------------------------------------------------------------------------
CanStop == \E s \in 0 .. Size-1 : Stops(s)

\* With a slot to stop at, whatever the hash and wherever the slot, the loop
\* ends: the probe sequence leaves no slot out.
Terminates == CanStop ~> done

\* The slot returned is the one the visiting order of DictProbe puts first.
FindsFirst ==
  done => LET rank == DictProbe!FirstVisits(hash, Size)
          IN Stops(i) /\ \A s \in 0 .. Size-1 : Stops(s) => rank[i] <= rank[s]
=============================================================================
