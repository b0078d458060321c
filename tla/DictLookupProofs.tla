--------------------------- MODULE DictLookupProofs ---------------------------
(***************************************************************************)
(* Proofs about module DictLookup, for every size of the table, every hash *)
(* and whatever the slots hold.                                            *)
(***************************************************************************)
EXTENDS DictLookup, Integers, FiniteSetTheorems, TLAPS

\* Every non-empty set of naturals has a least element.
LEMMA LeastNatural ==
  ASSUME NEW S \in SUBSET Nat, S # {}
  PROVE  \E m \in S : \A n \in S : m <= n
<1> DEFINE T == {0 .. m : m \in S}
<1>1. T \subseteq FiniteSubsetsOf(Nat) /\ T # {}
  <2>1. ASSUME NEW m \in S PROVE 0 .. m \in FiniteSubsetsOf(Nat)
    <3>1. m \in Int /\ 0 \in Int /\ 0 .. m \in SUBSET Nat
      OBVIOUS
    <3>2. IsFiniteSet(0 .. m)
      BY <3>1, FS_Interval
    <3> QED BY <3>1, <3>2 DEF FiniteSubsetsOf
  <2> QED BY <2>1
<1>2. PICK x \in T : \A y \in T : <<y, x>> \notin StrictSubsetOrdering(Nat)
  <2> HIDE DEF T
  <2> QED BY <1>1, FS_StrictSubsetOrderingWellFounded, WFMin
<1>3. PICK m \in S : x = 0 .. m
  OBVIOUS
<1>4. ASSUME NEW n \in S PROVE m <= n
  <2>1. SUFFICES ASSUME n < m PROVE FALSE
    OBVIOUS
  <2>2. 0 .. n \subseteq 0 .. m /\ m \in 0 .. m /\ m \notin 0 .. n
    BY <2>1
  <2>3. <<0 .. n, 0 .. m>> \in StrictSubsetOrdering(Nat)
    BY <2>2 DEF StrictSubsetOrdering
  <2> QED BY <1>2, <1>3, <2>3
<1> QED BY <1>4

-----------------------------------------------------------------------------
(* The probe sequence.                                                     *)

\* The loop variables before the first probe, and after one more.
Start(h) == [i |-> h % Size, perturb |-> h]
After(p) == [i |-> (5 * p.i + p.perturb + 1) % Size, perturb |-> p.perturb \div 32]

Loop == [i : 0 .. Size-1, perturb : Nat]

LEMMA LoopStaysInTable ==
  /\ \A h \in Nat : Start(h) \in Loop
  /\ \A p \in Loop : After(p) \in Loop
<1>1. Size \in Nat \ {0}
  BY LookupAssumption
<1>2. \A m \in Nat : m % Size \in 0 .. Size-1
  BY <1>1
<1>3. \A m \in Nat : m \div 32 \in Nat
  OBVIOUS
<1>4. \A p \in Loop : 5 * p.i + p.perturb + 1 \in Nat /\ p.perturb \in Nat
  BY <1>1 DEF Loop
<1> QED BY <1>2, <1>3, <1>4 DEF Start, After, Loop

\* f is the sequence up to probe m.
Runs(f, h, m) ==
  f[0] = Start(h) /\ \A j \in 1 .. m : f[j] = After(f[j-1])

\* Two such sequences agree as far as both go.
LEMMA OneRun ==
  ASSUME NEW h, NEW m \in Nat, NEW f, NEW g, Runs(f, h, m), Runs(g, h, m)
  PROVE  \A j \in 0 .. m : f[j] = g[j]
<1> DEFINE D == {j \in 0 .. m : f[j] # g[j]}
<1>1. SUFFICES ASSUME D # {} PROVE FALSE
  OBVIOUS
<1>2. PICK d \in D : \A j \in D : d <= j
  <2>1. D \in SUBSET Nat
    OBVIOUS
  <2> HIDE DEF D
  <2> QED BY <1>1, <2>1, LeastNatural
<1>3. d # 0 /\ d \in 1 .. m /\ d-1 \in 0 .. m /\ d-1 \notin D
  BY <1>2 DEF Runs
<1>4. f[d-1] = g[d-1]
  BY <1>3
<1> QED BY <1>2, <1>3, <1>4 DEF Runs

\* There is one up to every probe.
LEMMA SomeRun ==
  ASSUME NEW h, NEW m \in Nat
  PROVE  \E f : Runs(f, h, m)
<1> DEFINE D == {j \in Nat : ~ \E f : Runs(f, h, j)}
<1>1. SUFFICES ASSUME D # {} PROVE FALSE
  OBVIOUS
<1>2. PICK d \in D : \A j \in D : d <= j
  <2>1. D \in SUBSET Nat
    OBVIOUS
  <2> HIDE DEF D
  <2> QED BY <1>1, <2>1, LeastNatural
<1>3. Runs([j \in {0} |-> Start(h)], h, 0)
  BY DEF Runs
<1>4. d # 0 /\ d \in Nat /\ d-1 \in Nat /\ d-1 \notin D
  BY <1>2, <1>3
<1>5. PICK f : Runs(f, h, d-1)
  BY <1>4
<1>6. PICK g : g = [j \in 0 .. d |-> IF j = d THEN After(f[d-1]) ELSE f[j]]
  OBVIOUS
<1>7. Runs(g, h, d)
  BY <1>4, <1>5, <1>6 DEF Runs
<1> QED BY <1>2, <1>7

\* So the recursive definition of the sequence defines it.
LEMMA ProbeStateIs ==
  ASSUME NEW h \in Nat
  PROVE  LET st == DictProbe!ProbeState(h, Size)
         IN st[0] = Start(h) /\ \A j \in Nat : st[j+1] = After(st[j])
<1> DEFINE Rec(f) == f = [j \in Nat |->
          IF j = 0 THEN [i |-> h % Size, perturb |-> h]
          ELSE [i |-> (5 * f[j-1].i + f[j-1].perturb + 1) % Size,
                perturb |-> f[j-1].perturb \div 32]]
<1>1. \E f : Rec(f)
  <2> DEFINE R(m) == CHOOSE f : Runs(f, h, m)
  <2>1. \A m \in Nat : Runs(R(m), h, m)
    BY SomeRun
  <2> HIDE DEF R
  <2>2. ASSUME NEW m \in Nat PROVE R(m+1)[m+1] = After(R(m)[m]) /\ R(0)[0] = Start(h)
    <3>1. Runs(R(m+1), h, m+1) /\ Runs(R(m), h, m) /\ Runs(R(0), h, 0)
      BY <2>1
    <3>2. Runs(R(m+1), h, m)
      BY <3>1 DEF Runs
    <3>3. R(m+1)[m] = R(m)[m]
      BY <3>1, <3>2, OneRun
    <3>4. R(m+1)[m+1] = After(R(m+1)[m+1-1]) /\ m+1-1 = m
      BY <3>1 DEF Runs
    <3> QED BY <3>1, <3>3, <3>4 DEF Runs
  <2>3. PICK f : f = [j \in Nat |-> R(j)[j]]
    OBVIOUS
  <2>4. ASSUME NEW j \in Nat
        PROVE  f[j] = IF j = 0 THEN Start(h) ELSE After(f[j-1])
    <3>1. CASE j = 0
      BY <2>2, <2>3, <3>1
    <3>2. CASE j # 0
      <4>1. j-1 \in Nat /\ j-1+1 = j
        BY <3>2
      <4>2. R(j)[j] = After(R(j-1)[j-1])
        BY <2>2, <4>1
      <4> QED BY <2>3, <3>2, <4>1, <4>2
    <3> QED BY <3>1, <3>2
  <2>5. Rec(f)
    BY <2>3, <2>4 DEF Start, After
  <2> QED BY <2>5
<1>2. DictProbe!ProbeState(h, Size) = CHOOSE f : Rec(f)
  BY DEF DictProbe!ProbeState
<1>3. PICK st : st = DictProbe!ProbeState(h, Size)
  OBVIOUS
<1>4. Rec(st)
  BY <1>1, <1>2, <1>3
<1>6. \A j \in Nat : st[j] = IF j = 0 THEN Start(h) ELSE After(st[j-1])
  BY <1>4, Zenon DEF Start, After
<1> HIDE DEF Rec
<1>7. st[0] = Start(h)
  BY <1>6
<1>8. ASSUME NEW j \in Nat PROVE st[j+1] = After(st[j])
  <2>1. j+1 \in Nat /\ j+1 # 0 /\ j+1-1 = j
    OBVIOUS
  <2>2. st[j+1] = After(st[j+1-1])
    BY <1>6, <2>1
  <2> QED BY <2>1, <2>2
<1> QED BY <1>3, <1>7, <1>8

-----------------------------------------------------------------------------
(* The loop follows the sequence, and stops at the first slot it can.      *)

\* No slot before probe j would have stopped the loop, which is at probe j.
AtProbe(j) ==
  LET st == DictProbe!ProbeState(hash, Size)
  IN /\ st[j] = [i |-> i, perturb |-> perturb]
     /\ \A m \in 0 .. j-1 : ~Stops(st[m].i)

LookupInv ==
  /\ hash \in Nat
  /\ i \in 0 .. Size-1 /\ perturb \in Nat
  /\ done = Stops(i)
  /\ \E j \in Nat : AtProbe(j)

\* The loop starts at the first slot of the sequence.
LEMMA InitLookup == Init => LookupInv
<1> SUFFICES ASSUME Init PROVE LookupInv
  OBVIOUS
<1>1. hash \in Nat /\ i = hash % Size /\ perturb = hash /\ done = Stops(i)
  BY LookupAssumption DEF Init
<1>2. [i |-> i, perturb |-> perturb] = Start(hash) /\ Start(hash) \in Loop
  BY <1>1, LoopStaysInTable DEF Start
<1>3. i \in 0 .. Size-1 /\ perturb \in Nat
  BY <1>2 DEF Loop
<1>4. AtProbe(0)
  BY <1>1, <1>2, ProbeStateIs DEF AtProbe
<1> QED BY <1>1, <1>3, <1>4 DEF LookupInv

\* A probe goes to the next slot of the sequence, past one that does not stop it.
LEMMA StepLookup == LookupInv /\ [Next]_vars => LookupInv'
<1> SUFFICES ASSUME LookupInv, [Next]_vars PROVE LookupInv'
  OBVIOUS
<1>1. CASE Probe
  <2>1. PICK st : st = DictProbe!ProbeState(hash, Size)
    OBVIOUS
  <2>2. PICK j \in Nat : /\ st[j] = [i |-> i, perturb |-> perturb]
                         /\ \A m \in 0 .. j-1 : ~Stops(st[m].i)
    BY <2>1 DEF LookupInv, AtProbe
  <2>3. /\ hash' = hash /\ slots' = slots /\ ~Stops(i)
        /\ i \in 0 .. Size-1 /\ perturb \in Nat /\ hash \in Nat /\ Size \in Nat
    BY <1>1, LookupAssumption DEF Probe, LookupInv
  <2>4. 4 * i + i + perturb + 1 = 5 * i + perturb + 1
    BY <2>3
  <2>5. [i |-> i', perturb |-> perturb'] = After([i |-> i, perturb |-> perturb])
    BY <1>1, <2>4 DEF Probe, After
  <2>6. [i |-> i, perturb |-> perturb] \in Loop
    BY <2>3 DEF Loop
  <2>7. After([i |-> i, perturb |-> perturb]) \in Loop
    BY <2>6, LoopStaysInTable
  <2>8. i' \in 0 .. Size-1 /\ perturb' \in Nat
    BY <2>5, <2>7 DEF Loop
  <2>9. done' = Stops(i)'
    BY <1>1, <2>4 DEF Probe, Stops
  <2>10. st[j+1] = [i |-> i', perturb |-> perturb']
    BY <2>1, <2>2, <2>3, <2>5, ProbeStateIs
  <2>11. \A m \in 0 .. j+1-1 : ~Stops(st[m].i)
    <3>1. \A m \in 0 .. j+1-1 : m \in 0 .. j-1 \/ m = j
      OBVIOUS
    <3> QED BY <2>2, <2>3, <3>1
  <2>12. AtProbe(j+1)'
    BY <2>1, <2>3, <2>10, <2>11 DEF AtProbe, Stops
  <2> QED BY <2>2, <2>3, <2>8, <2>9, <2>12 DEF LookupInv
<1>2. CASE UNCHANGED vars
  <2>1. \A j \in Nat : AtProbe(j) => AtProbe(j)'
    BY <1>2 DEF vars, AtProbe, Stops
  <2> QED BY <1>2, <2>1 DEF vars, LookupInv, Stops
<1> QED BY <1>1, <1>2 DEF Next, Return

\* A slot visited at probe j and not before has rank j, or the horizon; one
\* not visited before it has no lower rank.
LEMMA RankOfFirst ==
  ASSUME NEW h \in Nat, NEW j \in Nat, NEW s \in 0 .. Size-1, NEW r \in 0 .. Size-1,
         LET st == DictProbe!ProbeState(h, Size)
         IN /\ st[j].i = s
            /\ \A m \in 0 .. j-1 : st[m].i # r
  PROVE  DictProbe!FirstVisits(h, Size)[s] <= DictProbe!FirstVisits(h, Size)[r]
<1> DEFINE visit == DictProbe!Visits(h, Size)
           Of(x) == {m \in DOMAIN visit : visit[m] = x}
           H == DictProbe!Horizon(Size)
           First(x) == DictProbe!FirstVisits(h, Size)[x]
<1>1. PICK st : st = DictProbe!ProbeState(h, Size)
  OBVIOUS
<1>2. H \in Nat /\ Size \in Nat
  BY LookupAssumption DEF DictProbe!Horizon
<1>3. visit = [m \in 0 .. H-1 |-> st[m].i]
  BY <1>1 DEF DictProbe!Visits
<1>4. ASSUME NEW x \in 0 .. Size-1
      PROVE  First(x) = IF Of(x) # {} THEN DictProbe!Min(Of(x)) ELSE H
  <2>1. First(x) = IF \E m \in DOMAIN visit : visit[m] = x
                   THEN DictProbe!Min({m \in DOMAIN visit : visit[m] = x}) ELSE H
    BY <1>4 DEF DictProbe!FirstVisits
  <2> QED BY <2>1
<1>5. ASSUME NEW x, Of(x) # {}
      PROVE  DictProbe!Min(Of(x)) \in Of(x) /\ \A m \in Of(x) : DictProbe!Min(Of(x)) <= m
  <2>1. Of(x) \in SUBSET Nat
    BY <1>2, <1>3
  <2> HIDE DEF Of
  <2>2. \E m \in Of(x) : \A n \in Of(x) : m <= n
    BY <1>5, <2>1, LeastNatural
  <2> QED BY <2>2 DEF DictProbe!Min
<1>6. \A m, x : m \in Of(x) <=> m \in 0 .. H-1 /\ st[m].i = x
  BY <1>3
<1> HIDE DEF visit, Of, First
<1>7. First(r) \in Nat /\ First(r) >= IF j < H THEN j ELSE H
  <2>1. CASE Of(r) = {}
    BY <1>2, <1>4, <2>1
  <2>2. CASE Of(r) # {}
    <3>1. First(r) \in Of(r)
      BY <1>4, <1>5, <2>2
    <3>2. First(r) \in 0 .. H-1 /\ st[First(r)].i = r
      BY <1>6, <3>1
    <3>3. First(r) \notin 0 .. j-1
      BY <1>1, <3>2
    <3> HIDE DEF H
    <3> QED BY <1>2, <3>2, <3>3
  <2> QED BY <2>1, <2>2
<1>8. First(s) \in Nat /\ First(s) <= IF j < H THEN j ELSE H
  <2>1. CASE j < H
    <3>1. j \in Of(s)
      <4> HIDE DEF H
      <4> QED BY <1>1, <1>2, <1>6, <2>1
    <3>2. First(s) \in Of(s) /\ First(s) <= j
      BY <1>4, <1>5, <3>1
    <3> QED BY <1>6, <2>1, <3>2
  <2>2. CASE ~(j < H)
    <3>1. CASE Of(s) = {}
      BY <1>2, <1>4, <2>2, <3>1
    <3>2. CASE Of(s) # {}
      <4>1. First(s) \in 0 .. H-1
        BY <1>4, <1>5, <1>6, <3>2
      <4> HIDE DEF H
      <4> QED BY <1>2, <2>2, <4>1
    <3> QED BY <3>1, <3>2
  <2> QED BY <2>1, <2>2
<1>9. First(s) <= First(r)
  <2> HIDE DEF H
  <2> QED BY <1>2, <1>7, <1>8
<1> QED BY <1>9 DEF First

\* In a table of any size, whatever its slots hold, dict_lookup returns the
\* slot that the visiting order puts first among those it could stop at.
THEOREM LookupFindsFirst == Spec => []FindsFirst
<1>1. LookupInv => FindsFirst
  <2> SUFFICES ASSUME LookupInv, done, NEW s \in 0 .. Size-1, Stops(s)
               PROVE  DictProbe!FirstVisits(hash, Size)[i] <= DictProbe!FirstVisits(hash, Size)[s]
    BY DEF FindsFirst, LookupInv
  <2>1. PICK j \in Nat : AtProbe(j)
    BY DEF LookupInv
  <2>2. PICK st : st = DictProbe!ProbeState(hash, Size)
    OBVIOUS
  <2>3. st[j].i = i /\ \A m \in 0 .. j-1 : st[m].i # s
    BY <2>1, <2>2 DEF AtProbe
  <2> QED BY <2>2, <2>3, RankOfFirst DEF LookupInv
<1> QED BY InitLookup, StepLookup, <1>1, PTL DEF Spec
=============================================================================
