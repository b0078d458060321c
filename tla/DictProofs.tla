----------------------------- MODULE DictProofs -----------------------------
(***************************************************************************)
(* Proofs about module Dict, for all keys, sizes and probe orders.         *)
(***************************************************************************)
EXTENDS Dict, FiniteSetTheorems, SequenceTheorems, TLAPS

\* Every non-empty set of naturals has a least element.  (The initial
\* segments below its elements are finite sets, well-founded by inclusion.)
LEMMA LeastNatural ==
  ASSUME NEW S \in SUBSET Nat, S # {}
  PROVE  \E m \in S : \A n \in S : m <= n
<1> DEFINE T == {0 .. m : m \in S}
<1>1. T \subseteq FiniteSubsetsOf(Nat) /\ T # {}
  <2>1. ASSUME NEW m \in S PROVE 0 .. m \in FiniteSubsetsOf(Nat)
    <3>1. m \in Int /\ 0 \in Int /\ 0 .. m \in SUBSET Nat
      OBVIOUS
    <3>2. IsFiniteSet(0 .. m)
      BY <3>1, FS_Interval
    <3> QED BY <3>1, <3>2 DEF FiniteSubsetsOf
  <2> QED BY <2>1
<1>2. PICK x \in T : \A y \in T : <<y, x>> \notin StrictSubsetOrdering(Nat)
  <2> HIDE DEF T
  <2> QED BY <1>1, FS_StrictSubsetOrderingWellFounded, WFMin
<1>3. PICK m \in S : x = 0 .. m
  OBVIOUS
<1>4. ASSUME NEW n \in S PROVE m <= n
  <2>1. SUFFICES ASSUME n < m PROVE FALSE
    OBVIOUS
  <2>2. 0 .. n \subseteq 0 .. m /\ m \in 0 .. m /\ m \notin 0 .. n
    BY <2>1
  <2>3. <<0 .. n, 0 .. m>> \in StrictSubsetOrdering(Nat)
    BY <2>2 DEF StrictSubsetOrdering
  <2> QED BY <1>2, <1>3, <2>3
<1> QED BY <1>4

\* dict_lookup returns a slot to stop at, and no such slot is visited before.
LEMMA LookupFirst ==
  ASSUME NEW n \in Sizes, NEW k \in Keys, NEW t, Candidates(t, n, k) # {}
  PROVE  /\ Lookup(t, n, k) \in Candidates(t, n, k)
         /\ \A c \in Candidates(t, n, k) :
              Rank(k, n, Lookup(t, n, k)) <= Rank(k, n, c)
<1> DEFINE C == Candidates(t, n, k)
           R == {Rank(k, n, s) : s \in C}
<1>1. C \subseteq 0 .. n-1
  BY DEF Candidates
<1>2. R \in SUBSET Nat /\ R # {}
  BY <1>1, ProbeAssumption
<1>3. PICK m \in R : \A r \in R : m <= r
  <2> HIDE DEF R
  <2> QED BY <1>2, LeastNatural
<1>4. PICK s \in C : m = Rank(k, n, s)
  BY <1>3
<1>5. \A c \in C : Rank(k, n, s) <= Rank(k, n, c)
  BY <1>3, <1>4
<1> QED BY <1>5 DEF Lookup

\* `while (newsize <= factor * used)`, when it ends, ends at a table size.
LEMMA NewSizeIsBigEnough ==
  ASSUME NEW u, BigEnough(u) # {}
  PROVE  NewSize(u) \in BigEnough(u)
<1>1. BigEnough(u) \in SUBSET Nat
  BY SizeAssumption DEF BigEnough
<1>2. PICK m \in BigEnough(u) : \A n \in BigEnough(u) : m <= n
  BY <1>1, LeastNatural
<1> QED BY <1>2 DEF NewSize

-----------------------------------------------------------------------------
(* Type correctness.                                                       *)

Copies == (SUBSET Item) \ {{}}

\* The items of a typed table with an occupied slot are a typed copy.
LEMMA ItemsAreCopies ==
  ASSUME NEW n \in Nat, NEW t \in [0 .. n-1 -> Slot], Occupied(t, n) # {}
  PROVE  Items(t, n) \in Copies
<1>1. ASSUME NEW s \in Occupied(t, n) PROVE ItemAt(t, s) \in Item
  <2>1. s \in Nat /\ t[s] \in Slot /\ t[s].key # NULL
    BY DEF Occupied
  <2> QED BY <2>1 DEF ItemAt, Item, Slot
<1> QED BY <1>1 DEF Items, Copies

\* The rest of dict_add_p keeps the types, given a typed table.
LEMMA SettleTypes ==
  ASSUME TypeOK, NEW t \in [0 .. size-1 -> Slot], Occupied(t, size) # {},
         NEW rest \in Seq(Copies), Settle(t, rest)
  PROVE  /\ size' \in Sizes
         /\ table' \in [0 .. size'-1 -> Slot]
         /\ used' \in 0 .. UMod-1
         /\ fill' \in Nat
         /\ pending' \in Seq(Copies)
         /\ hung' \in BOOLEAN
<1> USE DEF TypeOK
<1>1. Inc(used) \in 0 .. UMod-1 /\ 0 \in 0 .. UMod-1
  BY SizeAssumption DEF Inc
<1>2. Items(t, size) \in Copies
  BY SizeAssumption, ItemsAreCopies
<1>3. CASE pending' = rest /\ table' = t /\ used' = Inc(used) /\ fill' = fill + 1
           /\ size' = size /\ hung' \in BOOLEAN
  BY <1>1, <1>3
<1>4. CASE /\ BigEnough(Inc(used)) # {}
           /\ size' = NewSize(Inc(used)) /\ table' = FreshTable(NewSize(Inc(used)))
           /\ used' = 0 /\ fill' = 0 /\ pending' = Append(rest, Items(t, size)) /\ hung' = hung
  <2>1. size' \in Sizes
    BY <1>4, NewSizeIsBigEnough DEF BigEnough
  <2>2. table' \in [0 .. size'-1 -> Slot]
    BY <1>4 DEF FreshTable, FreeSlot, Slot
  <2>3. pending' \in Seq(Copies)
    BY <1>2, <1>4
  <2> QED BY <1>1, <1>4, <2>1, <2>2, <2>3
<1> QED BY <1>3, <1>4 DEF Settle

\* What the slot found holds is a slot, and writing a slot keeps a table.
LEMMA AtIsSlot ==
  ASSUME TypeOK, NEW k \in Keys, Findable(k)
  PROVE  /\ Lookup(table, size, k) \in 0 .. size-1
         /\ At(k) \in Slot
<1>1. Lookup(table, size, k) \in Candidates(table, size, k)
  BY LookupFirst DEF TypeOK, Findable
<1> QED BY <1>1 DEF TypeOK, Candidates, At

\* Returning from a nested dict_resize leaves a stack.
LEMMA DropLast ==
  ASSUME NEW S, NEW q \in Seq(S), q # <<>>
  PROVE  SubSeq(q, 1, Len(q) - 1) \in Seq(S)
<1> DEFINE n == Len(q) - 1
<1>1. 1 \in Int /\ n \in Int /\ \A i \in 1 .. n : q[i] \in S
  OBVIOUS
<1> HIDE DEF n
<1>2. SubSeq(q, 1, n) \in Seq(S)
  BY <1>1, SubSeqProperties
<1> QED BY <1>2 DEF n

\* Each step of the dictionary, whatever its callers add or delete, keeps
\* every variable in its type.
LEMMA StepKeepsTypes == TypeOK /\ [Next]_vars => TypeOK'
<1> SUFFICES ASSUME TypeOK, [Next]_vars PROVE TypeOK'
  OBVIOUS
<1>1. ASSUME NEW k \in ValKeys, NEW v \in ValsOf[k], Add(k, v) PROVE TypeOK'
  <2> DEFINE t == [table EXCEPT ![Lookup(table, size, k)] =
                     [key |-> k, val |-> v, blob |-> @.blob]]
  <2>1. Lookup(table, size, k) \in 0 .. size-1 /\ At(k) \in Slot
    BY <1>1, AtIsSlot DEF Add, Keys
  <2>2. t \in [0 .. size-1 -> Slot]
    BY <2>1 DEF TypeOK, Slot, Keys, Vals, At
  <2>3. Occupied(t, size) # {}
    BY <2>1, NullAssumption DEF TypeOK, Occupied, Keys
  <2>4. Settle(t, <<>>)
    BY <1>1 DEF Add
  <2> HIDE DEF t
  <2>5. <<>> \in Seq(Copies)
    OBVIOUS
  <2>6. /\ size' \in Sizes /\ table' \in [0 .. size'-1 -> Slot]
        /\ used' \in 0 .. UMod-1 /\ fill' \in Nat
        /\ pending' \in Seq(Copies) /\ hung' \in BOOLEAN
    BY <2>2, <2>3, <2>4, <2>5, SettleTypes
  <2>7. ret' = Ok /\ strayed' \in BOOLEAN
    BY <1>1 DEF Add, TypeOK
  <2> QED BY <2>6, <2>7 DEF TypeOK, Copies
<1>2. ASSUME NEW k \in BlobKeys, AddBlob(k) PROVE TypeOK'
  <2> DEFINE t == [table EXCEPT ![Lookup(table, size, k)] =
                     [key |-> k, val |-> @.val, blob |-> ParamAddr]]
  <2>1. Lookup(table, size, k) \in 0 .. size-1 /\ At(k) \in Slot
    BY <1>2, AtIsSlot DEF AddBlob, Keys
  <2>2. t \in [0 .. size-1 -> Slot]
    BY <2>1 DEF TypeOK, Slot, Keys, At
  <2>3. Occupied(t, size) # {}
    BY <2>1, NullAssumption DEF TypeOK, Occupied, Keys
  <2>4. Settle(t, <<>>)
    BY <1>2 DEF AddBlob
  <2> HIDE DEF t
  <2>5. <<>> \in Seq(Copies)
    OBVIOUS
  <2>6. /\ size' \in Sizes /\ table' \in [0 .. size'-1 -> Slot]
        /\ used' \in 0 .. UMod-1 /\ fill' \in Nat
        /\ pending' \in Seq(Copies) /\ hung' \in BOOLEAN
    BY <2>2, <2>3, <2>4, <2>5, SettleTypes
  <2>7. ret' = Ok /\ strayed' \in BOOLEAN
    BY <1>2 DEF AddBlob, TypeOK
  <2> QED BY <2>6, <2>7 DEF TypeOK, Copies
<1>3. CASE Reinsert
  <2> DEFINE top  == pending[Len(pending)]
             rest == SubSeq(pending, 1, Len(pending) - 1)
  <2>1. top \in Copies
    BY <1>3 DEF Reinsert, TypeOK, Copies
  <2>2. rest \in Seq(Copies)
    BY <1>3, DropLast DEF Reinsert, TypeOK, Copies
  <2>3. PICK item \in top :
          /\ Findable(item.key)
          /\ Settle([table EXCEPT ![Lookup(table, size, item.key)] =
                        [key |-> item.key, val |-> item.val, blob |-> @.blob]],
                    IF top = {item} THEN rest ELSE Append(rest, top \ {item}))
    BY <1>3 DEF Reinsert
  <2> DEFINE t == [table EXCEPT ![Lookup(table, size, item.key)] =
                     [key |-> item.key, val |-> item.val, blob |-> @.blob]]
             next == IF top = {item} THEN rest ELSE Append(rest, top \ {item})
  <2>4. item.key \in Keys /\ item.val \in Vals \cup {NULL}
    <3> HIDE DEF top
    <3> QED BY <2>1 DEF Item, Copies
  <2>5. Lookup(table, size, item.key) \in 0 .. size-1 /\ At(item.key) \in Slot
    BY <2>3, <2>4, AtIsSlot
  <2>6. t \in [0 .. size-1 -> Slot]
    BY <2>4, <2>5 DEF TypeOK, Slot, At
  <2>7. Occupied(t, size) # {}
    BY <2>4, <2>5, NullAssumption DEF TypeOK, Occupied
  <2>8. next \in Seq(Copies)
    <3> HIDE DEF top, rest
    <3>1. CASE top = {item}
      BY <2>2, <3>1
    <3>2. CASE top # {item}
      <4>1. top \ {item} \in Copies
        BY <2>1, <3>2 DEF Copies
      <4> QED BY <2>2, <3>2, <4>1
    <3> QED BY <3>1, <3>2
  <2>9. Settle(t, next) /\ ret' = ret /\ strayed' \in BOOLEAN
    BY <1>3, <2>3 DEF Reinsert, TypeOK
  <2> HIDE DEF t, next
  <2>10. /\ size' \in Sizes /\ table' \in [0 .. size'-1 -> Slot]
         /\ used' \in 0 .. UMod-1 /\ fill' \in Nat
         /\ pending' \in Seq(Copies) /\ hung' \in BOOLEAN
    BY <2>6, <2>7, <2>8, <2>9, SettleTypes
  <2> QED BY <2>9, <2>10 DEF TypeOK, Copies
<1>4. ASSUME NEW k \in ValKeys, NEW d \in Defaults, Get(k, d) PROVE TypeOK'
  <2>1. At(k).val \in Vals \cup {NULL}
    BY <1>4, AtIsSlot DEF Get, Keys, Slot
  <2> QED BY <1>4, <2>1 DEF Get, TypeOK
<1>5. ASSUME NEW k \in BlobKeys, NEW d \in Defaults, GetBlob(k, d) PROVE TypeOK'
  <2>1. At(k).blob \in {NULL, ParamAddr}
    BY <1>5, AtIsSlot DEF GetBlob, Keys, Slot
  <2> QED BY <1>5, <2>1 DEF GetBlob, TypeOK
<1>6. CASE LookupForever
  BY <1>6 DEF LookupForever, TypeOK
<1>7. ASSUME NEW k \in Keys, Del(k) PROVE TypeOK'
  <2>1. Lookup(table, size, k) \in 0 .. size-1
    BY <1>7, AtIsSlot DEF Del
  <2>2. table' \in [0 .. size-1 -> Slot]
    BY <1>7, <2>1 DEF Del, TypeOK, Slot
  <2>3. used' \in 0 .. UMod-1
    BY <1>7, SizeAssumption DEF Del, Dec, TypeOK
  <2> QED BY <1>7, <2>2, <2>3 DEF Del, TypeOK
<1>8. CASE UNCHANGED vars
  BY <1>8 DEF vars, TypeOK
<1> QED BY <1>1, <1>2, <1>3, <1>4, <1>5, <1>6, <1>7, <1>8 DEF Next, NextGrow, Grow

\* dict_new returns a dictionary of the right types.
LEMMA InitTypes == Init => TypeOK
<1> SUFFICES ASSUME Init PROVE TypeOK
  OBVIOUS
<1>1. size \in Sizes /\ used \in 0 .. UMod-1 /\ fill \in Nat
  BY SizeAssumption DEF Init
<1>2. table \in [0 .. size-1 -> Slot]
  BY DEF Init, FreshTable, FreeSlot, Slot
<1>3. pending \in Seq((SUBSET Item) \ {{}})
  BY DEF Init
<1> QED BY <1>1, <1>2, <1>3 DEF Init, TypeOK

\* The dictionary keeps its types under every use of it, deletions of
\* absent keys and wrapped counters included.
THEOREM TypeCorrect == Spec => []TypeOK
BY InitTypes, StepKeepsTypes, PTL DEF Spec

-----------------------------------------------------------------------------
(* Counters, until an absent key is deleted.                               *)

\* A table with fewer occupied slots than slots has one to stop at.
LEMMA RoomToStop ==
  ASSUME NEW n \in Nat \ {0}, NEW t, Cardinality(Occupied(t, n)) < n, NEW k
  PROVE  Candidates(t, n, k) # {}
<1>1. SUFFICES ASSUME \A s \in 0 .. n-1 : t[s].key # NULL PROVE FALSE
  BY DEF Candidates
<1>2. Occupied(t, n) = 0 .. n-1
  BY <1>1 DEF Occupied
<1>3. 0 \in Int /\ n-1 \in Int
  OBVIOUS
<1>4. Cardinality(0 .. n-1) = IF 0 > n-1 THEN 0 ELSE n-1 - 0 + 1
  BY <1>3, FS_Interval
<1> QED BY <1>2, <1>4

\* Occupied slots are slots of the table, finitely many.
LEMMA OccupiedFinite ==
  ASSUME NEW n \in Nat, NEW t
  PROVE  IsFiniteSet(Occupied(t, n)) /\ Cardinality(Occupied(t, n)) \in Nat
<1>1. 0 \in Int /\ n-1 \in Int /\ Occupied(t, n) \in SUBSET (0 .. n-1)
  BY DEF Occupied
<1>2. IsFiniteSet(0 .. n-1)
  BY <1>1, FS_Interval
<1> QED BY <1>1, <1>2, FS_Subset, FS_CardinalityType

\* Writing one slot occupies at most one slot more.
LEMMA WriteOccupies ==
  ASSUME NEW n \in Nat, NEW t, NEW u, NEW s,
         \A r \in 0 .. n-1 : r # s => u[r] = t[r]
  PROVE  Cardinality(Occupied(u, n)) <= Cardinality(Occupied(t, n)) + 1
<1> DEFINE O == Occupied(t, n)
           P == Occupied(u, n)
<1>1. IsFiniteSet(O) /\ Cardinality(O) \in Nat /\ Cardinality(P) \in Nat
  BY OccupiedFinite
<1>2. IsFiniteSet(O \cup {s}) /\ Cardinality(O \cup {s}) <= Cardinality(O) + 1
  <2> HIDE DEF O, P
  <2>1. /\ IsFiniteSet(O \cup {s})
        /\ Cardinality(O \cup {s}) = IF s \in O THEN Cardinality(O) ELSE Cardinality(O)+1
    BY <1>1, FS_AddElement
  <2> QED BY <1>1, <2>1
<1>3. P \in SUBSET (O \cup {s})
  BY DEF Occupied
<1>4. Cardinality(P) <= Cardinality(O \cup {s})
  <2> HIDE DEF O, P
  <2> QED BY <1>2, <1>3, FS_Subset
<1>5. Cardinality(O \cup {s}) \in Nat
  BY <1>2, FS_CardinalityType
<1> QED BY <1>1, <1>2, <1>4, <1>5

\* Writing a key where its lookup ends leaves every chain unbroken.
LEMMA WriteKeepsChains ==
  ASSUME NEW n \in Sizes, NEW t \in [0 .. n-1 -> Slot], NEW k \in Keys,
         Chains(t, n), Candidates(t, n, k) # {},
         NEW u \in [0 .. n-1 -> Slot], u[Lookup(t, n, k)].key = k,
         \A r \in 0 .. n-1 : r # Lookup(t, n, k) => u[r] = t[r]
  PROVE  Chains(u, n)
<1> DEFINE l == Lookup(t, n, k)
<1>1. l \in 0 .. n-1 /\ t[l].key \in {NULL, k}
      /\ \A c \in 0 .. n-1 : t[c].key \in {NULL, k} => Rank(k, n, l) <= Rank(k, n, c)
  BY LookupFirst DEF Candidates
<1> HIDE DEF l
<1>2. SUFFICES ASSUME NEW s \in Occupied(u, n), NEW r \in 0 .. n-1,
                      Rank(u[s].key, n, r) < Rank(u[s].key, n, s)
               PROVE  u[r].key \notin {NULL, u[s].key}
  BY DEF Chains
<1>3. s \in 0 .. n-1 /\ u[s].key \in Keys /\ u[s].key # NULL /\ k # NULL
  BY NullAssumption DEF Occupied, Slot
<1>4. \A q \in 0 .. n-1 : Rank(u[s].key, n, q) \in Nat /\ Rank(k, n, q) \in Nat
  BY <1>3, ProbeAssumption
<1>5. u[l].key = k /\ \A q \in 0 .. n-1 : q # l => u[q] = t[q]
  BY DEF l
<1>6. CASE s = l
  <2>1. r # l /\ u[r] = t[r] /\ u[s].key = k
    BY <1>1, <1>4, <1>5, <1>2, <1>6
  <2>2. t[r].key \notin {NULL, k}
    BY <1>1, <1>2, <1>4, <1>6, <2>1
  <2> QED BY <2>1, <2>2
<1>7. CASE s # l
  <2>1. u[s] = t[s] /\ s \in Occupied(t, n)
    BY <1>3, <1>5, <1>7 DEF Occupied
  <2>2. t[r].key \notin {NULL, u[s].key}
    BY <1>2, <2>1 DEF Chains
  <2>3. CASE r # l
    BY <1>5, <2>2, <2>3
  <2>4. CASE r = l
    BY <1>1, <1>3, <1>5, <2>2, <2>4
  <2> QED BY <2>3, <2>4
<1> QED BY <1>6, <1>7

\* A remainder below the modulus is the number itself.
LEMMA ModSmall ==
  ASSUME NEW a \in Nat, NEW m \in Nat, a < m
  PROVE  a % m = a
OBVIOUS

\* One turn round the modulus changes nothing.
LEMMA ModWraps ==
  ASSUME NEW a \in Nat, NEW m \in Nat, a < m
  PROVE  (a + m) % m = a
OBVIOUS

\* A table that needs to grow finds a size, over twice the items it counts.
LEMMA GrowthFits ==
  ASSUME TypeOK, used <= fill, fill + 1 <= MaxFill
  PROVE  /\ Inc(used) = used + 1
         /\ BigEnough(Inc(used)) # {}
         /\ NewSize(Inc(used)) \in Sizes
         /\ NewSize(Inc(used)) >= size
         /\ NewSize(Inc(used)) > 2 * (used + 1)
<1>1. PICK n \in Sizes : n > 4 * MaxFill
  BY FillAssumption
<1>2. /\ used + 1 \in Nat /\ used + 1 <= MaxFill /\ used + 1 < UMod /\ n \in Nat
      /\ size \in Nat /\ n < UMod /\ UMod \in Nat /\ MaxFill \in Nat
  BY <1>1, SizeAssumption DEF TypeOK
<1>3. Inc(used) = used + 1
  BY <1>2, ModSmall DEF Inc
<1>4. GrowthFactor \in {2, 4}
  BY DEF GrowthFactor
<1>5. /\ GrowthFactor * (used + 1) \in Nat
      /\ 2 * (used + 1) <= GrowthFactor * (used + 1)
      /\ GrowthFactor * (used + 1) <= 4 * MaxFill
  <2>1. CASE GrowthFactor = 2
    BY <1>2, <2>1
  <2>2. CASE GrowthFactor = 4
    BY <1>2, <2>2
  <2> QED BY <1>4, <2>1, <2>2
<1>6. (GrowthFactor * (used + 1)) % UMod = GrowthFactor * (used + 1)
  <2> DEFINE a == GrowthFactor * (used + 1)
  <2>1. a \in Nat /\ a < UMod
    BY <1>1, <1>2, <1>5
  <2> HIDE DEF a
  <2>2. a % UMod = a
    BY <1>2, <2>1, ModSmall
  <2> QED BY <2>2 DEF a
<1>7. BigEnough(Inc(used)) = {m \in Sizes : m >= size /\ m > GrowthFactor * (used + 1)}
  BY <1>3, <1>6 DEF BigEnough
<1>8. BigEnough(Inc(used)) # {}
  <2>1. CASE n >= size
    BY <1>1, <1>2, <1>5, <1>7, <2>1
  <2>2. CASE ~(n >= size)
    <3>1. size \in Sizes /\ size >= size /\ size > GrowthFactor * (used + 1)
      BY <1>1, <1>2, <1>5, <2>2 DEF TypeOK
    <3> QED BY <1>7, <3>1
  <2> QED BY <2>1, <2>2
<1>9. NewSize(Inc(used)) \in BigEnough(Inc(used))
  BY <1>8, NewSizeIsBigEnough
<1>10. /\ NewSize(Inc(used)) \in Sizes /\ NewSize(Inc(used)) >= size
       /\ NewSize(Inc(used)) > GrowthFactor * (used + 1)
  BY <1>7, <1>9
<1>11. NewSize(Inc(used)) \in Nat
  BY <1>10, SizeAssumption
<1> QED BY <1>2, <1>3, <1>5, <1>8, <1>10, <1>11

\* The items of a table are as many as its occupied slots, at most.
LEMMA ItemsFinite ==
  ASSUME NEW n \in Nat, NEW t
  PROVE  /\ IsFiniteSet(Items(t, n))
         /\ Cardinality(Items(t, n)) <= Cardinality(Occupied(t, n))
<1> DEFINE f == [s \in Occupied(t, n) |-> ItemAt(t, s)]
<1>1. f \in Surjection(Occupied(t, n), Items(t, n))
  BY DEF Surjection, Items
<1> HIDE DEF f
<1> QED BY <1>1, OccupiedFinite, FS_Surjection

\* A fresh table has no occupied slot, hence no chain to break.
LEMMA FreshIsEmpty ==
  ASSUME NEW n \in Nat
  PROVE  /\ Occupied(FreshTable(n), n) = {} /\ Chains(FreshTable(n), n)
         /\ Cardinality(Occupied(FreshTable(n), n)) = 0
<1>1. Occupied(FreshTable(n), n) = {}
  BY DEF Occupied, FreshTable, FreeSlot
<1> QED BY <1>1, FS_EmptySet DEF Chains

\* The rest of dict_add_p after a dict_add keeps the counters sound.
LEMMA AddSettles ==
  ASSUME TypeOK, Sound, pending = <<>>, fill < MaxFill,
         NEW t \in [0 .. size-1 -> Slot],
         Cardinality(Occupied(t, size)) <= Cardinality(Occupied(table, size)) + 1,
         Settle(t, <<>>)
  PROVE  Sound'
<1>1. /\ size \in Nat \ {0} /\ fill \in Nat /\ used \in Nat /\ used <= fill /\ MaxFill \in Nat
      /\ Cardinality(Occupied(table, size)) <= used
  BY SizeAssumption DEF Sound, TypeOK, Counters
<1>2. /\ Cardinality(Occupied(t, size)) \in Nat
      /\ Cardinality(Occupied(table, size)) \in Nat
  BY <1>1, OccupiedFinite
<1>3. /\ Inc(used) = used + 1 /\ BigEnough(Inc(used)) # {}
      /\ NewSize(Inc(used)) \in Sizes /\ NewSize(Inc(used)) > 2 * (used + 1)
  BY <1>1, GrowthFits
<1>4. NewSize(Inc(used)) \in Nat
  BY <1>3, SizeAssumption
<1>5. CASE /\ ~NeedsResize(fill + 1) \/ NewSize(Inc(used)) = size
           /\ table' = t /\ used' = Inc(used) /\ fill' = fill + 1
           /\ pending' = <<>> /\ size' = size /\ hung' = hung
  <2>1. 3 * (fill + 1) < 2 * size \/ 2 * (used + 1) < size
    BY <1>1, <1>3, <1>5 DEF NeedsResize
  <2>2. CopiesLeft' = {} /\ IsFiniteSet({}) /\ Cardinality({}) = 0
    BY <1>5, FS_EmptySet DEF CopiesLeft
  <2> QED BY <1>1, <1>2, <1>3, <1>5, <2>1, <2>2 DEF Sound, Counters, NoNestedResize
<1>6. CASE /\ size' = NewSize(Inc(used)) /\ table' = FreshTable(NewSize(Inc(used)))
           /\ used' = 0 /\ fill' = 0 /\ pending' = Append(<<>>, Items(t, size)) /\ hung' = hung
  <2>1. pending' = <<Items(t, size)>> /\ pending' # <<>> /\ CopiesLeft' = Items(t, size)
    BY <1>6 DEF CopiesLeft
  <2>2. IsFiniteSet(Items(t, size)) /\ Cardinality(Items(t, size)) \in Nat
        /\ Cardinality(Items(t, size)) <= used + 1
    BY <1>1, <1>2, ItemsFinite, FS_CardinalityType
  <2>3. Cardinality(Occupied(table', size')) = 0
    BY <1>4, <1>6, FreshIsEmpty
  <2>4. Counters'
    BY <1>1, <1>3, <1>4, <1>6, <2>1, <2>2, <2>3 DEF Counters
  <2>5. NoNestedResize'
    BY <2>1 DEF NoNestedResize
  <2> QED BY <1>6, <2>4, <2>5 DEF Sound
<1> QED BY <1>3, <1>5, <1>6 DEF Settle

\* One iteration of the copy loop never resizes again, and keeps the counters
\* sound.
LEMMA CopySettles ==
  ASSUME TypeOK, Sound, pending # <<>>, NEW item \in pending[1],
         NEW t \in [0 .. size-1 -> Slot],
         Cardinality(Occupied(t, size)) <= Cardinality(Occupied(table, size)) + 1,
         Settle(t, IF pending[1] = {item} THEN <<>> ELSE Append(<<>>, pending[1] \ {item}))
  PROVE  Sound'
<1> DEFINE top  == pending[1]
           left == top \ {item}
           next == IF top = {item} THEN <<>> ELSE Append(<<>>, left)
<1>1. /\ size \in Nat \ {0} /\ fill \in Nat /\ used \in Nat /\ used <= fill /\ MaxFill \in Nat
      /\ CopiesLeft = top /\ IsFiniteSet(top) /\ fill + Cardinality(top) <= MaxFill
      /\ Cardinality(Occupied(table, size)) <= used
      /\ 2 * (fill + Cardinality(top)) < size
  BY SizeAssumption DEF Sound, TypeOK, Counters, CopiesLeft
<1>2. /\ IsFiniteSet(left) /\ Cardinality(left) = Cardinality(top) - 1
      /\ Cardinality(top) \in Nat /\ Cardinality(left) \in Nat
  <2> HIDE DEF top
  <2>1. IsFiniteSet(left) /\ Cardinality(left) = IF item \in top THEN Cardinality(top) - 1 ELSE Cardinality(top)
    BY <1>1, FS_RemoveElement
  <2>2. item \in top
    BY DEF top
  <2> QED BY <1>1, <2>1, <2>2, FS_CardinalityType
<1>3. /\ Cardinality(Occupied(t, size)) \in Nat
      /\ Cardinality(Occupied(table, size)) \in Nat
  BY <1>1, OccupiedFinite
<1>4. fill + 1 <= MaxFill /\ ~NeedsResize(fill + 1)
  BY <1>1, <1>2 DEF NeedsResize
<1>5. Inc(used) = used + 1
  BY <1>1, <1>4, GrowthFits
<1>6. table' = t /\ used' = used + 1 /\ fill' = fill + 1 /\ pending' = next
      /\ size' = size /\ hung' = hung
  BY <1>4, <1>5 DEF Settle
<1>7. CopiesLeft' = left /\ NoNestedResize'
      /\ (pending' = <<>> => 3 * (fill + 1) < 2 * size)
  <2>1. CASE top = {item}
    BY <1>1, <1>2, <1>6, <2>1 DEF CopiesLeft, NoNestedResize
  <2>2. CASE top # {item}
    <3>1. pending' = <<left>> /\ pending' # <<>>
      BY <1>6, <2>2
    <3> HIDE DEF left
    <3> QED BY <3>1 DEF CopiesLeft, NoNestedResize
  <2> QED BY <2>1, <2>2
<1> HIDE DEF left, top, next
<1>8. Counters'
  <2>1. Cardinality(Occupied(t, size)) <= used + 1 /\ used + 1 <= fill + 1
    BY <1>1, <1>3
  <2>2. /\ fill + 1 + Cardinality(left) <= MaxFill
        /\ 2 * (fill + 1 + Cardinality(left)) < size
    BY <1>1, <1>2
  <2> QED BY <1>2, <1>6, <1>7, <2>1, <2>2 DEF Counters
<1> QED BY <1>6, <1>7, <1>8 DEF Sound

\* Deleting a key that is there takes one from used and frees one slot.
LEMMA DeleteSettles ==
  ASSUME TypeOK, Sound, NEW k \in Keys, Del(k), At(k).key = k
  PROVE  Sound'
<1> DEFINE l == Lookup(table, size, k)
           O == Occupied(table, size)
           P == Occupied(table', size')
<1>1. /\ size \in Nat \ {0} /\ fill \in Nat /\ used \in 0 .. UMod-1 /\ UMod \in Nat
      /\ used <= fill /\ Cardinality(O) <= used
      /\ table \in [0 .. size-1 -> Slot]
  BY SizeAssumption DEF Sound, TypeOK, Counters
<1>2. l \in 0 .. size-1 /\ table[l].key = k /\ k # NULL /\ Findable(k)
  BY AtIsSlot, NullAssumption DEF At, Del
<1>3. size' = size /\ table'[l].key = NULL /\ \A s \in 0 .. size-1 : s # l => table'[s] = table[s]
  BY <1>1, <1>2 DEF Del
<1>4. l \in O /\ P = O \ {l}
  BY <1>2, <1>3 DEF Occupied
<1>5. IsFiniteSet(O) /\ Cardinality(O) \in Nat
  BY <1>1, OccupiedFinite
<1>6. Cardinality(P) = Cardinality(O) - 1 /\ Cardinality(P) \in Nat
  <2> HIDE DEF O, P, l
  <2>1. IsFiniteSet(O \ {l})
        /\ Cardinality(O \ {l}) = IF l \in O THEN Cardinality(O) - 1 ELSE Cardinality(O)
    BY <1>5, FS_RemoveElement
  <2> QED BY <1>4, <2>1, FS_CardinalityType
<1>7. used' = used - 1 /\ used >= 1
  <2>1. used >= 1
    BY <1>1, <1>5, <1>6
  <2>2. (used + UMod - 1) % UMod = used - 1
    <3> DEFINE a == used - 1
    <3>1. a \in Nat /\ a < UMod /\ used + UMod - 1 = a + UMod
      BY <1>1, <2>1
    <3> HIDE DEF a
    <3>2. (a + UMod) % UMod = a
      BY <1>1, <3>1, ModWraps
    <3> QED BY <3>1, <3>2 DEF a
  <2> QED BY <2>1, <2>2 DEF Del, Dec
<1>8. /\ fill' = fill /\ pending' = pending /\ hung' = hung /\ pending = <<>>
      /\ CopiesLeft' = CopiesLeft
  BY DEF Del, Idle, CopiesLeft
<1> HIDE DEF O, P, l
<1>9. Counters'
  <2>1. Cardinality(P) <= used' /\ used' <= fill'
    BY <1>1, <1>6, <1>7, <1>8, <1>5
  <2>2. 3 * fill' < 2 * size' \/ 2 * used' < size'
    <3>1. 3 * fill < 2 * size \/ 2 * used < size
      BY <1>8 DEF Sound, Counters
    <3> QED BY <1>1, <1>3, <1>7, <1>8, <3>1
  <2> QED BY <1>8, <2>1, <2>2 DEF Sound, Counters, P
<1> QED BY <1>8, <1>9 DEF Sound, NoNestedResize

\* With sound counters every key finds a slot to stop at.
LEMMA SoundFinds == ASSUME TypeOK, Sound, NEW k \in Keys PROVE Findable(k)
<1>1. /\ size \in Nat \ {0} /\ fill \in Nat /\ used \in Nat /\ used <= fill
      /\ Cardinality(Occupied(table, size)) <= used
      /\ IsFiniteSet(CopiesLeft)
      /\ \/ 3 * fill < 2 * size
         \/ 2 * used < size
         \/ 2 * (fill + Cardinality(CopiesLeft)) < size
  BY SizeAssumption DEF Sound, TypeOK, Counters
<1>2. Cardinality(Occupied(table, size)) \in Nat /\ Cardinality(CopiesLeft) \in Nat
  BY <1>1, OccupiedFinite, FS_CardinalityType
<1>3. Cardinality(Occupied(table, size)) < size
  BY <1>1, <1>2
<1> QED BY <1>1, <1>3, RoomToStop DEF Findable

\* Writing what dict_add or the copy loop writes for k prepares Settle.
LEMMA WriteIsSafe ==
  ASSUME TypeOK, Sound, NEW k \in Keys, NEW w \in Slot, w.key = k
  PROVE  LET t == [table EXCEPT ![Lookup(table, size, k)] = w]
         IN /\ t \in [0 .. size-1 -> Slot]
            /\ Chains(table, size) => Chains(t, size)
            /\ Cardinality(Occupied(t, size)) <= Cardinality(Occupied(table, size)) + 1
<1> DEFINE l == Lookup(table, size, k)
           t == [table EXCEPT ![l] = w]
<1>1. size \in Sizes /\ size \in Nat /\ table \in [0 .. size-1 -> Slot]
  BY SizeAssumption DEF TypeOK
<1>2. Candidates(table, size, k) # {} /\ l \in 0 .. size-1
  BY SoundFinds, AtIsSlot DEF Findable
<1>3. t \in [0 .. size-1 -> Slot] /\ t[l].key = k /\ \A r \in 0 .. size-1 : r # l => t[r] = table[r]
  BY <1>1, <1>2
<1> HIDE DEF t
<1>4. Chains(table, size) => Chains(t, size)
  BY <1>1, <1>2, <1>3, WriteKeepsChains
<1> HIDE DEF l
<1>5. Cardinality(Occupied(t, size)) <= Cardinality(Occupied(table, size)) + 1
  BY <1>1, <1>3, WriteOccupies
<1> QED BY <1>3, <1>4, <1>5 DEF t, l

\* A length that is not zero and at most one is one.
LEMMA OnlyOne == \A n : n \in Nat \ {0} /\ n <= 1 => n = 1
OBVIOUS

\* A copy in progress is the only one.
LEMMA OneCopy ==
  ASSUME TypeOK, NoNestedResize, pending # <<>>
  PROVE  Len(pending) = 1 /\ pending[1] \in Copies
<1>1. pending \in Seq(Copies)
  BY DEF TypeOK, Copies
<1>2. Len(pending) \in Nat \ {0}
  BY <1>1, EmptySeq, Zenon
<1>3. Len(pending) = 1
  BY <1>2, OnlyOne DEF NoNestedResize
<1> QED BY <1>1, <1>3, ElementOfSeq

\* What a copy of dict_resize looks up are keys.
LEMMA LookedUpAreKeys ==
  ASSUME TypeOK, NoNestedResize
  PROVE  LookedUp \subseteq Keys
<1>1. CASE pending = <<>>
  BY <1>1 DEF LookedUp
<1>2. CASE pending # <<>>
  <2>1. pending[Len(pending)] \in Copies
    BY <1>2, OneCopy
  <2>2. \A item \in pending[Len(pending)] : item.key \in Keys
    BY <2>1 DEF Copies, Item
  <2> QED BY <1>2, <2>2 DEF LookedUp
<1> QED BY <1>1, <1>2

\* One iteration of the copy loop writes a slot for its item's key, and goes
\* on with the rest of dict_add_p.
LEMMA ReinsertWrites ==
  ASSUME TypeOK, Sound, Reinsert
  PROVE  \E item \in pending[1], w \in Slot :
           /\ pending # <<>> /\ item.key \in Keys /\ w.key = item.key
           /\ Settle([table EXCEPT ![Lookup(table, size, item.key)] = w],
                     IF pending[1] = {item} THEN <<>> ELSE Append(<<>>, pending[1] \ {item}))
<1>1. pending # <<>> /\ Len(pending) = 1 /\ pending[1] \in Copies
      /\ SubSeq(pending, 1, Len(pending) - 1) = <<>>
  <2>1. pending # <<>> /\ Len(pending) = 1 /\ pending[1] \in Copies
    BY OneCopy DEF Reinsert, Sound
  <2>2. SubSeq(pending, 1, 0) = <<>>
    BY SubSeqEmpty
  <2> QED BY <2>1, <2>2
<1>2. PICK item \in pending[1] :
        /\ Findable(item.key)
        /\ Settle([table EXCEPT ![Lookup(table, size, item.key)] =
                      [key |-> item.key, val |-> item.val, blob |-> @.blob]],
                  IF pending[1] = {item} THEN <<>> ELSE Append(<<>>, pending[1] \ {item}))
  BY <1>1 DEF Reinsert
<1> DEFINE l == Lookup(table, size, item.key)
           w == [key |-> item.key, val |-> item.val, blob |-> table[l].blob]
<1>3. item.key \in Keys /\ w \in Slot /\ w.key = item.key
  <2>1. item \in Item
    BY <1>1 DEF Copies
  <2> QED BY <1>2, <2>1, AtIsSlot DEF Item, Slot, At
<1>4. Settle([table EXCEPT ![l] = w],
             IF pending[1] = {item} THEN <<>> ELSE Append(<<>>, pending[1] \ {item}))
  BY <1>2
<1> HIDE DEF w
<1> QED BY <1>1, <1>3, <1>4

\* The same for dict_add and dict_add_blob.
LEMMA AddWrites ==
  ASSUME TypeOK, NEW k, \/ k \in ValKeys /\ \E v \in ValsOf[k] : Add(k, v)
                        \/ k \in BlobKeys /\ AddBlob(k)
  PROVE  /\ k \in Keys /\ pending = <<>> /\ fill < MaxFill
         /\ \E w \in Slot :
              w.key = k /\ Settle([table EXCEPT ![Lookup(table, size, k)] = w], <<>>)
<1> DEFINE l == Lookup(table, size, k)
<1>1. ASSUME k \in ValKeys, NEW v \in ValsOf[k], Add(k, v)
      PROVE  /\ k \in Keys /\ pending = <<>> /\ fill < MaxFill
             /\ \E w \in Slot : w.key = k /\ Settle([table EXCEPT ![l] = w], <<>>)
  <2> DEFINE w == [key |-> k, val |-> v, blob |-> table[l].blob]
  <2>1. k \in Keys /\ w \in Slot /\ w.key = k
    BY <1>1, AtIsSlot DEF Add, Keys, Vals, Slot, At
  <2>2. Settle([table EXCEPT ![l] = w], <<>>) /\ pending = <<>> /\ fill < MaxFill
    BY <1>1 DEF Add, Idle
  <2> HIDE DEF w
  <2> QED BY <2>1, <2>2
<1>2. ASSUME k \in BlobKeys, AddBlob(k)
      PROVE  /\ k \in Keys /\ pending = <<>> /\ fill < MaxFill
             /\ \E w \in Slot : w.key = k /\ Settle([table EXCEPT ![l] = w], <<>>)
  <2> DEFINE w == [key |-> k, val |-> table[l].val, blob |-> ParamAddr]
  <2>1. k \in Keys /\ w \in Slot /\ w.key = k
    BY <1>2, AtIsSlot DEF AddBlob, Keys, Slot, At
  <2>2. Settle([table EXCEPT ![l] = w], <<>>) /\ pending = <<>> /\ fill < MaxFill
    BY <1>2 DEF AddBlob, Idle
  <2> HIDE DEF w
  <2> QED BY <2>1, <2>2
<1> QED BY <1>1, <1>2

\* Until an absent key is deleted, every step keeps the counters sound.
LEMMA StepKeepsSound ==
  ASSUME TypeOK, Sound, [Next]_vars, ~strayed'
  PROVE  Sound'
<1>1. ASSUME NEW k, \/ k \in ValKeys /\ \E v \in ValsOf[k] : Add(k, v)
                    \/ k \in BlobKeys /\ AddBlob(k)
      PROVE  Sound'
  <2>1. PICK w \in Slot : w.key = k /\ Settle([table EXCEPT ![Lookup(table, size, k)] = w], <<>>)
    BY <1>1, AddWrites
  <2>2. k \in Keys /\ pending = <<>> /\ fill < MaxFill
    BY <1>1, AddWrites
  <2> DEFINE t == [table EXCEPT ![Lookup(table, size, k)] = w]
  <2>3. /\ t \in [0 .. size-1 -> Slot] /\ Settle(t, <<>>)
        /\ Cardinality(Occupied(t, size)) <= Cardinality(Occupied(table, size)) + 1
    BY <2>1, <2>2, WriteIsSafe
  <2> HIDE DEF t
  <2> QED BY <2>2, <2>3, AddSettles
<1>2. CASE Reinsert
  <2>1. PICK item \in pending[1], w \in Slot :
          /\ pending # <<>> /\ item.key \in Keys /\ w.key = item.key
          /\ Settle([table EXCEPT ![Lookup(table, size, item.key)] = w],
                    IF pending[1] = {item} THEN <<>> ELSE Append(<<>>, pending[1] \ {item}))
    BY <1>2, ReinsertWrites
  <2> DEFINE t == [table EXCEPT ![Lookup(table, size, item.key)] = w]
  <2>2. /\ t \in [0 .. size-1 -> Slot]
        /\ Settle(t, IF pending[1] = {item} THEN <<>> ELSE Append(<<>>, pending[1] \ {item}))
        /\ Cardinality(Occupied(t, size)) <= Cardinality(Occupied(table, size)) + 1
    BY <2>1, WriteIsSafe
  <2> HIDE DEF t
  <2> QED BY <2>1, <2>2, CopySettles
<1>3. ASSUME UNCHANGED <<table, size, used, fill, pending, hung>> PROVE Sound'
  BY <1>3 DEF Sound, Counters, CopiesLeft, NoNestedResize
<1>4. ASSUME NEW k \in Keys, Del(k) PROVE Sound'
  BY <1>4, DeleteSettles DEF Del
<1>5. ~LookupForever
  <2>1. LookedUp \subseteq Keys
    BY LookedUpAreKeys DEF Sound
  <2> QED BY <2>1, SoundFinds DEF LookupForever
<1> QED BY <1>1, <1>2, <1>3, <1>4, <1>5 DEF Next, NextGrow, Grow, Get, GetBlob, vars

\* The history of deletions is never forgotten.
LEMMA StrayedStays == TypeOK /\ [Next]_vars /\ strayed => strayed'
<1> SUFFICES ASSUME [Next]_vars, strayed, ~strayed' PROVE FALSE
  BY DEF TypeOK
<1>1. ASSUME NEW k, NEW v, Add(k, v) \/ AddBlob(k) \/ Get(k, v) \/ GetBlob(k, v) PROVE FALSE
  BY <1>1 DEF Add, AddBlob, Get, GetBlob
<1>2. CASE Reinsert \/ LookupForever
  BY <1>2 DEF Reinsert, LookupForever
<1>3. ASSUME NEW k, Del(k) PROVE FALSE
  BY <1>3 DEF Del
<1> QED BY <1>1, <1>2, <1>3 DEF Next, NextGrow, Grow, vars

\* A new dictionary has sound counters.
LEMMA InitSound == Init => TypeOK /\ ~strayed /\ Sound /\ Chains(table, size)
<1> SUFFICES ASSUME Init PROVE TypeOK /\ ~strayed /\ Sound /\ Chains(table, size)
  OBVIOUS
<1>1. TypeOK
  BY InitTypes
<1>2. /\ size \in Nat \ {0} /\ MaxFill \in Nat /\ CopiesLeft = {}
      /\ IsFiniteSet({}) /\ Cardinality({}) = 0
  BY <1>1, SizeAssumption, FS_EmptySet DEF Init, CopiesLeft, TypeOK
<1>3. Cardinality(Occupied(table, size)) = 0 /\ Chains(table, size)
  BY <1>2, FreshIsEmpty DEF Init
<1> QED BY <1>1, <1>2, <1>3 DEF Sound, Counters, NoNestedResize, Init

\* Every dictionary of the program, whatever it adds, overwrites and deletes,
\* keeps its counters sound until it deletes a key that is not there.
THEOREM CareSound == Spec => []CareInv
<1>1. Init => CareInv
  BY InitSound DEF CareInv
<1>2. CareInv /\ [Next]_vars => CareInv'
  <2> SUFFICES ASSUME CareInv, [Next]_vars, ~strayed' PROVE Sound'
    BY StepKeepsTypes DEF CareInv
  <2>1. ~strayed
    BY StrayedStays DEF CareInv
  <2> QED BY <2>1, StepKeepsSound DEF CareInv
<1> QED BY <1>1, <1>2, PTL DEF Spec

\* No call on a dictionary ever loops for ever, unless an absent key has been
\* deleted from it before.
THEOREM CareNeverHangs == Spec => []HangsOnlyAfterStray
<1>1. CareInv => HangsOnlyAfterStray
  BY SoundFinds DEF CareInv, Sound, HangsOnlyAfterStray, NeverHangs
<1> QED BY <1>1, CareSound, PTL

-----------------------------------------------------------------------------
(* A dictionary that only grows.                                           *)

\* Growth starts from an empty table, so it breaks no chain.
LEMMA SettleKeepsChains ==
  ASSUME NEW t, NEW rest, Chains(t, size), Settle(t, rest)
  PROVE  Chains(table', size')
<1>1. CASE table' = t /\ size' = size
  BY <1>1
<1>2. CASE /\ BigEnough(Inc(used)) # {}
           /\ size' = NewSize(Inc(used)) /\ table' = FreshTable(NewSize(Inc(used)))
  <2>1. NewSize(Inc(used)) \in Nat
    BY <1>2, NewSizeIsBigEnough, SizeAssumption DEF BigEnough
  <2> QED BY <1>2, <2>1, FreshIsEmpty
<1> QED BY <1>1, <1>2 DEF Settle

\* Every step of a growing dictionary keeps its chains.
LEMMA StepKeepsChains == GrowInv /\ [NextGrow]_vars => Chains(table', size')
<1> SUFFICES ASSUME GrowInv, [NextGrow]_vars PROVE Chains(table', size')
  OBVIOUS
<1> USE DEF GrowInv
<1>1. ASSUME NEW k, \/ k \in ValKeys /\ \E v \in ValsOf[k] : Add(k, v)
                    \/ k \in BlobKeys /\ AddBlob(k)
      PROVE  Chains(table', size')
  <2>1. PICK w \in Slot : w.key = k /\ Settle([table EXCEPT ![Lookup(table, size, k)] = w], <<>>)
    BY <1>1, AddWrites
  <2>2. Chains([table EXCEPT ![Lookup(table, size, k)] = w], size)
    BY <1>1, <2>1, AddWrites, WriteIsSafe
  <2> QED BY <2>1, <2>2, SettleKeepsChains
<1>2. CASE Reinsert
  <2>1. PICK item \in pending[1], w \in Slot :
          /\ pending # <<>> /\ item.key \in Keys /\ w.key = item.key
          /\ Settle([table EXCEPT ![Lookup(table, size, item.key)] = w],
                    IF pending[1] = {item} THEN <<>> ELSE Append(<<>>, pending[1] \ {item}))
    BY <1>2, ReinsertWrites
  <2>2. Chains([table EXCEPT ![Lookup(table, size, item.key)] = w], size)
    BY <2>1, WriteIsSafe
  <2> QED BY <2>1, <2>2, SettleKeepsChains
<1>3. ASSUME UNCHANGED <<table, size>> PROVE Chains(table', size')
  BY <1>3
<1> QED BY <1>1, <1>2, <1>3 DEF NextGrow, Grow, Get, GetBlob, LookupForever, vars

\* Every step of a growing dictionary keeps the invariant.
LEMMA StepKeepsGrow == GrowInv /\ [NextGrow]_vars => GrowInv'
<1> SUFFICES ASSUME GrowInv, [NextGrow]_vars PROVE GrowInv'
  OBVIOUS
<1>1. [Next]_vars
  BY DEF Next
<1>2. TypeOK'
  BY <1>1, StepKeepsTypes DEF GrowInv
<1>3. ~strayed'
  BY DEF GrowInv, NextGrow, Grow, Add, AddBlob, Reinsert, Get, GetBlob, LookupForever, vars
<1>4. Sound'
  BY <1>1, <1>3, StepKeepsSound DEF GrowInv
<1> QED BY <1>2, <1>3, <1>4, StepKeepsChains DEF GrowInv

\* The counters and the chains of a dictionary that only grows (Config,
\* Channels, Listeners) stay sound, whatever is added and in which order.
THEOREM GrowSound == SpecGrow => []GrowInv
<1>1. Init => GrowInv
  BY InitSound DEF GrowInv
<1> QED BY <1>1, StepKeepsGrow, PTL DEF SpecGrow

\* No call on a dictionary that only grows ever loops for ever.
THEOREM GrowNeverHangs == SpecGrow => []NeverHangs
<1>1. GrowInv => NeverHangs
  BY SoundFinds DEF GrowInv, Sound, NeverHangs
<1> QED BY <1>1, GrowSound, PTL

\* While the chains are unbroken, lookup of a key in the table ends where it is.
LEMMA FoundWhere ==
  ASSUME NEW n \in Sizes, NEW t \in [0 .. n-1 -> Slot], Chains(t, n), NEW s \in Occupied(t, n)
  PROVE  Lookup(t, n, t[s].key) = s
<1> DEFINE k == t[s].key
           l == Lookup(t, n, k)
<1>1. /\ s \in 0 .. n-1 /\ k \in Keys
      /\ \A r \in 0 .. n-1 : Rank(k, n, r) < Rank(k, n, s) => t[r].key \notin {NULL, k}
  BY DEF Chains, Occupied, Slot
<1>2. s \in Candidates(t, n, k)
  BY <1>1 DEF Candidates
<1> HIDE DEF k
<1>3. l \in Candidates(t, n, k) /\ Rank(k, n, l) <= Rank(k, n, s)
  BY <1>1, <1>2, LookupFirst
<1> HIDE DEF l
<1>4. l \in 0 .. n-1 /\ t[l].key \in {NULL, k}
  BY <1>3 DEF Candidates
<1>5. Rank(k, n, l) = Rank(k, n, s)
  BY <1>1, <1>3, <1>4, ProbeAssumption
<1>6. l = s
  BY <1>1, <1>4, <1>5, ProbeAssumption
<1> QED BY <1>6 DEF k, l

\* In a dictionary that only grows, lookup of a key in the table ends at the
\* slot that holds it, so no key is lost or held twice.
THEOREM GrowChainsIntact == SpecGrow => []ChainsIntact
<1>1. GrowInv => ChainsIntact
  BY FoundWhere DEF GrowInv, TypeOK, ChainsIntact
<1> QED BY <1>1, GrowSound, PTL

-----------------------------------------------------------------------------
(* The map that dict.h promises, as long as callers store strings alone    *)
(* and ask for no default: blobs are lost, and defaults are never given.   *)

OnlyStrings == BlobKeys = {} /\ Defaults \subseteq {NULL}

\* A free slot has no string, and no slot has a blob.
Plain ==
  /\ \A s \in 0 .. size-1 :
       table[s].blob = NULL /\ (table[s].key = NULL => table[s].val = NULL)
  /\ \A item \in CopiesLeft : item.blob = NULL

\* What is left to copy has one item for a key, and none for a key in the table.
CopiesApart ==
  /\ \A i, j \in CopiesLeft : i.key = j.key => i = j
  /\ \A i \in CopiesLeft, s \in 0 .. size-1 : table[s].key # i.key

MapInv == GrowInv /\ Plain /\ CopiesApart

\* v is the string of k: in a copy, in the table, or absent.
Strings(k, v) ==
  \/ \E item \in CopiesLeft : item.key = k /\ item.val = v
  \/ \E s \in 0 .. size-1 : table[s].key = k /\ table[s].val = v
  \/ /\ v = NULL
     /\ \A item \in CopiesLeft : item.key # k
     /\ \A s \in 0 .. size-1 : table[s].key # k

\* The items left to copy are those of the one copy in progress.
LEMMA CopiesLeftAre ==
  ASSUME MapInv
  PROVE  /\ CopiesLeft \subseteq Item
         /\ pending = <<>> => CopiesLeft = {}
         /\ pending # <<>> => Len(pending) = 1 /\ CopiesLeft = pending[1]
<1>1. TypeOK /\ NoNestedResize
  BY DEF MapInv, GrowInv, Sound
<1>2. CASE pending = <<>>
  BY <1>2 DEF CopiesLeft
<1>3. CASE pending # <<>>
  BY <1>1, <1>3, OneCopy DEF CopiesLeft, Copies
<1> QED BY <1>2, <1>3

\* A lookup in the table ends at its key, or at a free slot when it is absent.
LEMMA LookupInTable ==
  ASSUME MapInv, NEW k \in Keys
  PROVE  /\ Findable(k)
         /\ Lookup(table, size, k) \in 0 .. size-1
         /\ At(k).key \in {NULL, k}
         /\ \A s \in 0 .. size-1 : table[s].key = k => At(k) = table[s]
         /\ (\A s \in 0 .. size-1 : table[s].key # k) => At(k).key = NULL /\ At(k).val = NULL
<1>1. /\ TypeOK /\ Sound /\ Chains(table, size) /\ size \in Sizes
      /\ table \in [0 .. size-1 -> Slot] /\ k # NULL
  BY NullAssumption DEF MapInv, GrowInv, TypeOK
<1>2. Findable(k)
  BY <1>1, SoundFinds
<1>3. Lookup(table, size, k) \in Candidates(table, size, k)
  BY <1>1, <1>2, LookupFirst DEF Findable
<1>4. Lookup(table, size, k) \in 0 .. size-1 /\ At(k).key \in {NULL, k}
  BY <1>3 DEF Candidates, At
<1>5. ASSUME NEW s \in 0 .. size-1, table[s].key = k PROVE At(k) = table[s]
  <2>1. s \in Occupied(table, size)
    BY <1>1, <1>5 DEF Occupied
  <2>2. Lookup(table, size, table[s].key) = s
    BY <1>1, <2>1, FoundWhere
  <2> QED BY <1>5, <2>2 DEF At
<1>6. ASSUME \A s \in 0 .. size-1 : table[s].key # k PROVE At(k).key = NULL /\ At(k).val = NULL
  BY <1>4, <1>6 DEF At, MapInv, Plain
<1> QED BY <1>2, <1>4, <1>5, <1>6

\* The string a caller gets is the one in the copy or in the table.
LEMMA StringsAreValues ==
  ASSUME MapInv, NEW k \in Keys, NEW v, Strings(k, v)
  PROVE  ValueOf(k) = v
<1>1. CASE \E item \in CopiesLeft : item.key = k /\ item.val = v
  <2>1. PICK item \in CopiesLeft : item.key = k /\ item.val = v
    BY <1>1
  <2>2. pending # <<>> /\ Len(pending) = 1 /\ CopiesLeft = pending[1]
    BY <2>1, CopiesLeftAre
  <2>3. DOMAIN pending = {1}
    BY <2>2 DEF MapInv, GrowInv, TypeOK
  <2>4. Waiting(k) = {1}
    BY <2>1, <2>2, <2>3 DEF Waiting
  <2>5. \A i \in Waiting(k) : (\A l \in Waiting(k) : i <= l) <=> i = 1
    BY <2>4
  <2>6. (CHOOSE j \in Waiting(k) : \A l \in Waiting(k) : j <= l) = 1
    BY <2>4, <2>5
  <2>7. \A o \in pending[1] : o.key = k => o = item
    BY <2>1, <2>2 DEF MapInv, CopiesApart
  <2>8. item.at <= item.at
    BY <2>1, CopiesLeftAre DEF Item
  <2>9. (CHOOSE i \in pending[1] :
           i.key = k /\ \A o \in pending[1] : o.key = k => o.at <= i.at) = item
    BY <2>1, <2>2, <2>7, <2>8
  <2> QED BY <2>1, <2>4, <2>6, <2>9 DEF ValueOf
<1>2. CASE \A item \in CopiesLeft : item.key # k
  <2>1. Waiting(k) = {}
    <3>1. CASE pending = <<>>
      BY <3>1 DEF Waiting
    <3>2. CASE pending # <<>>
      <4>1. DOMAIN pending = {1} /\ CopiesLeft = pending[1]
        BY <3>2, CopiesLeftAre DEF MapInv, GrowInv, TypeOK
      <4> QED BY <1>2, <4>1 DEF Waiting
    <3> QED BY <3>1, <3>2
  <2>2. ValueOf(k) = At(k).val
    BY <2>1, LookupInTable DEF ValueOf
  <2>3. \/ \E s \in 0 .. size-1 : table[s].key = k /\ table[s].val = v
        \/ v = NULL /\ \A s \in 0 .. size-1 : table[s].key # k
    BY <1>2 DEF Strings
  <2> QED BY <2>2, <2>3, LookupInTable
<1> QED BY <1>1, <1>2 DEF Strings, MapInv, CopiesApart

\* Every key has a string, or NULL.
LEMMA SomeString == ASSUME NEW k PROVE \E v : Strings(k, v)
BY DEF Strings

\* Nobody finds a blob.
LEMMA NoBlobs == ASSUME MapInv PROVE BlobsFound = {}
<1>1. ASSUME NEW k \in Keys PROVE At(k).blob = NULL
  BY LookupInTable DEF At, MapInv, Plain
<1>2. ASSUME NEW i \in DOMAIN pending, NEW item \in pending[i] PROVE item.blob = NULL
  <2>1. pending # <<>>
    OBVIOUS
  <2>2. i = 1 /\ CopiesLeft = pending[1]
    BY <2>1, CopiesLeftAre DEF MapInv, GrowInv, TypeOK
  <2> QED BY <2>2 DEF MapInv, Plain
<1> QED BY <1>1, <1>2 DEF BlobsFound

\* t is the table with w written for k: no other key changes, no key is twice.
Wrote(t, k, w) ==
  /\ t \in [0 .. size-1 -> Slot]
  /\ \E s \in 0 .. size-1 : t[s] = w
  /\ \A s \in 0 .. size-1 : t[s].key = k => t[s] = w
  /\ \A s \in 0 .. size-1 : table[s].key \notin {k, NULL} => t[s] = table[s]
  /\ \A s \in 0 .. size-1 : t[s].key \notin {k, NULL} => t[s] = table[s]
  /\ \A s \in 0 .. size-1 : t[s].blob = NULL /\ (t[s].key = NULL => t[s].val = NULL)
  /\ \A r, s \in 0 .. size-1 : t[r].key = t[s].key /\ t[r].key # NULL => r = s

\* Writing a slot for k where its lookup ends does that.
LEMMA WriteChangesOne ==
  ASSUME MapInv, NEW k \in Keys, NEW w \in Slot, w.key = k, w.blob = NULL
  PROVE  Wrote([table EXCEPT ![Lookup(table, size, k)] = w], k, w)
<1>1. PICK l : l = Lookup(table, size, k)
  OBVIOUS
<1>2. PICK t : t = [table EXCEPT ![l] = w]
  OBVIOUS
<1>3. /\ TypeOK /\ Sound /\ Chains(table, size) /\ size \in Sizes /\ Plain
      /\ table \in [0 .. size-1 -> Slot] /\ k # NULL
  BY NullAssumption DEF MapInv, GrowInv, TypeOK
<1>4. l \in 0 .. size-1 /\ table[l].key \in {NULL, k}
  BY <1>1, LookupInTable DEF At
<1>5. t \in [0 .. size-1 -> Slot] /\ Chains(t, size)
  BY <1>1, <1>2, <1>3, WriteIsSafe
<1>6. t[l] = w /\ \A s \in 0 .. size-1 : s # l => t[s] = table[s]
  BY <1>2, <1>3, <1>4
<1>7. ASSUME NEW r \in 0 .. size-1, NEW s \in 0 .. size-1, t[r].key = t[s].key, t[r].key # NULL
      PROVE  r = s
  <2>1. r \in Occupied(t, size) /\ s \in Occupied(t, size)
    BY <1>7 DEF Occupied
  <2>2. Lookup(t, size, t[r].key) = r /\ Lookup(t, size, t[s].key) = s
    BY <1>3, <1>5, <2>1, FoundWhere
  <2> QED BY <1>7, <2>2
<1>8. ASSUME NEW s \in 0 .. size-1, t[s].key = k PROVE t[s] = w
  BY <1>3, <1>4, <1>6, <1>7, <1>8
<1>9. \A s \in 0 .. size-1 : t[s].blob = NULL /\ (t[s].key = NULL => t[s].val = NULL)
  BY <1>3, <1>6 DEF Plain
<1>10. \A s \in 0 .. size-1 : /\ table[s].key \notin {k, NULL} => t[s] = table[s]
                              /\ t[s].key \notin {k, NULL} => t[s] = table[s]
  BY <1>4, <1>6
<1>11. Wrote(t, k, w)
  BY <1>4, <1>5, <1>6, <1>7, <1>8, <1>9, <1>10 DEF Wrote
<1> QED BY <1>1, <1>2, <1>11

\* What an addition does to the map: k has its new string, whether the table
\* grows or not, and no other key changes.
LEMMA AddMaps ==
  ASSUME MapInv, pending = <<>>, fill < MaxFill,
         NEW k \in Keys, NEW w \in Slot, w.key = k, w.blob = NULL,
         Settle([table EXCEPT ![Lookup(table, size, k)] = w], <<>>)
  PROVE  /\ Plain' /\ CopiesApart' /\ Strings(k, w.val)'
         /\ \A j \in Keys \ {k} : \A u : Strings(j, u) => Strings(j, u)'
<1>1. PICK t : t = [table EXCEPT ![Lookup(table, size, k)] = w]
  OBVIOUS
<1>2. Wrote(t, k, w) /\ Settle(t, <<>>)
  BY <1>1, WriteChangesOne
<1>3. /\ TypeOK /\ Sound /\ size \in Nat /\ NULL \notin Keys
      /\ used <= fill /\ fill + 1 <= MaxFill /\ CopiesLeft = {}
  BY SizeAssumption, NullAssumption DEF MapInv, GrowInv, TypeOK, Sound, Counters, CopiesLeft
<1>4. BigEnough(Inc(used)) # {} /\ NewSize(Inc(used)) \in Sizes
  BY <1>3, GrowthFits
<1>5. CASE table' = t /\ size' = size /\ pending' = <<>>
  <2>1. CopiesLeft' = {}
    BY <1>5 DEF CopiesLeft
  <2>2. Plain'
    BY <1>2, <1>5, <2>1 DEF Plain, Wrote
  <2>3. CopiesApart'
    BY <2>1 DEF CopiesApart
  <2>4. Strings(k, w.val)'
    BY <1>2, <1>5 DEF Strings, Wrote
  <2>5. ASSUME NEW j \in Keys \ {k}, NEW u, Strings(j, u) PROVE Strings(j, u)'
    <3>1. CASE \E s \in 0 .. size-1 : table[s].key = j /\ table[s].val = u
      BY <1>2, <1>3, <1>5, <3>1 DEF Strings, Wrote
    <3>2. CASE u = NULL /\ \A s \in 0 .. size-1 : table[s].key # j
      BY <1>2, <1>3, <1>5, <2>1, <3>2 DEF Strings, Wrote
    <3> QED BY <1>3, <2>5, <3>1, <3>2 DEF Strings
  <2> QED BY <2>2, <2>3, <2>4, <2>5
<1>6. CASE /\ size' = NewSize(Inc(used)) /\ table' = FreshTable(NewSize(Inc(used)))
           /\ pending' = Append(<<>>, Items(t, size))
  <2>1. pending' = <<Items(t, size)>> /\ pending' # <<>>
    BY <1>6
  <2>2. CopiesLeft' = Items(t, size)
    BY <2>1 DEF CopiesLeft
  <2>3. \A s \in 0 .. size'-1 : table'[s] = FreeSlot
    BY <1>6 DEF FreshTable
  <2>4. \A i \in Items(t, size) : \E s \in 0 .. size-1 : t[s].key # NULL /\ i = ItemAt(t, s)
    BY DEF Items, Occupied
  <2>5. \A s \in 0 .. size-1 : t[s].key # NULL => ItemAt(t, s) \in Items(t, size)
    BY DEF Items, Occupied
  <2>6. \A s : /\ ItemAt(t, s).key = t[s].key /\ ItemAt(t, s).val = t[s].val
               /\ ItemAt(t, s).blob = t[s].blob
    BY DEF ItemAt
  <2>7. Plain'
    BY <1>2, <2>2, <2>3, <2>4, <2>6 DEF Plain, Wrote, FreeSlot
  <2>8. CopiesApart'
    <3>1. \A i, j \in Items(t, size) : i.key = j.key => i = j
      <4> SUFFICES ASSUME NEW i \in Items(t, size), NEW j \in Items(t, size), i.key = j.key
                   PROVE  i = j
        OBVIOUS
      <4>1. PICK r \in 0 .. size-1 : t[r].key # NULL /\ i = ItemAt(t, r)
        BY <2>4
      <4>2. PICK s \in 0 .. size-1 : t[s].key # NULL /\ j = ItemAt(t, s)
        BY <2>4
      <4>3. t[r].key = t[s].key
        BY <2>6, <4>1, <4>2
      <4>4. r = s
        BY <1>2, <4>1, <4>3 DEF Wrote
      <4> QED BY <4>1, <4>2, <4>4
    <3>2. \A i \in Items(t, size) : i.key # NULL
      BY <2>4, <2>6
    <3> QED BY <2>2, <2>3, <3>1, <3>2 DEF CopiesApart, FreeSlot
  <2>9. Strings(k, w.val)'
    <3>1. PICK s \in 0 .. size-1 : t[s] = w
      BY <1>2 DEF Wrote
    <3>2. ItemAt(t, s) \in CopiesLeft' /\ ItemAt(t, s).key = k /\ ItemAt(t, s).val = w.val
      BY <1>3, <2>2, <2>5, <2>6, <3>1
    <3> QED BY <3>2 DEF Strings
  <2>10. ASSUME NEW j \in Keys \ {k}, NEW u, Strings(j, u) PROVE Strings(j, u)'
    <3>1. CASE \E s \in 0 .. size-1 : table[s].key = j /\ table[s].val = u
      <4>1. PICK s \in 0 .. size-1 : table[s].key = j /\ table[s].val = u
        BY <3>1
      <4>2. t[s] = table[s]
        BY <1>2, <1>3, <4>1 DEF Wrote
      <4>3. ItemAt(t, s) \in CopiesLeft' /\ ItemAt(t, s).key = j /\ ItemAt(t, s).val = u
        BY <1>3, <2>2, <2>5, <2>6, <4>1, <4>2
      <4> QED BY <4>3 DEF Strings
    <3>2. CASE u = NULL /\ \A s \in 0 .. size-1 : table[s].key # j
      <4>1. \A s \in 0 .. size-1 : t[s].key # j
        BY <1>2, <1>3, <3>2 DEF Wrote
      <4>2. \A item \in CopiesLeft' : item.key # j
        BY <2>2, <2>4, <2>6, <4>1
      <4>3. \A s \in 0 .. size'-1 : table'[s].key # j
        BY <1>3, <2>3 DEF FreeSlot
      <4> QED BY <3>2, <4>2, <4>3 DEF Strings
    <3> QED BY <1>3, <2>10, <3>1, <3>2 DEF Strings
  <2> QED BY <2>7, <2>8, <2>9, <2>10
<1> QED BY <1>2, <1>4, <1>5, <1>6 DEF Settle

\* What one iteration of the copy loop does to the map: nothing.
LEMMA ReinsertMaps ==
  ASSUME MapInv, Reinsert
  PROVE  /\ Plain' /\ CopiesApart'
         /\ \A j \in Keys : \A u : Strings(j, u) => Strings(j, u)'
<1>1. /\ TypeOK /\ Sound /\ NoNestedResize /\ size \in Nat /\ NULL \notin Keys
      /\ fill \in Nat /\ MaxFill \in Nat
  BY SizeAssumption, NullAssumption DEF MapInv, GrowInv, TypeOK, Sound
<1>2. /\ pending # <<>> /\ Len(pending) = 1 /\ pending[1] \in Copies
      /\ SubSeq(pending, 1, Len(pending) - 1) = <<>> /\ CopiesLeft = pending[1]
  <2>1. pending # <<>> /\ Len(pending) = 1 /\ pending[1] \in Copies
    BY <1>1, OneCopy DEF Reinsert
  <2>2. SubSeq(pending, 1, 0) = <<>>
    BY SubSeqEmpty
  <2> QED BY <2>1, <2>2 DEF CopiesLeft
<1>3. PICK item \in CopiesLeft :
        Settle([table EXCEPT ![Lookup(table, size, item.key)] =
                   [key |-> item.key, val |-> item.val, blob |-> @.blob]],
               IF CopiesLeft = {item} THEN <<>> ELSE Append(<<>>, CopiesLeft \ {item}))
  BY <1>2 DEF Reinsert
<1>4. PICK k : k = item.key
  OBVIOUS
<1>5. /\ k \in Keys /\ item.val \in Vals \cup {NULL}
      /\ \A s \in 0 .. size-1 : table[s].key # k
  BY <1>2, <1>3, <1>4 DEF MapInv, CopiesApart, Copies, Item
<1>6. PICK w : w = [key |-> k, val |-> item.val, blob |-> At(k).blob]
  OBVIOUS
<1>7. w \in Slot /\ w.key = k /\ w.val = item.val /\ w.blob = NULL
  <2>1. At(k).blob = NULL
    BY <1>5, LookupInTable DEF MapInv, Plain, At
  <2> QED BY <1>5, <1>6, <2>1 DEF Slot
<1>8. PICK t : t = [table EXCEPT ![Lookup(table, size, k)] = w]
  OBVIOUS
<1>9. Wrote(t, k, w)
  BY <1>5, <1>7, <1>8, WriteChangesOne
<1>10. Settle(t, IF CopiesLeft = {item} THEN <<>> ELSE Append(<<>>, CopiesLeft \ {item}))
  BY <1>3, <1>4, <1>6, <1>8 DEF At
<1>11. ~NeedsResize(fill + 1)
  <2>1. /\ IsFiniteSet(CopiesLeft) /\ 2 * (fill + Cardinality(CopiesLeft)) < size
    BY <1>1, <1>2 DEF Sound, Counters
  <2>2. Cardinality(CopiesLeft) \in Nat /\ Cardinality(CopiesLeft) # 0
    BY <1>3, <2>1, FS_CardinalityType, FS_EmptySet
  <2> QED BY <1>1, <2>1, <2>2 DEF NeedsResize
<1>12. /\ table' = t /\ size' = size
       /\ pending' = IF CopiesLeft = {item} THEN <<>> ELSE Append(<<>>, CopiesLeft \ {item})
  BY <1>10, <1>11 DEF Settle
<1>13. CopiesLeft' = CopiesLeft \ {item}
  <2>1. CASE CopiesLeft = {item}
    BY <1>12, <2>1 DEF CopiesLeft
  <2>2. CASE CopiesLeft # {item}
    <3>1. PICK left : left = CopiesLeft \ {item}
      OBVIOUS
    <3>2. pending' = <<left>> /\ pending' # <<>>
      BY <1>12, <2>2, <3>1
    <3>3. CopiesLeft' = left
      BY <3>2 DEF CopiesLeft
    <3> QED BY <3>1, <3>3
  <2> QED BY <2>1, <2>2
<1>14. Plain'
  BY <1>9, <1>12, <1>13 DEF MapInv, Plain, Wrote
<1>15. \A i \in CopiesLeft \ {item} : i.key \in Keys /\ i.key # k
  BY <1>2, <1>3, <1>4 DEF MapInv, CopiesApart, Copies, Item
<1>16. CopiesApart'
  <2>1. \A i \in CopiesLeft \ {item}, s \in 0 .. size-1 : t[s].key # i.key
    BY <1>1, <1>9, <1>15 DEF MapInv, CopiesApart, Wrote
  <2> QED BY <1>12, <1>13, <2>1 DEF MapInv, CopiesApart
<1>17. ASSUME NEW j \in Keys, NEW u, Strings(j, u) PROVE Strings(j, u)'
  <2>1. CASE \E i \in CopiesLeft : i.key = j /\ i.val = u
    <3>1. PICK i \in CopiesLeft : i.key = j /\ i.val = u
      BY <2>1
    <3>2. CASE i = item
      <4>1. \E s \in 0 .. size-1 : t[s].key = j /\ t[s].val = u
        BY <1>4, <1>7, <1>9, <3>1, <3>2 DEF Wrote
      <4> QED BY <1>12, <4>1 DEF Strings
    <3>3. CASE i # item
      BY <1>13, <3>1, <3>3 DEF Strings
    <3> QED BY <3>2, <3>3
  <2>2. CASE \E s \in 0 .. size-1 : table[s].key = j /\ table[s].val = u
    <3>1. \E s \in 0 .. size-1 : t[s].key = j /\ t[s].val = u
      BY <1>1, <1>5, <1>9, <2>2 DEF Wrote
    <3> QED BY <1>12, <3>1 DEF Strings
  <2>3. CASE /\ u = NULL /\ \A i \in CopiesLeft : i.key # j
             /\ \A s \in 0 .. size-1 : table[s].key # j
    <3>1. j # k /\ j # NULL
      BY <1>1, <1>3, <1>4, <2>3
    <3>2. \A s \in 0 .. size-1 : t[s].key # j
      BY <1>9, <2>3, <3>1 DEF Wrote
    <3> QED BY <1>12, <1>13, <2>3, <3>2 DEF Strings
  <2> QED BY <1>17, <2>1, <2>2, <2>3 DEF Strings
<1> QED BY <1>14, <1>16, <1>17

\* What a caller sees of the map is what the invariant says is there.
LEMMA WhatCallersSee ==
  MapInv => /\ \A k \in Keys : \A v : Strings(k, v) => ValueOf(k) = v
            /\ BlobsFound = {}
BY StringsAreValues, NoBlobs

\* Every step of the dictionary is a step of the map, or none.
LEMMA StepIsMapStep ==
  ASSUME OnlyStrings
  PROVE  MapInv /\ [NextGrow]_vars => MapInv' /\ [Contract!Next]_(Contract!vars)
<1> SUFFICES ASSUME MapInv, [NextGrow]_vars PROVE MapInv' /\ [Contract!Next]_(Contract!vars)
  OBVIOUS
<1> DEFINE store == [k \in Keys |-> ValueOf(k)]
<1>1. GrowInv' /\ NULL \notin Vals /\ Keys = ValKeys
  BY StepKeepsGrow, NullAssumption DEF MapInv, OnlyStrings, Keys
<1>2. (MapInv => /\ \A k \in Keys : \A v : Strings(k, v) => ValueOf(k) = v
                 /\ BlobsFound = {})'
  BY WhatCallersSee, PTL
<1>3. ASSUME MapInv', NEW j \in Keys, \A u : Strings(j, u) => Strings(j, u)'
      PROVE  ValueOf(j)' = ValueOf(j)
  <2>1. PICK u : Strings(j, u)
    BY SomeString
  <2> QED BY <1>2, <1>3, <2>1, StringsAreValues
<1>4. ASSUME MapInv', \A j \in Keys : \A u : Strings(j, u) => Strings(j, u)'
      PROVE  store' = store /\ BlobsFound' = BlobsFound
  BY <1>2, <1>3, <1>4, NoBlobs
<1>5. ASSUME NEW k \in ValKeys, NEW v \in ValsOf[k], Add(k, v)
      PROVE  MapInv' /\ Contract!Add(k, v)
  <2>1. PICK w : w = [key |-> k, val |-> v, blob |-> At(k).blob]
    OBVIOUS
  <2>2. /\ w \in Slot /\ w.key = k /\ w.val = v /\ w.blob = NULL
        /\ k \in Keys /\ pending = <<>> /\ fill < MaxFill /\ ret' = Ok
    <3>1. At(k).blob = NULL
      BY <1>1, LookupInTable DEF MapInv, Plain, At
    <3>2. v \in Vals
      BY DEF Vals
    <3> QED BY <1>1, <1>5, <2>1, <3>1, <3>2 DEF Slot, Add, Idle
  <2>3. Settle([table EXCEPT ![Lookup(table, size, k)] = w], <<>>)
    BY <1>5, <2>1 DEF Add, At
  <2>4. /\ Plain' /\ CopiesApart' /\ Strings(k, w.val)'
        /\ \A j \in Keys \ {k} : \A u : Strings(j, u) => Strings(j, u)'
    BY <2>2, <2>3, AddMaps
  <2>5. MapInv'
    BY <1>1, <2>4 DEF MapInv
  <2>6. ValueOf(k)' = v
    BY <1>2, <2>2, <2>4, <2>5
  <2>7. \A j \in Keys \ {k} : ValueOf(j)' = ValueOf(j)
    BY <1>3, <2>4, <2>5
  <2>8. store' = [store EXCEPT ![k] = v]
    BY <2>2, <2>6, <2>7
  <2>9. BlobsFound' = BlobsFound
    BY <1>2, <2>5, NoBlobs
  <2> QED BY <2>2, <2>5, <2>8, <2>9 DEF Contract!Add
<1>6. CASE Reinsert
  <2>1. /\ Plain' /\ CopiesApart' /\ ret' = ret
        /\ \A j \in Keys : \A u : Strings(j, u) => Strings(j, u)'
    BY <1>6, ReinsertMaps DEF Reinsert
  <2>2. MapInv'
    BY <1>1, <2>1 DEF MapInv
  <2> QED BY <1>4, <2>1, <2>2 DEF Contract!vars
<1>7. ASSUME UNCHANGED <<table, size, used, fill, pending, hung, strayed>>
      PROVE  MapInv' /\ store' = store /\ BlobsFound' = BlobsFound
  <2>1. CopiesLeft' = CopiesLeft
    BY <1>7 DEF CopiesLeft
  <2>2. MapInv'
    BY <1>1, <1>7, <2>1 DEF MapInv, Plain, CopiesApart
  <2>3. \A j \in Keys : \A u : Strings(j, u) => Strings(j, u)'
    BY <1>7, <2>1 DEF Strings
  <2> QED BY <1>4, <2>2, <2>3
<1>8. ASSUME NEW k \in ValKeys, NEW d \in Defaults, Get(k, d)
      PROVE  MapInv' /\ Contract!Get(k, d)
  <2>1. MapInv' /\ store' = store /\ BlobsFound' = BlobsFound
    BY <1>7, <1>8 DEF Get
  <2>2. ret' = At(k).val /\ pending = <<>> /\ d = NULL /\ k \in Keys
    BY <1>1, <1>8 DEF Get, Idle, OnlyStrings
  <2>3. Waiting(k) = {}
    BY <2>2 DEF Waiting
  <2>4. store[k] = At(k).val
    BY <2>2, <2>3, LookupInTable DEF ValueOf
  <2> QED BY <2>1, <2>2, <2>4 DEF Contract!Get
<1>9. ~LookupForever
  <2>1. TypeOK /\ Sound /\ NoNestedResize
    BY DEF MapInv, GrowInv, Sound
  <2> QED BY <2>1, LookedUpAreKeys, SoundFinds DEF LookupForever
<1>10. CASE UNCHANGED vars
  BY <1>7, <1>10 DEF vars, Contract!vars
<1>11. \A k \in ValKeys : ValsOf[k] \subseteq Vals
  BY DEF Vals
<1>12. BlobKeys = {}
  BY DEF OnlyStrings
<1> QED
  BY <1>5, <1>6, <1>8, <1>9, <1>10, <1>11, <1>12 DEF NextGrow, Grow, Contract!Next

\* A new dictionary is the empty map.
LEMMA InitMap == Init => MapInv /\ Contract!Init
<1> SUFFICES ASSUME Init PROVE MapInv /\ Contract!Init
  OBVIOUS
<1>1. GrowInv /\ size \in Nat /\ CopiesLeft = {}
  BY InitSound, SizeAssumption DEF GrowInv, TypeOK, Init, CopiesLeft
<1>2. \A s \in 0 .. size-1 : table[s] = FreeSlot
  BY DEF Init, FreshTable
<1>3. MapInv
  BY <1>1, <1>2, NullAssumption DEF MapInv, Plain, CopiesApart, FreeSlot
<1>4. ASSUME NEW k \in Keys PROVE ValueOf(k) = NULL
  <2>1. Strings(k, NULL)
    BY <1>1, <1>2, NullAssumption DEF Strings, FreeSlot
  <2> QED BY <1>3, <2>1, StringsAreValues
<1>5. BlobsFound = {}
  BY <1>3, NoBlobs
<1> QED BY <1>3, <1>4, <1>5 DEF Contract!Init, Contract!Keys, Keys, Init

\* Of a dictionary that only grows, and holds strings alone, callers see the
\* map dict.h promises: what was last added under a key is what dict_get
\* returns, however often the table grew and whatever was added besides.
THEOREM GrowIsMap ==
  ASSUME OnlyStrings
  PROVE  SpecGrow => ImplementsContract
<1>1. MapInv /\ [NextGrow]_vars => MapInv' /\ [Contract!Next]_(Contract!vars)
  BY StepIsMapStep
<1> QED BY InitMap, <1>1, PTL DEF SpecGrow, ImplementsContract, Contract!Spec
=============================================================================
