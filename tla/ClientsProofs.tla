---------------------------- MODULE ClientsProofs ----------------------------
(***************************************************************************)
(* For any number of clients, descriptors and callsigns, any hashes and    *)
(* whatever a new client finds in its memory: until the tables grow, no    *)
(* two clients have one callsign, no connection is turned away as unknown, *)
(* and the connections are counted.                                        *)
(***************************************************************************)
EXTENDS Clients, FiniteSetTheorems, WellFoundedInduction, TLAPS

Keys == Calls \cup Fd

\* Every non-empty set of naturals has a least element.  (The initial
\* segments below its elements are finite sets, well-founded by inclusion.)
LEMMA LeastNatural ==
  ASSUME NEW S \in SUBSET Nat, S # {}
  PROVE  \E m \in S : \A n \in S : m <= n
<1> DEFINE T == {0 .. m : m \in S}
<1>1. T \subseteq FiniteSubsetsOf(Nat) /\ T # {}
  <2>1. ASSUME NEW m \in S PROVE 0 .. m \in FiniteSubsetsOf(Nat)
    <3>1. m \in Int /\ 0 \in Int /\ 0 .. m \in SUBSET Nat
      OBVIOUS
    <3>2. IsFiniteSet(0 .. m)
      BY <3>1, FS_Interval
    <3> QED BY <3>1, <3>2 DEF FiniteSubsetsOf
  <2> QED BY <2>1
<1>2. PICK x \in T : \A y \in T : <<y, x>> \notin StrictSubsetOrdering(Nat)
  <2> HIDE DEF T
  <2> QED BY <1>1, FS_StrictSubsetOrderingWellFounded, WFMin
<1>3. PICK m \in S : x = 0 .. m
  OBVIOUS
<1>4. ASSUME NEW n \in S PROVE m <= n
  <2>1. SUFFICES ASSUME n < m PROVE FALSE
    OBVIOUS
  <2>2. 0 .. n \subseteq 0 .. m /\ m \in 0 .. m /\ m \notin 0 .. n
    BY <2>1
  <2>3. <<0 .. n, 0 .. m>> \in StrictSubsetOrdering(Nat)
    BY <2>2 DEF StrictSubsetOrdering
  <2> QED BY <1>2, <1>3, <2>3
<1> QED BY <1>4


\* dict_lookup returns a slot to stop at, and no such slot is visited before.
LEMMA LookupFirst ==
  ASSUME NEW n \in Sizes, NEW k \in Keys, NEW t, Candidates(t, n, k) # {}
  PROVE  /\ Lookup(t, n, k) \in Candidates(t, n, k)
         /\ \A c \in Candidates(t, n, k) :
              Rank(k, n, Lookup(t, n, k)) <= Rank(k, n, c)
<1> DEFINE C == Candidates(t, n, k)
           R == {Rank(k, n, s) : s \in C}
<1>1. C \subseteq 0 .. n-1
  BY DEF Candidates
<1>2. R \in SUBSET Nat /\ R # {}
  BY <1>1, ProbeAssumption DEF Keys
<1>3. PICK m \in R : \A r \in R : m <= r
  <2> HIDE DEF R
  <2> QED BY <1>2, LeastNatural
<1>4. PICK s \in C : m = Rank(k, n, s)
  BY <1>3
<1>5. \A c \in C : Rank(k, n, s) <= Rank(k, n, c)
  BY <1>3, <1>4
<1> QED BY <1>5 DEF Lookup

\* The slots of a table that has not grown, and what is known of one.
Slots == 0 .. MinSize-1

At0(t, k) == Lookup(t, MinSize, k)

Stops(t, k) == Candidates(t, MinSize, k)

\* Every key has a blob beside it.
Kept(t) == \A s \in Slots : t[s].key # NULL => t[s].blob # NULL

Table(t, K) == t \in [Slots -> [key : K \cup {NULL}, blob : {NULL, ParamAddr}]] /\ Kept(t)

\* Lookup of k, if it returns, finds a blob.
Leads(t, k) == Stops(t, k) # {} => t[At0(t, k)].blob # NULL

\* The key f is there, and every slot probed on the way to it has a blob.
Holds(t, f) ==
  \E v \in Slots :
    /\ t[v].key = f
    /\ \A s \in Slots : Rank(f, MinSize, s) < Rank(f, MinSize, v) => t[s].blob # NULL

\* The lookup of a table that has not grown, and that it is the only slot
\* probed so early.
LEMMA LookupStops ==
  ASSUME NEW k \in Keys, NEW t, Stops(t, k) # {}
  PROVE  /\ At0(t, k) \in Slots /\ t[At0(t, k)].key \in {NULL, k}
         /\ \A s \in Slots : t[s].key \in {NULL, k} =>
              Rank(k, MinSize, At0(t, k)) <= Rank(k, MinSize, s)
BY LookupFirst, TableAssumption DEF At0, Stops, Slots, Candidates

LEMMA OneRank ==
  ASSUME NEW k \in Keys, NEW s \in Slots, NEW r \in Slots
  PROVE  /\ Rank(k, MinSize, s) \in Nat
         /\ Rank(k, MinSize, s) = Rank(k, MinSize, r) => s = r
BY ProbeAssumption, TableAssumption DEF Keys, Slots

\* A slot to stop at that is probed first is the one lookup returns.
LEMMA LookupIs ==
  ASSUME NEW k \in Keys, NEW t, NEW s \in Slots, t[s].key \in {NULL, k},
         \A r \in Slots : t[r].key \in {NULL, k} => Rank(k, MinSize, s) <= Rank(k, MinSize, r)
  PROVE  Stops(t, k) # {} /\ At0(t, k) = s
<1>1. Stops(t, k) # {}
  BY DEF Stops, Candidates, Slots
<1>2. /\ At0(t, k) \in Slots
      /\ Rank(k, MinSize, At0(t, k)) <= Rank(k, MinSize, s)
      /\ Rank(k, MinSize, s) <= Rank(k, MinSize, At0(t, k))
  BY <1>1, LookupStops
<1> QED BY <1>1, <1>2, OneRank

\* A descriptor that is held is found.
LEMMA HeldIsFound ==
  ASSUME NEW f \in Fd, NEW t, Kept(t), Holds(t, f)
  PROVE  Stops(t, f) # {} /\ t[At0(t, f)].blob # NULL
<1>1. PICK v \in Slots : /\ t[v].key = f
                        /\ \A s \in Slots :
                             Rank(f, MinSize, s) < Rank(f, MinSize, v) => t[s].blob # NULL
  BY DEF Holds
<1>2. f \in Keys /\ f # NULL /\ Stops(t, f) # {}
  BY <1>1, ClientsAssumption DEF Stops, Candidates, Slots, Keys
<1>3. At0(t, f) \in Slots /\ Rank(f, MinSize, At0(t, f)) <= Rank(f, MinSize, v)
  BY <1>1, <1>2, LookupStops
<1>4. CASE At0(t, f) = v
  BY <1>1, <1>2, <1>4 DEF Kept
<1>5. CASE At0(t, f) # v
  <2>1. Rank(f, MinSize, At0(t, f)) < Rank(f, MinSize, v)
    BY <1>2, <1>3, <1>5, OneRank
  <2> QED BY <1>1, <1>2, <1>3, <2>1
<1> QED BY <1>4, <1>5

-----------------------------------------------------------------------------
(* Freeing a slot.                                                         *)

Freed(t, k) == [t EXCEPT ![At0(t, k)].key = NULL]

\* What freeing a slot leaves.
LEMMA FreedIs ==
  ASSUME NEW K \in {Calls, Fd}, NEW k \in K, NEW t, Table(t, K), Stops(t, k) # {}
  PROVE  /\ Table(Freed(t, k), K)
         /\ At0(t, k) \in Slots
         /\ Freed(t, k)[At0(t, k)].key = NULL
         /\ \A s \in Slots : /\ Freed(t, k)[s].blob = t[s].blob
                             /\ s # At0(t, k) => Freed(t, k)[s].key = t[s].key
<1>1. At0(t, k) \in Slots
  BY LookupStops DEF Keys
<1> QED BY <1>1 DEF Freed, Table, Kept

\* Other descriptors stay held.
LEMMA FreedHolds ==
  ASSUME NEW k \in Fd, NEW f \in Fd, f # k, NEW t, Table(t, Fd), Stops(t, k) # {}, Holds(t, f)
  PROVE  Holds(Freed(t, k), f)
<1>1. k \in Keys /\ Fd \subseteq Keys /\ f # NULL
  BY ClientsAssumption DEF Keys
<1>2. PICK v \in Slots : /\ t[v].key = f
                        /\ \A s \in Slots :
                             Rank(f, MinSize, s) < Rank(f, MinSize, v) => t[s].blob # NULL
  BY DEF Holds
<1>3. v # At0(t, k)
  BY <1>1, <1>2, LookupStops
<1> QED BY <1>1, <1>2, <1>3, FreedIs DEF Holds

\* Whatever led to a blob still does: to the same one, or to the one left
\* where the key was.
LEMMA FreedLeads ==
  ASSUME NEW k \in Calls, NEW n \in Calls, NEW t, Table(t, Calls), Stops(t, k) # {}, Leads(t, n)
  PROVE  Leads(Freed(t, k), n)
<1> DEFINE u == Freed(t, k)
           l == At0(u, n)
<1>1. k \in Keys /\ n \in Keys /\ Calls \subseteq Keys
  BY DEF Keys
<1>2. /\ At0(t, k) \in Slots /\ u[At0(t, k)].key = NULL
      /\ \A s \in Slots : u[s].blob = t[s].blob /\ (s # At0(t, k) => u[s].key = t[s].key)
  BY <1>1, FreedIs
<1> SUFFICES ASSUME Stops(u, n) # {} PROVE u[l].blob # NULL
  BY DEF Leads
<1> HIDE DEF u
<1>3. /\ l \in Slots /\ u[l].key \in {NULL, n}
      /\ \A s \in Slots : u[s].key \in {NULL, n} => Rank(n, MinSize, l) <= Rank(n, MinSize, s)
  BY <1>1, LookupStops
<1>4. CASE t[l].key \in {NULL, n}
  <2>1. \A s \in Slots : t[s].key \in {NULL, n} => u[s].key \in {NULL, n}
    BY <1>2
  <2>2. Stops(t, n) # {} /\ At0(t, n) = l
    BY <1>1, <1>3, <1>4, <2>1, LookupIs
  <2> QED BY <1>2, <1>3, <2>2 DEF Leads
<1>5. CASE t[l].key \notin {NULL, n}
  BY <1>2, <1>3, <1>5 DEF Table, Kept
<1> QED BY <1>4, <1>5

-----------------------------------------------------------------------------
(* Writing a slot.                                                         *)

Put(t, k) == [t EXCEPT ![At0(t, k)] = [key |-> k, blob |-> ParamAddr]]

\* What writing a slot leaves.
LEMMA PutIs ==
  ASSUME NEW K \in {Calls, Fd}, NEW k \in K, NEW t, Table(t, K), Stops(t, k) # {}
  PROVE  /\ Table(Put(t, k), K)
         /\ At0(t, k) \in Slots
         /\ Put(t, k)[At0(t, k)].key = k /\ Put(t, k)[At0(t, k)].blob # NULL
         /\ \A s \in Slots : /\ t[s].blob # NULL => Put(t, k)[s].blob # NULL
                             /\ s # At0(t, k) => Put(t, k)[s] = t[s]
<1>1. At0(t, k) \in Slots
  BY LookupStops DEF Keys
<1>2. Put(t, k)[At0(t, k)] = [key |-> k, blob |-> ParamAddr]
      /\ \A s \in Slots : s # At0(t, k) => Put(t, k)[s] = t[s]
  BY <1>1 DEF Put, Table
<1>3. Put(t, k) \in [Slots -> [key : K \cup {NULL}, blob : {NULL, ParamAddr}]]
  BY <1>1 DEF Put, Table
<1> QED BY <1>1, <1>2, <1>3, TableAssumption DEF Table, Kept

\* The descriptor written is held, and so are those that were.
LEMMA PutHolds ==
  ASSUME NEW k \in Fd, NEW f \in Fd, NEW t, Table(t, Fd), Stops(t, k) # {},
         f = k \/ Holds(t, f)
  PROVE  Holds(Put(t, k), f)
<1>1. k \in Keys /\ Fd \subseteq Keys /\ f # NULL
  BY ClientsAssumption DEF Keys
<1>2. /\ At0(t, k) \in Slots /\ t[At0(t, k)].key \in {NULL, k}
      /\ \A s \in Slots : t[s].key \in {NULL, k} =>
           Rank(k, MinSize, At0(t, k)) <= Rank(k, MinSize, s)
  BY <1>1, LookupStops
<1>3. CASE f = k
  <2>1. ASSUME NEW s \in Slots, Rank(k, MinSize, s) < Rank(k, MinSize, At0(t, k))
        PROVE  Put(t, k)[s].blob # NULL
    <3>1. t[s].key # NULL
      BY <1>1, <1>2, <2>1, OneRank
    <3> QED BY <1>1, <3>1, PutIs DEF Table, Kept
  <2> QED BY <1>1, <1>3, <2>1, PutIs DEF Holds
<1>4. CASE f # k
  <2>1. PICK v \in Slots : /\ t[v].key = f
                          /\ \A s \in Slots :
                               Rank(f, MinSize, s) < Rank(f, MinSize, v) => t[s].blob # NULL
    BY <1>4 DEF Holds
  <2>2. v # At0(t, k)
    BY <1>1, <1>2, <1>4, <2>1
  <2> QED BY <1>1, <2>1, <2>2, PutIs DEF Holds
<1> QED BY <1>3, <1>4

\* The callsign written leads to its blob.
LEMMA PutLeads ==
  ASSUME NEW k \in Calls, NEW t, Table(t, Calls), Stops(t, k) # {}
  PROVE  Leads(Put(t, k), k)
<1>1. k \in Keys /\ Calls \subseteq Keys
  BY DEF Keys
<1>2. /\ At0(t, k) \in Slots /\ Put(t, k)[At0(t, k)].key = k
      /\ Put(t, k)[At0(t, k)].blob # NULL
      /\ \A s \in Slots : s # At0(t, k) => Put(t, k)[s] = t[s]
  BY <1>1, PutIs
<1>3. \A s \in Slots : Put(t, k)[s].key \in {NULL, k} =>
        Rank(k, MinSize, At0(t, k)) <= Rank(k, MinSize, s)
  BY <1>1, <1>2, LookupStops, OneRank
<1>4. At0(Put(t, k), k) = At0(t, k)
  BY <1>1, <1>2, <1>3, LookupIs
<1> QED BY <1>2, <1>4 DEF Leads

\* A callsign that was looked up in t and led nowhere is put where that lookup
\* stopped: everything that led to a blob still does, since it stopped before.
LEMMA PutKeeps ==
  ASSUME NEW k \in Calls, NEW n \in Calls, n # k, NEW t, Table(t, Calls), Stops(t, k) # {},
         t[At0(t, k)].blob = NULL, Leads(t, n)
  PROVE  Leads(Put(t, k), n)
<1> DEFINE u == Put(t, k)
           l == At0(u, n)
           s0 == At0(t, k)
<1>1. k \in Keys /\ n \in Keys /\ Calls \subseteq Keys
  BY DEF Keys
<1>2. /\ s0 \in Slots /\ u[s0].key = k /\ t[s0].key = NULL
      /\ \A s \in Slots : s # s0 => u[s] = t[s]
  BY <1>1, PutIs, LookupStops DEF Table, Kept
<1>3. Stops(t, n) # {} /\ t[At0(t, n)].blob # NULL
  BY <1>2 DEF Leads, Stops, Candidates, Slots
<1>4. /\ At0(t, n) \in Slots /\ t[At0(t, n)].key \in {NULL, n} /\ At0(t, n) # s0
      /\ \A s \in Slots : t[s].key \in {NULL, n} =>
           Rank(n, MinSize, At0(t, n)) <= Rank(n, MinSize, s)
  BY <1>1, <1>3, LookupStops
<1>5. u[At0(t, n)].key \in {NULL, n} /\ u[At0(t, n)].blob # NULL
  BY <1>2, <1>3, <1>4
<1>6. \A s \in Slots : u[s].key \in {NULL, n} => t[s].key \in {NULL, n}
  BY <1>2
<1> HIDE DEF u
<1>7. At0(u, n) = At0(t, n)
  BY <1>1, <1>4, <1>5, <1>6, LookupIs
<1> QED BY <1>5, <1>7 DEF Leads, u

-----------------------------------------------------------------------------
(* The calls of the dictionary, in terms of the two.                       *)

\* `while (newsize <= factor * used)`, when it ends, ends at a table size.
LEMMA NewSizeIsBigEnough ==
  ASSUME NEW d, BigEnough(d) # {}
  PROVE  NewSize(d) \in BigEnough(d)
<1>1. BigEnough(d) \in SUBSET Nat
  BY TableAssumption DEF BigEnough
<1>2. PICK m \in BigEnough(d) : \A n \in BigEnough(d) : m <= n
  BY <1>1, LeastNatural
<1> QED BY <1>2 DEF NewSize

\* dict_del frees a slot or nothing.
LEMMA DelIs ==
  ASSUME NEW d, NEW k
  PROVE  /\ Del(d, k).size = d.size
         /\ d.size = MinSize =>
              Del(d, k).table = IF Stops(d.table, k) = {} THEN d.table ELSE Freed(d.table, k)
BY DEF Del, Returns, Hang, Dict, Stops, Freed, At0

\* dict_add_blob writes a slot or nothing, or grows the table.
LEMMA AddBlobIs ==
  ASSUME NEW d, d.size \in Sizes, NEW k
  PROVE  /\ AddBlob(d, k).size \in Sizes
         /\ AddBlob(d, k).size = MinSize =>
              /\ d.size = MinSize
              /\ AddBlob(d, k).table =
                   IF Stops(d.table, k) = {} THEN d.table ELSE Put(d.table, k)
<1> DEFINE l == Lookup(d.table, d.size, k)
           e == Written(d, k)
           r == Resized(e, NewSize(e))
<1>1. Hang(d).size = d.size /\ Hang(d).table = d.table
  BY DEF Hang, Dict
<1>2. e.size = d.size /\ e.table = [d.table EXCEPT ![l] = [key |-> k, blob |-> ParamAddr]]
  BY DEF Written, Dict
<1>3. Hang(e).size = e.size /\ Hang(e).table = e.table
  BY DEF Hang, Dict
<1>4. r.size = NewSize(e)
  BY DEF Resized, Dict
<1>5. AddBlob(d, k) = IF Candidates(d.table, d.size, k) = {} THEN Hang(d) ELSE Settled(e)
  BY DEF AddBlob, Returns
<1> HIDE DEF e
<1>6. \/ Settled(e) \in {e, Hang(e)}
      \/ Settled(e) = r /\ BigEnough(e) # {} /\ NewSize(e) # e.size
  BY DEF Settled
<1>7. ASSUME BigEnough(e) # {}, NewSize(e) # e.size
      PROVE  r.size \in Sizes /\ r.size # MinSize
  <2>1. NewSize(e) \in Sizes /\ NewSize(e) >= e.size
    BY <1>7, NewSizeIsBigEnough DEF BigEnough
  <2>2. e.size \in Nat /\ NewSize(e) \in Nat /\ e.size >= MinSize /\ MinSize \in Nat
    BY <1>2, <2>1, TableAssumption
  <2> QED BY <1>4, <1>7, <2>1, <2>2
<1> HIDE DEF r
<1> QED BY <1>1, <1>2, <1>3, <1>5, <1>6, <1>7 DEF Stops, Put, At0

-----------------------------------------------------------------------------
(* The server.                                                             *)

\* What does not depend on the tables.
Base ==
  /\ alive \subseteq Obj /\ open \subseteq Fd /\ IsFiniteSet(open)
  /\ mem \in [Obj -> Client]
  /\ byFd.size \in Sizes /\ byCallsign.size \in Sizes

\* Clients_by_fd until it grows: every connection is held in it, and every
\* client has a connection of its own.
FdInv ==
  byFd.size = MinSize =>
    /\ Table(byFd.table, Fd)
    /\ ~byFd.hung => \A f \in open : Holds(byFd.table, f)
    /\ \A c \in alive : mem[c].fd \in open
    /\ \A c, d \in alive : c # d => mem[c].fd # mem[d].fd
    /\ curr = Cardinality(open)

\* Clients_by_callsign until it grows: every callsign in the memory of a
\* client, alive or not, is there once and leads to a blob.
NameInv ==
  byCallsign.size = MinSize =>
    /\ Table(byCallsign.table, Calls)
    /\ \A c \in Obj : mem[c].callsign # NULL => Leads(byCallsign.table, mem[c].callsign)
    /\ \A c, d \in Obj : c # d /\ mem[c].callsign # NULL => mem[c].callsign # mem[d].callsign

Inv == Base /\ FdInv /\ NameInv

\* Nobody is connected at first, and the tables are empty.
LEMMA InitInv == Init => Inv
<1> SUFFICES ASSUME Init PROVE Inv
  OBVIOUS
<1>1. NewDict.size = MinSize /\ MinSize \in Sizes /\ NewDict.table = FreshTable(MinSize)
  BY TableAssumption DEF NewDict, Dict
<1>2. Table(FreshTable(MinSize), Fd) /\ Table(FreshTable(MinSize), Calls)
  BY DEF Table, FreshTable, Kept, Slots
<1>3. IsFiniteSet(open) /\ Cardinality(open) = 0
  BY FS_EmptySet DEF Init
<1>4. \A c \in Obj : mem[c].callsign = NULL
  BY DEF Init, Zeroed
<1>5. mem \in [Obj -> Client]
  BY DEF Init, Zeroed, Client
<1> QED BY <1>1, <1>2, <1>3, <1>4, <1>5 DEF Init, Inv, Base, FdInv, NameInv

\* Callsigns that stay or are forgotten while the table stays.
LEMMA NamesStay ==
  ASSUME NameInv, byCallsign' = byCallsign,
         \A c \in Obj : mem'[c].callsign \in {NULL, mem[c].callsign}
  PROVE  NameInv'
BY DEF NameInv

\* The table once the callsign of c is deleted from it: whatever led to a blob
\* still does.
LEMMA DroppedLeads ==
  ASSUME Base, NameInv, NEW c \in Obj, Dropped(c).size = MinSize
  PROVE  /\ byCallsign.size = MinSize /\ Table(Dropped(c).table, Calls)
         /\ \A n \in Calls : Leads(byCallsign.table, n) => Leads(Dropped(c).table, n)
<1> DEFINE n == mem[c].callsign
           t == byCallsign.table
<1>1. n \in Calls \cup {NULL}
  BY DEF Base, Client
<1>2. CASE n = NULL
  BY <1>2 DEF Dropped, NameInv
<1>3. CASE n # NULL
  <2>1. Dropped(c) = Del(byCallsign, n)
    BY <1>3 DEF Dropped
  <2>2. byCallsign.size = MinSize /\ Table(t, Calls) /\ n \in Calls
    BY <1>1, <1>3, <2>1, DelIs DEF NameInv
  <2>3. Dropped(c).table = IF Stops(t, n) = {} THEN t ELSE Freed(t, n)
    BY <2>1, <2>2, DelIs
  <2>4. CASE Stops(t, n) = {}
    BY <2>2, <2>3, <2>4
  <2>5. CASE Stops(t, n) # {}
    BY <2>2, <2>3, <2>5, FreedIs, FreedLeads
  <2> QED BY <2>4, <2>5
<1> QED BY <1>2, <1>3

LEMMA DroppedSize ==
  ASSUME Base, NEW c \in Obj
  PROVE  Dropped(c).size = byCallsign.size
BY DelIs DEF Dropped

\* A client that leaves, or whose callsign is deleted, takes no other with it.
LEMMA NamesDropped ==
  ASSUME Base, NameInv, NEW c \in Obj, byCallsign' = Dropped(c),
         \A d \in Obj : mem'[d].callsign = mem[d].callsign
  PROVE  NameInv'
<1> SUFFICES ASSUME byCallsign'.size = MinSize
             PROVE  /\ Table(byCallsign'.table, Calls)
                    /\ \A d \in Obj : mem'[d].callsign # NULL =>
                         Leads(byCallsign'.table, mem'[d].callsign)
                    /\ \A d, e \in Obj : d # e /\ mem'[d].callsign # NULL =>
                         mem'[d].callsign # mem'[e].callsign
  BY DEF NameInv
<1>1. /\ byCallsign.size = MinSize /\ Table(byCallsign'.table, Calls)
      /\ \A n \in Calls : Leads(byCallsign.table, n) => Leads(byCallsign'.table, n)
  BY DroppedLeads
<1>2. \A d \in Obj : mem[d].callsign \in Calls \cup {NULL}
  BY DEF Base, Client
<1> QED BY <1>1, <1>2 DEF NameInv

\* A client that changes its callsign to one that find_client does not find:
\* when its old callsign is deleted, the new one goes either where that was, so
\* that every lookup of the others goes on as before, or where its lookup led
\* nowhere.
LEMMA NamesChange ==
  ASSUME Base, NameInv, NEW c \in Obj, NEW k \in Calls,
         Returns(byCallsign, k), Find(byCallsign, k) = NULL,
         byCallsign' = AddBlob(Dropped(c), k),
         mem'[c].callsign = k, \A d \in Obj \ {c} : mem'[d].callsign = mem[d].callsign
  PROVE  NameInv'
<1> SUFFICES ASSUME byCallsign'.size = MinSize
             PROVE  /\ Table(byCallsign'.table, Calls)
                    /\ \A d \in Obj : mem'[d].callsign # NULL =>
                         Leads(byCallsign'.table, mem'[d].callsign)
                    /\ \A d, e \in Obj : d # e /\ mem'[d].callsign # NULL =>
                         mem'[d].callsign # mem'[e].callsign
  BY DEF NameInv
<1> DEFINE old == mem[c].callsign
           t0 == byCallsign.table
           t1 == Dropped(c).table
           t2 == byCallsign'.table
<1>1. \A d \in Obj : mem[d].callsign \in Calls \cup {NULL}
  BY DEF Base, Client
<1>2. Dropped(c).size = byCallsign.size /\ byCallsign.size \in Sizes
  BY DroppedSize DEF Base
<1>3. Dropped(c).size = MinSize /\ t2 = IF Stops(t1, k) = {} THEN t1 ELSE Put(t1, k)
  BY <1>2, AddBlobIs
<1>4. /\ byCallsign.size = MinSize /\ Table(t0, Calls) /\ Table(t1, Calls)
      /\ \A n \in Calls : Leads(t0, n) => Leads(t1, n)
  BY <1>3, DroppedLeads DEF NameInv
<1>5. Stops(t0, k) # {} /\ t0[At0(t0, k)].blob = NULL
  BY <1>4 DEF Returns, Find, At, Stops, At0
<1>6. \A d \in Obj : mem[d].callsign # NULL => Leads(t0, mem[d].callsign)
  BY <1>4 DEF NameInv
<1>7. \A d \in Obj : mem[d].callsign # k
  BY <1>5, <1>6, ClientsAssumption DEF Leads
<1>8. CASE Stops(t1, k) = {}
  <2>1. k \in Keys /\ ~(old # NULL /\ Stops(t0, old) # {})
    <3> SUFFICES ASSUME old # NULL, Stops(t0, old) # {} PROVE FALSE
      BY DEF Keys
    <3>1. t1 = Freed(t0, old)
      BY <1>4, DelIs DEF Dropped
    <3>2. old \in Calls /\ At0(t0, old) \in Slots /\ t1[At0(t0, old)].key = NULL
      BY <1>1, <1>4, <3>1, FreedIs
    <3> QED BY <1>8, <3>2 DEF Stops, Candidates, Slots
  <2>2. t1 = t0
    BY <1>4, <2>1, DelIs DEF Dropped
  <2> QED BY <1>5, <1>8, <2>2
<1>9. CASE Stops(t1, k) # {}
  <2>1. t2 = Put(t1, k) /\ Table(t2, Calls) /\ Leads(t2, k)
    BY <1>3, <1>4, <1>9, PutIs, PutLeads
  <2>2. ASSUME NEW n \in Calls, n # k, n # old, Leads(t0, n)
        PROVE  Leads(t2, n)
    <3>1. Leads(t1, n) /\ k \in Keys /\ n \in Keys
      BY <1>4, <2>2 DEF Keys
    <3>2. CASE old = NULL \/ Stops(t0, old) = {} \/ t0[At0(t0, old)].key = NULL
      <4>1. CASE old = NULL \/ Stops(t0, old) = {}
        <5>1. t1 = t0
          BY <1>4, <4>1, DelIs DEF Dropped
        <5> QED BY <1>5, <2>1, <2>2, <5>1, <1>4, PutKeeps
      <4>2. CASE old # NULL /\ Stops(t0, old) # {} /\ t0[At0(t0, old)].key = NULL
        <5>1. t1 = Freed(t0, old) /\ old \in Calls
          BY <1>1, <1>4, <4>2, DelIs DEF Dropped
        <5>2. At0(t0, old) \in Slots /\ old \in Keys
          BY <4>2, <5>1, LookupStops DEF Keys
        <5>3. t1 = t0
          BY <1>4, <4>2, <5>1, <5>2 DEF Freed, Table
        <5> QED BY <1>5, <2>1, <2>2, <5>3, <1>4, PutKeeps
      <4> QED BY <3>2, <4>1, <4>2
    <3>3. CASE old # NULL /\ Stops(t0, old) # {} /\ t0[At0(t0, old)].key # NULL
      <4> DEFINE u == At0(t0, old)
      <4>1. old \in Calls /\ old \in Keys /\ t1 = Freed(t0, old)
        BY <1>1, <1>4, <3>3, DelIs DEF Dropped, Keys
      <4>2. /\ u \in Slots /\ t0[u].key = old /\ t0[u].blob # NULL /\ t1[u].key = NULL
            /\ \A s \in Slots : t1[s].blob = t0[s].blob /\ (s # u => t1[s].key = t0[s].key)
        BY <1>4, <3>3, <4>1, FreedIs, LookupStops DEF Table, Kept
      <4>3. /\ At0(t1, k) \in Slots /\ t1[At0(t1, k)].key \in {NULL, k}
            /\ \A s \in Slots : t1[s].key \in {NULL, k} =>
                 Rank(k, MinSize, At0(t1, k)) <= Rank(k, MinSize, s)
        BY <1>9, <3>1, LookupStops
      <4> HIDE DEF u
      <4>4. CASE At0(t1, k) = u
        <5>1. /\ t2[u].key = k
              /\ \A s \in Slots : /\ s # u => t2[s].key = t0[s].key
                                  /\ t0[s].blob # NULL => t2[s].blob # NULL
          BY <1>4, <1>9, <2>1, <4>2, <4>4, PutIs
        <5>2. CASE Stops(t2, n) = {}
          BY <5>2 DEF Leads
        <5>3. CASE Stops(t2, n) # {}
          <6>1. /\ At0(t2, n) \in Slots /\ t2[At0(t2, n)].key \in {NULL, n}
                /\ \A s \in Slots : t2[s].key \in {NULL, n} =>
                     Rank(n, MinSize, At0(t2, n)) <= Rank(n, MinSize, s)
            BY <3>1, <5>3, LookupStops
          <6>2. k # NULL /\ n # NULL
            BY ClientsAssumption
          <6>3. /\ t0[At0(t2, n)].key \in {NULL, n}
                /\ \A s \in Slots : t0[s].key \in {NULL, n} => t2[s].key \in {NULL, n}
            BY <2>2, <3>3, <4>2, <5>1, <6>1, <6>2
          <6>4. Stops(t0, n) # {} /\ At0(t0, n) = At0(t2, n)
            BY <3>1, <6>1, <6>3, LookupIs
          <6> QED BY <2>2, <5>1, <6>1, <6>4 DEF Leads
        <5> QED BY <5>2, <5>3
      <4>5. CASE At0(t1, k) # u
        <5>1. /\ t0[At0(t1, k)].key \in {NULL, k}
              /\ \A s \in Slots : t0[s].key \in {NULL, k} => t1[s].key \in {NULL, k}
          BY <4>2, <4>3, <4>5
        <5>2. At0(t0, k) = At0(t1, k)
          BY <3>1, <4>3, <5>1, LookupIs
        <5>3. t1[At0(t1, k)].blob = NULL
          BY <1>5, <4>2, <4>3, <5>2
        <5> QED BY <1>4, <1>9, <2>1, <2>2, <3>1, <5>3, PutKeeps
      <4> QED BY <4>4, <4>5
    <3> QED BY <3>2, <3>3
  <2>3. \A d \in Obj \ {c} : mem[d].callsign # NULL => mem[d].callsign # old
    BY <1>4 DEF NameInv
  <2>4. ASSUME NEW d \in Obj, mem'[d].callsign # NULL PROVE Leads(t2, mem'[d].callsign)
    <3>1. CASE d = c
      BY <2>1, <3>1
    <3>2. CASE d # c
      <4>1. mem'[d].callsign = mem[d].callsign
        BY <3>2
      <4> QED BY <1>1, <1>6, <1>7, <2>2, <2>3, <2>4, <3>2, <4>1
    <3> QED BY <3>1, <3>2
  <2>5. ASSUME NEW d \in Obj, NEW e \in Obj, d # e, mem'[d].callsign # NULL
        PROVE  mem'[d].callsign # mem'[e].callsign
    <3>1. d # c => mem'[d].callsign = mem[d].callsign
      OBVIOUS
    <3>2. e # c => mem'[e].callsign = mem[e].callsign
      OBVIOUS
    <3>3. mem[d].callsign # k /\ mem[e].callsign # k
      BY <1>7
    <3>4. mem[d].callsign # NULL => mem[d].callsign # mem[e].callsign
      BY <1>4, <2>5 DEF NameInv
    <3> QED BY <2>5, <3>1, <3>2, <3>3, <3>4
  <2> QED BY <2>1, <2>4, <2>5
<1> QED BY <1>8, <1>9

-----------------------------------------------------------------------------
(* The steps.                                                              *)

\* Clients_by_fd and the connections stay.
LEMMA FdsStay ==
  ASSUME FdInv, byFd' = byFd, open' = open, alive' = alive, curr' = curr,
         alive \subseteq Obj, \A c \in Obj : mem'[c].fd = mem[c].fd
  PROVE  FdInv'
BY DEF FdInv

\* A client in whose memory one thing changes is a client.
LEMMA MemChange ==
  ASSUME Base, NEW c \in Obj, NEW m \in Client, mem' = [mem EXCEPT ![c] = m]
  PROVE  /\ mem' \in [Obj -> Client]
         /\ mem'[c] = m /\ \A d \in Obj \ {c} : mem'[d] = mem[d]
BY DEF Base

LEMMA AcceptKeepsInv ==
  ASSUME Base, FdInv, NEW c \in Obj, NEW f \in Fd, NEW m \in Leftovers(c), Accept(c, f, m)
  PROVE  Base' /\ FdInv' /\ (NameInv => NameInv')
<1> DEFINE x == [m EXCEPT !.fd = f, !.conn_state = {}]
<1>1. mem[c] \in Client
  BY DEF Base
<1>2. /\ m \in [fd : {NULL}, callsign : {NULL, mem[c].callsign}, conn_state : {{}}, pass : BOOLEAN]
      /\ mem[c].callsign \in Calls \cup {NULL}
  BY <1>1 DEF Leftovers, Client
<1>3. x \in Client /\ x.fd = f /\ x.callsign \in {NULL, mem[c].callsign}
  BY <1>2 DEF Client
<1> HIDE DEF x
<1>4. mem' = [mem EXCEPT ![c] = x]
  BY DEF Accept, x
<1>5. /\ mem' \in [Obj -> Client]
      /\ mem'[c] = x /\ \A d \in Obj \ {c} : mem'[d] = mem[d]
  BY <1>3, <1>4, MemChange
<1>6. Base'
  <2>1. byFd'.size \in Sizes /\ byCallsign' = byCallsign
    BY AddBlobIs DEF Base, Accept
  <2>2. IsFiniteSet(open') /\ open' \subseteq Fd /\ alive' \subseteq Obj
    BY FS_AddElement DEF Base, Accept
  <2> QED BY <1>5, <2>1, <2>2 DEF Base
<1>7. NameInv => NameInv'
  BY <1>3, <1>5, NamesStay DEF Accept
<1>8. ASSUME byFd'.size = MinSize
      PROVE  /\ Table(byFd'.table, Fd)
             /\ ~byFd'.hung => \A g \in open' : Holds(byFd'.table, g)
  <2>1. byFd' = AddBlob(byFd, f) /\ byFd.size \in Sizes /\ ~byFd.hung /\ open' = open \cup {f}
    BY DEF Accept, Running, Base
  <2>2. /\ byFd.size = MinSize
        /\ byFd'.table = IF Stops(byFd.table, f) = {} THEN byFd.table ELSE Put(byFd.table, f)
    BY <1>8, <2>1, AddBlobIs
  <2>3. Table(byFd.table, Fd) /\ \A g \in open : Holds(byFd.table, g)
    BY <2>1, <2>2 DEF FdInv
  <2>4. CASE Stops(byFd.table, f) = {}
    BY <2>1, <2>2, <2>3, <2>4 DEF AddBlob, Returns, Stops, Hang, Dict
  <2>5. CASE Stops(byFd.table, f) # {}
    <3>1. Table(byFd'.table, Fd)
      BY <2>2, <2>3, <2>5, PutIs
    <3>2. ASSUME NEW g \in open' PROVE Holds(byFd'.table, g)
      <4>1. g \in Fd /\ (g = f \/ Holds(byFd.table, g))
        BY <2>1, <2>3 DEF Base
      <4> QED BY <2>2, <2>3, <2>5, <4>1, PutHolds
    <3> QED BY <3>1, <3>2
  <2> QED BY <2>4, <2>5
<1>9. ASSUME byFd'.size = MinSize
      PROVE  /\ \A d \in alive' : mem'[d].fd \in open'
             /\ \A d, e \in alive' : d # e => mem'[d].fd # mem'[e].fd
             /\ curr' = Cardinality(open')
  <2>1. byFd.size = MinSize
    BY <1>9, AddBlobIs DEF Accept, Base
  <2>2. /\ \A d \in alive : mem[d].fd \in open
        /\ \A d, e \in alive : d # e => mem[d].fd # mem[e].fd
        /\ curr = Cardinality(open)
    BY <2>1 DEF FdInv
  <2>3. /\ alive' = alive \cup {c} /\ c \notin alive /\ alive \subseteq Obj
        /\ open' = open \cup {f} /\ f \notin open /\ curr' = curr + 1
    BY DEF Accept, Base
  <2>4. Cardinality(open') = Cardinality(open) + 1
    BY <2>3, FS_AddElement DEF Base
  <2> QED BY <1>3, <1>5, <2>2, <2>3, <2>4
<1> QED BY <1>6, <1>7, <1>8, <1>9 DEF FdInv

\* ~Client deletes the descriptor of its own connection and no other.
LEMMA DeleteKeepsInv ==
  ASSUME Base, FdInv, NEW c \in alive, Delete(c)
  PROVE  Base' /\ FdInv' /\ (NameInv => NameInv')
<1> DEFINE f == mem[c].fd
           x == [Zeroed EXCEPT !.callsign = mem[c].callsign]
<1>1. c \in Obj /\ mem[c] \in Client /\ mem' = [mem EXCEPT ![c] = x]
  BY DEF Base, Delete
<1>2. x \in Client /\ x.callsign = mem[c].callsign
  BY <1>1 DEF Client, Zeroed
<1> HIDE DEF x
<1>3. /\ mem' \in [Obj -> Client]
      /\ mem'[c] = x /\ \A d \in Obj \ {c} : mem'[d] = mem[d]
  BY <1>1, <1>2, MemChange
<1>4. Base'
  <2>1. byFd'.size \in Sizes /\ byCallsign'.size \in Sizes
    BY <1>1, DelIs, DroppedSize DEF Base, Delete
  <2>2. IsFiniteSet(open') /\ open' \subseteq Fd /\ alive' \subseteq Obj
    BY FS_RemoveElement DEF Base, Delete
  <2> QED BY <1>3, <2>1, <2>2 DEF Base
<1>5. NameInv => NameInv'
  <2>1. \A d \in Obj : mem'[d].callsign = mem[d].callsign
    BY <1>2, <1>3
  <2> QED BY <1>1, <2>1, NamesDropped DEF Delete
<1>6. SUFFICES ASSUME byFd'.size = MinSize
               PROVE  /\ Table(byFd'.table, Fd)
                      /\ ~byFd'.hung => \A g \in open' : Holds(byFd'.table, g)
                      /\ \A d \in alive' : mem'[d].fd \in open'
                      /\ \A d, e \in alive' : d # e => mem'[d].fd # mem'[e].fd
                      /\ curr' = Cardinality(open')
  BY <1>4, <1>5 DEF FdInv
<1>7. /\ byFd' = Del(byFd, f) /\ byFd.size = MinSize
      /\ byFd'.table = IF Stops(byFd.table, f) = {} THEN byFd.table ELSE Freed(byFd.table, f)
  BY <1>6, DelIs DEF Delete
<1>8. /\ Table(byFd.table, Fd)
      /\ ~byFd.hung => \A g \in open : Holds(byFd.table, g)
      /\ \A d \in alive : mem[d].fd \in open
      /\ \A d, e \in alive : d # e => mem[d].fd # mem[e].fd
      /\ curr = Cardinality(open)
  BY <1>7 DEF FdInv
<1>9. /\ alive' = alive \ {c} /\ open' = open \ {f} /\ curr' = curr - 1
      /\ f \in open /\ open \subseteq Fd /\ alive \subseteq Obj
  BY <1>8 DEF Delete, Base
<1>10. Cardinality(open') = Cardinality(open) - 1
  <2> DEFINE S == open
  <2>1. IsFiniteSet(S)
    BY DEF Base
  <2>2. Cardinality(S \ {f}) = IF f \in S THEN Cardinality(S) - 1 ELSE Cardinality(S)
    <3> HIDE DEF S, f
    <3> QED BY <2>1, FS_RemoveElement
  <2> QED BY <1>9, <2>2
<1>11. CASE Stops(byFd.table, f) = {}
  BY <1>3, <1>7, <1>8, <1>9, <1>10, <1>11 DEF Del, Returns, Stops, Hang, Dict
<1>12. CASE Stops(byFd.table, f) # {}
  <2>1. Table(byFd'.table, Fd) /\ byFd'.hung = byFd.hung
    BY <1>7, <1>8, <1>9, <1>12, FreedIs DEF Del, Returns, Stops, Dict
  <2>2. ASSUME ~byFd'.hung, NEW g \in open' PROVE Holds(byFd'.table, g)
    BY <1>7, <1>8, <1>9, <1>12, <2>1, <2>2, FreedHolds
  <2> QED BY <1>3, <1>8, <1>9, <1>10, <2>1, <2>2
<1> QED BY <1>11, <1>12

\* sock_read_cb finds something until Clients_by_fd grows.
LEMMA SockReadKeepsInv ==
  ASSUME Base, FdInv, NEW f \in Fd, SockRead(f)
  PROVE  Base' /\ FdInv' /\ (NameInv => NameInv')
<1>1. /\ f \in open /\ ~byFd.hung /\ open' \in {open, open \ {f}}
      /\ UNCHANGED <<alive, mem, byFd, byCallsign, curr>>
  BY DEF SockRead, Running
<1>2. Base'
  BY <1>1, FS_RemoveElement DEF Base
<1>3. NameInv => NameInv'
  BY <1>1 DEF NameInv
<1>4. ASSUME byFd.size = MinSize PROVE open' = open
  <2>1. Table(byFd.table, Fd) /\ Holds(byFd.table, f)
    BY <1>1, <1>4 DEF FdInv
  <2>2. Stops(byFd.table, f) # {} /\ byFd.table[At0(byFd.table, f)].blob # NULL
    BY <2>1, HeldIsFound DEF Table
  <2> QED BY <1>4, <2>2 DEF SockRead, Returns, Find, At, Stops, At0
<1>5. FdInv'
  BY <1>1, <1>4 DEF FdInv
<1> QED BY <1>2, <1>3, <1>5

\* A command that changes the flags of its client.
LEMMA FlagsKeepInv ==
  ASSUME Base, FdInv, NEW c \in Obj, NEW m \in Client,
         m.fd = mem[c].fd, m.callsign = mem[c].callsign,
         mem' = [mem EXCEPT ![c] = m], UNCHANGED <<alive, byFd, byCallsign, open, curr>>
  PROVE  Base' /\ FdInv' /\ (NameInv => NameInv')
<1>1. /\ mem' \in [Obj -> Client]
      /\ mem'[c] = m /\ \A d \in Obj \ {c} : mem'[d] = mem[d]
  BY MemChange
<1>2. \A d \in Obj : mem'[d].fd = mem[d].fd /\ mem'[d].callsign = mem[d].callsign
  BY <1>1
<1>3. Base'
  BY <1>1 DEF Base
<1>4. FdInv'
  BY <1>2, FdsStay DEF Base
<1>5. NameInv => NameInv'
  BY <1>2, NamesStay
<1> QED BY <1>3, <1>4, <1>5

LEMMA UserKeepsInv ==
  ASSUME Base, FdInv, NEW c \in Obj, User(c)
  PROVE  Base' /\ FdInv' /\ (NameInv => NameInv')
<1> DEFINE m == [mem[c] EXCEPT !.conn_state = @ \cup {IRC_STATE_USER}]
<1>1. mem[c] \in Client /\ c \in alive
  BY DEF Base, User, Commands
<1>2. m \in Client /\ m.fd = mem[c].fd /\ m.callsign = mem[c].callsign
  BY <1>1 DEF Client
<1>3. \/ Delete(c)
      \/ mem' = [mem EXCEPT ![c] = m] /\ UNCHANGED <<alive, byFd, byCallsign, open, curr>>
  BY DEF User, Numerics
<1> HIDE DEF m
<1> QED BY <1>1, <1>2, <1>3, DeleteKeepsInv, FlagsKeepInv

LEMMA PassKeepsInv ==
  ASSUME Base, FdInv, NEW c \in Obj, Pass(c)
  PROVE  Base' /\ FdInv' /\ (NameInv => NameInv')
<1>1. mem[c] \in Client
  BY DEF Base
<1>2. PICK given \in BOOLEAN :
        mem' = [mem EXCEPT ![c].pass = given, ![c].conn_state = @ \cup {IRC_STATE_PASS}]
  BY DEF Pass
<1> DEFINE m == [mem[c] EXCEPT !.pass = given, !.conn_state = @ \cup {IRC_STATE_PASS}]
<1>3. m \in Client /\ m.fd = mem[c].fd /\ m.callsign = mem[c].callsign
  BY <1>1 DEF Client
<1>4. mem' = [mem EXCEPT ![c] = m]
  BY <1>2 DEF Base
<1> HIDE DEF m
<1> QED BY <1>3, <1>4, FlagsKeepInv DEF Pass

\* NICK does not touch the connections.
LEMMA NickIs ==
  ASSUME Base, NEW c \in Obj, NEW n \in Name, Nick(c, n)
  PROVE  /\ mem' \in [Obj -> Client]
         /\ mem'[c].callsign = Stored(n) /\ mem'[c].fd = mem[c].fd
         /\ \A d \in Obj \ {c} : mem'[d] = mem[d]
         /\ Stored(n) \in Calls
<1> DEFINE x == [mem[c] EXCEPT !.callsign = Stored(n),
                               !.conn_state = IF Active(c) THEN @ ELSE @ \cup {IRC_STATE_NICK}]
<1>1. mem[c] \in Client /\ Stored(n) \in Calls
  BY DEF Base, Calls
<1>2. x \in Client /\ x.callsign = Stored(n) /\ x.fd = mem[c].fd
  BY <1>1 DEF Client
<1>3. mem' = [mem EXCEPT ![c] = x]
  BY DEF Nick, Base
<1> HIDE DEF x
<1> QED BY <1>1, <1>2, <1>3, MemChange

LEMMA NickKeepsInv ==
  ASSUME Base, FdInv, NEW c \in Obj, NEW n \in Name, Nick(c, n)
  PROVE  Base' /\ FdInv' /\ (Stored(n) = n /\ NameInv => NameInv')
<1>1. /\ mem' \in [Obj -> Client]
      /\ mem'[c].callsign = Stored(n) /\ mem'[c].fd = mem[c].fd
      /\ \A d \in Obj \ {c} : mem'[d] = mem[d]
      /\ Stored(n) \in Calls
  BY NickIs
<1>2. /\ Returns(byCallsign, n) /\ Find(byCallsign, n) = NULL
      /\ byCallsign' = AddBlob(Dropped(c), Stored(n))
      /\ UNCHANGED <<alive, byFd, open, curr>>
  BY DEF Nick, SetCallsign
<1>3. byCallsign'.size \in Sizes
  BY <1>2, AddBlobIs, DroppedSize DEF Base
<1>4. Base'
  BY <1>1, <1>2, <1>3 DEF Base
<1>5. FdInv'
  BY <1>1, <1>2, FdsStay DEF Base
<1>6. ASSUME Stored(n) = n, NameInv PROVE NameInv'
  BY <1>1, <1>2, <1>6, NamesChange
<1> QED BY <1>4, <1>5, <1>6

\* Every step keeps the connections in order, and the callsigns too if no name
\* is cut.
LEMMA StepKeepsInv ==
  ASSUME Base, FdInv, [Next]_vars
  PROVE  Base' /\ FdInv' /\ ((\A n \in Name : Stored(n) = n) /\ NameInv => NameInv')
<1>1. ASSUME NEW c \in Obj, NEW f \in Fd, NEW m \in Leftovers(c), Accept(c, f, m)
      PROVE  Base' /\ FdInv' /\ (NameInv => NameInv')
  BY <1>1, AcceptKeepsInv
<1>2. ASSUME NEW f \in Fd, SockRead(f)
      PROVE  Base' /\ FdInv' /\ (NameInv => NameInv')
  BY <1>2, SockReadKeepsInv
<1>3. ASSUME NEW c \in Obj, NEW n \in Name, Nick(c, n)
      PROVE  Base' /\ FdInv' /\ (Stored(n) = n /\ NameInv => NameInv')
  BY <1>3, NickKeepsInv
<1>4. ASSUME NEW c \in Obj, User(c) \/ Pass(c)
      PROVE  Base' /\ FdInv' /\ (NameInv => NameInv')
  BY <1>4, UserKeepsInv, PassKeepsInv
<1>5. ASSUME NEW c \in Obj, Quit(c)
      PROVE  Base' /\ FdInv' /\ (NameInv => NameInv')
  BY <1>5, DeleteKeepsInv DEF Quit, Commands
<1>6. ASSUME NEW c \in Obj, NEW n \in Name, Kill(c, n)
      PROVE  Base' /\ FdInv' /\ (NameInv => NameInv')
  BY <1>6 DEF Kill, Base, FdInv, NameInv
<1>7. CASE UNCHANGED vars
  BY <1>7 DEF vars, Base, FdInv, NameInv
<1> QED BY <1>1, <1>2, <1>3, <1>4, <1>5, <1>6, <1>7 DEF Next

-----------------------------------------------------------------------------
(* The theorems.                                                           *)

\* Until Clients_by_fd grows, sock_read_cb takes no connection for an unknown
\* one: dict_del frees slots other than the one meant, but leaves the blobs
\* there, and no lookup stops at a slot without a blob before the descriptor.
THEOREM ConnectionsAreFound == Spec => []FoundUntilGrowth
<1>1. Init => Base /\ FdInv
  BY InitInv DEF Inv
<1>2. Base /\ FdInv /\ [Next]_vars => (Base /\ FdInv)'
  BY StepKeepsInv
<1>3. Base /\ FdInv => FoundUntilGrowth
  <2> SUFFICES ASSUME Base, FdInv, byFd.size = MinSize, ~byFd.hung, NEW f \in open
               PROVE  Returns(byFd, f) /\ Find(byFd, f) # NULL
    BY DEF FoundUntilGrowth
  <2>1. f \in Fd /\ Table(byFd.table, Fd) /\ Holds(byFd.table, f)
    BY DEF Base, FdInv
  <2>2. Stops(byFd.table, f) # {} /\ byFd.table[At0(byFd.table, f)].blob # NULL
    BY <2>1, HeldIsFound DEF Table
  <2> QED BY <2>2 DEF Returns, Find, At, Stops, At0
<1> QED BY <1>1, <1>2, <1>3, PTL DEF Spec

\* Until Clients_by_fd grows, stats.curr_clients counts the connections: every
\* one is closed by the destructor of its own client.
THEOREM ConnectionsAreCounted == Spec => []CountUntilGrowth
<1>1. Init => Base /\ FdInv
  BY InitInv DEF Inv
<1>2. Base /\ FdInv /\ [Next]_vars => (Base /\ FdInv)'
  BY StepKeepsInv
<1>3. Base /\ FdInv => CountUntilGrowth
  BY DEF FdInv, CountUntilGrowth, CountsConnections
<1> QED BY <1>1, <1>2, <1>3, PTL DEF Spec

\* Until Clients_by_callsign grows, m_nick gives no callsign to two clients, if
\* none is too long to be stored whole.
THEOREM CallsignsHaveOneHolder ==
  ASSUME \A n \in Name : Stored(n) = n
  PROVE  Spec => []OneHolderUntilGrowth
<1>1. Init => Inv
  BY InitInv
<1>2. Inv /\ [Next]_vars => Inv'
  BY StepKeepsInv DEF Inv
<1>3. Inv => OneHolderUntilGrowth
  BY DEF Inv, Base, NameInv, OneHolderUntilGrowth, OneHolder
<1> QED BY <1>1, <1>2, <1>3, PTL DEF Spec
=============================================================================
