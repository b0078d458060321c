-------------------------------- MODULE Dict --------------------------------
(***************************************************************************)
(* The open-addressing dictionary of src/dict.cpp.  Config, Channels, the  *)
(* members of a channel, Listeners, Clients_by_fd and Clients_by_callsign  *)
(* are all instances of it.                                                *)
(*                                                                         *)
(* The state is one dict: table, size, used and fill as in struct _dict_,  *)
(* and `pending`, what active calls of dict_resize have still to copy from *)
(* their old tables (a stack, since the copy can itself resize).  One      *)
(* action is one call of the public interface, except that the copy loop   *)
(* of dict_resize advances one item per step.                              *)
(*                                                                         *)
(* Abstracted: the probe sequence is only seen through Rank, the order in  *)
(* which dict_lookup first visits the slots (module DictProbe computes it  *)
(* from the code); slot.hash is a function of the key; timestamps are left *)
(* out; every blob a caller adds is the same Given.                        *)
(* DUMMY_PTR is never stored (dict_del has that line commented out).       *)
(***************************************************************************)
EXTENDS Naturals, Sequences, FiniteSets

CONSTANTS
  ValKeys,       \* keys the callers add with dict_add
  BlobKeys,      \* keys the callers add with dict_add_blob
  ValsOf,        \* the strings the callers store under each such key
  Defaults,      \* the defval arguments callers pass
  NULL,          \* the C null pointer
  Given,         \* the pointer a caller hands to dict_add_blob
  ParamAddr,     \* the address of dict_add_p's parameter `blob`
  Ok, Err,       \* the return codes 0 and -1
  MinSize,       \* DICT_MIN_SZ
  BigSize,       \* DICT_BIGSZ
  Sizes,         \* the sizes doubling MinSize reaches before unsigned wraps
  UMod,          \* 2^32: the modulus of unsigned arithmetic
  MaxFill,       \* bound: additions counted in fill before callers stop
  Rank(_, _, _)  \* Rank(k, n, s): when lookup of k visits slot s of n slots

Keys == ValKeys \cup BlobKeys
Vals == UNION {ValsOf[k] : k \in ValKeys}

ASSUME NullAssumption == NULL \notin Keys \cup Vals

ASSUME SizeAssumption ==
  /\ UMod \in Nat /\ BigSize \in Nat /\ MaxFill \in Nat
  /\ Sizes \subseteq (Nat \ {0})
  /\ MinSize \in Sizes
  /\ \A n \in Sizes : n < UMod

\* The additions fit: some size is beyond four times the bound on fill.
ASSUME FillAssumption == \E n \in Sizes : n > 4 * MaxFill

\* dict_lookup visits every slot, and two slots are never visited at once.
ASSUME ProbeAssumption ==
  \A k \in Keys, n \in Sizes : \A s, t \in 0 .. n-1 :
    /\ Rank(k, n, s) \in Nat
    /\ Rank(k, n, s) = Rank(k, n, t) => s = t

VARIABLES
  table,    \* d->table
  size,     \* d->size
  used,     \* d->used
  fill,     \* d->fill
  pending,  \* stack of the sets of items left to copy from old tables
  hung,     \* a loop of the last call never ends
  strayed,  \* history: a key that was not there has been deleted
  ret       \* what the last call returned

vars == <<table, size, used, fill, pending, hung, strayed, ret>>

-----------------------------------------------------------------------------
(* Slots and lookup.                                                       *)

Slot == [key : Keys \cup {NULL}, val : Vals \cup {NULL}, blob : {NULL, ParamAddr}]

FreeSlot == [key |-> NULL, val |-> NULL, blob |-> NULL]

\* calloc(n, sizeof(keypair))
FreshTable(n) == [s \in 0 .. n-1 |-> FreeSlot]

Occupied(t, n) == {s \in 0 .. n-1 : t[s].key # NULL}

\* An occupied slot and where it is.
Item == [at : Nat, key : Keys, val : Vals \cup {NULL}, blob : {NULL, ParamAddr}]

ItemAt(t, s) == [at |-> s, key |-> t[s].key, val |-> t[s].val, blob |-> t[s].blob]

\* Mutant of Items: the copy loop stops at d->used.
ItemsUpToUsed(t, n) == {ItemAt(t, s) : s \in Occupied(t, n) \cap (0 .. used-1)}

Items(t, n) == {ItemAt(t, s) : s \in Occupied(t, n)}

\* Mutant of Candidates: dict_lookup does not compare keys.
FreeSlots(t, n, k) == {s \in 0 .. n-1 : t[s].key = NULL}

\* The slots at which the probe loop of dict_lookup returns.
Candidates(t, n, k) == {s \in 0 .. n-1 : t[s].key \in {NULL, k}}

\* dict_lookup returns the first of them it visits; with none it never ends.
Lookup(t, n, k) ==
  CHOOSE s \in Candidates(t, n, k) :
    \A c \in Candidates(t, n, k) : Rank(k, n, s) <= Rank(k, n, c)

Findable(k) == Candidates(table, size, k) # {}

\* The slot the next call finds for k in the live table.
At(k) == table[Lookup(table, size, k)]

-----------------------------------------------------------------------------
(* Growth.                                                                 *)

\* Mutant of NeedsResize: the table grows only once it has no room left.
NeedsResizeWhenFull(f) == f > size

NeedsResize(f) == 3 * f >= 2 * size

GrowthFactor == IF size > BigSize THEN 2 ELSE 4

\* The values at which `while (newsize <= factor * d->used) newsize *= 2`
\* stops, before newsize wraps round to 0.
BigEnough(u) == {m \in Sizes : m >= size /\ m > (GrowthFactor * u) % UMod}

NewSize(u) == CHOOSE m \in BigEnough(u) : \A n \in BigEnough(u) : m <= n

\* Mutants of Inc and Dec: dict_add does not count; dict_del counts twice, or
\* would if used were not unsigned.
NotCounted(u) == u
CountedTwice(u) == (u + UMod - 2) % UMod
NotWrapped(u) == u - 1

Inc(u) == (u + 1) % UMod
Dec(u) == (u + UMod - 1) % UMod

\* The rest of dict_add_p once the slot is written: t is the table with the
\* item in it, rest the stack of copies in progress.
Settle(t, rest) ==
  \/ /\ ~NeedsResize(fill + 1) \/ (BigEnough(Inc(used)) # {} /\ NewSize(Inc(used)) = size)
     /\ table' = t /\ used' = Inc(used) /\ fill' = fill + 1 /\ pending' = rest
     /\ UNCHANGED <<size, hung>>
  \/ /\ NeedsResize(fill + 1)
     /\ BigEnough(Inc(used)) # {} /\ NewSize(Inc(used)) # size
     /\ size' = NewSize(Inc(used))
     /\ table' = FreshTable(NewSize(Inc(used)))
     /\ used' = 0 /\ fill' = 0
     /\ pending' = Append(rest, Items(t, size))
     /\ UNCHANGED hung
  \/ /\ NeedsResize(fill + 1) /\ BigEnough(Inc(used)) = {}
     /\ table' = t /\ used' = Inc(used) /\ fill' = fill + 1 /\ pending' = rest
     /\ hung' = TRUE
     /\ UNCHANGED size

Idle == pending = <<>> /\ ~hung

-----------------------------------------------------------------------------
(* The public interface.                                                   *)

\* dict_new
Init ==
  /\ size = MinSize /\ table = FreshTable(MinSize)
  /\ used = 0 /\ fill = 0 /\ pending = <<>>
  /\ hung = FALSE /\ strayed = FALSE /\ ret = Ok

\* dict_add(d, k, v): the slot is overwritten, whatever it holds.
Add(k, v) ==
  /\ Idle /\ fill < MaxFill /\ Findable(k)
  /\ Settle([table EXCEPT ![Lookup(table, size, k)] =
                [key |-> k, val |-> v, blob |-> @.blob]], <<>>)
  /\ ret' = Ok
  /\ UNCHANGED strayed

\* dict_add_blob(d, k, Given): val is NULL, so the slot keeps its old value;
\* `slot->blob = (void *)&blob` stores the address of the parameter.
AddBlob(k) ==
  /\ Idle /\ fill < MaxFill /\ Findable(k)
  /\ Settle([table EXCEPT ![Lookup(table, size, k)] =
                [key |-> k, val |-> @.val, blob |-> ParamAddr]], <<>>)
  /\ ret' = Ok
  /\ UNCHANGED strayed

\* One iteration of the copy loop of dict_resize: the keys and the values
\* move to the new table, the blobs do not.
Reinsert ==
  /\ pending # <<>> /\ ~hung
  /\ LET top  == pending[Len(pending)]
         rest == SubSeq(pending, 1, Len(pending) - 1)
     IN \E item \in top :
          /\ \A other \in top : item.at <= other.at
          /\ Findable(item.key)
                  /\ Settle([table EXCEPT ![Lookup(table, size, item.key)] =
                        [key |-> item.key, val |-> item.val, blob |-> @.blob]],
                    IF top = {item} THEN rest ELSE Append(rest, top \ {item}))
  /\ UNCHANGED <<strayed, ret>>

\* dict_del(d, k): whatever slot the lookup returns is marked free.
Del(k) ==
  /\ Idle /\ Findable(k)
  /\ table' = [table EXCEPT ![Lookup(table, size, k)] =
                  [key |-> NULL, val |-> NULL, blob |-> @.blob]]
  /\ used' = Dec(used)
  /\ strayed' = (strayed \/ At(k).key # k)
  /\ ret' = Ok
  /\ UNCHANGED <<size, fill, pending, hung>>

\* dict_get(d, k, defval): the lookup never returns NULL, defval is unused.
Get(k, defval) ==
  /\ Idle /\ Findable(k)
  /\ ret' = At(k).val
  /\ UNCHANGED <<table, size, used, fill, pending, hung, strayed>>

\* dict_get_blob(d, k, defval)
GetBlob(k, defval) ==
  /\ Idle /\ Findable(k)
  /\ ret' = IF At(k).blob # NULL THEN At(k).blob ELSE defval
  /\ UNCHANGED <<table, size, used, fill, pending, hung, strayed>>

\* The keys a call may look up next: during a copy, only its next item's.
LookedUp ==
  IF pending = <<>> THEN Keys
  ELSE LET top == pending[Len(pending)]
       IN {item.key : item \in {i \in top : \A other \in top : i.at <= other.at}}

\* A lookup, by any call, of an absent key in a table with no free slot.
LookupForever ==
  /\ ~hung
  /\ \E k \in LookedUp : ~Findable(k)
  /\ hung' = TRUE
  /\ UNCHANGED <<table, size, used, fill, pending, strayed, ret>>

-----------------------------------------------------------------------------
(* Two ways of using a dictionary.  Config, Channels and Listeners only    *)
(* ever grow (SpecGrow).  The client and member tables delete too, and     *)
(* their callers do not look whether the key is there (Spec).              *)

Grow ==
  \/ \E k \in ValKeys : \E v \in ValsOf[k] : Add(k, v)
  \/ \E k \in BlobKeys : AddBlob(k)
  \/ Reinsert
  \/ \E k \in ValKeys, d \in Defaults : Get(k, d)
  \/ \E k \in BlobKeys, d \in Defaults : GetBlob(k, d)

NextGrow == Grow \/ LookupForever

Next == NextGrow \/ \E k \in Keys : Del(k)

SpecGrow == Init /\ [][NextGrow]_vars

Spec == Init /\ [][Next]_vars

-----------------------------------------------------------------------------
(* Properties.                                                             *)

\* The variables keep their types, and a copy is kept no longer than it has
\* items left.
TypeOK ==
  /\ size \in Sizes
  /\ table \in [0 .. size-1 -> Slot]
  /\ used \in 0 .. UMod-1
  /\ fill \in Nat
  /\ pending \in Seq((SUBSET Item) \ {{}})
  /\ hung \in BOOLEAN /\ strayed \in BOOLEAN
  /\ ret \in Vals \cup Defaults \cup {NULL, ParamAddr, Ok, Err}

\* No call spins in dict_lookup or dict_resize: every table keeps a free slot
\* for the lookup of an absent key to stop at, through growth and overwriting
\* (and until a deletion strays, see HangsOnlyAfterStray).
NeverHangs == ~hung /\ \A k \in Keys : Findable(k)

\* No call spins before a caller has deleted a key that was not there: growth,
\* overwriting and the deletion of keys that are there leave a free slot.
HangsOnlyAfterStray == ~strayed => NeverHangs

\* Growing never starts while a copy is in progress, so the recursion
\* dict_resize -> dict_add_p -> dict_resize stays one level deep.
NoNestedResize == Len(pending) <= 1

\* Probe chains are unbroken: lookup of a key returns the slot that holds it,
\* and no key sits in two slots (dict_enumerate lists a key once).
ChainsIntact ==
  \A s \in Occupied(table, size) : Lookup(table, size, table[s].key) = s

\* The items the copy in progress has left.
CopiesLeft == IF pending = <<>> THEN {} ELSE pending[1]

\* The counters until an absent key is deleted: fill counts the additions and
\* used is never above it, nor below the occupied slots.  Outside a copy the
\* table is under two thirds full, or under half by used; during one it will
\* be under half when the copy ends.
Counters ==
  /\ Cardinality(Occupied(table, size)) <= used /\ used <= fill
  /\ IsFiniteSet(CopiesLeft)
  /\ fill + Cardinality(CopiesLeft) <= MaxFill
  /\ IF pending = <<>> THEN 3 * fill < 2 * size \/ 2 * used < size
     ELSE 2 * (fill + Cardinality(CopiesLeft)) < size

Sound == ~hung /\ NoNestedResize /\ Counters

\* Growing, overwriting, storing blobs and deleting keys that are there keep
\* the counters sound: the inductive invariant behind HangsOnlyAfterStray.
CareInv == TypeOK /\ (~strayed => Sound)

\* Every slot probed on the way to a key holds another key.
Chains(t, n) ==
  \A s \in Occupied(t, n) : \A r \in 0 .. n-1 :
    Rank(t[s].key, n, r) < Rank(t[s].key, n, s) => t[r].key \notin {NULL, t[s].key}

\* A dictionary that only grows keeps its probe chains as well: the inductive
\* invariant behind ChainsIntact.
GrowInv == TypeOK /\ ~strayed /\ Sound /\ Chains(table, size)

\* The string a caller would get for k; mid-copy it may still be in an old
\* table, and of two copies there the later one wins.
Waiting(k) == {i \in DOMAIN pending : \E item \in pending[i] : item.key = k}

ValueOf(k) ==
  IF Waiting(k) # {}
  THEN LET i == CHOOSE j \in Waiting(k) : \A l \in Waiting(k) : j <= l
       IN (CHOOSE item \in pending[i] :
             /\ item.key = k
             /\ \A o \in pending[i] : o.key = k => o.at <= item.at).val
  ELSE IF Findable(k) THEN At(k).val ELSE NULL

\* The keys dict_get_blob finds a blob for, or will once a copy ends.
BlobsFound ==
  {k \in Keys :
     \/ \E i \in DOMAIN pending : \E item \in pending[i] : item.key = k /\ item.blob # NULL
     \/ Findable(k) /\ At(k).blob # NULL}

Contract == INSTANCE DictContract WITH
  store <- [k \in Keys |-> ValueOf(k)], blobs <- BlobsFound

\* The dictionary implements the map that dict.h promises.
ImplementsContract == Contract!Spec
=============================================================================
