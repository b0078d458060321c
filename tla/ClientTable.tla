----------------------------- MODULE ClientTable -----------------------------
(***************************************************************************)
(* The calls of src/dict.cpp as the client layer makes them, each from     *)
(* start to end: dict_new, dict_add_blob with the growth it may set off,   *)
(* dict_del, dict_get_blob with the default NULL.  Module Dict runs the    *)
(* growth item by item; here its outcome is computed, which is the same:   *)
(* the new table is at least twice the old one, so that the copy never     *)
(* grows it again, and the client layer has one thread.                    *)
(*                                                                         *)
(* What find_client gets back is a blob, so the blobs are the point here:  *)
(*   - dict_add_p stores the address of its own parameter, not the pointer *)
(*     it was given;                                                       *)
(*   - dict_del frees the key and leaves the blob in the slot;             *)
(*   - dict_get_blob does not look whether the slot has the key at all;    *)
(*   - growth copies no blobs, the one just added included.                *)
(* The values (all NULL here) and the timestamps are left out.             *)
(***************************************************************************)
EXTENDS Naturals, FiniteSets

CONSTANTS
  NULL,          \* the C null pointer
  ParamAddr,     \* the address of dict_add_p's parameter `blob`, on the stack
  MinSize,       \* DICT_MIN_SZ
  BigSize,       \* DICT_BIGSZ
  Sizes,         \* the sizes doubling MinSize reaches before unsigned wraps
  UMod,          \* 2^32: the modulus of unsigned arithmetic
  Rank(_, _, _)  \* Rank(k, n, s): when lookup of k visits slot s of n slots

ASSUME TableAssumption ==
  /\ UMod \in Nat \ {0} /\ BigSize \in Nat
  /\ Sizes \subseteq Nat \ {0}
  /\ MinSize \in Sizes /\ \A n \in Sizes : MinSize <= n
  /\ ParamAddr # NULL

\* calloc(n, sizeof(keypair))
FreshTable(n) == [s \in 0 .. n-1 |-> [key |-> NULL, blob |-> NULL]]

\* struct _dict_, and whether a loop of the last call never ends.
Dict(size, table, used, fill, hung) ==
  [size |-> size, table |-> table, used |-> used, fill |-> fill, hung |-> hung]

\* dict_new
NewDict == Dict(MinSize, FreshTable(MinSize), 0, 0, FALSE)

Hang(d) == Dict(d.size, d.table, d.used, d.fill, TRUE)

\* The slots at which the probe loop of dict_lookup returns.
Candidates(t, n, k) == {s \in 0 .. n-1 : t[s].key \in {NULL, k}}

\* dict_lookup returns the first of them it visits.
Lookup(t, n, k) ==
  CHOOSE s \in Candidates(t, n, k) :
    \A c \in Candidates(t, n, k) : Rank(k, n, s) <= Rank(k, n, c)

\* With none of them dict_lookup never returns.
Returns(d, k) == Candidates(d.table, d.size, k) # {}

At(d, k) == d.table[Lookup(d.table, d.size, k)]

-----------------------------------------------------------------------------
(* dict_get_blob(d, k, NULL), when the lookup returns.                     *)

\* Mutant of Find: the slot must have the key.
FindKey(d, k) == IF At(d, k).key = k THEN At(d, k).blob ELSE NULL

Find(d, k) == At(d, k).blob

-----------------------------------------------------------------------------
(* dict_del                                                                *)

\* Mutant of Del: the blob is cleared with the key.
DelBlobToo(d, k) ==
  IF ~Returns(d, k) THEN Hang(d)
  ELSE Dict(d.size,
            [d.table EXCEPT ![Lookup(d.table, d.size, k)] = [key |-> NULL, blob |-> NULL]],
            (d.used + UMod - 1) % UMod, d.fill, d.hung)

\* Whatever slot the lookup returns is freed and counted as freed.
Del(d, k) ==
  IF ~Returns(d, k) THEN Hang(d)
  ELSE Dict(d.size, [d.table EXCEPT ![Lookup(d.table, d.size, k)].key = NULL],
            (d.used + UMod - 1) % UMod, d.fill, d.hung)

-----------------------------------------------------------------------------
(* dict_add_blob                                                           *)

\* `while (newsize <= factor * d->used) newsize *= 2` stops at one of these,
\* or never.
BigEnough(d) ==
  {m \in Sizes : m >= d.size /\ m > ((IF d.size > BigSize THEN 2 ELSE 4) * d.used) % UMod}

NewSize(d) == CHOOSE m \in BigEnough(d) : \A n \in BigEnough(d) : m <= n

Occupied(d) == {s \in 0 .. d.size-1 : d.table[s].key # NULL}

\* The new table of n slots after the copy loop has added i slots of the old.
Refilled(d, n) ==
  LET upto[i \in 0 .. d.size] ==
        IF i = 0 THEN FreshTable(n)
        ELSE IF d.table[i-1].key = NULL THEN upto[i-1]
        ELSE [upto[i-1] EXCEPT ![Lookup(upto[i-1], n, d.table[i-1].key)].key = d.table[i-1].key]
  IN upto[d.size]

\* dict_resize to n slots: dict_add_p counts every key it copies.
Resized(d, n) ==
  Dict(n, Refilled(d, n), Cardinality(Occupied(d)), Cardinality(Occupied(d)), d.hung)

\* The slot is written: key, address of the parameter, counters.
Written(d, k) ==
  Dict(d.size,
       [d.table EXCEPT ![Lookup(d.table, d.size, k)] = [key |-> k, blob |-> ParamAddr]],
       (d.used + 1) % UMod, d.fill + 1, d.hung)

\* Whether dict_resize is called, and what it does then.
Settled(d) ==
  IF 3 * d.fill < 2 * d.size THEN d
  ELSE IF BigEnough(d) = {} THEN Hang(d)
  ELSE IF NewSize(d) = d.size THEN d
  ELSE Resized(d, NewSize(d))

AddBlob(d, k) == IF ~Returns(d, k) THEN Hang(d) ELSE Settled(Written(d, k))

-----------------------------------------------------------------------------
\* A dictionary whose keys are among K.
Dicts(d, K) ==
  /\ d.size \in Sizes
  /\ d.table \in [0 .. d.size-1 -> [key : K \cup {NULL}, blob : {NULL, ParamAddr}]]
  /\ d.used \in 0 .. UMod-1 /\ d.fill \in Nat /\ d.hung \in BOOLEAN
=============================================================================
