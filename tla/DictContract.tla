---------------------------- MODULE DictContract ----------------------------
(***************************************************************************)
(* What include/dict.h promises the callers of a dictionary: a map from    *)
(* keys to strings and a map from keys to blobs, without a table.  NULL is *)
(* the absent string.                                                      *)
(***************************************************************************)
CONSTANTS ValKeys, BlobKeys, Vals, Defaults, NULL, Given, Ok, Err

Keys == ValKeys \cup BlobKeys

VARIABLES
  store,  \* the string stored under each key, or NULL
  blobs,  \* the keys that hold a blob
  ret     \* what the last call returned

vars == <<store, blobs, ret>>

Present(k) == store[k] # NULL \/ k \in blobs

Init == store = [k \in Keys |-> NULL] /\ blobs = {} /\ ret = Ok

\* dict_add: an element with the same key is overwritten.
Add(k, v) == store' = [store EXCEPT ![k] = v] /\ ret' = Ok /\ UNCHANGED blobs

\* dict_add_blob
AddBlob(k) == blobs' = blobs \cup {k} /\ ret' = Ok /\ UNCHANGED store

\* dict_get: the element found, or defval.
Get(k, defval) ==
  /\ ret' = IF store[k] = NULL THEN defval ELSE store[k]
  /\ UNCHANGED <<store, blobs>>

GetBlob(k, defval) ==
  /\ ret' = IF k \in blobs THEN Given ELSE defval
  /\ UNCHANGED <<store, blobs>>

\* dict_del: 0 if the item was deleted and -1 if it could not be found.
Del(k) ==
  /\ store' = [store EXCEPT ![k] = NULL]
  /\ blobs' = blobs \ {k}
  /\ ret' = IF Present(k) THEN Ok ELSE Err

Next ==
  \/ \E k \in ValKeys, v \in Vals : Add(k, v)
  \/ \E k \in BlobKeys : AddBlob(k)
  \/ \E k \in ValKeys, d \in Defaults : Get(k, d)
  \/ \E k \in BlobKeys, d \in Defaults : GetBlob(k, d)
  \/ \E k \in Keys : Del(k)

Spec == Init /\ [][Next]_vars
=============================================================================
