------------------------------- MODULE ArqLink -------------------------------
(***************************************************************************)
(* What two stations of a link promise their hosts, whatever the radio     *)
(* does: a host receives what the other host gave, in order and nothing    *)
(* twice, though items that were given up may be missing; and what a       *)
(* station has removed from its queue as acknowledged has reached the      *)
(* other host.  Both links of ext/ardop1 promise it, ARQ and AX.25.        *)
(***************************************************************************)
EXTENDS Integers, Sequences

CONSTANT Station

VARIABLES
  given,     \* the items a station's host has given it are 1 .. given[p]
  got,       \* what a station has given its host
  confirmed  \* the items of a station that were acknowledged

linkVars == <<given, got, confirmed>>

Other(p) == CHOOSE q \in Station : q # p

Init ==
  /\ given = [p \in Station |-> 0]
  /\ got = [p \in Station |-> <<>>]
  /\ confirmed = [p \in Station |-> {}]

Give(p) ==
  /\ given' = [given EXCEPT ![p] = @ + 1]
  /\ UNCHANGED <<got, confirmed>>

\* A run of items that the other host gave later than all that came before.
DeliverSome(p) ==
  LET last == IF got[p] = <<>> THEN 0 ELSE got[p][Len(got[p])]
  IN \E from \in last + 1 .. given[Other(p)] : \E to \in from .. given[Other(p)] :
       got' = [got EXCEPT ![p] = @ \o [i \in 1 .. to - from + 1 |-> from + i - 1]]

\* Only what has reached the other host is confirmed.
ConfirmSome(p) ==
  \E items \in SUBSET {got[Other(p)][i] : i \in 1 .. Len(got[Other(p)])} :
    confirmed' = [confirmed EXCEPT ![p] = @ \cup items]

\* A frame may bring data, an acknowledgement, or both.
Deliver(p) == DeliverSome(p) /\ UNCHANGED <<given, confirmed>>
Confirm(p) == ConfirmSome(p) /\ UNCHANGED <<given, got>>
DeliverAndConfirm(p) == DeliverSome(p) /\ ConfirmSome(p) /\ UNCHANGED given

Next == \E p \in Station : Give(p) \/ Deliver(p) \/ Confirm(p) \/ DeliverAndConfirm(p)

Spec == Init /\ [][Next]_linkVars
===============================================================================
