------------------------------- MODULE HostLink -------------------------------
(***************************************************************************)
(* What the host protocol of ardop1 promises over a serial line that loses *)
(* bytes (ext/ardop1/SerialIntefaceSpec.html): one request at a time, each *)
(* done once, its answer the host's own, and nothing that is fetched with  *)
(* one lost, repeated or out of order.  It promises nothing once a repeat  *)
(* has crossed a call that plays.                                          *)
(***************************************************************************)
EXTENDS Naturals

VARIABLES
  asked,     \* requests the host has made
  ran,       \* requests the modem has done
  answered,  \* requests the host has the answer of
  given,     \* how many reports, data and CAT data the modem has handed over
  got,       \* how many of them the host has
  crossed    \* a repeat was answered while the call that was asked for played

link == <<asked, ran, answered, given, got, crossed>>

Kinds == {"reports", "data", "cat"}
NoneYet == [kind \in Kinds |-> 0]

Init ==
  /\ asked = 0 /\ ran = 0 /\ answered = 0 /\ given = NoneYet /\ got = NoneYet
  /\ crossed = FALSE

Ask ==
  /\ ~crossed /\ asked = answered
  /\ asked' = asked + 1
  /\ UNCHANGED <<ran, answered, given, got, crossed>>

\* A request fetches items of one kind, or none.
Run ==
  /\ ~crossed /\ ran < asked
  /\ ran' = ran + 1
  /\ \/ UNCHANGED given
     \/ \E kind \in Kinds : /\ given'[kind] > given[kind]
                            /\ given' = [given EXCEPT ![kind] = given'[kind]]
  /\ UNCHANGED <<asked, answered, got, crossed>>

Answer ==
  /\ ~crossed /\ answered < ran
  /\ answered' = answered + 1
  /\ got' = given
  /\ UNCHANGED <<asked, ran, given, crossed>>

\* A step into that state, or in it, may do anything.
Crossed == crossed' = TRUE

Next == Ask \/ Run \/ Answer \/ Crossed

\* A request that is made is done, and answered.
Spec == Init /\ [][Next]_link /\ WF_link(Run) /\ WF_link(Answer)
===============================================================================
