--------------------------------- MODULE Kiss ---------------------------------
(***************************************************************************)
(* The frames that wait to be sent as packets (ext/ardop1/KISSModule.c):   *)
(* a ring of bytes that the host's KISS frames and the modem's own packet  *)
(* sessions are put into, and a count of the FENDs in it that tells when   *)
(* there is a whole frame.                                                 *)
(*                                                                         *)
(* A frame is FEND, a head [type, id], its rest and FEND; the rest of a    *)
(* host's frame is an escaped byte, <<FESC, [rest |-> id]>>, which stands  *)
(* for bytes that are none of the types.  The fields of the ring are       *)
(*   ring, get    KISSRXBUFF from KRXGetPtr to KRXPutPtr, and KRXGetPtr    *)
(*   fends, esc   FENDCount, ESCFlag                                       *)
(*   astray       KRXGetPtr has left the ring: what is read is undefined   *)
(*   acks         KISSTXBUFF: the frames that are reported as sent         *)
(* Histories: open, what the host has put of a frame that it has not       *)
(* finished; offered, the frames that were put whole; aired, what was      *)
(* sent; spoiled, that some bytes were not put as a whole frame, in a row. *)
(***************************************************************************)
EXTENDS Integers, Sequences, FiniteSetsExt, SequencesExt

CONSTANT KissSize  \* KISSBUFFERSIZE

ASSUME KissAssumption == KissSize \in Nat \ {0, 1}

FEND == [byte |-> "FEND"]
FESC == [byte |-> "FESC"]
HeadOf(type, id) == [type |-> type, id |-> id]
HostFrame(type, id) == <<FEND, HeadOf(type, id), FESC, [rest |-> id], FEND>>

NewKiss ==
  [ring |-> <<>>, get |-> 0, fends |-> 0, esc |-> FALSE, astray |-> FALSE, acks |-> 0,
   open |-> <<>>, offered |-> <<>>, aired |-> <<>>, spoiled |-> FALSE]

-------------------------------------------------------------------------------
\* ProcessKISSByte: a ring that is full looks empty.
ProcessKISSByte(k, c) ==
  IF Len(k.ring) = KissSize - 1
  THEN [k EXCEPT !.ring = <<>>, !.fends = 0, !.spoiled = TRUE]
  ELSE [k EXCEPT !.ring = Append(@, c), !.fends = IF c = FEND THEN @ + 1 ELSE @]
PutBytes(k, bytes) == FoldLeft(ProcessKISSByte, k, bytes)

Plainly(bytes) == SelectSeq(bytes, LAMBDA c : c \notin {FEND, FESC})
\* The host has put one byte more of its frames.
Offered(k, c) ==
  IF c = FEND /\ Plainly(k.open) # <<>>
  THEN [k EXCEPT !.open = <<>>, !.offered = Append(@, Plainly(k.open))]
  ELSE [k EXCEPT !.open = Append(@, c)]
ProcessKISSBytes(k, bytes) == FoldLeft(Offered, PutBytes(k, bytes), bytes)

\* PUT_ON_PORT_Q: a packet session sets its mode and puts its frame.
PUT_ON_PORT_Q(k, id) ==
  LET put == PutBytes(k, <<FEND, HeadOf("mode", id), FEND, FEND, HeadOf("data", id), FEND>>)
  IN [put EXCEPT !.spoiled = @ \/ k.open # <<>>,
                 !.offered = @ \o <<<<HeadOf("mode", id)>>, <<HeadOf("data", id)>>>>]

-------------------------------------------------------------------------------
\* GetNextKISSFrame

Moved(k, n) == [k EXCEPT !.ring = SubSeq(@, n + 1, Len(@)), !.get = (@ + n) % KissSize]
Fends(ring) == {i \in 1 .. Len(ring) : ring[i] = FEND}
Nothing(k) == [kiss |-> k, body |-> <<>>]

\* The first is no FEND: all up to a FEND is discarded, and KRXGetPtr not kept in the ring.
Discard(k) ==
  LET all == Fends(k.ring) = {}
      n == IF all THEN Len(k.ring) ELSE Min(Fends(k.ring))
  IN IF k.get + n > KissSize \/ (all /\ k.get + n = KissSize)
     THEN [k EXCEPT !.astray = TRUE]
     ELSE [Moved(k, n) EXCEPT !.fends = IF all THEN 0 ELSE @ - 1]

\* One byte after the first FEND: escaped, a FEND, or part of the frame.
Unescape(x, c) ==
  CASE x.whole -> x
    [] ~x.whole /\ x.esc -> [x EXCEPT !.n = @ + 1, !.esc = FALSE, !.body = Append(@, c)]
    [] ~x.whole /\ ~x.esc /\ c = FEND ->
         [x EXCEPT !.n = @ + 1, !.fends = @ - 1, !.whole = x.body # <<>>]
    [] ~x.whole /\ ~x.esc /\ c = FESC -> [x EXCEPT !.n = @ + 1, !.esc = TRUE]
    [] ~x.whole /\ ~x.esc /\ c \notin {FEND, FESC} ->
         [x EXCEPT !.n = @ + 1, !.body = Append(@, c)]
\* What follows the first FEND, up to the next; if none ends it, FENDCount was wrong.
TakeWith(k, fends) ==
  LET x == FoldLeft(Unescape, [n |-> 1, fends |-> fends, esc |-> k.esc, body |-> <<>>,
                               whole |-> FALSE], Tail(k.ring))
  IN [kiss |-> [Moved(k, x.n) EXCEPT !.esc = x.esc, !.fends = IF x.whole THEN x.fends ELSE 0],
      body |-> IF x.whole THEN x.body ELSE <<>>]
\* Mutant of TakeWhole: the first FEND is not counted.
StartNotCounted(k) == TakeWith(k, k.fends)
TakeWhole(k) == TakeWith(k, k.fends - 1)

TypeOf(body) == IF "type" \in DOMAIN body[1] THEN body[1].type ELSE "other"
\* A frame of another type is taken, and nothing done with it.
NextOf(k, fends) ==
  IF k.ring = <<>> \/ k.fends < fends THEN Nothing(k)
  ELSE IF k.ring[1] # FEND THEN Nothing(Discard(k))
  ELSE LET taken == TakeWhole(k)
       IN IF taken.body # <<>> /\ TypeOf(taken.body) \in {"data", "mode", "ack"} THEN taken
          ELSE Nothing(taken.kiss)
\* Mutant of GetNextKISSFrame: one FEND is taken for a frame.
OneFendIsEnough(k) == NextOf(k, 1)
GetNextKISSFrame(k) == NextOf(k, 2)

SendAckModeAck(k) == [k EXCEPT !.acks = @ + 1]

-------------------------------------------------------------------------------
\* Properties.

ToAir(bodies) == SelectSeq(bodies, LAMBDA b : TypeOf(b) \in {"data", "ack"})
\* What was sent is what was offered, whole and in order, while nothing was spoiled.
InOrder(k) == k.spoiled \/ IsPrefix(k.aired, ToAir(k.offered))
\* FENDCount is the number of FENDs in the ring, and KRXGetPtr is in it.
Counts(k) == k.spoiled \/ (k.fends = Cardinality(Fends(k.ring)) /\ ~k.astray)
===============================================================================
