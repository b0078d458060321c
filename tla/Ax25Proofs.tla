----------------------------- MODULE Ax25Proofs -----------------------------
(***************************************************************************)
(* Proofs about module Ax25, for every modulus, number of retries and      *)
(* buffer, and any number of calls, items and losses.                      *)
(*                                                                         *)
(* Typed says what a record of a link is: it is stronger than TypeOK in    *)
(* the frames that are kept and queued, and in that TXBuffer never starts  *)
(* behind what the host has given.  Each operator of Ax25Link takes a      *)
(* typed record to one; those that only act on a link that is up or on     *)
(* its way need, and most keep, that its state is not 0.                   *)
(***************************************************************************)
EXTENDS Ax25, FiniteSetTheorems, SequenceTheorems, TLAPS

-----------------------------------------------------------------------------
(* Arithmetic.                                                             *)

\* Every non-empty set of naturals has a least element: the initial segments below its elements
\* are finite sets, which inclusion orders well.
LEMMA LeastElement ==
  ASSUME NEW S \in SUBSET Nat, S # {}
  PROVE  \E m \in S : \A n \in S : m <= n
<1> DEFINE Below == {0 .. m : m \in S}
<1>1. Below \subseteq FiniteSubsetsOf(Nat) /\ Below # {}
  <2>1. ASSUME NEW m \in S PROVE 0 .. m \in FiniteSubsetsOf(Nat)
    <3>1. m \in Int /\ 0 \in Int /\ 0 .. m \in SUBSET Nat
      OBVIOUS
    <3>2. IsFiniteSet(0 .. m)
      BY <3>1, FS_Interval
    <3> QED BY <3>1, <3>2 DEF FiniteSubsetsOf
  <2> QED BY <2>1
<1>2. PICK x \in Below : \A y \in Below : <<y, x>> \notin StrictSubsetOrdering(Nat)
  <2> HIDE DEF Below
  <2> QED BY <1>1, FS_StrictSubsetOrderingWellFounded, WFMin
<1>3. PICK m \in S : x = 0 .. m
  OBVIOUS
<1>4. ASSUME NEW n \in S, n < m PROVE FALSE
  <2>1. 0 .. n \subseteq 0 .. m /\ m \in 0 .. m /\ m \notin 0 .. n
    BY <1>4
  <2>2. <<0 .. n, 0 .. m>> \in StrictSubsetOrdering(Nat)
    BY <2>1 DEF StrictSubsetOrdering
  <2> QED BY <1>2, <1>3, <2>2
<1> QED BY <1>4

\* Min and Max of what there is in an interval.
LEMMA LeastOf ==
  ASSUME NEW m \in Nat, NEW S \in SUBSET (0 .. m), S # {}
  PROVE  Min(S) \in S /\ \A n \in S : Min(S) <= n
<1>1. S \in SUBSET Nat
  OBVIOUS
<1>2. PICK x \in S : \A n \in S : x <= n
  BY <1>1, LeastElement
<1> QED BY <1>2 DEF Min

\* The greatest element of a set of numbers below m is in it.
LEMMA GreatestOf ==
  ASSUME NEW m \in Nat, NEW S \in SUBSET (0 .. m), S # {}
  PROVE  Max(S) \in S /\ \A n \in S : n <= Max(S)
<1>0. {m - n : n \in S} \in SUBSET Nat /\ {m - n : n \in S} # {}
  <2>1. \A n \in S : m - n \in Nat
    OBVIOUS
  <2>2. PICK n \in S : TRUE
    OBVIOUS
  <2>3. m - n \in {m - i : i \in S}
    BY <2>2
  <2>4. \A x \in {m - i : i \in S} : x \in Nat
    BY <2>1
  <2> QED BY <2>3, <2>4
<1>1. PICK x \in {m - n : n \in S} : \A y \in {m - n : n \in S} : x <= y
  BY <1>0, LeastElement
<1>2. m - x \in S /\ \A n \in S : m - x >= n
  BY <1>1
<1> QED BY <1>2 DEF Max

\* Numbers within two moduli.
LEMMA ModNear ==
  ASSUME NEW n \in Int, -Modulus <= n, n < 2 * Modulus
  PROVE  Mod(n) = IF n < 0 THEN n + Modulus ELSE IF n < Modulus THEN n ELSE n - Modulus
<1>1. PICK M \in Nat : M = Modulus /\ M > 0
  BY Ax25LinkAssumption
<1>2. /\ \A r \in 0 .. M - 1 : r % M = r
      /\ \A r \in 0 .. M - 1 : (r + M) % M = r
      /\ \A r \in 0 .. M - 1 : (r - M) % M = r
  BY <1>1
<1>3. CASE n < 0
  <2>1. n + M \in 0 .. M - 1 /\ (n + M) - M = n
    BY <1>1, <1>3
  <2> QED BY <1>1, <1>2, <1>3, <2>1 DEF Mod
<1>4. CASE n >= 0 /\ n < M
  BY <1>1, <1>2, <1>4 DEF Mod
<1>5. CASE n >= M
  <2>1. n - M \in 0 .. M - 1 /\ (n - M) + M = n
    BY <1>1, <1>5
  <2> QED BY <1>1, <1>2, <1>5, <2>1 DEF Mod
<1> QED BY <1>1, <1>3, <1>4, <1>5

\* A sequence number is a slot.
LEMMA ModSlot == ASSUME NEW n \in Int PROVE Mod(n) \in Slot
<1>1. n % Modulus \in 0 .. Modulus - 1
  BY Ax25LinkAssumption
<1> QED BY <1>1 DEF Mod, Slot

\* Some frame among the next Modulus ones reaches the end of the window.
LEMMA WindowEnds ==
  ASSUME NEW ns \in Slot, NEW ws \in Slot
  PROVE  \E k \in 1 .. Modulus : Mod(Mod(ns + k) - ws) >= Window
<1>1. Modulus \in Nat /\ Modulus >= 2
  BY Ax25LinkAssumption
<1>2. ns \in 0 .. Modulus - 1 /\ ws \in 0 .. Modulus - 1
  BY DEF Slot
<1>3. PICK last \in 0 .. Modulus - 1 : last = IF ws = 0 THEN Modulus - 1 ELSE ws - 1
  BY <1>1, <1>2
<1>4. PICK k \in 1 .. Modulus : k = IF last > ns THEN last - ns ELSE last - ns + Modulus
  <2>1. (last > ns => last - ns \in 1 .. Modulus) /\ (~(last > ns) => last - ns + Modulus \in 1 .. Modulus)
    BY <1>1, <1>2, <1>3
  <2> QED BY <2>1
<1>5. PICK x \in Int : x = ns + k /\ (x = last \/ x = last + Modulus)
  BY <1>1, <1>2, <1>3, <1>4
<1>6. Mod(x) = last
  BY <1>1, <1>3, <1>5, ModNear
<1>7. PICK y \in Int : y = last - ws /\ (y = Modulus - 1 \/ y = -1)
  BY <1>1, <1>2, <1>3
<1>8. Mod(y) = Modulus - 1
  BY <1>1, <1>7, ModNear
<1> QED BY <1>1, <1>5, <1>6, <1>7, <1>8 DEF Window

-----------------------------------------------------------------------------
(* Types.                                                                  *)

Fields ==
  {"state", "nr", "ns", "ws", "slot", "frames", "rxframes", "next", "rx", "poll", "rnrsent", "rejf",
   "timer", "retries", "active", "reports", "out", "given", "recv", "acked"}
States == {0, 2, 3, 4, 5, 6}

AnyFrame ==
  [type : {"SABM", "UA", "DISC", "DM", "FRMR"}, cmd : BOOLEAN, pf : BOOLEAN]
    \cup [type : Supervisory, cmd : BOOLEAN, pf : BOOLEAN, nr : Slot]
    \cup [type : {"I"}, cmd : BOOLEAN, pf : BOOLEAN, nr : Slot, ns : Slot, item : Nat]

\* The frames a link keeps are items, and what it has queued for the modem are frames.
Typed(l) ==
  /\ DOMAIN l = Fields
  /\ l.state \in States
  /\ l.nr \in Slot /\ l.ns \in Slot /\ l.ws \in Slot /\ l.slot \in Slot
  /\ l.timer \in {"off", "due", "running"} /\ l.retries \in 0 .. 255
  /\ l.frames \in [Slot -> Nat] /\ l.rxframes \in [Slot -> Nat]
  /\ l.next \in Nat /\ l.given \in Nat /\ l.next <= l.given + 1
  /\ l.rx \in Seq(Nat) /\ l.recv \in Seq(Nat)
  /\ l.out \in Seq(AnyFrame)
  /\ l.state = 0 => l.frames = NoFrames /\ l.rxframes = NoFrames /\ l.rx = <<>>

TypedInv == DOMAIN link = Station /\ \A p \in Station : Typed(link[p])

\* The fields that are not typed.
Untyped == {"poll", "rnrsent", "rejf", "active", "reports", "acked"}

\* A record that differs in such fields only is typed.
LEMMA Retyped ==
  ASSUME NEW l, NEW m, Typed(l), DOMAIN m = Fields, \A x \in Fields \ Untyped : m[x] = l[x]
  PROVE  Typed(m)
<1>1. /\ m.state = l.state /\ m.nr = l.nr /\ m.ns = l.ns /\ m.ws = l.ws /\ m.slot = l.slot
      /\ m.timer = l.timer /\ m.retries = l.retries /\ m.frames = l.frames
      /\ m.rxframes = l.rxframes /\ m.next = l.next /\ m.given = l.given /\ m.rx = l.rx
      /\ m.recv = l.recv /\ m.out = l.out
  BY DEF Fields, Untyped
<1> QED BY <1>1 DEF Typed

\* What typed means for the fields that are not sequences.
LEMMA Parts ==
  ASSUME NEW l, Typed(l)
  PROVE  /\ DOMAIN l = Fields /\ l.state \in States
         /\ l.nr \in Slot /\ l.ns \in Slot /\ l.ws \in Slot /\ l.slot \in Slot
         /\ l.timer \in {"off", "due", "running"} /\ l.retries \in 0 .. 255
         /\ l.frames \in [Slot -> Nat] /\ l.rxframes \in [Slot -> Nat]
         /\ l.next \in Nat /\ l.given \in Nat /\ l.next <= l.given + 1
         /\ l.rx \in Seq(Nat) /\ l.recv \in Seq(Nat)
BY DEF Typed

\* A queue without frames is one.
LEMMA NoFramesTyped == NoFrames \in [Slot -> Nat] /\ 0 \in Slot
BY Ax25LinkAssumption DEF NoFrames, Slot

\* A fresh record, with the histories of the one before, is typed.
LEMMA NewLinkTyped ==
  ASSUME NEW given \in Nat, NEW recv \in Seq(Nat), NEW acked
  PROVE  Typed(NewLink(given, recv, acked))
<1>1. PICK l : l = NewLink(given, recv, acked)
  OBVIOUS
<1>2. /\ DOMAIN l = Fields /\ l.state = 0 /\ l.nr = 0 /\ l.ns = 0 /\ l.ws = 0 /\ l.slot = 0
      /\ l.timer = "off" /\ l.retries = 0 /\ l.frames = NoFrames /\ l.rxframes = NoFrames
      /\ l.next = given + 1 /\ l.given = given /\ l.rx = <<>> /\ l.recv = recv /\ l.out = <<>>
  BY <1>1 DEF NewLink, Fields
<1>3. <<>> \in Seq(Nat) /\ <<>> \in Seq(AnyFrame)
  OBVIOUS
<1>4. Typed(l)
  BY <1>2, <1>3, NoFramesTyped DEF Typed, States
<1> QED BY <1>1, <1>4

\* What is changed by an operator on a link: fields X, to values of their types.
Same(m, l, X) == DOMAIN m = Fields /\ \A x \in Fields \ X : m[x] = l[x]

\* The frames that are played.
LEMMA PlainFrames ==
  /\ \A type \in {"SABM", "UA", "DISC", "DM"}, cmd \in BOOLEAN : Plain(type, cmd) \in AnyFrame
  /\ [type |-> "FRMR", cmd |-> FALSE, pf |-> FALSE] \in AnyFrame
BY DEF Plain, AnyFrame

\* The frames that carry N(R) alone.
LEMMA SupervisoryFrames ==
  ASSUME NEW l, Typed(l), NEW cmd \in BOOLEAN, NEW type \in Supervisory
  PROVE  Frame(type, cmd, l) \in AnyFrame
BY DEF Frame, AnyFrame, Typed

\* The frame of a slot carries the item that is in it.
LEMMA InformationFrames ==
  ASSUME NEW l, Typed(l), NEW k \in Slot, NEW pf \in BOOLEAN
  PROVE  Information(l, k, pf) \in AnyFrame
BY DEF Information, AnyFrame, Typed

\* PUT_ON_PORT_Q
LEMMA PutTyped ==
  ASSUME NEW l, Typed(l), NEW f \in AnyFrame
  PROVE  Typed(Put(l, f))
<1>1. PICK m : m = Put(l, f)
  OBVIOUS
<1>2. Same(m, l, {"out"}) /\ m.out = Append(l.out, f)
  BY <1>1 DEF Put, Same, Typed, Fields
<1>3. m.out \in Seq(AnyFrame)
  BY <1>2 DEF Typed
<1>4. Typed(m)
  BY <1>2, <1>3 DEF Same, Fields, Typed
<1> QED BY <1>1, <1>4

\* A link that is cleared, or set to other values of the types of its small fields, is typed.
LEMMA SmallTyped ==
  ASSUME NEW l, Typed(l), NEW m,
         Same(m, l, Untyped \cup {"state", "nr", "ns", "ws", "slot", "timer", "retries"}),
         m.state \in States, m.state = 0 => l.state = 0,
         m.nr \in Slot, m.ns \in Slot, m.ws \in Slot, m.slot \in Slot,
         m.timer \in {"off", "due", "running"}, m.retries \in 0 .. 255
  PROVE  Typed(m)
<1>1. /\ DOMAIN m = Fields /\ m.frames = l.frames /\ m.rxframes = l.rxframes /\ m.next = l.next
      /\ m.given = l.given /\ m.rx = l.rx /\ m.recv = l.recv /\ m.out = l.out
  BY DEF Same, Fields, Untyped
<1> QED BY <1>1 DEF Typed

\* A report to the host changes nothing that is typed.
LEMMA ReportTyped == ASSUME NEW l, Typed(l), NEW r PROVE Typed(Report(l, r))
<1>1. PICK m : m = Report(l, r)
  OBVIOUS
<1>2. Same(m, l, {"reports"})
  BY <1>1 DEF Report, Same, Fields, Typed
<1>3. Typed(m)
  BY <1>2, Retyped DEF Same, Fields, Untyped
<1> QED BY <1>1, <1>3

\* L2SENDRESP
LEMMA SendRespTyped ==
  ASSUME NEW l, Typed(l), NEW type \in {"SABM", "UA", "DISC", "DM"}
  PROVE  Typed(SendResp(l, type))
BY PlainFrames, PutTyped DEF SendResp

\* L2SENDCOMMAND, which starts the timer
LEMMA SendCommandTyped ==
  ASSUME NEW l, Typed(l), NEW type \in {"SABM", "UA", "DISC", "DM"}
  PROVE  Typed(SendCommand(l, type))
<1>1. PICK u, m : u = Put(l, Plain(type, TRUE)) /\ m = [u EXCEPT !.timer = "running"]
  OBVIOUS
<1>2. Typed(u)
  BY <1>1, PlainFrames, PutTyped
<1>3. Same(m, u, {"timer"}) /\ m.timer = "running"
  BY <1>1, <1>2 DEF Same, Fields, Typed
<1>4. /\ Same(m, u, Untyped \cup {"state", "nr", "ns", "ws", "slot", "timer", "retries"})
      /\ m.state = u.state /\ m.nr = u.nr /\ m.ns = u.ns /\ m.ws = u.ws /\ m.slot = u.slot
      /\ m.retries = u.retries
  BY <1>3 DEF Same, Fields
<1>5. Typed(m)
  <2>1. /\ u.state \in States /\ u.nr \in Slot /\ u.ns \in Slot /\ u.ws \in Slot /\ u.slot \in Slot
        /\ u.retries \in 0 .. 255
    BY <1>2, Parts
  <2>2. m.timer \in {"off", "due", "running"}
    BY <1>3
  <2> QED BY <1>2, <1>4, <2>1, <2>2, SmallTyped
<1> QED BY <1>1, <1>5 DEF SendCommand

\* A link that is freed is a fresh one, with the frames it still has in the queue.
LEMMA RemovedTyped == ASSUME NEW l, Typed(l) PROVE Typed(Removed(l))
<1>1. PICK u, m : u = NewLink(l.given, l.recv, l.acked) /\ m = [u EXCEPT !.out = l.out]
  OBVIOUS
<1>2. Typed(u)
  BY <1>1, NewLinkTyped, Parts
<1>3. Same(m, u, {"out"}) /\ m.out = l.out
  BY <1>1, <1>2 DEF Same, Fields, Typed
<1>4. Typed(m)
  BY <1>2, <1>3 DEF Same, Fields, Typed
<1> QED BY <1>1, <1>4 DEF Removed

\* CLEARL2QUEUES: nothing is kept, and TXBuffer is empty.
LEMMA ClearQueuesTyped ==
  ASSUME NEW l, Typed(l)
  PROVE  LET m == ClearQueues(l) IN
         /\ Same(m, l, {"frames", "rxframes", "next", "rx"})
         /\ m.frames = NoFrames /\ m.rxframes = NoFrames /\ m.rx = <<>> /\ m.next = l.given + 1
         /\ Typed(m)
<1>1. PICK m : m = ClearQueues(l)
  OBVIOUS
<1>2. /\ Same(m, l, {"frames", "rxframes", "next", "rx"})
      /\ m.frames = NoFrames /\ m.rxframes = NoFrames /\ m.rx = <<>> /\ m.next = l.given + 1
  BY <1>1 DEF ClearQueues, Same, Fields, Typed
<1>3. <<>> \in Seq(Nat)
  OBVIOUS
<1>4. /\ DOMAIN m = Fields /\ m.state = l.state /\ m.nr = l.nr /\ m.ns = l.ns /\ m.ws = l.ws
      /\ m.slot = l.slot /\ m.timer = l.timer /\ m.retries = l.retries /\ m.given = l.given
      /\ m.recv = l.recv /\ m.out = l.out
  BY <1>2 DEF Same, Fields
<1>5. m.frames \in [Slot -> Nat] /\ m.rxframes \in [Slot -> Nat] /\ m.rx \in Seq(Nat)
  BY <1>2, <1>3, NoFramesTyped
<1>6. m.next \in Nat /\ m.next <= m.given + 1
  BY <1>2, <1>4, Parts
<1>7. Typed(m)
  BY <1>2, <1>4, <1>5, <1>6 DEF Typed
<1> QED BY <1>1, <1>2, <1>7

\* RESET2X: the numbers start at 0 again.
LEMMA Reset2XTyped == ASSUME NEW l, Typed(l) PROVE Typed(Reset2X(l))
<1>1. PICK m : m = Reset2X(l)
  OBVIOUS
<1>2. /\ Same(m, l, Untyped \cup {"state", "nr", "ns", "ws", "slot", "timer", "retries"})
      /\ m.state = 5 /\ m.nr = 0 /\ m.ns = 0 /\ m.ws = 0 /\ m.slot = 0
      /\ m.timer = l.timer /\ m.retries = l.retries
  BY <1>1 DEF Reset2X, Same, Fields, Typed, Untyped
<1>3. Typed(m)
  <2>1. 5 \in States /\ 5 # 0
    BY DEF States
  <2> QED BY <1>2, <2>1, NoFramesTyped, Parts, SmallTyped
<1> QED BY <1>1, <1>3

\* RESET2
LEMMA Reset2Typed == ASSUME NEW l, Typed(l) PROVE Typed(Reset2(l))
BY ClearQueuesTyped, Reset2XTyped DEF Reset2

\* CLEAROUTLINK: a link that stays for its reports keeps no frames.
LEMMA ClearOutLinkTyped == ASSUME NEW l, Typed(l) PROVE Typed(ClearOutLink(l))
<1>1. CASE l.reports = {}
  BY <1>1, RemovedTyped DEF ClearOutLink
<1>2. CASE l.reports # {}
  <2>1. PICK u, m : u = ClearQueues(l) /\ m = [u EXCEPT !.state = 0]
    OBVIOUS
  <2>2. Typed(u) /\ u.frames = NoFrames /\ u.rxframes = NoFrames /\ u.rx = <<>>
    BY <2>1, ClearQueuesTyped
  <2>3. Same(m, u, {"state"}) /\ m.state = 0
    BY <2>1, <2>2 DEF Same, Fields, Typed
  <2>4. Typed(m)
    BY <2>2, <2>3 DEF Same, Fields, Typed, States
  <2> QED BY <1>2, <2>1, <2>4 DEF ClearOutLink
<1> QED BY <1>1, <1>2

\* A link that ends with a report.
LEMMA LostTyped == ASSUME NEW l, Typed(l) PROVE Typed(Lost(l))
BY ReportTyped, ClearOutLinkTyped DEF Lost

\* A link that is up or on its way: what it keeps changes within the types.
Open(l) == Typed(l) /\ l.state # 0

\* Fields of an open link are set to values of their types.
LEMMA KeptTyped ==
  ASSUME NEW l, Open(l), NEW m,
         Same(m, l, Untyped \cup {"state", "frames", "rxframes", "rx", "recv", "nr", "timer", "retries"}),
         m.state \in States \ {0}, m.frames \in [Slot -> Nat], m.rxframes \in [Slot -> Nat],
         m.rx \in Seq(Nat), m.recv \in Seq(Nat), m.nr \in Slot,
         m.timer \in {"off", "due", "running"}, m.retries \in 0 .. 255
  PROVE  Open(m)
<1>1. /\ DOMAIN m = Fields /\ m.ns = l.ns /\ m.ws = l.ws /\ m.slot = l.slot /\ m.next = l.next
      /\ m.given = l.given /\ m.out = l.out
  BY DEF Same, Fields, Untyped
<1> QED BY <1>1 DEF Typed, Open

\* A record in which only the state, within the open ones, and fields that are not typed differ.
LEMMA StaysOpen ==
  ASSUME NEW l, Open(l), NEW m, Same(m, l, Untyped \cup {"state"}), m.state \in States \ {0}
  PROVE  Open(m)
<1>1. /\ m.frames = l.frames /\ m.rxframes = l.rxframes /\ m.rx = l.rx /\ m.recv = l.recv
      /\ m.nr = l.nr /\ m.timer = l.timer /\ m.retries = l.retries
      /\ Same(m, l, Untyped \cup {"state", "frames", "rxframes", "rx", "recv", "nr", "timer", "retries"})
  BY DEF Same, Fields, Untyped
<1>2. /\ l.frames \in [Slot -> Nat] /\ l.rxframes \in [Slot -> Nat] /\ l.rx \in Seq(Nat)
      /\ l.recv \in Seq(Nat) /\ l.nr \in Slot /\ l.timer \in {"off", "due", "running"}
      /\ l.retries \in 0 .. 255
  BY Parts DEF Open
<1> QED BY <1>1, <1>2, KeptTyped

\* A frame that is queued leaves the link as open as it was.
LEMMA PutOpen ==
  ASSUME NEW l, Open(l), NEW f \in AnyFrame
  PROVE  LET m == Put(l, f) IN Same(m, l, {"out"}) /\ m.out = Append(l.out, f) /\ Open(m)
<1>1. PICK m : m = Put(l, f)
  OBVIOUS
<1>2. Same(m, l, {"out"}) /\ m.out = Append(l.out, f)
  BY <1>1 DEF Put, Same, Open, Typed, Fields
<1>3. Typed(m) /\ m.state = l.state
  BY <1>1, <1>2, PutTyped DEF Open, Same, Fields
<1> QED BY <1>1, <1>2, <1>3 DEF Open

\* What a timer and a count become.
LEMMA TimedOpen ==
  ASSUME NEW l, Open(l), NEW m, Same(m, l, Untyped \cup {"state", "timer", "retries"}),
         m.state \in States \ {0}, m.timer \in {"off", "due", "running"}, m.retries \in 0 .. 255
  PROVE  Open(m)
<1>1. /\ m.frames = l.frames /\ m.rxframes = l.rxframes /\ m.rx = l.rx /\ m.recv = l.recv
      /\ m.nr = l.nr
      /\ Same(m, l, Untyped \cup {"state", "frames", "rxframes", "rx", "recv", "nr", "timer", "retries"})
  BY DEF Same, Fields, Untyped
<1>2. /\ l.frames \in [Slot -> Nat] /\ l.rxframes \in [Slot -> Nat] /\ l.rx \in Seq(Nat)
      /\ l.recv \in Seq(Nat) /\ l.nr \in Slot
  BY Parts DEF Open
<1> QED BY <1>1, <1>2, KeptTyped

\* ACKMSG takes frames away.
LEMMA AckMsgOpen ==
  ASSUME NEW l, Open(l), NEW ows
  PROVE  Open(AckMsg(l, ows)) /\ AckMsg(l, ows).state = l.state
<1>1. PICK done, r, m :
        /\ done = {k \in Between(ows, l.ws) : l.frames[k] # 0}
        /\ r = IF ows # l.ws /\ l.retries > 0 THEN 1 ELSE l.retries
        /\ m = [l EXCEPT !.frames = [k \in Slot |-> IF k \in done THEN 0 ELSE @[k]],
                         !.acked = @ \cup {l.frames[k] : k \in done},
                         !.reports = IF done = {} THEN @ ELSE @ \cup {"ReportQueue"},
                         !.retries = r]
  OBVIOUS
<1>2. DOMAIN l = Fields /\ l.frames \in [Slot -> Nat] /\ l.retries \in 0 .. 255 /\ l.state \in States \ {0}
  BY Parts DEF Open
<1>3. /\ Same(m, l, {"frames", "acked", "reports", "retries"}) /\ m.retries = r
      /\ m.frames = [k \in Slot |-> IF k \in done THEN 0 ELSE l.frames[k]]
  BY <1>1, <1>2 DEF Same, Fields
<1>4. m.frames \in [Slot -> Nat] /\ m.retries \in 0 .. 255
  BY <1>1, <1>2, <1>3
<1>5. /\ m.rxframes = l.rxframes /\ m.rx = l.rx /\ m.recv = l.recv /\ m.nr = l.nr
      /\ m.timer = l.timer /\ m.state = l.state
      /\ Same(m, l, Untyped \cup {"state", "frames", "rxframes", "rx", "recv", "nr", "timer", "retries"})
  BY <1>3 DEF Same, Fields, Untyped
<1>6. /\ l.rxframes \in [Slot -> Nat] /\ l.rx \in Seq(Nat) /\ l.recv \in Seq(Nat) /\ l.nr \in Slot
      /\ l.timer \in {"off", "due", "running"}
  BY Parts DEF Open
<1>7. Open(m)
  BY <1>2, <1>4, <1>5, <1>6, KeptTyped
<1>8. PICK t : t \in {[m EXCEPT !.timer = "running"], [m EXCEPT !.timer = "off", !.poll = FALSE], m}
               /\ t = AckMsg(l, ows)
  BY <1>1 DEF AckMsg
<1>9. /\ Same(t, m, Untyped \cup {"state", "timer", "retries"}) /\ t.state = m.state
      /\ t.retries = m.retries /\ t.timer \in {"off", "running", m.timer}
  <2>1. CASE t = [m EXCEPT !.timer = "running"]
    BY <1>3, <2>1 DEF Same, Fields
  <2>2. CASE t = [m EXCEPT !.timer = "off", !.poll = FALSE]
    BY <1>3, <2>2 DEF Same, Fields, Untyped
  <2>3. CASE t = m
    BY <1>3, <2>3 DEF Same
  <2> QED BY <1>8, <2>1, <2>2, <2>3
<1>10. t.timer \in {"off", "due", "running"}
  BY <1>5, <1>6, <1>9
<1>11. Open(t)
  BY <1>2, <1>4, <1>5, <1>7, <1>9, <1>10, TimedOpen
<1> QED BY <1>5, <1>8, <1>9, <1>11

\* SDNRCHK: N(R) is a slot, so LINKWS stays one.
LEMMA NrCheckOpen ==
  ASSUME NEW l, Open(l), NEW f, f.nr \in Slot
  PROVE  Open(NrCheck(l, f)) /\ NrCheck(l, f).state = l.state
<1>1. PICK u, v : u = [l EXCEPT !.rejf = TRUE] /\ v = [l EXCEPT !.ws = f.nr]
  OBVIOUS
<1>2. DOMAIN l = Fields
  BY Parts DEF Open
<1>3. Same(u, l, {"rejf"}) /\ Same(v, l, {"ws"}) /\ v.ws = f.nr
  BY <1>1, <1>2 DEF Same, Fields
<1>4. Open(u) /\ u.state = l.state
  BY <1>3, Retyped DEF Same, Fields, Untyped, Open
<1>5. Open(v) /\ v.state = l.state
  BY <1>3 DEF Same, Fields, Open, Typed
<1> QED BY <1>1, <1>4, <1>5, AckMsgOpen DEF NrCheck

-----------------------------------------------------------------------------
(* Reception of information.                                               *)

\* The frame that was waited for is passed on.
LEMMA AcceptOpen == ASSUME NEW l, Open(l), NEW item \in Nat PROVE Open(Accept(l, item))
<1>1. PICK m : m = Accept(l, item)
  OBVIOUS
<1>2. Typed(l) /\ l.state # 0
  BY DEF Open
<1>3. /\ DOMAIN l = Fields /\ l.rx \in Seq(Nat) /\ l.recv \in Seq(Nat) /\ l.nr \in Slot
      /\ l.frames \in [Slot -> Nat] /\ l.rxframes \in [Slot -> Nat] /\ l.state \in States
      /\ l.timer \in {"off", "due", "running"} /\ l.retries \in 0 .. 255
  BY <1>2, Parts
<1>4. /\ Same(m, l, {"rx", "recv", "nr"}) /\ m.rx = Append(l.rx, item)
      /\ m.recv = Append(l.recv, item) /\ m.nr = Mod(l.nr + 1)
  BY <1>1, <1>3 DEF Accept, Same, Fields
<1>5. m.rx \in Seq(Nat) /\ m.recv \in Seq(Nat)
  BY <1>3, <1>4
<1>6. PICK x \in Int : x = l.nr + 1
  BY <1>3, Ax25LinkAssumption DEF Slot
<1>7. m.nr \in Slot
  BY <1>4, <1>6, ModSlot
<1>8. /\ Same(m, l, Untyped \cup {"state", "frames", "rxframes", "rx", "recv", "nr", "timer", "retries"})
      /\ m.state = l.state /\ m.frames = l.frames /\ m.rxframes = l.rxframes
      /\ m.timer = l.timer /\ m.retries = l.retries
  BY <1>4 DEF Same, Fields
<1> QED BY <1>1, <1>2, <1>3, <1>5, <1>7, <1>8, KeptTyped

\* As many saved frames are passed on as there are, and not more than the limit.
LEMMA SavedWithin ==
  ASSUME NEW l, NEW limit \in Nat
  PROVE  Saved(l, limit) \in 0 .. limit
<1>1. PICK S : S = {n \in 0 .. limit : \A i \in 0 .. n - 1 : l.rxframes[Mod(l.nr + i)] # 0}
  OBVIOUS
<1>2. S \in SUBSET (0 .. limit) /\ 0 \in S
  BY <1>1
<1>3. Max(S) \in S
  BY <1>2, GreatestOf
<1> QED BY <1>1, <1>2, <1>3 DEF Saved

\* Saved frames are passed on; what is passed on are items, and their slots are emptied.
LEMMA AcceptSavedOpen ==
  ASSUME NEW l, Open(l), NEW n \in Nat
  PROVE  Open(AcceptSaved(l, n))
<1>1. PICK m, items : m = AcceptSaved(l, n) /\ items = [i \in 1 .. n |-> l.rxframes[Mod(l.nr + i - 1)]]
  OBVIOUS
<1>2. Typed(l) /\ l.state # 0
  BY DEF Open
<1>3. /\ DOMAIN l = Fields /\ l.rx \in Seq(Nat) /\ l.recv \in Seq(Nat) /\ l.nr \in Slot
      /\ l.frames \in [Slot -> Nat] /\ l.rxframes \in [Slot -> Nat] /\ l.state \in States
      /\ l.timer \in {"off", "due", "running"} /\ l.retries \in 0 .. 255
  BY <1>2, Parts
<1>4. /\ Same(m, l, {"rx", "recv", "nr", "rxframes"}) /\ m.rx = l.rx \o items
      /\ m.recv = l.recv \o items /\ m.nr = Mod(l.nr + n)
      /\ m.rxframes = [k \in Slot |-> IF Mod(k - l.nr) < n THEN 0 ELSE l.rxframes[k]]
  BY <1>1, <1>3 DEF AcceptSaved, Same, Fields
<1>5. \A i \in 1 .. n : l.rxframes[Mod(l.nr + i - 1)] \in Nat
  <2> TAKE i \in 1 .. n
  <2>1. PICK x \in Int : x = l.nr + i - 1
    BY <1>3, Ax25LinkAssumption DEF Slot
  <2> QED BY <1>3, <2>1, ModSlot
<1>6. items \in Seq(Nat)
  BY <1>1, <1>5
<1>7. m.rx \in Seq(Nat) /\ m.recv \in Seq(Nat)
  BY <1>3, <1>4, <1>6
<1>8. PICK x \in Int : x = l.nr + n
  BY <1>3, Ax25LinkAssumption DEF Slot
<1>9. m.nr \in Slot /\ m.rxframes \in [Slot -> Nat]
  BY <1>3, <1>4, <1>8, ModSlot
<1>10. /\ Same(m, l, Untyped \cup {"state", "frames", "rxframes", "rx", "recv", "nr", "timer", "retries"})
       /\ m.state = l.state /\ m.frames = l.frames /\ m.timer = l.timer /\ m.retries = l.retries
  BY <1>4 DEF Same, Fields
<1> QED BY <1>1, <1>2, <1>3, <1>7, <1>9, <1>10, KeptTyped

\* The link leaves REJ for state 5.
LEMMA LeaveRejOpen == ASSUME NEW l, Open(l) PROVE Open(LeaveRej(l))
<1>1. PICK m : m = [l EXCEPT !.state = 5]
  OBVIOUS
<1>2. Same(m, l, Untyped \cup {"state"}) /\ m.state \in States \ {0}
  BY <1>1, Parts DEF Same, Fields, Untyped, States, Open
<1> QED BY <1>1, <1>2, StaysOpen DEF LeaveRej

\* A record that differs in fields that are not typed stays open.
LEMMA MarkedOpen ==
  ASSUME NEW l, Open(l), NEW m, Same(m, l, Untyped)
  PROVE  Open(m)
<1>1. Same(m, l, Untyped \cup {"state"}) /\ m.state = l.state
  BY DEF Same, Fields, Untyped
<1>2. m.state \in States \ {0}
  BY <1>1, Parts DEF Open
<1> QED BY <1>1, <1>2, StaysOpen

\* RR_OR_RNR
LEMMA SequencedOpen == ASSUME NEW l, Open(l) PROVE Open(Sequenced(l))
<1>1. PICK n : n = Saved(l, Modulus)
  OBVIOUS
<1>2. n \in Nat
  BY <1>1, SavedWithin, Ax25LinkAssumption
<1>3. \A u, b : Open(u) => Open([u EXCEPT !.rnrsent = b])
  <2> SUFFICES ASSUME NEW u, NEW b, Open(u) PROVE Open([u EXCEPT !.rnrsent = b])
    OBVIOUS
  <2>1. PICK m : m = [u EXCEPT !.rnrsent = b]
    OBVIOUS
  <2>2. Same(m, u, Untyped)
    BY <2>1, Parts DEF Same, Fields, Untyped, Open
  <2> QED BY <2>1, <2>2, MarkedOpen
<1>4. Open(AcceptSaved(l, n))
  BY <1>2, AcceptSavedOpen
<1>5. Open(LeaveRej([AcceptSaved(l, n) EXCEPT !.rnrsent = FALSE]))
  BY <1>3, <1>4, LeaveRejOpen
<1> QED BY <1>1, <1>3, <1>5 DEF Sequenced

\* The commands and replies that carry N(R).
LEMMA AnswerOpen ==
  ASSUME NEW l, Open(l), NEW cmd \in BOOLEAN
  PROVE  Open(Put(l, Frame(Answer(l), cmd, l)))
<1>1. Answer(l) \in Supervisory
  BY DEF Answer, Supervisory
<1>2. Frame(Answer(l), cmd, l) \in AnyFrame
  BY <1>1, SupervisoryFrames DEF Open
<1> QED BY <1>2, PutOpen

\* The reply to a command of the other end
LEMMA SendRROrRNROpen == ASSUME NEW l, Open(l) PROVE Open(SendRROrRNR(l))
BY SequencedOpen, AnswerOpen DEF SendRROrRNR

\* Starting or stopping the timer leaves the link open.
LEMMA TimerOpen ==
  ASSUME NEW l, Open(l), NEW m, Same(m, l, Untyped \cup {"timer"}),
         m.timer \in {"off", "due", "running"}
  PROVE  Open(m)
<1>1. Same(m, l, Untyped \cup {"state", "timer", "retries"}) /\ m.state = l.state /\ m.retries = l.retries
  BY DEF Same, Fields, Untyped
<1>2. m.state \in States \ {0} /\ m.retries \in 0 .. 255
  BY <1>1, Parts DEF Open
<1> QED BY <1>1, <1>2, TimedOpen

\* SendSupervisCmd: a poll, with its timer
LEMMA SendSupervisCmdOpen == ASSUME NEW l, Open(l) PROVE Open(SendSupervisCmd(l))
<1>1. PICK u : u = Put(Sequenced(l), Frame(Answer(Sequenced(l)), TRUE, Sequenced(l)))
  OBVIOUS
<1>2. Open(u)
  BY <1>1, SequencedOpen, AnswerOpen
<1>3. PICK m : m = [u EXCEPT !.poll = TRUE, !.timer = "running"]
  OBVIOUS
<1>4. Same(m, u, Untyped \cup {"timer"}) /\ m.timer = "running"
  BY <1>2, <1>3, Parts DEF Same, Fields, Untyped, Open
<1> QED BY <1>1, <1>2, <1>3, <1>4, TimerOpen DEF SendSupervisCmd

\* SDFRMR: the link waits in state 3.
LEMMA FrmrOpen == ASSUME NEW l, Open(l) PROVE Open(Frmr(l)) /\ Open(SendFrmr(l))
<1>1. PICK m : m = [l EXCEPT !.state = 3, !.timer = "running"]
  OBVIOUS
<1>2. Same(m, l, Untyped \cup {"state", "timer", "retries"}) /\ m.state = 3 /\ m.timer = "running" /\ m.retries = l.retries
  BY <1>1, Parts DEF Same, Fields, Untyped, Open
<1>3. m.state \in States \ {0} /\ m.retries \in 0 .. 255
  BY <1>2, Parts DEF Open, States
<1>4. Open(m)
  BY <1>2, <1>3, TimedOpen
<1> QED BY <1>1, <1>4, PlainFrames, PutOpen DEF Frmr, SendFrmr

\* A frame of the window is kept until those before it have come.
LEMMA OutOfSequenceOpen ==
  ASSUME NEW l, Open(l), NEW f, f.ns \in Slot, f.item \in Nat
  PROVE  Open(OutOfSequence(l, f))
<1>1. PICK m : m = OutOfSequence(l, f)
  OBVIOUS
<1>2. /\ DOMAIN l = Fields /\ l.rx \in Seq(Nat) /\ l.recv \in Seq(Nat) /\ l.nr \in Slot
      /\ l.frames \in [Slot -> Nat] /\ l.rxframes \in [Slot -> Nat]
      /\ l.timer \in {"off", "due", "running"} /\ l.retries \in 0 .. 255
  BY Parts DEF Open
<1>3. /\ Same(m, l, Untyped \cup {"state", "frames", "rxframes", "rx", "recv", "nr", "timer", "retries"})
      /\ m.state = 6 /\ m.frames = l.frames /\ m.timer = l.timer /\ m.retries = l.retries
      /\ m.rx = l.rx /\ m.recv = l.recv /\ m.nr = l.nr
      /\ m.rxframes = [l.rxframes EXCEPT ![f.ns] = IF @ = 0 THEN f.item ELSE @]
  BY <1>1, <1>2 DEF OutOfSequence, Same, Fields
<1>4. m.rxframes \in [Slot -> Nat] /\ m.state \in States \ {0}
  BY <1>2, <1>3 DEF States
<1> QED BY <1>1, <1>2, <1>3, <1>4, KeptTyped

\* SDIFRM, with the frames that were saved and the acknowledgement that is sent
LEMMA InformationFrameOpen ==
  ASSUME NEW l, Open(l), NEW f, f.ns \in Slot, f.item \in Nat
  PROVE  Open(InformationFrame(l, f))
<1>1. PICK n : n = Saved(l, Mod(f.ns - l.nr))
  OBVIOUS
<1>2. n \in Nat
  <2>1. PICK x \in Int : x = f.ns - l.nr
    BY Parts, Ax25LinkAssumption DEF Open, Slot
  <2>2. Mod(x) \in Nat
    BY <2>1, ModSlot, Ax25LinkAssumption DEF Slot
  <2> QED BY <1>1, <2>1, <2>2, SavedWithin
<1>3. PICK u, m : u = AcceptSaved(l, n) /\ m = [u EXCEPT !.active = TRUE]
  OBVIOUS
<1>4. Open(u)
  BY <1>2, <1>3, AcceptSavedOpen
<1>5. Open(m)
  <2>1. Same(m, u, Untyped)
    BY <1>3, <1>4, Parts DEF Same, Fields, Untyped, Open
  <2> QED BY <1>4, <2>1, MarkedOpen
<1>6. PICK kept : kept = [m EXCEPT !.rxframes[f.ns] = 0]
  OBVIOUS
<1>7. Open(kept)
  <2>1. /\ DOMAIN m = Fields /\ m.rx \in Seq(Nat) /\ m.recv \in Seq(Nat) /\ m.nr \in Slot
        /\ m.frames \in [Slot -> Nat] /\ m.rxframes \in [Slot -> Nat]
        /\ m.timer \in {"off", "due", "running"} /\ m.retries \in 0 .. 255 /\ m.state \in States \ {0}
    BY <1>5, Parts DEF Open
  <2>2. /\ Same(kept, m, Untyped \cup {"state", "frames", "rxframes", "rx", "recv", "nr", "timer", "retries"})
        /\ kept.state = m.state /\ kept.frames = m.frames /\ kept.timer = m.timer
        /\ kept.retries = m.retries /\ kept.rx = m.rx /\ kept.recv = m.recv /\ kept.nr = m.nr
        /\ kept.rxframes = [m.rxframes EXCEPT ![f.ns] = 0]
    BY <1>6, <2>1 DEF Same, Fields
  <2>3. kept.rxframes \in [Slot -> Nat]
    BY <2>1, <2>2
  <2> QED BY <1>5, <2>1, <2>2, <2>3, KeptTyped
<1>8. PICK taken : taken = IF m.nr # f.ns THEN OutOfSequence(m, f)
                           ELSE Accept(IF m.state = 6 THEN LeaveRej(kept) ELSE kept, f.item)
  OBVIOUS
<1>9. Open(taken)
  <2>1. Open(OutOfSequence(m, f))
    BY <1>5, OutOfSequenceOpen
  <2>2. Open(LeaveRej(kept))
    BY <1>7, LeaveRejOpen
  <2>3. Open(Accept(kept, f.item)) /\ Open(Accept(LeaveRej(kept), f.item))
    BY <1>7, <2>2, AcceptOpen
  <2> QED BY <1>8, <2>1, <2>3
<1>10. Open(AckMsg(SendRROrRNR(taken), SendRROrRNR(taken).ws))
  BY <1>9, SendRROrRNROpen, AckMsgOpen
<1>11. InformationFrame(l, f) = IF f.pf THEN AckMsg(SendRROrRNR(taken), SendRROrRNR(taken).ws) ELSE taken
  BY <1>1, <1>3, <1>6, <1>8 DEF InformationFrame
<1> QED BY <1>9, <1>10, <1>11

-----------------------------------------------------------------------------
(* Supervisory frames.                                                     *)

\* SREJ(F): the frame of a slot is sent again, if there is one.
LEMMA ResendOpen == ASSUME NEW l, Open(l), NEW k \in Slot PROVE Open(Resend(l, k))
<1>1. PICK m : m = [l EXCEPT !.poll = TRUE, !.timer = "running"]
  OBVIOUS
<1>2. Same(m, l, Untyped \cup {"timer"}) /\ m.timer = "running"
  BY <1>1, Parts DEF Same, Fields, Untyped, Open
<1>3. Open(m)
  BY <1>2, TimerOpen
<1>4. Information(l, k, TRUE) \in AnyFrame
  BY InformationFrames DEF Open
<1> QED BY <1>1, <1>3, <1>4, PutOpen DEF Resend

\* A response to a poll: N(S) becomes an N(R), which is a slot.
LEMMA PolledAnswerOpen ==
  ASSUME NEW l, Open(l), NEW f, f.nr \in Slot
  PROVE  Open(PolledAnswer(l, f))
<1>0. /\ DOMAIN l = Fields /\ l.state \in States \ {0} /\ l.nr \in Slot /\ l.ws \in Slot
      /\ l.slot \in Slot /\ l.timer \in {"off", "due", "running"} /\ l.retries \in 0 .. 255
  BY Parts DEF Open
<1>1. PICK u, v : /\ u = [l EXCEPT !.poll = FALSE]
                  /\ v = [l EXCEPT !.poll = FALSE, !.ns = f.nr, !.timer = "off",
                                   !.retries = IF l.ns = f.nr THEN 0 ELSE @]
  OBVIOUS
<1>2. Open(u)
  <2>1. Same(u, l, Untyped)
    BY <1>0, <1>1 DEF Same, Fields, Untyped
  <2> QED BY <2>1, MarkedOpen
<1>3. Open(v)
  <2>1. /\ Same(v, l, Untyped \cup {"state", "nr", "ns", "ws", "slot", "timer", "retries"})
        /\ v.state = l.state /\ v.nr = l.nr /\ v.ns = f.nr /\ v.ws = l.ws /\ v.slot = l.slot
        /\ v.timer = "off" /\ v.retries \in {0, l.retries}
    BY <1>0, <1>1 DEF Same, Fields, Untyped
  <2>2. v.retries \in 0 .. 255 /\ v.timer \in {"off", "due", "running"}
    BY <1>0, <2>1
  <2>3. Typed(v)
    BY <1>0, <2>1, <2>2, SmallTyped DEF Open
  <2> QED BY <1>0, <2>1, <2>3 DEF Open
<1>4. \A m : Open(m) => Open([m EXCEPT !.timer = "running"])
  <2> SUFFICES ASSUME NEW m, Open(m) PROVE Open([m EXCEPT !.timer = "running"])
    OBVIOUS
  <2>1. PICK t : t = [m EXCEPT !.timer = "running"]
    OBVIOUS
  <2>2. Same(t, m, Untyped \cup {"timer"}) /\ t.timer = "running"
    BY <2>1, Parts DEF Same, Fields, Untyped, Open
  <2> QED BY <2>1, <2>2, TimerOpen
<1> QED BY <1>1, <1>2, <1>3, <1>4 DEF PolledAnswer

\* SFRAME
LEMMA SupervisoryFrameOpen ==
  ASSUME NEW l, Open(l), NEW f, f.nr \in Slot, f.cmd \in BOOLEAN, NEW soon \in BOOLEAN
  PROVE  Open(SupervisoryFrame(l, f, soon))
<1>1. Open(Resend(l, f.nr)) /\ Open(SendRROrRNR(l)) /\ Open(PolledAnswer(l, f))
  BY ResendOpen, SendRROrRNROpen, PolledAnswerOpen
<1> QED BY <1>1 DEF SupervisoryFrame

-----------------------------------------------------------------------------
(* Received frames.                                                        *)

\* The link is set up or reset.
LEMMA Reset2Open == ASSUME NEW l, Typed(l) PROVE Open(Reset2(l)) /\ Open(Reset2X(l))
<1>1. Typed(Reset2(l)) /\ Typed(Reset2X(l))
  BY Reset2Typed, Reset2XTyped
<1>2. ASSUME NEW u, Typed(u) PROVE Reset2X(u).state = 5
  BY <1>2, Parts DEF Reset2X, Fields
<1>3. Typed(ClearQueues(l))
  BY ClearQueuesTyped
<1> QED BY <1>1, <1>2, <1>3 DEF Reset2, Open

\* A response leaves the link open.
LEMMA SendRespOpen ==
  ASSUME NEW l, Open(l), NEW type \in {"UA", "DM"}
  PROVE  Open(SendResp(l, type))
BY PlainFrames, PutOpen DEF SendResp

\* A command leaves the link open, with its timer running.
LEMMA SendCommandOpen ==
  ASSUME NEW l, Open(l), NEW type \in {"SABM", "DISC"}
  PROVE  Open(SendCommand(l, type))
<1>1. PICK u, m : u = Put(l, Plain(type, TRUE)) /\ m = [u EXCEPT !.timer = "running"]
  OBVIOUS
<1>2. Open(u)
  BY <1>1, PlainFrames, PutOpen
<1>3. Same(m, u, Untyped \cup {"timer"}) /\ m.timer = "running"
  BY <1>1, <1>2, Parts DEF Same, Fields, Untyped, Open
<1> QED BY <1>1, <1>2, <1>3, TimerOpen DEF SendCommand

\* L2SABM: the link is set up from nothing.
LEMMA SabmTyped == ASSUME NEW l, Typed(l) PROVE Typed(Sabm(l))
<1>1. PICK u, m : u = Reset2(l) /\ m = [u EXCEPT !.timer = "off"]
  OBVIOUS
<1>2. Open(u)
  BY <1>1, Reset2Open
<1>3. Same(m, u, Untyped \cup {"timer"}) /\ m.timer = "off"
  BY <1>1, <1>2, Parts DEF Same, Fields, Untyped, Open
<1>4. Typed(m)
  BY <1>2, <1>3, TimerOpen DEF Open
<1> QED BY <1>1, <1>4, ReportTyped, SendRespTyped DEF Sabm

\* A frame was rejected: the link is reset and SABM sent.
LEMMA RestartTyped == ASSUME NEW l, Typed(l) PROVE Typed(Restart(l))
<1>1. PICK u, m : u = Reset2(l) /\ m = [u EXCEPT !.state = 2, !.retries = 0]
  OBVIOUS
<1>2. Open(u)
  BY <1>1, Reset2Open
<1>3. /\ Same(m, u, Untyped \cup {"state", "timer", "retries"}) /\ m.state = 2 /\ m.retries = 0
      /\ m.timer = u.timer
  BY <1>1, <1>2, Parts DEF Same, Fields, Untyped, Open
<1>4. m.state \in States \ {0} /\ m.retries \in 0 .. 255 /\ m.timer \in {"off", "due", "running"}
  BY <1>2, <1>3, Parts DEF States, Open
<1>5. Open(m)
  BY <1>2, <1>3, <1>4, TimedOpen
<1>6. Open(SendCommand(m, "SABM"))
  BY <1>5, SendCommandOpen
<1> QED BY <1>1, <1>6 DEF Restart, Open

\* The call was answered.
LEMMA ConnectedTyped == ASSUME NEW l, Typed(l) PROVE Typed(Connected(l))
<1>1. PICK u, m : u = Reset2X(l) /\ m = [u EXCEPT !.timer = "off", !.retries = 0]
  OBVIOUS
<1>2. Open(u)
  BY <1>1, Reset2Open
<1>3. /\ Same(m, u, Untyped \cup {"state", "timer", "retries"}) /\ m.state = u.state /\ m.retries = 0
      /\ m.timer = "off"
  BY <1>1, <1>2, Parts DEF Same, Fields, Untyped, Open
<1>4. m.state \in States \ {0} /\ m.retries \in 0 .. 255 /\ m.timer \in {"off", "due", "running"}
  BY <1>2, <1>3, Parts DEF States, Open
<1>5. Typed(m)
  BY <1>2, <1>3, <1>4, TimedOpen DEF Open
<1> QED BY <1>1, <1>5, ReportTyped DEF Connected

\* The fields of a frame that is played.
LEMMA FrameFields ==
  ASSUME NEW f \in AnyFrame
  PROVE  /\ f.type \in FrameType /\ f.cmd \in BOOLEAN /\ f.pf \in BOOLEAN
         /\ f.type \in Supervisory \cup {"I"} => f.nr \in Slot
         /\ f.type = "I" => f.ns \in Slot /\ f.item \in Nat
BY DEF AnyFrame, FrameType, Supervisory

\* SDIFRM, SFRAME and SDUFRM, in states 5 and 6
LEMMA LinkUpTyped ==
  ASSUME NEW l, Open(l), NEW f \in AnyFrame, f.type \notin {"SABM", "DISC"}, NEW soon \in BOOLEAN
  PROVE  Typed(LinkUp(l, f, soon))
<1>1. CASE f.type \in Supervisory \cup {"I"}
  <2>1. f.nr \in Slot /\ f.cmd \in BOOLEAN
    BY <1>1, FrameFields
  <2>2. PICK m : m = IF l.rejf THEN l ELSE NrCheck(l, f)
    OBVIOUS
  <2>3. Open(m)
    BY <2>1, <2>2, NrCheckOpen
  <2>4. Open(Frmr(m)) /\ Open(SupervisoryFrame(m, f, soon))
    BY <2>1, <2>3, FrmrOpen, SupervisoryFrameOpen
  <2>5. f.type = "I" => Open(InformationFrame(m, f))
    BY <2>3, FrameFields, InformationFrameOpen
  <2>6. CASE f.type = "I"
    <3>1. LinkUp(l, f, soon) = IF m.rejf THEN Frmr(m) ELSE InformationFrame(m, f)
      BY <2>2, <2>6 DEF LinkUp, Supervisory
    <3> QED BY <2>4, <2>5, <2>6, <3>1 DEF Open
  <2>7. CASE f.type # "I"
    <3>1. LinkUp(l, f, soon) = IF m.rejf THEN Frmr(m) ELSE SupervisoryFrame(m, f, soon)
      BY <1>1, <2>2, <2>7 DEF LinkUp, Supervisory
    <3> QED BY <2>4, <3>1 DEF Open
  <2> QED BY <2>6, <2>7
<1>2. CASE f.type = "FRMR"
  <2>1. LinkUp(l, f, soon) = Restart(l)
    BY <1>2 DEF LinkUp, Supervisory
  <2> QED BY <2>1, RestartTyped DEF Open
<1>3. CASE f.type = "DM"
  <2>1. LinkUp(l, f, soon) = Lost(l)
    BY <1>3 DEF LinkUp, Supervisory
  <2> QED BY <2>1, LostTyped DEF Open
<1>4. CASE f.type = "UA"
  <2>1. LinkUp(l, f, soon) = l
    BY <1>4 DEF LinkUp, Supervisory
  <2> QED BY <2>1 DEF Open
<1> QED BY <1>1, <1>2, <1>3, <1>4, FrameFields DEF FrameType, Supervisory

\* The other states
LEMMA LinkDownTyped ==
  ASSUME NEW l, Typed(l), NEW f \in AnyFrame
  PROVE  Typed(LinkDown(l, f))
<1>1. Typed(Connected(l)) /\ Typed(Lost(l)) /\ Typed(Report(l, "ConBusy")) /\ Typed(Restart(l))
  BY ConnectedTyped, LostTyped, ReportTyped, RestartTyped
<1> QED BY <1>1 DEF LinkDown

\* L2_PROCESS: in state 3 only commands are answered.
LEMMA ProcessTyped ==
  ASSUME NEW l, Typed(l), NEW f \in AnyFrame, f.type \notin {"SABM", "DISC"}, NEW soon \in BOOLEAN
  PROVE  Typed(Process(l, f, soon))
<1>1. PICK u, m : u = [l EXCEPT !.timer = "off"] /\ m = IF ~f.cmd /\ f.pf THEN u ELSE l
  OBVIOUS
<1>2. Typed(u)
  <2>1. /\ DOMAIN l = Fields /\ l.state \in States /\ l.nr \in Slot /\ l.ns \in Slot
        /\ l.ws \in Slot /\ l.slot \in Slot /\ l.retries \in 0 .. 255
    BY Parts
  <2>2. /\ Same(u, l, Untyped \cup {"state", "nr", "ns", "ws", "slot", "timer", "retries"})
        /\ u.state = l.state /\ u.nr = l.nr /\ u.ns = l.ns /\ u.ws = l.ws /\ u.slot = l.slot
        /\ u.retries = l.retries /\ u.timer = "off"
    BY <1>1, <2>1 DEF Same, Fields, Untyped
  <2>3. u.timer \in {"off", "due", "running"}
    BY <2>2
  <2> QED BY <2>1, <2>2, <2>3, SmallTyped
<1>3. Typed(m)
  BY <1>1, <1>2
<1>4. CASE m.state = 3
  <2>1. Open(m)
    BY <1>3, <1>4 DEF Open
  <2>2. Typed(SendFrmr(m))
    BY <2>1, FrmrOpen DEF Open
  <2> QED BY <1>1, <1>3, <1>4, <2>2 DEF Process
<1>5. CASE m.state # 3 /\ m.state >= 5
  <2>1. Open(m)
    BY <1>3, <1>5 DEF Open
  <2> QED BY <1>1, <1>5, <2>1, LinkUpTyped DEF Process
<1>6. CASE m.state # 3 /\ ~(m.state >= 5)
  BY <1>1, <1>3, <1>6, LinkDownTyped DEF Process
<1> QED BY <1>4, <1>5, <1>6

\* A SABM for a link that exists
LEMMA SabmOnLinkTyped == ASSUME NEW l, Typed(l) PROVE Typed(SabmOnLink(l))
<1>1. Typed(SendResp(l, "DM")) /\ Typed(SendResp(l, "UA")) /\ Typed(Sabm(Report(l, "DiscRpt")))
  BY SendRespTyped, ReportTyped, SabmTyped
<1> QED BY <1>1 DEF SabmOnLink

\* Every frame that is heard leaves the link within the types, whatever its state.
LEMMA ReceiveTyped ==
  ASSUME NEW l, Typed(l), NEW f \in AnyFrame, NEW soon \in BOOLEAN, NEW full \in BOOLEAN
  PROVE  Typed(Receive(l, f, soon, full))
<1>1. Typed(SendResp(Lost(l), "UA")) /\ Typed(SendResp(l, "DM")) /\ Typed(Sabm(l)) /\ Typed(SabmOnLink(l))
  BY LostTyped, SendRespTyped, SabmTyped, SabmOnLinkTyped
<1>2. f.type \notin {"SABM", "DISC"} => Typed(Process(l, f, soon))
  BY ProcessTyped
<1>3. Typed(LinkActive(l, f, soon))
  BY <1>1, <1>2 DEF LinkActive
<1>4. Typed(ForUs(l, f, full))
  BY <1>1 DEF ForUs
<1> QED BY <1>3, <1>4 DEF Receive

-----------------------------------------------------------------------------
(* Sending.                                                                *)

\* The slots that are free take the next items, as far as there are any.
LEMMA LoadOpen == ASSUME NEW l, Open(l) PROVE Open(Load(l))
<1>0. Typed(l) /\ Modulus \in Nat /\ Modulus >= 2
  BY Ax25LinkAssumption DEF Open
<1>1. /\ DOMAIN l = Fields /\ l.frames \in [Slot -> Nat] /\ l.slot \in Slot /\ l.next \in Nat
      /\ l.given \in Nat /\ l.next <= l.given + 1
  BY <1>0, Parts
<1>2. PICK S : S = {n \in 0 .. Modulus : /\ l.next + n - 1 <= l.given
                                         /\ \A i \in 0 .. n - 1 : l.frames[Mod(l.slot + i)] = 0}
  OBVIOUS
<1>3. PICK n : n = Max(S)
  OBVIOUS
<1>4. n \in 0 .. Modulus /\ l.next + n - 1 <= l.given
  <2>1. S \in SUBSET (0 .. Modulus) /\ 0 \in S
    BY <1>0, <1>1, <1>2
  <2>2. n \in S
    BY <1>0, <1>3, <2>1, GreatestOf
  <2> QED BY <1>2, <2>2
<1>5. PICK m : m = Load(l)
  OBVIOUS
<1>6. /\ Same(m, l, {"frames", "slot", "next"}) /\ m.slot = Mod(l.slot + n) /\ m.next = l.next + n
      /\ m.frames = [k \in Slot |-> IF Mod(k - l.slot) < n THEN l.next + Mod(k - l.slot)
                                                           ELSE l.frames[k]]
  <2>1. m = [l EXCEPT !.frames = [k \in Slot |-> IF Mod(k - l.slot) < n
                                                 THEN l.next + Mod(k - l.slot) ELSE @[k]],
                      !.slot = Mod(@ + n), !.next = @ + n]
    BY <1>2, <1>3, <1>5 DEF Load
  <2> QED BY <1>1, <2>1 DEF Same, Fields
<1>7. m.slot \in Slot /\ m.next \in Nat /\ m.next <= m.given + 1 /\ m.given = l.given
  <2>1. PICK x \in Int : x = l.slot + n
    BY <1>0, <1>1, <1>4 DEF Slot
  <2>2. Mod(x) \in Slot /\ m.given = l.given
    BY <2>1, <1>6, ModSlot DEF Same, Fields
  <2> QED BY <1>1, <1>4, <1>6, <2>1, <2>2
<1>8. m.frames \in [Slot -> Nat]
  <2>1. ASSUME NEW k \in Slot PROVE Mod(k - l.slot) \in Nat
    <3>1. PICK x \in Int : x = k - l.slot
      BY <1>0, <1>1 DEF Slot
    <3>2. Mod(x) \in Slot
      BY ModSlot
    <3>3. Mod(x) \in Nat
      BY <3>2, <1>0 DEF Slot
    <3> QED BY <3>1, <3>3
  <2>2. \A k \in Slot : m.frames[k] \in Nat
    BY <1>1, <1>6, <2>1
  <2> QED BY <1>6, <2>2
<1>9. /\ DOMAIN m = Fields /\ m.state = l.state /\ m.nr = l.nr /\ m.ns = l.ns /\ m.ws = l.ws
      /\ m.timer = l.timer /\ m.retries = l.retries /\ m.rxframes = l.rxframes /\ m.rx = l.rx
      /\ m.recv = l.recv /\ m.out = l.out
  BY <1>6 DEF Same, Fields
<1>10. Typed(m) /\ m.state # 0
  BY <1>1, <1>7, <1>8, <1>9 DEF Typed, Open
<1> QED BY <1>5, <1>10 DEF Open

\* A burst ends within the window, and only frames that are there are in it.
LEMMA SendFramesOpen == ASSUME NEW l, Open(l) PROVE Open(SendFrames(l))
<1>0. Typed(l) /\ Modulus \in Nat /\ Modulus >= 2
  BY Ax25LinkAssumption DEF Open
<1>1. DOMAIN l = Fields /\ l.ns \in Slot /\ l.ws \in Slot
  BY <1>0, Parts
<1>2. CASE l.poll \/ l.frames[l.ns] = 0
  BY <1>2 DEF SendFrames
<1>3. CASE ~(l.poll \/ l.frames[l.ns] = 0)
  <2>1. PICK S, n : S = {k \in 1 .. Modulus : EndsOver(l, k)} /\ n = Min(S)
    OBVIOUS
  <2>2. n \in 1 .. Modulus
    <3>1. S \in SUBSET (0 .. Modulus)
      BY <1>0, <2>1
    <3>2. S # {}
      BY <1>1, <2>1, WindowEnds DEF EndsOver
    <3>3. n \in S
      BY <1>0, <2>1, <3>1, <3>2, LeastOf
    <3> QED BY <2>1, <3>3
  <2>3. PICK burst : burst = [i \in 1 .. n |-> Information(l, Mod(l.ns + i - 1), i = n)]
    OBVIOUS
  <2>4. burst \in Seq(AnyFrame)
    <3>1. ASSUME NEW i \in 1 .. n PROVE Information(l, Mod(l.ns + i - 1), i = n) \in AnyFrame
      <4>1. PICK x \in Int : x = l.ns + i - 1
        BY <1>0, <1>1, <2>2 DEF Slot
      <4>2. PICK k \in Slot : k = Mod(x)
        BY ModSlot
      <4>3. PICK b \in BOOLEAN : b = (i = n)
        OBVIOUS
      <4>4. Information(l, k, b) \in AnyFrame
        BY <1>0, InformationFrames
      <4> QED BY <4>1, <4>2, <4>3, <4>4
    <3> QED BY <2>2, <2>3, <3>1
  <2>5. PICK m : m = [l EXCEPT !.out = @ \o burst, !.ns = Mod(@ + n), !.poll = TRUE, !.timer = "running"]
    OBVIOUS
  <2>6. /\ Same(m, l, {"out", "ns", "poll", "timer"}) /\ m.out = l.out \o burst
        /\ m.ns = Mod(l.ns + n) /\ m.timer = "running"
    BY <1>1, <2>5 DEF Same, Fields
  <2>7. m.out \in Seq(AnyFrame)
    BY <1>0, <2>4, <2>6 DEF Typed
  <2>8. m.ns \in Slot
    <3>1. PICK x \in Int : x = l.ns + n
      BY <1>0, <1>1, <2>2 DEF Slot
    <3> QED BY <2>6, <3>1, ModSlot
  <2>9. /\ DOMAIN m = Fields /\ m.state = l.state /\ m.nr = l.nr /\ m.ws = l.ws /\ m.slot = l.slot
        /\ m.retries = l.retries /\ m.frames = l.frames /\ m.rxframes = l.rxframes /\ m.rx = l.rx
        /\ m.recv = l.recv /\ m.next = l.next /\ m.given = l.given
    BY <2>6 DEF Same, Fields
  <2>10. Typed(m) /\ m.state # 0
    BY <1>0, <2>6, <2>7, <2>8, <2>9 DEF Typed, Open
  <2>11. SendFrames(l) = m
    BY <1>3, <2>1, <2>3, <2>5 DEF SendFrames
  <2> QED BY <2>10, <2>11 DEF Open
<1> QED BY <1>2, <1>3

\* SDETX
LEMMA SdetxOpen == ASSUME NEW l, Open(l) PROVE Open(Sdetx(l))
BY LoadOpen, SendFramesOpen DEF Sdetx

-----------------------------------------------------------------------------
(* The timers and the host.                                                *)

\* The last retry has failed: the link goes down.
LEMMA GiveUpOpen == ASSUME NEW l, Open(l) PROVE Open(GiveUp(l))
<1>1. PICK u, m : u = Report(l, "DiscRpt") /\ m = [u EXCEPT !.retries = 254, !.state = 4]
  OBVIOUS
<1>2. Same(u, l, Untyped)
  BY <1>1, Parts DEF Report, Same, Fields, Untyped, Open
<1>3. Open(u)
  BY <1>2, MarkedOpen
<1>4. /\ Same(m, u, Untyped \cup {"state", "timer", "retries"}) /\ m.state = 4 /\ m.retries = 254
      /\ m.timer = u.timer
  <2>1. DOMAIN u = Fields
    BY <1>3, Parts DEF Open
  <2>2. m = [u EXCEPT !.retries = 254, !.state = 4]
    BY <1>1
  <2> QED BY <2>1, <2>2 DEF Same, Fields, Untyped
<1>5. u.timer \in {"off", "due", "running"} /\ m.timer \in {"off", "due", "running"}
  <2>1. u.timer \in {"off", "due", "running"}
    BY <1>3, Parts DEF Open
  <2> QED BY <1>4, <2>1
<1>6. m.state \in States \ {0} /\ m.retries \in 0 .. 255
  BY <1>4 DEF States
<1>7. Open(m)
  BY <1>3, <1>4, <1>5, <1>6, TimedOpen
<1> QED BY <1>1, <1>7, SendCommandOpen DEF GiveUp

\* The count of retries is a byte.
LEMMA RetriedOpen == ASSUME NEW l, Open(l) PROVE Open(Retried(l))
<1>1. PICK m : m = Retried(l)
  OBVIOUS
<1>2. /\ DOMAIN l = Fields /\ l.state \in States \ {0} /\ l.retries \in 0 .. 255
      /\ l.timer \in {"off", "due", "running"}
  BY Parts DEF Open
<1>3. /\ Same(m, l, Untyped \cup {"state", "timer", "retries"}) /\ m.state = l.state
      /\ m.retries = (l.retries + 1) % 256 /\ m.timer = l.timer
  BY <1>1, <1>2 DEF Retried, Same, Fields, Untyped
<1>4. m.retries \in 0 .. 255
  BY <1>2, <1>3
<1> QED BY <1>1, <1>2, <1>3, <1>4, TimedOpen

\* L2TIMEOUT, in each state
LEMMA TimeoutTyped == ASSUME NEW l, Open(l) PROVE Typed(Timeout(l))
<1>1. PICK m : m = [Retried(l) EXCEPT !.timer = "off"]
  OBVIOUS
<1>2. Open(m)
  <2>1. PICK u : u = Retried(l)
    OBVIOUS
  <2>2. Open(u)
    BY <2>1, RetriedOpen
  <2>3. DOMAIN u = Fields
    BY <2>2, Parts DEF Open
  <2>4. Same(m, u, Untyped \cup {"timer"}) /\ m.timer = "off"
    BY <1>1, <2>1, <2>3 DEF Same, Fields, Untyped
  <2> QED BY <2>2, <2>4, TimerOpen
<1>3. PICK again : again = IF l.state = 3 THEN Retried(m) ELSE m
  OBVIOUS
<1>4. Open(again)
  BY <1>2, <1>3, RetriedOpen
<1>5. PICK back : back = [m EXCEPT !.retries = 0, !.state = 2]
  OBVIOUS
<1>6. Open(back)
  <2>1. /\ Same(back, m, Untyped \cup {"state", "timer", "retries"}) /\ back.state = 2
        /\ back.retries = 0 /\ back.timer = m.timer
    BY <1>2, <1>5, Parts DEF Same, Fields, Untyped, Open
  <2>2. back.state \in States \ {0} /\ back.retries \in 0 .. 255 /\ back.timer \in {"off", "due", "running"}
    BY <1>2, <2>1, Parts DEF States, Open
  <2> QED BY <1>2, <2>1, <2>2, TimedOpen
<1>7. /\ Typed(ClearOutLink(Report(m, "ConFailed"))) /\ Typed(ClearOutLink(m))
      /\ Typed(SendCommand(m, "SABM")) /\ Typed(SendCommand(m, "DISC"))
  BY <1>2, ReportTyped, ClearOutLinkTyped, SendCommandTyped DEF Open
<1>8. Typed(SendCommand(back, "SABM")) /\ Typed(GiveUp(again)) /\ Typed(SendSupervisCmd(again))
  BY <1>4, <1>6, SendCommandOpen, GiveUpOpen, SendSupervisCmdOpen DEF Open
<1>9. l.state \in {2, 3, 4, 5, 6}
  BY Parts DEF Open, States
<1>10. PICK last : last = (m.retries >= N2)
  OBVIOUS
<1>11. Timeout(l) \in {ClearOutLink(Report(m, "ConFailed")), ClearOutLink(m), SendCommand(m, "SABM"),
                       SendCommand(m, "DISC"), SendCommand(back, "SABM"), GiveUp(again),
                       SendSupervisCmd(again)}
  <2>1. CASE l.state = 2
    BY <1>1, <2>1 DEF Timeout
  <2>2. CASE l.state = 4
    BY <1>1, <2>2 DEF Timeout
  <2>3. CASE l.state = 3 /\ m.retries >= N2
    BY <1>1, <1>5, <2>3 DEF Timeout
  <2>4. CASE l.state \in {3, 5, 6} /\ ~(l.state = 3 /\ m.retries >= N2)
    <3>1. CASE l.state = 3
      <4>1. ~(m.retries >= N2)
        BY <2>4, <3>1
      <4>2. Timeout(l) = IF again.retries >= N2 THEN GiveUp(again) ELSE SendSupervisCmd(again)
        BY <1>1, <1>3, <3>1, <4>1 DEF Timeout
      <4> QED BY <4>2
    <3>2. CASE l.state \in {5, 6}
      <4>1. l.state # 2 /\ l.state # 3 /\ l.state # 4
        BY <3>2
      <4>2. again = m
        BY <1>3, <4>1
      <4>3. Timeout(l) = IF m.retries >= N2 THEN GiveUp(m) ELSE SendSupervisCmd(m)
        BY <1>1, <3>2, <4>1 DEF Timeout
      <4> QED BY <4>2, <4>3
    <3> QED BY <2>4, <3>1, <3>2
  <2> QED BY <1>9, <2>1, <2>2, <2>3, <2>4
<1> QED BY <1>7, <1>8, <1>11

\* DISCONNECT, KILLTIMER and CheckForPktData
LEMMA ClosingTyped ==
  ASSUME NEW l, Typed(l)
  PROVE  Typed(Closing(l)) /\ Typed(KillIdle(l)) /\ Typed(Reported(l))
<1>1. ASSUME NEW m, Same(m, l, {"state", "timer"}), m.state = 4, m.timer = "due" PROVE Typed(m)
  <2>1. /\ l.nr \in Slot /\ l.ns \in Slot /\ l.ws \in Slot /\ l.slot \in Slot /\ l.retries \in 0 .. 255
    BY Parts
  <2>2. /\ Same(m, l, Untyped \cup {"state", "nr", "ns", "ws", "slot", "timer", "retries"})
        /\ m.nr = l.nr /\ m.ns = l.ns /\ m.ws = l.ws /\ m.slot = l.slot /\ m.retries = l.retries
    BY <1>1 DEF Same, Fields
  <2>3. m.state \in States /\ m.state # 0 /\ m.timer \in {"off", "due", "running"}
    BY <1>1 DEF States
  <2> QED BY <2>1, <2>2, <2>3, SmallTyped
<1>2. PICK c, k : c = [l EXCEPT !.state = 4, !.timer = "due"] /\ k = [l EXCEPT !.timer = "due", !.state = 4]
  OBVIOUS
<1>3. Typed(c) /\ Typed(k)
  <2>1. DOMAIN l = Fields
    BY Parts
  <2>2. Same(c, l, {"state", "timer"}) /\ c.state = 4 /\ c.timer = "due"
    BY <1>2, <2>1 DEF Same, Fields
  <2>3. Same(k, l, {"state", "timer"}) /\ k.state = 4 /\ k.timer = "due"
    BY <1>2, <2>1 DEF Same, Fields
  <2> QED BY <1>1, <2>2, <2>3
<1>4. PICK r : r = [l EXCEPT !.reports = {}]
  OBVIOUS
<1>5. Typed(r)
  <2>1. DOMAIN r = Fields /\ \A x \in Fields \ Untyped : r[x] = l[x]
    BY <1>4, Parts DEF Fields, Untyped
  <2> QED BY <2>1, Retyped
<1> QED BY <1>2, <1>3, <1>4, <1>5, ReportTyped, RemovedTyped DEF Closing, KillIdle, Reported

-----------------------------------------------------------------------------
(* The two stations.                                                       *)

\* The other station is another one.
LEMMA PeerIsOther == ASSUME NEW p \in Station PROVE Peer(p) \in Station /\ Peer(p) # p
<1>1. \E q \in Station : q # p
  BY Ax25Assumption
<1> QED BY <1>1 DEF Peer

\* A step that gives a station a typed record keeps the invariant.
LEMMA ChangeTyped ==
  ASSUME TypedInv, NEW p \in Station, NEW l, Typed(l), Change(p, l)
  PROVE  TypedInv'
<1>1. DOMAIN link' = Station /\ link'[p] = l /\ \A q \in Station : q # p => link'[q] = link[q]
  BY DEF Change, TypedInv
<1>2. \A q \in Station : Typed(link'[q])
  BY <1>1 DEF TypedInv
<1> QED BY <1>1, <1>2 DEF TypedInv, Typed

\* Fields of a typed record that a host's command or the air changes.
LEMMA OutTailTyped ==
  ASSUME NEW l, Typed(l), l.out # <<>>
  PROVE  Typed([l EXCEPT !.out = Tail(@)]) /\ Head(l.out) \in AnyFrame
<1>1. PICK m : m = [l EXCEPT !.out = Tail(@)]
  OBVIOUS
<1>2. l.out \in Seq(AnyFrame) /\ DOMAIN l = Fields
  BY DEF Typed
<1>3. Same(m, l, {"out"}) /\ m.out = Tail(l.out)
  BY <1>1, <1>2 DEF Same, Fields
<1>4. m.out \in Seq(AnyFrame) /\ Head(l.out) \in AnyFrame
  BY <1>2, <1>3
<1>5. Typed(m)
  BY <1>3, <1>4 DEF Same, Fields, Typed
<1> QED BY <1>1, <1>4, <1>5

\* The host calls, gives an item, closes the link, or reads.
LEMMA HostsTyped ==
  ASSUME TypedInv, NEW p \in Station, HostCall(p) \/ HostSend(p) \/ HostClose(p) \/ HostPoll(p)
  PROVE  TypedInv'
<1>0. Typed(link[p]) /\ DOMAIN link[p] = Fields
  BY DEF TypedInv, Typed
<1>1. CASE HostCall(p)
  <2>1. PICK u, m : u = Reset2(link[p]) /\ m = [u EXCEPT !.state = 2, !.timer = "due"]
    OBVIOUS
  <2>2. Open(u)
    BY <1>0, <2>1, Reset2Open
  <2>3. DOMAIN u = Fields /\ u.retries \in 0 .. 255
    BY <2>2, Parts DEF Open
  <2>4. /\ Same(m, u, Untyped \cup {"state", "timer", "retries"}) /\ m.state = 2
        /\ m.timer = "due" /\ m.retries = u.retries
    BY <2>1, <2>3 DEF Same, Fields, Untyped
  <2>5. m.state \in States \ {0} /\ m.timer \in {"off", "due", "running"}
    BY <2>4 DEF States
  <2>6. Typed(m)
    BY <2>2, <2>3, <2>4, <2>5, TimedOpen DEF Open
  <2>7. Change(p, m)
    BY <1>1, <2>1 DEF HostCall
  <2> QED BY <2>6, <2>7, ChangeTyped
<1>2. CASE HostSend(p)
  <2>1. PICK l, m : l = link[p] /\ m = [l EXCEPT !.given = @ + 1]
    OBVIOUS
  <2>2. Same(m, l, {"given"}) /\ m.given = l.given + 1
    BY <1>0, <2>1 DEF Same, Fields
  <2>3. m.given \in Nat /\ m.next = l.next /\ l.next \in Nat /\ m.next <= m.given + 1
    BY <1>0, <2>1, <2>2, Parts DEF Same, Fields
  <2>4. Typed(l)
    BY <1>0, <2>1
  <2>5. Typed(m)
    BY <2>2, <2>3, <2>4 DEF Same, Fields, Typed
  <2>6. Change(p, m)
    BY <1>2, <2>1 DEF HostSend, Act
  <2> QED BY <2>5, <2>6, ChangeTyped
<1>3. CASE HostClose(p)
  <2>1. Change(p, Closing(link[p]))
    BY <1>3 DEF HostClose
  <2> QED BY <1>0, <2>1, ClosingTyped, ChangeTyped
<1>4. CASE HostPoll(p)
  <2>1. CASE Act(p, Reported(link[p]))
    BY <1>0, <2>1, ClosingTyped, ChangeTyped DEF Act
  <2>2. CASE link[p].rx # <<>> /\ Act(p, [link[p] EXCEPT !.rx = Tail(@)])
    <3>1. PICK l, m : l = link[p] /\ m = [l EXCEPT !.rx = Tail(@)]
      OBVIOUS
    <3>2. Same(m, l, {"rx"}) /\ m.rx = Tail(l.rx)
      BY <1>0, <3>1 DEF Same, Fields
    <3>3. Typed(l) /\ l.rx \in Seq(Nat) /\ l.rx # <<>>
      BY <1>0, <2>2, <3>1, Parts
    <3>4. m.rx \in Seq(Nat) /\ l.state # 0
      BY <3>2, <3>3 DEF Typed
    <3>5. Typed(m)
      BY <3>2, <3>3, <3>4 DEF Same, Fields, Typed
    <3> QED BY <2>2, <3>1, <3>5, ChangeTyped DEF Act
  <2> QED BY <1>4, <2>1, <2>2 DEF HostPoll
<1> QED BY <1>1, <1>2, <1>3, <1>4

\* A frame is heard by the other station, or lost.
LEMMA RadioTyped ==
  ASSUME TypedInv, NEW p \in Station, Hear(p) \/ Lose(p)
  PROVE  TypedInv'
<1>0. Typed(link[p])
  BY DEF TypedInv
<1>1. CASE Hear(p)
  <2>1. PICK q \in Station : q = Peer(p) /\ q # p
    BY PeerIsOther
  <2>2. PICK sent, f : sent = [link[q] EXCEPT !.out = Tail(@)] /\ f = Head(link[q].out)
    OBVIOUS
  <2>3. Typed(sent) /\ f \in AnyFrame
    <3>1. link[q].out # <<>> /\ Typed(link[q])
      BY <1>1, <2>1 DEF Hear, TypedInv
    <3> QED BY <2>2, <3>1, OutTailTyped
  <2>7. PICK soon \in BOOLEAN, full \in BOOLEAN :
          link' = [link EXCEPT ![q].out = Tail(@), ![p] = Receive(@, f, soon, full)]
    BY <1>1, <2>1, <2>2 DEF Hear
  <2>4. Typed(Receive(link[p], f, soon, full))
    BY <1>0, <2>3, ReceiveTyped
  <2>5. /\ DOMAIN link' = Station /\ link'[q] = sent /\ link'[p] = Receive(link[p], f, soon, full)
        /\ \A r \in Station : r # p /\ r # q => link'[r] = link[r]
    <3>2. DOMAIN link = Station
      BY DEF TypedInv
    <3>3. PICK s : s = [link EXCEPT ![q].out = Tail(@)]
      OBVIOUS
    <3>4. DOMAIN s = Station /\ s[q] = sent /\ \A r \in Station : r # q => s[r] = link[r]
      BY <2>2, <3>2, <3>3
    <3>5. link' = [s EXCEPT ![p] = Receive(link[p], f, soon, full)]
      BY <2>7, <3>3
    <3> QED BY <2>1, <3>4, <3>5
  <2>6. \A r \in Station : Typed(link'[r])
    BY <2>3, <2>4, <2>5 DEF TypedInv
  <2> QED BY <2>5, <2>6 DEF TypedInv, Typed
<1>2. CASE Lose(p)
  <2>1. Change(p, [link[p] EXCEPT !.out = Tail(@)]) /\ link[p].out # <<>>
    BY <1>2 DEF Lose
  <2> QED BY <1>0, <2>1, OutTailTyped, ChangeTyped
<1> QED BY <1>1, <1>2

\* The background sends, or looks at a timer.
LEMMA BackgroundTyped ==
  ASSUME TypedInv, NEW p \in Station,
         Send(p) \/ Expire(p) \/ NoLongerBusy(p) \/ Validate(p) \/ TooLongIdle(p)
  PROVE  TypedInv'
<1>0. Typed(link[p]) /\ link[p].state \in States
  BY DEF TypedInv, Typed
<1>1. CASE Send(p)
  <2>1. Open(link[p])
    BY <1>0, <1>1 DEF Send, MaySend, Open
  <2> QED BY <1>1, <2>1, SdetxOpen, ChangeTyped DEF Send, Act, Open
<1>2. CASE Ticking(p) /\ Act(p, Timeout(link[p]))
  <2>1. Open(link[p])
    BY <1>0, <1>2 DEF Ticking, Open
  <2> QED BY <1>2, <2>1, TimeoutTyped, ChangeTyped DEF Act
<1>3. CASE Ticking(p) /\ (Act(p, SendSupervisCmd(link[p])) \/ Act(p, Sequenced(link[p])))
  <2>1. Open(link[p])
    BY <1>0, <1>3 DEF Ticking, Open
  <2>2. Typed(SendSupervisCmd(link[p])) /\ Typed(Sequenced(link[p]))
    BY <2>1, SendSupervisCmdOpen, SequencedOpen DEF Open
  <2> QED BY <1>3, <2>2, ChangeTyped DEF Act
<1>4. CASE Act(p, KillIdle(link[p]))
  BY <1>0, <1>4, ClosingTyped, ChangeTyped DEF Act
<1>5. Expire(p) => Ticking(p) /\ Act(p, Timeout(link[p]))
  BY DEF Expire, MayExpire
<1>6. NoLongerBusy(p) \/ Validate(p) =>
        Ticking(p) /\ (Act(p, SendSupervisCmd(link[p])) \/ Act(p, Sequenced(link[p])))
  BY DEF NoLongerBusy, CanGoOn, Validate, Idle
<1>7. TooLongIdle(p) => Act(p, KillIdle(link[p]))
  BY DEF TooLongIdle
<1> QED BY <1>1, <1>2, <1>3, <1>4, <1>5, <1>6, <1>7

\* The invariant holds at the start, is kept by every step, and gives the types.
LEMMA TypedInit == ASSUME Init PROVE TypedInv
<1>1. <<>> \in Seq(Nat) /\ 0 \in Nat
  OBVIOUS
<1>2. Typed(NewLink(0, <<>>, {}))
  BY <1>1, NewLinkTyped
<1> QED BY <1>2 DEF Init, TypedInv

\* Every step keeps the types.
LEMMA TypedStep == ASSUME TypedInv, [Next]_vars PROVE TypedInv'
<1>1. CASE UNCHANGED vars
  BY <1>1 DEF vars, TypedInv, Typed
<1>2. CASE Next
  <2>1. PICK p \in Station : \/ HostCall(p) \/ HostSend(p) \/ HostClose(p) \/ HostPoll(p)
                             \/ Hear(p) \/ Lose(p)
                             \/ Send(p) \/ Expire(p) \/ NoLongerBusy(p) \/ Validate(p) \/ TooLongIdle(p)
    BY <1>2 DEF Next
  <2> QED BY <2>1, HostsTyped, RadioTyped, BackgroundTyped
<1> QED BY <1>1, <1>2

\* The invariant is stronger than TypeOK.
LEMMA TypedGivesTypes == ASSUME TypedInv PROVE TypeOK
<1> SUFFICES ASSUME NEW p \in Station
             PROVE  LET l == link[p] IN
                      /\ l.state \in {0, 2, 3, 4, 5, 6}
                      /\ {l.nr, l.ns, l.ws, l.slot} \subseteq Slot
                      /\ l.timer \in {"off", "due", "running"} /\ l.retries \in 0 .. 255
                      /\ l.state = 0 => l.frames = NoFrames /\ l.rxframes = NoFrames /\ l.rx = <<>>
                      /\ \A i \in 1 .. Len(l.out) : l.out[i].type \in FrameType
  BY DEF TypeOK
<1>1. PICK l : l = link[p]
  OBVIOUS
<1>2. Typed(l)
  BY <1>1 DEF TypedInv
<1>3. \A i \in 1 .. Len(l.out) : l.out[i].type \in FrameType
  <2> TAKE i \in 1 .. Len(l.out)
  <2>1. l.out[i] \in AnyFrame
    BY <1>2 DEF Typed
  <2> QED BY <2>1, FrameFields
<1>4. l.state = 0 => l.frames = NoFrames /\ l.rxframes = NoFrames /\ l.rx = <<>>
  BY <1>2 DEF Typed
<1>5. /\ l.state \in {0, 2, 3, 4, 5, 6} /\ l.nr \in Slot /\ l.ns \in Slot /\ l.ws \in Slot
      /\ l.slot \in Slot /\ l.timer \in {"off", "due", "running"} /\ l.retries \in 0 .. 255
  BY <1>2, Parts DEF States
<1> QED BY <1>1, <1>3, <1>4, <1>5

\* Ax25Types: the fields of a link keep their ranges for every modulus, number of retries and
\* buffer, whatever the hosts, the timers and the losses do; in particular no handler takes a
\* sequence number out of the modulus, and a link that is down keeps no frames
\* (pktSession.c: L2_PROCESS, L2LINKACTIVE, SDETX, L2TIMEOUT, CLEAROUTLINK).
THEOREM Ax25Types == Spec => []TypeOK
<1>1. Init => TypedInv
  BY TypedInit
<1>2. TypedInv /\ [Next]_vars => TypedInv'
  BY TypedStep
<1>3. TypedInv => TypeOK
  BY TypedGivesTypes
<1> QED BY <1>1, <1>2, <1>3, PTL DEF Spec
=============================================================================
