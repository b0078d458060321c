------------------------------ MODULE HostProofs ------------------------------
(***************************************************************************)
(* Proofs about module Host, for every script of the host and every bound. *)
(*                                                                         *)
(* HostInv is inductive.  It says four things: the modem's record has its  *)
(* types, whom the background will call is whom the host wanted, and what  *)
(* the host is still due are the last numbers (Kept); on the serial line   *)
(* at most the last request and the one before it, and their answers, are  *)
(* on their way, and what the host holds is what the modem handed over     *)
(* with the last answer it has seen (LinkInv), or a repeat was answered    *)
(* while the call of a request 'C' played (Astray); what is on the wire of *)
(* a TCP connection was said by its host (ConnTyped); and what was sent on *)
(* the air is a list of calls and pings (SentTyped).                       *)
(* RanInv, about the halves of lines and blocks on a TCP connection, is    *)
(* explained where it is needed, at the end.                               *)
(***************************************************************************)
EXTENDS Host, FiniteSetTheorems, SequenceTheorems, TLAPS

-----------------------------------------------------------------------------
(* Folds.                                                                  *)

\* Every non-empty set of naturals has a least element: the initial segments below its elements
\* are finite sets, which inclusion orders well.
LEMMA LeastElement ==
  ASSUME NEW S \in SUBSET Nat, S # {}
  PROVE  \E m \in S : \A n \in S : m <= n
<1> DEFINE Below == {0 .. m : m \in S}
<1>1. Below \subseteq FiniteSubsetsOf(Nat) /\ Below # {}
  <2>1. ASSUME NEW m \in S PROVE 0 .. m \in FiniteSubsetsOf(Nat)
    <3>1. m \in Int /\ 0 \in Int /\ 0 .. m \in SUBSET Nat
      OBVIOUS
    <3>2. IsFiniteSet(0 .. m)
      BY <3>1, FS_Interval
    <3> QED BY <3>1, <3>2 DEF FiniteSubsetsOf
  <2> QED BY <2>1
<1>2. PICK x \in Below : \A y \in Below : <<y, x>> \notin StrictSubsetOrdering(Nat)
  <2> HIDE DEF Below
  <2> QED BY <1>1, FS_StrictSubsetOrderingWellFounded, WFMin
<1>3. PICK m \in S : x = 0 .. m
  OBVIOUS
<1>4. ASSUME NEW n \in S, n < m PROVE FALSE
  <2>1. 0 .. n \subseteq 0 .. m /\ m \in 0 .. m /\ m \notin 0 .. n
    BY <1>4
  <2>2. <<0 .. n, 0 .. m>> \in StrictSubsetOrdering(Nat)
    BY <2>1 DEF StrictSubsetOrdering
  <2> QED BY <1>2, <1>3, <2>2
<1> QED BY <1>4

\* The greatest of a set of numbers up to n that has n.
LEMMA MaxIs ==
  ASSUME NEW n \in Int, NEW s \in SUBSET Int, n \in s, \A i \in s : i <= n
  PROVE  Max(s) = n
<1>1. n >= n /\ \A i \in s : n >= i
  OBVIOUS
<1>2. PICK x \in s : x = Max(s) /\ \A i \in s : x >= i
  BY <1>1 DEF Max
<1>3. x >= n /\ x <= n /\ x \in Int
  BY <1>2
<1> QED BY <1>2, <1>3

\* What the folds of the libraries compute exists: a function of the sets of places, each of
\* which takes its greatest place last.
Folds(it, n, f, base) ==
  it = [s \in SUBSET (1 .. n) |-> IF s = {} THEN base ELSE f[<<it[s \ {Max(s)}], Max(s)>>]]
\* There is such a function, for every f.
LEMMA FoldExists ==
  ASSUME NEW S, NEW n \in Nat, NEW f \in [S \X (1 .. n) -> S], NEW base \in S
  PROVE  \E it \in [SUBSET (1 .. n) -> S] : Folds(it, n, f, base)
<1> DEFINE Good(k) == \E it \in [SUBSET (1 .. k) -> S] : Folds(it, k, f, base)
           Bad == {k \in 0 .. n : ~Good(k)}
<1>1. Good(0)
  <2>1. PICK it : it = [s \in SUBSET (1 .. 0) |-> base]
    OBVIOUS
  <2>2. SUBSET (1 .. 0) = {{}}
    OBVIOUS
  <2>3. it \in [SUBSET (1 .. 0) -> S]
    BY <2>1
  <2>4. it = [s \in SUBSET (1 .. 0) |-> IF s = {} THEN base ELSE f[<<it[s \ {Max(s)}], Max(s)>>]]
    BY <2>1, <2>2
  <2> QED BY <2>3, <2>4 DEF Folds
<1>2. ASSUME NEW k \in 0 .. n, k + 1 <= n, Good(k) PROVE Good(k + 1)
  <2>1. PICK it \in [SUBSET (1 .. k) -> S] : Folds(it, k, f, base)
    BY <1>2
  <2>2. PICK l \in 1 .. n : l = k + 1
    BY <1>2
  <2>3. PICK big : big = [s \in SUBSET (1 .. l) |-> IF l \in s THEN f[<<it[s \ {l}], l>>] ELSE it[s]]
    OBVIOUS
  <2>4. ASSUME NEW s \in SUBSET (1 .. l)
        PROVE  /\ s \ {l} \in SUBSET (1 .. k)
               /\ l \in s => Max(s) = l
               /\ l \notin s => s \in SUBSET (1 .. k)
    <3>1. \A i \in 1 .. l : i # l => i \in 1 .. k
      BY <2>2
    <3>2. l \in s => Max(s) = l
      <4>1. s \in SUBSET Int /\ \A i \in s : i <= l
        BY <2>2
      <4> QED BY <2>2, <4>1, MaxIs
    <3> QED BY <3>1, <3>2
  <2>5. big \in [SUBSET (1 .. l) -> S]
    <3>1. ASSUME NEW s \in SUBSET (1 .. l)
          PROVE  (IF l \in s THEN f[<<it[s \ {l}], l>>] ELSE it[s]) \in S
      BY <2>1, <2>2, <2>4
    <3> QED BY <2>3, <3>1
  <2>6. ASSUME NEW s \in SUBSET (1 .. l)
        PROVE  big[s] = IF s = {} THEN base ELSE f[<<big[s \ {Max(s)}], Max(s)>>]
    <3>1. CASE l \in s
      <4>1. big[s] = f[<<it[s \ {l}], l>>] /\ Max(s) = l /\ s # {}
        BY <2>3, <2>4, <3>1
      <4>2. s \ {l} \in SUBSET (1 .. l) /\ l \notin s \ {l}
        BY <2>4
      <4>3. big[s \ {l}] = it[s \ {l}]
        BY <2>3, <4>2
      <4> QED BY <4>1, <4>3
    <3>2. CASE l \notin s
      <4>1. big[s] = it[s] /\ s \in SUBSET (1 .. k)
        BY <2>3, <2>4, <3>2
      <4>2. it[s] = IF s = {} THEN base ELSE f[<<it[s \ {Max(s)}], Max(s)>>]
        BY <2>1, <4>1 DEF Folds
      <4>3. s \ {Max(s)} \in SUBSET (1 .. l) /\ l \notin s \ {Max(s)}
        BY <3>2
      <4>4. big[s \ {Max(s)}] = it[s \ {Max(s)}]
        BY <2>3, <4>3
      <4> QED BY <4>1, <4>2, <4>4
    <3> QED BY <3>1, <3>2
  <2>7. Folds(big, l, f, base)
    BY <2>5, <2>6 DEF Folds
  <2> QED BY <2>2, <2>5, <2>7
<1> HIDE DEF Good
<1>3. Bad = {}
  <2>1. SUFFICES ASSUME Bad # {} PROVE FALSE
    OBVIOUS
  <2>2. PICK k \in Bad : \A i \in Bad : k <= i
    <3>1. Bad \in SUBSET Nat
      OBVIOUS
    <3> HIDE DEF Bad
    <3> QED BY <2>1, <3>1, LeastElement
  <2>3. k # 0 /\ k \in 1 .. n
    BY <1>1
  <2>4. k - 1 \in 0 .. n /\ k - 1 + 1 = k /\ ~(k <= k - 1)
    BY <2>3
  <2>5. Good(k - 1)
    BY <2>2, <2>4
  <2>6. Good(k - 1 + 1)
    BY <1>2, <2>3, <2>4, <2>5
  <2> QED BY <2>2, <2>4, <2>6
<1>4. Good(n)
  BY <1>3
<1> QED BY <1>4 DEF Good

\* What holds of the start, and from each place on to the next, holds of a fold.
LEMMA FoldGoes ==
  ASSUME NEW n \in Nat, NEW it, NEW T,
         it[{}] \in T[0],
         \A k \in 1 .. n : it[1 .. k - 1] \in T[k - 1] => it[1 .. k] \in T[k]
  PROVE  it[1 .. n] \in T[n]
<1> DEFINE Bad == {k \in 0 .. n : it[1 .. k] \notin T[k]}
<1>1. it[1 .. 0] \in T[0]
  <2>1. 1 .. 0 = {}
    OBVIOUS
  <2> QED BY <2>1
<1>2. Bad = {}
  <2>1. SUFFICES ASSUME Bad # {} PROVE FALSE
    OBVIOUS
  <2>2. PICK k \in Bad : \A i \in Bad : k <= i
    <3>1. Bad \in SUBSET Nat
      OBVIOUS
    <3> HIDE DEF Bad
    <3> QED BY <2>1, <3>1, LeastElement
  <2>3. k # 0 /\ k \in 1 .. n
    BY <1>1
  <2>4. k - 1 \in 0 .. n /\ ~(k <= k - 1)
    BY <2>3
  <2>5. it[1 .. k - 1] \in T[k - 1]
    BY <2>2, <2>4
  <2> QED BY <2>2, <2>3, <2>5
<1> QED BY <1>2

\* The places up to k are those up to k - 1, and k, the greatest.
LEMMA PlacesUpTo ==
  ASSUME NEW n \in Nat, NEW k \in 1 .. n
  PROVE  /\ 1 .. k \in SUBSET (1 .. n) /\ 1 .. k # {}
         /\ Max(1 .. k) = k /\ (1 .. k) \ {k} = 1 .. k - 1
<1>1. 1 .. k \in SUBSET Int /\ k \in 1 .. k /\ \A i \in 1 .. k : i <= k
  OBVIOUS
<1>2. Max(1 .. k) = k
  BY <1>1, MaxIs
<1> QED BY <1>2
\* A set of places has a greatest one.
LEMMA MaxIn ==
  ASSUME NEW n \in Nat, NEW s \in SUBSET (0 .. n), s # {}
  PROVE  Max(s) \in s
<1> DEFINE Backwards == {n - i : i \in s}
<1>1. Backwards \in SUBSET Nat /\ Backwards # {}
  <2>1. \A i \in s : i \in Int /\ i <= n
    OBVIOUS
  <2>2. \A i \in s : n - i \in Nat
    BY <2>1
  <2> QED BY <2>2
<1>2. PICK m \in Backwards : \A i \in Backwards : m <= i
  <2> HIDE DEF Backwards
  <2> QED BY <1>1, LeastElement
<1>3. PICK k \in s : m = n - k
  OBVIOUS
<1>4. \A i \in s : i <= k
  <2>1. ASSUME NEW i \in s PROVE i <= k
    <3>1. n - i \in Backwards /\ i \in Int /\ k \in Int
      OBVIOUS
    <3>2. n - k <= n - i
      BY <1>2, <1>3, <3>1
    <3> QED BY <3>1, <3>2
  <2> QED BY <2>1
<1>5. s \in SUBSET Int /\ k \in Int
  OBVIOUS
<1> QED BY <1>4, <1>5, MaxIs

\* What holds of the start and is kept at each place holds of a fold.
LEMMA FoldStays ==
  ASSUME NEW n \in Nat, NEW it, NEW S, it[{}] \in S,
         \A s \in SUBSET (1 .. n) : s # {} /\ it[s \ {Max(s)}] \in S => it[s] \in S
  PROVE  it[1 .. n] \in S
<1> DEFINE T == [k \in 0 .. n |-> S]
<1>1. T[0] = S /\ T[n] = S
  OBVIOUS
<1>2. ASSUME NEW k \in 1 .. n, it[1 .. k - 1] \in T[k - 1] PROVE it[1 .. k] \in T[k]
  <2>1. T[k - 1] = S /\ T[k] = S
    OBVIOUS
  <2> HIDE DEF T
  <2>2. 1 .. k \in SUBSET (1 .. n) /\ 1 .. k # {} /\ Max(1 .. k) = k /\ (1 .. k) \ {k} = 1 .. k - 1
    BY PlacesUpTo
  <2> QED BY <1>2, <2>1, <2>2
<1> HIDE DEF T
<1>3. it[1 .. n] \in T[n]
  BY <1>1, <1>2, FoldGoes
<1> QED BY <1>1, <1>3

-----------------------------------------------------------------------------
(* The modem's record.                                                     *)

Numbers == {f \in [DOMAIN Limits -> Int] : \A name \in DOMAIN Limits : f[name] \in Limits[name]}
AnyOption == UNION {Options[name] : name \in DOMAIN Options}
Chosen == {f \in [DOMAIN Options -> AnyOption] : \A name \in DOMAIN Options : f[name] \in Options[name]}
UpTo(n, S) == {q \in Seq(S) : Len(q) <= n}
Texts == STRING \cup {""}
Replies == {"none", "value", "now", "fault", "echo"}
Needs == {"ConReq", "Ping", "ID", "CWID", "TwoTone"}

Flags == [DOMAIN NewModem.flag -> BOOLEAN]
PacketSettings == [DOMAIN NewModem.pkt -> Int]
LevelSettings == [DOMAIN NewModem.level -> Levels]
WantedCalls == [{"ConReq", "Ping"} -> Texts \X Int]
NeedSets == SUBSET Needs
Truth == BOOLEAN
Items == Seq(Nat)

\* The records of a modem whose ring of packets is k.  Each set has a name, so that it is
\* looked into only where that matters.
ModemWith(k) ==
  [number : Numbers, flag : Flags, choice : Chosen, word : Texts, mycall : Texts,
   aux : UpTo(10, STRING), state : States, need : NeedSets, callee : Texts, calls : Int,
   pings : Int, abort : Truth, disconnect : Truth, brk : Truth, closing : Truth,
   queue : UpTo(QueueRoom, Nat), reports : UpTo(ReportRoom, Nat), forHost : Items, packets : Nat,
   reply : Replies, kiss : {k}, rig : Items, cat : Items, hostMode : Truth, pac : Truth,
   pkt : PacketSettings, level : LevelSettings, told : Nat, passed : Nat, heard : Nat,
   wanted : WantedCalls, mixed : Truth]

\* Whom the background will call is whom the host wanted to be called.
Agreed(m) ==
  ~m.mixed => /\ "ConReq" \in m.need => m.wanted["ConReq"] = <<m.callee, m.calls>>
              /\ "Ping" \in m.need => m.wanted["Ping"] = <<m.callee, m.pings>>

\* What the host is due are the last numbers, in order.
Numbered(q, last) == \A i \in 1 .. Len(q) : q[i] = last - Len(q) + i
Due(m) ==
  /\ Numbered(m.reports, m.told) /\ Numbered(m.forHost, m.passed)
  /\ Numbered(m.rig, m.heard) /\ Numbered(m.cat, m.heard - Len(m.rig))

\* How much of each kind has been handed over.
KINDS == {"reports", "data", "cat"}
Given(m) ==
  [reports |-> m.told - Len(m.reports), data |-> m.passed - Len(m.forHost),
   cat |-> m.heard - Len(m.rig) - Len(m.cat)]

\* What commands make of a modem: they hand nothing over, and do not end the host mode.
Run(m0) ==
  {m \in ModemWith(m0.kiss) : /\ Agreed(m) /\ Due(m) /\ Given(m) = Given(m0)
                              /\ m.hostMode = m0.hostMode}

\* What all this does not speak of is free to change.
Quiet(t, m) ==
  /\ t.need = m.need /\ t.callee = m.callee /\ t.calls = m.calls /\ t.pings = m.pings
  /\ t.mixed = m.mixed /\ t.wanted = m.wanted
  /\ t.told = m.told /\ t.reports = m.reports /\ t.passed = m.passed /\ t.forHost = m.forHost
  /\ t.heard = m.heard /\ t.rig = m.rig /\ t.cat = m.cat /\ t.hostMode = m.hostMode
\* What is quiet keeps its agreements and dues.
LEMMA QuietStays ==
  ASSUME NEW m0, NEW m \in Run(m0), NEW t \in ModemWith(m0.kiss), Quiet(t, m)
  PROVE  t \in Run(m0)
BY DEF Run, Quiet, Agreed, Due, Given

-----------------------------------------------------------------------------
(* What commands share.                                                    *)

\* An answer to a command changes nothing that is held.
LEMMA AnswerRuns ==
  ASSUME NEW m0, NEW m \in Run(m0), NEW r \in Replies
  PROVE  Answer(m, r) \in Run(m0)
<1>1. m \in ModemWith(m0.kiss)
  BY DEF Run
<1>2. Answer(m, r) \in ModemWith(m0.kiss) /\ Quiet(Answer(m, r), m)
  BY <1>1 DEF Answer, ModemWith, Quiet
<1> QED BY <1>2, QuietStays

\* The next number is added at the end.
LEMMA NextNumber ==
  ASSUME NEW n \in Nat, NEW q \in Seq(Nat), Numbered(q, n)
  PROVE  LET r == Append(q, n + 1) IN
         /\ r \in Seq(Nat) /\ Len(r) = Len(q) + 1 /\ n + 1 \in Nat
         /\ Numbered(r, n + 1) /\ n + 1 - Len(r) = n - Len(q)
<1>1. PICK r : r = Append(q, n + 1)
  OBVIOUS
<1>2. r \in Seq(Nat) /\ Len(r) = Len(q) + 1 /\ Len(q) \in Nat /\ n + 1 \in Nat
  BY <1>1
<1>3. ASSUME NEW i \in 1 .. Len(r) PROVE r[i] = n + 1 - Len(r) + i
  <2>1. CASE i <= Len(q)
    <3>1. r[i] = q[i] /\ i \in 1 .. Len(q)
      BY <1>1, <1>2, <2>1
    <3>2. q[i] = n - Len(q) + i
      BY <3>1 DEF Numbered
    <3> QED BY <1>2, <3>1, <3>2
  <2>2. CASE ~(i <= Len(q))
    <3>1. i = Len(q) + 1 /\ r[i] = n + 1
      BY <1>1, <1>2, <2>2
    <3> QED BY <1>2, <3>1
  <2> QED BY <2>1, <2>2
<1>4. Numbered(r, n + 1)
  BY <1>3 DEF Numbered
<1>5. n + 1 - Len(r) = n - Len(q)
  BY <1>2
<1> QED BY <1>1, <1>2, <1>4, <1>5

\* A report is queued behind the others, or dropped when there is no room.
LEMMA ReportRuns ==
  ASSUME NEW m0, NEW m \in Run(m0)
  PROVE  Report(m) \in Run(m0)
<1>1. CASE ~m.hostMode \/ Len(m.reports) >= ReportRoom
  BY <1>1 DEF Report
<1>2. CASE ~(~m.hostMode \/ Len(m.reports) >= ReportRoom)
  <2>1. m \in ModemWith(m0.kiss) /\ Agreed(m) /\ Due(m) /\ Given(m) = Given(m0) /\ m.hostMode = m0.hostMode
    BY DEF Run
  <2>2. PICK n \in Nat, q \in Seq(Nat), r \in Seq(Nat) : n = m.told /\ q = m.reports /\ r = Append(q, n + 1)
    <3>1. m.told \in Nat /\ m.reports \in Seq(Nat)
      BY <2>1 DEF ModemWith, UpTo
    <3>2. Append(m.reports, m.told + 1) \in Seq(Nat)
      BY <3>1
    <3> QED BY <3>1, <3>2
  <2>3. PICK t : t = [m EXCEPT !.reports = r, !.told = n + 1]
    OBVIOUS
  <2>4. /\ r \in Seq(Nat) /\ Len(r) = Len(q) + 1 /\ n + 1 \in Nat
        /\ Numbered(r, n + 1) /\ n + 1 - Len(r) = n - Len(q)
    BY <2>1, <2>2, NextNumber DEF Due
  <2>5. r \in UpTo(ReportRoom, Nat)
    <3>1. Len(q) < ReportRoom /\ Len(q) \in Nat
      BY <1>2, <2>2, HostCommandsAssumption
    <3> QED BY <2>4, <3>1, HostCommandsAssumption DEF UpTo
  <2>6. t \in ModemWith(m0.kiss)
    BY <2>1, <2>3, <2>4, <2>5 DEF ModemWith
  <2>7. /\ t.told = n + 1 /\ t.reports = r /\ t.passed = m.passed /\ t.forHost = m.forHost
        /\ t.heard = m.heard /\ t.rig = m.rig /\ t.cat = m.cat
        /\ t.mixed = m.mixed /\ t.need = m.need /\ t.wanted = m.wanted /\ t.callee = m.callee
        /\ t.calls = m.calls /\ t.pings = m.pings /\ t.hostMode = m.hostMode
    BY <2>1, <2>3 DEF ModemWith
  <2>8. Agreed(t) /\ Due(t) /\ Given(t) = Given(m)
    <3>1. Agreed(t)
      BY <2>1, <2>7 DEF Agreed
    <3>2. Due(t)
      BY <2>1, <2>4, <2>7 DEF Due
    <3>3. t.told - Len(t.reports) = m.told - Len(m.reports)
      <4>1. n + 1 - Len(r) = n - Len(q)
        BY <2>4
      <4>2. Len(t.reports) = Len(r) /\ Len(m.reports) = Len(q)
        BY <2>2, <2>7
      <4>3. t.told = n + 1 /\ m.told = n
        BY <2>2, <2>7
      <4> QED BY <4>1, <4>2, <4>3
    <3>4. Given(t) = Given(m)
      BY <2>7, <3>3 DEF Given
    <3> QED BY <3>1, <3>2, <3>4
  <2>9. Report(m) = t
    BY <1>2, <2>2, <2>3 DEF Report
  <2> QED BY <2>1, <2>6, <2>7, <2>8, <2>9 DEF Run
<1> QED BY <1>1, <1>2

\* The queue to the radio is emptied,
LEMMA ClearDataRuns ==
  ASSUME NEW m0, NEW m \in Run(m0)
  PROVE  ClearData(m) \in Run(m0)
<1> DEFINE t == [m EXCEPT !.queue = <<>>]
<1>1. m \in ModemWith(m0.kiss)
  BY DEF Run
<1>2. <<>> \in UpTo(QueueRoom, Nat)
  BY HostCommandsAssumption DEF UpTo
<1>3. t \in ModemWith(m0.kiss) /\ Quiet(t, m)
  BY <1>1, <1>2 DEF ModemWith, Quiet
<1> HIDE DEF t
<1>4. t \in Run(m0)
  BY <1>3, QuietStays
<1> QED BY <1>4, ReportRuns DEF ClearData, t

\* and added to while there is room.
LEMMA AddDataRuns ==
  ASSUME NEW m0, NEW m \in Run(m0), NEW item \in Nat
  PROVE  AddData(m, item) \in Run(m0)
<1> DEFINE t == [m EXCEPT !.queue = Append(m.queue, item)]
<1>1. m \in ModemWith(m0.kiss)
  BY DEF Run
<1>2. CASE Len(m.queue) >= QueueRoom
  BY <1>2 DEF AddData
<1>3. CASE ~(Len(m.queue) >= QueueRoom)
  <2>1. Append(m.queue, item) \in UpTo(QueueRoom, Nat)
    BY <1>1, <1>3, HostCommandsAssumption DEF UpTo, ModemWith
  <2>2. t \in ModemWith(m0.kiss) /\ Quiet(t, m)
    BY <1>1, <2>1 DEF ModemWith, Quiet
  <2> HIDE DEF t
  <2>3. t \in Run(m0)
    BY <2>2, QuietStays
  <2> QED BY <1>3, <2>3, ReportRuns DEF AddData, t
<1> QED BY <1>2, <1>3

\* A change of state is reported.
LEMMA SetStateRuns ==
  ASSUME NEW m0, NEW m \in Run(m0), NEW s \in States
  PROVE  SetState(m, s) \in Run(m0)
<1> DEFINE t == [m EXCEPT !.state = s, !.disconnect = FALSE]
           u == [m EXCEPT !.state = s]
<1>0. FALSE \in Truth
  BY DEF Truth
<1>1. m \in ModemWith(m0.kiss)
  BY DEF Run
<1>2. t \in ModemWith(m0.kiss) /\ Quiet(t, m)
  BY <1>1, <1>0 DEF ModemWith, Quiet
<1>3. u \in ModemWith(m0.kiss) /\ Quiet(u, m)
  BY <1>1 DEF ModemWith, Quiet
<1>4. SetState(m, s) \in {m, Report(ClearData(t)), Report(u)}
  BY DEF SetState
<1> HIDE DEF t, u
<1>5. t \in Run(m0) /\ u \in Run(m0)
  BY <1>2, <1>3, QuietStays
<1>6. Report(ClearData(t)) \in Run(m0) /\ Report(u) \in Run(m0)
  BY <1>5, ReportRuns, ClearDataRuns
<1> QED BY <1>4, <1>6

-----------------------------------------------------------------------------
(* Settings.                                                               *)

\* What a command says after its name is a number.
LEMMA Values ==
  ASSUME NEW c, IsCommand(c)
  PROVE  Value(c) \in Int /\ Word(c) \in Texts
<1>1. c.n \in Int /\ c.w \in Texts
  BY DEF IsCommand, Texts
<1>2. Value(c) \in Int
  BY <1>1 DEF Value
<1>3. Word(c) \in Texts
  BY <1>1 DEF Word, Texts
<1> QED BY <1>2, <1>3

\* A number, a choice or a flag that is in its range is set.
LEMMA NumberSet ==
  ASSUME NEW m0, NEW m \in Run(m0), NEW name \in DOMAIN Limits, NEW v \in Limits[name]
  PROVE  [m EXCEPT !.number[name] = v] \in Run(m0)
<1> DEFINE f == [m.number EXCEPT ![name] = v]
           t == [m EXCEPT !.number = f]
<1>1. m \in ModemWith(m0.kiss)
  BY DEF Run
<1>2. f \in Numbers
  <2>1. m.number \in Numbers
    BY <1>1 DEF ModemWith
  <2>2. v \in Int
    BY DEF Limits
  <2> QED BY <2>1, <2>2 DEF Numbers
<1>3. [m EXCEPT !.number[name] = v] = t
  BY <1>1
<1> HIDE DEF f
<1>4. t \in ModemWith(m0.kiss) /\ Quiet(t, m)
  BY <1>1, <1>2 DEF ModemWith, Quiet
<1> HIDE DEF t
<1> QED BY <1>3, <1>4, QuietStays

\* A choice that is among the options is set.
LEMMA ChoiceSet ==
  ASSUME NEW m0, NEW m \in Run(m0), NEW name \in DOMAIN Options, NEW v \in Options[name]
  PROVE  [m EXCEPT !.choice[name] = v] \in Run(m0)
<1> DEFINE f == [m.choice EXCEPT ![name] = v]
           t == [m EXCEPT !.choice = f]
<1>1. m \in ModemWith(m0.kiss)
  BY DEF Run
<1>2. f \in Chosen
  <2>1. m.choice \in Chosen
    BY <1>1 DEF ModemWith
  <2>2. v \in AnyOption
    BY DEF AnyOption
  <2> QED BY <2>1, <2>2 DEF Chosen
<1>3. [m EXCEPT !.choice[name] = v] = t
  BY <1>1
<1> HIDE DEF f
<1>4. t \in ModemWith(m0.kiss) /\ Quiet(t, m)
  BY <1>1, <1>2 DEF ModemWith, Quiet
<1> HIDE DEF t
<1> QED BY <1>3, <1>4, QuietStays

\* A flag is set.
LEMMA FlagSet ==
  ASSUME NEW m0, NEW m \in Run(m0), NEW name \in DOMAIN NewModem.flag, NEW v \in BOOLEAN
  PROVE  [m EXCEPT !.flag[name] = v] \in Run(m0)
<1> DEFINE f == [m.flag EXCEPT ![name] = v]
           t == [m EXCEPT !.flag = f]
<1>1. m \in ModemWith(m0.kiss)
  BY DEF Run
<1>2. f \in Flags
  <2>1. m.flag \in [DOMAIN NewModem.flag -> BOOLEAN]
    BY <1>1 DEF ModemWith, Flags
  <2> QED BY <2>1 DEF Flags
<1>3. [m EXCEPT !.flag[name] = v] = t
  BY <1>1
<1> HIDE DEF f
<1>4. t \in ModemWith(m0.kiss) /\ Quiet(t, m)
  BY <1>1, <1>2 DEF ModemWith, Quiet
<1> HIDE DEF t
<1> QED BY <1>3, <1>4, QuietStays

\* The commands that set them.
LEMMA NumberCommandRuns ==
  ASSUME NEW m0, NEW m \in Run(m0), NEW c, IsCommand(c), c.name \in DOMAIN Limits, NEW v,
         Value(c) \in Limits[c.name] => v \in Limits[c.name]
  PROVE  NumberCommand(m, c, v) \in Run(m0)
<1>1. CASE Asks(c)
  BY <1>1, AnswerRuns DEF Replies, NumberCommand
<1>2. CASE ~Asks(c) /\ Value(c) \in Limits[c.name]
  <2>1. [m EXCEPT !.number[c.name] = v] \in Run(m0)
    BY <1>2, NumberSet
  <2>2. Answer([m EXCEPT !.number[c.name] = v], "now") \in Run(m0)
    BY <2>1, AnswerRuns DEF Replies
  <2> QED BY <1>2, <2>2 DEF NumberCommand
<1>3. CASE ~Asks(c) /\ Value(c) \notin Limits[c.name]
  BY <1>3, AnswerRuns DEF Replies, NumberCommand, Fault
<1> QED BY <1>1, <1>2, <1>3

\* A command that chooses: what it says is among the options, or it is at fault.
LEMMA ChoiceCommandRuns ==
  ASSUME NEW m0, NEW m \in Run(m0), NEW c, c.name \in DOMAIN Options
  PROVE  ChoiceCommand(m, c) \in Run(m0)
<1>1. CASE Asks(c)
  BY <1>1, AnswerRuns DEF Replies, ChoiceCommand
<1>2. CASE ~Asks(c) /\ Word(c) \in Options[c.name]
  <2>1. [m EXCEPT !.choice[c.name] = Word(c)] \in Run(m0)
    BY <1>2, ChoiceSet
  <2>2. Answer([m EXCEPT !.choice[c.name] = Word(c)], "now") \in Run(m0)
    BY <2>1, AnswerRuns DEF Replies
  <2> QED BY <1>2, <2>2 DEF ChoiceCommand
<1>3. CASE ~Asks(c) /\ Word(c) \notin Options[c.name]
  BY <1>3, AnswerRuns DEF Replies, ChoiceCommand, Fault
<1> QED BY <1>1, <1>2, <1>3

\* A command that sets a flag, or tells of it.
LEMMA DoTrueFalseCmdRuns ==
  ASSUME NEW m0, NEW m \in Run(m0), NEW c, IsCommand(c), c.name \in DOMAIN NewModem.flag
  PROVE  DoTrueFalseCmd(m, c) \in Run(m0)
<1>1. CASE Asks(c)
  BY <1>1, AnswerRuns DEF Replies, DoTrueFalseCmd
<1>2. CASE ~Asks(c) /\ Word(c) \in {"TRUE", "FALSE"}
  <2>1. [m EXCEPT !.flag[c.name] = (Word(c) = "TRUE")] \in Run(m0)
    BY FlagSet
  <2>2. Answer([m EXCEPT !.flag[c.name] = (Word(c) = "TRUE")], "now") \in Run(m0)
    BY <2>1, AnswerRuns DEF Replies
  <2> QED BY <1>2, <2>2 DEF DoTrueFalseCmd
<1>3. CASE ~Asks(c) /\ Word(c) \notin {"TRUE", "FALSE"}
  BY <1>3, AnswerRuns DEF Replies, DoTrueFalseCmd, Silent
<1> QED BY <1>1, <1>2, <1>3

-----------------------------------------------------------------------------
(* The commands.                                                           *)

\* What a command sets that nothing else depends on.
Apart(t, m) == t \in ModemWith(m.kiss) /\ Quiet(t, m)
\* A command that sets such a thing keeps what commands keep.
LEMMA ApartRuns ==
  ASSUME NEW m0, NEW m \in Run(m0), NEW t, Apart(t, m)
  PROVE  t \in Run(m0)
<1>1. m.kiss = m0.kiss
  BY DEF Run, ModemWith
<1> QED BY <1>1, QuietStays DEF Apart

\* What is only on or off.
LEMMA Switches ==
  ASSUME NEW m0, NEW m \in Run(m0), NEW b \in Truth
  PROVE  /\ Apart([m EXCEPT !.abort = b], m) /\ Apart([m EXCEPT !.disconnect = b], m)
         /\ Apart([m EXCEPT !.brk = b], m) /\ Apart([m EXCEPT !.closing = b], m)
         /\ Apart([m EXCEPT !.pac = b], m)
<1>1. PICK k : k = m.kiss /\ m \in ModemWith(k)
  BY DEF Run, ModemWith
<1>2. ASSUME NEW t, t = [m EXCEPT !.abort = b] PROVE Apart(t, m)
  <2>1. t \in ModemWith(k)
    BY <1>1, <1>2 DEF ModemWith
  <2>2. Quiet(t, m)
    BY <1>1, <1>2 DEF ModemWith, Quiet
  <2> QED BY <1>1, <2>1, <2>2 DEF Apart
<1>3. ASSUME NEW t, t = [m EXCEPT !.disconnect = b] PROVE Apart(t, m)
  <2>1. t \in ModemWith(k)
    BY <1>1, <1>3 DEF ModemWith
  <2>2. Quiet(t, m)
    BY <1>1, <1>3 DEF ModemWith, Quiet
  <2> QED BY <1>1, <2>1, <2>2 DEF Apart
<1>4. ASSUME NEW t, t = [m EXCEPT !.brk = b] PROVE Apart(t, m)
  <2>1. t \in ModemWith(k)
    BY <1>1, <1>4 DEF ModemWith
  <2>2. Quiet(t, m)
    BY <1>1, <1>4 DEF ModemWith, Quiet
  <2> QED BY <1>1, <2>1, <2>2 DEF Apart
<1>5. ASSUME NEW t, t = [m EXCEPT !.closing = b] PROVE Apart(t, m)
  <2>1. t \in ModemWith(k)
    BY <1>1, <1>5 DEF ModemWith
  <2>2. Quiet(t, m)
    BY <1>1, <1>5 DEF ModemWith, Quiet
  <2> QED BY <1>1, <2>1, <2>2 DEF Apart
<1>6. ASSUME NEW t, t = [m EXCEPT !.pac = b] PROVE Apart(t, m)
  <2>1. t \in ModemWith(k)
    BY <1>1, <1>6 DEF ModemWith
  <2>2. Quiet(t, m)
    BY <1>1, <1>6 DEF ModemWith, Quiet
  <2> QED BY <1>1, <2>1, <2>2 DEF Apart
<1> QED BY <1>2, <1>3, <1>4, <1>5, <1>6

\* ABORT ends what goes on.
LEMMA AbortRuns ==
  ASSUME NEW m0, NEW m \in Run(m0)
  PROVE  ABORT(m) \in Run(m0)
<1>1. CASE m.state \in {"IDLE", "IRS", "IRStoISS"}
  <2>1. PICK t \in Run(m0) : t = SetState(ClearData(m), "DISC")
    BY ClearDataRuns, SetStateRuns DEF States
  <2>2. [t EXCEPT !.abort = FALSE] \in Run(m0)
    BY Switches, ApartRuns DEF Truth
  <2>3. Answer([t EXCEPT !.abort = FALSE], "echo") \in Run(m0)
    BY <2>2, AnswerRuns DEF Replies
  <2> QED BY <1>1, <2>1, <2>3 DEF ABORT
<1>2. CASE m.state \notin {"IDLE", "IRS", "IRStoISS"}
  <2>1. [m EXCEPT !.abort = TRUE] \in Run(m0)
    BY Switches, ApartRuns DEF Truth
  <2>2. Answer([m EXCEPT !.abort = TRUE], "echo") \in Run(m0)
    BY <2>1, AnswerRuns DEF Replies
  <2> QED BY <1>2, <2>2 DEF ABORT
<1> QED BY <1>1, <1>2

\* A call or a ping that is accepted is the one that will be made.
LEMMA AcceptRuns ==
  ASSUME NEW m0, NEW m \in Run(m0), NEW c, IsCommand(c)
  PROVE  /\ [Accept(m, "ConReq", c) EXCEPT !.calls = c.n] \in Run(m0)
         /\ [Accept(m, "Ping", c) EXCEPT !.pings = c.n] \in Run(m0)
<1>1. m \in ModemWith(m0.kiss) /\ Agreed(m) /\ Due(m) /\ Given(m) = Given(m0) /\ m.hostMode = m0.hostMode
  BY DEF Run
<1>2. c.n \in Int /\ c.w \in Texts
  BY DEF IsCommand, Texts
<1>3. ASSUME NEW kind \in {"ConReq", "Ping"}, NEW t,
             \/ t = [Accept(m, kind, c) EXCEPT !.calls = c.n] /\ kind = "ConReq"
             \/ t = [Accept(m, kind, c) EXCEPT !.pings = c.n] /\ kind = "Ping"
      PROVE  t \in Run(m0)
  <2>1. PICK w : w = [m.wanted EXCEPT ![kind] = <<c.w, c.n>>]
    OBVIOUS
  <2>2. PICK b : b = (m.mixed \/ m.need \cap ({"ConReq", "Ping"} \ {kind}) # {})
    OBVIOUS
  <2>3. w \in WantedCalls /\ w[kind] = <<c.w, c.n>>
    <3>1. m.wanted \in [{"ConReq", "Ping"} -> Texts \X Int]
      BY <1>1 DEF ModemWith, WantedCalls
    <3> QED BY <1>2, <2>1, <3>1 DEF WantedCalls
  <2>4. b \in Truth /\ m.need \cup {kind} \in NeedSets
    BY <1>1, <2>2 DEF ModemWith, Needs, NeedSets, Truth
  <2>5. PICK a : a = [m EXCEPT !.need = m.need \cup {kind}, !.callee = c.w, !.reply = "echo",
                               !.wanted = w, !.mixed = b]
    OBVIOUS
  <2>6. Accept(m, kind, c) = a
    BY <1>1, <2>1, <2>2, <2>5 DEF Accept, ModemWith
  <2>7. a \in ModemWith(m0.kiss)
    BY <1>1, <1>2, <2>3, <2>4, <2>5 DEF ModemWith, Replies
  <2>8. t \in ModemWith(m0.kiss)
    <3>1. PICK v \in Int : v = c.n
      BY <1>2
    <3>2. ASSUME t = [a EXCEPT !.calls = v] PROVE t \in ModemWith(m0.kiss)
      BY <2>7, <3>2 DEF ModemWith
    <3>3. ASSUME t = [a EXCEPT !.pings = v] PROVE t \in ModemWith(m0.kiss)
      BY <2>7, <3>3 DEF ModemWith
    <3>4. t = [a EXCEPT !.calls = v] \/ t = [a EXCEPT !.pings = v]
      BY <1>3, <2>6, <3>1
    <3> QED BY <3>2, <3>3, <3>4
  <2>9. /\ t.need = m.need \cup {kind} /\ t.callee = c.w /\ t.wanted = w /\ t.mixed = b
        /\ kind = "ConReq" => t.calls = c.n
        /\ kind = "Ping" => t.pings = c.n
        /\ t.told = m.told /\ t.reports = m.reports /\ t.passed = m.passed /\ t.forHost = m.forHost
        /\ t.heard = m.heard /\ t.rig = m.rig /\ t.cat = m.cat /\ t.hostMode = m.hostMode
    <3>1. /\ a.need = m.need \cup {kind} /\ a.callee = c.w /\ a.wanted = w /\ a.mixed = b
          /\ a.told = m.told /\ a.reports = m.reports /\ a.passed = m.passed
          /\ a.forHost = m.forHost /\ a.heard = m.heard /\ a.rig = m.rig /\ a.cat = m.cat
          /\ a.hostMode = m.hostMode
      BY <1>1, <2>5 DEF ModemWith
    <3> QED BY <1>3, <2>6, <2>7, <3>1 DEF ModemWith
  <2>10. Agreed(t)
    <3>1. CASE b
      BY <2>9, <3>1 DEF Agreed
    <3>2. CASE ~b
      BY <2>2, <2>3, <2>9, <3>2 DEF Agreed
    <3> QED BY <3>1, <3>2
  <2>11. Due(t) /\ Given(t) = Given(m)
    BY <1>1, <2>9 DEF Due, Given
  <2> QED BY <1>1, <2>8, <2>9, <2>10, <2>11 DEF Run
<1> QED BY <1>3

\* What is called, and how often.
LEMMA CallsRun ==
  ASSUME NEW m0, NEW m \in Run(m0), NEW c, IsCommand(c)
  PROVE  ARQCALL(m, c) \in Run(m0) /\ PING(m, c) \in Run(m0)
<1>1. Fault(m) \in Run(m0)
  BY AnswerRuns DEF Fault, Replies
<1> QED BY <1>1, AcceptRuns DEF ARQCALL, PING

\* Something more is to be sent, but no call or ping.
LEMMA NeedRuns ==
  ASSUME NEW m0, NEW m \in Run(m0), NEW kind \in {"ID", "CWID", "TwoTone"}
  PROVE  [m EXCEPT !.need = m.need \cup {kind}] \in Run(m0)
<1>1. PICK t : t = [m EXCEPT !.need = m.need \cup {kind}]
  OBVIOUS
<1>2. m \in ModemWith(m0.kiss) /\ Agreed(m) /\ Due(m) /\ Given(m) = Given(m0) /\ m.hostMode = m0.hostMode
  BY DEF Run
<1>3. m.need \cup {kind} \in NeedSets
  BY <1>2 DEF ModemWith, Needs, NeedSets
<1>4. t \in ModemWith(m0.kiss)
  BY <1>1, <1>2, <1>3 DEF ModemWith
<1>5. /\ t.need = m.need \cup {kind} /\ t.callee = m.callee /\ t.calls = m.calls
      /\ t.pings = m.pings /\ t.mixed = m.mixed /\ t.wanted = m.wanted
      /\ t.told = m.told /\ t.reports = m.reports /\ t.passed = m.passed /\ t.forHost = m.forHost
      /\ t.heard = m.heard /\ t.rig = m.rig /\ t.cat = m.cat /\ t.hostMode = m.hostMode
  BY <1>1, <1>2 DEF ModemWith
<1>6. Agreed(t) /\ Due(t) /\ Given(t) = Given(m)
  BY <1>2, <1>5 DEF Agreed, Due, Given
<1> QED BY <1>1, <1>2, <1>4, <1>5, <1>6 DEF Run

\* The commands that call, listen and disconnect.
LEMMA SessionCommandsRun ==
  ASSUME NEW m0, NEW m \in Run(m0), NEW c, IsCommand(c)
  PROVE  /\ BREAK(m) \in Run(m0) /\ CLOSE(m) \in Run(m0) /\ DISCONNECT(m) \in Run(m0)
         /\ SENDID(m) \in Run(m0) /\ TWOTONETEST(m) \in Run(m0) /\ FECSEND(m, c) \in Run(m0)
         /\ (c.name = "PROTOCOLMODE" => PROTOCOLMODE(m, c) \in Run(m0))
<1>1. \A r \in Replies : Answer(m, r) \in Run(m0)
  BY AnswerRuns
<1>2. BREAK(m) \in Run(m0)
  <2>1. [m EXCEPT !.brk = TRUE] \in Run(m0)
    BY Switches, ApartRuns DEF Truth
  <2>2. Silent([m EXCEPT !.brk = TRUE]) \in Run(m0) /\ Silent(m) \in Run(m0)
    BY <2>1, AnswerRuns DEF Silent, Replies
  <2> QED BY <2>2 DEF BREAK
<1>3. CLOSE(m) \in Run(m0)
  <2>1. [m EXCEPT !.closing = TRUE] \in Run(m0)
    BY Switches, ApartRuns DEF Truth
  <2> QED BY <2>1, AnswerRuns DEF CLOSE, Silent, Replies
<1>4. DISCONNECT(m) \in Run(m0)
  <2>1. [m EXCEPT !.disconnect = TRUE] \in Run(m0)
    BY Switches, ApartRuns DEF Truth
  <2>2. Answer([m EXCEPT !.disconnect = TRUE], "echo") \in Run(m0) /\ Answer(m, "echo") \in Run(m0)
    BY <2>1, AnswerRuns DEF Replies
  <2> QED BY <2>2 DEF DISCONNECT
<1>5. ASSUME NEW kind \in {"ID", "TwoTone"} PROVE InDISC(m, kind) \in Run(m0)
  <2>1. [m EXCEPT !.need = m.need \cup {kind}] \in Run(m0)
    BY NeedRuns
  <2>2. Answer([m EXCEPT !.need = m.need \cup {kind}], "echo") \in Run(m0)
    BY <2>1, AnswerRuns DEF Replies
  <2>3. Fault(m) \in Run(m0)
    BY <1>1 DEF Fault, Replies
  <2> QED BY <2>2, <2>3 DEF InDISC
<1>6. FECSEND(m, c) \in Run(m0)
  <2>1. CASE Word(c) = "TRUE" /\ ~(m.state = "FECSend" \/ m.queue = <<>> \/ m.mycall = "")
    <3>1. PICK t \in Run(m0) : t = SetState(m, "FECSend")
      BY SetStateRuns DEF States
    <3>2. PICK u \in Run(m0) : u = [t EXCEPT !.abort = FALSE]
      BY Switches, ApartRuns DEF Truth
    <3>3. t \in ModemWith(m0.kiss)
      BY DEF Run
    <3>4. [t EXCEPT !.abort = FALSE, !.need = IF m.flag.FECID THEN t.need \cup {"ID"} ELSE t.need]
             \in {u, [u EXCEPT !.need = u.need \cup {"ID"}]}
      BY <3>2, <3>3 DEF ModemWith
    <3>5. [u EXCEPT !.need = u.need \cup {"ID"}] \in Run(m0)
      BY NeedRuns
    <3>6. Answer([t EXCEPT !.abort = FALSE, !.need = IF m.flag.FECID THEN t.need \cup {"ID"} ELSE t.need], "now")
             \in Run(m0)
      BY <3>4, <3>5, AnswerRuns DEF Replies
    <3> QED BY <2>1, <3>1, <3>6 DEF FECSEND
  <2>2. CASE Word(c) = "TRUE" /\ (m.state = "FECSend" \/ m.queue = <<>> \/ m.mycall = "")
    BY <1>1, <2>2 DEF FECSEND, Replies
  <2>3. CASE Word(c) = "FALSE"
    <3>1. [m EXCEPT !.abort = TRUE] \in Run(m0)
      BY Switches, ApartRuns DEF Truth
    <3>2. Answer([m EXCEPT !.abort = TRUE], "now") \in Run(m0)
      BY <3>1, AnswerRuns DEF Replies
    <3> QED BY <2>3, <3>2 DEF FECSEND
  <2>4. CASE Word(c) \notin {"TRUE", "FALSE"}
    BY <1>1, <2>4 DEF FECSEND, Fault, Replies
  <2> QED BY <2>1, <2>2, <2>3, <2>4
<1>7. ASSUME c.name = "PROTOCOLMODE" PROVE PROTOCOLMODE(m, c) \in Run(m0)
  <2>1. c.name \in DOMAIN Options
    BY <1>7 DEF Options
  <2>2. PICK done \in Run(m0) : done = ChoiceCommand(m, c)
    BY <2>1, ChoiceCommandRuns
  <2>3. SetState(done, "DISC") \in Run(m0)
    BY SetStateRuns DEF States
  <2> QED BY <2>2, <2>3 DEF PROTOCOLMODE
<1> QED BY <1>2, <1>3, <1>4, <1>5, <1>6, <1>7 DEF SENDID, TWOTONETEST

\* Those of the queue.
LEMMA QueueCommandsRun ==
  ASSUME NEW m0, NEW m \in Run(m0), NEW c
  PROVE  /\ BUFFER(m, c) \in Run(m0) /\ DATATOSEND(m, c) \in Run(m0) /\ PURGEBUFFER(m) \in Run(m0)
         /\ INITIALIZE(m) \in Run(m0) /\ CL(m) \in Run(m0)
<1>1. \A r \in Replies : Answer(m, r) \in Run(m0)
  BY AnswerRuns
<1>2. \A r \in Replies : Answer(ClearData(m), r) \in Run(m0)
  BY ClearDataRuns, AnswerRuns
<1>3. \A r \in Replies : Answer([m EXCEPT !.queue = <<>>], r) \in Run(m0)
  <2>1. <<>> \in UpTo(QueueRoom, Nat)
    BY HostCommandsAssumption DEF UpTo
  <2>2. m \in ModemWith(m.kiss)
    BY DEF Run, ModemWith
  <2>3. Apart([m EXCEPT !.queue = <<>>], m)
    BY <2>1, <2>2 DEF Apart, ModemWith, Quiet
  <2>4. [m EXCEPT !.queue = <<>>] \in Run(m0)
    BY <2>3, ApartRuns
  <2> QED BY <2>4, AnswerRuns
<1> QED BY <1>1, <1>2, <1>3 DEF BUFFER, DATATOSEND, PURGEBUFFER, INITIALIZE, CL, Fault, Silent, Replies

-----------------------------------------------------------------------------
(* The other settings, and all the commands.                               *)

\* The texts, the list of callsigns, and what text mode sets.
LEMMA TextSet ==
  ASSUME NEW m0, NEW m \in Run(m0)
  PROVE  /\ \A w \in Texts : [m EXCEPT !.word = w] \in Run(m0) /\ [m EXCEPT !.mycall = w] \in Run(m0)
         /\ \A q \in UpTo(10, STRING) : [m EXCEPT !.aux = q] \in Run(m0)
<1>1. m \in ModemWith(m0.kiss)
  BY DEF Run
<1>2. ASSUME NEW w \in Texts, NEW t, t = [m EXCEPT !.word = w] PROVE t \in Run(m0)
  <2>1. t \in ModemWith(m0.kiss)
    BY <1>1, <1>2 DEF ModemWith
  <2>2. Quiet(t, m)
    BY <1>1, <1>2 DEF ModemWith, Quiet
  <2> QED BY <2>1, <2>2, QuietStays
<1>3. ASSUME NEW w \in Texts, NEW t, t = [m EXCEPT !.mycall = w] PROVE t \in Run(m0)
  <2>1. t \in ModemWith(m0.kiss)
    BY <1>1, <1>3 DEF ModemWith
  <2>2. Quiet(t, m)
    BY <1>1, <1>3 DEF ModemWith, Quiet
  <2> QED BY <2>1, <2>2, QuietStays
<1>4. ASSUME NEW q \in UpTo(10, STRING), NEW t, t = [m EXCEPT !.aux = q] PROVE t \in Run(m0)
  <2>1. t \in ModemWith(m0.kiss)
    BY <1>1, <1>4 DEF ModemWith
  <2>2. Quiet(t, m)
    BY <1>1, <1>4 DEF ModemWith, Quiet
  <2> QED BY <2>1, <2>2, QuietStays
<1> QED BY <1>2, <1>3, <1>4

\* Rounded up to tens, a number stays between tens.
LEMMA InTensStays ==
  ASSUME NEW a \in Int, NEW b \in Int, a % 10 = 0, b % 10 = 0, NEW n \in a .. b
  PROVE  InTens(n) \in a .. b
BY DEF InTens

\* MYAUX keeps ten names at most.
LEMMA AuxFold ==
  ASSUME NEW list \in Seq(STRING)
  PROVE  FoldLeft(LAMBDA q, w : IF Len(q) < 10 /\ IsCallsign(w) THEN Append(q, w) ELSE q, <<>>, list)
           \in UpTo(10, STRING)
<1> DEFINE n == Len(list)
           S == UpTo(10, STRING)
           Keep(q, w) == IF Len(q) < 10 /\ IsCallsign(w) THEN Append(q, w) ELSE q
           Is(it) == it = [s \in SUBSET (DOMAIN list) |->
                             IF s = {} THEN <<>> ELSE Keep(it[s \ {Max(s)}], list[Max(s)])]
           f == [p \in S \X (1 .. n) |-> Keep(p[1], list[p[2]])]
<1>1. FoldLeft(LAMBDA q, w : IF Len(q) < 10 /\ IsCallsign(w) THEN Append(q, w) ELSE q, <<>>, list)
        = (CHOOSE it : Is(it))[DOMAIN list]
  BY DEF FoldLeft, MapThenFoldSet
<1>2. n \in Nat /\ <<>> \in S /\ DOMAIN list = 1 .. n
  BY DEF UpTo
<1>3. ASSUME NEW q \in S, NEW i \in 1 .. n PROVE Keep(q, list[i]) \in S
  BY DEF UpTo
<1>4. f \in [S \X (1 .. n) -> S]
  BY <1>3
<1>5. \E it : Is(it)
  <2> HIDE DEF S, n
  <2>1. PICK it \in [SUBSET (1 .. n) -> S] : Folds(it, n, f, <<>>)
    <3> HIDE DEF f
    <3> QED BY <1>2, <1>4, FoldExists
  <2>2. ASSUME NEW s \in SUBSET (1 .. n), s # {}
        PROVE  f[<<it[s \ {Max(s)}], Max(s)>>] = Keep(it[s \ {Max(s)}], list[Max(s)])
    <3>0. s \in SUBSET (0 .. n)
      OBVIOUS
    <3>1. Max(s) \in 1 .. n /\ it[s \ {Max(s)}] \in S
      BY <1>2, <2>2, <3>0, MaxIn
    <3> HIDE DEF Keep
    <3> QED BY <3>1
  <2> HIDE DEF f, Keep
  <2>3. it = [s \in SUBSET (1 .. n) |-> IF s = {} THEN <<>> ELSE Keep(it[s \ {Max(s)}], list[Max(s)])]
    BY <2>1, <2>2 DEF Folds
  <2> QED BY <1>2, <2>3
<1>6. PICK it : it = (CHOOSE fold : Is(fold))
  OBVIOUS
<1>7. Is(it)
  <2> HIDE DEF Is
  <2> QED BY <1>5, <1>6
<1>8. it[1 .. n] \in S
  <2> HIDE DEF S, n
  <2>1. it[{}] \in S
    BY <1>2, <1>7
  <2>2. ASSUME NEW s \in SUBSET (1 .. n), s # {}, it[s \ {Max(s)}] \in S PROVE it[s] \in S
    <3>0. s \in SUBSET (0 .. n)
      OBVIOUS
    <3>1. Max(s) \in 1 .. n
      BY <1>2, <2>2, <3>0, MaxIn
    <3> HIDE DEF Keep
    <3>2. it[s] = Keep(it[s \ {Max(s)}], list[Max(s)])
      BY <1>2, <1>7, <2>2
    <3> QED BY <1>3, <2>2, <3>1, <3>2
  <2> QED BY <1>2, <2>1, <2>2, FoldStays
<1> QED BY <1>1, <1>2, <1>6, <1>8

\* The commands that name stations.
LEMMA ListsRun ==
  ASSUME NEW m0, NEW m \in Run(m0), NEW c, IsCommand(c)
  PROVE  /\ (c.name = "MYAUX" => MYAUX(m, c) \in Run(m0))
         /\ MYCALL(m, c) \in Run(m0) /\ CAPTURE(m, c) \in Run(m0) /\ GRIDSQUARE(m, c) \in Run(m0)
<1>1. \A r \in Replies : Answer(m, r) \in Run(m0)
  BY AnswerRuns
<1>2. Word(c) \in Texts
  BY Values
<1>3. ASSUME c.name = "MYAUX" PROVE MYAUX(m, c) \in Run(m0)
  <2>1. c.list \in Seq(STRING)
    BY <1>3 DEF IsCommand
  <2>2. PICK q \in UpTo(10, STRING) :
          q = FoldLeft(LAMBDA r, w : IF Len(r) < 10 /\ IsCallsign(w) THEN Append(r, w) ELSE r, <<>>, c.list)
    BY <2>1, AuxFold
  <2>3. Answer([m EXCEPT !.aux = q], "now") \in Run(m0)
    BY TextSet, AnswerRuns DEF Replies
  <2> QED BY <1>1, <2>2, <2>3 DEF MYAUX, Replies
<1>4. Answer([m EXCEPT !.word = Word(c)], "now") \in Run(m0)
  BY <1>2, TextSet, AnswerRuns DEF Replies
<1>5. Answer([m EXCEPT !.mycall = Word(c)], "now") \in Run(m0)
  BY <1>2, TextSet, AnswerRuns DEF Replies
<1>6. CAPTURE(m, c) \in Run(m0)
  BY <1>1, <1>4 DEF CAPTURE, Replies
<1>7. MYCALL(m, c) \in Run(m0)
  BY <1>1, <1>5 DEF MYCALL, Fault, Replies
<1>8. GRIDSQUARE(m, c) \in Run(m0)
  BY <1>1, <1>6 DEF GRIDSQUARE, Fault, Replies
<1> QED BY <1>3, <1>6, <1>7, <1>8

\* Those of the packet modem.
LEMMA PacRuns ==
  ASSUME NEW m0, NEW m \in Run(m0), NEW c, IsHostCommand(c), c.name = "PAC"
  PROVE  PAC(m, c) \in Run(m0)
<1>1. IsCommand(c) /\ c.sub \in {"MODE", "RETRIES", "FRACK", "other"}
  BY DEF IsHostCommand, IsCommand
<1>2. \A r \in Replies : Answer(m, r) \in Run(m0)
  BY AnswerRuns
<1>3. CASE c.sub = "MODE"
  <2>1. PICK d : d = [c EXCEPT !.name = "MODE"]
    OBVIOUS
  <2>2. d.name = "MODE" /\ d.name \in DOMAIN Options
    BY <1>1, <2>1 DEF Options, IsCommand
  <2>3. ChoiceCommand(m, d) \in Run(m0)
    BY <2>2, ChoiceCommandRuns
  <2> QED BY <1>3, <2>1, <2>3 DEF PAC
<1>4. CASE c.sub \in {"RETRIES", "FRACK"}
  <2>1. ASSUME Value(c) \in Limits[c.sub]
        PROVE  Answer([m EXCEPT !.number[c.sub] = Value(c)], "now") \in Run(m0)
    <3>1. c.sub \in DOMAIN Limits
      BY <1>4 DEF Limits
    <3>2. [m EXCEPT !.number[c.sub] = Value(c)] \in Run(m0)
      BY <2>1, <3>1, NumberSet
    <3> QED BY <3>2, AnswerRuns DEF Replies
  <2> QED BY <1>2, <1>4, <2>1 DEF PAC, Replies
<1>5. CASE c.sub = "other"
  BY <1>2, <1>5 DEF PAC, Replies
<1> QED BY <1>1, <1>3, <1>4, <1>5

\* All that set a number,
LEMMA NumberCommandsRun ==
  ASSUME NEW m0, NEW m \in Run(m0), NEW c, IsCommand(c)
  PROVE  /\ c.name = "ARQTIMEOUT" => ARQTIMEOUT(m, c) \in Run(m0)
         /\ c.name = "BUSYDET" => BUSYDET(m, c) \in Run(m0)
         /\ c.name = "CONSOLELOG" => CONSOLELOG(m, c) \in Run(m0)
         /\ c.name = "DRIVELEVEL" => DRIVELEVEL(m, c) \in Run(m0)
         /\ c.name = "FECREPEATS" => FECREPEATS(m, c) \in Run(m0)
         /\ c.name = "LEADER" => LEADER(m, c) \in Run(m0)
         /\ c.name = "LOGLEVEL" => LOGLEVEL(m, c) \in Run(m0)
         /\ c.name = "SQUELCH" => SQUELCH(m, c) \in Run(m0)
         /\ c.name = "TRAILER" => TRAILER(m, c) \in Run(m0)
         /\ c.name = "TUNINGRANGE" => TUNINGRANGE(m, c) \in Run(m0)
<1>1. Value(c) \in Int
  BY Values
<1>2. ASSUME c.name \in DOMAIN Limits PROVE NumberCommand(m, c, Value(c)) \in Run(m0)
  BY <1>2, NumberCommandRuns
<1>3. ASSUME c.name = "LEADER" PROVE LEADER(m, c) \in Run(m0)
  <2>1. PICK a \in Int, b \in Int : a % 10 = 0 /\ b % 10 = 0 /\ Limits["LEADER"] = a .. b
    <3>1. PICK a \in Int, b \in Int : a = 120 /\ b = 2500
      OBVIOUS
    <3>2. a % 10 = 0 /\ b % 10 = 0
      BY <3>1
    <3>3. Limits["LEADER"] = a .. b
      BY <3>1 DEF Limits
    <3> QED BY <3>2, <3>3
  <2>2. c.name \in DOMAIN Limits
    BY <1>3 DEF Limits
  <2>3. ASSUME Value(c) \in a .. b PROVE InTens(Value(c)) \in a .. b
    BY <2>1, <2>3, InTensStays
  <2>4. Value(c) \in Limits[c.name] => InTens(Value(c)) \in Limits[c.name]
    BY <1>3, <2>1, <2>3
  <2> QED BY <2>2, <2>4, NumberCommandRuns DEF LEADER
<1>4. ASSUME c.name = "TRAILER" PROVE TRAILER(m, c) \in Run(m0)
  <2>1. PICK a \in Int, b \in Int : a % 10 = 0 /\ b % 10 = 0 /\ Limits["TRAILER"] = a .. b
    <3>1. PICK a \in Int, b \in Int : a = 0 /\ b = 200
      OBVIOUS
    <3>2. a % 10 = 0 /\ b % 10 = 0
      BY <3>1
    <3>3. Limits["TRAILER"] = a .. b
      BY <3>1 DEF Limits
    <3> QED BY <3>2, <3>3
  <2>2. c.name \in DOMAIN Limits
    BY <1>4 DEF Limits
  <2>3. ASSUME Value(c) \in a .. b PROVE InTens(Value(c)) \in a .. b
    BY <2>1, <2>3, InTensStays
  <2>4. Value(c) \in Limits[c.name] => InTens(Value(c)) \in Limits[c.name]
    BY <1>4, <2>1, <2>3
  <2> QED BY <2>2, <2>4, NumberCommandRuns DEF TRAILER
<1>5. DOMAIN Limits = {"ARQTIMEOUT", "BUSYDET", "CONSOLELOG", "DRIVELEVEL", "FECREPEATS", "LEADER",
                       "LOGLEVEL", "SQUELCH", "TRAILER", "TUNINGRANGE", "RETRIES", "FRACK"}
  BY DEF Limits
<1> QED BY <1>2, <1>3, <1>4, <1>5 DEF ARQTIMEOUT, BUSYDET, CONSOLELOG, DRIVELEVEL, FECREPEATS,
      LOGLEVEL, SQUELCH, TUNINGRANGE

\* and all that set something else.
LEMMA OtherSettingsRun ==
  ASSUME NEW m0, NEW m \in Run(m0), NEW c
  PROVE  /\ c.name = "ARQBW" => ARQBW(m, c) \in Run(m0)
         /\ c.name = "CALLBW" => CALLBW(m, c) \in Run(m0)
         /\ c.name = "CWID" => CWID(m, c) \in Run(m0)
         /\ c.name = "FECMODE" => FECMODE(m, c) \in Run(m0)
         /\ RADIOHEX(m, c) \in Run(m0) /\ RADIOFREQ(m, c) \in Run(m0)
         /\ RADIOPTTOFF(m, c) \in Run(m0) /\ RADIOPTTON(m, c) \in Run(m0)
         /\ StateCommand(m, c) \in Run(m0) /\ DATETIME(m) \in Run(m0)
<1>1. \A r \in Replies : Answer(m, r) \in Run(m0)
  BY AnswerRuns
<1>2. DOMAIN Options = {"ARQBW", "CALLBW", "CWID", "PROTOCOLMODE", "FECMODE", "MODE"}
  BY DEF Options
<1>3. c.name \in DOMAIN Options => ChoiceCommand(m, c) \in Run(m0)
  BY ChoiceCommandRuns
<1> QED BY <1>1, <1>2, <1>3 DEF ARQBW, CALLBW, CWID, FECMODE, RADIOHEX, RADIOFREQ, RADIOPTTOFF,
      RADIOPTTON, StateCommand, DATETIME, Fault, Silent, Replies

\* Whatever the host commands, the record keeps to what it is.
LEMMA CommandRuns ==
  ASSUME NEW m0, NEW m \in Run(m0), NEW c, IsHostCommand(c)
  PROVE  ProcessCommandFromHost(m, c) \in Run(m0)
<1>1. IsCommand(c)
  BY DEF IsHostCommand
<1>2. \A r \in Replies : Answer(m, r) \in Run(m0)
  BY AnswerRuns
<1>3. ASSUME c.name \in DOMAIN NewModem.flag PROVE DoTrueFalseCmd(m, c) \in Run(m0)
  BY <1>1, <1>3, DoTrueFalseCmdRuns
<1>4. DOMAIN m.flag = DOMAIN NewModem.flag
  BY DEF Run, ModemWith, Flags
<1>5. c.name = "CODEC" => CODEC(m, c) \in Run(m0)
  BY <1>3 DEF CODEC, NewModem
<1>6. c.name \in DOMAIN m.flag \ {"CODEC"} => DoTrueFalseCmd(m, c) \in Run(m0)
  BY <1>3, <1>4
<1>7. ABORT(m) \in Run(m0) /\ ARQCALL(m, c) \in Run(m0) /\ PING(m, c) \in Run(m0)
  BY <1>1, AbortRuns, CallsRun
<1>8. /\ BREAK(m) \in Run(m0) /\ CLOSE(m) \in Run(m0) /\ DISCONNECT(m) \in Run(m0)
      /\ SENDID(m) \in Run(m0) /\ TWOTONETEST(m) \in Run(m0) /\ FECSEND(m, c) \in Run(m0)
      /\ (c.name = "PROTOCOLMODE" => PROTOCOLMODE(m, c) \in Run(m0))
  BY <1>1, SessionCommandsRun
<1>9. /\ BUFFER(m, c) \in Run(m0) /\ DATATOSEND(m, c) \in Run(m0) /\ PURGEBUFFER(m) \in Run(m0)
      /\ INITIALIZE(m) \in Run(m0) /\ CL(m) \in Run(m0)
  BY QueueCommandsRun
<1>10. /\ c.name = "MYAUX" => MYAUX(m, c) \in Run(m0)
       /\ MYCALL(m, c) \in Run(m0) /\ CAPTURE(m, c) \in Run(m0) /\ GRIDSQUARE(m, c) \in Run(m0)
  BY <1>1, ListsRun
<1>11. c.name = "PAC" => PAC(m, c) \in Run(m0)
  BY PacRuns
<1>12. Answer(m, "value") \in Run(m0) /\ Fault(m) \in Run(m0)
  BY <1>2 DEF Fault, Replies
<1> HIDE DEF Run
<1> QED BY <1>1, <1>5, <1>6, <1>7, <1>8, <1>9, <1>10, <1>11, <1>12, NumberCommandsRun,
           OtherSettingsRun DEF ProcessCommandFromHost

\* The modem's record as it is between two steps.
Kept(m) == m \in ModemWith(m.kiss) /\ Agreed(m) /\ Due(m)
\* What is kept is what a command may begin with, and what it leaves.
LEMMA KeptRuns ==
  ASSUME NEW m
  PROVE  /\ Kept(m) <=> m \in Run(m)
         /\ \A t \in Run(m) : Kept(t) /\ Given(t) = Given(m) /\ t.hostMode = m.hostMode
BY DEF Kept, Run, ModemWith

-----------------------------------------------------------------------------
(* Text mode.                                                              *)

\* A modem that starts.
LEMMA NewModemKept == Kept(NewModem) /\ Given(NewModem) = [reports |-> 0, data |-> 0, cat |-> 0] /\ ~NewModem.hostMode
<1>1. NewModem.number \in Numbers
  BY DEF NewModem, Numbers, Limits
<1>2. NewModem.choice \in Chosen
  BY DEF NewModem, Chosen, AnyOption, Options, ARQBandwidths
<1>3. NewModem.flag \in Flags /\ NewModem.pkt \in PacketSettings
  <2>1. PICK yes \in BOOLEAN, no \in BOOLEAN : yes = TRUE /\ no = FALSE
    OBVIOUS
  <2>2. NewModem.flag =
          [AUTOBREAK |-> yes, BUSYBLOCK |-> no, CMDTRACE |-> yes, CODEC |-> no, DEBUGLOG |-> yes,
           ENABLEPINGACK |-> yes, FASTSTART |-> yes, FECID |-> no, FSKONLY |-> no, LISTEN |-> yes,
           MONITOR |-> yes, USE600MODES |-> no]
    BY <2>1 DEF NewModem
  <2>3. NewModem.flag \in Flags
    BY <2>2 DEF Flags
  <2>4. NewModem.pkt \in PacketSettings
    BY DEF NewModem, PacketSettings
  <2> QED BY <2>3, <2>4
<1>4. NewModem.level \in LevelSettings
  BY DEF NewModem, LevelSettings, Levels
<1>5. NewModem.wanted \in WantedCalls
  <2>1. PICK w \in Texts : w = ""
    BY DEF Texts
  <2>2. PICK z \in Int : z = 0
    OBVIOUS
  <2>3. PICK p \in Texts \X Int : p = <<w, z>>
    OBVIOUS
  <2>4. NewModem.wanted = [ConReq |-> p, Ping |-> p]
    BY <2>1, <2>2, <2>3 DEF NewModem
  <2> QED BY <2>4 DEF WantedCalls
<1>6. /\ NewModem.aux \in UpTo(10, STRING) /\ NewModem.queue \in UpTo(QueueRoom, Nat)
      /\ NewModem.reports \in UpTo(ReportRoom, Nat)
  BY HostCommandsAssumption DEF NewModem, UpTo
<1>7. NewModem \in ModemWith(NewModem.kiss)
  <2>1. /\ NewModem.word \in Texts /\ NewModem.mycall \in Texts /\ NewModem.callee \in Texts
        /\ NewModem.state \in States /\ NewModem.need \in NeedSets
    BY DEF NewModem, Texts, States, NeedSets
  <2>2. /\ NewModem.abort \in Truth /\ NewModem.disconnect \in Truth /\ NewModem.brk \in Truth
        /\ NewModem.closing \in Truth /\ NewModem.hostMode \in Truth /\ NewModem.pac \in Truth
        /\ NewModem.mixed \in Truth
    BY DEF NewModem, Truth
  <2>3. /\ NewModem.forHost \in Items /\ NewModem.rig \in Items /\ NewModem.cat \in Items
        /\ NewModem.reply \in Replies
    BY DEF NewModem, Items, Replies
  <2>4. /\ NewModem.calls \in Int /\ NewModem.pings \in Int /\ NewModem.packets \in Nat
        /\ NewModem.told \in Nat /\ NewModem.passed \in Nat /\ NewModem.heard \in Nat
    BY DEF NewModem
  <2>5. PICK m : m = NewModem
    OBVIOUS
  <2>6. m = [number |-> m.number, flag |-> m.flag, choice |-> m.choice, word |-> m.word,
             mycall |-> m.mycall, aux |-> m.aux, state |-> m.state, need |-> m.need,
             callee |-> m.callee, calls |-> m.calls, pings |-> m.pings, abort |-> m.abort,
             disconnect |-> m.disconnect, brk |-> m.brk, closing |-> m.closing, queue |-> m.queue,
             reports |-> m.reports, forHost |-> m.forHost, packets |-> m.packets, reply |-> m.reply,
             kiss |-> m.kiss, rig |-> m.rig, cat |-> m.cat, hostMode |-> m.hostMode, pac |-> m.pac,
             pkt |-> m.pkt, level |-> m.level, told |-> m.told, passed |-> m.passed,
             heard |-> m.heard, wanted |-> m.wanted, mixed |-> m.mixed]
    BY <2>5 DEF NewModem
  <2> QED BY <1>1, <1>2, <1>3, <1>4, <1>5, <1>6, <2>1, <2>2, <2>3, <2>4, <2>5, <2>6 DEF ModemWith
<1>8. Agreed(NewModem)
  BY DEF NewModem, Agreed
<1>9. Due(NewModem)
  BY DEF NewModem, Due, Numbered
<1>10. Given(NewModem) = [reports |-> 0, data |-> 0, cat |-> 0] /\ ~NewModem.hostMode
  BY DEF NewModem, Given
<1> QED BY <1>7, <1>8, <1>9, <1>10 DEF Kept

\* The settings that the text mode has of its own.
LEMMA LevelSet ==
  ASSUME NEW m0, NEW m \in Run(m0), NEW name \in DOMAIN NewModem.level, NEW v \in Levels
  PROVE  [m EXCEPT !.level[name] = v] \in Run(m0)
<1>1. m \in ModemWith(m0.kiss)
  BY DEF Run
<1>2. PICK f \in LevelSettings : f = [m.level EXCEPT ![name] = v]
  <2>1. m.level \in [DOMAIN NewModem.level -> Levels]
    BY <1>1 DEF ModemWith, LevelSettings
  <2>2. [m.level EXCEPT ![name] = v] \in [DOMAIN NewModem.level -> Levels]
    BY <2>1
  <2> QED BY <2>2 DEF LevelSettings
<1>3. PICK t : t = [m EXCEPT !.level = f]
  OBVIOUS
<1>4. t \in ModemWith(m0.kiss)
  BY <1>1, <1>2, <1>3 DEF ModemWith
<1>5. Quiet(t, m)
  BY <1>1, <1>3 DEF ModemWith, Quiet
<1>6. [m EXCEPT !.level[name] = v] = t
  BY <1>1, <1>2, <1>3
<1> QED BY <1>4, <1>5, <1>6, QuietStays

\* A setting of the packet modem.
LEMMA PacketSettingRuns ==
  ASSUME NEW m0, NEW m \in Run(m0), NEW c, IsCommand(c)
  PROVE  PacketSetting(m, c) \in Run(m0)
<1>1. m \in ModemWith(m0.kiss)
  BY DEF Run
<1>2. CASE c.name \in DOMAIN m.pkt
  <2>1. PICK f \in PacketSettings : f = [m.pkt EXCEPT ![c.name] = Value(c)]
    <3>1. m.pkt \in [DOMAIN NewModem.pkt -> Int]
      BY <1>1 DEF ModemWith, PacketSettings
    <3>2. [m.pkt EXCEPT ![c.name] = Value(c)] \in [DOMAIN NewModem.pkt -> Int]
      BY <3>1, Values
    <3> QED BY <3>2 DEF PacketSettings
  <2>2. PICK t : t = [m EXCEPT !.pkt = f]
    OBVIOUS
  <2>3. t \in ModemWith(m0.kiss)
    BY <1>1, <2>1, <2>2 DEF ModemWith
  <2>4. Quiet(t, m)
    BY <1>1, <2>2 DEF ModemWith, Quiet
  <2>5. PacketSetting(m, c) = t
    BY <1>1, <1>2, <2>1, <2>2 DEF PacketSetting
  <2> QED BY <2>3, <2>4, <2>5, QuietStays
<1>3. CASE c.name \notin DOMAIN m.pkt
  BY <1>3 DEF PacketSetting
<1> QED BY <1>2, <1>3

\* A line of text.
LEMMA TextCommandRuns ==
  ASSUME NEW m0, NEW m \in Run(m0), NEW c, IsCommand(c)
  PROVE  ProcessSCSTextCommand(m, c) \in Run(m0)
<1>1. CASE c.name = "ARDOP"
  <2>1. PICK t \in Run(m0) : t = [m EXCEPT !.flag.LISTEN = TRUE]
    BY FlagSet DEF NewModem
  <2>2. [t EXCEPT !.number.CONSOLELOG = 6] \in Run(m0)
    <3>1. "CONSOLELOG" \in DOMAIN Limits /\ 6 \in Limits["CONSOLELOG"]
      BY DEF Limits
    <3> QED BY <3>1, NumberSet
  <2>3. [m EXCEPT !.flag.LISTEN = TRUE, !.number.CONSOLELOG = 6] = [t EXCEPT !.number.CONSOLELOG = 6]
    BY <2>1
  <2> QED BY <1>1, <2>2, <2>3 DEF ProcessSCSTextCommand
<1>2. CASE c.name \in {"PAC", "QUIT"} /\ "sub" \notin DOMAIN c
  <2>1. PICK b \in Truth : b = (c.name = "PAC")
    BY DEF Truth
  <2>2. [m EXCEPT !.pac = b] \in Run(m0)
    BY Switches, ApartRuns
  <2> QED BY <1>2, <2>1, <2>2 DEF ProcessSCSTextCommand
<1>3. CASE c.name = "MYC"
  <2>1. c.w \in Texts
    BY DEF IsCommand, Texts
  <2>2. [m EXCEPT !.mycall = c.w] \in Run(m0)
    BY <2>1, TextSet
  <2> QED BY <1>3, <2>2 DEF ProcessSCSTextCommand
<1>4. CASE c.name \in {"PSKA", "FSKA"}
  <2>1. c.name \in DOMAIN NewModem.level
    BY <1>4 DEF NewModem
  <2>2. PSKA(m, c) \in Run(m0)
    BY <2>1, LevelSet DEF PSKA
  <2> QED BY <1>4, <2>2 DEF ProcessSCSTextCommand
<1>5. CASE c.name = "MYL"
  <2>1. ASSUME Value(c) \in 1 .. 4 PROVE Bandwidth[Value(c)] \in Options["ARQBW"]
    <3>1. Value(c) \in {1, 2, 3, 4}
      BY <2>1
    <3>2. \A i \in {1, 2, 3, 4} : Bandwidth[i] \in ARQBandwidths
      BY DEF Bandwidth, ARQBandwidths
    <3> QED BY <3>1, <3>2 DEF Options
  <2>2. "ARQBW" \in DOMAIN Options
    BY DEF Options
  <2>3. MYL(m, c) \in Run(m0)
    BY <2>1, <2>2, ChoiceSet DEF MYL
  <2> QED BY <1>5, <2>3 DEF ProcessSCSTextCommand
<1>6. CASE ~(\/ c.name \in {"ARDOP", "MYC", "PSKA", "FSKA", "MYL"}
             \/ c.name \in {"PAC", "QUIT"} /\ "sub" \notin DOMAIN c)
  <2>1. IsHostCommand(c)
    BY <1>6 DEF IsHostCommand
  <2>2. PacketSetting(m, c) \in Run(m0) /\ ProcessCommandFromHost(m, c) \in Run(m0)
    BY <2>1, PacketSettingRuns, CommandRuns
  <2> QED BY <1>6, <2>2 DEF ProcessSCSTextCommand
<1> QED BY <1>1, <1>2, <1>3, <1>4, <1>5, <1>6

\* JHOST4 begins the host mode.
LEMMA EntryRuns ==
  ASSUME NEW m, Kept(m)
  PROVE  LET t == JHOST4(m) IN Kept(t) /\ Given(t) = Given(m) /\ t.hostMode
<1>1. PICK k : k = m.kiss /\ m \in ModemWith(k) /\ Agreed(m) /\ Due(m)
  BY DEF Kept
<1>2. PICK yes \in Truth : yes = TRUE
  BY DEF Truth
<1>3. PICK t : t = [m EXCEPT !.hostMode = yes]
  OBVIOUS
<1>4. t \in ModemWith(k)
  BY <1>1, <1>3 DEF ModemWith
<1>5. /\ t.need = m.need /\ t.callee = m.callee /\ t.calls = m.calls /\ t.pings = m.pings
      /\ t.mixed = m.mixed /\ t.wanted = m.wanted
      /\ t.told = m.told /\ t.reports = m.reports /\ t.passed = m.passed /\ t.forHost = m.forHost
      /\ t.heard = m.heard /\ t.rig = m.rig /\ t.cat = m.cat /\ t.hostMode = yes /\ t.kiss = m.kiss
  BY <1>1, <1>3 DEF ModemWith
<1>6. Kept(t) /\ Given(t) = Given(m)
  BY <1>1, <1>4, <1>5 DEF Kept, Agreed, Due, Given
<1>7. Silent(ABORT(t)) \in Run(t)
  <2>1. ABORT(t) \in Run(t)
    BY <1>6, KeptRuns, AbortRuns
  <2> QED BY <2>1, AnswerRuns DEF Silent, Replies
<1> QED BY <1>2, <1>3, <1>5, <1>6, <1>7, KeptRuns DEF JHOST4

\* The pieces that travel to the modem: of lines that are commands, and of requests.
IsLine(f) == f.id = 0 /\ IsCommand(f.line)
IsFrame(f) == f.id \in Nat \ {0} /\ f.toggle \in BOOLEAN /\ IsRequest(f.ask)
ArePieces(P) ==
  \A p \in P : p.half \in {1, 2} /\ (IsLine(p.frame) \/ IsFrame(p.frame))

\* What a line of pieces says is a command.
LEMMA LineIsCommand ==
  ASSUME NEW P, ArePieces(P), NEW buf \in Seq(P), NEW k \in LineEnds(buf)
  PROVE  IsCommand(CommandIn(LineUpTo(buf, k)))
<1> DEFINE before == {i \in LineEnds(buf) \cup {0} : i < k}
<1>1. k \in 1 .. Len(buf) /\ \A i \in 1 .. k : IsText(buf[i])
  BY DEF LineEnds
<1>2. PICK j : j = Max(before)
  OBVIOUS
<1>3. j \in 0 .. k - 1
  <2>1. before \in SUBSET (0 .. Len(buf)) /\ 0 \in before
    BY <1>1 DEF LineEnds
  <2>2. \A i \in before : i < k
    OBVIOUS
  <2> HIDE DEF before
  <2>3. Len(buf) \in Nat /\ before # {}
    BY <2>1
  <2>4. Max(before) \in before
    BY <2>1, <2>3, MaxIn
  <2>5. j \in 0 .. Len(buf) /\ j < k
    BY <1>2, <2>1, <2>2, <2>4
  <2>6. j \in Int /\ k \in Int /\ 0 <= j
    BY <1>1, <2>5
  <2> QED BY <2>5, <2>6
<1>4. PICK pieces : pieces = SubSeq(buf, j + 1, k)
  OBVIOUS
<1>5. pieces[1] = buf[j + 1] /\ j + 1 \in 1 .. k /\ buf[j + 1] \in P
  BY <1>1, <1>3, <1>4
<1>6. IsCommand(pieces[1].frame.line)
  BY <1>1, <1>5 DEF ArePieces, IsLine, IsFrame, IsText
<1>7. IsCommand([name |-> "unknown", arg |-> "none", n |-> 0, w |-> ""])
  BY DEF IsCommand
<1>8. IsCommand(CommandIn(pieces))
  BY <1>6, <1>7 DEF CommandIn
<1> QED BY <1>2, <1>4, <1>8 DEF LineUpTo

\* All the lines that have been read, one after the other.
LEMMA TextsRun ==
  ASSUME NEW m0, NEW m \in Run(m0), NEW P, ArePieces(P), NEW buf \in Seq(P),
         NEW ends \in SUBSET LineEnds(buf)
  PROVE  RunTexts(m, buf, ends) \in Run(m0)
<1> DEFINE n == Len(buf)
           places == [k \in 1 .. Len(buf) |-> k]
           S == Run(m0)
           Keep(x, k) == IF k \in ends THEN ProcessSCSTextCommand(x, CommandIn(LineUpTo(buf, k))) ELSE x
           Is(it) == it = [s \in SUBSET (DOMAIN places) |->
                             IF s = {} THEN m ELSE Keep(it[s \ {Max(s)}], places[Max(s)])]
           f == [p \in S \X (1 .. n) |-> Keep(p[1], places[p[2]])]
<1>1. RunTexts(m, buf, ends) = (CHOOSE it : Is(it))[DOMAIN places]
  BY DEF FoldLeft, MapThenFoldSet, RunTexts
<1>2. n \in Nat /\ m \in S /\ DOMAIN places = 1 .. n
  OBVIOUS
<1>3. ASSUME NEW x \in S, NEW i \in 1 .. n PROVE Keep(x, places[i]) \in S
  <2>1. places[i] = i
    OBVIOUS
  <2>2. CASE i \in ends
    <3>1. IsCommand(CommandIn(LineUpTo(buf, i)))
      BY <2>2, LineIsCommand
    <3> QED BY <2>1, <2>2, <3>1, TextCommandRuns
  <2> QED BY <2>1, <2>2
<1>4. f \in [S \X (1 .. n) -> S]
  <2> HIDE DEF S, n, Keep, places
  <2> QED BY <1>3
<1>5. \E it : Is(it)
  <2> HIDE DEF S, n
  <2>1. PICK it \in [SUBSET (1 .. n) -> S] : Folds(it, n, f, m)
    <3> HIDE DEF f
    <3> QED BY <1>2, <1>4, FoldExists
  <2> HIDE DEF places, Keep
  <2>2. ASSUME NEW s \in SUBSET (1 .. n), s # {}
        PROVE  f[<<it[s \ {Max(s)}], Max(s)>>] = Keep(it[s \ {Max(s)}], places[Max(s)])
    <3>1. s \in SUBSET (0 .. n)
      OBVIOUS
    <3>2. Max(s) \in 1 .. n /\ it[s \ {Max(s)}] \in S
      BY <1>2, <2>2, <3>1, MaxIn
    <3> QED BY <3>2
  <2> HIDE DEF f
  <2>3. it = [s \in SUBSET (1 .. n) |-> IF s = {} THEN m ELSE Keep(it[s \ {Max(s)}], places[Max(s)])]
    BY <2>1, <2>2 DEF Folds
  <2> QED BY <1>2, <2>3
<1>6. PICK it : it = (CHOOSE fold : Is(fold))
  OBVIOUS
<1>7. Is(it)
  <2> HIDE DEF Is
  <2> QED BY <1>5, <1>6
<1>8. it[1 .. n] \in S
  <2> HIDE DEF S, n, places, Keep
  <2>1. it[{}] \in S
    BY <1>2, <1>7
  <2>2. ASSUME NEW s \in SUBSET (1 .. n), s # {}, it[s \ {Max(s)}] \in S PROVE it[s] \in S
    <3>1. s \in SUBSET (0 .. n)
      OBVIOUS
    <3>2. Max(s) \in 1 .. n
      BY <1>2, <2>2, <3>1, MaxIn
    <3>3. it[s] = Keep(it[s \ {Max(s)}], places[Max(s)])
      BY <1>2, <1>7, <2>2
    <3> QED BY <1>3, <2>2, <3>2, <3>3
  <2> QED BY <1>2, <2>1, <2>2, FoldStays
<1> QED BY <1>1, <1>2, <1>6, <1>8

-----------------------------------------------------------------------------
(* The requests of the host mode.                                          *)

ReplyKinds == {"ack", "reply", "list", "packets", "reports", "data", "cat"}
\* What a request is answered with: of one kind at most, and then the next numbers of it.
Handed(m, done) ==
  /\ Kept(done.modem) /\ done.modem.hostMode = m.hostMode
  /\ done.kind \in ReplyKinds /\ done.items \in Items /\ done.kept \in Truth
  /\ done.kept \/ done.kind = "packets"
  /\ \A kind \in KINDS :
       /\ done.kind # kind => Given(done.modem)[kind] = Given(m)[kind]
       /\ done.kind = kind => /\ Given(done.modem)[kind] = Given(m)[kind] + Len(done.items)
                              /\ \A i \in 1 .. Len(done.items) : done.items[i] = Given(m)[kind] + i

\* What becomes of the modem when nothing is handed over.
Goes(m, t) == Kept(t) /\ Given(t) = Given(m) /\ t.hostMode = m.hostMode
\* What leaves the agreements and dues alone is such a change.
LEMMA QuietGoes ==
  ASSUME NEW m, Kept(m), NEW t, t \in ModemWith(t.kiss), Quiet(t, m)
  PROVE  Goes(m, t)
BY DEF Goes, Kept, Quiet, Agreed, Due, Given

\* The packets are apart from all this.
LEMMA PacketsGo ==
  ASSUME NEW m, Kept(m)
  PROVE  /\ \A k : Goes(m, [m EXCEPT !.kiss = k])
         /\ \A n \in Nat : Goes(m, [m EXCEPT !.packets = n])
<1>1. PICK k : k = m.kiss /\ m \in ModemWith(k)
  BY DEF Kept
<1>2. ASSUME NEW l, NEW t, t = [m EXCEPT !.kiss = l] PROVE Goes(m, t)
  <2>1. t \in ModemWith(l) /\ t.kiss = l
    BY <1>1, <1>2 DEF ModemWith
  <2>2. Quiet(t, m)
    BY <1>1, <1>2 DEF ModemWith, Quiet
  <2> QED BY <2>1, <2>2, QuietGoes
<1>3. ASSUME NEW n \in Nat, NEW t, t = [m EXCEPT !.packets = n] PROVE Goes(m, t)
  <2>1. t \in ModemWith(k) /\ t.kiss = k
    BY <1>1, <1>3 DEF ModemWith
  <2>2. Quiet(t, m)
    BY <1>1, <1>3 DEF ModemWith, Quiet
  <2> QED BY <2>1, <2>2, QuietGoes
<1> QED BY <1>2, <1>3

\* A reply that only tells of the modem.
LEMMA PlainHands ==
  ASSUME NEW m, NEW t, t \in Run(m) \/ Goes(m, t), NEW kind \in {"ack", "reply", "list"}
  PROVE  Handed(m, Plain(t, kind))
<1>1. Kept(t) /\ Given(t) = Given(m) /\ t.hostMode = m.hostMode
  BY KeptRuns DEF Goes
<1>2. <<>> \in Items /\ TRUE \in Truth
  BY DEF Items, Truth
<1> QED BY <1>1, <1>2 DEF Handed, Plain, Holding, ReplyKinds, KINDS

\* A stretch at the start of a sequence, and the one that is left.
LEMMA Slice ==
  ASSUME NEW S, NEW q \in Seq(S), NEW k \in 0 .. Len(q)
  PROVE  LET first == SubSeq(q, 1, k)
             rest == SubSeq(q, k + 1, Len(q))
         IN /\ first \in Seq(S) /\ Len(first) = k /\ \A i \in 1 .. k : first[i] = q[i]
            /\ rest \in Seq(S) /\ Len(rest) = Len(q) - k
            /\ \A i \in 1 .. Len(q) - k : rest[i] = q[k + i]
<1>1. PICK l \in Nat : l = Len(q)
  OBVIOUS
<1>2. k \in Nat /\ k <= l /\ \A i \in 1 .. l : q[i] \in S
  BY <1>1
<1>3. PICK first : first = SubSeq(q, 1, k)
  OBVIOUS
<1>4. first \in Seq(S) /\ Len(first) = k /\ \A i \in 1 .. k : first[i] = q[1 + i - 1]
  <2>1. \A i \in 1 .. k : q[i] \in S
    BY <1>1, <1>2
  <2> QED BY <1>2, <1>3, <2>1, SubSeqProperties
<1>5. \A i \in 1 .. k : first[i] = q[i]
  BY <1>2, <1>4
<1>6. PICK rest : rest = SubSeq(q, k + 1, l)
  OBVIOUS
<1>7. rest \in Seq(S) /\ Len(rest) = l - k /\ \A i \in 1 .. l - k : rest[i] = q[k + 1 + i - 1]
  <2>1. k + 1 \in Nat /\ \A i \in k + 1 .. l : q[i] \in S
    BY <1>1, <1>2
  <2> QED BY <1>1, <1>2, <1>6, <2>1, SubSeqProperties
<1>8. \A i \in 1 .. l - k : rest[i] = q[k + i]
  BY <1>1, <1>2, <1>7
<1> QED BY <1>1, <1>3, <1>4, <1>5, <1>6, <1>7, <1>8

\* What is fetched at a time, and what is left.
LEMMA Parted ==
  ASSUME NEW n \in Nat, NEW q \in Seq(Nat), Numbered(q, n), q # <<>>
  PROVE  /\ FirstOf(q) \in Items /\ RestOf(q) \in Seq(Nat) /\ Len(RestOf(q)) = Len(q) - Len(FirstOf(q))
         /\ Len(FirstOf(q)) \in Nat \ {0} /\ Numbered(RestOf(q), n)
         /\ \A i \in 1 .. Len(FirstOf(q)) : FirstOf(q)[i] = n - Len(q) + i
<1>1. PICK l \in Nat \ {0} : l = Len(q)
  OBVIOUS
<1>2. PICK k \in 1 .. l : k = Min({Chunk, l})
  <2>1. Chunk \in Nat \ {0}
    BY ScsHostAssumption
  <2>2. CASE Chunk <= l
    <3>1. Min({Chunk, l}) = Chunk
      BY <2>1, <2>2 DEF Min
    <3> QED BY <2>1, <2>2, <3>1
  <2>3. CASE ~(Chunk <= l)
    <3>1. Min({Chunk, l}) = l
      BY <2>1, <2>3 DEF Min
    <3> QED BY <2>1, <2>3, <3>1
  <2> QED BY <2>2, <2>3
<1>3. PICK first : first = SubSeq(q, 1, k)
  OBVIOUS
<1>4. PICK rest : rest = SubSeq(q, k + 1, l)
  OBVIOUS
<1>5. FirstOf(q) = first /\ RestOf(q) = rest
  BY <1>1, <1>2, <1>3, <1>4 DEF FirstOf, RestOf
<1>0. k \in 0 .. Len(q)
  BY <1>1, <1>2
<1>6. first \in Seq(Nat) /\ Len(first) = k /\ \A i \in 1 .. k : first[i] = q[i]
  BY <1>0, <1>3, Slice
<1>7. rest \in Seq(Nat) /\ Len(rest) = l - k /\ \A i \in 1 .. l - k : rest[i] = q[k + i]
  BY <1>0, <1>1, <1>4, Slice
<1>8. \A i \in 1 .. l : q[i] = n - l + i
  BY <1>1 DEF Numbered
<1>9. ASSUME NEW i \in 1 .. Len(rest) PROVE rest[i] = n - Len(rest) + i
  <2>1. i \in 1 .. l - k /\ k + i \in 1 .. l
    BY <1>7
  <2>2. rest[i] = n - l + (k + i)
    BY <1>7, <1>8, <2>1
  <2> QED BY <1>7, <2>1, <2>2
<1>10. ASSUME NEW i \in 1 .. k PROVE first[i] = n - l + i
  <2>1. i \in 1 .. l
    BY <1>2
  <2> QED BY <1>6, <1>8, <2>1
<1> QED BY <1>1, <1>5, <1>6, <1>7, <1>9, <1>10 DEF Numbered, Items

\* Reports are handed over in order,
LEMMA ReportsHand ==
  ASSUME NEW m, Kept(m)
  PROVE  Handed(m, CheckForControl(m))
<1>1. PICK k : k = m.kiss /\ m \in ModemWith(k) /\ Agreed(m) /\ Due(m)
  BY DEF Kept
<1>2. CASE m.reports = <<>>
  BY <1>2, PlainHands, KeptRuns DEF CheckForControl
<1>3. CASE m.reports # <<>>
  <2>1. PICK n \in Nat, q \in Seq(Nat) :
          n = m.told /\ q = m.reports /\ Len(q) <= ReportRoom /\ q # <<>> /\ Numbered(q, n)
    BY <1>1, <1>3 DEF ModemWith, UpTo, Due
  <2>2. PICK first, rest : first = FirstOf(q) /\ rest = RestOf(q)
    OBVIOUS
  <2>3. /\ first \in Items /\ rest \in Seq(Nat) /\ Len(rest) = Len(q) - Len(first)
        /\ Len(first) \in Nat \ {0} /\ Numbered(rest, n)
        /\ \A i \in 1 .. Len(first) : first[i] = n - Len(q) + i
    BY <2>1, <2>2, Parted
  <2>4. PICK t : t = [m EXCEPT !.reports = rest]
    OBVIOUS
  <2>5. rest \in UpTo(ReportRoom, Nat)
    <3>1. Len(rest) <= ReportRoom
      BY <2>1, <2>3, HostCommandsAssumption
    <3> QED BY <2>3, <3>1 DEF UpTo
  <2>6. t \in ModemWith(k)
    BY <1>1, <2>4, <2>5 DEF ModemWith
  <2>7. /\ t.need = m.need /\ t.callee = m.callee /\ t.calls = m.calls /\ t.pings = m.pings
        /\ t.mixed = m.mixed /\ t.wanted = m.wanted
        /\ t.told = m.told /\ t.reports = rest /\ t.passed = m.passed /\ t.forHost = m.forHost
        /\ t.heard = m.heard /\ t.rig = m.rig /\ t.cat = m.cat /\ t.hostMode = m.hostMode /\ t.kiss = m.kiss
    BY <1>1, <2>4 DEF ModemWith
  <2>8. Kept(t)
    BY <1>1, <2>1, <2>3, <2>6, <2>7 DEF Kept, Agreed, Due
  <2>9. CheckForControl(m) = Holding(t, "reports", first, TRUE)
    BY <1>3, <2>1, <2>2, <2>4 DEF CheckForControl
  <2>10. n - Len(rest) = n - Len(q) + Len(first)
    BY <2>1, <2>3
  <2>11. /\ Given(t) = [reports |-> n - Len(rest), data |-> Given(m).data, cat |-> Given(m).cat]
         /\ Given(m).reports = n - Len(q)
    BY <2>1, <2>7 DEF Given
  <2>12. PICK done : done = CheckForControl(m)
    OBVIOUS
  <2>13. done.modem = t /\ done.kind = "reports" /\ done.items = first /\ done.kept = TRUE
    BY <2>9, <2>12 DEF Holding
  <2>14. ASSUME NEW kind \in KINDS
         PROVE  /\ done.kind # kind => Given(done.modem)[kind] = Given(m)[kind]
                /\ done.kind = kind =>
                     /\ Given(done.modem)[kind] = Given(m)[kind] + Len(done.items)
                     /\ \A i \in 1 .. Len(done.items) : done.items[i] = Given(m)[kind] + i
    BY <2>3, <2>10, <2>11, <2>13 DEF KINDS
  <2>15. Handed(m, done)
    BY <2>3, <2>7, <2>8, <2>13, <2>14 DEF Handed, ReplyKinds, Truth
  <2> QED BY <2>12, <2>15
<1> QED BY <1>2, <1>3

\* and data,
LEMMA DataHands ==
  ASSUME NEW m, Kept(m)
  PROVE  Handed(m, CheckForData(m))
<1>1. PICK k : k = m.kiss /\ m \in ModemWith(k) /\ Agreed(m) /\ Due(m)
  BY DEF Kept
<1>2. CASE m.forHost = <<>>
  BY <1>2, PlainHands, KeptRuns DEF CheckForData
<1>3. CASE m.forHost # <<>>
  <2>1. PICK n \in Nat, q \in Seq(Nat) :
          n = m.passed /\ q = m.forHost /\ q # <<>> /\ Numbered(q, n)
    BY <1>1, <1>3 DEF ModemWith, Items, Due
  <2>2. PICK first, rest : first = FirstOf(q) /\ rest = RestOf(q)
    OBVIOUS
  <2>3. /\ first \in Items /\ rest \in Seq(Nat) /\ Len(rest) = Len(q) - Len(first)
        /\ Len(first) \in Nat \ {0} /\ Numbered(rest, n)
        /\ \A i \in 1 .. Len(first) : first[i] = n - Len(q) + i
    BY <2>1, <2>2, Parted
  <2>4. PICK t : t = [m EXCEPT !.forHost = rest]
    OBVIOUS
  <2>5. rest \in Items
    BY <2>3 DEF Items
  <2>6. t \in ModemWith(k)
    BY <1>1, <2>4, <2>5 DEF ModemWith
  <2>7. /\ t.need = m.need /\ t.callee = m.callee /\ t.calls = m.calls /\ t.pings = m.pings
        /\ t.mixed = m.mixed /\ t.wanted = m.wanted
        /\ t.told = m.told /\ t.reports = m.reports /\ t.passed = m.passed /\ t.forHost = rest
        /\ t.heard = m.heard /\ t.rig = m.rig /\ t.cat = m.cat /\ t.hostMode = m.hostMode /\ t.kiss = m.kiss
    BY <1>1, <2>4 DEF ModemWith
  <2>8. Kept(t)
    BY <1>1, <2>1, <2>3, <2>6, <2>7 DEF Kept, Agreed, Due
  <2>9. CheckForData(m) = Holding(t, "data", first, TRUE)
    BY <1>3, <2>1, <2>2, <2>4 DEF CheckForData
  <2>10. n - Len(rest) = n - Len(q) + Len(first)
    BY <2>1, <2>3
  <2>11. /\ Given(t) = [reports |-> Given(m).reports, data |-> n - Len(rest), cat |-> Given(m).cat]
         /\ Given(m).data = n - Len(q)
    BY <2>1, <2>7 DEF Given
  <2>12. PICK done : done = CheckForData(m)
    OBVIOUS
  <2>13. done.modem = t /\ done.kind = "data" /\ done.items = first /\ done.kept = TRUE
    BY <2>9, <2>12 DEF Holding
  <2>14. ASSUME NEW kind \in KINDS
         PROVE  /\ done.kind # kind => Given(done.modem)[kind] = Given(m)[kind]
                /\ done.kind = kind =>
                     /\ Given(done.modem)[kind] = Given(m)[kind] + Len(done.items)
                     /\ \A i \in 1 .. Len(done.items) : done.items[i] = Given(m)[kind] + i
    BY <2>3, <2>10, <2>11, <2>13 DEF KINDS
  <2>15. Handed(m, done)
    BY <2>3, <2>7, <2>8, <2>13, <2>14 DEF Handed, ReplyKinds, Truth
  <2> QED BY <2>12, <2>15
<1> QED BY <1>2, <1>3

\* and what the radio's CAT port said.
LEMMA RigHands ==
  ASSUME NEW m, Kept(m), NEW ask
  PROVE  Handed(m, RigFrame(m, ask))
<1>1. PICK k : k = m.kiss /\ m \in ModemWith(k) /\ Agreed(m) /\ Due(m)
  BY DEF Kept
<1>2. CASE ~ask.fetch
  BY <1>2, PlainHands, KeptRuns DEF RigFrame
<1>3. CASE ask.fetch
  <2>1. PICK n \in Int, q \in Seq(Nat) : n = m.heard - Len(m.rig) /\ q = m.cat /\ Numbered(q, n)
    <3>1. m.heard \in Nat /\ m.rig \in Seq(Nat) /\ m.cat \in Seq(Nat)
      BY <1>1 DEF ModemWith, Items
    <3>2. m.heard - Len(m.rig) \in Int
      BY <3>1
    <3> QED BY <1>1, <3>1, <3>2 DEF Due
  <2>2. PICK none \in Items : none = <<>>
    <3>1. <<>> \in Items
      BY DEF Items
    <3> QED BY <3>1
  <2>3. PICK t : t = [m EXCEPT !.cat = none]
    OBVIOUS
  <2>4. t \in ModemWith(k)
    BY <1>1, <2>2, <2>3 DEF ModemWith
  <2>5. /\ t.need = m.need /\ t.callee = m.callee /\ t.calls = m.calls /\ t.pings = m.pings
        /\ t.mixed = m.mixed /\ t.wanted = m.wanted
        /\ t.told = m.told /\ t.reports = m.reports /\ t.passed = m.passed /\ t.forHost = m.forHost
        /\ t.heard = m.heard /\ t.rig = m.rig /\ t.cat = none /\ t.hostMode = m.hostMode /\ t.kiss = m.kiss
    BY <1>1, <2>3 DEF ModemWith
  <2>6. Numbered(none, n) /\ Len(none) = 0
    BY <2>2 DEF Numbered
  <2>7. Kept(t)
    BY <1>1, <2>1, <2>4, <2>5, <2>6 DEF Kept, Agreed, Due
  <2>8. RigFrame(m, ask) = Holding(t, "cat", q, TRUE)
    BY <1>3, <2>1, <2>2, <2>3 DEF RigFrame
  <2>9. /\ Given(t) = [reports |-> Given(m).reports, data |-> Given(m).data, cat |-> n]
        /\ Given(m).cat = n - Len(q)
    BY <2>1, <2>5, <2>6 DEF Given
  <2>10. \A i \in 1 .. Len(q) : q[i] = n - Len(q) + i
    BY <2>1 DEF Numbered
  <2>11. PICK done : done = RigFrame(m, ask)
    OBVIOUS
  <2>12. done.modem = t /\ done.kind = "cat" /\ done.items = q /\ done.kept = TRUE
    BY <2>8, <2>11 DEF Holding
  <2>13. n = n - Len(q) + Len(q) /\ q \in Items
    BY <2>1 DEF Items
  <2>14. ASSUME NEW kind \in KINDS
         PROVE  /\ done.kind # kind => Given(done.modem)[kind] = Given(m)[kind]
                /\ done.kind = kind =>
                     /\ Given(done.modem)[kind] = Given(m)[kind] + Len(done.items)
                     /\ \A i \in 1 .. Len(done.items) : done.items[i] = Given(m)[kind] + i
    BY <2>9, <2>10, <2>12, <2>13 DEF KINDS
  <2>15. Handed(m, done)
    BY <2>5, <2>7, <2>12, <2>13, <2>14 DEF Handed, ReplyKinds, Truth
  <2> QED BY <2>11, <2>15
<1> QED BY <1>2, <1>3

\* What the radio said is taken for the host only when all of it has been handed over.
LEMMA ListGoes ==
  ASSUME NEW m, Kept(m)
  PROVE  Handed(m, ListOfChannels(m))
<1>1. PICK k : k = m.kiss /\ m \in ModemWith(k) /\ Agreed(m) /\ Due(m)
  BY DEF Kept
<1>2. CASE m.cat = <<>>
  <2>1. PICK n \in Nat, q \in Items : n = m.heard /\ q = m.rig /\ Numbered(q, n)
    BY <1>1 DEF ModemWith, Due
  <2>2. PICK none \in Items : none = <<>> /\ Len(none) = 0
    <3>1. <<>> \in Items
      BY DEF Items
    <3> QED BY <3>1
  <2>3. PICK t : t = [m EXCEPT !.cat = q, !.rig = none]
    OBVIOUS
  <2>4. t \in ModemWith(k)
    <3>1. m \in ModemWith(k)
      BY <1>1
    <3> QED BY <2>3, <3>1 DEF ModemWith
  <2>5. /\ t.need = m.need /\ t.callee = m.callee /\ t.calls = m.calls /\ t.pings = m.pings
        /\ t.mixed = m.mixed /\ t.wanted = m.wanted
        /\ t.told = m.told /\ t.reports = m.reports /\ t.passed = m.passed /\ t.forHost = m.forHost
        /\ t.heard = m.heard /\ t.rig = none /\ t.cat = q /\ t.hostMode = m.hostMode /\ t.kiss = m.kiss
    BY <1>1, <2>3 DEF ModemWith
  <2>6. Numbered(none, n) /\ n - Len(none) = n /\ n - Len(q) - Len(none) = n - Len(none) - Len(q)
    <3>1. Len(q) \in Nat
      BY DEF Items
    <3> QED BY <2>2, <3>1 DEF Numbered
  <2>7. Kept(t)
    BY <1>1, <2>1, <2>4, <2>5, <2>6 DEF Kept, Agreed, Due
  <2>8. Given(t) = Given(m)
    BY <1>2, <2>1, <2>2, <2>5, <2>6 DEF Given
  <2>9. Goes(m, t)
    BY <2>5, <2>7, <2>8 DEF Goes
  <2>10. ListOfChannels(m) = Plain(t, "list")
    BY <1>2, <2>1, <2>2, <2>3 DEF ListOfChannels
  <2> QED BY <2>9, <2>10, PlainHands
<1>3. CASE m.cat # <<>>
  BY <1>3, PlainHands, KeptRuns DEF ListOfChannels
<1> QED BY <1>2, <1>3

\* The answers that hold packets.
LEMMA PacketsHand ==
  ASSUME NEW m, NEW t, Goes(m, t)
  PROVE  Handed(m, Holding(t, "packets", <<>>, FALSE))
<1>1. <<>> \in Items /\ FALSE \in Truth
  BY DEF Items, Truth
<1> QED BY <1>1 DEF Goes, Handed, Holding, ReplyKinds, KINDS

\* A general poll hands nothing over.
LEMMA PollHands ==
  ASSUME NEW m, Kept(m)
  PROVE  Handed(m, GeneralPoll(m)) /\ \A chan : Handed(m, SpecificPoll(m, chan))
<1>1. Handed(m, PacketMonitor(m))
  <2>1. Goes(m, [m EXCEPT !.packets = 0])
    BY PacketsGo
  <2> QED BY <2>1, PacketsHand DEF PacketMonitor
<1>2. Handed(m, CheckKISS(m))
  <2>1. PICK k : k = [m.kiss EXCEPT !.acks = 0]
    OBVIOUS
  <2>2. Goes(m, [m EXCEPT !.kiss = k])
    BY PacketsGo
  <2>3. m = [m EXCEPT !.kiss = m.kiss] /\ [m EXCEPT !.kiss.acks = 0] = [m EXCEPT !.kiss = k]
    BY <2>1 DEF Kept, ModemWith
  <2> QED BY <2>2, <2>3, PacketsHand DEF CheckKISS
<1>3. Handed(m, GeneralPoll(m))
  BY <1>1, <1>2, ListGoes DEF GeneralPoll
<1>4. ASSUME NEW chan PROVE Handed(m, SpecificPoll(m, chan))
  BY ReportsHand, DataHands, PlainHands, KeptRuns DEF SpecificPoll
<1> QED BY <1>3, <1>4

\* Every request hands over, in one answer, what comes next of one kind.
LEMMA FrameHands ==
  ASSUME NEW m, Kept(m), NEW ask, IsRequest(ask)
  PROVE  Handed(m, ProcessSCSHostFrame(m, ask))
<1>1. m \in Run(m)
  BY KeptRuns
<1>2. \A kind \in {"ack", "reply", "list"} : Handed(m, Plain(m, kind))
  BY <1>1, PlainHands
<1>3. Handed(m, KissFrame(m, ask.bytes))
  <2>1. PICK k : k = ProcessKISSBytes(m.kiss, ask.bytes)
    OBVIOUS
  <2>2. Goes(m, [m EXCEPT !.kiss = k])
    BY PacketsGo
  <2> QED BY <2>1, <2>2, PlainHands DEF KissFrame
<1>4. ASSUME ask.chan \in {"command", "#"}
      PROVE  Handed(m, CommandFrame(m, ask.c)) /\ Handed(m, HashCommand(m, ask.c))
  <2>1. ProcessCommandFromHost(m, ask.c) \in Run(m)
    BY <1>1, <1>4, CommandRuns DEF IsRequest
  <2> QED BY <2>1, PlainHands DEF CommandFrame, HashCommand
<1>5. ASSUME ask.chan = "data" PROVE Handed(m, DataFrame(m, ask.item))
  <2>1. AddData(m, ask.item) \in Run(m)
    BY <1>1, <1>5, AddDataRuns DEF IsRequest
  <2> QED BY <2>1, PlainHands DEF DataFrame
<1>6. ASSUME NEW w PROVE Handed(m, Plain(ConnectTo(m, w), "ack"))
  <2>1. PICK t \in Run(m) : t = [m EXCEPT !.abort = FALSE]
    BY <1>1, Switches, ApartRuns DEF Truth
  <2>2. SetState(t, "ISS") \in Run(m)
    BY SetStateRuns DEF States, InSession
  <2>3. ConnectTo(m, w) \in Run(m)
    BY <1>1, <2>1, <2>2 DEF ConnectTo
  <2> QED BY <2>3, PlainHands
<1>7. Handed(m, Plain(HostDisconnect(m), "ack"))
  <2>1. [m EXCEPT !.disconnect = TRUE] \in Run(m)
    BY <1>1, Switches, ApartRuns DEF Truth
  <2> QED BY <1>1, <2>1, PlainHands DEF HostDisconnect
<1>8. /\ Handed(m, StatusPoll(m)) /\ Handed(m, LinkStatus(m)) /\ Handed(m, PercentCommand(m))
      /\ Handed(m, FreeBytes(m))
  BY <1>2 DEF StatusPoll, LinkStatus, PercentCommand, FreeBytes
<1>9. Handed(m, RigFrame(m, ask)) /\ Handed(m, GeneralPoll(m)) /\ Handed(m, SpecificPoll(m, ask.of))
  BY RigHands, PollHands
<1>10. PICK done : done = ProcessSCSHostFrame(m, ask)
  OBVIOUS
<1>11. /\ ask.chan = "poll" => done = GeneralPoll(m)
       /\ ask.chan = "status" => done = StatusPoll(m)
       /\ ask.chan = "rig" => done = RigFrame(m, ask)
       /\ ask.chan = "kiss" => done = KissFrame(m, ask.bytes)
       /\ ask.chan = "command" => done = CommandFrame(m, ask.c)
       /\ ask.chan = "data" => done = DataFrame(m, ask.item)
       /\ ask.chan = "G" => done = SpecificPoll(m, ask.of)
       /\ ask.chan = "L" => done = LinkStatus(m)
       /\ ask.chan = "%" => done = PercentCommand(m)
       /\ ask.chan = "@" => done = FreeBytes(m)
       /\ ask.chan = "C" => done = Plain(ConnectTo(m, ask.w), "ack")
       /\ ask.chan = "D" => done = Plain(HostDisconnect(m), "ack")
       /\ ask.chan = "#" => done = HashCommand(m, ask.c)
  BY <1>10 DEF ProcessSCSHostFrame
<1> HIDE DEF Handed
<1>12. Handed(m, done)
  BY <1>3, <1>4, <1>5, <1>6, <1>7, <1>8, <1>9, <1>11 DEF IsRequest
<1> QED BY <1>10, <1>12

-----------------------------------------------------------------------------
(* The serial line: what is under way, and what the two ends know of it.   *)

UpTo0(n) == [i \in 1 .. n |-> i]
Frames == {Frame(k) : k \in 1 .. Len(script.asks)}
Sayings == {TEXT} \cup {Text(script.text[i]) : i \in 1 .. Len(script.text)}
SaidPieces == IF mode = "serial" THEN [frame : Frames \cup Sayings, half : {1, 2}] ELSE {}
AnyReply ==
  [id : Nat \ {0}, toggle : Truth, kind : ReplyKinds, items : Items, kept : Truth, whole : Truth]
\* The modem's end of the line, with what it answered last.
LineWith(P, last) ==
  [toggle : Truth, buf : Seq(P), last : {last}, connecting : Seq(Nat \ {0}), ran : Items, crossed : Truth]
HostEnd ==
  [said : Nat, asked : Nat, waiting : Truth, enters : Truth, answers : Items,
   reports : Items, data : Items, cat : Items, damaged : Truth]

ScriptTyped ==
  \/ mode = "serial" /\ script \in SerialScripts
  \/ mode = "tcp" /\ script \in TcpScripts
SerialTyped ==
  /\ host \in HostEnd /\ (host.waiting => host.asked # 0)
  /\ line \in LineWith(SaidPieces, line.last) /\ (line.last = NoReply \/ line.last \in AnyReply)
  /\ up \in Seq(SaidPieces) /\ down \in Seq(AnyReply)
  /\ host.asked # 0 => mode = "serial" /\ host.asked <= Len(script.asks)

\* How many requests the modem has answered: not that whose call plays.
Answered == IF line.connecting = <<>> THEN Len(line.ran) ELSE Len(line.ran) - 1
\* The host makes one request at a time, and the modem has done those that were answered.
InTurn ==
  /\ host.answers = UpTo0(Len(host.answers)) /\ line.ran = UpTo0(Len(line.ran))
  /\ line.connecting \in {<<>>, <<Len(line.ran)>>} /\ (line.connecting # <<>> => Len(line.ran) # 0)
  /\ Len(host.answers) <= Answered /\ Len(line.ran) <= host.asked
  /\ host.asked = IF host.waiting THEN Len(host.answers) + 1 ELSE Len(host.answers)
  /\ line.toggle = Toggle(Len(line.ran))
  /\ ~modem.hostMode => Len(line.ran) = 0

\* What is on its way to the modem: the request it did last, and then the one it is asked now.
Coming(q, r, a) ==
  \A i \in 1 .. Len(q) : /\ q[i].frame.id \in {0, r, a}
                         /\ \A j \in i .. Len(q) : q[j].frame.id = 0 \/ q[i].frame.id <= q[j].frame.id

\* What is on its way to the host: answers to the last requests, in order.
Returning(q, n, r, last) ==
  \A i \in 1 .. Len(q) :
    /\ n <= q[i].id /\ q[i].id <= r /\ q[i].toggle = Toggle(q[i].id)
    /\ q[i].id = r => q[i].kind = last.kind /\ q[i].items = last.items
    /\ \A j \in i .. Len(q) : q[i].id <= q[j].id
LastReply ==
  IF Answered = 0 THEN line.last = NoReply ELSE line.last \in AnyReply /\ line.last.id = Answered

\* What the host has is what was handed over, but for what the last answer holds.
Got == [reports |-> Len(host.reports), data |-> Len(host.data), cat |-> Len(host.cat)]
LastGiven(kind) ==
  IF Len(host.answers) < Answered /\ line.last.kind = kind THEN Len(line.last.items) ELSE 0
Delivered ==
  /\ host.reports = UpTo0(Len(host.reports)) /\ host.data = UpTo0(Len(host.data))
  /\ host.cat = UpTo0(Len(host.cat))
  /\ \A kind \in KINDS :
       /\ Given(modem)[kind] = Got[kind] + LastGiven(kind)
       /\ \A i \in 1 .. LastGiven(kind) : line.last.items[i] = Got[kind] + i

LinkInv ==
  /\ ScriptTyped /\ SerialTyped /\ InTurn /\ Coming(line.buf \o up, Len(line.ran), host.asked)
  /\ Returning(down, Len(host.answers), Answered, line.last) /\ LastReply /\ Delivered
  /\ ~line.crossed
\* All that is left of it when a repeat has crossed a call.
Astray == ScriptTyped /\ SerialTyped /\ line.crossed /\ modem.hostMode

-----------------------------------------------------------------------------
(* What else moves the modem: the radio, and what is sent.                 *)

\* One step after another.
LEMMA GoesOn ==
  ASSUME NEW m, NEW t, NEW u, Goes(m, t), Goes(t, u)
  PROVE  Goes(m, u)
BY DEF Goes

\* Over TCP the packet monitor goes out as well.
LEMMA BecomeGoes ==
  ASSUME Kept(modem), NEW m, m \in Run(modem) \/ Goes(modem, m), Become(m)
  PROVE  Goes(modem, modem')
<1>1. Goes(modem, m)
  BY KeptRuns DEF Goes
<1>2. Goes(m, [m EXCEPT !.packets = 0])
  BY <1>1, PacketsGo DEF Goes
<1>3. modem' = m \/ modem' = [m EXCEPT !.packets = 0]
  BY DEF Become, CheckForPktMon
<1> QED BY <1>1, <1>2, <1>3, GoesOn

\* The connections: a packet that is lost, and the end of the session.
LEMMA LostGoes ==
  ASSUME NEW m, Kept(m)
  PROVE  Goes(m, PacketLost(m)) /\ LostHost(m) \in Run(m)
<1>1. PICK k : k = [m.kiss EXCEPT !.spoiled = @ \/ m.kiss.open # <<>>]
  OBVIOUS
<1>2. Goes(m, [m EXCEPT !.kiss = k])
  BY PacketsGo
<1>3. PacketLost(m) = [m EXCEPT !.kiss = k]
  BY <1>1 DEF PacketLost, Kept, ModemWith
<1>4. m \in Run(m) /\ [m EXCEPT !.disconnect = TRUE] \in Run(m)
  BY KeptRuns, Switches, ApartRuns DEF Truth
<1> QED BY <1>2, <1>3, <1>4 DEF LostHost

\* What arrives for the host is numbered on.
LEMMA ArrivedGoes ==
  ASSUME NEW m, Kept(m)
  PROVE  /\ Goes(m, [m EXCEPT !.forHost = Append(m.forHost, m.passed + 1), !.passed = m.passed + 1])
         /\ Goes(m, [m EXCEPT !.rig = Append(m.rig, m.heard + 1), !.heard = m.heard + 1])
<1>1. PICK k : k = m.kiss /\ m \in ModemWith(k) /\ Agreed(m) /\ Due(m)
  BY DEF Kept
<1>2. ASSUME NEW t, t = [m EXCEPT !.forHost = Append(m.forHost, m.passed + 1), !.passed = m.passed + 1]
      PROVE  Goes(m, t)
  <2>1. PICK n \in Nat, q \in Seq(Nat), r \in Seq(Nat) :
          n = m.passed /\ q = m.forHost /\ r = Append(q, n + 1) /\ Numbered(q, n)
    <3>1. m.passed \in Nat /\ m.forHost \in Seq(Nat)
      BY <1>1 DEF ModemWith, Items
    <3>2. Append(m.forHost, m.passed + 1) \in Seq(Nat)
      BY <3>1
    <3> QED BY <1>1, <3>1, <3>2 DEF Due
  <2>2. n + 1 \in Nat /\ Numbered(r, n + 1) /\ n + 1 - Len(r) = n - Len(q) /\ r \in Items
    BY <2>1, NextNumber DEF Items
  <2>3. PICK l \in Nat : l = n + 1
    BY <2>2
  <2>4. t = [m EXCEPT !.forHost = r, !.passed = l]
    BY <1>2, <2>1, <2>3
  <2>5. t \in ModemWith(k)
    <3>1. m \in ModemWith(k) /\ r \in Items
      BY <1>1, <2>2
    <3> QED BY <2>4, <3>1 DEF ModemWith
  <2>6. /\ t.need = m.need /\ t.callee = m.callee /\ t.calls = m.calls /\ t.pings = m.pings
        /\ t.mixed = m.mixed /\ t.wanted = m.wanted
        /\ t.told = m.told /\ t.reports = m.reports /\ t.passed = l /\ t.forHost = r
        /\ t.heard = m.heard /\ t.rig = m.rig /\ t.cat = m.cat /\ t.hostMode = m.hostMode /\ t.kiss = k
    BY <1>1, <2>4 DEF ModemWith
  <2>7. Kept(t)
    BY <1>1, <2>2, <2>3, <2>5, <2>6 DEF Kept, Agreed, Due
  <2>8. Given(t) = Given(m)
    <3>1. l - Len(r) = n - Len(q)
      BY <2>2, <2>3
    <3> QED BY <2>1, <2>6, <3>1 DEF Given
  <2> QED BY <2>6, <2>7, <2>8 DEF Goes
<1>3. ASSUME NEW t, t = [m EXCEPT !.rig = Append(m.rig, m.heard + 1), !.heard = m.heard + 1]
      PROVE  Goes(m, t)
  <2>1. PICK n \in Nat, q \in Seq(Nat), r \in Seq(Nat) :
          n = m.heard /\ q = m.rig /\ r = Append(q, n + 1) /\ Numbered(q, n)
    <3>1. m.heard \in Nat /\ m.rig \in Seq(Nat)
      BY <1>1 DEF ModemWith, Items
    <3>2. Append(m.rig, m.heard + 1) \in Seq(Nat)
      BY <3>1
    <3> QED BY <1>1, <3>1, <3>2 DEF Due
  <2>2. n + 1 \in Nat /\ Numbered(r, n + 1) /\ n + 1 - Len(r) = n - Len(q) /\ r \in Items
    BY <2>1, NextNumber DEF Items
  <2>3. PICK l \in Nat : l = n + 1
    BY <2>2
  <2>4. t = [m EXCEPT !.rig = r, !.heard = l]
    BY <1>3, <2>1, <2>3
  <2>5. t \in ModemWith(k)
    <3>1. m \in ModemWith(k) /\ r \in Items
      BY <1>1, <2>2
    <3> QED BY <2>4, <3>1 DEF ModemWith
  <2>6. /\ t.need = m.need /\ t.callee = m.callee /\ t.calls = m.calls /\ t.pings = m.pings
        /\ t.mixed = m.mixed /\ t.wanted = m.wanted
        /\ t.told = m.told /\ t.reports = m.reports /\ t.passed = m.passed /\ t.forHost = m.forHost
        /\ t.heard = l /\ t.rig = r /\ t.cat = m.cat /\ t.hostMode = m.hostMode /\ t.kiss = k
    BY <1>1, <2>4 DEF ModemWith
  <2>7. Numbered(m.cat, l - Len(r))
    BY <1>1, <2>1, <2>2, <2>3 DEF Due
  <2>8. Kept(t)
    BY <1>1, <2>2, <2>3, <2>5, <2>6, <2>7 DEF Kept, Agreed, Due
  <2>9. t.heard - Len(t.rig) = m.heard - Len(m.rig)
    <3>1. l - Len(r) = n - Len(q)
      BY <2>2, <2>3
    <3> QED BY <2>1, <2>6, <3>1
  <2>10. Given(t) = Given(m)
    BY <2>6, <2>9 DEF Given
  <2> QED BY <2>6, <2>8, <2>10 DEF Goes
<1> QED BY <1>2, <1>3

\* A call or a ping that is sent waits no more.
LEMMA LessRuns ==
  ASSUME NEW m0, NEW m \in Run(m0), NEW kind
  PROVE  [m EXCEPT !.need = m.need \ {kind}] \in Run(m0)
<1>1. PICK t : t = [m EXCEPT !.need = m.need \ {kind}]
  OBVIOUS
<1>2. m \in ModemWith(m0.kiss) /\ Agreed(m) /\ Due(m) /\ Given(m) = Given(m0) /\ m.hostMode = m0.hostMode
  BY DEF Run
<1>3. m.need \ {kind} \in NeedSets
  BY <1>2 DEF ModemWith, NeedSets
<1>4. t \in ModemWith(m0.kiss)
  BY <1>1, <1>2, <1>3 DEF ModemWith
<1>5. /\ t.need = m.need \ {kind} /\ t.callee = m.callee /\ t.calls = m.calls
      /\ t.pings = m.pings /\ t.mixed = m.mixed /\ t.wanted = m.wanted
      /\ t.told = m.told /\ t.reports = m.reports /\ t.passed = m.passed /\ t.forHost = m.forHost
      /\ t.heard = m.heard /\ t.rig = m.rig /\ t.cat = m.cat /\ t.hostMode = m.hostMode
  BY <1>1, <1>2 DEF ModemWith
<1>6. Agreed(t) /\ Due(t) /\ Given(t) = Given(m)
  BY <1>2, <1>5 DEF Agreed, Due, Given
<1> QED BY <1>1, <1>2, <1>4, <1>5, <1>6 DEF Run

\* The beginning and the end of what is sent.
LEMMA TransmissionsRun ==
  ASSUME NEW m0, NEW m \in Run(m0), NEW kind
  PROVE  Begin(m, kind) \in Run(m0) /\ Finish(m, kind) \in Run(m0)
<1>1. PICK t \in Run(m0) : t = [m EXCEPT !.need = m.need \ {kind}]
  BY LessRuns
<1>2. PICK no \in Truth : no = FALSE
  BY DEF Truth
<1>3. [t EXCEPT !.abort = no] \in Run(m0) /\ [m EXCEPT !.abort = no] \in Run(m0)
  BY Switches, ApartRuns
<1>4. [m EXCEPT !.need = m.need \ {kind}, !.abort = no] = [t EXCEPT !.abort = no]
  BY <1>1 DEF Run, ModemWith
<1>5. SetState([m EXCEPT !.need = m.need \ {kind}, !.abort = no], "ISS") \in Run(m0)
  BY <1>3, <1>4, SetStateRuns DEF States, InSession
<1>6. Begin(m, kind) \in {m, t, SetState([m EXCEPT !.need = m.need \ {kind}, !.abort = no], "ISS")}
  BY <1>1, <1>2 DEF Begin
<1>7. Finish(m, kind) \in {m, t, [m EXCEPT !.abort = no]}
  BY <1>1, <1>2 DEF Finish
<1> QED BY <1>1, <1>3, <1>5, <1>6, <1>7

\* What is sent as packets is apart from the session.
LEMMA PacketsNext ==
  ASSUME NEW m, Kept(m)
  PROVE  Goes(m, NextPacket(m).modem)
<1>1. PICK next, first : NextPacket(m) =
        LET taken == [m EXCEPT !.kiss = next.kiss,
                               !.choice.MODE = IF SetsMode(first.body) THEN SessionMode ELSE @]
        IN IF next.body = <<>> THEN [modem |-> taken, playing |-> "none"]
           ELSE [modem |-> [taken EXCEPT
                              !.kiss.aired = Append(@, next.body),
                              !.packets = IF TypeOf(next.body) = "data" THEN 1 ELSE @],
                 playing |-> "Packet"]
  BY DEF NextPacket
<1>2. PICK t : t = [m EXCEPT !.kiss = next.kiss]
  OBVIOUS
<1>3. Goes(m, t) /\ t \in Run(t)
  BY <1>2, PacketsGo, KeptRuns DEF Goes
<1>4. PICK u : u = IF SetsMode(first.body) THEN [t EXCEPT !.choice.MODE = SessionMode] ELSE t
  OBVIOUS
<1>5. Goes(t, u)
  <2>1. "MODE" \in DOMAIN Options /\ SessionMode \in Options["MODE"]
    BY DEF Options, SessionMode
  <2>2. u \in Run(t)
    BY <1>3, <1>4, <2>1, ChoiceSet
  <2> QED BY <2>2, KeptRuns DEF Goes
<1>6. [m EXCEPT !.kiss = next.kiss, !.choice.MODE = IF SetsMode(first.body) THEN SessionMode ELSE @] = u
  <2>1. m.choice \in [DOMAIN Options -> AnyOption] /\ m = [m EXCEPT !.kiss = m.kiss]
    BY DEF Kept, ModemWith, Chosen
  <2>2. CASE SetsMode(first.body)
    BY <1>2, <1>4, <2>1, <2>2
  <2>3. CASE ~SetsMode(first.body)
    <3>1. u = t /\ [m.choice EXCEPT !.MODE = m.choice.MODE] = m.choice
      BY <1>4, <2>1, <2>3
    <3>2. m.choice = t.choice
      BY <1>2, <2>1
    <3>3. [t EXCEPT !.choice = t.choice] = t
      BY <1>3 DEF Goes, Kept, ModemWith
    <3>4. [m EXCEPT !.kiss = next.kiss, !.choice = m.choice] = t
      BY <1>2, <3>2, <3>3, <2>1
    <3> QED BY <2>1, <2>3, <3>1, <3>4
  <2> QED BY <2>2, <2>3
<1>7. PICK k : k = [u.kiss EXCEPT !.aired = Append(@, next.body)]
  OBVIOUS
<1>8. PICK v : v = [u EXCEPT !.kiss = k]
  OBVIOUS
<1>9. Goes(u, v)
  BY <1>5, <1>8, PacketsGo DEF Goes
<1>10. PICK w : w = IF TypeOf(next.body) = "data" THEN [v EXCEPT !.packets = 1] ELSE v
  OBVIOUS
<1>11. Goes(v, w)
  BY <1>9, <1>10, PacketsGo DEF Goes
<1>12. [u EXCEPT !.kiss.aired = Append(@, next.body),
                 !.packets = IF TypeOf(next.body) = "data" THEN 1 ELSE @] = w
  BY <1>5, <1>7, <1>8, <1>10 DEF Goes, Kept, ModemWith
<1>13. NextPacket(m).modem \in {u, w}
  <2>1. CASE next.body = <<>>
    <3>1. NextPacket(m) = [modem |-> u, playing |-> "none"]
      BY <1>1, <1>6, <2>1
    <3> QED BY <3>1
  <2>2. CASE next.body # <<>>
    <3>1. NextPacket(m) = [modem |-> w, playing |-> "Packet"]
      BY <1>1, <1>6, <1>12, <2>2
    <3> QED BY <3>1
  <2> QED BY <2>1, <2>2
<1> QED BY <1>3, <1>5, <1>9, <1>11, <1>13, GoesOn

\* Packets, with what the sessions put.
LEMMA SendPacketsGo ==
  ASSUME Kept(modem), NEW m, Goes(modem, m), NEW puts, SendPackets(m, puts)
  PROVE  Goes(modem, modem')
<1>1. PICK k : k = Sessions(m.kiss, puts)
  OBVIOUS
<1>2. PICK t : t = [m EXCEPT !.kiss = k]
  OBVIOUS
<1>3. Goes(m, t)
  BY <1>2, PacketsGo DEF Goes
<1>4. Goes(t, NextPacket(t).modem)
  BY <1>3, PacketsNext DEF Goes
<1>5. Become(NextPacket(t).modem)
  BY <1>1, <1>2 DEF SendPackets
<1>6. Goes(modem, NextPacket(t).modem)
  BY <1>3, <1>4, GoesOn
<1> QED BY <1>5, <1>6, BecomeGoes

-----------------------------------------------------------------------------
(* The connections over TCP.                                               *)

\* A connection whose pieces are of this set.
Connection(P) ==
  [up : Truth, said : Nat, wire : Seq(P), eof : Truth, buf : Seq(P), cuts : Nat, ran : Items]
\* The pieces of what a host says that has typed its commands.
AreNumbered(P) == \A p \in P : p.id \in Nat
AreSaid(P) == AreNumbered(P) /\ \A p \in P : IsHostCommand(p.what)

\* A connection that is accepted or closed.
LEMMA CutsStay ==
  ASSUME NEW P, NEW t \in Connection(P)
  PROVE  AcceptSock(t) \in Connection(P) /\ CloseSock(t) \in Connection(P)
<1>1. PICK none \in Seq(P) : none = <<>>
  <2>1. <<>> \in Seq(P)
    OBVIOUS
  <2> QED BY <2>1
<1>2. PICK yes \in Truth, no \in Truth : yes = TRUE /\ no = FALSE
  BY DEF Truth
<1>3. PICK n \in Nat : n = IF t.buf = <<>> THEN t.cuts ELSE t.cuts + 1
  BY DEF Connection
<1>4. PICK u : u = [t EXCEPT !.cuts = n, !.wire = none, !.eof = no]
  OBVIOUS
<1>5. u \in Connection(P)
  BY <1>4 DEF Connection
<1>6. CutOff(t) = u
  BY <1>1, <1>2, <1>3, <1>4 DEF CutOff
<1>7. [u EXCEPT !.up = yes] \in Connection(P) /\ [u EXCEPT !.up = no] \in Connection(P)
  BY <1>5 DEF Connection
<1> QED BY <1>2, <1>6, <1>7 DEF AcceptSock, CloseSock

\* What has been received, and what remains on its way.
LEMMA ReceivedIs ==
  ASSUME NEW P, NEW t \in Connection(P), NEW n \in 1 .. Len(t.wire)
  PROVE  /\ Received(t, n) \in Seq(P)
         /\ SubSeq(t.wire, n + 1, Len(t.wire)) \in Seq(P)
<1>1. t.wire \in Seq(P) /\ t.buf \in Seq(P) /\ n \in 0 .. Len(t.wire)
  BY DEF Connection
<1>2. SubSeq(t.wire, 1, n) \in Seq(P) /\ SubSeq(t.wire, n + 1, Len(t.wire)) \in Seq(P)
  BY <1>1, Slice
<1> QED BY <1>1, <1>2 DEF Received

\* A line of a connection is one that its host said.
LEMMA LineIs ==
  ASSUME NEW P, NEW buf \in Seq(P), NEW k \in Ends(buf)
  PROVE  LineTo(buf, k)[1] \in P
<1> DEFINE before == {i \in Ends(buf) \cup {0} : i < k}
<1>1. k \in 1 .. Len(buf)
  BY DEF Ends
<1>2. PICK j : j = Max(before)
  OBVIOUS
<1>3. j \in 0 .. k - 1
  <2>1. before \in SUBSET (0 .. Len(buf)) /\ 0 \in before
    BY <1>1 DEF Ends
  <2>2. \A i \in before : i < k
    OBVIOUS
  <2> HIDE DEF before
  <2>3. Len(buf) \in Nat /\ before # {}
    BY <2>1
  <2>4. Max(before) \in before
    BY <2>1, <2>3, MaxIn
  <2>5. j \in 0 .. Len(buf) /\ j < k
    BY <1>2, <2>1, <2>2, <2>4
  <2>6. j \in Int /\ k \in Int /\ 0 <= j
    BY <1>1, <2>5
  <2> QED BY <2>5, <2>6
<1>4. PICK pieces : pieces = SubSeq(buf, j + 1, k)
  OBVIOUS
<1>5. pieces[1] = buf[j + 1] /\ j + 1 \in 1 .. k /\ buf[j + 1] \in P
  BY <1>1, <1>3, <1>4
<1> QED BY <1>2, <1>4, <1>5 DEF LineTo

\* The lines are run one after the other.
LEMMA LinesRun ==
  ASSUME NEW m, Kept(m), NEW P, AreSaid(P), NEW t \in Connection(P), NEW n \in 1 .. Len(t.wire)
  PROVE  /\ ProcessControl(m, t, n).modem \in Run(m)
         /\ ProcessControl(m, t, n).conn \in Connection(P)
<1> DEFINE buf == Received(t, n)
<1>0. buf \in Seq(P)
  BY ReceivedIs
<1>1. PICK rest \in Seq(P) : rest = SubSeq(t.wire, n + 1, Len(t.wire))
  BY ReceivedIs
<1> HIDE DEF buf
<1> DEFINE l == Len(buf)
           places == Places(l)
           S == [modem : Run(m), ran : Items]
           start == [modem |-> m, ran |-> t.ran]
           Keep(x, k) == IF k \in Lines(buf) THEN RunLine(x, LineTo(buf, k)) ELSE x
           Is(it) == it = [s \in SUBSET (DOMAIN places) |->
                             IF s = {} THEN start ELSE Keep(it[s \ {Max(s)}], places[Max(s)])]
           f == [p \in S \X (1 .. l) |-> Keep(p[1], places[p[2]])]
<1>2. l \in Nat /\ start \in S /\ DOMAIN places = 1 .. l
  BY <1>0, KeptRuns DEF Connection, Places
<1>3. ASSUME NEW x \in S, NEW i \in 1 .. l PROVE Keep(x, places[i]) \in S
  <2>1. places[i] = i
    BY DEF Places
  <2>2. CASE i \in Lines(buf)
    <3>1. PICK pieces : pieces = LineTo(buf, i)
      OBVIOUS
    <3>2. i \in Ends(buf)
      BY <2>2 DEF Lines
    <3>3. pieces[1] \in P
      BY <1>0, <3>1, <3>2, LineIs
    <3>4. IsHostCommand(pieces[1].what) /\ pieces[1].id \in Nat
      BY <3>3 DEF AreSaid, AreNumbered
    <3>5. x.modem \in Run(m) /\ x.ran \in Seq(Nat)
      BY DEF Items
    <3>6. ProcessCommandFromHost(x.modem, pieces[1].what) \in Run(m) /\ Fault(x.modem) \in Run(m)
      BY <3>4, <3>5, CommandRuns, AnswerRuns DEF Fault, Replies
    <3>7. Append(x.ran, pieces[1].id) \in Items /\ Append(x.ran, 0) \in Items
      BY <3>4, <3>5 DEF Items
    <3>8. RunLine(x, pieces) \in S
      BY <3>6, <3>7 DEF RunLine
    <3> QED BY <2>1, <2>2, <3>1, <3>8
  <2>3. CASE i \notin Lines(buf)
    BY <2>1, <2>3
  <2> QED BY <2>2, <2>3
<1>4. f \in [S \X (1 .. l) -> S]
  <2> HIDE DEF S, l, Keep, places
  <2> QED BY <1>3
<1>5. \E it : Is(it)
  <2> HIDE DEF S, l, start
  <2>1. PICK it \in [SUBSET (1 .. l) -> S] : Folds(it, l, f, start)
    <3> HIDE DEF f
    <3> QED BY <1>2, <1>4, FoldExists
  <2> HIDE DEF places, Keep
  <2>2. ASSUME NEW s \in SUBSET (1 .. l), s # {}
        PROVE  f[<<it[s \ {Max(s)}], Max(s)>>] = Keep(it[s \ {Max(s)}], places[Max(s)])
    <3>1. s \in SUBSET (0 .. l)
      OBVIOUS
    <3>2. Max(s) \in 1 .. l /\ it[s \ {Max(s)}] \in S
      BY <1>2, <2>2, <3>1, MaxIn
    <3> QED BY <3>2
  <2> HIDE DEF f
  <2>3. it = [s \in SUBSET (1 .. l) |-> IF s = {} THEN start ELSE Keep(it[s \ {Max(s)}], places[Max(s)])]
    BY <2>1, <2>2 DEF Folds
  <2> QED BY <1>2, <2>3
<1>6. PICK it : it = (CHOOSE fold : Is(fold))
  OBVIOUS
<1>7. Is(it)
  <2> HIDE DEF Is
  <2> QED BY <1>5, <1>6
<1>8. it[1 .. l] \in S
  <2> HIDE DEF S, l, places, Keep, start
  <2>1. it[{}] \in S
    BY <1>2, <1>7
  <2>2. ASSUME NEW s \in SUBSET (1 .. l), s # {}, it[s \ {Max(s)}] \in S PROVE it[s] \in S
    <3>1. s \in SUBSET (0 .. l)
      OBVIOUS
    <3>2. Max(s) \in 1 .. l
      BY <1>2, <2>2, <3>1, MaxIn
    <3>3. it[s] = Keep(it[s \ {Max(s)}], places[Max(s)])
      BY <1>2, <1>7, <2>2
    <3> QED BY <1>3, <2>2, <3>2, <3>3
  <2> QED BY <1>2, <2>1, <2>2, FoldStays
<1>9. PICK done : done = FoldLeft(LAMBDA x, k : IF k \in Lines(buf) THEN RunLine(x, LineTo(buf, k)) ELSE x,
                                  [modem |-> m, ran |-> t.ran], places)
  OBVIOUS
<1>10. done = (CHOOSE it_1 : Is(it_1))[DOMAIN places]
  BY <1>9 DEF FoldLeft, MapThenFoldSet
<1>11. done.modem \in Run(m) /\ done.ran \in Items
  BY <1>2, <1>6, <1>8, <1>10
<1>12. PICK left \in Seq(P) : left = SubSeq(buf, Max({0} \cup (Lines(buf) \cap Range(places))) + 1, Len(buf))
  <2>1. PICK s : s = {0} \cup (Lines(buf) \cap Range(places))
    OBVIOUS
  <2>2. s \in SUBSET (0 .. l) /\ s # {}
    BY <2>1 DEF Lines, Ends
  <2>3. Max(s) \in 0 .. l
    BY <1>2, <2>2, MaxIn
  <2>4. PICK j \in 0 .. Len(buf) : j = Max(s)
    BY <2>3
  <2>5. SubSeq(buf, j + 1, Len(buf)) \in Seq(P)
    BY <1>0, Slice
  <2> QED BY <2>1, <2>4, <2>5
<1>13. ProcessControl(m, t, n) =
         [modem |-> done.modem, conn |-> [t EXCEPT !.wire = rest, !.ran = done.ran, !.buf = left]]
  BY <1>1, <1>9, <1>12 DEF ProcessControl, RunLines, buf
<1>14. [t EXCEPT !.wire = rest, !.ran = done.ran, !.buf = left] \in Connection(P)
  BY <1>1, <1>11, <1>12 DEF Connection
<1> QED BY <1>11, <1>13, <1>14

\* Blocks that begin where a block begins,
LEMMA InStepIs ==
  ASSUME NEW P, NEW q \in Seq(P)
  PROVE  InStep(q) \in 0 .. Len(q)
<1> DEFINE s == {n \in 0 .. Len(q) : /\ n % 2 = 0 /\ \A i \in 1 .. n : i % 2 = 1 => q[i].half = 1}
<1>1. Len(q) \in Nat /\ s \in SUBSET (0 .. Len(q)) /\ 0 \in s
  OBVIOUS
<1> HIDE DEF s
<1>2. s # {}
  BY <1>1
<1>3. Max(s) \in s
  BY <1>1, <1>2, MaxIn
<1> QED BY <1>1, <1>3 DEF InStep, s

\* and what is read of them.
LEMMA BlocksAre ==
  ASSUME NEW P, AreNumbered(P), NEW q \in Seq(P)
  PROVE  Blocks(q) \in Seq(Nat)
<1>1. PICK l \in Nat : l = Len(q)
  OBVIOUS
<1>2. PICK h \in Nat : h = l \div 2 /\ 2 * h <= l
  BY <1>1
<1>3. ASSUME NEW i \in 1 .. h
      PROVE  (LET pair == SubSeq(q, 2 * i - 1, 2 * i) IN IF IsEntire(pair) THEN pair[1].id ELSE 0) \in Nat
  <2>1. PICK j \in 1 .. l : j = 2 * i - 1 /\ 2 * i \in Int /\ j <= 2 * i
    BY <1>2
  <2>2. PICK pair : pair = SubSeq(q, j, 2 * i)
    OBVIOUS
  <2>3. pair[1] = q[j] /\ q[j] \in P
    BY <1>1, <2>1, <2>2
  <2>4. pair[1].id \in Nat
    BY <2>3 DEF AreNumbered
  <2> QED BY <2>1, <2>2, <2>4
<1>4. Blocks(q) = [i \in 1 .. h |->
                     LET pair == SubSeq(q, 2 * i - 1, 2 * i) IN IF IsEntire(pair) THEN pair[1].id ELSE 0]
  BY <1>1, <1>2 DEF Blocks
<1>5. Blocks(q) \in [1 .. h -> Nat]
  BY <1>3, <1>4
<1> QED BY <1>5

\* However the bytes pass for blocks, what is left of them is some of what was received.
LEMMA ReadIs ==
  ASSUME NEW P, AreNumbered(P), NEW buf \in Seq(P), NEW read \in ReadBlocks(buf)
  PROVE  read.ids \in Seq(Nat) /\ read.buf \in Seq(P)
<1>1. PICK n \in 0 .. Len(buf) : n = InStep(buf)
  BY InStepIs
<1>2. PICK rest \in Seq(P) : rest = SubSeq(buf, n + 1, Len(buf))
  BY Slice
<1>3. PICK first \in Seq(Nat) : first = Blocks(SubSeq(buf, 1, n))
  <2>1. SubSeq(buf, 1, n) \in Seq(P)
    BY Slice
  <2> QED BY <2>1, BlocksAre
<1>4. CASE rest = <<>> \/ rest[1].half = 1
  <2>1. read = [ids |-> first, buf |-> rest]
    BY <1>1, <1>2, <1>3, <1>4 DEF ReadBlocks
  <2> QED BY <2>1
<1>5. CASE ~(rest = <<>> \/ rest[1].half = 1)
  <2>1. PICK p \in (0 .. Len(rest)) \X (0 .. Len(rest)) :
          read = LET again == SubSeq(rest, p[1] + 1, Len(rest))
                     m == IF p[1] = 0 THEN 0 ELSE InStep(again)
                 IN [ids |-> first \o Zeros(p[2]) \o Blocks(SubSeq(again, 1, m)),
                     buf |-> SubSeq(again, m + 1, Len(again))]
    BY <1>1, <1>2, <1>3, <1>5 DEF ReadBlocks
  <2>2. PICK i \in 0 .. Len(rest), j \in 0 .. Len(rest) : i = p[1] /\ j = p[2]
    OBVIOUS
  <2>3. PICK again \in Seq(P) : again = SubSeq(rest, i + 1, Len(rest))
    BY Slice
  <2>4. PICK m \in 0 .. Len(again) : m = IF i = 0 THEN 0 ELSE InStep(again)
    BY InStepIs
  <2>5. SubSeq(again, 1, m) \in Seq(P) /\ SubSeq(again, m + 1, Len(again)) \in Seq(P)
    BY Slice
  <2>6. Blocks(SubSeq(again, 1, m)) \in Seq(Nat)
    BY <2>5, BlocksAre
  <2>7. Zeros(j) \in Seq(Nat)
    <3>1. j \in Nat
      OBVIOUS
    <3> QED BY <3>1 DEF Zeros
  <2>8. first \o Zeros(j) \o Blocks(SubSeq(again, 1, m)) \in Seq(Nat)
    BY <2>6, <2>7
  <2>9. read = [ids |-> first \o Zeros(j) \o Blocks(SubSeq(again, 1, m)),
                buf |-> SubSeq(again, m + 1, Len(again))]
    BY <2>1, <2>2, <2>3, <2>4
  <2> QED BY <2>5, <2>8, <2>9
<1> QED BY <1>4, <1>5

\* All the blocks of a connection are data that is queued.
LEMMA DataFold ==
  ASSUME NEW m, Kept(m), NEW ids \in Seq(Nat)
  PROVE  FoldLeft(LAMBDA x, id : AddData(x, id), m, ids) \in Run(m)
<1> DEFINE n == Len(ids)
           S == Run(m)
           Is(it) == it = [s \in SUBSET (DOMAIN ids) |->
                             IF s = {} THEN m ELSE AddData(it[s \ {Max(s)}], ids[Max(s)])]
           f == [p \in S \X (1 .. n) |-> AddData(p[1], ids[p[2]])]
<1>1. FoldLeft(LAMBDA x, id : AddData(x, id), m, ids) = (CHOOSE it : Is(it))[DOMAIN ids]
  BY DEF FoldLeft, MapThenFoldSet
<1>2. n \in Nat /\ m \in S /\ DOMAIN ids = 1 .. n
  BY KeptRuns
<1>3. ASSUME NEW x \in S, NEW i \in 1 .. n PROVE AddData(x, ids[i]) \in S
  BY AddDataRuns
<1>4. f \in [S \X (1 .. n) -> S]
  <2> HIDE DEF S, n
  <2> QED BY <1>3
<1>5. \E it : Is(it)
  <2> HIDE DEF S, n
  <2>1. PICK it \in [SUBSET (1 .. n) -> S] : Folds(it, n, f, m)
    <3> HIDE DEF f
    <3> QED BY <1>2, <1>4, FoldExists
  <2>2. ASSUME NEW s \in SUBSET (1 .. n), s # {}
        PROVE  f[<<it[s \ {Max(s)}], Max(s)>>] = AddData(it[s \ {Max(s)}], ids[Max(s)])
    <3>1. s \in SUBSET (0 .. n)
      OBVIOUS
    <3>2. Max(s) \in 1 .. n /\ it[s \ {Max(s)}] \in S
      BY <1>2, <2>2, <3>1, MaxIn
    <3> QED BY <3>2
  <2> HIDE DEF f
  <2>3. it = [s \in SUBSET (1 .. n) |-> IF s = {} THEN m ELSE AddData(it[s \ {Max(s)}], ids[Max(s)])]
    BY <2>1, <2>2 DEF Folds
  <2> QED BY <1>2, <2>3
<1>6. PICK it : it = (CHOOSE fold : Is(fold))
  OBVIOUS
<1>7. Is(it)
  <2> HIDE DEF Is
  <2> QED BY <1>5, <1>6
<1>8. it[1 .. n] \in S
  <2> HIDE DEF S, n
  <2>1. it[{}] \in S
    BY <1>2, <1>7
  <2>2. ASSUME NEW s \in SUBSET (1 .. n), s # {}, it[s \ {Max(s)}] \in S PROVE it[s] \in S
    <3>1. s \in SUBSET (0 .. n)
      OBVIOUS
    <3>2. Max(s) \in 1 .. n
      BY <1>2, <2>2, <3>1, MaxIn
    <3>3. it[s] = AddData(it[s \ {Max(s)}], ids[Max(s)])
      BY <1>2, <1>7, <2>2
    <3> QED BY <1>3, <2>2, <3>2, <3>3
  <2> QED BY <1>2, <2>1, <2>2, FoldStays
<1> QED BY <1>1, <1>2, <1>6, <1>8

\* What is done with the data connection.
LEMMA BlocksRun ==
  ASSUME NEW m, Kept(m), NEW P, AreNumbered(P), NEW t \in Connection(P), NEW n \in 1 .. Len(t.wire),
         NEW done \in ProcessData(m, t, n)
  PROVE  done.modem \in Run(m) /\ done.conn \in Connection(P)
<1>1. PICK buf \in Seq(P), rest \in Seq(P) :
        buf = t.buf \o SubSeq(t.wire, 1, n) /\ rest = SubSeq(t.wire, n + 1, Len(t.wire))
  BY ReceivedIs DEF Received
<1>2. PICK read \in ReadBlocks(buf) :
        done = [modem |-> FoldLeft(LAMBDA x, id : AddData(x, id), m, read.ids),
                conn |-> [t EXCEPT !.wire = rest, !.buf = read.buf, !.ran = @ \o read.ids]]
  BY <1>1 DEF ProcessData
<1>3. read.ids \in Seq(Nat) /\ read.buf \in Seq(P)
  BY ReadIs
<1>4. FoldLeft(LAMBDA x, id : AddData(x, id), m, read.ids) \in Run(m)
  BY <1>3, DataFold
<1>5. PICK ran \in Items : ran = t.ran \o read.ids
  <2>1. t.ran \in Seq(Nat)
    BY DEF Connection, Items
  <2>2. t.ran \o read.ids \in Seq(Nat)
    BY <1>3, <2>1
  <2> QED BY <2>2 DEF Items
<1>6. [t EXCEPT !.wire = rest, !.buf = read.buf, !.ran = ran] \in Connection(P)
  BY <1>1, <1>3 DEF Connection
<1> QED BY <1>2, <1>4, <1>5, <1>6

\* The pieces that a host may send over a connection.
PortPieces(c) == IF mode = "tcp" THEN [id : Nat, half : {1, 2}, what : Range(script[c])] ELSE {}
ConnTyped ==
  /\ conn = [c \in Ports |-> conn[c]]
  /\ \A c \in Ports : conn[c] \in Connection(PortPieces(c))

\* What a host says over TCP is typed.
LEMMA PortsTyped ==
  ASSUME ScriptTyped
  PROVE  AreSaid(PortPieces("control")) /\ \A c \in Ports : AreNumbered(PortPieces(c))
<1>1. CASE mode = "tcp"
  <2>1. script \in TcpScripts
    BY <1>1 DEF ScriptTyped
  <2>2. \A c \in Range(script.control) : IsHostCommand(c)
    BY <2>1, HostAssumption
  <2> QED BY <1>1, <2>2 DEF PortPieces, AreSaid, AreNumbered
<1>2. CASE mode # "tcp"
  BY <1>2 DEF PortPieces, AreSaid, AreNumbered
<1> QED BY <1>1, <1>2

\* One connection changes.
LEMMA ConnStays ==
  ASSUME ConnTyped, UNCHANGED <<mode, script>>, NEW c \in Ports, NEW t \in Connection(PortPieces(c)),
         conn' = [conn EXCEPT ![c] = t]
  PROVE  ConnTyped'
<1>1. \A d \in Ports : PortPieces(d)' = PortPieces(d)
  BY DEF PortPieces
<1>2. \A d \in Ports : conn'[d] = IF d = c THEN t ELSE conn[d]
  BY DEF ConnTyped
<1>3. conn' = [d \in Ports |-> conn'[d]]
  BY DEF ConnTyped
<1>4. \A d \in Ports : conn'[d] \in Connection(PortPieces(d))
  BY <1>2 DEF ConnTyped
<1> QED BY <1>1, <1>3, <1>4 DEF ConnTyped

\* The steps of the connections.
LEMMA ConnectStep ==
  ASSUME Kept(modem), ConnTyped, NEW c \in Ports, Connect(c)
  PROVE  Goes(modem, modem') /\ ConnTyped'
<1>1. Goes(modem, modem')
  BY LostGoes, KeptRuns, BecomeGoes DEF Connect
<1>2. conn[c] \in Connection(PortPieces(c))
  BY DEF ConnTyped
<1>3. AcceptSock(conn[c]) \in Connection(PortPieces(c))
  BY <1>2, CutsStay
<1>4. conn' = [conn EXCEPT ![c] = AcceptSock(conn[c])] /\ UNCHANGED <<mode, script>>
  BY DEF Connect
<1> QED BY <1>1, <1>3, <1>4, ConnStays

\* The host sends a piece,
LEMMA HostSendStep ==
  ASSUME ScriptTyped, ConnTyped, NEW c \in Ports, HostSend(c)
  PROVE  ConnTyped'
<1>1. PICK t \in Connection(PortPieces(c)) : t = conn[c]
  BY DEF ConnTyped
<1>2. mode = "tcp" /\ t.said < Len(script[c]) /\ UNCHANGED <<mode, script>>
  BY <1>1 DEF HostSend
<1>3. PICK n \in Nat : n = t.said + 1
  BY DEF Connection
<1>4. PICK what \in Range(script[c]) : what = script[c][n]
  <2>1. script[c] \in Seq(Range(script[c]))
    BY <1>2, HostAssumption DEF ScriptTyped, Ports, Channels
  <2>2. n \in DOMAIN script[c]
    BY <1>2, <1>3, <2>1 DEF Connection
  <2> QED BY <2>2 DEF Range
<1>5. PICK more \in Seq(PortPieces(c)) : more = Parts(n, what)
  <2>1. \A half \in 1 .. 2 : [id |-> n, half |-> half, what |-> what] \in PortPieces(c)
    BY <1>2 DEF PortPieces
  <2>2. Parts(n, what) \in [1 .. 2 -> PortPieces(c)]
    BY <2>1 DEF Parts
  <2>3. PICK two \in Nat : two = 2
    OBVIOUS
  <2>4. Parts(n, what) \in Seq(PortPieces(c))
    <3>1. Parts(n, what) \in [1 .. two -> PortPieces(c)]
      BY <2>2, <2>3
    <3> QED BY <3>1
  <2> QED BY <2>4
<1>6. PICK wire \in Seq(PortPieces(c)) : wire = t.wire \o more
  <2>1. t.wire \in Seq(PortPieces(c))
    BY DEF Connection
  <2>2. t.wire \o more \in Seq(PortPieces(c))
    BY <2>1
  <2> QED BY <2>2
<1>7. PICK u : u = [t EXCEPT !.said = n, !.wire = wire]
  OBVIOUS
<1>8. u \in Connection(PortPieces(c))
  BY <1>7 DEF Connection
<1>9. conn' = [conn EXCEPT ![c].said = t.said + 1, ![c].wire = @ \o more]
  BY <1>1, <1>3, <1>4, <1>5 DEF HostSend
<1>10. conn' = [conn EXCEPT ![c] = u]
  BY <1>1, <1>3, <1>6, <1>7, <1>9 DEF ConnTyped, Connection
<1> QED BY <1>2, <1>8, <1>10, ConnStays

\* or closes its end;
LEMMA HostClosesStep ==
  ASSUME ConnTyped, NEW c \in Ports, HostCloses(c)
  PROVE  ConnTyped'
<1>1. PICK t \in Connection(PortPieces(c)) : t = conn[c]
  BY DEF ConnTyped
<1>2. PICK n \in 0 .. Len(t.wire) : conn' = [conn EXCEPT ![c].eof = TRUE, ![c].wire = SubSeq(@, 1, n)]
  BY <1>1 DEF HostCloses
<1>3. PICK wire \in Seq(PortPieces(c)) : wire = SubSeq(t.wire, 1, n)
  <2>1. t.wire \in Seq(PortPieces(c))
    BY DEF Connection
  <2> QED BY <2>1, Slice
<1>4. PICK yes \in Truth : yes = TRUE
  BY DEF Truth
<1>5. PICK u : u = [t EXCEPT !.eof = yes, !.wire = wire]
  OBVIOUS
<1>6. u \in Connection(PortPieces(c))
  BY <1>5 DEF Connection
<1>7. conn' = [conn EXCEPT ![c] = u]
  BY <1>1, <1>2, <1>3, <1>4, <1>5 DEF ConnTyped, Connection
<1> QED BY <1>6, <1>7, ConnStays DEF HostCloses

\* the modem reads commands,
LEMMA RecvControlStep ==
  ASSUME Kept(modem), ScriptTyped, ConnTyped, NEW n, RecvControl(n)
  PROVE  Goes(modem, modem') /\ ConnTyped'
<1>1. PICK c \in Ports : c = "control"
  BY DEF Ports, Channels
<1>2. PICK t \in Connection(PortPieces(c)) : t = conn[c]
  BY DEF ConnTyped
<1>3. n \in 1 .. Len(t.wire) /\ AreSaid(PortPieces(c))
  BY <1>1, <1>2, PortsTyped DEF RecvControl
<1>4. PICK done : done = ProcessControl(modem, t, n)
  OBVIOUS
<1>5. done.modem \in Run(modem) /\ done.conn \in Connection(PortPieces(c))
  BY <1>3, <1>4, LinesRun
<1>6. Become(done.modem) /\ conn' = [conn EXCEPT ![c] = done.conn] /\ UNCHANGED <<mode, script>>
  BY <1>1, <1>2, <1>4 DEF RecvControl
<1> QED BY <1>5, <1>6, BecomeGoes, ConnStays

\* data to send,
LEMMA RecvDataStep ==
  ASSUME Kept(modem), ScriptTyped, ConnTyped, NEW n, RecvData(n)
  PROVE  Goes(modem, modem') /\ ConnTyped'
<1>1. PICK c \in Ports : c = "data"
  BY DEF Ports, Channels
<1>2. PICK t \in Connection(PortPieces(c)) : t = conn[c]
  BY DEF ConnTyped
<1>3. n \in 1 .. Len(t.wire) /\ AreNumbered(PortPieces(c))
  BY <1>1, <1>2, PortsTyped DEF RecvData
<1>4. PICK done \in ProcessData(modem, t, n) : Become(done.modem) /\ conn' = [conn EXCEPT ![c] = done.conn]
  BY <1>1, <1>2 DEF RecvData
<1>5. done.modem \in Run(modem) /\ done.conn \in Connection(PortPieces(c))
  BY <1>3, BlocksRun
<1>6. UNCHANGED <<mode, script>>
  BY DEF RecvData
<1> QED BY <1>4, <1>5, <1>6, BecomeGoes, ConnStays

\* and packets,
LEMMA RecvPacketStep ==
  ASSUME Kept(modem), ScriptTyped, ConnTyped, NEW n, RecvPacket(n)
  PROVE  Goes(modem, modem') /\ ConnTyped'
<1>1. PICK c \in Ports : c = "packet"
  BY DEF Ports
<1>2. PICK t \in Connection(PortPieces(c)) : t = conn[c]
  BY DEF ConnTyped
<1>3. PICK rest \in Seq(PortPieces(c)) : rest = SubSeq(t.wire, n + 1, Len(t.wire))
  BY <1>1, <1>2, ReceivedIs DEF RecvPacket
<1>4. PICK done : done = ProcessPacketBytes(modem, t, n)
  OBVIOUS
<1>5. Become(done.modem) /\ conn' = [conn EXCEPT ![c] = done.conn] /\ UNCHANGED <<mode, script>>
  BY <1>1, <1>2, <1>4 DEF RecvPacket
<1>6. PICK k : done.modem = [modem EXCEPT !.kiss = k]
  BY <1>4 DEF ProcessPacketBytes
<1>7. Goes(modem, done.modem)
  <2>1. PICK u : u = [modem EXCEPT !.kiss = k]
    OBVIOUS
  <2>2. Goes(modem, u)
    BY <2>1, PacketsGo
  <2> QED BY <1>6, <2>1, <2>2
<1>8. done.conn = [t EXCEPT !.wire = rest]
  BY <1>3, <1>4 DEF ProcessPacketBytes
<1>9. done.conn \in Connection(PortPieces(c))
  BY <1>8 DEF Connection
<1> QED BY <1>5, <1>7, <1>9, BecomeGoes, ConnStays

\* or finds that the host has gone.
LEMMA RecvEndStep ==
  ASSUME Kept(modem), ConnTyped, NEW c \in Ports, RecvEnd(c)
  PROVE  Goes(modem, modem') /\ ConnTyped'
<1>1. PICK m : m = IF c = "packet" THEN PacketLost(modem) ELSE modem
  OBVIOUS
<1>2. Goes(modem, m)
  BY <1>1, LostGoes, KeptRuns DEF Goes
<1>3. Goes(m, LostHost(m))
  BY <1>2, LostGoes, KeptRuns DEF Goes
<1>4. Goes(modem, modem')
  BY <1>1, <1>2, <1>3, GoesOn, BecomeGoes DEF RecvEnd
<1>5. conn[c] \in Connection(PortPieces(c))
  BY DEF ConnTyped
<1>6. CloseSock(conn[c]) \in Connection(PortPieces(c))
  BY <1>5, CutsStay
<1>7. conn' = [conn EXCEPT ![c] = CloseSock(conn[c])] /\ UNCHANGED <<mode, script>>
  BY DEF RecvEnd
<1> QED BY <1>4, <1>6, <1>7, ConnStays

-----------------------------------------------------------------------------
(* The radio and the background leave the hosts alone.                     *)

\* The display program asks for an identification.
LEMMA AskedOnAir ==
  ASSUME Kept(modem), NEW kind \in {"ID", "CWID", "TwoTone"}, GuiAsks(kind)
  PROVE  Goes(modem, modem')
<1>1. modem \in Run(modem)
  BY KeptRuns
<1>2. [modem EXCEPT !.need = modem.need \cup {kind}] \in Run(modem)
  BY <1>1, NeedRuns
<1>3. Become([modem EXCEPT !.need = modem.need \cup {kind}])
  BY DEF GuiAsks
<1> QED BY <1>2, <1>3, BecomeGoes

\* The radio changes the session, or brings something.
LEMMA RadioStep ==
  ASSUME Kept(modem), Radio
  PROVE  Goes(modem, modem')
<1>1. modem \in Run(modem) /\ modem.state \in States
  BY KeptRuns DEF Kept, ModemWith
<1>2. ASSUME NEW s \in NextStates(modem.state), Become(SetState(modem, s)) PROVE Goes(modem, modem')
  <2>1. s \in States
    BY <1>1 DEF NextStates, States, InSession
  <2> QED BY <1>1, <1>2, <2>1, SetStateRuns, BecomeGoes
<1>3. ASSUME Become([modem EXCEPT !.forHost = Append(modem.forHost, modem.passed + 1),
                                  !.passed = modem.passed + 1])
      PROVE  Goes(modem, modem')
  BY <1>3, ArrivedGoes, BecomeGoes
<1>4. ASSUME Become([modem EXCEPT !.packets = 1]) PROVE Goes(modem, modem')
  BY <1>4, PacketsGo, BecomeGoes
<1>5. ASSUME Become([modem EXCEPT !.rig = Append(modem.rig, modem.heard + 1), !.heard = modem.heard + 1])
      PROVE  Goes(modem, modem')
  BY <1>5, ArrivedGoes, BecomeGoes
<1> QED BY <1>2, <1>3, <1>4, <1>5 DEF Radio

\* Calls, pings and identifications are sent.
LEMMA SentStep ==
  ASSUME Kept(modem), CheckTimers \/ Played
  PROVE  Goes(modem, modem')
<1>1. modem \in Run(modem)
  BY KeptRuns
<1>2. ASSUME NEW m \in Run(modem), NEW place, CheckFrom(m, place) PROVE Goes(modem, modem')
  <2>1. Begin(m, NextNeed(m, place)) \in Run(modem) /\ Become(Begin(m, NextNeed(m, place)))
    BY <1>2, TransmissionsRun DEF CheckFrom
  <2> QED BY <2>1, BecomeGoes
<1>3. Finish(modem, playing) \in Run(modem)
  BY <1>1, TransmissionsRun
<1> QED BY <1>1, <1>2, <1>3 DEF CheckTimers, Played

\* Packets are sent.
LEMMA PacketsStep ==
  ASSUME Kept(modem), StartPackets \/ PacketSent
  PROVE  Goes(modem, modem')
<1>1. Goes(modem, modem)
  BY DEF Goes
<1>2. Goes(modem, Acknowledged(modem))
  BY <1>1, PacketsGo DEF Acknowledged
<1> QED BY <1>1, <1>2, SendPacketsGo DEF StartPackets, PacketSent

\* What the serial line promises is not touched by what leaves it alone.
LEMMA LinkStays ==
  ASSUME LinkInv, UNCHANGED <<mode, script, serial>>, Goes(modem, modem') \/ modem' = modem
  PROVE  LinkInv'
<1>1. Given(modem)' = Given(modem) /\ modem'.hostMode = modem.hostMode
  BY DEF Goes
<1>2. UNCHANGED <<line, up, down, host>>
  BY DEF serial
<1>3. SaidPieces' = SaidPieces
  BY DEF SaidPieces, Frames, Sayings, Frame, Text, Toggle
<1>4. ScriptTyped' /\ SerialTyped'
  BY <1>2, <1>3 DEF LinkInv, ScriptTyped, SerialTyped
<1>5. InTurn'
  BY <1>1, <1>2 DEF LinkInv, InTurn, Answered
<1>6. /\ Coming(line.buf \o up, Len(line.ran), host.asked)'
      /\ Returning(down, Len(host.answers), Answered, line.last)' /\ LastReply' /\ ~line'.crossed
  BY <1>2 DEF LinkInv, Coming, Returning, LastReply, Answered
<1>7. Delivered'
  BY <1>1, <1>2 DEF LinkInv, Delivered, Got, LastGiven, Answered
<1> QED BY <1>4, <1>5, <1>6, <1>7 DEF LinkInv

-----------------------------------------------------------------------------
(* Pieces that travel.                                                     *)

\* Some of the pieces, in their order.
Thinned(q, p, g) ==
  /\ g \in [1 .. Len(p) -> 1 .. Len(q)]
  /\ \A i \in 1 .. Len(p) : p[i] = q[g[i]] /\ \A j \in i .. Len(p) : g[i] <= g[j]
\* What is lost on its way leaves the rest as it came.
LEMMA ComingLess ==
  ASSUME NEW P, NEW q \in Seq(P), NEW p \in Seq(P), NEW g, Thinned(q, p, g), NEW r, NEW a, Coming(q, r, a)
  PROVE  Coming(p, r, a)
<1>1. ASSUME NEW i \in 1 .. Len(p), NEW j \in i .. Len(p)
      PROVE  /\ p[i].frame.id \in {0, r, a}
             /\ p[j].frame.id = 0 \/ p[i].frame.id <= p[j].frame.id
  <2>1. j \in 1 .. Len(p)
    OBVIOUS
  <2>2. PICK k \in 1 .. Len(q), l \in 1 .. Len(q) : k = g[i] /\ l = g[j]
    BY <2>1 DEF Thinned
  <2>3. p[i] = q[k] /\ p[j] = q[l] /\ k <= l
    BY <2>1, <2>2 DEF Thinned
  <2>4. l \in k .. Len(q)
    BY <2>3
  <2> QED BY <2>3, <2>4 DEF Coming
<1>2. ASSUME NEW i \in 1 .. Len(p) PROVE p[i].frame.id \in {0, r, a}
  <2>1. i \in i .. Len(p)
    OBVIOUS
  <2> QED BY <1>1, <2>1
<1> QED BY <1>1, <1>2 DEF Coming

\* After a piece of the request there are no more of the one before.
LEMMA ComingAfter ==
  ASSUME NEW P, NEW q \in Seq(P), NEW p \in Seq(P), NEW g, Thinned(q, p, g), NEW r \in Nat, NEW a \in Nat,
         Coming(q, r, a), NEW f \in 1 .. Len(q), q[f].frame.id = a, r < a, \A i \in 1 .. Len(p) : f <= g[i]
  PROVE  Coming(p, a, a)
<1>1. Coming(p, r, a)
  BY ComingLess
<1>2. ASSUME NEW i \in 1 .. Len(p) PROVE p[i].frame.id \in {0, a}
  <2>1. PICK k \in 1 .. Len(q) : k = g[i] /\ p[i] = q[k] /\ f <= k
    BY DEF Thinned
  <2>2. k \in f .. Len(q)
    BY <2>1
  <2>3. q[k].frame.id = 0 \/ a <= q[k].frame.id
    BY <2>2 DEF Coming
  <2>4. q[k].frame.id \in {0, r, a}
    BY DEF Coming
  <2> QED BY <2>1, <2>3, <2>4
<1> QED BY <1>1, <1>2 DEF Coming

\* The host says more.
LEMMA ComingMore ==
  ASSUME NEW P, NEW q \in Seq(P), NEW p \in Seq(P), NEW r \in Nat, NEW b \in Nat, NEW a \in Nat,
         Coming(q, r, b), b = a \/ b = r, r <= a, \A i \in 1 .. Len(p) : p[i].frame.id \in {0, a}
  PROVE  Coming(q \o p, r, a)
<1>1. PICK both \in Seq(P) : both = q \o p
  <2>1. q \o p \in Seq(P)
    OBVIOUS
  <2> QED BY <2>1
<1>2. PICK l \in Nat, k \in Nat : l = Len(q) /\ k = Len(p)
  OBVIOUS
<1>3. Len(both) = l + k /\ \A i \in 1 .. l + k : both[i] = IF i <= l THEN q[i] ELSE p[i - l]
  BY <1>1, <1>2, ConcatProperties
<1>4. ASSUME NEW i \in 1 .. l + k PROVE both[i].frame.id \in {0, r, a}
  <2>1. CASE i <= l
    <3>1. i \in 1 .. Len(q) /\ both[i] = q[i]
      BY <1>2, <1>3, <2>1
    <3> QED BY <3>1 DEF Coming
  <2>2. CASE ~(i <= l)
    <3>1. i - l \in 1 .. Len(p) /\ both[i] = p[i - l]
      BY <1>2, <1>3, <2>2
    <3> QED BY <3>1
  <2> QED BY <2>1, <2>2
<1>5. ASSUME NEW i \in 1 .. l + k, NEW j \in i .. l + k
      PROVE  both[j].frame.id = 0 \/ both[i].frame.id <= both[j].frame.id
  <2>1. CASE j <= l
    <3>1. i \in 1 .. Len(q) /\ j \in i .. Len(q) /\ both[i] = q[i] /\ both[j] = q[j]
      BY <1>2, <1>3, <2>1
    <3> QED BY <3>1 DEF Coming
  <2>2. CASE ~(j <= l)
    <3>1. j - l \in 1 .. Len(p) /\ both[j] = p[j - l]
      BY <1>2, <1>3, <2>2
    <3>2. both[j].frame.id \in {0, a} /\ both[i].frame.id \in {0, r, a}
      BY <1>4, <3>1
    <3> QED BY <3>2
  <2> QED BY <2>1, <2>2
<1> QED BY <1>1, <1>3, <1>4, <1>5 DEF Coming

\* The last part of a sequence.
IsEnd(p, q) == Len(p) <= Len(q) /\ \A i \in 1 .. Len(p) : p[i] = q[Len(q) - Len(p) + i]

\* The rest of a sequence is its end,
LEMMA SliceEnds ==
  ASSUME NEW S, NEW q \in Seq(S)
  PROVE  /\ \A k \in 0 .. Len(q) : IsEnd(SubSeq(q, k + 1, Len(q)), q)
         /\ IsEnd(<<>>, q) /\ IsEnd(q, q)
<1>1. ASSUME NEW k \in 0 .. Len(q) PROVE IsEnd(SubSeq(q, k + 1, Len(q)), q)
  <2>1. PICK l \in Nat : l = Len(q) /\ k <= l /\ k \in Nat
    OBVIOUS
  <2>2. PICK p : p = SubSeq(q, k + 1, Len(q))
    OBVIOUS
  <2>3. Len(p) = l - k /\ \A i \in 1 .. l - k : p[i] = q[k + i]
    BY <2>1, <2>2, Slice
  <2>4. l - Len(p) = k /\ Len(p) <= l
    BY <2>1, <2>3
  <2> QED BY <2>1, <2>2, <2>3, <2>4 DEF IsEnd
<1>2. IsEnd(<<>>, q)
  BY DEF IsEnd
<1>3. IsEnd(q, q)
  <2>1. PICK l \in Nat : l = Len(q)
    OBVIOUS
  <2>2. \A i \in 1 .. l : l - l + i = i
    OBVIOUS
  <2> QED BY <2>1, <2>2 DEF IsEnd
<1> QED BY <1>1, <1>2, <1>3

\* and so is an end of an end.
LEMMA EndOfEnd ==
  ASSUME NEW S, NEW p \in Seq(S), NEW q \in Seq(S), NEW r \in Seq(S), IsEnd(p, q), IsEnd(q, r)
  PROVE  IsEnd(p, r)
<1>1. PICK a \in Nat, b \in Nat, c \in Nat : a = Len(p) /\ b = Len(q) /\ c = Len(r) /\ a <= b /\ b <= c
  BY DEF IsEnd
<1>2. ASSUME NEW i \in 1 .. a PROVE p[i] = r[c - a + i]
  <2>1. p[i] = q[b - a + i] /\ b - a + i \in 1 .. b
    BY <1>1 DEF IsEnd
  <2>2. q[b - a + i] = r[c - b + (b - a + i)]
    BY <1>1, <2>1 DEF IsEnd
  <2>3. c - b + (b - a + i) = c - a + i
    BY <1>1
  <2> QED BY <2>1, <2>2, <2>3
<1> QED BY <1>1, <1>2 DEF IsEnd

\* What is left of what was read, with what was not read, is the last part of it all.
LEMMA EndOfAll ==
  ASSUME NEW S, NEW buf \in Seq(S), NEW all \in Seq(S), NEW n \in 0 .. Len(all), NEW p \in Seq(S),
         IsEnd(p, buf \o SubSeq(all, 1, n))
  PROVE  /\ p \o SubSeq(all, n + 1, Len(all)) \in Seq(S)
         /\ IsEnd(p \o SubSeq(all, n + 1, Len(all)), buf \o all)
<1>1. PICK first \in Seq(S), rest \in Seq(S) :
        first = SubSeq(all, 1, n) /\ rest = SubSeq(all, n + 1, Len(all))
  BY Slice
<1>2. PICK l \in Nat, b \in Nat, k \in Nat : l = Len(all) /\ b = Len(buf) /\ k = Len(p) /\ n <= l /\ n \in Nat
  OBVIOUS
<1>3. /\ Len(first) = n /\ \A i \in 1 .. n : first[i] = all[i]
      /\ Len(rest) = l - n /\ \A i \in 1 .. l - n : rest[i] = all[n + i]
  BY <1>1, <1>2, Slice
<1>4. PICK read \in Seq(S), whole \in Seq(S), left \in Seq(S) :
        read = buf \o first /\ whole = buf \o all /\ left = p \o rest
  <2>1. buf \o first \in Seq(S) /\ buf \o all \in Seq(S) /\ p \o rest \in Seq(S)
    OBVIOUS
  <2> QED BY <2>1
<1>5. Len(read) = b + n /\ \A i \in 1 .. b + n : read[i] = IF i <= b THEN buf[i] ELSE first[i - b]
  BY <1>2, <1>3, <1>4, ConcatProperties
<1>6. Len(whole) = b + l /\ \A i \in 1 .. b + l : whole[i] = IF i <= b THEN buf[i] ELSE all[i - b]
  BY <1>2, <1>4, ConcatProperties
<1>0. PICK e \in Nat : e = l - n
  <2>1. l - n \in Nat
    BY <1>2
  <2> QED BY <2>1
<1>7. Len(left) = k + e /\ \A i \in 1 .. k + e : left[i] = IF i <= k THEN p[i] ELSE rest[i - k]
  <2>1. Len(rest) = e /\ Len(p) = k
    BY <1>0, <1>2, <1>3
  <2> QED BY <1>4, <2>1, ConcatProperties
<1>8. IsEnd(p, read)
  BY <1>1, <1>4
<1>9. k <= b + n /\ \A i \in 1 .. k : p[i] = read[b + n - k + i]
  BY <1>2, <1>5, <1>8 DEF IsEnd
<1>10. ASSUME NEW i \in 1 .. b + n PROVE read[i] = whole[i]
  <2>1. i \in 1 .. b + l
    BY <1>2
  <2>2. CASE i <= b
    BY <1>5, <1>6, <2>1, <2>2
  <2>3. CASE ~(i <= b)
    <3>1. i - b \in 1 .. n
      BY <1>2, <2>3
    <3> QED BY <1>3, <1>5, <1>6, <2>1, <2>3, <3>1
  <2> QED BY <2>2, <2>3
<1>11. PICK d \in Nat : d = b + n - k /\ d = b + l - (k + e)
  <2>1. b + n - k \in Nat /\ b + n - k = b + l - (k + e)
    BY <1>0, <1>2, <1>9
  <2> QED BY <2>1
<1>12. ASSUME NEW i \in 1 .. k + e PROVE left[i] = whole[d + i]
  <2>1. CASE i <= k
    <3>1. i \in 1 .. k /\ d + i \in 1 .. b + n
      BY <1>2, <1>9, <1>11, <2>1
    <3>2. left[i] = p[i] /\ p[i] = read[d + i]
      BY <1>7, <1>9, <1>11, <2>1, <3>1
    <3> QED BY <1>10, <3>1, <3>2
  <2>2. CASE ~(i <= k)
    <3>1. i - k \in 1 .. l - n
      BY <1>0, <1>2, <2>2
    <3>2. PICK j \in 1 .. b + l : j = d + i /\ ~(j <= b) /\ j - b = n + (i - k)
      <4>1. d + i \in 1 .. b + l /\ ~(d + i <= b) /\ d + i - b = n + (i - k)
        BY <1>0, <1>2, <1>9, <1>11, <2>2
      <4> QED BY <4>1
    <3>3. left[i] = rest[i - k] /\ rest[i - k] = all[n + (i - k)]
      BY <1>3, <1>7, <2>2, <3>1
    <3>4. whole[j] = all[j - b]
      BY <1>6, <3>2
    <3> QED BY <3>2, <3>3, <3>4
  <2> QED BY <2>1, <2>2
<1>13. Len(whole) - Len(left) = d /\ Len(left) <= Len(whole) /\ Len(read) - Len(p) = d
  <2>1. Len(whole) = b + l /\ Len(left) = k + e /\ Len(read) = b + n /\ Len(p) = k
    BY <1>2, <1>5, <1>6, <1>7
  <2>2. b + l - (k + e) = d /\ k + e <= b + l /\ b + n - k = d
    BY <1>0, <1>2, <1>11
  <2> QED BY <2>1, <2>2
<1>14. IsEnd(left, whole)
  BY <1>7, <1>12, <1>13 DEF IsEnd
<1> QED BY <1>1, <1>4, <1>13, <1>14

\* An end has some of the pieces, in their order.
LEMMA EndThins ==
  ASSUME NEW S, NEW q \in Seq(S), NEW p \in Seq(S), IsEnd(p, q)
  PROVE  \E g : Thinned(q, p, g) /\ \A i \in 1 .. Len(p) : g[i] = Len(q) - Len(p) + i
<1>1. PICK a \in Nat, b \in Nat : a = Len(p) /\ b = Len(q) /\ a <= b
  BY DEF IsEnd
<1>2. PICK g : g = [i \in 1 .. a |-> b - a + i]
  OBVIOUS
<1>3. g \in [1 .. a -> 1 .. b]
  BY <1>1, <1>2
<1>4. ASSUME NEW i \in 1 .. a PROVE p[i] = q[g[i]] /\ \A j \in i .. a : g[i] <= g[j]
  <2>1. p[i] = q[b - a + i]
    BY <1>1 DEF IsEnd
  <2>2. ASSUME NEW j \in i .. a PROVE b - a + i <= b - a + j /\ j \in 1 .. a
    BY <1>1
  <2> QED BY <1>2, <2>1, <2>2
<1>5. Thinned(q, p, g) /\ \A i \in 1 .. Len(p) : g[i] = Len(q) - Len(p) + i
  BY <1>1, <1>2, <1>3, <1>4 DEF Thinned
<1> QED BY <1>5

-----------------------------------------------------------------------------
(* What the modem does with what it has read.                              *)

\* The modem waits for more, or does something with a frame that it has read.
TakesTo(P, l, buf, t, o) ==
  \/ \E q \in Seq(P) : IsEnd(q, buf) /\ o = Outcome(t, [l EXCEPT !.buf = q], <<>>)
  \/ t.hostMode /\ \E i \in 1 .. Len(buf) : ~IsText(buf[i]) /\ o = TakeFrame(t, l, buf[i].frame)

\* In host mode.
LEMMA HostModeTakes ==
  ASSUME NEW P, NEW m, m.hostMode, NEW l, NEW buf \in Seq(P)
  PROVE  TakesTo(P, l, buf, m, TakeInHostMode(m, l, buf))
<1>1. PICK none \in Seq(P) : none = <<>>
  <2>1. <<>> \in Seq(P)
    OBVIOUS
  <2> QED BY <2>1
<1>2. IsEnd(none, buf) /\ IsEnd(buf, buf)
  BY <1>1, SliceEnds
<1>3. CASE buf = <<>> \/ HostModeFate(buf) = "drop"
  BY <1>1, <1>2, <1>3 DEF TakeInHostMode, TakesTo
<1>4. CASE buf # <<>> /\ HostModeFate(buf) = "frame"
  <2>1. ~IsText(buf[1])
    BY <1>4 DEF HostModeFate, Noise
  <2>2. TakeInHostMode(m, l, buf) = TakeFrame(m, l, buf[1].frame)
    BY <1>4 DEF TakeInHostMode
  <2>3. 1 \in 1 .. Len(buf)
    BY <1>4
  <2> QED BY <2>1, <2>2, <2>3 DEF TakesTo
<1>5. CASE buf # <<>> /\ HostModeFate(buf) = "wait"
  BY <1>2, <1>5 DEF TakeInHostMode, TakesTo
<1>6. HostModeFate(buf) \in {"drop", "frame", "wait"}
  BY DEF HostModeFate
<1> QED BY <1>3, <1>4, <1>5, <1>6

\* The modem takes text or frames: it waits for more, or does something with a frame that it has
\* read.
LEMMA Takes ==
  ASSUME NEW m, Kept(m), NEW P, ArePieces(P), NEW last, NEW l \in LineWith(P, last), NEW taken \in Seq(P),
         ~m.hostMode => l.toggle = FALSE
  PROVE  \E t : /\ Kept(t) /\ Given(t) = Given(m) /\ (m.hostMode => t.hostMode)
                /\ TakesTo(P, l, l.buf \o taken, t, TakeBytes(m, l, taken))
<1>1. PICK buf \in Seq(P) : buf = l.buf \o taken
  <2>1. l.buf \in Seq(P)
    BY DEF LineWith
  <2>2. l.buf \o taken \in Seq(P)
    BY <2>1
  <2> QED BY <2>2
<1>2. CASE m.hostMode
  <2>1. TakeBytes(m, l, taken) = TakeInHostMode(m, l, buf)
    BY <1>1, <1>2 DEF TakeBytes
  <2> QED BY <1>1, <1>2, <2>1, HostModeTakes
<1>3. CASE ~m.hostMode
  <2>1. TakeBytes(m, l, taken) = TakeInTextMode(m, l, buf)
    BY <1>1, <1>3 DEF TakeBytes
  <2>2. Len(buf) \in Nat /\ LineEnds(buf) \in SUBSET (1 .. Len(buf)) /\ Entries(buf) \in SUBSET LineEnds(buf)
    BY DEF LineEnds, Entries
  <2>3. CASE Entries(buf) # {}
    <3>1. PICK k \in Entries(buf) : k = Min(Entries(buf))
      <4>1. Entries(buf) \in SUBSET Nat
        BY <2>2
      <4> HIDE DEF Entries
      <4>2. \E x \in Entries(buf) : \A y \in Entries(buf) : x <= y
        BY <2>3, <4>1, LeastElement
      <4> QED BY <4>2 DEF Min
    <3>2. PICK u \in Run(m) : u = RunTexts(m, buf, {j \in LineEnds(buf) : j < k})
      BY KeptRuns, TextsRun
    <3>3. PICK t : t = JHOST4(u)
      OBVIOUS
    <3>4. Kept(t) /\ Given(t) = Given(m) /\ t.hostMode
      <4>1. Kept(u) /\ Given(u) = Given(m)
        BY KeptRuns
      <4> QED BY <3>3, <4>1, EntryRuns
    <3>5. PICK rest \in Seq(P) : rest = After(buf, k) /\ IsEnd(rest, buf)
      <4>1. k \in 0 .. Len(buf)
        BY <2>2
      <4>2. SubSeq(buf, k + 1, Len(buf)) \in Seq(P) /\ IsEnd(SubSeq(buf, k + 1, Len(buf)), buf)
        BY <4>1, Slice, SliceEnds
      <4> QED BY <4>2 DEF After
    <3>6. [l EXCEPT !.toggle = FALSE] = l
      BY <1>3 DEF LineWith
    <3>7. TakeBytes(m, l, taken) = TakeInHostMode(t, l, rest)
      BY <2>1, <2>3, <3>1, <3>2, <3>3, <3>5, <3>6 DEF TakeInTextMode
    <3>8. TakesTo(P, l, rest, t, TakeInHostMode(t, l, rest))
      BY <3>4, HostModeTakes
    <3>9. TakesTo(P, l, buf, t, TakeInHostMode(t, l, rest))
      <4>1. ASSUME NEW q \in Seq(P), IsEnd(q, rest) PROVE IsEnd(q, buf)
        BY <3>5, <4>1, EndOfEnd
      <4>2. ASSUME NEW i \in 1 .. Len(rest) PROVE \E j \in 1 .. Len(buf) : rest[i] = buf[j]
        <5>1. PICK a \in Nat, b \in Nat : a = Len(rest) /\ b = Len(buf) /\ a <= b
          BY <3>5 DEF IsEnd
        <5>2. rest[i] = buf[b - a + i] /\ b - a + i \in 1 .. b
          BY <3>5, <5>1 DEF IsEnd
        <5> QED BY <5>1, <5>2
      <4>3. CASE \E q \in Seq(P) : IsEnd(q, rest) /\ TakeInHostMode(t, l, rest) = Outcome(t, [l EXCEPT !.buf = q], <<>>)
        BY <4>1, <4>3 DEF TakesTo
      <4>4. CASE t.hostMode /\ \E i \in 1 .. Len(rest) :
                   ~IsText(rest[i]) /\ TakeInHostMode(t, l, rest) = TakeFrame(t, l, rest[i].frame)
        BY <4>2, <4>4 DEF TakesTo
      <4> QED BY <3>8, <4>3, <4>4 DEF TakesTo
    <3> QED BY <1>1, <1>3, <3>4, <3>7, <3>9
  <2>4. CASE Entries(buf) = {}
    <3>1. PICK k \in 0 .. Len(buf) : k = Max(LineEnds(buf) \cup {0})
      <4>1. LineEnds(buf) \cup {0} \in SUBSET (0 .. Len(buf)) /\ LineEnds(buf) \cup {0} # {}
        BY <2>2
      <4> HIDE DEF LineEnds
      <4>2. Max(LineEnds(buf) \cup {0}) \in LineEnds(buf) \cup {0}
        BY <2>2, <4>1, MaxIn
      <4> QED BY <4>1, <4>2
    <3>2. PICK t \in Run(m) : t = RunTexts(m, buf, LineEnds(buf))
      BY KeptRuns, TextsRun
    <3>3. Kept(t) /\ Given(t) = Given(m)
      BY KeptRuns
    <3>4. PICK rest \in Seq(P) : rest = After(buf, k) /\ IsEnd(rest, buf)
      <4>1. SubSeq(buf, k + 1, Len(buf)) \in Seq(P) /\ IsEnd(SubSeq(buf, k + 1, Len(buf)), buf)
        BY Slice, SliceEnds
      <4> QED BY <4>1 DEF After
    <3>5. PICK q \in Seq(P) :
            IsEnd(q, buf) /\ q = IF \A i \in 1 .. Len(rest) : IsText(rest[i]) THEN rest ELSE <<>>
      <4>1. <<>> \in Seq(P) /\ IsEnd(<<>>, buf)
        BY SliceEnds
      <4> QED BY <3>4, <4>1
    <3>6. TakeBytes(m, l, taken) = Outcome(t, [l EXCEPT !.buf = q], <<>>)
      BY <2>1, <2>4, <3>1, <3>2, <3>4, <3>5 DEF TakeInTextMode
    <3>7. TakesTo(P, l, buf, t, TakeBytes(m, l, taken))
      BY <3>5, <3>6 DEF TakesTo
    <3> QED BY <1>1, <1>3, <3>3, <3>7
  <2> QED BY <2>3, <2>4
<1> QED BY <1>2, <1>3

-----------------------------------------------------------------------------
(* A step of the modem at its end of the serial line.                      *)

\* What the host says over the serial line is typed.
LEMMA SerialScript ==
  ASSUME ScriptTyped, mode = "serial"
  PROVE  /\ script.asks \in Seq(Range(script.asks)) /\ Len(script.asks) \in Nat
         /\ \A k \in 1 .. Len(script.asks) : IsRequest(script.asks[k])
         /\ Len(script.text) \in Nat /\ \A k \in 1 .. Len(script.text) : IsCommand(script.text[k])
<1>1. script \in SerialScripts
  BY DEF ScriptTyped
<1>2. /\ script.text \in Seq(Range(script.text)) /\ \A c \in Range(script.text) : IsCommand(c)
      /\ script.asks \in Seq(Range(script.asks)) /\ \A ask \in Range(script.asks) : IsRequest(ask)
  BY <1>1, HostAssumption
<1>3. \A k \in 1 .. Len(script.asks) : script.asks[k] \in Range(script.asks)
  BY <1>2
<1>4. \A k \in 1 .. Len(script.text) : script.text[k] \in Range(script.text)
  BY <1>2
<1>5. Len(script.asks) \in Nat /\ Len(script.text) \in Nat
  BY <1>2
<1> QED BY <1>2, <1>3, <1>4, <1>5

\* What is said is made of lines that are commands, and of numbered requests.
LEMMA SaidTyped ==
  ASSUME ScriptTyped
  PROVE  /\ ArePieces(SaidPieces)
         /\ \A p \in SaidPieces :
              ~IsText(p) => \E k \in 1 .. Len(script.asks) : p.frame = Frame(k) /\ p.frame.id = k
<1>1. CASE mode = "serial"
  <2>1. ASSUME NEW p \in SaidPieces
        PROVE  /\ p.half \in {1, 2} /\ (IsLine(p.frame) \/ IsFrame(p.frame))
               /\ ~IsText(p) => \E k \in 1 .. Len(script.asks) : p.frame = Frame(k) /\ p.frame.id = k
    <3>1. p.half \in {1, 2} /\ (p.frame \in Frames \/ p.frame \in Sayings)
      BY <1>1, <2>1 DEF SaidPieces
    <3>2. CASE p.frame \in Frames
      <4>1. PICK k \in 1 .. Len(script.asks) : p.frame = Frame(k)
        BY <3>2 DEF Frames
      <4>2. p.frame.id = k /\ p.frame.toggle \in BOOLEAN /\ p.frame.ask = script.asks[k]
        BY <4>1 DEF Frame, Toggle
      <4>3. k \in Nat \ {0} /\ IsRequest(script.asks[k])
        BY <1>1, SerialScript
      <4> QED BY <3>1, <4>1, <4>2, <4>3 DEF IsFrame
    <3>3. CASE p.frame \in Sayings
      <4>1. IsCommand([name |-> "JHOST4", arg |-> "none", n |-> 0, w |-> ""])
        BY DEF IsCommand
      <4>2. IsLine(p.frame)
        <5>1. ASSUME p.frame = TEXT PROVE IsLine(p.frame)
          <6>1. TEXT.id = 0 /\ TEXT.line = [name |-> "JHOST4", arg |-> "none", n |-> 0, w |-> ""]
            BY DEF TEXT, Text
          <6>2. IsCommand(TEXT.line)
            BY <4>1, <6>1
          <6> QED BY <5>1, <6>1, <6>2 DEF IsLine
        <5>2. ASSUME NEW i \in 1 .. Len(script.text), p.frame = Text(script.text[i]) PROVE IsLine(p.frame)
          <6>1. IsCommand(script.text[i])
            BY <1>1, SerialScript
          <6>2. p.frame.id = 0 /\ p.frame.line = script.text[i]
            BY <5>2 DEF Text
          <6> QED BY <6>1, <6>2 DEF IsLine
        <5> QED BY <3>3, <5>1, <5>2 DEF Sayings
      <4>3. IsText(p)
        BY <4>2 DEF IsLine, IsText
      <4> QED BY <3>1, <4>2, <4>3
    <3> QED BY <3>1, <3>2, <3>3
  <2> QED BY <2>1 DEF ArePieces
<1>2. CASE mode # "serial"
  BY <1>2 DEF SaidPieces, ArePieces
<1> QED BY <1>1, <1>2

\* How the requests and the answers stand.
LEMMA Counted ==
  ASSUME LinkInv
  PROVE  /\ Len(host.answers) \in Nat /\ Len(line.ran) \in Nat /\ host.asked \in Nat
         /\ Len(host.answers) <= Len(line.ran) /\ Len(line.ran) <= host.asked
         /\ host.asked <= Len(host.answers) + 1
         /\ Answered \in Nat /\ Len(host.answers) <= Answered /\ Answered <= Len(line.ran)
         /\ line.connecting = <<>> => Answered = Len(line.ran)
<1>1. host.answers \in Seq(Nat) /\ line.ran \in Seq(Nat) /\ host.asked \in Nat
  BY DEF LinkInv, SerialTyped, LineWith, HostEnd, Items
<1>2. PICK h \in Nat, r \in Nat, a \in Nat : h = Len(host.answers) /\ r = Len(line.ran) /\ a = host.asked
  BY <1>1
<1>3. /\ (line.connecting # <<>> => r # 0) /\ h <= Answered /\ r <= a
      /\ a = IF host.waiting THEN h + 1 ELSE h
  BY <1>2 DEF LinkInv, InTurn
<1>4. Answered = IF line.connecting = <<>> THEN r ELSE r - 1
  BY <1>2 DEF Answered
<1>5. Answered \in Nat /\ Answered <= r
  BY <1>3, <1>4
<1>6. h <= r /\ a <= h + 1
  BY <1>3, <1>5
<1> QED BY <1>2, <1>3, <1>4, <1>5, <1>6

\* What remains on its way after some has been read.
LEMMA ComesLater ==
  ASSUME LinkInv, NEW n \in 1 .. Len(up), NEW q \in Seq(SaidPieces), IsEnd(q, line.buf \o SubSeq(up, 1, n))
  PROVE  LET rest == SubSeq(up, n + 1, Len(up))
         IN /\ rest \in Seq(SaidPieces) /\ Coming(q \o rest, Len(line.ran), host.asked)
            /\ \A i \in 1 .. Len(line.buf \o SubSeq(up, 1, n)) :
                 /\ q = <<>> /\ Len(line.ran) < host.asked
                 /\ (line.buf \o SubSeq(up, 1, n))[i].frame.id = host.asked
                 => Coming(q \o rest, host.asked, host.asked)
<1>1. line.buf \in Seq(SaidPieces) /\ up \in Seq(SaidPieces) /\ n \in 0 .. Len(up)
  BY DEF LinkInv, SerialTyped, LineWith
<1>2. PICK first \in Seq(SaidPieces), rest \in Seq(SaidPieces) :
        /\ first = SubSeq(up, 1, n) /\ rest = SubSeq(up, n + 1, Len(up)) /\ Len(first) = n
        /\ \A i \in 1 .. n : first[i] = up[i]
  BY <1>1, Slice
<1>3. PICK buf \in Seq(SaidPieces), all \in Seq(SaidPieces), left \in Seq(SaidPieces) :
        buf = line.buf \o first /\ all = line.buf \o up /\ left = q \o rest
  <2>1. line.buf \o first \in Seq(SaidPieces) /\ line.buf \o up \in Seq(SaidPieces) /\ q \o rest \in Seq(SaidPieces)
    BY <1>1
  <2> QED BY <2>1
<1>4. IsEnd(q, buf)
  BY <1>2, <1>3
<1>5. IsEnd(left, all) /\ Len(all) - Len(left) = Len(buf) - Len(q)
  <2>1. PICK P : P = SaidPieces
    OBVIOUS
  <2>2. PICK b \in Seq(P), u \in Seq(P), p \in Seq(P) : b = line.buf /\ u = up /\ p = q
    BY <1>1, <2>1
  <2>3. n \in 0 .. Len(u) /\ IsEnd(p, b \o SubSeq(u, 1, n))
    BY <1>1, <2>2
  <2>4. IsEnd(p \o SubSeq(u, n + 1, Len(u)), b \o u)
    BY <2>3, EndOfAll
  <2>5. IsEnd(left, all)
    BY <1>2, <1>3, <2>2, <2>4
  <2>6. PICK h \in Nat, j \in Nat, k \in Nat : h = Len(b) /\ j = Len(u) /\ k = Len(p) /\ n <= j /\ n \in Nat
    BY <2>3
  <2>7. Len(buf) = h + n /\ Len(all) = h + j /\ Len(left) = k + Len(rest) /\ Len(rest) = j - n
    BY <1>1, <1>2, <1>3, <2>2, <2>6, Slice, ConcatProperties
  <2>8. h + j - (k + (j - n)) = h + n - k
    BY <2>6
  <2> QED BY <2>2, <2>5, <2>6, <2>7, <2>8
<1>6. PICK g : Thinned(all, left, g) /\ \A i \in 1 .. Len(left) : g[i] = Len(all) - Len(left) + i
  BY <1>5, EndThins
<1>7. Coming(all, Len(line.ran), host.asked)
  BY <1>3 DEF LinkInv
<1>8. Coming(left, Len(line.ran), host.asked)
  BY <1>6, <1>7, ComingLess
<1>9. ASSUME NEW i \in 1 .. Len(buf), q = <<>>, Len(line.ran) < host.asked, buf[i].frame.id = host.asked
      PROVE  Coming(left, host.asked, host.asked)
  <2>1. PICK b \in Nat, k \in Nat : b = Len(line.buf) /\ k = Len(up) /\ n <= k /\ n \in Nat
    BY <1>1
  <2>2. Len(buf) = b + n /\ Len(all) = b + k
    BY <1>1, <1>2, <1>3, <2>1, ConcatProperties
  <2>3. all[i] = buf[i] /\ i \in 1 .. Len(all)
    <3>1. i \in 1 .. b + n /\ i \in 1 .. b + k
      BY <2>1, <2>2
    <3>2. buf[i] = IF i <= b THEN line.buf[i] ELSE first[i - b]
      BY <1>1, <1>2, <1>3, <2>1, <3>1, ConcatProperties
    <3>3. all[i] = IF i <= b THEN line.buf[i] ELSE up[i - b]
      BY <1>1, <1>3, <2>1, <3>1, ConcatProperties
    <3>4. ~(i <= b) => i - b \in 1 .. n
      BY <2>1, <3>1
    <3> QED BY <1>2, <2>2, <3>1, <3>2, <3>3, <3>4
  <2>4. \A j \in 1 .. Len(left) : i <= g[j]
    <3>1. Len(all) - Len(left) = b + n
      BY <1>5, <1>9, <2>1, <2>2
    <3> QED BY <1>6, <2>1, <2>2, <3>1
  <2>5. Len(line.ran) \in Nat /\ host.asked \in Nat
    BY Counted
  <2> QED BY <1>6, <1>7, <1>9, <2>3, <2>4, <2>5, ComingAfter
<1> QED BY <1>2, <1>3, <1>8, <1>9

\* A frame that is read is the last request that was done, or the one that is asked now.
LEMMA FrameRead ==
  ASSUME LinkInv, NEW n \in 1 .. Len(up), NEW i \in 1 .. Len(line.buf \o SubSeq(up, 1, n)),
         ~IsText((line.buf \o SubSeq(up, 1, n))[i])
  PROVE  LET f == (line.buf \o SubSeq(up, 1, n))[i].frame
         IN \E k \in 1 .. Len(script.asks) : f = Frame(k) /\ f.id = k /\ k \in {Len(line.ran), host.asked}
<1>1. line.buf \in Seq(SaidPieces) /\ up \in Seq(SaidPieces) /\ n \in 0 .. Len(up)
  BY DEF LinkInv, SerialTyped, LineWith
<1>2. PICK first \in Seq(SaidPieces) :
        first = SubSeq(up, 1, n) /\ Len(first) = n /\ \A j \in 1 .. n : first[j] = up[j]
  <2>1. PICK first \in Seq(SaidPieces), rest \in Seq(SaidPieces) :
          /\ first = SubSeq(up, 1, n) /\ rest = SubSeq(up, n + 1, Len(up)) /\ Len(first) = n
          /\ \A j \in 1 .. n : first[j] = up[j]
    BY <1>1, Slice
  <2> QED BY <2>1
<1>3. PICK buf \in Seq(SaidPieces), all \in Seq(SaidPieces) : buf = line.buf \o first /\ all = line.buf \o up
  <2>1. line.buf \o first \in Seq(SaidPieces) /\ line.buf \o up \in Seq(SaidPieces)
    BY <1>1
  <2> QED BY <2>1
<1>4. PICK p \in SaidPieces : p = buf[i] /\ ~IsText(p)
  BY <1>2, <1>3
<1>5. PICK k \in 1 .. Len(script.asks) : p.frame = Frame(k) /\ p.frame.id = k
  BY <1>4, SaidTyped DEF LinkInv
<1>6. \E j \in 1 .. Len(all) : all[j] = p
  <2>1. PICK b \in Nat, c \in Nat : b = Len(line.buf) /\ c = Len(up) /\ n <= c /\ n \in Nat
    BY <1>1
  <2>2. i \in 1 .. b + n /\ i \in 1 .. b + c
    <3>1. Len(buf) = b + n
      BY <1>1, <1>2, <1>3, <2>1, ConcatProperties
    <3> QED BY <1>2, <1>3, <2>1, <3>1
  <2>3. buf[i] = IF i <= b THEN line.buf[i] ELSE first[i - b]
    BY <1>1, <1>2, <1>3, <2>1, <2>2, ConcatProperties
  <2>4. all[i] = IF i <= b THEN line.buf[i] ELSE up[i - b]
    BY <1>1, <1>3, <2>1, <2>2, ConcatProperties
  <2>5. ~(i <= b) => i - b \in 1 .. n
    BY <2>1, <2>2
  <2>6. Len(all) = b + c
    BY <1>1, <1>3, <2>1, ConcatProperties
  <2> QED BY <1>2, <1>4, <2>2, <2>3, <2>4, <2>5, <2>6
<1>7. Coming(all, Len(line.ran), host.asked)
  BY <1>3 DEF LinkInv
<1>8. p.frame.id \in {0, Len(line.ran), host.asked}
  BY <1>6, <1>7 DEF Coming
<1>9. k # 0
  OBVIOUS
<1> QED BY <1>2, <1>3, <1>4, <1>5, <1>8, <1>9

\* An answer follows the others.
LEMMA ReturningMore ==
  ASSUME NEW q \in Seq(AnyReply), NEW p \in AnyReply, NEW n \in Nat, NEW r \in Nat, NEW s \in Nat,
         NEW last, NEW next, Returning(q, n, r, last), n <= s, r <= s, r = s => next = last,
         p.id = s, p.toggle = Toggle(s), p.kind = next.kind, p.items = next.items
  PROVE  Returning(q \o <<p>>, n, s, next)
<1>1. PICK l \in Nat, both \in Seq(AnyReply) : l = Len(q) /\ both = q \o <<p>>
  <2>1. q \o <<p>> \in Seq(AnyReply) /\ Len(q) \in Nat
    OBVIOUS
  <2> QED BY <2>1
<1>2. Len(both) = l + 1 /\ (\A i \in 1 .. l : both[i] = q[i]) /\ both[l + 1] = p
  BY <1>1
<1>3. \A i \in 1 .. l : q[i].id \in Nat /\ q[i].id <= r
  <2>1. \A x \in AnyReply : x.id \in Nat
    BY DEF AnyReply
  <2>2. \A i \in 1 .. l : q[i] \in AnyReply
    BY <1>1
  <2> QED BY <1>1, <2>1, <2>2 DEF Returning
<1>4. ASSUME NEW i \in 1 .. l + 1
      PROVE  /\ n <= both[i].id /\ both[i].id <= s /\ both[i].toggle = Toggle(both[i].id)
             /\ both[i].id = s => both[i].kind = next.kind /\ both[i].items = next.items
  <2>1. CASE i = l + 1
    BY <1>2, <2>1
  <2>2. CASE i # l + 1
    <3>1. i \in 1 .. l /\ both[i] = q[i]
      BY <1>2, <2>2
    <3>2. q[i].id \in Nat /\ q[i].id <= r
      BY <1>3, <3>1
    <3>3. /\ n <= q[i].id /\ q[i].toggle = Toggle(q[i].id)
          /\ q[i].id = r => q[i].kind = last.kind /\ q[i].items = last.items
      BY <1>1, <3>1 DEF Returning
    <3>4. q[i].id <= s /\ (q[i].id = s => q[i].id = r /\ r = s)
      BY <3>2
    <3> QED BY <3>1, <3>3, <3>4
  <2> QED BY <2>1, <2>2
<1>5. ASSUME NEW i \in 1 .. l + 1, NEW j \in i .. l + 1 PROVE both[i].id <= both[j].id
  <2>1. CASE j = l + 1
    BY <1>2, <1>4, <2>1
  <2>2. CASE j # l + 1
    <3>1. i \in 1 .. Len(q) /\ j \in i .. Len(q) /\ both[i] = q[i] /\ both[j] = q[j]
      BY <1>1, <1>2, <2>2
    <3> QED BY <3>1 DEF Returning
  <2> QED BY <2>1, <2>2
<1> QED BY <1>1, <1>2, <1>4, <1>5 DEF Returning

\* The first answer comes, or is lost.
LEMMA ReturningLess ==
  ASSUME NEW q \in Seq(AnyReply), q # <<>>, NEW n \in Nat, NEW r, NEW last, Returning(q, n, r, last),
         NEW l \in Nat, l <= q[1].id
  PROVE  Tail(q) \in Seq(AnyReply) /\ Returning(Tail(q), l, r, last)
<1>1. PICK k \in Nat, p \in Seq(AnyReply) : k = Len(q) /\ k > 0 /\ p = Tail(q)
  <2>1. Tail(q) \in Seq(AnyReply) /\ Len(q) \in Nat /\ Len(q) > 0
    BY HeadTailProperties, EmptySeq
  <2> QED BY <2>1
<1>2. Len(p) = k - 1 /\ \A i \in 1 .. k - 1 : p[i] = q[i + 1] /\ i + 1 \in 1 .. k
  BY <1>1
<1>3. ASSUME NEW i \in 1 .. k - 1
      PROVE  /\ l <= p[i].id /\ p[i].id <= r /\ p[i].toggle = Toggle(p[i].id)
             /\ p[i].id = r => p[i].kind = last.kind /\ p[i].items = last.items
  <2>1. p[i] = q[i + 1] /\ i + 1 \in 1 .. Len(q) /\ i + 1 \in 1 .. Len(q) /\ 1 \in 1 .. Len(q)
    BY <1>1, <1>2
  <2>2. q[1].id \in Nat /\ q[i + 1].id \in Nat
    <3>1. q[1] \in AnyReply /\ q[i + 1] \in AnyReply
      BY <2>1
    <3> QED BY <3>1 DEF AnyReply
  <2>3. q[1].id <= q[i + 1].id
    BY <2>1 DEF Returning
  <2>4. l <= q[i + 1].id
    BY <2>2, <2>3
  <2> QED BY <2>1, <2>4 DEF Returning
<1>4. ASSUME NEW i \in 1 .. k - 1, NEW j \in i .. k - 1 PROVE p[i].id <= p[j].id
  <2>1. i + 1 \in 1 .. Len(q) /\ j + 1 \in i + 1 .. Len(q) /\ p[i] = q[i + 1] /\ p[j] = q[j + 1]
    BY <1>1, <1>2
  <2> QED BY <2>1 DEF Returning
<1> QED BY <1>1, <1>2, <1>3, <1>4 DEF Returning

\* The toggle tells one request from the next.
LEMMA Toggles ==
  ASSUME NEW n \in Nat
  PROVE  Toggle(n) \in BOOLEAN /\ (Toggle(n + 1) = ~Toggle(n)) /\ Toggle(0) = FALSE
BY DEF Toggle

\* The modem waits for more.
LEMMA PollWaits ==
  ASSUME LinkInv, NEW n \in 1 .. Len(up), NEW q \in Seq(SaidPieces), IsEnd(q, line.buf \o SubSeq(up, 1, n)),
         UNCHANGED <<mode, script, host>>, up' = SubSeq(up, n + 1, Len(up)),
         line' = [line EXCEPT !.buf = q], down' = down \o <<>>,
         Given(modem') = Given(modem), modem.hostMode => modem'.hostMode
  PROVE  LinkInv'
<1>1. SaidPieces' = SaidPieces
  BY DEF SaidPieces, Frames, Sayings, Frame, Text, Toggle
<1>2. line \in LineWith(SaidPieces, line.last)
  BY DEF LinkInv, SerialTyped
<1>3. /\ line' \in LineWith(SaidPieces, line.last) /\ line'.buf = q /\ line'.last = line.last
      /\ line'.ran = line.ran /\ line'.toggle = line.toggle
      /\ line'.connecting = line.connecting /\ line'.crossed = line.crossed
  BY <1>2 DEF LineWith
<1>4. down' = down
  BY DEF LinkInv, SerialTyped
<1>5. SubSeq(up, n + 1, Len(up)) \in Seq(SaidPieces)
  BY ComesLater
<1>6. Coming(q \o SubSeq(up, n + 1, Len(up)), Len(line.ran), host.asked)
  BY ComesLater
<1>7. ScriptTyped' /\ SerialTyped'
  BY <1>1, <1>3, <1>4, <1>5 DEF LinkInv, ScriptTyped, SerialTyped
<1>8. InTurn'
  BY <1>3 DEF LinkInv, InTurn, Answered
<1>9. Returning(down, Len(host.answers), Answered, line.last)' /\ LastReply' /\ ~line'.crossed
  BY <1>3, <1>4 DEF LinkInv, Returning, LastReply, Answered
<1>10. Coming(line.buf \o up, Len(line.ran), host.asked)'
  BY <1>3, <1>6
<1>11. Delivered'
  BY <1>3 DEF LinkInv, Delivered, Got, LastGiven, Answered
<1> QED BY <1>7, <1>8, <1>9, <1>10, <1>11 DEF LinkInv

\* How much the host has.
LEMMA GotTyped ==
  ASSUME LinkInv, NEW kind \in KINDS
  PROVE  Got[kind] \in Nat
<1>1. host.reports \in Seq(Nat) /\ host.data \in Seq(Nat) /\ host.cat \in Seq(Nat)
  BY DEF LinkInv, SerialTyped, HostEnd, Items
<1>2. Len(host.reports) \in Nat /\ Len(host.data) \in Nat /\ Len(host.cat) \in Nat
  BY <1>1
<1> QED BY <1>2 DEF Got, KINDS

\* The modem reads the last request again.
LEMMA PollRepeats ==
  ASSUME LinkInv, NEW n \in 1 .. Len(up), UNCHANGED <<mode, script, host>>, line.connecting = <<>>, Len(line.ran) # 0,
         up' = SubSeq(up, n + 1, Len(up)), line' = [line EXCEPT !.buf = <<>>],
         down' = down \o <<Again(line.last, line.toggle)>>,
         Given(modem') = Given(modem), modem.hostMode => modem'.hostMode
  PROVE  LinkInv'
<1>1. SaidPieces' = SaidPieces
  BY DEF SaidPieces, Frames, Sayings, Frame, Text, Toggle
<1>2. PICK r \in Nat, a \in Nat, h \in Nat, last \in AnyReply :
        /\ r = Len(line.ran) /\ a = host.asked /\ h = Len(host.answers) /\ last = line.last /\ h <= r
        /\ last.id = r /\ Answered = r /\ line.toggle = Toggle(r)
  <2>1. line.last \in AnyReply /\ line.last.id = Answered
    BY Counted DEF LinkInv, LastReply
  <2> QED BY <2>1, Counted DEF LinkInv, InTurn
<1>3. PICK none \in Seq(SaidPieces) : none = <<>> /\ IsEnd(none, line.buf \o SubSeq(up, 1, n))
  <2>1. line.buf \in Seq(SaidPieces) /\ up \in Seq(SaidPieces) /\ n \in 0 .. Len(up)
    BY DEF LinkInv, SerialTyped, LineWith
  <2>2. PICK first \in Seq(SaidPieces) : first = SubSeq(up, 1, n)
    BY <2>1, Slice
  <2>3. line.buf \o first \in Seq(SaidPieces)
    BY <2>1
  <2>4. IsEnd(<<>>, line.buf \o first)
    BY <2>3, SliceEnds
  <2>5. <<>> \in Seq(SaidPieces)
    OBVIOUS
  <2> QED BY <2>2, <2>4, <2>5
<1>4. SubSeq(up, n + 1, Len(up)) \in Seq(SaidPieces) /\ Coming(none \o SubSeq(up, n + 1, Len(up)), r, a)
  BY <1>2, <1>3, ComesLater
<1>5. line \in LineWith(SaidPieces, line.last)
  BY DEF LinkInv, SerialTyped
<1>6. /\ line' \in LineWith(SaidPieces, line.last) /\ line'.buf = none /\ line'.last = line.last
      /\ line'.ran = line.ran /\ line'.toggle = line.toggle
      /\ line'.connecting = line.connecting /\ line'.crossed = line.crossed
  BY <1>3, <1>5 DEF LineWith
<1>7. PICK p : p = Again(last, Toggle(r))
  OBVIOUS
<1>8. /\ p \in AnyReply /\ p.id = r /\ p.toggle = Toggle(r) /\ p.kind = last.kind /\ p.items = last.items
  <2>1. PICK w \in BOOLEAN : w = (last.kept /\ Range(last.items) \cap Stuffed = {})
    OBVIOUS
  <2>2. PICK x \in Truth, y \in Truth : x = Toggle(r) /\ y = w
    BY Toggles DEF Truth
  <2>3. p = [last EXCEPT !.toggle = x, !.whole = y]
    BY <1>7, <2>1, <2>2 DEF Again
  <2>4. p \in AnyReply /\ p.id = r /\ p.toggle = x /\ p.kind = last.kind /\ p.items = last.items
    BY <1>2, <2>3 DEF AnyReply
  <2> QED BY <2>1, <2>2, <2>4
<1>10. down' = down \o <<p>>
  BY <1>2, <1>7
<1>11. down \in Seq(AnyReply) /\ Returning(down, h, r, last)
  BY <1>2 DEF LinkInv, SerialTyped
<1>12. down' \in Seq(AnyReply) /\ Returning(down', h, r, last)
  <2>1. /\ p \in AnyReply /\ h <= r /\ r <= r /\ p.id = r /\ p.toggle = Toggle(r)
        /\ p.kind = last.kind /\ p.items = last.items
    BY <1>2, <1>8
  <2>2. down \in Seq(AnyReply) /\ Returning(down, h, r, last)
    BY <1>11
  <2>3. Returning(down \o <<p>>, h, r, last)
    BY <2>1, <2>2, ReturningMore
  <2>4. down \o <<p>> \in Seq(AnyReply)
    BY <2>1, <2>2
  <2> QED BY <1>10, <2>3, <2>4
<1>13. ScriptTyped' /\ SerialTyped'
  BY <1>1, <1>4, <1>6, <1>12 DEF LinkInv, ScriptTyped, SerialTyped
<1>14. InTurn'
  BY <1>6 DEF LinkInv, InTurn, Answered
<1>15. Returning(down, Len(host.answers), Answered, line.last)'
  BY <1>2, <1>6, <1>12 DEF Answered
<1>16. LastReply' /\ ~line'.crossed
  BY <1>6 DEF LinkInv, LastReply, Answered
<1>17. Coming(line.buf \o up, Len(line.ran), host.asked)'
  BY <1>2, <1>4, <1>6
<1>18. Delivered'
  <2>1. Got' = Got
    BY DEF Got
  <2>2. \A kind \in KINDS : LastGiven(kind)' = LastGiven(kind)
    BY <1>6 DEF LastGiven, Answered
  <2> QED BY <1>6, <2>1, <2>2 DEF LinkInv, Delivered
<1> QED BY <1>13, <1>14, <1>15, <1>16, <1>17, <1>18 DEF LinkInv

\* What a request, done once, hands over: something of one kind, or nothing.
HandsOver(old, new) ==
  \/ new = old
  \/ \E kind \in KINDS : new[kind] > old[kind] /\ \A other \in KINDS \ {kind} : new[other] = old[other]

\* What a request hands over follows what the host has.
LEMMA RunDelivers ==
  ASSUME Delivered, \A kind \in KINDS : Got[kind] \in Nat, host' = host,
         Len(host.answers) >= Answered, Len(host.answers) < Answered',
         Answered \in Nat, Len(host.answers) \in Nat, NEW t, Given(t) = Given(modem), NEW done, Handed(t, done), modem' = done.modem,
         line'.last.kind = done.kind, line'.last.items = done.items
  PROVE  Delivered' /\ HandsOver(Given(modem), Given(modem'))
<1>1. ASSUME NEW kind \in KINDS
       PROVE  /\ Given(modem)[kind] = Got[kind] /\ Got'[kind] = Got[kind] /\ Got[kind] \in Nat
              /\ LastGiven(kind)' = IF done.kind = kind THEN Len(done.items) ELSE 0
  <2>1. Got' = Got
    BY DEF Got
  <2>2. LastGiven(kind) = 0
    BY DEF LastGiven
  <2>3. LastGiven(kind)' = IF done.kind = kind THEN Len(done.items) ELSE 0
    <3>1. Len(host'.answers) < Answered'
      OBVIOUS
    <3>2. line'.last.kind = done.kind /\ line'.last.items = done.items
      OBVIOUS
    <3>3. LastGiven(kind)' = IF Len(host'.answers) < Answered' /\ line'.last.kind = kind
                             THEN Len(line'.last.items) ELSE 0
      BY DEF LastGiven
    <3> QED BY <3>1, <3>2, <3>3
  <2>4. Got[kind] \in Nat
    OBVIOUS
  <2> QED BY <2>1, <2>2, <2>3, <2>4 DEF Delivered
<1>2. Delivered'
  <2>1. ASSUME NEW kind \in KINDS
        PROVE  /\ Given(modem)'[kind] = Got'[kind] + LastGiven(kind)'
               /\ \A j \in 1 .. LastGiven(kind)' : line'.last.items[j] = Got'[kind] + j
    <3>1. /\ Given(t)[kind] = Got'[kind] /\ Got'[kind] \in Nat
          /\ LastGiven(kind)' = IF done.kind = kind THEN Len(done.items) ELSE 0
      BY <1>1
    <3>2. CASE done.kind = kind
      <4>1. /\ Given(modem')[kind] = Given(t)[kind] + Len(done.items)
            /\ \A j \in 1 .. Len(done.items) : done.items[j] = Given(t)[kind] + j
        BY <3>2 DEF Handed
      <4>2. line'.last.items = done.items
        OBVIOUS
      <4> QED BY <3>1, <3>2, <4>1, <4>2
    <3>3. CASE done.kind # kind
      <4>1. Given(modem')[kind] = Given(t)[kind]
        BY <3>3 DEF Handed
      <4>2. LastGiven(kind)' = 0
        BY <3>1, <3>3
      <4> QED BY <3>1, <4>1, <4>2
    <3> QED BY <3>2, <3>3
  <2> QED BY <2>1 DEF Delivered
<1>3. HandsOver(Given(modem), Given(modem'))
  <2>1. \A other \in KINDS : done.kind # other => Given(modem')[other] = Given(modem)[other]
    BY DEF Handed
  <2>2. CASE done.kind \in KINDS /\ Len(done.items) > 0
    <3>1. Given(modem')[done.kind] = Given(modem)[done.kind] + Len(done.items)
      BY <2>2 DEF Handed
    <3>2. Given(modem)[done.kind] \in Nat
      BY <1>1, <2>2
    <3>3. Len(done.items) \in Nat
      BY DEF Handed, Items
    <3>4. Given(modem')[done.kind] > Given(modem)[done.kind]
      BY <2>2, <3>1, <3>2, <3>3
    <3> QED BY <2>1, <2>2, <3>4 DEF HandsOver
  <2>3. CASE ~(done.kind \in KINDS /\ Len(done.items) > 0)
    <3>1. ASSUME NEW other \in KINDS PROVE Given(modem')[other] = Given(modem)[other]
      <4>1. CASE done.kind = other
        <5>1. Len(done.items) = 0
          BY <2>3, <4>1 DEF Handed, Items
        <5>2. Given(modem')[other] = Given(modem)[other] + Len(done.items)
          BY <4>1 DEF Handed
        <5>3. Given(modem)[other] \in Nat
          BY <1>1
        <5> QED BY <5>1, <5>2, <5>3
      <4> QED BY <2>1, <4>1
    <3>2. Given(modem') = Given(modem)
      BY <3>1 DEF Given, KINDS
    <3> QED BY <3>2 DEF HandsOver
  <2> QED BY <2>2, <2>3
<1> QED BY <1>2, <1>3

\* A request is new only when all before it were answered.
LEMMA NextIs ==
  ASSUME LinkInv, Len(line.ran) < host.asked
  PROVE  /\ host.asked = Len(line.ran) + 1 /\ Len(host.answers) = Len(line.ran) /\ Answered = Len(line.ran)
         /\ line.connecting = <<>>
<1>1. PICK r \in Nat, a \in Nat, h \in Nat, d \in Nat :
        /\ r = Len(line.ran) /\ a = host.asked /\ h = Len(host.answers) /\ d = Answered
        /\ h <= d /\ d <= r /\ r < a /\ a <= h + 1
  BY Counted
<1>2. a = r + 1 /\ h = r /\ d = r
  <2>1. h <= d /\ d <= r /\ r < a /\ a <= h + 1
    BY <1>1
  <2> QED BY <2>1
<1>3. line.connecting # <<>> => d = r - 1
  BY <1>1 DEF Answered
<1>4. r - 1 # r
  OBVIOUS
<1> QED BY <1>1, <1>2, <1>3, <1>4

\* What a request makes of the line's record.
CallOn(l, f) ==
  [l EXCEPT !.buf = <<>>, !.toggle = f.toggle, !.ran = Append(l.ran, f.id),
            !.connecting = Append(l.connecting, f.id)]
AnswerOn(l, f, reply) ==
  [l EXCEPT !.buf = <<>>, !.toggle = f.toggle, !.last = reply, !.ran = Append(l.ran, f.id)]

\* The modem reads a new request, and does what it says.
LEMMA PollRuns ==
  ASSUME LinkInv, NEW n \in 1 .. Len(up), UNCHANGED <<mode, script, host>>,
         up' = SubSeq(up, n + 1, Len(up)), Len(line.ran) < host.asked,
         NEW i \in 1 .. Len(line.buf \o SubSeq(up, 1, n)), NEW f, f = (line.buf \o SubSeq(up, 1, n))[i].frame,
         f.id = host.asked, f.toggle = Toggle(host.asked),
         NEW t, Given(t) = Given(modem), t.hostMode, NEW done, Handed(t, done), modem' = done.modem,
         line' = [line EXCEPT !.buf = <<>>, !.toggle = f.toggle, !.last = Reply(f, done),
                              !.ran = Append(line.ran, f.id)],
         down' = down \o <<Reply(f, done)>>
  PROVE  LinkInv' /\ line'.ran = UpTo0(Len(line.ran) + 1) /\ HandsOver(Given(modem), Given(modem'))
<1>1. SaidPieces' = SaidPieces
  BY DEF SaidPieces, Frames, Sayings, Frame, Text, Toggle
<1>2. PICK r \in Nat, a \in Nat, h \in Nat :
        /\ r = Len(line.ran) /\ a = host.asked /\ h = Len(host.answers)
        /\ h <= Answered /\ Answered <= r /\ r < a /\ a <= h + 1 /\ Answered \in Nat
  BY Counted
<1>3. a = r + 1 /\ h = r /\ Answered = r /\ line.connecting = <<>>
  BY <1>2, NextIs
<1>4. PICK p : p = Reply(f, done)
  OBVIOUS
<1>5. /\ p \in AnyReply /\ p.id = a /\ p.toggle = Toggle(a) /\ p.kind = done.kind /\ p.items = done.items
      /\ p.kept = done.kept /\ p.whole = TRUE
  <2>1. PICK x \in Truth, y \in Truth : x = Toggle(a) /\ y = TRUE
    BY Toggles DEF Truth
  <2>2. p = [id |-> a, toggle |-> x, kind |-> done.kind, items |-> done.items, kept |-> done.kept, whole |-> y]
    BY <1>2, <1>4, <2>1 DEF Reply
  <2>3. a \in Nat \ {0} /\ done.kind \in ReplyKinds /\ done.items \in Items /\ done.kept \in Truth
    BY <1>3 DEF Handed
  <2>4. p \in AnyReply
    BY <2>2, <2>3 DEF AnyReply
  <2>5. /\ p.id = a /\ p.toggle = x /\ p.kind = done.kind /\ p.items = done.items
        /\ p.kept = done.kept /\ p.whole = y
    BY <2>2
  <2> QED BY <2>1, <2>4, <2>5
<1>6. line \in LineWith(SaidPieces, line.last) /\ line.ran = UpTo0(r)
  BY <1>2 DEF LinkInv, SerialTyped, InTurn
<1>7. PICK ran \in Items : ran = Append(line.ran, a) /\ ran = UpTo0(a) /\ Len(ran) = a
  <2>1. line.ran \in Seq(Nat)
    BY <1>6 DEF LineWith, Items
  <2>2. Append(line.ran, a) \in Seq(Nat) /\ Append(line.ran, a) = UpTo0(a) /\ Len(UpTo0(a)) = a
    BY <1>2, <1>3, <1>6, <2>1 DEF UpTo0
  <2> QED BY <2>2 DEF Items
<1>8. PICK none \in Seq(SaidPieces) : none = <<>>
  <2>1. <<>> \in Seq(SaidPieces)
    OBVIOUS
  <2> QED BY <2>1
<1>9. /\ line' \in LineWith(SaidPieces, p) /\ line'.buf = none /\ line'.last = p
      /\ line'.ran = ran /\ line'.toggle = Toggle(a) /\ line'.connecting = <<>> /\ line'.crossed = line.crossed
  <2>1. PICK x \in Truth : x = Toggle(a)
    BY Toggles DEF Truth
  <2>2. line' = [line EXCEPT !.buf = none, !.toggle = x, !.last = p, !.ran = ran]
    BY <1>2, <1>4, <1>7, <1>8, <2>1
  <2>3. /\ line' \in LineWith(SaidPieces, p) /\ line'.buf = none /\ line'.last = p
        /\ line'.ran = ran /\ line'.toggle = x
        /\ line'.connecting = line.connecting /\ line'.crossed = line.crossed
    BY <1>6, <2>2 DEF LineWith
  <2> QED BY <1>3, <2>1, <2>3
<1>0. Answered' = a
  BY <1>7, <1>9 DEF Answered
<1>10. SubSeq(up, n + 1, Len(up)) \in Seq(SaidPieces) /\ Coming(none \o SubSeq(up, n + 1, Len(up)), a, a)
  <2>1. line.buf \in Seq(SaidPieces) /\ up \in Seq(SaidPieces) /\ n \in 0 .. Len(up)
    BY DEF LinkInv, SerialTyped, LineWith
  <2>2. PICK first \in Seq(SaidPieces) : first = SubSeq(up, 1, n)
    BY <2>1, Slice
  <2>3. line.buf \o first \in Seq(SaidPieces)
    BY <2>1
  <2>4. IsEnd(none, line.buf \o first)
    BY <1>8, <2>3, SliceEnds
  <2>5. IsEnd(none, line.buf \o SubSeq(up, 1, n))
    BY <2>2, <2>4
  <2>6. Coming(none \o SubSeq(up, n + 1, Len(up)), host.asked, host.asked)
    BY <1>8, <2>5, ComesLater
  <2>7. SubSeq(up, n + 1, Len(up)) \in Seq(SaidPieces)
    BY <2>5, ComesLater
  <2> QED BY <1>2, <2>6, <2>7
<1>11. down \in Seq(AnyReply) /\ Returning(down, h, r, line.last)
  BY <1>2, <1>3 DEF LinkInv, SerialTyped
<1>12. down' \in Seq(AnyReply) /\ Returning(down', h, a, p)
  <2>2. h <= a /\ r <= a /\ r # a
    BY <1>3
  <2>3. p \in AnyReply /\ p.id = a /\ p.toggle = Toggle(a)
    BY <1>5
  <2>4. down \in Seq(AnyReply) /\ Returning(down, h, r, line.last)
    BY <1>11
  <2>5. Returning(down \o <<p>>, h, a, p)
    BY <1>5, <2>2, <2>3, <2>4, ReturningMore
  <2>6. down \o <<p>> \in Seq(AnyReply)
    BY <2>3, <2>4
  <2> QED BY <1>4, <2>5, <2>6
<1>13. ScriptTyped' /\ SerialTyped'
  BY <1>1, <1>5, <1>9, <1>10, <1>12 DEF LinkInv, ScriptTyped, SerialTyped
<1>14. InTurn'
  <2>1. modem'.hostMode
    BY DEF Handed
  <2>2. h <= a
    BY <1>3
  <2> QED BY <1>0, <1>2, <1>7, <1>9, <2>1, <2>2 DEF LinkInv, InTurn
<1>15. Returning(down, Len(host.answers), Answered, line.last)'
  BY <1>0, <1>2, <1>9, <1>12
<1>16. LastReply' /\ ~line'.crossed
  <2>1. a # 0
    BY <1>3
  <2> QED BY <1>0, <1>5, <1>9, <2>1 DEF LinkInv, LastReply
<1>17. Coming(line.buf \o up, Len(line.ran), host.asked)'
  BY <1>2, <1>7, <1>9, <1>10
<1>18. Delivered' /\ HandsOver(Given(modem), Given(modem'))
  <2>1. \A kind \in KINDS : Got[kind] \in Nat
    BY GotTyped
  <2>2. /\ Len(host.answers) >= Answered /\ Len(host.answers) < Answered'
        /\ Answered \in Nat /\ Len(host.answers) \in Nat
    BY <1>0, <1>2, <1>3
  <2>3. line'.last.kind = done.kind /\ line'.last.items = done.items
    BY <1>5, <1>9
  <2>4. Delivered
    BY DEF LinkInv
  <2> QED BY <2>1, <2>2, <2>3, <2>4, RunDelivers
<1>19. line'.ran = UpTo0(Len(line.ran) + 1)
  BY <1>2, <1>3, <1>7, <1>9
<1> QED BY <1>13, <1>14, <1>15, <1>16, <1>17, <1>18, <1>19 DEF LinkInv

\* What is sent again, and what is sent at first.
LEMMA AgainTyped ==
  ASSUME NEW last \in AnyReply, NEW x \in Truth
  PROVE  /\ Again(last, x) \in AnyReply /\ Again(last, x).id = last.id /\ Again(last, x).toggle = x
         /\ Again(last, x).kind = last.kind /\ Again(last, x).items = last.items
<1>1. PICK y \in Truth : y = (last.kept /\ Range(last.items) \cap Stuffed = {})
  BY DEF Truth
<1>2. Again(last, x) = [last EXCEPT !.toggle = x, !.whole = y]
  BY <1>1 DEF Again
<1> QED BY <1>2 DEF AnyReply
LEMMA ReplyTyped ==
  ASSUME NEW f, f.id \in Nat \ {0}, f.toggle \in Truth, NEW done, done.kind \in ReplyKinds, done.items \in Items,
         done.kept \in Truth
  PROVE  Reply(f, done) \in AnyReply
<1>1. PICK y \in Truth : y = TRUE
  BY DEF Truth
<1>2. Reply(f, done) = [id |-> f.id, toggle |-> f.toggle, kind |-> done.kind, items |-> done.items,
                        kept |-> done.kept, whole |-> y]
  BY <1>1 DEF Reply
<1> QED BY <1>2 DEF AnyReply

\* The modem reads a new request 'C', and its call is on the air.
LEMMA PollCalls ==
  ASSUME LinkInv, NEW n \in 1 .. Len(up), UNCHANGED <<mode, script, host>>,
         up' = SubSeq(up, n + 1, Len(up)), Len(line.ran) < host.asked,
         NEW i \in 1 .. Len(line.buf \o SubSeq(up, 1, n)), NEW f, f = (line.buf \o SubSeq(up, 1, n))[i].frame,
         f.id = host.asked, f.toggle = Toggle(host.asked),
         NEW t, Given(t) = Given(modem), t.hostMode, NEW done, Handed(t, done), done.kind = "ack",
         modem' = done.modem,
         line' = [line EXCEPT !.buf = <<>>, !.toggle = f.toggle, !.ran = Append(line.ran, f.id),
                              !.connecting = Append(line.connecting, f.id)],
         down' = down \o <<>>
  PROVE  LinkInv' /\ line'.ran = UpTo0(Len(line.ran) + 1) /\ HandsOver(Given(modem), Given(modem'))
<1>1. SaidPieces' = SaidPieces
  BY DEF SaidPieces, Frames, Sayings, Frame, Text, Toggle
<1>2. PICK r \in Nat, a \in Nat, h \in Nat :
        /\ r = Len(line.ran) /\ a = host.asked /\ h = Len(host.answers)
        /\ h <= Answered /\ Answered <= r /\ r < a /\ a <= h + 1 /\ Answered \in Nat
  BY Counted
<1>3. a = r + 1 /\ h = r /\ Answered = r /\ line.connecting = <<>>
  BY <1>2, NextIs
<1>4. line \in LineWith(SaidPieces, line.last) /\ line.ran = UpTo0(r) /\ down \in Seq(AnyReply)
  BY <1>2 DEF LinkInv, SerialTyped, InTurn
<1>5. PICK ran \in Items : ran = Append(line.ran, a) /\ ran = UpTo0(a) /\ Len(ran) = a
  <2>1. line.ran \in Seq(Nat)
    BY <1>4 DEF LineWith, Items
  <2>2. Append(line.ran, a) \in Seq(Nat) /\ Append(line.ran, a) = UpTo0(a) /\ Len(UpTo0(a)) = a
    BY <1>2, <1>3, <1>4, <2>1 DEF UpTo0
  <2> QED BY <2>2 DEF Items
<1>6. PICK none \in Seq(SaidPieces) : none = <<>>
  <2>1. <<>> \in Seq(SaidPieces)
    OBVIOUS
  <2> QED BY <2>1
<1>7. PICK calls \in Seq(Nat \ {0}) : calls = Append(line.connecting, a) /\ calls = <<a>> /\ calls # <<>>
  <2>1. Append(line.connecting, a) = <<a>> /\ <<a>> # <<>>
    BY <1>3
  <2>2. a \in Nat \ {0}
    BY <1>2
  <2>3. <<a>> \in Seq(Nat \ {0})
    BY <2>2
  <2> QED BY <2>1, <2>3
<1>8. /\ line' \in LineWith(SaidPieces, line.last) /\ line'.buf = none /\ line'.last = line.last
      /\ line'.ran = ran /\ line'.toggle = Toggle(a) /\ line'.connecting = calls /\ line'.crossed = line.crossed
  <2>1. PICK x \in Truth : x = Toggle(a)
    BY Toggles DEF Truth
  <2>2. line' = [line EXCEPT !.buf = none, !.toggle = x, !.ran = ran, !.connecting = calls]
    BY <1>2, <1>5, <1>6, <1>7, <2>1
  <2> QED BY <1>4, <2>1, <2>2 DEF LineWith
<1>9. Answered' = r /\ down' = down
  <2>1. line'.connecting # <<>> /\ Len(line'.ran) = r + 1
    BY <1>3, <1>5, <1>7, <1>8
  <2>2. Answered' = Len(line'.ran) - 1
    BY <2>1 DEF Answered
  <2>3. r + 1 - 1 = r
    OBVIOUS
  <2> QED BY <1>4, <2>1, <2>2, <2>3
<1>10. SubSeq(up, n + 1, Len(up)) \in Seq(SaidPieces) /\ Coming(none \o SubSeq(up, n + 1, Len(up)), a, a)
  <2>1. line.buf \in Seq(SaidPieces) /\ up \in Seq(SaidPieces) /\ n \in 0 .. Len(up)
    BY DEF LinkInv, SerialTyped, LineWith
  <2>2. PICK first \in Seq(SaidPieces) : first = SubSeq(up, 1, n)
    BY <2>1, Slice
  <2>3. line.buf \o first \in Seq(SaidPieces)
    BY <2>1
  <2>4. IsEnd(none, line.buf \o first)
    BY <1>6, <2>3, SliceEnds
  <2>5. IsEnd(none, line.buf \o SubSeq(up, 1, n))
    BY <2>2, <2>4
  <2>6. Coming(none \o SubSeq(up, n + 1, Len(up)), host.asked, host.asked)
    BY <1>6, <2>5, ComesLater
  <2>7. SubSeq(up, n + 1, Len(up)) \in Seq(SaidPieces)
    BY <2>5, ComesLater
  <2> QED BY <1>2, <2>6, <2>7
<1>11. ScriptTyped' /\ SerialTyped'
  BY <1>1, <1>4, <1>8, <1>9, <1>10 DEF LinkInv, ScriptTyped, SerialTyped
<1>12. InTurn'
  <2>1. modem'.hostMode
    BY DEF Handed
  <2>2. h <= r /\ a # 0 /\ a <= a
    BY <1>3
  <2> QED BY <1>2, <1>5, <1>7, <1>8, <1>9, <2>1, <2>2 DEF LinkInv, InTurn
<1>13. Returning(down, Len(host.answers), Answered, line.last)' /\ LastReply' /\ ~line'.crossed
  BY <1>3, <1>8, <1>9 DEF LinkInv, LastReply
<1>14. Coming(line.buf \o up, Len(line.ran), host.asked)'
  BY <1>2, <1>5, <1>8, <1>10
<1>15. Given(modem') = Given(modem)
  BY DEF Handed, Given, KINDS
<1>16. Delivered'
  <2>1. Got' = Got
    BY DEF Got
  <2>2. \A kind \in KINDS : LastGiven(kind)' = LastGiven(kind)
    BY <1>3, <1>8, <1>9 DEF LastGiven
  <2> QED BY <1>8, <1>15, <2>1, <2>2 DEF LinkInv, Delivered
<1>17. line'.ran = UpTo0(Len(line.ran) + 1)
  BY <1>2, <1>3, <1>5, <1>8
<1> QED BY <1>11, <1>12, <1>13, <1>14, <1>15, <1>16, <1>17 DEF LinkInv, HandsOver

\* SerialHostPoll, with what it reads.
LEMMA PollTakes ==
  ASSUME Kept(modem), ScriptTyped, SerialTyped, ~modem.hostMode => line.toggle = FALSE,
         NEW n \in 1 .. Len(up), SerialHostPoll(n)
  PROVE  /\ mode = "serial" /\ UNCHANGED <<mode, script, host>> /\ up' = SubSeq(up, n + 1, Len(up))
         /\ up' \in Seq(SaidPieces)
         /\ \E first \in Seq(SaidPieces) :
              /\ first = SubSeq(up, 1, n)
              /\ \E o, t : /\ modem' = o.modem /\ line' = o.line /\ down' = down \o o.replies
                           /\ Kept(t) /\ Given(t) = Given(modem) /\ (modem.hostMode => t.hostMode)
                           /\ TakesTo(SaidPieces, line, line.buf \o first, t, o)
<1>1. line.buf \in Seq(SaidPieces) /\ up \in Seq(SaidPieces) /\ n \in 0 .. Len(up)
  BY DEF SerialTyped, LineWith
<1>2. mode = "serial"
  <2>1. up[n] \in SaidPieces
    BY <1>1
  <2> QED BY <2>1 DEF SaidPieces
<1>3. PICK first \in Seq(SaidPieces) : first = SubSeq(up, 1, n)
  BY <1>1, Slice
<1>4. PICK o : o = TakeBytes(modem, line, first)
  OBVIOUS
<1>5. /\ modem' = o.modem /\ line' = o.line /\ down' = down \o o.replies /\ up' = SubSeq(up, n + 1, Len(up))
      /\ UNCHANGED <<mode, script, host>>
  BY <1>2, <1>3, <1>4 DEF SerialHostPoll, Become
<1>6. PICK t : /\ Kept(t) /\ Given(t) = Given(modem) /\ (modem.hostMode => t.hostMode)
               /\ TakesTo(SaidPieces, line, line.buf \o first, t, o)
  <2>1. ArePieces(SaidPieces)
    BY SaidTyped
  <2>2. line \in LineWith(SaidPieces, line.last)
    BY DEF SerialTyped
  <2> QED BY <1>4, <2>1, <2>2, Takes
<1>7. SubSeq(up, n + 1, Len(up)) \in Seq(SaidPieces)
  BY <1>1, Slice
<1> QED BY <1>2, <1>3, <1>5, <1>6, <1>7

\* A frame that is read is one of the script's requests.
LEMMA FrameOf ==
  ASSUME ScriptTyped, SerialTyped, NEW first \in Seq(SaidPieces),
         NEW i \in 1 .. Len(line.buf \o first), ~IsText((line.buf \o first)[i])
  PROVE  \E k \in 1 .. Len(script.asks) :
           LET f == (line.buf \o first)[i].frame
           IN /\ f = Frame(k) /\ f.id = k /\ f.toggle = Toggle(k) /\ f.ask = script.asks[k]
              /\ k \in Nat \ {0} /\ IsRequest(f.ask)
<1>1. line.buf \in Seq(SaidPieces)
  BY DEF SerialTyped, LineWith
<1>2. PICK p \in SaidPieces : p = (line.buf \o first)[i] /\ ~IsText(p)
  BY <1>1
<1>3. PICK k \in 1 .. Len(script.asks) : p.frame = Frame(k) /\ p.frame.id = k
  BY <1>2, SaidTyped
<1>4. mode = "serial"
  BY <1>2 DEF SaidPieces
<1>5. p.frame.toggle = Toggle(k) /\ p.frame.ask = script.asks[k] /\ IsRequest(p.frame.ask)
  BY <1>3, <1>4, SerialScript DEF Frame
<1>6. k \in Nat \ {0}
  BY <1>4, SerialScript
<1> QED BY <1>2, <1>3, <1>5, <1>6

\* So does Do.
LEMMA DoCalls ==
  ASSUME NEW P, NEW last, NEW l \in LineWith(P, last), NEW m, NEW f, NEW done,
         done = ProcessSCSHostFrame(m, f.ask), Plays(m, f.ask)
  PROVE  done.kind = "ack" /\ Do(m, l, f) = Outcome(done.modem, CallOn(l, f), <<>>)
<1>1. done.kind = "ack"
  BY DEF Plays, ProcessSCSHostFrame, Plain, Holding
<1>2. [Began(l, f) EXCEPT !.connecting = Append(@, f.id)] = CallOn(l, f)
  BY DEF Began, LineWith, CallOn
<1> QED BY <1>1, <1>2 DEF Do
LEMMA DoAnswers ==
  ASSUME NEW P, NEW last, NEW l \in LineWith(P, last), NEW m, NEW f, NEW done,
         done = ProcessSCSHostFrame(m, f.ask), ~Plays(m, f.ask)
  PROVE  Do(m, l, f) = Outcome(done.modem, AnswerOn(l, f, Reply(f, done)), <<Reply(f, done)>>)
<1>1. PICK p : p = Reply(f, done)
  OBVIOUS
<1>2. [Began(l, f) EXCEPT !.last = p] = AnswerOn(l, f, p)
  BY DEF Began, LineWith, AnswerOn
<1> QED BY <1>1, <1>2 DEF Do

\* Whatever crosses, what is said and kept is typed.
LEMMA PollTyped ==
  ASSUME Kept(modem), ScriptTyped, SerialTyped, ~modem.hostMode => line.toggle = FALSE,
         NEW n \in 1 .. Len(up), SerialHostPoll(n)
  PROVE  /\ Kept(modem') /\ ScriptTyped' /\ SerialTyped' /\ (modem.hostMode => modem'.hostMode)
         /\ line.crossed => line'.crossed
<1>0. UNCHANGED <<mode, script, host>> /\ up' \in Seq(SaidPieces)
  BY PollTakes
<1>1. SaidPieces' = SaidPieces
  BY <1>0 DEF SaidPieces, Frames, Sayings, Frame, Text, Toggle
<1>2. UNCHANGED <<mode, script, host>> /\ up' \in Seq(SaidPieces) /\ ScriptTyped'
  BY <1>0 DEF ScriptTyped
<1>3. PICK first \in Seq(SaidPieces) :
        \E o, t : /\ modem' = o.modem /\ line' = o.line /\ down' = down \o o.replies
                  /\ Kept(t) /\ Given(t) = Given(modem) /\ (modem.hostMode => t.hostMode)
                  /\ TakesTo(SaidPieces, line, line.buf \o first, t, o)
  BY PollTakes
<1>4. PICK o, t : /\ modem' = o.modem /\ line' = o.line /\ down' = down \o o.replies
                  /\ Kept(t) /\ (modem.hostMode => t.hostMode)
                  /\ TakesTo(SaidPieces, line, line.buf \o first, t, o)
  BY <1>3
<1>5. /\ line \in LineWith(SaidPieces, line.last) /\ (line.last = NoReply \/ line.last \in AnyReply)
      /\ down \in Seq(AnyReply)
  BY DEF SerialTyped
<1>11. down \in Seq(AnyReply)
  BY <1>5
<1>12. Kept(t)
  BY <1>4
<1>6. ASSUME NEW last, last = NoReply \/ last \in AnyReply, line' \in LineWith(SaidPieces, last),
             down' \in Seq(AnyReply)
      PROVE  SerialTyped'
  <2>1. line'.last = last
    BY <1>6 DEF LineWith
  <2> QED BY <1>1, <1>2, <1>6, <2>1 DEF SerialTyped
<1>7. PICK none \in Seq(SaidPieces) : none = <<>>
  <2>1. <<>> \in Seq(SaidPieces)
    OBVIOUS
  <2> QED BY <2>1
<1>8. ASSUME NEW q \in Seq(SaidPieces), o = Outcome(t, [line EXCEPT !.buf = q], <<>>)
      PROVE  Kept(modem') /\ SerialTyped' /\ (modem.hostMode => modem'.hostMode) /\ (line.crossed => line'.crossed)
  <2>1. modem' = t /\ line' = [line EXCEPT !.buf = q] /\ down' = down \o <<>>
    BY <1>4, <1>8 DEF Outcome
  <2>2. line' \in LineWith(SaidPieces, line.last) /\ line'.crossed = line.crossed
    BY <1>5, <2>1 DEF LineWith
  <2>3. down' \in Seq(AnyReply)
    BY <1>5, <2>1
  <2> QED BY <1>4, <1>5, <1>6, <2>1, <2>2, <2>3
<1>9. ASSUME t.hostMode, NEW i \in 1 .. Len(line.buf \o first), ~IsText((line.buf \o first)[i]),
             o = TakeFrame(t, line, (line.buf \o first)[i].frame)
      PROVE  Kept(modem') /\ SerialTyped' /\ modem'.hostMode /\ (line.crossed => line'.crossed)
  <2>0. PICK f : f = (line.buf \o first)[i].frame
    OBVIOUS
  <2>1. PICK k \in 1 .. Len(script.asks) :
          /\ f = (line.buf \o first)[i].frame /\ f.id = k /\ f.toggle = Toggle(k)
          /\ k \in Nat \ {0} /\ IsRequest(f.ask)
    BY <1>9, <2>0, FrameOf
  <2>2. CASE f.toggle = line.toggle
    <3>1. PICK l \in LineWith(SaidPieces, line.last) :
            /\ l = [line EXCEPT !.buf = <<>>] /\ l.last = line.last /\ l.toggle = line.toggle
            /\ l.connecting = line.connecting /\ l.crossed = line.crossed
      <4>1. PICK l : l = [line EXCEPT !.buf = none]
        OBVIOUS
      <4>2. /\ l \in LineWith(SaidPieces, line.last) /\ l.last = line.last /\ l.toggle = line.toggle
            /\ l.connecting = line.connecting /\ l.crossed = line.crossed
        BY <1>5, <4>1 DEF LineWith
      <4> QED BY <1>7, <4>1, <4>2
    <3>2. o = SayAgain(t, l)
      BY <1>9, <2>1, <2>2, <3>1 DEF TakeFrame
    <3>3. CASE line.last = NoReply
      <4>0. o = Outcome(t, l, <<>>)
        BY <3>1, <3>2, <3>3 DEF SayAgain
      <4>1. modem' = t /\ line' = l /\ down' = down \o <<>>
        BY <1>4, <4>0 DEF Outcome
      <4>2. down' \in Seq(AnyReply)
        BY <1>11, <4>1
      <4>3. Kept(modem') /\ modem'.hostMode /\ (line.crossed => line'.crossed)
        BY <1>12, <1>9, <3>1, <4>1
      <4>4. SerialTyped'
        BY <1>5, <1>6, <3>1, <4>1, <4>2
      <4> QED BY <4>3, <4>4
    <3>4. CASE line.last # NoReply
      <4>1. PICK x \in Truth : x = (line.crossed \/ line.connecting # <<>>)
        BY DEF Truth
      <4>2. o = Outcome(t, [l EXCEPT !.crossed = x], <<Again(line.last, line.toggle)>>)
        BY <3>1, <3>2, <3>4, <4>1 DEF SayAgain
      <4>3. modem' = t /\ line' = [l EXCEPT !.crossed = x] /\ down' = down \o <<Again(line.last, line.toggle)>>
        BY <1>4, <4>2 DEF Outcome
      <4>4. line' \in LineWith(SaidPieces, line.last) /\ line'.crossed = x
        BY <4>3 DEF LineWith
      <4>5. Again(line.last, line.toggle) \in AnyReply
        <5>1. line.last \in AnyReply /\ line.toggle \in Truth
          BY <1>5, <3>4 DEF LineWith
        <5> QED BY <5>1, AgainTyped
      <4>6. down' \in Seq(AnyReply)
        BY <1>11, <4>3, <4>5
      <4>7. Kept(modem') /\ modem'.hostMode /\ (line.crossed => line'.crossed)
        BY <1>12, <1>9, <4>1, <4>3, <4>4
      <4>8. SerialTyped'
        BY <1>5, <1>6, <4>4, <4>6
      <4> QED BY <4>7, <4>8
    <3> QED BY <3>3, <3>4
  <2>3. CASE f.toggle # line.toggle
    <3>1. PICK done : done = ProcessSCSHostFrame(t, f.ask)
      OBVIOUS
    <3>2. Handed(t, done)
      BY <1>4, <2>1, <3>1, FrameHands
    <3>3. Kept(done.modem) /\ done.modem.hostMode
      BY <1>9, <3>2 DEF Handed
    <3>4. o = Do(t, line, f)
      BY <1>9, <2>1, <2>3 DEF TakeFrame
    <3>5. PICK x \in Truth, ran \in Items : x = f.toggle /\ ran = Append(line.ran, f.id)
      <4>1. line.ran \in Seq(Nat) /\ k \in Nat
        BY <1>5, <2>1 DEF LineWith, Items
      <4>2. Append(line.ran, k) \in Seq(Nat)
        BY <4>1
      <4>3. Toggle(k) \in BOOLEAN
        BY <4>1, Toggles
      <4> QED BY <2>1, <4>2, <4>3 DEF Items, Truth
    <3>6. CASE Plays(t, f.ask)
      <4>1. PICK calls \in Seq(Nat \ {0}) : calls = Append(line.connecting, f.id)
        <5>1. line.connecting \in Seq(Nat \ {0})
          BY <1>5 DEF LineWith
        <5>2. Append(line.connecting, k) \in Seq(Nat \ {0})
          BY <2>1, <5>1
        <5> QED BY <2>1, <5>2
      <4>2. o = Outcome(done.modem, [line EXCEPT !.buf = none, !.toggle = x, !.ran = ran,
                                                 !.connecting = calls], <<>>)
        <5>1. Do(t, line, f) = Outcome(done.modem, CallOn(line, f), <<>>)
          <6>1. line \in LineWith(SaidPieces, line.last)
            BY <1>5
          <6> QED BY <3>1, <3>6, <6>1, DoCalls
        <5> QED BY <1>7, <3>4, <3>5, <4>1, <5>1 DEF CallOn
      <4>3. /\ modem' = done.modem /\ down' = down \o <<>>
            /\ line' = [line EXCEPT !.buf = none, !.toggle = x, !.ran = ran, !.connecting = calls]
        BY <1>4, <4>2 DEF Outcome
      <4>4. line' \in LineWith(SaidPieces, line.last) /\ line'.crossed = line.crossed
        BY <1>5, <4>3 DEF LineWith
      <4>5. down' \in Seq(AnyReply)
        BY <1>5, <4>3
      <4> QED BY <1>5, <1>6, <3>3, <4>3, <4>4, <4>5
    <3>7. CASE ~Plays(t, f.ask)
      <4>1. PICK p \in AnyReply : p = Reply(f, done)
        <5>1. Reply(f, done) \in AnyReply
          <6>1. done.kind \in ReplyKinds /\ done.items \in Items /\ done.kept \in Truth
            BY <3>2 DEF Handed
          <6> QED BY <2>1, <3>5, <6>1, ReplyTyped
        <5> QED BY <5>1
      <4>2. o = Outcome(done.modem, [line EXCEPT !.buf = none, !.toggle = x, !.last = p, !.ran = ran], <<p>>)
        <5>1. Do(t, line, f) = Outcome(done.modem, AnswerOn(line, f, Reply(f, done)), <<Reply(f, done)>>)
          BY <1>5, <3>1, <3>7, DoAnswers
        <5> QED BY <1>7, <3>4, <3>5, <4>1, <5>1 DEF AnswerOn
      <4>3. /\ modem' = done.modem /\ down' = down \o <<p>>
            /\ line' = [line EXCEPT !.buf = none, !.toggle = x, !.last = p, !.ran = ran]
        BY <1>4, <4>2 DEF Outcome
      <4>4. line' \in LineWith(SaidPieces, p) /\ line'.crossed = line.crossed
        BY <1>5, <4>3 DEF LineWith
      <4>5. down' \in Seq(AnyReply)
        BY <1>5, <4>3
      <4> QED BY <1>6, <3>3, <4>1, <4>3, <4>4, <4>5
    <3> QED BY <3>6, <3>7
  <2> QED BY <2>2, <2>3
<1>10. Kept(modem') /\ SerialTyped' /\ (modem.hostMode => modem'.hostMode) /\ (line.crossed => line'.crossed)
  BY <1>4, <1>8, <1>9 DEF TakesTo
<1> QED BY <1>2, <1>10

\* SerialHostPoll waits, answers again or does the next request, unless a repeat crosses a call.
LEMMA PollStep ==
  ASSUME Kept(modem), LinkInv, NEW n \in 1 .. Len(up), SerialHostPoll(n)
  PROVE  /\ Kept(modem')
         /\ \/ Astray'
            \/ LinkInv' /\ line'.ran = line.ran /\ Given(modem') = Given(modem)
            \/ /\ LinkInv' /\ Len(line.ran) < host.asked /\ line'.ran = UpTo0(Len(line.ran) + 1)
               /\ HandsOver(Given(modem), Given(modem'))
<1>0. ScriptTyped /\ SerialTyped /\ (~modem.hostMode => line.toggle = FALSE)
  BY Toggles DEF LinkInv, InTurn
<1>1. /\ Kept(modem') /\ ScriptTyped' /\ SerialTyped' /\ (modem.hostMode => modem'.hostMode)
  BY <1>0, PollTyped
<1>2. /\ mode = "serial" /\ UNCHANGED <<mode, script, host>> /\ up' = SubSeq(up, n + 1, Len(up))
  BY <1>0, PollTakes
<1>3. PICK first \in Seq(SaidPieces) :
        /\ first = SubSeq(up, 1, n)
        /\ \E o, t : /\ modem' = o.modem /\ line' = o.line /\ down' = down \o o.replies
                     /\ Kept(t) /\ Given(t) = Given(modem) /\ (modem.hostMode => t.hostMode)
                     /\ TakesTo(SaidPieces, line, line.buf \o first, t, o)
  BY <1>0, PollTakes
<1>4. PICK o, t : /\ modem' = o.modem /\ line' = o.line /\ down' = down \o o.replies
                  /\ Kept(t) /\ Given(t) = Given(modem) /\ (modem.hostMode => t.hostMode)
                  /\ TakesTo(SaidPieces, line, line.buf \o first, t, o)
  BY <1>3
<1>9. modem' = o.modem /\ line' = o.line /\ down' = down \o o.replies
  BY <1>4
<1>5. line \in LineWith(SaidPieces, line.last)
  BY DEF LinkInv, SerialTyped
<1>6. ASSUME NEW q \in Seq(SaidPieces), IsEnd(q, line.buf \o first), modem' = t,
             line' = [line EXCEPT !.buf = q], down' = down \o <<>>
      PROVE  LinkInv' /\ line'.ran = line.ran /\ Given(modem') = Given(modem)
  <2>1. LinkInv'
    BY <1>2, <1>3, <1>4, <1>6, PollWaits
  <2>2. line'.ran = line.ran
    BY <1>5, <1>6 DEF LineWith
  <2> QED BY <1>4, <1>6, <2>1, <2>2
<1>7. ASSUME NEW q \in Seq(SaidPieces), IsEnd(q, line.buf \o first), o = Outcome(t, [line EXCEPT !.buf = q], <<>>)
      PROVE  LinkInv' /\ line'.ran = line.ran /\ Given(modem') = Given(modem)
  BY <1>4, <1>6, <1>7 DEF Outcome
<1>8. ASSUME t.hostMode, NEW i \in 1 .. Len(line.buf \o first), ~IsText((line.buf \o first)[i]),
             o = TakeFrame(t, line, (line.buf \o first)[i].frame)
      PROVE  \/ Astray'
             \/ LinkInv' /\ line'.ran = line.ran /\ Given(modem') = Given(modem)
             \/ /\ LinkInv' /\ Len(line.ran) < host.asked /\ line'.ran = UpTo0(Len(line.ran) + 1)
                /\ HandsOver(Given(modem), Given(modem'))
  <2>1. PICK f : f = (line.buf \o first)[i].frame
    OBVIOUS
  <2>2. PICK k \in 1 .. Len(script.asks) : f = Frame(k) /\ f.id = k /\ k \in {Len(line.ran), host.asked}
    BY <1>3, <1>8, <2>1, FrameRead
  <2>3. PICK r \in Nat, a \in Nat : r = Len(line.ran) /\ a = host.asked /\ a \in {r, r + 1}
    <3>1. PICK r \in Nat, a \in Nat, h \in Nat :
            /\ r = Len(line.ran) /\ a = host.asked /\ h = Len(host.answers)
            /\ h <= r /\ r <= a /\ a <= h + 1
      BY Counted
    <3>2. h <= r /\ r <= a /\ a <= h + 1
      BY <3>1
    <3>3. a \in {r, r + 1}
      BY <3>2
    <3> QED BY <3>1, <3>3
  <2>4. f.toggle = Toggle(k) /\ f.ask = script.asks[k] /\ line.toggle = Toggle(r) /\ k \in {r, a} /\ k # 0
    BY <2>2, <2>3 DEF Frame, LinkInv, InTurn
  <2>5. CASE f.toggle = line.toggle
    <3>1. Len(line.ran) # 0
      <4>1. k = r
        BY <2>3, <2>4, <2>5, Toggles
      <4> QED BY <2>3, <2>4, <4>1
    <3>2. PICK none \in Seq(SaidPieces) : none = <<>> /\ IsEnd(none, line.buf \o first)
      <4>1. line.buf \o first \in Seq(SaidPieces) /\ <<>> \in Seq(SaidPieces)
        BY <1>5 DEF LineWith
      <4>2. IsEnd(<<>>, line.buf \o first)
        BY <4>1, SliceEnds
      <4> QED BY <4>1, <4>2
    <3>3. PICK l : /\ l = [line EXCEPT !.buf = none] /\ l \in LineWith(SaidPieces, line.last)
                   /\ l.last = line.last /\ l.toggle = line.toggle
                   /\ l.connecting = line.connecting /\ l.crossed = line.crossed
      <4>1. PICK l : l = [line EXCEPT !.buf = none]
        OBVIOUS
      <4>2. /\ l \in LineWith(SaidPieces, line.last) /\ l.last = line.last /\ l.toggle = line.toggle
            /\ l.connecting = line.connecting /\ l.crossed = line.crossed
        BY <1>5, <4>1 DEF LineWith
      <4> QED BY <4>1, <4>2
    <3>4. o = SayAgain(t, l)
      BY <1>8, <2>1, <2>5, <3>2, <3>3 DEF TakeFrame
    <3>5. CASE line.last = NoReply
      <4>1. o = Outcome(t, l, <<>>)
        BY <3>3, <3>4, <3>5 DEF SayAgain
      <4>2. modem' = t /\ line' = [line EXCEPT !.buf = none] /\ down' = down \o <<>>
        BY <1>4, <3>3, <4>1 DEF Outcome
      <4> QED BY <1>6, <3>2, <4>2
    <3>6. CASE line.last # NoReply
      <4>1. PICK x \in Truth : x = (line.crossed \/ line.connecting # <<>>)
        BY DEF Truth
      <4>0. PICK l2, p : l2 = [l EXCEPT !.crossed = x] /\ p = Again(line.last, line.toggle)
        OBVIOUS
      <4>2. o = Outcome(t, l2, <<p>>)
        BY <3>3, <3>4, <3>6, <4>0, <4>1 DEF SayAgain
      <4>3. modem' = t /\ line' = l2 /\ down' = down \o <<p>>
        BY <1>4, <4>2 DEF Outcome
      <4>4. CASE line.connecting # <<>>
        <5>1. line'.crossed
          BY <3>3, <4>0, <4>1, <4>3, <4>4 DEF LineWith
        <5> QED BY <1>1, <1>8, <4>3, <5>1 DEF Astray
      <4>5. CASE line.connecting = <<>>
        <5>1. x = l.crossed /\ l.crossed \in Truth
          <6>1. line.crossed = FALSE
            BY <1>5 DEF LinkInv, LineWith, Truth
          <6> QED BY <3>3, <4>1, <4>5, <6>1 DEF LineWith
        <5>2. [l EXCEPT !.crossed = x] = l
          BY <3>3, <5>1 DEF LineWith
        <5>3. line' = [line EXCEPT !.buf = none]
          BY <3>3, <4>0, <4>3, <5>2
        <5>4. LinkInv'
          BY <1>2, <1>4, <3>1, <3>2, <4>0, <4>3, <4>5, <5>3, PollRepeats
        <5>5. line'.ran = line.ran
          BY <1>5, <5>3 DEF LineWith
        <5> QED BY <1>4, <4>3, <5>4, <5>5
      <4> QED BY <4>4, <4>5
    <3> QED BY <3>5, <3>6
  <2>6. CASE f.toggle # line.toggle
    <3>1. k = a /\ r < a
      BY <2>3, <2>4, <2>6
    <3>2. PICK done : done = ProcessSCSHostFrame(t, f.ask)
      OBVIOUS
    <3>3. Handed(t, done)
      <4>1. IsRequest(f.ask)
        BY <1>0, <1>2, <2>4, SerialScript
      <4> QED BY <1>4, <3>2, <4>1, FrameHands
    <3>4. o = Do(t, line, f)
      BY <1>8, <2>1, <2>6 DEF TakeFrame
    <3>6. /\ Len(line.ran) < host.asked /\ f.id = host.asked /\ f.toggle = Toggle(host.asked)
      BY <2>2, <2>3, <2>4, <3>1
    <3>7. /\ i \in 1 .. Len(line.buf \o SubSeq(up, 1, n)) /\ f = (line.buf \o SubSeq(up, 1, n))[i].frame
      BY <1>3, <2>1
    <3>8. Given(t) = Given(modem) /\ t.hostMode
      BY <1>4, <1>8
    <3>9. CASE Plays(t, f.ask)
      <4>1. done.kind = "ack" /\ Do(t, line, f) = Outcome(done.modem, CallOn(line, f), <<>>)
        BY <1>5, <3>2, <3>9, DoCalls
      <4>2. modem' = done.modem /\ line' = CallOn(line, f) /\ down' = down \o <<>>
        BY <1>9, <3>4, <4>1 DEF Outcome
      <4>4. LinkInv' /\ line'.ran = UpTo0(Len(line.ran) + 1) /\ HandsOver(Given(modem), Given(modem'))
        <5>1. line' = [line EXCEPT !.buf = <<>>, !.toggle = f.toggle, !.ran = Append(line.ran, f.id),
                                   !.connecting = Append(line.connecting, f.id)]
          BY <4>2 DEF CallOn
        <5>2. done.kind = "ack" /\ modem' = done.modem /\ down' = down \o <<>>
          BY <4>1, <4>2
        <5> QED BY <1>2, <3>3, <3>6, <3>7, <3>8, <5>1, <5>2, PollCalls
      <4> QED BY <3>6, <4>4
    <3>10. CASE ~Plays(t, f.ask)
      <4>1. Do(t, line, f) = Outcome(done.modem, AnswerOn(line, f, Reply(f, done)), <<Reply(f, done)>>)
        BY <1>5, <3>2, <3>10, DoAnswers
      <4>0. PICK on, q : on = AnswerOn(line, f, Reply(f, done)) /\ q = <<Reply(f, done)>>
        OBVIOUS
      <4>3. o = Outcome(done.modem, on, q)
        BY <3>4, <4>0, <4>1
      <4>2. modem' = done.modem /\ line' = on /\ down' = down \o q
        BY <1>9, <4>3 DEF Outcome
      <4>4. LinkInv' /\ line'.ran = UpTo0(Len(line.ran) + 1) /\ HandsOver(Given(modem), Given(modem'))
        <5>1. line' = [line EXCEPT !.buf = <<>>, !.toggle = f.toggle, !.last = Reply(f, done),
                                   !.ran = Append(line.ran, f.id)]
          BY <4>0, <4>2 DEF AnswerOn
        <5>2. modem' = done.modem /\ down' = down \o <<Reply(f, done)>>
          BY <4>0, <4>2
        <5> QED BY <1>2, <3>3, <3>6, <3>7, <3>8, <5>1, <5>2, PollRuns
      <4> QED BY <3>6, <4>4
    <3> QED BY <3>9, <3>10
  <2> QED BY <2>5, <2>6
<1> QED BY <1>1, <1>4, <1>7, <1>8 DEF TakesTo

\* The call of a request 'C' was played, and the request is answered.
LEMMA ConnectedStep ==
  ASSUME LinkInv, Connected
  PROVE  LinkInv' /\ line'.ran = line.ran
<1>1. UNCHANGED <<mode, script, modem, up, host>> /\ line.connecting # <<>>
  BY DEF Connected
<1>2. SaidPieces' = SaidPieces
  BY <1>1 DEF SaidPieces, Frames, Sayings, Frame, Text, Toggle
<1>3. PICK r \in Nat, a \in Nat, h \in Nat :
        /\ r = Len(line.ran) /\ a = host.asked /\ h = Len(host.answers)
        /\ h <= Answered /\ Answered <= r /\ r <= a /\ a <= h + 1
  BY Counted
<1>4. line.connecting = <<r>> /\ r # 0 /\ Answered = r - 1 /\ line.toggle = Toggle(r)
  BY <1>1, <1>3 DEF LinkInv, InTurn, Answered
<1>5. h <= r - 1 /\ h <= r /\ r - 1 <= r /\ r - 1 # r /\ r \in Nat \ {0} /\ r - 1 \in Nat
  BY <1>3, <1>4
<1>6. Last(<<r>>) = r /\ Front(<<r>>) = <<>>
  BY DEF Last, Front
<1>7. PICK p \in AnyReply : /\ p = AckIt(line).reply /\ p.id = r /\ p.toggle = Toggle(r)
                            /\ p.kind = "ack" /\ p.items = <<>>
  <2>1. PICK x \in Truth, y \in Truth : x = Toggle(r) /\ y = TRUE
    BY Toggles DEF Truth
  <2>2. PICK none \in Items : none = <<>>
    <3>1. <<>> \in Seq(Nat)
      OBVIOUS
    <3> QED BY <3>1 DEF Items
  <2>3. AckIt(line).reply = [id |-> r, toggle |-> x, kind |-> "ack", items |-> none, kept |-> y, whole |-> y]
    BY <1>4, <1>6, <2>1, <2>2 DEF AckIt, NoReply
  <2>4. "ack" \in ReplyKinds
    BY DEF ReplyKinds
  <2>5. PICK p : p = [id |-> r, toggle |-> x, kind |-> "ack", items |-> none, kept |-> y, whole |-> y]
    OBVIOUS
  <2>6. p \in AnyReply /\ p.id = r /\ p.toggle = x /\ p.kind = "ack" /\ p.items = none
    BY <1>5, <2>4, <2>5 DEF AnyReply
  <2> QED BY <2>1, <2>2, <2>3, <2>5, <2>6
<1>8. line \in LineWith(SaidPieces, line.last) /\ down \in Seq(AnyReply)
  BY DEF LinkInv, SerialTyped
<1>9. PICK calls \in Seq(Nat \ {0}) : calls = <<>>
  <2>1. <<>> \in Seq(Nat \ {0})
    OBVIOUS
  <2> QED BY <2>1
<1>10. /\ line' \in LineWith(SaidPieces, p) /\ line'.last = p /\ line'.connecting = <<>>
       /\ line'.buf = line.buf /\ line'.ran = line.ran /\ line'.toggle = line.toggle
       /\ line'.crossed = line.crossed
  <2>1. line' = [line EXCEPT !.connecting = calls, !.last = p]
    BY <1>4, <1>6, <1>7, <1>9 DEF Connected, AckIt
  <2> QED BY <1>8, <1>9, <2>1 DEF LineWith
<1>11. Answered' = r
  BY <1>3, <1>10 DEF Answered
<1>12. down' \in Seq(AnyReply) /\ Returning(down', h, r, p)
  <2>1. Returning(down, h, r - 1, line.last)
    BY <1>3, <1>4 DEF LinkInv
  <2>2. Returning(down \o <<p>>, h, r, p)
    BY <1>5, <1>7, <1>8, <2>1, ReturningMore
  <2>3. down' = Append(down, p) /\ Append(down, p) = down \o <<p>>
    BY <1>7, <1>8 DEF Connected
  <2>4. down \o <<p>> \in Seq(AnyReply)
    BY <1>8
  <2> QED BY <2>2, <2>3, <2>4
<1>13. ScriptTyped' /\ SerialTyped'
  BY <1>1, <1>2, <1>7, <1>10, <1>12 DEF LinkInv, ScriptTyped, SerialTyped
<1>14. InTurn'
  BY <1>1, <1>3, <1>5, <1>10, <1>11 DEF LinkInv, InTurn
<1>15. Returning(down, Len(host.answers), Answered, line.last)'
  BY <1>1, <1>3, <1>10, <1>11, <1>12
<1>16. LastReply' /\ ~line'.crossed
  BY <1>4, <1>7, <1>10, <1>11 DEF LinkInv, LastReply
<1>17. Coming(line.buf \o up, Len(line.ran), host.asked)'
  BY <1>1, <1>10 DEF LinkInv
<1>18. Delivered'
  <2>1. Got' = Got
    BY <1>1 DEF Got
  <2>2. ASSUME NEW kind \in KINDS PROVE LastGiven(kind)' = 0
    BY <1>7, <1>10, <2>2 DEF LastGiven, KINDS
  <2>3. ~(Len(host.answers) < Answered)
    <3>1. r <= h + 1
      BY <1>3
    <3>2. ~(h < r - 1)
      BY <3>1
    <3> QED BY <1>3, <1>4, <3>2
  <2>4. ASSUME NEW kind \in KINDS PROVE LastGiven(kind) = 0
    BY <2>3 DEF LastGiven
  <2> QED BY <1>1, <1>10, <2>1, <2>2, <2>4 DEF LinkInv, Delivered
<1> QED BY <1>10, <1>13, <1>14, <1>15, <1>16, <1>17, <1>18 DEF LinkInv

-----------------------------------------------------------------------------
(* A step of the host at its end of the serial line, and of the line.      *)

\* A frame or a line of text is said in two pieces.
LEMMA PiecesSaid ==
  ASSUME mode = "serial", NEW f \in Frames \cup Sayings
  PROVE  Pieces(f) \in Seq(SaidPieces) /\ \A i \in 1 .. Len(Pieces(f)) : Pieces(f)[i].frame = f
<1>1. PICK p \in SaidPieces, q \in SaidPieces : p = [frame |-> f, half |-> 1] /\ q = [frame |-> f, half |-> 2]
  <2>1. [frame |-> f, half |-> 1] \in SaidPieces /\ [frame |-> f, half |-> 2] \in SaidPieces
    BY DEF SaidPieces
  <2> QED BY <2>1
<1>2. Pieces(f) = <<p, q>> /\ p.frame = f /\ q.frame = f
  BY <1>1 DEF Pieces
<1>3. <<p, q>> \in Seq(SaidPieces) /\ \A i \in 1 .. Len(<<p, q>>) : <<p, q>>[i] \in {p, q}
  OBVIOUS
<1> QED BY <1>2, <1>3

\* What the host says when it asks, with JHOST4 or without.
LEMMA BytesSaid ==
  ASSUME mode = "serial", NEW n \in 1 .. Len(script.asks), NEW entering
  PROVE  /\ Bytes(n, entering) \in Seq(SaidPieces)
         /\ \A i \in 1 .. Len(Bytes(n, entering)) : Bytes(n, entering)[i].frame.id \in {0, n}
<1>1. TEXT \in Frames \cup Sayings /\ TEXT.id = 0
  BY DEF Sayings, TEXT, Text
<1>2. Frame(n) \in Frames \cup Sayings /\ Frame(n).id = n
  BY DEF Frames, Frame
<1>3. PICK p \in Seq(SaidPieces) : p = Pieces(TEXT) /\ \A i \in 1 .. Len(p) : p[i].frame = TEXT
  BY <1>1, PiecesSaid
<1>4. PICK q \in Seq(SaidPieces) : q = Pieces(Frame(n)) /\ \A i \in 1 .. Len(q) : q[i].frame = Frame(n)
  BY <1>2, PiecesSaid
<1>5. PICK first \in Seq(SaidPieces) :
        first = (IF entering THEN p ELSE <<>>) /\ \A i \in 1 .. Len(first) : first[i].frame.id = 0
  <2>1. <<>> \in Seq(SaidPieces) /\ Len(<<>>) = 0
    OBVIOUS
  <2>2. \A i \in 1 .. Len(p) : p[i].frame.id = 0
    BY <1>1, <1>3
  <2>3. PICK first : first = IF entering THEN p ELSE <<>>
    OBVIOUS
  <2>4. CASE first = p
    BY <2>2, <2>3, <2>4
  <2>5. CASE first = <<>>
    <3>1. first \in Seq(SaidPieces) /\ Len(first) = 0
      BY <2>1, <2>5
    <3>2. \A i \in 1 .. Len(first) : first[i].frame.id = 0
      BY <3>1
    <3> QED BY <2>3, <3>1, <3>2
  <2> QED BY <2>3, <2>4, <2>5
<1>6. PICK l \in Nat, k \in Nat : l = Len(first) /\ k = Len(q)
  OBVIOUS
<1>7. PICK all \in Seq(SaidPieces) : all = first \o q
  <2>1. first \o q \in Seq(SaidPieces)
    OBVIOUS
  <2> QED BY <2>1
<1>8. Len(all) = l + k /\ \A i \in 1 .. l + k : all[i] = IF i <= l THEN first[i] ELSE q[i - l]
  BY <1>6, <1>7, ConcatProperties
<1>9. ASSUME NEW i \in 1 .. l + k PROVE all[i].frame.id \in {0, n}
  <2>1. CASE i <= l
    <3>1. i \in 1 .. Len(first) /\ all[i] = first[i]
      BY <1>6, <1>8, <2>1
    <3> QED BY <1>5, <3>1
  <2>2. CASE ~(i <= l)
    <3>1. i - l \in 1 .. Len(q) /\ all[i] = q[i - l]
      BY <1>6, <1>8, <2>2
    <3> QED BY <1>2, <1>4, <3>1
  <2> QED BY <2>1, <2>2
<1>10. Bytes(n, entering) = all
  BY <1>3, <1>4, <1>5, <1>7 DEF Bytes
<1> QED BY <1>8, <1>9, <1>10

\* The host says something of the request it makes: of the one it made, or the next after the
\* modem has done that.
LEMMA HostSays ==
  ASSUME LinkInv, NEW more \in Seq(SaidPieces), NEW a \in Nat, host.asked <= a,
         host.asked = a \/ host.asked = Len(line.ran), \A i \in 1 .. Len(more) : more[i].frame.id \in {0, a}
  PROVE  up \o more \in Seq(SaidPieces) /\ Coming(line.buf \o (up \o more), Len(line.ran), a)
<1>1. PICK S : S = SaidPieces
  OBVIOUS
<1>2. PICK b \in Seq(S), u \in Seq(S), m \in Seq(S), r \in Nat, old \in Nat :
        b = line.buf /\ u = up /\ m = more /\ r = Len(line.ran) /\ old = host.asked /\ r <= old
  <2>1. line.buf \in Seq(SaidPieces) /\ up \in Seq(SaidPieces)
    BY DEF LinkInv, SerialTyped, LineWith
  <2> QED BY <1>1, <2>1, Counted
<1>3. b \o (u \o m) = (b \o u) \o m
  BY ConcatAssociative
<1>4. PICK q \in Seq(S) : q = b \o u
  <2>1. b \o u \in Seq(S)
    OBVIOUS
  <2> QED BY <2>1
<1>5. Coming(q, r, old)
  BY <1>2, <1>4 DEF LinkInv
<1>6. r <= a /\ (old = a \/ old = r) /\ \A i \in 1 .. Len(m) : m[i].frame.id \in {0, a}
  <2>1. old <= a /\ r <= old
    BY <1>2
  <2>2. r <= a
    BY <2>1
  <2> QED BY <1>2, <2>2
<1>7. Coming(q \o m, r, a)
  BY <1>5, <1>6, ComingMore
<1>8. u \o m \in Seq(S)
  OBVIOUS
<1> QED BY <1>1, <1>2, <1>3, <1>4, <1>7, <1>8

\* When only what the host says changes, the rest is what it was.
LEMMA HostStays ==
  ASSUME LinkInv, UNCHANGED <<mode, script, modem, line, down>>, up' \in Seq(SaidPieces),
         Coming(line.buf \o up', Len(line.ran), host'.asked),
         host' \in HostEnd,
         host'.asked # 0 => mode = "serial" /\ host'.asked <= Len(script.asks),
         Len(line.ran) <= host'.asked,
         host'.waiting => host'.asked # 0,
         host'.asked = IF host'.waiting THEN Len(host.answers) + 1 ELSE Len(host.answers),
         /\ host'.answers = host.answers /\ host'.reports = host.reports /\ host'.data = host.data
         /\ host'.cat = host.cat
  PROVE  LinkInv'
<1>1. SaidPieces' = SaidPieces
  BY DEF SaidPieces, Frames, Sayings, Frame, Text, Toggle
<1>2. ScriptTyped' /\ SerialTyped'
  BY <1>1 DEF LinkInv, ScriptTyped, SerialTyped
<1>3. InTurn'
  BY DEF LinkInv, InTurn, Answered
<1>4. Returning(down, Len(host.answers), Answered, line.last)' /\ LastReply' /\ ~line'.crossed
  BY DEF LinkInv, Returning, LastReply, Answered
<1>5. Delivered'
  <2>1. Got' = Got
    BY DEF Got
  <2>2. \A kind \in KINDS : LastGiven(kind)' = LastGiven(kind)
    BY DEF LastGiven, Answered
  <2> QED BY <2>1, <2>2 DEF LinkInv, Delivered
<1>6. Coming(line.buf \o up, Len(line.ran), host.asked)'
  OBVIOUS
<1> QED BY <1>2, <1>3, <1>4, <1>5, <1>6 DEF LinkInv

\* The host says a line of text,
LEMMA SayTextStep ==
  ASSUME LinkInv, SayText
  PROVE  LinkInv'
<1>1. PICK i \in 1 .. Len(script.text) : i = host.said + 1
  <2>1. ScriptTyped /\ mode = "serial" /\ host.said \in Nat /\ host.said < Len(script.text)
    BY DEF SayText, LinkInv, SerialTyped, HostEnd
  <2>2. Len(script.text) \in Nat
    BY <2>1, SerialScript
  <2> QED BY <2>1, <2>2
<1>2. PICK more \in Seq(SaidPieces) :
        more = Pieces(Text(script.text[i])) /\ \A j \in 1 .. Len(more) : more[j].frame.id \in {0, host.asked}
  <2>1. Text(script.text[i]) \in Frames \cup Sayings /\ Text(script.text[i]).id = 0
    BY DEF Sayings, Text
  <2>2. mode = "serial"
    BY DEF SayText
  <2>3. PICK more \in Seq(SaidPieces) :
          more = Pieces(Text(script.text[i])) /\ \A j \in 1 .. Len(more) : more[j].frame = Text(script.text[i])
    BY <2>1, <2>2, PiecesSaid
  <2> QED BY <2>1, <2>3
<1>3. up' = up \o more /\ UNCHANGED <<mode, script, modem, line, down>>
  BY <1>1, <1>2 DEF SayText
<1>4. host.asked \in Nat /\ host.asked <= host.asked /\ Len(line.ran) <= host.asked
  BY Counted
<1>5. up' \in Seq(SaidPieces) /\ Coming(line.buf \o up', Len(line.ran), host.asked)
  BY <1>2, <1>3, <1>4, HostSays
<1>6. PICK n \in Nat : n = host.said + 1
  BY <1>1
<1>7. host' = [host EXCEPT !.said = n]
  BY <1>6 DEF SayText
<1>8. host \in HostEnd
  BY DEF LinkInv, SerialTyped
<1>9. /\ host' \in HostEnd
      /\ host'.answers = host.answers /\ host'.reports = host.reports /\ host'.data = host.data
      /\ host'.cat = host.cat
      /\ host'.asked = host.asked /\ host'.waiting = host.waiting
  BY <1>7, <1>8 DEF HostEnd
<1>12. host'.waiting => host'.asked # 0
  BY <1>9 DEF LinkInv, SerialTyped
<1>10. host'.asked = IF host'.waiting THEN Len(host.answers) + 1 ELSE Len(host.answers)
  BY <1>9 DEF LinkInv, InTurn
<1>11. host'.asked # 0 => mode = "serial" /\ host'.asked <= Len(script.asks)
  BY <1>9 DEF LinkInv, SerialTyped
<1> QED BY <1>3, <1>4, <1>5, <1>9, <1>10, <1>11, <1>12, HostStays

\* makes a request,
LEMMA AskStep ==
  ASSUME LinkInv, Ask
  PROVE  LinkInv'
<1>1. /\ ScriptTyped /\ mode = "serial" /\ ~host.waiting /\ host.asked < Len(script.asks)
      /\ host.asked = Len(host.answers)
  BY DEF Ask, LinkInv, InTurn
<1>2. PICK a \in 1 .. Len(script.asks) : a = host.asked + 1
  <2>1. host.asked \in Nat /\ Len(script.asks) \in Nat
    BY <1>1, SerialScript, Counted
  <2> QED BY <1>1, <2>1
<1>3. PICK more \in Seq(SaidPieces) :
        more = Bytes(a, host.enters) /\ \A j \in 1 .. Len(more) : more[j].frame.id \in {0, a}
  BY <1>1, BytesSaid
<1>4. up' = up \o more /\ UNCHANGED <<mode, script, modem, line, down>>
  BY <1>2, <1>3 DEF Ask
<1>5. PICK r \in Nat, old \in Nat, h \in Nat :
        r = Len(line.ran) /\ old = host.asked /\ h = Len(host.answers) /\ h <= r /\ r <= old
  BY Counted
<1>6. old = r /\ a \in Nat /\ old <= a /\ r <= a /\ a = h + 1 /\ a <= Len(script.asks)
  <2>1. old = h /\ a = old + 1
    BY <1>1, <1>2, <1>5
  <2>2. h <= r /\ r <= old
    BY <1>5
  <2> QED BY <2>1, <2>2
<1>7. host.asked <= a /\ host.asked = Len(line.ran) /\ a \in Nat
  BY <1>5, <1>6
<1>8. up' \in Seq(SaidPieces) /\ Coming(line.buf \o up', Len(line.ran), a)
  BY <1>3, <1>4, <1>7, HostSays
<1>9. PICK yes \in Truth : yes = TRUE
  BY DEF Truth
<1>10. host' = [host EXCEPT !.asked = a, !.waiting = yes]
  BY <1>2, <1>9 DEF Ask
<1>11. host \in HostEnd
  BY DEF LinkInv, SerialTyped
<1>12. /\ host' \in HostEnd
       /\ host'.answers = host.answers /\ host'.reports = host.reports /\ host'.data = host.data
       /\ host'.cat = host.cat
       /\ host'.asked = a /\ host'.waiting = yes
  BY <1>6, <1>10, <1>11 DEF HostEnd
<1>13. host'.asked = IF host'.waiting THEN Len(host.answers) + 1 ELSE Len(host.answers)
  BY <1>5, <1>6, <1>9, <1>12
<1>14. /\ host'.asked # 0 => mode = "serial" /\ host'.asked <= Len(script.asks)
       /\ Len(line.ran) <= host'.asked /\ host'.asked # 0
  BY <1>1, <1>5, <1>6, <1>12
<1>15. Coming(line.buf \o up', Len(line.ran), host'.asked)
  BY <1>8, <1>12
<1> QED BY <1>4, <1>8, <1>12, <1>13, <1>14, <1>15, HostStays

\* or makes it again.
LEMMA RepeatStep ==
  ASSUME LinkInv, Repeat
  PROVE  LinkInv'
<1>1. host.waiting /\ host.asked = Len(host.answers) + 1
  BY DEF Repeat, LinkInv, InTurn
<1>2. PICK r \in Nat, a \in Nat, h \in Nat :
        r = Len(line.ran) /\ a = host.asked /\ h = Len(host.answers) /\ r <= a /\ a = h + 1
  BY <1>1, Counted
<1>3. ScriptTyped /\ mode = "serial" /\ a <= Len(script.asks)
  <2>1. host.asked # 0
    BY <1>2
  <2> QED BY <1>2, <2>1 DEF LinkInv, SerialTyped
<1>4. a \in 1 .. Len(script.asks)
  BY <1>2, <1>3, SerialScript
<1>5. PICK more \in Seq(SaidPieces) :
        more = Bytes(a, host'.enters) /\ \A j \in 1 .. Len(more) : more[j].frame.id \in {0, a}
  BY <1>3, <1>4, BytesSaid
<1>6. up' = up \o more /\ UNCHANGED <<mode, script, modem, line, down>>
  BY <1>2, <1>5 DEF Repeat
<1>7. host.asked <= a /\ host.asked = a
  BY <1>2
<1>8. up' \in Seq(SaidPieces) /\ Coming(line.buf \o up', Len(line.ran), a)
  BY <1>5, <1>6, <1>7, HostSays
<1>9. host \in HostEnd
  BY DEF LinkInv, SerialTyped
<1>10. PICK e \in Truth : e = (host.answers = <<>> /\ ~host.enters)
  BY DEF Truth
<1>11. host' = [host EXCEPT !.enters = e]
  BY <1>10 DEF Repeat
<1>12. /\ host' \in HostEnd
       /\ host'.answers = host.answers /\ host'.reports = host.reports /\ host'.data = host.data
       /\ host'.cat = host.cat
       /\ host'.asked = host.asked /\ host'.waiting = host.waiting
  BY <1>9, <1>11 DEF HostEnd
<1>13. /\ host'.asked = IF host'.waiting THEN Len(host.answers) + 1 ELSE Len(host.answers)
       /\ host'.asked # 0 => mode = "serial" /\ host'.asked <= Len(script.asks)
       /\ Len(line.ran) <= host'.asked /\ host'.asked # 0
  BY <1>1, <1>2, <1>3, <1>12
<1>14. Coming(line.buf \o up', Len(line.ran), host'.asked)
  BY <1>7, <1>8, <1>12
<1> QED BY <1>6, <1>8, <1>12, <1>13, <1>14, HostStays

\* The host has its answer: what it holds follows what the host has.
LEMMA AddsOn ==
  ASSUME NEW q \in Items, q = UpTo0(Len(q)), NEW items \in Items,
         \A i \in 1 .. Len(items) : items[i] = Len(q) + i
  PROVE  q \o items \in Items /\ Len(q \o items) = Len(q) + Len(items) /\ q \o items = UpTo0(Len(q \o items))
<1>1. q \in Seq(Nat) /\ items \in Seq(Nat)
  BY DEF Items
<1>2. PICK l \in Nat, k \in Nat : l = Len(q) /\ k = Len(items)
  BY <1>1
<1>3. PICK all \in Seq(Nat) : all = q \o items
  <2>1. q \o items \in Seq(Nat)
    BY <1>1
  <2> QED BY <2>1
<1>4. Len(all) = l + k /\ \A i \in 1 .. l + k : all[i] = IF i <= l THEN q[i] ELSE items[i - l]
  BY <1>1, <1>2, <1>3, ConcatProperties
<1>5. \A i \in 1 .. l : q[i] = i
  BY <1>2 DEF UpTo0
<1>6. ASSUME NEW i \in 1 .. l + k PROVE all[i] = i
  <2>1. CASE i <= l
    BY <1>4, <1>5, <2>1
  <2>2. CASE ~(i <= l)
    <3>1. i - l \in 1 .. k /\ all[i] = items[i - l]
      BY <1>4, <2>2
    <3>2. items[i - l] = l + (i - l)
      BY <1>2, <3>1
    <3>3. l + (i - l) = i
      OBVIOUS
    <3> QED BY <3>1, <3>2, <3>3
  <2> QED BY <2>1, <2>2
<1>7. all = [i \in 1 .. l + k |-> i]
  <2>1. DOMAIN all = 1 .. l + k /\ all = [i \in DOMAIN all |-> all[i]]
    BY <1>4
  <2> QED BY <1>6, <2>1
<1> QED BY <1>2, <1>3, <1>4, <1>7 DEF UpTo0, Items

\* What the host reads is a late answer, or that of its request: then it has all that was handed
\* over.
LEMMA HostReadStep ==
  ASSUME LinkInv, HostRead
  PROVE  /\ LinkInv'
         /\ \/ host' = host
            \/ /\ Len(host.answers) < Len(line.ran) /\ host'.answers = UpTo0(Len(host.answers) + 1)
               /\ host'.asked = host.asked /\ Got' = Given(modem)
<1>1. PICK p \in AnyReply : p = Head(down) /\ p = down[1] /\ Tail(down) \in Seq(AnyReply)
  <2>1. down \in Seq(AnyReply) /\ down # <<>>
    BY DEF LinkInv, SerialTyped, HostRead
  <2> QED BY <2>1, HeadTailProperties
<1>2. PICK r \in Nat, d \in Nat, a \in Nat, h \in Nat :
        /\ r = Answered /\ d = Len(line.ran) /\ a = host.asked /\ h = Len(host.answers)
        /\ h <= r /\ r <= d /\ d <= a /\ a <= h + 1
  BY Counted
<1>3. down \in Seq(AnyReply) /\ down # <<>> /\ Returning(down, h, r, line.last)
  BY <1>2 DEF LinkInv, SerialTyped, HostRead
<1>4. PICK k \in Nat : /\ k = p.id /\ h <= k /\ k <= r /\ p.toggle = Toggle(k)
                       /\ k = r => p.kind = line.last.kind /\ p.items = line.last.items
  <2>1. 1 \in 1 .. Len(down)
    BY <1>3
  <2>2. p.id \in Nat
    BY DEF AnyReply
  <2> QED BY <1>1, <1>3, <2>1, <2>2 DEF Returning
<1>5. \A l \in Nat : l <= k => Returning(Tail(down), l, r, line.last)
  BY <1>1, <1>2, <1>3, <1>4, ReturningLess
<1>6. down' = Tail(down) /\ UNCHANGED <<mode, script, modem, line, up>>
  BY DEF HostRead
<1>0. Answered' = Answered
  BY <1>6 DEF Answered
<1>7. SaidPieces' = SaidPieces
  BY <1>6 DEF SaidPieces, Frames, Sayings, Frame, Text, Toggle
<1>8. CASE ~(host.waiting /\ p.toggle = Toggle(host.asked))
  <2>1. host' = host
    BY <1>1, <1>8 DEF HostRead
  <2>2. Returning(down', h, r, line.last)
    BY <1>2, <1>4, <1>5, <1>6
  <2>3. ScriptTyped' /\ SerialTyped'
    BY <1>1, <1>6, <1>7, <2>1 DEF LinkInv, ScriptTyped, SerialTyped
  <2>4. InTurn' /\ LastReply' /\ ~line'.crossed /\ Coming(line.buf \o up, Len(line.ran), host.asked)'
    BY <1>6, <2>1 DEF LinkInv, InTurn, LastReply, Answered
  <2>5. Returning(down, Len(host.answers), Answered, line.last)'
    BY <1>0, <1>2, <1>6, <2>1, <2>2
  <2>6. Delivered'
    <3>1. Got' = Got
      BY <2>1 DEF Got
    <3>2. \A kind \in KINDS : LastGiven(kind)' = LastGiven(kind)
      BY <1>0, <1>6, <2>1 DEF LastGiven
    <3> QED BY <1>6, <2>1, <3>1, <3>2 DEF LinkInv, Delivered
  <2> QED BY <2>1, <2>3, <2>4, <2>5, <2>6 DEF LinkInv
<1>9. CASE host.waiting /\ p.toggle = Toggle(host.asked)
  <2>1. a = h + 1 /\ k = a /\ r = a /\ d = a
    <3>1. a = h + 1
      BY <1>2, <1>9 DEF LinkInv, InTurn
    <3>2. k \in {h, h + 1} /\ Toggle(k) = Toggle(a)
      <4>1. h <= k /\ k <= r /\ r <= d /\ d <= a
        BY <1>2, <1>4
      <4>2. k \in {h, h + 1}
        BY <3>1, <4>1
      <4> QED BY <1>2, <1>4, <1>9, <4>2
    <3>3. k = a
      BY <3>1, <3>2, Toggles
    <3>4. k <= r /\ r <= d /\ d <= a
      BY <1>2, <1>4
    <3> QED BY <3>1, <3>3, <3>4
  <2>2. PICK items \in Items : items = p.items /\ items = line.last.items /\ p.kind = line.last.kind
    <3>1. p.items \in Items
      BY DEF AnyReply
    <3> QED BY <1>4, <2>1, <3>1
  <2>3. \A kind \in KINDS : LastGiven(kind) = IF p.kind = kind THEN Len(items) ELSE 0
    <3>1. Len(host.answers) < Answered
      <4>1. h < r
        BY <2>1
      <4> QED BY <1>2, <4>1
    <3> QED BY <2>2, <3>1 DEF LastGiven
  <2>4. ASSUME NEW kind \in KINDS, NEW q \in Items, q = UpTo0(Len(q)), Got[kind] = Len(q)
        PROVE  \E x \in Items : /\ x = (IF p.kind = kind THEN q \o p.items ELSE q) /\ x = UpTo0(Len(x))
                                /\ Len(x) = Given(modem)[kind]
    <3>1. Given(modem)[kind] = Len(q) + LastGiven(kind) /\ Len(q) \in Nat
      BY <2>4 DEF LinkInv, Delivered, Items
    <3>2. CASE p.kind = kind
      <4>1. LastGiven(kind) = Len(items)
        BY <2>3, <3>2
      <4>2. \A i \in 1 .. Len(items) : items[i] = Len(q) + i
        BY <2>2, <2>4, <4>1 DEF LinkInv, Delivered
      <4>3. q \o items \in Items /\ Len(q \o items) = Len(q) + Len(items) /\ q \o items = UpTo0(Len(q \o items))
        BY <2>4, <4>2, AddsOn
      <4> QED BY <2>2, <3>1, <3>2, <4>1, <4>3
    <3>3. CASE p.kind # kind
      <4>1. Len(q) + LastGiven(kind) = Len(q)
        BY <2>3, <3>1, <3>3
      <4> QED BY <2>4, <3>1, <3>3, <4>1
    <3> QED BY <3>2, <3>3
  <2>5. host \in HostEnd
    BY DEF LinkInv, SerialTyped
  <2>6. PICK x \in Items : /\ x = (IF p.kind = "reports" THEN host.reports \o p.items ELSE host.reports)
                           /\ x = UpTo0(Len(x)) /\ Len(x) = Given(modem)["reports"]
    <3>1. host.reports \in Items /\ host.reports = UpTo0(Len(host.reports)) /\ "reports" \in KINDS
      BY <2>5 DEF LinkInv, Delivered, KINDS, HostEnd
    <3> QED BY <2>4, <3>1 DEF Got
  <2>7. PICK y \in Items : /\ y = (IF p.kind = "data" THEN host.data \o p.items ELSE host.data)
                           /\ y = UpTo0(Len(y)) /\ Len(y) = Given(modem)["data"]
    <3>1. host.data \in Items /\ host.data = UpTo0(Len(host.data)) /\ "data" \in KINDS
      BY <2>5 DEF LinkInv, Delivered, KINDS, HostEnd
    <3> QED BY <2>4, <3>1 DEF Got
  <2>8. PICK z \in Items : /\ z = (IF p.kind = "cat" THEN host.cat \o p.items ELSE host.cat)
                           /\ z = UpTo0(Len(z)) /\ Len(z) = Given(modem)["cat"]
    <3>1. host.cat \in Items /\ host.cat = UpTo0(Len(host.cat)) /\ "cat" \in KINDS
      BY <2>5 DEF LinkInv, Delivered, KINDS, HostEnd
    <3> QED BY <2>4, <3>1 DEF Got
  <2>9. PICK answers \in Items : answers = Append(host.answers, k) /\ answers = UpTo0(a) /\ Len(answers) = a
    <3>1. host.answers \in Seq(Nat) /\ host.answers = UpTo0(h)
      BY <1>2, <2>5 DEF Items, LinkInv, InTurn, HostEnd
    <3>2. Append(host.answers, k) \in Seq(Nat) /\ Append(host.answers, k) = UpTo0(a) /\ Len(UpTo0(a)) = a
      BY <1>2, <2>1, <3>1 DEF UpTo0
    <3> QED BY <3>2 DEF Items
  <2>10. PICK no \in Truth, bad \in Truth :
           no = FALSE /\ bad = (host.damaged \/ ~p.whole)
    BY DEF Truth
  <2>12. host' = [host EXCEPT !.waiting = no, !.enters = no, !.answers = answers, !.reports = x,
                              !.data = y, !.cat = z, !.damaged = bad]
    BY <1>1, <1>4, <1>9, <2>6, <2>7, <2>8, <2>9, <2>10 DEF HostRead
  <2>13. /\ host' \in HostEnd
         /\ host'.asked = host.asked /\ host'.waiting = no /\ host'.answers = answers
         /\ host'.reports = x /\ host'.data = y /\ host'.cat = z /\ host'.damaged = bad
    BY <2>5, <2>12 DEF HostEnd
  <2>14. ScriptTyped' /\ SerialTyped'
    BY <1>1, <1>6, <1>7, <2>10, <2>13 DEF LinkInv, ScriptTyped, SerialTyped
  <2>15. InTurn'
    <3>1. a <= r /\ d <= a
      BY <2>1
    <3> QED BY <1>0, <1>2, <1>6, <2>1, <2>9, <2>10, <2>13, <3>1 DEF LinkInv, InTurn
  <2>16. Returning(down, Len(host.answers), Answered, line.last)'
    <3>1. a <= k
      BY <2>1
    <3>2. Returning(Tail(down), a, r, line.last)
      BY <1>5, <3>1
    <3> QED BY <1>0, <1>2, <1>6, <2>9, <2>13, <3>2
  <2>17. LastReply' /\ ~line'.crossed /\ Coming(line.buf \o up, Len(line.ran), host.asked)'
    BY <1>0, <1>6, <2>13 DEF LinkInv, LastReply
  <2>18. Got' = Given(modem)
    BY <2>6, <2>7, <2>8, <2>13 DEF Got, Given
  <2>19. Delivered'
    <3>1. ASSUME NEW kind \in KINDS
          PROVE  /\ LastGiven(kind)' = 0 /\ Given(modem)'[kind] = Got'[kind] + 0
      <4>1. LastGiven(kind)' = IF Len(host'.answers) < Answered' /\ line'.last.kind = kind
                               THEN Len(line'.last.items) ELSE 0
        BY DEF LastGiven
      <4>2. ~(Len(host'.answers) < Answered')
        BY <1>0, <1>2, <2>1, <2>9, <2>13
      <4>3. Len(x) \in Nat /\ Len(y) \in Nat /\ Len(z) \in Nat
        BY DEF Items
      <4>4. Got'[kind] \in Nat
        BY <2>13, <4>3 DEF Got, KINDS
      <4> QED BY <1>6, <2>18, <4>1, <4>2, <4>4
    <3>2. /\ host'.reports = UpTo0(Len(host'.reports)) /\ host'.data = UpTo0(Len(host'.data))
          /\ host'.cat = UpTo0(Len(host'.cat))
      BY <2>6, <2>7, <2>8, <2>13
    <3>3. ASSUME NEW kind \in KINDS
          PROVE  /\ Given(modem)'[kind] = Got'[kind] + LastGiven(kind)'
                 /\ \A i \in 1 .. LastGiven(kind)' : line'.last.items[i] = Got'[kind] + i
      <4>1. LastGiven(kind)' = 0
        BY <3>1
      <4>2. \A i \in 1 .. 0 : line'.last.items[i] = Got'[kind] + i
        OBVIOUS
      <4> QED BY <3>1, <4>1, <4>2
    <3> QED BY <3>2, <3>3 DEF Delivered
  <2>20. /\ Len(host.answers) < Len(line.ran) /\ host'.answers = UpTo0(Len(host.answers) + 1)
         /\ host'.asked = host.asked
    <3>1. h < d
      BY <2>1
    <3> QED BY <1>2, <2>1, <2>9, <2>13, <3>1
  <2> QED BY <2>14, <2>15, <2>16, <2>17, <2>18, <2>19, <2>20 DEF LinkInv
<1> QED BY <1>8, <1>9

\* Something is lost on the line.
LEMMA LoseStep ==
  ASSUME LinkInv, Lose
  PROVE  LinkInv'
<1>1. UNCHANGED <<mode, script, modem, line, host>>
  BY DEF Lose
<1>2. SaidPieces' = SaidPieces
  BY <1>1 DEF SaidPieces, Frames, Sayings, Frame, Text, Toggle
<1>3. PICK r \in Nat, z \in Nat, a \in Nat, h \in Nat :
        r = Len(line.ran) /\ z = Answered /\ a = host.asked /\ h = Len(host.answers)
  BY Counted
<1>0. Answered' = Answered
  BY <1>1 DEF Answered
<1>4. line.buf \in Seq(SaidPieces) /\ up \in Seq(SaidPieces) /\ down \in Seq(AnyReply)
  BY DEF LinkInv, SerialTyped, LineWith
<1>5. up' \in Seq(SaidPieces) /\ Coming(line.buf \o up', r, a)
  <2>1. CASE up' = up
    BY <1>3, <1>4, <2>1 DEF LinkInv
  <2>2. CASE up # <<>> /\ up' = Tail(up)
    <3>1. PICK S : S = SaidPieces
      OBVIOUS
    <3>2. PICK b \in Seq(S), u \in Seq(S), q \in Seq(S) : b = line.buf /\ u = up /\ q = Tail(up)
      BY <1>4, <2>2, <3>1, HeadTailProperties
    <3>3. PICK l \in Nat, k \in Nat, n \in Nat : l = Len(b) /\ k = Len(u) /\ n = Len(q) /\ k = n + 1
      BY <2>2, <3>2, HeadTailProperties
    <3>4. \A i \in 1 .. n : q[i] = u[i + 1]
      BY <2>2, <3>2, <3>3, HeadTailProperties
    <3>5. PICK all \in Seq(S), left \in Seq(S) : all = b \o u /\ left = b \o q
      <4>1. b \o u \in Seq(S) /\ b \o q \in Seq(S)
        OBVIOUS
      <4> QED BY <4>1
    <3>6. /\ Len(all) = l + k /\ \A i \in 1 .. l + k : all[i] = IF i <= l THEN b[i] ELSE u[i - l]
          /\ Len(left) = l + n /\ \A i \in 1 .. l + n : left[i] = IF i <= l THEN b[i] ELSE q[i - l]
      <4>0. l = Len(b) /\ k = Len(u) /\ all = b \o u
        BY <3>3, <3>5
      <4>1. Len(all) = l + k /\ \A i \in 1 .. l + k : all[i] = IF i <= l THEN b[i] ELSE u[i - l]
        BY <4>0, ConcatProperties
      <4>2. Len(left) = l + n /\ \A i \in 1 .. l + n : left[i] = IF i <= l THEN b[i] ELSE q[i - l]
        BY <3>3, <3>5, ConcatProperties
      <4> QED BY <4>1, <4>2
    <3>7. PICK g : g = [i \in 1 .. l + n |-> IF i <= l THEN i ELSE i + 1]
      OBVIOUS
    <3>8. g \in [1 .. l + n -> 1 .. l + k]
      BY <3>3, <3>7
    <3>9. ASSUME NEW i \in 1 .. l + n PROVE left[i] = all[g[i]] /\ \A j \in i .. l + n : g[i] <= g[j]
      <4>1. left[i] = all[g[i]]
        <5>1. CASE i <= l
          <6>1. g[i] = i /\ i \in 1 .. l + k
            BY <3>3, <3>7, <5>1
          <6>2. left[i] = b[i] /\ all[i] = b[i]
            BY <3>6, <5>1, <6>1
          <6> QED BY <6>1, <6>2
        <5>2. CASE ~(i <= l)
          <6>1. g[i] = i + 1 /\ i - l \in 1 .. n /\ i + 1 \in 1 .. l + k /\ ~(i + 1 <= l)
            BY <3>3, <3>7, <5>2
          <6>2. left[i] = q[i - l] /\ all[i + 1] = u[i + 1 - l] /\ i + 1 - l = (i - l) + 1
            BY <3>6, <5>2, <6>1
          <6> QED BY <3>4, <6>1, <6>2
        <5> QED BY <5>1, <5>2
      <4>2. \A j \in i .. l + n : g[i] <= g[j]
        BY <3>7
      <4> QED BY <4>1, <4>2
    <3>10. Thinned(all, left, g)
      BY <3>6, <3>8, <3>9 DEF Thinned
    <3>11. Coming(all, r, a)
      BY <1>3, <3>2, <3>5 DEF LinkInv
    <3>12. Coming(left, r, a)
      BY <3>10, <3>11, ComingLess
    <3> QED BY <2>2, <3>1, <3>2, <3>5, <3>12
  <2> QED BY <2>1, <2>2 DEF Lose, LosePiece, LoseReply
<1>6. down' \in Seq(AnyReply) /\ Returning(down', h, z, line.last)
  <2>1. Returning(down, h, z, line.last)
    BY <1>3 DEF LinkInv
  <2>2. CASE down' = down
    BY <1>4, <2>1, <2>2
  <2>3. CASE down # <<>> /\ down' = Tail(down)
    <3>1. h <= down[1].id
      <4>1. 1 \in 1 .. Len(down)
        BY <1>4, <2>3
      <4> QED BY <2>1, <4>1 DEF Returning
    <3> QED BY <1>4, <2>1, <2>3, <3>1, ReturningLess
  <2> QED BY <2>2, <2>3 DEF Lose, LosePiece, LoseReply
<1>7. ScriptTyped' /\ SerialTyped'
  BY <1>1, <1>2, <1>5, <1>6 DEF LinkInv, ScriptTyped, SerialTyped
<1>8. InTurn' /\ LastReply' /\ ~line'.crossed
  BY <1>1 DEF LinkInv, InTurn, LastReply, Answered
<1>9. /\ Coming(line.buf \o up, Len(line.ran), host.asked)'
      /\ Returning(down, Len(host.answers), Answered, line.last)'
  BY <1>0, <1>1, <1>3, <1>5, <1>6
<1>10. Delivered'
  <2>1. Got' = Got
    BY <1>1 DEF Got
  <2>2. \A kind \in KINDS : LastGiven(kind)' = LastGiven(kind)
    BY <1>0, <1>1 DEF LastGiven
  <2> QED BY <1>1, <2>1, <2>2 DEF LinkInv, Delivered
<1> QED BY <1>7, <1>8, <1>9, <1>10 DEF LinkInv

-----------------------------------------------------------------------------
(* A repeat has crossed a call: what is said is still typed.               *)

\* The host, when nothing but its own end and the line change.
LEMMA TypedStays ==
  ASSUME ScriptTyped, SerialTyped, UNCHANGED <<mode, script, line>>, up' \in Seq(SaidPieces),
         down' \in Seq(AnyReply), host' \in HostEnd, host'.waiting => host'.asked # 0,
         host'.asked # 0 => mode = "serial" /\ host'.asked <= Len(script.asks)
  PROVE  ScriptTyped' /\ SerialTyped'
<1>1. SaidPieces' = SaidPieces
  BY DEF SaidPieces, Frames, Sayings, Frame, Text, Toggle
<1> QED BY <1>1 DEF ScriptTyped, SerialTyped

\* The host says something.
LEMMA SaysTyped ==
  ASSUME ScriptTyped, SerialTyped, SayText \/ Ask \/ Repeat
  PROVE  ScriptTyped' /\ SerialTyped'
<1>1. up \in Seq(SaidPieces) /\ down \in Seq(AnyReply) /\ host \in HostEnd /\ (host.waiting => host.asked # 0)
  BY DEF SerialTyped
<1>2. host.asked # 0 => mode = "serial" /\ host.asked <= Len(script.asks)
  BY DEF SerialTyped
<1>3. UNCHANGED <<mode, script, line, down>>
  BY DEF SayText, Ask, Repeat
<1>4. ASSUME NEW more \in Seq(SaidPieces), up' = up \o more PROVE up' \in Seq(SaidPieces)
  BY <1>1, <1>4
<1>5. CASE SayText
  <2>1. /\ mode = "serial" /\ host.said \in Nat /\ host.said < Len(script.text) /\ Len(script.text) \in Nat
    <3>1. mode = "serial" /\ host.said < Len(script.text)
      BY <1>5 DEF SayText
    <3> QED BY <1>1, <3>1, SerialScript DEF HostEnd
  <2>2. PICK i \in 1 .. Len(script.text) : i = host.said + 1
    BY <2>1
  <2>3. Text(script.text[i]) \in Frames \cup Sayings
    BY DEF Sayings
  <2>4. PICK more \in Seq(SaidPieces) : more = Pieces(Text(script.text[i]))
    BY <2>1, <2>3, PiecesSaid
  <2>5. up' \in Seq(SaidPieces)
    BY <1>4, <1>5, <2>2, <2>4 DEF SayText
  <2>6. PICK n \in Nat : n = host.said + 1
    BY <2>2
  <2>7. host' = [host EXCEPT !.said = n]
    BY <1>5, <2>6 DEF SayText
  <2>8. host' \in HostEnd /\ host'.waiting = host.waiting /\ host'.asked = host.asked
    BY <1>1, <2>7 DEF HostEnd
  <2> QED BY <1>1, <1>2, <1>3, <2>5, <2>8, TypedStays
<1>6. CASE Ask
  <2>1. mode = "serial" /\ host.asked < Len(script.asks) /\ Len(script.asks) \in Nat /\ host.asked \in Nat
    <3>1. mode = "serial" /\ host.asked < Len(script.asks)
      BY <1>6 DEF Ask
    <3> QED BY <1>1, <3>1, SerialScript DEF HostEnd
  <2>2. PICK a \in 1 .. Len(script.asks) : a = host.asked + 1
    BY <2>1
  <2>3. PICK more \in Seq(SaidPieces) : more = Bytes(a, host.enters)
    BY <2>1, BytesSaid
  <2>4. up' \in Seq(SaidPieces)
    BY <1>4, <1>6, <2>2, <2>3 DEF Ask
  <2>5. PICK yes \in Truth : yes = TRUE
    BY DEF Truth
  <2>6. host' = [host EXCEPT !.asked = a, !.waiting = yes] /\ a \in Nat /\ a # 0 /\ a <= Len(script.asks)
    BY <1>6, <2>1, <2>2, <2>5 DEF Ask
  <2>7. host' \in HostEnd /\ host'.asked = a
    BY <1>1, <2>6 DEF HostEnd
  <2> QED BY <1>1, <1>3, <2>1, <2>4, <2>6, <2>7, TypedStays
<1>7. CASE Repeat
  <2>1. host.asked # 0 /\ host.asked \in Nat /\ mode = "serial" /\ host.asked <= Len(script.asks)
    BY <1>1, <1>2, <1>7 DEF Repeat, HostEnd
  <2>2. host.asked \in 1 .. Len(script.asks)
    BY <2>1, SerialScript
  <2>3. PICK more \in Seq(SaidPieces) : more = Bytes(host.asked, host'.enters)
    BY <2>1, <2>2, BytesSaid
  <2>4. up' \in Seq(SaidPieces)
    BY <1>4, <1>7, <2>3 DEF Repeat
  <2>5. PICK e \in Truth : e = (host.answers = <<>> /\ ~host.enters)
    BY DEF Truth
  <2>6. host' = [host EXCEPT !.enters = e]
    BY <1>7, <2>5 DEF Repeat
  <2>7. host' \in HostEnd /\ host'.asked = host.asked
    BY <1>1, <2>6 DEF HostEnd
  <2> QED BY <1>1, <1>2, <1>3, <2>1, <2>4, <2>7, TypedStays
<1> QED BY <1>5, <1>6, <1>7

\* The host reads, or something is lost.
LEMMA ReadsTyped ==
  ASSUME ScriptTyped, SerialTyped, HostRead \/ Lose
  PROVE  ScriptTyped' /\ SerialTyped'
<1>1. up \in Seq(SaidPieces) /\ down \in Seq(AnyReply) /\ host \in HostEnd /\ (host.waiting => host.asked # 0)
  BY DEF SerialTyped
<1>2. host.asked # 0 => mode = "serial" /\ host.asked <= Len(script.asks)
  BY DEF SerialTyped
<1>3. UNCHANGED <<mode, script, line>>
  BY DEF HostRead, Lose
<1>4. CASE Lose
  <2>1. host' = host
    BY <1>4 DEF Lose
  <2>2. \/ down' = down /\ up # <<>> /\ up' = Tail(up)
        \/ up' = up /\ down # <<>> /\ down' = Tail(down)
    BY <1>4 DEF Lose, LosePiece, LoseReply
  <2>3. up' \in Seq(SaidPieces) /\ down' \in Seq(AnyReply)
    BY <1>1, <2>2, HeadTailProperties
  <2> QED BY <1>1, <1>2, <1>3, <2>1, <2>3, TypedStays
<1>5. CASE HostRead
  <2>1. PICK p \in AnyReply : p = Head(down) /\ Tail(down) \in Seq(AnyReply)
    BY <1>1, <1>5, HeadTailProperties DEF HostRead
  <2>2. down' = Tail(down) /\ up' = up
    BY <1>5 DEF HostRead
  <2>3. CASE host' = host
    BY <1>1, <1>2, <1>3, <2>1, <2>2, <2>3, TypedStays
  <2>4. CASE host' # host
    <3>1. /\ p.id \in Nat /\ p.items \in Seq(Nat) /\ host.answers \in Seq(Nat) /\ host.reports \in Seq(Nat)
          /\ host.data \in Seq(Nat) /\ host.cat \in Seq(Nat)
      BY <1>1 DEF AnyReply, HostEnd, Items
    <3>2. PICK answers \in Items : answers = Append(host.answers, p.id)
      <4>1. PICK q \in Seq(Nat), n \in Nat : q = host.answers /\ n = p.id
        BY <3>1
      <4>2. Append(q, n) \in Seq(Nat)
        BY AppendProperties
      <4> QED BY <4>1, <4>2 DEF Items
    <3>8. \A old \in Items : old \o p.items \in Items
      BY <3>1 DEF Items
    <3>7. \A old \in Items, kind \in {"reports", "data", "cat"} :
            (IF p.kind = kind THEN old \o p.items ELSE old) \in Items
      BY <3>8
    <3>3. PICK x \in Items, y \in Items, z \in Items :
            /\ x = (IF p.kind = "reports" THEN host.reports \o p.items ELSE host.reports)
            /\ y = (IF p.kind = "data" THEN host.data \o p.items ELSE host.data)
            /\ z = (IF p.kind = "cat" THEN host.cat \o p.items ELSE host.cat)
      BY <3>1, <3>7 DEF Items
    <3>4. PICK no \in Truth, bad \in Truth : no = FALSE /\ bad = (host.damaged \/ ~p.whole)
      BY DEF Truth
    <3>5. host' = [host EXCEPT !.waiting = no, !.enters = no, !.answers = answers, !.reports = x,
                               !.data = y, !.cat = z, !.damaged = bad]
      BY <1>5, <2>1, <2>4, <3>2, <3>3, <3>4 DEF HostRead
    <3>6. host' \in HostEnd /\ host'.asked = host.asked /\ host'.waiting = no
      BY <1>1, <3>5 DEF HostEnd
    <3> QED BY <1>1, <1>2, <1>3, <2>1, <2>2, <3>4, <3>6, TypedStays
  <2> QED BY <2>3, <2>4
<1> QED BY <1>4, <1>5

\* A call was played.
LEMMA ConnectedTyped ==
  ASSUME ScriptTyped, SerialTyped, Connected
  PROVE  ScriptTyped' /\ SerialTyped' /\ line'.crossed = line.crossed
<1>1. UNCHANGED <<mode, script, up, host>> /\ line.connecting # <<>>
  BY DEF Connected
<1>2. SaidPieces' = SaidPieces
  BY <1>1 DEF SaidPieces, Frames, Sayings, Frame, Text, Toggle
<1>3. line \in LineWith(SaidPieces, line.last) /\ down \in Seq(AnyReply)
  BY DEF SerialTyped
<1>4. PICK calls \in Seq(Nat \ {0}), k \in Nat \ {0} : calls = Front(line.connecting) /\ k = Last(line.connecting)
  <2>1. PICK c \in Seq(Nat \ {0}) : c = line.connecting /\ c # <<>>
    BY <1>1, <1>3 DEF LineWith
  <2>2. PICK l \in Nat : l = Len(c) /\ l # 0
    BY <2>1
  <2>3. l \in 1 .. Len(c) /\ l - 1 \in 0 .. Len(c)
    BY <2>2
  <2>4. SubSeq(c, 1, l - 1) \in Seq(Nat \ {0})
    BY <2>3, Slice
  <2>5. c[l] \in Nat \ {0}
    BY <2>3
  <2> QED BY <2>1, <2>2, <2>4, <2>5 DEF Front, Last
<1>5. PICK p \in AnyReply : p = AckIt(line).reply
  <2>1. PICK x \in Truth, y \in Truth : x = line.toggle /\ y = TRUE
    BY <1>3 DEF LineWith, Truth
  <2>2. PICK none \in Items : none = <<>>
    <3>1. <<>> \in Seq(Nat)
      OBVIOUS
    <3> QED BY <3>1 DEF Items
  <2>3. AckIt(line).reply = [id |-> k, toggle |-> x, kind |-> "ack", items |-> none, kept |-> y, whole |-> y]
    BY <1>4, <2>1, <2>2 DEF AckIt, NoReply
  <2>4. "ack" \in ReplyKinds
    BY DEF ReplyKinds
  <2>5. PICK p : p = [id |-> k, toggle |-> x, kind |-> "ack", items |-> none, kept |-> y, whole |-> y]
    OBVIOUS
  <2>6. p \in AnyReply
    BY <2>4, <2>5 DEF AnyReply
  <2> QED BY <2>3, <2>5, <2>6
<1>6. line' = [line EXCEPT !.connecting = calls, !.last = p]
  BY <1>4, <1>5 DEF Connected, AckIt
<1>7. line' \in LineWith(SaidPieces, p) /\ line'.last = p /\ line'.crossed = line.crossed
  BY <1>3, <1>6 DEF LineWith
<1>8. down' \in Seq(AnyReply)
  <2>1. down' = Append(down, p)
    BY <1>5 DEF Connected
  <2> QED BY <1>3, <2>1
<1> QED BY <1>1, <1>2, <1>5, <1>7, <1>8 DEF ScriptTyped, SerialTyped

\* The other steps keep that.
LEMMA AstrayStays ==
  ASSUME Astray, UNCHANGED <<mode, script, serial>>, Goes(modem, modem') \/ modem' = modem
  PROVE  Astray'
<1>1. modem'.hostMode = modem.hostMode
  BY DEF Goes
<1>2. UNCHANGED <<line, up, down, host>>
  BY DEF serial
<1>3. SaidPieces' = SaidPieces
  BY DEF SaidPieces, Frames, Sayings, Frame, Text, Toggle
<1> QED BY <1>1, <1>2, <1>3 DEF Astray, ScriptTyped, SerialTyped

\* The steps at the serial line.
SerialStep ==
  \/ SayText \/ Ask \/ Repeat \/ HostRead \/ Lose
  \/ (\E n \in 1 .. Len(up) : SerialHostPoll(n)) \/ Connected
\* Each of them keeps that.
LEMMA AstrayKeeps ==
  ASSUME Kept(modem), Astray, SerialStep
  PROVE  Kept(modem') /\ Astray'
<1>1. CASE SayText \/ Ask \/ Repeat \/ HostRead \/ Lose
  <2>1. modem' = modem /\ line' = line
    BY <1>1 DEF SayText, Ask, Repeat, HostRead, Lose
  <2>2. ScriptTyped' /\ SerialTyped'
    BY <1>1, SaysTyped, ReadsTyped DEF Astray
  <2> QED BY <2>1, <2>2 DEF Astray
<1>2. CASE Connected
  <2>1. modem' = modem
    BY <1>2 DEF Connected
  <2> QED BY <1>2, <2>1, ConnectedTyped DEF Astray
<1>3. ASSUME NEW n \in 1 .. Len(up), SerialHostPoll(n) PROVE Kept(modem') /\ Astray'
  BY <1>3, PollTyped DEF Astray
<1> QED BY <1>1, <1>2, <1>3 DEF SerialStep

-----------------------------------------------------------------------------
(* The invariant.                                                          *)

\* What went on the air.
AirCalls == {"ConReq", "Ping"} \X Texts \X Int
SentTyped == sent \in Seq(AirCalls)

HostInv == Kept(modem) /\ (LinkInv \/ Astray) /\ ConnTyped /\ SentTyped

\* It holds at first.
LEMMA HostInit ==
  ASSUME Init
  PROVE  HostInv /\ LinkInv
<1>1. Kept(modem) /\ Given(modem) = [reports |-> 0, data |-> 0, cat |-> 0] /\ ~modem.hostMode
  BY NewModemKept DEF Init
<1>2. PICK no \in Truth, yes \in Truth : no = FALSE /\ yes = TRUE
  BY DEF Truth
<1>3. PICK none \in Items : none = <<>> /\ Len(none) = 0 /\ none = UpTo0(0)
  <2>1. <<>> \in Seq(Nat) /\ Len(<<>>) = 0 /\ <<>> = [i \in 1 .. 0 |-> i]
    OBVIOUS
  <2> QED BY <2>1 DEF Items, UpTo0
<1>4. PICK silent \in Seq(SaidPieces) : silent = <<>> /\ Len(silent) = 0 /\ silent \o silent = silent
  <2>1. <<>> \in Seq(SaidPieces) /\ Len(<<>>) = 0 /\ <<>> \o <<>> = <<>>
    OBVIOUS
  <2> QED BY <2>1
<1>5. host = [said |-> 0, asked |-> 0, waiting |-> no, enters |-> yes, answers |-> none, reports |-> none,
              data |-> none, cat |-> none, damaged |-> no]
  BY <1>2, <1>3 DEF Init
<1>6. /\ host \in HostEnd
      /\ host.asked = 0 /\ ~host.waiting /\ host.answers = none /\ host.reports = none
      /\ host.data = none /\ host.cat = none /\ ~host.damaged
  BY <1>2, <1>5 DEF HostEnd
<1>7. PICK calls \in Seq(Nat \ {0}) : calls = <<>>
  <2>1. <<>> \in Seq(Nat \ {0})
    OBVIOUS
  <2> QED BY <2>1
<1>8. /\ line \in LineWith(SaidPieces, line.last) /\ line.buf = silent /\ line.ran = none /\ line.toggle = FALSE
      /\ line.last = NoReply /\ line.connecting = <<>> /\ ~line.crossed
  <2>1. line = [toggle |-> no, buf |-> silent, last |-> NoReply, connecting |-> calls, ran |-> none, crossed |-> no]
    BY <1>2, <1>3, <1>4, <1>7 DEF Init, NewLine
  <2> QED BY <1>2, <1>7, <2>1 DEF LineWith
<1>0. Answered = 0
  BY <1>3, <1>8 DEF Answered
<1>9. up = silent /\ up \in Seq(SaidPieces) /\ down \in Seq(AnyReply) /\ Len(down) = 0
  <2>1. <<>> \in Seq(AnyReply) /\ Len(<<>>) = 0
    OBVIOUS
  <2> QED BY <1>4, <2>1 DEF Init
<1>10. ScriptTyped /\ SerialTyped
  BY <1>6, <1>8, <1>9 DEF Init, ScriptTyped, SerialTyped
<1>11. InTurn
  <2>1. Toggle(0) = FALSE
    BY DEF Toggle
  <2>2. Len(host.answers) = 0 /\ Len(line.ran) = 0
    BY <1>3, <1>6, <1>8
  <2>3. host.answers = UpTo0(Len(host.answers)) /\ line.ran = UpTo0(Len(line.ran))
    BY <1>3, <1>6, <1>8, <2>2
  <2>4. line.toggle = Toggle(Len(line.ran))
    BY <1>8, <2>1, <2>2
  <2>5. host.asked = IF host.waiting THEN Len(host.answers) + 1 ELSE Len(host.answers)
    BY <1>6, <2>2
  <2> QED BY <1>0, <1>6, <1>8, <2>2, <2>3, <2>4, <2>5 DEF InTurn
<1>12. Coming(line.buf \o up, Len(line.ran), host.asked)
  BY <1>4, <1>8, <1>9 DEF Coming
<1>13. Returning(down, Len(host.answers), Answered, line.last) /\ LastReply
  BY <1>0, <1>8, <1>9 DEF Returning, LastReply
<1>14. Delivered
  <2>1. \A kind \in KINDS : LastGiven(kind) = 0 /\ Got[kind] = 0 /\ Given(modem)[kind] = 0
    BY <1>0, <1>1, <1>3, <1>6 DEF LastGiven, Got, KINDS
  <2>2. \A kind \in KINDS : \A i \in 1 .. LastGiven(kind) : line.last.items[i] = Got[kind] + i
    BY <2>1
  <2> QED BY <1>3, <1>6, <2>1, <2>2 DEF Delivered
<1>15. ConnTyped
  <2>1. ASSUME NEW c \in Ports PROVE NewConnection \in Connection(PortPieces(c))
    <3>1. PICK quiet \in Seq(PortPieces(c)) : quiet = <<>>
      <4>1. <<>> \in Seq(PortPieces(c))
        OBVIOUS
      <4> QED BY <4>1
    <3>2. NewConnection = [up |-> no, said |-> 0, wire |-> quiet, eof |-> no, buf |-> quiet, cuts |-> 0, ran |-> none]
      BY <1>2, <1>3, <3>1 DEF NewConnection
    <3> QED BY <3>2 DEF Connection
  <2> QED BY <2>1 DEF Init, ConnTyped
<1>16. SentTyped
  BY DEF Init, SentTyped
<1> QED BY <1>1, <1>8, <1>10, <1>11, <1>12, <1>13, <1>14, <1>15, <1>16 DEF HostInv, LinkInv

\* What a step does to the promise of the serial line: the host asks, the modem does a request,
\* the host has an answer, or none of these.
LinkAsks ==
  /\ host.asked = Len(host.answers) /\ host'.asked = host.asked + 1
  /\ host'.answers = host.answers /\ line'.ran = line.ran /\ Given(modem') = Given(modem) /\ Got' = Got
LinkRuns ==
  /\ Len(line.ran) < host.asked /\ line'.ran = UpTo0(Len(line.ran) + 1)
  /\ HandsOver(Given(modem), Given(modem'))
  /\ host'.asked = host.asked /\ host'.answers = host.answers /\ Got' = Got
LinkAnswers ==
  /\ Len(host.answers) < Len(line.ran) /\ host'.answers = UpTo0(Len(host.answers) + 1)
  /\ Got' = Given(modem) /\ Given(modem') = Given(modem)
  /\ host'.asked = host.asked /\ line'.ran = line.ran
LinkRests ==
  /\ host'.asked = host.asked /\ host'.answers = host.answers /\ line'.ran = line.ran
  /\ Given(modem') = Given(modem) /\ Got' = Got
LinkMoves == LinkAsks \/ LinkRuns \/ LinkAnswers \/ LinkRests

\* A step at the serial line keeps the invariant and is one of these, unless a repeat crosses a call.
LEMMA SerialKeeps ==
  ASSUME Kept(modem), LinkInv, SerialStep
  PROVE  Kept(modem') /\ (Astray' \/ (LinkInv' /\ LinkMoves))
<1>1. Kept(modem) /\ LinkInv
  OBVIOUS
<1>2. CASE SayText \/ Repeat \/ Lose
  <2>1. LinkInv'
    BY <1>1, <1>2, SayTextStep, RepeatStep, LoseStep
  <2>2. /\ modem' = modem /\ line' = line /\ host'.asked = host.asked /\ host'.answers = host.answers
        /\ host'.reports = host.reports /\ host'.data = host.data /\ host'.cat = host.cat
    <3>1. host \in HostEnd
      BY <1>1 DEF LinkInv, SerialTyped
    <3>2. CASE SayText
      BY <3>1, <3>2 DEF SayText, HostEnd
    <3>3. CASE Repeat
      <4>1. PICK e : host' = [host EXCEPT !.enters = e]
        BY <3>3 DEF Repeat
      <4> QED BY <3>1, <3>3, <4>1 DEF Repeat, HostEnd
    <3>4. CASE Lose
      BY <3>4 DEF Lose
    <3> QED BY <1>2, <3>2, <3>3, <3>4
  <2>3. LinkRests
    BY <2>2 DEF LinkRests, Got
  <2> QED BY <1>1, <2>1, <2>2, <2>3 DEF LinkMoves
<1>3. CASE Ask
  <2>1. LinkInv'
    BY <1>1, <1>3, AskStep
  <2>2. host \in HostEnd
    BY <1>1 DEF LinkInv, SerialTyped
  <2>3. /\ modem' = modem /\ line' = line /\ host'.asked = host.asked + 1 /\ host'.answers = host.answers
        /\ host'.reports = host.reports /\ host'.data = host.data /\ host'.cat = host.cat
    BY <1>3, <2>2 DEF Ask, HostEnd
  <2>4. host.asked = Len(host.answers)
    BY <1>1, <1>3 DEF Ask, LinkInv, InTurn
  <2>5. LinkAsks
    BY <2>3, <2>4 DEF LinkAsks, Got
  <2> QED BY <1>1, <2>1, <2>3, <2>5 DEF LinkMoves
<1>4. CASE HostRead
  <2>1. modem' = modem /\ line' = line
    BY <1>4 DEF HostRead
  <2>2. LinkInv'
    BY <1>1, <1>4, HostReadStep
  <2>3. CASE host' = host
    BY <1>1, <2>1, <2>2, <2>3 DEF LinkMoves, LinkRests, Got
  <2>4. CASE /\ Len(host.answers) < Len(line.ran) /\ host'.answers = UpTo0(Len(host.answers) + 1)
             /\ host'.asked = host.asked /\ Got' = Given(modem)
    BY <1>1, <2>1, <2>2, <2>4 DEF LinkMoves, LinkAnswers
  <2> QED BY <1>1, <1>4, <2>3, <2>4, HostReadStep
<1>5. CASE Connected
  <2>1. modem' = modem /\ host' = host
    BY <1>5 DEF Connected
  <2>2. LinkInv' /\ line'.ran = line.ran
    BY <1>5, ConnectedStep
  <2>3. Got' = Got
    BY <2>1 DEF Got
  <2> QED BY <1>1, <2>1, <2>2, <2>3 DEF LinkMoves, LinkRests
<1>6. ASSUME NEW n \in 1 .. Len(up), SerialHostPoll(n) PROVE Kept(modem') /\ (Astray' \/ (LinkInv' /\ LinkMoves))
  <2>1. host' = host
    BY <1>6 DEF SerialHostPoll
  <2>2. Got' = Got
    BY <2>1 DEF Got
  <2>3. /\ Kept(modem')
        /\ \/ Astray'
           \/ LinkInv' /\ line'.ran = line.ran /\ Given(modem') = Given(modem)
           \/ /\ LinkInv' /\ Len(line.ran) < host.asked /\ line'.ran = UpTo0(Len(line.ran) + 1)
              /\ HandsOver(Given(modem), Given(modem'))
    BY <1>6, PollStep
  <2>4. CASE LinkInv' /\ line'.ran = line.ran /\ Given(modem') = Given(modem)
    BY <2>1, <2>2, <2>3, <2>4 DEF LinkMoves, LinkRests
  <2>5. CASE /\ LinkInv' /\ Len(line.ran) < host.asked /\ line'.ran = UpTo0(Len(line.ran) + 1)
             /\ HandsOver(Given(modem), Given(modem'))
    BY <2>1, <2>2, <2>3, <2>5 DEF LinkMoves, LinkRuns
  <2> QED BY <2>3, <2>4, <2>5
<1> QED BY <1>2, <1>3, <1>4, <1>5, <1>6 DEF SerialStep

\* keep what the connections are, and what has been sent,
LEMMA SerialAlone ==
  ASSUME HostInv, SerialStep
  PROVE  ConnTyped' /\ SentTyped'
<1>1. conn' = conn /\ mode' = mode /\ script' = script /\ sent' = sent
  BY DEF SerialStep, SayText, Ask, Repeat, HostRead, Lose, SerialHostPoll, Connected
<1>2. \A c \in Ports : PortPieces(c)' = PortPieces(c)
  BY <1>1 DEF PortPieces
<1> QED BY <1>1, <1>2 DEF HostInv, ConnTyped, SentTyped

\* and the other steps leave the serial line alone.
PortStep ==
  \/ \E c \in Ports : Connect(c) \/ HostSend(c) \/ HostCloses(c) \/ RecvEnd(c)
  \/ \E n \in 1 .. Len(conn.control.wire) : RecvControl(n)
  \/ \E n \in 1 .. Len(conn.data.wire) : RecvData(n)
  \/ \E n \in 1 .. Len(conn.packet.wire) : RecvPacket(n)
AirStep ==
  \/ StartPackets \/ PacketSent \/ (\E kind \in {"ID", "CWID", "TwoTone"} : GuiAsks(kind))
  \/ Radio \/ CheckTimers \/ Played
\* Each of them keeps it, and hands nothing over.
LEMMA OthersKeep ==
  ASSUME HostInv, PortStep \/ AirStep
  PROVE  /\ UNCHANGED <<mode, script, serial>> /\ (Goes(modem, modem') \/ modem' = modem)
         /\ ConnTyped'
<1>1. Kept(modem) /\ ConnTyped /\ ScriptTyped
  BY DEF HostInv, LinkInv, Astray
<1>2. UNCHANGED <<mode, script, serial>>
  <2>1. ASSUME NEW c, Connect(c) \/ HostSend(c) \/ HostCloses(c) \/ RecvEnd(c)
        PROVE  UNCHANGED <<mode, script, serial>>
    BY <2>1 DEF Connect, HostSend, HostCloses, RecvEnd
  <2>2. ASSUME NEW n, RecvControl(n) \/ RecvData(n) \/ RecvPacket(n)
        PROVE  UNCHANGED <<mode, script, serial>>
    BY <2>2 DEF RecvControl, RecvData, RecvPacket
  <2>3. CASE AirStep
    BY <2>3 DEF AirStep, StartPackets, PacketSent, SendPackets, GuiAsks, Radio, CheckTimers, Played, CheckFrom
  <2> QED BY <2>1, <2>2, <2>3 DEF PortStep
<1>3. ASSUME NEW c \in Ports, Connect(c) PROVE Goes(modem, modem') /\ ConnTyped'
  BY <1>1, <1>3, ConnectStep
<1>4. ASSUME NEW c \in Ports, HostSend(c) \/ HostCloses(c) PROVE modem' = modem /\ ConnTyped'
  BY <1>1, <1>4, HostSendStep, HostClosesStep DEF HostSend, HostCloses
<1>5. ASSUME NEW c \in Ports, RecvEnd(c) PROVE Goes(modem, modem') /\ ConnTyped'
  BY <1>1, <1>5, RecvEndStep
<1>6. ASSUME NEW n, RecvControl(n) \/ RecvData(n) \/ RecvPacket(n) PROVE Goes(modem, modem') /\ ConnTyped'
  BY <1>1, <1>6, RecvControlStep, RecvDataStep, RecvPacketStep
<1>7. CASE AirStep
  <2>1. Goes(modem, modem')
    BY <1>1, <1>7, PacketsStep, AskedOnAir, RadioStep, SentStep DEF AirStep
  <2>2. conn' = conn
    BY <1>7 DEF AirStep, StartPackets, PacketSent, SendPackets, GuiAsks, Radio, CheckTimers, Played, CheckFrom
  <2>3. \A c \in Ports : PortPieces(c)' = PortPieces(c)
    BY <1>2 DEF PortPieces
  <2> QED BY <1>1, <1>2, <2>1, <2>2, <2>3 DEF ConnTyped
<1>8. CASE PortStep
  BY <1>2, <1>3, <1>4, <1>5, <1>6, <1>8 DEF PortStep
<1> QED BY <1>7, <1>8

-----------------------------------------------------------------------------
(* Calls and pings.                                                        *)

\* What a pass of CheckTimers comes to is something that is asked for.
LEMMA NeedIs ==
  ASSUME NEW m, m.need \in NeedSets, NEW place
  PROVE  NextNeed(m, place) = "none" \/ NextNeed(m, place) \in m.need
<1>1. ASSUME NEW kind \in Needs PROVE Place(kind) \in 1 .. 5
  <2>1. \E i \in 1 .. 5 : Order[i] = kind
    BY DEF Needs, Order
  <2>2. DOMAIN Order = 1 .. 5
    BY DEF Order
  <2> QED BY <2>1, <2>2 DEF Place
<1>2. PICK later : later = {kind \in m.need : Place(kind) > place}
  OBVIOUS
<1>3. CASE later = {}
  BY <1>2, <1>3 DEF NextNeed
<1>4. CASE later # {}
  <2>1. later \in SUBSET Needs
    BY <1>2 DEF NeedSets
  <2>2. PICK places \in SUBSET Nat : places = {Place(kind) : kind \in later}
    <3>1. \A kind \in later : Place(kind) \in Nat
      BY <1>1, <2>1
    <3>2. {Place(kind) : kind \in later} \in SUBSET Nat
      BY <3>1
    <3> QED BY <3>2
  <2>3. PICK x \in places : \A y \in places : x <= y
    <3>1. places # {}
      BY <1>4, <2>2
    <3> QED BY <3>1, LeastElement
  <2>4. \E kind \in later : \A k \in later : Place(kind) <= Place(k)
    BY <2>2, <2>3
  <2>5. NextNeed(m, place) = CHOOSE kind \in later : \A k \in later : Place(kind) <= Place(k)
    BY <1>2, <1>4 DEF NextNeed
  <2> QED BY <1>2, <2>4, <2>5
<1> QED BY <1>3, <1>4

\* What goes on the air is what was wanted.
LEMMA CallsAsWanted ==
  ASSUME HostInv, CheckTimers \/ Played
  PROVE  /\ SentTyped'
         /\ \/ sent' = sent
            \/ /\ Len(sent') = Len(sent) + 1
               /\ ~modem.mixed => LET s == sent'[Len(sent')] IN <<s[2], s[3]>> = modem.wanted[s[1]]
<1>1. /\ modem.need \in NeedSets /\ modem.callee \in Texts /\ modem.calls \in Int /\ modem.pings \in Int
      /\ modem.wanted \in WantedCalls /\ Agreed(modem) /\ modem \in ModemWith(modem.kiss)
  BY DEF HostInv, Kept, ModemWith
<1>2. PICK m, place :
        /\ CheckFrom(m, place) /\ m.need \in SUBSET modem.need
        /\ m.callee = modem.callee /\ m.calls = modem.calls /\ m.pings = modem.pings
  <2>1. CASE CheckTimers
    <3>1. CheckFrom(modem, 0) /\ modem.need \in SUBSET modem.need
      BY <2>1 DEF CheckTimers
    <3> QED BY <3>1
  <2>2. CASE Played
    <3>1. PICK m : m = Finish(modem, playing)
      OBVIOUS
    <3>2. m = modem \/ m = [modem EXCEPT !.abort = FALSE] \/ m = [modem EXCEPT !.need = @ \ {playing}]
      BY <3>1 DEF Finish
    <3>3. m.need \in SUBSET modem.need /\ m.callee = modem.callee /\ m.calls = modem.calls /\ m.pings = modem.pings
      <4>1. CASE m = modem
        BY <4>1
      <4>2. CASE m = [modem EXCEPT !.abort = FALSE]
        BY <1>1, <4>2 DEF ModemWith
      <4>3. CASE m = [modem EXCEPT !.need = @ \ {playing}]
        BY <1>1, <4>3 DEF ModemWith
      <4> QED BY <3>2, <4>1, <4>2, <4>3
    <3>4. CheckFrom(m, Place(playing))
      BY <2>2, <3>1 DEF Played
    <3> QED BY <3>3, <3>4
  <2> QED BY <2>1, <2>2
<1>3. PICK kind : kind = NextNeed(m, place) /\ (kind = "none" \/ kind \in modem.need)
  <2>1. m.need \in NeedSets
    BY <1>1, <1>2 DEF NeedSets
  <2> QED BY <1>2, <2>1, NeedIs
<1>4. PICK n \in Nat : n = Len(sent) /\ sent \in Seq(AirCalls)
  BY DEF HostInv, SentTyped
<1>5. ASSUME NEW s \in AirCalls, sent' = Append(sent, s), <<s[2], s[3]>> = modem.wanted[s[1]] \/ modem.mixed
      PROVE  /\ SentTyped' /\ Len(sent') = Len(sent) + 1
             /\ ~modem.mixed => LET x == sent'[Len(sent')] IN <<x[2], x[3]>> = modem.wanted[x[1]]
  <2>1. sent' \in Seq(AirCalls) /\ Len(sent') = n + 1 /\ sent'[n + 1] = s
    BY <1>4, <1>5
  <2> QED BY <1>4, <1>5, <2>1 DEF SentTyped
<1>6. CASE kind = "ConReq"
  <2>1. PICK s \in AirCalls : s = <<kind, m.callee, m.calls>>
    <3>1. <<kind, m.callee, m.calls>> \in AirCalls
      BY <1>1, <1>2, <1>6 DEF AirCalls
    <3> QED BY <3>1
  <2>2. s[1] = "ConReq" /\ s[2] = modem.callee /\ s[3] = modem.calls
    BY <1>2, <1>6, <2>1
  <2>3. <<s[2], s[3]>> = modem.wanted[s[1]] \/ modem.mixed
    BY <1>1, <1>3, <1>6, <2>2 DEF Agreed
  <2>4. sent' = Append(sent, s)
    BY <1>2, <1>3, <1>6, <2>1 DEF CheckFrom
  <2> QED BY <1>5, <2>3, <2>4
<1>7. CASE kind = "Ping"
  <2>1. PICK s \in AirCalls : s = <<kind, m.callee, m.pings>>
    <3>1. <<kind, m.callee, m.pings>> \in AirCalls
      BY <1>1, <1>2, <1>7 DEF AirCalls
    <3> QED BY <3>1
  <2>2. s[1] = "Ping" /\ s[2] = modem.callee /\ s[3] = modem.pings
    BY <1>2, <1>7, <2>1
  <2>3. <<s[2], s[3]>> = modem.wanted[s[1]] \/ modem.mixed
    BY <1>1, <1>3, <1>7, <2>2 DEF Agreed
  <2>4. sent' = Append(sent, s)
    BY <1>2, <1>3, <1>7, <2>1 DEF CheckFrom
  <2> QED BY <1>5, <2>3, <2>4
<1>8. CASE kind \notin {"ConReq", "Ping"}
  <2>1. sent' = sent
    BY <1>2, <1>3, <1>8 DEF CheckFrom
  <2> QED BY <1>4, <2>1 DEF SentTyped
<1> QED BY <1>6, <1>7, <1>8

-----------------------------------------------------------------------------
(* What a step keeps, and the theorems.                                    *)

\* Nothing else is a call or a ping.
LEMMA SentStays ==
  ASSUME [Next]_vars, ~(CheckTimers \/ Played)
  PROVE  sent' = sent
<1>1. CASE SerialStep
  BY <1>1 DEF SerialStep, SayText, Ask, Repeat, HostRead, Lose, SerialHostPoll, Connected
<1>2. ASSUME NEW c, Connect(c) \/ HostSend(c) \/ HostCloses(c) \/ RecvEnd(c) PROVE sent' = sent
  BY <1>2 DEF Connect, HostSend, HostCloses, RecvEnd
<1>3. ASSUME NEW n, RecvControl(n) \/ RecvData(n) \/ RecvPacket(n) PROVE sent' = sent
  BY <1>3 DEF RecvControl, RecvData, RecvPacket
<1>4. CASE AirStep
  BY <1>4 DEF AirStep, StartPackets, PacketSent, SendPackets, GuiAsks, Radio
<1>5. CASE UNCHANGED vars
  BY <1>5 DEF vars
<1> QED BY <1>1, <1>2, <1>3, <1>4, <1>5 DEF Next, SerialStep, AirStep

\* A step keeps the invariant, and is one of HostLink; what has crossed stays so.
LEMMA HostNext ==
  ASSUME HostInv, [Next]_vars
  PROVE  HostInv' /\ (Astray' \/ (LinkInv /\ LinkMoves))
<1>1. Kept(modem) /\ (LinkInv \/ Astray) /\ ConnTyped /\ SentTyped
  BY DEF HostInv
<1>2. CASE SerialStep
  <2>1. Kept(modem') /\ (Astray' \/ (LinkInv /\ LinkInv' /\ LinkMoves))
    BY <1>1, <1>2, AstrayKeeps, SerialKeeps
  <2> QED BY <1>2, <2>1, SerialAlone DEF HostInv
<1>3. ASSUME UNCHANGED <<mode, script, serial>>, Goes(modem, modem') \/ modem' = modem, ConnTyped'
      PROVE  Kept(modem') /\ (Astray' \/ (LinkInv /\ LinkInv' /\ LinkMoves)) /\ ConnTyped'
  <2>1. Kept(modem') /\ Given(modem') = Given(modem)
    BY <1>1, <1>3 DEF Goes
  <2>2. (LinkInv => LinkInv') /\ (Astray => Astray')
    BY <1>3, LinkStays, AstrayStays
  <2>3. host' = host /\ line' = line
    BY <1>3 DEF serial
  <2>4. LinkMoves
    BY <2>1, <2>3 DEF LinkMoves, LinkRests, Got
  <2> QED BY <1>1, <1>3, <2>1, <2>2, <2>4
<1>4. CASE PortStep \/ AirStep
  <2>1. UNCHANGED <<mode, script, serial>> /\ (Goes(modem, modem') \/ modem' = modem) /\ ConnTyped'
    BY <1>4, OthersKeep
  <2>2. SentTyped'
    <3>1. CASE CheckTimers \/ Played
      BY <3>1, CallsAsWanted
    <3>2. CASE ~(CheckTimers \/ Played)
      <4>1. sent' = sent
        BY <3>2, SentStays
      <4> QED BY <1>1, <4>1 DEF SentTyped
    <3> QED BY <3>1, <3>2
  <2> QED BY <1>3, <2>1, <2>2 DEF HostInv
<1>5. CASE UNCHANGED vars
  <2>1. UNCHANGED <<mode, script, serial>> /\ modem' = modem /\ sent' = sent /\ conn' = conn
    BY <1>5 DEF vars, serial
  <2>2. \A c \in Ports : PortPieces(c)' = PortPieces(c)
    BY <2>1 DEF PortPieces
  <2>3. ConnTyped' /\ SentTyped'
    BY <1>1, <2>1, <2>2 DEF ConnTyped, SentTyped
  <2> QED BY <1>3, <2>1, <2>3 DEF HostInv
<1> QED BY <1>2, <1>4, <1>5 DEF Next, SerialStep, PortStep, AirStep

\* The invariant holds, for every script of the host.
THEOREM HostInvariant == Spec => []HostInv
<1>1. HostInv /\ [Next]_vars => HostInv'
  BY HostNext
<1> QED BY HostInit, <1>1, PTL DEF Spec

\* TypeOK: whatever the host sends, over the serial line or over TCP, in text mode or in host
\* mode, each setting keeps to what the modem works with, and the buffers to their room.
THEOREM HostTypes == Spec => []TypeOK
<1>1. ASSUME HostInv PROVE TypeOK
  <2>1. modem \in ModemWith(modem.kiss)
    BY <1>1 DEF HostInv, Kept
  <2>2. /\ modem.number \in Numbers /\ modem.choice \in Chosen /\ modem.level \in LevelSettings
        /\ modem.aux \in UpTo(10, STRING) /\ modem.state \in States
        /\ modem.queue \in UpTo(QueueRoom, Nat) /\ modem.reports \in UpTo(ReportRoom, Nat)
    BY <2>1 DEF ModemWith
  <2>3. /\ \A name \in DOMAIN Limits : modem.number[name] \in Limits[name]
        /\ \A name \in DOMAIN Options : modem.choice[name] \in Options[name]
    BY <2>2 DEF Numbers, Chosen
  <2>4. \A name \in DOMAIN modem.level : modem.level[name] \in Levels
    BY <2>2 DEF LevelSettings
  <2> QED BY <2>2, <2>3, <2>4 DEF TypeOK, UpTo
<1> QED BY HostInvariant, <1>1, PTL

\* CalledAsAsked: what goes on the air is the call or the ping that the host asked for last, to
\* that station and as often, unless a call and a ping waited at the same time.
THEOREM HostCalls == Spec => CalledAsAsked
<1>1. ASSUME HostInv, [Next]_vars
      PROVE  [sent' # sent /\ ~modem.mixed =>
                LET s == sent'[Len(sent')] IN <<s[2], s[3]>> = modem.wanted[s[1]]]_vars
  <2>1. CASE CheckTimers \/ Played
    BY <1>1, <2>1, CallsAsWanted
  <2>2. CASE ~(CheckTimers \/ Played)
    <3>1. sent' = sent
      BY <1>1, <2>2, SentStays
    <3> QED BY <3>1 DEF vars
  <2> QED BY <2>1, <2>2
<1>2. Spec => [][sent' # sent /\ ~modem.mixed =>
                   LET s == sent'[Len(sent')] IN <<s[2], s[3]>> = modem.wanted[s[1]]]_vars
  BY HostInvariant, <1>1, PTL DEF Spec
<1> QED BY <1>2 DEF CalledAsAsked

\* What the serial line has come to, as HostLink counts it.
LinkCounts ==
  /\ CountOf(line.ran) = Len(line.ran) /\ CountOf(host.answers) = Len(host.answers)
  /\ [reports |-> modem.told - Len(modem.reports), data |-> modem.passed - Len(modem.forHost),
      cat |-> modem.heard - Len(modem.rig \o modem.cat)] = Given(modem)
  /\ [reports |-> CountOf(host.reports), data |-> CountOf(host.data), cat |-> CountOf(host.cat)] = Got
CountsOrCrossed == LinkCounts \/ line.crossed
\* The invariant says so.
LEMMA CountsLink == HostInv => CountsOrCrossed
<1> SUFFICES ASSUME HostInv, ~line.crossed PROVE LinkCounts
  BY DEF CountsOrCrossed
<1>1. LinkInv
  BY DEF HostInv, Astray
<1>2. CountOf(line.ran) = Len(line.ran) /\ CountOf(host.answers) = Len(host.answers)
  <2>1. line.ran = [i \in 1 .. Len(line.ran) |-> i] /\ host.answers = [i \in 1 .. Len(host.answers) |-> i]
    BY <1>1 DEF LinkInv, InTurn, UpTo0
  <2> QED BY <2>1 DEF CountOf
<1>3. /\ CountOf(host.reports) = Len(host.reports) /\ CountOf(host.data) = Len(host.data)
      /\ CountOf(host.cat) = Len(host.cat)
  <2>1. /\ host.reports = [i \in 1 .. Len(host.reports) |-> i] /\ host.data = [i \in 1 .. Len(host.data) |-> i]
        /\ host.cat = [i \in 1 .. Len(host.cat) |-> i]
    BY <1>1 DEF LinkInv, Delivered, UpTo0
  <2> QED BY <2>1 DEF CountOf
<1>4. modem.heard - Len(modem.rig \o modem.cat) = modem.heard - Len(modem.rig) - Len(modem.cat)
  <2>1. modem.heard \in Nat /\ modem.rig \in Seq(Nat) /\ modem.cat \in Seq(Nat)
    BY DEF HostInv, Kept, ModemWith, Items
  <2>2. PICK h \in Nat, l \in Nat, k \in Nat : h = modem.heard /\ l = Len(modem.rig) /\ k = Len(modem.cat)
    BY <2>1
  <2>3. Len(modem.rig \o modem.cat) = l + k
    BY <2>1, <2>2, ConcatProperties
  <2>4. h - (l + k) = h - l - k
    OBVIOUS
  <2> QED BY <2>2, <2>3, <2>4
<1> QED BY <1>2, <1>3, <1>4 DEF LinkCounts, Given, Got

\* The part of ImplementsHostLink that is safety.
KeepsPromise == Promise!Init /\ [][Promise!Next]_(Promise!link)

\* KeepsPromise: whatever is lost, repeated or late on the serial line, each request is done once
\* and answered with its own answer, and what is fetched arrives once and in order, until a repeat
\* is answered while the call of a request 'C' plays.
THEOREM HostKeepsPromise == Spec => KeepsPromise
<1>1. Init => Promise!Init
  <2>1. SUFFICES ASSUME Init PROVE Promise!Init
    OBVIOUS
  <2>2. HostInv /\ ~line.crossed /\ line.crossed = FALSE
    BY <2>1, HostInit DEF Init, NewLine
  <2>3. /\ host.asked = 0 /\ Len(line.ran) = 0 /\ Len(host.answers) = 0
        /\ Len(host.reports) = 0 /\ Len(host.data) = 0 /\ Len(host.cat) = 0
    BY <2>1 DEF Init, NewLine
  <2>4. Given(modem) = [reports |-> 0, data |-> 0, cat |-> 0] /\ Got = [reports |-> 0, data |-> 0, cat |-> 0]
    BY <2>1, <2>3, NewModemKept DEF Init, Got
  <2>5. [reports |-> 0, data |-> 0, cat |-> 0] = [kind \in {"reports", "data", "cat"} |-> 0]
    OBVIOUS
  <2> QED BY <2>2, <2>3, <2>4, <2>5, CountsLink DEF CountsOrCrossed, LinkCounts, Promise!Init, Promise!NoneYet, Promise!Kinds
<1>2. ASSUME HostInv, [Next]_vars, CountsOrCrossed, CountsOrCrossed'
      PROVE  [Promise!Next]_(Promise!link)
  <2> DEFINE given == [reports |-> modem.told - Len(modem.reports), data |-> modem.passed - Len(modem.forHost),
                       cat |-> modem.heard - Len(modem.rig \o modem.cat)]
             got == [reports |-> CountOf(host.reports), data |-> CountOf(host.data), cat |-> CountOf(host.cat)]
             ran == CountOf(line.ran)
             answered == CountOf(host.answers)
  <2>0. CASE line'.crossed = TRUE
    BY <2>0 DEF Promise!Next, Promise!Crossed
  <2> SUFFICES ASSUME line'.crossed # TRUE PROVE [Promise!Next]_(Promise!link)
    BY <2>0
  <2>10. /\ LinkInv /\ LinkMoves /\ LinkCounts /\ LinkCounts' /\ ~line.crossed
         /\ line'.crossed = line.crossed /\ line.crossed = FALSE
    <3>1. SerialTyped' /\ line'.crossed = FALSE
      <4>1. SerialTyped'
        BY <1>2, HostNext DEF HostInv, LinkInv, Astray
      <4> QED BY <4>1 DEF SerialTyped, LineWith, Truth
    <3>2. LinkInv /\ LinkMoves
      BY <1>2, <3>1, HostNext DEF Astray
    <3>3. line.crossed = FALSE
      BY <3>2 DEF LinkInv, SerialTyped, LineWith, Truth
    <3> QED BY <1>2, <3>1, <3>2, <3>3 DEF CountsOrCrossed
  <2>1. ran = Len(line.ran) /\ answered = Len(host.answers) /\ given = Given(modem) /\ got = Got
    BY <2>10 DEF LinkCounts
  <2>2. ran' = Len(line'.ran) /\ answered' = Len(host'.answers) /\ given' = Given(modem') /\ got' = Got'
    BY <2>10 DEF LinkCounts
  <2>3. LinkMoves
    BY <2>10
  <2>4. Len(line.ran) \in Nat /\ Len(host.answers) \in Nat
    BY <2>10, Counted
  <2>5. \A n \in Nat : Len(UpTo0(n)) = n
    BY DEF UpTo0
  <2> HIDE DEF given, got, ran, answered
  <2>6. CASE LinkAsks
    <3>1. /\ host.asked = answered /\ host'.asked = host.asked + 1 /\ ran' = ran /\ answered' = answered
          /\ given' = given /\ got' = got
      BY <2>1, <2>2, <2>6 DEF LinkAsks
    <3>2. Promise!Ask
      BY <2>10, <3>1 DEF Promise!Ask, given, got, ran, answered
    <3> QED BY <3>2 DEF Promise!Next
  <2>7. CASE LinkRuns
    <3>1. /\ ran < host.asked /\ ran' = ran + 1 /\ host'.asked = host.asked /\ answered' = answered
          /\ got' = got /\ HandsOver(given, given')
      BY <2>1, <2>2, <2>4, <2>5, <2>7 DEF LinkRuns
    <3>2. \/ given' = given
          \/ \E kind \in {"reports", "data", "cat"} :
               given'[kind] > given[kind] /\ given' = [given EXCEPT ![kind] = given'[kind]]
      <4>1. ASSUME NEW kind \in KINDS, given'[kind] > given[kind],
                   \A other \in KINDS \ {kind} : given'[other] = given[other]
            PROVE  given' = [given EXCEPT ![kind] = given'[kind]]
        BY <4>1 DEF given, KINDS
      <4> QED BY <3>1, <4>1 DEF HandsOver, KINDS
    <3>3. Promise!Run
      BY <2>10, <3>1, <3>2 DEF Promise!Run, Promise!Kinds, given, got, ran, answered
    <3> QED BY <3>3 DEF Promise!Next
  <2>8. CASE LinkAnswers
    <3>1. /\ answered < ran /\ answered' = answered + 1 /\ got' = given /\ host'.asked = host.asked
          /\ ran' = ran /\ given' = given
      BY <2>1, <2>2, <2>4, <2>5, <2>8 DEF LinkAnswers
    <3>2. Promise!Answer
      BY <2>10, <3>1 DEF Promise!Answer, given, got, ran, answered
    <3> QED BY <3>2 DEF Promise!Next
  <2>9. CASE LinkRests
    <3>1. host'.asked = host.asked /\ ran' = ran /\ answered' = answered /\ given' = given /\ got' = got
      BY <2>1, <2>2, <2>9 DEF LinkRests
    <3> QED BY <2>10, <3>1 DEF Promise!link, given, got, ran, answered
  <2> QED BY <2>3, <2>6, <2>7, <2>8, <2>9 DEF LinkMoves
<1>3. Spec => [][Promise!Next]_(Promise!link)
  BY HostInvariant, CountsLink, <1>2, PTL DEF Spec
<1>4. Spec => Promise!Init
  BY <1>1, PTL DEF Spec
<1> QED BY <1>3, <1>4 DEF KeepsPromise
-----------------------------------------------------------------------------
(* The order of what is done.  A connection is a queue of pieces, those    *)
(* received and those on their way (Way); a step takes some from its       *)
(* front, adds a pair at its end or loses its end.  RanInv says of that    *)
(* queue and of what was done that the order holds now, and will hold for  *)
(* all that is still to come.                                              *)

\* What a connection holds and what is on its way to it.
Way(t) == t.buf \o t.wire
\* The pieces of what a host says.
AreParts(P) ==
  \A p \in P : p = [id |-> p.id, half |-> p.half, what |-> p.what] /\ p.id \in Nat /\ p.half \in {1, 2}
Twins(p, r) == p.half = 1 /\ r.half = 2 /\ p.id = r.id /\ p.what = r.what
Before(p, r) == p.id < r.id \/ (p.id = r.id /\ p.half = 1 /\ r.half = 2)
Onward(q) == \A i, j \in 1 .. Len(q) : i < j => Before(q[i], q[j])
\* What was done is in the order in which it was said, and before what comes after place r.
DoneInOrder(ran, q, r, said) ==
  /\ \A j \in r + 1 .. Len(q) : 0 < q[j].id /\ q[j].id <= said
  /\ \A i \in 1 .. Len(ran) : ran[i] <= said
  /\ \A i, j \in 1 .. Len(ran) : i < j /\ ran[i] # 0 /\ ran[j] # 0 => ran[i] < ran[j]
  /\ \A i \in 1 .. Len(ran), j \in r + 1 .. Len(q) : ran[i] < q[j].id

\* What is done next is some of what follows, up to place s, in its order, or was never said.
LEMMA OrderGoes ==
  ASSUME NEW P, AreParts(P), NEW q \in Seq(P), Onward(q), NEW ran \in Seq(Nat), NEW ids \in Seq(Nat),
         NEW r \in Nat, NEW s \in Nat, r <= s, NEW said \in Nat, DoneInOrder(ran, q, r, said), NEW g,
         \A i \in 1 .. Len(ids) :
           ids[i] = 0 \/ (g[i] \in r + 1 .. Len(q) /\ g[i] <= s /\ q[g[i]].half = 2 /\ ids[i] = q[g[i]].id),
         \A i, j \in 1 .. Len(ids) : i < j /\ ids[i] # 0 /\ ids[j] # 0 => g[i] < g[j]
  PROVE  DoneInOrder(ran \o ids, q, s, said)
<1>1. PICK l \in Nat, a \in Nat, b \in Nat : l = Len(q) /\ a = Len(ran) /\ b = Len(ids)
  <2>1. Len(q) \in Nat /\ Len(ran) \in Nat /\ Len(ids) \in Nat
    OBVIOUS
  <2> QED BY <2>1
<1>2. PICK all : all = ran \o ids
  OBVIOUS
<1>3. /\ Len(all) = a + b /\ \A i \in 1 .. a : all[i] = ran[i]
      /\ \A i \in 1 .. a + b : i > a => i - a \in 1 .. b /\ all[i] = ids[i - a]
  BY <1>1, <1>2
<1>4. \A j \in 1 .. l : q[j].id \in Nat
  BY <1>1 DEF AreParts
<1>5. /\ \A i \in 1 .. a : ran[i] \in Nat /\ ran[i] <= said
      /\ \A i \in 1 .. b : ids[i] \in Nat
      /\ \A j \in r + 1 .. l : 0 < q[j].id /\ q[j].id <= said
      /\ \A i \in 1 .. a, j \in r + 1 .. l : ran[i] < q[j].id
      /\ \A i, j \in 1 .. a : i < j /\ ran[i] # 0 /\ ran[j] # 0 => ran[i] < ran[j]
  BY <1>1 DEF DoneInOrder
<1>6. ASSUME NEW i \in 1 .. b, ids[i] # 0
      PROVE  g[i] \in r + 1 .. l /\ g[i] <= s /\ q[g[i]].half = 2 /\ ids[i] = q[g[i]].id
  BY <1>1, <1>6
<1>7. ASSUME NEW i \in 1 .. l, NEW j \in 1 .. l, i < j, q[i].half = 2 PROVE q[i].id < q[j].id
  BY <1>1, <1>7 DEF Onward, Before
<1>8. ASSUME NEW i \in 1 .. a + b PROVE all[i] \in Nat /\ all[i] <= said
  <2>1. CASE i <= a
    BY <1>3, <1>5, <2>1
  <2>2. CASE i > a
    <3>1. PICK e \in 1 .. b : e = i - a /\ all[i] = ids[e]
      BY <1>3, <2>2
    <3>2. CASE ids[e] = 0
      BY <3>1, <3>2
    <3>3. CASE ids[e] # 0
      BY <1>5, <1>6, <3>1, <3>3
    <3> QED BY <3>2, <3>3
  <2> QED BY <2>1, <2>2
<1>9. ASSUME NEW i \in 1 .. a + b, NEW j \in s + 1 .. l PROVE all[i] < q[j].id
  <2>1. j \in r + 1 .. l /\ j \in 1 .. l
    OBVIOUS
  <2>2. CASE i <= a
    BY <1>3, <1>5, <2>1, <2>2
  <2>3. CASE i > a
    <3>1. PICK e \in 1 .. b : e = i - a /\ all[i] = ids[e]
      BY <1>3, <2>3
    <3>2. CASE ids[e] = 0
      BY <1>5, <2>1, <3>1, <3>2
    <3>3. CASE ids[e] # 0
      <4>1. PICK k \in r + 1 .. l : k = g[e] /\ k <= s /\ q[k].half = 2 /\ ids[e] = q[k].id
        BY <1>6, <3>3
      <4>2. k \in 1 .. l /\ k < j
        BY <4>1
      <4> QED BY <1>7, <2>1, <3>1, <4>1, <4>2
    <3> QED BY <3>2, <3>3
  <2> QED BY <2>2, <2>3
<1>10. ASSUME NEW i \in 1 .. a + b, NEW j \in 1 .. a + b, i < j, all[i] # 0, all[j] # 0
       PROVE  all[i] < all[j]
  <2>1. CASE j <= a
    <3>1. i \in 1 .. a /\ j \in 1 .. a
      BY <1>10, <2>1
    <3> QED BY <1>3, <1>5, <1>10, <3>1
  <2>2. CASE j > a
    <3>1. PICK e \in 1 .. b : e = j - a /\ all[j] = ids[e]
      BY <1>3, <2>2
    <3>2. PICK k \in r + 1 .. l : k = g[e] /\ k <= s /\ q[k].half = 2 /\ ids[e] = q[k].id
      BY <1>6, <1>10, <3>1
    <3>3. CASE i <= a
      <4>1. i \in 1 .. a /\ all[i] = ran[i]
        BY <1>3, <3>3
      <4>2. ran[i] < q[k].id
        BY <1>5, <4>1
      <4> QED BY <3>1, <3>2, <4>1, <4>2
    <3>4. CASE i > a
      <4>1. PICK d \in 1 .. b : d = i - a /\ all[i] = ids[d]
        BY <1>3, <3>4
      <4>2. PICK h \in r + 1 .. l : h = g[d] /\ h <= s /\ q[h].half = 2 /\ ids[d] = q[h].id
        BY <1>6, <1>10, <4>1
      <4>3. d < e /\ ids[d] # 0 /\ ids[e] # 0
        BY <1>10, <3>1, <4>1
      <4>4. h < k
        BY <1>1, <3>2, <4>2, <4>3
      <4>5. h \in 1 .. l /\ k \in 1 .. l
        OBVIOUS
      <4> QED BY <1>7, <3>1, <3>2, <4>1, <4>2, <4>4, <4>5
    <3> QED BY <3>3, <3>4
  <2> QED BY <2>1, <2>2
<1>11. \A j \in s + 1 .. l : 0 < q[j].id /\ q[j].id <= said
  BY <1>5
<1> QED BY <1>1, <1>2, <1>3, <1>8, <1>9, <1>10, <1>11 DEF DoneInOrder

\* The end of each command follows its beginning.
Owned(q) == \A j \in 1 .. Len(q) : q[j].half = 2 => j > 1 /\ Twins(q[j - 1], q[j])
\* What begins after place r and is not ended, but for the last if its end may have been lost (e).
IsOrphan(q, j, e) ==
  q[j].half = 1 /\ (j < Len(q) => q[j + 1].half = 1) /\ ~(e /\ j = Len(q))
Orphans(q, r, e) == {q[j].id : j \in {j \in r + 1 .. Len(q) : IsOrphan(q, j, e)}}
\* Pieces that come in pairs.
Paired(q) ==
  \A h \in 1 .. Len(q) :
    /\ 2 * h - 1 <= Len(q) => q[2 * h - 1].half = 1
    /\ 2 * h <= Len(q) => Twins(q[2 * h - 1], q[2 * h])

IsRest(p, q, r) == Len(p) = Len(q) - r /\ \A j \in 1 .. Len(p) : p[j] = q[r + j]
IsStart(p, q) == Len(p) <= Len(q) /\ \A j \in 1 .. Len(p) : p[j] = q[j]
IsMore(p, q, new) == Len(p) = Len(q) + 2 /\ IsStart(q, p) /\ p[Len(q) + 1] = new[1] /\ p[Len(q) + 2] = new[2]

\* What is left after place r.
LEMMA RestInOrder ==
  ASSUME NEW P, NEW q \in Seq(P), NEW p \in Seq(P), NEW r \in 0 .. Len(q), IsRest(p, q, r), Onward(q)
  PROVE  /\ Onward(p)
         /\ \A ran \in Seq(Nat), said \in Nat : DoneInOrder(ran, q, r, said) => DoneInOrder(ran, p, 0, said)
<1>1. PICK l \in Nat, k \in Nat : l = Len(q) /\ k = Len(p) /\ k = l - r
  <2>1. Len(q) \in Nat /\ Len(p) \in Nat /\ Len(p) = Len(q) - r
    BY DEF IsRest
  <2> QED BY <2>1
<1>2. \A j \in 1 .. k : p[j] = q[r + j] /\ r + j \in 1 .. l /\ r + j \in r + 1 .. l
  BY <1>1 DEF IsRest
<1>3. Onward(p)
  <2>1. ASSUME NEW i \in 1 .. k, NEW j \in 1 .. k, i < j PROVE Before(p[i], p[j])
    <3>1. r + i \in 1 .. l /\ r + j \in 1 .. l /\ r + i < r + j
      BY <1>2, <2>1
    <3>2. Before(q[r + i], q[r + j])
      BY <1>1, <3>1 DEF Onward
    <3> QED BY <1>2, <3>2
  <2> QED BY <1>1, <2>1 DEF Onward
<1>4. ASSUME NEW ran \in Seq(Nat), NEW said \in Nat, DoneInOrder(ran, q, r, said)
      PROVE  DoneInOrder(ran, p, 0, said)
  <2>1. \A j \in 0 + 1 .. k : j \in 1 .. k
    OBVIOUS
  <2>2. ASSUME NEW j \in 0 + 1 .. k
        PROVE  /\ 0 < p[j].id /\ p[j].id <= said
               /\ \A i \in 1 .. Len(ran) : ran[i] < p[j].id
    <3>1. p[j] = q[r + j] /\ r + j \in r + 1 .. l
      BY <1>2, <2>1
    <3> QED BY <1>1, <1>4, <3>1 DEF DoneInOrder
  <2> QED BY <1>1, <1>4, <2>2 DEF DoneInOrder
<1> QED BY <1>3, <1>4

\* What is left begins a command where nothing has been left behind.
LEMMA RestOwned ==
  ASSUME NEW P, AreParts(P), NEW q \in Seq(P), NEW p \in Seq(P), NEW r \in 0 .. Len(q), IsRest(p, q, r),
         Owned(q), r # 0 => q[r].half = 2
  PROVE  Owned(p) /\ \A e : Orphans(p, 0, e) = Orphans(q, r, e)
<1>1. PICK l \in Nat, k \in Nat : l = Len(q) /\ k = Len(p) /\ k = l - r
  <2>1. Len(q) \in Nat /\ Len(p) \in Nat /\ Len(p) = Len(q) - r
    BY DEF IsRest
  <2> QED BY <2>1
<1>2. \A j \in 1 .. k : p[j] = q[r + j] /\ r + j \in 1 .. l
  BY <1>1 DEF IsRest
<1>3. ASSUME NEW j \in 1 .. k, p[j].half = 2 PROVE j > 1 /\ Twins(p[j - 1], p[j])
  <2>1. q[r + j].half = 2 /\ r + j \in 1 .. l /\ p[j] = q[r + j]
    BY <1>2, <1>3
  <2>2. r + j > 1 /\ Twins(q[r + j - 1], q[r + j])
    BY <1>1, <2>1 DEF Owned
  <2>3. j # 1
    <3>1. CASE r = 0
      BY <2>2, <3>1
    <3>2. CASE r # 0
      <4>1. j = 1 => q[r].half = 1
        BY <2>2 DEF Twins
      <4> QED BY <3>2, <4>1
    <3> QED BY <3>1, <3>2
  <2>4. j - 1 \in 1 .. k /\ r + (j - 1) = r + j - 1
    BY <2>3
  <2>5. p[j - 1] = q[r + j - 1]
    BY <1>2, <2>4
  <2> QED BY <2>1, <2>2, <2>4, <2>5
<1>4. ASSUME NEW e PROVE Orphans(p, 0, e) = Orphans(q, r, e)
  <2>1. ASSUME NEW j \in 1 .. k PROVE IsOrphan(p, j, e) <=> IsOrphan(q, r + j, e)
    <3>1. p[j] = q[r + j] /\ (j < k <=> r + j < l) /\ (j = k <=> r + j = l)
      BY <1>1, <1>2
    <3>2. j < k => p[j + 1] = q[r + j + 1]
      <4>1. SUFFICES ASSUME j < k PROVE p[j + 1] = q[r + j + 1]
        OBVIOUS
      <4>2. j + 1 \in 1 .. k /\ r + (j + 1) = r + j + 1
        BY <4>1
      <4> QED BY <1>2, <4>2
    <3> QED BY <1>1, <3>1, <3>2 DEF IsOrphan
  <2>2. ASSUME NEW j \in 0 + 1 .. k, IsOrphan(p, j, e)
        PROVE  \E i \in r + 1 .. l : IsOrphan(q, i, e) /\ p[j].id = q[i].id
    <3>1. j \in 1 .. k /\ r + j \in r + 1 .. l
      BY <1>1
    <3> QED BY <1>2, <2>1, <2>2, <3>1
  <2>3. ASSUME NEW i \in r + 1 .. l, IsOrphan(q, i, e)
        PROVE  \E j \in 0 + 1 .. k : IsOrphan(p, j, e) /\ p[j].id = q[i].id
    <3>1. i - r \in 1 .. k /\ i - r \in 0 + 1 .. k /\ r + (i - r) = i
      BY <1>1
    <3>2. IsOrphan(p, i - r, e) /\ p[i - r] = q[i]
      BY <1>2, <2>1, <2>3, <3>1
    <3> QED BY <3>1, <3>2
  <2>4. Orphans(p, 0, e) \subseteq Orphans(q, r, e)
    BY <1>1, <2>2 DEF Orphans
  <2>5. Orphans(q, r, e) \subseteq Orphans(p, 0, e)
    <3>1. ASSUME NEW x \in Orphans(q, r, e) PROVE x \in Orphans(p, 0, e)
      <4>1. PICK i \in r + 1 .. l : IsOrphan(q, i, e) /\ x = q[i].id
        BY <1>1 DEF Orphans
      <4>2. PICK j \in 0 + 1 .. k : IsOrphan(p, j, e) /\ p[j].id = x
        BY <2>3, <4>1
      <4> QED BY <1>1, <4>2 DEF Orphans
    <3> QED BY <3>1
  <2> QED BY <2>4, <2>5
<1> QED BY <1>1, <1>3, <1>4 DEF Owned

\* What is left after pairs comes in pairs.
LEMMA RestPaired ==
  ASSUME NEW P, NEW q \in Seq(P), NEW p \in Seq(P), NEW h \in Nat, 2 * h <= Len(q), IsRest(p, q, 2 * h),
         Paired(q)
  PROVE  Paired(p)
<1>1. PICK l \in Nat, k \in Nat : l = Len(q) /\ k = Len(p) /\ k = l - 2 * h
  <2>1. Len(q) \in Nat /\ Len(p) \in Nat /\ Len(p) = Len(q) - 2 * h
    BY DEF IsRest
  <2> QED BY <2>1
<1>2. \A j \in 1 .. k : p[j] = q[2 * h + j]
  BY <1>1 DEF IsRest
<1>3. \A i \in 1 .. l : /\ 2 * i - 1 <= l => q[2 * i - 1].half = 1
                        /\ 2 * i <= l => Twins(q[2 * i - 1], q[2 * i])
  BY <1>1 DEF Paired
<1>4. ASSUME NEW i \in 1 .. k
      PROVE  /\ 2 * i - 1 <= k => p[2 * i - 1].half = 1
             /\ 2 * i <= k => Twins(p[2 * i - 1], p[2 * i])
  <2>1. h + i \in 1 .. l /\ 2 * (h + i) = 2 * h + 2 * i /\ 2 * (h + i) - 1 = 2 * h + (2 * i - 1)
    BY <1>1
  <2>2. 2 * i - 1 <= k => p[2 * i - 1] = q[2 * (h + i) - 1]
    <3>1. 2 * i - 1 <= k => 2 * i - 1 \in 1 .. k
      OBVIOUS
    <3> QED BY <1>2, <2>1, <3>1
  <2>3. 2 * i <= k => p[2 * i] = q[2 * (h + i)] /\ 2 * i - 1 <= k
    <3>1. 2 * i <= k => 2 * i \in 1 .. k /\ 2 * i - 1 <= k
      OBVIOUS
    <3> QED BY <1>2, <2>1, <3>1
  <2>4. (2 * i - 1 <= k => 2 * (h + i) - 1 <= l) /\ (2 * i <= k => 2 * (h + i) <= l)
    BY <1>1
  <2> QED BY <1>3, <2>1, <2>2, <2>3, <2>4
<1> QED BY <1>1, <1>4 DEF Paired

\* What is cut off at the end.
LEMMA StartStays ==
  ASSUME NEW P, NEW q \in Seq(P), NEW p \in Seq(P), IsStart(p, q)
  PROVE  /\ Onward(q) => Onward(p)
         /\ Owned(q) => Owned(p)
         /\ Paired(q) => Paired(p)
         /\ \A ran, said : DoneInOrder(ran, q, 0, said) => DoneInOrder(ran, p, 0, said)
<1>1. PICK l \in Nat, k \in Nat : l = Len(q) /\ k = Len(p) /\ k <= l
  <2>1. Len(q) \in Nat /\ Len(p) \in Nat /\ Len(p) <= Len(q)
    BY DEF IsStart
  <2> QED BY <2>1
<1>2. \A j \in 1 .. k : p[j] = q[j] /\ j \in 1 .. l
  BY <1>1 DEF IsStart
<1>3. ASSUME Onward(q) PROVE Onward(p)
  BY <1>1, <1>2, <1>3 DEF Onward
<1>4. ASSUME Owned(q) PROVE Owned(p)
  <2>1. ASSUME NEW j \in 1 .. k, p[j].half = 2 PROVE j > 1 /\ Twins(p[j - 1], p[j])
    <3>1. j > 1 /\ Twins(q[j - 1], q[j])
      BY <1>1, <1>2, <1>4, <2>1 DEF Owned
    <3>2. j - 1 \in 1 .. k
      BY <3>1
    <3> QED BY <1>2, <3>1, <3>2
  <2> QED BY <1>1, <2>1 DEF Owned
<1>5. ASSUME Paired(q) PROVE Paired(p)
  <2>1. ASSUME NEW i \in 1 .. k
        PROVE  /\ 2 * i - 1 <= k => p[2 * i - 1].half = 1
               /\ 2 * i <= k => Twins(p[2 * i - 1], p[2 * i])
    <3>1. /\ 2 * i - 1 <= l => q[2 * i - 1].half = 1
          /\ 2 * i <= l => Twins(q[2 * i - 1], q[2 * i])
      BY <1>1, <1>2, <1>5 DEF Paired
    <3>2. (2 * i - 1 <= k => 2 * i - 1 \in 1 .. k) /\ (2 * i <= k => 2 * i \in 1 .. k /\ 2 * i - 1 <= k)
      OBVIOUS
    <3> QED BY <1>1, <1>2, <3>1, <3>2
  <2> QED BY <1>1, <2>1 DEF Paired
<1>6. ASSUME NEW ran, NEW said, DoneInOrder(ran, q, 0, said) PROVE DoneInOrder(ran, p, 0, said)
  <2>1. \A j \in 0 + 1 .. k : j \in 0 + 1 .. l /\ p[j] = q[j]
    BY <1>1, <1>2
  <2> QED BY <1>1, <1>6, <2>1 DEF DoneInOrder
<1> QED BY <1>3, <1>4, <1>5, <1>6

\* What is cut off leaves at most one beginning more.
LEMMA StartOrphans ==
  ASSUME NEW P, AreParts(P), NEW q \in Seq(P), NEW p \in Seq(P), IsStart(p, q), NEW e
  PROVE  /\ Orphans(p, 0, TRUE) \subseteq Orphans(q, 0, e)
         /\ Orphans(p, 0, FALSE) \subseteq Orphans(q, 0, e) \cup {p[Len(p)].id}
<1>1. PICK l \in Nat, k \in Nat : l = Len(q) /\ k = Len(p) /\ k <= l
  <2>1. Len(q) \in Nat /\ Len(p) \in Nat /\ Len(p) <= Len(q)
    BY DEF IsStart
  <2> QED BY <2>1
<1>2. \A j \in 1 .. k : p[j] = q[j] /\ j \in 1 .. l
  BY <1>1 DEF IsStart
<1>3. ASSUME NEW j \in 0 + 1 .. k, NEW d, IsOrphan(p, j, d), j # k
      PROVE  p[j].id \in Orphans(q, 0, e)
  <2>1. j \in 1 .. k /\ j < k /\ j + 1 \in 1 .. k /\ j # l /\ j \in 0 + 1 .. l
    BY <1>1, <1>3
  <2>2. q[j].half = 1 /\ q[j + 1].half = 1 /\ p[j] = q[j]
    BY <1>1, <1>2, <1>3, <2>1 DEF IsOrphan
  <2>3. IsOrphan(q, j, e)
    BY <1>1, <2>1, <2>2 DEF IsOrphan
  <2> QED BY <1>1, <2>1, <2>2, <2>3 DEF Orphans
<1>4. ASSUME NEW j \in 0 + 1 .. k, IsOrphan(p, j, TRUE) PROVE j # k
  BY <1>1, <1>4 DEF IsOrphan
<1>5. Orphans(p, 0, TRUE) \subseteq Orphans(q, 0, e)
  BY <1>1, <1>3, <1>4 DEF Orphans
<1>6. Orphans(p, 0, FALSE) \subseteq Orphans(q, 0, e) \cup {p[k].id}
  BY <1>1, <1>3 DEF Orphans
<1> QED BY <1>1, <1>5, <1>6

\* What the host says next.
LEMMA MoreInOrder ==
  ASSUME NEW P, AreParts(P), NEW q \in Seq(P), NEW p \in Seq(P), NEW new, IsMore(p, q, new),
         Twins(new[1], new[2]), NEW said \in Nat, new[1].id = said + 1, Onward(q),
         NEW ran \in Seq(Nat), DoneInOrder(ran, q, 0, said)
  PROVE  Onward(p) /\ DoneInOrder(ran, p, 0, said + 1)
<1>1. PICK l \in Nat, k \in Nat : l = Len(q) /\ k = Len(p) /\ k = l + 2
  <2>1. Len(q) \in Nat /\ Len(p) \in Nat /\ Len(p) = Len(q) + 2
    BY DEF IsMore
  <2> QED BY <2>1
<1>2. /\ \A j \in 1 .. l : p[j] = q[j]
      /\ p[l + 1].half = 1 /\ p[l + 2].half = 2 /\ p[l + 1].id = said + 1 /\ p[l + 2].id = said + 1
  BY <1>1 DEF IsMore, IsStart, Twins
<1>3. \A j \in 1 .. l : q[j].id \in Nat /\ 0 < q[j].id /\ q[j].id <= said
  <2>1. \A j \in 1 .. l : j \in 0 + 1 .. l
    OBVIOUS
  <2> QED BY <1>1, <2>1 DEF DoneInOrder, AreParts
<1>4. \A j \in 1 .. k : j \in 1 .. l \/ j = l + 1 \/ j = l + 2
  BY <1>1
<1>5. Onward(p)
  <2>1. ASSUME NEW i \in 1 .. k, NEW j \in 1 .. k, i < j PROVE Before(p[i], p[j])
    <3>1. CASE j \in 1 .. l
      <4>1. i \in 1 .. l
        BY <2>1, <3>1
      <4>2. Before(q[i], q[j])
        BY <1>1, <2>1, <3>1, <4>1 DEF Onward
      <4> QED BY <1>2, <3>1, <4>1, <4>2
    <3>2. CASE i \in 1 .. l /\ j \notin 1 .. l
      <4>1. p[i].id <= said /\ p[i].id \in Nat /\ p[j].id = said + 1
        BY <1>2, <1>3, <1>4, <3>2
      <4> QED BY <4>1 DEF Before
    <3>3. CASE i = l + 1 /\ j = l + 2
      BY <1>2, <3>3 DEF Before
    <3> QED BY <1>1, <1>4, <2>1, <3>1, <3>2, <3>3
  <2> QED BY <1>1, <2>1 DEF Onward
<1>6. DoneInOrder(ran, p, 0, said + 1)
  <2>1. PICK a \in Nat : a = Len(ran)
    OBVIOUS
  <2>2. \A i \in 1 .. a : ran[i] \in Nat /\ ran[i] <= said
    BY <2>1 DEF DoneInOrder
  <2>3. ASSUME NEW j \in 0 + 1 .. k
        PROVE  0 < p[j].id /\ p[j].id <= said + 1 /\ \A i \in 1 .. a : ran[i] < p[j].id
    <3>1. CASE j \in 1 .. l
      <4>1. \A i \in 1 .. a : ran[i] < q[j].id
        <5>1. j \in 0 + 1 .. l
          BY <3>1
        <5> QED BY <1>1, <2>1, <5>1 DEF DoneInOrder
      <4>2. p[j] = q[j] /\ 0 < p[j].id /\ p[j].id <= said + 1
        BY <1>2, <1>3, <3>1
      <4> QED BY <4>1, <4>2
    <3>2. CASE j \notin 1 .. l
      <4>1. j = l + 1 \/ j = l + 2
        <5>1. j \in 1 .. k
          OBVIOUS
        <5> QED BY <1>4, <3>2, <5>1
      <4>2. p[j].id = said + 1
        BY <1>2, <4>1
      <4>3. \A i \in 1 .. a : ran[i] < said + 1
        BY <2>2
      <4> QED BY <4>2, <4>3
    <3> QED BY <3>1, <3>2
  <2>4. \A i \in 1 .. a : ran[i] <= said + 1
    BY <2>2
  <2>5. \A i, j \in 1 .. a : i < j /\ ran[i] # 0 /\ ran[j] # 0 => ran[i] < ran[j]
    BY <2>1 DEF DoneInOrder
  <2> QED BY <1>1, <2>1, <2>3, <2>4, <2>5 DEF DoneInOrder
<1> QED BY <1>5, <1>6

\* What the host says next is a beginning and its end.
LEMMA MoreOwned ==
  ASSUME NEW P, AreParts(P), NEW q \in Seq(P), NEW p \in Seq(P), NEW new, IsMore(p, q, new),
         Twins(new[1], new[2])
  PROVE  /\ Owned(q) => Owned(p)
         /\ Orphans(p, 0, FALSE) \subseteq Orphans(q, 0, FALSE)
         /\ \A h \in Nat : Paired(q) /\ Len(q) = 2 * h => Paired(p)
<1>1. PICK l \in Nat, k \in Nat : l = Len(q) /\ k = Len(p) /\ k = l + 2
  <2>1. Len(q) \in Nat /\ Len(p) \in Nat /\ Len(p) = Len(q) + 2
    BY DEF IsMore
  <2> QED BY <2>1
<1>2. /\ \A j \in 1 .. l : p[j] = q[j]
      /\ p[l + 1] = new[1] /\ p[l + 2] = new[2]
  BY <1>1 DEF IsMore, IsStart
<1>3. p[l + 1].half = 1 /\ p[l + 2].half = 2 /\ Twins(p[l + 1], p[l + 2])
  BY <1>2 DEF Twins
<1>4. \A j \in 1 .. k : j \in 1 .. l \/ j = l + 1 \/ j = l + 2
  BY <1>1
<1>5. ASSUME Owned(q) PROVE Owned(p)
  <2>1. ASSUME NEW j \in 1 .. k, p[j].half = 2 PROVE j > 1 /\ Twins(p[j - 1], p[j])
    <3>1. CASE j \in 1 .. l
      <4>1. j > 1 /\ Twins(q[j - 1], q[j])
        BY <1>1, <1>2, <1>5, <2>1, <3>1 DEF Owned
      <4>2. j - 1 \in 1 .. l
        BY <3>1, <4>1
      <4> QED BY <1>2, <3>1, <4>1, <4>2
    <3>2. CASE j = l + 2
      <4>1. j - 1 = l + 1 /\ j > 1
        BY <3>2
      <4> QED BY <1>3, <3>2, <4>1
    <3> QED BY <1>3, <1>4, <2>1, <3>1, <3>2
  <2> QED BY <1>1, <2>1 DEF Owned
<1>6. ASSUME NEW j \in 0 + 1 .. k, IsOrphan(p, j, FALSE) PROVE p[j].id \in Orphans(q, 0, FALSE)
  <2>1. p[j].half = 1 /\ (j < k => p[j + 1].half = 1)
    BY <1>1, <1>6 DEF IsOrphan
  <2>2. j \in 1 .. l
    <3>1. j # l + 2
      BY <1>3, <2>1
    <3>2. j # l + 1
      <4>1. j = l + 1 => j < k /\ j + 1 = l + 2
        BY <1>1
      <4> QED BY <1>3, <2>1, <4>1
    <3> QED BY <1>1, <1>4, <3>1, <3>2
  <2>3. j < l => q[j + 1].half = 1
    <3>1. j < l => j + 1 \in 1 .. l /\ j < k
      BY <1>1, <2>2
    <3> QED BY <1>2, <2>1, <3>1
  <2>4. IsOrphan(q, j, FALSE)
    BY <1>1, <1>2, <2>1, <2>2, <2>3 DEF IsOrphan
  <2>5. j \in 0 + 1 .. l
    BY <2>2
  <2> QED BY <1>1, <1>2, <2>2, <2>4, <2>5 DEF Orphans
<1>7. Orphans(p, 0, FALSE) \subseteq Orphans(q, 0, FALSE)
  BY <1>1, <1>6 DEF Orphans
<1>8. ASSUME NEW h \in Nat, Paired(q), l = 2 * h PROVE Paired(p)
  <2>1. ASSUME NEW i \in 1 .. k
        PROVE  /\ 2 * i - 1 <= k => p[2 * i - 1].half = 1
               /\ 2 * i <= k => Twins(p[2 * i - 1], p[2 * i])
    <3>1. CASE i <= h
      <4>1. i \in 1 .. l /\ 2 * i - 1 \in 1 .. l /\ 2 * i \in 1 .. l
        BY <1>8, <3>1
      <4>2. q[2 * i - 1].half = 1 /\ Twins(q[2 * i - 1], q[2 * i])
        BY <1>1, <1>8, <4>1 DEF Paired
      <4> QED BY <1>2, <4>1, <4>2
    <3>2. CASE i = h + 1
      <4>1. 2 * i - 1 = l + 1 /\ 2 * i = l + 2
        BY <1>8, <3>2
      <4> QED BY <1>3, <4>1
    <3>3. CASE i > h + 1
      <4>1. ~(2 * i - 1 <= k) /\ ~(2 * i <= k)
        BY <1>1, <1>8, <3>3
      <4> QED BY <4>1
    <3> QED BY <3>1, <3>2, <3>3
  <2> QED BY <1>1, <2>1 DEF Paired
<1> QED BY <1>1, <1>5, <1>7, <1>8

-----------------------------------------------------------------------------
(* Lines.                                                                  *)

\* The places of what nobody said.
Unsaid(ran) == {i \in DOMAIN ran : ran[i] = 0}

\* They are counted.
LEMMA UnsaidIs ==
  ASSUME NEW ran \in Seq(Nat), NEW x \in Nat
  PROVE  /\ IsFiniteSet(Unsaid(ran)) /\ Cardinality(Unsaid(ran)) \in Nat
         /\ Cardinality(Unsaid(Append(ran, x))) = Cardinality(Unsaid(ran)) + (IF x = 0 THEN 1 ELSE 0)
<1>1. PICK l \in Nat : l = Len(ran)
  OBVIOUS
<1>2. IsFiniteSet(Unsaid(ran)) /\ Cardinality(Unsaid(ran)) \in Nat
  <2>1. IsFiniteSet(1 .. l)
    BY FS_Interval
  <2>2. Unsaid(ran) \in SUBSET (1 .. l)
    BY <1>1 DEF Unsaid
  <2> QED BY <2>1, <2>2, FS_Subset, FS_CardinalityType
<1>3. PICK more : more = Append(ran, x)
  OBVIOUS
<1>4. DOMAIN more = 1 .. l + 1 /\ more[l + 1] = x /\ \A i \in 1 .. l : more[i] = ran[i]
  BY <1>1, <1>3
<1>5. \A i \in 1 .. l + 1 : i \in 1 .. l \/ i = l + 1
  BY <1>1
<1>6. CASE x = 0
  <2>1. Unsaid(more) = Unsaid(ran) \cup {l + 1}
    BY <1>1, <1>4, <1>5, <1>6 DEF Unsaid
  <2>2. l + 1 \notin Unsaid(ran)
    BY <1>1 DEF Unsaid
  <2> QED BY <1>2, <1>3, <1>6, <2>1, <2>2, FS_AddElement
<1>7. CASE x # 0
  <2>1. Unsaid(more) = Unsaid(ran)
    BY <1>1, <1>4, <1>5, <1>7 DEF Unsaid
  <2> QED BY <1>2, <1>3, <1>7, <2>1
<1> QED BY <1>2, <1>6, <1>7

\* A stretch of pieces is what a host said if it is a beginning and its end.
LEMMA EntireIs ==
  ASSUME NEW P, AreParts(P), NEW q \in Seq(P), NEW r \in Nat, NEW k \in 1 .. Len(q), r < k
  PROVE  /\ IsEntire(SubSeq(q, r + 1, k)) <=> k = r + 2 /\ Twins(q[r + 1], q[k])
         /\ SubSeq(q, r + 1, k)[1] = q[r + 1]
<1>1. PICK l \in Nat : l = Len(q) /\ k <= l
  OBVIOUS
<1>2. PICK p : p = SubSeq(q, r + 1, k)
  OBVIOUS
<1>3. r + 1 \in Nat /\ k \in Nat /\ \A i \in r + 1 .. k : q[i] \in P
  BY <1>1
<1>4. p \in Seq(P) /\ Len(p) = k - r /\ \A i \in 1 .. k - r : p[i] = q[r + i]
  <2>1. Len(p) = k - r
    BY <1>1, <1>2
  <2>2. p \in Seq(P)
    BY <1>2, <1>3, SubSeqProperties
  <2>3. \A i \in 1 .. k - r : p[i] = q[r + i]
    BY <1>1, <1>2
  <2> QED BY <2>1, <2>2, <2>3
<1>5. DOMAIN p = 1 .. k - r /\ p[1] = q[r + 1]
  <2>1. 1 \in 1 .. k - r
    BY <1>1
  <2> QED BY <1>4, <2>1
<1>6. ASSUME IsEntire(p) PROVE k = r + 2 /\ Twins(q[r + 1], q[k])
  <2>1. p = [half \in 1 .. 2 |-> [id |-> p[1].id, half |-> half, what |-> p[1].what]]
    BY <1>6 DEF IsEntire, Parts
  <2>2. DOMAIN p = 1 .. 2 /\ p[1].half = 1 /\ p[2] = [id |-> p[1].id, half |-> 2, what |-> p[1].what]
    BY <2>1
  <2>3. 2 \in 1 .. k - r /\ k - r \in 1 .. 2
    <3>1. 1 .. 2 = 1 .. k - r
      BY <1>5, <2>2
    <3>2. 2 \in 1 .. 2 /\ k - r \in 1 .. k - r
      BY <1>1
    <3> QED BY <3>1, <3>2
  <2>4. k = r + 2
    BY <1>1, <2>3
  <2>5. p[2] = q[k]
    BY <1>4, <2>3, <2>4
  <2> QED BY <1>5, <2>2, <2>4, <2>5 DEF Twins
<1>7. ASSUME k = r + 2, Twins(q[r + 1], q[k]) PROVE IsEntire(p)
  <2>1. DOMAIN p = 1 .. 2 /\ p[2] = q[k] /\ p[1] \in P /\ p[2] \in P
    <3>1. k - r = 2
      BY <1>7
    <3> QED BY <1>4, <1>5, <1>7, <3>1
  <2>2. p[1] = [id |-> p[1].id, half |-> 1, what |-> p[1].what]
    BY <1>5, <1>7, <2>1 DEF AreParts, Twins
  <2>3. p[2] = [id |-> p[1].id, half |-> 2, what |-> p[1].what]
    BY <1>5, <1>7, <2>1 DEF AreParts, Twins
  <2>4. PICK f : f = [half \in 1 .. 2 |-> [id |-> p[1].id, half |-> half, what |-> p[1].what]]
    OBVIOUS
  <2>5. \A half \in 1 .. 2 : half = 1 \/ half = 2
    OBVIOUS
  <2>6. \A half \in 1 .. 2 : p[half] = f[half]
    BY <2>2, <2>3, <2>4, <2>5
  <2>7. p = f
    <3>1. p = [half \in DOMAIN p |-> p[half]]
      BY <1>4
    <3> QED BY <2>1, <2>4, <2>6, <3>1
  <2> QED BY <2>4, <2>7 DEF IsEntire, Parts
<1> QED BY <1>2, <1>5, <1>6, <1>7

\* A line ends at place k, the one before it at r.
IsLineFrom(q, r, k) ==
  /\ r < k /\ q[k].half = 2 /\ (r # 0 => q[r].half = 2)
  /\ \A j \in r + 1 .. k - 1 : q[j].half # 2
LineId(pieces) == IF IsEntire(pieces) THEN pieces[1].id ELSE 0

\* A line is entire if it is two pieces long, and is nobody's if it is longer.
LEMMA LineEntire ==
  ASSUME NEW P, AreParts(P), NEW q \in Seq(P), Owned(q), NEW r \in Nat, NEW k \in 1 .. Len(q),
         IsLineFrom(q, r, k)
  PROVE  /\ k >= r + 2 /\ q[r + 1].half = 1
         /\ k = r + 2 => LineId(SubSeq(q, r + 1, k)) = q[k].id
         /\ k # r + 2 => LineId(SubSeq(q, r + 1, k)) = 0 /\ q[r + 2].half = 1
<1>1. PICK l \in Nat : l = Len(q) /\ k <= l
  OBVIOUS
<1>2. r < k /\ q[k].half = 2 /\ (r # 0 => q[r].half = 2) /\ \A j \in r + 1 .. k - 1 : q[j].half # 2
  BY DEF IsLineFrom
<1>3. \A j \in 1 .. l : q[j].half \in {1, 2}
  BY <1>1 DEF AreParts
<1>4. k > 1 /\ Twins(q[k - 1], q[k])
  BY <1>2 DEF Owned
<1>5. k # r + 1
  <2>1. SUFFICES ASSUME k = r + 1 PROVE FALSE
    OBVIOUS
  <2>2. r # 0 /\ k - 1 = r
    BY <1>4, <2>1
  <2> QED BY <1>2, <1>4, <2>2 DEF Twins
<1>6. k >= r + 2 /\ r + 1 \in r + 1 .. k - 1 /\ r + 1 \in 1 .. l
  BY <1>1, <1>2, <1>5
<1>7. q[r + 1].half = 1
  BY <1>2, <1>3, <1>6
<1>8. IsEntire(SubSeq(q, r + 1, k)) <=> k = r + 2 /\ Twins(q[r + 1], q[k])
  BY <1>2, EntireIs
<1>9. SubSeq(q, r + 1, k)[1] = q[r + 1]
  BY <1>2, EntireIs
<1>10. ASSUME k = r + 2 PROVE LineId(SubSeq(q, r + 1, k)) = q[k].id
  <2>1. k - 1 = r + 1
    BY <1>10
  <2> QED BY <1>4, <1>8, <1>9, <1>10, <2>1 DEF LineId, Twins
<1>11. ASSUME k # r + 2 PROVE LineId(SubSeq(q, r + 1, k)) = 0 /\ q[r + 2].half = 1
  <2>1. r + 2 \in r + 1 .. k - 1 /\ r + 2 \in 1 .. l
    BY <1>1, <1>6, <1>11
  <2> QED BY <1>2, <1>3, <1>8, <1>11, <2>1 DEF LineId
<1> QED BY <1>6, <1>7, <1>10, <1>11

\* A line is done in the order in which it was said.
LEMMA LineGoes ==
  ASSUME NEW P, AreParts(P), NEW q \in Seq(P), Onward(q), Owned(q), NEW r \in Nat, NEW k \in 1 .. Len(q),
         IsLineFrom(q, r, k), NEW ran \in Seq(Nat), NEW said \in Nat, DoneInOrder(ran, q, r, said)
  PROVE  DoneInOrder(Append(ran, LineId(SubSeq(q, r + 1, k))), q, k, said)
<1>1. PICK id : id = LineId(SubSeq(q, r + 1, k))
  OBVIOUS
<1>2. (id = 0 \/ id = q[k].id) /\ q[k].half = 2 /\ r < k /\ k \in r + 1 .. Len(q) /\ k \in Nat
  <2>1. k # r + 2 \/ k = r + 2
    OBVIOUS
  <2>2. id = 0 \/ id = q[k].id
    BY <1>1, <2>1, LineEntire
  <2>3. q[k].half = 2 /\ r < k
    BY DEF IsLineFrom
  <2>4. k \in r + 1 .. Len(q) /\ k \in Nat
    BY <2>3
  <2> QED BY <2>2, <2>3, <2>4
<1>3. id \in Nat
  BY <1>2 DEF AreParts
<1>4. PICK ids \in Seq(Nat) : ids = <<id>> /\ Len(ids) = 1 /\ ids[1] = id
  <2>1. <<id>> \in Seq(Nat) /\ Len(<<id>>) = 1 /\ <<id>>[1] = id
    BY <1>3
  <2> QED BY <2>1
<1>5. PICK g : g = [i \in {1} |-> k]
  OBVIOUS
<1>6. \A i \in 1 .. Len(ids) :
        ids[i] = 0 \/ (g[i] \in r + 1 .. Len(q) /\ g[i] <= k /\ q[g[i]].half = 2 /\ ids[i] = q[g[i]].id)
  <2>1. \A i \in 1 .. Len(ids) : i = 1
    BY <1>4
  <2>2. g[1] = k
    BY <1>5
  <2> QED BY <1>2, <1>4, <2>1, <2>2
<1>7. \A i, j \in 1 .. Len(ids) : i < j /\ ids[i] # 0 /\ ids[j] # 0 => g[i] < g[j]
  BY <1>4
<1>8. r <= k
  BY <1>2
<1>9. DoneInOrder(ran \o ids, q, k, said)
  <2> HIDE <1>5
  <2> QED BY <1>2, <1>6, <1>7, <1>8, OrderGoes
<1>10. ran \o ids = Append(ran, id)
  BY <1>3, <1>4
<1> QED BY <1>1, <1>9, <1>10

\* How many were said and not ended.
LEMMA OrphansAre ==
  ASSUME NEW P, AreParts(P), NEW q \in Seq(P), NEW r \in Nat, NEW said \in Nat, NEW ran,
         DoneInOrder(ran, q, r, said), NEW e
  PROVE  IsFiniteSet(Orphans(q, r, e)) /\ Cardinality(Orphans(q, r, e)) \in Nat
<1>1. \A j \in r + 1 .. Len(q) : q[j].id \in 0 .. said
  <2>1. \A j \in r + 1 .. Len(q) : q[j] \in P
    OBVIOUS
  <2>2. \A j \in r + 1 .. Len(q) : 0 < q[j].id /\ q[j].id <= said
    BY DEF DoneInOrder
  <2>3. \A j \in r + 1 .. Len(q) : q[j].id \in Nat
    BY <2>1 DEF AreParts
  <2> QED BY <2>2, <2>3
<1>2. Orphans(q, r, e) \in SUBSET (0 .. said)
  BY <1>1 DEF Orphans
<1>3. IsFiniteSet(0 .. said)
  BY FS_Interval
<1> QED BY <1>2, <1>3, FS_Subset, FS_CardinalityType

\* A line nobody said uses up a beginning that will not be ended.
LEMMA LineOrphans ==
  ASSUME NEW P, AreParts(P), NEW q \in Seq(P), Onward(q), Owned(q), NEW r \in Nat, NEW k \in 1 .. Len(q),
         IsLineFrom(q, r, k), NEW ran \in Seq(Nat), NEW said \in Nat, DoneInOrder(ran, q, r, said), NEW e
  PROVE  Cardinality(Unsaid(Append(ran, LineId(SubSeq(q, r + 1, k))))) + Cardinality(Orphans(q, k, e))
           <= Cardinality(Unsaid(ran)) + Cardinality(Orphans(q, r, e))
<1>1. PICK id : id = LineId(SubSeq(q, r + 1, k))
  OBVIOUS
<1>2. PICK l \in Nat : l = Len(q) /\ k <= l /\ r < k
  BY DEF IsLineFrom
<1>3. PICK before, after : before = Orphans(q, r, e) /\ after = Orphans(q, k, e)
  OBVIOUS
<1>4. IsFiniteSet(before) /\ Cardinality(before) \in Nat
  BY <1>3, OrphansAre
<1>5. after \subseteq before
  <2>1. \A j \in k + 1 .. l : j \in r + 1 .. l
    BY <1>2
  <2> QED BY <1>2, <1>3, <2>1 DEF Orphans
<1>6. Cardinality(after) <= Cardinality(before) /\ Cardinality(after) \in Nat
  BY <1>4, <1>5, FS_Subset, FS_CardinalityType
<1>7. \A j \in 1 .. l : q[j].id \in Nat
  BY <1>2 DEF AreParts
<1>8. CASE k = r + 2
  <2>1. id = q[k].id
    BY <1>1, <1>8, LineEntire
  <2>2. id \in Nat /\ id > 0
    <3>1. k \in r + 1 .. Len(q)
      BY <1>2
    <3>2. 0 < q[k].id
      BY <3>1 DEF DoneInOrder
    <3> QED BY <1>2, <1>7, <2>1, <3>2
  <2>3. Cardinality(Unsaid(Append(ran, id))) = Cardinality(Unsaid(ran)) /\ Cardinality(Unsaid(ran)) \in Nat
    BY <2>2, UnsaidIs
  <2> QED BY <1>1, <1>3, <1>4, <1>6, <2>3
<1>9. CASE k # r + 2
  <2>1. id = 0 /\ q[r + 1].half = 1 /\ q[r + 2].half = 1 /\ k >= r + 2
    BY <1>1, <1>9, LineEntire
  <2>2. r + 1 \in r + 1 .. l /\ r + 1 # l /\ r + 1 + 1 = r + 2
    BY <1>2, <1>9, <2>1
  <2>3. q[r + 1].id \in before
    <3>1. IsOrphan(q, r + 1, e)
      BY <1>2, <2>1, <2>2 DEF IsOrphan
    <3> QED BY <1>2, <1>3, <2>2, <3>1 DEF Orphans
  <2>4. q[r + 1].id \notin after
    <3>1. SUFFICES ASSUME NEW j \in k + 1 .. l, q[j].half = 1, q[j].id = q[r + 1].id PROVE FALSE
      BY <1>2, <1>3 DEF Orphans, IsOrphan
    <3>2. r + 1 \in 1 .. l /\ j \in 1 .. l /\ r + 1 < j
      BY <1>2
    <3>3. Before(q[r + 1], q[j])
      BY <1>2, <3>2 DEF Onward
    <3> QED BY <1>7, <3>1, <3>2, <3>3 DEF Before
  <2>5. after \in SUBSET (before \ {q[r + 1].id})
    BY <1>5, <2>4
  <2>6. /\ IsFiniteSet(before \ {q[r + 1].id})
        /\ Cardinality(before \ {q[r + 1].id}) = Cardinality(before) - 1
    BY <1>4, <2>3, FS_RemoveElement
  <2>7. Cardinality(after) <= Cardinality(before) - 1
    BY <2>5, <2>6, FS_Subset
  <2>8. Cardinality(Unsaid(Append(ran, id))) = Cardinality(Unsaid(ran)) + 1 /\ Cardinality(Unsaid(ran)) \in Nat
    <3>1. 0 \in Nat
      OBVIOUS
    <3> QED BY <2>1, <3>1, UnsaidIs
  <2> QED BY <1>1, <1>3, <1>4, <1>6, <2>7, <2>8
<1> QED BY <1>8, <1>9

\* What holds at first, and at each place if it holds at the one before it, holds at the last.
LEMMA StepsGo ==
  ASSUME NEW n \in Nat, NEW x, NEW T, x[0] \in T[0],
         \A k \in 1 .. n : x[k - 1] \in T[k - 1] => x[k] \in T[k]
  PROVE  x[n] \in T[n]
<1> DEFINE Bad == {k \in 0 .. n : x[k] \notin T[k]}
<1>1. Bad = {}
  <2>1. SUFFICES ASSUME Bad # {} PROVE FALSE
    OBVIOUS
  <2>2. PICK k \in Bad : \A i \in Bad : k <= i
    <3>1. Bad \in SUBSET Nat
      OBVIOUS
    <3> HIDE DEF Bad
    <3> QED BY <2>1, <3>1, LeastElement
  <2>3. k # 0 /\ k \in 1 .. n
    OBVIOUS
  <2>4. k - 1 \in 0 .. n /\ ~(k <= k - 1)
    BY <2>3
  <2>5. x[k - 1] \in T[k - 1]
    BY <2>2, <2>4
  <2> QED BY <2>3, <2>5
<1> QED BY <1>1

\* The lines are run one after the other.
KeepLine(buf, x, k) == IF k \in Lines(buf) THEN RunLine(x, LineTo(buf, k)) ELSE x
LinesDone(buf, start) ==
  FoldLeft(LAMBDA x, k : IF k \in Lines(buf) THEN RunLine(x, LineTo(buf, k)) ELSE x, start, Places(Len(buf)))

\* RunLines as a function of the place: a first value, and one at each place from the one before.
LEMMA LinesFold ==
  ASSUME NEW m, Kept(m), NEW P, AreSaid(P), NEW buf \in Seq(P), NEW ran \in Items
  PROVE  \E x \in [0 .. Len(buf) -> [modem : Run(m), ran : Items]] :
           /\ x[0] = [modem |-> m, ran |-> ran]
           /\ \A k \in 1 .. Len(buf) : x[k] = KeepLine(buf, x[k - 1], k)
           /\ x[Len(buf)] = LinesDone(buf, [modem |-> m, ran |-> ran])
<1> DEFINE l == Len(buf)
           places == Places(l)
           S == [modem : Run(m), ran : Items]
           start == [modem |-> m, ran |-> ran]
           Keep(x, k) == IF k \in Lines(buf) THEN RunLine(x, LineTo(buf, k)) ELSE x
           Is(it) == it = [s \in SUBSET (DOMAIN places) |->
                             IF s = {} THEN start ELSE Keep(it[s \ {Max(s)}], places[Max(s)])]
           f == [p \in S \X (1 .. l) |-> Keep(p[1], places[p[2]])]
<1>2. l \in Nat /\ start \in S /\ DOMAIN places = 1 .. l /\ \A i \in 1 .. l : places[i] = i
  BY KeptRuns DEF Places
<1>3. ASSUME NEW x \in S, NEW i \in 1 .. l PROVE Keep(x, places[i]) \in S
  <2>1. places[i] = i
    BY DEF Places
  <2>2. CASE i \in Lines(buf)
    <3>1. PICK pieces : pieces = LineTo(buf, i)
      OBVIOUS
    <3>2. i \in Ends(buf)
      BY <2>2 DEF Lines
    <3>3. pieces[1] \in P
      BY <3>1, <3>2, LineIs
    <3>4. IsHostCommand(pieces[1].what) /\ pieces[1].id \in Nat
      BY <3>3 DEF AreSaid, AreNumbered
    <3>5. x.modem \in Run(m) /\ x.ran \in Seq(Nat)
      BY DEF Items
    <3>6. ProcessCommandFromHost(x.modem, pieces[1].what) \in Run(m) /\ Fault(x.modem) \in Run(m)
      BY <3>4, <3>5, CommandRuns, AnswerRuns DEF Fault, Replies
    <3>7. Append(x.ran, pieces[1].id) \in Items /\ Append(x.ran, 0) \in Items
      BY <3>4, <3>5 DEF Items
    <3>8. RunLine(x, pieces) \in S
      BY <3>6, <3>7 DEF RunLine
    <3> QED BY <2>1, <2>2, <3>1, <3>8
  <2>3. CASE i \notin Lines(buf)
    BY <2>1, <2>3
  <2> QED BY <2>2, <2>3
<1>4. f \in [S \X (1 .. l) -> S]
  <2> HIDE DEF S, l, Keep, places
  <2> QED BY <1>3
<1>5. \E it \in [SUBSET (1 .. l) -> S] : Is(it)
  <2> HIDE DEF S, l, start
  <2>1. PICK it \in [SUBSET (1 .. l) -> S] : Folds(it, l, f, start)
    <3> HIDE DEF f
    <3> QED BY <1>2, <1>4, FoldExists
  <2> HIDE DEF places, Keep
  <2>2. ASSUME NEW s \in SUBSET (1 .. l), s # {}
        PROVE  f[<<it[s \ {Max(s)}], Max(s)>>] = Keep(it[s \ {Max(s)}], places[Max(s)])
    <3>1. s \in SUBSET (0 .. l)
      OBVIOUS
    <3>2. Max(s) \in 1 .. l /\ it[s \ {Max(s)}] \in S
      BY <1>2, <2>2, <3>1, MaxIn
    <3> QED BY <3>2
  <2> HIDE DEF f
  <2>3. it = [s \in SUBSET (1 .. l) |-> IF s = {} THEN start ELSE Keep(it[s \ {Max(s)}], places[Max(s)])]
    BY <2>1, <2>2 DEF Folds
  <2> QED BY <1>2, <2>3
<1>6. PICK it : it = (CHOOSE fold : Is(fold))
  OBVIOUS
<1>7. Is(it)
  <2>1. \E fold : Is(fold)
    <3> HIDE DEF Is
    <3> QED BY <1>5
  <2> HIDE DEF Is
  <2> QED BY <1>6, <2>1
<1>8. ASSUME NEW k \in 1 .. l PROVE it[1 .. k] = Keep(it[1 .. k - 1], k)
  <2> HIDE DEF S, l, Keep, start
  <2>1. 1 .. k \in SUBSET (1 .. l) /\ 1 .. k # {} /\ Max(1 .. k) = k /\ (1 .. k) \ {k} = 1 .. k - 1
    BY <1>2, PlacesUpTo
  <2>2. places[k] = k /\ DOMAIN places = 1 .. l
    BY <1>2
  <2> HIDE DEF places
  <2> QED BY <1>7, <2>1, <2>2
<1>9. it[{}] = start
  <2> HIDE DEF S, l, Keep, start, places
  <2> QED BY <1>7
<1> DEFINE x == [k \in 0 .. l |-> it[1 .. k]]
<1>10. x[0] = start
  <2>1. 0 \in 0 .. l /\ 1 .. 0 = {}
    BY <1>2
  <2> HIDE DEF l, start
  <2> QED BY <1>9, <2>1
<1>11. ASSUME NEW k \in 1 .. l PROVE x[k] = KeepLine(buf, x[k - 1], k)
  <2>1. k \in 0 .. l /\ k - 1 \in 0 .. l
    BY <1>2
  <2> HIDE DEF l
  <2> QED BY <1>8, <2>1 DEF KeepLine
<1>12. \A k \in 0 .. l : x[k] \in S
  <2> HIDE DEF S, l, start, Keep, places, x
  <2>1. ASSUME NEW k \in 0 .. l PROVE x[k] \in S
    <3> DEFINE T == [i \in 0 .. k |-> S]
    <3>1. k \in Nat /\ T[0] = S /\ T[k] = S
      BY <1>2
    <3>2. ASSUME NEW i \in 1 .. k, x[i - 1] \in T[i - 1] PROVE x[i] \in T[i]
      <4>1. i \in 1 .. l /\ i \in 0 .. k /\ i - 1 \in 0 .. k
        BY <1>2
      <4>2. x[i] = Keep(x[i - 1], places[i]) /\ places[i] = i
        BY <1>2, <1>11, <4>1 DEF KeepLine, Keep
      <4>3. x[i - 1] \in S
        BY <3>2, <4>1
      <4> QED BY <1>3, <4>1, <4>2, <4>3
    <3> HIDE DEF T
    <3>3. x[0] \in T[0]
      BY <1>2, <1>10, <3>1
    <3>4. x[k] \in T[k]
      BY <3>1, <3>2, <3>3, StepsGo
    <3> QED BY <3>1, <3>4
  <2> QED BY <2>1
<1>13. x[l] = LinesDone(buf, start)
  <2>1. PICK done : done = LinesDone(buf, start)
    OBVIOUS
  <2>2. done = (CHOOSE it_1 : Is(it_1))[DOMAIN places]
    BY <2>1 DEF LinesDone, FoldLeft, MapThenFoldSet
  <2>3. l \in 0 .. l
    BY <1>2
  <2>4. done = it[1 .. l]
    BY <1>2, <1>6, <2>2
  <2> QED BY <2>1, <2>3, <2>4
<1>14. x \in [0 .. l -> S]
  <2> HIDE DEF S
  <2> QED BY <1>12
<1> HIDE DEF x
<1> QED BY <1>10, <1>11, <1>13, <1>14

\* The greatest of a set of places.
LEMMA GreatestIs ==
  ASSUME NEW n \in Nat, NEW s \in SUBSET (0 .. n), s # {}
  PROVE  Max(s) \in s /\ \A i \in s : i <= Max(s)
<1> DEFINE Backwards == {n - i : i \in s}
<1>1. Backwards \in SUBSET Nat /\ Backwards # {}
  <2>1. \A i \in s : i \in Int /\ i <= n
    OBVIOUS
  <2>2. \A i \in s : n - i \in Nat
    BY <2>1
  <2> QED BY <2>2
<1>2. PICK m \in Backwards : \A i \in Backwards : m <= i
  <2> HIDE DEF Backwards
  <2> QED BY <1>1, LeastElement
<1>3. PICK k \in s : m = n - k
  OBVIOUS
<1>4. \A i \in s : i <= k
  <2>1. ASSUME NEW i \in s PROVE i <= k
    <3>1. n - i \in Backwards /\ i \in Int /\ k \in Int
      OBVIOUS
    <3>2. n - k <= n - i
      BY <1>2, <1>3, <3>1
    <3> QED BY <3>1, <3>2
  <2> QED BY <2>1
<1>5. s \in SUBSET Int /\ k \in Int
  OBVIOUS
<1>6. Max(s) = k
  BY <1>4, <1>5, MaxIs
<1> QED BY <1>4, <1>6

\* Where the last line ends up to place k.
LastLine(buf, k) == Max({0} \cup (Lines(buf) \cap (1 .. k)))

\* It is the greatest place up to k where a line ends, or 0.
LEMMA LastLineIs ==
  ASSUME NEW P, NEW buf \in Seq(P), NEW k \in 0 .. Len(buf)
  PROVE  /\ LastLine(buf, k) \in 0 .. k /\ (LastLine(buf, k) = 0 \/ LastLine(buf, k) \in Lines(buf))
         /\ \A i \in Lines(buf) : i <= k => i <= LastLine(buf, k)
<1> DEFINE s == {0} \cup (Lines(buf) \cap (1 .. k))
<1>1. s \in SUBSET (0 .. k) /\ s # {} /\ k \in Nat
  OBVIOUS
<1>2. \A i \in Lines(buf) : i \in 1 .. Len(buf) /\ (i <= k => i \in s)
  BY DEF Lines, Ends
<1>3. Max(s) \in s /\ \A i \in s : i <= Max(s)
  <2> HIDE DEF s
  <2> QED BY <1>1, GreatestIs
<1>4. LastLine(buf, k) = Max(s)
  BY DEF LastLine
<1>5. Max(s) = 0 \/ Max(s) \in Lines(buf)
  BY <1>3
<1> HIDE DEF s
<1> QED BY <1>1, <1>2, <1>3, <1>4, <1>5

\* The place of the last line moves when a line ends there.
LEMMA NextLine ==
  ASSUME NEW P, NEW buf \in Seq(P), NEW k \in 1 .. Len(buf)
  PROVE  /\ k \notin Lines(buf) => LastLine(buf, k) = LastLine(buf, k - 1)
         /\ k \in Lines(buf) => /\ LastLine(buf, k) = k
                                /\ LineTo(buf, k) = SubSeq(buf, LastLine(buf, k - 1) + 1, k)
                                /\ IsLineFrom(buf, LastLine(buf, k - 1), k)
<1>1. PICK l \in Nat : l = Len(buf) /\ k <= l
  OBVIOUS
<1>2. PICK r : r = LastLine(buf, k - 1)
  OBVIOUS
<1>3. r \in 0 .. k - 1 /\ (r = 0 \/ r \in Lines(buf)) /\ \A i \in Lines(buf) : i <= k - 1 => i <= r
  <2>1. k - 1 \in 0 .. Len(buf)
    OBVIOUS
  <2> QED BY <1>2, <2>1, LastLineIs
<1>4. /\ LastLine(buf, k) \in 0 .. k /\ (LastLine(buf, k) = 0 \/ LastLine(buf, k) \in Lines(buf))
      /\ \A i \in Lines(buf) : i <= k => i <= LastLine(buf, k)
  <2>1. k \in 0 .. Len(buf)
    OBVIOUS
  <2> QED BY <2>1, LastLineIs
<1>5. ASSUME k \notin Lines(buf) PROVE LastLine(buf, k) = r
  <2>1. PICK s \in 0 .. k : s = LastLine(buf, k)
    BY <1>4
  <2>2. s # k
    <3>1. s = 0 \/ s \in Lines(buf)
      BY <1>4, <2>1
    <3> QED BY <1>5, <3>1
  <2>3. s <= r
    BY <1>3, <1>4, <2>1, <2>2
  <2>4. r <= s
    BY <1>3, <1>4, <2>1
  <2> QED BY <1>3, <2>1, <2>3, <2>4
<1>6. ASSUME k \in Lines(buf)
      PROVE  LastLine(buf, k) = k /\ LineTo(buf, k) = SubSeq(buf, r + 1, k) /\ IsLineFrom(buf, r, k)
  <2>1. LastLine(buf, k) = k
    BY <1>4, <1>6
  <2>2. \A i \in Lines(buf) : i \in 1 .. l /\ buf[i].half = 2 /\ i \in Ends(buf)
    BY <1>1 DEF Lines, Ends
  <2>3. ASSUME NEW i \in Ends(buf), i < k PROVE i <= r /\ i \in Int
    <3>1. i \in 1 .. l /\ i # l
      BY <1>1, <2>3 DEF Ends
    <3>2. i \in Lines(buf)
      BY <1>1, <2>3, <3>1 DEF Lines
    <3>3. i <= k - 1
      BY <2>3, <3>1
    <3> QED BY <1>3, <3>1, <3>2, <3>3
  <2>4. PICK before : before = {i \in Ends(buf) \cup {0} : i < k}
    OBVIOUS
  <2>5. r \in before
    <3>1. r < k
      BY <1>3
    <3> QED BY <1>3, <2>2, <2>4, <3>1
  <2>6. before \in SUBSET Int /\ \A i \in before : i <= r
    <3>1. 0 <= r
      BY <1>3
    <3> QED BY <2>3, <2>4, <3>1
  <2>7. Max(before) = r
    <3>1. r \in Int
      BY <1>3
    <3> QED BY <2>5, <2>6, <3>1, MaxIs
  <2>8. LineTo(buf, k) = SubSeq(buf, r + 1, k)
    BY <2>4, <2>7 DEF LineTo
  <2>9. IsLineFrom(buf, r, k)
    <3>1. r < k /\ buf[k].half = 2 /\ (r # 0 => buf[r].half = 2)
      BY <1>3, <1>6, <2>2
    <3>2. ASSUME NEW j \in r + 1 .. k - 1 PROVE buf[j].half # 2
      <4>1. j \in 1 .. l /\ j < k /\ ~(j <= r)
        BY <1>1, <1>3
      <4>2. buf[j].half = 2 => j \in Ends(buf)
        BY <1>1, <4>1 DEF Ends
      <4> QED BY <2>3, <4>1, <4>2
    <3> QED BY <3>1, <3>2 DEF IsLineFrom
  <2> QED BY <2>1, <2>8, <2>9
<1> QED BY <1>2, <1>5, <1>6

\* The connection, when that is what has been done.
LinesTaken(t, n, ran) ==
  LET buf == Received(t, n)
  IN [t EXCEPT !.wire = SubSeq(t.wire, n + 1, Len(t.wire)), !.ran = ran,
               !.buf = SubSeq(buf, LastLine(buf, Len(buf)) + 1, Len(buf))]

\* What is true of what was done, at first and after each line, is true in the end.
LEMMA ControlRan ==
  ASSUME NEW m, Kept(m), NEW P, AreSaid(P), NEW t \in Connection(P), NEW n \in 1 .. Len(t.wire),
         NEW T, t.ran \in T[0],
         \A k \in 1 .. Len(Received(t, n)), ran \in Items : ran \in T[k - 1] =>
           /\ k \in Lines(Received(t, n)) => Append(ran, LineId(LineTo(Received(t, n), k))) \in T[k]
           /\ k \notin Lines(Received(t, n)) => ran \in T[k]
  PROVE  \E ran \in Items :
           /\ ran \in T[Len(Received(t, n))]
           /\ ProcessControl(m, t, n).conn = LinesTaken(t, n, ran)
<1>1. PICK buf \in Seq(P) : buf = Received(t, n)
  BY ReceivedIs
<1>2. PICK l \in Nat : l = Len(buf)
  OBVIOUS
<1>3. t.ran \in Items
  BY DEF Connection
<1>4. PICK x \in [0 .. l -> [modem : Run(m), ran : Items]] :
        /\ x[0] = [modem |-> m, ran |-> t.ran]
        /\ \A k \in 1 .. l : x[k] = KeepLine(buf, x[k - 1], k)
        /\ x[l] = LinesDone(buf, [modem |-> m, ran |-> t.ran])
  BY <1>2, <1>3, LinesFold
<1>5. \A k \in 0 .. l : x[k].ran \in Items
  BY <1>4
<1> DEFINE U == [k \in 0 .. l |-> {y \in [modem : Run(m), ran : Items] : y.ran \in T[k]}]
<1>6. x[l] \in U[l]
  <2>1. x[0] \in U[0]
    <3>1. 0 \in 0 .. l
      BY <1>2
    <3>2. x[0] \in [modem : Run(m), ran : Items]
      BY <1>4, <3>1
    <3>3. x[0].ran \in T[0]
      BY <1>4
    <3> QED BY <3>1, <3>2, <3>3
  <2>2. ASSUME NEW k \in 1 .. l, x[k - 1] \in U[k - 1] PROVE x[k] \in U[k]
    <3>1. k - 1 \in 0 .. l /\ k \in 0 .. l
      OBVIOUS
    <3>2. x[k - 1].ran \in T[k - 1] /\ x[k - 1].ran \in Items
      BY <2>2, <3>1
    <3>3. CASE k \in Lines(buf)
      <4>1. x[k].ran = Append(x[k - 1].ran, LineId(LineTo(buf, k)))
        <5>1. x[k] = RunLine(x[k - 1], LineTo(buf, k))
          BY <1>4, <3>3 DEF KeepLine
        <5>2. RunLine(x[k - 1], LineTo(buf, k)).ran = Append(x[k - 1].ran, LineId(LineTo(buf, k)))
          BY DEF RunLine, LineId
        <5> QED BY <5>1, <5>2
      <4>2. x[k].ran \in T[k]
        BY <1>1, <1>2, <3>2, <3>3, <4>1
      <4>3. x[k] \in [modem : Run(m), ran : Items]
        BY <1>4, <3>1
      <4> QED BY <3>1, <4>2, <4>3
    <3>4. CASE k \notin Lines(buf)
      <4>1. x[k] = x[k - 1]
        BY <1>4, <3>4 DEF KeepLine
      <4>2. x[k].ran \in T[k]
        BY <1>1, <1>2, <3>2, <3>4, <4>1
      <4>3. x[k] \in [modem : Run(m), ran : Items]
        BY <1>4, <3>1
      <4> QED BY <3>1, <4>2, <4>3
    <3> QED BY <3>3, <3>4
  <2> HIDE DEF U
  <2> QED BY <2>1, <2>2, StepsGo
<1>7. l \in 0 .. l /\ x[l].ran \in T[l] /\ x[l].ran \in Items
  BY <1>5, <1>6
<1>8. Lines(buf) \cap Range(Places(l)) = Lines(buf) \cap (1 .. l)
  <2>1. Range(Places(l)) = 1 .. l
    BY DEF Places, Range
  <2> QED BY <2>1
<1>9. PICK done : done = LinesDone(buf, [modem |-> m, ran |-> t.ran])
  OBVIOUS
<1>10. done = x[l]
  BY <1>4, <1>9
<1>11. PICK left, rest : /\ left = SubSeq(buf, Max({0} \cup (Lines(buf) \cap Range(Places(Len(buf))))) + 1, Len(buf))
                         /\ rest = SubSeq(t.wire, n + 1, Len(t.wire))
  OBVIOUS
<1>12. ProcessControl(m, t, n) =
         [modem |-> done.modem, conn |-> [t EXCEPT !.wire = rest, !.ran = done.ran, !.buf = left]]
  <2>1. done = LinesDone(Received(t, n), [modem |-> m, ran |-> t.ran])
    BY <1>1, <1>9
  <2>2. left = SubSeq(Received(t, n), Max({0} \cup (Lines(Received(t, n)) \cap Range(Places(Len(Received(t, n)))))) + 1,
                      Len(Received(t, n)))
    BY <1>1, <1>11
  <2> QED BY <1>11, <2>1, <2>2 DEF ProcessControl, RunLines, LinesDone
<1>13. ProcessControl(m, t, n).conn = [t EXCEPT !.wire = rest, !.ran = done.ran, !.buf = left]
  BY <1>12
<1>14. left = SubSeq(buf, LastLine(buf, l) + 1, l)
  BY <1>2, <1>8, <1>11 DEF LastLine
<1>15. done.ran \in T[l] /\ done.ran \in Items
  BY <1>7, <1>10
<1>16. ProcessControl(m, t, n).conn = LinesTaken(t, n, done.ran)
  <2>1. [t EXCEPT !.wire = rest, !.ran = done.ran, !.buf = left] = LinesTaken(t, n, done.ran)
    BY <1>1, <1>2, <1>11, <1>14 DEF LinesTaken
  <2> QED BY <1>13, <2>1
<1> QED BY <1>1, <1>2, <1>15, <1>16

-----------------------------------------------------------------------------
(* Blocks.                                                                 *)

\* Pieces that are numbered in pairs, from a + 1 on.
Straight(q, a) == \A h \in 1 .. Len(q) : 2 * h - 1 <= Len(q) => q[2 * h - 1].id = a + h
\* What follows ran when r pieces of q, which come in pairs, have been taken.
Follows(ran, more, q, r) ==
  \E h \in Nat :
    /\ r = 2 * h /\ Len(more) = Len(ran) + h
    /\ Unsaid(ran) = {} => Unsaid(more) = {}
    /\ Straight(q, Len(ran)) /\ ran = UpTo0(Len(ran)) => more = UpTo0(Len(more))

\* What is read as blocks.
LEMMA BlockIs ==
  ASSUME NEW P, AreParts(P), NEW p \in Seq(P)
  PROVE  /\ Blocks(p) \in Seq(Nat) /\ Len(Blocks(p)) = Len(p) \div 2
         /\ \A i \in 1 .. Len(p) \div 2 :
              /\ Twins(p[2 * i - 1], p[2 * i]) => Blocks(p)[i] = p[2 * i].id
              /\ ~Twins(p[2 * i - 1], p[2 * i]) => Blocks(p)[i] = 0
<1>1. PICK l \in Nat : l = Len(p)
  OBVIOUS
<1>2. PICK h \in Nat : h = l \div 2 /\ 2 * h <= l
  BY <1>1
<1>3. Blocks(p) \in Seq(Nat)
  BY BlocksAre DEF AreParts, AreNumbered
<1>4. Blocks(p) = [i \in 1 .. h |->
                     LET pair == SubSeq(p, 2 * i - 1, 2 * i) IN IF IsEntire(pair) THEN pair[1].id ELSE 0]
  BY <1>1, <1>2 DEF Blocks
<1>5. Len(Blocks(p)) = h
  BY <1>2, <1>4
<1>6. ASSUME NEW i \in 1 .. h
      PROVE  /\ Twins(p[2 * i - 1], p[2 * i]) => Blocks(p)[i] = p[2 * i].id
             /\ ~Twins(p[2 * i - 1], p[2 * i]) => Blocks(p)[i] = 0
  <2>1. PICK r \in Nat : r = 2 * i - 2
    OBVIOUS
  <2>2. r + 1 = 2 * i - 1 /\ r + 2 = 2 * i /\ 2 * i \in 1 .. Len(p) /\ r < 2 * i
    BY <1>1, <1>2, <2>1
  <2>3. PICK k \in 1 .. Len(p) : k = 2 * i
    BY <2>2
  <2>4. PICK pair : pair = SubSeq(p, r + 1, k)
    OBVIOUS
  <2>5. (IsEntire(pair) <=> k = r + 2 /\ Twins(p[r + 1], p[k])) /\ pair[1] = p[r + 1]
    BY <2>2, <2>3, <2>4, EntireIs
  <2>6. Blocks(p)[i] = IF IsEntire(pair) THEN pair[1].id ELSE 0
    BY <1>4, <2>2, <2>3, <2>4
  <2> QED BY <2>2, <2>3, <2>5, <2>6 DEF Twins
<1> QED BY <1>1, <1>2, <1>3, <1>5, <1>6

\* Blocks that are read are done in the order in which they were said.
LEMMA BlocksGo ==
  ASSUME NEW P, AreParts(P), NEW q \in Seq(P), Onward(q), NEW p \in Seq(P), NEW a \in Nat, NEW b \in Nat,
         b = a + Len(p), b <= Len(q), \A j \in 1 .. Len(p) : p[j] = q[a + j],
         NEW ran \in Seq(Nat), NEW said \in Nat, DoneInOrder(ran, q, a, said)
  PROVE  DoneInOrder(ran \o Blocks(p), q, b, said)
<1>1. PICK l \in Nat, n \in Nat : l = Len(q) /\ n = Len(p) /\ b = a + n
  <2>1. Len(q) \in Nat /\ Len(p) \in Nat
    OBVIOUS
  <2> QED BY <2>1
<1>2. PICK h \in Nat : h = n \div 2 /\ 2 * h <= n
  BY <1>1
<1>3. PICK ids \in Seq(Nat) : ids = Blocks(p) /\ Len(ids) = h
  BY <1>1, <1>2, BlockIs
<1>4. PICK g : g = [i \in 1 .. h |-> a + 2 * i]
  OBVIOUS
<1>5. ASSUME NEW i \in 1 .. h
      PROVE ids[i] = 0 \/ (g[i] \in a + 1 .. l /\ g[i] <= b /\ q[g[i]].half = 2 /\ ids[i] = q[g[i]].id)
  <2>1. (Twins(p[2 * i - 1], p[2 * i]) /\ ids[i] = p[2 * i].id) \/ ids[i] = 0
    BY <1>1, <1>2, <1>3, BlockIs
  <2>2. 2 * i \in 1 .. n /\ a + 2 * i \in a + 1 .. l /\ a + 2 * i <= b
    BY <1>1, <1>2
  <2>3. p[2 * i] = q[a + 2 * i] /\ g[i] = a + 2 * i
    BY <1>1, <1>4, <2>2
  <2> QED BY <2>1, <2>2, <2>3 DEF Twins
<1>6. \A i, j \in 1 .. h : i < j => g[i] < g[j]
  BY <1>4
<1>7. a <= b
  BY <1>1
<1> HIDE <1>4
<1>8. DoneInOrder(ran \o ids, q, b, said)
  BY <1>1, <1>3, <1>5, <1>6, <1>7, OrderGoes
<1> QED BY <1>3, <1>8

\* Nothing that was said is done.
LEMMA ZerosGo ==
  ASSUME NEW P, AreParts(P), NEW q \in Seq(P), Onward(q), NEW a \in Nat, NEW b \in Nat, a <= b,
         NEW ran \in Seq(Nat), NEW said \in Nat, DoneInOrder(ran, q, a, said), NEW n \in Nat
  PROVE  Zeros(n) \in Seq(Nat) /\ DoneInOrder(ran \o Zeros(n), q, b, said)
<1>1. PICK ids \in Seq(Nat) : ids = Zeros(n) /\ Len(ids) = n
  <2>1. Zeros(n) \in Seq(Nat)
    <3>1. Zeros(n) \in [1 .. n -> Nat]
      BY DEF Zeros
    <3> QED BY <3>1
  <2>2. Len(Zeros(n)) = n
    BY DEF Zeros
  <2> QED BY <2>1, <2>2
<1>2. \A i \in 1 .. n : ids[i] = 0
  BY <1>1 DEF Zeros
<1>3. PICK g : g = [i \in 1 .. n |-> a + i]
  OBVIOUS
<1> HIDE <1>3
<1>4. DoneInOrder(ran \o ids, q, b, said)
  BY <1>1, <1>2, OrderGoes
<1> QED BY <1>1, <1>4

\* Blocks that come in pairs.
LEMMA BlocksFollow ==
  ASSUME NEW P, AreParts(P), NEW q \in Seq(P), Paired(q), NEW p \in Seq(P), NEW h \in Nat, Len(p) = 2 * h,
         IsStart(p, q), NEW ran \in Seq(Nat), NEW said \in Nat, DoneInOrder(ran, q, 0, said)
  PROVE  Follows(ran, ran \o Blocks(p), q, 2 * h)
<1>1. PICK l \in Nat, n \in Nat, c \in Nat : l = Len(q) /\ n = Len(p) /\ n = 2 * h /\ n <= l /\ c = Len(ran)
  <2>1. Len(q) \in Nat /\ Len(p) \in Nat /\ Len(ran) \in Nat /\ Len(p) <= Len(q)
    BY DEF IsStart
  <2> QED BY <2>1
<1>2. n \div 2 = h
  BY <1>1
<1>3. PICK ids \in Seq(Nat) : ids = Blocks(p) /\ Len(ids) = h
  BY <1>1, <1>2, BlockIs
<1>4. ASSUME NEW i \in 1 .. h
      PROVE  ids[i] = q[2 * i - 1].id /\ ids[i] # 0
  <2>1. i \in 1 .. l /\ 2 * i <= l /\ 2 * i - 1 \in 1 .. n /\ 2 * i \in 1 .. n
    BY <1>1
  <2>2. Twins(q[2 * i - 1], q[2 * i])
    BY <1>1, <2>1 DEF Paired
  <2>3. p[2 * i - 1] = q[2 * i - 1] /\ p[2 * i] = q[2 * i]
    BY <1>1, <2>1 DEF IsStart
  <2>4. ids[i] = p[2 * i].id
    BY <1>1, <1>2, <1>3, <2>2, <2>3, BlockIs
  <2>5. 0 < q[2 * i].id
    <3>1. 2 * i \in 0 + 1 .. Len(q)
      BY <1>1, <2>1
    <3> QED BY <3>1 DEF DoneInOrder
  <2> QED BY <2>2, <2>3, <2>4, <2>5 DEF Twins
<1>5. PICK more \in Seq(Nat) : more = ran \o ids
  <2>1. ran \o ids \in Seq(Nat)
    OBVIOUS
  <2> QED BY <2>1
<1>6. /\ Len(more) = c + h /\ \A i \in 1 .. c : more[i] = ran[i]
      /\ \A i \in 1 .. c + h : i > c => i - c \in 1 .. h /\ more[i] = ids[i - c]
  <2>1. /\ Len(more) = c + h
        /\ \A i \in 1 .. c + h : more[i] = IF i <= c THEN ran[i] ELSE ids[i - c]
    BY <1>1, <1>3, <1>5, ConcatProperties
  <2>2. \A i \in 1 .. c : i \in 1 .. c + h /\ i <= c
    OBVIOUS
  <2>3. \A i \in 1 .. c + h : i > c => i - c \in 1 .. h /\ ~(i <= c)
    OBVIOUS
  <2> QED BY <2>1, <2>2, <2>3
<1>7. ASSUME Unsaid(ran) = {} PROVE Unsaid(more) = {}
  <2>1. ASSUME NEW i \in 1 .. c, ran[i] = 0 PROVE FALSE
    <3>1. i \in Unsaid(ran)
      BY <1>1, <2>1 DEF Unsaid
    <3> QED BY <1>7, <3>1
  <2>2. ASSUME NEW i \in 1 .. c + h PROVE more[i] # 0
    <3>1. CASE i <= c
      <4>1. i \in 1 .. c
        BY <3>1
      <4> QED BY <1>6, <2>1, <4>1
    <3>2. CASE i > c
      BY <1>4, <1>6, <3>2
    <3> QED BY <3>1, <3>2
  <2>3. DOMAIN more = 1 .. c + h
    BY <1>6
  <2> QED BY <2>2, <2>3 DEF Unsaid
<1>8. ASSUME Straight(q, c), ran = UpTo0(c) PROVE more = UpTo0(c + h)
  <2>1. ASSUME NEW i \in 1 .. c + h PROVE more[i] = i
    <3>1. CASE i <= c
      BY <1>6, <1>8, <3>1 DEF UpTo0
    <3>2. CASE i > c
      <4>1. PICK e \in 1 .. h : e = i - c /\ more[i] = ids[e]
        BY <1>6, <3>2
      <4>2. e \in 1 .. l /\ 2 * e - 1 <= l
        BY <1>1
      <4>3. q[2 * e - 1].id = c + e
        BY <1>1, <1>8, <4>2 DEF Straight
      <4> QED BY <1>4, <4>1, <4>3
    <3> QED BY <3>1, <3>2
  <2>2. more = [i \in 1 .. c + h |-> more[i]]
    BY <1>6
  <2> QED BY <2>1, <2>2 DEF UpTo0
<1> QED BY <1>1, <1>3, <1>5, <1>6, <1>7, <1>8 DEF Follows

\* Blocks that are in step are pairs.
LEMMA InStepEven ==
  ASSUME NEW P, NEW q \in Seq(P)
  PROVE  InStep(q) \in 0 .. Len(q) /\ \E h \in Nat : InStep(q) = 2 * h
<1> DEFINE s == {n \in 0 .. Len(q) : /\ n % 2 = 0 /\ \A i \in 1 .. n : i % 2 = 1 => q[i].half = 1}
<1>1. Len(q) \in Nat /\ s \in SUBSET (0 .. Len(q)) /\ 0 \in s
  OBVIOUS
<1>2. \A n \in s : n \in Nat /\ n % 2 = 0
  OBVIOUS
<1> HIDE DEF s
<1>3. s # {}
  BY <1>1
<1>4. PICK n \in s : n = InStep(q)
  <2>1. Max(s) \in s
    BY <1>1, <1>3, MaxIn
  <2>2. InStep(q) = Max(s)
    BY DEF InStep, s
  <2> QED BY <2>1, <2>2
<1>5. n \div 2 \in Nat /\ n = 2 * (n \div 2)
  BY <1>2
<1> QED BY <1>1, <1>4, <1>5

\* A sequence that is cut in two, once and again.
LEMMA CutAt ==
  ASSUME NEW P, NEW q \in Seq(P), NEW n \in 0 .. Len(q)
  PROVE  /\ \E p \in Seq(P) : p = SubSeq(q, 1, n) /\ Len(p) = n /\ IsStart(p, q)
         /\ \E p \in Seq(P) : p = SubSeq(q, n + 1, Len(q)) /\ IsRest(p, q, n)
<1>1. PICK l \in Nat : l = Len(q) /\ n <= l
  OBVIOUS
<1>2. PICK first \in Seq(P) : first = SubSeq(q, 1, n)
  BY Slice
<1>3. Len(first) = n /\ \A i \in 1 .. n : first[i] = q[i]
  BY <1>2, Slice
<1>4. PICK rest \in Seq(P) : rest = SubSeq(q, n + 1, Len(q))
  BY Slice
<1>5. Len(rest) = Len(q) - n /\ \A i \in 1 .. Len(q) - n : rest[i] = q[n + i]
  BY <1>4, Slice
<1>6. IsStart(first, q)
  BY <1>1, <1>3 DEF IsStart
<1>7. IsRest(rest, q, n)
  BY <1>1, <1>5 DEF IsRest
<1> QED BY <1>2, <1>3, <1>4, <1>6, <1>7

\* The rest of a rest is a rest.
LEMMA RestOfRest ==
  ASSUME NEW P, NEW q \in Seq(P), NEW p \in Seq(P), NEW s \in Seq(P), NEW a \in Nat, NEW b \in Nat,
         a <= Len(q), IsRest(p, q, a), IsRest(s, p, b)
  PROVE  IsRest(s, q, a + b)
<1>1. PICK l \in Nat, k \in Nat, n \in Nat : l = Len(q) /\ k = Len(p) /\ n = Len(s) /\ k = l - a /\ n = k - b
  <2>1. Len(q) \in Nat /\ Len(p) \in Nat /\ Len(s) \in Nat /\ Len(p) = Len(q) - a /\ Len(s) = Len(p) - b
    BY DEF IsRest
  <2> QED BY <2>1
<1>2. ASSUME NEW j \in 1 .. n PROVE s[j] = q[a + b + j]
  <2>1. b + j \in 1 .. k /\ a + (b + j) = a + b + j
    BY <1>1
  <2>2. s[j] = p[b + j] /\ p[b + j] = q[a + (b + j)]
    BY <1>1, <2>1 DEF IsRest
  <2> QED BY <2>1, <2>2
<1>3. n = l - (a + b)
  BY <1>1
<1> QED BY <1>1, <1>2, <1>3 DEF IsRest

\* A start of a rest of a start is a stretch of the whole.
LEMMA StartOfRest ==
  ASSUME NEW P, NEW q \in Seq(P), NEW buf \in Seq(P), IsStart(buf, q), NEW again \in Seq(P), NEW a \in Nat,
         IsRest(again, buf, a), NEW p \in Seq(P), IsStart(p, again)
  PROVE  a + Len(p) <= Len(q) /\ \A j \in 1 .. Len(p) : p[j] = q[a + j]
<1>1. PICK l \in Nat, k \in Nat, n \in Nat, o \in Nat :
        l = Len(q) /\ k = Len(buf) /\ o = Len(again) /\ n = Len(p) /\ k <= l /\ o = k - a /\ n <= o
  <2>1. Len(q) \in Nat /\ Len(buf) \in Nat /\ Len(again) \in Nat /\ Len(p) \in Nat
    OBVIOUS
  <2>2. Len(buf) <= Len(q) /\ Len(again) = Len(buf) - a /\ Len(p) <= Len(again)
    BY DEF IsStart, IsRest
  <2> QED BY <2>1, <2>2
<1>2. ASSUME NEW j \in 1 .. n PROVE p[j] = q[a + j]
  <2>1. j \in 1 .. o /\ a + j \in 1 .. k
    BY <1>1
  <2>2. p[j] = again[j] /\ again[j] = buf[a + j] /\ buf[a + j] = q[a + j]
    BY <1>1, <2>1 DEF IsStart, IsRest
  <2> QED BY <2>2
<1> QED BY <1>1, <1>2

\* What is read and taken for blocks.
Read(p, z, p2, left) == [ids |-> Blocks(p) \o Zeros(z) \o Blocks(p2), buf |-> left]
ReadFirst(read, p, rest) == (rest = <<>> \/ rest[1].half = 1) /\ read = [ids |-> Blocks(p), buf |-> rest]
ReadAgain(P, read, p, rest) ==
  /\ rest # <<>> /\ rest[1].half # 1
  /\ \E i \in 0 .. Len(rest), z \in Nat, again \in Seq(P), p2 \in Seq(P), left \in Seq(P) :
       /\ IsRest(again, rest, i) /\ IsStart(p2, again) /\ IsRest(left, again, Len(p2))
       /\ read = Read(p, z, p2, left)

\* What is read is pieces from the front, and once more after some were dropped.
LEMMA ReadParts ==
  ASSUME NEW P, NEW buf \in Seq(P), NEW read \in ReadBlocks(buf)
  PROVE  \E h \in Nat, p \in Seq(P), rest \in Seq(P) :
           /\ Len(p) = 2 * h /\ 2 * h <= Len(buf) /\ IsStart(p, buf) /\ IsRest(rest, buf, 2 * h)
           /\ ReadFirst(read, p, rest) \/ ReadAgain(P, read, p, rest)
<1>1. PICK n \in 0 .. Len(buf), h \in Nat : n = InStep(buf) /\ n = 2 * h
  BY InStepEven
<1>2. PICK p \in Seq(P) : p = SubSeq(buf, 1, n) /\ Len(p) = n /\ IsStart(p, buf)
  BY CutAt
<1>3. PICK rest \in Seq(P) : rest = SubSeq(buf, n + 1, Len(buf)) /\ IsRest(rest, buf, n)
  BY CutAt
<1>4. Len(p) = 2 * h /\ 2 * h <= Len(buf) /\ IsStart(p, buf) /\ IsRest(rest, buf, 2 * h)
  BY <1>1, <1>2, <1>3
<1>5. CASE rest = <<>> \/ rest[1].half = 1
  <2>1. read = [ids |-> Blocks(p), buf |-> rest]
    BY <1>1, <1>2, <1>3, <1>5 DEF ReadBlocks
  <2> QED BY <1>4, <1>5, <2>1 DEF ReadFirst
<1>6. CASE ~(rest = <<>> \/ rest[1].half = 1)
  <2>1. PICK pair \in (0 .. Len(rest)) \X (0 .. Len(rest)) :
          read = LET again == SubSeq(rest, pair[1] + 1, Len(rest))
                     m == IF pair[1] = 0 THEN 0 ELSE InStep(again)
                 IN [ids |-> Blocks(p) \o Zeros(pair[2]) \o Blocks(SubSeq(again, 1, m)),
                     buf |-> SubSeq(again, m + 1, Len(again))]
    BY <1>1, <1>2, <1>3, <1>6 DEF ReadBlocks
  <2>2. PICK i \in 0 .. Len(rest), z \in Nat : i = pair[1] /\ z = pair[2]
    OBVIOUS
  <2>3. PICK again \in Seq(P) : again = SubSeq(rest, i + 1, Len(rest)) /\ IsRest(again, rest, i)
    BY CutAt
  <2>4. PICK m \in 0 .. Len(again) : m = IF i = 0 THEN 0 ELSE InStep(again)
    BY InStepIs
  <2>5. PICK p2 \in Seq(P) : p2 = SubSeq(again, 1, m) /\ Len(p2) = m /\ IsStart(p2, again)
    BY CutAt
  <2>6. PICK left \in Seq(P) : left = SubSeq(again, m + 1, Len(again)) /\ IsRest(left, again, m)
    BY CutAt
  <2>7. read = Read(p, z, p2, left)
    BY <2>1, <2>2, <2>3, <2>4, <2>5, <2>6 DEF Read
  <2>8. rest # <<>> /\ rest[1].half # 1
    BY <1>6
  <2>9. IsRest(left, again, Len(p2))
    BY <2>5, <2>6
  <2>10. ReadAgain(P, read, p, rest)
    BY <2>3, <2>5, <2>7, <2>8, <2>9 DEF ReadAgain
  <2> QED BY <1>4, <2>10
<1> QED BY <1>5, <1>6

\* What is read after some were dropped is done in order as well.
LEMMA ReadOn ==
  ASSUME NEW P, AreParts(P), NEW q \in Seq(P), Onward(q), NEW buf \in Seq(P), IsStart(buf, q),
         NEW one \in Seq(Nat), NEW said \in Nat, NEW n \in Nat, DoneInOrder(one, q, n, said), NEW z \in Nat,
         NEW a \in Nat, n <= a, NEW again \in Seq(P), IsRest(again, buf, a), NEW p \in Seq(P), IsStart(p, again)
  PROVE  DoneInOrder((one \o Zeros(z)) \o Blocks(p), q, a + Len(p), said)
<1>1. PICK m \in Nat : m = Len(p)
  OBVIOUS
<1>2. a + m <= Len(q) /\ \A j \in 1 .. m : p[j] = q[a + j]
  BY <1>1, StartOfRest
<1>3. Zeros(z) \in Seq(Nat) /\ DoneInOrder(one \o Zeros(z), q, a, said)
  BY ZerosGo
<1>4. PICK two \in Seq(Nat) : two = one \o Zeros(z)
  <2>1. one \o Zeros(z) \in Seq(Nat)
    BY <1>3
  <2> QED BY <2>1
<1>5. DoneInOrder(two \o Blocks(p), q, a + m, said)
  <2>1. a + m \in Nat /\ DoneInOrder(two, q, a, said)
    BY <1>3, <1>4
  <2> QED BY <1>1, <1>2, <2>1, BlocksGo
<1> QED BY <1>1, <1>4, <1>5

\* A start of a start is a start.
LEMMA StartOfStart ==
  ASSUME NEW P, NEW q \in Seq(P), NEW buf \in Seq(P), IsStart(buf, q), NEW p \in Seq(P), IsStart(p, buf)
  PROVE  IsStart(p, q)
<1>1. Len(buf) <= Len(q) /\ Len(p) <= Len(buf) /\ Len(q) \in Nat /\ Len(p) \in Nat /\ Len(buf) \in Nat
  BY DEF IsStart
<1>2. ASSUME NEW j \in 1 .. Len(p) PROVE p[j] = q[j]
  <2>1. j \in 1 .. Len(buf)
    BY <1>1
  <2> QED BY <2>1 DEF IsStart
<1> QED BY <1>1, <1>2 DEF IsStart

JoinedOn(a, b, c, d) == a \o ((b \o c) \o d) = ((a \o b) \o c) \o d

\* It does not matter in which order four sequences are joined,
LEMMA FourJoined ==
  ASSUME NEW a \in Seq(Nat), NEW b \in Seq(Nat), NEW c \in Seq(Nat), NEW d \in Seq(Nat)
  PROVE  JoinedOn(a, b, c, d)
<1>1. PICK e \in Seq(Nat) : e = b \o c
  <2>1. b \o c \in Seq(Nat)
    OBVIOUS
  <2> QED BY <2>1
<1>2. (a \o b) \o c = a \o e
  <2>1. (a \o b) \o c = a \o (b \o c)
    BY ConcatAssociative, SMTT(30)
  <2> QED BY <1>1, <2>1
<1>3. (a \o e) \o d = a \o (e \o d)
  BY ConcatAssociative, SMTT(30)
<1> QED BY <1>1, <1>2, <1>3 DEF JoinedOn

\* such as what was done, read, dropped and read again.
LEMMA ReadJoined ==
  ASSUME NEW P, AreParts(P), NEW ran \in Seq(Nat), NEW p \in Seq(P), NEW z \in Nat, NEW p2 \in Seq(P)
  PROVE  JoinedOn(ran, Blocks(p), Zeros(z), Blocks(p2))
<1>1. Zeros(z) \in [1 .. z -> Nat]
  BY DEF Zeros
<1>2. Zeros(z) \in Seq(Nat)
  BY <1>1
<1>3. Blocks(p) \in Seq(Nat) /\ Blocks(p2) \in Seq(Nat)
  BY BlockIs
<1> QED BY <1>2, <1>3, FourJoined

\* Where pieces come in pairs, nothing is taken for blocks that are not.
LEMMA ReadInStep ==
  ASSUME NEW P, NEW q \in Seq(P), NEW buf \in Seq(P), IsStart(buf, q), NEW h \in Nat,
         NEW rest \in Seq(P), IsRest(rest, buf, 2 * h), rest # <<>>, Paired(q)
  PROVE  rest[1].half = 1
<1>1. PICK l \in Nat, k \in Nat, n \in Nat : l = Len(q) /\ k = Len(buf) /\ k <= l /\ n = 2 * h
  <2>1. Len(q) \in Nat /\ Len(buf) \in Nat /\ Len(buf) <= Len(q) /\ 2 * h \in Nat
    BY DEF IsStart
  <2> QED BY <2>1
<1>2. Len(rest) = k - n /\ Len(rest) \in Nat /\ Len(rest) # 0
  BY <1>1 DEF IsRest
<1>3. h + 1 \in 1 .. l /\ 2 * (h + 1) - 1 = n + 1 /\ n + 1 <= l /\ n + 1 \in 1 .. k /\ 1 \in 1 .. k - n
  BY <1>1, <1>2
<1>4. q[n + 1].half = 1
  <2>1. 2 * (h + 1) - 1 <= Len(q) => q[2 * (h + 1) - 1].half = 1
    BY <1>1, <1>3 DEF Paired
  <2> QED BY <1>1, <1>3, <2>1
<1>5. rest[1] = buf[n + 1] /\ buf[n + 1] = q[n + 1]
  BY <1>1, <1>2, <1>3 DEF IsRest, IsStart
<1> QED BY <1>4, <1>5

\* Blocks are read in order, and where pieces come in pairs none is left out.
LEMMA ReadGoes ==
  ASSUME NEW P, AreParts(P), NEW q \in Seq(P), Onward(q), NEW buf \in Seq(P), IsStart(buf, q),
         NEW ran \in Seq(Nat), NEW said \in Nat, DoneInOrder(ran, q, 0, said), NEW read \in ReadBlocks(buf)
  PROVE  \E r \in 0 .. Len(buf) :
           /\ IsRest(read.buf, buf, r) /\ DoneInOrder(ran \o read.ids, q, r, said)
           /\ Paired(q) => Follows(ran, ran \o read.ids, q, r)
<1>1. PICK h \in Nat, p \in Seq(P), rest \in Seq(P) :
        /\ Len(p) = 2 * h /\ 2 * h <= Len(buf) /\ IsStart(p, buf) /\ IsRest(rest, buf, 2 * h)
        /\ ReadFirst(read, p, rest) \/ ReadAgain(P, read, p, rest)
  BY ReadParts
<1>2. PICK n \in 0 .. Len(buf) : n = 2 * h
  BY <1>1
<1>3. PICK one \in Seq(Nat) : one = ran \o Blocks(p)
  <2>1. ran \o Blocks(p) \in Seq(Nat)
    BY BlockIs
  <2> QED BY <2>1
<1>4. IsStart(p, q)
  BY <1>1, StartOfStart
<1>5. DoneInOrder(one, q, n, said)
  <2>1. n \in Nat /\ n = 0 + Len(p) /\ n <= Len(q) /\ 0 \in Nat
    BY <1>1, <1>2, <1>4 DEF IsStart
  <2>2. \A j \in 1 .. Len(p) : p[j] = q[0 + j]
    BY <1>4 DEF IsStart
  <2> QED BY <1>3, <2>1, <2>2, BlocksGo
<1>6. ASSUME Paired(q) PROVE Follows(ran, one, q, n)
  BY <1>1, <1>2, <1>3, <1>4, <1>6, BlocksFollow
<1>7. CASE ReadFirst(read, p, rest)
  <2>1. read = [ids |-> Blocks(p), buf |-> rest]
    BY <1>7 DEF ReadFirst
  <2>2. IsRest(read.buf, buf, n) /\ ran \o read.ids = one
    BY <1>1, <1>2, <1>3, <2>1
  <2> QED BY <1>5, <1>6, <2>2
<1>8. CASE ReadAgain(P, read, p, rest)
  <2>1. PICK i \in 0 .. Len(rest), z \in Nat, again \in Seq(P), p2 \in Seq(P), left \in Seq(P) :
          /\ IsRest(again, rest, i) /\ IsStart(p2, again) /\ IsRest(left, again, Len(p2))
          /\ read = Read(p, z, p2, left)
    BY <1>8 DEF ReadAgain
  <2>2. PICK a \in Nat : a = n + i /\ n <= a /\ a <= Len(buf) /\ n \in Nat /\ IsRest(again, buf, a)
    <3>1. IsRest(rest, buf, n) /\ IsRest(again, rest, i) /\ n \in Nat /\ i \in Nat /\ n <= Len(buf)
      BY <1>1, <1>2, <2>1
    <3>2. IsRest(again, buf, n + i)
      BY <3>1, RestOfRest
    <3>3. n + i \in Nat /\ n <= n + i /\ n + i <= Len(buf)
      BY <3>1 DEF IsRest
    <3> QED BY <3>1, <3>2, <3>3
  <2>3. PICK r \in 0 .. Len(buf) :
          IsRest(left, buf, r) /\ DoneInOrder((one \o Zeros(z)) \o Blocks(p2), q, r, said)
    <3>1. IsStart(p2, again) /\ IsRest(left, again, Len(p2)) /\ Len(p2) \in Nat
      BY <2>1
    <3>2. DoneInOrder((one \o Zeros(z)) \o Blocks(p2), q, a + Len(p2), said)
      BY <1>5, <2>2, <3>1, ReadOn
    <3>3. IsRest(left, buf, a + Len(p2))
      BY <2>2, <3>1, RestOfRest
    <3>4. a + Len(p2) \in 0 .. Len(buf)
      BY <2>2, <3>1 DEF IsRest, IsStart
    <3> QED BY <3>2, <3>3, <3>4
  <2>4. ran \o read.ids = (one \o Zeros(z)) \o Blocks(p2) /\ read.buf = left
    <3>1. read.ids = (Blocks(p) \o Zeros(z)) \o Blocks(p2) /\ read.buf = left
      BY <2>1 DEF Read
    <3>2. ran \o ((Blocks(p) \o Zeros(z)) \o Blocks(p2)) = ((ran \o Blocks(p)) \o Zeros(z)) \o Blocks(p2)
      <4>1. JoinedOn(ran, Blocks(p), Zeros(z), Blocks(p2))
        BY ReadJoined
      <4> QED BY <4>1 DEF JoinedOn
    <3> QED BY <1>3, <3>1, <3>2
  <2>5. ~Paired(q)
    BY <1>1, <1>8, ReadInStep DEF ReadAgain
  <2> QED BY <2>3, <2>4, <2>5
<1> QED BY <1>1, <1>7, <1>8

-----------------------------------------------------------------------------
(* What a connection takes.                                                *)

\* What has been done when the pieces up to place r have been taken, the first time or not.
Strayed(ran, q, r, e) == Cardinality(Unsaid(ran)) + Cardinality(Orphans(q, r, e))
DoneUpTo(t, q, r) ==
  {ran \in Items :
     /\ DoneInOrder(ran, q, r, t.said) /\ Strayed(ran, q, r, t.eof) <= Strayed(t.ran, q, 0, t.eof)
     /\ Paired(q) => Follows(t.ran, ran, q, r)}

\* That is a number.
LEMMA StrayedIs ==
  ASSUME NEW P, AreParts(P), NEW q \in Seq(P), NEW r \in Nat, NEW said \in Nat, NEW ran \in Seq(Nat),
         DoneInOrder(ran, q, r, said), NEW e
  PROVE  Strayed(ran, q, r, e) \in Nat
<1>1. Cardinality(Orphans(q, r, e)) \in Nat
  BY OrphansAre
<1>2. 0 \in Nat
  OBVIOUS
<1>3. Cardinality(Unsaid(ran)) \in Nat
  BY <1>2, UnsaidIs
<1> QED BY <1>1, <1>3 DEF Strayed

Extends(more, q, x, n) ==
  /\ more = [i \in 1 .. n + 1 |-> more[i]] /\ Len(more) = n + 1
  /\ more[n + 1] = x /\ \A i \in 1 .. n : more[i] = q[i]

\* Append adds one element and changes no other.
LEMMA Appended ==
  ASSUME NEW S, NEW q \in Seq(S), NEW x \in S, NEW n \in Nat, n = Len(q)
  PROVE  Append(q, x) \in Seq(S) /\ Extends(Append(q, x), q, x, n)
<1>1. PICK more \in Seq(S) : more = Append(q, x)
  BY AppendProperties
<1>2. Len(more) = n + 1 /\ more[n + 1] = x /\ \A i \in 1 .. n : more[i] = q[i]
  BY <1>1
<1>3. more = [i \in 1 .. n + 1 |-> more[i]]
  BY <1>2
<1>4. Extends(more, q, x, n)
  BY <1>2, <1>3 DEF Extends
<1> QED BY <1>1, <1>4

\* A line of pieces that come in pairs is a pair.
LEMMA LineFollows ==
  ASSUME NEW P, AreParts(P), NEW q \in Seq(P), Owned(q), Paired(q), NEW r \in Nat, NEW k \in 1 .. Len(q),
         IsLineFrom(q, r, k), NEW first \in Seq(Nat), NEW ran \in Seq(Nat), NEW said \in Nat,
         DoneInOrder(ran, q, r, said), Follows(first, ran, q, r)
  PROVE  Follows(first, Append(ran, LineId(SubSeq(q, r + 1, k))), q, k)
<1>1. PICK h \in Nat :
        /\ r = 2 * h /\ Len(ran) = Len(first) + h
        /\ Unsaid(first) = {} => Unsaid(ran) = {}
        /\ Straight(q, Len(first)) /\ first = UpTo0(Len(first)) => ran = UpTo0(Len(ran))
  BY DEF Follows
<1>2. PICK l \in Nat, a \in Nat, b \in Nat : l = Len(q) /\ a = Len(first) /\ b = Len(ran) /\ b = a + h /\ k <= l
  <2>1. Len(q) \in Nat /\ Len(first) \in Nat /\ Len(ran) \in Nat /\ k <= Len(q)
    OBVIOUS
  <2> QED BY <1>1, <2>1
<1>3. /\ k >= r + 2 /\ (k = r + 2 => LineId(SubSeq(q, r + 1, k)) = q[k].id)
      /\ (k # r + 2 => q[r + 2].half = 1)
  BY LineEntire
<1>4. h + 1 \in 1 .. l /\ 2 * (h + 1) = r + 2 /\ 2 * (h + 1) - 1 = r + 1 /\ r + 2 <= l /\ r + 1 <= l
  BY <1>1, <1>2, <1>3
<1>5. Twins(q[r + 1], q[r + 2])
  <2>1. 2 * (h + 1) <= Len(q) => Twins(q[2 * (h + 1) - 1], q[2 * (h + 1)])
    BY <1>2, <1>4 DEF Paired
  <2> QED BY <1>2, <1>4, <2>1
<1>6. k = r + 2
  BY <1>3, <1>5 DEF Twins
<1>7. PICK id \in Nat : id = LineId(SubSeq(q, r + 1, k)) /\ id = q[r + 1].id /\ id # 0
  <2>1. LineId(SubSeq(q, r + 1, k)) = q[k].id /\ q[k].id = q[r + 1].id
    BY <1>3, <1>5, <1>6 DEF Twins
  <2>2. q[k].id \in Nat
    BY DEF AreParts
  <2>3. k \in r + 1 .. Len(q)
    BY <1>2, <1>6
  <2>4. 0 < q[k].id
    BY <2>3 DEF DoneInOrder
  <2> QED BY <2>1, <2>2, <2>4
<1>8. PICK more : more = Append(ran, id)
  OBVIOUS
<1>9. Len(more) = b + 1 /\ DOMAIN more = 1 .. b + 1 /\ more[b + 1] = id /\ \A i \in 1 .. b : more[i] = ran[i]
  <2>1. Extends(more, ran, id, b)
    BY <1>2, <1>8, Appended
  <2> QED BY <2>1 DEF Extends
<1>10. \A i \in 1 .. b + 1 : i \in 1 .. b \/ i = b + 1
  BY <1>2
<1>11. ASSUME Unsaid(first) = {} PROVE Unsaid(more) = {}
  <2>1. Unsaid(ran) = {} /\ DOMAIN ran = 1 .. b
    BY <1>1, <1>2, <1>11
  <2>2. \A i \in 1 .. b : ran[i] # 0
    BY <2>1 DEF Unsaid
  <2> QED BY <1>7, <1>9, <1>10, <2>2 DEF Unsaid
<1>12. ASSUME Straight(q, a), first = UpTo0(a) PROVE more = UpTo0(b + 1)
  <2>1. \A i \in 1 .. b : ran[i] = i
    <3>1. ran = UpTo0(b)
      BY <1>1, <1>2, <1>12
    <3> QED BY <3>1 DEF UpTo0
  <2>2. id = b + 1
    <3>1. 2 * (h + 1) - 1 <= Len(q) => q[2 * (h + 1) - 1].id = a + (h + 1)
      BY <1>2, <1>4, <1>12 DEF Straight
    <3> QED BY <1>2, <1>4, <1>7, <3>1
  <2>3. \A i \in 1 .. b + 1 : more[i] = i
    BY <1>9, <1>10, <2>1, <2>2
  <2>4. more = [i \in 1 .. b + 1 |-> more[i]]
    <3>1. Extends(more, ran, id, b)
      BY <1>2, <1>8, Appended
    <3> QED BY <3>1 DEF Extends
  <2> QED BY <2>3, <2>4 DEF UpTo0
<1>13. h + 1 \in Nat /\ k = 2 * (h + 1) /\ Len(more) = a + (h + 1)
  BY <1>2, <1>4, <1>6, <1>9
<1>14. Follows(first, more, q, k)
  BY <1>2, <1>9, <1>11, <1>12, <1>13 DEF Follows
<1> QED BY <1>7, <1>8, <1>14

\* A stretch of the pieces that have been received.
LEMMA SameStretch ==
  ASSUME NEW P, NEW q \in Seq(P), NEW buf \in Seq(P), IsStart(buf, q), NEW r \in Nat, NEW k \in 1 .. Len(buf),
         IsLineFrom(buf, r, k)
  PROVE  k \in 1 .. Len(q) /\ IsLineFrom(q, r, k) /\ SubSeq(buf, r + 1, k) = SubSeq(q, r + 1, k)
<1>1. PICK l \in Nat, n \in Nat : l = Len(q) /\ n = Len(buf) /\ n <= l /\ k <= n /\ r < k
  <2>1. Len(q) \in Nat /\ Len(buf) \in Nat /\ Len(buf) <= Len(q) /\ k <= Len(buf) /\ r < k
    BY DEF IsStart, IsLineFrom
  <2> QED BY <2>1
<1>2. \A j \in 1 .. n : buf[j] = q[j] /\ j \in 1 .. l
  BY <1>1 DEF IsStart
<1>3. IsLineFrom(q, r, k)
  <2>1. \A j \in r + 1 .. k - 1 : j \in 1 .. n
    BY <1>1
  <2>2. k \in 1 .. n /\ (r # 0 => r \in 1 .. n)
    BY <1>1
  <2> QED BY <1>2, <2>1, <2>2 DEF IsLineFrom
<1>4. SubSeq(buf, r + 1, k) = [i \in 1 .. k - r |-> buf[r + i]]
  BY <1>1
<1>5. SubSeq(q, r + 1, k) = [i \in 1 .. k - r |-> q[r + i]]
  BY <1>1
<1>6. \A i \in 1 .. k - r : r + i \in 1 .. n
  BY <1>1
<1> QED BY <1>1, <1>2, <1>3, <1>4, <1>5, <1>6

\* A line is done in order, adds no stray, and leaves none out.
LEMMA LineAfter ==
  ASSUME NEW P, AreParts(P), NEW t \in Connection(P), NEW q \in Seq(P), Onward(q), Owned(q),
         NEW buf \in Seq(P), IsStart(buf, q), NEW r \in Nat, NEW k \in 1 .. Len(buf), IsLineFrom(buf, r, k),
         NEW ran \in DoneUpTo(t, q, r), DoneInOrder(t.ran, q, 0, t.said)
  PROVE  Append(ran, LineId(SubSeq(buf, r + 1, k))) \in DoneUpTo(t, q, k)
<1>1. PICK e \in 1 .. Len(q) : e = k /\ IsLineFrom(q, r, e) /\ SubSeq(buf, r + 1, k) = SubSeq(q, r + 1, e)
  BY SameStretch
<1>2. PICK said \in Nat, first \in Seq(Nat) : said = t.said /\ first = t.ran
  BY DEF Connection, Items
<1>3. /\ ran \in Seq(Nat) /\ DoneInOrder(ran, q, r, said)
      /\ Strayed(ran, q, r, t.eof) <= Strayed(first, q, 0, t.eof) /\ (Paired(q) => Follows(first, ran, q, r))
  BY <1>2 DEF DoneUpTo, Items
<1>4. PICK more : more = Append(ran, LineId(SubSeq(q, r + 1, e)))
  OBVIOUS
<1>5. DoneInOrder(more, q, e, said)
  BY <1>1, <1>3, <1>4, LineGoes
<1>6. more \in Items
  <2>1. LineId(SubSeq(q, r + 1, e)) \in Nat
    <3>1. r < e /\ SubSeq(q, r + 1, e)[1] = q[r + 1]
      BY <1>1, EntireIs DEF IsLineFrom
    <3>2. r + 1 \in 1 .. Len(q)
      BY <3>1
    <3>3. q[r + 1].id \in Nat
      BY <3>2 DEF AreParts
    <3> QED BY <3>1, <3>3 DEF LineId
  <2> QED BY <1>3, <1>4, <2>1 DEF Items
<1>7. Strayed(more, q, e, t.eof) <= Strayed(ran, q, r, t.eof)
  BY <1>1, <1>3, <1>4, LineOrphans DEF Strayed
<1>8. /\ Strayed(more, q, e, t.eof) \in Nat /\ Strayed(ran, q, r, t.eof) \in Nat
      /\ Strayed(first, q, 0, t.eof) \in Nat
  <2>1. more \in Seq(Nat) /\ e \in Nat /\ 0 \in Nat
    BY <1>6 DEF Items
  <2>2. DoneInOrder(first, q, 0, said)
    BY <1>2
  <2> QED BY <1>3, <1>5, <2>1, <2>2, StrayedIs
<1>9. Strayed(more, q, e, t.eof) <= Strayed(first, q, 0, t.eof)
  BY <1>3, <1>7, <1>8
<1>10. Paired(q) => Follows(first, more, q, e)
  BY <1>1, <1>3, <1>4, LineFollows
<1>11. more \in DoneUpTo(t, q, e)
  BY <1>2, <1>5, <1>6, <1>9, <1>10 DEF DoneUpTo
<1> QED BY <1>1, <1>4, <1>11

\* What is received is taken from the front of what a connection holds and brings.
LEMMA WayTaken ==
  ASSUME NEW P, NEW t \in Connection(P), NEW n \in 1 .. Len(t.wire), NEW u \in Connection(P),
         NEW r \in 0 .. Len(Received(t, n)), IsRest(u.buf, Received(t, n), r),
         u.wire = SubSeq(t.wire, n + 1, Len(t.wire))
  PROVE  /\ Way(t) \in Seq(P) /\ Way(u) \in Seq(P) /\ IsStart(Received(t, n), Way(t))
         /\ r \in 0 .. Len(Way(t)) /\ IsRest(Way(u), Way(t), r)
<1>1. PICK held \in Seq(P), wire \in Seq(P), kept \in Seq(P) : held = t.buf /\ wire = t.wire /\ kept = u.buf
  BY DEF Connection
<1>2. PICK b \in Nat, w \in Nat, x \in Nat : b = Len(held) /\ w = Len(wire) /\ x = Len(kept)
  <2>1. Len(held) \in Nat /\ Len(wire) \in Nat /\ Len(kept) \in Nat
    OBVIOUS
  <2> QED BY <2>1
<1>3. PICK d \in Nat : n \in 1 .. w /\ n \in 0 .. Len(wire) /\ d = w - n /\ w = n + d /\ n \in Nat
  <2>1. n \in 1 .. w /\ w \in Nat
    BY <1>1, <1>2
  <2>2. n \in 0 .. w /\ w - n \in Nat /\ w = n + (w - n) /\ n \in Nat
    BY <2>1
  <2> QED BY <1>2, <2>1, <2>2
<1>4. PICK head \in Seq(P) : head = SubSeq(wire, 1, n)
  BY <1>3, Slice
<1>5. Len(head) = n /\ \A i \in 1 .. n : head[i] = wire[i]
  BY <1>3, <1>4, Slice
<1>6. PICK rest \in Seq(P) : rest = SubSeq(wire, n + 1, Len(wire))
  BY <1>3, Slice
<1>7. Len(rest) = d /\ \A i \in 1 .. d : rest[i] = wire[n + i]
  BY <1>2, <1>3, <1>6, Slice
<1>8. PICK got \in Seq(P) : got = Received(t, n) /\ Len(got) = b + n
                            /\ \A i \in 1 .. b + n : got[i] = IF i <= b THEN held[i] ELSE wire[i - b]
  <2>1. held \o head \in Seq(P)
    OBVIOUS
  <2>2. PICK got \in Seq(P) : got = held \o head
    BY <2>1
  <2>3. Len(got) = b + n /\ \A i \in 1 .. b + n : got[i] = IF i <= b THEN held[i] ELSE head[i - b]
    BY <1>2, <1>5, <2>2, ConcatProperties
  <2>4. \A i \in 1 .. b + n : ~(i <= b) => i - b \in 1 .. n
    OBVIOUS
  <2>5. got = Received(t, n)
    BY <1>1, <1>4, <2>2 DEF Received
  <2> QED BY <1>5, <2>3, <2>4, <2>5
<1>9. PICK q \in Seq(P) : q = Way(t) /\ Len(q) = b + w
                          /\ \A i \in 1 .. b + w : q[i] = IF i <= b THEN held[i] ELSE wire[i - b]
  <2>1. held \o wire \in Seq(P)
    OBVIOUS
  <2>2. PICK q \in Seq(P) : q = held \o wire
    BY <2>1
  <2>3. Len(q) = b + w /\ \A i \in 1 .. b + w : q[i] = IF i <= b THEN held[i] ELSE wire[i - b]
    BY <1>2, <2>2, ConcatProperties
  <2>4. q = Way(t)
    BY <1>1, <2>2 DEF Way
  <2> QED BY <2>3, <2>4
<1>10. PICK p \in Seq(P) : p = Way(u) /\ Len(p) = x + d
                           /\ \A i \in 1 .. x + d : p[i] = IF i <= x THEN kept[i] ELSE rest[i - x]
  <2>1. kept \o rest \in Seq(P)
    OBVIOUS
  <2>2. PICK p \in Seq(P) : p = kept \o rest
    BY <2>1
  <2>3. /\ Len(p) = x + d
        /\ \A i \in 1 .. x + d : p[i] = IF i <= x THEN kept[i] ELSE rest[i - x]
    <3>1. Len(kept \o rest) = Len(kept) + Len(rest)
      BY ConcatProperties
    <3>2. \A i \in 1 .. Len(kept) + Len(rest) :
            (kept \o rest)[i] = IF i <= Len(kept) THEN kept[i] ELSE rest[i - Len(kept)]
      BY ConcatProperties
    <3> QED BY <1>2, <1>7, <2>2, <3>1, <3>2
  <2>4. p = Way(u)
    BY <1>1, <1>6, <2>2 DEF Way
  <2> QED BY <2>3, <2>4
<1>11. r \in 0 .. b + n /\ x = b + n - r /\ \A j \in 1 .. x : kept[j] = got[r + j]
  BY <1>1, <1>2, <1>8 DEF IsRest
<1>12. IsStart(got, q)
  <2>1. b + n <= b + w /\ \A i \in 1 .. b + n : i \in 1 .. b + w
    BY <1>3
  <2> QED BY <1>8, <1>9, <2>1 DEF IsStart
<1>13. x + d = b + w - r /\ r \in 0 .. b + w /\ x = b + n - r /\ r \in Nat
  <2>1. w = n + d /\ n \in Nat /\ r \in 0 .. b + n /\ x = b + n - r
    BY <1>3, <1>11
  <2> HIDE <1>3
  <2> QED BY <2>1
<1>14. ASSUME NEW j \in 1 .. b + w - r PROVE p[j] = q[r + j]
  <2>1. j \in 1 .. x + d /\ r + j \in 1 .. b + w
    BY <1>11, <1>13
  <2>2. CASE j <= x
    <3>1. j \in 1 .. x /\ r + j \in 1 .. b + n
      BY <1>11, <1>13, <2>2
    <3>2. p[j] = got[r + j]
      BY <1>10, <1>11, <2>1, <2>2, <3>1
    <3> QED BY <1>8, <1>9, <2>1, <3>1, <3>2
  <2>3. CASE ~(j <= x)
    <3>1. j - x \in 1 .. d /\ n + (j - x) = r + j - b /\ ~(r + j <= b)
      <4>1. j \in Int /\ x < j /\ j <= x + d /\ x = b + n - r /\ n \in Nat /\ r \in Nat /\ n >= 1
        BY <1>3, <1>13, <2>1, <2>3
      <4> QED BY <4>1
    <3>2. p[j] = rest[j - x] /\ rest[j - x] = wire[r + j - b]
      BY <1>7, <1>10, <2>1, <2>3, <3>1
    <3> QED BY <1>9, <2>1, <3>1, <3>2
  <2> QED BY <2>2, <2>3
<1>15. IsRest(p, q, r)
  BY <1>9, <1>10, <1>13, <1>14 DEF IsRest
<1> QED BY <1>8, <1>9, <1>10, <1>12, <1>13, <1>15

\* What has been received is the start of what a connection holds and brings.
LEMMA WayOf ==
  ASSUME NEW P, NEW t \in Connection(P), NEW n \in 1 .. Len(t.wire)
  PROVE  Way(t) \in Seq(P) /\ IsStart(Received(t, n), Way(t))
<1>1. PICK got \in Seq(P), rest \in Seq(P) : got = Received(t, n) /\ rest = SubSeq(t.wire, n + 1, Len(t.wire))
  BY ReceivedIs
<1>2. PICK r \in 0 .. Len(got) : r = 0
  OBVIOUS
<1>3. PICK u : u = [t EXCEPT !.buf = got, !.wire = rest]
  OBVIOUS
<1>4. u \in Connection(P) /\ u.buf = got /\ u.wire = rest
  BY <1>3 DEF Connection
<1>5. IsRest(got, got, r)
  BY <1>2 DEF IsRest
<1> QED BY <1>1, <1>4, <1>5, WayTaken

\* When no piece is taken, what was done stays as it is.
LEMMA FollowsItself ==
  ASSUME NEW ran \in Seq(Nat), NEW q
  PROVE  Follows(ran, ran, q, 0)
<1>1. Len(ran) \in Nat /\ 0 \in Nat /\ 0 = 2 * 0 /\ Len(ran) = Len(ran) + 0
  OBVIOUS
<1> QED BY <1>1 DEF Follows

\* Commands are done in the order in which they were said.
Taken(P, t, u, r) ==
  /\ Way(t) \in Seq(P) /\ Way(u) \in Seq(P) /\ r \in 0 .. Len(Way(t)) /\ IsRest(Way(u), Way(t), r)
  /\ DoneInOrder(u.ran, Way(t), r, t.said)
  /\ Paired(Way(t)) => Follows(t.ran, u.ran, Way(t), r)
  /\ u.said = t.said /\ u.up = t.up /\ u.eof = t.eof /\ u.cuts = t.cuts

\* RunLines: the lines that end are done, and the rest is held.
LEMMA ControlGoes ==
  ASSUME NEW m, Kept(m), NEW P, AreSaid(P), AreParts(P), NEW t \in Connection(P), NEW n \in 1 .. Len(t.wire),
         Onward(Way(t)), Owned(Way(t)), DoneInOrder(t.ran, Way(t), 0, t.said)
  PROVE  LET u == ProcessControl(m, t, n).conn
         IN \E r \in 0 .. Len(Way(t)) :
              /\ Taken(P, t, u, r) /\ (r # 0 => Way(t)[r].half = 2)
              /\ Strayed(u.ran, Way(t), r, t.eof) <= Strayed(t.ran, Way(t), 0, t.eof)
<1>1. PICK u \in Connection(P) : u = ProcessControl(m, t, n).conn
  BY LinesRun
<1> DEFINE buf == Received(t, n)
<1>2. buf \in Seq(P)
  BY ReceivedIs
<1> HIDE DEF buf
<1>3. PICK q \in Seq(P) : q = Way(t) /\ IsStart(buf, q)
  BY WayOf DEF buf
<1>4. PICK l \in Nat : l = Len(buf)
  OBVIOUS
<1> DEFINE T == [k \in 0 .. l |-> DoneUpTo(t, q, LastLine(buf, k))]
<1>5. t.ran \in T[0]
  <2>1. LastLine(buf, 0) = 0
    <3>1. 0 \in 0 .. Len(buf)
      BY <1>4
    <3>2. LastLine(buf, 0) \in 0 .. 0
      BY <1>2, <3>1, LastLineIs
    <3> QED BY <3>2
  <2>2. t.ran \in Items /\ DoneInOrder(t.ran, q, 0, t.said)
    BY <1>3 DEF Connection
  <2>3. Follows(t.ran, t.ran, q, 0)
    BY <2>2, FollowsItself DEF Items
  <2>4. Strayed(t.ran, q, 0, t.eof) <= Strayed(t.ran, q, 0, t.eof)
    <3>1. Strayed(t.ran, q, 0, t.eof) \in Nat
      <4>1. t.said \in Nat /\ t.ran \in Seq(Nat) /\ 0 \in Nat
        BY DEF Connection, Items
      <4> QED BY <2>2, <4>1, StrayedIs
    <3> QED BY <3>1
  <2>5. t.ran \in DoneUpTo(t, q, 0)
    BY <2>2, <2>3, <2>4 DEF DoneUpTo
  <2>6. 0 \in 0 .. l
    OBVIOUS
  <2> QED BY <2>1, <2>5, <2>6
<1>6. ASSUME NEW k \in 1 .. l, NEW ran \in Items, ran \in T[k - 1]
      PROVE  /\ k \in Lines(buf) => Append(ran, LineId(LineTo(buf, k))) \in T[k]
             /\ k \notin Lines(buf) => ran \in T[k]
  <2>1. k \in 0 .. l /\ k - 1 \in 0 .. l /\ k \in 1 .. Len(buf) /\ k - 1 \in 0 .. Len(buf)
    BY <1>4
  <2>2. T[k] = DoneUpTo(t, q, LastLine(buf, k)) /\ T[k - 1] = DoneUpTo(t, q, LastLine(buf, k - 1))
    BY <2>1
  <2> HIDE DEF T
  <2>3. PICK r \in Nat : r = LastLine(buf, k - 1)
    <3>1. LastLine(buf, k - 1) \in 0 .. k - 1
      BY <1>2, <2>1, LastLineIs
    <3> QED BY <3>1
  <2>4. ran \in DoneUpTo(t, q, r)
    BY <1>6, <2>2, <2>3
  <2>5. ASSUME k \in Lines(buf) PROVE Append(ran, LineId(LineTo(buf, k))) \in T[k]
    <3>1. LastLine(buf, k) = k /\ LineTo(buf, k) = SubSeq(buf, r + 1, k) /\ IsLineFrom(buf, r, k)
      BY <1>2, <2>1, <2>3, <2>5, NextLine
    <3>2. Append(ran, LineId(SubSeq(buf, r + 1, k))) \in DoneUpTo(t, q, k)
      BY <1>2, <1>3, <2>1, <2>4, <3>1, LineAfter
    <3> QED BY <2>2, <3>1, <3>2
  <2>6. ASSUME k \notin Lines(buf) PROVE ran \in T[k]
    <3>1. LastLine(buf, k) = r
      BY <1>2, <2>1, <2>3, <2>6, NextLine
    <3> QED BY <2>2, <2>4, <3>1
  <2> QED BY <2>5, <2>6
<1> HIDE DEF T
<1>7. PICK ran \in Items : ran \in T[Len(buf)] /\ u = LinesTaken(t, n, ran)
  <2>1. \A k \in 1 .. Len(Received(t, n)), ran \in Items : ran \in T[k - 1] =>
           /\ k \in Lines(Received(t, n)) => Append(ran, LineId(LineTo(Received(t, n), k))) \in T[k]
           /\ k \notin Lines(Received(t, n)) => ran \in T[k]
    BY <1>4, <1>6 DEF buf
  <2>2. PICK ran \in Items :
          ran \in T[Len(Received(t, n))] /\ ProcessControl(m, t, n).conn = LinesTaken(t, n, ran)
    BY <1>5, <2>1, ControlRan
  <2> QED BY <1>1, <2>2 DEF buf
<1>8. PICK r \in 0 .. Len(buf) : r = LastLine(buf, l) /\ (r = 0 \/ r \in Lines(buf))
  BY <1>2, <1>4, LastLineIs
<1>9. ran \in DoneUpTo(t, q, r)
  BY <1>4, <1>7, <1>8 DEF T
<1>10. /\ u.wire = SubSeq(t.wire, n + 1, Len(t.wire)) /\ u.ran = ran /\ u.buf = SubSeq(buf, r + 1, Len(buf))
       /\ u.said = t.said /\ u.up = t.up /\ u.eof = t.eof /\ u.cuts = t.cuts
  <2>1. u = [t EXCEPT !.wire = SubSeq(t.wire, n + 1, Len(t.wire)), !.ran = ran,
                      !.buf = SubSeq(buf, LastLine(buf, Len(buf)) + 1, Len(buf))]
    BY <1>7 DEF LinesTaken, buf
  <2> QED BY <1>4, <1>8, <2>1 DEF Connection
<1>11. IsRest(u.buf, buf, r)
  <2>1. PICK p \in Seq(P) : p = SubSeq(buf, r + 1, Len(buf)) /\ IsRest(p, buf, r)
    BY <1>2, CutAt
  <2> QED BY <1>10, <2>1
<1>12. Way(t) \in Seq(P) /\ Way(u) \in Seq(P) /\ r \in 0 .. Len(Way(t)) /\ IsRest(Way(u), Way(t), r)
  BY <1>8, <1>10, <1>11, WayTaken DEF buf
<1>13. r # 0 => Way(t)[r].half = 2
  BY <1>3, <1>8 DEF Lines, Ends, IsStart
<1>14. Taken(P, t, u, r) /\ Strayed(u.ran, Way(t), r, t.eof) <= Strayed(t.ran, Way(t), 0, t.eof)
  BY <1>3, <1>9, <1>10, <1>12 DEF DoneUpTo, Taken
<1> QED BY <1>1, <1>12, <1>13, <1>14

\* Blocks of data are done in the order in which they were said.
LEMMA DataGoes ==
  ASSUME NEW m, Kept(m), NEW P, AreParts(P), NEW t \in Connection(P), NEW n \in 1 .. Len(t.wire),
         Onward(Way(t)), DoneInOrder(t.ran, Way(t), 0, t.said), NEW done \in ProcessData(m, t, n)
  PROVE  \E r \in 0 .. Len(Way(t)) : Taken(P, t, done.conn, r)
<1>1. PICK u \in Connection(P) : u = done.conn
  BY BlocksRun DEF AreParts, AreNumbered
<1>2. PICK buf \in Seq(P), rest \in Seq(P) :
        /\ buf = t.buf \o SubSeq(t.wire, 1, n) /\ rest = SubSeq(t.wire, n + 1, Len(t.wire))
        /\ buf = Received(t, n)
  BY ReceivedIs DEF Received
<1>3. PICK q \in Seq(P) : q = Way(t) /\ IsStart(buf, q)
  BY <1>2, WayOf
<1>4. PICK read \in ReadBlocks(buf) :
        u = [t EXCEPT !.wire = rest, !.buf = read.buf, !.ran = @ \o read.ids]
  <2>1. PICK read \in ReadBlocks(buf) :
          done = [modem |-> FoldLeft(LAMBDA x, id : AddData(x, id), m, read.ids),
                  conn |-> [t EXCEPT !.wire = rest, !.buf = read.buf, !.ran = @ \o read.ids]]
    BY <1>2 DEF ProcessData
  <2> QED BY <1>1, <2>1
<1>5. t.ran \in Seq(Nat) /\ t.said \in Nat
  BY DEF Connection, Items
<1>6. PICK r \in 0 .. Len(buf) :
        /\ IsRest(read.buf, buf, r) /\ DoneInOrder(t.ran \o read.ids, q, r, t.said)
        /\ Paired(q) => Follows(t.ran, t.ran \o read.ids, q, r)
  BY <1>3, <1>5, ReadGoes
<1>7. /\ u.wire = SubSeq(t.wire, n + 1, Len(t.wire)) /\ u.ran = t.ran \o read.ids /\ u.buf = read.buf
      /\ u.said = t.said /\ u.up = t.up /\ u.eof = t.eof /\ u.cuts = t.cuts
  BY <1>2, <1>4 DEF Connection
<1>8. Way(t) \in Seq(P) /\ Way(u) \in Seq(P) /\ r \in 0 .. Len(Way(t)) /\ IsRest(Way(u), Way(t), r)
  BY <1>2, <1>6, <1>7, WayTaken
<1>9. Taken(P, t, u, r)
  BY <1>3, <1>6, <1>7, <1>8 DEF Taken
<1> QED BY <1>1, <1>8, <1>9

-----------------------------------------------------------------------------
(* What is true of a connection.                                           *)

\* What a connection does while nothing is cut, the first time it is made, and always.
InPairs(t) ==
  Paired(Way(t)) /\ Unsaid(t.ran) = {} /\ (~t.eof => \E h \in Nat : Len(Way(t)) = 2 * h)
Once(t) ==
  /\ t.ran = UpTo0(Len(t.ran))
  /\ t.up => /\ t.cuts = 0 /\ Straight(Way(t), Len(t.ran))
             /\ ~t.eof => Len(Way(t)) = 2 * (t.said - Len(t.ran))
Flows(t, k) ==
  /\ Onward(Way(t)) /\ DoneInOrder(t.ran, Way(t), 0, t.said)
  /\ ~t.up => t.wire = <<>>
  /\ t.cuts = 0 => InPairs(t)
  /\ k = 0 => t = NewConnection
  /\ k = 1 => Once(t)
\* What nobody said has been done as often as a connection was cut.
StraysFew(t) == Owned(Way(t)) /\ Strayed(t.ran, Way(t), 0, t.eof) <= t.cuts

\* Pieces that are numbered in pairs.
LEMMA RestStraight ==
  ASSUME NEW P, NEW q \in Seq(P), NEW p \in Seq(P), NEW h \in Nat, NEW a \in Nat, 2 * h <= Len(q),
         IsRest(p, q, 2 * h), Straight(q, a)
  PROVE  Straight(p, a + h)
<1>1. PICK l \in Nat, k \in Nat : l = Len(q) /\ k = Len(p) /\ l = k + 2 * h
  <2>1. Len(q) \in Nat /\ Len(p) \in Nat /\ Len(p) = Len(q) - 2 * h
    BY DEF IsRest
  <2> QED BY <2>1
<1>2. ASSUME NEW i \in 1 .. k, 2 * i - 1 <= k PROVE p[2 * i - 1].id = a + h + i
  <2>1. 2 * i - 1 \in 1 .. k /\ h + i \in 1 .. l /\ 2 * (h + i) - 1 = 2 * h + (2 * i - 1) /\ 2 * (h + i) - 1 <= l
    BY <1>1, <1>2
  <2>2. p[2 * i - 1] = q[2 * (h + i) - 1]
    BY <1>1, <2>1 DEF IsRest
  <2>3. q[2 * (h + i) - 1].id = a + (h + i)
    BY <1>1, <2>1 DEF Straight
  <2> QED BY <2>2, <2>3
<1> QED BY <1>1, <1>2 DEF Straight

\* A start of such pieces is numbered in pairs,
LEMMA StartStraight ==
  ASSUME NEW P, NEW q \in Seq(P), NEW p \in Seq(P), NEW a, IsStart(p, q), Straight(q, a)
  PROVE  Straight(p, a)
<1>1. PICK l \in Nat, k \in Nat : l = Len(q) /\ k = Len(p) /\ k <= l
  <2>1. Len(q) \in Nat /\ Len(p) \in Nat /\ Len(p) <= Len(q)
    BY DEF IsStart
  <2> QED BY <2>1
<1>2. ASSUME NEW i \in 1 .. k, 2 * i - 1 <= k PROVE p[2 * i - 1].id = a + i
  <2>1. 2 * i - 1 \in 1 .. k /\ i \in 1 .. l /\ 2 * i - 1 <= l
    BY <1>1, <1>2
  <2>2. p[2 * i - 1] = q[2 * i - 1]
    BY <1>1, <2>1 DEF IsStart
  <2>3. q[2 * i - 1].id = a + i
    BY <1>1, <2>1 DEF Straight
  <2> QED BY <2>2, <2>3
<1> QED BY <1>1, <1>2 DEF Straight

\* and so are such pieces with the next pair.
LEMMA MoreStraight ==
  ASSUME NEW P, NEW q \in Seq(P), NEW p \in Seq(P), NEW new, IsMore(p, q, new), NEW a \in Nat, NEW h \in Nat,
         Len(q) = 2 * h, new[1].id = a + h + 1, Straight(q, a)
  PROVE  Straight(p, a)
<1>1. Len(p) = 2 * h + 2 /\ \A j \in 1 .. 2 * h : p[j] = q[j]
  BY DEF IsMore, IsStart
<1>2. p[2 * h + 1].id = a + h + 1
  BY DEF IsMore
<1>3. ASSUME NEW i \in 1 .. 2 * h + 2, 2 * i - 1 <= 2 * h + 2 PROVE p[2 * i - 1].id = a + i
  <2>1. CASE i <= h
    <3>1. 2 * i - 1 \in 1 .. 2 * h /\ i \in 1 .. 2 * h /\ 2 * i - 1 <= 2 * h
      BY <2>1
    <3>2. q[2 * i - 1].id = a + i
      BY <3>1 DEF Straight
    <3> QED BY <1>1, <3>1, <3>2
  <2>2. CASE ~(i <= h)
    <3>1. i = h + 1 /\ 2 * i - 1 = 2 * h + 1
      BY <1>3, <2>2
    <3>2. a + i = a + h + 1
      BY <3>1
    <3> QED BY <1>2, <3>1, <3>2
  <2> QED BY <2>1, <2>2
<1> QED BY <1>1, <1>3 DEF Straight

\* It stays true when pieces are taken,
LEMMA TakenFlows ==
  ASSUME NEW P, AreParts(P), NEW t \in Connection(P), NEW u \in Connection(P), NEW k \in Nat, Flows(t, k), t.up,
         NEW r \in 0 .. Len(Way(t)), Taken(P, t, u, r)
  PROVE  Flows(u, k)
<1>1. PICK q \in Seq(P), p \in Seq(P) : q = Way(t) /\ p = Way(u)
  BY DEF Taken
<1>2. /\ r \in 0 .. Len(q) /\ IsRest(p, q, r) /\ DoneInOrder(u.ran, q, r, t.said)
      /\ Paired(q) => Follows(t.ran, u.ran, q, r)
      /\ u.said = t.said /\ u.up = t.up /\ u.eof = t.eof /\ u.cuts = t.cuts
  BY <1>1 DEF Taken
<1>3. t.ran \in Seq(Nat) /\ u.ran \in Seq(Nat) /\ t.said \in Nat
  BY DEF Connection, Items
<1>4. Onward(p) /\ DoneInOrder(u.ran, p, 0, u.said)
  <2>1. Onward(q)
    BY <1>1 DEF Flows
  <2> QED BY <1>2, <1>3, <2>1, RestInOrder
<1>5. k # 0
  <2>1. t # NewConnection
    BY DEF NewConnection
  <2> QED BY <2>1 DEF Flows
<1>6. ASSUME t.cuts = 0
      PROVE  /\ InPairs(u)
             /\ Once(t) => Once(u)
  <2>1. Paired(q) /\ Unsaid(t.ran) = {} /\ (~t.eof => \E h \in Nat : Len(q) = 2 * h)
    BY <1>1, <1>6 DEF Flows, InPairs
  <2>2. PICK h \in Nat :
          /\ r = 2 * h /\ Len(u.ran) = Len(t.ran) + h
          /\ Unsaid(t.ran) = {} => Unsaid(u.ran) = {}
          /\ Straight(q, Len(t.ran)) /\ t.ran = UpTo0(Len(t.ran)) => u.ran = UpTo0(Len(u.ran))
    BY <1>2, <2>1 DEF Follows
  <2>3. 2 * h <= Len(q) /\ IsRest(p, q, 2 * h) /\ Len(p) = Len(q) - 2 * h
    BY <1>2, <2>2 DEF IsRest
  <2>4. Paired(p)
    BY <2>1, <2>3, RestPaired
  <2>5. ASSUME ~u.eof PROVE \E i \in Nat : Len(p) = 2 * i
    <3>1. PICK i \in Nat : Len(q) = 2 * i
      BY <1>2, <2>1, <2>5
    <3>2. i - h \in Nat /\ Len(p) = 2 * (i - h)
      BY <2>3, <3>1
    <3> QED BY <3>2
  <2>6. InPairs(u)
    BY <1>1, <2>1, <2>2, <2>4, <2>5 DEF InPairs
  <2>7. ASSUME Once(t) PROVE Once(u)
    <3>1. /\ t.ran = UpTo0(Len(t.ran)) /\ Straight(q, Len(t.ran))
          /\ (~t.eof => Len(q) = 2 * (t.said - Len(t.ran)))
      BY <1>1, <2>7 DEF Once
    <3>2. PICK a \in Nat, b \in Nat : a = Len(t.ran) /\ b = Len(u.ran) /\ b = a + h
      <4>1. Len(t.ran) \in Nat /\ Len(u.ran) \in Nat
        BY <1>3
      <4> QED BY <2>2, <4>1
    <3>3. Straight(p, b)
      BY <2>3, <3>1, <3>2, RestStraight
    <3>4. u.ran = UpTo0(b)
      BY <2>2, <3>1, <3>2
    <3>5. ~u.eof => Len(p) = 2 * (u.said - b)
      <4>1. SUFFICES ASSUME ~u.eof PROVE Len(p) = 2 * (t.said - b)
        BY <1>2
      <4>2. Len(q) = 2 * (t.said - a)
        BY <1>2, <3>1, <3>2, <4>1
      <4>3. PICK said \in Nat, l \in Nat, c \in Nat : said = t.said /\ l = Len(q) /\ c = Len(p)
        <5>1. Len(q) \in Nat /\ Len(p) \in Nat
          OBVIOUS
        <5> QED BY <1>3, <5>1
      <4>4. l = 2 * (said - a) /\ c = l - 2 * h /\ b = a + h
        BY <2>3, <3>2, <4>2, <4>3
      <4>5. c = 2 * (said - b)
        <5>1. ASSUME NEW f \in Nat, NEW g \in Nat, NEW x \in Nat, NEW y \in Nat, NEW z \in Nat,
                     x = 2 * (f - y), g = x - 2 * z
              PROVE  g = 2 * (f - (y + z))
          BY <5>1
        <5> QED BY <4>4, <5>1
      <4> QED BY <4>3, <4>5
    <3> QED BY <1>1, <1>2, <1>6, <3>2, <3>3, <3>4, <3>5 DEF Once
  <2> QED BY <2>6, <2>7
<1>7. u.cuts = 0 => InPairs(u)
  BY <1>2, <1>6
<1>8. k = 1 => Once(u)
  <2>1. SUFFICES ASSUME k = 1 PROVE Once(u)
    OBVIOUS
  <2>2. Once(t)
    BY <2>1 DEF Flows
  <2>3. t.cuts = 0
    BY <2>2 DEF Once
  <2> QED BY <1>6, <2>2, <2>3
<1> QED BY <1>1, <1>2, <1>4, <1>5, <1>7, <1>8 DEF Flows

\* What nobody said stays rare when pieces are taken.
LEMMA TakenStrays ==
  ASSUME NEW P, AreParts(P), NEW t, NEW u, StraysFew(t), NEW r \in 0 .. Len(Way(t)), Taken(P, t, u, r),
         r # 0 => Way(t)[r].half = 2, t.cuts \in Nat, Strayed(t.ran, Way(t), 0, t.eof) \in Nat,
         Strayed(u.ran, Way(t), r, t.eof) \in Nat,
         Strayed(u.ran, Way(t), r, t.eof) <= Strayed(t.ran, Way(t), 0, t.eof)
  PROVE  StraysFew(u)
<1>1. PICK q \in Seq(P), p \in Seq(P) : q = Way(t) /\ p = Way(u)
  BY DEF Taken
<1>2. r \in 0 .. Len(q) /\ IsRest(p, q, r) /\ u.eof = t.eof /\ u.cuts = t.cuts
  BY <1>1 DEF Taken
<1>3. Owned(p) /\ Orphans(p, 0, t.eof) = Orphans(q, r, t.eof)
  <2>1. Owned(q) /\ (r # 0 => q[r].half = 2)
    BY <1>1 DEF StraysFew
  <2> QED BY <1>2, <2>1, RestOwned
<1>4. Strayed(u.ran, p, 0, u.eof) = Strayed(u.ran, q, r, t.eof)
  BY <1>2, <1>3 DEF Strayed
<1>5. Strayed(u.ran, q, r, t.eof) <= t.cuts
  BY <1>1 DEF StraysFew
<1> QED BY <1>1, <1>2, <1>3, <1>4, <1>5 DEF StraysFew

\* What a connection holds and brings, of what it held and brought.
LEMMA WayIs ==
  ASSUME NEW P, NEW t \in Connection(P)
  PROVE  /\ Way(t) \in Seq(P) /\ Len(Way(t)) = Len(t.buf) + Len(t.wire)
         /\ \A i \in 1 .. Len(t.buf) + Len(t.wire) :
              Way(t)[i] = IF i <= Len(t.buf) THEN t.buf[i] ELSE t.wire[i - Len(t.buf)]
<1>1. t.buf \in Seq(P) /\ t.wire \in Seq(P)
  BY DEF Connection
<1> QED BY <1>1, ConcatProperties DEF Way

\* When the end of what is on its way is lost, the start is left,
LEMMA WayStart ==
  ASSUME NEW P, NEW t \in Connection(P), NEW u \in Connection(P), u.buf = t.buf, IsStart(u.wire, t.wire)
  PROVE  IsStart(Way(u), Way(t))
<1>1. PICK held \in Seq(P), wire \in Seq(P), less \in Seq(P) : held = t.buf /\ wire = t.wire /\ less = u.wire
  BY DEF Connection
<1>2. PICK b \in Nat, w \in Nat, x \in Nat : b = Len(held) /\ w = Len(wire) /\ x = Len(less) /\ x <= w
  <2>1. Len(held) \in Nat /\ Len(wire) \in Nat /\ Len(less) \in Nat /\ Len(less) <= Len(wire)
    BY <1>1 DEF IsStart
  <2> QED BY <2>1
<1>3. /\ Len(Way(t)) = b + w
      /\ \A i \in 1 .. b + w : Way(t)[i] = IF i <= b THEN held[i] ELSE wire[i - b]
  BY <1>1, <1>2, WayIs
<1>4. /\ Len(Way(u)) = b + x
      /\ \A i \in 1 .. b + x : Way(u)[i] = IF i <= b THEN held[i] ELSE less[i - b]
  <2>1. Len(Way(u)) = Len(u.buf) + Len(u.wire)
    BY WayIs
  <2>2. \A i \in 1 .. Len(u.buf) + Len(u.wire) :
          Way(u)[i] = IF i <= Len(u.buf) THEN u.buf[i] ELSE u.wire[i - Len(u.buf)]
    BY WayIs
  <2>3. u.buf = held /\ u.wire = less
    BY <1>1
  <2> QED BY <1>2, <2>1, <2>2, <2>3
<1>5. \A i \in 1 .. x : less[i] = wire[i]
  BY <1>1, <1>2 DEF IsStart
<1>6. ASSUME NEW i \in 1 .. b + x PROVE Way(u)[i] = Way(t)[i]
  <2>1. i \in 1 .. b + w /\ (~(i <= b) => i - b \in 1 .. x)
    BY <1>2
  <2> QED BY <1>3, <1>4, <1>5, <2>1
<1>7. b + x <= b + w
  BY <1>2
<1> QED BY <1>3, <1>4, <1>6, <1>7 DEF IsStart

\* and what is said is added to its end.
LEMMA WayMore ==
  ASSUME NEW P, NEW t \in Connection(P), NEW u \in Connection(P), NEW new, u.buf = t.buf,
         IsMore(u.wire, t.wire, new)
  PROVE  IsMore(Way(u), Way(t), new)
<1>1. PICK held \in Seq(P), wire \in Seq(P), more \in Seq(P) : held = t.buf /\ wire = t.wire /\ more = u.wire
  BY DEF Connection
<1>2. PICK b \in Nat, w \in Nat, x \in Nat : b = Len(held) /\ w = Len(wire) /\ x = Len(more) /\ x = w + 2
  <2>1. Len(held) \in Nat /\ Len(wire) \in Nat /\ Len(more) \in Nat /\ Len(more) = Len(wire) + 2
    BY <1>1 DEF IsMore
  <2> QED BY <2>1
<1>3. /\ Len(Way(t)) = b + w
      /\ \A i \in 1 .. b + w : Way(t)[i] = IF i <= b THEN held[i] ELSE wire[i - b]
  BY <1>1, <1>2, WayIs
<1>4. /\ Len(Way(u)) = b + x
      /\ \A i \in 1 .. b + x : Way(u)[i] = IF i <= b THEN held[i] ELSE more[i - b]
  BY <1>1, <1>2, WayIs
<1>5. more[w + 1] = new[1] /\ more[w + 2] = new[2] /\ \A i \in 1 .. w : more[i] = wire[i]
  BY <1>1, <1>2 DEF IsMore, IsStart
<1>6. ASSUME NEW i \in 1 .. b + w PROVE Way(u)[i] = Way(t)[i]
  <2>1. i \in 1 .. b + x /\ (~(i <= b) => i - b \in 1 .. w)
    BY <1>2
  <2> QED BY <1>3, <1>4, <1>5, <2>1
<1>7. Way(u)[b + w + 1] = more[w + 1] /\ Way(u)[b + w + 2] = more[w + 2]
  <2>1. /\ b + w + 1 \in 1 .. b + x /\ b + w + 2 \in 1 .. b + x /\ ~(b + w + 1 <= b) /\ ~(b + w + 2 <= b)
        /\ b + w + 1 - b = w + 1 /\ b + w + 2 - b = w + 2
    BY <1>2
  <2> QED BY <1>4, <2>1
<1>8. Len(Way(u)) = Len(Way(t)) + 2 /\ Len(Way(t)) <= Len(Way(u))
  BY <1>2, <1>3, <1>4
<1>9. IsStart(Way(t), Way(u))
  BY <1>3, <1>6, <1>8 DEF IsStart
<1> QED BY <1>3, <1>5, <1>7, <1>8, <1>9 DEF IsMore

\* A connection that is given up holds what had been received.
IsCut(u, t) ==
  /\ u.said = t.said /\ u.ran = t.ran /\ u.buf = t.buf /\ u.wire = <<>> /\ u.eof = FALSE
  /\ u.cuts = IF t.buf = <<>> THEN t.cuts ELSE t.cuts + 1

\* AcceptSock and CloseSock give a connection up.
LEMMA CutIs ==
  ASSUME NEW P, NEW t \in Connection(P)
  PROVE  IsCut(AcceptSock(t), t) /\ AcceptSock(t).up /\ IsCut(CloseSock(t), t) /\ ~CloseSock(t).up
<1>1. PICK n : n = IF t.buf = <<>> THEN t.cuts ELSE t.cuts + 1
  OBVIOUS
<1>2. CutOff(t) = [t EXCEPT !.cuts = n, !.wire = <<>>, !.eof = FALSE]
  BY <1>1 DEF CutOff
<1>3. /\ CutOff(t).said = t.said /\ CutOff(t).ran = t.ran /\ CutOff(t).buf = t.buf
      /\ CutOff(t).wire = <<>> /\ CutOff(t).eof = FALSE /\ CutOff(t).cuts = n
      /\ DOMAIN CutOff(t) = DOMAIN t
  BY <1>2 DEF Connection
<1>4. PICK u : u = CutOff(t)
  OBVIOUS
<1>5. DOMAIN u = {"up", "said", "wire", "eof", "buf", "cuts", "ran"}
  BY <1>3, <1>4 DEF Connection
<1>6. AcceptSock(t) = [u EXCEPT !.up = TRUE] /\ CloseSock(t) = [u EXCEPT !.up = FALSE]
  BY <1>4 DEF AcceptSock, CloseSock
<1> QED BY <1>1, <1>3, <1>4, <1>5, <1>6 DEF IsCut

\* The order is kept,
LEMMA CutFlows ==
  ASSUME NEW P, AreParts(P), NEW t \in Connection(P), NEW u \in Connection(P), NEW k \in Nat, NEW i \in Nat,
         Flows(t, k), IsCut(u, t), i # 0, k = 0 \/ i = k + 1 \/ (i = k /\ ~u.up)
  PROVE  Flows(u, i)
<1>1. PICK q \in Seq(P), p \in Seq(P) : q = Way(t) /\ p = Way(u)
  BY WayIs
<1>2. t.buf \in Seq(P) /\ t.wire \in Seq(P) /\ t.cuts \in Nat /\ t.said \in Nat /\ t.ran \in Seq(Nat)
  BY DEF Connection, Items
<1>3. /\ u.said = t.said /\ u.ran = t.ran /\ u.buf = t.buf /\ u.wire = <<>> /\ u.eof = FALSE
      /\ u.cuts = IF t.buf = <<>> THEN t.cuts ELSE t.cuts + 1
  BY DEF IsCut
<1>4. p = t.buf
  BY <1>1, <1>2, <1>3 DEF Way
<1>5. IsStart(p, q)
  <2>1. IsStart(u.wire, t.wire)
    BY <1>2, <1>3 DEF IsStart
  <2> QED BY <1>1, <1>3, <2>1, WayStart
<1>6. Onward(p) /\ DoneInOrder(u.ran, p, 0, u.said)
  <2>1. Onward(q) /\ DoneInOrder(u.ran, q, 0, u.said)
    BY <1>1, <1>3 DEF Flows
  <2> QED BY <1>5, <2>1, StartStays
<1>7. ASSUME u.cuts = 0 PROVE InPairs(u) /\ Len(p) = 0 /\ t.cuts = 0
  <2>1. t.buf = <<>> /\ t.cuts = 0
    BY <1>2, <1>3, <1>7
  <2>2. Len(p) = 0 /\ Len(p) = 2 * 0 /\ 0 \in Nat
    BY <1>4, <2>1
  <2>3. Paired(p)
    BY <2>2 DEF Paired
  <2>4. Unsaid(t.ran) = {}
    BY <2>1 DEF Flows, InPairs
  <2> QED BY <1>1, <1>3, <2>1, <2>2, <2>3, <2>4 DEF InPairs
<1>8. i = 1 => Once(u)
  <2>1. CASE k = 0
    <3>1. t = NewConnection
      BY <2>1 DEF Flows
    <3>2. t.ran = <<>> /\ t.buf = <<>> /\ t.cuts = 0 /\ t.said = 0
      BY <3>1 DEF NewConnection
    <3>3. u.cuts = 0 /\ Len(u.ran) = 0 /\ u.said = 0
      BY <1>3, <3>2
    <3>4. u.ran = UpTo0(0)
      <4>1. <<>> = [j \in 1 .. 0 |-> j]
        OBVIOUS
      <4> QED BY <1>3, <3>2, <4>1 DEF UpTo0
    <3>5. Len(p) = 0 /\ Straight(p, 0) /\ Len(p) = 2 * (0 - 0)
      <4>1. Len(p) = 0
        BY <1>7, <3>3
      <4> QED BY <4>1 DEF Straight
    <3> QED BY <1>1, <3>3, <3>4, <3>5 DEF Once
  <2>2. CASE k # 0 /\ i = 1
    <3>1. k = 1 /\ ~u.up
      BY <2>2
    <3>2. t.ran = UpTo0(Len(t.ran))
      BY <3>1 DEF Flows, Once
    <3> QED BY <1>3, <3>1, <3>2 DEF Once
  <2> QED BY <2>1, <2>2
<1> QED BY <1>1, <1>3, <1>6, <1>7, <1>8 DEF Flows

\* and one beginning more at most is left without its end.
LEMMA CutStrays ==
  ASSUME NEW P, AreParts(P), NEW t \in Connection(P), NEW u \in Connection(P), StraysFew(t), IsCut(u, t),
         DoneInOrder(t.ran, Way(t), 0, t.said)
  PROVE  StraysFew(u)
<1>1. PICK q \in Seq(P), p \in Seq(P) : q = Way(t) /\ p = Way(u)
  BY WayIs
<1>2. t.buf \in Seq(P) /\ t.wire \in Seq(P) /\ t.cuts \in Nat /\ t.said \in Nat /\ t.ran \in Seq(Nat)
  BY DEF Connection, Items
<1>3. /\ u.said = t.said /\ u.ran = t.ran /\ u.buf = t.buf /\ u.wire = <<>> /\ u.eof = FALSE
      /\ u.cuts = IF t.buf = <<>> THEN t.cuts ELSE t.cuts + 1
  BY DEF IsCut
<1>4. p = t.buf
  BY <1>1, <1>2, <1>3 DEF Way
<1>5. IsStart(p, q)
  <2>1. IsStart(u.wire, t.wire)
    BY <1>2, <1>3 DEF IsStart
  <2> QED BY <1>1, <1>3, <2>1, WayStart
<1>6. Owned(p)
  BY <1>1, <1>5, StartStays DEF StraysFew
<1>7. PICK before, after, x : before = Orphans(q, 0, t.eof) /\ after = Orphans(p, 0, FALSE) /\ x = p[Len(p)].id
  OBVIOUS
<1>8. IsFiniteSet(before) /\ Cardinality(before) \in Nat
  <2>1. 0 \in Nat
    OBVIOUS
  <2> QED BY <1>1, <1>2, <1>7, <2>1, OrphansAre
<1>9. after \subseteq before \cup {x}
  BY <1>5, <1>7, StartOrphans
<1>10. PICK s \in Nat : s = Cardinality(Unsaid(t.ran))
  <2>1. 0 \in Nat
    OBVIOUS
  <2> QED BY <1>2, <2>1, UnsaidIs
<1>11. s + Cardinality(before) <= t.cuts
  BY <1>1, <1>7, <1>10 DEF StraysFew, Strayed
<1>12. CASE t.buf = <<>>
  <2>1. Len(p) = 0
    BY <1>4, <1>12
  <2>2. after \in SUBSET before
    BY <1>7, <2>1 DEF Orphans
  <2>3. Cardinality(after) <= Cardinality(before) /\ Cardinality(after) \in Nat
    BY <1>8, <2>2, FS_Subset, FS_CardinalityType
  <2>4. s + Cardinality(after) <= u.cuts
    BY <1>2, <1>3, <1>8, <1>11, <1>12, <2>3
  <2> QED BY <1>1, <1>3, <1>6, <1>7, <1>10, <2>4 DEF StraysFew, Strayed
<1>13. CASE t.buf # <<>>
  <2>1. IsFiniteSet(before \cup {x}) /\ Cardinality(before \cup {x}) <= Cardinality(before) + 1
        /\ Cardinality(before \cup {x}) \in Nat
    <3>1. /\ IsFiniteSet(before \cup {x})
          /\ Cardinality(before \cup {x}) = IF x \in before THEN Cardinality(before) ELSE Cardinality(before) + 1
      BY <1>8, FS_AddElement
    <3> QED BY <1>8, <3>1
  <2>2. Cardinality(after) <= Cardinality(before \cup {x}) /\ Cardinality(after) \in Nat
    <3>1. after \in SUBSET (before \cup {x})
      BY <1>9
    <3> QED BY <2>1, <3>1, FS_Subset, FS_CardinalityType
  <2>3. s + Cardinality(after) <= u.cuts
    BY <1>2, <1>3, <1>8, <1>11, <1>13, <2>1, <2>2
  <2> QED BY <1>1, <1>3, <1>6, <1>7, <1>10, <2>3 DEF StraysFew, Strayed
<1> QED BY <1>12, <1>13

\* The host says more: the order is kept.
LEMMA SaidFlows ==
  ASSUME NEW P, AreParts(P), NEW t \in Connection(P), NEW u \in Connection(P), NEW k \in Nat, Flows(t, k),
         t.up, ~t.eof, u.up = t.up, u.eof = t.eof, u.cuts = t.cuts, u.ran = t.ran, u.said = t.said + 1,
         NEW new, IsMore(Way(u), Way(t), new), Twins(new[1], new[2]), new[1].id = t.said + 1
  PROVE  Flows(u, k)
<1>1. PICK q \in Seq(P), p \in Seq(P) : q = Way(t) /\ p = Way(u)
  BY WayIs
<1>2. t.said \in Nat /\ t.ran \in Seq(Nat) /\ IsMore(p, q, new)
  BY <1>1 DEF Connection, Items
<1>3. Onward(p) /\ DoneInOrder(u.ran, p, 0, u.said)
  <2>1. Onward(q) /\ DoneInOrder(t.ran, q, 0, t.said)
    BY <1>1 DEF Flows
  <2> QED BY <1>2, <2>1, MoreInOrder
<1>4. k # 0
  <2>1. t # NewConnection
    BY DEF NewConnection
  <2> QED BY <2>1 DEF Flows
<1>5. ASSUME t.cuts = 0 PROVE InPairs(u) /\ (Once(t) => Once(u))
  <2>1. Paired(q) /\ Unsaid(t.ran) = {} /\ \E h \in Nat : Len(q) = 2 * h
    BY <1>1, <1>5 DEF Flows, InPairs
  <2>2. PICK h \in Nat : Len(q) = 2 * h
    BY <2>1
  <2>3. Len(p) = 2 * (h + 1) /\ h + 1 \in Nat
    BY <1>2, <2>2 DEF IsMore
  <2>4. Paired(p)
    BY <1>2, <2>1, <2>2, MoreOwned
  <2>5. InPairs(u)
    BY <1>1, <2>1, <2>3, <2>4 DEF InPairs
  <2>6. ASSUME Once(t) PROVE Once(u)
    <3>1. PICK a \in Nat, d \in Nat : a = Len(t.ran) /\ d = t.said
      <4>1. t.ran \in Seq(Nat) /\ t.said \in Nat
        BY <1>2
      <4>2. Len(t.ran) \in Nat
        BY <4>1
      <4> QED BY <4>1, <4>2
    <3>2. t.ran = UpTo0(a) /\ Straight(q, a) /\ Len(q) = 2 * (d - a)
      BY <1>1, <2>6, <3>1 DEF Once
    <3>3. new[1].id = a + h + 1 /\ Len(p) = 2 * (d + 1 - a)
      <4>1. 2 * h = 2 * (d - a)
        BY <2>2, <3>2
      <4>2. d = a + h
        BY <4>1
      <4>3. new[1].id = a + h + 1
        BY <3>1, <4>2
      <4>4. 2 * (h + 1) = 2 * (d + 1 - a)
        BY <4>2
      <4> QED BY <2>3, <4>3, <4>4
    <3>4. Straight(p, a)
      BY <1>2, <2>2, <3>2, <3>3, MoreStraight
    <3>5. u.said = d + 1 /\ u.ran = UpTo0(Len(u.ran)) /\ Len(u.ran) = a /\ u.cuts = 0
      BY <1>5, <3>1, <3>2
    <3>6. Straight(Way(u), Len(u.ran))
      BY <1>1, <3>4, <3>5
    <3>7. Len(Way(u)) = 2 * (u.said - Len(u.ran))
      <4>1. Len(Way(u)) = 2 * (d + 1 - a)
        BY <1>1, <3>3
      <4>2. PICK e, f : e = u.said /\ f = Len(u.ran)
        OBVIOUS
      <4>3. e = d + 1 /\ f = a
        BY <3>5, <4>2
      <4> QED BY <4>1, <4>2, <4>3
    <3> QED BY <3>5, <3>6, <3>7 DEF Once
  <2> QED BY <2>5, <2>6
<1>6. k = 1 => Once(u)
  <2>1. SUFFICES ASSUME k = 1 PROVE Once(u)
    OBVIOUS
  <2>2. Once(t)
    BY <2>1 DEF Flows
  <2>3. t.cuts = 0
    BY <2>2 DEF Once
  <2> QED BY <1>5, <2>2, <2>3
<1> QED BY <1>1, <1>3, <1>4, <1>5, <1>6 DEF Flows

\* That adds no beginning that is not ended,
LEMMA SaidStrays ==
  ASSUME NEW P, AreParts(P), NEW t \in Connection(P), NEW u \in Connection(P), StraysFew(t),
         DoneInOrder(t.ran, Way(t), 0, t.said), t.eof = FALSE,
         u.eof = t.eof, u.cuts = t.cuts, u.ran = t.ran,
         NEW new, IsMore(Way(u), Way(t), new), Twins(new[1], new[2])
  PROVE  StraysFew(u)
<1>1. PICK q \in Seq(P), p \in Seq(P) : q = Way(t) /\ p = Way(u)
  BY WayIs
<1>2. t.said \in Nat /\ t.ran \in Seq(Nat) /\ t.cuts \in Nat /\ 0 \in Nat /\ IsMore(p, q, new)
  BY <1>1 DEF Connection, Items
<1>3. Owned(p) /\ Orphans(p, 0, FALSE) \in SUBSET Orphans(q, 0, FALSE)
  <2>1. Owned(q)
    BY <1>1 DEF StraysFew
  <2> QED BY <1>2, <2>1, MoreOwned
<1>4. PICK a \in Nat, b \in Nat, s \in Nat :
        /\ a = Cardinality(Orphans(q, 0, FALSE)) /\ b = Cardinality(Orphans(p, 0, FALSE)) /\ b <= a
        /\ s = Cardinality(Unsaid(t.ran))
  <2>1. IsFiniteSet(Orphans(q, 0, FALSE)) /\ Cardinality(Orphans(q, 0, FALSE)) \in Nat
    BY <1>1, <1>2, OrphansAre
  <2>2. /\ Cardinality(Orphans(p, 0, FALSE)) <= Cardinality(Orphans(q, 0, FALSE))
        /\ Cardinality(Orphans(p, 0, FALSE)) \in Nat
    BY <1>3, <2>1, FS_Subset, FS_CardinalityType
  <2>3. Cardinality(Unsaid(t.ran)) \in Nat
    BY <1>2, UnsaidIs
  <2> QED BY <2>1, <2>2, <2>3
<1>5. s + a <= t.cuts
  BY <1>1, <1>4 DEF StraysFew, Strayed
<1>6. s + b <= t.cuts
  <2>1. b <= a
    BY <1>4
  <2>2. PICK d \in Nat : d = t.cuts
    BY <1>2
  <2>3. s + a <= d
    BY <1>5, <2>2
  <2>4. s + b <= d
    BY <2>1, <2>3
  <2> QED BY <2>2, <2>4
<1> QED BY <1>1, <1>3, <1>4, <1>6 DEF StraysFew, Strayed

\* The host closes its end: some of what is on its way may be lost.
LEMMA ClosedFlows ==
  ASSUME NEW P, NEW t \in Connection(P), NEW u \in Connection(P), NEW k \in Nat, Flows(t, k), t.up,
         u.up = t.up, u.eof = TRUE, u.cuts = t.cuts, u.ran = t.ran, u.said = t.said, IsStart(Way(u), Way(t))
  PROVE  Flows(u, k)
<1>1. PICK q \in Seq(P), p \in Seq(P) : q = Way(t) /\ p = Way(u)
  BY WayIs
<1>2. IsStart(p, q)
  BY <1>1
<1>3. Onward(p) /\ DoneInOrder(u.ran, p, 0, u.said)
  <2>1. Onward(q) /\ DoneInOrder(t.ran, q, 0, t.said)
    BY <1>1 DEF Flows
  <2> QED BY <1>2, <2>1, StartStays
<1>4. k # 0
  <2>1. t # NewConnection
    BY DEF NewConnection
  <2> QED BY <2>1 DEF Flows
<1>5. u.cuts = 0 => InPairs(u)
  <2>1. SUFFICES ASSUME u.cuts = 0 PROVE InPairs(u)
    OBVIOUS
  <2>2. Paired(q) /\ Unsaid(t.ran) = {}
    BY <1>1, <2>1 DEF Flows, InPairs
  <2>3. Paired(p)
    BY <1>2, <2>2, StartStays
  <2> QED BY <1>1, <2>2, <2>3 DEF InPairs
<1>6. k = 1 => Once(u)
  <2>1. SUFFICES ASSUME k = 1 PROVE Once(u)
    OBVIOUS
  <2>2. t.ran = UpTo0(Len(t.ran)) /\ t.cuts = 0 /\ Straight(q, Len(t.ran))
    BY <1>1, <2>1 DEF Flows, Once
  <2>3. Straight(p, Len(t.ran))
    BY <1>2, <2>2, StartStraight
  <2> QED BY <1>1, <2>2, <2>3 DEF Once
<1> QED BY <1>1, <1>3, <1>4, <1>5, <1>6 DEF Flows

\* and when it closes, the one that may lose its end is counted already.
LEMMA ClosedStrays ==
  ASSUME NEW P, AreParts(P), NEW t \in Connection(P), NEW u \in Connection(P), StraysFew(t),
         DoneInOrder(t.ran, Way(t), 0, t.said), u.eof = TRUE, u.cuts = t.cuts, u.ran = t.ran,
         IsStart(Way(u), Way(t))
  PROVE  StraysFew(u)
<1>1. PICK q \in Seq(P), p \in Seq(P) : q = Way(t) /\ p = Way(u)
  BY WayIs
<1>2. t.said \in Nat /\ t.ran \in Seq(Nat) /\ t.cuts \in Nat /\ 0 \in Nat /\ IsStart(p, q)
  BY <1>1 DEF Connection, Items
<1>3. PICK before : before = Orphans(q, 0, t.eof)
  OBVIOUS
<1>4. Owned(p) /\ Orphans(p, 0, TRUE) \in SUBSET before
  <2>1. Owned(q)
    BY <1>1 DEF StraysFew
  <2> QED BY <1>2, <1>3, <2>1, StartStays, StartOrphans
<1>5. PICK a \in Nat, b \in Nat, s \in Nat :
        /\ a = Cardinality(before) /\ b = Cardinality(Orphans(p, 0, TRUE)) /\ b <= a
        /\ s = Cardinality(Unsaid(t.ran))
  <2>1. IsFiniteSet(before) /\ Cardinality(before) \in Nat
    BY <1>1, <1>2, <1>3, OrphansAre
  <2>2. Cardinality(Orphans(p, 0, TRUE)) <= Cardinality(before) /\ Cardinality(Orphans(p, 0, TRUE)) \in Nat
    BY <1>4, <2>1, FS_Subset, FS_CardinalityType
  <2>3. Cardinality(Unsaid(t.ran)) \in Nat
    BY <1>2, UnsaidIs
  <2> QED BY <2>1, <2>2, <2>3
<1>6. s + a <= t.cuts
  BY <1>1, <1>3, <1>5 DEF StraysFew, Strayed
<1>7. s + b <= t.cuts
  <2>1. b <= a
    BY <1>5
  <2>2. PICK d \in Nat : d = t.cuts
    BY <1>2
  <2>3. s + a <= d
    BY <1>6, <2>2
  <2>4. s + b <= d
    BY <2>1, <2>3
  <2> QED BY <2>2, <2>4
<1> QED BY <1>1, <1>4, <1>5, <1>7 DEF StraysFew, Strayed

-----------------------------------------------------------------------------
(* The steps.                                                              *)

\* The invariant: what is true of each connection that carries commands or data.
BoundsTyped == DOMAIN bounds = {"events", "losses", "early", "connects"} /\ bounds.connects \in [Ports -> Nat]
RanInv ==
  /\ BoundsTyped /\ (\A c \in Channels : Flows(conn[c], bounds.connects[c]))
  /\ StraysFew(conn.control)

\* What a host says over TCP is pieces.
LEMMA PortsParts ==
  ASSUME NEW c
  PROVE  AreParts(PortPieces(c))
BY DEF PortPieces, AreParts

\* One connection changes.
LEMMA PortFlows ==
  ASSUME RanInv, ConnTyped, NEW c \in Ports, NEW u, conn' = [conn EXCEPT ![c] = u], BoundsTyped',
         \A d \in Ports : d # c => bounds'.connects[d] = bounds.connects[d],
         c \in Channels => Flows(u, bounds'.connects[c]), c = "control" => StraysFew(u)
  PROVE  RanInv'
<1>1. conn'[c] = u /\ \A d \in Ports : d # c => conn'[d] = conn[d]
  BY DEF ConnTyped
<1>2. "control" \in Ports /\ Channels \subseteq Ports
  BY DEF Ports, Channels
<1>3. ASSUME NEW d \in Channels PROVE Flows(conn'[d], bounds'.connects[d])
  <2>1. d \in Ports
    BY <1>2
  <2>2. CASE d = c
    BY <1>1, <2>2
  <2>3. CASE d # c
    BY <1>1, <2>1, <2>3 DEF RanInv
  <2> QED BY <2>2, <2>3
<1>4. StraysFew(conn'.control)
  <2>1. CASE c = "control"
    BY <1>1, <2>1
  <2>2. CASE c # "control"
    BY <1>1, <1>2, <2>2 DEF RanInv
  <2> QED BY <2>1, <2>2
<1> QED BY <1>3, <1>4 DEF RanInv

\* Nothing is connected, and no connection that carries commands or data changes.
LEMMA NothingFlows ==
  ASSUME RanInv, conn' = conn,
         \/ bounds' = bounds
         \/ \E what \in {"events", "losses", "early"} : bounds' = [bounds EXCEPT ![what] = @ + 1]
  PROVE  RanInv'
<1>1. DOMAIN bounds' = DOMAIN bounds /\ bounds'.connects = bounds.connects
  BY DEF RanInv, BoundsTyped
<1> QED BY <1>1 DEF RanInv, BoundsTyped

\* The steps that leave the connections as they are keep it,
LEMMA AloneFlows ==
  ASSUME RanInv, SerialStep \/ AirStep \/ UNCHANGED vars
  PROVE  RanInv'
<1>1. ASSUME NEW what, Spend(what) PROVE bounds' = [bounds EXCEPT ![what] = bounds[what] + 1]
  BY <1>1 DEF Spend
<1>2. CASE SerialStep
  <2>1. conn' = conn
    BY <1>2 DEF SerialStep, SayText, Ask, Repeat, HostRead, Lose, SerialHostPoll, Connected
  <2>2. bounds' = bounds \/ Spend("early") \/ Spend("losses")
    BY <1>2 DEF SerialStep, SayText, Ask, Repeat, HostRead, Lose, SerialHostPoll, Connected
  <2> QED BY <1>1, <2>1, <2>2, NothingFlows
<1>3. CASE AirStep
  <2>1. conn' = conn
    BY <1>3 DEF AirStep, StartPackets, PacketSent, SendPackets, GuiAsks, Radio, CheckTimers, Played, CheckFrom
  <2>2. bounds' = bounds \/ Spend("events")
    BY <1>3 DEF AirStep, StartPackets, PacketSent, SendPackets, GuiAsks, Radio, CheckTimers, Played, CheckFrom
  <2> QED BY <1>1, <2>1, <2>2, NothingFlows
<1>4. CASE UNCHANGED vars
  BY <1>4, NothingFlows DEF vars
<1> QED BY <1>2, <1>3, <1>4

\* and so do the making of a connection,
LEMMA ConnectFlows ==
  ASSUME HostInv, RanInv, NEW c \in Ports, Connect(c)
  PROVE  RanInv'
<1>1. ConnTyped /\ BoundsTyped
  BY DEF HostInv, RanInv
<1>2. PICK P : P = PortPieces(c)
  OBVIOUS
<1>3. PICK t \in Connection(P), u \in Connection(P) : t = conn[c] /\ u = AcceptSock(t)
  <2>1. conn[c] \in Connection(P)
    BY <1>1, <1>2 DEF ConnTyped
  <2> QED BY <2>1, CutsStay
<1>4. PICK k \in Nat : k = bounds.connects[c]
  BY <1>1 DEF BoundsTyped
<1>5. conn' = [conn EXCEPT ![c] = u]
  BY <1>3 DEF Connect
<1>6. /\ DOMAIN bounds' = DOMAIN bounds /\ bounds'.connects = [bounds.connects EXCEPT ![c] = k + 1]
  <2>1. bounds' = [bounds EXCEPT !.connects[c] = k + 1]
    BY <1>4 DEF Connect
  <2> QED BY <1>1, <2>1 DEF BoundsTyped
<1>7. /\ BoundsTyped' /\ bounds'.connects[c] = k + 1
      /\ \A d \in Ports : d # c => bounds'.connects[d] = bounds.connects[d]
  BY <1>1, <1>6 DEF BoundsTyped
<1>8. AreParts(P) /\ IsCut(u, t)
  BY <1>2, <1>3, PortsParts, CutIs
<1>9. c \in Channels => Flows(u, k + 1)
  <2>1. SUFFICES ASSUME c \in Channels PROVE Flows(u, k + 1)
    OBVIOUS
  <2>2. Flows(t, k)
    BY <1>3, <1>4, <2>1 DEF RanInv
  <2>3. k + 1 \in Nat /\ k + 1 # 0
    OBVIOUS
  <2> QED BY <1>8, <2>2, <2>3, CutFlows
<1>10. c = "control" => StraysFew(u)
  <2>1. SUFFICES ASSUME c = "control" PROVE StraysFew(u)
    OBVIOUS
  <2>2. StraysFew(t) /\ DoneInOrder(t.ran, Way(t), 0, t.said)
    BY <1>3, <2>1 DEF RanInv, Channels, Flows
  <2> QED BY <1>8, <2>2, CutStrays
<1> QED BY <1>1, <1>5, <1>7, <1>9, <1>10, PortFlows

\* and its end,
LEMMA EndFlows ==
  ASSUME HostInv, RanInv, NEW c \in Ports, RecvEnd(c)
  PROVE  RanInv'
<1>1. ConnTyped /\ BoundsTyped
  BY DEF HostInv, RanInv
<1>2. PICK P : P = PortPieces(c)
  OBVIOUS
<1>3. PICK t \in Connection(P), u \in Connection(P) : t = conn[c] /\ u = CloseSock(t)
  <2>1. conn[c] \in Connection(P)
    BY <1>1, <1>2 DEF ConnTyped
  <2> QED BY <2>1, CutsStay
<1>4. PICK k \in Nat : k = bounds.connects[c]
  BY <1>1 DEF BoundsTyped
<1>5. conn' = [conn EXCEPT ![c] = u] /\ bounds' = bounds /\ t.up
  BY <1>3 DEF RecvEnd
<1>6. BoundsTyped' /\ \A d \in Ports : bounds'.connects[d] = bounds.connects[d]
  BY <1>1, <1>5 DEF BoundsTyped
<1>7. AreParts(P) /\ IsCut(u, t) /\ ~u.up
  BY <1>2, <1>3, PortsParts, CutIs
<1>8. c \in Channels => Flows(u, k)
  <2>1. SUFFICES ASSUME c \in Channels PROVE Flows(u, k)
    OBVIOUS
  <2>2. Flows(t, k)
    BY <1>3, <1>4, <2>1 DEF RanInv
  <2>3. k # 0
    <3>1. t # NewConnection
      BY <1>5 DEF NewConnection
    <3> QED BY <2>2, <3>1 DEF Flows
  <2> QED BY <1>7, <2>2, <2>3, CutFlows
<1>9. c = "control" => StraysFew(u)
  <2>1. SUFFICES ASSUME c = "control" PROVE StraysFew(u)
    OBVIOUS
  <2>2. StraysFew(t) /\ DoneInOrder(t.ran, Way(t), 0, t.said)
    BY <1>3, <2>1 DEF RanInv, Channels, Flows
  <2> QED BY <1>7, <2>2, CutStrays
<1> QED BY <1>1, <1>4, <1>5, <1>6, <1>8, <1>9, PortFlows

\* What the host says next is a pair.
LEMMA PartsAre ==
  ASSUME NEW P, NEW wire \in Seq(P), NEW id, NEW what, Parts(id, what) \in Seq(P)
  PROVE  /\ IsMore(wire \o Parts(id, what), wire, Parts(id, what))
         /\ Twins(Parts(id, what)[1], Parts(id, what)[2]) /\ Parts(id, what)[1].id = id
<1>1. PICK new \in Seq(P) : new = Parts(id, what)
  OBVIOUS
<1>2. Len(new) = 2 /\ new[1] = [id |-> id, half |-> 1, what |-> what] /\ new[2] = [id |-> id, half |-> 2, what |-> what]
  BY <1>1 DEF Parts
<1>3. PICK w \in Nat, more \in Seq(P) : w = Len(wire) /\ more = wire \o new
  <2>1. Len(wire) \in Nat /\ wire \o new \in Seq(P)
    OBVIOUS
  <2> QED BY <2>1
<1>4. Len(more) = w + 2 /\ \A i \in 1 .. w + 2 : more[i] = IF i <= w THEN wire[i] ELSE new[i - w]
  <2>1. Len(new) = 2
    BY <1>2
  <2>2. Len(wire \o new) = Len(wire) + Len(new)
    BY ConcatProperties
  <2>3. \A i \in 1 .. Len(wire) + Len(new) :
          (wire \o new)[i] = IF i <= Len(wire) THEN wire[i] ELSE new[i - Len(wire)]
    BY ConcatProperties
  <2> QED BY <1>3, <2>1, <2>2, <2>3
<1>5. more[w + 1] = new[1] /\ more[w + 2] = new[2] /\ \A i \in 1 .. w : more[i] = wire[i]
  <2>1. /\ w + 1 \in 1 .. w + 2 /\ w + 2 \in 1 .. w + 2 /\ ~(w + 1 <= w) /\ ~(w + 2 <= w)
        /\ w + 1 - w = 1 /\ w + 2 - w = 2 /\ \A i \in 1 .. w : i \in 1 .. w + 2 /\ i <= w
    OBVIOUS
  <2> QED BY <1>4, <2>1
<1>6. IsMore(more, wire, new)
  <2>1. w <= w + 2
    OBVIOUS
  <2> QED BY <1>3, <1>4, <1>5, <2>1 DEF IsMore, IsStart
<1>7. IsMore(wire \o new, wire, new)
  BY <1>3, <1>6
<1> QED BY <1>1, <1>2, <1>7 DEF Twins

\* The invariant is kept when the host says more,
LEMMA SendFlows ==
  ASSUME HostInv, RanInv, ConnTyped', NEW c \in Ports, HostSend(c)
  PROVE  RanInv'
<1>1. ConnTyped /\ BoundsTyped /\ ScriptTyped
  BY DEF HostInv, RanInv, LinkInv, Astray
<1>2. mode = "tcp" /\ UNCHANGED <<mode, script>> /\ bounds' = bounds
  BY DEF HostSend
<1>3. PICK P : P = PortPieces(c) /\ AreParts(P)
  BY PortsParts
<1>4. PICK t \in Connection(P) : t = conn[c] /\ t.up /\ ~t.eof /\ t.said < Len(script[c])
  BY <1>1, <1>3 DEF ConnTyped, HostSend
<1>5. PICK n \in Nat : n = t.said + 1
  BY DEF Connection
<1>6. PICK what : what = script[c][n]
  OBVIOUS
<1>7. PICK new : new = Parts(n, what)
  OBVIOUS
<1>8. conn' = [conn EXCEPT ![c].said = t.said + 1, ![c].wire = @ \o new]
  BY <1>4, <1>5, <1>6, <1>7 DEF HostSend
<1>9. PICK wire : wire = t.wire \o new
  OBVIOUS
<1>10. PICK u : u = [t EXCEPT !.said = n, !.wire = wire]
  OBVIOUS
<1>11. conn' = [conn EXCEPT ![c] = u]
  BY <1>1, <1>4, <1>5, <1>8, <1>9, <1>10 DEF ConnTyped, Connection
<1>12. u \in Connection(P)
  <2>1. conn'[c] = u
    BY <1>1, <1>11 DEF ConnTyped
  <2>2. PortPieces(c)' = PortPieces(c)
    BY <1>2 DEF PortPieces
  <2> QED BY <1>3, <2>1, <2>2 DEF ConnTyped
<1>13. /\ u.up = t.up /\ u.eof = t.eof /\ u.cuts = t.cuts /\ u.ran = t.ran /\ u.said = n /\ u.buf = t.buf
       /\ u.wire = wire
  BY <1>10 DEF Connection
<1>14. new \in Seq(P)
  <2>1. what \in Range(script[c])
    <3>1. script[c] \in Seq(Range(script[c]))
      BY <1>1, <1>2, HostAssumption DEF ScriptTyped, Ports, Channels
    <3>2. n \in DOMAIN script[c]
      BY <1>4, <1>5, <3>1 DEF Connection
    <3> QED BY <1>6, <3>2 DEF Range
  <2>2. \A half \in 1 .. 2 : [id |-> n, half |-> half, what |-> what] \in P
    BY <1>2, <1>3, <2>1 DEF PortPieces
  <2>3. PICK two \in Nat : two = 2
    OBVIOUS
  <2>4. Parts(n, what) \in [1 .. two -> P]
    BY <2>2, <2>3 DEF Parts
  <2>5. Parts(n, what) \in Seq(P)
    BY <2>4
  <2> QED BY <1>7, <2>5
<1>15. IsMore(wire, t.wire, new) /\ Twins(new[1], new[2]) /\ new[1].id = n
  <2>1. t.wire \in Seq(P)
    BY DEF Connection
  <2> QED BY <1>7, <1>9, <1>14, <2>1, PartsAre
<1>16. IsMore(Way(u), Way(t), new)
  BY <1>12, <1>13, <1>15, WayMore
<1>17. PICK k \in Nat : k = bounds.connects[c]
  BY <1>1 DEF BoundsTyped
<1>18. c \in Channels => Flows(u, k)
  <2>1. SUFFICES ASSUME c \in Channels PROVE Flows(u, k)
    OBVIOUS
  <2>2. Flows(t, k)
    BY <1>4, <1>17, <2>1 DEF RanInv
  <2> QED BY <1>3, <1>4, <1>5, <1>12, <1>13, <1>15, <1>16, <2>2, SaidFlows
<1>19. c = "control" => StraysFew(u)
  <2>1. SUFFICES ASSUME c = "control" PROVE StraysFew(u)
    OBVIOUS
  <2>2. StraysFew(t) /\ DoneInOrder(t.ran, Way(t), 0, t.said)
    BY <1>4, <2>1 DEF RanInv, Channels, Flows
  <2>3. t.eof = FALSE
    BY <1>4 DEF Connection, Truth
  <2> QED BY <1>3, <1>12, <1>13, <1>15, <1>16, <2>2, <2>3, SaidStrays
<1>20. BoundsTyped' /\ \A d \in Ports : bounds'.connects[d] = bounds.connects[d]
  BY <1>1, <1>2 DEF BoundsTyped
<1> QED BY <1>1, <1>2, <1>11, <1>17, <1>18, <1>19, <1>20, PortFlows

\* when it closes its end,
LEMMA ClosesFlows ==
  ASSUME HostInv, RanInv, ConnTyped', NEW c \in Ports, HostCloses(c)
  PROVE  RanInv'
<1>1. ConnTyped /\ BoundsTyped
  BY DEF HostInv, RanInv
<1>2. UNCHANGED <<mode, script>> /\ bounds' = bounds
  BY DEF HostCloses
<1>3. PICK P : P = PortPieces(c) /\ AreParts(P)
  BY PortsParts
<1>4. PICK t \in Connection(P) : t = conn[c] /\ t.up
  BY <1>1, <1>3 DEF ConnTyped, HostCloses
<1>5. PICK n \in 0 .. Len(t.wire) : conn' = [conn EXCEPT ![c].eof = TRUE, ![c].wire = SubSeq(@, 1, n)]
  BY <1>4 DEF HostCloses
<1>6. PICK wire \in Seq(P) : wire = SubSeq(t.wire, 1, n) /\ IsStart(wire, t.wire)
  <2>1. t.wire \in Seq(P)
    BY DEF Connection
  <2> QED BY <2>1, CutAt
<1>7. PICK u : u = [t EXCEPT !.eof = TRUE, !.wire = wire]
  OBVIOUS
<1>8. conn' = [conn EXCEPT ![c] = u]
  BY <1>1, <1>4, <1>5, <1>6, <1>7 DEF ConnTyped, Connection
<1>9. u \in Connection(P)
  <2>1. conn'[c] = u
    BY <1>1, <1>8 DEF ConnTyped
  <2>2. PortPieces(c)' = PortPieces(c)
    BY <1>2 DEF PortPieces
  <2> QED BY <1>3, <2>1, <2>2 DEF ConnTyped
<1>10. /\ u.up = t.up /\ u.eof = TRUE /\ u.cuts = t.cuts /\ u.ran = t.ran /\ u.said = t.said /\ u.buf = t.buf
       /\ u.wire = wire
  BY <1>7 DEF Connection
<1>11. IsStart(Way(u), Way(t))
  BY <1>6, <1>9, <1>10, WayStart
<1>12. PICK k \in Nat : k = bounds.connects[c]
  BY <1>1 DEF BoundsTyped
<1>13. c \in Channels => Flows(u, k)
  <2>1. SUFFICES ASSUME c \in Channels PROVE Flows(u, k)
    OBVIOUS
  <2>2. Flows(t, k)
    BY <1>4, <1>12, <2>1 DEF RanInv
  <2> QED BY <1>4, <1>9, <1>10, <1>11, <2>2, ClosedFlows
<1>14. c = "control" => StraysFew(u)
  <2>1. SUFFICES ASSUME c = "control" PROVE StraysFew(u)
    OBVIOUS
  <2>2. StraysFew(t) /\ DoneInOrder(t.ran, Way(t), 0, t.said)
    BY <1>4, <2>1 DEF RanInv, Channels, Flows
  <2> QED BY <1>3, <1>9, <1>10, <1>11, <2>2, ClosedStrays
<1>15. BoundsTyped' /\ \A d \in Ports : bounds'.connects[d] = bounds.connects[d]
  BY <1>1, <1>2 DEF BoundsTyped
<1> QED BY <1>1, <1>2, <1>8, <1>12, <1>13, <1>14, <1>15, PortFlows

\* and when the modem reads commands,
LEMMA ControlFlows ==
  ASSUME HostInv, RanInv, ConnTyped', NEW n, RecvControl(n)
  PROVE  RanInv'
<1>1. ConnTyped /\ BoundsTyped /\ ScriptTyped /\ Kept(modem)
  BY DEF HostInv, RanInv, LinkInv, Astray
<1>2. UNCHANGED <<mode, script>> /\ bounds' = bounds
  BY DEF RecvControl
<1>3. PICK c \in Ports : c = "control" /\ c \in Channels
  BY DEF Ports, Channels
<1>4. PICK P : P = PortPieces(c) /\ AreParts(P) /\ AreSaid(P)
  BY <1>1, <1>3, PortsParts, PortsTyped
<1>5. PICK t \in Connection(P) : t = conn[c]
  BY <1>1, <1>4 DEF ConnTyped
<1>6. n \in 1 .. Len(t.wire)
  BY <1>3, <1>5 DEF RecvControl
<1>7. PICK u : u = ProcessControl(modem, t, n).conn
  OBVIOUS
<1>8. conn' = [conn EXCEPT ![c] = u]
  BY <1>3, <1>5, <1>7 DEF RecvControl
<1>9. u \in Connection(P)
  <2>1. conn'[c] = u
    BY <1>1, <1>8 DEF ConnTyped
  <2>2. PortPieces(c)' = PortPieces(c)
    BY <1>2 DEF PortPieces
  <2> QED BY <1>4, <2>1, <2>2 DEF ConnTyped
<1>10. PICK k \in Nat : k = bounds.connects[c]
  BY <1>1 DEF BoundsTyped
<1>11. Flows(t, k) /\ StraysFew(t)
  BY <1>3, <1>5, <1>10 DEF RanInv
<1>12. Onward(Way(t)) /\ Owned(Way(t)) /\ DoneInOrder(t.ran, Way(t), 0, t.said)
  BY <1>11 DEF Flows, StraysFew
<1>13. PICK r \in 0 .. Len(Way(t)) :
         /\ Taken(P, t, u, r) /\ (r # 0 => Way(t)[r].half = 2)
         /\ Strayed(u.ran, Way(t), r, t.eof) <= Strayed(t.ran, Way(t), 0, t.eof)
  BY <1>1, <1>4, <1>6, <1>7, <1>12, ControlGoes
<1>14. t.up
  <2>1. t.wire # <<>>
    BY <1>6
  <2> QED BY <1>11, <2>1 DEF Flows
<1>15. Flows(u, k)
  BY <1>4, <1>9, <1>11, <1>13, <1>14, TakenFlows
<1>16. StraysFew(u)
  <2>1. t.said \in Nat /\ t.ran \in Seq(Nat) /\ u.ran \in Seq(Nat) /\ t.cuts \in Nat /\ 0 \in Nat
    BY <1>9 DEF Connection, Items
  <2>2. Way(t) \in Seq(P) /\ r \in Nat
    <3>1. Way(t) \in Seq(P)
      BY WayIs
    <3>2. Len(Way(t)) \in Nat
      BY <3>1
    <3>3. r \in Nat
      BY <3>2
    <3> QED BY <3>1, <3>3
  <2>3. DoneInOrder(u.ran, Way(t), r, t.said)
    BY <1>13 DEF Taken
  <2>4. Strayed(t.ran, Way(t), 0, t.eof) \in Nat /\ Strayed(u.ran, Way(t), r, t.eof) \in Nat
    BY <1>4, <1>12, <2>1, <2>2, <2>3, StrayedIs
  <2> QED BY <1>4, <1>11, <1>13, <2>1, <2>4, TakenStrays
<1>17. BoundsTyped' /\ \A d \in Ports : bounds'.connects[d] = bounds.connects[d]
  BY <1>1, <1>2 DEF BoundsTyped
<1> QED BY <1>1, <1>2, <1>8, <1>10, <1>15, <1>16, <1>17, PortFlows

\* blocks of data,
LEMMA DataFlows ==
  ASSUME HostInv, RanInv, ConnTyped', NEW n, RecvData(n)
  PROVE  RanInv'
<1>1. ConnTyped /\ BoundsTyped /\ ScriptTyped /\ Kept(modem)
  BY DEF HostInv, RanInv, LinkInv, Astray
<1>2. UNCHANGED <<mode, script>> /\ bounds' = bounds
  BY DEF RecvData
<1>3. PICK c \in Ports : c = "data" /\ c \in Channels /\ c # "control"
  BY DEF Ports, Channels
<1>4. PICK P : P = PortPieces(c) /\ AreParts(P)
  BY <1>3, PortsParts
<1>5. PICK t \in Connection(P) : t = conn[c]
  BY <1>1, <1>4 DEF ConnTyped
<1>6. n \in 1 .. Len(t.wire)
  BY <1>3, <1>5 DEF RecvData
<1>7. PICK done \in ProcessData(modem, t, n) : conn' = [conn EXCEPT ![c] = done.conn]
  BY <1>3, <1>5 DEF RecvData
<1>8. PICK u : u = done.conn
  OBVIOUS
<1>9. u \in Connection(P)
  <2>1. conn'[c] = u
    BY <1>1, <1>7, <1>8 DEF ConnTyped
  <2>2. PortPieces(c)' = PortPieces(c)
    BY <1>2 DEF PortPieces
  <2> QED BY <1>4, <2>1, <2>2 DEF ConnTyped
<1>10. PICK k \in Nat : k = bounds.connects[c]
  BY <1>1 DEF BoundsTyped
<1>11. Flows(t, k)
  BY <1>3, <1>5, <1>10 DEF RanInv
<1>12. Onward(Way(t)) /\ DoneInOrder(t.ran, Way(t), 0, t.said)
  BY <1>11 DEF Flows
<1>13. PICK r \in 0 .. Len(Way(t)) : Taken(P, t, u, r)
  BY <1>1, <1>4, <1>6, <1>8, <1>12, DataGoes
<1>14. t.up
  <2>1. t.wire # <<>>
    BY <1>6
  <2> QED BY <1>11, <2>1 DEF Flows
<1>15. Flows(u, k)
  BY <1>4, <1>9, <1>11, <1>13, <1>14, TakenFlows
<1>16. BoundsTyped' /\ \A d \in Ports : bounds'.connects[d] = bounds.connects[d]
  BY <1>1, <1>2 DEF BoundsTyped
<1> QED BY <1>1, <1>2, <1>3, <1>7, <1>8, <1>10, <1>15, <1>16, PortFlows

\* or packets, which are not counted.
LEMMA PacketFlows ==
  ASSUME HostInv, RanInv, NEW n, RecvPacket(n)
  PROVE  RanInv'
<1>1. ConnTyped /\ BoundsTyped
  BY DEF HostInv, RanInv
<1>2. PICK c \in Ports : c = "packet" /\ c \notin Channels /\ c # "control"
  BY DEF Ports, Channels
<1>3. PICK u : conn' = [conn EXCEPT ![c] = u]
  BY <1>2 DEF RecvPacket
<1>4. bounds' = bounds
  BY DEF RecvPacket
<1>5. BoundsTyped' /\ \A d \in Ports : bounds'.connects[d] = bounds.connects[d]
  BY <1>1, <1>4 DEF BoundsTyped
<1> QED BY <1>1, <1>2, <1>3, <1>5, PortFlows

\* It holds at first,
LEMMA RanInit ==
  ASSUME Init
  PROVE  RanInv
<1>1. BoundsTyped /\ \A c \in Ports : bounds.connects[c] = 0 /\ conn[c] = NewConnection
  BY DEF Init, BoundsTyped
<1>2. "control" \in Ports /\ Channels \subseteq Ports
  BY DEF Ports, Channels
<1>3. PICK t : t = NewConnection
  OBVIOUS
<1>4. t.buf = <<>> /\ t.wire = <<>> /\ t.ran = <<>> /\ t.cuts = 0 /\ t.said = 0 /\ t.eof = FALSE /\ t.up = FALSE
  BY <1>3 DEF NewConnection
<1>5. PICK q : q = Way(t) /\ Len(q) = 0
  <2>1. <<>> \o <<>> = <<>> /\ Len(<<>>) = 0
    OBVIOUS
  <2> QED BY <1>4, <2>1 DEF Way
<1>6. Unsaid(t.ran) = {} /\ Len(t.ran) = 0
  BY <1>4 DEF Unsaid
<1>7. Onward(q) /\ Owned(q) /\ Paired(q) /\ DoneInOrder(t.ran, q, 0, 0) /\ Orphans(q, 0, FALSE) = {}
  BY <1>5, <1>6 DEF Onward, Owned, Paired, DoneInOrder, Orphans
<1>8. InPairs(t)
  <2>1. 0 \in Nat /\ Len(q) = 2 * 0
    BY <1>5
  <2> QED BY <1>5, <1>6, <1>7, <2>1 DEF InPairs
<1>9. Flows(t, 0)
  BY <1>3, <1>4, <1>5, <1>7, <1>8 DEF Flows
<1>10. StraysFew(t)
  <2>1. Cardinality({}) = 0
    BY FS_EmptySet
  <2>2. Unsaid(t.ran) = {}
    BY <1>6
  <2>3. Orphans(Way(t), 0, t.eof) = {} /\ Owned(Way(t))
    BY <1>4, <1>5, <1>7
  <2>4. Strayed(t.ran, Way(t), 0, t.eof) = 0
    BY <2>1, <2>2, <2>3 DEF Strayed
  <2> QED BY <1>4, <2>3, <2>4 DEF StraysFew
<1> QED BY <1>1, <1>2, <1>3, <1>9, <1>10 DEF RanInv

\* and is kept.
LEMMA RanNext ==
  ASSUME HostInv, RanInv, [Next]_vars
  PROVE  RanInv'
<1>1. ConnTyped'
  BY HostNext DEF HostInv
<1>2. CASE SerialStep \/ AirStep \/ UNCHANGED vars
  BY <1>2, AloneFlows
<1>3. ASSUME NEW c \in Ports, Connect(c) \/ HostSend(c) \/ HostCloses(c) \/ RecvEnd(c) PROVE RanInv'
  BY <1>1, <1>3, ConnectFlows, SendFlows, ClosesFlows, EndFlows
<1>4. ASSUME NEW n, RecvControl(n) \/ RecvData(n) \/ RecvPacket(n) PROVE RanInv'
  BY <1>1, <1>4, ControlFlows, DataFlows, PacketFlows
<1> QED BY <1>2, <1>3, <1>4 DEF Next, SerialStep, AirStep

\* RunInOrder: whatever the hosts send over TCP and however it arrives, a line or block is done at
\* most once and in the order sent, none is left out while the first connection lasts, and what
\* nobody sent is done at most as often as the connection for commands was cut.
THEOREM HostRunsInOrder == Spec => []RunInOrder
<1>1. ASSUME HostInv, RanInv PROVE RunInOrder
  <2>1. \A c \in Channels : Strays(c) = Unsaid(conn[c].ran)
    BY DEF Strays, Unsaid
  <2>2. \A c \in Channels : conn[c].ran \in Seq(Nat) /\ conn[c].cuts \in Nat /\ conn[c].said \in Nat
    BY <1>1 DEF HostInv, ConnTyped, Connection, Items, Ports
  <2>3. ASSUME NEW c \in Channels
        PROVE  /\ \A i, j \in DOMAIN conn[c].ran \ Strays(c) : i < j => conn[c].ran[i] < conn[c].ran[j]
               /\ bounds.connects[c] = 1 => CountOf(conn[c].ran) = Len(conn[c].ran)
    <3>1. Flows(conn[c], bounds.connects[c])
      BY <1>1 DEF RanInv
    <3>2. PICK ran \in Seq(Nat) : ran = conn[c].ran
      BY <2>2
    <3>3. DOMAIN ran = 1 .. Len(ran)
      OBVIOUS
    <3>4. \A i, j \in 1 .. Len(ran) : i < j /\ ran[i] # 0 /\ ran[j] # 0 => ran[i] < ran[j]
      BY <3>1, <3>2 DEF Flows, DoneInOrder
    <3>5. \A i \in DOMAIN ran \ Strays(c) : i \in 1 .. Len(ran) /\ ran[i] # 0
      BY <2>1, <3>2, <3>3 DEF Unsaid
    <3>6. bounds.connects[c] = 1 => CountOf(ran) = Len(ran)
      BY <3>1, <3>2 DEF Flows, Once, UpTo0, CountOf
    <3> QED BY <3>2, <3>4, <3>5, <3>6
  <2>4. Cardinality(Strays("control")) <= conn.control.cuts
    <3>1. "control" \in Channels
      BY DEF Channels
    <3>2. PICK P : P = PortPieces("control") /\ AreParts(P)
      BY PortsParts DEF Ports, Channels
    <3>9. PICK t \in Connection(P) : t = conn.control
      BY <1>1, <3>2 DEF HostInv, ConnTyped, Ports, Channels
    <3>3. Flows(t, bounds.connects.control) /\ StraysFew(t)
      BY <1>1, <3>1, <3>9 DEF RanInv
    <3>4. t.said \in Nat /\ t.ran \in Seq(Nat) /\ t.cuts \in Nat /\ 0 \in Nat /\ Way(t) \in Seq(P)
      BY <3>2, WayIs DEF Connection, Items
    <3>5. DoneInOrder(t.ran, Way(t), 0, t.said)
      BY <3>3 DEF Flows
    <3>6. Cardinality(Orphans(Way(t), 0, t.eof)) \in Nat
      BY <3>2, <3>4, <3>5, OrphansAre
    <3>7. Cardinality(Unsaid(t.ran)) \in Nat
      BY <3>4, UnsaidIs
    <3>8. Cardinality(Unsaid(t.ran)) + Cardinality(Orphans(Way(t), 0, t.eof)) <= t.cuts
      BY <3>3 DEF StraysFew, Strayed
    <3> QED BY <2>1, <3>1, <3>9, <3>4, <3>6, <3>7, <3>8
  <2>5. conn.data.cuts = 0 => Strays("data") = {}
    <3>1. "data" \in Channels
      BY DEF Channels
    <3>2. Flows(conn.data, bounds.connects.data)
      BY <1>1, <3>1 DEF RanInv
    <3> QED BY <2>1, <3>1, <3>2 DEF Flows, InPairs
  <2> QED BY <2>3, <2>4, <2>5 DEF RunInOrder
<1>2. HostInv /\ RanInv /\ [Next]_vars => RanInv'
  BY RanNext
<1> QED BY HostInvariant, RanInit, <1>1, <1>2, PTL DEF Spec
===============================================================================
