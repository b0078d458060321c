------------------------------ MODULE FecProofs ------------------------------
(***************************************************************************)
(* Proofs about module Fec, for all modes, all settings of FECREPEATS and  *)
(* any number of items:                                                    *)
(*                                                                         *)
(*   RepeatsInv  a data frame is played as often as FECREPEATS asks,       *)
(*               although two callers of GetNextFECFrame share the count,  *)
(*               one of which plays a frame twice and the other counts a   *)
(*               repeat that it does not play.                             *)
(*   FecInv      the frames sent are the items in order, and the memory of *)
(*               the receiver holds carriers of the frame it takes them    *)
(*               for: a frame whose carriers add up is given to the host,  *)
(*               in its place and once.                                    *)
(***************************************************************************)
EXTENDS Fec, SequenceTheorems, TLAPS

\* The fields of the sender, and the types of what is counted.
SenderFields ==
  {"sending", "abort", "needID", "rpt", "first", "repeats", "repeatsSent", "mode", "par",
   "queue", "enc", "plays", "disturbed"}
CountTypes ==
  /\ DOMAIN snd = SenderFields
  /\ snd.repeats \in Nat /\ snd.repeatsSent \in Nat /\ snd.plays \in Nat

\* The count is never ahead of what was played, the caller that would get ahead of it comes
\* only when nothing is left to repeat, and an abort disturbs the frame.
RepeatsInv ==
  /\ CountTypes
  /\ snd.abort => snd.disturbed
  /\ frames # <<>> /\ ~snd.disturbed =>
       /\ ~snd.first
       /\ snd.plays > snd.repeatsSent
       /\ ~snd.rpt => snd.repeatsSent >= snd.repeats

\* The counts that FECREPEATS sets.
LEMMA RepeatCountsNat == RepeatCounts \subseteq Nat
BY FecAssumption

\* No frame has been sent at first.
LEMMA InitRepeats == Init => RepeatsInv
<1> SUFFICES ASSUME Init PROVE RepeatsInv
  OBVIOUS
<1>1. PICK mode \in Modes, repeats \in RepeatCounts :
        snd = [sending |-> FALSE, abort |-> FALSE, needID |-> FALSE, rpt |-> FALSE,
               first |-> TRUE, repeats |-> repeats, repeatsSent |-> 0, mode |-> mode, par |-> 0,
               queue |-> <<>>, enc |-> ID, plays |-> 0, disturbed |-> FALSE]
  BY DEF Init
<1> QED BY <1>1, RepeatCountsNat DEF Init, RepeatsInv, CountTypes, SenderFields

\* A command that changes the sender disturbs the frame that is being repeated.
LEMMA SettingKeeps ==
  ASSUME RepeatsInv, NEW s, Setting(s), DOMAIN s = SenderFields,
         s.repeats \in Nat, s.repeatsSent \in Nat, s.plays \in Nat
  PROVE  RepeatsInv'
BY DEF Setting, RepeatsInv, CountTypes, SenderFields

\* Every command of the host keeps the invariant.
LEMMA CommandsKeep ==
  ASSUME RepeatsInv, GiveData \/ StartFEC \/ AbortFEC \/ SetFECRepeats \/ SendIDCommand \/ SetFECMode
  PROVE  RepeatsInv'
<1>1. CASE GiveData
  BY <1>1 DEF GiveData, RepeatsInv, CountTypes, SenderFields, radio
<1>2. CASE StartFEC
  BY <1>2 DEF StartFEC, RepeatsInv, CountTypes, SenderFields, radio
<1>3. CASE AbortFEC
  BY <1>3, SettingKeeps DEF AbortFEC, RepeatsInv, CountTypes, SenderFields
<1>4. CASE SetFECRepeats
  BY <1>4, SettingKeeps, RepeatCountsNat DEF SetFECRepeats, RepeatsInv, CountTypes, SenderFields
<1>5. CASE SendIDCommand
  BY <1>5, SettingKeeps DEF SendIDCommand, RepeatsInv, CountTypes, SenderFields
<1>6. CASE SetFECMode
  BY <1>6, SettingKeeps DEF SetFECMode, RepeatsInv, CountTypes, SenderFields
<1> QED BY <1>1, <1>2, <1>3, <1>4, <1>5, <1>6

\* The end of a transmission leaves the counts.
LEMMA StopKeeps == ASSUME RepeatsInv, Stop PROVE RepeatsInv'
BY DEF RepeatsInv, CountTypes, SenderFields, Stop, Aborting, Finishing, DISC, radio

\* New data restarts the count, with a play for each caller.
LEMMA SendNewKeeps == ASSUME RepeatsInv, NEW n \in {1, 2}, SendNew(n) PROVE RepeatsInv'
<1> DEFINE f == DataFrame(snd)
           s == [snd EXCEPT !.first = FALSE, !.rpt = snd.repeats > 0, !.repeatsSent = 0,
                            !.par = f.par, !.enc = f, !.plays = 0, !.disturbed = snd.needID,
                            !.queue = SubSeq(@, Items(snd) + 1, Len(@))]
<1>1. snd' = [s EXCEPT !.plays = @ + n] /\ ~snd.abort /\ snd.repeats \in Nat
  BY DEF SendNew, Play, MaySendNew, Continuing, RepeatsInv, CountTypes
<1>2. /\ DOMAIN s = SenderFields /\ ~s.abort /\ s.repeats = snd.repeats
      /\ s.repeatsSent = 0 /\ s.plays = 0 /\ ~s.first /\ (s.rpt <=> snd.repeats > 0)
  BY <1>1 DEF RepeatsInv, CountTypes, SenderFields
<1> HIDE DEF s
<1>3. /\ DOMAIN snd' = SenderFields /\ ~snd'.abort /\ snd'.repeats = snd.repeats
      /\ snd'.repeatsSent = 0 /\ snd'.plays = n /\ ~snd'.first
      /\ snd'.rpt <=> snd.repeats > 0
  BY <1>1, <1>2 DEF SenderFields
<1> QED BY <1>1, <1>3 DEF RepeatsInv, CountTypes

\* An ID after ten minutes disturbs the frame.
LEMMA TenMinuteKeeps ==
  ASSUME RepeatsInv, NEW again \in BOOLEAN, SendTenMinuteID(again) PROVE RepeatsInv'
BY DEF RepeatsInv, CountTypes, SenderFields, SendTenMinuteID, Play

\* A repeat that is counted is played, unless the caller that does not play it has the turn.
LEMMA RepeatKeeps ==
  ASSUME RepeatsInv, NEW again \in BOOLEAN, Repeat(again), again \/ ~snd.rpt
  PROVE  RepeatsInv'
BY DEF RepeatsInv, CountTypes, SenderFields, Repeat, Continuing, MaySendNew, Play

\* Every step keeps the invariant.
LEMMA StepKeepsRepeats == ASSUME RepeatsInv, [Next]_vars PROVE RepeatsInv'
<1>1. CASE GiveData \/ StartFEC \/ AbortFEC \/ SetFECRepeats \/ SendIDCommand \/ SetFECMode
  BY <1>1, CommandsKeep
<1>2. CASE MainPoll
  BY <1>2, StopKeeps, SendNewKeeps, TenMinuteKeeps, RepeatKeeps DEF MainPoll
<1>3. CASE CheckTimers
  BY <1>3, StopKeeps, SendNewKeeps, TenMinuteKeeps, RepeatKeeps DEF CheckTimers
<1>4. CASE SendID
  BY <1>4 DEF SendID, Play, RepeatsInv, CountTypes, SenderFields
<1>5. CASE Hear \/ Miss
  BY <1>5 DEF Hear, Miss, RepeatsInv, CountTypes, SenderFields
<1>6. CASE UNCHANGED vars
  BY <1>6 DEF vars, RepeatsInv, CountTypes
<1> QED BY <1>1, <1>2, <1>3, <1>4, <1>5, <1>6 DEF Next

\* A frame makes way only for a caller that has found it repeated often enough.
LEMMA OnlyWhenRepeated ==
  ASSUME RepeatsInv, [Next]_vars, frames # <<>>, ~snd.disturbed,
         Len(frames') > Len(frames) \/ (snd.sending /\ ~snd'.sending)
  PROVE  snd.plays > snd.repeats
<1>1. CASE Stop
  BY <1>1 DEF RepeatsInv, CountTypes, Stop, Aborting, Finishing
<1>2. CASE \E n \in {1, 2} : SendNew(n)
  BY <1>2 DEF RepeatsInv, CountTypes, SendNew, MaySendNew
<1>3. frames' = frames /\ (snd.sending => snd'.sending) => FALSE
  OBVIOUS
<1>4. CASE GiveData \/ StartFEC
  BY <1>3, <1>4 DEF GiveData, StartFEC, radio, RepeatsInv, CountTypes, SenderFields
<1>7. CASE AbortFEC \/ SetFECRepeats \/ SendIDCommand \/ SetFECMode
  <2> USE DEF RepeatsInv, CountTypes, SenderFields
  <2>1. CASE AbortFEC
    BY <1>3, <2>1 DEF AbortFEC, Setting, radio
  <2>2. CASE SetFECRepeats
    BY <1>3, <2>2 DEF SetFECRepeats, Setting, radio
  <2>3. CASE SendIDCommand
    BY <1>3, <2>3 DEF SendIDCommand, Setting, radio
  <2>4. CASE SetFECMode
    BY <1>3, <2>4 DEF SetFECMode, Setting, radio
  <2> QED BY <1>7, <2>1, <2>2, <2>3, <2>4
<1>5. CASE \E again \in BOOLEAN : SendTenMinuteID(again) \/ Repeat(again)
  BY <1>3, <1>5 DEF SendTenMinuteID, Repeat, Play, RepeatsInv, CountTypes, SenderFields
<1>6. CASE SendID \/ Hear \/ Miss \/ UNCHANGED vars
  BY <1>3, <1>6 DEF SendID, Hear, Miss, Play, vars, RepeatsInv, CountTypes, SenderFields
<1> QED BY <1>1, <1>2, <1>4, <1>5, <1>6, <1>7 DEF Next, MainPoll, CheckTimers

\* The counts of a transmission hold together at all times.
THEOREM RepeatsHold == Spec => []RepeatsInv
BY InitRepeats, StepKeepsRepeats, PTL DEF Spec

\* FEC.c promises its host FECREPEATS repeats: each data frame is played at least so often,
\* whichever caller comes to it, unless a command, an abort or an ID comes in between.
THEOREM RepeatsAreKept == Spec => RepeatsKept
<1>1. RepeatsInv /\ [Next]_vars =>
        [frames # <<>> /\ ~snd.disturbed
           /\ (Len(frames') > Len(frames) \/ (snd.sending /\ ~snd'.sending))
         => snd.plays > snd.repeats]_vars
  BY OnlyWhenRepeated
<1> QED BY <1>1, RepeatsHold, PTL DEF Spec, RepeatsKept

-------------------------------------------------------------------------------
(* What the listener's host is given.                                      *)

ReceiverFields ==
  {"lastType", "ok", "stored", "sums", "toHost", "crc", "failed", "got", "erred", "failedIndex",
   "index", "seen", "mistaken", "idHeard"}
Chunk == {<<>>} \cup {<<i>> : i \in 1 .. MaxItems}
DataTypes == {<<mode, par>> : mode \in Modes, par \in {0, 1}}
DataFrames ==
  [type : {"DATA"}, mode : Modes, par : {0, 1}, chunks : Seq(Chunk), cut : BOOLEAN, index : Nat]

\* What is played is the identification or the newest frame: new data covers what is in the air.
Newest == Len(frames)
IsNewest(f) ==
  /\ f \in DataFrames /\ f.index = Newest /\ Newest >= 1
  /\ f.chunks = frames[Newest] /\ FrameType(f) = types[Newest]
InTheAir == \A i \in 1 .. Len(air) : air[i] = ID \/ IsNewest(air[i])

\* The types of the sender and of the histories.
SenderTypes ==
  /\ DOMAIN snd = SenderFields
  /\ snd.mode \in Modes /\ snd.repeats \in RepeatCounts /\ snd.repeatsSent \in 0 .. 5
  /\ snd.par \in {0, 1} /\ snd.queue \in Seq(1 .. MaxItems)
  /\ snd.rpt => snd.sending
  /\ snd.enc = ID \/ IsNewest(snd.enc)
  /\ air \in Seq({ID} \cup DataFrames) /\ Len(air) <= 2
  /\ frames \in Seq(Seq(Chunk)) /\ types \in Seq(DataTypes) /\ Len(types) = Len(frames)
  /\ \A k \in 1 .. Newest : Len(frames[k]) = types[k][1].cars
  /\ given \in 0 .. MaxItems

\* Every frame begins with an item of its own, later than those of the frames before: only what
\* has data is sent.
FirstItem(k) == frames[k][1][1]
FramesDiffer ==
  /\ snd.sending /\ snd.first => snd.queue # <<>>
  /\ \A i \in 1 .. Len(snd.queue) : snd.queue[i] <= given
  /\ \A i, j \in 1 .. Len(snd.queue) : i < j => snd.queue[i] < snd.queue[j]
  /\ \A k \in 1 .. Newest : FirstItem(k) \in 1 .. given
  /\ \A k \in 1 .. Newest : \A i \in 1 .. Len(snd.queue) : FirstItem(k) < snd.queue[i]
  /\ \A k, l \in 1 .. Newest : k < l => FirstItem(k) < FirstItem(l)

SenderInv == SenderTypes /\ InTheAir /\ FramesDiffer

\* The receiver's types; the carriers that are remembered are those of the last type.
MemoryTypes ==
  /\ DOMAIN rcv = ReceiverFields
  /\ rcv.index \in 0 .. Newest /\ rcv.failedIndex \in 0 .. rcv.index
  /\ rcv.sums \in [{1, 2} -> 0 .. 2]
  /\ rcv.mistaken \in BOOLEAN /\ rcv.idHeard \in BOOLEAN
  /\ rcv.lastType \in {NONE, <<"ID">>} \cup DataTypes
  /\ rcv.got \in Seq(Seq(Chunk \cup {Junk}))
  /\ rcv.seen = rcv.ok
  /\ rcv.ok # {} =>
       /\ rcv.lastType \in DataTypes
       /\ rcv.ok \subseteq CarriersOf(rcv.lastType[1])
       /\ DOMAIN rcv.stored = CarriersOf(rcv.lastType[1])
       /\ \A c \in rcv.ok : rcv.stored[c] \in Chunk
  /\ rcv.crc = IF rcv.got = <<>> THEN NONE ELSE Last(rcv.got)
  /\ rcv.failed # NONE => rcv.failedIndex >= 1 /\ rcv.failed = types[rcv.failedIndex]

\* Until a frame is mistaken for another, what is remembered is of the frame that came last.
Remembered ==
  ~rcv.mistaken /\ rcv.ok # {} =>
    /\ rcv.index >= 1 /\ rcv.lastType = types[rcv.index]
    /\ \A c \in rcv.ok : rcv.stored[c] = frames[rcv.index][c]

\* All of the frame that came last is decoded.
Whole ==
  rcv.index >= 1 /\ rcv.lastType = types[rcv.index] /\ CarriersOf(rcv.lastType[1]) \subseteq rcv.ok
WholeIsGiven ==
  ~rcv.mistaken /\ Whole => rcv.got # <<>> /\ Last(rcv.got) = frames[rcv.index]

\* Where in the frames sent the host's data is: at[i] is the frame of the i-th.
Places(at) ==
  /\ at \in [1 .. Len(rcv.got) -> 1 .. rcv.index]
  /\ \A i \in 1 .. Len(rcv.got) : rcv.got[i] = frames[at[i]]
  /\ \A i, j \in 1 .. Len(rcv.got) : i < j => at[i] < at[j]
\* The newest was given; a repeat of it is known by its type, and fails only if an ID frame
\* made the receiver forget it.
GivenNow(at) == rcv.got # <<>> /\ at[Len(rcv.got)] = rcv.index
Known(at) ==
  GivenNow(at) =>
    /\ rcv.toHost = types[rcv.index] /\ rcv.failed \in {NONE, types[rcv.index]}
    /\ ~rcv.idHeard => Whole
\* Unless an ID frame was heard, what fails was not given, nor will be once another has come.
NotGiven(at, k) == \A i \in 1 .. Len(rcv.got) : at[i] # k
ErredApart(at) ==
  ~rcv.idHeard =>
    /\ rcv.failed # NONE => NotGiven(at, rcv.failedIndex)
    /\ \A k \in rcv.erred : k \in 1 .. rcv.index - 1 /\ NotGiven(at, k)
Delivered == ~rcv.mistaken => \E at \in [1 .. Len(rcv.got) -> 1 .. rcv.index] : Places(at) /\ Known(at) /\ ErredApart(at)

ListenerInv == MemoryTypes /\ Remembered /\ WholeIsGiven /\ Delivered
FecInv == SenderInv /\ ListenerInv

\* With QAM on more than two carriers the retry loses the data of the others.
FewCarriers == \A mode \in Modes : mode.mod = QAM => mode.cars <= 2

\* A mode has one to eight carriers.
LEMMA ModesHaveCarriers == ASSUME NEW mode \in Modes PROVE mode.cars \in 1 .. 8
BY FecAssumption

\* FECREPEATS is at most five.
LEMMA RepeatsAtMostFive == RepeatCounts \subseteq 0 .. 5
BY FecAssumption

\* At first nothing was sent or heard.
LEMMA InitFec == Init => FecInv
<1> SUFFICES ASSUME Init PROVE FecInv
  OBVIOUS
<1>1. PICK mode \in Modes, repeats \in RepeatCounts :
        snd = [sending |-> FALSE, abort |-> FALSE, needID |-> FALSE, rpt |-> FALSE,
               first |-> TRUE, repeats |-> repeats, repeatsSent |-> 0, mode |-> mode, par |-> 0,
               queue |-> <<>>, enc |-> ID, plays |-> 0, disturbed |-> FALSE]
  BY DEF Init
<1>2. /\ air = <<>> /\ frames = <<>> /\ types = <<>> /\ given = 0
      /\ MaxItems \in Nat
  BY FecAssumption DEF Init
<1>3. SenderInv
  BY <1>1, <1>2 DEF SenderInv, SenderTypes, SenderFields, InTheAir, FramesDiffer, Newest
<1>4. MemoryTypes /\ Remembered /\ WholeIsGiven
  BY <1>2 DEF Init, NewReceiver, MemoryTypes, ReceiverFields, Remembered, WholeIsGiven, Whole, Newest
<1>5. rcv.got = <<>> /\ rcv.failed = NONE /\ rcv.erred = {}
  BY DEF Init, NewReceiver
<1>6. Delivered
  <2> DEFINE at == [i \in 1 .. Len(rcv.got) |-> 1]
  <2>1. at \in [1 .. Len(rcv.got) -> 1 .. rcv.index]
    BY <1>5
  <2>2. Places(at) /\ Known(at) /\ ErredApart(at)
    BY <1>5 DEF Places, Known, GivenNow, ErredApart, NotGiven
  <2> QED BY <2>1, <2>2 DEF Delivered
<1> QED BY <1>3, <1>4, <1>6 DEF FecInv, ListenerInv

\* What a step keeps of the histories: no frame that was sent changes.
Extended ==
  /\ Newest' >= Newest
  /\ \A k \in 1 .. Newest : frames'[k] = frames[k] /\ types'[k] = types[k]

\* The receiver's types do not depend on what is sent later.
LEMMA TypesStay ==
  ASSUME MemoryTypes, UNCHANGED rcv, Extended, Newest \in Nat, Newest' \in Nat
  PROVE  MemoryTypes'
BY DEF MemoryTypes, Extended

\* Nor does the rest of the listener's part.
LEMMA ListenerStays ==
  ASSUME ListenerInv, UNCHANGED rcv, Extended, Newest \in Nat, Newest' \in Nat
  PROVE  ListenerInv'
<1> USE DEF Extended
<1>1. rcv.index \in 0 .. Newest /\ rcv.failedIndex \in 0 .. rcv.index
  BY DEF ListenerInv, MemoryTypes
<1>2. MemoryTypes'
  BY TypesStay DEF ListenerInv
<1>3. rcv.index >= 1 => rcv.index \in 1 .. Newest
  BY <1>1
<1>4. Remembered'
  BY <1>1, <1>3 DEF ListenerInv, Remembered
<1>5. Whole' <=> Whole
  BY <1>1, <1>3 DEF Whole
<1>6. WholeIsGiven'
  BY <1>1, <1>3, <1>5 DEF ListenerInv, WholeIsGiven, Whole
<1>7. ASSUME NEW at \in [1 .. Len(rcv.got) -> 1 .. rcv.index], Places(at), Known(at), ErredApart(at)
      PROVE  /\ at \in [1 .. Len(rcv.got) -> 1 .. rcv.index]'
             /\ Places(at)' /\ Known(at)' /\ ErredApart(at)'
  <2>1. Places(at)'
    BY <1>1, <1>7 DEF Places
  <2>2. Known(at)'
    <3>1. ASSUME GivenNow(at) PROVE rcv.index \in 1 .. Newest
      <4>1. rcv.got \in Seq(Seq(Chunk \cup {Junk})) /\ rcv.got # <<>>
        BY <3>1 DEF GivenNow, ListenerInv, MemoryTypes
      <4>2. Len(rcv.got) \in 1 .. Len(rcv.got)
        BY <4>1
      <4> QED BY <1>1, <1>7, <4>2
    <3> QED BY <1>5, <1>7, <3>1 DEF Known, GivenNow
  <2>3. ErredApart(at)'
    BY <1>7 DEF ErredApart, NotGiven
  <2> QED BY <1>7, <2>1, <2>2, <2>3
<1>8. Delivered'
  BY <1>7 DEF ListenerInv, Delivered
<1> QED BY <1>2, <1>4, <1>6, <1>8 DEF ListenerInv

\* The sender's part, when the step adds no frame and no item.
LEMMA SenderChanges ==
  ASSUME SenderInv, DOMAIN snd' = SenderFields,
         snd'.mode \in Modes, snd'.repeats \in RepeatCounts, snd'.repeatsSent \in 0 .. 5,
         snd'.par \in {0, 1}, snd'.rpt => snd'.sending, snd'.queue \in {snd.queue, <<>>},
         snd'.sending /\ snd'.first => snd'.queue # <<>>,
         snd'.enc = ID \/ IsNewest(snd'.enc),
         air' \in Seq({ID} \cup DataFrames), Len(air') <= 2,
         \A i \in 1 .. Len(air') : air'[i] = ID \/ IsNewest(air'[i]),
         UNCHANGED <<frames, types, given>>
  PROVE  SenderInv' /\ Extended
<1>1. \A f : IsNewest(f) <=> IsNewest(f)'
  BY DEF IsNewest, Newest
<1>2. SenderTypes'
  <2>1. snd'.queue \in Seq(1 .. MaxItems)
    <3>1. snd.queue \in Seq(1 .. MaxItems) /\ <<>> \in Seq(1 .. MaxItems)
      BY DEF SenderInv, SenderTypes
    <3> QED BY <3>1
  <2>2. (snd.enc = ID \/ IsNewest(snd.enc))'
    BY DEF IsNewest, Newest
  <2>3. /\ frames' \in Seq(Seq(Chunk)) /\ types' \in Seq(DataTypes) /\ Len(types') = Len(frames')
        /\ \A k \in 1 .. Newest' : Len(frames'[k]) = types'[k][1].cars
        /\ given' \in 0 .. MaxItems
    BY DEF SenderInv, SenderTypes, Newest
  <2> QED BY <2>1, <2>2, <2>3 DEF SenderTypes
<1>3. InTheAir'
  BY <1>1 DEF InTheAir
<1>4. FramesDiffer'
  <2>1. CASE snd'.queue = snd.queue
    BY <2>1 DEF SenderInv, FramesDiffer, Newest, FirstItem
  <2>2. CASE snd'.queue = <<>>
    BY <2>2 DEF SenderInv, FramesDiffer, Newest, FirstItem
  <2> QED BY <2>1, <2>2
<1>5. Extended
  BY DEF Extended, Newest, SenderInv, SenderTypes
<1> QED BY <1>2, <1>3, <1>4, <1>5 DEF SenderInv

\* A command of the host or the end of a transmission plays nothing.
LEMMA SenderQuiet ==
  ASSUME SenderInv, UNCHANGED <<air, frames, types, given>>, DOMAIN snd' = SenderFields,
         snd'.mode \in Modes, snd'.repeats \in RepeatCounts,
         snd'.repeatsSent = snd.repeatsSent, snd'.par = snd.par, snd'.enc = snd.enc,
         snd'.rpt => snd'.sending, snd'.queue \in {snd.queue, <<>>},
         snd'.sending /\ snd'.first => snd'.queue # <<>>
  PROVE  SenderInv' /\ Extended
BY SenderChanges DEF SenderInv, SenderTypes, InTheAir

\* An item is queued behind those before it.
LEMMA GiveDataExtends == ASSUME SenderInv, GiveData PROVE SenderInv' /\ Extended
<1>1. /\ snd' = [snd EXCEPT !.queue = Append(@, given')]
      /\ given' = given + 1 /\ given < MaxItems
      /\ UNCHANGED <<air, frames, types>>
  BY DEF GiveData, radio
<1>2. /\ DOMAIN snd = SenderFields /\ snd.queue \in Seq(1 .. MaxItems)
      /\ given \in 0 .. MaxItems /\ MaxItems \in Nat
  BY FecAssumption DEF SenderInv, SenderTypes
<1>3. /\ DOMAIN snd' = SenderFields /\ snd'.queue = Append(snd.queue, given + 1)
      /\ \A x \in SenderFields \ {"queue"} : snd'[x] = snd[x]
  BY <1>1, <1>2 DEF SenderFields
<1>4. /\ snd'.queue \in Seq(1 .. MaxItems) /\ Len(snd'.queue) = Len(snd.queue) + 1
      /\ \A i \in 1 .. Len(snd.queue) : snd'.queue[i] = snd.queue[i]
      /\ snd'.queue[Len(snd.queue) + 1] = given + 1
  BY <1>1, <1>2, <1>3
<1>5. SenderTypes'
  BY <1>1, <1>2, <1>3, <1>4 DEF SenderInv, SenderTypes, SenderFields, Newest, IsNewest
<1>6. InTheAir'
  BY <1>1 DEF SenderInv, InTheAir, IsNewest, Newest
<1>7. Newest \in Nat /\ Len(snd.queue) \in Nat
  BY <1>2 DEF SenderInv, SenderTypes, Newest
<1>8. FramesDiffer'
  <2>1. FramesDiffer
    BY DEF SenderInv
  <2>2. (snd.sending /\ snd.first => snd.queue # <<>>)'
    BY <1>4, <1>7
  <2>3. /\ \A i \in 1 .. Len(snd.queue) : snd.queue[i] \in 1 .. MaxItems /\ snd.queue[i] <= given
        /\ \A i, j \in 1 .. Len(snd.queue) : i < j => snd.queue[i] < snd.queue[j]
    BY <1>2, <2>1 DEF FramesDiffer
  <2>4. ASSUME NEW i \in 1 .. Len(snd'.queue)
        PROVE  \/ i \in 1 .. Len(snd.queue) /\ snd'.queue[i] = snd.queue[i]
               \/ i = Len(snd.queue) + 1 /\ snd'.queue[i] = given + 1
    BY <1>4, <1>7
  <2>5. ASSUME NEW i \in 1 .. Len(snd'.queue) PROVE snd'.queue[i] <= given + 1
    <3>1. CASE i \in 1 .. Len(snd.queue) /\ snd'.queue[i] = snd.queue[i]
      <4>1. snd.queue[i] \in Nat /\ snd.queue[i] <= given
        BY <1>2, <2>3, <3>1
      <4> QED BY <1>2, <3>1, <4>1
    <3>2. CASE snd'.queue[i] = given + 1
      BY <1>2, <3>2
    <3> QED BY <2>4, <3>1, <3>2
  <2>6. ASSUME NEW i \in 1 .. Len(snd'.queue), NEW j \in 1 .. Len(snd'.queue), i < j
        PROVE  snd'.queue[i] < snd'.queue[j]
    <3>1. i \in 1 .. Len(snd.queue) /\ snd'.queue[i] = snd.queue[i]
      BY <1>4, <1>7, <2>6
    <3> QED BY <1>2, <2>3, <2>4, <2>6, <3>1
  <2>7. \A k \in 1 .. Newest : FirstItem(k)' = FirstItem(k) /\ FirstItem(k) \in 1 .. given
    BY <1>1, <2>1 DEF FirstItem, FramesDiffer
  <2>8. ASSUME NEW k \in 1 .. Newest, NEW i \in 1 .. Len(snd'.queue)
        PROVE  FirstItem(k) < snd'.queue[i]
    <3>1. FirstItem(k) \in 1 .. given
      BY <2>7
    <3>2. CASE i \in 1 .. Len(snd.queue) /\ snd'.queue[i] = snd.queue[i]
      <4>1. FirstItem(k) < snd.queue[i]
        BY <2>1, <3>2 DEF FramesDiffer
      <4> QED BY <3>2, <4>1
    <3>3. CASE snd'.queue[i] = given + 1
      BY <1>2, <3>1, <3>3
    <3> QED BY <2>4, <3>2, <3>3
  <2>9. \A k, l \in 1 .. Newest : k < l => FirstItem(k)' < FirstItem(l)'
    BY <2>1, <2>7 DEF FramesDiffer
  <2>10. Newest' = Newest
    BY <1>1 DEF Newest
  <2>11. \A k \in 1 .. Newest : FirstItem(k) \in 1 .. given + 1
    BY <1>2, <2>7
  <2> QED BY <1>1, <2>2, <2>5, <2>6, <2>7, <2>8, <2>9, <2>10, <2>11 DEF FramesDiffer
<1> QED BY <1>1, <1>5, <1>6, <1>7, <1>8 DEF SenderInv, Extended, Newest

\* The other commands leave the data alone.
LEMMA CommandsExtend ==
  ASSUME SenderInv, StartFEC \/ AbortFEC \/ SetFECRepeats \/ SendIDCommand \/ SetFECMode
  PROVE  SenderInv' /\ Extended
<1> USE DEF SenderInv, SenderTypes, SenderFields, FramesDiffer
<1>1. CASE StartFEC
  BY <1>1, SenderQuiet DEF StartFEC, radio
<1>2. CASE AbortFEC
  BY <1>2, SenderQuiet DEF AbortFEC, Setting, radio
<1>3. CASE SetFECRepeats
  BY <1>3, SenderQuiet DEF SetFECRepeats, Setting, radio
<1>4. CASE SendIDCommand
  BY <1>4, SenderQuiet DEF SendIDCommand, Setting, radio
<1>5. CASE SetFECMode
  BY <1>5, SenderQuiet DEF SetFECMode, Setting, radio
<1> QED BY <1>1, <1>2, <1>3, <1>4, <1>5

\* The end of a transmission empties the queue.
LEMMA StopExtends == ASSUME SenderInv, Stop PROVE SenderInv' /\ Extended
BY SenderQuiet DEF SenderInv, SenderTypes, SenderFields, Stop, DISC, radio

\* What SendNew sends: the next items, at least one, dealt to the carriers.
LEMMA NewFrame ==
  ASSUME SenderInv, MaySendNew
  PROVE  /\ snd.queue # <<>> /\ Items(snd) \in 1 .. Len(snd.queue)
         /\ DataFrame(snd) \in DataFrames /\ DataFrame(snd).index = Newest + 1
         /\ DataFrame(snd).par \in {0, 1} /\ FrameType(DataFrame(snd)) \in DataTypes
         /\ DataFrame(snd).chunks \in Seq(Chunk)
         /\ Len(DataFrame(snd).chunks) = FrameType(DataFrame(snd))[1].cars
         /\ DataFrame(snd).chunks[1][1] = snd.queue[1]
<1> DEFINE cars == snd.mode.cars
           f == DataFrame(snd)
<1>1. /\ snd.mode \in Modes /\ cars \in 1 .. 8 /\ snd.queue \in Seq(1 .. MaxItems)
      /\ snd.par \in {0, 1} /\ Newest \in Nat /\ MaxItems \in Nat
  BY ModesHaveCarriers, FecAssumption DEF SenderInv, SenderTypes, Newest
<1>2. snd.queue # <<>>
  BY DEF SenderInv, FramesDiffer, MaySendNew, Continuing, Finishing
<1>3. Items(snd) \in 1 .. Len(snd.queue) /\ Items(snd) <= cars
  <2>1. Len(snd.queue) \in Nat /\ Len(snd.queue) # 0 /\ cars \in 1 .. 8
    BY <1>1, <1>2
  <2> QED BY <2>1 DEF Items
<1>4. Chunks(snd) \in Seq(Chunk) /\ Len(Chunks(snd)) = cars /\ Chunks(snd)[1] = <<snd.queue[1]>>
  <2>1. Chunks(snd) = [c \in 1 .. cars |-> IF c <= Items(snd) THEN <<snd.queue[c]>> ELSE <<>>]
    BY DEF Chunks, CarriersOf
  <2>2. ASSUME NEW c \in 1 .. cars
        PROVE  (IF c <= Items(snd) THEN <<snd.queue[c]>> ELSE <<>>) \in Chunk
    <3>1. CASE c <= Items(snd)
      <4>1. Len(snd.queue) \in Nat /\ c \in 1 .. Len(snd.queue)
        BY <1>1, <1>3, <3>1
      <4>2. snd.queue[c] \in 1 .. MaxItems
        BY <1>1, <4>1
      <4> QED BY <3>1, <4>2 DEF Chunk
    <3>2. CASE ~(c <= Items(snd))
      BY <3>2 DEF Chunk
    <3> QED BY <3>1, <3>2
  <2>3. Chunks(snd) \in [1 .. cars -> Chunk]
    BY <2>1, <2>2
  <2>4. Chunks(snd) \in Seq(Chunk) /\ Len(Chunks(snd)) = cars
    BY <1>1, <2>3
  <2> QED BY <1>1, <1>3, <2>1, <2>4
<1>5. /\ f.type = "DATA" /\ f.mode = snd.mode /\ f.par = NextParity(snd)
      /\ f.chunks = Chunks(snd) /\ f.cut = FALSE /\ f.index = Newest + 1
  BY DEF DataFrame, Newest
<1>6. NextParity(snd) \in {0, 1}
  BY <1>1 DEF NextParity
<1>7. f \in DataFrames
  BY <1>1, <1>4, <1>6 DEF DataFrame, DataFrames, Newest
<1>8. FrameType(f) = <<snd.mode, NextParity(snd)>>
  BY <1>5 DEF FrameType
<1>9. FrameType(f) \in DataTypes /\ FrameType(f)[1].cars = cars
  BY <1>1, <1>6, <1>8 DEF DataTypes
<1>10. f.chunks[1][1] = snd.queue[1]
  BY <1>4, <1>5
<1> QED BY <1>2, <1>3, <1>4, <1>5, <1>6, <1>7, <1>9, <1>10

\* A new frame begins with the head of the queue, and covers what was in the air.
LEMMA SendNewExtends ==
  ASSUME SenderInv, NEW n \in {1, 2}, SendNew(n) PROVE SenderInv' /\ Extended
<1> DEFINE f == DataFrame(snd)
           s == [snd EXCEPT !.first = FALSE, !.rpt = snd.repeats > 0, !.repeatsSent = 0,
                            !.par = f.par, !.enc = f, !.plays = 0, !.disturbed = snd.needID,
                            !.queue = SubSeq(@, Items(snd) + 1, Len(@))]
<1>1. /\ snd' = [s EXCEPT !.plays = @ + n] /\ air' = [i \in 1 .. n |-> f]
      /\ frames' = Append(frames, f.chunks) /\ types' = Append(types, FrameType(f))
      /\ MaySendNew /\ given' = given
  BY DEF SendNew, Play
<1>2. /\ snd.queue # <<>> /\ Items(snd) \in 1 .. Len(snd.queue)
      /\ f \in DataFrames /\ f.index = Newest + 1
      /\ f.par \in {0, 1} /\ FrameType(f) \in DataTypes
      /\ f.chunks \in Seq(Chunk) /\ Len(f.chunks) = FrameType(f)[1].cars
      /\ f.chunks[1][1] = snd.queue[1]
  BY <1>1, NewFrame
<1> HIDE DEF f
<1>3. /\ DOMAIN s = SenderFields /\ s.sending = snd.sending /\ s.first = FALSE
      /\ s.mode = snd.mode /\ s.repeats = snd.repeats /\ s.repeatsSent = 0 /\ s.par = f.par
      /\ s.enc = f /\ s.queue = SubSeq(snd.queue, Items(snd) + 1, Len(snd.queue))
  BY DEF SenderInv, SenderTypes, SenderFields
<1> HIDE DEF s
<1>4. /\ DOMAIN snd' = SenderFields /\ snd'.sending /\ ~snd'.first
      /\ snd'.mode = snd.mode /\ snd'.repeats = snd.repeats /\ snd'.repeatsSent = 0
      /\ snd'.par = f.par /\ snd'.enc = f
      /\ snd'.queue = SubSeq(snd.queue, Items(snd) + 1, Len(snd.queue))
  BY <1>1, <1>3 DEF SenderFields, MaySendNew, Continuing
<1>5. /\ snd.queue \in Seq(1 .. MaxItems) /\ Len(snd.queue) \in Nat /\ Newest \in Nat
      /\ frames \in Seq(Seq(Chunk)) /\ types \in Seq(DataTypes) /\ Len(types) = Newest
      /\ given \in 0 .. MaxItems /\ MaxItems \in Nat
  BY FecAssumption DEF SenderInv, SenderTypes, Newest
<1>6. /\ snd'.queue \in Seq(1 .. MaxItems) /\ Len(snd'.queue) = Len(snd.queue) - Items(snd)
      /\ \A i \in 1 .. Len(snd'.queue) :
           i + Items(snd) \in 1 .. Len(snd.queue) /\ snd'.queue[i] = snd.queue[i + Items(snd)]
  <2> DEFINE m == Items(snd) + 1
             q == snd.queue
  <2>1. m \in Int /\ Len(q) \in Int /\ \A i \in m .. Len(q) : q[i] \in 1 .. MaxItems
    <3>1. Items(snd) \in 1 .. Len(q)
      BY <1>2
    <3>2. Len(q) \in Nat /\ \A i \in 1 .. Len(q) : q[i] \in 1 .. MaxItems
      BY <1>5
    <3> HIDE DEF q
    <3>3. m \in Int /\ \A i \in m .. Len(q) : i \in 1 .. Len(q)
      BY <3>1, <3>2
    <3> QED BY <3>2, <3>3
  <2>2. /\ SubSeq(q, m, Len(q)) \in Seq(1 .. MaxItems)
        /\ Len(SubSeq(q, m, Len(q))) = IF m <= Len(q) THEN Len(q) - m + 1 ELSE 0
        /\ \A i \in 1 .. Len(q) - m + 1 : SubSeq(q, m, Len(q))[i] = q[m + i - 1]
    BY <2>1, SubSeqProperties
  <2>3. Len(snd'.queue) = Len(q) - Items(snd)
    <3>1. m - 1 = Items(snd) /\ Items(snd) \in 1 .. Len(q) /\ Len(q) \in Nat
      BY <1>2, <1>5
    <3>2. (IF m <= Len(q) THEN Len(q) - m + 1 ELSE 0) = Len(q) - Items(snd)
      BY <3>1
    <3> QED BY <1>4, <2>2, <3>2
  <2>4. ASSUME NEW i \in 1 .. Len(snd'.queue)
        PROVE  i + Items(snd) \in 1 .. Len(q) /\ snd'.queue[i] = q[i + Items(snd)]
    <3>1. Items(snd) \in 1 .. Len(q) /\ Len(q) \in Nat /\ i \in 1 .. Len(q) - Items(snd)
      BY <1>2, <1>5, <2>3
    <3>2. /\ i \in 1 .. Len(q) - m + 1 /\ m + i - 1 = i + Items(snd)
          /\ i + Items(snd) \in 1 .. Len(q)
      BY <3>1
    <3>3. SubSeq(q, m, Len(q))[i] = q[m + i - 1]
      BY <2>2, <3>2
    <3> QED BY <1>4, <3>2, <3>3
  <2> QED BY <1>4, <2>2, <2>3, <2>4
<1>7. /\ Newest' = Newest + 1
      /\ frames' \in Seq(Seq(Chunk)) /\ types' \in Seq(DataTypes) /\ Len(types') = Len(frames')
      /\ \A k \in 1 .. Newest : frames'[k] = frames[k] /\ types'[k] = types[k]
      /\ frames'[Newest + 1] = f.chunks /\ types'[Newest + 1] = FrameType(f)
  BY <1>1, <1>2, <1>5 DEF Newest
<1>8. Extended
  BY <1>5, <1>7 DEF Extended
<1>9. \A g : g = f => IsNewest(g)'
  <2>1. f.index = Newest' /\ Newest' >= 1 /\ f.chunks = frames'[Newest'] /\ FrameType(f) = types'[Newest']
    BY <1>2, <1>5, <1>7
  <2> QED BY <1>2, <2>1 DEF IsNewest
<1>10. SenderTypes'
  <2>1. /\ snd'.mode \in Modes /\ snd'.repeats \in RepeatCounts /\ snd'.repeatsSent \in 0 .. 5
        /\ snd'.par \in {0, 1} /\ (snd'.rpt => snd'.sending)
    BY <1>2, <1>4 DEF SenderInv, SenderTypes
  <2>2. (snd.enc = ID \/ IsNewest(snd.enc))'
    BY <1>4, <1>9
  <2>3. air' \in Seq({ID} \cup DataFrames) /\ Len(air') <= 2
    <3>1. CASE n = 1
      BY <1>1, <1>2, <3>1
    <3>2. CASE n = 2
      BY <1>1, <1>2, <3>2
    <3> QED BY <3>1, <3>2
  <2>4. ASSUME NEW k \in 1 .. Newest' PROVE Len(frames'[k]) = types'[k][1].cars
    <3>1. CASE k \in 1 .. Newest
      BY <1>7, <3>1 DEF SenderInv, SenderTypes
    <3>2. CASE k = Newest + 1
      BY <1>2, <1>7, <3>2
    <3> QED BY <1>5, <1>7, <3>1, <3>2
  <2> QED BY <1>1, <1>4, <1>5, <1>6, <1>7, <2>1, <2>2, <2>3, <2>4 DEF SenderTypes
<1>11. InTheAir'
  <2>1. Len(air') = n /\ \A i \in 1 .. n : air'[i] = f
    BY <1>1
  <2> QED BY <1>9, <2>1 DEF InTheAir
<1>12. FramesDiffer'
  <2>1. /\ \A i \in 1 .. Len(snd.queue) : snd.queue[i] \in 1 .. given
        /\ \A i, j \in 1 .. Len(snd.queue) : i < j => snd.queue[i] < snd.queue[j]
    BY <1>5 DEF SenderInv, FramesDiffer
  <2>2. ASSUME NEW i \in 1 .. Len(snd'.queue)
        PROVE  /\ i + Items(snd) \in 1 .. Len(snd.queue)
               /\ snd'.queue[i] = snd.queue[i + Items(snd)]
    BY <1>6
  <2>3. ASSUME NEW i \in 1 .. Len(snd'.queue)
        PROVE  snd'.queue[i] \in 1 .. given /\ snd.queue[1] < snd'.queue[i]
    <3>1. 1 \in 1 .. Len(snd.queue) /\ 1 < i + Items(snd)
      BY <1>2, <1>5
    <3> QED BY <2>1, <2>2, <3>1
  <2>4. ASSUME NEW i \in 1 .. Len(snd'.queue), NEW j \in 1 .. Len(snd'.queue), i < j
        PROVE  snd'.queue[i] < snd'.queue[j]
    <3>1. i + Items(snd) < j + Items(snd)
      BY <1>2, <1>5, <2>4
    <3> QED BY <2>1, <2>2, <3>1
  <2>5. \A k \in 1 .. Newest : FirstItem(k)' = FirstItem(k)
    BY <1>7 DEF FirstItem
  <2>6. \A k : k = Newest + 1 => FirstItem(k)' = snd.queue[1]
    BY <1>2, <1>7 DEF FirstItem
  <2>7. /\ snd.queue[1] \in 1 .. given
        /\ \A k \in 1 .. Newest : FirstItem(k) \in 1 .. given /\ FirstItem(k) < snd.queue[1]
    <3>1. 1 \in 1 .. Len(snd.queue)
      BY <1>2, <1>5
    <3> QED BY <2>1, <3>1 DEF SenderInv, FramesDiffer
  <2>8. ASSUME NEW k \in 1 .. Newest'
        PROVE  /\ FirstItem(k)' \in 1 .. given
               /\ \A i \in 1 .. Len(snd'.queue) : FirstItem(k)' < snd'.queue[i]
    <3>1. CASE k \in 1 .. Newest
      <4>1. FirstItem(k)' \in 1 .. given /\ FirstItem(k)' < snd.queue[1]
        BY <2>5, <2>7, <3>1
      <4> QED BY <1>5, <2>3, <2>7, <4>1
    <3>2. CASE k = Newest + 1
      BY <2>3, <2>6, <2>7, <3>2
    <3> QED BY <1>5, <1>7, <3>1, <3>2
  <2>9. ASSUME NEW k \in 1 .. Newest', NEW l \in 1 .. Newest', k < l
        PROVE  FirstItem(k)' < FirstItem(l)'
    <3>1. k \in 1 .. Newest
      BY <1>5, <1>7, <2>9
    <3>2. CASE l \in 1 .. Newest
      BY <2>5, <2>9, <3>1, <3>2 DEF SenderInv, FramesDiffer
    <3>3. CASE l = Newest + 1
      <4>1. FirstItem(k)' = FirstItem(k) /\ FirstItem(l)' = snd.queue[1]
        BY <2>5, <2>6, <3>1, <3>3
      <4> QED BY <2>7, <3>1, <4>1
    <3> QED BY <1>5, <1>7, <3>2, <3>3
  <2> QED BY <1>1, <1>4, <2>3, <2>4, <2>8, <2>9 DEF FramesDiffer
<1> QED BY <1>8, <1>10, <1>11, <1>12 DEF SenderInv

\* What is repeated is the newest frame, with its length cut after an ID.
LEMMA EncodedIsNewest ==
  ASSUME SenderInv
  PROVE  /\ ID \in {ID} \cup DataFrames /\ snd.enc \in {ID} \cup DataFrames
         /\ CutEnc \in {ID} \cup DataFrames
         /\ snd.enc = ID \/ IsNewest(snd.enc)
         /\ CutEnc = ID \/ IsNewest(CutEnc)
<1>1. CASE snd.enc = ID
  BY <1>1 DEF CutEnc, ID
<1>2. CASE IsNewest(snd.enc)
  <2>1. snd.enc \in DataFrames /\ snd.enc.type = "DATA"
    BY <1>2 DEF IsNewest, DataFrames
  <2> DEFINE f == snd.enc
             g == [f EXCEPT !.cut = TRUE]
  <2>2. CutEnc = g
    BY <2>1 DEF CutEnc
  <2>3. g \in DataFrames /\ g.type = f.type /\ g.mode = f.mode /\ g.par = f.par
        /\ g.index = f.index /\ g.chunks = f.chunks
    BY <2>1 DEF DataFrames
  <2>4. IsNewest(g)
    BY <1>2, <2>3 DEF IsNewest, FrameType
  <2> QED BY <1>2, <2>1, <2>2, <2>3, <2>4
<1> QED BY <1>1, <1>2 DEF SenderInv, SenderTypes

\* What comes after an identification or between repeats.
LEMMA PlaysExtend ==
  ASSUME SenderInv,
         \/ SendID
         \/ \E again \in BOOLEAN : SendTenMinuteID(again) \/ Repeat(again)
  PROVE  SenderInv' /\ Extended
<1>1. /\ ID \in {ID} \cup DataFrames /\ snd.enc \in {ID} \cup DataFrames
      /\ CutEnc \in {ID} \cup DataFrames
      /\ snd.enc = ID \/ IsNewest(snd.enc)
      /\ CutEnc = ID \/ IsNewest(CutEnc)
  BY EncodedIsNewest
<1> DEFINE Playable(s) ==
      s \in Seq({ID} \cup DataFrames) /\ Len(s) <= 2
        /\ \A i \in 1 .. Len(s) : s[i] = ID \/ IsNewest(s[i])
<1>2. Playable(<<ID>>) /\ Playable(<<ID, CutEnc>>) /\ Playable(<<snd.enc>>) /\ Playable(air)
  BY <1>1 DEF SenderInv, SenderTypes, InTheAir
<1>3. /\ DOMAIN snd = SenderFields /\ snd.mode \in Modes /\ snd.repeats \in RepeatCounts
      /\ snd.repeatsSent \in 0 .. 5 /\ snd.par \in {0, 1} /\ (snd.rpt => snd.sending)
      /\ (snd.sending /\ snd.first => snd.queue # <<>>)
  BY DEF SenderInv, SenderTypes, FramesDiffer
<1>4. CASE SendID
  <2>1. /\ snd' = [[snd EXCEPT !.needID = FALSE, !.enc = ID, !.disturbed = TRUE]
                     EXCEPT !.plays = @ + 0]
        /\ air' = <<ID>> /\ UNCHANGED <<frames, types, given>>
    BY <1>4 DEF SendID, Play
  <2> QED BY <1>2, <1>3, <2>1, SenderChanges DEF SenderFields
<1>5. ASSUME NEW again \in BOOLEAN, SendTenMinuteID(again) PROVE SenderInv' /\ Extended
  <2>1. /\ snd' = [[snd EXCEPT !.enc = CutEnc, !.disturbed = TRUE] EXCEPT !.plays = @ + 0]
        /\ air' = (IF again THEN <<ID, CutEnc>> ELSE <<ID>>)
        /\ UNCHANGED <<frames, types, given>>
    BY <1>5 DEF SendTenMinuteID, Play
  <2> QED BY <1>1, <1>2, <1>3, <2>1, SenderChanges DEF SenderFields
<1>6. ASSUME NEW again \in BOOLEAN, Repeat(again) PROVE SenderInv' /\ Extended
  <2>1. /\ snd' = [[snd EXCEPT !.repeatsSent = @ + 1]
                     EXCEPT !.plays = @ + (IF again THEN 1 ELSE 0)]
        /\ air' = (IF again THEN <<snd.enc>> ELSE air)
        /\ UNCHANGED <<frames, types, given>>
        /\ ~(snd.repeatsSent >= snd.repeats)
    BY <1>6 DEF Repeat, Play, Continuing, MaySendNew
  <2>2. snd.repeatsSent + 1 \in 0 .. 5
    BY <1>3, <2>1, RepeatsAtMostFive
  <2> QED BY <1>1, <1>2, <1>3, <2>1, <2>2, SenderChanges DEF SenderFields
<1> QED BY <1>4, <1>5, <1>6

\* A frame leaves the air, heard or not.
LEMMA HeardExtends == ASSUME SenderInv, Hear \/ Miss PROVE SenderInv' /\ Extended
<1>1. air # <<>> /\ air' = Tail(air) /\ UNCHANGED <<snd, frames, types, given>>
  BY DEF Hear, Miss
<1>2. air \in Seq({ID} \cup DataFrames) /\ Len(air) <= 2
  BY DEF SenderInv, SenderTypes
<1>3. /\ Tail(air) \in Seq({ID} \cup DataFrames) /\ Len(Tail(air)) <= 2
      /\ \A i \in 1 .. Len(Tail(air)) : i + 1 \in 1 .. Len(air) /\ Tail(air)[i] = air[i + 1]
  BY <1>1, <1>2
<1>4. \A i \in 1 .. Len(air') : air'[i] = ID \/ IsNewest(air'[i])
  BY <1>1, <1>3 DEF SenderInv, InTheAir
<1> QED BY <1>1, <1>3, <1>4, SenderChanges DEF SenderInv, SenderTypes, FramesDiffer

\* Every step keeps the sender's part, and the frames that were sent.
LEMMA StepExtends == ASSUME SenderInv, [Next]_vars PROVE SenderInv' /\ Extended
<1>1. CASE UNCHANGED vars
  BY <1>1, SenderQuiet DEF vars, SenderInv, SenderTypes, FramesDiffer
<1> QED BY <1>1, GiveDataExtends, CommandsExtend, StopExtends, SendNewExtends, PlaysExtend,
           HeardExtends DEF Next, MainPoll, CheckTimers

-------------------------------------------------------------------------------
\* The frames that were sent differ.
LEMMA NoFrameTwice ==
  ASSUME SenderInv, NEW k \in 1 .. Newest, NEW l \in 1 .. Newest, frames[k] = frames[l]
  PROVE  k = l
<1>1. Newest \in Nat /\ given \in Nat
  BY FecAssumption DEF SenderInv, SenderTypes, Newest
<1>2. FirstItem(k) = FirstItem(l) /\ FirstItem(k) \in 1 .. given /\ FirstItem(l) \in 1 .. given
  BY DEF SenderInv, FramesDiffer, FirstItem
<1>3. ~(FirstItem(k) < FirstItem(l)) /\ ~(FirstItem(l) < FirstItem(k))
  BY <1>1, <1>2
<1> QED BY <1>1, <1>3 DEF SenderInv, FramesDiffer

\* No data frame has the type of an ID.
LEMMA IDIsNoData == <<"ID">> \notin DataTypes
BY DEF DataTypes

\* What is remembered when f comes, and what the receiver is when it was demodulated.
Kept(f) == IF FrameType(f) = rcv.lastType THEN rcv.ok ELSE {}
Collected(v, f) ==
  /\ DOMAIN v = ReceiverFields
  /\ v.lastType = FrameType(f) /\ v.index = f.index
  /\ v.ok \subseteq CarriersOf(f.mode) /\ Kept(f) \subseteq v.ok /\ v.seen = v.ok
  /\ v.stored \in [CarriersOf(f.mode) -> Chunk \cup {Junk}]
  /\ \A c \in v.ok : v.stored[c] = IF c \in Kept(f) THEN rcv.stored[c] ELSE f.chunks[c]
  /\ v.sums \in [{1, 2} -> 0 .. 2]
  /\ v.mistaken = (rcv.mistaken \/ (FrameType(f) = rcv.lastType /\ f.index # rcv.index))
  /\ \A x \in {"toHost", "crc", "failed", "got", "erred", "failedIndex", "idHeard"} : v[x] = rcv[x]

\* A data frame of those that are in the air.
LEMMA NewestFrame ==
  ASSUME SenderInv, NEW f, IsNewest(f)
  PROVE  /\ f.mode \in Modes /\ f.mode.cars \in 1 .. 8 /\ f.par \in {0, 1} /\ f.index \in Nat
         /\ FrameType(f) = <<f.mode, f.par>> /\ FrameType(f) \in DataTypes
         /\ f.chunks \in Seq(Chunk) /\ Len(f.chunks) = f.mode.cars
         /\ \A c \in CarriersOf(f.mode) : f.chunks[c] \in Chunk
<1>1. /\ f.type = "DATA" /\ f.mode \in Modes /\ f.par \in {0, 1} /\ f.index \in Nat
      /\ f.chunks \in Seq(Chunk)
  BY DEF IsNewest, DataFrames
<1>2. f.mode.cars \in 1 .. 8
  BY <1>1, ModesHaveCarriers
<1>3. FrameType(f) = <<f.mode, f.par>> /\ FrameType(f) \in DataTypes
  BY <1>1 DEF FrameType, DataTypes
<1>4. Newest \in 1 .. Newest
  BY DEF IsNewest, Newest, SenderInv, SenderTypes
<1>5. Len(f.chunks) = f.mode.cars
  <2>1. f.chunks = frames[Newest] /\ types[Newest] = <<f.mode, f.par>>
    BY <1>3 DEF IsNewest
  <2>2. Len(frames[Newest]) = types[Newest][1].cars
    BY <1>4 DEF SenderInv, SenderTypes
  <2> QED BY <2>1, <2>2
<1> QED BY <1>1, <1>2, <1>3, <1>5 DEF CarriersOf

\* Another type resets the carriers.
LEMMA AcquireKept ==
  ASSUME MemoryTypes, NEW f, IsNewest(f), NEW a, a = Acquire(rcv, f)
  PROVE  /\ DOMAIN a = ReceiverFields
         /\ a.lastType = FrameType(f) /\ a.ok = Kept(f) /\ a.seen = Kept(f)
         /\ \A c \in Kept(f) : a.stored[c] = rcv.stored[c]
         /\ a.sums \in [{1, 2} -> 0 .. 2]
         /\ \A x \in {"toHost", "crc", "failed", "got", "erred", "failedIndex", "index", "mistaken",
                      "idHeard"} : a[x] = rcv[x]
<1>1. /\ DOMAIN rcv = ReceiverFields /\ rcv.sums \in [{1, 2} -> 0 .. 2] /\ rcv.seen = rcv.ok
  BY DEF MemoryTypes
<1>2. <<0, 0>> \in [{1, 2} -> 0 .. 2]
  OBVIOUS
<1>3. CASE FrameType(f) = rcv.lastType
  BY <1>1, <1>3 DEF Acquire, Kept
<1>4. CASE FrameType(f) # rcv.lastType
  BY <1>1, <1>2, <1>4 DEF Acquire, Kept, ReceiverFields
<1> QED BY <1>3, <1>4

\* A carrier that was decoded stays, and one that is decoded holds what was sent.
LEMMA DemodulateCollects ==
  ASSUME SenderInv, MemoryTypes, NEW f, IsNewest(f), NEW good \in SUBSET CarriersOf(f.mode),
         NEW a, a = Acquire(rcv, f), NEW d, d = Demodulate(a, f, good)
  PROVE  /\ DOMAIN d = ReceiverFields
         /\ d.lastType = FrameType(f) /\ d.ok = Kept(f) \cup good
         /\ Kept(f) \subseteq CarriersOf(f.mode)
         /\ d.stored \in [CarriersOf(f.mode) -> Chunk \cup {Junk}]
         /\ \A c \in d.ok : d.stored[c] = IF c \in Kept(f) THEN rcv.stored[c] ELSE f.chunks[c]
         /\ \A x \in ReceiverFields \ {"ok", "stored"} : d[x] = a[x]
<1>1. /\ DOMAIN a = ReceiverFields /\ a.lastType = FrameType(f) /\ a.ok = Kept(f)
      /\ \A c \in Kept(f) : a.stored[c] = rcv.stored[c]
  BY AcquireKept
<1>2. FrameType(f) = <<f.mode, f.par>> /\ \A c \in CarriersOf(f.mode) : f.chunks[c] \in Chunk
  BY NewestFrame
<1>3. Kept(f) \subseteq CarriersOf(f.mode) /\ \A c \in Kept(f) : rcv.stored[c] \in Chunk
  BY <1>2 DEF Kept, MemoryTypes
<1> DEFINE st == [c \in CarriersOf(f.mode) |->
                   CASE c \in a.ok -> a.stored[c]
                     [] c \notin a.ok /\ c \in good -> f.chunks[c]
                     [] c \notin a.ok \cup good -> Junk]
<1>4. d = [a EXCEPT !.ok = a.ok \cup good, !.stored = st]
  BY DEF Demodulate
<1>5. ASSUME NEW c \in CarriersOf(f.mode)
      PROVE  /\ c \in Kept(f) => st[c] = rcv.stored[c]
             /\ c \notin Kept(f) /\ c \in good => st[c] = f.chunks[c]
             /\ c \notin Kept(f) /\ c \notin good => st[c] = Junk
  BY <1>1
<1>6. st \in [CarriersOf(f.mode) -> Chunk \cup {Junk}]
  <2>1. DOMAIN st = CarriersOf(f.mode) /\ \A c \in CarriersOf(f.mode) : st[c] \in Chunk \cup {Junk}
    BY <1>2, <1>3, <1>5
  <2> QED BY <2>1
<1> HIDE DEF st
<1>7. /\ DOMAIN d = ReceiverFields /\ d.ok = Kept(f) \cup good /\ d.stored = st
      /\ \A x \in ReceiverFields \ {"ok", "stored"} : d[x] = a[x]
  BY <1>1, <1>4 DEF ReceiverFields
<1>8. d.lastType = FrameType(f)
  BY <1>1, <1>7 DEF ReceiverFields
<1> QED BY <1>3, <1>5, <1>6, <1>7, <1>8

\* The samples that are counted change nothing else.
LEMMA SaveSamplesCounts ==
  ASSUME NEW d, DOMAIN d = ReceiverFields, d.sums \in [{1, 2} -> 0 .. 2], NEW f,
         NEW t, t = SaveSamples(d, f)
  PROVE  /\ DOMAIN t = ReceiverFields /\ t.sums \in [{1, 2} -> 0 .. 2]
         /\ \A x \in ReceiverFields \ {"sums"} : t[x] = d[x]
<1> DEFINE counts == [c \in {1, 2} |->
                       IF c \notin d.ok /\ d.sums[c] < 2 THEN d.sums[c] + 1 ELSE d.sums[c]]
<1>1. counts \in [{1, 2} -> 0 .. 2]
  OBVIOUS
<1>2. t = d \/ t = [d EXCEPT !.sums = counts]
  BY DEF SaveSamples
<1> HIDE DEF counts
<1> QED BY <1>1, <1>2 DEF ReceiverFields

\* So does a retry, which decodes what was not decoded.
LEMMA RetryCollects ==
  ASSUME NEW t, DOMAIN t = ReceiverFields, NEW f, NEW fixed \in SUBSET CanFix(t, f),
         \A c \in CarriersOf(f.mode) : f.chunks[c] \in Chunk,
         t.stored \in [CarriersOf(f.mode) -> Chunk \cup {Junk}],
         NEW u, u = Retry(t, f, fixed)
  PROVE  /\ DOMAIN u = ReceiverFields /\ u.ok = t.ok \cup fixed
         /\ fixed \subseteq CarriersOf(f.mode) /\ fixed \cap t.ok = {}
         /\ u.stored \in [CarriersOf(f.mode) -> Chunk \cup {Junk}]
         /\ \A c \in CarriersOf(f.mode) :
              u.stored[c] = IF c \in fixed THEN f.chunks[c] ELSE t.stored[c]
         /\ \A x \in ReceiverFields \ {"ok", "stored"} : u[x] = t[x]
<1> DEFINE st == [c \in CarriersOf(f.mode) |-> IF c \in fixed THEN f.chunks[c] ELSE t.stored[c]]
<1>1. u = [t EXCEPT !.ok = t.ok \cup fixed, !.stored = st]
  BY DEF Retry
<1>2. st \in [CarriersOf(f.mode) -> Chunk \cup {Junk}]
  OBVIOUS
<1>3. fixed \subseteq CarriersOf(f.mode) /\ fixed \cap t.ok = {}
  BY DEF CanFix
<1>4. \A c \in CarriersOf(f.mode) : st[c] = IF c \in fixed THEN f.chunks[c] ELSE t.stored[c]
  OBVIOUS
<1> HIDE DEF st
<1> QED BY <1>1, <1>2, <1>3, <1>4 DEF ReceiverFields

\* A data frame is collected from its carriers, and handed on by whether all are decoded.
LEMMA Receives ==
  ASSUME SenderInv, MemoryTypes, NEW f, IsNewest(f), NEW good \in SUBSET CarriersOf(f.mode),
         NEW fixed \in SUBSET CanFix(Tried(rcv, f, good), f)
  PROVE  \E v, n : /\ Collected(v, f) /\ n \in 1 .. f.mode.cars
                   /\ FewCarriers => n = f.mode.cars
                   /\ ReceiveData(rcv, f, good, fixed) =
                        IF CarriersOf(f.mode) \subseteq v.ok
                        THEN PassGood(v, f, SubSeq(v.stored, 1, n)) ELSE PassBad(v, f)
<1> DEFINE a == Acquire(rcv, f)
           d == Demodulate(a, f, good)
           t == SaveSamples(d, f)
           u == Retry(t, f, fixed)
           n == IF Retried(t, f) /\ f.mode.cars > 2 THEN 2 ELSE f.mode.cars
           mistaken == rcv.mistaken \/ (FrameType(f) = rcv.lastType /\ f.index # rcv.index)
           v == [u EXCEPT !.seen = u.seen \cup good \cup fixed, !.index = f.index,
                          !.mistaken = mistaken]
<1>1. /\ f.mode \in Modes /\ f.mode.cars \in 1 .. 8
      /\ \A c \in CarriersOf(f.mode) : f.chunks[c] \in Chunk
  BY NewestFrame
<1>2. /\ DOMAIN a = ReceiverFields /\ a.seen = Kept(f) /\ a.sums \in [{1, 2} -> 0 .. 2]
      /\ \A x \in {"toHost", "crc", "failed", "got", "erred", "failedIndex", "index", "mistaken",
                   "idHeard"} : a[x] = rcv[x]
  BY AcquireKept
<1>3. /\ DOMAIN d = ReceiverFields
      /\ d.lastType = FrameType(f) /\ d.ok = Kept(f) \cup good
      /\ Kept(f) \subseteq CarriersOf(f.mode)
      /\ d.stored \in [CarriersOf(f.mode) -> Chunk \cup {Junk}]
      /\ \A c \in d.ok : d.stored[c] = IF c \in Kept(f) THEN rcv.stored[c] ELSE f.chunks[c]
      /\ \A x \in ReceiverFields \ {"ok", "stored"} : d[x] = a[x]
  BY DemodulateCollects
<1>4. d.sums \in [{1, 2} -> 0 .. 2]
  BY <1>2, <1>3 DEF ReceiverFields
<1>5. t = Tried(rcv, f, good)
  BY DEF Tried
<1> HIDE DEF a, d
<1>6. /\ DOMAIN t = ReceiverFields /\ t.sums \in [{1, 2} -> 0 .. 2]
      /\ \A x \in ReceiverFields \ {"sums"} : t[x] = d[x]
  BY <1>3, <1>4, SaveSamplesCounts
<1> HIDE DEF t
<1>7. t.stored = d.stored /\ t.ok = d.ok
  BY <1>6 DEF ReceiverFields
<1>8. /\ DOMAIN u = ReceiverFields /\ u.ok = t.ok \cup fixed
      /\ fixed \subseteq CarriersOf(f.mode) /\ fixed \cap t.ok = {}
      /\ u.stored \in [CarriersOf(f.mode) -> Chunk \cup {Junk}]
      /\ \A c \in CarriersOf(f.mode) :
           u.stored[c] = IF c \in fixed THEN f.chunks[c] ELSE t.stored[c]
      /\ \A x \in ReceiverFields \ {"ok", "stored"} : u[x] = t[x]
  BY <1>1, <1>3, <1>5, <1>6, <1>7, RetryCollects
<1>9. ReceiveData(rcv, f, good, fixed) =
        IF CarriersOf(f.mode) \subseteq v.ok
        THEN PassGood(v, f, SubSeq(v.stored, 1, n)) ELSE PassBad(v, f)
  <2>1. /\ v.ok = u.ok /\ v.stored = u.stored
    BY <1>8 DEF ReceiverFields
  <2>2. u.mistaken = rcv.mistaken
    BY <1>2, <1>3, <1>6, <1>8 DEF ReceiverFields
  <2> QED BY <1>5, <2>1, <2>2 DEF ReceiveData, Decoded
<1> HIDE DEF u, n, mistaken
<1>10. /\ DOMAIN v = ReceiverFields
       /\ v.seen = u.seen \cup good \cup fixed /\ v.index = f.index /\ v.mistaken = mistaken
       /\ \A x \in ReceiverFields \ {"seen", "index", "mistaken"} : v[x] = u[x]
  BY <1>8 DEF ReceiverFields
<1> HIDE DEF v
<1>11. u.seen = Kept(f)
  BY <1>2, <1>3, <1>6, <1>8 DEF ReceiverFields
<1>12. v.ok = Kept(f) \cup good \cup fixed /\ v.seen = v.ok /\ v.stored = u.stored
  BY <1>3, <1>7, <1>8, <1>10, <1>11 DEF ReceiverFields
<1>13. \A x \in {"toHost", "crc", "failed", "got", "erred", "failedIndex", "idHeard"} : v[x] = rcv[x]
  BY <1>2, <1>3, <1>6, <1>8, <1>10 DEF ReceiverFields
<1>14. v.lastType = FrameType(f) /\ v.sums \in [{1, 2} -> 0 .. 2]
  BY <1>3, <1>6, <1>8, <1>10 DEF ReceiverFields
<1>15. \A c \in v.ok : v.stored[c] = IF c \in Kept(f) THEN rcv.stored[c] ELSE f.chunks[c]
  BY <1>3, <1>7, <1>8, <1>12
<1>16. Collected(v, f)
  BY <1>3, <1>8, <1>10, <1>12, <1>13, <1>14, <1>15 DEF Collected, mistaken
<1>17. n \in 1 .. f.mode.cars /\ (FewCarriers => n = f.mode.cars)
  BY <1>1 DEF n, FewCarriers, Retried
<1> QED BY <1>9, <1>16, <1>17

\* What the host is given, and what becomes of a frame that failed before.
Overtaken(v, f) == v.failed \notin {NONE, FrameType(f)}
Given(w, v, f, data) ==
  /\ DOMAIN w = ReceiverFields
  /\ w.got = Append(v.got, data) /\ w.crc = data /\ w.toHost = FrameType(f)
  /\ w.failed = NONE
  /\ w.erred = IF Overtaken(v, f) THEN v.erred \cup {v.failedIndex} ELSE v.erred
  /\ \A x \in ReceiverFields \ {"got", "crc", "toHost", "failed", "erred"} : w[x] = v[x]
NotDecoded(w, v, f) ==
  /\ DOMAIN w = ReceiverFields
  /\ w.toHost = (IF Overtaken(v, f) THEN v.failed ELSE v.toHost)
  /\ w.failed = FrameType(f) /\ w.failedIndex = f.index
  /\ w.erred = IF Overtaken(v, f) THEN v.erred \cup {v.failedIndex} ELSE v.erred
  /\ \A x \in ReceiverFields \ {"toHost", "failed", "failedIndex", "erred"} : w[x] = v[x]

LEMMA PassGoodGives ==
  ASSUME NEW v, DOMAIN v = ReceiverFields, NEW f, NEW data, ~IsRepeat(v, f, data)
  PROVE  Given(PassGood(v, f, data), v, f, data)
<1> DEFINE w == PassGood(v, f, data)
           g == GiveFailed(v, f)
<1>1. /\ DOMAIN g = ReceiverFields
      /\ g.erred = IF Overtaken(v, f) THEN v.erred \cup {v.failedIndex} ELSE v.erred
      /\ \A x \in ReceiverFields \ {"erred"} : g[x] = v[x]
  BY DEF GiveFailed, Overtaken, ReceiverFields
<1>2. w = [g EXCEPT !.got = Append(g.got, data), !.crc = data, !.toHost = FrameType(f),
                    !.failed = NONE]
  BY DEF PassGood
<1> HIDE DEF g
<1>3. /\ DOMAIN w = ReceiverFields /\ w.got = Append(g.got, data) /\ w.crc = data
      /\ w.toHost = FrameType(f) /\ w.failed = NONE
      /\ \A x \in ReceiverFields \ {"got", "crc", "toHost", "failed"} : w[x] = g[x]
  BY <1>1, <1>2 DEF ReceiverFields
<1>4. g.got = v.got /\ w.erred = g.erred
  BY <1>1, <1>3 DEF ReceiverFields
<1> HIDE DEF w
<1>5. Given(w, v, f, data)
  BY <1>1, <1>3, <1>4 DEF Given
<1> QED BY <1>5 DEF w

LEMMA PassBadKeeps ==
  ASSUME NEW v, DOMAIN v = ReceiverFields, NEW f
  PROVE  NotDecoded(PassBad(v, f), v, f)
<1> DEFINE w == PassBad(v, f)
           g == GiveFailed(v, f)
           toHost == IF v.failed \notin {NONE, FrameType(f)} THEN v.failed ELSE g.toHost
<1>1. /\ DOMAIN g = ReceiverFields
      /\ g.erred = IF Overtaken(v, f) THEN v.erred \cup {v.failedIndex} ELSE v.erred
      /\ \A x \in ReceiverFields \ {"erred"} : g[x] = v[x]
  BY DEF GiveFailed, Overtaken, ReceiverFields
<1>2. w = [g EXCEPT !.toHost = toHost, !.failed = FrameType(f), !.failedIndex = f.index]
  BY <1>1 DEF PassBad, ReceiverFields
<1>3. toHost = (IF Overtaken(v, f) THEN v.failed ELSE v.toHost)
  BY <1>1 DEF Overtaken, ReceiverFields
<1> HIDE DEF g, toHost
<1>4. /\ DOMAIN w = ReceiverFields /\ w.toHost = toHost
      /\ w.failed = FrameType(f) /\ w.failedIndex = f.index
      /\ \A x \in ReceiverFields \ {"toHost", "failed", "failedIndex"} : w[x] = g[x]
  BY <1>1, <1>2 DEF ReceiverFields
<1>5. w.erred = g.erred
  BY <1>4 DEF ReceiverFields
<1> HIDE DEF w
<1>6. NotDecoded(w, v, f)
  BY <1>1, <1>3, <1>4, <1>5 DEF NotDecoded
<1> QED BY <1>6 DEF w

\* A frame that was collected in whole is the data that was sent.
LEMMA CollectedData ==
  ASSUME SenderInv, ListenerInv, NEW f, IsNewest(f), NEW v, Collected(v, f), ~v.mistaken
  PROVE  \A c \in v.ok : v.stored[c] = frames[Newest][c]
<1> SUFFICES ASSUME NEW c \in v.ok PROVE v.stored[c] = frames[Newest][c]
  OBVIOUS
<1>1. f.chunks = frames[Newest] /\ FrameType(f) = types[Newest] /\ f.index = Newest
  BY DEF IsNewest
<1>2. CASE c \in Kept(f)
  <2>1. FrameType(f) = rcv.lastType /\ c \in rcv.ok
    BY <1>2 DEF Kept
  <2>2. ~rcv.mistaken /\ f.index = rcv.index
    BY <2>1 DEF Collected
  <2>3. rcv.stored[c] = frames[rcv.index][c]
    BY <2>1, <2>2 DEF ListenerInv, Remembered
  <2> QED BY <1>1, <1>2, <2>2, <2>3 DEF Collected
<1>3. CASE c \notin Kept(f)
  BY <1>1, <1>3 DEF Collected
<1> QED BY <1>2, <1>3

\* The host's histories stay in range, and the carriers those of the type that came.
LEMMA DataKeepsTypes ==
  ASSUME SenderInv, MemoryTypes, NEW f, IsNewest(f), NEW v, Collected(v, f),
         NEW n \in 1 .. f.mode.cars,
         rcv' = IF CarriersOf(f.mode) \subseteq v.ok
                THEN PassGood(v, f, SubSeq(v.stored, 1, n)) ELSE PassBad(v, f),
         UNCHANGED <<frames, types>>
  PROVE  /\ MemoryTypes'
         /\ \A x \in {"lastType", "ok", "stored", "sums", "seen", "index", "mistaken", "idHeard"} :
              rcv'[x] = v[x]
<1> DEFINE data == SubSeq(v.stored, 1, n)
<1>1. /\ f.mode.cars \in 1 .. 8 /\ FrameType(f) \in DataTypes /\ FrameType(f)[1] = f.mode
      /\ f.index = Newest /\ FrameType(f) = types[Newest] /\ f.index \in Nat /\ f.index >= 1
      /\ \A c \in CarriersOf(f.mode) : f.chunks[c] \in Chunk
  BY NewestFrame DEF IsNewest
<1>2. data \in Seq(Chunk \cup {Junk})
  <2>1. \A i \in 1 .. n : v.stored[i] \in Chunk \cup {Junk}
    BY <1>1 DEF Collected, CarriersOf
  <2> QED BY <1>1, <2>1, SubSeqProperties
<1>3. ASSUME NEW w, DOMAIN w = ReceiverFields,
             \A x \in {"lastType", "ok", "stored", "sums", "seen", "index", "mistaken", "idHeard"} :
               w[x] = v[x],
             w.failedIndex \in 0 .. w.index,
             w.got \in Seq(Seq(Chunk \cup {Junk})),
             w.crc = IF w.got = <<>> THEN NONE ELSE Last(w.got),
             w.failed # NONE => w.failedIndex >= 1 /\ w.failed = types[w.failedIndex],
             w = rcv'
      PROVE  MemoryTypes'
  <2>1. /\ w.lastType = FrameType(f) /\ w.index = Newest /\ w.ok = v.ok /\ w.seen = v.seen
        /\ w.stored = v.stored /\ w.sums = v.sums /\ w.mistaken = v.mistaken
        /\ w.idHeard = rcv.idHeard
    BY <1>1, <1>3 DEF Collected
  <2>2. Newest' = Newest /\ w.index \in 0 .. Newest
    BY <1>1, <2>1 DEF Newest
  <2>3. w.sums \in [{1, 2} -> 0 .. 2] /\ w.seen = w.ok /\ w.mistaken \in BOOLEAN
        /\ w.idHeard \in BOOLEAN
    BY <2>1 DEF Collected, MemoryTypes
  <2>4. \A c \in w.ok : w.stored[c] \in Chunk
    <3> SUFFICES ASSUME NEW c \in w.ok PROVE w.stored[c] \in Chunk
      OBVIOUS
    <3>1. CASE c \in Kept(f)
      BY <2>1, <3>1 DEF Collected, Kept, MemoryTypes
    <3>2. CASE c \notin Kept(f)
      BY <1>1, <2>1, <3>2 DEF Collected
    <3> QED BY <3>1, <3>2
  <2>5. DOMAIN w.stored = CarriersOf(w.lastType[1]) /\ w.ok \subseteq CarriersOf(w.lastType[1])
        /\ w.lastType \in DataTypes
    BY <1>1, <2>1 DEF Collected
  <2> QED BY <1>3, <2>2, <2>3, <2>4, <2>5 DEF MemoryTypes
<1>4. /\ DOMAIN v = ReceiverFields
      /\ v.failed = rcv.failed /\ v.failedIndex = rcv.failedIndex /\ v.got = rcv.got /\ v.crc = rcv.crc
      /\ v.index = Newest
  BY <1>1 DEF Collected
<1>5. /\ rcv.failedIndex \in 0 .. Newest /\ rcv.got \in Seq(Seq(Chunk \cup {Junk}))
      /\ rcv.crc = IF rcv.got = <<>> THEN NONE ELSE Last(rcv.got)
      /\ rcv.failed # NONE => rcv.failedIndex >= 1 /\ rcv.failed = types[rcv.failedIndex]
  BY <1>1 DEF MemoryTypes
<1> HIDE DEF data
<1>6. CASE rcv' = v
  BY <1>3, <1>4, <1>5, <1>6
<1>7. CASE rcv' = PassGood(v, f, data) /\ ~IsRepeat(v, f, data)
  <2>1. /\ DOMAIN rcv' = ReceiverFields
        /\ rcv'.got = Append(v.got, data) /\ rcv'.crc = data /\ rcv'.failed = NONE
        /\ \A x \in ReceiverFields \ {"got", "crc", "toHost", "failed", "erred"} : rcv'[x] = v[x]
    <3>1. Given(rcv', v, f, data)
      BY <1>4, <1>7, PassGoodGives
    <3> QED BY <3>1 DEF Given
  <2>2. /\ rcv'.got \in Seq(Seq(Chunk \cup {Junk})) /\ rcv'.got # <<>> /\ Last(rcv'.got) = data
    <3>1. /\ Append(rcv.got, data) \in Seq(Seq(Chunk \cup {Junk}))
          /\ Len(Append(rcv.got, data)) = Len(rcv.got) + 1
          /\ Append(rcv.got, data)[Len(rcv.got) + 1] = data
      BY <1>2, <1>5
    <3>2. rcv'.got = Append(rcv.got, data)
      BY <1>4, <2>1
    <3>3. rcv'.got # <<>>
      BY <1>5, <3>1, <3>2
    <3> QED BY <3>1, <3>2, <3>3 DEF Last
  <2>3. rcv'.failedIndex \in 0 .. rcv'.index
    BY <1>4, <1>5, <2>1 DEF ReceiverFields
  <2>4. \A x \in {"lastType", "ok", "stored", "sums", "seen", "index", "mistaken", "idHeard"} :
          rcv'[x] = v[x]
    BY <2>1 DEF ReceiverFields
  <2> QED BY <1>3, <2>1, <2>2, <2>3, <2>4
<1>8. CASE rcv' = PassBad(v, f)
  <2>1. /\ DOMAIN rcv' = ReceiverFields
        /\ rcv'.failed = FrameType(f) /\ rcv'.failedIndex = f.index
        /\ \A x \in ReceiverFields \ {"toHost", "failed", "failedIndex", "erred"} : rcv'[x] = v[x]
    <3>1. NotDecoded(rcv', v, f)
      BY <1>4, <1>8, PassBadKeeps
    <3> QED BY <3>1 DEF NotDecoded
  <2>2. rcv'.got = rcv.got /\ rcv'.crc = rcv.crc /\ rcv'.index = Newest
    BY <1>4, <2>1 DEF ReceiverFields
  <2>3. rcv'.failedIndex \in 0 .. rcv'.index
    BY <1>1, <2>1, <2>2
  <2>4. \A x \in {"lastType", "ok", "stored", "sums", "seen", "index", "mistaken", "idHeard"} :
          rcv'[x] = v[x]
    BY <2>1 DEF ReceiverFields
  <2> QED BY <1>1, <1>3, <1>5, <2>1, <2>2, <2>3, <2>4
<1> QED BY <1>6, <1>7, <1>8 DEF PassGood, data

\* An ID frame makes the receiver forget its carriers.
LEMMA IDForgets ==
  ASSUME MemoryTypes, rcv' = ReceiveID(rcv, ID), UNCHANGED <<frames, types>>
  PROVE  /\ MemoryTypes'
         /\ rcv'.lastType = <<"ID">> /\ rcv'.ok = {} /\ rcv'.idHeard = TRUE
         /\ rcv'.toHost = rcv.toHost /\ rcv'.failed = rcv.failed
         /\ rcv'.got = rcv.got /\ rcv'.erred = rcv.erred /\ rcv'.failedIndex = rcv.failedIndex
         /\ rcv'.index = rcv.index /\ rcv'.mistaken = rcv.mistaken
<1>1. DOMAIN rcv = ReceiverFields /\ Newest' = Newest
  BY DEF MemoryTypes, Newest
<1>2. FrameType(ID) = <<"ID">>
  BY DEF FrameType, ID
<1>3. <<0, 0>> \in [{1, 2} -> 0 .. 2] /\ <<"ID">> \notin DataTypes
  BY IDIsNoData
<1> DEFINE a == Acquire(rcv, ID)
<1>4. /\ DOMAIN a = ReceiverFields /\ a.lastType = <<"ID">> /\ a.ok = {} /\ a.seen = {}
      /\ a.sums \in [{1, 2} -> 0 .. 2]
      /\ \A x \in {"toHost", "crc", "failed", "got", "erred", "failedIndex", "index", "mistaken",
                   "idHeard"} : a[x] = rcv[x]
  <2>1. CASE rcv.lastType = <<"ID">>
    <3>1. rcv.ok = {} /\ rcv.seen = {} /\ rcv.sums \in [{1, 2} -> 0 .. 2]
      BY <1>1, <1>3, <2>1 DEF MemoryTypes
    <3> QED BY <1>1, <1>2, <2>1, <3>1 DEF Acquire
  <2>2. CASE rcv.lastType # <<"ID">>
    BY <1>1, <1>2, <1>3, <2>2 DEF Acquire, ReceiverFields
  <2> QED BY <2>1, <2>2
<1>5. rcv' = [a EXCEPT !.idHeard = TRUE]
  BY DEF ReceiveID
<1> HIDE DEF a
<1>6. /\ DOMAIN rcv' = ReceiverFields /\ rcv'.lastType = <<"ID">> /\ rcv'.ok = {} /\ rcv'.seen = {}
      /\ rcv'.sums \in [{1, 2} -> 0 .. 2] /\ rcv'.idHeard = TRUE
      /\ rcv'.toHost = rcv.toHost /\ rcv'.crc = rcv.crc /\ rcv'.failed = rcv.failed
      /\ rcv'.got = rcv.got /\ rcv'.erred = rcv.erred /\ rcv'.failedIndex = rcv.failedIndex
      /\ rcv'.index = rcv.index /\ rcv'.mistaken = rcv.mistaken
  BY <1>4, <1>5 DEF ReceiverFields
<1>7. MemoryTypes'
  BY <1>1, <1>6 DEF MemoryTypes
<1> QED BY <1>6, <1>7

\* What the host was given stays what it was.
LEMMA IDKeeps ==
  ASSUME SenderInv, ListenerInv, rcv' = ReceiveID(rcv, ID), UNCHANGED <<frames, types>>
  PROVE  ListenerInv'
<1>1. MemoryTypes /\ <<"ID">> \notin DataTypes /\ Newest' = Newest
  BY IDIsNoData DEF ListenerInv, Newest
<1>2. /\ MemoryTypes'
      /\ rcv'.lastType = <<"ID">> /\ rcv'.ok = {} /\ rcv'.idHeard = TRUE
      /\ rcv'.toHost = rcv.toHost /\ rcv'.failed = rcv.failed
      /\ rcv'.got = rcv.got /\ rcv'.erred = rcv.erred /\ rcv'.failedIndex = rcv.failedIndex
      /\ rcv'.index = rcv.index /\ rcv'.mistaken = rcv.mistaken
  BY <1>1, IDForgets
<1>3. Remembered'
  BY <1>2 DEF Remembered
<1>4. \A k \in 1 .. Newest : types[k] \in DataTypes
  BY DEF SenderInv, SenderTypes, Newest
<1>5. ~Whole'
  <2>1. rcv.index >= 1 => rcv.index \in 1 .. Newest
    BY <1>1 DEF MemoryTypes, Newest
  <2> QED BY <1>1, <1>2, <1>4, <2>1 DEF Whole
<1>6. Delivered'
  <2> SUFFICES ASSUME ~rcv.mistaken PROVE Delivered'
    BY <1>2 DEF Delivered
  <2>1. PICK at \in [1 .. Len(rcv.got) -> 1 .. rcv.index] :
          Places(at) /\ Known(at) /\ ErredApart(at)
    BY DEF ListenerInv, Delivered
  <2>2. at \in [1 .. Len(rcv'.got) -> 1 .. rcv'.index] /\ Places(at)'
    BY <1>2, <2>1 DEF Places
  <2>3. Known(at)' /\ ErredApart(at)'
    BY <1>2, <2>1 DEF Known, GivenNow, ErredApart
  <2> QED BY <2>2, <2>3 DEF Delivered
<1> QED BY <1>2, <1>3, <1>5, <1>6 DEF ListenerInv, WholeIsGiven

-------------------------------------------------------------------------------
\* Where the last item of the host's data comes from: of the newest frame if it has its data.
LEMMA LastPlace ==
  ASSUME SenderInv, MemoryTypes, NEW at \in [1 .. Len(rcv.got) -> 1 .. rcv.index], Places(at),
         Newest >= 1, rcv.got # <<>>
  PROVE  /\ Len(rcv.got) \in 1 .. Len(rcv.got) /\ at[Len(rcv.got)] \in 1 .. rcv.index
         /\ rcv.index \in 1 .. Newest
         /\ Last(rcv.got) = frames[at[Len(rcv.got)]]
         /\ \A i \in 1 .. Len(rcv.got) : at[i] = Newest => i = Len(rcv.got)
         /\ at[Len(rcv.got)] = Newest => rcv.index = Newest /\ GivenNow(at)
         /\ Last(rcv.got) = frames[Newest] => at[Len(rcv.got)] = Newest
<1> DEFINE n == Len(rcv.got)
<1>1. /\ rcv.got \in Seq(Seq(Chunk \cup {Junk})) /\ rcv.index \in 0 .. Newest /\ Newest \in Nat
  BY DEF MemoryTypes, SenderInv, SenderTypes, Newest
<1>2. n \in Nat /\ n \in 1 .. n
  BY <1>1
<1>3. at[n] \in 1 .. rcv.index /\ rcv.index \in 1 .. Newest /\ at[n] \in 1 .. Newest
  <2>1. at[n] \in 1 .. rcv.index
    BY <1>2
  <2> QED BY <1>1, <2>1
<1>4. Last(rcv.got) = frames[at[n]]
  BY <1>2 DEF Last, Places
<1>5. \A i \in 1 .. n : at[i] = Newest => i = n
  <2> SUFFICES ASSUME NEW i \in 1 .. n, at[i] = Newest, i # n PROVE FALSE
    OBVIOUS
  <2>1. i < n
    BY <1>2
  <2>2. at[i] < at[n]
    BY <1>2, <2>1 DEF Places
  <2> QED BY <1>1, <1>3, <2>2
<1>6. at[n] = Newest => rcv.index = Newest
  BY <1>1, <1>3
<1>7. Last(rcv.got) = frames[Newest] => at[n] = Newest
  <2>1. Newest \in 1 .. Newest
    BY <1>1
  <2> QED BY <1>3, <1>4, <2>1, NoFrameTwice
<1> QED BY <1>2, <1>3, <1>4, <1>5, <1>6, <1>7 DEF GivenNow

\* A frame that comes in whole is given, unless it was.
LEMMA GoodDelivers ==
  ASSUME SenderInv, ListenerInv, NEW f, IsNewest(f), NEW v, Collected(v, f), ~v.mistaken,
         CarriersOf(f.mode) \subseteq v.ok, NEW data, data = frames[Newest],
         rcv' = PassGood(v, f, data), UNCHANGED <<frames, types>>,
         Whole', rcv'.index = Newest
  PROVE  Delivered' /\ rcv'.got # <<>> /\ Last(rcv'.got) = frames[Newest]
<1> DEFINE n == Len(rcv.got)
<1>1. /\ f.index = Newest /\ FrameType(f) = types[Newest] /\ Newest >= 1 /\ Newest \in Nat
      /\ Newest' = Newest
  BY DEF IsNewest, SenderInv, SenderTypes, Newest
<1>2. /\ DOMAIN v = ReceiverFields
      /\ v.toHost = rcv.toHost /\ v.crc = rcv.crc /\ v.failed = rcv.failed /\ v.got = rcv.got
      /\ v.erred = rcv.erred /\ v.failedIndex = rcv.failedIndex /\ v.idHeard = rcv.idHeard
      /\ ~rcv.mistaken
  BY DEF Collected
<1>3. /\ MemoryTypes /\ rcv.index \in 0 .. Newest /\ rcv.failedIndex \in 0 .. rcv.index
      /\ rcv.got \in Seq(Seq(Chunk \cup {Junk}))
      /\ rcv.crc = IF rcv.got = <<>> THEN NONE ELSE Last(rcv.got)
      /\ rcv.failed # NONE => rcv.failedIndex >= 1 /\ rcv.failed = types[rcv.failedIndex]
  BY DEF ListenerInv, MemoryTypes
<1>4. PICK at \in [1 .. n -> 1 .. rcv.index] : Places(at) /\ Known(at) /\ ErredApart(at)
  BY <1>2 DEF ListenerInv, Delivered
<1>5. data # NONE
  BY <1>1, NoneAssumption DEF SenderInv, SenderTypes, Newest, Chunk
<1>6. n \in Nat
  BY <1>3
<1>7. CASE IsRepeat(v, f, data)
  <2>1. rcv' = v /\ rcv.toHost = types[Newest] /\ rcv.crc = data
    BY <1>1, <1>2, <1>7 DEF PassGood, IsRepeat
  <2>2. rcv.got # <<>> /\ Last(rcv.got) = frames[Newest]
    BY <1>3, <1>5, <2>1
  <2>3. rcv.index = Newest /\ GivenNow(at)
    BY <1>1, <1>3, <1>4, <2>2, LastPlace
  <2>4. rcv'.got = rcv.got /\ rcv'.toHost = rcv.toHost /\ rcv'.failed = rcv.failed
        /\ rcv'.erred = rcv.erred /\ rcv'.failedIndex = rcv.failedIndex
        /\ rcv'.idHeard = rcv.idHeard /\ rcv'.index = rcv.index
    BY <1>2, <2>1, <2>3
  <2>5. at \in [1 .. Len(rcv'.got) -> 1 .. rcv'.index] /\ Places(at)'
    BY <1>4, <2>4 DEF Places
  <2>6. Known(at)'
    BY <1>1, <1>4, <2>1, <2>3, <2>4 DEF Known
  <2>7. ErredApart(at)'
    BY <1>4, <2>4 DEF ErredApart, NotGiven
  <2> QED BY <2>2, <2>4, <2>5, <2>6, <2>7 DEF Delivered
<1>8. CASE ~IsRepeat(v, f, data)
  <2>1. Given(rcv', v, f, data)
    BY <1>2, <1>8, PassGoodGives
  <2>2. /\ rcv'.got = Append(rcv.got, data) /\ rcv'.toHost = types[Newest] /\ rcv'.failed = NONE
        /\ rcv'.erred = (IF Overtaken(v, f) THEN rcv.erred \cup {rcv.failedIndex} ELSE rcv.erred)
        /\ rcv'.idHeard = rcv.idHeard
    BY <1>1, <1>2, <2>1 DEF Given, ReceiverFields
  <2>3. /\ Len(rcv'.got) = n + 1 /\ rcv'.got[n + 1] = frames[Newest]
        /\ \A i \in 1 .. n : rcv'.got[i] = rcv.got[i]
    BY <1>3, <2>2
  <2>4. rcv'.got # <<>> /\ Last(rcv'.got) = frames[Newest]
    BY <1>6, <2>3 DEF Last
  <2>5. ASSUME NEW i \in 1 .. n PROVE at[i] \in 1 .. Newest - 1
    <3>1. rcv.got # <<>>
      BY <1>3, <1>6
    <3>2. at[i] # Newest
      <4> SUFFICES ASSUME at[i] = Newest PROVE FALSE
        OBVIOUS
      <4>1. GivenNow(at) /\ rcv.index = Newest /\ Last(rcv.got) = frames[Newest]
        BY <1>1, <1>3, <1>4, <3>1, LastPlace
      <4>2. rcv.toHost = types[Newest] /\ rcv.crc = data
        BY <1>3, <1>4, <3>1, <4>1 DEF Known
      <4> QED BY <1>1, <1>2, <1>8, <4>2 DEF IsRepeat
    <3>3. at[i] \in 1 .. rcv.index
      BY <1>4
    <3> QED BY <1>1, <1>3, <3>2, <3>3
  <2>6. PICK new \in [1 .. n + 1 -> 1 .. Newest] :
          new[n + 1] = Newest /\ \A i \in 1 .. n : new[i] = at[i]
    <3> DEFINE later == [i \in 1 .. n + 1 |-> IF i <= n THEN at[i] ELSE Newest]
    <3>1. later \in [1 .. n + 1 -> 1 .. Newest]
      BY <1>1, <1>6, <2>5
    <3>2. later[n + 1] = Newest /\ \A i \in 1 .. n : later[i] = at[i]
      BY <1>6
    <3> HIDE DEF later
    <3> QED BY <3>1, <3>2
  <2>7. \A i \in 1 .. n + 1 : i \in 1 .. n \/ i = n + 1
    BY <1>6
  <2>8. Places(new)'
    <3>1. \A i \in 1 .. n + 1 : rcv'.got[i] = frames[new[i]]
      BY <1>4, <2>3, <2>6, <2>7 DEF Places
    <3>2. ASSUME NEW i \in 1 .. n + 1, NEW j \in 1 .. n + 1, i < j PROVE new[i] < new[j]
      <4>1. i \in 1 .. n
        BY <1>6, <3>2
      <4>2. CASE j \in 1 .. n
        BY <1>4, <2>6, <3>2, <4>1, <4>2 DEF Places
      <4>3. CASE j = n + 1
        BY <1>1, <2>5, <2>6, <4>1, <4>3
      <4> QED BY <2>7, <4>2, <4>3
    <3> QED BY <2>3, <2>6, <3>1, <3>2 DEF Places
  <2>9. Known(new)'
    BY <2>2 DEF Known
  <2>10. ASSUME ~rcv.idHeard, NEW k \in rcv'.erred
         PROVE  k \in 1 .. Newest - 1 /\ \A i \in 1 .. n + 1 : new[i] # k
    <3>1. k \in 1 .. Newest - 1 /\ NotGiven(at, k)
      <4>1. CASE k \in rcv.erred
        BY <1>1, <1>3, <1>4, <2>10, <4>1 DEF ErredApart
      <4>2. CASE k = rcv.failedIndex /\ Overtaken(v, f)
        <5>1. rcv.failed # NONE /\ rcv.failed # types[Newest]
          BY <1>1, <1>2, <4>2 DEF Overtaken
        <5>2. k # Newest /\ k \in 1 .. Newest
          BY <1>1, <1>3, <4>2, <5>1
        <5>3. NotGiven(at, k)
          BY <1>4, <2>10, <4>2, <5>1 DEF ErredApart
        <5> QED BY <1>1, <5>2, <5>3
      <4> QED BY <2>2, <2>10, <4>1, <4>2
    <3>2. \A i \in 1 .. n : new[i] # k
      BY <2>6, <3>1 DEF NotGiven
    <3>3. new[n + 1] # k
      BY <1>1, <2>6, <3>1
    <3> QED BY <2>7, <3>1, <3>2, <3>3
  <2>11. ErredApart(new)'
    BY <2>2, <2>3, <2>10 DEF ErredApart, NotGiven
  <2> QED BY <2>3, <2>4, <2>6, <2>8, <2>9, <2>11 DEF Delivered
<1> QED BY <1>7, <1>8

\* A frame that fails was not given, unless an ID frame made the receiver forget it.
LEMMA BadDelivers ==
  ASSUME SenderInv, ListenerInv, NEW f, IsNewest(f), NEW v, Collected(v, f), ~v.mistaken,
         ~(CarriersOf(f.mode) \subseteq v.ok), rcv' = PassBad(v, f), UNCHANGED <<frames, types>>
  PROVE  Delivered'
<1> DEFINE n == Len(rcv.got)
<1>1. /\ f.index = Newest /\ FrameType(f) = types[Newest] /\ FrameType(f)[1] = f.mode
      /\ Newest >= 1 /\ Newest \in Nat /\ Newest' = Newest
  <2>1. FrameType(f) = <<f.mode, f.par>>
    BY NewestFrame
  <2> QED BY <2>1 DEF IsNewest, SenderInv, SenderTypes, Newest
<1>2. /\ DOMAIN v = ReceiverFields /\ v.index = Newest
      /\ v.toHost = rcv.toHost /\ v.crc = rcv.crc /\ v.failed = rcv.failed /\ v.got = rcv.got
      /\ v.erred = rcv.erred /\ v.failedIndex = rcv.failedIndex /\ v.idHeard = rcv.idHeard
      /\ ~rcv.mistaken
  BY <1>1 DEF Collected
<1>3. /\ MemoryTypes /\ rcv.index \in 0 .. Newest /\ rcv.failedIndex \in 0 .. rcv.index
      /\ rcv.got \in Seq(Seq(Chunk \cup {Junk}))
      /\ rcv.failed # NONE => rcv.failedIndex >= 1 /\ rcv.failed = types[rcv.failedIndex]
  BY DEF ListenerInv, MemoryTypes
<1>4. PICK at \in [1 .. n -> 1 .. rcv.index] : Places(at) /\ Known(at) /\ ErredApart(at)
  BY <1>2 DEF ListenerInv, Delivered
<1>5. n \in Nat
  BY <1>3
<1>6. /\ rcv'.got = rcv.got /\ rcv'.index = Newest /\ rcv'.idHeard = rcv.idHeard
      /\ rcv'.toHost = (IF Overtaken(v, f) THEN rcv.failed ELSE rcv.toHost)
      /\ rcv'.failed = types[Newest] /\ rcv'.failedIndex = Newest
      /\ rcv'.erred = (IF Overtaken(v, f) THEN rcv.erred \cup {rcv.failedIndex} ELSE rcv.erred)
  <2>1. NotDecoded(rcv', v, f)
    BY <1>2, PassBadKeeps
  <2> QED BY <1>1, <1>2, <2>1 DEF NotDecoded, ReceiverFields
<1>7. at \in [1 .. n -> 1 .. Newest]
  <2>1. \A i \in 1 .. n : at[i] \in 1 .. rcv.index
    BY <1>4
  <2>2. \A i \in 1 .. n : at[i] \in 1 .. Newest
    BY <1>1, <1>3, <2>1
  <2> QED BY <1>4, <2>2
<1>8. Places(at)'
  BY <1>4, <1>6, <1>7 DEF Places
\* Had it been given and nothing forgotten, all of it would be remembered.
<1>9. GivenNow(at) /\ rcv.index = Newest => rcv.idHeard
  <2> SUFFICES ASSUME GivenNow(at), rcv.index = Newest, Whole PROVE FALSE
    BY <1>4 DEF Known, MemoryTypes
  <2>1. rcv.lastType = FrameType(f) /\ CarriersOf(f.mode) \subseteq rcv.ok
    BY <1>1 DEF Whole
  <2> QED BY <2>1 DEF Collected, Kept
<1>10. Known(at)'
  <2> SUFFICES ASSUME rcv.got # <<>>, at[n] = Newest PROVE Known(at)'
    BY <1>6 DEF Known, GivenNow
  <2>1. GivenNow(at) /\ rcv.index = Newest
    BY <1>1, <1>3, <1>4, LastPlace
  <2>2. rcv.toHost = types[Newest] /\ ~Overtaken(v, f) /\ rcv.idHeard
    BY <1>1, <1>2, <1>4, <1>9, <2>1 DEF Known, Overtaken
  <2> QED BY <1>6, <2>2 DEF Known
<1>11. ASSUME ~rcv.idHeard PROVE NotGiven(at, Newest)
  <2> SUFFICES ASSUME NEW i \in 1 .. n, at[i] = Newest PROVE FALSE
    BY DEF NotGiven
  <2>1. rcv.got # <<>>
    BY <1>3, <1>5
  <2>2. GivenNow(at) /\ rcv.index = Newest
    BY <1>1, <1>3, <1>4, <2>1, LastPlace
  <2> QED BY <1>9, <1>11, <2>2
<1>12. ASSUME ~rcv.idHeard, NEW k \in rcv'.erred
       PROVE  k \in 1 .. Newest - 1 /\ NotGiven(at, k)
  <2>1. CASE k \in rcv.erred
    BY <1>1, <1>3, <1>4, <1>12, <2>1 DEF ErredApart
  <2>2. CASE k = rcv.failedIndex /\ Overtaken(v, f)
    <3>1. rcv.failed # NONE /\ rcv.failed # types[Newest]
      BY <1>1, <1>2, <2>2 DEF Overtaken
    <3>2. k # Newest /\ k \in 1 .. Newest
      BY <1>1, <1>3, <2>2, <3>1
    <3>3. NotGiven(at, k)
      BY <1>4, <1>12, <2>2, <3>1 DEF ErredApart
    <3> QED BY <1>1, <3>2, <3>3
  <2> QED BY <1>6, <1>12, <2>1, <2>2
<1>13. ErredApart(at)'
  BY <1>6, <1>11, <1>12 DEF ErredApart, NotGiven
<1> QED BY <1>6, <1>7, <1>8, <1>10, <1>13 DEF Delivered

\* A data frame keeps the listener's part, as long as a retry has all of its carriers.
LEMMA DataKeeps ==
  ASSUME SenderInv, ListenerInv, FewCarriers, NEW f, IsNewest(f),
         NEW good \in SUBSET CarriersOf(f.mode),
         NEW fixed \in SUBSET CanFix(Tried(rcv, f, good), f),
         rcv' = ReceiveData(rcv, f, good, fixed), UNCHANGED <<frames, types>>
  PROVE  ListenerInv'
<1> DEFINE n == f.mode.cars
<1>1. MemoryTypes
  BY DEF ListenerInv
<1>2. PICK v : /\ Collected(v, f)
               /\ rcv' = IF CarriersOf(f.mode) \subseteq v.ok
                         THEN PassGood(v, f, SubSeq(v.stored, 1, n)) ELSE PassBad(v, f)
  BY <1>1, Receives
<1>3. /\ n \in 1 .. 8 /\ n \in 1 .. n /\ FrameType(f) = types[Newest] /\ FrameType(f)[1] = f.mode
      /\ f.index = Newest /\ Newest >= 1 /\ Newest \in Nat /\ Newest' = Newest
      /\ f.chunks = frames[Newest] /\ f.chunks \in Seq(Chunk) /\ Len(f.chunks) = n
  <2>1. /\ n \in 1 .. 8 /\ FrameType(f) = <<f.mode, f.par>>
        /\ f.chunks \in Seq(Chunk) /\ Len(f.chunks) = n
    BY NewestFrame
  <2>2. /\ FrameType(f) = types[Newest] /\ f.index = Newest /\ Newest >= 1 /\ Newest \in Nat
        /\ f.chunks = frames[Newest]
    BY DEF IsNewest, SenderInv, SenderTypes, Newest
  <2>3. Newest' = Newest
    BY DEF Newest
  <2>4. n \in 1 .. n /\ FrameType(f)[1] = f.mode
    BY <2>1
  <2> QED BY <2>1, <2>2, <2>3, <2>4
<1>4. /\ MemoryTypes'
      /\ \A x \in {"lastType", "ok", "stored", "sums", "seen", "index", "mistaken", "idHeard"} :
           rcv'[x] = v[x]
  BY <1>1, <1>2, <1>3, DataKeepsTypes
<1>5. /\ rcv'.lastType = types[Newest] /\ rcv'.ok = v.ok /\ rcv'.stored = v.stored
      /\ rcv'.index = Newest /\ rcv'.mistaken = v.mistaken
  BY <1>2, <1>3, <1>4 DEF Collected
<1>6. ~v.mistaken => \A c \in v.ok : v.stored[c] = frames[Newest][c]
  BY <1>2, CollectedData
<1>7. Remembered'
  BY <1>3, <1>5, <1>6 DEF Remembered
<1>8. Whole' <=> CarriersOf(f.mode) \subseteq v.ok
  BY <1>3, <1>5 DEF Whole
<1>9. CASE v.mistaken
  BY <1>4, <1>5, <1>7, <1>9 DEF ListenerInv, WholeIsGiven, Delivered
<1>10. CASE ~v.mistaken /\ ~(CarriersOf(f.mode) \subseteq v.ok)
  <2>1. Delivered'
    BY <1>2, <1>10, BadDelivers
  <2> QED BY <1>4, <1>7, <1>8, <1>10, <2>1 DEF ListenerInv, WholeIsGiven
<1>11. CASE ~v.mistaken /\ CarriersOf(f.mode) \subseteq v.ok
  <2> DEFINE data == SubSeq(v.stored, 1, n)
  <2>1. data = frames[Newest]
    <3>1. \A c \in 1 .. n : v.stored[c] = f.chunks[c] /\ f.chunks[c] \in Chunk
      BY <1>3, <1>6, <1>11 DEF CarriersOf
    <3>2. /\ data \in Seq(Chunk) /\ Len(data) = n
          /\ \A i \in 1 .. n - 1 + 1 : data[i] = v.stored[1 + i - 1]
      <4>1. \A i \in 1 .. n : v.stored[i] \in Chunk
        BY <3>1
      <4>2. 1 \in Int /\ n \in Int /\ 1 <= n /\ n - 1 + 1 = n
        BY <1>3
      <4> QED BY <4>1, <4>2, SubSeqProperties
    <3>3. \A i \in 1 .. n : data[i] = f.chunks[i]
      BY <1>3, <3>1, <3>2
    <3> QED BY <1>3, <3>2, <3>3
  <2> HIDE DEF data
  <2>2. rcv' = PassGood(v, f, data)
    BY <1>2, <1>11 DEF data
  <2>3. Delivered' /\ rcv'.got # <<>> /\ Last(rcv'.got) = frames[Newest]
    BY <1>2, <1>5, <1>8, <1>11, <2>1, <2>2, GoodDelivers
  <2> QED BY <1>3, <1>4, <1>5, <1>7, <2>3 DEF ListenerInv, WholeIsGiven
<1> QED BY <1>9, <1>10, <1>11

\* What is heard: an ID, or the newest frame with some of its carriers.
LEMMA HearCases ==
  ASSUME SenderInv, Hear
  PROVE  /\ UNCHANGED <<frames, types>>
         /\ \/ rcv' = ReceiveID(rcv, ID)
            \/ \E f : IsNewest(f) /\ \E good \in SUBSET CarriersOf(f.mode) :
                 \E fixed \in SUBSET CanFix(Tried(rcv, f, good), f) :
                   rcv' = ReceiveData(rcv, f, good, fixed)
<1> DEFINE f == Head(air)
<1>1. f = ID \/ IsNewest(f)
  BY DEF Hear, SenderInv, SenderTypes, InTheAir
<1>2. CASE f = ID
  BY <1>2 DEF Hear, ID
<1>3. CASE IsNewest(f)
  <2>1. f.type = "DATA"
    BY <1>3 DEF IsNewest, DataFrames
  <2> QED BY <1>3, <2>1 DEF Hear
<1> QED BY <1>1, <1>2, <1>3

\* A step that is not of the receiver leaves it.
LEMMA OnlyHearReceives == ASSUME [Next]_vars, ~Hear PROVE UNCHANGED rcv
BY DEF Next, vars, GiveData, StartFEC, AbortFEC, SetFECRepeats, SendIDCommand, SetFECMode,
       Setting, MainPoll, CheckTimers, SendID, Stop, SendNew, SendTenMinuteID, Repeat, Play, Miss,
       radio

\* Every step keeps the memory of the receiver in its types, however many carriers a mode has.
LEMMA StepKeepsTypes ==
  ASSUME SenderInv, MemoryTypes, [Next]_vars PROVE SenderInv' /\ MemoryTypes'
<1>1. SenderInv' /\ Extended /\ Newest \in Nat /\ Newest' \in Nat
  BY StepExtends DEF SenderInv, SenderTypes, Newest
<1>2. CASE Hear
  <2>1. CASE rcv' = ReceiveID(rcv, ID)
    BY <1>1, <1>2, <2>1, HearCases, IDForgets
  <2>2. ASSUME NEW f, IsNewest(f), NEW good \in SUBSET CarriersOf(f.mode),
               NEW fixed \in SUBSET CanFix(Tried(rcv, f, good), f),
               rcv' = ReceiveData(rcv, f, good, fixed)
        PROVE  MemoryTypes'
    <3>1. PICK v, n :
            /\ Collected(v, f) /\ n \in 1 .. f.mode.cars
            /\ rcv' = IF CarriersOf(f.mode) \subseteq v.ok
                      THEN PassGood(v, f, SubSeq(v.stored, 1, n)) ELSE PassBad(v, f)
      BY <2>2, Receives
    <3>2. UNCHANGED <<frames, types>>
      BY <1>2, HearCases
    <3> QED BY <2>2, <3>1, <3>2, DataKeepsTypes
  <2> QED BY <1>1, <1>2, <2>1, <2>2, HearCases
<1>3. CASE ~Hear
  BY <1>1, <1>3, OnlyHearReceives, TypesStay
<1> QED BY <1>1, <1>2, <1>3

\* With few carriers, every step keeps what the host is given.
LEMMA StepKeepsFec ==
  ASSUME FewCarriers, FecInv, [Next]_vars PROVE FecInv'
<1>1. /\ SenderInv /\ ListenerInv
      /\ SenderInv' /\ Extended /\ Newest \in Nat /\ Newest' \in Nat
  BY StepExtends DEF FecInv, SenderInv, SenderTypes, Newest
<1>2. CASE Hear
  BY <1>1, <1>2, HearCases, IDKeeps, DataKeeps DEF FecInv
<1>3. CASE ~Hear
  BY <1>1, <1>3, OnlyHearReceives, ListenerStays DEF FecInv
<1> QED BY <1>2, <1>3

\* The types of both stations follow.
LEMMA TypesGiveTypeOK == ASSUME SenderInv, MemoryTypes PROVE TypeOK
<1>1. \A c \in Chunk : c # Junk
  <2>1. MaxItems \in Nat /\ \A i \in 1 .. MaxItems : i # 0
    BY FecAssumption
  <2>2. <<>> # Junk /\ \A i \in 1 .. MaxItems : <<i>> # Junk
    BY <2>1 DEF Junk
  <2> QED BY <2>2 DEF Chunk
<1>2. rcv.ok \subseteq DOMAIN rcv.stored /\ \A c \in rcv.ok : rcv.stored[c] # Junk
  BY <1>1 DEF MemoryTypes
<1> QED BY <1>2 DEF TypeOK, SenderInv, SenderTypes, MemoryTypes

\* What the host is given are frames that were sent, in their order.
LEMMA FecInvDelivers == ASSUME FecInv PROVE DeliversInOrder
<1> SUFFICES ASSUME ~rcv.mistaken PROVE
      /\ \E at \in [1 .. Len(rcv.got) -> 1 .. Len(frames)] :
           /\ \A i \in 1 .. Len(rcv.got) : rcv.got[i] = frames[at[i]]
           /\ \A i, j \in 1 .. Len(rcv.got) : i < j => at[i] < at[j]
      /\ ~rcv.idHeard => \A k \in rcv.erred : frames[k] \notin Range(rcv.got)
  BY DEF DeliversInOrder
<1>1. PICK at \in [1 .. Len(rcv.got) -> 1 .. rcv.index] : Places(at) /\ Known(at) /\ ErredApart(at)
  BY DEF FecInv, ListenerInv, Delivered
<1>2. rcv.index \in 0 .. Newest /\ Newest \in Nat
  BY DEF FecInv, ListenerInv, MemoryTypes, SenderInv, SenderTypes, Newest
<1>3. ASSUME NEW i \in 1 .. Len(rcv.got) PROVE at[i] \in 1 .. Newest
  <2>1. at[i] \in 1 .. rcv.index
    BY <1>1
  <2> QED BY <1>2, <2>1
<1>4. at \in [1 .. Len(rcv.got) -> 1 .. Len(frames)]
  BY <1>1, <1>3 DEF Newest
<1>5. ASSUME ~rcv.idHeard, NEW k \in rcv.erred PROVE frames[k] \notin Range(rcv.got)
  <2>1. k \in 1 .. rcv.index - 1 /\ NotGiven(at, k)
    BY <1>1, <1>5 DEF ErredApart
  <2>2. k \in 1 .. Newest
    BY <1>2, <2>1
  <2>3. ASSUME NEW i \in 1 .. Len(rcv.got) PROVE rcv.got[i] # frames[k]
    <3>1. rcv.got[i] = frames[at[i]] /\ at[i] # k
      BY <1>1, <2>1 DEF Places, NotGiven
    <3> QED BY <1>3, <2>2, <3>1, NoFrameTwice DEF FecInv
  <2>4. DOMAIN rcv.got = 1 .. Len(rcv.got)
    BY DEF FecInv, ListenerInv, MemoryTypes
  <2> QED BY <2>3, <2>4 DEF Range
<1> QED BY <1>1, <1>4, <1>5 DEF Places

\* Once all carriers of a frame were decoded the host has it.
LEMMA FecInvAddsUp == ASSUME FecInv PROVE CarriersAddUp
BY DEF FecInv, ListenerInv, MemoryTypes, WholeIsGiven, Whole, CarriersAddUp

-------------------------------------------------------------------------------
\* The sender and the memory of the receiver keep their types, for any modes: no carrier that
\* was decoded holds what was not sent, and the repeats stay within FECREPEATS.
THEOREM FecTypes == Spec => []TypeOK
<1>1. Init => SenderInv /\ MemoryTypes
  BY InitFec DEF FecInv, ListenerInv
<1>2. SenderInv /\ MemoryTypes /\ [Next]_vars => (SenderInv /\ MemoryTypes)'
  BY StepKeepsTypes
<1>3. SenderInv /\ MemoryTypes => TypeOK
  BY TypesGiveTypeOK
<1> QED BY <1>1, <1>2, <1>3, PTL DEF Spec

\* SoundInput.c and FEC.c together: as long as no mode of QAM has more than two carriers (with
\* more, the retry loses data), the two parts hold at all times.
THEOREM FecHolds == ASSUME FewCarriers PROVE Spec => []FecInv
<1>1. Init => FecInv
  BY InitFec
<1>2. FecInv /\ [Next]_vars => FecInv'
  BY StepKeepsFec
<1> QED BY <1>1, <1>2, PTL DEF Spec

\* "Pass good data frame": the host of the listener is given the frames that were sent, in their
\* order and each once, whatever copies and carriers were lost, and none of them as ERR too.
THEOREM FecDelivers == ASSUME FewCarriers PROVE Spec => []DeliversInOrder
BY FecHolds, FecInvDelivers, PTL

\* A frame whose carriers were all decoded, from any of its copies, is given to the host.
THEOREM FecAddsUp == ASSUME FewCarriers PROVE Spec => []CarriersAddUp
BY FecHolds, FecInvAddsUp, PTL
===============================================================================
