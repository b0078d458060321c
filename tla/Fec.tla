--------------------------------- MODULE Fec ---------------------------------
(***************************************************************************)
(* FEC mode of ardop1: a station that sends the data of its host in frames *)
(* that nobody acknowledges, each repeated FECREPEATS times (FEC.c, with   *)
(* CheckTimers and MainPoll of ARDOPC.c and the commands of                *)
(* HostInterface.c), and a station that listens (FecReceiver).             *)
(*                                                                         *)
(* The fields of the sender's record are                                   *)
(*   sending          ProtocolState = FECSend (or else DISC)               *)
(*   abort, needID    blnAbort, NeedID                                     *)
(*   rpt              blnEnbARQRpt                                         *)
(*   first            intFECFramesSent = 0                                 *)
(*   repeats, repeatsSent  FECRepeats, FECRepeatsSent                      *)
(*   mode, par        strFECMode, the parity of bytLastFECDataFrameSent    *)
(*   queue            bytDataToSend                                        *)
(*   enc              bytEncodedBytes with EncLen: cut says that EncLen is *)
(*                    too short for the frame                              *)
(* and the histories plays, how often the newest data frame was played,    *)
(* and disturbed, that a command, an abort or an ID came in between.       *)
(*                                                                         *)
(* The receiver hears the frames in the air in order, or misses them: the  *)
(* sender does not wait, and what it plays next covers what was not heard. *)
(* Items are 1, 2, 3, ... in the order the host gave them.                 *)
(***************************************************************************)
EXTENDS FecReceiver, FiniteSets

CONSTANTS
  Modes,        \* records [mod, cars]: the data modes; 4FSK has one carrier, or the three blocks of
                \* 0x7A (the types 0x78 and 0x79 of DecodeFrame are no valid frame types)
  RepeatCounts, \* what FECREPEATS may set
  MaxItems,     \* bound: items the host gives
  MaxStarts,    \* bound: FECSEND TRUE
  MaxSettings,  \* bound: FECMODE, FECREPEATS, SENDID and FECSEND FALSE commands
  MaxIds        \* bound: identifications after ten minutes

ASSUME FecAssumption ==
  /\ \A mode \in Modes : /\ mode.mod \in {FSK, PSK, QAM} /\ mode.cars \in 1 .. 8
                         /\ mode.mod = FSK => mode.cars \in {1, 3}
  /\ RepeatCounts \subseteq 0 .. 5
  /\ {MaxItems, MaxStarts, MaxSettings, MaxIds} \subseteq Nat

\* NONE is not the CRC of any data.
ASSUME NoneAssumption == NONE \notin Seq({<<>>} \cup {<<i>> : i \in 1 .. MaxItems})

VARIABLES
  snd,    \* the sender
  rcv,    \* the receiver
  air,    \* the frames played and not yet heard
  frames, \* history: the data of the frames sent, repeats left out
  types,  \* history: their types
  given, starts, settings, ids \* what the host has done so far

vars == <<snd, rcv, air, frames, types, given, starts, settings, ids>>
radio == <<rcv, air, frames, types>>

ID == [type |-> "ID"]

Init ==
  /\ \E mode \in Modes, repeats \in RepeatCounts :
       snd = [sending |-> FALSE, abort |-> FALSE, needID |-> FALSE, rpt |-> FALSE,
              first |-> TRUE, repeats |-> repeats, repeatsSent |-> 0, mode |-> mode, par |-> 0,
              queue |-> <<>>, enc |-> ID, plays |-> 0, disturbed |-> FALSE]
  /\ rcv = NewReceiver
  /\ air = <<>> /\ frames = <<>> /\ types = <<>>
  /\ given = 0 /\ starts = 0 /\ settings = 0 /\ ids = 0

-------------------------------------------------------------------------------
\* Commands of the host.

GiveData ==
  /\ given < MaxItems
  /\ given' = given + 1
  /\ snd' = [snd EXCEPT !.queue = Append(@, given')]
  /\ UNCHANGED <<radio, starts, settings, ids>>

\* FECSEND TRUE.  While data is being sent, StartFEC only adds more (here, none).
StartFEC ==
  /\ starts < MaxStarts
  /\ starts' = starts + 1
  /\ \E fecId \in BOOLEAN :
       snd' = IF snd.sending \/ snd.queue = <<>> THEN snd
              ELSE [snd EXCEPT !.abort = FALSE, !.sending = TRUE, !.needID = @ \/ fecId]
  /\ UNCHANGED <<radio, given, settings, ids>>

Setting(s) ==
  /\ settings < MaxSettings
  /\ settings' = settings + 1
  /\ snd' = [s EXCEPT !.disturbed = TRUE]
  /\ UNCHANGED <<radio, given, starts, ids>>

\* FECSEND FALSE, and ABORT
AbortFEC == Setting([snd EXCEPT !.abort = TRUE])
SetFECRepeats == \E n \in RepeatCounts : Setting([snd EXCEPT !.repeats = n])
SendIDCommand == ~snd.sending /\ Setting([snd EXCEPT !.needID = TRUE])

\* FECMODE, which hosts give between transmissions.
SetFECMode ==
  /\ ~snd.sending
  /\ \E mode \in Modes : Setting([snd EXCEPT !.mode = mode, !.first = TRUE])

-------------------------------------------------------------------------------
\* GetNextFECFrame.

DISC(s) == [s EXCEPT !.sending = FALSE, !.queue = <<>>]

Items(s) == IF Len(s.queue) < s.mode.cars THEN Len(s.queue) ELSE s.mode.cars

\* EncodePSKData, EncodeFSKData: the data is dealt to the carriers in order, and the last
\* ones may stay empty.
Chunks(s) == [c \in CarriersOf(s.mode) |-> IF c <= Items(s) THEN <<s.queue[c]>> ELSE <<>>]

NextParity(s) == IF s.first THEN 0 ELSE 1 - s.par

DataFrame(s) ==
  [type |-> "DATA", mode |-> s.mode, par |-> NextParity(s), chunks |-> Chunks(s),
   cut |-> FALSE, index |-> Len(frames) + 1]

\* Played as often as CheckTimers or MainPoll, which called GetNextFECFrame, play it.
Play(s, n, playing) ==
  /\ snd' = [s EXCEPT !.plays = @ + n]
  /\ air' = playing
  /\ UNCHANGED rcv

Aborting == snd.abort
Finishing == ~snd.abort /\ snd.sending /\ snd.queue = <<>> /\ snd.repeatsSent >= snd.repeats
Continuing == ~snd.abort /\ snd.sending /\ ~Finishing

\* Mutant of MaySendNew: one repeat less.
MaySendNewEarly == Continuing /\ (snd.first \/ snd.repeatsSent + 1 >= snd.repeats)
\* The frame before is done with.
MaySendNew == Continuing /\ (snd.first \/ snd.repeatsSent >= snd.repeats)

\* The call goes to DISC and returns FALSE.
Stop ==
  /\ Aborting \/ Finishing
  /\ snd' = [DISC(snd) EXCEPT !.abort = FALSE, !.rpt = FALSE]
  /\ UNCHANGED <<radio, given, starts, settings, ids>>

\* New data: n is 1 from MainPoll, and 2 from CheckTimers, which repeats it at once.
SendNew(n) ==
  /\ MaySendNew
  /\ LET f == DataFrame(snd) IN
     /\ Play([snd EXCEPT !.first = FALSE, !.rpt = snd.repeats > 0, !.repeatsSent = 0,
                         !.par = f.par, !.enc = f, !.plays = 0, !.disturbed = snd.needID,
                         !.queue = SubSeq(@, Items(snd) + 1, Len(@))],
             n, [i \in 1 .. n |-> f])
     /\ frames' = Append(frames, f.chunks)
     /\ types' = Append(types, FrameType(f))
  /\ UNCHANGED <<given, starts, settings, ids>>

CutEnc == IF snd.enc.type = "DATA" THEN [snd.enc EXCEPT !.cut = TRUE] ELSE snd.enc

\* Ten minutes have passed: ID is encoded in a buffer of its own, but its length in EncLen.
SendTenMinuteID(again) ==
  /\ MaySendNew /\ ~snd.first /\ ids < MaxIds
  /\ ids' = ids + 1
  /\ Play([snd EXCEPT !.enc = CutEnc, !.disturbed = TRUE], 0,
          IF again THEN <<ID, CutEnc>> ELSE <<ID>>)
  /\ UNCHANGED <<frames, types, given, starts, settings>>

\* Mutant of Repeat: repeats are not counted.
RepeatUncounted(again) ==
  /\ Continuing /\ ~MaySendNew
  /\ Play(snd, IF again THEN 1 ELSE 0, IF again THEN <<snd.enc>> ELSE air)
  /\ UNCHANGED <<frames, types, given, starts, settings, ids>>
\* One more repeat, which only CheckTimers plays.
Repeat(again) ==
  /\ Continuing /\ ~MaySendNew
  /\ Play([snd EXCEPT !.repeatsSent = @ + 1], IF again THEN 1 ELSE 0,
          IF again THEN <<snd.enc>> ELSE air)
  /\ UNCHANGED <<frames, types, given, starts, settings, ids>>

MainPoll ==
  /\ ~snd.rpt
  /\ Stop \/ SendNew(1) \/ SendTenMinuteID(FALSE) \/ Repeat(FALSE)

CheckTimers ==
  /\ snd.rpt
  /\ Stop \/ SendNew(2) \/ SendTenMinuteID(TRUE) \/ Repeat(TRUE)

\* ID is encoded over the data frame.
SendID ==
  /\ snd.needID
  /\ Play([snd EXCEPT !.needID = FALSE, !.enc = ID, !.disturbed = TRUE], 0, <<ID>>)
  /\ UNCHANGED <<frames, types, given, starts, settings, ids>>

-------------------------------------------------------------------------------
\* The receiver.

Hear ==
  /\ air # <<>>
  /\ air' = Tail(air)
  /\ LET f == Head(air) IN
     \/ /\ f.type = "ID"
        /\ rcv' = ReceiveID(rcv, f)
     \/ /\ f.type = "DATA"
        /\ \E good \in SUBSET (IF f.cut THEN {} ELSE CarriersOf(f.mode)) :
             \E fixed \in SUBSET (IF f.cut THEN {} ELSE CanFix(Tried(rcv, f, good), f)) :
               rcv' = ReceiveData(rcv, f, good, fixed)
  /\ UNCHANGED <<snd, frames, types, given, starts, settings, ids>>

\* The leader or the type of the frame is not found.
Miss ==
  /\ air # <<>>
  /\ air' = Tail(air)
  /\ UNCHANGED <<snd, rcv, frames, types, given, starts, settings, ids>>

Next ==
  \/ GiveData \/ StartFEC \/ AbortFEC \/ SetFECRepeats \/ SendIDCommand \/ SetFECMode
  \/ MainPoll \/ CheckTimers \/ SendID
  \/ Hear \/ Miss

Spec == Init /\ [][Next]_vars

\* The station polls, and the timer of the repeats runs out.
FairSpec == Spec /\ WF_vars(MainPoll) /\ WF_vars(CheckTimers) /\ WF_vars(SendID)

-------------------------------------------------------------------------------
\* Properties.

\* The types of the sender and of the receiver's memory: a carrier that is right has data
\* that was sent, and the repeats are counted up to FECREPEATS.
TypeOK ==
  /\ snd.mode \in Modes /\ snd.repeats \in RepeatCounts /\ snd.repeatsSent \in 0 .. 5
  /\ snd.par \in {0, 1} /\ snd.queue \in Seq(1 .. MaxItems)
  /\ snd.rpt => snd.sending
  /\ Len(air) <= 2 /\ Len(types) = Len(frames)
  /\ rcv.ok \subseteq DOMAIN rcv.stored
  /\ \A c \in rcv.ok : rcv.stored[c] # Junk
  /\ rcv.sums \in [{1, 2} -> 0 .. 2]

\* "Pass good data frame" (FEC.c:370): what the host is given is the data of frames
\* that were sent, in their order and each once, however copies were lost, came with
\* different carriers damaged or were put together from several (until a frame is taken
\* for a repeat of another).  With QAM on more than two carriers it fails: see Retry.  No
\* frame is given both as good and as ERR, as long as no ID frame comes between its copies.
DeliversInOrder ==
  ~rcv.mistaken =>
    /\ \E at \in [1 .. Len(rcv.got) -> 1 .. Len(frames)] :
         /\ \A i \in 1 .. Len(rcv.got) : rcv.got[i] = frames[at[i]]
         /\ \A i, j \in 1 .. Len(rcv.got) : i < j => at[i] < at[j]
    /\ ~rcv.idHeard => \A k \in rcv.erred : frames[k] \notin Range(rcv.got)

\* Once each carrier of a frame was decoded from some copy of it, its host has the frame
\* (SoundInput.c:1187, "still skip decoding carriers that have been received").
CarriersAddUp ==
  rcv.index > 0 /\ ~rcv.mistaken /\ rcv.lastType = types[rcv.index]
    /\ rcv.seen = CarriersOf(rcv.lastType[1])
  => rcv.got # <<>> /\ Last(rcv.got) = frames[rcv.index]

\* Each data frame is played at least FECREPEATS times more before another takes its place
\* or sending ends, whether MainPoll or CheckTimers comes to it.
RepeatsKept ==
  [][frames # <<>> /\ ~snd.disturbed
       /\ (Len(frames') > Len(frames) \/ (snd.sending /\ ~snd'.sending))
     => snd.plays > snd.repeats]_vars

\* Sending comes to an end, and the station back to DISC.
FecEnds == snd.sending ~> ~snd.sending
===============================================================================
