----------------------------- MODULE FecReceiver -----------------------------
(***************************************************************************)
(* The reception of data frames by ardop1 (ext/ardop1/SoundInput.c), with  *)
(* its memory of the carriers a frame has already been decoded from, and   *)
(* ProcessRcvdFECDataFrame (FEC.c), which decides what the host is given.  *)
(*                                                                         *)
(* A mode is a modulation and a number of carriers; a carrier holds one    *)
(* item of data or none, and is decoded or not as a whole: its CRC and     *)
(* Reed-Solomon code tell.  The data of a frame is what its carriers hold, *)
(* one after another.  The fields of the receiver's record are             *)
(*   lastType    LastDataFrameType                                         *)
(*   ok          CarrierOk                                                 *)
(*   stored      bytFrameData1 .. bytFrameData8                            *)
(*   sums        intSumCounts of the carriers                              *)
(*   toHost, crc intLastFrameIDToHost, crcLastFECDataPassedToHost          *)
(*   failed      intLastFailedFrameID, with bytFailedDataLength > 0        *)
(* and histories: got is the data the host was given, erred the frames it  *)
(* was given as ERR, failedIndex the frame that failed, index the data     *)
(* frame that came last, seen the carriers of it that were decoded since   *)
(* the carriers were last reset, idHeard that an ID frame came, and        *)
(* mistaken that a frame came with the type of the last one though it was  *)
(* another.                                                                *)
(***************************************************************************)
EXTENDS Integers, SequencesExt

CONSTANT NONE

FSK == "4FSK"
PSK == "PSK"
QAM == "QAM"

CarriersOf(mode) == 1 .. mode.cars

\* What a carrier holds that was not decoded.
Junk == <<0>>

FrameType(f) == IF f.type = "DATA" THEN <<f.mode, f.par>> ELSE <<f.type>>

NewReceiver ==
  [lastType |-> NONE, ok |-> {}, stored |-> <<>>, sums |-> <<0, 0>>, toHost |-> NONE,
   crc |-> NONE, failed |-> NONE, got |-> <<>>, erred |-> {}, failedIndex |-> 0, index |-> 0,
   seen |-> {}, mistaken |-> FALSE, idHeard |-> FALSE]

\* Mutant of Acquire: the carriers are not reset.
AcquireKeeping(r, f) == [r EXCEPT !.lastType = FrameType(f)]
\* A frame of another type than the last long frame resets the carriers.
Acquire(r, f) ==
  IF FrameType(f) = r.lastType THEN r
  ELSE [r EXCEPT !.lastType = FrameType(f), !.ok = {}, !.seen = {}, !.stored = <<>>,
                 !.sums = <<0, 0>>]

\* Mutant of Demodulate: every carrier is demodulated again.
DemodulateAgain(r, f, good) ==
  [r EXCEPT !.ok = good,
            !.stored = [c \in CarriersOf(f.mode) |-> IF c \in good THEN f.chunks[c] ELSE Junk]]
\* Mutant of Demodulate: the CRC is not looked at.
DemodulateUnchecked(r, f, good) ==
  [r EXCEPT !.ok = CarriersOf(f.mode),
            !.stored = [c \in CarriersOf(f.mode) |->
                          CASE c \in r.ok -> @[c]
                            [] c \notin r.ok /\ c \in good -> f.chunks[c]
                            [] c \notin r.ok \cup good -> Junk]]
\* A carrier that was decoded is not demodulated again; CorrectRawDataWithRS tells of the
\* others whether they are right.
Demodulate(r, f, good) ==
  [r EXCEPT !.ok = @ \cup good,
            !.stored = [c \in CarriersOf(f.mode) |->
                          CASE c \in r.ok -> @[c]
                            [] c \notin r.ok /\ c \in good -> f.chunks[c]
                            [] c \notin r.ok \cup good -> Junk]]

\* The memory of SaveQAMSamples: only the first two carriers have one, and only while one
\* of them is missing.  Of one carrier the second is never there.
SaveSamples(r, f) ==
  IF f.mode.mod # QAM \/ {1, 2} \subseteq r.ok THEN r
  ELSE [r EXCEPT !.sums = [c \in {1, 2} |->
                             IF c \notin r.ok /\ @[c] < 2 THEN @[c] + 1 ELSE @[c]]]

\* The retry with averaged samples decodes the carriers in fixed; it collects the data of
\* the first two carriers alone.
Retried(r, f) == f.mode.mod = QAM /\ ~({1, 2} \subseteq r.ok) /\ \E c \in {1, 2} : r.sums[c] > 1
Retry(r, f, fixed) ==
  [r EXCEPT !.ok = @ \cup fixed,
            !.stored = [c \in CarriersOf(f.mode) |-> IF c \in fixed THEN f.chunks[c] ELSE @[c]]]
CanFix(r, f) ==
  IF Retried(r, f) THEN {c \in CarriersOf(f.mode) \cap {1, 2} : c \notin r.ok /\ r.sums[c] > 1}
  ELSE {}

\* DecodeFrame: all carriers of the mode are right.
Decoded(r, f) == CarriersOf(f.mode) \subseteq r.ok

\* The failed frame of another type goes to the host, as ERR.
GiveFailed(r, f) ==
  IF r.failed \notin {NONE, FrameType(f)} THEN [r EXCEPT !.erred = @ \cup {r.failedIndex}] ELSE r

\* The frame has the type and the CRC of the last one that went to the host.
IsRepeat(r, f, data) == r.toHost = FrameType(f) /\ r.crc = data

\* ProcessRcvdFECDataFrame
PassGood(r, f, data) ==
  IF IsRepeat(r, f, data) THEN r
  ELSE [GiveFailed(r, f) EXCEPT !.got = Append(@, data), !.crc = data,
                                !.toHost = FrameType(f), !.failed = NONE]
PassBad(r, f) ==
  [GiveFailed(r, f) EXCEPT
     !.toHost = IF r.failed \notin {NONE, FrameType(f)} THEN r.failed ELSE @,
     !.failed = FrameType(f), !.failedIndex = f.index]

\* A data frame comes; the carriers in good are decodable, and a retry decodes fixed.
Tried(r, f, good) == SaveSamples(Demodulate(Acquire(r, f), f, good), f)
ReceiveData(r, f, good, fixed) ==
  LET t == Tried(r, f, good)
      u == Retry(t, f, fixed)
      n == IF Retried(t, f) /\ f.mode.cars > 2 THEN 2 ELSE f.mode.cars
      data == SubSeq(u.stored, 1, n)
      v == [u EXCEPT !.seen = @ \cup good \cup fixed, !.index = f.index,
                     !.mistaken = @ \/ (FrameType(f) = r.lastType /\ f.index # r.index)]
  IN IF Decoded(u, f) THEN PassGood(v, f, data) ELSE PassBad(v, f)

\* An ID frame goes to the host as well, and its type is remembered like any other.
ReceiveID(r, f) == [Acquire(r, f) EXCEPT !.idHeard = TRUE]
===============================================================================
