------------------------------ MODULE ArqStation ------------------------------
(***************************************************************************)
(* The ARQ state of one ardop1 station (ext/ardop1/ARQ.c) as a record, and *)
(* the subroutines that change it as operators from record to record.  The *)
(* field tx says that the subroutine played the encoded frame: the module  *)
(* Arq puts it in the air and resets the field.                            *)
(*                                                                         *)
(*   state, sub         ProtocolState, ARQState                            *)
(*   connected, pending blnARQConnected, blnPending                        *)
(*   sid, psid, lastSid bytSessionID, bytPendingSessionID,                 *)
(*                      bytLastARQSessionID                                *)
(*   rpt, discRpt       blnEnbARQRpt, blnDISCRepeating                     *)
(*   disc, breakCmd     blnARQDisconnect, blnBREAKCmd                      *)
(*   abort, needCall    blnAbort, NeedConReq                               *)
(*   repeats            intRepeatCount                                     *)
(*   pendTimer          tmrIRSPendingTimeout is running                    *)
(*   sendTimer, timedOut  tmrSendTimeout is running, blnTimeoutTriggered   *)
(*   idTimer            tmrFinalID is running                              *)
(*   queue              bytDataToSend, bytDataToSendLength                 *)
(*   inProcess          bytQDataInProcessLen                               *)
(*   sentData           blnLastFrameSentData                               *)
(*   arqBW, callBW      ARQBandwidth, CallBandwidth: settings              *)
(*   bw                 intSessionBW                                       *)
(*   table, mode        bytFrameTypesForBW, as the width it is for, and    *)
(*                      intFrameTypePtr, the place in it                   *)
(*   acked              bytLastARQDataFrameAcked, its parity               *)
(*   sent               bytLastARQDataFrameSent, its parity                *)
(*   toHost             intLastARQDataFrameToHost                          *)
(*   lastAcked          bytLastACKedDataFrameType                          *)
(*   enc                bytEncodedBytes, what a repeat plays again         *)
(* and three histories: what the host gave the station to send, what the   *)
(* station gave its host, and what an ACK removed from the queue.          *)
(*                                                                         *)
(* Data is a sequence of items of ItemSize bytes, the smallest amount the  *)
(* host adds.  The frame type of a data frame is its place in the table    *)
(* and its parity.                                                         *)
(***************************************************************************)
EXTENDS ArqBandwidth

CONSTANTS
  ConReqRepeats, \* ARQConReqRepeats, the parameter of ARQCALL
  DiscRepeats,   \* the 5 of GetNextARQFrame
  ItemSize,      \* bytes of an item
  FF,            \* the session id 0xFF of a station that has no session
  NONE

\* A session has the name of the station that called: the id is a hash of both
\* callsigns, caller first.

Encode4FSKControl(type, id) ==
  [type |-> type, id |-> id, mode |-> 0, par |-> 0, data |-> <<>>, bw |-> UNDEFINED]
DataFrame(id, mode, par, data) ==
  [Encode4FSKControl("DATA", id) EXCEPT !.mode = mode, !.par = par, !.data = data]
EncodeARQConRequest(request) == [Encode4FSKControl("ConReq", FF) EXCEPT !.bw = request]
EncodeConACK(bw, id) == [Encode4FSKControl("ConAck", id) EXCEPT !.bw = UpTo(bw)]
EncodeDATAACK(id) == Encode4FSKControl("ACK", id)
EncodeDATANAK(id) == Encode4FSKControl("NAK", id)
Encode4FSKIDFrame == Encode4FSKControl("ID", FF)

FrameType(f) == IF f.type = "DATA" THEN <<f.mode, f.par>> ELSE <<f.type>>

NewStation(arqBW, callBW) ==
  [arqBW |-> arqBW, callBW |-> callBW, bw |-> 0, table |-> 1000,
   state |-> "DISC", sub |-> "None", connected |-> FALSE, pending |-> FALSE,
   sid |-> FF, psid |-> NONE, lastSid |-> NONE, rpt |-> FALSE, discRpt |-> FALSE,
   disc |-> FALSE, breakCmd |-> FALSE, abort |-> FALSE, needCall |-> FALSE,
   repeats |-> 0, pendTimer |-> FALSE, sendTimer |-> FALSE, timedOut |-> FALSE,
   idTimer |-> FALSE, queue |-> <<>>, inProcess |-> 0, sentData |-> FALSE,
   mode |-> 0, acked |-> 0, sent |-> 0, toHost |-> NONE, lastAcked |-> NONE,
   enc |-> NONE, tx |-> FALSE, given |-> 0, got |-> <<>>, confirmed |-> {}]

Play(s, frame) == [s EXCEPT !.enc = frame, !.tx = TRUE]
\* Mutant of Remodulate: nothing is played again.
RemodulateNothing(s) == s
Remodulate(s) == [s EXCEPT !.tx = s.enc # NONE]

InitializeConnection(s) == [s EXCEPT !.sid = FF, !.lastAcked = NONE, !.bw = 0]
ClearDataToSend(s) == [s EXCEPT !.queue = <<>>]

SetARDOPProtocolState(s, value) ==
  LET t == [s EXCEPT !.state = value] IN
  CASE s.state = value -> s
    [] s.state # value /\ value = "DISC" ->
         ClearDataToSend([t EXCEPT !.disc = FALSE, !.connected = FALSE, !.pending = FALSE])
    [] s.state # value /\ value \in {"ISS", "IDLE"} -> [t EXCEPT !.rpt = FALSE]
    [] s.state # value /\ value \in {"IRS", "IRStoISS"} -> [t EXCEPT !.lastAcked = NONE]

CheckForDisconnect(s) ==
  Play([s EXCEPT !.repeats = 1, !.disc = FALSE, !.discRpt = TRUE, !.rpt = FALSE],
       Encode4FSKControl("DISC", s.sid))

\* GetNextFrameData: where it begins, and the items of the queue that a frame of a mode takes.
InitModes(s, bw) == [s EXCEPT !.bw = bw, !.table = bw, !.mode = StartMode(bw)]
Room(s, mode) == MaxLen(ModeOf(s.table, mode)) \div ItemSize
Take(s, mode) == IF Len(s.queue) < Room(s, mode) THEN Len(s.queue) ELSE Room(s, mode)

\* SendData with GetNextFrameData: shift is intShiftUpDn.
SendData(s, shift) ==
  LET mode == s.mode + shift
      n == Take(s, mode)
      par == 1 - s.acked
  IN CASE s.discRpt \/ s.state # "ISS" -> s
       [] ~s.discRpt /\ s.state = "ISS" /\ s.disc -> CheckForDisconnect(s)
       [] ~s.discRpt /\ s.state = "ISS" /\ ~s.disc /\ s.queue # <<>> ->
            Play([s EXCEPT !.mode = mode, !.inProcess = n, !.sent = par, !.sentData = TRUE,
                           !.rpt = TRUE, !.sub = "ISSData"],
                 DataFrame(s.sid, mode, par, SubSeq(s.queue, 1, n)))
       [] ~s.discRpt /\ s.state = "ISS" /\ ~s.disc /\ s.queue = <<>> ->
            Play([SetARDOPProtocolState(s, "IDLE") EXCEPT !.rpt = TRUE, !.sentData = FALSE],
                 Encode4FSKControl("IDLE", s.sid))

RemoveDataFromQueue(s, len) ==
  LET n == IF len > Len(s.queue) THEN Len(s.queue) ELSE len
  IN [s EXCEPT !.queue = SubSeq(s.queue, n + 1, Len(s.queue)),
               !.confirmed = @ \cup {s.queue[i] : i \in 1 .. n}]

\* What Gearshift_9 may decide: quality averages and counters are left out.
DownShift(s) == IF s.mode > 0 THEN {-1} ELSE {}
UpShift(s) ==
  IF /\ s.mode < LastMode(s.table)
     /\ Len(s.queue) * ItemSize > FrameSize[ModeOf(s.table, s.mode)]
  THEN {1} ELSE {}

\* The pending request is answered: the record of a station that will be IRS.
AnswerConReq(s, caller, bw) ==
  Play([SetARDOPProtocolState(InitializeConnection([s EXCEPT !.queue = <<>>]), "IRS")
          EXCEPT !.psid = caller, !.pending = TRUE, !.rpt = FALSE, !.pendTimer = TRUE,
                 !.sub = "IRSConAck", !.toHost = NONE],
       EncodeConACK(bw, caller))

\* Mutant of StartBreak: the station sends at once, without waiting for the ACK.
BreakAtOnce(s) ==
  Play([SetARDOPProtocolState(s, "ISS") EXCEPT !.sub = "ISSData"], Encode4FSKControl("BREAK", s.sid))
\* BREAK is sent, and repeated, until the other station acknowledges it.
StartBreak(s) ==
  Play([SetARDOPProtocolState(s, "IRStoISS") EXCEPT !.rpt = TRUE], Encode4FSKControl("BREAK", s.sid))

\* BREAK is acknowledged, and the station that was sending becomes the one that receives.
AckBreak(s) == Play([s EXCEPT !.rpt = FALSE], EncodeDATAACK(s.sid))
BecomeIRS(s) ==
  [SetARDOPProtocolState(s, "IRS") EXCEPT !.sub = "IRSfromISS", !.toHost = NONE]
TurnOver(s) == BecomeIRS(AckBreak(s))

\* The host is told CONNECTED by the station that called.
CallerConnected(s) ==
  [s EXCEPT !.rpt = FALSE, !.connected = TRUE, !.acked = 1, !.pending = FALSE, !.sub = "ISSData"]

\* DISCONNECTED: DISC is heard by the IRS, or by the ISS that has sent data.  END is
\* encoded after InitializeConnection has cleared the session id.
AnswerDisc(s) ==
  LET t == InitializeConnection(
             SetARDOPProtocolState(ClearDataToSend(
               [s EXCEPT !.lastSid = s.sid, !.idTimer = TRUE, !.discRpt = FALSE]), "DISC"))
  IN Play([t EXCEPT !.rpt = FALSE], Encode4FSKControl("END", t.sid))

\* The same in IDLE, where END is played first and the connection is not reset.
PlayEnd(s) ==
  Play([s EXCEPT !.idTimer = TRUE, !.discRpt = FALSE], Encode4FSKControl("END", s.sid))
KeepLastSid(s) ==
  [SetARDOPProtocolState(ClearDataToSend(s), "DISC") EXCEPT !.lastSid = s.sid, !.rpt = FALSE]
AnswerDiscIdle(s) == KeepLastSid(PlayEnd(s))

\* DISCONNECTED: END is heard.  The ISS identifies itself; the IRS has cleared its callsign by then.
Ended(s) ==
  Play(InitializeConnection(SetARDOPProtocolState(
         [ClearDataToSend(s) EXCEPT !.discRpt = FALSE], "DISC")), Encode4FSKIDFrame)
EndedIRS(s) ==
  [InitializeConnection(SetARDOPProtocolState(ClearDataToSend(s), "DISC"))
     EXCEPT !.rpt = FALSE, !.discRpt = FALSE]
EndedIdle(s) ==
  [SetARDOPProtocolState(Play(ClearDataToSend(s), Encode4FSKIDFrame), "DISC")
     EXCEPT !.rpt = FALSE, !.discRpt = FALSE]

\* SendARQConnectRequest, whatever state the station is in.
ConnectRequest(s, self) ==
  Play([SetARDOPProtocolState([InitializeConnection(s) EXCEPT !.abort = FALSE], "ISS")
          EXCEPT !.sub = "ISSConReq", !.repeats = 1, !.sid = self, !.psid = self,
                 !.pending = TRUE, !.connected = FALSE, !.rpt = TRUE, !.needCall = FALSE],
       EncodeARQConRequest(Request(s.arqBW, s.callBW)))

\* The ends of GetNextARQFrame that give the session up.
Aborted(s) ==
  [InitializeConnection(SetARDOPProtocolState(ClearDataToSend(s), "DISC"))
     EXCEPT !.abort = FALSE, !.rpt = FALSE, !.discRpt = FALSE, !.repeats = 0]
GivenUp(s) ==
  [InitializeConnection(SetARDOPProtocolState(ClearDataToSend(s), "DISC"))
     EXCEPT !.rpt = FALSE, !.discRpt = FALSE, !.repeats = 0]
CallFailed(s) ==
  [InitializeConnection(SetARDOPProtocolState(ClearDataToSend(s), "DISC"))
     EXCEPT !.repeats = 0, !.pending = FALSE, !.rpt = FALSE]

\* Mutant of SendTimeout: the timer is not armed again.
SendTimeoutIdles(s) == [s EXCEPT !.sendTimer = FALSE]
\* tmrSendTimeout: ID, then DISC, then DISC state.
PlayDisc(s, id) ==
  Play(ClearDataToSend([s EXCEPT !.sendTimer = FALSE, !.rpt = FALSE]), Encode4FSKControl("DISC", id))
SendTimeout(s) ==
  [InitializeConnection(SetARDOPProtocolState(PlayDisc(s, s.sid), "DISC")) EXCEPT !.timedOut = FALSE]

\* tmrIRSPendingTimeout: ProtocolState is assigned, SetARDOPProtocolState not called.
PendingTimeout(s) ==
  InitializeConnection([s EXCEPT !.pendTimer = FALSE, !.rpt = FALSE, !.state = "DISC",
                                 !.pending = FALSE])
===============================================================================
