--------------------------------- MODULE Arq ---------------------------------
(***************************************************************************)
(* Two ardop1 stations that talk to each other: the ARQ protocol of        *)
(* ext/ardop1/ARQ.c, the timers and the poll of ARDOPC.c, the host         *)
(* commands of HostInterface.c, and the reception of SoundInput.c.         *)
(*                                                                         *)
(* The radio is half duplex.  Mod4FSKDataAndPlay and its like return when  *)
(* all has been sent, so at most one frame is in the air (air): it is      *)
(* heard by the other station, or decoded badly, or fades, or is lost      *)
(* because the other station transmits at that moment.  Frames are not     *)
(* delayed, duplicated or reordered; repeats are the stations' own.        *)
(*                                                                         *)
(* Time is left out: a timer that runs may expire at any moment.           *)
(***************************************************************************)
EXTENDS ArqStation

CONSTANTS
  Station,    \* the two stations
  Bandwidths, \* what the two hosts may have set, ARQBW and CALLBW: pairs by station
  BusyBlock,  \* BUSYBLOCK: a call is refused on a busy channel
  MaxItems,   \* bound: items each station's host gives it
  MaxCalls,   \* bound: ARQCALL commands of each station's host
  Commands,   \* the other commands a host may give
  MaxCommands \* bound: how many of them each station's host gives

ASSUME ArqAssumption ==
  /\ \E a, b \in Station : a # b /\ Station = {a, b}
  /\ FF \notin Station /\ NONE \notin Station
  /\ Bandwidths \subseteq [Station -> Settings \X (Settings \cup {UNDEFINED})]
  /\ BusyBlock \in BOOLEAN
  /\ Commands \subseteq {"ABORT", "DISCONNECT", "BREAK", "PURGEBUFFER"}
  /\ ConReqRepeats \in 2 .. 15 /\ DiscRepeats \in Nat /\ ItemSize \in Nat \ {0}
  /\ MaxItems \in [Station -> Nat] /\ MaxCalls \in [Station -> Nat]
  /\ MaxCommands \in [Station -> Nat]

VARIABLES
  st,       \* the two stations' records
  air,      \* the frame in the air and the station it may reach, or NONE
  dead,     \* the stations no longer hear each other
  calls,    \* ARQCALL commands given so far
  commands  \* other commands given so far

vars == <<st, air, dead, calls, commands>>
host == <<calls, commands>>

Peer(p) == CHOOSE q \in Station : q # p

Init ==
  /\ \E bw \in Bandwidths : st = [p \in Station |-> NewStation(bw[p][1], bw[p][2])]
  /\ air = NONE /\ dead = FALSE
  /\ calls = [p \in Station |-> 0] /\ commands = [p \in Station |-> 0]

\* A station changes to s, and what it plays covers the frame that was in the air.
Change(p, s) ==
  /\ st' = [st EXCEPT ![p] = [s EXCEPT !.tx = FALSE]]
  /\ air' = IF s.tx THEN [to |-> Peer(p), frame |-> s.enc] ELSE air
  /\ UNCHANGED dead

\* The same without a command of the host, and after the frame in the air was heard.
Act(p, s) == Change(p, s) /\ UNCHANGED host
Respond(p, s) ==
  /\ st' = [st EXCEPT ![p] = [s EXCEPT !.tx = FALSE]]
  /\ air' = IF s.tx THEN [to |-> Peer(p), frame |-> s.enc] ELSE NONE
  /\ UNCHANGED <<dead, host>>

-------------------------------------------------------------------------------
\* Commands and data from the host.

GiveData(p) ==
  /\ st[p].given < MaxItems[p]
  /\ LET n == st[p].given + 1
     IN Change(p, [st[p] EXCEPT !.given = n, !.queue = Append(@, n)])
  /\ UNCHANGED host

ArqCall(p) ==
  /\ calls[p] < MaxCalls[p]
  /\ calls' = [calls EXCEPT ![p] = @ + 1]
  /\ Change(p, [st[p] EXCEPT !.needCall = TRUE])
  /\ UNCHANGED commands

Command(p, name) ==
  /\ name \in Commands /\ commands[p] < MaxCommands[p]
  /\ commands' = [commands EXCEPT ![p] = @ + 1]
  /\ UNCHANGED calls

HostAbort(p) ==
  LET s == st[p] IN
  /\ Command(p, "ABORT")
  /\ \/ /\ s.state \in {"IDLE", "IRS", "IRStoISS"}
        /\ Change(p, Aborted(s))
     \/ /\ s.state \notin {"IDLE", "IRS", "IRStoISS"}
        /\ Change(p, [s EXCEPT !.abort = TRUE])

HostDisconnect(p) ==
  /\ st[p].state # "DISC"
  /\ Command(p, "DISCONNECT")
  /\ Change(p, [st[p] EXCEPT !.disc = TRUE])

HostBreak(p) ==
  /\ st[p].state = "IRS"
  /\ Command(p, "BREAK")
  /\ Change(p, [st[p] EXCEPT !.breakCmd = TRUE])

HostPurge(p) ==
  /\ Command(p, "PURGEBUFFER")
  /\ Change(p, ClearDataToSend(st[p]))

-------------------------------------------------------------------------------
\* The poll (MainPoll, CheckTimers) and GetNextARQFrame, which both call.

PollAbort(p) ==
  /\ st[p].abort
  /\ Act(p, Aborted(st[p]))

RepeatDisc(p) ==
  LET s == st[p] IN
  /\ ~s.abort /\ s.discRpt
  /\ \/ /\ s.repeats + 1 > DiscRepeats
        /\ Act(p, GivenUp(s))
     \/ /\ s.repeats + 1 <= DiscRepeats
        /\ Act(p, Play([s EXCEPT !.repeats = @ + 1, !.rpt = FALSE], Encode4FSKControl("DISC", s.sid)))

PollDisconnect(p) ==
  LET s == st[p] IN
  /\ ~s.abort /\ ~s.discRpt /\ s.state \in {"ISS", "IDLE"} /\ s.disc
  /\ Act(p, CheckForDisconnect(s))

\* Nothing that GetNextARQFrame looks at first.
Undisturbed(s) == ~s.abort /\ ~s.discRpt /\ ~(s.state \in {"ISS", "IDLE"} /\ s.disc)

\* Mutant of RepeatConReq: the limit is not looked at.
RepeatConReqForever(p) ==
  LET s == st[p] IN
  /\ Undisturbed(s) /\ s.state = "ISS" /\ s.sub = "ISSConReq"
  /\ Act(p, [s EXCEPT !.repeats = @ + 1, !.tx = s.rpt])
RepeatConReq(p) ==
  LET s == st[p] IN
  /\ Undisturbed(s) /\ s.state = "ISS" /\ s.sub = "ISSConReq"
  /\ \/ /\ s.repeats + 1 > ConReqRepeats
        /\ Act(p, CallFailed(s))
     \/ /\ s.repeats + 1 <= ConReqRepeats
        /\ Act(p, [s EXCEPT !.repeats = @ + 1, !.tx = s.rpt])

\* More than ARQTimeout since dttTimeoutTrip.
ArqTimeout(p) ==
  LET s == st[p] IN
  /\ Undisturbed(s) /\ s.state # "DISC" /\ ~(s.state = "ISS" /\ s.sub = "ISSConReq")
  /\ ~s.timedOut
  /\ Act(p, [s EXCEPT !.rpt = FALSE, !.timedOut = TRUE, !.sendTimer = TRUE])

PollDISC(p) ==
  LET s == st[p] IN
  /\ Undisturbed(s) /\ s.state = "DISC" /\ (s.disc \/ s.rpt \/ s.repeats # 0)
  /\ Act(p, [s EXCEPT !.disc = FALSE, !.repeats = 0, !.rpt = FALSE])

\* Any other frame is repeated as long as blnEnbARQRpt says so.
RepeatFrame(p) ==
  LET s == st[p] IN
  /\ Undisturbed(s) /\ s.state # "DISC" /\ ~(s.state = "ISS" /\ s.sub = "ISSConReq")
  /\ s.rpt
  /\ Act(p, Remodulate(s))

SendTimerExpires(p) ==
  /\ st[p].sendTimer
  /\ Act(p, SendTimeout(st[p]))

PendTimerExpires(p) ==
  /\ st[p].pendTimer
  /\ Act(p, PendingTimeout(st[p]))

IdTimerExpires(p) ==
  /\ st[p].idTimer
  /\ Act(p, Play([st[p] EXCEPT !.idTimer = FALSE], Encode4FSKIDFrame))

PlaceCall(p) ==
  /\ st[p].needCall
  /\ Act(p, ConnectRequest(st[p], p))

Poll(p) ==
  \/ PollAbort(p) \/ RepeatDisc(p) \/ PollDisconnect(p) \/ RepeatConReq(p)
  \/ ArqTimeout(p) \/ PollDISC(p) \/ RepeatFrame(p)
  \/ SendTimerExpires(p) \/ PendTimerExpires(p) \/ IdTimerExpires(p) \/ PlaceCall(p)

-------------------------------------------------------------------------------
\* Reception.

\* MinimalDistanceFrameType: the session ids a station in state s takes a frame with.
Accepts(s, f) ==
  \/ s.pending /\ (f.id = s.psid \/ (f.id = FF /\ f.type = "ConReq"))
  \/ ~s.pending /\ s.connected /\ s.sid # FF /\ f.id = s.sid
  \/ /\ ~s.pending /\ (~s.connected \/ s.sid = FF)
     /\ f.id = FF \/ (f.type = "DISC" /\ f.id = s.lastSid)

\* bytValidFrameTypesISS
ValidType(s, f) == s.state = "ISS" => f.type \notin {"DATA", "IDLE", "ID"}

\* Frames with more than a type.
Long(f) == f.type \in {"DATA", "ConReq", "ConAck", "ID"}

\* What may come of the decoding: any timing passes for that of a ConAck, and any quality for
\* that of an ACK.
Decode4FSKConReq == BOOLEAN
Decode4FSKID == BOOLEAN
Decode4FSKConACK == {TRUE}
DecodeACKNAK == {TRUE}
DecodeFrame(f) ==
  CASE f.type = "ConReq" -> Decode4FSKConReq
    [] f.type = "ID" -> Decode4FSKID
    [] f.type = "ConAck" -> Decode4FSKConACK
    [] f.type \in {"ACK", "NAK"} -> DecodeACKNAK
    [] f.type = "DATA" -> BOOLEAN
    [] OTHER -> {TRUE}

\* p hears the frame in the air; ok is blnFrameDecodedOK.
Hears(p, ok) ==
  /\ air # NONE /\ ~dead
  /\ air.to = p
  /\ Accepts(st[p], air.frame) /\ ValidType(st[p], air.frame)
  /\ ok \in DecodeFrame(air.frame)

\* ProcessRcvdARQFrame is not called once the timeout has been triggered.
Receives(p, ok) == Hears(p, ok) /\ ~st[p].timedOut

\* What a station answers to a connect request.
Offer(s, f) == IRSNegotiateBW(s.arqBW, f.bw)
ReceiveInDISC(p) ==
  LET s == st[p] f == air.frame IN
  /\ Receives(p, TRUE) /\ s.state = "DISC"
  /\ \/ /\ f.type = "DISC"
        /\ Respond(p, Play([s EXCEPT !.idTimer = TRUE, !.rpt = FALSE], Encode4FSKControl("END", s.lastSid)))
     \/ /\ f.type = "ConReq" /\ BusyBlock
        /\ Respond(p, Play([s EXCEPT !.psid = Peer(p)], Encode4FSKControl("ConRejBusy", Peer(p))))
     \/ /\ f.type = "ConReq" /\ Offer(s, f) # ConRejBW
        /\ Respond(p, AnswerConReq(s, Peer(p), Offer(s, f)))
     \/ /\ f.type = "ConReq" /\ Offer(s, f) = ConRejBW
        /\ Respond(p, Play([s EXCEPT !.psid = Peer(p), !.rpt = FALSE],
                           Encode4FSKControl("ConRejBW", Peer(p))))

ReceiveInIRSConAck(p) ==
  LET s == st[p] f == air.frame IN
  /\ Receives(p, TRUE) /\ s.state = "IRS" /\ s.sub = "IRSConAck"
  /\ \/ /\ f.type = "ConReq" /\ Offer(s, f) # ConRejBW
        /\ Respond(p, AnswerConReq(s, Peer(p), Offer(s, f)))
     \/ /\ f.type = "ConReq" /\ Offer(s, f) = ConRejBW
        /\ Respond(p, Play([s EXCEPT !.psid = Peer(p)], Encode4FSKControl("ConRejBW", Peer(p))))
     \/ /\ f.type = "ConAck"
        /\ Respond(p, Play([InitModes(s, f.bw.width) EXCEPT
                              !.sid = s.psid, !.connected = TRUE, !.pending = FALSE,
                              !.pendTimer = FALSE, !.sub = "IRSData", !.toHost = NONE,
                              !.rpt = FALSE],
                           EncodeDATAACK(s.psid)))

\* The IRS answers a frame it has not acknowledged yet with BREAK, undecoded.
BreaksIn(s, f) ==
  /\ s.breakCmd /\ s.state = "IRS" /\ s.sub = "IRSData"
  /\ Long(f) /\ FrameType(f) # s.lastAcked

IRSReceiving(p, ok) ==
  /\ Receives(p, ok)
  /\ st[p].state = "IRS" /\ st[p].sub \in {"IRSData", "IRSfromISS"}
  /\ ~BreaksIn(st[p], air.frame)

BreakInstead(p) ==
  LET s == st[p] IN
  /\ \E ok \in BOOLEAN : Hears(p, ok)
  /\ \/ /\ BreaksIn(s, air.frame)
        /\ Respond(p, StartBreak([s EXCEPT !.breakCmd = FALSE]))
     \/ /\ s.state = "IRStoISS" /\ air.frame.type = "DATA"
        /\ Respond(p, Play([s EXCEPT !.rpt = TRUE], Encode4FSKControl("BREAK", s.sid)))

ReceiveControlInIRS(p) ==
  LET s == st[p] f == air.frame IN
  /\ IRSReceiving(p, TRUE)
  /\ \/ /\ f.type = "DISC"
        /\ Respond(p, AnswerDisc(s))
     \/ /\ f.type = "END"
        /\ Respond(p, EndedIRS(s))
     \/ /\ f.type = "BREAK"
        /\ Respond(p, Play([s EXCEPT !.rpt = FALSE], EncodeDATAACK(s.sid)))
     \/ /\ f.type = "IDLE" /\ s.disc
        /\ Respond(p, CheckForDisconnect(s))
     \/ /\ f.type = "IDLE" /\ ~s.disc /\ (s.queue # <<>> \/ s.breakCmd)
        /\ Respond(p, StartBreak(s))
     \/ /\ f.type = "IDLE" /\ ~s.disc /\ s.queue = <<>> /\ ~s.breakCmd
        /\ Respond(p, Play([s EXCEPT !.rpt = FALSE], EncodeDATAACK(s.sid)))

\* The ISS has not heard that its ConAck was acknowledged.
ReceiveConAckInIRS(p) ==
  /\ \E ok \in BOOLEAN : IRSReceiving(p, ok)
  /\ air.frame.type = "ConAck"
  /\ Respond(p, Play([st[p] EXCEPT !.bw = air.frame.bw.width], EncodeDATAACK(st[p].sid)))

\* Mutant of IsNew: a frame that is repeated goes to the host again.
AlwaysNew(s, f) == TRUE
\* A frame with the type of the last one that went to the host is a repeat of it.
IsNew(s, f) == FrameType(f) # s.toHost

ReceiveDataInIRS(p) ==
  LET s == st[p] f == air.frame IN
  /\ IRSReceiving(p, TRUE) /\ f.type = "DATA"
  /\ Respond(p, Play([s EXCEPT !.got = IF IsNew(s, f) THEN @ \o f.data ELSE @,
                               !.toHost = FrameType(f), !.lastAcked = FrameType(f),
                               !.sub = "IRSData", !.rpt = FALSE],
                     EncodeDATAACK(s.sid)))

ReceiveBadDataInIRS(p) ==
  LET s == st[p] f == air.frame IN
  /\ IRSReceiving(p, FALSE) /\ f.type = "DATA"
  /\ \/ /\ FrameType(f) = s.lastAcked
        /\ Respond(p, Play([s EXCEPT !.rpt = FALSE], EncodeDATAACK(s.sid)))
     \/ /\ FrameType(f) # s.lastAcked
        /\ Respond(p, Play([s EXCEPT !.sub = "IRSData", !.rpt = FALSE], EncodeDATANAK(s.sid)))

\* DemodulateFrame of SoundInput.c handles this ACK before ProcessRcvdARQFrame.
ReceiveInIRStoISS(p) ==
  LET s == st[p] IN
  /\ Hears(p, TRUE) /\ s.state = "IRStoISS" /\ air.frame.type = "ACK"
  /\ Respond(p, SendData([SetARDOPProtocolState(s, "ISS") EXCEPT !.sub = "ISSData", !.toHost = NONE],
                         0))

ReceiveInIDLE(p) ==
  LET s == st[p] f == air.frame IN
  /\ Receives(p, TRUE) /\ s.state = "IDLE"
  /\ \/ /\ f.type = "ACK" /\ s.queue # <<>>
        /\ Respond(p, SendData([SetARDOPProtocolState(s, "ISS") EXCEPT !.sub = "ISSData"], 0))
     \/ /\ f.type = "BREAK"
        /\ Respond(p, TurnOver(s))
     \/ /\ f.type = "DISC"
        /\ Respond(p, AnswerDiscIdle(s))
     \/ /\ f.type = "END"
        /\ Respond(p, EndedIdle(s))

ReceiveInISSConReq(p) ==
  LET s == st[p] f == air.frame IN
  /\ Receives(p, TRUE) /\ s.state = "ISS" /\ s.sub = "ISSConReq"
  /\ \/ /\ f.type = "ConAck"
        /\ Respond(p, Play([InitModes(s, f.bw.width) EXCEPT !.rpt = TRUE, !.sub = "ISSConAck"],
                           EncodeConACK(f.bw.width, s.sid)))
     \/ /\ f.type \in {"ConRejBusy", "ConRejBW"}
        /\ Respond(p, [s EXCEPT !.abort = TRUE])

ReceiveInISSConAck(p) ==
  LET s == st[p] f == air.frame IN
  /\ Receives(p, TRUE) /\ s.state = "ISS" /\ s.sub = "ISSConAck"
  /\ \/ /\ f.type = "ACK" \/ (f.type = "BREAK" /\ s.queue # <<>>)
        /\ Respond(p, SendData(CallerConnected(s), 0))
     \/ /\ f.type = "BREAK" /\ s.queue = <<>>
        /\ Respond(p, TurnOver(CallerConnected(s)))
     \/ /\ f.type \in {"ConRejBusy", "ConRejBW"}
        /\ Respond(p, InitializeConnection(SetARDOPProtocolState(s, "DISC")))

ReceivingAsISS(p) ==
  /\ Receives(p, TRUE)
  /\ st[p].state = "ISS" /\ st[p].sub = "ISSData"

\* A frame that came is an occasion to look at the host's DISCONNECT.
DisconnectInISSData(p) ==
  /\ ReceivingAsISS(p) /\ st[p].disc
  /\ Respond(p, CheckForDisconnect(st[p]))

ReceiveAckInISSData(p) ==
  LET s == st[p]
      t == IF s.sentData
           THEN RemoveDataFromQueue([s EXCEPT !.acked = s.sent, !.inProcess = 0], s.inProcess)
           ELSE s
  IN
  /\ ReceivingAsISS(p) /\ ~s.disc /\ air.frame.type = "ACK"
  /\ \E shift \in {0} \cup (IF s.sentData THEN UpShift(t) ELSE {}) :
       Respond(p, SendData([t EXCEPT !.rpt = FALSE], shift))

ReceiveNakInISSData(p) ==
  LET s == st[p] IN
  /\ ReceivingAsISS(p) /\ ~s.disc /\ air.frame.type = "NAK" /\ s.sentData
  /\ \E shift \in DownShift(s) \cup UpShift(s) : Respond(p, SendData(s, shift))

ReceiveControlInISSData(p) ==
  LET s == st[p] f == air.frame IN
  /\ ReceivingAsISS(p) /\ ~s.disc
  /\ \/ /\ f.type = "BREAK"
        /\ Respond(p, TurnOver(ClearDataToSend([s EXCEPT !.connected = TRUE, !.pending = FALSE])))
     \/ /\ f.type = "DISC"
        /\ Respond(p, AnswerDisc(s))
     \/ /\ f.type = "END"
        /\ Respond(p, Ended(s))

Receive(p) ==
  \/ ReceiveInDISC(p) \/ ReceiveInIRSConAck(p) \/ BreakInstead(p) \/ ReceiveControlInIRS(p)
  \/ ReceiveConAckInIRS(p) \/ ReceiveDataInIRS(p) \/ ReceiveBadDataInIRS(p)
  \/ ReceiveInIRStoISS(p) \/ ReceiveInIDLE(p) \/ ReceiveInISSConReq(p) \/ ReceiveInISSConAck(p)
  \/ DisconnectInISSData(p) \/ ReceiveAckInISSData(p) \/ ReceiveNakInISSData(p)
  \/ ReceiveControlInISSData(p)

\* The host is polled while a frame plays (txSleep), in the middle of a handler.  Nobody hears the
\* frame before it ends, and a command that comes meanwhile leaves what it leaves when it comes just
\* before or just after the handler -- but for an ABORT that is carried out at once and that the
\* handler does not know of: when it goes on to IRS, notes the session id, or sends DISC after ID.
AbortInPlay(p) ==
  LET s == st[p] f == air.frame IN
  /\ Command(p, "ABORT")
  /\ \/ /\ Receives(p, TRUE) /\ s.state = "IDLE"
        /\ \/ f.type = "BREAK" /\ Change(p, BecomeIRS(Aborted(AckBreak(s))))
           \/ f.type = "DISC" /\ Change(p, KeepLastSid(Aborted(PlayEnd(s))))
     \/ /\ s.sendTimer /\ s.state \in {"IDLE", "IRS", "IRStoISS"}
        /\ Change(p, [Aborted(PlayDisc(s, FF)) EXCEPT !.timedOut = FALSE])

\* The frame in the air is not heard, or nothing is done with it.
Fade ==
  /\ air # NONE
  /\ air' = NONE
  /\ UNCHANGED <<st, dead, calls, commands>>

\* From now on the stations are out of each other's reach.
GoOutOfReach ==
  /\ ~dead
  /\ dead' = TRUE /\ air' = NONE
  /\ UNCHANGED <<st, calls, commands>>

Next ==
  \/ \E p \in Station :
       \/ GiveData(p) \/ ArqCall(p) \/ HostAbort(p) \/ HostDisconnect(p) \/ HostBreak(p)
       \/ HostPurge(p) \/ Poll(p) \/ Receive(p) \/ AbortInPlay(p)
  \/ Fade
  \/ GoOutOfReach

Spec == Init /\ [][Next]_vars

-------------------------------------------------------------------------------
\* Fairness.  Stations poll and their timers expire; the ARQ timeout expires at the
\* latest when nothing is heard.  A frame that is repeated for ever is decoded once.
FairPoll(p) ==
  /\ WF_vars(PollAbort(p)) /\ WF_vars(RepeatDisc(p)) /\ WF_vars(PollDisconnect(p))
  /\ WF_vars(RepeatConReq(p)) /\ WF_vars(PollDISC(p)) /\ WF_vars(RepeatFrame(p))
  /\ WF_vars(SendTimerExpires(p)) /\ WF_vars(PendTimerExpires(p))
  /\ WF_vars(IdTimerExpires(p)) /\ WF_vars(PlaceCall(p))
  /\ WF_vars(dead /\ ArqTimeout(p))

Decodes(p) ==
  \/ ReceiveInDISC(p) \/ ReceiveInIRSConAck(p) \/ BreakInstead(p) \/ ReceiveControlInIRS(p)
  \/ ReceiveConAckInIRS(p) \/ ReceiveDataInIRS(p) \/ ReceiveInIRStoISS(p) \/ ReceiveInIDLE(p)
  \/ ReceiveInISSConReq(p) \/ ReceiveInISSConAck(p) \/ DisconnectInISSData(p)
  \/ ReceiveAckInISSData(p) \/ ReceiveControlInISSData(p)

FairSpec == Spec /\ \A p \in Station : FairPoll(p) /\ SF_vars(Decodes(p))

-------------------------------------------------------------------------------
\* Properties.

InSession(p) == st[p].connected /\ st[p].state # "DISC"

\* A frame, and what a station takes the width of a session from.
Frame ==
  [type : {"DATA", "IDLE", "ID", "ConReq", "ConAck", "ConRejBusy", "ConRejBW", "ACK", "NAK", "BREAK",
           "DISC", "END"},
   id : Station \cup {FF, NONE}, mode : Nat, par : {0, 1}, data : Seq(Nat),
   bw : Settings \cup {UNDEFINED}]
ASSUME NoneAssumption == NONE \notin Frame /\ NONE \notin Nat \X {0, 1}
FrameOK(f) == f \in Frame /\ (f.type \in {"ConReq", "ConAck"} => f.bw \in Settings)

\* The stations stay within their states, the queue holds at most what the host gave, the mode
\* is one of its table, a sender has no more in process than a frame of its mode takes, repeats
\* are counted up to their limits, and what is repeated is a frame.
TypeOK ==
  /\ \A p \in Station :
       LET s == st[p] IN
       /\ s.state \in {"DISC", "ISS", "IRS", "IDLE", "IRStoISS"}
       /\ s.sid \in Station \cup {FF} /\ s.psid \in Station \cup {NONE}
       /\ s.table \in Widths /\ s.mode \in 0 .. LastMode(s.table)
       /\ s.acked \in {0, 1} /\ s.sent \in {0, 1} /\ s.inProcess \in Nat
       /\ s.state = "ISS" /\ s.sub = "ISSData" /\ ~s.discRpt => s.inProcess <= Room(s, s.mode)
       /\ s.repeats \in 0 .. ConReqRepeats \/ s.repeats \in 0 .. DiscRepeats
       /\ s.queue \in Seq(1 .. MaxItems[p]) /\ Len(s.queue) <= s.given
       /\ ~s.tx /\ (s.enc = NONE => s.state = "DISC") /\ (s.enc # NONE => FrameOK(s.enc))
  /\ air # NONE => air.to \in Station /\ FrameOK(air.frame)

\* Two connected stations are never both the sender: roles change over BREAK and
\* ACK, either of which may be lost, without both stations sending (ARQ.c, IRStoISS).
OneSender ==
  ~\A p \in Station : st[p].connected /\ st[p].state \in {"ISS", "IDLE"}

\* AgreedWidth: two connected stations have the same bandwidth, data is never wider than the
\* other station expects, and a session keeps to both hosts' settings -- except for a station
\* of 1000MAX that is called with 2000FORCED (IRSNegotiateBW).
WidthOf(p) == ModeWidth(ModeOf(st[p].table, st[p].mode))
AgreedWidth ==
  (\A p \in Station : InSession(p)) =>
    \A p \in Station :
      LET called == st[Peer(p)].arqBW
          request == Request(st[p].arqBW, st[p].callBW)
      IN /\ st[p].bw = st[Peer(p)].bw /\ WidthOf(p) <= st[Peer(p)].bw
         /\ st[p].sid = p /\ ~RunsOn(called, request) =>
              Fits(st[p].bw, called) /\ Fits(st[p].bw, request)

\* The hosts get what ArqLink promises: through repeats, NAKs, changes of mode and
\* role and the end of the session, nothing twice or out of order, and nothing
\* removed from the queue that has not reached the other host.
Link == INSTANCE ArqLink WITH
  given <- [p \in Station |-> st[p].given],
  got <- [p \in Station |-> st[p].got],
  confirmed <- [p \in Station |-> st[p].confirmed]
ImplementsLink == Link!Spec

\* Stations that no longer hear each other end the session, whatever they were doing:
\* repeats are counted, and the timeouts lead to DISC from every state.
LinkEnds == dead ~> \A p \in Station : st[p].state = "DISC"

\* While the session lasts, everything a station is given is acknowledged in the end
\* (or purged), also what the receiving station is given: it has to take over first.
Settles ==
  \A p \in Station :
    (st[p].queue # <<>> /\ \A q \in Station : InSession(q))
      ~> (st[p].queue = <<>> \/ \E q \in Station : ~InSession(q))
===============================================================================
