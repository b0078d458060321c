------------------------------ MODULE ArqProofs ------------------------------
(***************************************************************************)
(* Proofs about module Arq, for all settings, bounds and numbers of calls, *)
(* and whichever of the two stations calls.  First what a station may      *)
(* count on when it answers a connect request: the session is as wide as   *)
(* both hosts allow, and its modes are no wider.  Then                     *)
(*                                                                         *)
(*   SenderInv   who sends (ISS, IDLE) plays neither ACK nor BREAK, and    *)
(*               while one of them is in the air the station it is from    *)
(*               does not send: two connected stations never both send.    *)
(*   TypedInv    what the fields of a record hold, and that a sender has   *)
(*               no more in process than a frame of its mode takes.        *)
(*   SessionInv  what a station is at (calling, confirming, called, in a   *)
(*               session), what its last frame says of that, and that      *)
(*               while one is called the other has not begun a session:    *)
(*               two stations in a session have the same width.            *)
(*                                                                         *)
(* Each says what a step of a station has to respect (SenderStep, Becomes, *)
(* SessionStep), that such steps keep it, and goes through the actions.    *)
(*                                                                         *)
(* Then that Arq implements ArqLink: what the hosts give arrives in order  *)
(* and at most once, and only what has arrived is removed from a queue.    *)
(*                                                                         *)
(*   DataInv     where the items are that a station has taken from its     *)
(*               host: in the queue, in the frame that was played last, or *)
(*               at the other host; and what an ACK or a NAK that is in    *)
(*               the air says of the frame that it answers.                *)
(*   CallInv     one host calls, once, and no host purges its queue.       *)
(*                                                                         *)
(* DataStep says what a step of a station has to respect; such steps keep  *)
(* DataInv, and are steps of ArqLink.  They are those of a station that    *)
(* nothing cuts off while it sends (SendersGoOn), and CallInv says when    *)
(* that is so.                                                             *)
(***************************************************************************)
EXTENDS Arq, SequenceTheorems, TLAPS

-----------------------------------------------------------------------------
(* Bandwidths and modes.                                                   *)

\* A setting is told by its two fields.
LEMMA SettingFields ==
  ASSUME NEW setting \in Settings
  PROVE  /\ setting = [width |-> setting.width, forced |-> setting.forced]
         /\ setting.width \in Widths /\ setting.forced \in BOOLEAN
BY DEF Settings

\* IRSNegotiateBW answers every request with a width of ARQ or with ConRejBW.
THEOREM NegotiatedWidth ==
  ASSUME NEW own \in Settings, NEW request \in Settings
  PROVE  IRSNegotiateBW(own, request) \in Widths \cup {ConRejBW}
<1>1. /\ own.width \in Widths /\ own.forced \in BOOLEAN
      /\ request.width \in Widths /\ request.forced \in BOOLEAN
  BY SettingFields
<1>2. CASE own.forced
  BY <1>1, <1>2 DEF IRSNegotiateBW
<1>3. CASE ~own.forced /\ ~request.forced
  BY <1>1, <1>3 DEF IRSNegotiateBW
<1>4. CASE ~own.forced /\ request.forced
  BY <1>1, <1>4 DEF IRSNegotiateBW
<1> QED BY <1>1, <1>2, <1>3, <1>4

\* A session that IRSNegotiateBW agrees to has a width that both hosts' settings allow,
\* except where the case of B1000MAX runs on into that of B2000MAX.
THEOREM NegotiatedFits ==
  ASSUME NEW own \in Settings, NEW request \in Settings, ~RunsOn(own, request),
         IRSNegotiateBW(own, request) # ConRejBW
  PROVE  /\ Fits(IRSNegotiateBW(own, request), own)
         /\ Fits(IRSNegotiateBW(own, request), request)
<1>1. /\ own.width \in Widths /\ own.forced \in BOOLEAN
      /\ request.width \in Widths /\ request.forced \in BOOLEAN
  BY SettingFields
<1>2. CASE own.forced
  BY <1>1, <1>2 DEF IRSNegotiateBW, Fits, Widths
<1>3. CASE ~own.forced /\ ~request.forced
  BY <1>1, <1>3 DEF IRSNegotiateBW, Fits, Widths
<1>4. CASE ~own.forced /\ request.forced
  <2>1. IRSNegotiateBW(own, request) = request.width /\ request.width <= Widest(own)
    BY <1>1, <1>4 DEF IRSNegotiateBW
  <2>2. CASE own = UpTo(1000)
    <3>1. request # Forced(2000)
      BY <2>2 DEF RunsOn
    <3>2. request = [width |-> request.width, forced |-> TRUE]
      <4>1. request.forced = TRUE
        BY <1>1, <1>4, Zenon
      <4> QED BY <4>1, SettingFields
    <3>3. request.width # 2000
      BY <3>1, <3>2 DEF Forced
    <3> QED BY <1>1, <1>4, <2>1, <2>2, <3>3 DEF Fits, Widths, UpTo
  <2>3. CASE own # UpTo(1000)
    BY <1>1, <1>4, <2>1, <2>3 DEF Fits, Widest
  <2> QED BY <2>2, <2>3
<1> QED BY <1>1, <1>2, <1>3, <1>4

\* No width is wider than the one agreed on that both settings allow, and a request is
\* refused only when no width would do.
THEOREM NegotiatedWidest ==
  ASSUME NEW own \in Settings, NEW request \in Settings, NEW width \in Widths,
         Fits(width, own), Fits(width, request)
  PROVE  /\ IRSNegotiateBW(own, request) # ConRejBW
         /\ width <= IRSNegotiateBW(own, request)
<1>1. /\ own.width \in Widths /\ own.forced \in BOOLEAN
      /\ request.width \in Widths /\ request.forced \in BOOLEAN
  BY SettingFields
<1>2. CASE own.forced
  <2>1. width = own.width
    BY <1>2 DEF Fits
  <2>2. CASE request.forced
    <3>1. request.width = own.width
      BY <2>1, <2>2 DEF Fits
    <3>2. request = own
      BY <1>2, <2>2, <3>1 DEF Settings
    <3> QED BY <1>1, <1>2, <2>1, <3>2 DEF IRSNegotiateBW, ConRejBW, Widths
  <2>3. CASE ~request.forced
    BY <1>1, <1>2, <2>1, <2>3 DEF Fits, IRSNegotiateBW, ConRejBW, Widths
  <2> QED BY <2>2, <2>3
<1>3. CASE ~own.forced /\ ~request.forced
  BY <1>1, <1>3 DEF IRSNegotiateBW, Fits, Widths, ConRejBW
<1>4. CASE ~own.forced /\ request.forced
  <2>1. width = request.width /\ width <= own.width
    BY <1>4 DEF Fits
  <2>2. request.width <= Widest(own)
    BY <1>1, <2>1 DEF Widest, Widths, UpTo
  <2> QED BY <1>1, <1>4, <2>1, <2>2 DEF IRSNegotiateBW, Widths, ConRejBW
<1> QED BY <1>1, <1>2, <1>3, <1>4

-------------------------------------------------------------------------------
Modes == DOMAIN FrameSize

\* GetDataModes has modes for every width of a session, and StartMode is one of them.
THEOREM StartsWithAMode ==
  ASSUME NEW bw \in Widths
  PROVE  StartMode(bw) \in 0 .. LastMode(bw)
<1>1. FSKOnly \in BOOLEAN /\ fastStart \in BOOLEAN /\ ForFM \in BOOLEAN
  BY ArqBandwidthAssumption
<1>2. Len(GetDataModes(bw)) \in 1 .. 7
  BY <1>1 DEF GetDataModes, FSKModes, AllModes, Widths
<1>3. \A n \in 1 .. 7 : n \div 2 \in 0 .. n - 1
  OBVIOUS
<1>4. CASE fastStart
  <2>1. StartMode(bw) = Len(GetDataModes(bw)) \div 2
    BY <1>4 DEF StartMode
  <2> QED BY <1>2, <1>3, <2>1 DEF LastMode
<1>5. CASE ~fastStart
  <2>1. StartMode(bw) = 0
    BY <1>5 DEF StartMode
  <2> QED BY <1>2, <2>1 DEF LastMode
<1> QED BY <1>4, <1>5

\* The gear shift never leaves the width of the session: no mode that GetDataModes lists
\* for it is wider (strFrameType).
THEOREM ModesFit ==
  ASSUME NEW bw \in Widths, NEW pointer \in 0 .. LastMode(bw)
  PROVE  ModeOf(bw, pointer) \in Modes /\ ModeWidth(ModeOf(bw, pointer)) <= bw
<1>1. FSKOnly \in BOOLEAN /\ ForFM \in BOOLEAN
  BY ArqBandwidthAssumption
<1>2. CASE FSKOnly
  BY <1>1, <1>2 DEF GetDataModes, FSKModes, Widths, LastMode, ModeOf, ModeWidth, Modes, FrameSize
<1>3. CASE ~FSKOnly
  BY <1>1, <1>3 DEF GetDataModes, FSKModes, AllModes, Widths, LastMode, ModeOf, ModeWidth, Modes, FrameSize
<1> QED BY <1>1, <1>2, <1>3

\* FrameSize, by which Gearshift_9 decides, agrees with FrameInfo, by which a frame is filled.
THEOREM SizesAgree ==
  ASSUME NEW mode \in Modes
  PROVE  FrameSize[mode] = MaxLen(mode)
BY DEF Modes, FrameSize, MaxLen, FrameInfo, OneCarrier, WiderModes

\* Shifting up never makes frames smaller, so what was in process still fits in a repeat.
THEOREM SizesGrow ==
  ASSUME NEW bw \in Widths, NEW pointer \in 0 .. LastMode(bw), pointer < LastMode(bw)
  PROVE  MaxLen(ModeOf(bw, pointer)) <= MaxLen(ModeOf(bw, pointer + 1))
<1>1. FSKOnly \in BOOLEAN /\ ForFM \in BOOLEAN
  BY ArqBandwidthAssumption
<1>2. pointer + 1 \in 0 .. LastMode(bw)
  BY <1>1 DEF LastMode, GetDataModes, FSKModes, AllModes, Widths
<1>3. /\ MaxLen(ModeOf(bw, pointer)) = FrameSize[ModeOf(bw, pointer)]
      /\ MaxLen(ModeOf(bw, pointer + 1)) = FrameSize[ModeOf(bw, pointer + 1)]
  BY <1>2, ModesFit, SizesAgree
<1>4. bw = 200 \/ bw = 500 \/ bw = 1000 \/ bw = 2000
  BY DEF Widths
<1>5. CASE FSKOnly
  <2> USE <1>1, <1>2, <1>3, <1>5 DEF GetDataModes, FSKModes, LastMode, ModeOf, FrameSize
  <2>1. CASE bw = 200 \/ bw = 500
    BY <2>1
  <2>2. CASE bw = 1000
    BY <2>2
  <2>3. CASE bw = 2000
    BY <2>3
  <2> QED BY <1>4, <2>1, <2>2, <2>3
<1>6. CASE ~FSKOnly
  <2> USE <1>1, <1>2, <1>3, <1>6 DEF GetDataModes, FSKModes, AllModes, LastMode, ModeOf, FrameSize
  <2>1. CASE bw = 200
    BY <2>1
  <2>2. CASE bw = 500
    BY <2>2
  <2>3. CASE bw = 1000
    BY <2>3
  <2>4. CASE bw = 2000 /\ ForFM
    BY <2>4
  <2>5. CASE bw = 2000 /\ ~ForFM
    BY <2>5
  <2> QED BY <1>4, <2>1, <2>2, <2>3, <2>4, <2>5
<1> QED BY <1>1, <1>5, <1>6

-----------------------------------------------------------------------------
\* There are two stations.
LEMMA TwoStations ==
  ASSUME NEW p \in Station
  PROVE  /\ Peer(p) \in Station /\ Peer(p) # p /\ Peer(Peer(p)) = p
         /\ \A q \in Station : q = p \/ q = Peer(p)
<1>1. PICK a \in Station, b \in Station : a # b /\ Station = {a, b}
  BY ArqAssumption
<1>2. \A q \in Station : Peer(q) \in Station /\ Peer(q) # q
  BY <1>1 DEF Peer
<1> QED BY <1>1, <1>2

-----------------------------------------------------------------------------
(* What the subroutines of ARQ.c do to a station's record.                 *)

Fields ==
  {"arqBW", "callBW", "bw", "table", "state", "sub", "connected", "pending", "sid", "psid",
   "lastSid", "rpt", "discRpt", "disc", "breakCmd", "abort", "needCall", "repeats", "pendTimer",
   "sendTimer", "timedOut", "idTimer", "queue", "inProcess", "sentData", "mode", "acked", "sent",
   "toHost", "lastAcked", "enc", "tx", "given", "got", "confirmed"}

\* t is s but for some fields.
Same(t, s, X) == DOMAIN t = Fields /\ \A x \in Fields \ X : t[x] = s[x]

Leaving == {"state", "queue", "disc", "connected", "pending", "sid", "lastAcked", "bw"}
\* t is s gone to DISC: a session's data and flags are cleared, and but for X nothing else changes.
Leaves(t, s, X) ==
  /\ Same(t, s, Leaving \cup X)
  /\ t.state = "DISC" /\ t.queue = <<>>
  /\ s.state # "DISC" => ~t.disc /\ ~t.connected /\ ~t.pending
  /\ s.state = "DISC" =>
       t.disc = s.disc /\ t.connected = s.connected /\ (t.pending => s.pending)
  /\ \/ t.sid = FF /\ t.lastAcked = NONE /\ t.bw = 0
     \/ t.sid = s.sid /\ t.lastAcked = s.lastAcked /\ t.bw = s.bw

\* A frame is encoded and played.
LEMMA PlayIs ==
  ASSUME NEW s, DOMAIN s = Fields, NEW f
  PROVE  LET t == Play(s, f) IN Same(t, s, {"enc", "tx"}) /\ t.enc = f /\ t.tx
BY DEF Play, Same, Fields

\* DISC is played, and will be repeated.
LEMMA CheckForDisconnectIs ==
  ASSUME NEW s, DOMAIN s = Fields
  PROVE  LET t == CheckForDisconnect(s) IN
         /\ Same(t, s, {"repeats", "disc", "discRpt", "rpt", "enc", "tx"})
         /\ t.repeats = 1 /\ ~t.disc /\ t.discRpt /\ ~t.rpt /\ t.tx
         /\ t.enc = Encode4FSKControl("DISC", s.sid)
BY DEF CheckForDisconnect, Play, Same, Fields

\* The table of modes of a width, from its first mode on.
LEMMA InitModesIs ==
  ASSUME NEW s, DOMAIN s = Fields, NEW bw
  PROVE  LET t == InitModes(s, bw) IN
         Same(t, s, {"bw", "table", "mode"}) /\ t.bw = bw /\ t.table = bw /\ t.mode = StartMode(bw)
BY DEF InitModes, Same, Fields

\* SendData: nothing, DISC, the next data, or IDLE.
LEMMA SendDataIs ==
  ASSUME NEW s, DOMAIN s = Fields, NEW shift
  PROVE  LET t == SendData(s, shift)
             mode == s.mode + shift
         IN
         \/ (s.discRpt \/ s.state # "ISS") /\ t = s
         \/ /\ ~s.discRpt /\ s.state = "ISS" /\ s.disc
            /\ t = CheckForDisconnect(s)
         \/ /\ ~s.discRpt /\ s.state = "ISS" /\ ~s.disc /\ s.queue # <<>>
            /\ Same(t, s, {"mode", "inProcess", "sent", "sentData", "rpt", "sub", "enc", "tx"})
            /\ t.mode = mode /\ t.inProcess = Take(s, mode) /\ t.sent = 1 - s.acked /\ t.sentData
            /\ t.rpt /\ t.sub = "ISSData" /\ t.tx
            /\ t.enc = DataFrame(s.sid, mode, 1 - s.acked, SubSeq(s.queue, 1, Take(s, mode)))
         \/ /\ ~s.discRpt /\ s.state = "ISS" /\ ~s.disc /\ s.queue = <<>>
            /\ Same(t, s, {"state", "rpt", "sentData", "enc", "tx"})
            /\ t.state = "IDLE" /\ t.rpt /\ ~t.sentData /\ t.tx
            /\ t.enc = Encode4FSKControl("IDLE", s.sid)
BY DEF SendData, SetARDOPProtocolState, Play, Same, Fields

\* The front of the queue is gone.
LEMMA RemoveDataFromQueueIs ==
  ASSUME NEW s, DOMAIN s = Fields, NEW len
  PROVE  LET t == RemoveDataFromQueue(s, len)
             n == IF len > Len(s.queue) THEN Len(s.queue) ELSE len
         IN /\ Same(t, s, {"queue", "confirmed"})
            /\ t.queue = SubSeq(s.queue, n + 1, Len(s.queue))
BY DEF RemoveDataFromQueue, Same, Fields

\* A station that was called: pending, without a session id of its own.
LEMMA AnswerConReqIs ==
  ASSUME NEW s, DOMAIN s = Fields, NEW caller, NEW bw
  PROVE  LET t == AnswerConReq(s, caller, bw) IN
         /\ Same(t, s, {"queue", "sid", "lastAcked", "bw", "state", "psid", "pending", "rpt",
                        "pendTimer", "sub", "toHost", "enc", "tx"})
         /\ t.queue = <<>> /\ t.sid = FF /\ t.lastAcked = NONE /\ t.bw = 0 /\ t.state = "IRS"
         /\ t.psid = caller /\ t.pending /\ ~t.rpt /\ t.pendTimer /\ t.sub = "IRSConAck"
         /\ t.toHost = NONE /\ t.tx /\ t.enc = EncodeConACK(bw, caller)
BY DEF AnswerConReq, Play, InitializeConnection, SetARDOPProtocolState, Same, Fields

\* BREAK is played until it is acknowledged.
LEMMA StartBreakIs ==
  ASSUME NEW s, DOMAIN s = Fields
  PROVE  LET t == StartBreak(s) IN
         /\ Same(t, s, {"state", "lastAcked", "rpt", "enc", "tx"})
         /\ t.state = "IRStoISS" /\ t.lastAcked \in {s.lastAcked, NONE} /\ t.rpt /\ t.tx
         /\ t.enc = Encode4FSKControl("BREAK", s.sid)
BY DEF StartBreak, Play, SetARDOPProtocolState, Same, Fields

\* The sender becomes the receiver, and says so with an ACK.
LEMMA TurnOverIs ==
  ASSUME NEW s, DOMAIN s = Fields
  PROVE  LET t == TurnOver(s) IN
         /\ Same(t, s, {"state", "lastAcked", "rpt", "sub", "toHost", "enc", "tx"})
         /\ t.state = "IRS" /\ t.lastAcked \in {s.lastAcked, NONE} /\ ~t.rpt
         /\ t.sub = "IRSfromISS" /\ t.toHost = NONE /\ t.tx /\ t.enc = EncodeDATAACK(s.sid)
BY DEF TurnOver, AckBreak, BecomeIRS, Play, SetARDOPProtocolState, Same, Fields

\* The call is answered.
LEMMA CallerConnectedIs ==
  ASSUME NEW s, DOMAIN s = Fields
  PROVE  LET t == CallerConnected(s) IN
         /\ Same(t, s, {"rpt", "connected", "acked", "pending", "sub"})
         /\ ~t.rpt /\ t.connected /\ t.acked = 1 /\ ~t.pending /\ t.sub = "ISSData"
BY DEF CallerConnected, Same, Fields

\* DISC is answered with END.
LEMMA AnswerDiscIs ==
  ASSUME NEW s, DOMAIN s = Fields
  PROVE  LET t == AnswerDisc(s) IN
         /\ Leaves(t, s, {"lastSid", "idTimer", "discRpt", "rpt", "enc", "tx"})
         /\ t.lastSid = s.sid /\ t.idTimer /\ ~t.discRpt /\ ~t.rpt /\ t.tx
         /\ t.enc = Encode4FSKControl("END", FF)
BY DEF AnswerDisc, Play, InitializeConnection, SetARDOPProtocolState, ClearDataToSend, Leaves,
       Leaving, Same, Fields

\* DISC is answered with END in IDLE, where the session id is kept.
LEMMA AnswerDiscIdleIs ==
  ASSUME NEW s, DOMAIN s = Fields
  PROVE  LET t == AnswerDiscIdle(s) IN
         /\ Leaves(t, s, {"lastSid", "idTimer", "discRpt", "rpt", "enc", "tx"})
         /\ t.lastSid = s.sid /\ t.idTimer /\ ~t.discRpt /\ ~t.rpt /\ t.tx
         /\ t.enc = Encode4FSKControl("END", s.sid)
BY DEF AnswerDiscIdle, PlayEnd, KeepLastSid, Play, SetARDOPProtocolState, ClearDataToSend, Leaves,
       Leaving, Same, Fields

\* END is answered with ID.
LEMMA EndedIs ==
  ASSUME NEW s, DOMAIN s = Fields
  PROVE  LET t == Ended(s) IN
         /\ Leaves(t, s, {"discRpt", "rpt", "enc", "tx"})
         /\ ~t.discRpt /\ t.rpt \in {s.rpt, FALSE} /\ t.tx /\ t.enc = Encode4FSKIDFrame
BY DEF Ended, Play, InitializeConnection, SetARDOPProtocolState, ClearDataToSend, Leaves, Leaving,
       Same, Fields

\* END is not answered by the station that receives.
LEMMA EndedIRSIs ==
  ASSUME NEW s, DOMAIN s = Fields
  PROVE  LET t == EndedIRS(s) IN Leaves(t, s, {"discRpt", "rpt"}) /\ ~t.discRpt /\ ~t.rpt
BY DEF EndedIRS, InitializeConnection, SetARDOPProtocolState, ClearDataToSend, Leaves, Leaving,
       Same, Fields

\* END is answered with ID in IDLE.
LEMMA EndedIdleIs ==
  ASSUME NEW s, DOMAIN s = Fields
  PROVE  LET t == EndedIdle(s) IN
         /\ Leaves(t, s, {"discRpt", "rpt", "enc", "tx"})
         /\ ~t.discRpt /\ ~t.rpt /\ t.tx /\ t.enc = Encode4FSKIDFrame
BY DEF EndedIdle, Play, SetARDOPProtocolState, ClearDataToSend, Leaves, Leaving, Same, Fields

\* A call begins, whatever was before.
LEMMA ConnectRequestIs ==
  ASSUME NEW s, DOMAIN s = Fields, NEW self
  PROVE  LET t == ConnectRequest(s, self) IN
         /\ Same(t, s, {"sid", "lastAcked", "bw", "abort", "state", "sub", "repeats", "psid",
                        "pending", "connected", "rpt", "needCall", "enc", "tx"})
         /\ t.sid = self /\ t.lastAcked = NONE /\ t.bw = 0 /\ ~t.abort /\ t.state = "ISS"
         /\ t.sub = "ISSConReq" /\ t.repeats = 1 /\ t.psid = self /\ t.pending /\ ~t.connected
         /\ t.rpt /\ ~t.needCall /\ t.tx
         /\ t.enc = EncodeARQConRequest(Request(s.arqBW, s.callBW))
BY DEF ConnectRequest, Play, InitializeConnection, SetARDOPProtocolState, Same, Fields

\* ABORT: nothing is played.
LEMMA AbortedIs ==
  ASSUME NEW s, DOMAIN s = Fields
  PROVE  LET t == Aborted(s) IN
         /\ Leaves(t, s, {"abort", "rpt", "discRpt", "repeats"})
         /\ ~t.abort /\ ~t.rpt /\ ~t.discRpt /\ t.repeats = 0
BY DEF Aborted, InitializeConnection, SetARDOPProtocolState, ClearDataToSend, Leaves, Leaving,
       Same, Fields

\* DISC has been repeated often enough.
LEMMA GivenUpIs ==
  ASSUME NEW s, DOMAIN s = Fields
  PROVE  LET t == GivenUp(s) IN
         /\ Leaves(t, s, {"rpt", "discRpt", "repeats"})
         /\ ~t.rpt /\ ~t.discRpt /\ t.repeats = 0
BY DEF GivenUp, InitializeConnection, SetARDOPProtocolState, ClearDataToSend, Leaves, Leaving,
       Same, Fields

\* The connect request has been repeated often enough.
LEMMA CallFailedIs ==
  ASSUME NEW s, DOMAIN s = Fields
  PROVE  LET t == CallFailed(s) IN
         /\ Leaves(t, s, {"rpt", "repeats"}) /\ ~t.rpt /\ t.repeats = 0 /\ ~t.pending
BY DEF CallFailed, InitializeConnection, SetARDOPProtocolState, ClearDataToSend, Leaves, Leaving,
       Same, Fields

\* The timeout plays DISC and leaves.
LEMMA SendTimeoutIs ==
  ASSUME NEW s, DOMAIN s = Fields
  PROVE  LET t == SendTimeout(s) IN
         /\ Leaves(t, s, {"sendTimer", "rpt", "timedOut", "enc", "tx"})
         /\ ~t.sendTimer /\ ~t.rpt /\ ~t.timedOut /\ t.tx
         /\ t.enc = Encode4FSKControl("DISC", s.sid)
BY DEF SendTimeout, PlayDisc, Play, InitializeConnection, SetARDOPProtocolState, ClearDataToSend, Leaves,
       Leaving, Same, Fields

\* A station that was called goes back to DISC, and keeps its queue.
LEMMA PendingTimeoutIs ==
  ASSUME NEW s, DOMAIN s = Fields
  PROVE  LET t == PendingTimeout(s) IN
         /\ Same(t, s, {"pendTimer", "rpt", "state", "pending", "sid", "lastAcked", "bw"})
         /\ ~t.pendTimer /\ ~t.rpt /\ t.state = "DISC" /\ ~t.pending
         /\ t.sid = FF /\ t.lastAcked = NONE /\ t.bw = 0
BY DEF PendingTimeout, InitializeConnection, Same, Fields

\* ABORT comes while a station plays.  It goes out with a DISC or an END...
Out == {"abort", "rpt", "discRpt", "repeats", "lastSid", "idTimer", "sendTimer", "timedOut", "enc",
        "tx"}
GoesOut(t, s) ==
  /\ Leaves(t, s, Out)
  /\ ~t.abort /\ ~t.rpt /\ ~t.discRpt /\ t.repeats = 0 /\ t.lastSid \in {s.lastSid, FF} /\ t.tx
  /\ \E type \in {"DISC", "END"}, id \in {s.sid, FF} : t.enc = Encode4FSKControl(type, id)

\* ...or is left in IRS without a session, when what it plays is the ACK of a BREAK.
Strands(t, s) ==
  /\ Same(t, s, {"abort", "rpt", "discRpt", "repeats", "queue", "disc", "connected", "pending", "sid",
                 "bw", "state", "sub", "lastAcked", "toHost", "enc", "tx"})
  /\ t.state = "IRS" /\ t.sub = "IRSfromISS" /\ ~t.connected /\ ~t.pending /\ t.sid = FF
  /\ t.bw = 0 /\ t.lastAcked = NONE /\ t.toHost = NONE /\ t.queue = <<>>
  /\ ~t.disc /\ ~t.abort /\ ~t.rpt /\ ~t.discRpt /\ t.repeats = 0 /\ t.tx
  /\ t.enc = EncodeDATAACK(s.sid)

LEMMA StrandsIs ==
  ASSUME NEW s, DOMAIN s = Fields, s.state = "IDLE"
  PROVE  Strands(BecomeIRS(Aborted(AckBreak(s))), s)
BY DEF BecomeIRS, AckBreak, Aborted, InitializeConnection, SetARDOPProtocolState, ClearDataToSend,
       Play, Strands, Same, Fields

LEMMA GoesOutIs ==
  ASSUME NEW s, DOMAIN s = Fields, s.state # "DISC"
  PROVE  /\ GoesOut(KeepLastSid(Aborted(PlayEnd(s))), s)
         /\ GoesOut([Aborted(PlayDisc(s, FF)) EXCEPT !.timedOut = FALSE], s)
<1>1. PICK u : u = PlayEnd(s)
  OBVIOUS
<1>2. Same(u, s, {"idTimer", "discRpt", "enc", "tx"}) /\ u.tx /\ u.enc = Encode4FSKControl("END", s.sid)
  BY <1>1 DEF PlayEnd, Play, Same, Fields
<1>3. PICK v : v = Aborted(u)
  OBVIOUS
<1>4. /\ Leaves(v, u, {"abort", "rpt", "discRpt", "repeats"})
      /\ ~v.abort /\ ~v.rpt /\ ~v.discRpt /\ v.repeats = 0 /\ v.sid = FF /\ v.bw = 0
      /\ v.lastAcked = NONE
  <2>1. DOMAIN u = Fields
    BY <1>2 DEF Same
  <2>2. v.sid = FF /\ v.bw = 0 /\ v.lastAcked = NONE
    BY <1>3, <2>1 DEF Aborted, InitializeConnection, SetARDOPProtocolState, ClearDataToSend, Fields
  <2> QED BY <1>3, <2>1, <2>2, AbortedIs
<1>5. GoesOut(KeepLastSid(v), s)
  <2>1. PICK t : t = KeepLastSid(v)
    OBVIOUS
  <2>2. Same(t, v, {"queue", "lastSid", "rpt"}) /\ t.queue = <<>> /\ t.lastSid = v.sid /\ ~t.rpt
    BY <1>4, <2>1 DEF KeepLastSid, SetARDOPProtocolState, ClearDataToSend, Leaves, Same, Fields
  <2>3. Leaves(t, s, Out)
    BY <1>2, <1>4, <2>2 DEF Leaves, Leaving, Out, Same, Fields
  <2> QED BY <1>2, <1>4, <2>1, <2>2, <2>3 DEF GoesOut, Leaves, Leaving, Same, Fields
<1>6. PICK w : w = PlayDisc(s, FF)
  OBVIOUS
<1>7. /\ Same(w, s, {"sendTimer", "rpt", "queue", "enc", "tx"}) /\ w.tx
      /\ w.enc = Encode4FSKControl("DISC", FF)
  BY <1>6 DEF PlayDisc, ClearDataToSend, Play, Same, Fields
<1>8. PICK x : x = Aborted(w)
  OBVIOUS
<1>9. /\ Leaves(x, w, {"abort", "rpt", "discRpt", "repeats"})
      /\ ~x.abort /\ ~x.rpt /\ ~x.discRpt /\ x.repeats = 0
  BY <1>7, <1>8, AbortedIs DEF Same
<1>10. GoesOut([x EXCEPT !.timedOut = FALSE], s)
  <2>1. PICK t : t = [x EXCEPT !.timedOut = FALSE]
    OBVIOUS
  <2>2. Same(t, x, {"timedOut"})
    BY <1>9, <2>1 DEF Leaves, Same, Fields
  <2>3. Leaves(t, s, Out)
    BY <1>7, <1>9, <2>2 DEF Leaves, Leaving, Out, Same, Fields
  <2>4. t.lastSid = s.lastSid /\ t.tx /\ t.enc = Encode4FSKControl("DISC", FF)
    BY <1>7, <1>9, <2>2 DEF Leaves, Leaving, Same, Fields
  <2>5. ~t.abort /\ ~t.rpt /\ ~t.discRpt /\ t.repeats = 0
    BY <1>9, <2>2 DEF Same, Fields
  <2> QED BY <2>1, <2>3, <2>4, <2>5 DEF GoesOut
<1> QED BY <1>1, <1>3, <1>5, <1>6, <1>8, <1>10

\* What AbortInPlay comes to.
LEMMA AbortInPlayIs ==
  ASSUME NEW p \in Station, DOMAIN st[p] = Fields, AbortInPlay(p)
  PROVE  /\ UNCHANGED calls
         /\ \E t : /\ Change(p, t)
                  /\ \/ GoesOut(t, st[p])
                     \/ /\ Strands(t, st[p]) /\ Receives(p, TRUE)
                        /\ st[p].state = "IDLE" /\ air.frame.type = "BREAK"
<1>1. CASE /\ Receives(p, TRUE) /\ st[p].state = "IDLE" /\ air.frame.type = "BREAK"
           /\ Change(p, BecomeIRS(Aborted(AckBreak(st[p]))))
  BY <1>1, StrandsIs DEF AbortInPlay, Command
<1>2. CASE st[p].state = "IDLE" /\ Change(p, KeepLastSid(Aborted(PlayEnd(st[p]))))
  BY <1>2, GoesOutIs DEF AbortInPlay, Command
<1>3. CASE /\ st[p].state \in {"IDLE", "IRS", "IRStoISS"}
           /\ Change(p, [Aborted(PlayDisc(st[p], FF)) EXCEPT !.timedOut = FALSE])
  BY <1>3, GoesOutIs DEF AbortInPlay, Command
<1> QED BY <1>1, <1>2, <1>3 DEF AbortInPlay

-----------------------------------------------------------------------------
(* One sender.                                                             *)

States == {"DISC", "ISS", "IRS", "IDLE", "IRStoISS"}
Sends(s) == s.state \in {"ISS", "IDLE"}

\* Station p changes to t, and what it plays covers what was in the air; heard: it had heard that.
Moved(p, t, heard) ==
  /\ st' = [st EXCEPT ![p] = [t EXCEPT !.tx = FALSE]]
  /\ air' = IF t.tx THEN [to |-> Peer(p), frame |-> t.enc] ELSE IF heard THEN NONE ELSE air

\* The last frame of a station that sends is no ACK, nor BREAK unless it is disconnecting.
Repeats(s) ==
  /\ s.enc.type = "ACK" => s.state \in {"IRS", "DISC"}
  /\ Sends(s) /\ s.enc.type = "BREAK" => s.discRpt /\ ~s.rpt

\* As long as an ACK or a BREAK is in the air the station it is from does not send.
InAir(q, types) == air # NONE /\ air.to = q /\ air.frame.type \in types
SenderInv ==
  /\ DOMAIN st = Station
  /\ \A p \in Station :
       /\ DOMAIN st[p] = Fields /\ st[p].state \in States /\ ~st[p].tx
       /\ Repeats(st[p])
       /\ InAir(Peer(p), {"BREAK"}) => ~Sends(st[p])
       /\ InAir(Peer(p), {"ACK"}) => st[p].state \in {"IRS", "DISC"}
  /\ OneSender

\* What every step has to respect: who begins to send plays something else than ACK and BREAK
\* or heard what was in the air; and who is connected as well knows that the other does not send.
SenderStep(p, t, heard) ==
  /\ Moved(p, t, heard)
  /\ DOMAIN t = Fields /\ t.state \in States
  /\ Repeats(t)
  /\ Sends(t) /\ t.tx => t.enc.type # "BREAK"
  /\ Sends(t) => Sends(st[p]) \/ t.tx \/ heard
  /\ t.state = "IRStoISS" => st[p].state = "IRStoISS" \/ t.tx \/ heard
  /\ Sends(t) /\ t.connected => (Sends(st[p]) /\ st[p].connected) \/ ~Sends(st[Peer(p)])

\* Such steps keep the invariant.
LEMMA SenderStepKeeps ==
  ASSUME SenderInv, NEW p \in Station, NEW t, NEW heard \in BOOLEAN, SenderStep(p, t, heard)
  PROVE  SenderInv'
<1>1. PICK q \in Station : q = Peer(p) /\ p = Peer(q) /\ p # q /\ \A r \in Station : r = p \/ r = q
  BY TwoStations
<1>2. PICK u : u = [t EXCEPT !.tx = FALSE]
  OBVIOUS
<1>3. /\ DOMAIN u = Fields /\ ~u.tx /\ u.state = t.state /\ u.connected = t.connected
      /\ u.enc = t.enc /\ u.discRpt = t.discRpt /\ u.rpt = t.rpt
  BY <1>2 DEF SenderStep, Fields
<1>4. DOMAIN st' = Station /\ st'[p] = u /\ st'[q] = st[q]
  BY <1>1, <1>2 DEF SenderStep, Moved, SenderInv
<1>5. Repeats(u)
  BY <1>3 DEF SenderStep, Repeats, Sends
<1>6. /\ InAir(q, {"BREAK"})' => ~Sends(u)
      /\ InAir(q, {"ACK"})' => u.state \in {"IRS", "DISC"}
  <2>1. CASE t.tx
    <3>1. air' = [to |-> q, frame |-> t.enc]
      BY <1>1, <2>1 DEF SenderStep, Moved
    <3> QED BY <1>3, <2>1, <3>1 DEF SenderStep, Repeats, InAir, Sends
  <2>2. CASE ~t.tx /\ heard
    BY <2>2 DEF SenderStep, Moved, InAir
  <2>3. CASE ~t.tx /\ ~heard
    <3>1. air' = air
      BY <2>3 DEF SenderStep, Moved
    <3>2. (Sends(t) => Sends(st[p])) /\ (t.state = "IRStoISS" => st[p].state = "IRStoISS")
      BY <2>3 DEF SenderStep
    <3> QED BY <1>1, <1>3, <3>1, <3>2 DEF SenderInv, SenderStep, InAir, Sends, States
  <2> QED BY <2>1, <2>2, <2>3
<1>7. /\ InAir(p, {"BREAK"})' => ~Sends(st[q])
      /\ InAir(p, {"ACK"})' => st[q].state \in {"IRS", "DISC"}
  <2>1. CASE t.tx
    BY <1>1, <2>1 DEF SenderStep, Moved, InAir
  <2>2. CASE ~t.tx
    BY <1>1, <2>2 DEF SenderStep, Moved, InAir, SenderInv
  <2> QED BY <2>1, <2>2
<1>8. OneSender'
  BY <1>1, <1>3, <1>4 DEF SenderInv, SenderStep, OneSender, Sends
<1>9. \A r \in Station :
        /\ DOMAIN st'[r] = Fields /\ st'[r].state \in States /\ ~st'[r].tx
        /\ Repeats(st[r])'
        /\ InAir(Peer(r), {"BREAK"})' => ~Sends(st[r])'
        /\ InAir(Peer(r), {"ACK"})' => st'[r].state \in {"IRS", "DISC"}
  <2>1. /\ DOMAIN st'[p] = Fields /\ st'[p].state \in States /\ ~st'[p].tx
        /\ Repeats(st[p])' /\ Sends(st[p])' = Sends(u)
    BY <1>3, <1>4, <1>5 DEF SenderStep, Repeats, Sends
  <2>2. /\ DOMAIN st'[q] = Fields /\ st'[q].state \in States /\ ~st'[q].tx
        /\ Repeats(st[q])' /\ Sends(st[q])' = Sends(st[q])
    BY <1>4 DEF SenderInv, Repeats, Sends
  <2> QED BY <1>1, <1>4, <1>6, <1>7, <2>1, <2>2
<1> QED BY <1>4, <1>8, <1>9 DEF SenderInv

\* A station that goes to DISC respects that.
LEMMA LeavingSends ==
  ASSUME SenderInv, NEW p \in Station, NEW t, NEW heard, Moved(p, t, heard),
         DOMAIN t = Fields, t.state = "DISC"
  PROVE  SenderStep(p, t, heard)
BY DEF SenderStep, Repeats, Sends, States

\* So does one that keeps its state, its frame and its connection.
LEMMA StayingSends ==
  ASSUME SenderInv, NEW p \in Station, NEW t, NEW heard, Moved(p, t, heard),
         DOMAIN t = Fields, t.state = st[p].state, t.enc = st[p].enc, t.connected = st[p].connected,
         t.discRpt = st[p].discRpt, t.rpt \in {st[p].rpt, FALSE},
         Sends(t) /\ t.tx => t.enc.type # "BREAK"
  PROVE  SenderStep(p, t, heard)
BY DEF SenderStep, SenderInv, Repeats, Sends, States

\* So does one that plays something else than ACK or BREAK, and is not connected by it.
LEMMA PlayingSends ==
  ASSUME SenderInv, NEW p \in Station, NEW t, NEW heard, Moved(p, t, heard),
         DOMAIN t = Fields, t.state \in States, t.tx, t.enc.type \notin {"ACK", "BREAK"},
         Sends(t) /\ t.connected => Sends(st[p]) /\ st[p].connected
  PROVE  SenderStep(p, t, heard)
BY DEF SenderStep, SenderInv, Repeats, Sends, States

\* Both ways of changing a record move the station.
LEMMA ChangeMoves ==
  ASSUME NEW p, NEW t
  PROVE  (Change(p, t) => Moved(p, t, FALSE)) /\ (Respond(p, t) => Moved(p, t, TRUE))
BY DEF Change, Respond, Moved

\* Steps of station p that respect it.
Steps(p) == \E t : \E heard \in BOOLEAN : SenderStep(p, t, heard)

\* The commands of the host respect it.
LEMMA HostSteps ==
  ASSUME SenderInv, NEW p \in Station,
         GiveData(p) \/ ArqCall(p) \/ HostAbort(p) \/ HostDisconnect(p) \/ HostBreak(p) \/ HostPurge(p)
  PROVE  Steps(p)
<1>1. PICK s : s = st[p]
  OBVIOUS
<1>2. DOMAIN s = Fields /\ ~s.tx
  BY <1>1 DEF SenderInv
<1>3. CASE HostAbort(p) /\ Change(p, Aborted(s))
  <2>1. PICK t : t = Aborted(s)
    OBVIOUS
  <2>2. DOMAIN t = Fields /\ t.state = "DISC"
    BY <1>2, <2>1, AbortedIs DEF Leaves, Same
  <2>3. Moved(p, t, FALSE)
    BY <1>3, <2>1, ChangeMoves
  <2> QED BY <2>2, <2>3, LeavingSends DEF Steps
<1>4. CASE ~(HostAbort(p) /\ Change(p, Aborted(s)))
  <2>1. PICK t : /\ Change(p, t)
                 /\ t \in {[s EXCEPT !.given = s.given + 1, !.queue = Append(@, s.given + 1)],
                           [s EXCEPT !.needCall = TRUE], [s EXCEPT !.abort = TRUE],
                           [s EXCEPT !.disc = TRUE], [s EXCEPT !.breakCmd = TRUE],
                           ClearDataToSend(s)}
    BY <1>1, <1>4 DEF GiveData, ArqCall, HostAbort, HostDisconnect, HostBreak, HostPurge
  <2>2. /\ DOMAIN t = Fields /\ t.state = s.state /\ t.enc = s.enc /\ t.connected = s.connected
        /\ t.discRpt = s.discRpt /\ t.rpt = s.rpt /\ ~t.tx
    <3>1. ASSUME t # ClearDataToSend(s)
          PROVE  /\ DOMAIN t = Fields /\ t.state = s.state /\ t.enc = s.enc
                 /\ t.connected = s.connected /\ t.discRpt = s.discRpt /\ t.rpt = s.rpt /\ ~t.tx
      <4>1. CASE t = [s EXCEPT !.given = s.given + 1, !.queue = Append(@, s.given + 1)]
        BY <1>2, <4>1 DEF Fields
      <4>2. CASE t = [s EXCEPT !.needCall = TRUE] \/ t = [s EXCEPT !.abort = TRUE]
        BY <1>2, <4>2 DEF Fields
      <4>3. CASE t = [s EXCEPT !.disc = TRUE] \/ t = [s EXCEPT !.breakCmd = TRUE]
        BY <1>2, <4>3 DEF Fields
      <4> QED BY <2>1, <3>1, <4>1, <4>2, <4>3
    <3>2. CASE t = ClearDataToSend(s)
      BY <1>2, <3>2 DEF ClearDataToSend, Fields
    <3> QED BY <1>2, <3>1, <3>2
  <2>3. Moved(p, t, FALSE)
    BY <2>1, ChangeMoves
  <2> QED BY <1>1, <2>2, <2>3, StayingSends DEF Steps
<1> QED BY <1>3, <1>4

\* A frame that is repeated is no BREAK when the station sends.
LEMMA PollSteps ==
  ASSUME SenderInv, NEW p \in Station, Poll(p)
  PROVE  Steps(p)
<1>1. PICK s : s = st[p]
  OBVIOUS
<1>2. DOMAIN s = Fields /\ ~s.tx /\ s.state \in States /\ Repeats(s)
  BY <1>1 DEF SenderInv
<1>3. ASSUME NEW t, Act(p, t), DOMAIN t = Fields, t.state = "DISC"
      PROVE  Steps(p)
  BY <1>3, ChangeMoves, LeavingSends DEF Steps, Act
<1>4. ASSUME NEW t, Act(p, t), DOMAIN t = Fields, t.state = s.state, t.enc = s.enc,
             t.connected = s.connected, t.discRpt = s.discRpt, t.rpt \in {s.rpt, FALSE},
             Sends(t) /\ t.tx => t.enc.type # "BREAK"
      PROVE  Steps(p)
  BY <1>1, <1>4, ChangeMoves, StayingSends DEF Steps, Act
<1>5. ASSUME NEW t, Act(p, t), DOMAIN t = Fields, t.state \in States, t.tx,
             t.enc.type \notin {"ACK", "BREAK"}, Sends(t) /\ t.connected => Sends(s) /\ s.connected
      PROVE  Steps(p)
  BY <1>1, <1>5, ChangeMoves, PlayingSends DEF Steps, Act
<1>6. ASSUME PollAbort(p) PROVE Steps(p)
  <2>1. PICK t : t = Aborted(s) /\ Act(p, t)
    BY <1>1, <1>6 DEF PollAbort
  <2> QED BY <1>2, <1>3, <2>1, AbortedIs DEF Leaves, Same
<1>7. ASSUME RepeatDisc(p) PROVE Steps(p)
  <2>1. CASE Act(p, GivenUp(s))
    <3>1. PICK t : t = GivenUp(s) /\ Act(p, t)
      BY <2>1
    <3> QED BY <1>2, <1>3, <3>1, GivenUpIs DEF Leaves, Same
  <2>2. CASE ~Act(p, GivenUp(s))
    <3>1. PICK t : /\ t = Play([s EXCEPT !.repeats = @ + 1, !.rpt = FALSE],
                               Encode4FSKControl("DISC", s.sid))
                   /\ Act(p, t)
      BY <1>1, <1>7, <2>2 DEF RepeatDisc
    <3>2. /\ DOMAIN t = Fields /\ t.state = s.state /\ t.connected = s.connected /\ t.tx
          /\ t.enc.type = "DISC"
      BY <1>2, <3>1 DEF Play, Encode4FSKControl, Fields
    <3> QED BY <1>2, <1>5, <3>1, <3>2 DEF Sends
  <2> QED BY <2>1, <2>2
<1>8. ASSUME PollDisconnect(p) PROVE Steps(p)
  <2>1. PICK t : t = CheckForDisconnect(s) /\ Act(p, t)
    BY <1>1, <1>8 DEF PollDisconnect
  <2>2. /\ DOMAIN t = Fields /\ t.state = s.state /\ t.connected = s.connected /\ t.tx
        /\ t.enc = Encode4FSKControl("DISC", s.sid)
    BY <1>2, <2>1, CheckForDisconnectIs DEF Same, Fields
  <2>3. t.enc.type = "DISC"
    BY <2>2 DEF Encode4FSKControl
  <2> QED BY <1>2, <1>5, <2>1, <2>2, <2>3 DEF Sends
<1>9. ASSUME RepeatConReq(p) PROVE Steps(p)
  <2>1. CASE Act(p, CallFailed(s))
    <3>1. PICK t : t = CallFailed(s) /\ Act(p, t)
      BY <2>1
    <3> QED BY <1>2, <1>3, <3>1, CallFailedIs DEF Leaves, Same
  <2>2. CASE ~Act(p, CallFailed(s))
    <3>1. PICK t : t = [s EXCEPT !.repeats = @ + 1, !.tx = s.rpt] /\ Act(p, t)
      BY <1>1, <1>9, <2>2 DEF RepeatConReq
    <3>2. /\ DOMAIN t = Fields /\ t.state = s.state /\ t.connected = s.connected /\ t.tx = s.rpt
          /\ t.enc = s.enc /\ t.discRpt = s.discRpt /\ t.rpt = s.rpt
      BY <1>2, <3>1 DEF Fields
    <3>3. ~s.discRpt
      BY <1>1, <1>9 DEF RepeatConReq, Undisturbed
    <3> QED BY <1>2, <1>4, <3>1, <3>2, <3>3 DEF Sends, Repeats
  <2> QED BY <2>1, <2>2
<1>10. ASSUME ArqTimeout(p) \/ PollDISC(p) PROVE Steps(p)
  <2>1. PICK t : /\ Act(p, t)
                 /\ t \in {[s EXCEPT !.rpt = FALSE, !.timedOut = TRUE, !.sendTimer = TRUE],
                           [s EXCEPT !.disc = FALSE, !.repeats = 0, !.rpt = FALSE]}
    BY <1>1, <1>10 DEF ArqTimeout, PollDISC
  <2>2. /\ DOMAIN t = Fields /\ t.state = s.state /\ t.connected = s.connected /\ ~t.tx
        /\ t.enc = s.enc /\ t.discRpt = s.discRpt /\ t.rpt = FALSE
    BY <1>2, <2>1 DEF Fields
  <2> QED BY <1>4, <2>1, <2>2
<1>11. ASSUME RepeatFrame(p) PROVE Steps(p)
  <2>1. PICK t : t = Remodulate(s) /\ Act(p, t)
    BY <1>1, <1>11 DEF RepeatFrame
  <2>2. /\ DOMAIN t = Fields /\ t.state = s.state /\ t.connected = s.connected
        /\ t.enc = s.enc /\ t.discRpt = s.discRpt /\ t.rpt = s.rpt
    BY <1>2, <2>1 DEF Fields, Remodulate
  <2>3. ~s.discRpt
    BY <1>1, <1>11 DEF RepeatFrame, Undisturbed
  <2> QED BY <1>2, <1>4, <2>1, <2>2, <2>3 DEF Sends, Repeats
<1>12. ASSUME SendTimerExpires(p) PROVE Steps(p)
  <2>1. PICK t : t = SendTimeout(s) /\ Act(p, t)
    BY <1>1, <1>12 DEF SendTimerExpires
  <2> QED BY <1>2, <1>3, <2>1, SendTimeoutIs DEF Leaves, Same
<1>13. ASSUME PendTimerExpires(p) PROVE Steps(p)
  <2>1. PICK t : t = PendingTimeout(s) /\ Act(p, t)
    BY <1>1, <1>13 DEF PendTimerExpires
  <2> QED BY <1>2, <1>3, <2>1, PendingTimeoutIs DEF Same
<1>14. ASSUME IdTimerExpires(p) PROVE Steps(p)
  <2>1. PICK t : t = Play([s EXCEPT !.idTimer = FALSE], Encode4FSKIDFrame) /\ Act(p, t)
    BY <1>1, <1>14 DEF IdTimerExpires
  <2>2. /\ DOMAIN t = Fields /\ t.state = s.state /\ t.connected = s.connected /\ t.tx
        /\ t.enc.type = "ID"
    BY <1>2, <2>1 DEF Play, Encode4FSKControl, Encode4FSKIDFrame, Fields
  <2> QED BY <1>2, <1>5, <2>1, <2>2 DEF Sends
<1>15. ASSUME PlaceCall(p) PROVE Steps(p)
  <2>1. PICK t : t = ConnectRequest(s, p) /\ Act(p, t)
    BY <1>1, <1>15 DEF PlaceCall
  <2>2. /\ DOMAIN t = Fields /\ t.state = "ISS" /\ ~t.connected /\ t.tx
        /\ t.enc = EncodeARQConRequest(Request(s.arqBW, s.callBW))
    BY <1>2, <2>1, ConnectRequestIs DEF Same
  <2>3. t.enc.type = "ConReq"
    BY <2>2 DEF EncodeARQConRequest, Encode4FSKControl
  <2> QED BY <1>5, <2>1, <2>2, <2>3 DEF States
<1> QED BY <1>6, <1>7, <1>8, <1>9, <1>10, <1>11, <1>12, <1>13, <1>14, <1>15 DEF Poll

\* So does one that receives and answers what it heard, with ACK as the IRS only.
LEMMA AnsweringSteps ==
  ASSUME SenderInv, NEW p \in Station, NEW t, Respond(p, t), DOMAIN t = Fields,
         t.state \in {"IRS", "IRStoISS"}, t.tx, t.enc.type = "ACK" => t.state = "IRS"
  PROVE  Steps(p)
<1>1. SenderStep(p, t, TRUE)
  BY ChangeMoves DEF SenderStep, SenderInv, Repeats, Sends, States
<1> QED BY <1>1 DEF Steps

\* So does SendData, for a station that was connected as a sender or heard that the other receives.
LEMMA SendingSteps ==
  ASSUME SenderInv, NEW p \in Station, NEW u, NEW shift, Respond(p, SendData(u, shift)),
         DOMAIN u = Fields, u.state = "ISS", ~u.tx,
         u.enc.type # "ACK", u.enc.type = "BREAK" => ~u.rpt,
         u.connected => (Sends(st[p]) /\ st[p].connected) \/ ~Sends(st[Peer(p)])
  PROVE  Steps(p)
<1>1. PICK t : t = SendData(u, shift)
  OBVIOUS
<1>2. Moved(p, t, TRUE)
  BY <1>1, ChangeMoves
<1>3. CASE u.discRpt
  <2>1. t = u
    BY <1>1, <1>3, SendDataIs
  <2> QED BY <1>2, <1>3, <2>1 DEF Steps, SenderStep, Repeats, Sends, States
<1>4. CASE ~u.discRpt
  <2>1. CASE t = CheckForDisconnect(u)
    <3>1. /\ DOMAIN t = Fields /\ t.state = "ISS" /\ t.connected = u.connected
          /\ t.enc = Encode4FSKControl("DISC", u.sid)
      BY <2>1, CheckForDisconnectIs DEF Same, Fields
    <3>2. t.enc.type = "DISC"
      BY <3>1 DEF Encode4FSKControl
    <3> QED BY <1>2, <3>1, <3>2 DEF Steps, SenderStep, Repeats, Sends, States
  <2>2. CASE /\ Same(t, u, {"mode", "inProcess", "sent", "sentData", "rpt", "sub", "enc", "tx"})
             /\ \E mode, par, data : t.enc = DataFrame(u.sid, mode, par, data)
    <3>1. DOMAIN t = Fields /\ t.state = "ISS" /\ t.connected = u.connected
      BY <2>2 DEF Same, Fields
    <3>2. t.enc.type = "DATA"
      BY <2>2 DEF Encode4FSKControl, DataFrame
    <3> QED BY <1>2, <3>1, <3>2 DEF Steps, SenderStep, Repeats, Sends, States
  <2>3. CASE /\ Same(t, u, {"state", "rpt", "sentData", "enc", "tx"}) /\ t.state = "IDLE"
             /\ t.enc = Encode4FSKControl("IDLE", u.sid)
    <3>1. DOMAIN t = Fields /\ t.connected = u.connected
      BY <2>3 DEF Same, Fields
    <3>2. t.enc.type = "IDLE"
      BY <2>3 DEF Encode4FSKControl
    <3> QED BY <1>2, <2>3, <3>1, <3>2 DEF Steps, SenderStep, Repeats, Sends, States
  <2> QED BY <1>1, <1>4, <2>1, <2>2, <2>3, SendDataIs
<1> QED BY <1>3, <1>4

\* Who hears an ACK or a BREAK hears it from a station that does not send.
LEMMA HeardReceives ==
  ASSUME SenderInv, NEW p \in Station, NEW ok, Hears(p, ok), air.frame.type \in {"ACK", "BREAK"}
  PROVE  ~Sends(st[Peer(p)])
<1>1. PICK q \in Station : q = Peer(p) /\ p = Peer(q)
  BY TwoStations
<1>2. InAir(Peer(q), {air.frame.type})
  BY <1>1 DEF Hears, InAir
<1> QED BY <1>1, <1>2 DEF SenderInv, InAir, Sends

\* So does the reception of a station that does not send.
LEMMA ReceiveStepsIRS ==
  ASSUME SenderInv, NEW p \in Station,
         \/ ReceiveInDISC(p) \/ ReceiveInIRSConAck(p) \/ BreakInstead(p) \/ ReceiveControlInIRS(p)
         \/ ReceiveConAckInIRS(p) \/ ReceiveDataInIRS(p) \/ ReceiveBadDataInIRS(p)
  PROVE  Steps(p)
<1>1. PICK s : s = st[p]
  OBVIOUS
<1>2. DOMAIN s = Fields /\ ~s.tx /\ s.state \in States /\ Repeats(s)
  BY <1>1 DEF SenderInv
<1>3. ASSUME NEW t, Respond(p, t), DOMAIN t = Fields, t.state = "DISC"
      PROVE  Steps(p)
  BY <1>3, ChangeMoves, LeavingSends DEF Steps
<1>4. ASSUME NEW caller, NEW bw, Respond(p, AnswerConReq(s, caller, bw))
      PROVE  Steps(p)
  <2>1. PICK t : t = AnswerConReq(s, caller, bw)
    OBVIOUS
  <2>2. DOMAIN t = Fields /\ t.state = "IRS" /\ t.tx
    BY <1>2, <2>1, AnswerConReqIs DEF Same
  <2> QED BY <1>4, <2>1, <2>2, AnsweringSteps
<1>5. ASSUME ReceiveInDISC(p) PROVE Steps(p)
  <2>1. CASE \E bw : Respond(p, AnswerConReq(s, Peer(p), bw))
    BY <1>4, <2>1
  <2>2. CASE ~\E bw : Respond(p, AnswerConReq(s, Peer(p), bw))
    <3>1. s.state = "DISC"
      BY <1>1, <1>5 DEF ReceiveInDISC
    <3>3. PICK t, f : /\ Respond(p, Play(t, f))
                      /\ t \in {[s EXCEPT !.idTimer = TRUE, !.rpt = FALSE], [s EXCEPT !.psid = Peer(p)],
                                [s EXCEPT !.psid = Peer(p), !.rpt = FALSE]}
      BY <1>1, <1>5, <2>2 DEF ReceiveInDISC
    <3>4. DOMAIN t = Fields /\ t.state = "DISC"
      BY <1>2, <3>1, <3>3 DEF Fields
    <3>5. DOMAIN Play(t, f) = Fields /\ Play(t, f).state = "DISC"
      BY <3>4, PlayIs DEF Same, Fields
    <3> QED BY <1>3, <3>3, <3>5
  <2> QED BY <2>1, <2>2
<1>6. ASSUME NEW t, NEW type, NEW id, Respond(p, Play(t, Encode4FSKControl(type, id))),
             DOMAIN t = Fields, t.state \in {"IRS", "IRStoISS"}, type = "ACK" => t.state = "IRS"
      PROVE  Steps(p)
  <2>1. PICK u : u = Play(t, Encode4FSKControl(type, id))
    OBVIOUS
  <2>2. DOMAIN u = Fields /\ u.state = t.state /\ u.tx /\ u.enc = Encode4FSKControl(type, id)
    BY <1>6, <2>1, PlayIs DEF Same, Fields
  <2>3. u.enc.type = type
    BY <2>2 DEF Encode4FSKControl
  <2> QED BY <1>6, <2>1, <2>2, <2>3, AnsweringSteps
<1>7. ASSUME ReceiveInIRSConAck(p) PROVE Steps(p)
  <2>1. s.state = "IRS"
    BY <1>1, <1>7 DEF ReceiveInIRSConAck
  <2>2. CASE \E bw : Respond(p, AnswerConReq(s, Peer(p), bw))
    BY <1>4, <2>2
  <2>3. CASE Respond(p, Play([s EXCEPT !.psid = Peer(p)], Encode4FSKControl("ConRejBW", Peer(p))))
    <3>1. PICK t : t = [s EXCEPT !.psid = Peer(p)]
      OBVIOUS
    <3>2. DOMAIN t = Fields /\ t.state = "IRS"
      BY <1>2, <2>1, <3>1 DEF Fields
    <3> QED BY <1>6, <2>3, <3>1, <3>2
  <2>4. CASE \E bw : Respond(p, Play([InitModes(s, bw) EXCEPT
                              !.sid = s.psid, !.connected = TRUE, !.pending = FALSE,
                              !.pendTimer = FALSE, !.sub = "IRSData", !.toHost = NONE,
                              !.rpt = FALSE],
                           EncodeDATAACK(s.psid)))
    <3>1. PICK bw, u, t : /\ u = InitModes(s, bw)
                          /\ t = [u EXCEPT !.sid = s.psid, !.connected = TRUE, !.pending = FALSE,
                                           !.pendTimer = FALSE, !.sub = "IRSData", !.toHost = NONE,
                                           !.rpt = FALSE]
                          /\ Respond(p, Play(t, EncodeDATAACK(s.psid)))
      BY <2>4
    <3>2. DOMAIN u = Fields /\ u.state = "IRS"
      BY <1>2, <2>1, <3>1, InitModesIs DEF Same, Fields
    <3>3. DOMAIN t = Fields /\ t.state = "IRS"
      BY <3>1, <3>2 DEF Fields
    <3> QED BY <1>6, <3>1, <3>3 DEF EncodeDATAACK
  <2> QED BY <1>1, <1>7, <2>2, <2>3, <2>4 DEF ReceiveInIRSConAck
<1>8. ASSUME NEW u, Respond(p, StartBreak(u)), DOMAIN u = Fields PROVE Steps(p)
  <2>1. PICK t : t = StartBreak(u)
    OBVIOUS
  <2>2. DOMAIN t = Fields /\ t.state = "IRStoISS" /\ t.tx /\ t.enc = Encode4FSKControl("BREAK", u.sid)
    BY <1>8, <2>1, StartBreakIs DEF Same
  <2>3. t.enc.type = "BREAK"
    BY <2>2 DEF Encode4FSKControl
  <2> QED BY <1>8, <2>1, <2>2, <2>3, AnsweringSteps
<1>9. ASSUME BreakInstead(p) PROVE Steps(p)
  <2>1. CASE Respond(p, StartBreak([s EXCEPT !.breakCmd = FALSE]))
    <3>1. DOMAIN [s EXCEPT !.breakCmd = FALSE] = Fields
      BY <1>2
    <3> QED BY <1>8, <2>1, <3>1
  <2>2. CASE /\ s.state = "IRStoISS"
             /\ Respond(p, Play([s EXCEPT !.rpt = TRUE], Encode4FSKControl("BREAK", s.sid)))
    <3>1. PICK t : t = [s EXCEPT !.rpt = TRUE]
      OBVIOUS
    <3>2. DOMAIN t = Fields /\ t.state = "IRStoISS"
      BY <1>2, <2>2, <3>1 DEF Fields
    <3> QED BY <1>6, <2>2, <3>1, <3>2
  <2> QED BY <1>1, <1>9, <2>1, <2>2 DEF BreakInstead
<1>10. [s EXCEPT !.rpt = FALSE].state = s.state /\ DOMAIN [s EXCEPT !.rpt = FALSE] = Fields
  BY <1>2 DEF Fields
<1>11. ASSUME ReceiveControlInIRS(p) PROVE Steps(p)
  <2>1. s.state = "IRS"
    BY <1>1, <1>11 DEF ReceiveControlInIRS, IRSReceiving
  <2>2. CASE Respond(p, AnswerDisc(s)) \/ Respond(p, EndedIRS(s))
    <3>1. PICK t : Respond(p, t) /\ t \in {AnswerDisc(s), EndedIRS(s)}
      BY <2>2
    <3>2. DOMAIN t = Fields /\ t.state = "DISC"
      BY <1>2, <3>1, AnswerDiscIs, EndedIRSIs DEF Leaves, Same
    <3> QED BY <1>3, <3>1, <3>2
  <2>3. CASE Respond(p, Play([s EXCEPT !.rpt = FALSE], EncodeDATAACK(s.sid)))
    BY <1>6, <1>10, <2>1, <2>3 DEF EncodeDATAACK
  <2>4. CASE Respond(p, CheckForDisconnect(s))
    <3>1. PICK t : Respond(p, t) /\ t = CheckForDisconnect(s)
      BY <2>4
    <3>2. DOMAIN t = Fields /\ t.state = "IRS" /\ t.tx
      BY <1>2, <2>1, <3>1, CheckForDisconnectIs DEF Same, Fields
    <3> QED BY <3>1, <3>2, AnsweringSteps
  <2>5. CASE Respond(p, StartBreak(s))
    BY <1>2, <1>8, <2>5
  <2> QED BY <1>1, <1>11, <2>2, <2>3, <2>4, <2>5 DEF ReceiveControlInIRS
<1>12. ASSUME ReceiveConAckInIRS(p) PROVE Steps(p)
  <2>1. s.state = "IRS"
    BY <1>1, <1>12 DEF ReceiveConAckInIRS, IRSReceiving
  <2>2. PICK bw, t : t = [s EXCEPT !.bw = bw] /\ Respond(p, Play(t, EncodeDATAACK(s.sid)))
    BY <1>1, <1>12 DEF ReceiveConAckInIRS
  <2>3. DOMAIN t = Fields /\ t.state = "IRS"
    BY <1>2, <2>1, <2>2 DEF Fields
  <2> QED BY <1>6, <2>2, <2>3 DEF EncodeDATAACK
<1>13. ASSUME ReceiveDataInIRS(p) PROVE Steps(p)
  <2>1. s.state = "IRS"
    BY <1>1, <1>13 DEF ReceiveDataInIRS, IRSReceiving
  <2>2. PICK got, type, t :
          /\ t = [s EXCEPT !.got = got, !.toHost = type, !.lastAcked = type, !.sub = "IRSData",
                           !.rpt = FALSE]
          /\ Respond(p, Play(t, EncodeDATAACK(s.sid)))
    BY <1>1, <1>13 DEF ReceiveDataInIRS
  <2>3. DOMAIN t = Fields /\ t.state = "IRS"
    BY <1>2, <2>1, <2>2 DEF Fields
  <2> QED BY <1>6, <2>2, <2>3 DEF EncodeDATAACK
<1>14. ASSUME ReceiveBadDataInIRS(p) PROVE Steps(p)
  <2>1. s.state = "IRS"
    BY <1>1, <1>14 DEF ReceiveBadDataInIRS, IRSReceiving
  <2>2. CASE Respond(p, Play([s EXCEPT !.rpt = FALSE], EncodeDATAACK(s.sid)))
    BY <1>6, <1>10, <2>1, <2>2 DEF EncodeDATAACK
  <2>3. CASE Respond(p, Play([s EXCEPT !.sub = "IRSData", !.rpt = FALSE], EncodeDATANAK(s.sid)))
    <3>1. PICK t : t = [s EXCEPT !.sub = "IRSData", !.rpt = FALSE]
      OBVIOUS
    <3>2. DOMAIN t = Fields /\ t.state = "IRS"
      BY <1>2, <2>1, <3>1 DEF Fields
    <3> QED BY <1>6, <2>3, <3>1, <3>2 DEF EncodeDATANAK
  <2> QED BY <1>1, <1>14, <2>2, <2>3 DEF ReceiveBadDataInIRS
<1> QED BY <1>5, <1>7, <1>9, <1>11, <1>12, <1>13, <1>14

\* So does the reception of one that sends, or is about to.
LEMMA ReceiveStepsISS ==
  ASSUME SenderInv, NEW p \in Station,
         \/ ReceiveInIRStoISS(p) \/ ReceiveInIDLE(p) \/ ReceiveInISSConReq(p) \/ ReceiveInISSConAck(p)
         \/ DisconnectInISSData(p) \/ ReceiveAckInISSData(p) \/ ReceiveNakInISSData(p)
         \/ ReceiveControlInISSData(p)
  PROVE  Steps(p)
<1>1. PICK s : s = st[p]
  OBVIOUS
<1>2. DOMAIN s = Fields /\ ~s.tx /\ s.state \in States /\ Repeats(s)
  BY <1>1 DEF SenderInv
<1>3. ASSUME NEW t, Respond(p, t), DOMAIN t = Fields, t.state = "DISC"
      PROVE  Steps(p)
  BY <1>3, ChangeMoves, LeavingSends DEF Steps
<1>4. ASSUME NEW u, Respond(p, TurnOver(u)), DOMAIN u = Fields
      PROVE  Steps(p)
  <2>1. PICK t : t = TurnOver(u)
    OBVIOUS
  <2>2. DOMAIN t = Fields /\ t.state = "IRS" /\ t.tx
    BY <1>4, <2>1, TurnOverIs DEF Same
  <2> QED BY <1>4, <2>1, <2>2, AnsweringSteps
<1>5. ASSUME s.state \in {"IRStoISS", "IDLE"}, NEW u,
             u = [SetARDOPProtocolState(s, "ISS") EXCEPT !.sub = "ISSData"]
      PROVE  /\ DOMAIN u = Fields /\ u.state = "ISS" /\ ~u.tx /\ ~u.rpt
             /\ u.enc = s.enc /\ u.connected = s.connected
  BY <1>2, <1>5 DEF SetARDOPProtocolState, Fields
<1>6. ASSUME ReceiveInIRStoISS(p) PROVE Steps(p)
  <2>1. PICK v, u : /\ v = [SetARDOPProtocolState(s, "ISS") EXCEPT !.sub = "ISSData"]
                    /\ u = [v EXCEPT !.toHost = NONE]
                    /\ Respond(p, SendData(u, 0))
    BY <1>1, <1>6 DEF ReceiveInIRStoISS
  <2>2. s.state = "IRStoISS" /\ ~Sends(st[Peer(p)])
    BY <1>1, <1>6, HeardReceives DEF ReceiveInIRStoISS
  <2>3. /\ DOMAIN v = Fields /\ v.state = "ISS" /\ ~v.tx /\ ~v.rpt /\ v.enc = s.enc
    BY <1>5, <2>1, <2>2
  <2>4. /\ DOMAIN u = Fields /\ u.state = "ISS" /\ ~u.tx /\ ~u.rpt /\ u.enc = s.enc
    BY <2>1, <2>3 DEF Fields
  <2> QED BY <1>2, <2>1, <2>2, <2>4, SendingSteps DEF Repeats
<1>7. ASSUME ReceiveInIDLE(p) PROVE Steps(p)
  <2>1. s.state = "IDLE"
    BY <1>1, <1>7 DEF ReceiveInIDLE
  <2>2. CASE \E u : /\ u = [SetARDOPProtocolState(s, "ISS") EXCEPT !.sub = "ISSData"]
                    /\ Respond(p, SendData(u, 0))
    <3>1. PICK u : /\ u = [SetARDOPProtocolState(s, "ISS") EXCEPT !.sub = "ISSData"]
                   /\ Respond(p, SendData(u, 0))
      BY <2>2
    <3>2. /\ DOMAIN u = Fields /\ u.state = "ISS" /\ ~u.tx /\ ~u.rpt
          /\ u.enc = s.enc /\ u.connected = s.connected
      BY <1>5, <2>1, <3>1
    <3>3. u.connected => Sends(st[p]) /\ st[p].connected
      BY <1>1, <2>1, <3>2 DEF Sends
    <3> QED BY <1>2, <2>1, <3>1, <3>2, <3>3, SendingSteps DEF Repeats
  <2>3. CASE Respond(p, TurnOver(s))
    BY <1>2, <1>4, <2>3
  <2>4. CASE Respond(p, AnswerDiscIdle(s)) \/ Respond(p, EndedIdle(s))
    <3>1. PICK t : Respond(p, t) /\ t \in {AnswerDiscIdle(s), EndedIdle(s)}
      BY <2>4
    <3>2. DOMAIN t = Fields /\ t.state = "DISC"
      BY <1>2, <3>1, AnswerDiscIdleIs, EndedIdleIs DEF Leaves, Same
    <3> QED BY <1>3, <3>1, <3>2
  <2> QED BY <1>1, <1>7, <2>2, <2>3, <2>4 DEF ReceiveInIDLE
<1>8. ASSUME ReceiveInISSConReq(p) PROVE Steps(p)
  <2>1. s.state = "ISS"
    BY <1>1, <1>8 DEF ReceiveInISSConReq
  <2>2. CASE \E bw : Respond(p, Play([InitModes(s, bw) EXCEPT !.rpt = TRUE, !.sub = "ISSConAck"],
                                     EncodeConACK(bw, s.sid)))
    <3>1. PICK bw, u, v, t :
            /\ u = InitModes(s, bw) /\ v = [u EXCEPT !.rpt = TRUE, !.sub = "ISSConAck"]
            /\ t = Play(v, EncodeConACK(bw, s.sid)) /\ Respond(p, t)
      BY <2>2
    <3>2. DOMAIN u = Fields /\ u.state = "ISS" /\ u.connected = s.connected
      BY <1>2, <2>1, <3>1, InitModesIs DEF Same, Fields
    <3>3. DOMAIN v = Fields /\ v.state = "ISS" /\ v.connected = s.connected
      BY <3>1, <3>2 DEF Fields
    <3>4. /\ DOMAIN t = Fields /\ t.state = "ISS" /\ t.connected = s.connected /\ t.tx
          /\ t.enc = EncodeConACK(bw, s.sid)
      <4>1. Same(t, v, {"enc", "tx"}) /\ t.tx /\ t.enc = EncodeConACK(bw, s.sid)
        BY <3>1, <3>3, PlayIs
      <4> QED BY <3>3, <4>1 DEF Same, Fields
    <3>5. t.enc.type = "ConAck"
      BY <3>4 DEF EncodeConACK, Encode4FSKControl
    <3> QED BY <1>1, <2>1, <3>1, <3>4, <3>5, ChangeMoves, PlayingSends DEF Steps, Sends, States
  <2>3. CASE Respond(p, [s EXCEPT !.abort = TRUE])
    <3>1. PICK t : t = [s EXCEPT !.abort = TRUE]
      OBVIOUS
    <3>2. /\ DOMAIN t = Fields /\ t.state = s.state /\ t.connected = s.connected /\ ~t.tx
          /\ t.enc = s.enc /\ t.discRpt = s.discRpt /\ t.rpt = s.rpt
      BY <1>2, <3>1 DEF Fields
    <3> QED BY <1>1, <2>3, <3>1, <3>2, ChangeMoves, StayingSends DEF Steps
  <2> QED BY <1>1, <1>8, <2>2, <2>3 DEF ReceiveInISSConReq
<1>9. ASSUME ReceiveInISSConAck(p) PROVE Steps(p)
  <2>1. s.state = "ISS"
    BY <1>1, <1>9 DEF ReceiveInISSConAck
  <2>2. PICK u : u = CallerConnected(s)
    OBVIOUS
  <2>3. /\ DOMAIN u = Fields /\ u.state = "ISS" /\ ~u.tx /\ ~u.rpt /\ u.enc = s.enc
    BY <1>2, <2>1, <2>2, CallerConnectedIs DEF Same, Fields
  <2>4. CASE air.frame.type \in {"ACK", "BREAK"} /\ Respond(p, SendData(CallerConnected(s), 0))
    <3>1. ~Sends(st[Peer(p)])
      BY <1>9, <2>4, HeardReceives DEF ReceiveInISSConAck, Receives
    <3> QED BY <1>2, <2>1, <2>2, <2>3, <2>4, <3>1, SendingSteps DEF Repeats
  <2>5. CASE Respond(p, TurnOver(CallerConnected(s)))
    BY <1>4, <2>2, <2>3, <2>5
  <2>6. CASE Respond(p, InitializeConnection(SetARDOPProtocolState(s, "DISC")))
    <3>1. PICK t : t = InitializeConnection(SetARDOPProtocolState(s, "DISC"))
      OBVIOUS
    <3>2. DOMAIN t = Fields /\ t.state = "DISC"
      BY <1>2, <2>1, <3>1 DEF InitializeConnection, SetARDOPProtocolState, ClearDataToSend, Fields
    <3> QED BY <1>3, <2>6, <3>1, <3>2
  <2> QED BY <1>1, <1>9, <2>4, <2>5, <2>6 DEF ReceiveInISSConAck
<1>10. ASSUME DisconnectInISSData(p) PROVE Steps(p)
  <2>1. s.state = "ISS"
    BY <1>1, <1>10 DEF DisconnectInISSData, ReceivingAsISS
  <2>2. PICK t : t = CheckForDisconnect(s) /\ Respond(p, t)
    BY <1>1, <1>10 DEF DisconnectInISSData
  <2>3. /\ DOMAIN t = Fields /\ t.state = s.state /\ t.connected = s.connected /\ t.tx
        /\ t.enc = Encode4FSKControl("DISC", s.sid)
    BY <1>2, <2>2, CheckForDisconnectIs DEF Same, Fields
  <2>4. t.enc.type = "DISC"
    BY <2>3 DEF Encode4FSKControl
  <2> QED BY <1>1, <1>2, <2>1, <2>2, <2>3, <2>4, ChangeMoves, PlayingSends DEF Steps, Sends
<1>11. ASSUME ReceiveAckInISSData(p) PROVE Steps(p)
  <2>1. s.state = "ISS"
    BY <1>1, <1>11 DEF ReceiveAckInISSData, ReceivingAsISS
  <2>2. PICK r, t, u, shift :
          /\ r = [s EXCEPT !.acked = s.sent, !.inProcess = 0]
          /\ t = IF s.sentData THEN RemoveDataFromQueue(r, s.inProcess) ELSE s
          /\ u = [t EXCEPT !.rpt = FALSE]
          /\ Respond(p, SendData(u, shift))
    BY <1>1, <1>11 DEF ReceiveAckInISSData
  <2>3. /\ DOMAIN r = Fields /\ r.state = "ISS" /\ ~r.tx /\ r.enc = s.enc /\ r.connected = s.connected
    BY <1>2, <2>1, <2>2 DEF Fields
  <2>4. /\ DOMAIN t = Fields /\ t.state = "ISS" /\ ~t.tx /\ t.enc = s.enc /\ t.connected = s.connected
    <3>1. CASE s.sentData
      <4>1. t = RemoveDataFromQueue(r, s.inProcess)
        BY <2>2, <3>1
      <4>2. Same(t, r, {"queue", "confirmed"})
        BY <2>3, <4>1, RemoveDataFromQueueIs
      <4>3. DOMAIN t = Fields /\ t.state = r.state /\ t.enc = r.enc /\ t.connected = r.connected
        BY <4>2 DEF Same, Fields
      <4>4. t.tx = r.tx
        BY <2>3, <4>1 DEF RemoveDataFromQueue, Fields
      <4> QED BY <2>3, <4>3, <4>4
    <3> QED BY <1>2, <2>1, <2>2, <3>1
  <2>5. /\ DOMAIN u = Fields /\ u.state = "ISS" /\ ~u.tx /\ ~u.rpt /\ u.enc = s.enc
        /\ u.connected = s.connected
    BY <2>2, <2>4 DEF Fields
  <2>6. u.connected => Sends(st[p]) /\ st[p].connected
    BY <1>1, <2>1, <2>5 DEF Sends
  <2> QED BY <1>2, <2>1, <2>2, <2>5, <2>6, SendingSteps DEF Repeats
<1>12. ASSUME ReceiveNakInISSData(p) PROVE Steps(p)
  <2>1. s.state = "ISS"
    BY <1>1, <1>12 DEF ReceiveNakInISSData, ReceivingAsISS
  <2>2. PICK shift : Respond(p, SendData(s, shift))
    BY <1>1, <1>12 DEF ReceiveNakInISSData
  <2> QED BY <1>1, <1>2, <2>1, <2>2, SendingSteps DEF Repeats, Sends
<1>13. ASSUME ReceiveControlInISSData(p) PROVE Steps(p)
  <2>1. CASE Respond(p, TurnOver(ClearDataToSend([s EXCEPT !.connected = TRUE, !.pending = FALSE])))
    <3>1. DOMAIN ClearDataToSend([s EXCEPT !.connected = TRUE, !.pending = FALSE]) = Fields
      BY <1>2 DEF ClearDataToSend
    <3> QED BY <1>4, <2>1, <3>1
  <2>2. CASE Respond(p, AnswerDisc(s)) \/ Respond(p, Ended(s))
    <3>1. PICK t : Respond(p, t) /\ t \in {AnswerDisc(s), Ended(s)}
      BY <2>2
    <3>2. DOMAIN t = Fields /\ t.state = "DISC"
      BY <1>2, <3>1, AnswerDiscIs, EndedIs DEF Leaves, Same
    <3> QED BY <1>3, <3>1, <3>2
  <2> QED BY <1>1, <1>13, <2>1, <2>2 DEF ReceiveControlInISSData
<1> QED BY <1>6, <1>7, <1>8, <1>9, <1>10, <1>11, <1>12, <1>13

\* So does an ABORT in between.
LEMMA AbortSteps ==
  ASSUME SenderInv, NEW p \in Station, AbortInPlay(p)
  PROVE  Steps(p)
<1>1. DOMAIN st[p] = Fields
  BY DEF SenderInv
<1>2. PICK t : Change(p, t) /\ (GoesOut(t, st[p]) \/ Strands(t, st[p]))
  BY <1>1, AbortInPlayIs
<1>3. CASE GoesOut(t, st[p])
  BY <1>2, <1>3, ChangeMoves, LeavingSends DEF GoesOut, Leaves, Same, Steps
<1>4. CASE Strands(t, st[p])
  <2>1. DOMAIN t = Fields /\ t.state = "IRS" /\ Moved(p, t, FALSE)
    BY <1>2, <1>4, ChangeMoves DEF Strands, Same
  <2>2. SenderStep(p, t, FALSE)
    BY <2>1 DEF SenderStep, Repeats, Sends, States
  <2> QED BY <2>2 DEF Steps
<1> QED BY <1>2, <1>3, <1>4

-----------------------------------------------------------------------------
\* At first nobody is connected.
LEMMA SenderInit == Init => SenderInv
<1> SUFFICES ASSUME Init PROVE SenderInv
  OBVIOUS
<1>1. PICK bw : st = [p \in Station |-> NewStation(bw[p][1], bw[p][2])]
  BY DEF Init
<1>2. ASSUME NEW p \in Station
      PROVE  DOMAIN st[p] = Fields /\ st[p].state = "DISC" /\ ~st[p].tx
  BY <1>1, <1>2 DEF NewStation, Fields
<1>3. air = NONE
  BY DEF Init
<1>4. OneSender
  BY <1>2, TwoStations, ArqAssumption DEF OneSender
<1> QED BY <1>1, <1>2, <1>3, <1>4 DEF SenderInv, Repeats, Sends, States, InAir

\* Every step keeps the invariant: a station acts, the frame in the air fades, or nothing happens.
LEMMA SenderNext == SenderInv /\ [Next]_vars => SenderInv'
<1> SUFFICES ASSUME SenderInv, [Next]_vars PROVE SenderInv'
  OBVIOUS
<1>1. ASSUME NEW p \in Station, Steps(p) PROVE SenderInv'
  BY <1>1, SenderStepKeeps DEF Steps
<1>2. CASE st' = st /\ air' \in {air, NONE}
  BY <1>2 DEF SenderInv, InAir, OneSender, Repeats, Sends
<1>3. CASE Fade \/ GoOutOfReach \/ UNCHANGED vars
  BY <1>2, <1>3 DEF Fade, GoOutOfReach, vars
<1>4. ASSUME NEW p \in Station, Receive(p) PROVE SenderInv'
  BY <1>1, <1>4, ReceiveStepsIRS, ReceiveStepsISS DEF Receive
<1> QED BY <1>1, <1>3, <1>4, HostSteps, PollSteps, AbortSteps DEF Next

\* At no time are both stations connected and sending: a station takes over the sending only
\* by an ACK to its BREAK, and gives it up when it answers BREAK with ACK, so whatever is lost,
\* repeated or given up in between, one of the two is not in ISS or IDLE.
THEOREM ArqOneSender == Spec => []OneSender
<1>1. SenderInv => OneSender
  BY DEF SenderInv
<1> QED BY SenderInit, SenderNext, <1>1, PTL DEF Spec

-----------------------------------------------------------------------------
(* Types.                                                                  *)

Counted(n) == n \in 0 .. ConReqRepeats \/ n \in 0 .. DiscRepeats

\* What is true of the record of station p, also before what it plays is in the air: as TypeOK
\* says; and its settings are settings, IRSConAck has a pending session, and it plays a frame.
Fitting(s) == s.state = "ISS" /\ s.sub = "ISSData" /\ ~s.discRpt => s.inProcess <= Room(s, s.mode)
Lasting(p, s) ==
  /\ s.arqBW \in Settings /\ s.callBW \in Settings \cup {UNDEFINED}
  /\ s.table \in Widths /\ s.mode \in 0 .. LastMode(s.table)
  /\ s.acked \in {0, 1} /\ s.sent \in {0, 1} /\ s.inProcess \in Nat
  /\ s.given \in 0 .. MaxItems[p]
Typed(p, s) ==
  /\ DOMAIN s = Fields /\ Lasting(p, s)
  /\ s.state \in States
  /\ s.sid \in Station \cup {FF} /\ s.psid \in Station \cup {NONE}
  /\ s.lastSid \in Station \cup {FF, NONE}
  /\ s.sub = "IRSConAck" => s.psid \in Station
  /\ Counted(s.repeats)
  /\ s.queue \in Seq(1 .. MaxItems[p]) /\ Len(s.queue) <= s.given
  /\ s.enc # NONE => FrameOK(s.enc)
  /\ s.state # "DISC" \/ s.tx => s.enc # NONE

TypedInv ==
  /\ DOMAIN st = Station
  /\ \A p \in Station : Typed(p, st[p]) /\ Fitting(st[p]) /\ ~st[p].tx
  /\ air # NONE => air.to \in Station /\ FrameOK(air.frame)

\* What p may become.
Becomes(p, t) == Typed(p, t) /\ Fitting(t)

\* A station that becomes something typed keeps the types.
LEMMA TypedStep ==
  ASSUME TypedInv, NEW p \in Station, NEW t, NEW heard \in BOOLEAN, Moved(p, t, heard), Becomes(p, t)
  PROVE  TypedInv'
<1>1. PICK u : u = [t EXCEPT !.tx = FALSE]
  OBVIOUS
<1>2. /\ DOMAIN u = Fields /\ ~u.tx /\ \A x \in Fields \ {"tx"} : u[x] = t[x]
  BY <1>1 DEF Becomes, Typed, Fields
<1>3. Typed(p, u) /\ Fitting(u)
  BY <1>2 DEF Becomes, Typed, Lasting, Fitting, Fields, Room
<1>4. DOMAIN st' = Station /\ st'[p] = u /\ \A q \in Station \ {p} : st'[q] = st[q]
  BY <1>1 DEF Moved, TypedInv
<1>5. air' # NONE => air'.to \in Station /\ FrameOK(air'.frame)
  <2>1. CASE t.tx
    <3>1. air' = [to |-> Peer(p), frame |-> t.enc]
      BY <2>1 DEF Moved
    <3>2. FrameOK(t.enc)
      BY <2>1 DEF Becomes, Typed
    <3> QED BY <3>1, <3>2, TwoStations
  <2>2. CASE ~t.tx
    BY <2>2 DEF Moved, TypedInv
  <2> QED BY <2>1, <2>2
<1>6. \A q \in Station : Typed(q, st'[q]) /\ Fitting(st'[q]) /\ ~st'[q].tx
  BY <1>2, <1>3, <1>4 DEF TypedInv
<1>7. ASSUME NEW q \in Station PROVE Typed(q, st[q])' /\ Fitting(st[q])' /\ (~st[q].tx)'
  BY <1>6 DEF Typed, Lasting, Fitting, Room
<1> QED BY <1>4, <1>5, <1>7 DEF TypedInv, FrameOK

\* The fields that may change as long as what a station plays is a frame, and those that may
\* change within their types.
Loose ==
  {"bw", "connected", "pending", "rpt", "disc", "breakCmd", "abort", "needCall", "pendTimer",
   "sendTimer", "timedOut", "idTimer", "sentData", "toHost", "lastAcked", "enc", "tx", "got",
   "confirmed"}
Bound == {"state", "sub", "sid", "psid", "lastSid", "repeats", "queue", "discRpt"}

\* A record that differs in nothing that is typed, or only in these fields, is typed.
LEMMA Retyped ==
  ASSUME NEW p \in Station, NEW s, NEW t, Typed(p, s), Same(t, s, Loose \cup Bound),
         t.state \in States, t.sid \in Station \cup {FF}, t.psid \in Station \cup {NONE},
         t.lastSid \in Station \cup {FF, NONE}, t.sub = "IRSConAck" => t.psid \in Station,
         Counted(t.repeats), t.queue \in {s.queue, <<>>},
         t.enc # s.enc => FrameOK(t.enc), t.state # "DISC" \/ t.tx => t.enc # NONE
  PROVE  Typed(p, t)
<1>1. \A x \in Fields \ (Loose \cup Bound) : t[x] = s[x]
  BY DEF Same
<1>2. /\ t.arqBW = s.arqBW /\ t.callBW = s.callBW /\ t.table = s.table /\ t.mode = s.mode
      /\ t.acked = s.acked /\ t.sent = s.sent /\ t.inProcess = s.inProcess /\ t.given = s.given
  BY <1>1 DEF Fields, Loose, Bound
<1>3. Lasting(p, t)
  BY <1>2 DEF Lasting, Typed
<1>4. t.queue \in Seq(1 .. MaxItems[p]) /\ Len(t.queue) <= t.given
  <2>1. CASE t.queue = s.queue
    BY <1>2, <2>1 DEF Typed
  <2>2. CASE t.queue = <<>>
    <3>1. t.given \in 0 .. MaxItems[p]
      BY <1>3 DEF Lasting
    <3> QED BY <2>2, <3>1
  <2> QED BY <2>1, <2>2
<1>5. DOMAIN t = Fields
  BY DEF Same
<1> QED BY <1>3, <1>4, <1>5 DEF Typed

\* Control frames are frames, and so are ID, ConAck and ConReq.
LEMMA ControlFrames ==
  ASSUME NEW id \in Station \cup {FF, NONE}
  PROVE  /\ \A type \in {"IDLE", "ID", "ConRejBusy", "ConRejBW", "ACK", "NAK", "BREAK", "DISC", "END"} :
              FrameOK(Encode4FSKControl(type, id))
         /\ FrameOK(Encode4FSKIDFrame)
         /\ FrameOK(EncodeDATAACK(id)) /\ FrameOK(EncodeDATANAK(id))
         /\ \A w \in Widths : FrameOK(EncodeConACK(w, id))
         /\ \A request \in Settings : FrameOK(EncodeARQConRequest(request))
<1>1. \A type : Encode4FSKControl(type, id) =
                  [type |-> type, id |-> id, mode |-> 0, par |-> 0, data |-> <<>>, bw |-> UNDEFINED]
  BY DEF Encode4FSKControl
<1>2. <<>> \in Seq(Nat)
  OBVIOUS
<1>3. \A type \in {"IDLE", "ID", "ConRejBusy", "ConRejBW", "ACK", "NAK", "BREAK", "DISC", "END"} :
        FrameOK(Encode4FSKControl(type, id))
  <2> SUFFICES
        ASSUME NEW type \in {"IDLE", "ID", "ConRejBusy", "ConRejBW", "ACK", "NAK", "BREAK", "DISC", "END"}
        PROVE  FrameOK(Encode4FSKControl(type, id))
    OBVIOUS
  <2>1. PICK f : f = Encode4FSKControl(type, id)
    OBVIOUS
  <2>2. f = [type |-> type, id |-> id, mode |-> 0, par |-> 0, data |-> <<>>, bw |-> UNDEFINED]
    BY <1>1, <2>1
  <2>3. f \in Frame
    BY <1>2, <2>2 DEF Frame
  <2>4. f.type \notin {"ConReq", "ConAck"}
    BY <2>2
  <2> QED BY <2>1, <2>3, <2>4 DEF FrameOK
<1>4. FrameOK(Encode4FSKIDFrame)
  BY <1>2 DEF FrameOK, Frame, Encode4FSKControl, Encode4FSKIDFrame
<1>5. \A w \in Widths : FrameOK(EncodeConACK(w, id))
  BY <1>2 DEF FrameOK, Frame, Encode4FSKControl, EncodeConACK, UpTo, Settings
<1>6. \A request \in Settings : FrameOK(EncodeARQConRequest(request))
  BY <1>2 DEF FrameOK, Frame, Encode4FSKControl, EncodeARQConRequest
<1> QED BY <1>3, <1>4, <1>5, <1>6 DEF EncodeDATAACK, EncodeDATANAK

\* Data frames are frames.
LEMMA DataFrames ==
  ASSUME NEW id \in Station \cup {FF, NONE}, NEW mode \in Nat, NEW par \in {0, 1}, NEW data \in Seq(Nat)
  PROVE  FrameOK(DataFrame(id, mode, par, data))
BY DEF FrameOK, Frame, Encode4FSKControl, DataFrame, UNDEFINED, UpTo, Settings

\* NONE is no frame.
LEMMA FramesAreThere == ASSUME NEW f, FrameOK(f) PROVE f # NONE
BY NoneAssumption DEF FrameOK

\* A frame takes so many items of the queue.
LEMMA Rooms ==
  ASSUME NEW table \in Widths, NEW mode \in 0 .. LastMode(table)
  PROVE  MaxLen(ModeOf(table, mode)) \div ItemSize \in Nat
<1>1. MaxLen(ModeOf(table, mode)) \in Nat
  <2>1. ModeOf(table, mode) \in Modes
    BY ModesFit
  <2> QED BY <2>1, SizesAgree DEF Modes, FrameSize
<1>2. ItemSize \in Nat /\ ItemSize > 0
  BY ArqAssumption
<1>3. \A m \in Nat, k \in Nat : k > 0 => m \div k \in Nat
  BY Z3
<1> QED BY <1>1, <1>2, <1>3

\* A station that goes to DISC.
LEMMA LeavingTyped ==
  ASSUME NEW p \in Station, NEW s, NEW t, NEW X, Typed(p, s), Leaves(t, s, X),
         X \subseteq (Loose \cup {"lastSid", "discRpt", "repeats"}),
         t.lastSid \in Station \cup {FF, NONE}, Counted(t.repeats),
         t.enc # s.enc => FrameOK(t.enc), t.tx => t.enc # NONE
  PROVE  Becomes(p, t)
<1>1. Same(t, s, Leaving \cup X) /\ t.state = "DISC" /\ t.queue = <<>> /\ t.sid \in {FF, s.sid}
  BY DEF Leaves
<1>2. Same(t, s, Loose \cup Bound) /\ t.psid = s.psid /\ t.sub = s.sub
  BY <1>1 DEF Same, Leaving, Loose, Bound, Fields
<1>3. Typed(p, t)
  BY <1>1, <1>2, Retyped DEF Typed, States
<1>4. Fitting(t)
  BY <1>1 DEF Fitting
<1> QED BY <1>3, <1>4 DEF Becomes

\* One that keeps its state and what it sends, and may play something.
LEMMA StayingTyped ==
  ASSUME NEW p \in Station, NEW s, NEW t, Typed(p, s), Fitting(s),
         Same(t, s, Loose \cup {"psid", "repeats", "queue"}),
         t.psid \in Station \cup {s.psid}, Counted(t.repeats), t.queue \in {s.queue, <<>>},
         t.enc # s.enc => FrameOK(t.enc), t.tx => t.enc # NONE
  PROVE  Becomes(p, t)
<1>1. /\ Same(t, s, Loose \cup Bound) /\ t.state = s.state /\ t.sub = s.sub /\ t.sid = s.sid
      /\ t.lastSid = s.lastSid /\ t.discRpt = s.discRpt /\ t.inProcess = s.inProcess
      /\ t.mode = s.mode /\ t.table = s.table
  BY DEF Same, Loose, Bound, Fields
<1>2. t.state # "DISC" => t.enc # NONE
  BY <1>1, FramesAreThere DEF Typed
<1>3. Typed(p, t)
  BY <1>1, <1>2, Retyped DEF Typed
<1>4. Fitting(t)
  BY <1>1 DEF Fitting, Room
<1> QED BY <1>3, <1>4 DEF Becomes

\* One that plays in another state, or in another substate, than that in which it sends data.
LEMMA PlayingTyped ==
  ASSUME NEW p \in Station, NEW s, NEW t, Typed(p, s),
         Same(t, s, Loose \cup (Bound \ {"lastSid"})),
         t.state \in States, t.state # "ISS" \/ t.sub # "ISSData" \/ t.discRpt,
         t.sid \in Station \cup {FF}, t.psid \in Station \cup {s.psid},
         t.sub \in {s.sub} \/ t.sub # "IRSConAck" \/ t.psid \in Station,
         Counted(t.repeats), t.queue \in {s.queue, <<>>},
         FrameOK(t.enc)
  PROVE  Becomes(p, t)
<1>1. Same(t, s, Loose \cup Bound) /\ t.lastSid = s.lastSid
  BY DEF Same, Loose, Bound, Fields
<1>2. Typed(p, t)
  BY <1>1, Retyped, FramesAreThere DEF Typed
<1>3. Fitting(t)
  BY DEF Fitting
<1> QED BY <1>2, <1>3 DEF Becomes

\* The subroutines that change role or disconnect keep the types.
LEMMA TurnOverTyped ==
  ASSUME NEW p \in Station, NEW s, Typed(p, s)
  PROVE  Becomes(p, TurnOver(s))
<1>1. PICK t : t = TurnOver(s)
  OBVIOUS
<1>2. /\ Same(t, s, {"state", "lastAcked", "rpt", "sub", "toHost", "enc", "tx"})
      /\ t.state = "IRS" /\ t.sub = "IRSfromISS" /\ t.enc = EncodeDATAACK(s.sid)
  BY <1>1, TurnOverIs DEF Typed
<1>3. /\ Same(t, s, Loose \cup (Bound \ {"lastSid"})) /\ t.sid = s.sid
      /\ t.psid = s.psid /\ t.queue = s.queue /\ t.repeats = s.repeats
  BY <1>2 DEF Same, Fields, Loose, Bound
<1>4. FrameOK(t.enc)
  BY <1>2, ControlFrames DEF Typed
<1> QED BY <1>1, <1>2, <1>3, <1>4, PlayingTyped DEF Typed, States

\* BREAK keeps the types.
LEMMA StartBreakTyped ==
  ASSUME NEW p \in Station, NEW s, Typed(p, s)
  PROVE  Becomes(p, StartBreak(s))
<1>1. PICK t : t = StartBreak(s)
  OBVIOUS
<1>2. /\ Same(t, s, {"state", "lastAcked", "rpt", "enc", "tx"})
      /\ t.state = "IRStoISS" /\ t.enc = Encode4FSKControl("BREAK", s.sid)
  BY <1>1, StartBreakIs DEF Typed
<1>3. /\ Same(t, s, Loose \cup (Bound \ {"lastSid"})) /\ t.sid = s.sid /\ t.sub = s.sub
      /\ t.psid = s.psid /\ t.queue = s.queue /\ t.repeats = s.repeats
  BY <1>2 DEF Same, Fields, Loose, Bound
<1>4. FrameOK(t.enc)
  BY <1>2, ControlFrames DEF Typed
<1> QED BY <1>1, <1>2, <1>3, <1>4, PlayingTyped DEF Typed, States

\* So does DISC.
LEMMA CheckForDisconnectTyped ==
  ASSUME NEW p \in Station, NEW s, Typed(p, s)
  PROVE  Becomes(p, CheckForDisconnect(s))
<1>1. PICK t : t = CheckForDisconnect(s)
  OBVIOUS
<1>2. /\ Same(t, s, {"repeats", "disc", "discRpt", "rpt", "enc", "tx"})
      /\ t.repeats = 1 /\ t.discRpt /\ t.enc = Encode4FSKControl("DISC", s.sid)
  BY <1>1, CheckForDisconnectIs DEF Typed
<1>3. /\ Same(t, s, Loose \cup (Bound \ {"lastSid"})) /\ t.state = s.state /\ t.sid = s.sid
      /\ t.psid = s.psid /\ t.sub = s.sub /\ t.queue = s.queue
  BY <1>2 DEF Same, Fields, Loose, Bound
<1>4. FrameOK(t.enc) /\ Counted(t.repeats)
  BY <1>2, ControlFrames, ArqAssumption DEF Counted, Typed
<1> QED BY <1>1, <1>2, <1>3, <1>4, PlayingTyped DEF Typed

\* Steps of station p that keep the types.
TypedSteps(p) == \E t : \E heard \in BOOLEAN : Moved(p, t, heard) /\ Becomes(p, t)

\* The commands of the host keep the types.
LEMMA HostTyped ==
  ASSUME TypedInv, NEW p \in Station,
         GiveData(p) \/ ArqCall(p) \/ HostAbort(p) \/ HostDisconnect(p) \/ HostBreak(p) \/ HostPurge(p)
  PROVE  TypedSteps(p)
<1>1. PICK s : s = st[p]
  OBVIOUS
<1>2. Typed(p, s) /\ Fitting(s) /\ ~s.tx
  BY <1>1 DEF TypedInv
<1>3. DOMAIN s = Fields /\ Counted(s.repeats) /\ s.lastSid \in Station \cup {FF, NONE}
  BY <1>2 DEF Typed
<1>4. ASSUME NEW t, Change(p, t), Becomes(p, t) PROVE TypedSteps(p)
  BY <1>4, ChangeMoves DEF TypedSteps
<1>5. CASE GiveData(p)
  <2>1. PICK n, t : /\ s.given < MaxItems[p] /\ n = s.given + 1
                    /\ t = [s EXCEPT !.given = n, !.queue = Append(s.queue, n)] /\ Change(p, t)
    BY <1>1, <1>5 DEF GiveData
  <2>2. /\ DOMAIN t = Fields /\ t.given = n /\ t.queue = Append(s.queue, n)
        /\ \A x \in Fields \ {"given", "queue"} : t[x] = s[x]
    BY <1>3, <2>1 DEF Fields
  <2>3. s.given \in Nat /\ MaxItems[p] \in Nat /\ n \in 1 .. MaxItems[p]
    BY <1>2, <2>1, ArqAssumption DEF Typed, Lasting
  <2>4. t.queue \in Seq(1 .. MaxItems[p]) /\ Len(t.queue) <= t.given
    BY <1>2, <2>1, <2>2, <2>3 DEF Typed
  <2>5. /\ t.arqBW = s.arqBW /\ t.callBW = s.callBW /\ t.table = s.table /\ t.mode = s.mode
        /\ t.acked = s.acked /\ t.sent = s.sent /\ t.inProcess = s.inProcess /\ t.state = s.state
        /\ t.sub = s.sub /\ t.discRpt = s.discRpt /\ t.sid = s.sid /\ t.psid = s.psid
        /\ t.lastSid = s.lastSid /\ t.repeats = s.repeats /\ t.enc = s.enc /\ t.tx = s.tx
    BY <2>2 DEF Fields
  <2>6. Typed(p, t)
    BY <1>2, <2>2, <2>3, <2>4, <2>5 DEF Typed, Lasting
  <2>7. Fitting(t)
    BY <1>2, <2>5 DEF Fitting, Room
  <2> QED BY <1>4, <2>1, <2>6, <2>7 DEF Becomes
<1>6. CASE HostAbort(p) /\ Change(p, Aborted(s))
  <2>1. PICK t : t = Aborted(s)
    OBVIOUS
  <2>2. /\ Leaves(t, s, {"abort", "rpt", "discRpt", "repeats"}) /\ t.repeats = 0
    BY <1>3, <2>1, AbortedIs
  <2>3. t.enc = s.enc /\ t.tx = s.tx /\ t.lastSid = s.lastSid
    BY <2>2 DEF Leaves, Same, Leaving, Fields
  <2>4. Counted(t.repeats)
    BY <2>2, ArqAssumption DEF Counted
  <2>5. Becomes(p, t)
    BY <1>2, <1>3, <2>2, <2>3, <2>4, LeavingTyped DEF Loose
  <2> QED BY <1>4, <1>6, <2>1, <2>5
<1>7. CASE ~GiveData(p) /\ ~(HostAbort(p) /\ Change(p, Aborted(s)))
  <2>1. PICK t : /\ Change(p, t)
                 /\ t \in {[s EXCEPT !.needCall = TRUE], [s EXCEPT !.abort = TRUE],
                           [s EXCEPT !.disc = TRUE], [s EXCEPT !.breakCmd = TRUE],
                           ClearDataToSend(s)}
    BY <1>1, <1>7 DEF ArqCall, HostAbort, HostDisconnect, HostBreak, HostPurge
  <2>2. Same(t, s, Loose \cup {"queue"}) /\ t.queue \in {s.queue, <<>>} /\ t.enc = s.enc /\ t.tx = s.tx
    <3>1. CASE t = [s EXCEPT !.needCall = TRUE] \/ t = [s EXCEPT !.abort = TRUE]
      BY <1>3, <3>1 DEF Same, Loose, Fields
    <3>2. CASE t = [s EXCEPT !.disc = TRUE] \/ t = [s EXCEPT !.breakCmd = TRUE]
      BY <1>3, <3>2 DEF Same, Loose, Fields
    <3>3. CASE t = ClearDataToSend(s)
      BY <1>3, <3>3 DEF ClearDataToSend, Same, Loose, Fields
    <3> QED BY <2>1, <3>1, <3>2, <3>3
  <2>3. Same(t, s, Loose \cup {"psid", "repeats", "queue"}) /\ t.psid = s.psid /\ t.repeats = s.repeats
    BY <2>2 DEF Same, Fields, Loose
  <2>4. Becomes(p, t)
    BY <1>2, <1>3, <2>2, <2>3, StayingTyped
  <2> QED BY <1>4, <2>1, <2>4
<1> QED BY <1>5, <1>6, <1>7

\* So do the poll and the timers.
LEMMA PollTyped ==
  ASSUME TypedInv, NEW p \in Station, Poll(p)
  PROVE  TypedSteps(p)
<1>1. PICK s : s = st[p]
  OBVIOUS
<1>2. Typed(p, s) /\ Fitting(s) /\ ~s.tx
  BY <1>1 DEF TypedInv
<1>3. /\ DOMAIN s = Fields /\ Counted(s.repeats) /\ s.lastSid \in Station \cup {FF, NONE}
      /\ s.state \in States /\ s.sid \in Station \cup {FF} /\ s.psid \in Station \cup {NONE}
      /\ s.repeats \in Nat /\ Counted(0) /\ Counted(1)
  BY <1>2, ArqAssumption DEF Typed, Counted
<1>4. ASSUME NEW t, Act(p, t), Becomes(p, t) PROVE TypedSteps(p)
  BY <1>4, ChangeMoves DEF TypedSteps, Act
<1>5. FrameOK(Encode4FSKControl("DISC", s.sid)) /\ FrameOK(Encode4FSKIDFrame)
  BY <1>3, ControlFrames
<1>6. ASSUME NEW t, Leaves(t, s, {"abort", "rpt", "discRpt", "repeats"}), t.repeats = 0
      PROVE  Becomes(p, t)
  <2>1. t.enc = s.enc /\ t.tx = s.tx /\ t.lastSid = s.lastSid
    BY <1>6 DEF Leaves, Same, Leaving, Fields
  <2> QED BY <1>2, <1>3, <1>6, <2>1, LeavingTyped DEF Loose
<1>7. ASSUME NEW t, Same(t, s, Loose \cup {"repeats"}), Counted(t.repeats),
             t.enc # s.enc => FrameOK(t.enc), t.tx => t.enc # NONE
      PROVE  Becomes(p, t)
  <2>1. Same(t, s, Loose \cup {"psid", "repeats", "queue"}) /\ t.psid = s.psid /\ t.queue = s.queue
    BY <1>7 DEF Same, Fields, Loose
  <2> QED BY <1>2, <1>7, <2>1, StayingTyped
<1>8. CASE PollAbort(p)
  <2>1. PICK t : t = Aborted(s) /\ Act(p, t)
    BY <1>1, <1>8 DEF PollAbort
  <2> QED BY <1>3, <1>4, <1>6, <2>1, AbortedIs
<1>9. CASE RepeatDisc(p)
  <2>1. CASE Act(p, GivenUp(s))
    <3>1. PICK t : t = GivenUp(s) /\ Act(p, t)
      BY <2>1
    <3>2. Leaves(t, s, {"rpt", "discRpt", "repeats"}) /\ t.repeats = 0
      BY <1>3, <3>1, GivenUpIs
    <3>3. Leaves(t, s, {"abort", "rpt", "discRpt", "repeats"})
      BY <3>2 DEF Leaves, Same
    <3> QED BY <1>4, <1>6, <3>1, <3>2, <3>3
  <2>2. CASE ~Act(p, GivenUp(s))
    <3>1. PICK u, t : /\ s.repeats + 1 <= DiscRepeats
                      /\ u = [s EXCEPT !.repeats = @ + 1, !.rpt = FALSE]
                      /\ t = Play(u, Encode4FSKControl("DISC", s.sid)) /\ Act(p, t)
      BY <1>1, <1>9, <2>2 DEF RepeatDisc
    <3>2. DOMAIN u = Fields /\ u.repeats = s.repeats + 1 /\ Same(u, s, {"repeats", "rpt"})
      BY <1>3, <3>1 DEF Same, Fields
    <3>3. Same(t, u, {"enc", "tx"}) /\ t.enc = Encode4FSKControl("DISC", s.sid)
      BY <3>1, <3>2, PlayIs
    <3>4. Same(t, s, Loose \cup {"repeats"}) /\ t.repeats = s.repeats + 1
      BY <3>2, <3>3 DEF Same, Fields, Loose
    <3>5. Counted(t.repeats)
      BY <1>3, <3>1, <3>4, ArqAssumption DEF Counted
    <3> QED BY <1>4, <1>5, <1>7, <3>1, <3>3, <3>4, <3>5, FramesAreThere
  <2> QED BY <2>1, <2>2
<1>10. CASE PollDisconnect(p)
  BY <1>1, <1>2, <1>4, <1>10, CheckForDisconnectTyped DEF PollDisconnect
<1>11. CASE RepeatConReq(p)
  <2>1. CASE Act(p, CallFailed(s))
    <3>1. PICK t : t = CallFailed(s) /\ Act(p, t)
      BY <2>1
    <3>2. Leaves(t, s, {"rpt", "repeats"}) /\ t.repeats = 0
      BY <1>3, <3>1, CallFailedIs
    <3>3. Leaves(t, s, {"abort", "rpt", "discRpt", "repeats"})
      BY <3>2 DEF Leaves, Same
    <3> QED BY <1>4, <1>6, <3>1, <3>2, <3>3
  <2>2. CASE ~Act(p, CallFailed(s))
    <3>1. PICK t : /\ s.repeats + 1 <= ConReqRepeats
                   /\ t = [s EXCEPT !.repeats = @ + 1, !.tx = s.rpt] /\ Act(p, t)
      BY <1>1, <1>11, <2>2 DEF RepeatConReq
    <3>2. Same(t, s, Loose \cup {"repeats"}) /\ t.repeats = s.repeats + 1 /\ t.enc = s.enc
      BY <1>3, <3>1 DEF Same, Fields, Loose
    <3>3. Counted(t.repeats)
      BY <1>3, <3>1, <3>2, ArqAssumption DEF Counted
    <3>4. s.enc # NONE
      BY <1>1, <1>2, <1>11 DEF RepeatConReq, Typed
    <3> QED BY <1>4, <1>7, <3>1, <3>2, <3>3, <3>4
  <2> QED BY <2>1, <2>2
<1>12. CASE ArqTimeout(p)
  <2>1. PICK t : /\ t = [s EXCEPT !.rpt = FALSE, !.timedOut = TRUE, !.sendTimer = TRUE]
                 /\ Act(p, t)
    BY <1>1, <1>12 DEF ArqTimeout
  <2>2. /\ Same(t, s, Loose \cup {"repeats"}) /\ t.repeats = s.repeats /\ t.enc = s.enc
        /\ t.tx = s.tx
    BY <1>3, <2>1 DEF Same, Fields, Loose
  <2> QED BY <1>2, <1>3, <1>4, <1>7, <2>1, <2>2
<1>13. CASE PollDISC(p)
  <2>1. PICK t : t = [s EXCEPT !.disc = FALSE, !.repeats = 0, !.rpt = FALSE] /\ Act(p, t)
    BY <1>1, <1>13 DEF PollDISC
  <2>2. Same(t, s, Loose \cup {"repeats"}) /\ t.repeats = 0 /\ t.enc = s.enc /\ t.tx = s.tx
    BY <1>3, <2>1 DEF Same, Fields, Loose
  <2> QED BY <1>2, <1>3, <1>4, <1>7, <2>1, <2>2
<1>14. CASE RepeatFrame(p)
  <2>1. PICK t : t = Remodulate(s) /\ Act(p, t)
    BY <1>1, <1>14 DEF RepeatFrame
  <2>2. /\ Same(t, s, Loose \cup {"repeats"}) /\ t.repeats = s.repeats /\ t.enc = s.enc
        /\ t.tx => t.enc # NONE
    BY <1>3, <2>1 DEF Same, Fields, Loose, Remodulate
  <2> QED BY <1>3, <1>4, <1>7, <2>1, <2>2
<1>15. CASE SendTimerExpires(p)
  <2>1. PICK t : t = SendTimeout(s) /\ Act(p, t)
    BY <1>1, <1>15 DEF SendTimerExpires
  <2>2. /\ Leaves(t, s, {"sendTimer", "rpt", "timedOut", "enc", "tx"})
        /\ t.enc = Encode4FSKControl("DISC", s.sid)
    BY <1>3, <2>1, SendTimeoutIs
  <2>3. t.lastSid = s.lastSid /\ t.repeats = s.repeats
    BY <2>2 DEF Leaves, Same, Leaving, Fields
  <2>4. Becomes(p, t)
    BY <1>2, <1>3, <1>5, <2>2, <2>3, LeavingTyped, FramesAreThere DEF Loose
  <2> QED BY <1>4, <2>1, <2>4
<1>16. CASE PendTimerExpires(p)
  <2>1. PICK t : t = PendingTimeout(s) /\ Act(p, t)
    BY <1>1, <1>16 DEF PendTimerExpires
  <2>2. /\ Same(t, s, {"pendTimer", "rpt", "state", "pending", "sid", "lastAcked", "bw"})
        /\ t.state = "DISC" /\ t.sid = FF
    BY <1>3, <2>1, PendingTimeoutIs
  <2>3. /\ Same(t, s, Loose \cup Bound) /\ t.psid = s.psid /\ t.lastSid = s.lastSid /\ t.sub = s.sub
        /\ t.repeats = s.repeats /\ t.queue = s.queue /\ t.enc = s.enc /\ t.tx = s.tx
    BY <2>2 DEF Same, Fields, Loose, Bound
  <2>4. Typed(p, t)
    BY <1>2, <2>2, <2>3, Retyped DEF Typed, States
  <2>5. Fitting(t)
    BY <2>2 DEF Fitting
  <2> QED BY <1>4, <2>1, <2>4, <2>5 DEF Becomes
<1>17. CASE IdTimerExpires(p)
  <2>1. PICK u, t : /\ u = [s EXCEPT !.idTimer = FALSE] /\ t = Play(u, Encode4FSKIDFrame)
                    /\ Act(p, t)
    BY <1>1, <1>17 DEF IdTimerExpires
  <2>2. DOMAIN u = Fields /\ Same(u, s, {"idTimer"})
    BY <1>3, <2>1 DEF Same, Fields
  <2>3. Same(t, u, {"enc", "tx"}) /\ t.enc = Encode4FSKIDFrame
    BY <2>1, <2>2, PlayIs
  <2>4. Same(t, s, Loose \cup {"repeats"}) /\ t.repeats = s.repeats
    BY <2>2, <2>3 DEF Same, Fields, Loose
  <2> QED BY <1>3, <1>4, <1>5, <1>7, <2>1, <2>3, <2>4, FramesAreThere
<1>18. CASE PlaceCall(p)
  <2>1. PICK t : t = ConnectRequest(s, p) /\ Act(p, t)
    BY <1>1, <1>18 DEF PlaceCall
  <2>2. /\ Same(t, s, {"sid", "lastAcked", "bw", "abort", "state", "sub", "repeats", "psid",
                       "pending", "connected", "rpt", "needCall", "enc", "tx"})
        /\ t.sid = p /\ t.state = "ISS" /\ t.sub = "ISSConReq" /\ t.repeats = 1 /\ t.psid = p
        /\ t.enc = EncodeARQConRequest(Request(s.arqBW, s.callBW))
    BY <1>3, <2>1, ConnectRequestIs
  <2>3. Same(t, s, Loose \cup (Bound \ {"lastSid"})) /\ t.queue = s.queue
    BY <2>2 DEF Same, Fields, Loose, Bound
  <2>4. Request(s.arqBW, s.callBW) \in Settings
    BY <1>2 DEF Request, Typed, Lasting
  <2>5. FrameOK(t.enc)
    BY <1>3, <2>2, <2>4, ControlFrames
  <2>6. Becomes(p, t)
    BY <1>2, <1>3, <2>2, <2>3, <2>5, PlayingTyped DEF States
  <2> QED BY <1>4, <2>1, <2>6
<1> QED BY <1>8, <1>9, <1>10, <1>11, <1>12, <1>13, <1>14, <1>15, <1>16, <1>17, <1>18 DEF Poll

\* The first items of a sequence, and those behind them.
LEMMA Parts ==
  ASSUME NEW S, NEW q \in Seq(S), NEW n \in 0 .. Len(q)
  PROVE  /\ SubSeq(q, 1, n) \in Seq(S) /\ SubSeq(q, n + 1, Len(q)) \in Seq(S)
         /\ Len(SubSeq(q, n + 1, Len(q))) = Len(q) - n
<1>1. Len(q) \in Nat /\ n \in Nat /\ n <= Len(q)
  OBVIOUS
<1>2. \A i \in 1 .. Len(q) : q[i] \in S
  OBVIOUS
<1>3. (\A i \in 1 .. n : q[i] \in S) /\ (\A i \in n + 1 .. Len(q) : q[i] \in S)
  BY <1>1, <1>2
<1>4. SubSeq(q, 1, n) \in Seq(S)
  BY <1>1, <1>3, SubSeqProperties
<1>5. /\ SubSeq(q, n + 1, Len(q)) \in Seq(S)
      /\ Len(SubSeq(q, n + 1, Len(q))) = IF n + 1 <= Len(q) THEN Len(q) - (n + 1) + 1 ELSE 0
  BY <1>1, <1>3, SubSeqProperties
<1> QED BY <1>1, <1>4, <1>5

\* Playing a frame, and beginning a session, keep the types.
LEMMA PlayTyped ==
  ASSUME NEW p \in Station, NEW s, NEW f, Typed(p, s), Fitting(s), FrameOK(f)
  PROVE  Becomes(p, Play(s, f))
<1>1. PICK t : t = Play(s, f)
  OBVIOUS
<1>2. Same(t, s, {"enc", "tx"}) /\ t.enc = f
  BY <1>1, PlayIs DEF Typed
<1>3. /\ Same(t, s, Loose \cup {"psid", "repeats", "queue"}) /\ t.psid = s.psid
      /\ t.repeats = s.repeats /\ t.queue = s.queue
  BY <1>2 DEF Same, Loose, Fields
<1>4. Becomes(p, t)
  BY <1>2, <1>3, StayingTyped, FramesAreThere DEF Typed
<1> QED BY <1>1, <1>4

\* A width of ARQ has a first mode.
LEMMA InitModesTyped ==
  ASSUME NEW p \in Station, NEW s, NEW w \in Widths, Typed(p, s)
  PROVE  Typed(p, InitModes(s, w))
<1>1. PICK t : t = InitModes(s, w)
  OBVIOUS
<1>2. Same(t, s, {"bw", "table", "mode"}) /\ t.table = w /\ t.mode = StartMode(w)
  BY <1>1, InitModesIs DEF Typed
<1>3. /\ t.arqBW = s.arqBW /\ t.callBW = s.callBW /\ t.acked = s.acked /\ t.sent = s.sent
      /\ t.inProcess = s.inProcess /\ t.given = s.given /\ t.state = s.state /\ t.sub = s.sub
      /\ t.sid = s.sid /\ t.psid = s.psid /\ t.lastSid = s.lastSid /\ t.repeats = s.repeats
      /\ t.queue = s.queue /\ t.enc = s.enc /\ t.tx = s.tx
  BY <1>2 DEF Same, Fields
<1>4. t.mode \in 0 .. LastMode(t.table)
  BY <1>2, StartsWithAMode
<1>5. Lasting(p, t)
  BY <1>2, <1>3, <1>4 DEF Typed, Lasting
<1>6. DOMAIN t = Fields
  BY <1>2 DEF Same
<1> QED BY <1>1, <1>3, <1>5, <1>6 DEF Typed

\* An ACK removes from the front of the queue.
LEMMA RemoveTyped ==
  ASSUME NEW p \in Station, NEW s, NEW len \in Nat, Typed(p, s)
  PROVE  Typed(p, RemoveDataFromQueue(s, len))
<1>1. PICK t : t = RemoveDataFromQueue(s, len)
  OBVIOUS
<1>2. PICK n : n = IF len > Len(s.queue) THEN Len(s.queue) ELSE len
  OBVIOUS
<1>3. /\ Same(t, s, {"queue", "confirmed"})
      /\ t.queue = SubSeq(s.queue, n + 1, Len(s.queue))
  BY <1>1, <1>2, RemoveDataFromQueueIs DEF Typed
<1>4. s.queue \in Seq(1 .. MaxItems[p]) /\ Len(s.queue) \in Nat /\ Len(s.queue) <= s.given
  BY DEF Typed
<1>5. n \in 0 .. Len(s.queue)
  BY <1>2, <1>4
<1>6. t.queue \in Seq(1 .. MaxItems[p]) /\ Len(t.queue) = Len(s.queue) - n
  BY <1>3, <1>4, <1>5, Parts
<1>7. /\ t.arqBW = s.arqBW /\ t.callBW = s.callBW /\ t.acked = s.acked /\ t.sent = s.sent
      /\ t.inProcess = s.inProcess /\ t.given = s.given /\ t.state = s.state /\ t.sub = s.sub
      /\ t.sid = s.sid /\ t.psid = s.psid /\ t.lastSid = s.lastSid /\ t.repeats = s.repeats
      /\ t.table = s.table /\ t.mode = s.mode /\ t.enc = s.enc
  BY <1>3 DEF Same, Fields
<1>8. t.tx = s.tx
  BY <1>1 DEF RemoveDataFromQueue, Typed, Fields
<1>9. Lasting(p, t)
  BY <1>7 DEF Typed, Lasting
<1>10. s.given \in Nat
  BY ArqAssumption DEF Typed, Lasting
<1>11. Len(t.queue) <= t.given
  BY <1>4, <1>5, <1>6, <1>7, <1>10
<1>12. DOMAIN t = Fields
  BY <1>3 DEF Same
<1> QED BY <1>1, <1>6, <1>7, <1>8, <1>9, <1>11, <1>12 DEF Typed

\* SendData sends no more of the queue than a frame of the mode takes.
LEMMA SendDataTyped ==
  ASSUME NEW p \in Station, NEW s, NEW shift \in Int, Typed(p, s),
         s.mode + shift \in 0 .. LastMode(s.table)
  PROVE  Becomes(p, SendData(s, shift))
<1>1. PICK t : t = SendData(s, shift)
  OBVIOUS
<1>2. PICK mode : mode = s.mode + shift
  OBVIOUS
<1>3. DOMAIN s = Fields
  BY DEF Typed
<1>4. CASE (s.discRpt \/ s.state # "ISS") /\ t = s
  BY <1>1, <1>4 DEF Becomes, Fitting
<1>5. CASE t = CheckForDisconnect(s)
  BY <1>1, <1>5, CheckForDisconnectTyped
<1>6. CASE /\ Same(t, s, {"mode", "inProcess", "sent", "sentData", "rpt", "sub", "enc", "tx"})
           /\ t.mode = mode /\ t.inProcess = Take(s, mode) /\ t.sent = 1 - s.acked
           /\ t.sub = "ISSData"
           /\ t.enc = DataFrame(s.sid, mode, 1 - s.acked, SubSeq(s.queue, 1, Take(s, mode)))
  <2>1. /\ s.table \in Widths /\ mode \in 0 .. LastMode(s.table) /\ mode \in Nat
        /\ s.queue \in Seq(1 .. MaxItems[p]) /\ Len(s.queue) \in Nat
    <3>1. s.mode \in 0 .. LastMode(s.table) /\ LastMode(s.table) \in Int
      BY DEF Typed, Lasting, LastMode, GetDataModes, AllModes, FSKModes, Widths
    <3> QED BY <1>2, <3>1 DEF Typed, Lasting
  <2>2. Room(s, mode) \in Nat
    BY <2>1, Rooms DEF Room
  <2>3. Take(s, mode) \in 0 .. Len(s.queue) /\ Take(s, mode) <= Room(s, mode) /\ Take(s, mode) \in Nat
    BY <2>1, <2>2 DEF Take
  <2>4. SubSeq(s.queue, 1, Take(s, mode)) \in Seq(Nat)
    <3>1. SubSeq(s.queue, 1, Take(s, mode)) \in Seq(1 .. MaxItems[p])
      BY <2>1, <2>3, Parts
    <3>2. 1 .. MaxItems[p] \subseteq Nat
      BY ArqAssumption
    <3> QED BY <3>1, <3>2
  <2>5. 1 - s.acked \in {0, 1} /\ s.sid \in Station \cup {FF}
    BY DEF Typed, Lasting
  <2>6. FrameOK(t.enc)
    BY <1>6, <2>1, <2>4, <2>5, DataFrames
  <2>7. /\ t.arqBW = s.arqBW /\ t.callBW = s.callBW /\ t.acked = s.acked
        /\ t.given = s.given /\ t.state = s.state /\ t.queue = s.queue
        /\ t.sid = s.sid /\ t.psid = s.psid /\ t.lastSid = s.lastSid /\ t.repeats = s.repeats
        /\ t.table = s.table /\ t.discRpt = s.discRpt
    BY <1>6 DEF Same, Fields
  <2>8. DOMAIN t = Fields
    BY <1>6 DEF Same
  <2>9. Lasting(p, t)
    BY <1>6, <2>1, <2>3, <2>5, <2>7 DEF Typed, Lasting
  <2>10. Typed(p, t)
    BY <1>6, <2>6, <2>7, <2>8, <2>9, FramesAreThere DEF Typed
  <2>11. Fitting(t)
    BY <1>6, <2>3, <2>7 DEF Fitting, Room
  <2> QED BY <1>1, <2>10, <2>11 DEF Becomes
<1>7. CASE /\ Same(t, s, {"state", "rpt", "sentData", "enc", "tx"}) /\ t.state = "IDLE"
           /\ t.enc = Encode4FSKControl("IDLE", s.sid)
  <2>1. /\ Same(t, s, Loose \cup (Bound \ {"lastSid"})) /\ t.sid = s.sid
        /\ t.psid = s.psid /\ t.sub = s.sub /\ t.queue = s.queue /\ t.repeats = s.repeats
    BY <1>7 DEF Same, Fields, Loose, Bound
  <2>2. FrameOK(t.enc)
    BY <1>7, ControlFrames DEF Typed
  <2> QED BY <1>1, <1>7, <2>1, <2>2, PlayingTyped DEF Typed, States
<1> QED BY <1>1, <1>2, <1>3, <1>4, <1>5, <1>6, <1>7, SendDataIs

\* The answer to a connect request: a width of a session.
LEMMA AnswerConReqTyped ==
  ASSUME NEW p \in Station, NEW s, NEW request \in Settings, Typed(p, s),
         IRSNegotiateBW(s.arqBW, request) # ConRejBW
  PROVE  Becomes(p, AnswerConReq(s, Peer(p), IRSNegotiateBW(s.arqBW, request)))
<1>1. PICK bw, t : bw = IRSNegotiateBW(s.arqBW, request) /\ t = AnswerConReq(s, Peer(p), bw)
  OBVIOUS
<1>2. bw \in Widths /\ Peer(p) \in Station
  BY <1>1, NegotiatedWidth, TwoStations DEF Typed, Lasting
<1>3. /\ Same(t, s, {"queue", "sid", "lastAcked", "bw", "state", "psid", "pending", "rpt",
                     "pendTimer", "sub", "toHost", "enc", "tx"})
      /\ t.queue = <<>> /\ t.sid = FF /\ t.state = "IRS" /\ t.psid = Peer(p)
      /\ t.sub = "IRSConAck" /\ t.enc = EncodeConACK(bw, Peer(p))
  BY <1>1, AnswerConReqIs DEF Typed
<1>4. Same(t, s, Loose \cup (Bound \ {"lastSid"})) /\ t.repeats = s.repeats
  BY <1>3 DEF Same, Fields, Loose, Bound
<1>5. FrameOK(t.enc)
  BY <1>2, <1>3, ControlFrames
<1> QED BY <1>1, <1>2, <1>3, <1>4, <1>5, PlayingTyped DEF Typed, States

\* DISC or END is heard.
LEMMA AnswersDiscTyped ==
  ASSUME NEW p \in Station, NEW s, Typed(p, s), NEW t,
         t \in {AnswerDisc(s), AnswerDiscIdle(s), Ended(s), EndedIRS(s), EndedIdle(s)}
  PROVE  Becomes(p, t)
<1>1. FrameOK(Encode4FSKControl("END", FF)) /\ FrameOK(Encode4FSKControl("END", s.sid)) /\ FrameOK(Encode4FSKIDFrame)
  BY ControlFrames DEF Typed
<1>2. CASE t \in {AnswerDisc(s), AnswerDiscIdle(s)}
  <2>1. /\ Leaves(t, s, {"lastSid", "idTimer", "discRpt", "rpt", "enc", "tx"})
        /\ t.lastSid = s.sid
        /\ t.enc \in {Encode4FSKControl("END", FF), Encode4FSKControl("END", s.sid)}
    BY <1>2, AnswerDiscIs, AnswerDiscIdleIs DEF Typed
  <2>2. t.repeats = s.repeats
    BY <2>1 DEF Leaves, Same, Leaving, Fields
  <2> QED BY <1>1, <2>1, <2>2, LeavingTyped, FramesAreThere DEF Typed, Loose
<1>3. CASE t \in {Ended(s), EndedIdle(s)}
  <2>1. Leaves(t, s, {"discRpt", "rpt", "enc", "tx"}) /\ t.enc = Encode4FSKIDFrame
    BY <1>3, EndedIs, EndedIdleIs DEF Typed
  <2>2. t.repeats = s.repeats /\ t.lastSid = s.lastSid
    BY <2>1 DEF Leaves, Same, Leaving, Fields
  <2> QED BY <1>1, <2>1, <2>2, LeavingTyped, FramesAreThere DEF Typed, Loose
<1>4. CASE t = EndedIRS(s)
  <2>1. Leaves(t, s, {"discRpt", "rpt"})
    BY <1>4, EndedIRSIs DEF Typed
  <2>2. t.repeats = s.repeats /\ t.lastSid = s.lastSid /\ t.enc = s.enc /\ t.tx = s.tx
    BY <2>1 DEF Leaves, Same, Leaving, Fields
  <2> QED BY <2>1, <2>2, LeavingTyped DEF Typed, Loose
<1> QED BY <1>2, <1>3, <1>4

\* The reception of a station that does not send keeps the types.
LEMMA ReceiveTypedIRS ==
  ASSUME TypedInv, NEW p \in Station,
         \/ ReceiveInDISC(p) \/ ReceiveInIRSConAck(p) \/ BreakInstead(p) \/ ReceiveControlInIRS(p)
         \/ ReceiveConAckInIRS(p) \/ ReceiveDataInIRS(p) \/ ReceiveBadDataInIRS(p)
  PROVE  TypedSteps(p)
<1>1. PICK s : s = st[p]
  OBVIOUS
<1>2. Typed(p, s) /\ Fitting(s) /\ ~s.tx
  BY <1>1 DEF TypedInv
<1>3. /\ DOMAIN s = Fields /\ Counted(s.repeats) /\ s.lastSid \in Station \cup {FF, NONE}
      /\ s.sid \in Station \cup {FF} /\ s.psid \in Station \cup {NONE}
  BY <1>2 DEF Typed
<1>4. ASSUME NEW t, Respond(p, t), Becomes(p, t) PROVE TypedSteps(p)
  BY <1>4, ChangeMoves DEF TypedSteps
<1>5. FrameOK(air.frame) /\ Peer(p) \in Station
  BY TwoStations DEF TypedInv, ReceiveInDISC, ReceiveInIRSConAck, BreakInstead, ReceiveControlInIRS,
     ReceiveConAckInIRS, ReceiveDataInIRS, ReceiveBadDataInIRS, IRSReceiving, Receives, Hears
<1>6. ASSUME NEW u, NEW f, Same(u, s, Loose \cup {"psid"}), u.psid \in Station \cup {s.psid},
             u.enc = s.enc, ~u.tx, FrameOK(f), Respond(p, Play(u, f))
      PROVE  TypedSteps(p)
  <2>1. /\ Same(u, s, Loose \cup {"psid", "repeats", "queue"}) /\ u.repeats = s.repeats
        /\ u.queue = s.queue
    BY <1>6 DEF Same, Fields, Loose
  <2>2. Becomes(p, u)
    BY <1>2, <1>3, <1>6, <2>1, StayingTyped
  <2> QED BY <1>4, <1>6, <2>2, PlayTyped DEF Becomes
<1>7. ASSUME air.frame.type = "ConReq", Offer(s, air.frame) # ConRejBW,
             Respond(p, AnswerConReq(s, Peer(p), Offer(s, air.frame)))
      PROVE  TypedSteps(p)
  <2>1. air.frame.bw \in Settings
    BY <1>5, <1>7 DEF FrameOK
  <2>2. Becomes(p, AnswerConReq(s, Peer(p), Offer(s, air.frame)))
    BY <1>2, <1>7, <2>1, AnswerConReqTyped DEF Offer
  <2> QED BY <1>4, <1>7, <2>2
<1>8. /\ \A type \in {"ConRejBusy", "ConRejBW"} : FrameOK(Encode4FSKControl(type, Peer(p)))
      /\ FrameOK(Encode4FSKControl("END", s.lastSid)) /\ FrameOK(Encode4FSKControl("BREAK", s.sid))
      /\ FrameOK(EncodeDATAACK(s.sid)) /\ FrameOK(EncodeDATANAK(s.sid)) /\ FrameOK(EncodeDATAACK(s.psid))
  BY <1>3, <1>5, ControlFrames
<1>9. CASE ReceiveInDISC(p)
  <2>1. CASE \E u, f : /\ u \in {[s EXCEPT !.idTimer = TRUE, !.rpt = FALSE], [s EXCEPT !.psid = Peer(p)],
                                 [s EXCEPT !.psid = Peer(p), !.rpt = FALSE]}
                       /\ FrameOK(f) /\ Respond(p, Play(u, f))
    <3>1. PICK u, f : /\ u \in {[s EXCEPT !.idTimer = TRUE, !.rpt = FALSE], [s EXCEPT !.psid = Peer(p)],
                                [s EXCEPT !.psid = Peer(p), !.rpt = FALSE]}
                      /\ FrameOK(f) /\ Respond(p, Play(u, f))
      BY <2>1
    <3>2. CASE u = [s EXCEPT !.idTimer = TRUE, !.rpt = FALSE]
      <4>1. /\ Same(u, s, Loose \cup {"psid"}) /\ u.psid = s.psid /\ u.enc = s.enc /\ u.tx = s.tx
        BY <1>3, <3>2 DEF Same, Fields, Loose
      <4> QED BY <1>2, <1>6, <3>1, <4>1
    <3>3. CASE u = [s EXCEPT !.psid = Peer(p)] \/ u = [s EXCEPT !.psid = Peer(p), !.rpt = FALSE]
      <4>1. /\ Same(u, s, Loose \cup {"psid"}) /\ u.psid = Peer(p) /\ u.enc = s.enc /\ u.tx = s.tx
        BY <1>3, <3>3 DEF Same, Fields, Loose
      <4> QED BY <1>2, <1>5, <1>6, <3>1, <4>1
    <3> QED BY <3>1, <3>2, <3>3
  <2> QED BY <1>1, <1>7, <1>8, <1>9, <2>1 DEF ReceiveInDISC
<1>10. CASE ReceiveInIRSConAck(p)
  <2>1. s.state = "IRS" /\ s.psid \in Station
    BY <1>1, <1>2, <1>10 DEF ReceiveInIRSConAck, Typed
  <2>2. CASE Respond(p, Play([s EXCEPT !.psid = Peer(p)], Encode4FSKControl("ConRejBW", Peer(p))))
    <3>1. PICK u : u = [s EXCEPT !.psid = Peer(p)]
      OBVIOUS
    <3>2. Same(u, s, Loose \cup {"psid"}) /\ u.psid = Peer(p) /\ u.enc = s.enc /\ u.tx = s.tx
      BY <1>3, <3>1 DEF Same, Fields, Loose
    <3> QED BY <1>2, <1>5, <1>6, <1>8, <2>2, <3>1, <3>2
  <2>3. CASE /\ air.frame.type = "ConAck"
             /\ \E u, v : /\ u = InitModes(s, air.frame.bw.width)
                          /\ v = [u EXCEPT !.sid = s.psid, !.connected = TRUE, !.pending = FALSE,
                                           !.pendTimer = FALSE, !.sub = "IRSData", !.toHost = NONE,
                                           !.rpt = FALSE]
                          /\ Respond(p, Play(v, EncodeDATAACK(s.psid)))
    <3>1. PICK u, v : /\ u = InitModes(s, air.frame.bw.width)
                      /\ v = [u EXCEPT !.sid = s.psid, !.connected = TRUE, !.pending = FALSE,
                                       !.pendTimer = FALSE, !.sub = "IRSData", !.toHost = NONE,
                                       !.rpt = FALSE]
                      /\ Respond(p, Play(v, EncodeDATAACK(s.psid)))
      BY <2>3
    <3>2. air.frame.bw.width \in Widths
      BY <1>5, <2>3, SettingFields DEF FrameOK
    <3>3. Typed(p, u) /\ u.state = "IRS" /\ u.tx = s.tx /\ u.enc = s.enc
      <4>1. Same(u, s, {"bw", "table", "mode"})
        BY <1>3, <3>1, InitModesIs
      <4>2. u.state = s.state /\ u.tx = s.tx /\ u.enc = s.enc
        BY <4>1 DEF Same, Fields
      <4> QED BY <1>2, <2>1, <3>1, <3>2, <4>2, InitModesTyped
    <3>4. DOMAIN u = Fields
      BY <3>3 DEF Typed
    <3>5. /\ Same(v, u, Loose \cup Bound) /\ v.state = u.state /\ v.sid = s.psid /\ v.psid = u.psid
          /\ v.lastSid = u.lastSid /\ v.sub = "IRSData" /\ v.repeats = u.repeats
          /\ v.queue = u.queue /\ v.enc = u.enc /\ v.tx = u.tx
      BY <3>1, <3>4 DEF Same, Loose, Bound, Fields
    <3>6. Typed(p, v)
      BY <2>1, <3>3, <3>5, Retyped DEF Typed
    <3>7. Fitting(v)
      BY <3>3, <3>5 DEF Fitting
    <3> QED BY <1>4, <1>8, <3>1, <3>6, <3>7, PlayTyped
  <2> QED BY <1>1, <1>7, <1>10, <2>2, <2>3 DEF ReceiveInIRSConAck
<1>11. CASE BreakInstead(p)
  <2>1. CASE Respond(p, StartBreak([s EXCEPT !.breakCmd = FALSE]))
    <3>1. PICK u : u = [s EXCEPT !.breakCmd = FALSE]
      OBVIOUS
    <3>2. /\ Same(u, s, Loose \cup {"psid", "repeats", "queue"}) /\ u.psid = s.psid
          /\ u.repeats = s.repeats /\ u.queue = s.queue /\ u.enc = s.enc /\ u.tx = s.tx
      BY <1>3, <3>1 DEF Same, Fields, Loose
    <3>3. Typed(p, u)
      BY <1>2, <1>3, <3>2, StayingTyped DEF Becomes
    <3> QED BY <1>4, <2>1, <3>1, <3>3, StartBreakTyped
  <2>2. CASE Respond(p, Play([s EXCEPT !.rpt = TRUE], Encode4FSKControl("BREAK", s.sid)))
    <3>1. PICK u : u = [s EXCEPT !.rpt = TRUE]
      OBVIOUS
    <3>2. Same(u, s, Loose \cup {"psid"}) /\ u.psid = s.psid /\ u.enc = s.enc /\ u.tx = s.tx
      BY <1>3, <3>1 DEF Same, Fields, Loose
    <3> QED BY <1>2, <1>6, <1>8, <2>2, <3>1, <3>2
  <2> QED BY <1>1, <1>11, <2>1, <2>2 DEF BreakInstead
<1>12. PICK r : r = [s EXCEPT !.rpt = FALSE]
  OBVIOUS
<1>13. Same(r, s, Loose \cup {"psid"}) /\ r.psid = s.psid /\ r.enc = s.enc /\ r.tx = s.tx
  BY <1>3, <1>12 DEF Same, Fields, Loose
<1>14. ASSUME Respond(p, Play([s EXCEPT !.rpt = FALSE], EncodeDATAACK(s.sid))) PROVE TypedSteps(p)
  BY <1>2, <1>6, <1>8, <1>12, <1>13, <1>14
<1>15. CASE ReceiveControlInIRS(p)
  <2>1. CASE Respond(p, AnswerDisc(s)) \/ Respond(p, EndedIRS(s))
    BY <1>2, <1>4, <2>1, AnswersDiscTyped
  <2>2. CASE Respond(p, CheckForDisconnect(s))
    BY <1>2, <1>4, <2>2, CheckForDisconnectTyped
  <2>3. CASE Respond(p, StartBreak(s))
    BY <1>2, <1>4, <2>3, StartBreakTyped
  <2> QED BY <1>1, <1>14, <1>15, <2>1, <2>2, <2>3 DEF ReceiveControlInIRS
<1>16. CASE ReceiveConAckInIRS(p)
  <2>1. PICK bw, u : u = [s EXCEPT !.bw = bw] /\ Respond(p, Play(u, EncodeDATAACK(s.sid)))
    BY <1>1, <1>16 DEF ReceiveConAckInIRS
  <2>2. Same(u, s, Loose \cup {"psid"}) /\ u.psid = s.psid /\ u.enc = s.enc /\ u.tx = s.tx
    BY <1>3, <2>1 DEF Same, Fields, Loose
  <2> QED BY <1>2, <1>6, <1>8, <2>1, <2>2
<1>17. ASSUME NEW u, NEW f, \A x \in Fields \ {"sub", "got", "toHost", "lastAcked", "rpt"} : u[x] = s[x],
              DOMAIN u = Fields, u.sub = "IRSData", FrameOK(f), Respond(p, Play(u, f))
       PROVE  TypedSteps(p)
  <2>1. /\ Same(u, s, Loose \cup Bound) /\ u.state = s.state /\ u.sid = s.sid /\ u.psid = s.psid
        /\ u.lastSid = s.lastSid /\ u.repeats = s.repeats /\ u.queue = s.queue /\ u.enc = s.enc
        /\ u.tx = s.tx
    BY <1>17 DEF Same, Loose, Bound, Fields
  <2>2. Typed(p, u)
    BY <1>2, <1>17, <2>1, Retyped DEF Typed
  <2>3. Fitting(u)
    BY <1>17 DEF Fitting
  <2> QED BY <1>4, <1>17, <2>2, <2>3, PlayTyped
<1>18. CASE ReceiveDataInIRS(p)
  <2>1. PICK got, type, u :
          /\ u = [s EXCEPT !.got = got, !.toHost = type, !.lastAcked = type, !.sub = "IRSData",
                           !.rpt = FALSE]
          /\ Respond(p, Play(u, EncodeDATAACK(s.sid)))
    BY <1>1, <1>18 DEF ReceiveDataInIRS
  <2>2. /\ DOMAIN u = Fields /\ u.sub = "IRSData"
        /\ \A x \in Fields \ {"sub", "got", "toHost", "lastAcked", "rpt"} : u[x] = s[x]
    BY <1>3, <2>1 DEF Fields
  <2> QED BY <1>8, <1>17, <2>1, <2>2
<1>19. CASE ReceiveBadDataInIRS(p)
  <2>1. CASE Respond(p, Play([s EXCEPT !.sub = "IRSData", !.rpt = FALSE], EncodeDATANAK(s.sid)))
    <3>1. PICK u : u = [s EXCEPT !.sub = "IRSData", !.rpt = FALSE]
      OBVIOUS
    <3>2. /\ DOMAIN u = Fields /\ u.sub = "IRSData"
          /\ \A x \in Fields \ {"sub", "got", "toHost", "lastAcked", "rpt"} : u[x] = s[x]
      BY <1>3, <3>1 DEF Fields
    <3> QED BY <1>8, <1>17, <2>1, <3>1, <3>2
  <2> QED BY <1>1, <1>14, <1>19, <2>1 DEF ReceiveBadDataInIRS
<1> QED BY <1>9, <1>10, <1>11, <1>15, <1>16, <1>18, <1>19

\* The gear shift stays within the modes of the session.
LEMMA Shifts ==
  ASSUME NEW p \in Station, NEW s, Typed(p, s), NEW shift \in {0} \cup DownShift(s) \cup UpShift(s)
  PROVE  shift \in Int /\ s.mode + shift \in 0 .. LastMode(s.table)
<1>1. s.mode \in 0 .. LastMode(s.table) /\ LastMode(s.table) \in Int
  BY DEF Typed, Lasting, LastMode, GetDataModes, AllModes, FSKModes, Widths
<1> QED BY <1>1 DEF DownShift, UpShift

\* So does that of a station that sends or takes over.
LEMMA ReceiveTypedISS ==
  ASSUME TypedInv, NEW p \in Station,
         \/ ReceiveInIRStoISS(p) \/ ReceiveInIDLE(p) \/ ReceiveInISSConReq(p) \/ ReceiveInISSConAck(p)
         \/ DisconnectInISSData(p) \/ ReceiveAckInISSData(p) \/ ReceiveNakInISSData(p)
         \/ ReceiveControlInISSData(p)
  PROVE  TypedSteps(p)
<1>1. PICK s : s = st[p]
  OBVIOUS
<1>2. Typed(p, s) /\ Fitting(s) /\ ~s.tx
  BY <1>1 DEF TypedInv
<1>3. /\ DOMAIN s = Fields /\ Counted(s.repeats) /\ s.sid \in Station \cup {FF}
      /\ s.state \in States
  BY <1>2 DEF Typed
<1>4. ASSUME NEW t, Respond(p, t), Becomes(p, t) PROVE TypedSteps(p)
  BY <1>4, ChangeMoves DEF TypedSteps
<1>5. FrameOK(air.frame)
  BY DEF TypedInv, ReceiveInIRStoISS, ReceiveInIDLE, ReceiveInISSConReq, ReceiveInISSConAck,
     DisconnectInISSData, ReceiveAckInISSData, ReceiveNakInISSData, ReceiveControlInISSData,
     ReceivingAsISS, Receives, Hears
<1>6. ASSUME NEW u, Typed(p, u), Respond(p, SendData(u, 0)) PROVE TypedSteps(p)
  BY <1>4, <1>6, Shifts, SendDataTyped
<1>7. ASSUME NEW u, DOMAIN u = Fields, \A x \in Fields \ (Loose \cup {"state", "sub"}) : u[x] = s[x],
             u.state = "ISS", u.sub = "ISSData", u.enc = s.enc, u.tx = s.tx, s.state # "DISC"
      PROVE  Typed(p, u)
  <2>1. /\ Same(u, s, Loose \cup Bound) /\ u.sid = s.sid /\ u.psid = s.psid
        /\ u.lastSid = s.lastSid /\ u.repeats = s.repeats /\ u.queue = s.queue
    BY <1>7 DEF Same, Loose, Bound, Fields
  <2> QED BY <1>2, <1>7, <2>1, Retyped DEF Typed, States
<1>8. CASE ReceiveInIRStoISS(p)
  <2>1. PICK v, u : /\ v = [SetARDOPProtocolState(s, "ISS") EXCEPT !.sub = "ISSData"]
                    /\ u = [v EXCEPT !.toHost = NONE]
                    /\ Respond(p, SendData(u, 0))
    BY <1>1, <1>8 DEF ReceiveInIRStoISS
  <2>2. s.state = "IRStoISS"
    BY <1>1, <1>8 DEF ReceiveInIRStoISS
  <2>3. v = [s EXCEPT !.state = "ISS", !.rpt = FALSE, !.sub = "ISSData"]
    BY <1>3, <2>1, <2>2 DEF SetARDOPProtocolState
  <2>4. u = [s EXCEPT !.state = "ISS", !.rpt = FALSE, !.sub = "ISSData", !.toHost = NONE]
    BY <1>3, <2>1, <2>3
  <2>5. /\ DOMAIN u = Fields /\ u.state = "ISS" /\ u.sub = "ISSData" /\ u.enc = s.enc /\ u.tx = s.tx
        /\ \A x \in Fields \ (Loose \cup {"state", "sub"}) : u[x] = s[x]
    BY <1>3, <2>4 DEF Fields, Loose
  <2> QED BY <1>6, <1>7, <2>1, <2>2, <2>5
<1>9. CASE ReceiveInIDLE(p)
  <2>1. s.state = "IDLE"
    BY <1>1, <1>9 DEF ReceiveInIDLE
  <2>2. CASE \E u : /\ u = [SetARDOPProtocolState(s, "ISS") EXCEPT !.sub = "ISSData"]
                    /\ Respond(p, SendData(u, 0))
    <3>1. PICK u : /\ u = [SetARDOPProtocolState(s, "ISS") EXCEPT !.sub = "ISSData"]
                   /\ Respond(p, SendData(u, 0))
      BY <2>2
    <3>2. u = [s EXCEPT !.state = "ISS", !.rpt = FALSE, !.sub = "ISSData"]
      BY <1>3, <2>1, <3>1 DEF SetARDOPProtocolState
    <3>3. /\ DOMAIN u = Fields /\ u.state = "ISS" /\ u.sub = "ISSData" /\ u.enc = s.enc /\ u.tx = s.tx
          /\ \A x \in Fields \ (Loose \cup {"state", "sub"}) : u[x] = s[x]
      BY <1>3, <3>2 DEF Fields, Loose
    <3> QED BY <1>6, <1>7, <2>1, <3>1, <3>3
  <2>3. CASE Respond(p, TurnOver(s))
    BY <1>2, <1>4, <2>3, TurnOverTyped
  <2>4. CASE Respond(p, AnswerDiscIdle(s)) \/ Respond(p, EndedIdle(s))
    BY <1>2, <1>4, <2>4, AnswersDiscTyped
  <2> QED BY <1>1, <1>9, <2>2, <2>3, <2>4 DEF ReceiveInIDLE
<1>10. CASE ReceiveInISSConReq(p)
  <2>1. s.state = "ISS"
    BY <1>1, <1>10 DEF ReceiveInISSConReq
  <2>2. CASE /\ air.frame.type = "ConAck"
             /\ \E bw, u, v : /\ bw = air.frame.bw.width
                              /\ u = InitModes(s, bw) /\ v = [u EXCEPT !.rpt = TRUE, !.sub = "ISSConAck"]
                              /\ Respond(p, Play(v, EncodeConACK(bw, s.sid)))
    <3>1. PICK bw, u, v : /\ bw = air.frame.bw.width
                          /\ u = InitModes(s, bw) /\ v = [u EXCEPT !.rpt = TRUE, !.sub = "ISSConAck"]
                          /\ Respond(p, Play(v, EncodeConACK(bw, s.sid)))
      BY <2>2
    <3>2. bw \in Widths
      BY <1>5, <2>2, <3>1, SettingFields DEF FrameOK
    <3>3. Typed(p, u) /\ DOMAIN u = Fields
      BY <1>2, <3>1, <3>2, InitModesTyped DEF Typed
    <3>4. /\ Same(v, u, Loose \cup Bound) /\ v.sub = "ISSConAck" /\ v.state = u.state /\ v.sid = u.sid
          /\ v.psid = u.psid /\ v.lastSid = u.lastSid /\ v.repeats = u.repeats
          /\ v.queue = u.queue /\ v.enc = u.enc /\ v.tx = u.tx
      BY <3>1, <3>3 DEF Same, Loose, Bound, Fields
    <3>5. Typed(p, v)
      BY <3>3, <3>4, Retyped DEF Typed
    <3>6. Fitting(v)
      BY <3>4 DEF Fitting
    <3>7. FrameOK(EncodeConACK(bw, s.sid))
      BY <1>3, <3>2, ControlFrames
    <3> QED BY <1>4, <3>1, <3>5, <3>6, <3>7, PlayTyped
  <2>3. CASE Respond(p, [s EXCEPT !.abort = TRUE])
    <3>1. PICK t : t = [s EXCEPT !.abort = TRUE]
      OBVIOUS
    <3>2. /\ Same(t, s, Loose \cup {"psid", "repeats", "queue"}) /\ t.psid = s.psid
          /\ t.repeats = s.repeats /\ t.queue = s.queue /\ t.enc = s.enc /\ t.tx = s.tx
      BY <1>3, <3>1 DEF Same, Fields, Loose
    <3>3. Becomes(p, t)
      BY <1>2, <1>3, <3>2, StayingTyped
    <3> QED BY <1>4, <2>3, <3>1, <3>3
  <2> QED BY <1>1, <1>10, <2>2, <2>3 DEF ReceiveInISSConReq
<1>11. CASE ReceiveInISSConAck(p)
  <2>1. s.state = "ISS"
    BY <1>1, <1>11 DEF ReceiveInISSConAck
  <2>2. PICK u : u = CallerConnected(s)
    OBVIOUS
  <2>3. Typed(p, u)
    <3>1. /\ Same(u, s, {"rpt", "connected", "acked", "pending", "sub"})
          /\ u.acked = 1 /\ u.sub = "ISSData"
      BY <1>3, <2>2, CallerConnectedIs
    <3>2. /\ u.arqBW = s.arqBW /\ u.callBW = s.callBW /\ u.table = s.table /\ u.mode = s.mode
          /\ u.sent = s.sent /\ u.inProcess = s.inProcess /\ u.given = s.given /\ u.state = s.state
          /\ u.sid = s.sid /\ u.psid = s.psid /\ u.lastSid = s.lastSid /\ u.repeats = s.repeats
          /\ u.queue = s.queue /\ u.enc = s.enc /\ u.tx = s.tx
      BY <3>1 DEF Same, Fields
    <3>3. DOMAIN u = Fields /\ Lasting(p, u)
      BY <1>2, <3>1, <3>2 DEF Same, Typed, Lasting
    <3> QED BY <1>2, <3>1, <3>2, <3>3 DEF Typed
  <2>4. CASE Respond(p, SendData(CallerConnected(s), 0))
    BY <1>6, <2>2, <2>3, <2>4
  <2>5. CASE Respond(p, TurnOver(CallerConnected(s)))
    BY <1>4, <2>2, <2>3, <2>5, TurnOverTyped
  <2>6. CASE Respond(p, InitializeConnection(SetARDOPProtocolState(s, "DISC")))
    <3>1. PICK t : t = InitializeConnection(SetARDOPProtocolState(s, "DISC"))
      OBVIOUS
    <3>2. /\ Same(t, s, {"state", "queue", "disc", "connected", "pending", "sid", "lastAcked", "bw"})
          /\ t.state = "DISC" /\ t.sid = FF /\ t.queue = <<>>
      BY <1>3, <2>1, <3>1 DEF InitializeConnection, SetARDOPProtocolState, ClearDataToSend, Same, Fields
    <3>3. /\ Same(t, s, Loose \cup Bound) /\ t.psid = s.psid /\ t.sub = s.sub
          /\ t.lastSid = s.lastSid /\ t.repeats = s.repeats /\ t.enc = s.enc /\ t.tx = s.tx
      BY <3>2 DEF Same, Loose, Bound, Fields
    <3>4. Typed(p, t)
      BY <1>2, <3>2, <3>3, Retyped DEF Typed, States
    <3>5. Fitting(t)
      BY <3>2 DEF Fitting
    <3> QED BY <1>4, <2>6, <3>1, <3>4, <3>5 DEF Becomes
  <2> QED BY <1>1, <1>11, <2>4, <2>5, <2>6 DEF ReceiveInISSConAck
<1>12. CASE DisconnectInISSData(p)
  BY <1>1, <1>2, <1>4, <1>12, CheckForDisconnectTyped DEF DisconnectInISSData
<1>13. CASE ReceiveAckInISSData(p)
  <2>1. PICK r, t, u, shift :
          /\ r = [s EXCEPT !.acked = s.sent, !.inProcess = 0]
          /\ t = IF s.sentData THEN RemoveDataFromQueue(r, s.inProcess) ELSE s
          /\ u = [t EXCEPT !.rpt = FALSE]
          /\ shift \in {0} \cup UpShift(t)
          /\ Respond(p, SendData(u, shift))
    BY <1>1, <1>13 DEF ReceiveAckInISSData
  <2>2. Typed(p, r)
    <3>1. /\ DOMAIN r = Fields /\ r.acked = s.sent /\ r.inProcess = 0
          /\ \A x \in Fields \ {"acked", "inProcess"} : r[x] = s[x]
      BY <1>3, <2>1 DEF Fields
    <3>2. /\ r.arqBW = s.arqBW /\ r.callBW = s.callBW /\ r.table = s.table /\ r.mode = s.mode
          /\ r.sent = s.sent /\ r.given = s.given /\ r.state = s.state /\ r.sub = s.sub
          /\ r.sid = s.sid /\ r.psid = s.psid /\ r.lastSid = s.lastSid /\ r.repeats = s.repeats
          /\ r.queue = s.queue /\ r.enc = s.enc /\ r.tx = s.tx
      BY <3>1 DEF Fields
    <3>3. Lasting(p, r)
      BY <1>2, <3>1, <3>2 DEF Typed, Lasting
    <3> QED BY <1>2, <3>1, <3>2, <3>3 DEF Typed
  <2>3. s.inProcess \in Nat
    BY <1>2 DEF Typed, Lasting
  <2>4. Typed(p, t) /\ DOMAIN t = Fields
    <3>1. Typed(p, RemoveDataFromQueue(r, s.inProcess))
      BY <2>2, <2>3, RemoveTyped
    <3>2. Typed(p, t)
      BY <1>2, <2>1, <3>1
    <3> QED BY <3>2 DEF Typed
  <2>5. Typed(p, u) /\ u.mode = t.mode /\ u.table = t.table
    <3>1. /\ Same(u, t, Loose \cup Bound) /\ u.state = t.state /\ u.sid = t.sid /\ u.psid = t.psid
          /\ u.sub = t.sub /\ u.lastSid = t.lastSid /\ u.repeats = t.repeats /\ u.queue = t.queue
          /\ u.enc = t.enc /\ u.tx = t.tx /\ u.mode = t.mode /\ u.table = t.table
      BY <2>1, <2>4 DEF Same, Loose, Bound, Fields
    <3> QED BY <2>4, <3>1, Retyped DEF Typed
  <2>6. shift \in Int /\ u.mode + shift \in 0 .. LastMode(u.table)
    BY <2>1, <2>4, <2>5, Shifts
  <2> QED BY <1>4, <2>1, <2>5, <2>6, SendDataTyped
<1>14. CASE ReceiveNakInISSData(p)
  <2>1. PICK shift \in DownShift(s) \cup UpShift(s) : Respond(p, SendData(s, shift))
    BY <1>1, <1>14 DEF ReceiveNakInISSData
  <2> QED BY <1>2, <1>4, <2>1, Shifts, SendDataTyped
<1>15. CASE ReceiveControlInISSData(p)
  <2>1. CASE Respond(p, TurnOver(ClearDataToSend([s EXCEPT !.connected = TRUE, !.pending = FALSE])))
    <3>1. PICK u : u = ClearDataToSend([s EXCEPT !.connected = TRUE, !.pending = FALSE])
      OBVIOUS
    <3>2. /\ Same(u, s, Loose \cup {"psid", "repeats", "queue"}) /\ u.psid = s.psid
          /\ u.repeats = s.repeats /\ u.queue = <<>> /\ u.enc = s.enc /\ u.tx = s.tx
      BY <1>3, <3>1 DEF ClearDataToSend, Same, Fields, Loose
    <3>3. Typed(p, u)
      BY <1>2, <1>3, <3>2, StayingTyped DEF Becomes
    <3> QED BY <1>4, <2>1, <3>1, <3>3, TurnOverTyped
  <2>2. CASE Respond(p, AnswerDisc(s)) \/ Respond(p, Ended(s))
    BY <1>2, <1>4, <2>2, AnswersDiscTyped
  <2> QED BY <1>1, <1>15, <2>1, <2>2 DEF ReceiveControlInISSData
<1> QED BY <1>8, <1>9, <1>10, <1>11, <1>12, <1>13, <1>14, <1>15

\* An ABORT in between keeps the types.
LEMMA AbortTyped ==
  ASSUME TypedInv, NEW p \in Station, AbortInPlay(p)
  PROVE  TypedSteps(p)
<1>1. PICK s : s = st[p]
  OBVIOUS
<1>0. Typed(p, s) /\ Counted(0)
  BY <1>1, ArqAssumption DEF TypedInv, Counted
<1>2. Typed(p, s) /\ DOMAIN s = Fields /\ s.sid \in Station \cup {FF} /\ Counted(0)
  BY <1>0 DEF Typed
<1>3. PICK t : Change(p, t) /\ (GoesOut(t, s) \/ Strands(t, s))
  BY <1>1, <1>2, AbortInPlayIs
<1>4. CASE GoesOut(t, s)
  <2>1. PICK type \in {"DISC", "END"}, id \in {s.sid, FF} : t.enc = Encode4FSKControl(type, id)
    BY <1>4 DEF GoesOut
  <2>2. FrameOK(t.enc)
    BY <1>2, <2>1, ControlFrames
  <2>3. t.enc # NONE
    BY <2>2, FramesAreThere
  <2>4. t.lastSid \in Station \cup {FF, NONE}
    BY <1>2, <1>4 DEF GoesOut, Typed
  <2>5. Out \subseteq Loose \cup {"lastSid", "discRpt", "repeats"}
    BY DEF Out, Loose
  <2> QED BY <1>2, <1>3, <1>4, <2>2, <2>3, <2>4, <2>5, LeavingTyped, ChangeMoves DEF GoesOut, TypedSteps
<1>5. CASE Strands(t, s)
  <2>1. /\ Same(t, s, Loose \cup (Bound \ {"lastSid"})) /\ t.psid = s.psid
    BY <1>5 DEF Strands, Same, Fields, Loose, Bound
  <2>2. FrameOK(t.enc)
    BY <1>2, <1>5, ControlFrames DEF Strands
  <2>3. Becomes(p, t)
    BY <1>2, <1>5, <2>1, <2>2, PlayingTyped DEF Strands, States
  <2> QED BY <1>3, <2>3, ChangeMoves DEF TypedSteps
<1> QED BY <1>3, <1>4, <1>5

\* The types hold at first.
LEMMA TypedInit == Init => TypedInv
<1> SUFFICES ASSUME Init PROVE TypedInv
  OBVIOUS
<1>1. PICK bw \in Bandwidths : st = [p \in Station |-> NewStation(bw[p][1], bw[p][2])]
  BY DEF Init
<1>2. ASSUME NEW p \in Station
      PROVE  Typed(p, st[p]) /\ Fitting(st[p]) /\ ~st[p].tx
  <2>1. PICK own \in Settings, call \in Settings \cup {UNDEFINED} : st[p] = NewStation(own, call)
    <3>1. bw \in [Station -> Settings \X (Settings \cup {UNDEFINED})]
      BY ArqAssumption
    <3>2. bw[p] \in Settings \X (Settings \cup {UNDEFINED})
      BY <3>1
    <3> QED BY <1>1, <3>2
  <2>2. PICK s : s = NewStation(own, call)
    OBVIOUS
  <2>3. DOMAIN s = Fields
    BY <2>2 DEF NewStation, Fields
  <2>4. /\ s.arqBW = own /\ s.callBW = call /\ s.table = 1000 /\ s.mode = 0 /\ s.acked = 0
        /\ s.sent = 0 /\ s.inProcess = 0 /\ s.given = 0 /\ s.state = "DISC" /\ s.sid = FF
        /\ s.psid = NONE /\ s.lastSid = NONE /\ s.sub = "None" /\ s.repeats = 0 /\ s.queue = <<>>
        /\ s.enc = NONE /\ ~s.tx
    BY <2>2 DEF NewStation
  <2>5. s.mode \in 0 .. LastMode(s.table) /\ s.table \in Widths
    <3>1. s.table \in Widths
      BY <2>4 DEF Widths
    <3>2. LastMode(s.table) \in Nat
      BY <3>1 DEF LastMode, GetDataModes, AllModes, FSKModes, Widths
    <3> QED BY <2>4, <3>1, <3>2
  <2>6. Lasting(p, s)
    BY <2>4, <2>5, ArqAssumption DEF Lasting
  <2>7. Counted(s.repeats)
    BY <2>4, ArqAssumption DEF Counted
  <2>8. s.queue \in Seq(1 .. MaxItems[p]) /\ Len(s.queue) <= s.given
    BY <2>4
  <2>9. Typed(p, s)
    BY <2>3, <2>4, <2>6, <2>7, <2>8 DEF Typed, States
  <2>10. Fitting(s)
    BY <2>4 DEF Fitting
  <2> QED BY <2>1, <2>2, <2>4, <2>9, <2>10
<1>3. air = NONE /\ DOMAIN st = Station
  BY <1>1 DEF Init
<1> QED BY <1>2, <1>3 DEF TypedInv

\* Every step keeps the types.
LEMMA TypedNext == TypedInv /\ [Next]_vars => TypedInv'
<1> SUFFICES ASSUME TypedInv, [Next]_vars PROVE TypedInv'
  OBVIOUS
<1>1. ASSUME NEW p \in Station, TypedSteps(p) PROVE TypedInv'
  BY <1>1, TypedStep DEF TypedSteps
<1>2. CASE st' = st /\ air' \in {air, NONE}
  BY <1>2 DEF TypedInv, Typed, Lasting, Fitting, Room, FrameOK
<1>3. CASE Fade \/ GoOutOfReach \/ UNCHANGED vars
  BY <1>2, <1>3 DEF Fade, GoOutOfReach, vars
<1>4. ASSUME NEW p \in Station, Receive(p) PROVE TypedInv'
  BY <1>1, <1>4, ReceiveTypedIRS, ReceiveTypedISS DEF Receive
<1> QED BY <1>1, <1>3, <1>4, HostTyped, PollTyped, AbortTyped DEF Next

\* The stations' records stay within their types, for all bandwidths the hosts may set: whatever
\* is heard or lost, intFrameTypePtr is a place in the table of the session's modes, a sender has
\* no more in process than a frame of its mode takes, and repeats end at their limits.
THEOREM ArqTypes == Spec => []TypeOK
<1>1. TypedInv => TypeOK
  BY DEF TypedInv, TypeOK, Typed, Lasting, Fitting, Counted, States
<1> QED BY TypedInit, TypedNext, <1>1, PTL DEF Spec

-----------------------------------------------------------------------------
(* Sessions.                                                               *)

\* What a station that is not in DISC is at: it has sent a request, has sent the ConAck that
\* answers that of the called station, has been called, was aborted as it turned over, or is in a
\* session.
Calling(s) == s.state = "ISS" /\ s.sub = "ISSConReq"
Confirming(s) == s.state = "ISS" /\ s.sub = "ISSConAck"
Called(s) == s.state = "IRS" /\ s.sub = "IRSConAck"
Stranded(s) == s.state = "IRS" /\ s.sub = "IRSfromISS" /\ ~s.connected
Joined(s) ==
  s.state # "DISC" /\ ~Calling(s) /\ ~Confirming(s) /\ ~Called(s) /\ ~Stranded(s)

\* The width of a session that c calls.
WidthFor(c) == IRSNegotiateBW(st[Peer(c)].arqBW, Request(st[c].arqBW, st[c].callBW))

InPhase(p, s) ==
  /\ Calling(s) \/ Confirming(s) => ~s.connected /\ s.pending /\ s.sid = p /\ s.psid = p
  /\ Confirming(s) => s.bw = WidthFor(p) /\ s.table = WidthFor(p)
  /\ Called(s) => s.pending /\ s.psid = Peer(p)
  /\ Stranded(s) => ~s.pending /\ s.sid = FF
  /\ Joined(s) => /\ s.connected /\ ~s.pending /\ s.sid \in Station
                  /\ s.bw = WidthFor(s.sid) /\ s.table = WidthFor(s.sid)

\* Frames of a session have its id.
SessionTypes == {"ACK", "BREAK", "DATA", "IDLE", "NAK"}

\* What the last frame of a station says about it and about the session.
Plays(p, s) ==
  s.enc # NONE =>
    /\ s.enc.type = "ConReq" => /\ s.state = "DISC" \/ Calling(s)
                                /\ s.enc.bw = Request(s.arqBW, s.callBW)
    /\ s.enc.type = "ConAck" => s.enc.id \in Station /\ s.enc.bw.width = WidthFor(s.enc.id)
    /\ s.enc.type \in SessionTypes => s.enc.id \in Station
    /\ s.enc.type \in {"ACK", "BREAK"} => \/ s.state = "DISC" \/ Stranded(s)
                                          \/ Joined(s) /\ s.enc.id = s.sid

\* While one station is called the other has not begun the session yet, or is gone; and when
\* both are in a session it is the same one.
SessionInv ==
  /\ \A p \in Station :
       /\ InPhase(p, st[p]) /\ Plays(p, st[p])
       /\ Called(st[p]) => ~Called(st[Peer(p)]) /\ ~Joined(st[Peer(p)])
       /\ Joined(st[p]) /\ Joined(st[Peer(p)]) => st[p].sid = st[Peer(p)].sid
  /\ air # NONE => air.frame = st[Peer(air.to)].enc

SessionStep(p, t, heard) ==
  /\ Moved(p, t, heard)
  /\ DOMAIN t = Fields /\ t.arqBW = st[p].arqBW /\ t.callBW = st[p].callBW
  /\ InPhase(p, t) /\ Plays(p, t)
  /\ t.enc # st[p].enc => t.tx
  /\ Called(t) => Called(st[p]) \/ (~Called(st[Peer(p)]) /\ ~Joined(st[Peer(p)]))
  /\ Joined(t) => \/ Joined(st[p]) /\ t.sid = st[p].sid
                  \/ ~Called(st[Peer(p)]) /\ (Joined(st[Peer(p)]) => st[Peer(p)].sid = t.sid)

\* Steps that respect the other station's session keep the invariant.
LEMMA SessionStepKeeps ==
  ASSUME TypedInv, SessionInv, NEW p \in Station, NEW t, NEW heard \in BOOLEAN,
         SessionStep(p, t, heard)
  PROVE  SessionInv'
<1>1. PICK q \in Station : q = Peer(p) /\ p = Peer(q) /\ p # q /\ \A r \in Station : r = p \/ r = q
  BY TwoStations
<1>2. PICK u : u = [t EXCEPT !.tx = FALSE]
  OBVIOUS
<1>3. DOMAIN u = Fields /\ \A x \in Fields \ {"tx"} : u[x] = t[x]
  BY <1>2 DEF SessionStep, Fields
<1>4. DOMAIN st' = Station /\ st'[p] = u /\ st'[q] = st[q]
  BY <1>1, <1>2 DEF SessionStep, Moved, TypedInv
<1>5. /\ u.state = t.state /\ u.sub = t.sub /\ u.connected = t.connected /\ u.pending = t.pending
      /\ u.sid = t.sid /\ u.psid = t.psid /\ u.bw = t.bw /\ u.table = t.table /\ u.enc = t.enc
      /\ u.arqBW = t.arqBW /\ u.callBW = t.callBW
  BY <1>3 DEF Fields
<1>6. \A c \in Station : WidthFor(c)' = WidthFor(c)
  <2>1. \A c \in Station : st'[c].arqBW = st[c].arqBW /\ st'[c].callBW = st[c].callBW
    BY <1>1, <1>4, <1>5 DEF SessionStep
  <2> QED BY <2>1, TwoStations DEF WidthFor
<1>7. InPhase(p, st[p])' /\ Plays(p, st[p])'
  BY <1>4, <1>5, <1>6 DEF SessionStep, InPhase, Plays, Calling, Confirming, Called, Joined, Stranded
<1>8. InPhase(q, st[q])' /\ Plays(q, st[q])'
  BY <1>4, <1>6 DEF SessionInv, InPhase, Plays, Calling, Confirming, Called, Joined, Stranded
<1>9. /\ Called(st[p])' = Called(t) /\ Joined(st[p])' = Joined(t)
      /\ Called(st[q])' = Called(st[q]) /\ Joined(st[q])' = Joined(st[q])
      /\ (Called(t) => ~Joined(t)) /\ (Called(st[p]) => ~Joined(st[p]))
      /\ st'[p].sid = t.sid /\ st'[q].sid = st[q].sid
  BY <1>4, <1>5 DEF Calling, Confirming, Called, Joined, Stranded
<1>10. Called(t) => ~Called(st[q]) /\ ~Joined(st[q])
  BY <1>1 DEF SessionStep, SessionInv
<1>11. Called(st[q]) => ~Called(t) /\ ~Joined(t)
  BY <1>1, <1>10 DEF SessionStep, SessionInv
<1>12. Joined(t) /\ Joined(st[q]) => t.sid = st[q].sid
  BY <1>1 DEF SessionStep, SessionInv
<1>13. air' # NONE => air'.frame = st'[Peer(air'.to)].enc
  <2>1. CASE t.tx
    BY <1>1, <1>4, <1>5, <2>1 DEF SessionStep, Moved
  <2>2. CASE ~t.tx
    <3>1. t.enc = st[p].enc /\ air' \in {air, NONE}
      BY <2>2 DEF SessionStep, Moved
    <3>2. \A r \in Station : st'[r].enc = st[r].enc
      BY <1>1, <1>4, <1>5, <3>1
    <3> QED BY <3>1, <3>2, TwoStations DEF SessionInv, TypedInv
  <2> QED BY <2>1, <2>2
<1>14. ASSUME NEW r \in Station
       PROVE  /\ InPhase(r, st[r])' /\ Plays(r, st[r])'
              /\ Called(st[r])' => ~Called(st[Peer(r)])' /\ ~Joined(st[Peer(r)])'
              /\ Joined(st[r])' /\ Joined(st[Peer(r)])' => st'[r].sid = st'[Peer(r)].sid
  <2>1. CASE r = p
    BY <1>1, <1>7, <1>9, <1>10, <1>12, <2>1
  <2>2. CASE r = q
    BY <1>1, <1>8, <1>9, <1>11, <1>12, <2>2
  <2> QED BY <1>1, <2>1, <2>2
<1> QED BY <1>13, <1>14 DEF SessionInv

\* Frames other than ConReq and ConAck, with the session's id if they are those of one.
NewFrame(s, t) ==
  \/ t.enc = s.enc
  \/ /\ t.tx /\ t.enc.type \notin {"ConReq", "ConAck"}
     /\ t.enc.type \in SessionTypes => Joined(t) /\ t.sid \in Station /\ t.enc.id = t.sid

\* A station may go to DISC, stay what it is at, and go on in its session or begin one.
LEMMA SessionLeaves ==
  ASSUME SessionInv, NEW p \in Station, NEW t, NEW heard, Moved(p, t, heard), DOMAIN t = Fields,
         t.state = "DISC", t.arqBW = st[p].arqBW, t.callBW = st[p].callBW, NewFrame(st[p], t)
  PROVE  SessionStep(p, t, heard)
BY DEF SessionStep, SessionInv, InPhase, Plays, NewFrame, Calling, Confirming, Called, Joined, Stranded

\* Its session is what it was.
LEMMA SessionStays ==
  ASSUME SessionInv, NEW p \in Station, NEW t, NEW heard, Moved(p, t, heard), DOMAIN t = Fields,
         t.arqBW = st[p].arqBW, t.callBW = st[p].callBW,
         t.state = st[p].state, t.sub = st[p].sub, t.connected = st[p].connected,
         t.pending = st[p].pending, t.sid = st[p].sid, t.psid = st[p].psid, t.bw = st[p].bw,
         t.table = st[p].table, NewFrame(st[p], t)
  PROVE  SessionStep(p, t, heard)
<1>1. PICK s : s = st[p]
  OBVIOUS
<1>2. /\ Calling(t) = Calling(s) /\ Confirming(t) = Confirming(s) /\ Called(t) = Called(s)
      /\ Stranded(t) = Stranded(s) /\ Joined(t) = Joined(s)
  BY <1>1 DEF Calling, Confirming, Called, Joined, Stranded
<1>3. InPhase(p, s) /\ Plays(p, s)
  BY <1>1 DEF SessionInv
<1>4. InPhase(p, t)
  BY <1>1, <1>2, <1>3 DEF InPhase
<1>5. Plays(p, t)
  BY <1>1, <1>2, <1>3 DEF Plays, NewFrame, SessionTypes
<1> QED BY <1>1, <1>2, <1>4, <1>5 DEF SessionStep, NewFrame

\* It goes on in its session, or begins one that the other has not begun otherwise.
LEMMA SessionJoins ==
  ASSUME SessionInv, NEW p \in Station, NEW t, NEW heard, Moved(p, t, heard), DOMAIN t = Fields,
         t.arqBW = st[p].arqBW, t.callBW = st[p].callBW,
         st[p].state # "DISC", ~Calling(st[p]), Joined(t), t.connected, ~t.pending,
         t.sid \in Station, t.bw = WidthFor(t.sid), t.table = WidthFor(t.sid), NewFrame(st[p], t),
         \/ Joined(st[p]) /\ t.sid = st[p].sid
         \/ /\ ~Joined(st[p]) /\ ~Stranded(st[p]) /\ ~Called(st[Peer(p)])
            /\ Joined(st[Peer(p)]) => st[Peer(p)].sid = t.sid
  PROVE  SessionStep(p, t, heard)
<1>1. ~Calling(t) /\ ~Confirming(t) /\ ~Called(t) /\ ~Stranded(t) /\ t.state # "DISC"
  BY DEF Joined
<1>2. InPhase(p, t)
  BY <1>1 DEF InPhase
<1>3. InPhase(p, st[p]) /\ Plays(p, st[p]) /\ ~Stranded(st[p])
  BY DEF SessionInv, Joined
<1>4. Plays(p, t)
  <2>1. CASE t.enc = st[p].enc
    <3>1. /\ t.enc # NONE /\ t.enc.type \in {"ACK", "BREAK"} =>
               Joined(st[p]) /\ t.enc.id = st[p].sid
          /\ t.enc # NONE => t.enc.type # "ConReq"
      BY <1>3, <2>1 DEF Plays
    <3> QED BY <1>3, <2>1, <3>1 DEF Plays
  <2>2. CASE t.enc # st[p].enc
    BY <2>2 DEF Plays, NewFrame, SessionTypes
  <2> QED BY <2>1, <2>2
<1>5. t.enc # st[p].enc => t.tx
  BY DEF NewFrame
<1> QED BY <1>1, <1>2, <1>4, <1>5 DEF SessionStep

SessionSteps(p) == \E t : \E heard \in BOOLEAN : SessionStep(p, t, heard)

\* The fields that say what a station is at.
PhaseFields ==
  {"arqBW", "callBW", "state", "sub", "connected", "pending", "sid", "psid", "bw", "table"}

\* The commands of the host end a session or leave it alone.
LEMMA HostSession ==
  ASSUME TypedInv, SessionInv, NEW p \in Station,
         GiveData(p) \/ ArqCall(p) \/ HostAbort(p) \/ HostDisconnect(p) \/ HostBreak(p) \/ HostPurge(p)
  PROVE  SessionSteps(p)
<1>1. PICK s : s = st[p]
  OBVIOUS
<1>2. DOMAIN s = Fields
  BY <1>1 DEF TypedInv, Typed
<1>3. CASE HostAbort(p) /\ Change(p, Aborted(s))
  <2>1. PICK t : t = Aborted(s)
    OBVIOUS
  <2>2. Leaves(t, s, {"abort", "rpt", "discRpt", "repeats"})
    BY <1>2, <2>1, AbortedIs
  <2>3. /\ DOMAIN t = Fields /\ t.state = "DISC" /\ t.arqBW = s.arqBW /\ t.callBW = s.callBW
        /\ t.enc = s.enc
    BY <2>2 DEF Leaves, Same, Leaving, Fields
  <2>4. Moved(p, t, FALSE)
    BY <1>3, <2>1, ChangeMoves
  <2> QED BY <1>1, <2>3, <2>4, SessionLeaves DEF SessionSteps, NewFrame, SessionTypes
<1>4. CASE ~(HostAbort(p) /\ Change(p, Aborted(s)))
  <2>1. PICK t : /\ Change(p, t)
                 /\ t \in {[s EXCEPT !.given = s.given + 1, !.queue = Append(@, s.given + 1)],
                           [s EXCEPT !.needCall = TRUE], [s EXCEPT !.abort = TRUE],
                           [s EXCEPT !.disc = TRUE], [s EXCEPT !.breakCmd = TRUE],
                           ClearDataToSend(s)}
    BY <1>1, <1>4 DEF GiveData, ArqCall, HostAbort, HostDisconnect, HostBreak, HostPurge
  <2>2. DOMAIN t = Fields /\ \A x \in PhaseFields \cup {"enc"} : t[x] = s[x]
    <3>1. CASE t = [s EXCEPT !.given = s.given + 1, !.queue = Append(@, s.given + 1)]
      BY <1>2, <3>1 DEF Fields, PhaseFields
    <3>2. CASE t = [s EXCEPT !.needCall = TRUE] \/ t = [s EXCEPT !.abort = TRUE]
      BY <1>2, <3>2 DEF Fields, PhaseFields
    <3>3. CASE t = [s EXCEPT !.disc = TRUE] \/ t = [s EXCEPT !.breakCmd = TRUE]
      BY <1>2, <3>3 DEF Fields, PhaseFields
    <3>4. CASE t = ClearDataToSend(s)
      BY <1>2, <3>4 DEF Fields, PhaseFields, ClearDataToSend
    <3> QED BY <2>1, <3>1, <3>2, <3>3, <3>4
  <2>3. Moved(p, t, FALSE)
    BY <2>1, ChangeMoves
  <2> QED BY <1>1, <2>2, <2>3, SessionStays DEF SessionSteps, NewFrame, SessionTypes, PhaseFields
<1> QED BY <1>3, <1>4

\* So do the poll and the timers, but for a call.
LEMMA PollSession ==
  ASSUME TypedInv, SessionInv, NEW p \in Station, Poll(p)
  PROVE  SessionSteps(p)
<1>1. PICK s : s = st[p]
  OBVIOUS
<1>2. DOMAIN s = Fields
  BY <1>1 DEF TypedInv, Typed
<1>3. ASSUME NEW t, Act(p, t), DOMAIN t = Fields, t.state = "DISC", t.arqBW = s.arqBW,
             t.callBW = s.callBW, t.enc = s.enc \/ (t.tx /\ t.enc.type = "DISC")
      PROVE  SessionSteps(p)
  BY <1>1, <1>3, ChangeMoves, SessionLeaves DEF SessionSteps, NewFrame, SessionTypes, Act
<1>4. ASSUME NEW t, Act(p, t), DOMAIN t = Fields, \A x \in PhaseFields : t[x] = s[x],
             t.enc = s.enc \/ (t.tx /\ t.enc.type \in {"DISC", "ID"})
      PROVE  SessionSteps(p)
  BY <1>1, <1>4, ChangeMoves, SessionStays DEF SessionSteps, NewFrame, SessionTypes, Act, PhaseFields
<1>5. ASSUME NEW t, Act(p, t), Leaves(t, s, {"abort", "rpt", "discRpt", "repeats"})
      PROVE  SessionSteps(p)
  <2>1. /\ DOMAIN t = Fields /\ t.state = "DISC" /\ t.arqBW = s.arqBW /\ t.callBW = s.callBW
        /\ t.enc = s.enc
    BY <1>5 DEF Leaves, Same, Leaving, Fields
  <2> QED BY <1>3, <1>5, <2>1
<1>6. CASE PollAbort(p)
  BY <1>1, <1>2, <1>5, <1>6, AbortedIs DEF PollAbort
<1>7. CASE RepeatDisc(p)
  <2>1. CASE Act(p, GivenUp(s))
    <3>1. PICK t : t = GivenUp(s) /\ Act(p, t)
      BY <2>1
    <3>2. Leaves(t, s, {"rpt", "discRpt", "repeats"})
      BY <1>2, <3>1, GivenUpIs
    <3>3. Leaves(t, s, {"abort", "rpt", "discRpt", "repeats"})
      BY <3>2 DEF Leaves, Same
    <3> QED BY <1>5, <3>1, <3>3
  <2>2. CASE ~Act(p, GivenUp(s))
    <3>1. PICK u, t : /\ u = [s EXCEPT !.repeats = @ + 1, !.rpt = FALSE]
                      /\ t = Play(u, Encode4FSKControl("DISC", s.sid)) /\ Act(p, t)
      BY <1>1, <1>7, <2>2 DEF RepeatDisc
    <3>2. DOMAIN u = Fields /\ \A x \in PhaseFields : u[x] = s[x]
      BY <1>2, <3>1 DEF PhaseFields, Fields
    <3>3. Same(t, u, {"enc", "tx"}) /\ t.tx /\ t.enc = Encode4FSKControl("DISC", s.sid)
      BY <3>1, <3>2, PlayIs
    <3>4. DOMAIN t = Fields /\ \A x \in PhaseFields : t[x] = s[x]
      BY <3>2, <3>3 DEF Same, Fields, PhaseFields
    <3>5. t.enc.type = "DISC"
      BY <3>3 DEF Encode4FSKControl
    <3> QED BY <1>4, <3>1, <3>3, <3>4, <3>5
  <2> QED BY <2>1, <2>2
<1>8. CASE PollDisconnect(p)
  <2>1. PICK t : t = CheckForDisconnect(s) /\ Act(p, t)
    BY <1>1, <1>8 DEF PollDisconnect
  <2>2. /\ Same(t, s, {"repeats", "disc", "discRpt", "rpt", "enc", "tx"})
        /\ t.tx /\ t.enc = Encode4FSKControl("DISC", s.sid)
    BY <1>2, <2>1, CheckForDisconnectIs
  <2>3. DOMAIN t = Fields /\ \A x \in PhaseFields : t[x] = s[x]
    BY <2>2 DEF Same, Fields, PhaseFields
  <2>4. t.enc.type = "DISC"
    BY <2>2 DEF Encode4FSKControl
  <2> QED BY <1>4, <2>1, <2>2, <2>3, <2>4
<1>9. CASE RepeatConReq(p)
  <2>1. CASE Act(p, CallFailed(s))
    <3>1. PICK t : t = CallFailed(s) /\ Act(p, t)
      BY <2>1
    <3>2. Leaves(t, s, {"rpt", "repeats"})
      BY <1>2, <3>1, CallFailedIs
    <3>3. Leaves(t, s, {"abort", "rpt", "discRpt", "repeats"})
      BY <3>2 DEF Leaves, Same
    <3> QED BY <1>5, <3>1, <3>3
  <2>2. CASE ~Act(p, CallFailed(s))
    <3>1. PICK t : t = [s EXCEPT !.repeats = @ + 1, !.tx = s.rpt] /\ Act(p, t)
      BY <1>1, <1>9, <2>2 DEF RepeatConReq
    <3>2. DOMAIN t = Fields /\ t.enc = s.enc /\ \A x \in PhaseFields : t[x] = s[x]
      BY <1>2, <3>1 DEF Fields, PhaseFields
    <3> QED BY <1>4, <3>1, <3>2
  <2> QED BY <2>1, <2>2
<1>10. CASE ArqTimeout(p) \/ PollDISC(p) \/ RepeatFrame(p)
  <2>1. PICK t : /\ Act(p, t)
                 /\ t \in {[s EXCEPT !.rpt = FALSE, !.timedOut = TRUE, !.sendTimer = TRUE],
                           [s EXCEPT !.disc = FALSE, !.repeats = 0, !.rpt = FALSE],
                           Remodulate(s)}
    BY <1>1, <1>10 DEF ArqTimeout, PollDISC, RepeatFrame
  <2>2. DOMAIN t = Fields /\ t.enc = s.enc /\ \A x \in PhaseFields : t[x] = s[x]
    BY <1>2, <2>1 DEF Fields, PhaseFields, Remodulate
  <2> QED BY <1>4, <2>1, <2>2
<1>11. CASE SendTimerExpires(p)
  <2>1. PICK t : t = SendTimeout(s) /\ Act(p, t)
    BY <1>1, <1>11 DEF SendTimerExpires
  <2>2. /\ Leaves(t, s, {"sendTimer", "rpt", "timedOut", "enc", "tx"})
        /\ t.tx /\ t.enc = Encode4FSKControl("DISC", s.sid)
    BY <1>2, <2>1, SendTimeoutIs
  <2>3. DOMAIN t = Fields /\ t.state = "DISC" /\ t.arqBW = s.arqBW /\ t.callBW = s.callBW
    BY <2>2 DEF Leaves, Same, Leaving, Fields
  <2>4. t.enc.type = "DISC"
    BY <2>2 DEF Encode4FSKControl
  <2> QED BY <1>3, <2>1, <2>2, <2>3, <2>4
<1>12. CASE PendTimerExpires(p)
  <2>1. PICK t : t = PendingTimeout(s) /\ Act(p, t)
    BY <1>1, <1>12 DEF PendTimerExpires
  <2>2. /\ Same(t, s, {"pendTimer", "rpt", "state", "pending", "sid", "lastAcked", "bw"})
        /\ t.state = "DISC"
    BY <1>2, <2>1, PendingTimeoutIs
  <2>3. DOMAIN t = Fields /\ t.arqBW = s.arqBW /\ t.callBW = s.callBW /\ t.enc = s.enc
    BY <2>2 DEF Same, Fields
  <2> QED BY <1>3, <2>1, <2>2, <2>3
<1>13. CASE IdTimerExpires(p)
  <2>1. PICK u, t : /\ u = [s EXCEPT !.idTimer = FALSE] /\ t = Play(u, Encode4FSKIDFrame)
                    /\ Act(p, t)
    BY <1>1, <1>13 DEF IdTimerExpires
  <2>2. DOMAIN u = Fields /\ \A x \in PhaseFields : u[x] = s[x]
    BY <1>2, <2>1 DEF PhaseFields, Fields
  <2>3. Same(t, u, {"enc", "tx"}) /\ t.tx /\ t.enc = Encode4FSKIDFrame
    BY <2>1, <2>2, PlayIs
  <2>4. DOMAIN t = Fields /\ \A x \in PhaseFields : t[x] = s[x]
    BY <2>2, <2>3 DEF Same, Fields, PhaseFields
  <2>5. t.enc.type = "ID"
    BY <2>3 DEF Encode4FSKControl, Encode4FSKIDFrame
  <2> QED BY <1>4, <2>1, <2>3, <2>4, <2>5
<1>14. CASE PlaceCall(p)
  <2>1. PICK t : t = ConnectRequest(s, p) /\ Act(p, t)
    BY <1>1, <1>14 DEF PlaceCall
  <2>2. /\ Same(t, s, {"sid", "lastAcked", "bw", "abort", "state", "sub", "repeats", "psid",
                       "pending", "connected", "rpt", "needCall", "enc", "tx"})
        /\ t.sid = p /\ t.state = "ISS" /\ t.sub = "ISSConReq" /\ t.psid = p /\ t.pending
        /\ ~t.connected /\ t.tx
        /\ t.enc = EncodeARQConRequest(Request(s.arqBW, s.callBW))
    BY <1>2, <2>1, ConnectRequestIs
  <2>3. DOMAIN t = Fields /\ t.arqBW = s.arqBW /\ t.callBW = s.callBW
    BY <2>2 DEF Same, Fields
  <2>4. t.enc.type = "ConReq" /\ t.enc.bw = Request(s.arqBW, s.callBW)
    BY <2>2 DEF EncodeARQConRequest, Encode4FSKControl
  <2>5. Moved(p, t, FALSE)
    BY <2>1, ChangeMoves DEF Act
  <2>6. Calling(t) /\ ~Confirming(t) /\ ~Called(t) /\ ~Joined(t) /\ ~Stranded(t)
    BY <2>2 DEF Calling, Confirming, Called, Joined, Stranded
  <2>7. InPhase(p, t) /\ Plays(p, t)
    BY <2>2, <2>3, <2>4, <2>6 DEF InPhase, Plays, SessionTypes
  <2>8. SessionStep(p, t, FALSE)
    BY <1>1, <2>2, <2>3, <2>5, <2>6, <2>7 DEF SessionStep
  <2> QED BY <2>8 DEF SessionSteps
<1> QED BY <1>6, <1>7, <1>8, <1>9, <1>10, <1>11, <1>12, <1>13, <1>14 DEF Poll

\* A frame that is heard is the last one of the other station, and has the id that Accepts says.
LEMMA Heard ==
  ASSUME TypedInv, SessionInv, NEW p \in Station, NEW ok, Hears(p, ok)
  PROVE  /\ air.frame = st[Peer(p)].enc /\ air.frame # NONE /\ FrameOK(air.frame)
         /\ Plays(Peer(p), st[Peer(p)])
         /\ air.frame.type # "ConReq" =>
              /\ st[p].pending => air.frame.id = st[p].psid
              /\ Joined(st[p]) => air.frame.id = st[p].sid
         /\ Stranded(st[p]) => air.frame.type \notin SessionTypes \cup {"ConAck"}
<1>1. air # NONE /\ air.to = p /\ Accepts(st[p], air.frame) /\ Peer(p) \in Station
  BY TwoStations DEF Hears
<1>2. air.frame = st[Peer(p)].enc /\ FrameOK(air.frame)
  BY <1>1 DEF SessionInv, TypedInv
<1>3. Joined(st[p]) => ~st[p].pending /\ st[p].connected /\ st[p].sid \in Station
  BY DEF SessionInv, InPhase
<1>4. Plays(Peer(p), st[Peer(p)]) /\ air.frame # NONE
  BY <1>1, <1>2, FramesAreThere DEF SessionInv
<1>5. ASSUME Stranded(st[p]) PROVE air.frame.type \notin SessionTypes \cup {"ConAck"}
  <2>1. ~st[p].pending /\ st[p].sid = FF
    BY <1>5 DEF SessionInv, InPhase
  <2>2. air.frame.type # "DISC" => air.frame.id = FF
    BY <1>1, <2>1 DEF Accepts
  <2>3. air.frame.type \in SessionTypes \cup {"ConAck"} => air.frame.id \in Station
    BY <1>2, <1>4 DEF Plays
  <2> QED BY <2>2, <2>3, ArqAssumption DEF SessionTypes
<1> QED BY <1>1, <1>2, <1>3, <1>4, <1>5, ArqAssumption DEF Accepts

\* What a ConAck says.
LEMMA ConAcks ==
  ASSUME NEW w, NEW id
  PROVE  LET f == EncodeConACK(w, id) IN f.type = "ConAck" /\ f.id = id /\ f.bw.width = w
<1>1. PICK f, g : f = EncodeConACK(w, id) /\ g = UpTo(w)
  OBVIOUS
<1>2. f = [Encode4FSKControl("ConAck", id) EXCEPT !.bw = g]
  BY <1>1 DEF EncodeConACK
<1>3. f = [type |-> "ConAck", id |-> id, mode |-> 0, par |-> 0, data |-> <<>>, bw |-> g]
  BY <1>2 DEF Encode4FSKControl
<1>4. g.width = w
  BY <1>1 DEF UpTo
<1> QED BY <1>1, <1>3, <1>4

\* A station that is called was called by the other, which has no session yet.
LEMMA AnswerConReqSession ==
  ASSUME TypedInv, SessionInv, NEW p \in Station, Hears(p, TRUE), air.frame.type = "ConReq",
         Offer(st[p], air.frame) # ConRejBW,
         Respond(p, AnswerConReq(st[p], Peer(p), Offer(st[p], air.frame)))
  PROVE  SessionSteps(p)
<1>0. PICK q \in Station : q = Peer(p) /\ p = Peer(q)
  BY TwoStations
<1>1. PICK s, bw, t : /\ s = st[p] /\ bw = Offer(st[p], air.frame) /\ t = AnswerConReq(s, q, bw)
  OBVIOUS
<1>2. DOMAIN s = Fields
  BY <1>1 DEF TypedInv, Typed
<1>3. /\ Same(t, s, {"queue", "sid", "lastAcked", "bw", "state", "psid", "pending", "rpt",
                     "pendTimer", "sub", "toHost", "enc", "tx"})
      /\ t.queue = <<>> /\ t.sid = FF /\ t.lastAcked = NONE /\ t.bw = 0 /\ t.state = "IRS"
      /\ t.psid = q /\ t.pending /\ ~t.rpt /\ t.pendTimer /\ t.sub = "IRSConAck"
      /\ t.toHost = NONE /\ t.tx /\ t.enc = EncodeConACK(bw, q)
  BY <1>1, <1>2, AnswerConReqIs
<1>4. DOMAIN t = Fields /\ t.arqBW = s.arqBW /\ t.callBW = s.callBW
  BY <1>3 DEF Same, Fields
<1>5. /\ st[q].state = "DISC" \/ Calling(st[q])
      /\ air.frame.bw = Request(st[q].arqBW, st[q].callBW)
  BY <1>0, Heard DEF Plays
<1>6. bw = WidthFor(q)
  BY <1>0, <1>1, <1>5 DEF Offer, WidthFor
<1>7. t.enc.type = "ConAck" /\ t.enc.id = q /\ t.enc.bw.width = bw
  <2>1. t.enc = EncodeConACK(bw, q)
    BY <1>3
  <2> QED BY <2>1, ConAcks
<1>8. Called(t) /\ ~Joined(t) /\ ~Calling(t) /\ ~Confirming(t) /\ ~Stranded(t)
  BY <1>3 DEF Calling, Confirming, Called, Joined, Stranded
<1>9. ~Called(st[q]) /\ ~Joined(st[q])
  BY <1>5 DEF Calling, Confirming, Called, Joined, Stranded
<1>10. InPhase(p, t) /\ Plays(p, t)
  BY <1>0, <1>3, <1>6, <1>7, <1>8 DEF InPhase, Plays, SessionTypes
<1>11. Moved(p, t, TRUE)
  BY <1>0, <1>1, ChangeMoves
<1>12. t.enc # st[p].enc => t.tx
  BY <1>3
<1>13. SessionStep(p, t, TRUE)
  BY <1>0, <1>1, <1>4, <1>8, <1>9, <1>10, <1>11, <1>12 DEF SessionStep
<1> QED BY <1>13 DEF SessionSteps

\* A station that is called begins the session with the caller's ConAck, of the same width.
LEMMA ReceiveSessionIRS ==
  ASSUME TypedInv, SessionInv, NEW p \in Station,
         \/ ReceiveInDISC(p) \/ ReceiveInIRSConAck(p) \/ BreakInstead(p) \/ ReceiveControlInIRS(p)
         \/ ReceiveConAckInIRS(p) \/ ReceiveDataInIRS(p) \/ ReceiveBadDataInIRS(p)
  PROVE  SessionSteps(p)
<1> PICK q \in Station : q = Peer(p) /\ p = Peer(q)
  BY TwoStations
<1>1. PICK s : s = st[p]
  OBVIOUS
<1>2. DOMAIN s = Fields /\ InPhase(p, s) /\ Plays(p, s)
  BY <1>1 DEF TypedInv, Typed, SessionInv
<1>3. ASSUME NEW t, Respond(p, t), DOMAIN t = Fields, t.state = "DISC", t.arqBW = s.arqBW,
             t.callBW = s.callBW, t.tx, t.enc.type \notin {"ConReq", "ConAck"} \cup SessionTypes
      PROVE  SessionSteps(p)
  BY <1>1, <1>3, ChangeMoves, SessionLeaves DEF SessionSteps, NewFrame, SessionTypes
<1>4. ASSUME NEW u, NEW f, \A x \in PhaseFields \ {"sub"} : u[x] = s[x], DOMAIN u = Fields,
             Joined(s), Joined(u), Respond(p, Play(u, f)),
             f.type \notin {"ConReq", "ConAck"}, f.type \in SessionTypes => f.id = s.sid
      PROVE  SessionSteps(p)
  <2>1. PICK t : t = Play(u, f)
    OBVIOUS
  <2>2. Same(t, u, {"enc", "tx"}) /\ t.tx /\ t.enc = f
    BY <1>4, <2>1, PlayIs
  <2>3. t.sub = u.sub /\ DOMAIN t = Fields /\ \A x \in PhaseFields \ {"sub"} : t[x] = s[x]
    BY <1>4, <2>2 DEF Same, Fields, PhaseFields
  <2>4. /\ t.arqBW = s.arqBW /\ t.callBW = s.callBW /\ t.state = s.state /\ t.connected = s.connected
        /\ t.pending = s.pending /\ t.sid = s.sid /\ t.bw = s.bw /\ t.table = s.table
        /\ u.state = s.state /\ u.connected = s.connected
    BY <1>4, <2>3 DEF PhaseFields
  <2>5. Joined(t)
    BY <1>4, <2>3, <2>4 DEF Joined, Stranded, Calling, Confirming, Called
  <2>6. s.sid \in Station
    BY <1>2, <1>4 DEF InPhase
  <2>7. NewFrame(s, t)
    BY <1>4, <2>2, <2>4, <2>5, <2>6 DEF NewFrame
  <2>8. Moved(p, t, TRUE)
    BY <1>4, <2>1, ChangeMoves
  <2>9. s.state # "DISC" /\ ~Calling(s)
    BY <1>4 DEF Joined, Stranded
  <2>10. SessionStep(p, t, TRUE)
    BY <1>1, <1>2, <1>4, <2>3, <2>4, <2>5, <2>7, <2>8, <2>9, SessionJoins DEF InPhase
  <2> QED BY <2>10 DEF SessionSteps
<1>0. /\ EncodeDATAACK(s.sid).type = "ACK" /\ EncodeDATAACK(s.sid).id = s.sid
      /\ EncodeDATANAK(s.sid).type = "NAK" /\ EncodeDATANAK(s.sid).id = s.sid
      /\ Encode4FSKControl("BREAK", s.sid).type = "BREAK"
      /\ Encode4FSKControl("BREAK", s.sid).id = s.sid
  BY DEF EncodeDATAACK, EncodeDATANAK, Encode4FSKControl
<1>5. CASE ReceiveInDISC(p)
  <2>1. CASE \E u, f : /\ u \in {[s EXCEPT !.idTimer = TRUE, !.rpt = FALSE], [s EXCEPT !.psid = Peer(p)],
                                 [s EXCEPT !.psid = Peer(p), !.rpt = FALSE]}
                       /\ f.type \in {"END", "ConRejBusy", "ConRejBW"} /\ Respond(p, Play(u, f))
    <3>1. PICK u, f : /\ u \in {[s EXCEPT !.idTimer = TRUE, !.rpt = FALSE], [s EXCEPT !.psid = Peer(p)],
                                [s EXCEPT !.psid = Peer(p), !.rpt = FALSE]}
                      /\ f.type \in {"END", "ConRejBusy", "ConRejBW"} /\ Respond(p, Play(u, f))
      BY <2>1
    <3>2. s.state = "DISC"
      BY <1>1, <1>5 DEF ReceiveInDISC
    <3>3. DOMAIN u = Fields /\ u.state = "DISC" /\ u.arqBW = s.arqBW /\ u.callBW = s.callBW
      <4>1. CASE u = [s EXCEPT !.idTimer = TRUE, !.rpt = FALSE]
        BY <1>2, <3>2, <4>1 DEF Fields
      <4>2. CASE u = [s EXCEPT !.psid = Peer(p)]
        BY <1>2, <3>2, <4>2 DEF Fields
      <4>3. CASE u = [s EXCEPT !.psid = Peer(p), !.rpt = FALSE]
        BY <1>2, <3>2, <4>3 DEF Fields
      <4> QED BY <3>1, <4>1, <4>2, <4>3
    <3>4. PICK t : t = Play(u, f)
      OBVIOUS
    <3>5. Same(t, u, {"enc", "tx"}) /\ t.tx /\ t.enc = f
      BY <3>3, <3>4, PlayIs
    <3>6. DOMAIN t = Fields /\ t.state = "DISC" /\ t.arqBW = s.arqBW /\ t.callBW = s.callBW
      BY <3>3, <3>5 DEF Same, Fields
    <3> QED BY <1>3, <3>1, <3>4, <3>5, <3>6 DEF SessionTypes
  <2>2. \A type \in {"END", "ConRejBusy", "ConRejBW"}, id \in {s.lastSid, Peer(p)} :
          Encode4FSKControl(type, id).type \in {"END", "ConRejBusy", "ConRejBW"}
    BY DEF Encode4FSKControl
  <2>3. CASE /\ air.frame.type = "ConReq" /\ Offer(s, air.frame) # ConRejBW
             /\ Respond(p, AnswerConReq(s, Peer(p), Offer(s, air.frame)))
    BY <1>1, <1>5, <2>3, AnswerConReqSession DEF ReceiveInDISC, Receives
  <2> QED BY <1>1, <1>5, <2>1, <2>2, <2>3 DEF ReceiveInDISC
<1>6. CASE ReceiveInIRSConAck(p)
  <2>1. Called(s) /\ Hears(p, TRUE)
    BY <1>1, <1>6 DEF ReceiveInIRSConAck, Receives, Called
  <2>2. s.pending /\ s.psid = q /\ ~Called(st[q]) /\ ~Joined(st[q]) /\ s.state = "IRS"
        /\ s.state # "DISC" /\ ~Calling(s) /\ ~Joined(s) /\ ~Stranded(s)
    BY <1>1, <1>2, <2>1 DEF InPhase, SessionInv, Called, Calling, Joined, Stranded
  <2>3. CASE /\ air.frame.type = "ConReq" /\ Offer(s, air.frame) # ConRejBW
             /\ Respond(p, AnswerConReq(s, Peer(p), Offer(s, air.frame)))
    BY <1>1, <2>1, <2>3, AnswerConReqSession
  <2>4. CASE Respond(p, Play([s EXCEPT !.psid = Peer(p)], Encode4FSKControl("ConRejBW", Peer(p))))
    <3>1. PICK u, t : /\ u = [s EXCEPT !.psid = Peer(p)]
                      /\ t = Play(u, Encode4FSKControl("ConRejBW", Peer(p)))
      OBVIOUS
    <3>2. DOMAIN u = Fields /\ \A x \in PhaseFields : u[x] = s[x]
      BY <1>1, <1>2, <2>2, <3>1 DEF Fields, PhaseFields
    <3>3. Same(t, u, {"enc", "tx"}) /\ t.tx /\ t.enc = Encode4FSKControl("ConRejBW", Peer(p))
      BY <3>1, <3>2, PlayIs
    <3>4. DOMAIN t = Fields /\ \A x \in PhaseFields : t[x] = s[x]
      BY <3>2, <3>3 DEF Same, Fields, PhaseFields
    <3>5. NewFrame(s, t)
      BY <3>3 DEF NewFrame, SessionTypes, Encode4FSKControl
    <3>6. Moved(p, t, TRUE)
      BY <2>4, <3>1, ChangeMoves
    <3> QED BY <1>1, <3>4, <3>5, <3>6, SessionStays DEF SessionSteps, PhaseFields
  <2>5. CASE /\ air.frame.type = "ConAck"
             /\ \E u, v : /\ u = InitModes(s, air.frame.bw.width)
                          /\ v = [u EXCEPT !.sid = s.psid, !.connected = TRUE, !.pending = FALSE,
                                           !.pendTimer = FALSE, !.sub = "IRSData", !.toHost = NONE,
                                           !.rpt = FALSE]
                          /\ Respond(p, Play(v, EncodeDATAACK(s.psid)))
    <3>1. PICK u, v, t : /\ u = InitModes(s, air.frame.bw.width)
                         /\ v = [u EXCEPT !.sid = s.psid, !.connected = TRUE, !.pending = FALSE,
                                          !.pendTimer = FALSE, !.sub = "IRSData", !.toHost = NONE,
                                          !.rpt = FALSE]
                         /\ t = Play(v, EncodeDATAACK(s.psid)) /\ Respond(p, t)
      BY <2>5
    <3>2. air.frame.id = q
      BY <1>1, <2>1, <2>2, <2>5, Heard
    <3>3. air.frame.bw.width = WidthFor(q)
      BY <1>1, <2>1, <2>5, <3>2, Heard DEF Plays
    <3>4. Same(u, s, {"bw", "table", "mode"}) /\ u.bw = WidthFor(q) /\ u.table = WidthFor(q)
      BY <1>2, <3>1, <3>3, InitModesIs
    <3>5. /\ DOMAIN u = Fields /\ u.state = "IRS" /\ u.arqBW = s.arqBW /\ u.callBW = s.callBW
      BY <2>2, <3>4 DEF Same, Fields
    <3>6. /\ DOMAIN v = Fields /\ v.state = "IRS" /\ v.arqBW = s.arqBW /\ v.callBW = s.callBW
          /\ v.sid = q /\ v.connected /\ ~v.pending /\ v.sub = "IRSData"
          /\ v.bw = WidthFor(q) /\ v.table = WidthFor(q)
      BY <2>2, <3>1, <3>4, <3>5 DEF Fields
    <3>7. Same(t, v, {"enc", "tx"}) /\ t.tx /\ t.enc = EncodeDATAACK(q)
      <4>1. t = Play(v, EncodeDATAACK(q))
        BY <2>2, <3>1
      <4> QED BY <3>6, <4>1, PlayIs
    <3>8. /\ DOMAIN t = Fields /\ t.state = "IRS" /\ t.arqBW = s.arqBW /\ t.callBW = s.callBW
          /\ t.sid = q /\ t.connected /\ ~t.pending /\ t.sub = "IRSData"
          /\ t.bw = WidthFor(q) /\ t.table = WidthFor(q)
      BY <3>6, <3>7 DEF Same, Fields
    <3>9. Joined(t)
      BY <3>8 DEF Joined, Stranded, Calling, Confirming, Called
    <3>0. EncodeDATAACK(q).type = "ACK" /\ EncodeDATAACK(q).id = q
      BY DEF EncodeDATAACK, Encode4FSKControl
    <3>10. NewFrame(s, t)
      BY <3>0, <3>7, <3>8, <3>9 DEF NewFrame
    <3>11. Moved(p, t, TRUE)
      BY <3>1, ChangeMoves
    <3>12. SessionStep(p, t, TRUE)
      BY <1>1, <2>2, <3>8, <3>9, <3>10, <3>11, SessionJoins
    <3> QED BY <3>12 DEF SessionSteps
  <2> QED BY <1>1, <1>6, <2>3, <2>4, <2>5 DEF ReceiveInIRSConAck
<1>7. ASSUME IRSReceiving(p, TRUE) \/ IRSReceiving(p, FALSE)
      PROVE  /\ s.state = "IRS" /\ s.sub \in {"IRSData", "IRSfromISS"}
             /\ air.frame.type \in SessionTypes \cup {"ConAck"} => Joined(s)
  <2>1. Joined(s) \/ Stranded(s)
    BY <1>1, <1>7 DEF IRSReceiving, Joined, Calling, Confirming, Called
  <2>2. Hears(p, TRUE) \/ Hears(p, FALSE)
    BY <1>7 DEF IRSReceiving, Receives
  <2>3. Stranded(s) => air.frame.type \notin SessionTypes \cup {"ConAck"}
    BY <1>1, <2>2, Heard
  <2> QED BY <1>1, <1>7, <2>1, <2>3 DEF IRSReceiving
<1>8. ASSUME Joined(s), NEW u, DOMAIN u = Fields, \A x \in PhaseFields : u[x] = s[x],
             u.enc = s.enc, Respond(p, StartBreak(u))
      PROVE  SessionSteps(p)
  <2>1. PICK t : t = StartBreak(u)
    OBVIOUS
  <2>2. /\ Same(t, u, {"state", "lastAcked", "rpt", "enc", "tx"})
        /\ t.state = "IRStoISS" /\ t.tx /\ t.enc = Encode4FSKControl("BREAK", u.sid)
    BY <1>8, <2>1, StartBreakIs
  <2>3. DOMAIN t = Fields /\ \A x \in PhaseFields \ {"state"} : t[x] = s[x]
    BY <1>8, <2>2 DEF Same, Fields, PhaseFields
  <2>4. /\ t.arqBW = s.arqBW /\ t.callBW = s.callBW /\ t.connected = s.connected
        /\ t.pending = s.pending /\ t.sid = s.sid /\ t.bw = s.bw /\ t.table = s.table
        /\ u.sid = s.sid
    BY <1>8, <2>3 DEF PhaseFields
  <2>5. Joined(t) /\ s.state # "DISC" /\ ~Calling(s) /\ s.sid \in Station
    BY <1>2, <1>8, <2>2 DEF Joined, Stranded, Calling, Confirming, Called, InPhase
  <2>6. NewFrame(s, t)
    BY <1>0, <2>2, <2>4, <2>5 DEF NewFrame
  <2>7. Moved(p, t, TRUE)
    BY <1>8, <2>1, ChangeMoves
  <2>8. SessionStep(p, t, TRUE)
    BY <1>1, <1>2, <1>8, <2>3, <2>4, <2>5, <2>6, <2>7, SessionJoins DEF InPhase
  <2> QED BY <2>8 DEF SessionSteps
<1>9. CASE BreakInstead(p)
  <2>1. CASE BreaksIn(s, air.frame) /\ Respond(p, StartBreak([s EXCEPT !.breakCmd = FALSE]))
    <3>1. Joined(s)
      BY <2>1 DEF BreaksIn, Joined, Stranded, Calling, Confirming, Called
    <3>2. PICK u : u = [s EXCEPT !.breakCmd = FALSE]
      OBVIOUS
    <3>3. DOMAIN u = Fields /\ u.enc = s.enc /\ \A x \in PhaseFields : u[x] = s[x]
      BY <1>2, <3>2 DEF Fields, PhaseFields
    <3> QED BY <1>8, <2>1, <3>1, <3>2, <3>3
  <2>2. CASE /\ s.state = "IRStoISS"
             /\ Respond(p, Play([s EXCEPT !.rpt = TRUE], Encode4FSKControl("BREAK", s.sid)))
    <3>1. PICK u : u = [s EXCEPT !.rpt = TRUE]
      OBVIOUS
    <3>2. DOMAIN u = Fields /\ u.state = s.state /\ \A x \in PhaseFields \ {"sub"} : u[x] = s[x]
      BY <1>2, <3>1 DEF Fields, PhaseFields
    <3>3. Joined(s) /\ Joined(u)
      BY <2>2, <3>2 DEF Joined, Stranded, Calling, Confirming, Called
    <3> QED BY <1>0, <1>4, <2>2, <3>1, <3>2, <3>3
  <2> QED BY <1>1, <1>9, <2>1, <2>2 DEF BreakInstead
<1>10. ASSUME Joined(s), Respond(p, Play([s EXCEPT !.rpt = FALSE], EncodeDATAACK(s.sid)))
       PROVE  SessionSteps(p)
  <2>1. PICK u : u = [s EXCEPT !.rpt = FALSE]
    OBVIOUS
  <2>2. /\ DOMAIN u = Fields /\ u.state = s.state /\ u.sub = s.sub /\ u.connected = s.connected
        /\ \A x \in PhaseFields \ {"sub"} : u[x] = s[x]
    BY <1>2, <2>1 DEF Fields, PhaseFields
  <2>3. Joined(u)
    BY <1>10, <2>2 DEF Joined, Stranded, Calling, Confirming, Called
  <2> QED BY <1>0, <1>4, <1>10, <2>1, <2>2, <2>3
<1>11. CASE ReceiveControlInIRS(p)
  <2>1. air.frame.type \in {"BREAK", "IDLE"} => Joined(s)
    BY <1>7, <1>11 DEF ReceiveControlInIRS, SessionTypes
  <2>2. CASE Respond(p, AnswerDisc(s))
    <3>1. PICK t : t = AnswerDisc(s)
      OBVIOUS
    <3>2. /\ Leaves(t, s, {"lastSid", "idTimer", "discRpt", "rpt", "enc", "tx"})
          /\ t.tx /\ t.enc = Encode4FSKControl("END", FF)
      BY <1>2, <3>1, AnswerDiscIs
    <3>3. DOMAIN t = Fields /\ t.state = "DISC" /\ t.arqBW = s.arqBW /\ t.callBW = s.callBW
      BY <3>2 DEF Leaves, Same, Leaving, Fields
    <3>4. t.enc.type = "END"
      BY <3>2 DEF Encode4FSKControl
    <3> QED BY <1>3, <2>2, <3>1, <3>2, <3>3, <3>4 DEF SessionTypes
  <2>3. CASE Respond(p, EndedIRS(s))
    <3>1. PICK t : t = EndedIRS(s)
      OBVIOUS
    <3>2. Leaves(t, s, {"discRpt", "rpt"})
      BY <1>2, <3>1, EndedIRSIs
    <3>3. /\ DOMAIN t = Fields /\ t.state = "DISC" /\ t.arqBW = s.arqBW /\ t.callBW = s.callBW
          /\ t.enc = s.enc
      BY <3>2 DEF Leaves, Same, Leaving, Fields
    <3>4. Moved(p, t, TRUE)
      BY <2>3, <3>1, ChangeMoves
    <3> QED BY <1>1, <3>3, <3>4, SessionLeaves DEF SessionSteps, NewFrame
  <2>4. CASE Respond(p, CheckForDisconnect(s))
    <3>1. PICK t : t = CheckForDisconnect(s)
      OBVIOUS
    <3>2. /\ Same(t, s, {"repeats", "disc", "discRpt", "rpt", "enc", "tx"})
          /\ t.tx /\ t.enc = Encode4FSKControl("DISC", s.sid)
      BY <1>2, <3>1, CheckForDisconnectIs
    <3>3. DOMAIN t = Fields /\ \A x \in PhaseFields : t[x] = s[x]
      BY <3>2 DEF Same, Fields, PhaseFields
    <3>4. NewFrame(s, t)
      BY <3>2 DEF Encode4FSKControl, NewFrame, SessionTypes
    <3>5. Moved(p, t, TRUE)
      BY <2>4, <3>1, ChangeMoves
    <3> QED BY <1>1, <3>3, <3>4, <3>5, SessionStays DEF SessionSteps, PhaseFields
  <2>5. CASE air.frame.type = "IDLE" /\ Respond(p, StartBreak(s))
    BY <1>2, <1>8, <2>1, <2>5
  <2> QED BY <1>1, <1>10, <1>11, <2>1, <2>2, <2>3, <2>4, <2>5 DEF ReceiveControlInIRS
<1>12. CASE ReceiveConAckInIRS(p)
  <2>1. Joined(s) /\ \E ok : Hears(p, ok)
    BY <1>7, <1>12 DEF ReceiveConAckInIRS, IRSReceiving, Receives
  <2>2. air.frame.type = "ConAck"
    BY <1>12 DEF ReceiveConAckInIRS
  <2>3. air.frame.id = s.sid /\ air.frame.bw.width = WidthFor(s.sid)
    BY <1>1, <2>1, <2>2, Heard DEF Plays
  <2>4. PICK u : u = [s EXCEPT !.bw = air.frame.bw.width] /\ Respond(p, Play(u, EncodeDATAACK(s.sid)))
    BY <1>1, <1>12 DEF ReceiveConAckInIRS
  <2>5. air.frame.bw.width = s.bw
    BY <1>2, <2>1, <2>3 DEF InPhase
  <2>6. /\ DOMAIN u = Fields /\ u.state = s.state /\ u.sub = s.sub /\ u.connected = s.connected
        /\ \A x \in PhaseFields \ {"sub"} : u[x] = s[x]
    BY <1>2, <2>4, <2>5 DEF Fields, PhaseFields
  <2>7. Joined(u)
    BY <2>1, <2>6 DEF Joined, Stranded, Calling, Confirming, Called
  <2> QED BY <1>0, <1>4, <2>1, <2>4, <2>6, <2>7
<1>13. CASE ReceiveDataInIRS(p)
  <2>1. s.state = "IRS" /\ Joined(s)
    BY <1>7, <1>13 DEF ReceiveDataInIRS, SessionTypes
  <2>2. PICK got, type, u :
          /\ u = [s EXCEPT !.got = got, !.toHost = type, !.lastAcked = type, !.sub = "IRSData",
                           !.rpt = FALSE]
          /\ Respond(p, Play(u, EncodeDATAACK(s.sid)))
    BY <1>1, <1>13 DEF ReceiveDataInIRS
  <2>3. /\ DOMAIN u = Fields /\ u.state = s.state /\ u.sub = "IRSData"
        /\ \A x \in PhaseFields \ {"sub"} : u[x] = s[x]
    BY <1>2, <2>2 DEF Fields, PhaseFields
  <2>4. Joined(u)
    BY <2>1, <2>3 DEF Joined, Stranded, Calling, Confirming, Called
  <2> QED BY <1>0, <1>4, <2>1, <2>2, <2>3, <2>4
<1>14. CASE ReceiveBadDataInIRS(p)
  <2>1. s.state = "IRS" /\ Joined(s)
    BY <1>7, <1>14 DEF ReceiveBadDataInIRS, SessionTypes
  <2>2. CASE Respond(p, Play([s EXCEPT !.sub = "IRSData", !.rpt = FALSE], EncodeDATANAK(s.sid)))
    <3>1. PICK u : u = [s EXCEPT !.sub = "IRSData", !.rpt = FALSE]
      OBVIOUS
    <3>2. /\ DOMAIN u = Fields /\ u.state = s.state /\ u.sub = "IRSData"
          /\ \A x \in PhaseFields \ {"sub"} : u[x] = s[x]
      BY <1>2, <3>1 DEF Fields, PhaseFields
    <3>3. Joined(u)
      BY <2>1, <3>2 DEF Joined, Stranded, Calling, Confirming, Called
    <3> QED BY <1>0, <1>4, <2>1, <2>2, <3>1, <3>2, <3>3
  <2> QED BY <1>1, <1>10, <1>14, <2>1, <2>2 DEF ReceiveBadDataInIRS
<1> QED BY <1>5, <1>6, <1>9, <1>11, <1>12, <1>13, <1>14

\* What SessionJoins asks of a station's record t but for its frame and the state it is in.
Joins(p, t) ==
  /\ DOMAIN t = Fields /\ t.arqBW = st[p].arqBW /\ t.callBW = st[p].callBW
  /\ st[p].state # "DISC" /\ ~Calling(st[p])
  /\ t.connected /\ ~t.pending
  /\ t.sid \in Station /\ t.bw = WidthFor(t.sid) /\ t.table = WidthFor(t.sid)
  /\ \/ Joined(st[p]) /\ t.sid = st[p].sid
     \/ /\ ~Joined(st[p]) /\ ~Stranded(st[p]) /\ ~Called(st[Peer(p)])
        /\ Joined(st[Peer(p)]) => st[Peer(p)].sid = t.sid

\* A station of which that holds takes its place in the session with its next frame.
LEMMA JoinsStep ==
  ASSUME SessionInv, NEW p \in Station, NEW t, Moved(p, t, TRUE), Joins(p, t), Joined(t),
         NewFrame(st[p], t)
  PROVE  SessionSteps(p)
<1>1. SessionStep(p, t, TRUE)
  BY SessionJoins DEF Joins
<1> QED BY <1>1 DEF SessionSteps

\* What it is about stays when other fields change.
LEMMA JoinsSame ==
  ASSUME NEW p, NEW u, NEW t, Joins(p, u), DOMAIN t = Fields,
         \A x \in PhaseFields \ {"state", "sub"} : t[x] = u[x]
  PROVE  Joins(p, t)
<1>1. /\ t.arqBW = u.arqBW /\ t.callBW = u.callBW /\ t.connected = u.connected
      /\ t.pending = u.pending /\ t.sid = u.sid /\ t.bw = u.bw /\ t.table = u.table
  BY DEF PhaseFields
<1> QED BY <1>1 DEF Joins

\* It holds of a station in a session.
LEMMA JoinedJoins ==
  ASSUME TypedInv, SessionInv, NEW p \in Station, Joined(st[p])
  PROVE  Joins(p, st[p])
<1>1. DOMAIN st[p] = Fields /\ InPhase(p, st[p])
  BY DEF TypedInv, Typed, SessionInv
<1> QED BY <1>1 DEF Joins, InPhase, Joined, Stranded

\* A station in a session stays in it when it sends data, IDLE or DISC,
LEMMA SendDataJoins ==
  ASSUME SessionInv, NEW p \in Station, NEW u, NEW shift, Joins(p, u), u.enc = st[p].enc,
         u.state = "ISS", u.sub = "ISSData", Respond(p, SendData(u, shift))
  PROVE  SessionSteps(p)
<1>1. PICK t : t = SendData(u, shift)
  OBVIOUS
<1>2. DOMAIN u = Fields
  BY DEF Joins
<1>3. Moved(p, t, TRUE)
  BY <1>1, ChangeMoves
<1>4. ASSUME Joins(p, t), t.state = "IDLE" \/ (t.state = "ISS" /\ t.sub = "ISSData"), NewFrame(st[p], t)
      PROVE  SessionSteps(p)
  <2>1. Joined(t)
    BY <1>4 DEF Joined, Stranded, Calling, Confirming, Called
  <2> QED BY <1>3, <1>4, <2>1, JoinsStep
<1>0. ASSUME \A x \in PhaseFields \ {"state", "sub"} : t[x] = u[x], t.tx, t.enc.id = u.sid,
             t.state = "IDLE" \/ (t.state = "ISS" /\ t.sub = "ISSData"),
             t.enc.type \notin {"ConReq", "ConAck"}
      PROVE  NewFrame(st[p], t)
  <2>1. t.sid = u.sid /\ u.sid \in Station
    BY <1>0 DEF PhaseFields, Joins
  <2>2. Joined(t)
    BY <1>0 DEF Joined, Stranded, Calling, Confirming, Called
  <2> QED BY <1>0, <2>1, <2>2 DEF NewFrame
<1>5. CASE t = u
  BY <1>4, <1>5 DEF NewFrame
<1>6. CASE t = CheckForDisconnect(u)
  <2>1. /\ Same(t, u, {"repeats", "disc", "discRpt", "rpt", "enc", "tx"})
        /\ t.tx /\ t.enc = Encode4FSKControl("DISC", u.sid)
    BY <1>2, <1>6, CheckForDisconnectIs
  <2>2. /\ DOMAIN t = Fields /\ t.state = u.state /\ t.sub = u.sub
        /\ \A x \in PhaseFields \ {"state", "sub"} : t[x] = u[x]
    BY <2>1 DEF Same, Fields, PhaseFields
  <2>3. NewFrame(st[p], t)
    BY <1>0, <2>1, <2>2 DEF Encode4FSKControl
  <2> QED BY <1>4, <2>2, <2>3, JoinsSame
<1>7. CASE /\ Same(t, u, {"mode", "inProcess", "sent", "sentData", "rpt", "sub", "enc", "tx"})
           /\ t.sub = "ISSData" /\ t.tx /\ t.enc.type = "DATA" /\ t.enc.id = u.sid
  <2>1. /\ DOMAIN t = Fields /\ t.state = u.state
        /\ \A x \in PhaseFields \ {"state", "sub"} : t[x] = u[x]
    BY <1>7 DEF Same, Fields, PhaseFields
  <2>2. NewFrame(st[p], t)
    BY <1>0, <1>7, <2>1
  <2> QED BY <1>4, <1>7, <2>1, <2>2, JoinsSame
<1>8. CASE /\ Same(t, u, {"state", "rpt", "sentData", "enc", "tx"})
           /\ t.state = "IDLE" /\ t.tx /\ t.enc = Encode4FSKControl("IDLE", u.sid)
  <2>1. DOMAIN t = Fields /\ \A x \in PhaseFields \ {"state", "sub"} : t[x] = u[x]
    BY <1>8 DEF Same, Fields, PhaseFields
  <2>2. NewFrame(st[p], t)
    BY <1>0, <1>8, <2>1 DEF Encode4FSKControl
  <2> QED BY <1>4, <1>8, <2>1, <2>2, JoinsSame
<1>9. \A id, mode, par, data : /\ DataFrame(id, mode, par, data).type = "DATA"
                              /\ DataFrame(id, mode, par, data).id = id
  BY DEF DataFrame, Encode4FSKControl
<1> QED BY <1>1, <1>2, <1>5, <1>6, <1>7, <1>8, <1>9, SendDataIs

\* and when it turns over to the other station.
LEMMA TurnOverJoins ==
  ASSUME SessionInv, NEW p \in Station, NEW u, Joins(p, u), Respond(p, TurnOver(u))
  PROVE  SessionSteps(p)
<1>1. PICK t : t = TurnOver(u)
  OBVIOUS
<1>2. /\ Same(t, u, {"state", "lastAcked", "rpt", "sub", "toHost", "enc", "tx"})
      /\ t.state = "IRS" /\ t.sub = "IRSfromISS" /\ t.tx /\ t.enc = EncodeDATAACK(u.sid)
  BY <1>1, TurnOverIs DEF Joins
<1>3. /\ DOMAIN t = Fields /\ t.sid = u.sid /\ t.connected = u.connected
      /\ u.sid \in Station /\ u.connected
      /\ \A x \in PhaseFields \ {"state", "sub"} : t[x] = u[x]
  BY <1>2 DEF Same, Fields, PhaseFields, Joins
<1>4. Joined(t)
  BY <1>2, <1>3 DEF Joined, Stranded, Calling, Confirming, Called
<1>5. t.enc.type = "ACK" /\ t.enc.id = t.sid
  BY <1>2, <1>3 DEF EncodeDATAACK, Encode4FSKControl
<1>6. NewFrame(st[p], t)
  BY <1>2, <1>3, <1>4, <1>5 DEF NewFrame
<1>7. Moved(p, t, TRUE)
  BY <1>1, ChangeMoves
<1> QED BY <1>3, <1>4, <1>6, <1>7, JoinsSame, JoinsStep

\* A station whose session ends leaves it.
LEMMA AnswersLeave ==
  ASSUME SessionInv, NEW p \in Station, DOMAIN st[p] = Fields, NEW t, Respond(p, t),
         t \in {AnswerDisc(st[p]), AnswerDiscIdle(st[p]), Ended(st[p]), EndedIdle(st[p])}
  PROVE  SessionSteps(p)
<1>1. /\ Leaves(t, st[p], {"lastSid", "idTimer", "discRpt", "rpt", "enc", "tx"})
         \/ Leaves(t, st[p], {"discRpt", "rpt", "enc", "tx"})
      /\ t.tx
      /\ \/ \E id : t.enc = Encode4FSKControl("END", id)
         \/ t.enc = Encode4FSKIDFrame
  <2>1. CASE t = AnswerDisc(st[p])
    BY <2>1, AnswerDiscIs
  <2>2. CASE t = AnswerDiscIdle(st[p])
    BY <2>2, AnswerDiscIdleIs
  <2>3. CASE t = Ended(st[p])
    BY <2>3, EndedIs
  <2>4. CASE t = EndedIdle(st[p])
    BY <2>4, EndedIdleIs
  <2> QED BY <2>1, <2>2, <2>3, <2>4
<1>2. DOMAIN t = Fields /\ t.state = "DISC" /\ t.arqBW = st[p].arqBW /\ t.callBW = st[p].callBW
  BY <1>1 DEF Leaves, Same, Leaving, Fields
<1>3. t.enc.type \in {"END", "ID"}
  <2>1. \A id : Encode4FSKControl("END", id).type = "END"
    BY DEF Encode4FSKControl
  <2>2. Encode4FSKIDFrame.type = "ID"
    BY DEF Encode4FSKIDFrame, Encode4FSKControl
  <2> QED BY <1>1, <2>1, <2>2
<1>4. NewFrame(st[p], t) /\ Moved(p, t, TRUE)
  BY <1>1, <1>3, ChangeMoves DEF NewFrame, SessionTypes
<1> QED BY <1>2, <1>4, SessionLeaves DEF SessionSteps

\* Who calls hears of the called station: the width of the session, and then that it has begun.
LEMMA ReceiveSessionISS ==
  ASSUME TypedInv, SessionInv, NEW p \in Station,
         \/ ReceiveInIRStoISS(p) \/ ReceiveInIDLE(p) \/ ReceiveInISSConReq(p)
         \/ ReceiveInISSConAck(p) \/ DisconnectInISSData(p) \/ ReceiveAckInISSData(p)
         \/ ReceiveNakInISSData(p) \/ ReceiveControlInISSData(p)
  PROVE  SessionSteps(p)
<1>1. PICK s : s = st[p]
  OBVIOUS
<1>2. DOMAIN s = Fields /\ InPhase(p, s)
  BY <1>1 DEF TypedInv, Typed, SessionInv
<1>3. s.state \in {"IDLE", "IRStoISS"} \/ (s.state = "ISS" /\ s.sub = "ISSData") => Joined(s)
  BY DEF Joined, Stranded, Calling, Confirming, Called
<1>4. Joined(s) => Joins(p, s)
  BY <1>1, JoinedJoins
<1>5. ASSUME Joined(s), NEW u, NEW shift, u.enc = s.enc, DOMAIN u = Fields,
             u.state = "ISS", u.sub = "ISSData",
             \A x \in PhaseFields \ {"state", "sub"} : u[x] = s[x],
             Respond(p, SendData(u, shift))
      PROVE  SessionSteps(p)
  <2>1. Joins(p, u)
    BY <1>4, <1>5, JoinsSame
  <2> QED BY <1>1, <1>5, <2>1, SendDataJoins
<1>6. CASE ReceiveInIRStoISS(p)
  <2>1. PICK u : /\ u = [SetARDOPProtocolState(s, "ISS") EXCEPT !.sub = "ISSData", !.toHost = NONE]
                 /\ s.state = "IRStoISS" /\ Respond(p, SendData(u, 0))
    BY <1>1, <1>6 DEF ReceiveInIRStoISS
  <2>2. /\ DOMAIN u = Fields /\ u.enc = s.enc /\ u.state = "ISS" /\ u.sub = "ISSData"
        /\ \A x \in PhaseFields \ {"state", "sub"} : u[x] = s[x]
    BY <1>2, <2>1 DEF SetARDOPProtocolState, Fields, PhaseFields
  <2> QED BY <1>3, <1>5, <2>1, <2>2
<1>7. CASE ReceiveInIDLE(p)
  <2>1. s.state = "IDLE" /\ Joined(s)
    BY <1>1, <1>3, <1>7 DEF ReceiveInIDLE
  <2>2. CASE Respond(p, SendData([SetARDOPProtocolState(s, "ISS") EXCEPT !.sub = "ISSData"], 0))
    <3>1. PICK u : u = [SetARDOPProtocolState(s, "ISS") EXCEPT !.sub = "ISSData"]
      OBVIOUS
    <3>2. /\ DOMAIN u = Fields /\ u.enc = s.enc /\ u.state = "ISS" /\ u.sub = "ISSData"
          /\ \A x \in PhaseFields \ {"state", "sub"} : u[x] = s[x]
      BY <1>2, <2>1, <3>1 DEF SetARDOPProtocolState, Fields, PhaseFields
    <3> QED BY <1>5, <2>1, <2>2, <3>1, <3>2
  <2>3. CASE Respond(p, TurnOver(s))
    BY <1>4, <2>1, <2>3, TurnOverJoins
  <2>4. CASE Respond(p, AnswerDiscIdle(s)) \/ Respond(p, EndedIdle(s))
    BY <1>1, <1>2, <2>4, AnswersLeave
  <2> QED BY <1>1, <1>7, <2>2, <2>3, <2>4 DEF ReceiveInIDLE
<1>8. CASE ReceiveInISSConReq(p)
  <2>1. Calling(s) /\ Hears(p, TRUE)
    BY <1>1, <1>8 DEF ReceiveInISSConReq, Receives, Calling
  <2>2. /\ s.state = "ISS" /\ ~s.connected /\ s.pending /\ s.sid = p /\ s.psid = p
    BY <1>2, <2>1 DEF InPhase, Calling
  <2>3. CASE /\ air.frame.type = "ConAck"
             /\ \E u : /\ u = [InitModes(s, air.frame.bw.width) EXCEPT !.rpt = TRUE,
                                                                      !.sub = "ISSConAck"]
                       /\ Respond(p, Play(u, EncodeConACK(air.frame.bw.width, s.sid)))
    <3>1. PICK v, u, t :
            /\ v = InitModes(s, air.frame.bw.width)
            /\ u = [v EXCEPT !.rpt = TRUE, !.sub = "ISSConAck"]
            /\ t = Play(u, EncodeConACK(air.frame.bw.width, s.sid)) /\ Respond(p, t)
      BY <2>3
    <3>2. air.frame.id = p /\ air.frame.bw.width = WidthFor(p)
      <4>1. air.frame.id = p /\ air.frame = st[Peer(p)].enc /\ air.frame # NONE
            /\ Plays(Peer(p), st[Peer(p)])
        BY <1>1, <2>1, <2>2, <2>3, Heard
      <4> QED BY <2>3, <4>1 DEF Plays
    <3>3. Same(v, s, {"bw", "table", "mode"}) /\ v.bw = WidthFor(p) /\ v.table = WidthFor(p)
      BY <1>2, <3>1, <3>2, InitModesIs
    <3>4. /\ DOMAIN v = Fields /\ v.state = "ISS" /\ v.arqBW = s.arqBW /\ v.callBW = s.callBW
          /\ ~v.connected /\ v.pending /\ v.sid = p /\ v.psid = p
      BY <2>2, <3>3 DEF Same, Fields
    <3>5. /\ DOMAIN u = Fields /\ u.state = "ISS" /\ u.arqBW = s.arqBW /\ u.callBW = s.callBW
          /\ ~u.connected /\ u.pending /\ u.sid = p /\ u.psid = p /\ u.sub = "ISSConAck"
          /\ u.bw = WidthFor(p) /\ u.table = WidthFor(p)
      BY <3>1, <3>3, <3>4 DEF Fields
    <3>6. Same(t, u, {"enc", "tx"}) /\ t.tx /\ t.enc = EncodeConACK(WidthFor(p), p)
      <4>1. t = Play(u, EncodeConACK(WidthFor(p), p))
        BY <2>2, <3>1, <3>2
      <4> QED BY <3>5, <4>1, PlayIs
    <3>7. /\ DOMAIN t = Fields /\ t.state = "ISS" /\ t.arqBW = s.arqBW /\ t.callBW = s.callBW
          /\ ~t.connected /\ t.pending /\ t.sid = p /\ t.psid = p /\ t.sub = "ISSConAck"
          /\ t.bw = WidthFor(p) /\ t.table = WidthFor(p)
      BY <3>5, <3>6 DEF Same, Fields
    <3>8. t.enc.type = "ConAck" /\ t.enc.id = p /\ t.enc.bw.width = WidthFor(p)
      <4>1. t.enc = EncodeConACK(WidthFor(p), p)
        BY <3>6
      <4> QED BY <4>1, ConAcks
    <3>9. Confirming(t) /\ ~Calling(t) /\ ~Called(t) /\ ~Joined(t) /\ ~Stranded(t)
      BY <3>7 DEF Confirming, Calling, Called, Joined, Stranded
    <3>10. InPhase(p, t) /\ Plays(p, t)
      BY <3>7, <3>8, <3>9 DEF InPhase, Plays, SessionTypes
    <3>11. Moved(p, t, TRUE)
      BY <3>1, ChangeMoves
    <3>12. SessionStep(p, t, TRUE)
      BY <1>1, <3>6, <3>7, <3>9, <3>10, <3>11 DEF SessionStep
    <3> QED BY <3>12 DEF SessionSteps
  <2>4. CASE Respond(p, [s EXCEPT !.abort = TRUE])
    <3>1. PICK t : t = [s EXCEPT !.abort = TRUE]
      OBVIOUS
    <3>2. DOMAIN t = Fields /\ t.enc = s.enc /\ \A x \in PhaseFields : t[x] = s[x]
      BY <1>2, <3>1 DEF Fields, PhaseFields
    <3>3. NewFrame(s, t) /\ Moved(p, t, TRUE)
      BY <2>4, <3>1, <3>2, ChangeMoves DEF NewFrame, SessionTypes
    <3> QED BY <1>1, <3>2, <3>3, SessionStays DEF SessionSteps, PhaseFields
  <2> QED BY <1>1, <1>8, <2>3, <2>4 DEF ReceiveInISSConReq
<1>9. CASE ReceiveInISSConAck(p)
  <2>1. Confirming(s) /\ Hears(p, TRUE)
    BY <1>1, <1>9 DEF ReceiveInISSConAck, Receives, Confirming
  <2>2. /\ s.state = "ISS" /\ s.state # "DISC" /\ s.pending /\ s.sid = p /\ s.psid = p
        /\ s.bw = WidthFor(p) /\ s.table = WidthFor(p) /\ ~Calling(s) /\ ~Joined(s)
        /\ ~Stranded(s)
    BY <1>2, <2>1 DEF InPhase, Confirming, Calling, Joined, Stranded
  <2>3. PICK u : u = CallerConnected(s)
    OBVIOUS
  <2>4. Same(u, s, {"rpt", "connected", "acked", "pending", "sub"})
        /\ u.connected /\ ~u.pending /\ u.sub = "ISSData"
    BY <1>2, <2>3, CallerConnectedIs
  <2>5. /\ DOMAIN u = Fields /\ u.arqBW = s.arqBW /\ u.callBW = s.callBW /\ u.state = "ISS"
        /\ u.sid = p /\ u.bw = WidthFor(p) /\ u.table = WidthFor(p) /\ u.enc = s.enc
    BY <2>2, <2>4 DEF Same, Fields
  <2>6. ASSUME air.frame.type \in {"ACK", "BREAK"}
        PROVE  Joins(p, u)
    <3>1. /\ air.frame.id = p /\ air.frame = st[Peer(p)].enc /\ air.frame # NONE
          /\ Plays(Peer(p), st[Peer(p)])
      BY <1>1, <2>1, <2>2, <2>6, Heard
    <3>2. \/ st[Peer(p)].state = "DISC" \/ Stranded(st[Peer(p)])
          \/ Joined(st[Peer(p)]) /\ st[Peer(p)].sid = p
      BY <2>6, <3>1 DEF Plays
    <3>3. ~Called(st[Peer(p)]) /\ (Joined(st[Peer(p)]) => st[Peer(p)].sid = p)
      BY <3>2 DEF Called, Joined, Stranded
    <3> QED BY <1>1, <2>2, <2>4, <2>5, <3>3 DEF Joins
  <2>7. CASE air.frame.type \in {"ACK", "BREAK"} /\ Respond(p, SendData(u, 0))
    BY <1>1, <2>4, <2>5, <2>6, <2>7, SendDataJoins
  <2>8. CASE air.frame.type = "BREAK" /\ Respond(p, TurnOver(u))
    BY <2>6, <2>8, TurnOverJoins
  <2>9. CASE Respond(p, InitializeConnection(SetARDOPProtocolState(s, "DISC")))
    <3>1. PICK t : t = InitializeConnection(SetARDOPProtocolState(s, "DISC"))
      OBVIOUS
    <3>2. /\ DOMAIN t = Fields /\ t.state = "DISC" /\ t.arqBW = s.arqBW /\ t.callBW = s.callBW
          /\ t.enc = s.enc
      BY <1>2, <2>2, <3>1 DEF InitializeConnection, SetARDOPProtocolState, ClearDataToSend, Fields
    <3>3. NewFrame(s, t) /\ Moved(p, t, TRUE)
      BY <2>9, <3>1, <3>2, ChangeMoves DEF NewFrame, SessionTypes
    <3> QED BY <1>1, <3>2, <3>3, SessionLeaves DEF SessionSteps
  <2> QED BY <1>1, <1>9, <2>3, <2>7, <2>8, <2>9 DEF ReceiveInISSConAck
<1>10. ASSUME ReceivingAsISS(p)
       PROVE  s.state = "ISS" /\ s.sub = "ISSData" /\ Joined(s) /\ Joins(p, s)
  BY <1>1, <1>3, <1>4, <1>10 DEF ReceivingAsISS
<1>11. CASE DisconnectInISSData(p)
  <2>1. PICK t : t = CheckForDisconnect(s) /\ Respond(p, t)
    BY <1>1, <1>11 DEF DisconnectInISSData
  <2>2. /\ Same(t, s, {"repeats", "disc", "discRpt", "rpt", "enc", "tx"})
        /\ t.tx /\ t.enc = Encode4FSKControl("DISC", s.sid)
    BY <1>2, <2>1, CheckForDisconnectIs
  <2>3. DOMAIN t = Fields /\ \A x \in PhaseFields : t[x] = s[x]
    BY <2>2 DEF Same, Fields, PhaseFields
  <2>4. NewFrame(s, t)
    BY <2>2 DEF NewFrame, SessionTypes, Encode4FSKControl
  <2>5. Moved(p, t, TRUE)
    BY <2>1, ChangeMoves
  <2> QED BY <1>1, <2>3, <2>4, <2>5, SessionStays DEF SessionSteps, PhaseFields
<1>12. CASE ReceiveAckInISSData(p)
  <2>1. PICK v, t, u, shift :
          /\ v = [s EXCEPT !.acked = s.sent, !.inProcess = 0]
          /\ t = IF s.sentData THEN RemoveDataFromQueue(v, s.inProcess) ELSE s
          /\ u = [t EXCEPT !.rpt = FALSE] /\ Respond(p, SendData(u, shift))
    BY <1>1, <1>12 DEF ReceiveAckInISSData
  <2>2. DOMAIN v = Fields /\ \A x \in PhaseFields \cup {"enc"} : v[x] = s[x]
    BY <1>2, <2>1 DEF Fields, PhaseFields
  <2>3. DOMAIN t = Fields /\ \A x \in PhaseFields \cup {"enc"} : t[x] = s[x]
    <3>1. CASE s.sentData
      <4>1. Same(t, v, {"queue", "confirmed"})
        BY <2>1, <2>2, <3>1, RemoveDataFromQueueIs
      <4> QED BY <2>2, <4>1 DEF Same, Fields, PhaseFields
    <3>2. CASE ~s.sentData
      BY <1>2, <2>1, <3>2
    <3> QED BY <3>1, <3>2
  <2>4. DOMAIN u = Fields /\ \A x \in PhaseFields \cup {"enc"} : u[x] = s[x]
    BY <2>1, <2>3 DEF Fields, PhaseFields
  <2>5. /\ u.enc = s.enc /\ u.state = s.state /\ u.sub = s.sub
        /\ \A x \in PhaseFields \ {"state", "sub"} : u[x] = s[x]
    BY <2>4 DEF PhaseFields
  <2> QED BY <1>5, <1>10, <1>12, <2>1, <2>4, <2>5 DEF ReceiveAckInISSData
<1>13. CASE ReceiveNakInISSData(p)
  BY <1>1, <1>10, <1>13, SendDataJoins DEF ReceiveNakInISSData
<1>14. CASE ReceiveControlInISSData(p)
  <2>1. CASE Respond(p, TurnOver(ClearDataToSend([s EXCEPT !.connected = TRUE, !.pending = FALSE])))
    <3>1. PICK u : u = ClearDataToSend([s EXCEPT !.connected = TRUE, !.pending = FALSE])
      OBVIOUS
    <3>2. Joins(p, s)
      BY <1>10, <1>14 DEF ReceiveControlInISSData
    <3>3. /\ DOMAIN u = Fields /\ u.connected /\ ~u.pending
          /\ \A x \in PhaseFields \ {"connected", "pending"} : u[x] = s[x]
      BY <1>2, <3>1 DEF ClearDataToSend, Fields, PhaseFields
    <3>4. /\ u.arqBW = s.arqBW /\ u.callBW = s.callBW /\ u.sid = s.sid
          /\ u.bw = s.bw /\ u.table = s.table
      BY <3>3 DEF PhaseFields
    <3>5. Joins(p, u)
      BY <3>2, <3>3, <3>4 DEF Joins
    <3> QED BY <2>1, <3>1, <3>5, TurnOverJoins
  <2>2. CASE Respond(p, AnswerDisc(s)) \/ Respond(p, Ended(s))
    BY <1>1, <1>2, <2>2, AnswersLeave
  <2> QED BY <1>1, <1>14, <2>1, <2>2 DEF ReceiveControlInISSData
<1> QED BY <1>6, <1>7, <1>8, <1>9, <1>11, <1>12, <1>13, <1>14

\* An ABORT in between ends the session, also when the station stays in IRS.
LEMMA AbortSession ==
  ASSUME TypedInv, SessionInv, NEW p \in Station, AbortInPlay(p)
  PROVE  SessionSteps(p)
<1>1. PICK s : s = st[p]
  OBVIOUS
<1>2. DOMAIN s = Fields /\ InPhase(p, s)
  BY <1>1 DEF TypedInv, Typed, SessionInv
<1>3. PICK t : /\ Change(p, t)
               /\ GoesOut(t, s) \/ (Strands(t, s) /\ s.state = "IDLE")
  BY <1>1, <1>2, AbortInPlayIs
<1>4. Moved(p, t, FALSE)
  BY <1>3, ChangeMoves
<1>5. CASE GoesOut(t, s)
  <2>1. t.tx /\ t.enc.type \in {"DISC", "END"}
    BY <1>5 DEF GoesOut, Encode4FSKControl
  <2>2. DOMAIN t = Fields /\ t.state = "DISC" /\ t.arqBW = s.arqBW /\ t.callBW = s.callBW
    BY <1>5 DEF GoesOut, Leaves, Same, Leaving, Out, Fields
  <2>3. NewFrame(s, t)
    BY <2>1 DEF NewFrame, SessionTypes
  <2> QED BY <1>1, <1>4, <2>2, <2>3, SessionLeaves DEF SessionSteps
<1>6. CASE Strands(t, s) /\ s.state = "IDLE"
  <2>1. s.sid \in Station
    BY <1>2, <1>6 DEF InPhase, Joined, Calling, Confirming, Called, Stranded
  <2>2. /\ DOMAIN t = Fields /\ t.arqBW = s.arqBW /\ t.callBW = s.callBW
        /\ t.tx /\ ~t.pending /\ t.sid = FF /\ t.enc = EncodeDATAACK(s.sid)
    BY <1>6 DEF Strands, Same, Fields
  <2>3. Stranded(t) /\ ~Joined(t) /\ ~Calling(t) /\ ~Confirming(t) /\ ~Called(t)
    BY <1>6 DEF Strands, Joined, Calling, Confirming, Called, Stranded
  <2>4. t.enc.type = "ACK" /\ t.enc.id = s.sid
    BY <2>2 DEF EncodeDATAACK, Encode4FSKControl
  <2>5. InPhase(p, t) /\ Plays(p, t)
    BY <2>1, <2>2, <2>3, <2>4 DEF InPhase, Plays, SessionTypes
  <2>6. SessionStep(p, t, FALSE)
    BY <1>1, <1>4, <2>2, <2>3, <2>5 DEF SessionStep
  <2> QED BY <2>6 DEF SessionSteps
<1> QED BY <1>3, <1>5, <1>6

\* At first there is no session.
LEMMA SessionInit == Init => SessionInv
<1> SUFFICES ASSUME Init PROVE SessionInv
  OBVIOUS
<1>1. PICK bw \in Bandwidths : st = [p \in Station |-> NewStation(bw[p][1], bw[p][2])]
  BY DEF Init
<1>2. \A p \in Station : st[p].state = "DISC" /\ st[p].enc = NONE
  <2>1. \A p \in Station : st[p] = NewStation(bw[p][1], bw[p][2])
    BY <1>1
  <2>2. \A arqBW, callBW : /\ NewStation(arqBW, callBW).state = "DISC"
                          /\ NewStation(arqBW, callBW).enc = NONE
    BY DEF NewStation
  <2> QED BY <2>1, <2>2
<1>3. \A p \in Station : /\ InPhase(p, st[p]) /\ Plays(p, st[p])
                        /\ ~Called(st[p]) /\ ~Joined(st[p])
  BY <1>2 DEF InPhase, Plays, Calling, Confirming, Called, Joined, Stranded
<1>4. air = NONE
  BY DEF Init
<1> QED BY <1>3, <1>4 DEF SessionInv

\* Every step keeps the invariant of sessions.
LEMMA SessionNext == TypedInv /\ SessionInv /\ [Next]_vars => SessionInv'
<1> SUFFICES ASSUME TypedInv, SessionInv, [Next]_vars PROVE SessionInv'
  OBVIOUS
<1>1. ASSUME NEW p \in Station, SessionSteps(p)
      PROVE  SessionInv'
  BY <1>1, SessionStepKeeps DEF SessionSteps
<1>2. CASE st' = st /\ air' \in {air, NONE}
  <2>1. \A c \in Station : WidthFor(c)' = WidthFor(c)
    BY <1>2 DEF WidthFor
  <2>2. \A p \in Station : InPhase(p, st[p])' /\ Plays(p, st[p])'
    BY <1>2, <2>1 DEF SessionInv, InPhase, Plays, Calling, Confirming, Called, Joined, Stranded
  <2>3. \A p \in Station :
          /\ Called(st[p])' => ~Called(st[Peer(p)])' /\ ~Joined(st[Peer(p)])'
          /\ Joined(st[p])' /\ Joined(st[Peer(p)])' => st'[p].sid = st'[Peer(p)].sid
    BY <1>2 DEF SessionInv, Calling, Confirming, Called, Joined, Stranded
  <2>4. air' # NONE => air'.frame = st'[Peer(air'.to)].enc
    BY <1>2 DEF SessionInv
  <2> QED BY <2>2, <2>3, <2>4 DEF SessionInv
<1>3. CASE Fade \/ GoOutOfReach \/ UNCHANGED vars
  BY <1>2, <1>3 DEF Fade, GoOutOfReach, vars
<1> QED BY <1>1, <1>3, HostSession, PollSession, ReceiveSessionIRS, ReceiveSessionISS, AbortSession
        DEF Next, Receive

\* Both stations of a session have the width that IRSNegotiateBW gave the one that was called.
LEMMA SessionsAgree == TypedInv /\ SessionInv => AgreedWidth
<1> SUFFICES ASSUME TypedInv, SessionInv, \A p \in Station : InSession(p), NEW p \in Station
             PROVE  /\ st[p].bw = st[Peer(p)].bw /\ WidthOf(p) <= st[Peer(p)].bw
                    /\ st[p].sid = p /\ ~RunsOn(st[Peer(p)].arqBW, Request(st[p].arqBW, st[p].callBW)) =>
                         /\ Fits(st[p].bw, st[Peer(p)].arqBW)
                         /\ Fits(st[p].bw, Request(st[p].arqBW, st[p].callBW))
  BY DEF AgreedWidth
<1>1. PICK q \in Station : q = Peer(p) /\ p = Peer(q)
  BY TwoStations
<1>2. Joined(st[p]) /\ Joined(st[q])
  <2>1. ASSUME NEW r \in Station
        PROVE  Joined(st[r]) \/ Called(st[r])
    <3>1. st[r].connected /\ st[r].state # "DISC" /\ InPhase(r, st[r])
      BY <2>1 DEF InSession, SessionInv
    <3> QED BY <3>1 DEF InPhase, Joined, Stranded
  <2>2. Joined(st[p]) \/ Called(st[p])
    BY <2>1
  <2>3. Joined(st[q]) \/ Called(st[q])
    BY <2>1
  <2>4. /\ Called(st[p]) => ~Called(st[q]) /\ ~Joined(st[q])
        /\ Called(st[q]) => ~Called(st[p]) /\ ~Joined(st[p])
    BY <1>1 DEF SessionInv
  <2> QED BY <2>2, <2>3, <2>4
<1>3. st[p].sid = st[q].sid
  BY <1>1, <1>2 DEF SessionInv
<1>4. /\ st[p].bw = WidthFor(st[p].sid) /\ st[q].bw = st[p].bw /\ st[p].table = st[p].bw
      /\ st[p].sid \in Station
  <2>1. \A r \in Station :
          Joined(st[r]) => /\ st[r].sid \in Station
                           /\ st[r].bw = WidthFor(st[r].sid) /\ st[r].table = WidthFor(st[r].sid)
    BY DEF SessionInv, InPhase
  <2> QED BY <1>2, <1>3, <2>1
<1>5. Lasting(p, st[p]) /\ Lasting(q, st[q])
  BY <1>1 DEF TypedInv, Typed
<1>6. WidthOf(p) <= st[q].bw
  BY <1>4, <1>5, ModesFit DEF WidthOf, Lasting
<1>7. ASSUME st[p].sid = p, NEW own, NEW request, own = st[q].arqBW,
             request = Request(st[p].arqBW, st[p].callBW), ~RunsOn(own, request)
      PROVE  Fits(st[p].bw, own) /\ Fits(st[p].bw, request)
  <2>1. own \in Settings /\ request \in Settings
    BY <1>5, <1>7 DEF Lasting, Request
  <2>2. st[p].bw = IRSNegotiateBW(own, request) /\ st[p].bw \in Widths
    BY <1>1, <1>4, <1>5, <1>7 DEF WidthFor, Lasting
  <2>3. IRSNegotiateBW(own, request) # ConRejBW
    BY <2>2 DEF Widths, ConRejBW
  <2> QED BY <1>7, <2>1, <2>2, <2>3, NegotiatedFits
<1> QED BY <1>1, <1>4, <1>6, <1>7

\* AgreedWidth: two stations in a session have the same width, send nothing wider, and keep to
\* the settings of both hosts (ARQ.c, IRSNegotiateBW), whoever calls whom and how often.
THEOREM ArqAgreedWidth == Spec => []AgreedWidth
<1>1. TypedInv /\ SessionInv /\ [Next]_vars => TypedInv' /\ SessionInv'
  BY TypedNext, SessionNext
<1> QED BY TypedInit, SessionInit, <1>1, SessionsAgree, PTL DEF Spec

-----------------------------------------------------------------------------
(* Sequences of items.                                                     *)

Top(g) == IF g = <<>> THEN 0 ELSE g[Len(g)]
Above(data, g) == \A i \in 1 .. Len(data) : Top(g) < data[i]

\* A sequence over a set is one over a larger set.
LEMMA WiderSequence ==
  ASSUME NEW S, NEW T, S \subseteq T, NEW q \in Seq(S)
  PROVE  q \in Seq(T)
<1>1. Len(q) \in Nat /\ q = [i \in 1 .. Len(q) |-> q[i]] /\ \A i \in 1 .. Len(q) : q[i] \in S
  OBVIOUS
<1> QED BY <1>1

\* A part of a sequence, item by item.
LEMMA PartItems ==
  ASSUME NEW S, NEW q \in Seq(S), NEW n \in 0 .. Len(q)
  PROVE  /\ SubSeq(q, 1, n) \in Seq(S) /\ Len(SubSeq(q, 1, n)) = n
         /\ \A i \in 1 .. n : SubSeq(q, 1, n)[i] = q[i]
         /\ SubSeq(q, n + 1, Len(q)) \in Seq(S) /\ Len(SubSeq(q, n + 1, Len(q))) = Len(q) - n
         /\ \A i \in 1 .. Len(q) - n : SubSeq(q, n + 1, Len(q))[i] = q[n + i]
<1>1. Len(q) \in Nat /\ n \in Nat /\ n <= Len(q)
  OBVIOUS
<1>2. (\A i \in 1 .. n : q[i] \in S) /\ (\A i \in n + 1 .. Len(q) : q[i] \in S)
  <2>1. \A i \in 1 .. Len(q) : q[i] \in S
    OBVIOUS
  <2> QED BY <1>1, <2>1
<1>3. /\ SubSeq(q, 1, n) \in Seq(S)
      /\ Len(SubSeq(q, 1, n)) = IF 1 <= n THEN n - 1 + 1 ELSE 0
      /\ \A i \in 1 .. n - 1 + 1 : SubSeq(q, 1, n)[i] = q[1 + i - 1]
  BY <1>1, <1>2, SubSeqProperties
<1>4. /\ SubSeq(q, n + 1, Len(q)) \in Seq(S)
      /\ Len(SubSeq(q, n + 1, Len(q))) = IF n + 1 <= Len(q) THEN Len(q) - (n + 1) + 1 ELSE 0
      /\ \A i \in 1 .. Len(q) - (n + 1) + 1 : SubSeq(q, n + 1, Len(q))[i] = q[n + 1 + i - 1]
  BY <1>1, <1>2, SubSeqProperties
<1>5. \A i \in 1 .. n : SubSeq(q, 1, n)[i] = q[i]
  BY <1>1, <1>3
<1>6. \A i \in 1 .. Len(q) - n : SubSeq(q, n + 1, Len(q))[i] = q[n + i]
  <2> SUFFICES ASSUME NEW i \in 1 .. Len(q) - n
               PROVE  SubSeq(q, n + 1, Len(q))[i] = q[n + i]
    OBVIOUS
  <2>1. i \in 1 .. Len(q) - (n + 1) + 1 /\ n + 1 + i - 1 = n + i
    BY <1>1
  <2> QED BY <1>4, <2>1
<1> QED BY <1>1, <1>3, <1>4, <1>5, <1>6

\* What a host has got when d arrives after g.
MadeOf(h, g, d) ==
  /\ h \in Seq(Nat)
  /\ \A i \in 1 .. Len(h) : (i \in 1 .. Len(g) /\ h[i] = g[i]) \/ \E k \in 1 .. Len(d) : h[i] = d[k]
  /\ \A k \in 1 .. Len(d) : \E i \in 1 .. Len(h) : h[i] = d[k]
  /\ d = <<>> => h = g
  /\ d # <<>> => Top(h) = d[Len(d)] /\ Len(d) \in Nat \ {0}

\* The items of two sequences one after the other.
LEMMA MoreItems ==
  ASSUME NEW g \in Seq(Nat), NEW d \in Seq(Nat)
  PROVE  MadeOf(g \o d, g, d)
<1>1. Len(g) \in Nat /\ Len(d) \in Nat
  OBVIOUS
<1>2. /\ g \o d \in Seq(Nat) /\ Len(g \o d) = Len(g) + Len(d)
      /\ \A i \in 1 .. Len(g) + Len(d) : (g \o d)[i] = IF i <= Len(g) THEN g[i] ELSE d[i - Len(g)]
  BY ConcatProperties
<1>3. \A i \in 1 .. Len(g) : (g \o d)[i] = g[i]
  BY <1>1, <1>2
<1>4. \A i \in 1 .. Len(d) : (g \o d)[Len(g) + i] = d[i]
  <2> SUFFICES ASSUME NEW i \in 1 .. Len(d) PROVE (g \o d)[Len(g) + i] = d[i]
    OBVIOUS
  <2>1. Len(g) + i \in 1 .. Len(g) + Len(d) /\ ~(Len(g) + i <= Len(g)) /\ (Len(g) + i) - Len(g) = i
    BY <1>1
  <2> QED BY <1>2, <2>1
<1>5. d = <<>> => g \o d = g
  BY ConcatEmptySeq
<1>6. ASSUME d # <<>> PROVE Top(g \o d) = d[Len(d)] /\ Len(d) \in Nat \ {0}
  <2>1. Len(d) \in Nat \ {0}
    BY <1>6, EmptySeq
  <2>2. g \o d # <<>> /\ Len(g \o d) = Len(g) + Len(d)
    BY <1>1, <1>2, <2>1
  <2>3. (g \o d)[Len(g) + Len(d)] = d[Len(d)]
    BY <1>4, <2>1
  <2> QED BY <2>1, <2>2, <2>3 DEF Top
<1>7. \A k \in 1 .. Len(d) : \E i \in 1 .. Len(g \o d) : (g \o d)[i] = d[k]
  <2> SUFFICES ASSUME NEW k \in 1 .. Len(d) PROVE \E i \in 1 .. Len(g \o d) : (g \o d)[i] = d[k]
    OBVIOUS
  <2>1. Len(g) + k \in 1 .. Len(g) + Len(d)
    BY <1>1
  <2> QED BY <1>2, <1>4, <2>1
<1>8. ASSUME NEW i \in 1 .. Len(g \o d)
      PROVE  \/ i \in 1 .. Len(g) /\ (g \o d)[i] = g[i]
             \/ \E k \in 1 .. Len(d) : (g \o d)[i] = d[k]
  <2>1. i \in 1 .. Len(g) + Len(d)
    BY <1>2
  <2>2. CASE i <= Len(g)
    <3>1. i \in 1 .. Len(g)
      BY <1>1, <2>1, <2>2
    <3> QED BY <1>3, <3>1
  <2>3. CASE ~(i <= Len(g))
    <3>1. i - Len(g) \in 1 .. Len(d)
      BY <1>1, <2>1, <2>3
    <3> QED BY <1>2, <2>1, <2>3, <3>1
  <2> QED BY <2>2, <2>3
<1> QED BY <1>2, <1>5, <1>6, <1>7, <1>8 DEF MadeOf

-----------------------------------------------------------------------------
(* Where the data is.                                                      *)

Sending(s) == s.state = "ISS" /\ s.sub = "ISSData"
Played(s, types) == s.enc # NONE /\ s.enc.type \in types

\* Station r takes a data frame with this parity for a new one.
Fresh(r, par) == r.toHost = NONE \/ r.toHost[2] # par

\* A data frame that station r has not taken yet, and one that it took last.
Coming(f, r) == Fresh(r, f.par) /\ Above(f.data, r.got)
Came(f, r) ==
  /\ r.toHost = FrameType(f)
  /\ \A i \in 1 .. Len(f.data) : f.data[i] \in {r.got[j] : j \in 1 .. Len(r.got)}

\* The last frame that s played is a data frame f: its items are those that come next in the
\* queue as long as s sends, and come before those of the queue when it does not any more.
InFront(s, f, r) ==
  /\ ~s.discRpt /\ s.sentData /\ s.sent = f.par /\ f.par = 1 - s.acked
  /\ s.inProcess = Len(f.data) /\ s.inProcess <= Len(s.queue)
  /\ \A i \in 1 .. s.inProcess : f.data[i] = s.queue[i]
  /\ \A i \in s.inProcess + 1 .. Len(s.queue) : Top(r.got) < s.queue[i]
Carried(s, f, r) ==
  /\ \A i \in 1 .. Len(f.data) : f.data[i] = f.data[1] + i - 1 /\ f.data[i] \in 1 .. s.given
  /\ Coming(f, r) \/ Came(f, r)
  /\ Sending(s) => InFront(s, f, r)
  /\ ~Sending(s) => \A i \in 1 .. Len(f.data), j \in 1 .. Len(s.queue) : f.data[i] < s.queue[j]

\* What is true of a station alone.
Consistent(p, s) ==
  /\ s.got \in Seq(Nat) /\ s.toHost \in (Nat \X {0, 1}) \cup {NONE}
  /\ s.state = "IRS" => /\ s.lastAcked = s.toHost /\ ~s.rpt /\ ~Played(s, {"DATA", "IDLE"})
                        /\ Played(s, {"ConAck"}) \/ s.sub = "IRSConAck" => s.toHost = NONE
  /\ Played(s, {"NAK"}) => s.state \in {"IRS", "DISC"}
  /\ Played(s, {"ConAck"}) => s.enc.id = p \/ s.toHost = NONE
  /\ Played(s, {"ID", "ConReq"}) => s.enc.id = FF
  /\ Sending(s) /\ ~s.discRpt => Played(s, {"DATA", "ID"})

\* What is true of the items that s has to bring to r.
Owes(s, r) ==
  /\ \A i \in 1 .. Len(r.got) : r.got[i] \in 1 .. s.given
  /\ \A i \in 1 .. Len(s.queue) : s.queue[i] = s.given - Len(s.queue) + i
  /\ ~Sending(s) => Above(s.queue, r.got)
  /\ Played(s, {"DATA"}) => Carried(s, s.enc, r)
  /\ s.state \in {"IDLE", "IRStoISS"} \/ Confirming(s) => ~Played(s, {"DATA"})
  /\ s.state = "IDLE" => Fresh(r, 1 - s.acked)
  /\ Confirming(s) \/ (s.state = "IRStoISS" /\ r.state = "IRS") => r.toHost = NONE

\* What a frame f on its way from r to s says.
Told(s, r, f) ==
  /\ f.type \in {"ConAck", "IDLE", "BREAK"} => ~Sending(r)
  /\ f.type = "ACK" => /\ s.state = "IRStoISS" => r.toHost = NONE
                       /\ Sending(s) => Played(s, {"DATA"}) /\ Came(s.enc, r)
  /\ f.type = "NAK" => (Sending(s) => Played(s, {"DATA"}) /\ Coming(s.enc, r))

DataInv ==
  /\ \A p \in Station : Consistent(p, st[p]) /\ Owes(st[p], st[Peer(p)])
  /\ air # NONE => Told(st[air.to], st[Peer(air.to)], air.frame)

\* What a step may do as far as the hosts can see.
Unseen(s, t) == t.given = s.given /\ t.got = s.got /\ t.confirmed = s.confirmed
Gives(s, t) == t.given = s.given + 1 /\ t.got = s.got /\ t.confirmed = s.confirmed
Delivers(s, t, r) ==
  /\ t.given = s.given /\ t.confirmed = s.confirmed
  /\ \E data \in Seq(Nat) :
       /\ t.got = s.got \o data /\ Above(data, s.got)
       /\ \A i \in 1 .. Len(data) : data[i] = data[1] + i - 1 /\ data[i] \in 1 .. r.given
Confirms(s, t, r) ==
  /\ t.given = s.given /\ t.got = s.got
  /\ \E items \in SUBSET {r.got[i] : i \in 1 .. Len(r.got)} : t.confirmed = s.confirmed \cup items

\* What every step has to respect.
DataStep(p, t, heard) ==
  LET s == st[p] r == st[Peer(p)] IN
  /\ Moved(p, t, heard) /\ DOMAIN t = Fields
  /\ Unseen(s, t) \/ Gives(s, t) \/ Delivers(s, t, r) \/ Confirms(s, t, r)
  /\ Consistent(p, t) /\ Owes(t, r) /\ Owes(r, t)
  /\ t.tx => Told(r, t, t.enc)
  /\ ~t.tx /\ ~heard /\ air # NONE =>
       /\ air.to = p => Told(t, r, air.frame)
       /\ air.to # p => Told(r, t, air.frame)

\* Such steps keep the invariant.
LEMMA DataStepKeeps ==
  ASSUME TypedInv, DataInv, NEW p \in Station, NEW t, NEW heard \in BOOLEAN, DataStep(p, t, heard)
  PROVE  DataInv'
<1>1. PICK q \in Station : q = Peer(p) /\ p = Peer(q) /\ p # q /\ \A x \in Station : x = p \/ x = q
  BY TwoStations
<1>2. PICK u : u = [t EXCEPT !.tx = FALSE]
  OBVIOUS
<1>3. DOMAIN u = Fields /\ \A x \in Fields \ {"tx"} : u[x] = t[x]
  BY <1>2 DEF DataStep, Fields
<1>4. DOMAIN st' = Station /\ st'[p] = u /\ st'[q] = st[q]
  BY <1>1, <1>2 DEF DataStep, Moved, TypedInv
<1>5. /\ u.state = t.state /\ u.sub = t.sub /\ u.discRpt = t.discRpt /\ u.queue = t.queue
      /\ u.given = t.given /\ u.got = t.got /\ u.toHost = t.toHost /\ u.lastAcked = t.lastAcked
      /\ u.sentData = t.sentData /\ u.sent = t.sent /\ u.acked = t.acked
      /\ u.inProcess = t.inProcess /\ u.enc = t.enc /\ u.rpt = t.rpt
  BY <1>3 DEF Fields
<1>6. Consistent(p, u) /\ Consistent(q, st[q])
  BY <1>1, <1>5 DEF DataStep, DataInv, Consistent, Played, Sending
<1>7. Sending(u) = Sending(t) /\ Confirming(u) = Confirming(t) /\ \A X : Played(u, X) = Played(t, X)
  BY <1>5 DEF Sending, Confirming, Played
<1>8. /\ \A f, r : InFront(u, f, r) = InFront(t, f, r)
      /\ \A f : Coming(f, u) = Coming(f, t) /\ Came(f, u) = Came(f, t)
  BY <1>5 DEF InFront, Coming, Came, Fresh
<1>9. \A s, f : InFront(s, f, u) = InFront(s, f, t)
  BY <1>5 DEF InFront
<1>10. Owes(u, st[q]) /\ Owes(st[q], u)
  <2>1. \A f, r : Carried(u, f, r) = Carried(t, f, r)
    BY <1>5, <1>7, <1>8 DEF Carried
  <2>2. \A s, f : Carried(s, f, u) = Carried(s, f, t)
    BY <1>8, <1>9 DEF Carried
  <2> QED BY <1>1, <1>5, <1>7, <2>1, <2>2 DEF DataStep, Owes, Fresh
<1>11. \A f : Told(u, st[q], f) = Told(t, st[q], f) /\ Told(st[q], u, f) = Told(st[q], t, f)
  BY <1>5, <1>7, <1>8 DEF Told
<1>12. air' # NONE => Told(st'[air'.to], st'[Peer(air'.to)], air'.frame)
  <2>1. CASE t.tx
    <3>1. air' = [to |-> q, frame |-> t.enc]
      BY <1>1, <2>1 DEF DataStep, Moved
    <3> QED BY <1>1, <1>4, <1>11, <2>1, <3>1 DEF DataStep
  <2>2. CASE ~t.tx /\ heard
    BY <2>2 DEF DataStep, Moved
  <2>3. CASE ~t.tx /\ ~heard
    <3>1. air' = air /\ (air # NONE => air.to \in Station)
      BY <2>3 DEF DataStep, Moved, TypedInv
    <3> QED BY <1>1, <1>4, <1>11, <2>3, <3>1 DEF DataStep
  <2> QED BY <2>1, <2>2, <2>3
<1>13. \A x \in Station : /\ Consistent(x, st'[x]) /\ Owes(st'[x], st'[Peer(x)])
  BY <1>1, <1>4, <1>6, <1>10
<1>14. ASSUME NEW x \in Station
       PROVE  Consistent(x, st[x])' /\ Owes(st[x], st[Peer(x)])'
  BY <1>13 DEF Consistent, Owes, Carried, InFront, Coming, Came, Fresh, Played, Sending, Confirming
<1> QED BY <1>12, <1>14
        DEF DataInv, Told, Coming, Came, Fresh, Played, Sending

\* Frames that neither carry data nor answer any.
Plain(f) ==
  /\ f # NONE
  /\ f.type \in {"DISC", "END", "ConRejBusy", "ConRejBW"} \/ (f.type = "ID" /\ f.id = FF)

\* What r owes does not change as long as the other station takes nothing, and stays IRS or not.
LEMMA OwedAsBefore ==
  ASSUME NEW r, NEW s, NEW t, Owes(r, s), t.got = s.got,
         \/ t.toHost = s.toHost /\ (t.state = "IRS" => s.state = "IRS")
         \/ t.toHost = NONE /\ ~Played(r, {"DATA"})
  PROVE  Owes(r, t)
<1>1. Fresh(s, 1 - r.acked) => Fresh(t, 1 - r.acked)
  BY DEF Fresh
<1>2. Played(r, {"DATA"}) => Carried(r, r.enc, t)
  <2> SUFFICES ASSUME Played(r, {"DATA"}) PROVE Carried(r, r.enc, t)
    OBVIOUS
  <2>1. Carried(r, r.enc, s) /\ t.toHost = s.toHost
    BY DEF Owes
  <2> QED BY <2>1 DEF Carried, InFront, Coming, Came, Fresh
<1> QED BY <1>1, <1>2 DEF Owes

\* A station that does not send and has lost its queue, or did not send before.
LEMMA OwesQuiet ==
  ASSUME NEW s, NEW t, NEW r, Owes(s, r), t.given = s.given,
         ~Sending(t), ~Confirming(t), t.state # "IDLE",
         t.state = "IRStoISS" => ~Played(t, {"DATA"}) /\ (r.state = "IRS" => r.toHost = NONE),
         t.queue = <<>> \/ (t.queue = s.queue /\ ~Sending(s)),
         t.enc = s.enc \/ ~Played(t, {"DATA"})
  PROVE  Owes(t, r)
<1>1. \A i \in 1 .. Len(t.queue) : t.queue[i] = t.given - Len(t.queue) + i
  BY DEF Owes
<1>2. Above(t.queue, r.got)
  BY DEF Owes, Above
<1>3. ASSUME Played(t, {"DATA"}) PROVE Carried(t, t.enc, r)
  <2>1. t.enc = s.enc /\ Carried(s, s.enc, r)
    BY <1>3 DEF Owes, Played
  <2>2. \A i \in 1 .. Len(t.enc.data), j \in 1 .. Len(t.queue) : t.enc.data[i] < t.queue[j]
    BY <2>1 DEF Carried
  <2> QED BY <2>1, <2>2 DEF Carried
<1> QED BY <1>1, <1>2, <1>3 DEF Owes

\* What the frame in the air says stays true when the station that it may reach stops sending,
\* and when the station it is from does not begin to send, and takes nothing.
LEMMA ToldAsBefore ==
  ASSUME NEW s, NEW t, NEW r, NEW f,
         t.got = s.got, t.toHost = s.toHost,
         Sending(t) => Sending(s) /\ t.enc = s.enc,
         t.state = "IRStoISS" => s.state = "IRStoISS"
  PROVE  (Told(s, r, f) => Told(t, r, f)) /\ (Told(r, s, f) => Told(r, t, f))
<1>1. Played(s, {"DATA"}) /\ t.enc = s.enc => Played(t, {"DATA"})
  BY DEF Played
<1>2. ASSUME NEW g PROVE Came(g, t) = Came(g, s) /\ Coming(g, t) = Coming(g, s)
  BY DEF Came, Coming, Fresh
<1> QED BY <1>1, <1>2 DEF Told

\* A station that plays nothing, or a plain frame.
PlaysPlain(s, t) == (t.enc = s.enc /\ ~t.tx) \/ (Plain(t.enc) /\ t.tx)

\* A station that goes to DISC.
LEMMA LeavesData ==
  ASSUME TypedInv, DataInv, NEW p \in Station, NEW t, NEW heard \in BOOLEAN, Moved(p, t, heard),
         Leaves(t, st[p], {"abort", "rpt", "discRpt", "repeats", "lastSid", "idTimer", "enc", "tx",
                           "sendTimer", "timedOut"}),
         PlaysPlain(st[p], t)
  PROVE  DataStep(p, t, heard)
<1>0. (t.enc = st[p].enc /\ ~t.tx) \/ (Plain(t.enc) /\ t.tx)
  BY DEF PlaysPlain
<1>1. PICK s, r : s = st[p] /\ r = st[Peer(p)] /\ Peer(p) \in Station /\ st[Peer(Peer(p))] = s
  BY TwoStations
<1>2. /\ DOMAIN t = Fields /\ t.state = "DISC" /\ t.queue = <<>> /\ t.given = s.given
      /\ t.got = s.got /\ t.confirmed = s.confirmed /\ t.toHost = s.toHost
  BY <1>1 DEF Leaves, Leaving, Same, Fields
<1>3. /\ Consistent(p, s) /\ Owes(s, r) /\ Owes(r, s)
      /\ air # NONE => /\ air.to = p => Told(s, r, air.frame)
                       /\ air.to # p => Told(r, s, air.frame)
  BY <1>1, TwoStations DEF DataInv, TypedInv
<1>4. ~Sending(t) /\ ~Confirming(t) /\ (~Played(t, {"DATA"}) \/ t.enc = s.enc)
  BY <1>0, <1>1, <1>2 DEF Sending, Confirming, Played, Plain
<1>5. Consistent(p, t)
  BY <1>0, <1>1, <1>2, <1>3, <1>4 DEF Consistent, Played, Plain
<1>6. Owes(t, r) /\ Owes(r, t)
  BY <1>2, <1>3, <1>4, OwesQuiet, OwedAsBefore
<1>7. t.tx => Told(r, t, t.enc)
  BY <1>0 DEF Told, Plain
<1>8. \A f : (Told(s, r, f) => Told(t, r, f)) /\ (Told(r, s, f) => Told(r, t, f))
  BY <1>2, <1>4, ToldAsBefore
<1>9. Unseen(s, t)
  BY <1>2 DEF Unseen
<1> QED BY <1>1, <1>2, <1>3, <1>5, <1>6, <1>7, <1>8, <1>9 DEF DataStep

\* The fields that have to do with data, but for the frame that was played.
DataFields ==
  {"state", "sub", "queue", "given", "got", "confirmed", "toHost", "lastAcked", "sentData", "sent",
   "acked", "inProcess"}

\* A station that leaves them alone, and plays a plain frame, or the last one if it repeats.
LEMMA StaysData ==
  ASSUME TypedInv, SenderInv, DataInv, NEW p \in Station, NEW t, NEW heard \in BOOLEAN,
         Moved(p, t, heard), DOMAIN t = Fields, \A x \in DataFields : t[x] = st[p][x],
         t.state = "IRS" /\ t.rpt => st[p].rpt,
         \/ t.enc = st[p].enc /\ t.discRpt = st[p].discRpt
         \/ t.tx /\ Plain(t.enc) /\ (Sending(t) => t.discRpt \/ t.enc.type = "ID"),
         t.tx /\ t.enc = st[p].enc /\ ~Plain(t.enc) => st[p].rpt /\ ~st[p].discRpt /\ st[p].state # "DISC"
  PROVE  DataStep(p, t, heard)
<1>1. PICK s, r : s = st[p] /\ r = st[Peer(p)] /\ Peer(p) \in Station /\ st[Peer(Peer(p))] = s
  BY TwoStations
<1>2. /\ t.state = s.state /\ t.sub = s.sub /\ t.queue = s.queue /\ t.given = s.given
      /\ t.got = s.got /\ t.confirmed = s.confirmed /\ t.toHost = s.toHost
      /\ t.lastAcked = s.lastAcked /\ t.sentData = s.sentData /\ t.sent = s.sent
      /\ t.acked = s.acked /\ t.inProcess = s.inProcess
  BY <1>1 DEF DataFields
<1>3. /\ Consistent(p, s) /\ Owes(s, r) /\ Owes(r, s)
      /\ air # NONE => /\ air.to = p => Told(s, r, air.frame)
                       /\ air.to # p => Told(r, s, air.frame)
  BY <1>1, TwoStations DEF DataInv, TypedInv
<1>4. Sending(t) = Sending(s) /\ Confirming(t) = Confirming(s)
  BY <1>2 DEF Sending, Confirming
<1>5. Consistent(p, t)
  BY <1>1, <1>2, <1>3, <1>4 DEF Consistent, Played, Plain
<1>6. Owes(t, r)
  <2>1. ASSUME Played(t, {"DATA"})
        PROVE  Played(s, {"DATA"}) /\ Carried(t, t.enc, r)
    <3>1. t.enc = s.enc /\ t.discRpt = s.discRpt /\ Played(s, {"DATA"})
      BY <1>1, <2>1 DEF Played, Plain
    <3> QED BY <1>2, <1>3, <1>4, <3>1 DEF Owes, Carried, InFront
  <2> QED BY <1>2, <1>3, <1>4, <2>1 DEF Owes
<1>7. Owes(r, t)
  BY <1>2, <1>3, OwedAsBefore
<1>8. t.tx => Told(r, t, t.enc)
  <2> SUFFICES ASSUME t.tx, ~Plain(t.enc) PROVE Told(r, t, t.enc)
    BY DEF Told, Plain
  <2>1. t.enc = s.enc /\ s.rpt /\ ~s.discRpt /\ s.state # "DISC"
    BY <1>1
  <2>2. s.enc # NONE /\ Repeats(s)
    BY <1>1, <2>1 DEF TypedInv, Typed, SenderInv
  <2>3. s.enc.type \notin {"ACK", "NAK"}
    BY <1>3, <2>1, <2>2 DEF Consistent, Repeats, Played
  <2>4. Sending(s) => s.enc.type \in {"DATA", "ID"}
    BY <1>3, <2>1 DEF Consistent, Played
  <2> QED BY <1>4, <2>1, <2>3, <2>4 DEF Told
<1>9. ~t.tx => \A f : (Told(s, r, f) => Told(t, r, f)) /\ (Told(r, s, f) => Told(r, t, f))
  BY <1>1, <1>2, <1>4, ToldAsBefore
<1>10. Unseen(s, t)
  BY <1>2 DEF Unseen
<1> QED BY <1>1, <1>3, <1>5, <1>6, <1>7, <1>8, <1>9, <1>10 DEF DataStep

\* Control frames of these types are plain.
LEMMA PlainFrames ==
  ASSUME NEW id \in Station \cup {FF, NONE}
  PROVE  /\ \A type \in {"DISC", "END", "ConRejBusy", "ConRejBW"} : Plain(Encode4FSKControl(type, id))
         /\ Plain(Encode4FSKIDFrame) /\ Encode4FSKIDFrame.type = "ID"
<1>1. \A type \in {"DISC", "END", "ConRejBusy", "ConRejBW"} : Encode4FSKControl(type, id) # NONE
  BY ControlFrames, FramesAreThere
<1>2. Encode4FSKIDFrame # NONE
  BY ControlFrames, FramesAreThere
<1>3. /\ \A type : Encode4FSKControl(type, id).type = type
      /\ Encode4FSKIDFrame.type = "ID" /\ Encode4FSKIDFrame.id = FF
  BY DEF Encode4FSKControl, Encode4FSKIDFrame
<1> QED BY <1>1, <1>2, <1>3 DEF Plain

\* Steps of station p that respect what the data needs.
DataSteps(p) == \E t : \E heard \in BOOLEAN : DataStep(p, t, heard)

\* The host gives the station one more item.
LEMMA GiveDataStep ==
  ASSUME TypedInv, DataInv, NEW p \in Station, GiveData(p)
  PROVE  DataSteps(p)
<1>1. PICK s, r : s = st[p] /\ r = st[Peer(p)] /\ Peer(p) \in Station /\ st[Peer(Peer(p))] = s
  BY TwoStations
<1>2. PICK n, t : /\ n = s.given + 1 /\ t = [s EXCEPT !.given = n, !.queue = Append(s.queue, n)]
                  /\ Change(p, t)
  BY <1>1 DEF GiveData
<1>3. /\ DOMAIN s = Fields /\ s.given \in Nat /\ s.queue \in Seq(Nat) /\ Len(s.queue) <= s.given /\ ~s.tx
  <2>1. Typed(p, s) /\ Lasting(p, s) /\ ~s.tx
    BY <1>1 DEF TypedInv, Typed
  <2>2. MaxItems[p] \in Nat
    BY ArqAssumption
  <2>3. s.queue \in Seq(1 .. MaxItems[p]) /\ 1 .. MaxItems[p] \subseteq Nat
    BY <2>1, <2>2 DEF Typed
  <2> QED BY <2>1, <2>2, <2>3 DEF Typed, Lasting
<1>4. /\ Same(t, s, {"given", "queue"}) /\ t.given = n /\ t.queue = Append(s.queue, n)
      /\ ~t.tx
  BY <1>2, <1>3 DEF Same, Fields
<1>5. /\ t.state = s.state /\ t.sub = s.sub /\ t.discRpt = s.discRpt /\ t.got = s.got
      /\ t.confirmed = s.confirmed /\ t.toHost = s.toHost /\ t.lastAcked = s.lastAcked
      /\ t.sentData = s.sentData /\ t.sent = s.sent /\ t.acked = s.acked
      /\ t.inProcess = s.inProcess /\ t.enc = s.enc /\ t.rpt = s.rpt
  BY <1>4 DEF Same, Fields
<1>6. /\ Consistent(p, s) /\ Owes(s, r) /\ Owes(r, s)
      /\ air # NONE => /\ air.to = p => Told(s, r, air.frame)
                       /\ air.to # p => Told(r, s, air.frame)
  BY <1>1, TwoStations DEF DataInv, TypedInv
<1>7. /\ Sending(t) = Sending(s) /\ Confirming(t) = Confirming(s)
      /\ \A X : Played(t, X) = Played(s, X)
  BY <1>5 DEF Sending, Confirming, Played
<1>8. Consistent(p, t)
  BY <1>5, <1>6, <1>7 DEF Consistent
<1>9. /\ Len(t.queue) = Len(s.queue) + 1 /\ t.queue[Len(s.queue) + 1] = n
      /\ \A i \in 1 .. Len(s.queue) : t.queue[i] = s.queue[i]
  BY <1>2, <1>3, <1>4
<1>10. Len(s.queue) \in Nat
  BY <1>3
<1>11. Top(r.got) < n
  <2>1. r.got \in Seq(Nat)
    BY <1>1 DEF DataInv, Consistent
  <2>2. \A i \in 1 .. Len(r.got) : r.got[i] \in 1 .. s.given
    BY <1>6 DEF Owes
  <2>3. CASE r.got = <<>>
    BY <1>2, <1>3, <2>3 DEF Top
  <2>4. CASE r.got # <<>>
    <3>1. Len(r.got) \in 1 .. Len(r.got)
      BY <2>1, <2>4, EmptySeq
    <3>2. r.got[Len(r.got)] \in 1 .. s.given
      BY <2>2, <3>1
    <3> QED BY <1>2, <1>3, <2>4, <3>2 DEF Top
  <2> QED BY <2>3, <2>4
<1>12. \A i \in 1 .. Len(t.queue) : t.queue[i] = t.given - Len(t.queue) + i
  <2> SUFFICES ASSUME NEW i \in 1 .. Len(t.queue) PROVE t.queue[i] = t.given - Len(t.queue) + i
    OBVIOUS
  <2>1. CASE i \in 1 .. Len(s.queue)
    <3>1. s.queue[i] = s.given - Len(s.queue) + i
      BY <1>6, <2>1 DEF Owes
    <3> QED BY <1>2, <1>3, <1>4, <1>9, <1>10, <2>1, <3>1
  <2>2. CASE i = Len(s.queue) + 1
    BY <1>2, <1>3, <1>4, <1>9, <1>10, <2>2
  <2> QED BY <1>9, <1>10, <2>1, <2>2
<1>13. ASSUME NEW i \in 1 .. Len(t.queue)
       PROVE  (i \in 1 .. Len(s.queue) /\ t.queue[i] = s.queue[i]) \/ t.queue[i] = n
  BY <1>9, <1>10, <1>13
<1>14. Above(s.queue, r.got) => Above(t.queue, r.got)
  BY <1>11, <1>13 DEF Above
<1>15. ASSUME NEW f, Carried(s, f, r) PROVE Carried(t, f, r)
  <2>1. \A i \in 1 .. Len(f.data) : /\ f.data[i] = f.data[1] + i - 1 /\ f.data[i] \in 1 .. n
                                     /\ f.data[i] < n
    BY <1>2, <1>3, <1>15 DEF Carried
  <2>2. InFront(s, f, r) => InFront(t, f, r)
    <3> SUFFICES ASSUME InFront(s, f, r) PROVE InFront(t, f, r)
      OBVIOUS
    <3>1. /\ s.inProcess <= Len(t.queue)
          /\ \A i \in 1 .. s.inProcess : f.data[i] = t.queue[i]
      <4>1. s.inProcess \in Nat
        BY <1>1 DEF TypedInv, Typed, Lasting
      <4> QED BY <1>9, <1>10, <4>1 DEF InFront
    <3>2. \A i \in s.inProcess + 1 .. Len(t.queue) : Top(r.got) < t.queue[i]
      <4>1. s.inProcess \in Nat
        BY <1>1 DEF TypedInv, Typed, Lasting
      <4>2. ASSUME NEW i \in s.inProcess + 1 .. Len(t.queue), i \in 1 .. Len(s.queue)
            PROVE  Top(r.got) < s.queue[i]
        BY <4>2, <4>1, <1>10 DEF InFront
      <4>3. ASSUME NEW i \in s.inProcess + 1 .. Len(t.queue)
            PROVE  i \in 1 .. Len(t.queue)
        BY <4>1, <4>3, <1>9, <1>10
      <4> QED BY <1>11, <1>13, <4>2, <4>3
    <3> QED BY <1>5, <3>1, <3>2 DEF InFront
  <2>3. (\A i \in 1 .. Len(f.data), j \in 1 .. Len(s.queue) : f.data[i] < s.queue[j])
          => \A i \in 1 .. Len(f.data), j \in 1 .. Len(t.queue) : f.data[i] < t.queue[j]
    BY <1>13, <2>1
  <2> QED BY <1>4, <1>7, <1>15, <2>1, <2>2, <2>3 DEF Carried
<1>16. Owes(t, r)
  <2>1. \A i \in 1 .. Len(r.got) : r.got[i] \in 1 .. t.given
    BY <1>2, <1>3, <1>4, <1>6 DEF Owes
  <2> QED BY <1>5, <1>6, <1>7, <1>12, <1>14, <1>15, <2>1 DEF Owes
<1>17. Owes(r, t)
  BY <1>5, <1>6, OwedAsBefore
<1>18. \A f : (Told(s, r, f) => Told(t, r, f)) /\ (Told(r, s, f) => Told(r, t, f))
  BY <1>5, <1>7, ToldAsBefore
<1>19. Gives(s, t) /\ Moved(p, t, FALSE)
  BY <1>2, <1>4, <1>5, ChangeMoves DEF Gives
<1>20. DOMAIN t = Fields
  BY <1>4 DEF Same
<1>21. DataStep(p, t, FALSE)
  BY <1>1, <1>4, <1>6, <1>8, <1>16, <1>17, <1>18, <1>19, <1>20 DEF DataStep
<1> QED BY <1>21 DEF DataSteps

\* A station that does not send, and goes to DISC or calls without clearing its queue.
LEMMA CallsData ==
  ASSUME TypedInv, DataInv, NEW p \in Station, NEW t, Moved(p, t, FALSE), ~Sending(st[p]),
         Same(t, st[p], {"sid", "lastAcked", "bw", "abort", "state", "sub", "repeats", "psid",
                         "pending", "connected", "rpt", "needCall", "pendTimer", "enc", "tx"}),
         \/ t.state = "DISC" /\ t.enc = st[p].enc /\ ~t.tx
         \/ Calling(t) /\ t.enc # NONE /\ t.enc.type = "ConReq" /\ t.enc.id = FF /\ t.tx
  PROVE  DataStep(p, t, FALSE)
<1>1. PICK s, r : s = st[p] /\ r = st[Peer(p)] /\ Peer(p) \in Station /\ st[Peer(Peer(p))] = s
  BY TwoStations
<1>2. /\ DOMAIN t = Fields /\ t.queue = s.queue /\ t.given = s.given
      /\ t.got = s.got /\ t.confirmed = s.confirmed /\ t.toHost = s.toHost
  BY <1>1 DEF Same, Fields
<1>3. /\ Consistent(p, s) /\ Owes(s, r) /\ Owes(r, s) /\ ~s.tx
      /\ air # NONE => /\ air.to = p => Told(s, r, air.frame)
                       /\ air.to # p => Told(r, s, air.frame)
  BY <1>1, TwoStations DEF DataInv, TypedInv
<1>4. ~Sending(t) /\ ~Confirming(t) /\ (~Played(t, {"DATA"}) \/ t.enc = s.enc)
  BY <1>1, <1>2 DEF Sending, Confirming, Calling, Played
<1>5. Consistent(p, t)
  <2>1. CASE t.enc = s.enc /\ t.state = "DISC"
    BY <1>1, <1>2, <1>3, <1>4, <2>1 DEF Consistent, Played, Calling
  <2>2. CASE t.enc # NONE /\ t.enc.type = "ConReq" /\ t.enc.id = FF
    BY <1>1, <1>2, <1>3, <1>4, <2>2 DEF Consistent, Played, Calling
  <2> QED BY <1>1, <2>1, <2>2
<1>6. Owes(t, r) /\ Owes(r, t)
  BY <1>1, <1>2, <1>3, <1>4, OwesQuiet, OwedAsBefore DEF Calling
<1>7. t.tx => Told(r, t, t.enc)
  BY <1>1, <1>3 DEF Told
<1>8. \A f : (Told(s, r, f) => Told(t, r, f)) /\ (Told(r, s, f) => Told(r, t, f))
  BY <1>2, <1>4, ToldAsBefore DEF Calling
<1>9. Unseen(s, t)
  BY <1>2 DEF Unseen
<1> QED BY <1>1, <1>2, <1>3, <1>5, <1>6, <1>7, <1>8, <1>9 DEF DataStep

\* A station that does not send throws its queue away.
LEMMA PurgesData ==
  ASSUME TypedInv, DataInv, NEW p \in Station, ~Sending(st[p]), Change(p, ClearDataToSend(st[p]))
  PROVE  DataSteps(p)
<1>1. PICK s, r : s = st[p] /\ r = st[Peer(p)] /\ Peer(p) \in Station /\ st[Peer(Peer(p))] = s
  BY TwoStations
<1>2. PICK t : t = ClearDataToSend(s) /\ Change(p, t)
  BY <1>1
<1>3. DOMAIN s = Fields /\ ~s.tx
  BY <1>1 DEF TypedInv, Typed
<1>4. /\ DOMAIN t = Fields /\ t.queue = <<>> /\ ~t.tx
      /\ t.state = s.state /\ t.sub = s.sub /\ t.discRpt = s.discRpt /\ t.got = s.got
      /\ t.confirmed = s.confirmed /\ t.toHost = s.toHost /\ t.lastAcked = s.lastAcked
      /\ t.given = s.given /\ t.acked = s.acked /\ t.enc = s.enc /\ t.rpt = s.rpt
  BY <1>2, <1>3 DEF ClearDataToSend, Fields
<1>5. /\ Consistent(p, s) /\ Owes(s, r) /\ Owes(r, s)
      /\ air # NONE => /\ air.to = p => Told(s, r, air.frame)
                       /\ air.to # p => Told(r, s, air.frame)
  BY <1>1, TwoStations DEF DataInv, TypedInv
<1>6. /\ ~Sending(t) /\ ~Sending(s) /\ Confirming(t) = Confirming(s)
      /\ \A X : Played(t, X) = Played(s, X)
  BY <1>1, <1>4 DEF Sending, Confirming, Played
<1>7. Consistent(p, t)
  BY <1>4, <1>5, <1>6 DEF Consistent
<1>8. Owes(t, r)
  BY <1>4, <1>5, <1>6 DEF Owes, Carried, Above
<1>9. Owes(r, t)
  BY <1>4, <1>5, OwedAsBefore
<1>10. \A f : (Told(s, r, f) => Told(t, r, f)) /\ (Told(r, s, f) => Told(r, t, f))
  BY <1>4, <1>6, ToldAsBefore
<1>11. Unseen(s, t) /\ Moved(p, t, FALSE)
  BY <1>2, <1>4, ChangeMoves DEF Unseen
<1>12. DataStep(p, t, FALSE)
  BY <1>1, <1>4, <1>5, <1>7, <1>8, <1>9, <1>10, <1>11 DEF DataStep
<1> QED BY <1>12 DEF DataSteps

\* The commands of the host: a purge only while the station does not send.
LEMMA HostData ==
  ASSUME TypedInv, SenderInv, DataInv, NEW p \in Station, Sending(st[p]) => ~HostPurge(p),
         GiveData(p) \/ ArqCall(p) \/ HostAbort(p) \/ HostDisconnect(p) \/ HostBreak(p) \/ HostPurge(p)
  PROVE  DataSteps(p)
<1>1. PICK s : s = st[p]
  OBVIOUS
<1>2. DOMAIN s = Fields /\ ~s.tx
  BY <1>1 DEF TypedInv, Typed
<1>3. CASE GiveData(p)
  BY <1>3, GiveDataStep
<1>4. CASE HostPurge(p)
  BY <1>4, PurgesData DEF HostPurge
<1>5. CASE HostAbort(p) /\ Change(p, Aborted(s))
  <2>1. PICK t : t = Aborted(s)
    OBVIOUS
  <2>2. Leaves(t, s, {"abort", "rpt", "discRpt", "repeats"})
    BY <1>2, <2>1, AbortedIs
  <2>3. t.enc = s.enc /\ ~t.tx
    <3>1. t.tx = s.tx
      BY <1>2, <2>1 DEF Aborted, InitializeConnection, SetARDOPProtocolState, ClearDataToSend, Fields
    <3> QED BY <1>2, <2>2, <3>1 DEF Leaves, Same, Leaving, Fields
  <2>4. Leaves(t, s, {"abort", "rpt", "discRpt", "repeats", "lastSid", "idTimer", "enc", "tx",
                      "sendTimer", "timedOut"})
    BY <2>2 DEF Leaves, Same
  <2>5. Moved(p, t, FALSE)
    BY <1>5, <2>1, ChangeMoves
  <2>6. DataStep(p, t, FALSE)
    <3>1. PlaysPlain(st[p], t)
      BY <1>1, <2>3 DEF PlaysPlain
    <3>2. Leaves(t, st[p], {"abort", "rpt", "discRpt", "repeats", "lastSid", "idTimer", "enc", "tx",
                            "sendTimer", "timedOut"})
      BY <1>1, <2>4
    <3> QED BY <2>5, <3>1, <3>2, LeavesData
  <2> QED BY <2>6 DEF DataSteps
<1>6. CASE ~(HostAbort(p) /\ Change(p, Aborted(s))) /\ ~GiveData(p) /\ ~HostPurge(p)
  <2>1. PICK t : /\ Change(p, t)
                 /\ t \in {[s EXCEPT !.needCall = TRUE], [s EXCEPT !.abort = TRUE],
                           [s EXCEPT !.disc = TRUE], [s EXCEPT !.breakCmd = TRUE]}
    BY <1>1, <1>6 DEF ArqCall, HostAbort, HostDisconnect, HostBreak
  <2>2. /\ DOMAIN t = Fields /\ \A x \in DataFields : t[x] = s[x]
        /\ t.enc = s.enc /\ t.discRpt = s.discRpt /\ t.rpt = s.rpt /\ ~t.tx
    <3>1. CASE t = [s EXCEPT !.needCall = TRUE] \/ t = [s EXCEPT !.abort = TRUE]
      BY <1>2, <3>1 DEF Fields, DataFields
    <3>2. CASE t = [s EXCEPT !.disc = TRUE] \/ t = [s EXCEPT !.breakCmd = TRUE]
      BY <1>2, <3>2 DEF Fields, DataFields
    <3> QED BY <2>1, <3>1, <3>2
  <2>3. Moved(p, t, FALSE)
    BY <2>1, ChangeMoves
  <2>4. DataStep(p, t, FALSE)
    BY <1>1, <2>2, <2>3, StaysData
  <2> QED BY <2>4 DEF DataSteps
<1> QED BY <1>3, <1>4, <1>5, <1>6

\* The poll and the timers: a call, and the end of one that was not answered, only while the
\* station does not send.
LEMMA PollData ==
  ASSUME TypedInv, SenderInv, DataInv, NEW p \in Station, Poll(p),
         Sending(st[p]) => ~PlaceCall(p) /\ ~PendTimerExpires(p)
  PROVE  DataSteps(p)
<1>1. PICK s : s = st[p]
  OBVIOUS
<1>2. DOMAIN s = Fields /\ ~s.tx /\ s.sid \in Station \cup {FF}
  BY <1>1 DEF TypedInv, Typed
<1>3. ASSUME NEW t, Act(p, t), Leaves(t, s, {"abort", "rpt", "discRpt", "repeats"}), t.tx = s.tx
      PROVE  DataSteps(p)
  <2>1. t.enc = s.enc /\ ~t.tx
    BY <1>2, <1>3 DEF Leaves, Same, Leaving, Fields
  <2>2. Leaves(t, s, {"abort", "rpt", "discRpt", "repeats", "lastSid", "idTimer", "enc", "tx",
                      "sendTimer", "timedOut"})
    BY <1>3 DEF Leaves, Same
  <2>3. Moved(p, t, FALSE)
    BY <1>3, ChangeMoves DEF Act
  <2>4. PlaysPlain(st[p], t)
    BY <1>1, <2>1 DEF PlaysPlain
  <2>5. DataStep(p, t, FALSE)
    BY <1>1, <2>2, <2>3, <2>4, LeavesData
  <2> QED BY <2>5 DEF DataSteps
<1>4. ASSUME NEW t, Act(p, t), DOMAIN t = Fields, \A x \in DataFields : t[x] = s[x],
             t.rpt => s.rpt,
             \/ t.enc = s.enc /\ t.discRpt = s.discRpt
             \/ t.tx /\ Plain(t.enc) /\ (Sending(t) => t.discRpt \/ t.enc.type = "ID"),
             t.tx /\ t.enc = s.enc /\ ~Plain(t.enc) => s.rpt /\ ~s.discRpt /\ s.state # "DISC"
      PROVE  DataSteps(p)
  <2>1. Moved(p, t, FALSE)
    BY <1>4, ChangeMoves DEF Act
  <2>2. DataStep(p, t, FALSE)
    BY <1>1, <1>4, <2>1, StaysData
  <2> QED BY <2>2 DEF DataSteps
<1>5. ASSUME NEW f, f = Encode4FSKControl("DISC", s.sid) \/ f = Encode4FSKIDFrame
      PROVE  Plain(f)
  BY <1>2, <1>5, PlainFrames
<1>6. CASE PollAbort(p)
  <2>1. PICK t : t = Aborted(s) /\ Act(p, t)
    BY <1>1, <1>6 DEF PollAbort
  <2>2. t.tx = s.tx
    BY <1>2, <2>1 DEF Aborted, InitializeConnection, SetARDOPProtocolState, ClearDataToSend, Fields
  <2> QED BY <1>2, <1>3, <2>1, <2>2, AbortedIs
<1>7. CASE RepeatDisc(p)
  <2>1. CASE Act(p, GivenUp(s))
    <3>1. PICK t : t = GivenUp(s) /\ Act(p, t)
      BY <2>1
    <3>2. Leaves(t, s, {"rpt", "discRpt", "repeats"})
      BY <1>2, <3>1, GivenUpIs
    <3>3. Leaves(t, s, {"abort", "rpt", "discRpt", "repeats"})
      BY <3>2 DEF Leaves, Same
    <3>4. t.tx = s.tx
      BY <1>2, <3>1 DEF GivenUp, InitializeConnection, SetARDOPProtocolState, ClearDataToSend, Fields
    <3> QED BY <1>3, <3>1, <3>3, <3>4
  <2>2. CASE ~Act(p, GivenUp(s))
    <3>1. PICK u, t : /\ u = [s EXCEPT !.repeats = @ + 1, !.rpt = FALSE]
                      /\ t = Play(u, Encode4FSKControl("DISC", s.sid)) /\ Act(p, t)
      BY <1>1, <1>7, <2>2 DEF RepeatDisc
    <3>2. DOMAIN u = Fields /\ (\A x \in DataFields : u[x] = s[x]) /\ ~u.rpt /\ u.discRpt = s.discRpt
      BY <1>2, <3>1 DEF DataFields, Fields
    <3>3. Same(t, u, {"enc", "tx"}) /\ t.tx /\ t.enc = Encode4FSKControl("DISC", s.sid)
      BY <3>1, <3>2, PlayIs
    <3>4. /\ DOMAIN t = Fields /\ (\A x \in DataFields : t[x] = s[x]) /\ ~t.rpt /\ t.discRpt = s.discRpt
      BY <3>2, <3>3 DEF Same, Fields, DataFields
    <3>5. s.discRpt
      BY <1>1, <1>7 DEF RepeatDisc
    <3> QED BY <1>4, <1>5, <3>1, <3>3, <3>4, <3>5
  <2> QED BY <2>1, <2>2
<1>8. CASE PollDisconnect(p)
  <2>1. PICK t : t = CheckForDisconnect(s) /\ Act(p, t)
    BY <1>1, <1>8 DEF PollDisconnect
  <2>2. /\ Same(t, s, {"repeats", "disc", "discRpt", "rpt", "enc", "tx"})
        /\ t.tx /\ t.enc = Encode4FSKControl("DISC", s.sid) /\ t.discRpt /\ ~t.rpt
    BY <1>2, <2>1, CheckForDisconnectIs
  <2>3. DOMAIN t = Fields /\ \A x \in DataFields : t[x] = s[x]
    BY <2>2 DEF Same, Fields, DataFields
  <2> QED BY <1>4, <1>5, <2>1, <2>2, <2>3
<1>9. CASE RepeatConReq(p)
  <2>1. CASE Act(p, CallFailed(s))
    <3>1. PICK t : t = CallFailed(s) /\ Act(p, t)
      BY <2>1
    <3>2. Leaves(t, s, {"rpt", "repeats"})
      BY <1>2, <3>1, CallFailedIs
    <3>3. Leaves(t, s, {"abort", "rpt", "discRpt", "repeats"})
      BY <3>2 DEF Leaves, Same
    <3>4. t.tx = s.tx
      BY <1>2, <3>1 DEF CallFailed, InitializeConnection, SetARDOPProtocolState, ClearDataToSend, Fields
    <3> QED BY <1>3, <3>1, <3>3, <3>4
  <2>2. CASE ~Act(p, CallFailed(s))
    <3>1. PICK t : t = [s EXCEPT !.repeats = @ + 1, !.tx = s.rpt] /\ Act(p, t)
      BY <1>1, <1>9, <2>2 DEF RepeatConReq
    <3>2. /\ DOMAIN t = Fields /\ t.enc = s.enc /\ (\A x \in DataFields : t[x] = s[x])
          /\ t.rpt = s.rpt /\ t.discRpt = s.discRpt /\ t.tx = s.rpt
      BY <1>2, <3>1 DEF Fields, DataFields
    <3>3. ~s.discRpt /\ s.state # "DISC"
      BY <1>1, <1>9 DEF RepeatConReq, Undisturbed
    <3> QED BY <1>4, <3>1, <3>2, <3>3
  <2> QED BY <2>1, <2>2
<1>10. CASE ArqTimeout(p) \/ PollDISC(p)
  <2>1. PICK t : /\ Act(p, t)
                 /\ t \in {[s EXCEPT !.rpt = FALSE, !.timedOut = TRUE, !.sendTimer = TRUE],
                           [s EXCEPT !.disc = FALSE, !.repeats = 0, !.rpt = FALSE]}
    BY <1>1, <1>10 DEF ArqTimeout, PollDISC
  <2>2. /\ DOMAIN t = Fields /\ t.enc = s.enc /\ (\A x \in DataFields : t[x] = s[x])
        /\ t.discRpt = s.discRpt /\ ~t.rpt /\ ~t.tx
    BY <1>2, <2>1 DEF Fields, DataFields
  <2> QED BY <1>4, <2>1, <2>2
<1>11. CASE RepeatFrame(p)
  <2>1. PICK t : t = Remodulate(s) /\ Act(p, t)
    BY <1>1, <1>11 DEF RepeatFrame
  <2>2. /\ DOMAIN t = Fields /\ t.enc = s.enc /\ (\A x \in DataFields : t[x] = s[x])
        /\ t.discRpt = s.discRpt /\ t.rpt = s.rpt
    BY <1>2, <2>1 DEF Fields, DataFields, Remodulate
  <2>3. s.rpt /\ ~s.discRpt /\ s.state # "DISC"
    BY <1>1, <1>11 DEF RepeatFrame, Undisturbed
  <2> QED BY <1>4, <2>1, <2>2, <2>3
<1>12. CASE SendTimerExpires(p)
  <2>1. PICK t : t = SendTimeout(s) /\ Act(p, t)
    BY <1>1, <1>12 DEF SendTimerExpires
  <2>2. /\ Leaves(t, s, {"sendTimer", "rpt", "timedOut", "enc", "tx"})
        /\ t.tx /\ t.enc = Encode4FSKControl("DISC", s.sid)
    BY <1>2, <2>1, SendTimeoutIs
  <2>3. Leaves(t, s, {"abort", "rpt", "discRpt", "repeats", "lastSid", "idTimer", "enc", "tx",
                      "sendTimer", "timedOut"})
    BY <2>2 DEF Leaves, Same
  <2>4. Moved(p, t, FALSE)
    BY <2>1, ChangeMoves DEF Act
  <2>5. PlaysPlain(st[p], t)
    BY <1>5, <2>2 DEF PlaysPlain
  <2>6. DataStep(p, t, FALSE)
    BY <1>1, <2>2, <2>3, <2>4, <2>5, LeavesData
  <2> QED BY <2>6 DEF DataSteps
<1>13. CASE PendTimerExpires(p)
  <2>1. PICK t : t = PendingTimeout(s) /\ Act(p, t)
    BY <1>1, <1>13 DEF PendTimerExpires
  <2>2. /\ Same(t, s, {"pendTimer", "rpt", "state", "pending", "sid", "lastAcked", "bw"})
        /\ t.state = "DISC"
    BY <1>2, <2>1, PendingTimeoutIs
  <2>3. Same(t, s, {"sid", "lastAcked", "bw", "abort", "state", "sub", "repeats", "psid",
                    "pending", "connected", "rpt", "needCall", "pendTimer", "enc", "tx"})
    BY <2>2 DEF Same
  <2>4. t.enc = s.enc /\ ~t.tx
    BY <1>2, <2>2 DEF Same, Fields
  <2>5. Moved(p, t, FALSE)
    BY <2>1, ChangeMoves DEF Act
  <2>6. DataStep(p, t, FALSE)
    BY <1>1, <1>13, <2>2, <2>3, <2>4, <2>5, CallsData
  <2> QED BY <2>6 DEF DataSteps
<1>14. CASE IdTimerExpires(p)
  <2>1. PICK u, t : /\ u = [s EXCEPT !.idTimer = FALSE] /\ t = Play(u, Encode4FSKIDFrame)
                    /\ Act(p, t)
    BY <1>1, <1>14 DEF IdTimerExpires
  <2>2. DOMAIN u = Fields /\ (\A x \in DataFields : u[x] = s[x]) /\ u.rpt = s.rpt
    BY <1>2, <2>1 DEF DataFields, Fields
  <2>3. Same(t, u, {"enc", "tx"}) /\ t.tx /\ t.enc = Encode4FSKIDFrame
    BY <2>1, <2>2, PlayIs
  <2>4. DOMAIN t = Fields /\ (\A x \in DataFields : t[x] = s[x]) /\ t.rpt = s.rpt
    BY <2>2, <2>3 DEF Same, Fields, DataFields
  <2>5. Plain(t.enc) /\ t.enc.type = "ID"
    BY <2>3, PlainFrames
  <2> QED BY <1>4, <2>1, <2>3, <2>4, <2>5
<1>15. CASE PlaceCall(p)
  <2>1. PICK t : t = ConnectRequest(s, p) /\ Act(p, t)
    BY <1>1, <1>15 DEF PlaceCall
  <2>2. /\ Same(t, s, {"sid", "lastAcked", "bw", "abort", "state", "sub", "repeats", "psid",
                       "pending", "connected", "rpt", "needCall", "enc", "tx"})
        /\ t.state = "ISS" /\ t.sub = "ISSConReq" /\ t.tx
        /\ t.enc = EncodeARQConRequest(Request(s.arqBW, s.callBW))
    BY <1>2, <2>1, ConnectRequestIs
  <2>3. Same(t, s, {"sid", "lastAcked", "bw", "abort", "state", "sub", "repeats", "psid",
                    "pending", "connected", "rpt", "needCall", "pendTimer", "enc", "tx"})
    BY <2>2 DEF Same
  <2>4. t.enc.type = "ConReq" /\ t.enc.id = FF /\ t.enc # NONE
    <3>1. Request(s.arqBW, s.callBW) \in Settings
      BY <1>1 DEF TypedInv, Typed, Lasting, Request
    <3>2. FrameOK(t.enc)
      BY <2>2, <3>1, ControlFrames
    <3> QED BY <2>2, <3>2, FramesAreThere DEF EncodeARQConRequest, Encode4FSKControl
  <2>5. Moved(p, t, FALSE)
    BY <2>1, ChangeMoves DEF Act
  <2>6. Calling(t)
    BY <2>2 DEF Calling
  <2>7. DataStep(p, t, FALSE)
    BY <1>1, <1>15, <2>2, <2>3, <2>4, <2>5, <2>6, CallsData
  <2> QED BY <2>7 DEF DataSteps
<1> QED BY <1>6, <1>7, <1>8, <1>9, <1>10, <1>11, <1>12, <1>13, <1>14, <1>15 DEF Poll

-----------------------------------------------------------------------------
(* Reception.                                                              *)

\* An answer that leaves alone what the other station hears of: the frame that it plays says
\* what is true of the two stations.
LEMMA Answers ==
  ASSUME NEW p \in Station, NEW t, Respond(p, t), DOMAIN t = Fields,
         \/ Unseen(st[p], t) \/ Delivers(st[p], t, st[Peer(p)]) \/ Confirms(st[p], t, st[Peer(p)]),
         Consistent(p, t), Owes(t, st[Peer(p)]), Owes(st[Peer(p)], t),
         t.tx => Told(st[Peer(p)], t, t.enc)
  PROVE  DataSteps(p)
<1>1. Moved(p, t, TRUE)
  BY ChangeMoves
<1>2. DataStep(p, t, TRUE)
  BY <1>1 DEF DataStep
<1> QED BY <1>2 DEF DataSteps

\* What is owed when a station does not send, has played something else than data, and does not
\* take and does not begin to send;
LEMMA OwedQuietly ==
  ASSUME DataInv, NEW p \in Station, NEW t,
         t.given = st[p].given, t.got = st[p].got, t.confirmed = st[p].confirmed,
         t.queue = <<>> \/ (t.queue = st[p].queue /\ ~Sending(st[p])),
         ~Sending(t), t.state # "IDLE", ~Played(t, {"DATA"}),
         Confirming(t) \/ (t.state = "IRStoISS" /\ st[Peer(p)].state = "IRS")
           => st[Peer(p)].toHost = NONE,
         \/ t.toHost = st[p].toHost /\ (t.state = "IRS" => st[p].state = "IRS")
         \/ t.toHost = NONE /\ ~Played(st[Peer(p)], {"DATA"})
  PROVE  Unseen(st[p], t) /\ Owes(t, st[Peer(p)]) /\ Owes(st[Peer(p)], t)
<1>1. PICK s, r : s = st[p] /\ r = st[Peer(p)] /\ Owes(s, r) /\ Owes(r, s)
  BY TwoStations DEF DataInv
<1>2. Owes(r, t)
  BY <1>1, OwedAsBefore
<1>3. Above(t.queue, r.got)
  BY <1>1 DEF Owes, Above
<1>4. \A i \in 1 .. Len(t.queue) : t.queue[i] = t.given - Len(t.queue) + i
  BY <1>1 DEF Owes
<1>5. Owes(t, r)
  BY <1>1, <1>3, <1>4 DEF Owes
<1>6. Unseen(s, t)
  BY <1>1 DEF Unseen
<1> QED BY <1>1, <1>2, <1>5, <1>6

\* such a station answers.
LEMMA AnswersQuietly ==
  ASSUME DataInv, NEW p \in Station, NEW t, Respond(p, t), DOMAIN t = Fields,
         t.given = st[p].given, t.got = st[p].got, t.confirmed = st[p].confirmed,
         t.queue = <<>> \/ (t.queue = st[p].queue /\ ~Sending(st[p])),
         ~Sending(t), t.state # "IDLE", ~Played(t, {"DATA"}),
         Confirming(t) \/ (t.state = "IRStoISS" /\ st[Peer(p)].state = "IRS")
           => st[Peer(p)].toHost = NONE,
         \/ t.toHost = st[p].toHost /\ (t.state = "IRS" => st[p].state = "IRS")
         \/ t.toHost = NONE /\ ~Played(st[Peer(p)], {"DATA"}),
         Consistent(p, t), t.tx => Told(st[Peer(p)], t, t.enc)
  PROVE  DataSteps(p)
<1>1. Unseen(st[p], t) /\ Owes(t, st[Peer(p)]) /\ Owes(st[Peer(p)], t)
  BY OwedQuietly
<1> QED BY <1>1, Answers

\* SendData leaves the queue alone and sends what comes next: a station that sends, or begins to,
\* and of which the other takes the next frame for a new one.
LEMMA SendsData ==
  ASSUME TypedInv, DataInv, NEW p \in Station, NEW u, NEW shift \in Int, Respond(p, SendData(u, shift)),
         Typed(p, u), u.mode + shift \in 0 .. LastMode(u.table), ~u.tx,
         u.state = "ISS", u.sub = "ISSData", u.enc = st[p].enc,
         st[p].state \in {"ISS", "IDLE", "IRStoISS"},
         u.toHost \in {st[p].toHost, NONE},
         Unseen(st[p], u) \/ Confirms(st[p], u, st[Peer(p)]),
         \A i \in 1 .. Len(u.queue) : u.queue[i] = u.given - Len(u.queue) + i,
         Above(u.queue, st[Peer(p)].got), Fresh(st[Peer(p)], 1 - u.acked),
         u.discRpt => ~Played(u, {"DATA"}), Owes(st[Peer(p)], u)
  PROVE  DataSteps(p)
<1>1. PICK s, r : s = st[p] /\ r = st[Peer(p)] /\ Consistent(p, s) /\ Owes(s, r)
  BY DEF DataInv
<1>2. PICK t, mode, n : t = SendData(u, shift) /\ mode = u.mode + shift /\ n = Take(u, mode)
  OBVIOUS
<1>3. /\ DOMAIN u = Fields /\ u.given \in Nat /\ Len(u.queue) <= u.given /\ Len(u.queue) \in Nat
      /\ u.acked \in {0, 1} /\ u.queue \in Seq(1 .. MaxItems[p])
  <2>1. MaxItems[p] \in Nat
    BY ArqAssumption
  <2> QED BY <2>1 DEF Typed, Lasting
<1>4. u.given = s.given /\ u.got = s.got /\ s.got \in Seq(Nat)
  BY <1>1 DEF Unseen, Confirms, Consistent
<1>5. /\ ~Played(u, {"NAK"})
      /\ Played(u, {"ConAck"}) => u.enc.id = p \/ u.toHost = NONE
      /\ Played(u, {"ID", "ConReq"}) => u.enc.id = FF
      /\ u.toHost \in (Nat \X {0, 1}) \cup {NONE}
  BY <1>1 DEF Consistent, Played
<1>6. ASSUME DOMAIN t = Fields, t.given = u.given, t.got = u.got, t.confirmed = u.confirmed,
             t.toHost = u.toHost, t.state \in {"ISS", "IDLE"},
             \/ t.enc = u.enc /\ t.discRpt /\ t.state = "ISS" /\ ~t.tx
             \/ t.enc.type = "DATA" \/ (t.enc.type = "IDLE" /\ t.state = "IDLE")
             \/ t.enc.type = "DISC" /\ t.discRpt,
             t.enc # NONE, Owes(t, r)
      PROVE  DataSteps(p)
  <2>1. Consistent(p, t)
    BY <1>4, <1>5, <1>6 DEF Consistent, Played, Sending
  <2>2. Owes(r, t)
    BY <1>1, <1>6, OwedAsBefore
  <2>3. t.tx => Told(r, t, t.enc)
    BY <1>6 DEF Told, Sending
  <2>4. Unseen(s, t) \/ Confirms(s, t, r)
    <3>1. CASE Unseen(s, u)
      BY <1>6, <3>1 DEF Unseen
    <3>2. CASE Confirms(s, u, r)
      <4>1. PICK items \in SUBSET {r.got[i] : i \in 1 .. Len(r.got)} : u.confirmed = s.confirmed \cup items
        BY <3>2 DEF Confirms
      <4>2. t.given = s.given /\ t.got = s.got /\ t.confirmed = s.confirmed \cup items
        BY <1>4, <1>6, <3>2, <4>1 DEF Confirms
      <4> QED BY <4>1, <4>2 DEF Confirms
    <3> QED BY <1>1, <3>1, <3>2
  <2>5. Respond(p, t)
    BY <1>2
  <2> QED BY <1>1, <1>6, <2>1, <2>2, <2>3, <2>4, <2>5, Answers
<1>7. \A i \in 1 .. Len(r.got) : r.got[i] \in 1 .. u.given
  BY <1>1, <1>4 DEF Owes
<1>8. ASSUME t.given = u.given, t.queue = u.queue, ~Played(t, {"DATA"}), ~Confirming(t),
             t.state \in {"ISS", "IDLE"}, t.acked = u.acked
      PROVE  Owes(t, r)
  BY <1>1, <1>7, <1>8 DEF Owes
<1>9. u.enc # NONE
  BY DEF Typed
<1>10. CASE u.discRpt /\ t = u
  <2>1. ~Confirming(t)
    BY <1>10 DEF Confirming
  <2> QED BY <1>3, <1>6, <1>8, <1>9, <1>10, <2>1
<1>11. CASE t = CheckForDisconnect(u)
  <2>1. /\ Same(t, u, {"repeats", "disc", "discRpt", "rpt", "enc", "tx"}) /\ t.discRpt /\ t.tx
        /\ t.enc = Encode4FSKControl("DISC", u.sid)
    BY <1>3, <1>11, CheckForDisconnectIs
  <2>2. /\ DOMAIN t = Fields /\ t.given = u.given /\ t.got = u.got /\ t.confirmed = u.confirmed
        /\ t.toHost = u.toHost /\ t.state = "ISS" /\ t.sub = "ISSData" /\ t.queue = u.queue
        /\ t.acked = u.acked
    BY <2>1 DEF Same, Fields
  <2>3. t.enc # NONE /\ t.enc.type = "DISC"
    <3>1. FrameOK(t.enc)
      BY <2>1, ControlFrames DEF Typed
    <3> QED BY <2>1, <3>1, FramesAreThere DEF Encode4FSKControl
  <2>4. ~Played(t, {"DATA"}) /\ ~Confirming(t)
    BY <2>2, <2>3 DEF Played, Confirming
  <2> QED BY <1>6, <1>8, <2>1, <2>2, <2>3, <2>4
<1>12. CASE /\ Same(t, u, {"state", "rpt", "sentData", "enc", "tx"}) /\ t.state = "IDLE"
            /\ t.enc = Encode4FSKControl("IDLE", u.sid)
  <2>2. /\ DOMAIN t = Fields /\ t.given = u.given /\ t.got = u.got /\ t.confirmed = u.confirmed
        /\ t.toHost = u.toHost /\ t.queue = u.queue /\ t.acked = u.acked
    BY <1>12 DEF Same, Fields
  <2>3. t.enc # NONE /\ t.enc.type = "IDLE"
    <3>1. FrameOK(t.enc)
      BY <1>12, ControlFrames DEF Typed
    <3> QED BY <1>12, <3>1, FramesAreThere DEF Encode4FSKControl
  <2>4. ~Played(t, {"DATA"}) /\ ~Confirming(t)
    BY <1>12, <2>3 DEF Played, Confirming
  <2> QED BY <1>6, <1>8, <1>12, <2>2, <2>3, <2>4
<1>13. CASE /\ Same(t, u, {"mode", "inProcess", "sent", "sentData", "rpt", "sub", "enc", "tx"})
            /\ t.inProcess = n /\ t.sent = 1 - u.acked /\ t.sentData /\ t.sub = "ISSData"
            /\ ~u.discRpt
            /\ t.enc = DataFrame(u.sid, mode, 1 - u.acked, SubSeq(u.queue, 1, n))
  <2>1. /\ DOMAIN t = Fields /\ t.given = u.given /\ t.got = u.got /\ t.confirmed = u.confirmed
        /\ t.toHost = u.toHost /\ t.state = "ISS" /\ t.queue = u.queue
        /\ t.acked = u.acked /\ t.discRpt = u.discRpt
    BY <1>13 DEF Same, Fields
  <2>2. n \in 0 .. Len(u.queue) /\ mode \in Nat
    <3>1. u.table \in Widths /\ mode \in 0 .. LastMode(u.table) /\ LastMode(u.table) \in Int
      BY <1>2 DEF Typed, Lasting, LastMode, GetDataModes, AllModes, FSKModes, Widths
    <3>2. Room(u, mode) \in Nat
      BY <3>1, Rooms DEF Room
    <3> QED BY <1>2, <1>3, <3>1, <3>2 DEF Take
  <2>3. PICK d : d = SubSeq(u.queue, 1, n)
    OBVIOUS
  <2>4. d \in Seq(1 .. MaxItems[p]) /\ Len(d) = n /\ \A i \in 1 .. n : d[i] = u.queue[i]
    BY <1>3, <2>2, <2>3, PartItems
  <2>5. t.enc.type = "DATA" /\ t.enc.par = 1 - u.acked /\ t.enc.data = d
    BY <1>13, <2>3 DEF DataFrame, Encode4FSKControl
  <2>6. t.enc # NONE
    <3>1. d \in Seq(Nat) /\ 1 - u.acked \in {0, 1} /\ u.sid \in Station \cup {FF}
      <4>1. 1 .. MaxItems[p] \subseteq Nat
        BY ArqAssumption
      <4>2. d \in Seq(Nat)
        <5>1. d \in Seq(1 .. MaxItems[p])
          BY <2>4
        <5> QED BY <4>1, <5>1, WiderSequence
      <4>3. 1 - u.acked \in {0, 1}
        BY <1>3
      <4> QED BY <4>2, <4>3 DEF Typed
    <3>2. FrameOK(t.enc)
      BY <1>13, <2>2, <2>3, <3>1, DataFrames
    <3> QED BY <3>2, FramesAreThere
  <2>7. \A i \in 1 .. n : d[i] = d[1] + i - 1 /\ d[i] \in 1 .. u.given
    <3> SUFFICES ASSUME NEW i \in 1 .. n PROVE d[i] = d[1] + i - 1 /\ d[i] \in 1 .. u.given
      OBVIOUS
    <3>1. i \in 1 .. Len(u.queue) /\ 1 \in 1 .. Len(u.queue) /\ 1 \in 1 .. n
      BY <1>3, <2>2
    <3>2. u.queue[i] = u.given - Len(u.queue) + i /\ u.queue[1] = u.given - Len(u.queue) + 1
      BY <3>1
    <3>3. PICK k : k = u.given - Len(u.queue)
      OBVIOUS
    <3>4. k \in Nat /\ k + Len(u.queue) = u.given
      BY <1>3, <3>3
    <3>6. d[i] = u.queue[i] /\ d[1] = u.queue[1]
      BY <2>4, <3>1
    <3>5. i \in Nat /\ 1 <= i /\ i <= Len(u.queue)
      BY <1>3, <3>1
    <3>7. d[i] = k + i /\ d[1] = k + 1
      BY <3>2, <3>3, <3>6
    <3> QED BY <1>3, <3>4, <3>5, <3>7
  <2>8. Above(d, r.got)
    <3>1. \A i \in 1 .. n : Top(r.got) < u.queue[i]
      BY <1>1, <1>3, <2>2 DEF Above
    <3> QED BY <2>4, <3>1 DEF Above
  <2>9. InFront(t, t.enc, r)
    <3>1. \A i \in n + 1 .. Len(u.queue) : Top(r.got) < u.queue[i]
      BY <1>1, <1>3, <2>2 DEF Above
    <3> QED BY <1>13, <2>1, <2>2, <2>4, <2>5, <3>1 DEF InFront
  <2>10. Sending(t) /\ ~Confirming(t)
    BY <1>13, <2>1 DEF Sending, Confirming
  <2>11. Coming(t.enc, r)
    BY <1>1, <2>5, <2>8 DEF Coming
  <2>12. Carried(t, t.enc, r)
    BY <2>1, <2>4, <2>5, <2>7, <2>9, <2>10, <2>11 DEF Carried
  <2>13. Owes(t, r)
    BY <1>7, <2>1, <2>10, <2>12 DEF Owes
  <2> QED BY <1>6, <2>1, <2>5, <2>6, <2>13
<1> QED BY <1>2, <1>3, <1>10, <1>11, <1>12, <1>13, SendDataIs

\* What a station hears is the last frame of the other station, and says what is true of both.
LEMMA HeardData ==
  ASSUME TypedInv, SessionInv, DataInv, NEW p \in Station, NEW ok, Hears(p, ok)
  PROVE  /\ Peer(p) \in Station /\ Peer(p) # p
         /\ air.frame = st[Peer(p)].enc /\ air.frame # NONE /\ FrameOK(air.frame)
         /\ Told(st[p], st[Peer(p)], air.frame)
         /\ Consistent(p, st[p]) /\ Consistent(Peer(p), st[Peer(p)])
         /\ Owes(st[p], st[Peer(p)]) /\ Owes(st[Peer(p)], st[p])
         /\ DOMAIN st[p] = Fields /\ ~st[p].tx /\ st[p].sid \in Station \cup {FF}
<1>1. air # NONE /\ air.to = p /\ Peer(p) \in Station /\ Peer(p) # p /\ Peer(Peer(p)) = p
  BY TwoStations DEF Hears
<1>2. Told(st[p], st[Peer(p)], air.frame)
  BY <1>1 DEF DataInv
<1>3. Consistent(p, st[p]) /\ Consistent(Peer(p), st[Peer(p)])
  BY <1>1 DEF DataInv
<1>4. Owes(st[p], st[Peer(p)]) /\ Owes(st[Peer(p)], st[p])
  BY <1>1 DEF DataInv
<1>5. DOMAIN st[p] = Fields /\ ~st[p].tx /\ st[p].sid \in Station \cup {FF}
  BY DEF TypedInv, Typed
<1> QED BY <1>1, <1>2, <1>3, <1>4, <1>5, Heard

\* A station that receives and acknowledges without taking anything: who sends sends data that
\* the station has taken, and who takes over is not answered with old data in mind.
LEMMA Acknowledges ==
  ASSUME TypedInv, DataInv, NEW p \in Station, NEW u, NEW id \in Station \cup {FF, NONE},
         Respond(p, Play(u, EncodeDATAACK(id))),
         st[p].state = "IRS", DOMAIN u = Fields,
         \A x \in DataFields \ {"sub"} : u[x] = st[p][x],
         u.sub \in {st[p].sub, "IRSData"}, ~u.rpt,
         Sending(st[Peer(p)]) => Played(st[Peer(p)], {"DATA"}) /\ Came(st[Peer(p)].enc, st[p])
  PROVE  DataSteps(p)
<1>1. PICK s, r : s = st[p] /\ r = st[Peer(p)]
  OBVIOUS
<1>2. Consistent(p, s) /\ Owes(r, s)
  BY <1>1, TwoStations DEF DataInv
<1>3. PICK t : t = Play(u, EncodeDATAACK(id)) /\ Respond(p, t)
  OBVIOUS
<1>4. Same(t, u, {"enc", "tx"}) /\ t.enc = EncodeDATAACK(id) /\ t.tx
  BY <1>3, PlayIs
<1>5. /\ t.state = s.state /\ t.queue = s.queue /\ t.given = s.given /\ t.got = s.got
      /\ t.confirmed = s.confirmed /\ t.toHost = s.toHost /\ t.lastAcked = s.lastAcked
      /\ t.sub \in {s.sub, "IRSData"} /\ ~t.rpt /\ DOMAIN t = Fields
  BY <1>1, <1>4 DEF Same, Fields, DataFields
<1>6. t.enc.type = "ACK" /\ t.enc # NONE
  <2>1. FrameOK(t.enc)
    BY <1>4, ControlFrames
  <2> QED BY <1>4, <2>1, FramesAreThere DEF EncodeDATAACK, Encode4FSKControl
<1>7. ~Sending(s) /\ ~Sending(t) /\ ~Confirming(t) /\ ~Played(t, {"DATA"})
  BY <1>1, <1>5, <1>6 DEF Sending, Confirming, Played
<1>8. Consistent(p, t)
  BY <1>1, <1>2, <1>5, <1>6, <1>7 DEF Consistent, Played
<1>9. Told(r, t, t.enc)
  <2>1. r.state = "IRStoISS" => t.toHost = NONE
    BY <1>1, <1>2, <1>5 DEF Owes
  <2>2. Came(r.enc, t) = Came(r.enc, s)
    BY <1>5 DEF Came
  <2> QED BY <1>1, <1>6, <2>1, <2>2 DEF Told
<1> QED BY <1>1, <1>3, <1>5, <1>7, <1>8, <1>9, AnswersQuietly

\* A station that receives and breaks in.
LEMMA BreakData ==
  ASSUME TypedInv, DataInv, NEW p \in Station, NEW u, Respond(p, StartBreak(u)),
         st[p].state = "IRS", DOMAIN u = Fields, \A x \in DataFields : u[x] = st[p][x],
         u.sid \in Station \cup {FF},
         st[Peer(p)].state = "IRS" => st[Peer(p)].toHost = NONE
  PROVE  DataSteps(p)
<1>1. PICK s, r : s = st[p] /\ r = st[Peer(p)]
  OBVIOUS
<1>2. Consistent(p, s)
  BY <1>1 DEF DataInv
<1>3. PICK t : t = StartBreak(u) /\ Respond(p, t)
  OBVIOUS
<1>4. /\ Same(t, u, {"state", "lastAcked", "rpt", "enc", "tx"}) /\ t.state = "IRStoISS" /\ t.tx
      /\ t.enc = Encode4FSKControl("BREAK", u.sid)
  BY <1>3, StartBreakIs
<1>5. /\ t.queue = s.queue /\ t.given = s.given /\ t.got = s.got
      /\ t.confirmed = s.confirmed /\ t.toHost = s.toHost /\ DOMAIN t = Fields
  BY <1>1, <1>4 DEF Same, Fields, DataFields
<1>6. t.enc.type = "BREAK" /\ t.enc # NONE
  <2>1. FrameOK(t.enc)
    BY <1>4, ControlFrames
  <2> QED BY <1>4, <2>1, FramesAreThere DEF Encode4FSKControl
<1>7. ~Sending(s) /\ ~Sending(t) /\ ~Confirming(t) /\ ~Played(t, {"DATA"})
  BY <1>1, <1>4, <1>6 DEF Sending, Confirming, Played
<1>8. Consistent(p, t)
  BY <1>1, <1>2, <1>4, <1>5, <1>6, <1>7 DEF Consistent, Played
<1>9. Told(r, t, t.enc)
  BY <1>6, <1>7 DEF Told
<1> QED BY <1>1, <1>3, <1>4, <1>5, <1>7, <1>8, <1>9, AnswersQuietly

\* A connect request is answered.
LEMMA AnswerConReqData ==
  ASSUME TypedInv, SessionInv, DataInv, NEW p \in Station, NEW bw \in Widths, Hears(p, TRUE),
         air.frame.type = "ConReq", Respond(p, AnswerConReq(st[p], Peer(p), bw))
  PROVE  DataSteps(p)
<1>1. PICK s, r, q : s = st[p] /\ r = st[Peer(p)] /\ q = Peer(p) /\ q \in Station
  BY TwoStations
<1>2. Consistent(p, s) /\ DOMAIN s = Fields /\ r.enc = air.frame
  BY <1>1, HeardData
<1>3. PICK t : t = AnswerConReq(s, q, bw) /\ Respond(p, t)
  BY <1>1
<1>4. /\ Same(t, s, {"queue", "sid", "lastAcked", "bw", "state", "psid", "pending", "rpt",
                     "pendTimer", "sub", "toHost", "enc", "tx"})
      /\ t.queue = <<>> /\ t.lastAcked = NONE /\ t.state = "IRS" /\ ~t.rpt
      /\ t.toHost = NONE /\ t.tx /\ t.enc = EncodeConACK(bw, q)
  BY <1>2, <1>3, AnswerConReqIs
<1>5. /\ t.given = s.given /\ t.got = s.got /\ t.confirmed = s.confirmed /\ DOMAIN t = Fields
  BY <1>4 DEF Same, Fields
<1>6. t.enc.type = "ConAck" /\ t.enc # NONE
  <2>1. FrameOK(t.enc)
    BY <1>1, <1>4, ControlFrames
  <2> QED BY <1>4, <2>1, FramesAreThere, ConAcks
<1>7. ~Sending(t) /\ ~Confirming(t) /\ ~Played(t, {"DATA"}) /\ ~Played(r, {"DATA"})
  BY <1>2, <1>4, <1>6 DEF Sending, Confirming, Played
<1>8. Consistent(p, t)
  BY <1>2, <1>4, <1>5, <1>6, <1>7 DEF Consistent, Played
<1>9. Told(r, t, t.enc)
  BY <1>6, <1>7 DEF Told
<1> QED BY <1>1, <1>3, <1>4, <1>5, <1>7, <1>8, <1>9, AnswersQuietly

\* An answer with a plain frame, of a station whose data stays as it is,
LEMMA AnswersPlainly ==
  ASSUME TypedInv, SenderInv, DataInv, NEW p \in Station, NEW u, NEW f, Respond(p, Play(u, f)),
         Plain(f), DOMAIN u = Fields, \A x \in DataFields : u[x] = st[p][x],
         u.rpt => st[p].rpt, ~Sending(st[p])
  PROVE  DataSteps(p)
<1>1. PICK t : t = Play(u, f) /\ Respond(p, t)
  OBVIOUS
<1>2. Same(t, u, {"enc", "tx"}) /\ t.enc = f /\ t.tx
  BY <1>1, PlayIs
<1>3. DOMAIN t = Fields /\ (\A x \in DataFields : t[x] = st[p][x]) /\ (t.rpt => st[p].rpt)
  BY <1>2 DEF Same, Fields, DataFields
<1>4. t.state = st[p].state /\ t.sub = st[p].sub
  BY <1>3 DEF DataFields
<1>5. ~Sending(t)
  BY <1>4 DEF Sending
<1>6. Moved(p, t, TRUE)
  BY <1>1, ChangeMoves
<1>7. DataStep(p, t, TRUE)
  BY <1>2, <1>3, <1>5, <1>6, StaysData
<1> QED BY <1>7 DEF DataSteps

\* with DISC, which is repeated,
LEMMA DisconnectsData ==
  ASSUME TypedInv, SenderInv, DataInv, NEW p \in Station, Respond(p, CheckForDisconnect(st[p]))
  PROVE  DataSteps(p)
<1>1. PICK s : s = st[p] /\ DOMAIN s = Fields /\ s.sid \in Station \cup {FF}
  BY DEF TypedInv, Typed
<1>2. PICK t : t = CheckForDisconnect(s) /\ Respond(p, t)
  BY <1>1
<1>3. /\ Same(t, s, {"repeats", "disc", "discRpt", "rpt", "enc", "tx"})
      /\ t.tx /\ t.enc = Encode4FSKControl("DISC", s.sid) /\ t.discRpt /\ ~t.rpt
  BY <1>1, <1>2, CheckForDisconnectIs
<1>4. DOMAIN t = Fields /\ \A x \in DataFields : t[x] = s[x]
  BY <1>3 DEF Same, Fields, DataFields
<1>5. Plain(t.enc)
  BY <1>1, <1>3, PlainFrames
<1>6. Moved(p, t, TRUE)
  BY <1>2, ChangeMoves
<1>7. DataStep(p, t, TRUE)
  BY <1>1, <1>3, <1>4, <1>5, <1>6, StaysData
<1> QED BY <1>7 DEF DataSteps

\* and at the end of the session.
LEMMA AnswersEndData ==
  ASSUME TypedInv, DataInv, NEW p \in Station, NEW t, Respond(p, t),
         t \in {AnswerDisc(st[p]), AnswerDiscIdle(st[p]), Ended(st[p]), EndedIRS(st[p]), EndedIdle(st[p])}
  PROVE  DataSteps(p)
<1>1. PICK s : s = st[p] /\ DOMAIN s = Fields /\ s.sid \in Station \cup {FF} /\ ~s.tx
  BY DEF TypedInv, Typed
<1>2. Plain(Encode4FSKControl("END", FF)) /\ Plain(Encode4FSKControl("END", s.sid)) /\ Plain(Encode4FSKIDFrame)
  BY <1>1, PlainFrames
<1>3. CASE t \in {AnswerDisc(s), AnswerDiscIdle(s)}
  <2>1. /\ Leaves(t, s, {"lastSid", "idTimer", "discRpt", "rpt", "enc", "tx"}) /\ t.tx
        /\ t.enc \in {Encode4FSKControl("END", FF), Encode4FSKControl("END", s.sid)}
    BY <1>1, <1>3, AnswerDiscIs, AnswerDiscIdleIs
  <2>2. Leaves(t, s, {"abort", "rpt", "discRpt", "repeats", "lastSid", "idTimer", "enc", "tx",
                      "sendTimer", "timedOut"})
    BY <2>1 DEF Leaves, Same
  <2>3. PlaysPlain(s, t)
    BY <1>2, <2>1 DEF PlaysPlain
  <2>4. Moved(p, t, TRUE)
    BY ChangeMoves
  <2>5. DataStep(p, t, TRUE)
    BY <1>1, <2>2, <2>3, <2>4, LeavesData
  <2> QED BY <2>5 DEF DataSteps
<1>4. CASE t \in {Ended(s), EndedIRS(s), EndedIdle(s)}
  <2>1. /\ Leaves(t, s, {"discRpt", "rpt", "enc", "tx"})
        /\ (t.tx /\ t.enc = Encode4FSKIDFrame) \/ (t.enc = s.enc /\ ~t.tx)
    <3>1. CASE t \in {Ended(s), EndedIdle(s)}
      BY <1>1, <3>1, EndedIs, EndedIdleIs
    <3>2. CASE t = EndedIRS(s)
      <4>1. Leaves(t, s, {"discRpt", "rpt"})
        BY <1>1, <3>2, EndedIRSIs
      <4>2. t.enc = s.enc /\ ~t.tx
        BY <1>1, <4>1 DEF Leaves, Leaving, Same, Fields
      <4>3. Leaves(t, s, {"discRpt", "rpt", "enc", "tx"})
        BY <4>1 DEF Leaves, Same
      <4> QED BY <4>2, <4>3
    <3> QED BY <1>4, <3>1, <3>2
  <2>2. Leaves(t, s, {"abort", "rpt", "discRpt", "repeats", "lastSid", "idTimer", "enc", "tx",
                      "sendTimer", "timedOut"})
    BY <2>1 DEF Leaves, Same
  <2>3. PlaysPlain(s, t)
    BY <1>2, <2>1 DEF PlaysPlain
  <2>4. Moved(p, t, TRUE)
    BY ChangeMoves
  <2>5. DataStep(p, t, TRUE)
    BY <1>1, <2>2, <2>3, <2>4, LeavesData
  <2> QED BY <2>5 DEF DataSteps
<1> QED BY <1>1, <1>3, <1>4

\* A station in DISC, and one that was called.
LEMMA CalledData ==
  ASSUME TypedInv, SenderInv, SessionInv, DataInv, NEW p \in Station,
         ReceiveInDISC(p) \/ ReceiveInIRSConAck(p)
  PROVE  DataSteps(p)
<1>1. PICK s, r, f : s = st[p] /\ r = st[Peer(p)] /\ f = air.frame
  OBVIOUS
<1>2. Hears(p, TRUE) /\ s.state \in {"DISC", "IRS"}
  BY <1>1 DEF ReceiveInDISC, ReceiveInIRSConAck, Receives
<1>3. /\ DOMAIN s = Fields /\ r.enc = f /\ f # NONE /\ FrameOK(f) /\ Told(s, r, f) /\ Consistent(p, s)
      /\ Peer(p) \in Station
  BY <1>1, <1>2, HeardData
<1>4. s.lastSid \in Station \cup {FF, NONE} /\ s.arqBW \in Settings
  BY <1>1 DEF TypedInv, Typed, Lasting
<1>5. ~Sending(s)
  BY <1>2 DEF Sending
<1>6. ASSUME NEW u, NEW g, Respond(p, Play(u, g)), Plain(g),
             u \in {[s EXCEPT !.idTimer = TRUE, !.rpt = FALSE], [s EXCEPT !.psid = Peer(p)],
                    [s EXCEPT !.psid = Peer(p), !.rpt = FALSE]}
      PROVE  DataSteps(p)
  <2>1. DOMAIN u = Fields /\ (\A x \in DataFields : u[x] = s[x]) /\ (u.rpt => s.rpt)
    <3>1. CASE u = [s EXCEPT !.idTimer = TRUE, !.rpt = FALSE]
      BY <1>3, <3>1 DEF Fields, DataFields
    <3>2. CASE u = [s EXCEPT !.psid = Peer(p)]
      BY <1>3, <3>2 DEF Fields, DataFields
    <3>3. CASE u = [s EXCEPT !.psid = Peer(p), !.rpt = FALSE]
      BY <1>3, <3>3 DEF Fields, DataFields
    <3> QED BY <1>6, <3>1, <3>2, <3>3
  <2> QED BY <1>1, <1>5, <1>6, <2>1, AnswersPlainly
<1>7. /\ \A type \in {"ConRejBusy", "ConRejBW"} : Plain(Encode4FSKControl(type, Peer(p)))
      /\ Plain(Encode4FSKControl("END", s.lastSid))
  BY <1>3, <1>4, PlainFrames
<1>8. CASE /\ f.type = "ConReq" /\ Offer(s, f) # ConRejBW
           /\ Respond(p, AnswerConReq(s, Peer(p), Offer(s, f)))
  <2>1. Offer(s, f) \in Widths
    BY <1>3, <1>4, <1>8, NegotiatedWidth DEF Offer, FrameOK
  <2> QED BY <1>1, <1>2, <1>8, <2>1, AnswerConReqData
<1>9. CASE ReceiveInDISC(p)
  BY <1>1, <1>6, <1>7, <1>8, <1>9 DEF ReceiveInDISC
<1>10. CASE ReceiveInIRSConAck(p)
  <2>1. CASE f.type = "ConAck"
    <3>1. PICK v, u :
            /\ v = InitModes(s, f.bw.width)
            /\ u = [v EXCEPT !.sid = s.psid, !.connected = TRUE, !.pending = FALSE,
                             !.pendTimer = FALSE, !.sub = "IRSData", !.toHost = NONE, !.rpt = FALSE]
            /\ Respond(p, Play(u, EncodeDATAACK(s.psid)))
      BY <1>1, <1>10, <2>1 DEF ReceiveInIRSConAck
    <3>2. s.state = "IRS" /\ s.sub = "IRSConAck" /\ s.toHost = NONE
      BY <1>1, <1>3, <1>10 DEF ReceiveInIRSConAck, Consistent
    <3>3. Same(v, s, {"bw", "table", "mode"}) /\ DOMAIN v = Fields
      BY <1>3, <3>1, InitModesIs DEF Same
    <3>4. \A x \in DataFields : v[x] = s[x]
      BY <3>3 DEF Same, Fields, DataFields
    <3>5. /\ DOMAIN u = Fields /\ (\A x \in DataFields \ {"sub", "toHost"} : u[x] = v[x])
          /\ u.toHost = NONE /\ u.sub = "IRSData" /\ ~u.rpt
      BY <3>1, <3>3 DEF Fields, DataFields
    <3>6. \A x \in DataFields \ {"sub"} : u[x] = s[x]
      BY <3>2, <3>4, <3>5
    <3>7. ~Sending(r)
      BY <1>3, <2>1 DEF Told
    <3>8. s.psid \in Station \cup {FF, NONE}
      BY <1>1 DEF TypedInv, Typed
    <3>9. /\ \A x \in DataFields \ {"sub"} : u[x] = st[p][x]
          /\ st[p].state = "IRS" /\ ~Sending(st[Peer(p)])
      BY <1>1, <3>2, <3>6, <3>7
    <3> QED BY <3>1, <3>5, <3>8, <3>9, Acknowledges
  <2> QED BY <1>1, <1>6, <1>7, <1>8, <1>10, <2>1 DEF ReceiveInIRSConAck
<1> QED BY <1>9, <1>10

\* A station that receives hears something else than data, or breaks in.
LEMMA ReceivingData ==
  ASSUME TypedInv, SenderInv, SessionInv, DataInv, NEW p \in Station,
         BreakInstead(p) \/ ReceiveControlInIRS(p) \/ ReceiveConAckInIRS(p)
  PROVE  DataSteps(p)
<1>1. PICK s, r, f : s = st[p] /\ r = st[Peer(p)] /\ f = air.frame
  OBVIOUS
<1>2. PICK ok : Hears(p, ok)
  BY DEF BreakInstead, ReceiveControlInIRS, ReceiveConAckInIRS, IRSReceiving, Receives
<1>3. /\ DOMAIN s = Fields /\ r.enc = f /\ f # NONE /\ FrameOK(f) /\ Told(s, r, f)
      /\ Consistent(p, s) /\ Consistent(Peer(p), r) /\ Owes(s, r) /\ Owes(r, s)
      /\ s.sid \in Station \cup {FF}
  BY <1>1, <1>2, HeardData
<1>4. ASSUME s.state = "IRS", s.sub = "IRSData"
      PROVE  Joined(s)
  BY <1>4 DEF Joined, Stranded, Calling, Confirming, Called
<1>5. ASSUME s.state = "IRS", f.type \in {"BREAK", "IDLE", "ConAck"}, NEW u, DOMAIN u = Fields,
             \A x \in DataFields : u[x] = s[x], ~u.rpt, Respond(p, Play(u, EncodeDATAACK(s.sid)))
      PROVE  DataSteps(p)
  <2>1. ~Sending(r)
    BY <1>3, <1>5 DEF Told
  <2>2. u.sub = s.sub
    BY <1>5 DEF DataFields
  <2> QED BY <1>1, <1>3, <1>5, <2>1, <2>2, Acknowledges
<1>6. CASE BreakInstead(p)
  <2>1. CASE BreaksIn(s, f) /\ Respond(p, StartBreak([s EXCEPT !.breakCmd = FALSE]))
    <3>1. PICK u : u = [s EXCEPT !.breakCmd = FALSE]
      OBVIOUS
    <3>2. DOMAIN u = Fields /\ (\A x \in DataFields : u[x] = s[x]) /\ u.sid = s.sid
      BY <1>3, <3>1 DEF Fields, DataFields
    <3>3. s.state = "IRS" /\ Joined(s) /\ Long(f)
      BY <1>4, <2>1 DEF BreaksIn
    <3>4. ASSUME r.state = "IRS" PROVE r.toHost = NONE
      <4>1. f.type # "DATA" /\ (f.type = "ConAck" => r.toHost = NONE)
        BY <1>3, <3>4 DEF Consistent, Played
      <4>2. f.type # "ConReq"
        <5>1. Plays(Peer(p), r)
          BY <1>1, <1>2, Heard
        <5> QED BY <1>3, <3>4, <5>1 DEF Plays, Calling
      <4>3. f.type # "ID"
        <5>1. f.type = "ID" => f.id = FF
          BY <1>3 DEF Consistent, Played
        <5>2. f.id = s.sid
          BY <1>1, <1>2, <3>3, <4>2, Heard
        <5>3. s.sid \in Station
          BY <1>1, <3>3 DEF SessionInv, InPhase
        <5> QED BY <5>1, <5>2, <5>3, ArqAssumption
      <4> QED BY <3>3, <4>1, <4>2, <4>3 DEF Long
    <3>5. /\ \A x \in DataFields : u[x] = st[p][x]
          /\ st[p].state = "IRS" /\ u.sid \in Station \cup {FF}
          /\ st[Peer(p)].state = "IRS" => st[Peer(p)].toHost = NONE
      BY <1>1, <1>3, <3>2, <3>3, <3>4
    <3>6. Respond(p, StartBreak(u))
      BY <2>1, <3>1
    <3> QED BY <3>2, <3>5, <3>6, BreakData
  <2>2. CASE /\ s.state = "IRStoISS" /\ f.type = "DATA"
             /\ Respond(p, Play([s EXCEPT !.rpt = TRUE], Encode4FSKControl("BREAK", s.sid)))
    <3>1. PICK u, t : /\ u = [s EXCEPT !.rpt = TRUE] /\ t = Play(u, Encode4FSKControl("BREAK", s.sid))
                      /\ Respond(p, t)
      BY <2>2
    <3>2. DOMAIN u = Fields /\ (\A x \in DataFields : u[x] = s[x])
      BY <1>3, <3>1 DEF Fields, DataFields
    <3>3. Same(t, u, {"enc", "tx"}) /\ t.enc = Encode4FSKControl("BREAK", s.sid) /\ t.tx
      BY <3>1, <3>2, PlayIs
    <3>4. /\ DOMAIN t = Fields /\ t.state = s.state /\ t.given = s.given /\ t.got = s.got
          /\ t.confirmed = s.confirmed /\ t.queue = s.queue /\ t.toHost = s.toHost
      BY <3>2, <3>3 DEF Same, Fields, DataFields
    <3>5. t.enc.type = "BREAK" /\ t.enc # NONE
      <4>1. FrameOK(t.enc)
        BY <1>3, <3>3, ControlFrames
      <4> QED BY <3>3, <4>1, FramesAreThere DEF Encode4FSKControl
    <3>6. ~Sending(s) /\ ~Sending(t) /\ ~Confirming(t) /\ ~Played(t, {"DATA"})
      BY <2>2, <3>4, <3>5 DEF Sending, Confirming, Played
    <3>7. Consistent(p, t)
      BY <1>3, <2>2, <3>4, <3>5, <3>6 DEF Consistent, Played
    <3>8. Told(r, t, t.enc)
      BY <3>5, <3>6 DEF Told
    <3>9. r.state = "IRS" => r.toHost = NONE
      BY <1>3, <2>2 DEF Owes
    <3> QED BY <1>1, <2>2, <3>1, <3>4, <3>6, <3>7, <3>8, <3>9, AnswersQuietly
  <2> QED BY <1>1, <1>6, <2>1, <2>2 DEF BreakInstead
<1>7. CASE ReceiveControlInIRS(p)
  <2>1. s.state = "IRS"
    BY <1>1, <1>7 DEF ReceiveControlInIRS, IRSReceiving
  <2>2. CASE Respond(p, AnswerDisc(s)) \/ Respond(p, EndedIRS(s))
    BY <1>1, <2>2, AnswersEndData
  <2>3. CASE /\ f.type \in {"BREAK", "IDLE"}
             /\ Respond(p, Play([s EXCEPT !.rpt = FALSE], EncodeDATAACK(s.sid)))
    <3>1. PICK u : u = [s EXCEPT !.rpt = FALSE]
      OBVIOUS
    <3>2. DOMAIN u = Fields /\ (\A x \in DataFields : u[x] = s[x]) /\ ~u.rpt
      BY <1>3, <3>1 DEF Fields, DataFields
    <3> QED BY <1>5, <2>1, <2>3, <3>1, <3>2
  <2>4. CASE Respond(p, CheckForDisconnect(s))
    BY <1>1, <2>4, DisconnectsData
  <2>5. CASE f.type = "IDLE" /\ Respond(p, StartBreak(s))
    <3>1. r.state # "IRS"
      BY <1>3, <2>5 DEF Consistent, Played
    <3> QED BY <1>1, <1>3, <2>1, <2>5, <3>1, BreakData
  <2> QED BY <1>1, <1>7, <2>2, <2>3, <2>4, <2>5 DEF ReceiveControlInIRS
<1>8. CASE ReceiveConAckInIRS(p)
  <2>1. s.state = "IRS" /\ f.type = "ConAck"
    BY <1>1, <1>8 DEF ReceiveConAckInIRS, IRSReceiving
  <2>2. PICK u : u = [s EXCEPT !.bw = f.bw.width] /\ Respond(p, Play(u, EncodeDATAACK(s.sid)))
    BY <1>1, <1>8 DEF ReceiveConAckInIRS
  <2>3. DOMAIN u = Fields /\ (\A x \in DataFields : u[x] = s[x]) /\ u.rpt = s.rpt
    BY <1>3, <2>2 DEF Fields, DataFields
  <2>4. ~s.rpt
    BY <1>3, <2>1 DEF Consistent
  <2> QED BY <1>5, <2>1, <2>2, <2>3, <2>4
<1> QED BY <1>6, <1>7, <1>8

\* A station that receives takes a data frame that is new to it, and acknowledges one that it took.
LEMMA TakesData ==
  ASSUME TypedInv, SenderInv, SessionInv, DataInv, NEW p \in Station, ReceiveDataInIRS(p)
  PROVE  DataSteps(p)
<1>1. PICK s, r, f : s = st[p] /\ r = st[Peer(p)] /\ f = air.frame
  OBVIOUS
<1>2. /\ Hears(p, TRUE) /\ f.type = "DATA" /\ s.state = "IRS"
  BY <1>1 DEF ReceiveDataInIRS, IRSReceiving, Receives
<1>3. /\ DOMAIN s = Fields /\ r.enc = f /\ f # NONE /\ FrameOK(f)
      /\ Consistent(p, s) /\ Owes(s, r) /\ Owes(r, s) /\ s.sid \in Station \cup {FF}
  BY <1>1, <1>2, HeardData
<1>4. PICK got, u, t :
        /\ got = IF IsNew(s, f) THEN s.got \o f.data ELSE s.got
        /\ u = [s EXCEPT !.got = got, !.toHost = FrameType(f), !.lastAcked = FrameType(f),
                         !.sub = "IRSData", !.rpt = FALSE]
        /\ t = Play(u, EncodeDATAACK(s.sid)) /\ Respond(p, t)
  BY <1>1 DEF ReceiveDataInIRS
<1>5. /\ DOMAIN u = Fields /\ u.got = got /\ u.toHost = FrameType(f) /\ u.lastAcked = FrameType(f)
      /\ u.sub = "IRSData" /\ ~u.rpt
      /\ u.state = s.state /\ u.queue = s.queue /\ u.given = s.given /\ u.confirmed = s.confirmed
  <2>1. PICK n : n = FrameType(f)
    OBVIOUS
  <2>2. u = [s EXCEPT !.got = got, !.toHost = n, !.lastAcked = n, !.sub = "IRSData", !.rpt = FALSE]
    BY <1>4, <2>1
  <2>3. /\ DOMAIN u = Fields /\ u.got = got /\ u.toHost = n /\ u.lastAcked = n
        /\ u.sub = "IRSData" /\ ~u.rpt
    <3>1. DOMAIN u = DOMAIN s
      BY <2>2
    <3>2. {"got", "toHost", "lastAcked", "sub", "rpt"} \subseteq DOMAIN s
      BY <1>3 DEF Fields
    <3>3. u.got = got /\ u.toHost = n /\ u.lastAcked = n
      BY <2>2, <3>2
    <3>4. u.sub = "IRSData" /\ ~u.rpt
      BY <2>2, <3>2
    <3> QED BY <1>3, <3>1, <3>3, <3>4
  <2>4. u.state = s.state /\ u.queue = s.queue /\ u.given = s.given /\ u.confirmed = s.confirmed
    BY <1>3, <2>2 DEF Fields
  <2> QED BY <2>1, <2>3, <2>4
<1>6. Same(t, u, {"enc", "tx"}) /\ t.enc = EncodeDATAACK(s.sid) /\ t.tx
  <2>1. t = Play(u, EncodeDATAACK(s.sid)) /\ DOMAIN u = Fields
    BY <1>4, <1>5
  <2> QED BY <2>1, PlayIs
<1>7. /\ DOMAIN t = Fields /\ t.got = got /\ t.toHost = FrameType(f) /\ t.lastAcked = FrameType(f)
      /\ t.sub = "IRSData" /\ ~t.rpt
      /\ t.state = "IRS" /\ t.queue = s.queue /\ t.given = s.given /\ t.confirmed = s.confirmed
  BY <1>2, <1>5, <1>6 DEF Same, Fields
<1>8. t.enc.type = "ACK" /\ t.enc # NONE
  <2>1. FrameOK(t.enc)
    BY <1>3, <1>6, ControlFrames
  <2> QED BY <1>6, <2>1, FramesAreThere DEF EncodeDATAACK, Encode4FSKControl
<1>9. ~Sending(s) /\ ~Sending(t) /\ ~Confirming(t) /\ ~Played(t, {"DATA"})
  BY <1>2, <1>7, <1>8 DEF Sending, Confirming, Played
<1>10. /\ f.mode \in Nat /\ f.par \in {0, 1} /\ f.data \in Seq(Nat)
       /\ FrameType(f) = <<f.mode, f.par>> /\ FrameType(f) \in Nat \X {0, 1}
       /\ FrameType(f)[2] = f.par /\ FrameType(f) # NONE
  BY <1>2, <1>3, NoneAssumption DEF FrameOK, Frame, FrameType
<1>11. s.got \in Seq(Nat) /\ r.given \in Nat
  <2>1. MaxItems[Peer(p)] \in Nat
    BY TwoStations, ArqAssumption
  <2> QED BY <1>1, <1>3, <2>1, TwoStations DEF Consistent, TypedInv, Typed, Lasting
\* The frame is new, or was taken before.
<1>12. /\ Played(r, {"DATA"}) /\ Carried(r, f, s)
       /\ r.state \notin {"IDLE", "IRStoISS"} /\ ~Confirming(r)
  <2>1. Played(r, {"DATA"})
    BY <1>2, <1>3 DEF Played
  <2> QED BY <1>3, <2>1 DEF Owes
<1>13. \A i \in 1 .. Len(f.data) : f.data[i] = f.data[1] + i - 1 /\ f.data[i] \in 1 .. r.given
  BY <1>12 DEF Carried
<1>14. \A i \in 1 .. Len(s.got) : s.got[i] \in 1 .. r.given
  BY <1>3 DEF Owes
<1>15. /\ got \in Seq(Nat) /\ Came(f, t)
       /\ Unseen(s, t) \/ Delivers(s, t, r)
       /\ \A i \in 1 .. Len(got) : got[i] \in 1 .. r.given
       /\ Top(got) = Top(s.got) \/ \E i \in 1 .. Len(f.data) : Top(got) = f.data[i]
  <2>1. CASE Coming(f, s)
    <3>1. got = s.got \o f.data /\ Above(f.data, s.got)
      <4>1. s.toHost # FrameType(f)
        BY <1>10, <2>1 DEF Coming, Fresh
      <4> QED BY <1>4, <2>1, <4>1 DEF IsNew, Coming
    <3>0. s.got \in Seq(Nat) /\ f.data \in Seq(Nat) /\ got = s.got \o f.data
      BY <1>10, <1>11, <3>1
    <3>2. /\ got \in Seq(Nat)
          /\ \A i \in 1 .. Len(got) : \/ i \in 1 .. Len(s.got) /\ got[i] = s.got[i]
                                      \/ \E k \in 1 .. Len(f.data) : got[i] = f.data[k]
          /\ \A k \in 1 .. Len(f.data) : \E i \in 1 .. Len(got) : got[i] = f.data[k]
          /\ f.data = <<>> => got = s.got
          /\ f.data # <<>> => Top(got) = f.data[Len(f.data)] /\ Len(f.data) \in Nat \ {0}
      <4>1. MadeOf(got, s.got, f.data)
        BY <3>0, MoreItems
      <4> QED BY <4>1 DEF MadeOf
    <3>3. Top(got) = Top(s.got) \/ \E i \in 1 .. Len(f.data) : Top(got) = f.data[i]
      BY <3>2
    <3>4. \A i \in 1 .. Len(got) : got[i] \in 1 .. r.given
      BY <1>13, <1>14, <3>2
    <3>5. Came(f, t)
      BY <1>7, <3>2 DEF Came
    <3>6. Delivers(s, t, r)
      BY <1>7, <1>10, <1>13, <3>1 DEF Delivers
    <3> QED BY <3>2, <3>3, <3>4, <3>5, <3>6
  <2>2. CASE ~Coming(f, s)
    <3>1. Came(f, s) /\ s.toHost = FrameType(f)
      BY <1>12, <2>2 DEF Carried, Came
    <3>2. got = s.got
      BY <1>4, <3>1 DEF IsNew
    <3>3. Came(f, t)
      BY <1>7, <3>1, <3>2 DEF Came
    <3>4. Unseen(s, t)
      BY <1>7, <3>2 DEF Unseen
    <3> QED BY <1>11, <1>14, <3>2, <3>3, <3>4
  <2> QED BY <2>1, <2>2
<1>16. Consistent(p, t)
  <2>1. /\ t.got \in Seq(Nat) /\ t.toHost \in (Nat \X {0, 1}) \cup {NONE}
        /\ ~Played(t, {"DATA", "IDLE"}) /\ ~Played(t, {"ConAck"}) /\ ~Played(t, {"NAK"})
        /\ ~Played(t, {"ID", "ConReq"})
    BY <1>7, <1>8, <1>10, <1>15 DEF Played
  <2> QED BY <1>7, <1>9, <2>1 DEF Consistent
<1>17. Told(r, t, t.enc)
  BY <1>3, <1>8, <1>12, <1>15 DEF Told
<1>18. Owes(t, r)
  <2>1. t.state # "IDLE" /\ t.state # "IRStoISS" /\ (t.queue = s.queue /\ ~Sending(s))
    BY <1>7, <1>9
  <2> QED BY <1>3, <1>7, <1>9, <2>1, OwesQuiet
<1>19. ASSUME NEW y \in Nat, Top(s.got) < y, \A i \in 1 .. Len(f.data) : f.data[i] < y
       PROVE  Top(t.got) < y
  BY <1>7, <1>15, <1>19
<1>20. /\ Len(r.queue) \in Nat /\ Len(r.queue) <= r.given
       /\ \A i \in 1 .. Len(r.queue) : r.queue[i] = r.given - Len(r.queue) + i /\ r.queue[i] \in Nat
  <2>1. r.queue \in Seq(1 .. MaxItems[Peer(p)]) /\ Len(r.queue) <= r.given
    BY <1>1, TwoStations DEF TypedInv, Typed
  <2>2. \A i \in 1 .. Len(r.queue) : r.queue[i] = r.given - Len(r.queue) + i
    BY <1>3 DEF Owes
  <2>3. Len(r.queue) \in Nat
    BY <2>1
  <2> QED BY <1>11, <2>1, <2>2, <2>3
<1>21. ~Sending(r) => Above(r.queue, t.got)
  <2> SUFFICES ASSUME ~Sending(r), NEW i \in 1 .. Len(r.queue) PROVE Top(t.got) < r.queue[i]
    BY DEF Above
  <2>1. Top(s.got) < r.queue[i]
    BY <1>3 DEF Owes, Above
  <2>2. \A k \in 1 .. Len(f.data) : f.data[k] < r.queue[i]
    BY <1>12 DEF Carried
  <2> QED BY <1>19, <1>20, <2>1, <2>2
<1>22. Sending(r) => InFront(r, f, t)
  <2> SUFFICES ASSUME Sending(r) PROVE InFront(r, f, t)
    OBVIOUS
  <2>1. InFront(r, f, s)
    BY <1>12 DEF Carried
  <2>2. r.inProcess \in Nat /\ r.inProcess = Len(f.data) /\ r.inProcess <= Len(r.queue)
    BY <1>10, <2>1 DEF InFront
  <2>3. ASSUME NEW i \in r.inProcess + 1 .. Len(r.queue) PROVE Top(t.got) < r.queue[i]
    <3>1. Top(s.got) < r.queue[i]
      BY <2>1 DEF InFront
    <3>2. i \in 1 .. Len(r.queue) /\ r.queue[i] = r.given - Len(r.queue) + i
      BY <1>20, <2>2
    <3>3. ASSUME NEW k \in 1 .. Len(f.data) PROVE f.data[k] < r.queue[i]
      <4>1. k \in 1 .. r.inProcess /\ k \in 1 .. Len(r.queue) /\ k < i
        BY <1>20, <2>2
      <4>2. f.data[k] = r.given - Len(r.queue) + k
        BY <1>20, <2>1, <4>1 DEF InFront
      <4> QED BY <1>11, <1>20, <3>2, <4>1, <4>2
    <3> QED BY <1>19, <1>20, <3>1, <3>2, <3>3
  <2> QED BY <2>1, <2>3 DEF InFront
<1>23. Carried(r, f, t)
  BY <1>12, <1>13, <1>15, <1>22 DEF Carried
<1>24. Owes(r, t)
  BY <1>3, <1>7, <1>12, <1>15, <1>20, <1>21, <1>23 DEF Owes
<1> QED BY <1>1, <1>4, <1>7, <1>15, <1>16, <1>17, <1>18, <1>24, Answers

\* A station that receives acknowledges a data frame that it took, though it did not decode it
\* this time, and asks for one that it did not take.
LEMMA RefusesData ==
  ASSUME TypedInv, SenderInv, SessionInv, DataInv, NEW p \in Station, ReceiveBadDataInIRS(p)
  PROVE  DataSteps(p)
<1>1. PICK s, r, f : s = st[p] /\ r = st[Peer(p)] /\ f = air.frame
  OBVIOUS
<1>2. /\ Hears(p, FALSE) /\ f.type = "DATA" /\ s.state = "IRS"
  BY <1>1 DEF ReceiveBadDataInIRS, IRSReceiving, Receives
<1>3. /\ DOMAIN s = Fields /\ r.enc = f /\ f # NONE /\ FrameOK(f)
      /\ Consistent(p, s) /\ Owes(s, r) /\ Owes(r, s) /\ s.sid \in Station \cup {FF}
  BY <1>1, <1>2, HeardData
<1>4. Played(r, {"DATA"}) /\ Carried(r, f, s) /\ r.state \notin {"IDLE", "IRStoISS"} /\ ~Confirming(r)
  <2>1. Played(r, {"DATA"})
    BY <1>2, <1>3 DEF Played
  <2> QED BY <1>3, <2>1 DEF Owes
<1>5. FrameType(f) = s.lastAcked <=> Came(f, s)
  <2>1. FrameType(f)[2] = f.par /\ FrameType(f) # NONE
    <3>1. FrameType(f) = <<f.mode, f.par>> /\ f.mode \in Nat /\ f.par \in {0, 1}
      BY <1>2, <1>3 DEF FrameOK, Frame, FrameType
    <3> QED BY <3>1, NoneAssumption
  <2>2. s.lastAcked = s.toHost
    BY <1>2, <1>3 DEF Consistent
  <2>3. ASSUME Coming(f, s) PROVE s.toHost # FrameType(f)
    BY <2>1, <2>3 DEF Coming, Fresh
  <2> QED BY <1>4, <2>2, <2>3 DEF Carried, Came
<1>6. CASE /\ FrameType(f) = s.lastAcked
           /\ Respond(p, Play([s EXCEPT !.rpt = FALSE], EncodeDATAACK(s.sid)))
  <2>1. PICK u : u = [s EXCEPT !.rpt = FALSE]
    OBVIOUS
  <2>2. DOMAIN u = Fields /\ (\A x \in DataFields : u[x] = s[x]) /\ ~u.rpt
    BY <1>3, <2>1 DEF Fields, DataFields
  <2>3. Came(f, s) /\ u.sub = s.sub
    BY <1>5, <1>6, <2>2 DEF DataFields
  <2> QED BY <1>1, <1>2, <1>3, <1>4, <1>6, <2>1, <2>2, <2>3, Acknowledges
<1>7. CASE /\ FrameType(f) # s.lastAcked
           /\ Respond(p, Play([s EXCEPT !.sub = "IRSData", !.rpt = FALSE], EncodeDATANAK(s.sid)))
  <2>1. PICK u, t : /\ u = [s EXCEPT !.sub = "IRSData", !.rpt = FALSE]
                    /\ t = Play(u, EncodeDATANAK(s.sid)) /\ Respond(p, t)
    BY <1>7
  <2>2. DOMAIN u = Fields /\ (\A x \in DataFields \ {"sub"} : u[x] = s[x]) /\ ~u.rpt /\ u.sub = "IRSData"
    BY <1>3, <2>1 DEF Fields, DataFields
  <2>3. Same(t, u, {"enc", "tx"}) /\ t.enc = EncodeDATANAK(s.sid) /\ t.tx
    BY <2>1, <2>2, PlayIs
  <2>4. /\ DOMAIN t = Fields /\ t.state = "IRS" /\ t.given = s.given /\ t.got = s.got
        /\ t.confirmed = s.confirmed /\ t.queue = s.queue /\ t.toHost = s.toHost
        /\ t.lastAcked = s.lastAcked /\ ~t.rpt /\ t.sub = "IRSData"
    BY <1>2, <2>2, <2>3 DEF Same, Fields, DataFields
  <2>5. t.enc.type = "NAK" /\ t.enc # NONE
    <3>1. FrameOK(t.enc)
      BY <1>3, <2>3, ControlFrames
    <3> QED BY <2>3, <3>1, FramesAreThere DEF EncodeDATANAK, Encode4FSKControl
  <2>6. ~Sending(s) /\ ~Sending(t) /\ ~Confirming(t) /\ ~Played(t, {"DATA"})
    BY <1>2, <2>4, <2>5 DEF Sending, Confirming, Played
  <2>7. Consistent(p, t)
    BY <1>2, <1>3, <2>4, <2>5, <2>6 DEF Consistent, Played
  <2>8. Told(r, t, t.enc)
    <3>1. Coming(f, s)
      BY <1>4, <1>5, <1>7 DEF Carried
    <3>2. Coming(f, t)
      BY <2>4, <3>1 DEF Coming, Fresh
    <3> QED BY <1>3, <1>4, <2>5, <3>2 DEF Told
  <2> QED BY <1>1, <1>2, <2>1, <2>4, <2>6, <2>7, <2>8, AnswersQuietly
<1> QED BY <1>1, <1>6, <1>7 DEF ReceiveBadDataInIRS

\* The station that was sending, or asked who is next, leaves that to the one that said BREAK.
LEMMA TurnsOverData ==
  ASSUME TypedInv, DataInv, NEW p \in Station, NEW u, Respond(p, TurnOver(u)),
         DOMAIN u = Fields, u.state \in {"ISS", "IDLE"}, u.sid \in Station \cup {FF},
         u.given = st[p].given, u.got = st[p].got, u.confirmed = st[p].confirmed,
         u.queue = <<>> \/ (u.queue = st[p].queue /\ ~Sending(st[p])),
         ~Sending(st[Peer(p)]), ~Played(st[Peer(p)], {"DATA"})
  PROVE  DataSteps(p)
<1>1. PICK s, r : s = st[p] /\ r = st[Peer(p)] /\ Consistent(p, s)
  BY DEF DataInv
<1>2. PICK t : t = TurnOver(u) /\ Respond(p, t)
  OBVIOUS
<1>3. /\ Same(t, u, {"state", "lastAcked", "rpt", "sub", "toHost", "enc", "tx"})
      /\ t.state = "IRS" /\ ~t.rpt /\ t.toHost = NONE /\ t.enc = EncodeDATAACK(u.sid) /\ t.tx
      /\ t.sub = "IRSfromISS"
  BY <1>2, TurnOverIs
<1>4. t.lastAcked = NONE
  BY <1>2 DEF TurnOver, AckBreak, BecomeIRS, SetARDOPProtocolState, Play, Fields
<1>5. /\ DOMAIN t = Fields /\ t.given = s.given /\ t.got = s.got /\ t.confirmed = s.confirmed
      /\ t.queue = <<>> \/ (t.queue = s.queue /\ ~Sending(s))
  BY <1>1, <1>3 DEF Same, Fields
<1>6. t.enc.type = "ACK" /\ t.enc # NONE
  <2>1. FrameOK(t.enc)
    BY <1>3, ControlFrames
  <2> QED BY <1>3, <2>1, FramesAreThere DEF EncodeDATAACK, Encode4FSKControl
<1>7. ~Sending(t) /\ ~Confirming(t) /\ ~Played(t, {"DATA"})
  BY <1>3, <1>6 DEF Sending, Confirming, Played
<1>8. Consistent(p, t)
  BY <1>1, <1>3, <1>4, <1>5, <1>6, <1>7 DEF Consistent, Played
<1>9. Told(r, t, t.enc)
  BY <1>1, <1>3, <1>6 DEF Told
<1> QED BY <1>1, <1>2, <1>3, <1>5, <1>7, <1>8, <1>9, AnswersQuietly

\* A station that takes over.
LEMMA TakesOverData ==
  ASSUME TypedInv, SenderInv, SessionInv, DataInv, NEW p \in Station, ReceiveInIRStoISS(p)
  PROVE  DataSteps(p)
<1>1. PICK s, r, f : s = st[p] /\ r = st[Peer(p)] /\ f = air.frame
  OBVIOUS
<1>2. Hears(p, TRUE) /\ s.state = "IRStoISS" /\ f.type = "ACK"
  BY <1>1 DEF ReceiveInIRStoISS
<1>3. /\ DOMAIN s = Fields /\ ~s.tx /\ r.enc = f /\ Told(s, r, f) /\ Owes(s, r) /\ Owes(r, s)
  BY <1>1, <1>2, HeardData
<1>4. PICK u : /\ u = [SetARDOPProtocolState(s, "ISS") EXCEPT !.sub = "ISSData", !.toHost = NONE]
               /\ Respond(p, SendData(u, 0))
  BY <1>1 DEF ReceiveInIRStoISS
<1>5. u = [s EXCEPT !.state = "ISS", !.rpt = FALSE, !.sub = "ISSData", !.toHost = NONE]
  BY <1>2, <1>3, <1>4 DEF SetARDOPProtocolState
<1>6. /\ DOMAIN u = Fields /\ u.state = "ISS" /\ u.sub = "ISSData" /\ u.toHost = NONE /\ u.tx = s.tx
      /\ u.enc = s.enc /\ u.queue = s.queue /\ u.given = s.given /\ u.got = s.got
      /\ u.confirmed = s.confirmed /\ u.mode = s.mode /\ u.table = s.table /\ u.acked = s.acked
      /\ \A x \in Fields \ (Loose \cup {"state", "sub"}) : u[x] = s[x]
  BY <1>3, <1>5 DEF Fields, Loose
<1>7. Typed(p, u)
  <2>1. /\ Same(u, s, Loose \cup Bound) /\ u.sid = s.sid /\ u.psid = s.psid
        /\ u.lastSid = s.lastSid /\ u.repeats = s.repeats
    BY <1>3, <1>6 DEF Same, Loose, Bound, Fields
  <2>2. Typed(p, s) /\ s.state # "DISC"
    BY <1>1, <1>2 DEF TypedInv
  <2> QED BY <1>6, <2>1, <2>2, Retyped DEF Typed, States
<1>8. u.mode + 0 \in 0 .. LastMode(u.table)
  BY <1>7, Shifts
<1>9. r.toHost = NONE
  BY <1>2, <1>3 DEF Told
<1>10. ~Played(s, {"DATA"}) /\ ~Sending(s) /\ ~Played(r, {"DATA"})
  BY <1>2, <1>3 DEF Owes, Played, Sending
<1>11. /\ Above(u.queue, r.got) /\ Fresh(r, 1 - u.acked)
       /\ \A i \in 1 .. Len(u.queue) : u.queue[i] = u.given - Len(u.queue) + i
  BY <1>3, <1>6, <1>9, <1>10 DEF Owes, Fresh
<1>12. Owes(r, u)
  BY <1>3, <1>6, <1>10, OwedAsBefore
<1>13. ~Played(u, {"DATA"}) /\ Unseen(s, u)
  BY <1>6, <1>10 DEF Played, Unseen
<1>14. /\ u.mode + 0 \in 0 .. LastMode(u.table) /\ ~u.tx /\ 0 \in Int
       /\ u.state = "ISS" /\ u.sub = "ISSData" /\ u.enc = st[p].enc
       /\ st[p].state \in {"ISS", "IDLE", "IRStoISS"} /\ u.toHost \in {st[p].toHost, NONE}
       /\ Unseen(st[p], u) \/ Confirms(st[p], u, st[Peer(p)])
  BY <1>1, <1>2, <1>3, <1>6, <1>8, <1>13
<1>15. /\ \A i \in 1 .. Len(u.queue) : u.queue[i] = u.given - Len(u.queue) + i
       /\ Above(u.queue, st[Peer(p)].got) /\ Fresh(st[Peer(p)], 1 - u.acked)
       /\ u.discRpt => ~Played(u, {"DATA"})
       /\ Owes(st[Peer(p)], u)
  BY <1>1, <1>11, <1>12, <1>13
<1> QED BY <1>4, <1>7, <1>14, <1>15, SendsData

\* A station that has nothing to send and is answered.
LEMMA IdleData ==
  ASSUME TypedInv, SenderInv, SessionInv, DataInv, NEW p \in Station, ReceiveInIDLE(p)
  PROVE  DataSteps(p)
<1>1. PICK s, r, f : s = st[p] /\ r = st[Peer(p)] /\ f = air.frame
  OBVIOUS
<1>2. Hears(p, TRUE) /\ s.state = "IDLE"
  BY <1>1 DEF ReceiveInIDLE, Receives
<1>3. /\ DOMAIN s = Fields /\ ~s.tx /\ r.enc = f /\ Told(s, r, f) /\ Owes(s, r) /\ Owes(r, s)
      /\ s.sid \in Station \cup {FF}
  BY <1>1, <1>2, HeardData
<1>4. ~Played(s, {"DATA"}) /\ ~Sending(s)
  BY <1>2, <1>3 DEF Owes, Sending
<1>5. CASE Respond(p, SendData([SetARDOPProtocolState(s, "ISS") EXCEPT !.sub = "ISSData"], 0))
  <2>1. PICK u : u = [SetARDOPProtocolState(s, "ISS") EXCEPT !.sub = "ISSData"]
    OBVIOUS
  <2>2. u = [s EXCEPT !.state = "ISS", !.rpt = FALSE, !.sub = "ISSData"]
    BY <1>2, <1>3, <2>1 DEF SetARDOPProtocolState
  <2>3. /\ DOMAIN u = Fields /\ u.state = "ISS" /\ u.sub = "ISSData" /\ u.toHost = s.toHost
        /\ u.tx = s.tx /\ u.enc = s.enc /\ u.queue = s.queue /\ u.given = s.given /\ u.got = s.got
        /\ u.confirmed = s.confirmed /\ u.mode = s.mode /\ u.table = s.table /\ u.acked = s.acked
        /\ \A x \in Fields \ (Loose \cup {"state", "sub"}) : u[x] = s[x]
    BY <1>3, <2>2 DEF Fields, Loose
  <2>4. Typed(p, u)
    <3>1. /\ Same(u, s, Loose \cup Bound) /\ u.sid = s.sid /\ u.psid = s.psid
          /\ u.lastSid = s.lastSid /\ u.repeats = s.repeats
      BY <1>3, <2>3 DEF Same, Loose, Bound, Fields
    <3>2. Typed(p, s) /\ s.state # "DISC"
      BY <1>1, <1>2 DEF TypedInv
    <3> QED BY <2>3, <3>1, <3>2, Retyped DEF Typed, States
  <2>5. u.mode + 0 \in 0 .. LastMode(u.table)
    BY <2>4, Shifts
  <2>6. /\ Above(u.queue, r.got) /\ Fresh(r, 1 - u.acked)
        /\ \A i \in 1 .. Len(u.queue) : u.queue[i] = u.given - Len(u.queue) + i
    BY <1>2, <1>3, <1>4, <2>3 DEF Owes
  <2>7. Owes(r, u)
    BY <1>3, <2>3, OwedAsBefore
  <2>8. ~Played(u, {"DATA"}) /\ Unseen(s, u)
    BY <1>4, <2>3 DEF Played, Unseen
  <2>9. /\ u.mode + 0 \in 0 .. LastMode(u.table) /\ ~u.tx /\ 0 \in Int
        /\ u.state = "ISS" /\ u.sub = "ISSData" /\ u.enc = st[p].enc
        /\ st[p].state \in {"ISS", "IDLE", "IRStoISS"} /\ u.toHost \in {st[p].toHost, NONE}
        /\ Unseen(st[p], u) \/ Confirms(st[p], u, st[Peer(p)])
    BY <1>1, <1>2, <1>3, <2>3, <2>5, <2>8
  <2>10. /\ \A i \in 1 .. Len(u.queue) : u.queue[i] = u.given - Len(u.queue) + i
         /\ Above(u.queue, st[Peer(p)].got) /\ Fresh(st[Peer(p)], 1 - u.acked)
         /\ u.discRpt => ~Played(u, {"DATA"})
         /\ Owes(st[Peer(p)], u)
    BY <1>1, <2>6, <2>7, <2>8
  <2>11. Respond(p, SendData(u, 0))
    BY <1>5, <2>1
  <2> QED BY <2>4, <2>9, <2>10, <2>11, SendsData
<1>6. CASE f.type = "BREAK" /\ Respond(p, TurnOver(s))
  <2>1. ~Sending(r) /\ ~Played(r, {"DATA"})
    BY <1>3, <1>6 DEF Told, Played
  <2>2. s.state \in {"ISS", "IDLE"} /\ ~Sending(st[Peer(p)]) /\ ~Played(st[Peer(p)], {"DATA"})
        /\ Respond(p, TurnOver(s)) /\ s.given = st[p].given /\ s.got = st[p].got
        /\ s.confirmed = st[p].confirmed /\ s.queue = st[p].queue /\ ~Sending(st[p])
    BY <1>1, <1>2, <1>4, <1>6, <2>1
  <2> QED BY <1>3, <2>2, TurnsOverData
<1>7. CASE Respond(p, AnswerDiscIdle(s)) \/ Respond(p, EndedIdle(s))
  BY <1>1, <1>7, AnswersEndData
<1> QED BY <1>1, <1>5, <1>6, <1>7 DEF ReceiveInIDLE

\* A station that calls.
LEMMA CallingData ==
  ASSUME TypedInv, SenderInv, SessionInv, DataInv, NEW p \in Station, ReceiveInISSConReq(p)
  PROVE  DataSteps(p)
<1>1. PICK s, r, f : s = st[p] /\ r = st[Peer(p)] /\ f = air.frame
  OBVIOUS
<1>2. Hears(p, TRUE) /\ s.state = "ISS" /\ s.sub = "ISSConReq"
  BY <1>1 DEF ReceiveInISSConReq, Receives
<1>3. /\ DOMAIN s = Fields /\ ~s.tx /\ r.enc = f /\ f # NONE /\ Told(s, r, f) /\ Owes(s, r)
      /\ Consistent(p, s) /\ Consistent(Peer(p), r) /\ FrameOK(f)
      /\ Peer(p) \in Station /\ Peer(p) # p
  BY <1>1, <1>2, HeardData
<1>4. ~Sending(s)
  BY <1>2 DEF Sending
<1>5. CASE /\ f.type = "ConAck"
           /\ \E v, u : /\ v = InitModes(s, f.bw.width)
                        /\ u = [v EXCEPT !.rpt = TRUE, !.sub = "ISSConAck"]
                        /\ Respond(p, Play(u, EncodeConACK(f.bw.width, s.sid)))
  <2>1. PICK v, u, t, w :
          /\ w = f.bw.width /\ v = InitModes(s, w)
          /\ u = [v EXCEPT !.rpt = TRUE, !.sub = "ISSConAck"]
          /\ t = Play(u, EncodeConACK(w, s.sid)) /\ Respond(p, t)
    BY <1>5
  <2>2. Same(v, s, {"bw", "table", "mode"})
    BY <1>3, <2>1, InitModesIs
  <2>3. /\ DOMAIN u = Fields /\ u.sub = "ISSConAck"
        /\ \A x \in Fields \ {"bw", "table", "mode", "rpt", "sub"} : u[x] = s[x]
    BY <2>1, <2>2 DEF Same, Fields
  <2>4. Same(t, u, {"enc", "tx"}) /\ t.enc = EncodeConACK(w, s.sid)
    <3>1. DOMAIN u = Fields /\ t = Play(u, EncodeConACK(w, s.sid))
      BY <2>1, <2>3
    <3> QED BY <3>1, PlayIs
  <2>5. /\ DOMAIN t = Fields /\ t.state = "ISS" /\ t.sub = "ISSConAck" /\ t.given = s.given
        /\ t.got = s.got /\ t.confirmed = s.confirmed /\ t.queue = s.queue /\ t.toHost = s.toHost
    BY <1>2, <2>3, <2>4 DEF Same, Fields
  <2>6. s.sid = p /\ s.psid = p /\ s.pending
    <3>1. Calling(s) /\ InPhase(p, s)
      BY <1>1, <1>2 DEF Calling, SessionInv
    <3> QED BY <3>1 DEF InPhase
  <2>7. r.toHost = NONE
    <3>1. f.id = p
      BY <1>1, <1>2, <1>5, <2>6, Heard
    <3>2. Played(r, {"ConAck"}) /\ r.enc.id # Peer(p)
      BY <1>3, <1>5, <3>1 DEF Played
    <3> QED BY <1>3, <3>2 DEF Consistent
  <2>8. t.enc.type = "ConAck" /\ t.enc.id = p /\ t.enc # NONE
    <3>1. w \in Widths
      BY <1>3, <1>5, <2>1, SettingFields DEF FrameOK
    <3>2. FrameOK(t.enc)
      BY <2>4, <2>6, <3>1, ControlFrames
    <3> QED BY <2>4, <2>6, <3>2, FramesAreThere, ConAcks
  <2>9. ~Sending(t) /\ ~Played(t, {"DATA"})
    BY <2>5, <2>8 DEF Sending, Played
  <2>10. Consistent(p, t)
    BY <1>3, <2>5, <2>8, <2>9 DEF Consistent, Played
  <2>11. Told(r, t, t.enc)
    BY <2>8, <2>9 DEF Told
  <2>12. /\ t.given = st[p].given /\ t.got = st[p].got /\ t.confirmed = st[p].confirmed
         /\ t.queue = st[p].queue /\ ~Sending(st[p]) /\ t.state # "IDLE" /\ t.state # "IRS"
         /\ st[Peer(p)].toHost = NONE /\ t.toHost = st[p].toHost
         /\ Told(st[Peer(p)], t, t.enc)
    BY <1>1, <1>4, <2>5, <2>7, <2>11
  <2>13. Respond(p, t)
    BY <2>1
  <2> QED BY <2>5, <2>9, <2>10, <2>12, <2>13, AnswersQuietly
<1>6. CASE Respond(p, [s EXCEPT !.abort = TRUE])
  <2>1. PICK t : t = [s EXCEPT !.abort = TRUE] /\ Respond(p, t)
    BY <1>6
  <2>2. /\ DOMAIN t = Fields /\ (\A x \in DataFields : t[x] = s[x]) /\ t.enc = s.enc
        /\ t.discRpt = s.discRpt /\ t.rpt = s.rpt /\ ~t.tx
    BY <1>3, <2>1 DEF Fields, DataFields
  <2>3. Moved(p, t, TRUE)
    BY <2>1, ChangeMoves
  <2>4. DataStep(p, t, TRUE)
    BY <1>1, <2>2, <2>3, StaysData
  <2> QED BY <2>4 DEF DataSteps
<1> QED BY <1>1, <1>5, <1>6 DEF ReceiveInISSConReq

\* A station that has confirmed the width, and is answered.
LEMMA ConfirmingData ==
  ASSUME TypedInv, SenderInv, SessionInv, DataInv, NEW p \in Station, ReceiveInISSConAck(p)
  PROVE  DataSteps(p)
<1>1. PICK s, r, f : s = st[p] /\ r = st[Peer(p)] /\ f = air.frame
  OBVIOUS
<1>2. Hears(p, TRUE) /\ s.state = "ISS" /\ s.sub = "ISSConAck"
  BY <1>1 DEF ReceiveInISSConAck, Receives
<1>3. /\ DOMAIN s = Fields /\ ~s.tx /\ r.enc = f /\ Told(s, r, f) /\ Owes(s, r) /\ Owes(r, s)
      /\ s.sid \in Station \cup {FF}
  BY <1>1, <1>2, HeardData
<1>4. Confirming(s) /\ r.toHost = NONE /\ ~Played(s, {"DATA"}) /\ ~Sending(s)
  BY <1>2, <1>3 DEF Owes, Sending, Confirming
<1>5. PICK u : u = CallerConnected(s)
  OBVIOUS
<1>6. /\ Same(u, s, {"rpt", "connected", "acked", "pending", "sub"})
      /\ u.acked = 1 /\ u.sub = "ISSData"
  BY <1>3, <1>5, CallerConnectedIs
<1>7. /\ DOMAIN u = Fields /\ u.state = "ISS" /\ u.toHost = s.toHost /\ u.given = s.given
      /\ u.got = s.got /\ u.confirmed = s.confirmed /\ u.queue = s.queue /\ u.enc = s.enc
      /\ u.tx = s.tx /\ u.sid = s.sid
  BY <1>2, <1>6 DEF Same, Fields
<1>8. CASE Respond(p, SendData(CallerConnected(s), 0))
  <2>1. Typed(p, u)
    <3>1. /\ u.arqBW = s.arqBW /\ u.callBW = s.callBW /\ u.table = s.table /\ u.mode = s.mode
          /\ u.sent = s.sent /\ u.inProcess = s.inProcess /\ u.psid = s.psid
          /\ u.lastSid = s.lastSid /\ u.repeats = s.repeats /\ u.state = s.state
      BY <1>6 DEF Same, Fields
    <3>2. Typed(p, s)
      BY <1>1 DEF TypedInv
    <3>3. Lasting(p, u)
      BY <1>6, <1>7, <3>1, <3>2 DEF Typed, Lasting
    <3> QED BY <1>6, <1>7, <3>1, <3>2, <3>3 DEF Typed
  <2>2. u.mode + 0 \in 0 .. LastMode(u.table)
    BY <2>1, Shifts
  <2>3. /\ Above(u.queue, r.got) /\ Fresh(r, 1 - u.acked)
        /\ \A i \in 1 .. Len(u.queue) : u.queue[i] = u.given - Len(u.queue) + i
    BY <1>3, <1>4, <1>7 DEF Owes, Fresh
  <2>4. Owes(r, u)
    BY <1>3, <1>7, OwedAsBefore
  <2>5. ~Played(u, {"DATA"}) /\ Unseen(s, u)
    BY <1>4, <1>7 DEF Played, Unseen
  <2>6. /\ u.mode + 0 \in 0 .. LastMode(u.table) /\ ~u.tx /\ 0 \in Int
        /\ u.state = "ISS" /\ u.sub = "ISSData" /\ u.enc = st[p].enc
        /\ st[p].state \in {"ISS", "IDLE", "IRStoISS"} /\ u.toHost \in {st[p].toHost, NONE}
        /\ Unseen(st[p], u) \/ Confirms(st[p], u, st[Peer(p)])
    BY <1>1, <1>2, <1>3, <1>6, <1>7, <2>2, <2>5
  <2>7. /\ \A i \in 1 .. Len(u.queue) : u.queue[i] = u.given - Len(u.queue) + i
        /\ Above(u.queue, st[Peer(p)].got) /\ Fresh(st[Peer(p)], 1 - u.acked)
        /\ u.discRpt => ~Played(u, {"DATA"})
        /\ Owes(st[Peer(p)], u)
    BY <1>1, <2>3, <2>4, <2>5
  <2>8. Respond(p, SendData(u, 0))
    BY <1>5, <1>8
  <2> QED BY <2>1, <2>6, <2>7, <2>8, SendsData
<1>9. CASE f.type = "BREAK" /\ Respond(p, TurnOver(CallerConnected(s)))
  <2>1. ~Sending(r) /\ ~Played(r, {"DATA"})
    BY <1>3, <1>9 DEF Told, Played
  <2>2. /\ ~Sending(st[Peer(p)]) /\ ~Played(st[Peer(p)], {"DATA"}) /\ Respond(p, TurnOver(u))
        /\ u.given = st[p].given /\ u.got = st[p].got /\ u.confirmed = st[p].confirmed
        /\ u.queue = st[p].queue /\ ~Sending(st[p]) /\ u.sid \in Station \cup {FF}
    BY <1>1, <1>3, <1>4, <1>5, <1>7, <1>9, <2>1
  <2> QED BY <1>7, <2>2, TurnsOverData
<1>10. CASE Respond(p, InitializeConnection(SetARDOPProtocolState(s, "DISC")))
  <2>1. PICK t : /\ t = InitializeConnection(SetARDOPProtocolState(s, "DISC"))
                 /\ Respond(p, t)
    BY <1>10
  <2>2. /\ Same(t, s, {"state", "queue", "disc", "connected", "pending", "sid", "lastAcked", "bw"})
        /\ t.state = "DISC" /\ t.sid = FF /\ t.queue = <<>> /\ ~t.disc /\ ~t.connected /\ ~t.pending
        /\ t.lastAcked = NONE /\ t.bw = 0 /\ t.enc = s.enc /\ t.tx = s.tx
    BY <1>2, <1>3, <2>1 DEF InitializeConnection, SetARDOPProtocolState, ClearDataToSend, Same, Fields
  <2>3. Leaves(t, st[p], {"abort", "rpt", "discRpt", "repeats", "lastSid", "idTimer", "enc", "tx",
                          "sendTimer", "timedOut"})
    BY <1>1, <1>2, <2>2 DEF Leaves, Leaving, Same
  <2>4. PlaysPlain(st[p], t)
    BY <1>1, <1>3, <2>2 DEF PlaysPlain
  <2>5. Moved(p, t, TRUE)
    BY <2>1, ChangeMoves
  <2>6. DataStep(p, t, TRUE)
    BY <2>3, <2>4, <2>5, LeavesData
  <2> QED BY <2>6 DEF DataSteps
<1> QED BY <1>1, <1>8, <1>9, <1>10 DEF ReceiveInISSConAck

\* A station that sends hears something else than an answer to its data, or has to leave.
LEMMA InterruptedData ==
  ASSUME TypedInv, SenderInv, SessionInv, DataInv, NEW p \in Station,
         DisconnectInISSData(p) \/ ReceiveControlInISSData(p)
  PROVE  DataSteps(p)
<1>1. PICK s, r, f : s = st[p] /\ r = st[Peer(p)] /\ f = air.frame
  OBVIOUS
<1>2. Hears(p, TRUE) /\ s.state = "ISS"
  BY <1>1 DEF DisconnectInISSData, ReceiveControlInISSData, ReceivingAsISS, Receives
<1>3. /\ DOMAIN s = Fields /\ r.enc = f /\ Told(s, r, f) /\ s.sid \in Station \cup {FF}
  BY <1>1, <1>2, HeardData
<1>4. CASE DisconnectInISSData(p)
  BY <1>4, DisconnectsData DEF DisconnectInISSData
<1>5. CASE /\ f.type = "BREAK"
           /\ Respond(p, TurnOver(ClearDataToSend([s EXCEPT !.connected = TRUE, !.pending = FALSE])))
  <2>1. PICK u : u = ClearDataToSend([s EXCEPT !.connected = TRUE, !.pending = FALSE])
    OBVIOUS
  <2>2. /\ DOMAIN u = Fields /\ u.state = s.state /\ u.sid = s.sid /\ u.given = s.given
        /\ u.got = s.got /\ u.confirmed = s.confirmed /\ u.queue = <<>>
    BY <1>3, <2>1 DEF ClearDataToSend, Fields
  <2>3. ~Sending(r) /\ ~Played(r, {"DATA"})
    BY <1>3, <1>5 DEF Told, Played
  <2>4. /\ ~Sending(st[Peer(p)]) /\ ~Played(st[Peer(p)], {"DATA"}) /\ Respond(p, TurnOver(u))
        /\ u.given = st[p].given /\ u.got = st[p].got /\ u.confirmed = st[p].confirmed
        /\ u.sid \in Station \cup {FF} /\ u.state \in {"ISS", "IDLE"}
    BY <1>1, <1>2, <1>3, <1>5, <2>1, <2>2, <2>3
  <2> QED BY <2>2, <2>4, TurnsOverData
<1>6. CASE Respond(p, AnswerDisc(s)) \/ Respond(p, Ended(s))
  BY <1>1, <1>6, AnswersEndData
<1> QED BY <1>1, <1>4, <1>5, <1>6 DEF ReceiveControlInISSData

\* The same data is sent again, in another mode, when a NAK says that it has not come.
LEMMA RefusedData ==
  ASSUME TypedInv, SenderInv, SessionInv, DataInv, NEW p \in Station, ReceiveNakInISSData(p)
  PROVE  DataSteps(p)
<1>1. PICK s, r, f : s = st[p] /\ r = st[Peer(p)] /\ f = air.frame
  OBVIOUS
<1>2. Hears(p, TRUE) /\ s.state = "ISS" /\ s.sub = "ISSData" /\ f.type = "NAK"
  BY <1>1 DEF ReceiveNakInISSData, ReceivingAsISS, Receives
<1>3. /\ DOMAIN s = Fields /\ ~s.tx /\ r.enc = f /\ Told(s, r, f) /\ Owes(s, r) /\ Owes(r, s)
  BY <1>1, <1>2, HeardData
<1>4. PICK shift \in DownShift(s) \cup UpShift(s) : Respond(p, SendData(s, shift))
  BY <1>1 DEF ReceiveNakInISSData
<1>5. Typed(p, s)
  BY <1>1 DEF TypedInv
<1>6. shift \in Int /\ s.mode + shift \in 0 .. LastMode(s.table)
  BY <1>5, Shifts
<1>7. Sending(s) /\ Played(s, {"DATA"}) /\ Coming(s.enc, r)
  BY <1>2, <1>3 DEF Told, Sending
<1>8. Carried(s, s.enc, r) /\ InFront(s, s.enc, r)
  BY <1>3, <1>7 DEF Owes, Carried
<1>9. Fresh(r, 1 - s.acked) /\ ~s.discRpt
  BY <1>7, <1>8 DEF Coming, InFront
<1>10. Above(s.queue, r.got)
  <2> SUFFICES ASSUME NEW i \in 1 .. Len(s.queue) PROVE Top(r.got) < s.queue[i]
    BY DEF Above
  <2>1. Len(s.queue) \in Nat /\ s.inProcess \in Nat
    BY <1>5 DEF Typed, Lasting
  <2>2. CASE i \in 1 .. s.inProcess
    <3>1. s.enc.data[i] = s.queue[i] /\ i \in 1 .. Len(s.enc.data)
      BY <1>8, <2>2 DEF InFront
    <3> QED BY <1>7, <3>1 DEF Coming, Above
  <2>3. CASE i \in s.inProcess + 1 .. Len(s.queue)
    BY <1>8, <2>3 DEF InFront
  <2> QED BY <2>1, <2>2, <2>3
<1>11. \A i \in 1 .. Len(s.queue) : s.queue[i] = s.given - Len(s.queue) + i
  BY <1>3 DEF Owes
<1>12. /\ s.state = "ISS" /\ s.sub = "ISSData" /\ s.enc = st[p].enc /\ ~s.tx
       /\ st[p].state \in {"ISS", "IDLE", "IRStoISS"} /\ s.toHost \in {st[p].toHost, NONE}
       /\ Unseen(st[p], s) /\ Owes(st[Peer(p)], s)
       /\ Above(s.queue, st[Peer(p)].got) /\ Fresh(st[Peer(p)], 1 - s.acked)
  BY <1>1, <1>2, <1>3, <1>9, <1>10 DEF Unseen
<1> QED BY <1>4, <1>5, <1>6, <1>9, <1>11, <1>12, SendsData

\* The data that an ACK answers is removed from the queue: it has come, and what is left has not.
LEMMA AcknowledgedData ==
  ASSUME TypedInv, SenderInv, SessionInv, DataInv, NEW p \in Station, ReceiveAckInISSData(p)
  PROVE  DataSteps(p)
<1>1. PICK s, r, f : s = st[p] /\ r = st[Peer(p)] /\ f = air.frame
  OBVIOUS
<1>2. Hears(p, TRUE) /\ s.state = "ISS" /\ s.sub = "ISSData" /\ f.type = "ACK"
  BY <1>1 DEF ReceiveAckInISSData, ReceivingAsISS, Receives
<1>3. /\ DOMAIN s = Fields /\ ~s.tx /\ r.enc = f /\ Told(s, r, f) /\ Owes(s, r) /\ Owes(r, s)
  BY <1>1, <1>2, HeardData
<1>4. Typed(p, s) /\ Len(s.queue) \in Nat /\ s.inProcess \in Nat /\ s.given \in Nat
      /\ s.queue \in Seq(1 .. MaxItems[p]) /\ s.acked \in {0, 1} /\ Len(s.queue) <= s.given
  <2>1. MaxItems[p] \in Nat
    BY ArqAssumption
  <2> QED BY <1>1, <2>1 DEF TypedInv, Typed, Lasting
<1>5. Sending(s) /\ Played(s, {"DATA"}) /\ Came(s.enc, r)
  BY <1>2, <1>3 DEF Told, Sending
<1>6. InFront(s, s.enc, r)
  BY <1>3, <1>5 DEF Owes, Carried
<1>7. PICK v, t, u, shift, n :
        /\ n = s.inProcess /\ v = [s EXCEPT !.acked = s.sent, !.inProcess = 0]
        /\ t = RemoveDataFromQueue(v, n) /\ u = [t EXCEPT !.rpt = FALSE]
        /\ shift \in {0} \cup UpShift(t) /\ Respond(p, SendData(u, shift))
  BY <1>1, <1>6 DEF ReceiveAckInISSData, InFront
<1>8. /\ DOMAIN v = Fields /\ v.acked = s.sent /\ v.inProcess = 0
      /\ \A x \in Fields \ {"acked", "inProcess"} : v[x] = s[x]
  BY <1>3, <1>7 DEF Fields
<1>9. v.queue = s.queue /\ v.confirmed = s.confirmed
  BY <1>8 DEF Fields
<1>10. n \in 0 .. Len(s.queue) /\ n <= Len(s.queue) /\ n \in Nat
  BY <1>4, <1>6, <1>7 DEF InFront
<1>11. /\ DOMAIN t = Fields /\ (\A x \in Fields \ {"queue", "confirmed"} : t[x] = v[x])
       /\ t.queue = SubSeq(s.queue, n + 1, Len(s.queue))
       /\ t.confirmed = s.confirmed \cup {s.queue[i] : i \in 1 .. n}
  <2>1. ~(n > Len(v.queue))
    BY <1>4, <1>9, <1>10
  <2>2. t = [v EXCEPT !.queue = SubSeq(s.queue, n + 1, Len(s.queue)),
                      !.confirmed = s.confirmed \cup {s.queue[i] : i \in 1 .. n}]
    BY <1>7, <1>9, <2>1 DEF RemoveDataFromQueue
  <2> QED BY <1>8, <2>2 DEF Fields
<1>12. /\ DOMAIN u = Fields /\ u.queue = t.queue /\ u.confirmed = t.confirmed /\ u.acked = s.sent
       /\ u.inProcess = 0 /\ u.rpt = FALSE
       /\ \A x \in Fields \ {"queue", "confirmed", "acked", "inProcess", "rpt"} : u[x] = s[x]
  BY <1>7, <1>8, <1>11 DEF Fields
<1>13. /\ u.state = "ISS" /\ u.sub = "ISSData" /\ u.enc = s.enc /\ u.tx = s.tx
       /\ u.toHost = s.toHost /\ u.given = s.given /\ u.got = s.got /\ u.discRpt = s.discRpt
       /\ u.table = s.table /\ u.mode = s.mode
  BY <1>2, <1>12 DEF Fields
<1>14. Typed(p, u) /\ Typed(p, t) /\ u.mode = t.mode /\ u.table = t.table
  <2>1. Typed(p, v)
    <3>1. /\ v.arqBW = s.arqBW /\ v.callBW = s.callBW /\ v.table = s.table /\ v.mode = s.mode
          /\ v.sent = s.sent /\ v.given = s.given /\ v.state = s.state /\ v.sub = s.sub
          /\ v.sid = s.sid /\ v.psid = s.psid /\ v.lastSid = s.lastSid /\ v.repeats = s.repeats
          /\ v.queue = s.queue /\ v.enc = s.enc /\ v.tx = s.tx
      BY <1>8 DEF Fields
    <3>2. Lasting(p, v)
      BY <1>4, <1>8, <3>1 DEF Typed, Lasting
    <3> QED BY <1>4, <1>8, <3>1, <3>2 DEF Typed
  <2>2. Typed(p, t)
    BY <1>7, <1>10, <2>1, RemoveTyped
  <2>3. /\ Same(u, t, Loose \cup Bound) /\ u.state = t.state /\ u.sid = t.sid /\ u.psid = t.psid
        /\ u.sub = t.sub /\ u.lastSid = t.lastSid /\ u.repeats = t.repeats /\ u.queue = t.queue
        /\ u.enc = t.enc /\ u.tx = t.tx /\ u.mode = t.mode /\ u.table = t.table
    BY <1>7, <1>11 DEF Same, Loose, Bound, Fields
  <2> QED BY <2>2, <2>3, Retyped DEF Typed
<1>15. shift \in Int /\ u.mode + shift \in 0 .. LastMode(u.table)
  BY <1>7, <1>14, Shifts
<1>16. Len(u.queue) = Len(s.queue) - n /\ \A i \in 1 .. Len(s.queue) - n : u.queue[i] = s.queue[n + i]
  BY <1>4, <1>10, <1>11, <1>12, PartItems
<1>17. ASSUME NEW i \in 1 .. Len(u.queue)
       PROVE  /\ u.queue[i] = u.given - Len(u.queue) + i
              /\ Top(r.got) < u.queue[i]
  <2>1. n + i \in 1 .. Len(s.queue) /\ n + i \in n + 1 .. Len(s.queue) /\ i \in Nat
    BY <1>4, <1>10, <1>16, <1>17
  <2>2. u.queue[i] = s.queue[n + i]
    BY <1>16, <1>17
  <2>3. s.queue[n + i] = s.given - Len(s.queue) + (n + i)
    BY <1>3, <2>1 DEF Owes
  <2>4. Top(r.got) < s.queue[n + i]
    BY <1>6, <1>7, <2>1 DEF InFront
  <2>5. PICK k, m : k = s.given /\ m = Len(s.queue)
    OBVIOUS
  <2>6. k \in Nat /\ m \in Nat /\ u.given = k /\ Len(u.queue) = m - n /\ u.queue[i] = k - m + (n + i)
    BY <1>4, <1>13, <1>16, <2>2, <2>3, <2>5
  <2>7. k - m + (n + i) = k - (m - n) + i
    BY <1>10, <2>1, <2>6
  <2> QED BY <2>2, <2>4, <2>6, <2>7
<1>18. {s.queue[i] : i \in 1 .. n} \subseteq {r.got[j] : j \in 1 .. Len(r.got)}
  <2> SUFFICES ASSUME NEW i \in 1 .. n PROVE s.queue[i] \in {r.got[j] : j \in 1 .. Len(r.got)}
    OBVIOUS
  <2>1. s.enc.data[i] = s.queue[i] /\ i \in 1 .. Len(s.enc.data)
    BY <1>6, <1>7 DEF InFront
  <2> QED BY <1>5, <2>1 DEF Came
<1>19. Confirms(s, u, r)
  BY <1>11, <1>12, <1>13, <1>18 DEF Confirms
<1>20. Fresh(r, 1 - u.acked)
  <2>1. r.toHost = FrameType(s.enc) /\ FrameType(s.enc)[2] = s.enc.par
    BY <1>5 DEF Came, FrameType, Played
  <2>2. s.sent = s.enc.par /\ s.enc.par = 1 - s.acked
    BY <1>6 DEF InFront
  <2>3. s.enc.par # 1 - s.enc.par
    BY <1>4, <2>2
  <2> QED BY <1>12, <2>1, <2>2, <2>3 DEF Fresh
<1>21. ~u.discRpt /\ Owes(r, u)
  BY <1>3, <1>6, <1>13, OwedAsBefore DEF InFront
<1>22. /\ u.enc = st[p].enc /\ ~u.tx /\ st[p].state \in {"ISS", "IDLE", "IRStoISS"}
       /\ u.toHost \in {st[p].toHost, NONE} /\ Confirms(st[p], u, st[Peer(p)])
       /\ Owes(st[Peer(p)], u) /\ Fresh(st[Peer(p)], 1 - u.acked)
       /\ \A i \in 1 .. Len(u.queue) : u.queue[i] = u.given - Len(u.queue) + i
       /\ Above(u.queue, st[Peer(p)].got) /\ Respond(p, SendData(u, shift))
  BY <1>1, <1>2, <1>3, <1>7, <1>13, <1>17, <1>19, <1>20, <1>21 DEF Above
<1> QED BY <1>13, <1>14, <1>15, <1>21, <1>22, SendsData

\* Everything that a station hears.
LEMMA ReceiveData ==
  ASSUME TypedInv, SenderInv, SessionInv, DataInv, NEW p \in Station, Receive(p)
  PROVE  DataSteps(p)
BY CalledData, ReceivingData, TakesData, RefusesData, TakesOverData, IdleData, CallingData,
   ConfirmingData, InterruptedData, AcknowledgedData, RefusedData DEF Receive

\* An ABORT that comes while a station plays: it goes out, or has turned over and forgets what it
\* had to send.
LEMMA AbortData ==
  ASSUME TypedInv, SenderInv, SessionInv, DataInv, NEW p \in Station, AbortInPlay(p)
  PROVE  DataSteps(p)
<1>1. PICK s, r, f : s = st[p] /\ r = st[Peer(p)] /\ f = air.frame
  OBVIOUS
<1>2. DOMAIN s = Fields /\ s.sid \in Station \cup {FF} /\ ~s.tx /\ Consistent(p, s)
  BY <1>1 DEF TypedInv, Typed, DataInv
<1>3. PICK t : /\ Change(p, t)
               /\ \/ GoesOut(t, s)
                  \/ Strands(t, s) /\ Receives(p, TRUE) /\ s.state = "IDLE" /\ f.type = "BREAK"
  BY <1>1, <1>2, AbortInPlayIs
<1>4. Moved(p, t, FALSE)
  BY <1>3, ChangeMoves
<1>5. CASE GoesOut(t, s)
  <2>1. /\ Leaves(t, s, {"abort", "rpt", "discRpt", "repeats", "lastSid", "idTimer", "enc", "tx",
                         "sendTimer", "timedOut"})
    BY <1>5 DEF GoesOut, Out, Leaves, Same
  <2>2. Plain(t.enc) /\ t.tx
    BY <1>2, <1>5, PlainFrames DEF GoesOut
  <2>3. DataStep(p, t, FALSE)
    BY <1>1, <1>4, <2>1, <2>2, LeavesData DEF PlaysPlain
  <2> QED BY <2>3 DEF DataSteps
<1>6. CASE /\ Strands(t, s) /\ Receives(p, TRUE) /\ s.state = "IDLE" /\ f.type = "BREAK"
  <2>1. /\ DOMAIN t = Fields /\ t.given = s.given /\ t.got = s.got /\ t.confirmed = s.confirmed
        /\ t.queue = <<>> /\ t.state = "IRS" /\ ~t.rpt /\ t.toHost = NONE /\ t.lastAcked = NONE
        /\ t.sub = "IRSfromISS" /\ t.tx /\ t.enc = EncodeDATAACK(s.sid)
    BY <1>6 DEF Strands, Same, Fields
  <2>2. t.enc.type = "ACK" /\ t.enc # NONE
    <3>1. FrameOK(t.enc)
      BY <1>2, <2>1, ControlFrames
    <3> QED BY <2>1, <3>1, FramesAreThere DEF EncodeDATAACK, Encode4FSKControl
  <2>3. ~Sending(r) /\ ~Played(r, {"DATA"})
    <3>1. Told(s, r, f) /\ r.enc = f
      BY <1>1, <1>6, HeardData DEF Receives
    <3> QED BY <1>6, <3>1 DEF Told, Played
  <2>4. ~Sending(t) /\ ~Confirming(t) /\ ~Played(t, {"DATA"})
    BY <2>1, <2>2 DEF Sending, Confirming, Played
  <2>5. Consistent(p, t)
    BY <1>2, <2>1, <2>2, <2>4 DEF Consistent, Played
  <2>6. Told(r, t, t.enc)
    BY <2>1, <2>2, <2>3 DEF Told
  <2>7. Unseen(st[p], t) /\ Owes(t, st[Peer(p)]) /\ Owes(st[Peer(p)], t)
    BY <1>1, <2>1, <2>3, <2>4, OwedQuietly
  <2>8. DataStep(p, t, FALSE)
    BY <1>1, <1>4, <2>1, <2>5, <2>6, <2>7 DEF DataStep
  <2> QED BY <2>8 DEF DataSteps
<1> QED BY <1>3, <1>5, <1>6

-----------------------------------------------------------------------------
(* The invariant, and the refinement.                                      *)

\* What cuts off a station that sends data without telling the other: a call, the timer of an old
\* one, and a host that purges the queue.
Interrupts(p) == PlaceCall(p) \/ PendTimerExpires(p) \/ HostPurge(p)
SendersGoOn == \A p \in Station : Sending(st[p]) => ~Interrupts(p)

\* At first nothing was given.
LEMMA DataInit == Init => DataInv
<1> SUFFICES ASSUME Init PROVE DataInv
  OBVIOUS
<1>1. PICK bw \in Bandwidths : st = [p \in Station |-> NewStation(bw[p][1], bw[p][2])]
  BY DEF Init
<1>2. ASSUME NEW p \in Station
      PROVE  /\ st[p].state = "DISC" /\ st[p].enc = NONE /\ st[p].got = <<>> /\ st[p].queue = <<>>
             /\ st[p].toHost = NONE
  <2>1. st[p] = NewStation(bw[p][1], bw[p][2])
    BY <1>1
  <2>2. \A arqBW, callBW :
          LET s == NewStation(arqBW, callBW) IN
          /\ s.state = "DISC" /\ s.enc = NONE /\ s.got = <<>> /\ s.queue = <<>> /\ s.toHost = NONE
    BY DEF NewStation
  <2> QED BY <2>1, <2>2
<1>3. ASSUME NEW p \in Station PROVE Consistent(p, st[p])
  <2>1. ~Played(st[p], {"DATA", "IDLE"}) /\ ~Played(st[p], {"NAK"}) /\ ~Played(st[p], {"ConAck"})
        /\ ~Played(st[p], {"ID", "ConReq"}) /\ ~Sending(st[p])
    BY <1>2 DEF Played, Sending
  <2>2. st[p].got \in Seq(Nat) /\ st[p].state # "IRS" /\ st[p].toHost \in (Nat \X {0, 1}) \cup {NONE}
    <3>1. <<>> \in Seq(Nat)
      OBVIOUS
    <3>2. st[p].got = <<>> /\ st[p].state = "DISC" /\ st[p].toHost = NONE
      BY <1>2
    <3> QED BY <3>1, <3>2
  <2> QED BY <2>1, <2>2 DEF Consistent
<1>4. ASSUME NEW p \in Station PROVE Owes(st[p], st[Peer(p)])
  <2>1. /\ st[p].state = "DISC" /\ st[p].enc = NONE /\ st[p].queue = <<>>
        /\ st[Peer(p)].got = <<>>
    BY <1>2, TwoStations
  <2> QED BY <2>1 DEF Owes, Played, Sending, Confirming, Above
<1> QED BY <1>3, <1>4 DEF DataInv, Init

\* Every step of the system is one of a station that respects what the data needs, or changes no
\* station.
LEMMA DataSystem ==
  ASSUME TypedInv, SenderInv, SessionInv, DataInv, [Next /\ SendersGoOn]_vars
  PROVE  \/ \E p \in Station : DataSteps(p)
         \/ st' = st /\ air' \in {air, NONE}
<1>1. CASE Fade \/ GoOutOfReach \/ UNCHANGED vars
  BY <1>1 DEF Fade, GoOutOfReach, vars
<1>2. ASSUME Next /\ SendersGoOn, ~Fade, ~GoOutOfReach
      PROVE  \E p \in Station : DataSteps(p)
  <2>1. PICK p \in Station :
          \/ GiveData(p) \/ ArqCall(p) \/ HostAbort(p) \/ HostDisconnect(p) \/ HostBreak(p)
          \/ HostPurge(p) \/ Poll(p) \/ Receive(p) \/ AbortInPlay(p)
    BY <1>2 DEF Next
  <2>2. Sending(st[p]) => ~PlaceCall(p) /\ ~PendTimerExpires(p) /\ ~HostPurge(p)
    BY <1>2 DEF SendersGoOn, Interrupts
  <2>3. DataSteps(p)
    BY <2>1, <2>2, HostData, PollData, ReceiveData, AbortData
  <2> QED BY <2>3
<1> QED BY <1>1, <1>2

\* The invariant is kept.
LEMMA DataNext ==
  TypedInv /\ SenderInv /\ SessionInv /\ DataInv /\ [Next /\ SendersGoOn]_vars => DataInv'
<1> SUFFICES ASSUME TypedInv, SenderInv, SessionInv, DataInv, [Next /\ SendersGoOn]_vars
             PROVE  DataInv'
  OBVIOUS
<1>1. CASE \E p \in Station : DataSteps(p)
  BY <1>1, DataStepKeeps DEF DataSteps
<1>2. CASE st' = st /\ air' \in {air, NONE}
  <2>1. ASSUME NEW p \in Station
        PROVE  Consistent(p, st[p])' /\ Owes(st[p], st[Peer(p)])'
    <3>1. Consistent(p, st'[p]) /\ Owes(st'[p], st'[Peer(p)])
      BY <1>2 DEF DataInv
    <3> QED BY <3>1
            DEF Consistent, Owes, Carried, InFront, Coming, Came, Fresh, Played, Sending, Confirming
  <2>2. air' # NONE => Told(st[air.to], st[Peer(air.to)], air.frame)'
    BY <1>2 DEF DataInv, Told, Coming, Came, Fresh, Played, Sending
  <2> QED BY <2>1, <2>2 DEF DataInv
<1> QED BY <1>1, <1>2, DataSystem

\* What ArqLink delivers: a run of items above those that came.
NextRun(h, g, n) ==
  \E from \in Top(g) + 1 .. n : \E to \in from .. n :
    h = g \o [i \in 1 .. to - from + 1 |-> from + i - 1]

\* Items that come next, one after the other, are such a run.
LEMMA DeliversRun ==
  ASSUME NEW g \in Seq(Nat), NEW data \in Seq(Nat), NEW given \in Nat, Above(data, g),
         \A i \in 1 .. Len(data) : data[i] = data[1] + i - 1 /\ data[i] \in 1 .. given
  PROVE  g \o data = g \/ NextRun(g \o data, g, given)
<1>1. CASE data = <<>>
  <2>1. g \o <<>> = g
    BY ConcatEmptySeq
  <2> QED BY <1>1, <2>1
<1>2. CASE data # <<>>
  <2>1. PICK n \in Nat \ {0} : n = Len(data)
    BY <1>2, EmptySeq
  <2>2. Top(g) \in Nat
    BY EmptySeq DEF Top
  <2>3. PICK from, to : from = data[1] /\ to = data[n]
    OBVIOUS
  <2>4. from \in 1 .. given /\ to \in 1 .. given /\ to = from + n - 1 /\ Top(g) < from
    BY <2>1, <2>3 DEF Above
  <2>5. from \in Top(g) + 1 .. given /\ to \in from .. given /\ to - from + 1 = n
    BY <2>1, <2>2, <2>4
  <2>6. data = [i \in 1 .. n |-> from + i - 1]
    <3>1. data = [i \in 1 .. n |-> data[i]]
      BY <2>1
    <3>2. \A i \in 1 .. n : data[i] = from + i - 1
      BY <2>1, <2>3
    <3> QED BY <3>1, <3>2
  <2> QED BY <2>5, <2>6 DEF NextRun
<1> QED BY <1>1, <1>2

\* Such a step is one of ArqLink.
LEMMA LinkStep ==
  ASSUME TypedInv, DataInv, NEW p \in Station, NEW t, NEW heard \in BOOLEAN, DataStep(p, t, heard)
  PROVE  [Link!Next]_(Link!linkVars)
<1>1. PICK q \in Station : q = Peer(p) /\ p # q /\ \A x \in Station : x = p \/ x = q
  BY TwoStations
<1>2. PICK s, r, u : s = st[p] /\ r = st[q] /\ u = [t EXCEPT !.tx = FALSE]
  OBVIOUS
<1>3. u.given = t.given /\ u.got = t.got /\ u.confirmed = t.confirmed
  BY <1>2 DEF DataStep, Fields
<1>4. st' = [st EXCEPT ![p] = u] /\ DOMAIN st = Station
  BY <1>2 DEF DataStep, Moved, TypedInv
<1> DEFINE given == [x \in Station |-> st[x].given]
           got == [x \in Station |-> st[x].got]
           confirmed == [x \in Station |-> st[x].confirmed]
<1>5. /\ given = [x \in Station |-> st[x].given] /\ got = [x \in Station |-> st[x].got]
      /\ confirmed = [x \in Station |-> st[x].confirmed]
  OBVIOUS
<1> HIDE DEF given, got, confirmed
<1>6. /\ [x \in Station |-> st[x].given]' = [given EXCEPT ![p] = t.given]
      /\ [x \in Station |-> st[x].got]' = [got EXCEPT ![p] = t.got]
      /\ [x \in Station |-> st[x].confirmed]' = [confirmed EXCEPT ![p] = t.confirmed]
  BY <1>3, <1>4, <1>5
<1>7. /\ given[p] = s.given /\ got[p] = s.got /\ confirmed[p] = s.confirmed
      /\ given[q] = r.given /\ got[q] = r.got /\ q = Link!Other(p)
  BY <1>1, <1>2, <1>5 DEF Link!Other, Peer
<1>8. CASE Unseen(s, t)
  <2>1. /\ [given EXCEPT ![p] = t.given] = given /\ [got EXCEPT ![p] = t.got] = got
        /\ [confirmed EXCEPT ![p] = t.confirmed] = confirmed
    BY <1>5, <1>7, <1>8 DEF Unseen
  <2> QED BY <1>5, <1>6, <2>1 DEF Link!linkVars
<1>9. CASE Gives(s, t)
  <2>1. [got EXCEPT ![p] = t.got] = got /\ [confirmed EXCEPT ![p] = t.confirmed] = confirmed
    BY <1>5, <1>7, <1>9 DEF Gives
  <2>2. [given EXCEPT ![p] = t.given] = [given EXCEPT ![p] = given[p] + 1]
    BY <1>7, <1>9 DEF Gives
  <2>3. Link!Give(p)
    BY <1>5, <1>6, <2>1, <2>2 DEF Link!Give
  <2> QED BY <2>3 DEF Link!Next
<1>10. CASE Delivers(s, t, r)
  <2>1. PICK data \in Seq(Nat) :
          /\ t.got = s.got \o data /\ Above(data, s.got)
          /\ \A i \in 1 .. Len(data) : data[i] = data[1] + i - 1 /\ data[i] \in 1 .. r.given
    BY <1>10 DEF Delivers
  <2>2. s.got \in Seq(Nat) /\ r.given \in Nat
    <3>1. MaxItems[q] \in Nat
      BY ArqAssumption
    <3> QED BY <1>2, <3>1 DEF DataInv, Consistent, TypedInv, Typed, Lasting
  <2>3. /\ [given EXCEPT ![p] = t.given] = given
        /\ [confirmed EXCEPT ![p] = t.confirmed] = confirmed
    BY <1>5, <1>7, <1>10 DEF Delivers
  <2>4. CASE t.got = s.got
    <3>1. [got EXCEPT ![p] = t.got] = got
      BY <1>5, <1>7, <2>4
    <3> QED BY <1>5, <1>6, <2>3, <3>1 DEF Link!linkVars
  <2>5. CASE NextRun(t.got, got[p], given[q])
    <3>0. PICK from \in Top(got[p]) + 1 .. given[q] : \E to \in from .. given[q] :
            t.got = got[p] \o [i \in 1 .. to - from + 1 |-> from + i - 1]
      BY <2>5 DEF NextRun
    <3>1. PICK to \in from .. given[q] :
            t.got = got[p] \o [i \in 1 .. to - from + 1 |-> from + i - 1]
      BY <3>0
    <3>2. [x \in Station |-> st[x].got]' =
            [got EXCEPT ![p] = @ \o [i \in 1 .. to - from + 1 |-> from + i - 1]]
      BY <1>6, <3>1
    <3>3. Link!DeliverSome(p)
      <4>1. \E a \in Top(got[p]) + 1 .. given[q] : \E b \in a .. given[q] :
              [x \in Station |-> st[x].got]' =
                [got EXCEPT ![p] = @ \o [i \in 1 .. b - a + 1 |-> a + i - 1]]
        BY <3>0, <3>1, <3>2
      <4>2. /\ Top(got[p]) = IF got[p] = <<>> THEN 0 ELSE got[p][Len(got[p])]
            /\ given[q] = given[Link!Other(p)]
        BY <1>7 DEF Top
      <4>3. LET last == IF got[p] = <<>> THEN 0 ELSE got[p][Len(got[p])]
            IN \E a \in last + 1 .. given[Link!Other(p)] : \E b \in a .. given[Link!Other(p)] :
                 [x \in Station |-> st[x].got]' =
                   [got EXCEPT ![p] = @ \o [i \in 1 .. b - a + 1 |-> a + i - 1]]
        BY <4>1, <4>2
      <4> QED BY <4>3 DEF Link!DeliverSome, got, given
    <3>4. Link!Deliver(p)
      BY <1>5, <1>6, <2>3, <3>3 DEF Link!Deliver
    <3> QED BY <3>4 DEF Link!Next
  <2>6. t.got = s.got \/ NextRun(t.got, s.got, r.given)
    <3>1. s.got \o data = s.got \/ NextRun(s.got \o data, s.got, r.given)
      BY <2>1, <2>2, DeliversRun
    <3> QED BY <2>1, <3>1
  <2> QED BY <1>7, <2>4, <2>5, <2>6
<1>11. CASE Confirms(s, t, r)
  <2>1. PICK items \in SUBSET {r.got[i] : i \in 1 .. Len(r.got)} :
          t.confirmed = s.confirmed \cup items
    BY <1>11 DEF Confirms
  <2>2. [given EXCEPT ![p] = t.given] = given /\ [got EXCEPT ![p] = t.got] = got
    BY <1>5, <1>7, <1>11 DEF Confirms
  <2>3. /\ items \in SUBSET {got[q][i] : i \in 1 .. Len(got[q])}
        /\ [x \in Station |-> st[x].confirmed]' = [confirmed EXCEPT ![p] = @ \cup items]
    BY <1>6, <1>7, <2>1
  <2>4. Link!ConfirmSome(p)
    <3>1. PICK o : o = Link!Other(p)
      OBVIOUS
    <3>2. items \in SUBSET {got[o][i] : i \in 1 .. Len(got[o])}
      BY <1>7, <2>3, <3>1
    <3>3. items \in SUBSET {got[Link!Other(p)][i] : i \in 1 .. Len(got[Link!Other(p)])}
      BY <3>1, <3>2
    <3> QED BY <2>3, <3>3 DEF Link!ConfirmSome, got, confirmed
  <2>5. Link!Confirm(p)
    BY <1>5, <1>6, <2>2, <2>4 DEF Link!Confirm
  <2> QED BY <2>5 DEF Link!Next
<1> QED BY <1>1, <1>2, <1>8, <1>9, <1>10, <1>11 DEF DataStep

\* Arq implements ArqLink as long as no call and no purge cuts off a station that sends: what a
\* host gives arrives in order and at most once, and nothing is removed from a queue that has not
\* reached the other host, through repeats, NAKs, changes of mode and role, lost frames and the
\* ends of sessions (ARQ.c, ProcessRcvdARQFrame and SendData), whatever the settings and bounds.
THEOREM ArqImplementsLink == Spec /\ [][SendersGoOn]_vars => ImplementsLink
<1>1. /\ TypedInv /\ [Next]_vars => TypedInv'
      /\ SenderInv /\ [Next]_vars => SenderInv'
      /\ TypedInv /\ SessionInv /\ [Next]_vars => SessionInv'
  BY TypedNext, SenderNext, SessionNext
<1>2. [Next]_vars /\ [SendersGoOn]_vars => [Next /\ SendersGoOn]_vars
  OBVIOUS
<1>3. TypedInv /\ SenderInv /\ SessionInv /\ DataInv /\ [Next /\ SendersGoOn]_vars
        => [Link!Next]_(Link!linkVars)
  <2> SUFFICES ASSUME TypedInv, SenderInv, SessionInv, DataInv, [Next /\ SendersGoOn]_vars
               PROVE  [Link!Next]_(Link!linkVars)
    OBVIOUS
  <2>1. CASE \E p \in Station : DataSteps(p)
    BY <2>1, LinkStep DEF DataSteps
  <2>2. CASE st' = st
    BY <2>2 DEF Link!linkVars
  <2> QED BY <2>1, <2>2, DataSystem
<1>4. Init => Link!Init
  <2> SUFFICES ASSUME Init PROVE Link!Init
    OBVIOUS
  <2>1. PICK bw \in Bandwidths : st = [p \in Station |-> NewStation(bw[p][1], bw[p][2])]
    BY DEF Init
  <2>2. \A p \in Station : st[p].given = 0 /\ st[p].got = <<>> /\ st[p].confirmed = {}
    <3>1. \A arqBW, callBW : LET s == NewStation(arqBW, callBW) IN
            s.given = 0 /\ s.got = <<>> /\ s.confirmed = {}
      BY DEF NewStation
    <3> QED BY <2>1, <3>1
  <2> QED BY <2>2 DEF Link!Init
<1> QED BY TypedInit, SenderInit, SessionInit, DataInit, DataNext, <1>1, <1>2, <1>3, <1>4, PTL
        DEF Spec, ImplementsLink, Link!Spec

-----------------------------------------------------------------------------
(* One call.                                                               *)

\* Station c may call once and the other never, and no queue is purged.
OneCaller(c) == "PURGEBUFFER" \notin Commands /\ MaxCalls[c] <= 1 /\ MaxCalls[Peer(c)] = 0

\* Then the timer of a called station runs only where it may expire, and the call is placed from
\* DISC: the station that called hears no request, and the other has none to place.
CallInv(c) ==
  LET s == st[c] r == st[Peer(c)] IN
  /\ DOMAIN calls = Station /\ \A p \in Station : calls[p] \in Nat /\ calls[p] <= MaxCalls[p]
  /\ ~s.pendTimer /\ (s.needCall => s.state = "DISC" /\ calls[c] = 1)
  /\ calls[c] = 0 => s.state = "DISC"
  /\ ~r.needCall /\ (r.enc # NONE => r.enc.type # "ConReq")
  /\ r.pendTimer => r.state = "DISC" \/ Called(r)

\* t is s without a new call: it leaves DISC, and its timer is started, by no other.
Quiet(s, t) ==
  /\ DOMAIN t = Fields /\ t.needCall = s.needCall /\ (t.pendTimer => s.pendTimer)
  /\ t.enc = s.enc \/ t.enc.type # "ConReq"
  /\ t.state # "DISC" => s.state # "DISC"
  /\ Called(s) /\ t.pendTimer => t.state = "DISC" \/ Called(t)

\* t is s called by the other station.
Answered(s, t) ==
  /\ DOMAIN t = Fields /\ t.needCall = s.needCall /\ t.enc.type # "ConReq" /\ Called(t)

\* Station p is quiet, or answers a call.
QuietSteps(p) ==
  /\ \E t : \E heard \in BOOLEAN :
       /\ Moved(p, t, heard)
       /\ Quiet(st[p], t) \/ (air # NONE /\ air.to = p /\ air.frame.type = "ConReq" /\ Answered(st[p], t))
  /\ calls' = calls

\* What a station may change quietly,
LEMMA QuietSame ==
  ASSUME NEW s, NEW u, NEW t, NEW X, Quiet(s, u), Same(t, u, X),
         X \cap {"needCall", "pendTimer", "state", "sub"} = {},
         t.enc = u.enc \/ t.enc.type # "ConReq"
  PROVE  Quiet(s, t)
<1>1. DOMAIN t = Fields /\ \A x \in {"needCall", "pendTimer", "state", "sub"} : t[x] = u[x]
  BY DEF Same, Fields
<1> QED BY <1>1 DEF Quiet, Called

\* how it leaves,
LEMMA QuietLeaves ==
  ASSUME NEW s, NEW t, NEW X, Leaves(t, s, X), X \cap {"needCall", "pendTimer"} = {},
         t.enc = s.enc \/ t.enc.type # "ConReq"
  PROVE  Quiet(s, t)
<1>1. DOMAIN t = Fields /\ t.state = "DISC"
  BY DEF Leaves, Same
<1>2. t.needCall = s.needCall /\ t.pendTimer = s.pendTimer
  BY DEF Leaves, Same, Leaving, Fields
<1> QED BY <1>1, <1>2 DEF Quiet

\* and what it may play.
LEMMA QuietPlay ==
  ASSUME NEW s, NEW u, NEW type, NEW id, Quiet(s, u), type # "ConReq"
  PROVE  Quiet(s, Play(u, Encode4FSKControl(type, id)))
<1>1. PICK t : t = Play(u, Encode4FSKControl(type, id))
  OBVIOUS
<1>2. Same(t, u, {"enc", "tx"}) /\ t.enc = Encode4FSKControl(type, id)
  BY <1>1, PlayIs DEF Quiet
<1>3. t.enc.type = type
  BY <1>2 DEF Encode4FSKControl
<1>4. Quiet(s, t)
  BY <1>2, <1>3, QuietSame
<1> QED BY <1>1, <1>4

\* A quiet change is a quiet step, on a frame that was heard or not.
LEMMA QuietMoves ==
  ASSUME NEW p, NEW t, Quiet(st[p], t)
  PROVE  (Act(p, t) => QuietSteps(p)) /\ (Respond(p, t) => QuietSteps(p))
BY ChangeMoves DEF QuietSteps, Act, Respond, host

\* The host's commands, but for ARQCALL.
LEMMA HostQuiet ==
  ASSUME TypedInv, NEW p \in Station,
         GiveData(p) \/ HostAbort(p) \/ HostDisconnect(p) \/ HostBreak(p) \/ HostPurge(p)
  PROVE  QuietSteps(p)
<1>1. PICK s : s = st[p]
  OBVIOUS
<1>2. DOMAIN s = Fields
  BY <1>1 DEF TypedInv, Typed
<1>3. calls' = calls
  BY DEF GiveData, HostAbort, HostDisconnect, HostBreak, HostPurge, Command, host
<1>4. PICK t : /\ Change(p, t)
               /\ t \in {[s EXCEPT !.given = s.given + 1, !.queue = Append(@, s.given + 1)],
                         [s EXCEPT !.abort = TRUE], [s EXCEPT !.disc = TRUE],
                         [s EXCEPT !.breakCmd = TRUE], ClearDataToSend(s), Aborted(s)}
  BY <1>1 DEF GiveData, HostAbort, HostDisconnect, HostBreak, HostPurge
<1>5. Quiet(s, t)
  <2>1. Quiet(s, s)
    BY <1>2 DEF Quiet
  <2>2. CASE t = Aborted(s)
    <3>1. Leaves(t, s, {"abort", "rpt", "discRpt", "repeats"})
      BY <1>2, <2>2, AbortedIs
    <3>2. t.enc = s.enc
      BY <3>1 DEF Leaves, Same, Leaving, Fields
    <3> QED BY <3>1, <3>2, QuietLeaves
  <2>3. CASE t # Aborted(s)
    <3>1. Same(t, s, {"given", "queue", "abort", "disc", "breakCmd"})
      <4>1. CASE t = [s EXCEPT !.given = s.given + 1, !.queue = Append(@, s.given + 1)]
        BY <1>2, <4>1 DEF Same, Fields
      <4>2. CASE t = [s EXCEPT !.abort = TRUE] \/ t = [s EXCEPT !.disc = TRUE]
        BY <1>2, <4>2 DEF Same, Fields
      <4>3. CASE t = [s EXCEPT !.breakCmd = TRUE] \/ t = ClearDataToSend(s)
        BY <1>2, <4>3 DEF Same, Fields, ClearDataToSend
      <4> QED BY <1>4, <2>3, <4>1, <4>2, <4>3
    <3>2. t.enc = s.enc
      BY <3>1 DEF Same, Fields
    <3> QED BY <2>1, <3>1, <3>2, QuietSame
  <2> QED BY <2>2, <2>3
<1>6. Moved(p, t, FALSE)
  BY <1>4, ChangeMoves
<1> QED BY <1>1, <1>3, <1>5, <1>6 DEF QuietSteps

\* The poll, but for a call that is placed.
LEMMA PollQuiet ==
  ASSUME TypedInv, NEW p \in Station, Poll(p), ~PlaceCall(p)
  PROVE  QuietSteps(p)
<1>1. PICK s : s = st[p]
  OBVIOUS
<1>2. DOMAIN s = Fields /\ Quiet(s, s)
  BY <1>1 DEF TypedInv, Typed, Quiet
<1>3. ASSUME NEW t, Act(p, t), Quiet(s, t) PROVE QuietSteps(p)
  BY <1>1, <1>3, QuietMoves
<1>4. ASSUME NEW t, Act(p, t), Leaves(t, s, {"abort", "rpt", "discRpt", "repeats"})
      PROVE  QuietSteps(p)
  <2>1. t.enc = s.enc
    BY <1>4 DEF Leaves, Same, Leaving, Fields
  <2>2. Quiet(s, t)
    BY <1>4, <2>1, QuietLeaves
  <2> QED BY <1>3, <1>4, <2>2
<1>5. CASE PollAbort(p)
  BY <1>1, <1>2, <1>4, <1>5, AbortedIs DEF PollAbort
<1>6. CASE RepeatDisc(p)
  <2>1. CASE Act(p, GivenUp(s))
    <3>1. Leaves(GivenUp(s), s, {"rpt", "discRpt", "repeats"})
      BY <1>2, GivenUpIs
    <3>2. Leaves(GivenUp(s), s, {"abort", "rpt", "discRpt", "repeats"})
      BY <3>1 DEF Leaves, Same
    <3> QED BY <1>4, <2>1, <3>2
  <2>2. CASE ~Act(p, GivenUp(s))
    <3>1. PICK u : /\ u = [s EXCEPT !.repeats = @ + 1, !.rpt = FALSE]
                   /\ Act(p, Play(u, Encode4FSKControl("DISC", s.sid)))
      BY <1>1, <1>6, <2>2 DEF RepeatDisc
    <3>2. Same(u, s, {"repeats", "rpt"}) /\ u.enc = s.enc
      BY <1>2, <3>1 DEF Same, Fields
    <3>3. Quiet(s, u)
      BY <1>2, <3>2, QuietSame
    <3> QED BY <1>3, <3>1, <3>3, QuietPlay
  <2> QED BY <2>1, <2>2
<1>7. CASE PollDisconnect(p)
  <2>1. PICK t : t = CheckForDisconnect(s) /\ Act(p, t)
    BY <1>1, <1>7 DEF PollDisconnect
  <2>2. /\ Same(t, s, {"repeats", "disc", "discRpt", "rpt", "enc", "tx"})
        /\ t.enc = Encode4FSKControl("DISC", s.sid)
    BY <1>2, <2>1, CheckForDisconnectIs
  <2>3. t.enc.type # "ConReq"
    BY <2>2 DEF Encode4FSKControl
  <2>4. Quiet(s, t)
    BY <1>2, <2>2, <2>3, QuietSame
  <2> QED BY <1>3, <2>1, <2>4
<1>8. CASE RepeatConReq(p) \/ ArqTimeout(p) \/ PollDISC(p) \/ RepeatFrame(p)
  <2>1. CASE Act(p, CallFailed(s))
    <3>1. Leaves(CallFailed(s), s, {"rpt", "repeats"})
      BY <1>2, CallFailedIs
    <3>2. Leaves(CallFailed(s), s, {"abort", "rpt", "discRpt", "repeats"})
      BY <3>1 DEF Leaves, Same
    <3> QED BY <1>4, <2>1, <3>2
  <2>2. CASE ~Act(p, CallFailed(s))
    <3>1. PICK t : /\ Act(p, t)
                   /\ t \in {[s EXCEPT !.repeats = @ + 1, !.tx = s.rpt],
                             [s EXCEPT !.rpt = FALSE, !.timedOut = TRUE, !.sendTimer = TRUE],
                             [s EXCEPT !.disc = FALSE, !.repeats = 0, !.rpt = FALSE],
                             Remodulate(s)}
      BY <1>1, <1>8, <2>2 DEF RepeatConReq, ArqTimeout, PollDISC, RepeatFrame
    <3>2. /\ Same(t, s, {"repeats", "tx", "rpt", "timedOut", "sendTimer", "disc"})
          /\ t.enc = s.enc
      <4>1. CASE t = [s EXCEPT !.repeats = @ + 1, !.tx = s.rpt]
        BY <1>2, <4>1 DEF Same, Fields
      <4>2. CASE t # [s EXCEPT !.repeats = @ + 1, !.tx = s.rpt]
        BY <1>2, <3>1, <4>2 DEF Same, Fields, Remodulate
      <4> QED BY <4>1, <4>2
    <3>3. Quiet(s, t)
      BY <1>2, <3>2, QuietSame
    <3> QED BY <1>3, <3>1, <3>3
  <2> QED BY <2>1, <2>2
<1>9. CASE SendTimerExpires(p)
  <2>1. PICK t : t = SendTimeout(s) /\ Act(p, t)
    BY <1>1, <1>9 DEF SendTimerExpires
  <2>2. /\ Leaves(t, s, {"sendTimer", "rpt", "timedOut", "enc", "tx"})
        /\ t.enc = Encode4FSKControl("DISC", s.sid)
    BY <1>2, <2>1, SendTimeoutIs
  <2>3. t.enc.type # "ConReq"
    BY <2>2 DEF Encode4FSKControl
  <2>4. Quiet(s, t)
    BY <2>2, <2>3, QuietLeaves
  <2> QED BY <1>3, <2>1, <2>4
<1>10. CASE PendTimerExpires(p)
  <2>1. PICK t : t = PendingTimeout(s) /\ Act(p, t)
    BY <1>1, <1>10 DEF PendTimerExpires
  <2>2. /\ Same(t, s, {"pendTimer", "rpt", "state", "pending", "sid", "lastAcked", "bw"})
        /\ ~t.pendTimer /\ t.state = "DISC"
    BY <1>2, <2>1, PendingTimeoutIs
  <2>3. DOMAIN t = Fields /\ t.needCall = s.needCall /\ t.enc = s.enc
    BY <2>2 DEF Same, Fields
  <2>4. Quiet(s, t)
    BY <2>2, <2>3 DEF Quiet
  <2> QED BY <1>3, <2>1, <2>4
<1>11. CASE IdTimerExpires(p)
  <2>1. PICK u : u = [s EXCEPT !.idTimer = FALSE] /\ Act(p, Play(u, Encode4FSKIDFrame))
    BY <1>1, <1>11 DEF IdTimerExpires
  <2>2. Same(u, s, {"idTimer"}) /\ u.enc = s.enc
    BY <1>2, <2>1 DEF Same, Fields
  <2>3. Quiet(s, u)
    BY <1>2, <2>2, QuietSame
  <2> QED BY <1>3, <2>1, <2>3, QuietPlay DEF Encode4FSKIDFrame
<1> QED BY <1>5, <1>6, <1>7, <1>8, <1>9, <1>10, <1>11 DEF Poll

\* The same for a station that is neither in DISC nor waiting for the caller's ConAck: it may
\* change its state as it likes.
Calm(s, t) ==
  /\ DOMAIN t = Fields /\ t.needCall = s.needCall /\ t.pendTimer = s.pendTimer
  /\ t.enc = s.enc \/ t.enc.type # "ConReq"

\* What a subroutine changes calmly,
LEMMA CalmSame ==
  ASSUME NEW s, NEW u, NEW t, NEW X, Calm(s, u), Same(t, u, X),
         X \cap {"needCall", "pendTimer"} = {}, t.enc = u.enc \/ t.enc.type # "ConReq"
  PROVE  Calm(s, t)
BY DEF Same, Fields, Calm

\* how it leaves,
LEMMA CalmLeaves ==
  ASSUME NEW s, NEW u, NEW t, NEW X, Calm(s, u), Leaves(t, u, X),
         X \cap {"needCall", "pendTimer"} = {}, t.enc = u.enc \/ t.enc.type # "ConReq"
  PROVE  Calm(s, t)
<1>1. Same(t, u, Leaving \cup X) /\ (Leaving \cup X) \cap {"needCall", "pendTimer"} = {}
  BY DEF Leaves, Leaving
<1> QED BY <1>1, CalmSame

\* what it plays,
LEMMA CalmPlay ==
  ASSUME NEW s, NEW u, NEW type, NEW id, Calm(s, u), type # "ConReq"
  PROVE  Calm(s, Play(u, Encode4FSKControl(type, id)))
<1>1. PICK t : t = Play(u, Encode4FSKControl(type, id))
  OBVIOUS
<1>2. Same(t, u, {"enc", "tx"}) /\ t.enc = Encode4FSKControl(type, id)
  BY <1>1, PlayIs DEF Calm
<1>3. t.enc.type = type
  BY <1>2 DEF Encode4FSKControl
<1>4. Calm(s, t)
  BY <1>2, <1>3, CalmSame
<1> QED BY <1>1, <1>4

\* and what it does when roles change and sessions end.
LEMMA CalmTurns ==
  ASSUME NEW s, NEW u, Calm(s, u)
  PROVE  /\ Calm(s, StartBreak(u)) /\ Calm(s, TurnOver(u)) /\ Calm(s, CheckForDisconnect(u))
         /\ Calm(s, AnswerDisc(u)) /\ Calm(s, Ended(u)) /\ Calm(s, EndedIRS(u))
         /\ Calm(s, AnswerDiscIdle(u)) /\ Calm(s, EndedIdle(u))
         /\ \A shift : Calm(s, SendData(u, shift))
<1>1. DOMAIN u = Fields
  BY DEF Calm
<1>2. \A type, id : Encode4FSKControl(type, id).type = type
  BY DEF Encode4FSKControl
<1>3. Encode4FSKIDFrame.type = "ID" /\ \A id : EncodeDATAACK(id).type = "ACK"
  BY <1>2 DEF Encode4FSKIDFrame, EncodeDATAACK
<1>4. \A t, type, id : t.enc = Encode4FSKControl(type, id) => t.enc.type = type
  BY <1>2
<1>5. \A t, id : t.enc = EncodeDATAACK(id) => t.enc.type = "ACK"
  BY <1>3
<1>6. \A t, id : t.enc = Encode4FSKIDFrame => t.enc.type = "ID"
  BY <1>3
<1>7. Calm(s, StartBreak(u))
  <2>1. PICK t : t = StartBreak(u)
    OBVIOUS
  <2>2. /\ Same(t, u, {"state", "lastAcked", "rpt", "enc", "tx"})
        /\ t.enc = Encode4FSKControl("BREAK", u.sid)
    BY <1>1, <2>1, StartBreakIs
  <2>3. Calm(s, t)
    BY <1>4, <2>2, CalmSame
  <2> QED BY <2>1, <2>3
<1>8. Calm(s, TurnOver(u))
  <2>1. PICK t : t = TurnOver(u)
    OBVIOUS
  <2>2. /\ Same(t, u, {"state", "lastAcked", "rpt", "sub", "toHost", "enc", "tx"})
        /\ t.enc = EncodeDATAACK(u.sid)
    BY <1>1, <2>1, TurnOverIs
  <2>3. Calm(s, t)
    BY <1>5, <2>2, CalmSame
  <2> QED BY <2>1, <2>3
<1>9. Calm(s, CheckForDisconnect(u))
  <2>1. PICK t : t = CheckForDisconnect(u)
    OBVIOUS
  <2>2. /\ Same(t, u, {"repeats", "disc", "discRpt", "rpt", "enc", "tx"})
        /\ t.enc = Encode4FSKControl("DISC", u.sid)
    BY <1>1, <2>1, CheckForDisconnectIs
  <2>3. Calm(s, t)
    BY <1>4, <2>2, CalmSame
  <2> QED BY <2>1, <2>3
<1>10. Calm(s, AnswerDisc(u)) /\ Calm(s, AnswerDiscIdle(u))
  <2>1. ASSUME NEW t \in {AnswerDisc(u), AnswerDiscIdle(u)} PROVE Calm(s, t)
    <3>1. /\ Leaves(t, u, {"lastSid", "idTimer", "discRpt", "rpt", "enc", "tx"})
          /\ \E id : t.enc = Encode4FSKControl("END", id)
      BY <1>1, <2>1, AnswerDiscIs, AnswerDiscIdleIs
    <3> QED BY <1>4, <3>1, CalmLeaves
  <2> QED BY <2>1
<1>11. Calm(s, Ended(u)) /\ Calm(s, EndedIdle(u))
  <2>1. ASSUME NEW t \in {Ended(u), EndedIdle(u)} PROVE Calm(s, t)
    <3>1. Leaves(t, u, {"discRpt", "rpt", "enc", "tx"}) /\ t.enc = Encode4FSKIDFrame
      BY <1>1, <2>1, EndedIs, EndedIdleIs
    <3> QED BY <1>6, <3>1, CalmLeaves
  <2> QED BY <2>1
<1>12. Calm(s, EndedIRS(u))
  <2>1. PICK t : t = EndedIRS(u)
    OBVIOUS
  <2>2. Leaves(t, u, {"discRpt", "rpt"})
    BY <1>1, <2>1, EndedIRSIs
  <2>3. t.enc = u.enc
    BY <2>2 DEF Leaves, Leaving, Same, Fields
  <2>4. Calm(s, t)
    BY <2>2, <2>3, CalmLeaves
  <2> QED BY <2>1, <2>4
<1>13. ASSUME NEW shift PROVE Calm(s, SendData(u, shift))
  <2>1. PICK t : t = SendData(u, shift)
    OBVIOUS
  <2>2. \/ t = u \/ t = CheckForDisconnect(u)
        \/ /\ Same(t, u, {"mode", "inProcess", "sent", "sentData", "rpt", "sub", "enc", "tx"})
           /\ \E mode, par, data : t.enc = DataFrame(u.sid, mode, par, data)
        \/ /\ Same(t, u, {"state", "rpt", "sentData", "enc", "tx"})
           /\ t.enc = Encode4FSKControl("IDLE", u.sid)
    BY <1>1, <2>1, SendDataIs
  <2>3. \A mode, par, data : DataFrame(u.sid, mode, par, data).type = "DATA"
    BY DEF DataFrame, Encode4FSKControl
  <2>4. Calm(s, t)
    <3>1. CASE t = u \/ t = CheckForDisconnect(u)
      BY <1>9, <3>1
    <3>2. CASE /\ Same(t, u, {"mode", "inProcess", "sent", "sentData", "rpt", "sub", "enc", "tx"})
               /\ \E mode, par, data : t.enc = DataFrame(u.sid, mode, par, data)
      BY <2>3, <3>2, CalmSame
    <3>3. CASE /\ Same(t, u, {"state", "rpt", "sentData", "enc", "tx"})
               /\ t.enc = Encode4FSKControl("IDLE", u.sid)
      BY <1>4, <3>3, CalmSame
    <3> QED BY <2>2, <3>1, <3>2, <3>3
  <2> QED BY <2>1, <2>4
<1> QED BY <1>7, <1>8, <1>9, <1>10, <1>11, <1>12, <1>13

\* What a station hears in DISC, and until it has the caller's ConAck.
LEMMA CalledQuiet ==
  ASSUME TypedInv, NEW p \in Station, ReceiveInDISC(p) \/ ReceiveInIRSConAck(p)
  PROVE  QuietSteps(p)
<1>1. PICK s : s = st[p]
  OBVIOUS
<1>2. DOMAIN s = Fields /\ Quiet(s, s)
  BY <1>1 DEF TypedInv, Typed, Quiet
<1>3. ASSUME NEW t, NEW type, NEW id, Respond(p, Play(t, Encode4FSKControl(type, id))),
             Same(t, s, {"idTimer", "rpt", "psid"}), type # "ConReq"
      PROVE  QuietSteps(p)
  <2>1. t.enc = s.enc
    BY <1>3 DEF Same, Fields
  <2>2. Quiet(s, t)
    BY <1>2, <1>3, <2>1, QuietSame
  <2>3. Quiet(s, Play(t, Encode4FSKControl(type, id)))
    BY <1>3, <2>2, QuietPlay
  <2> QED BY <1>1, <1>3, <2>3, QuietMoves
<1>4. ASSUME NEW caller, NEW bw, Respond(p, AnswerConReq(s, caller, bw)), Receives(p, TRUE),
             air.frame.type = "ConReq"
      PROVE  QuietSteps(p)
  <2>1. PICK t : t = AnswerConReq(s, caller, bw)
    OBVIOUS
  <2>2. /\ Same(t, s, {"queue", "sid", "lastAcked", "bw", "state", "psid", "pending", "rpt",
                       "pendTimer", "sub", "toHost", "enc", "tx"})
        /\ t.state = "IRS" /\ t.sub = "IRSConAck" /\ t.enc = EncodeConACK(bw, caller)
    BY <1>2, <2>1, AnswerConReqIs
  <2>3. DOMAIN t = Fields /\ t.needCall = s.needCall
    BY <2>2 DEF Same, Fields
  <2>4. t.enc.type = "ConAck"
    BY <2>2, ConAcks
  <2>5. Answered(s, t)
    BY <2>2, <2>3, <2>4 DEF Answered, Called
  <2>6. Moved(p, t, TRUE) /\ air # NONE /\ air.to = p /\ calls' = calls
    BY <1>4, <2>1, ChangeMoves DEF Receives, Hears, Respond, host
  <2> QED BY <1>1, <1>4, <2>5, <2>6 DEF QuietSteps
<1>5. CASE ReceiveInDISC(p)
  <2>1. CASE \E bw : Respond(p, AnswerConReq(s, Peer(p), bw)) /\ air.frame.type = "ConReq"
    BY <1>4, <1>5, <2>1 DEF ReceiveInDISC
  <2>2. CASE \E t, type, id :
               /\ Respond(p, Play(t, Encode4FSKControl(type, id))) /\ type # "ConReq"
               /\ t \in {[s EXCEPT !.idTimer = TRUE, !.rpt = FALSE], [s EXCEPT !.psid = Peer(p)],
                         [s EXCEPT !.psid = Peer(p), !.rpt = FALSE]}
    <3>1. PICK t, type, id :
               /\ Respond(p, Play(t, Encode4FSKControl(type, id))) /\ type # "ConReq"
               /\ t \in {[s EXCEPT !.idTimer = TRUE, !.rpt = FALSE], [s EXCEPT !.psid = Peer(p)],
                         [s EXCEPT !.psid = Peer(p), !.rpt = FALSE]}
      BY <2>2
    <3>2. Same(t, s, {"idTimer", "rpt", "psid"})
      BY <1>2, <3>1 DEF Same, Fields
    <3> QED BY <1>3, <3>1, <3>2
  <2>3. \/ Respond(p, Play([s EXCEPT !.idTimer = TRUE, !.rpt = FALSE], Encode4FSKControl("END", s.lastSid)))
        \/ Respond(p, Play([s EXCEPT !.psid = Peer(p)], Encode4FSKControl("ConRejBusy", Peer(p))))
        \/ Respond(p, Play([s EXCEPT !.psid = Peer(p), !.rpt = FALSE],
                           Encode4FSKControl("ConRejBW", Peer(p))))
        \/ \E bw : Respond(p, AnswerConReq(s, Peer(p), bw)) /\ air.frame.type = "ConReq"
    BY <1>1, <1>5 DEF ReceiveInDISC
  <2> QED BY <2>1, <2>2, <2>3
<1>6. CASE ReceiveInIRSConAck(p)
  <2>1. CASE \E bw : Respond(p, AnswerConReq(s, Peer(p), bw)) /\ air.frame.type = "ConReq"
    BY <1>4, <1>6, <2>1 DEF ReceiveInIRSConAck
  <2>2. CASE Respond(p, Play([s EXCEPT !.psid = Peer(p)], Encode4FSKControl("ConRejBW", Peer(p))))
    <3>1. PICK t : t = [s EXCEPT !.psid = Peer(p)]
      OBVIOUS
    <3>2. Same(t, s, {"idTimer", "rpt", "psid"})
      BY <1>2, <3>1 DEF Same, Fields
    <3> QED BY <1>3, <2>2, <3>1, <3>2
  <2>3. CASE \E bw : Respond(p, Play([InitModes(s, bw) EXCEPT
                              !.sid = s.psid, !.connected = TRUE, !.pending = FALSE,
                              !.pendTimer = FALSE, !.sub = "IRSData", !.toHost = NONE,
                              !.rpt = FALSE],
                           EncodeDATAACK(s.psid)))
    <3>1. PICK bw, u, t : /\ u = InitModes(s, bw)
                          /\ t = [u EXCEPT !.sid = s.psid, !.connected = TRUE, !.pending = FALSE,
                                           !.pendTimer = FALSE, !.sub = "IRSData", !.toHost = NONE,
                                           !.rpt = FALSE]
                          /\ Respond(p, Play(t, EncodeDATAACK(s.psid)))
      BY <2>3
    <3>2. Same(u, s, {"bw", "table", "mode"})
      BY <1>2, <3>1, InitModesIs
    <3>3. /\ DOMAIN u = Fields /\ u.state = s.state /\ u.needCall = s.needCall /\ u.enc = s.enc
      BY <3>2 DEF Same, Fields
    <3>4. /\ DOMAIN t = Fields /\ t.state = s.state /\ t.needCall = s.needCall /\ t.enc = s.enc
          /\ ~t.pendTimer
      BY <3>1, <3>3 DEF Fields
    <3>5. Quiet(s, t)
      BY <3>4 DEF Quiet
    <3>6. Quiet(s, Play(t, Encode4FSKControl("ACK", s.psid)))
      BY <3>5, QuietPlay
    <3> QED BY <1>1, <3>1, <3>6, QuietMoves DEF EncodeDATAACK
  <2> QED BY <1>1, <1>6, <2>1, <2>2, <2>3 DEF ReceiveInIRSConAck
<1> QED BY <1>5, <1>6

\* Calm changes of a station that is neither in DISC nor waiting for the caller's ConAck are quiet.
LEMMA CalmMoves ==
  ASSUME NEW p, NEW t, Calm(st[p], t), Respond(p, t), st[p].state # "DISC", ~Called(st[p])
  PROVE  QuietSteps(p)
<1>1. Quiet(st[p], t)
  BY DEF Calm, Quiet
<1> QED BY <1>1, QuietMoves

\* What the receiving station hears in a session.
LEMMA ReceivingQuiet ==
  ASSUME TypedInv, NEW p \in Station,
         \/ BreakInstead(p) \/ ReceiveControlInIRS(p) \/ ReceiveConAckInIRS(p)
         \/ ReceiveDataInIRS(p) \/ ReceiveBadDataInIRS(p)
  PROVE  QuietSteps(p)
<1>1. PICK s : s = st[p]
  OBVIOUS
<1>2. DOMAIN s = Fields /\ Calm(s, s)
  BY <1>1 DEF TypedInv, Typed, Calm
<1>3. s.state # "DISC" /\ ~Called(s)
  BY <1>1 DEF BreakInstead, BreaksIn, ReceiveControlInIRS, ReceiveConAckInIRS, ReceiveDataInIRS,
              ReceiveBadDataInIRS, IRSReceiving, Called
<1>4. ASSUME NEW t, Respond(p, t), Calm(s, t) PROVE QuietSteps(p)
  BY <1>1, <1>3, <1>4, CalmMoves
<1>5. ASSUME NEW t, NEW type, NEW id, Respond(p, Play(t, Encode4FSKControl(type, id))),
             Same(t, s, {"rpt", "bw", "got", "toHost", "lastAcked", "sub", "breakCmd"}),
             type # "ConReq"
      PROVE  QuietSteps(p)
  <2>1. t.enc = s.enc
    BY <1>5 DEF Same, Fields
  <2>2. Calm(s, t)
    BY <1>2, <1>5, <2>1, CalmSame
  <2> QED BY <1>4, <1>5, <2>2, CalmPlay
<1>6. CASE BreakInstead(p)
  <2>1. CASE Respond(p, StartBreak([s EXCEPT !.breakCmd = FALSE]))
    <3>1. PICK u : u = [s EXCEPT !.breakCmd = FALSE]
      OBVIOUS
    <3>2. Same(u, s, {"breakCmd"}) /\ u.enc = s.enc
      BY <1>2, <3>1 DEF Same, Fields
    <3>3. Calm(s, u)
      BY <1>2, <3>2, CalmSame
    <3>4. Calm(s, StartBreak(u))
      BY <3>3, CalmTurns
    <3> QED BY <1>4, <2>1, <3>1, <3>4
  <2>2. CASE Respond(p, Play([s EXCEPT !.rpt = TRUE], Encode4FSKControl("BREAK", s.sid)))
    <3>1. PICK t : t = [s EXCEPT !.rpt = TRUE]
      OBVIOUS
    <3>2. Same(t, s, {"rpt", "bw", "got", "toHost", "lastAcked", "sub", "breakCmd"})
      BY <1>2, <3>1 DEF Same, Fields
    <3> QED BY <1>5, <2>2, <3>1, <3>2
  <2> QED BY <1>1, <1>6, <2>1, <2>2 DEF BreakInstead
<1>7. Same([s EXCEPT !.rpt = FALSE], s, {"rpt", "bw", "got", "toHost", "lastAcked", "sub", "breakCmd"})
  BY <1>2 DEF Same, Fields
<1>8. CASE ReceiveControlInIRS(p)
  <2>1. CASE Respond(p, Play([s EXCEPT !.rpt = FALSE], EncodeDATAACK(s.sid)))
    BY <1>5, <1>7, <2>1 DEF EncodeDATAACK
  <2>2. CASE \E t \in {AnswerDisc(s), EndedIRS(s), CheckForDisconnect(s), StartBreak(s)} : Respond(p, t)
    <3>1. \A t \in {AnswerDisc(s), EndedIRS(s), CheckForDisconnect(s), StartBreak(s)} : Calm(s, t)
      BY <1>2, CalmTurns
    <3> QED BY <1>4, <2>2, <3>1
  <2> QED BY <1>1, <1>8, <2>1, <2>2 DEF ReceiveControlInIRS
<1>9. CASE ReceiveConAckInIRS(p) \/ ReceiveDataInIRS(p)
  <2>1. CASE ReceiveConAckInIRS(p)
    <3>1. PICK bw, t : t = [s EXCEPT !.bw = bw] /\ Respond(p, Play(t, EncodeDATAACK(s.sid)))
      BY <1>1, <2>1 DEF ReceiveConAckInIRS
    <3>2. Same(t, s, {"rpt", "bw", "got", "toHost", "lastAcked", "sub", "breakCmd"})
      BY <1>2, <3>1 DEF Same, Fields
    <3> QED BY <1>5, <3>1, <3>2 DEF EncodeDATAACK
  <2>2. CASE ReceiveDataInIRS(p)
    <3>1. PICK got, type, t :
            /\ t = [s EXCEPT !.got = got, !.toHost = type, !.lastAcked = type, !.sub = "IRSData",
                             !.rpt = FALSE]
            /\ Respond(p, Play(t, EncodeDATAACK(s.sid)))
      BY <1>1, <2>2 DEF ReceiveDataInIRS
    <3>2. Same(t, s, {"rpt", "bw", "got", "toHost", "lastAcked", "sub", "breakCmd"})
      BY <1>2, <3>1 DEF Same, Fields
    <3> QED BY <1>5, <3>1, <3>2 DEF EncodeDATAACK
  <2> QED BY <1>9, <2>1, <2>2
<1>10. CASE ReceiveBadDataInIRS(p)
  <2>1. CASE Respond(p, Play([s EXCEPT !.rpt = FALSE], EncodeDATAACK(s.sid)))
    BY <1>5, <1>7, <2>1 DEF EncodeDATAACK
  <2>2. CASE Respond(p, Play([s EXCEPT !.sub = "IRSData", !.rpt = FALSE], EncodeDATANAK(s.sid)))
    <3>1. PICK t : t = [s EXCEPT !.sub = "IRSData", !.rpt = FALSE]
      OBVIOUS
    <3>2. Same(t, s, {"rpt", "bw", "got", "toHost", "lastAcked", "sub", "breakCmd"})
      BY <1>2, <3>1 DEF Same, Fields
    <3> QED BY <1>5, <2>2, <3>1, <3>2 DEF EncodeDATANAK
  <2> QED BY <1>1, <1>10, <2>1, <2>2 DEF ReceiveBadDataInIRS
<1> QED BY <1>6, <1>8, <1>9, <1>10

\* What a station that sends, or takes over, hears in a session.
LEMMA SendingQuiet ==
  ASSUME TypedInv, NEW p \in Station,
         \/ ReceiveInIRStoISS(p) \/ ReceiveInIDLE(p) \/ ReceiveInISSConReq(p) \/ ReceiveInISSConAck(p)
         \/ DisconnectInISSData(p) \/ ReceiveAckInISSData(p) \/ ReceiveNakInISSData(p)
         \/ ReceiveControlInISSData(p)
  PROVE  QuietSteps(p)
<1>1. PICK s : s = st[p]
  OBVIOUS
<1>2. DOMAIN s = Fields /\ Calm(s, s)
  BY <1>1 DEF TypedInv, Typed, Calm
<1>3. s.state \in {"IRStoISS", "IDLE", "ISS"}
  BY <1>1 DEF ReceiveInIRStoISS, ReceiveInIDLE, ReceiveInISSConReq, ReceiveInISSConAck,
              DisconnectInISSData, ReceiveAckInISSData, ReceiveNakInISSData,
              ReceiveControlInISSData, ReceivingAsISS
<1>4. ASSUME NEW t, Respond(p, t), Calm(s, t) PROVE QuietSteps(p)
  <2>1. s.state # "DISC" /\ ~Called(s)
    BY <1>3 DEF Called
  <2> QED BY <1>1, <1>4, <2>1, CalmMoves
<1>5. ASSUME s.state \in {"IRStoISS", "IDLE"}
      PROVE  Calm(s, [SetARDOPProtocolState(s, "ISS") EXCEPT !.sub = "ISSData"])
  BY <1>2, <1>5 DEF SetARDOPProtocolState, Fields, Calm
<1>6. CASE ReceiveInIRStoISS(p)
  <2>1. s.state = "IRStoISS"
    BY <1>1, <1>6 DEF ReceiveInIRStoISS
  <2>2. PICK v, u : /\ v = [SetARDOPProtocolState(s, "ISS") EXCEPT !.sub = "ISSData"]
                    /\ u = [v EXCEPT !.toHost = NONE]
                    /\ Respond(p, SendData(u, 0))
    BY <1>1, <1>6 DEF ReceiveInIRStoISS
  <2>3. Calm(s, v)
    BY <1>5, <2>1, <2>2
  <2>4. Calm(s, u)
    BY <2>2, <2>3 DEF Calm, Fields
  <2>5. Calm(s, SendData(u, 0))
    BY <2>4, CalmTurns
  <2> QED BY <1>4, <2>2, <2>5
<1>7. CASE ReceiveInIDLE(p)
  <2>1. s.state = "IDLE"
    BY <1>1, <1>7 DEF ReceiveInIDLE
  <2>2. CASE \E u : /\ u = [SetARDOPProtocolState(s, "ISS") EXCEPT !.sub = "ISSData"]
                    /\ Respond(p, SendData(u, 0))
    <3>1. PICK u : /\ u = [SetARDOPProtocolState(s, "ISS") EXCEPT !.sub = "ISSData"]
                   /\ Respond(p, SendData(u, 0))
      BY <2>2
    <3>2. Calm(s, u)
      BY <1>5, <2>1, <3>1
    <3>3. Calm(s, SendData(u, 0))
      BY <3>2, CalmTurns
    <3> QED BY <1>4, <3>1, <3>3
  <2>3. CASE \E t \in {TurnOver(s), AnswerDiscIdle(s), EndedIdle(s)} : Respond(p, t)
    <3>1. \A t \in {TurnOver(s), AnswerDiscIdle(s), EndedIdle(s)} : Calm(s, t)
      BY <1>2, CalmTurns
    <3> QED BY <1>4, <2>3, <3>1
  <2> QED BY <1>1, <1>7, <2>2, <2>3 DEF ReceiveInIDLE
<1>8. CASE ReceiveInISSConReq(p)
  <2>1. CASE \E bw : Respond(p, Play([InitModes(s, bw) EXCEPT !.rpt = TRUE, !.sub = "ISSConAck"],
                                     EncodeConACK(bw, s.sid)))
    <3>1. PICK bw, u, v, t :
            /\ u = InitModes(s, bw) /\ v = [u EXCEPT !.rpt = TRUE, !.sub = "ISSConAck"]
            /\ t = Play(v, EncodeConACK(bw, s.sid)) /\ Respond(p, t)
      BY <2>1
    <3>2. Same(u, s, {"bw", "table", "mode"})
      BY <1>2, <3>1, InitModesIs
    <3>3. u.enc = s.enc
      BY <3>2 DEF Same, Fields
    <3>4. Calm(s, u)
      BY <1>2, <3>2, <3>3, CalmSame
    <3>5. Calm(s, v)
      BY <3>1, <3>4 DEF Calm, Fields
    <3>6. Same(t, v, {"enc", "tx"}) /\ t.enc = EncodeConACK(bw, s.sid)
      BY <3>1, <3>5, PlayIs DEF Calm
    <3>7. t.enc.type = "ConAck"
      BY <3>6, ConAcks
    <3>8. Calm(s, t)
      BY <3>5, <3>6, <3>7, CalmSame
    <3> QED BY <1>4, <3>1, <3>8
  <2>2. CASE Respond(p, [s EXCEPT !.abort = TRUE])
    <3>1. Calm(s, [s EXCEPT !.abort = TRUE])
      BY <1>2 DEF Calm, Fields
    <3> QED BY <1>4, <2>2, <3>1
  <2> QED BY <1>1, <1>8, <2>1, <2>2 DEF ReceiveInISSConReq
<1>9. CASE ReceiveInISSConAck(p)
  <2>1. PICK u : u = CallerConnected(s)
    OBVIOUS
  <2>2. Same(u, s, {"rpt", "connected", "acked", "pending", "sub"})
    BY <1>2, <2>1, CallerConnectedIs
  <2>3. u.enc = s.enc
    BY <2>2 DEF Same, Fields
  <2>4. Calm(s, u)
    BY <1>2, <2>2, <2>3, CalmSame
  <2>5. Calm(s, SendData(u, 0)) /\ Calm(s, TurnOver(u))
    BY <2>4, CalmTurns
  <2>6. s.state = "ISS"
    BY <1>1, <1>9 DEF ReceiveInISSConAck
  <2>7. Calm(s, InitializeConnection(SetARDOPProtocolState(s, "DISC")))
    BY <1>2, <2>6 DEF InitializeConnection, SetARDOPProtocolState, ClearDataToSend, Fields, Calm
  <2>8. \/ Respond(p, SendData(u, 0)) \/ Respond(p, TurnOver(u))
        \/ Respond(p, InitializeConnection(SetARDOPProtocolState(s, "DISC")))
    BY <1>1, <1>9, <2>1 DEF ReceiveInISSConAck
  <2> QED BY <1>4, <2>5, <2>7, <2>8
<1>10. CASE DisconnectInISSData(p)
  <2>1. Respond(p, CheckForDisconnect(s))
    BY <1>1, <1>10 DEF DisconnectInISSData
  <2>2. Calm(s, CheckForDisconnect(s))
    BY <1>2, CalmTurns
  <2> QED BY <1>4, <2>1, <2>2
<1>11. CASE ReceiveAckInISSData(p)
  <2>1. PICK r, t, u, shift :
          /\ r = [s EXCEPT !.acked = s.sent, !.inProcess = 0]
          /\ t = IF s.sentData THEN RemoveDataFromQueue(r, s.inProcess) ELSE s
          /\ u = [t EXCEPT !.rpt = FALSE]
          /\ Respond(p, SendData(u, shift))
    BY <1>1, <1>11 DEF ReceiveAckInISSData
  <2>2. Calm(s, r)
    BY <1>2, <2>1 DEF Calm, Fields
  <2>3. Calm(s, t)
    <3>1. CASE s.sentData
      <4>1. Same(t, r, {"queue", "confirmed"})
        <5>1. t = RemoveDataFromQueue(r, s.inProcess)
          BY <2>1, <3>1
        <5> QED BY <2>2, <5>1, RemoveDataFromQueueIs DEF Calm
      <4>2. t.enc = r.enc
        BY <4>1 DEF Same, Fields
      <4> QED BY <2>2, <4>1, <4>2, CalmSame
    <3> QED BY <1>2, <2>1, <3>1
  <2>4. Calm(s, u)
    BY <2>1, <2>3 DEF Calm, Fields
  <2>5. Calm(s, SendData(u, shift))
    BY <2>4, CalmTurns
  <2> QED BY <1>4, <2>1, <2>5
<1>12. CASE ReceiveNakInISSData(p)
  <2>1. PICK shift : Respond(p, SendData(s, shift))
    BY <1>1, <1>12 DEF ReceiveNakInISSData
  <2>2. Calm(s, SendData(s, shift))
    BY <1>2, CalmTurns
  <2> QED BY <1>4, <2>1, <2>2
<1>13. CASE ReceiveControlInISSData(p)
  <2>1. PICK u : u = ClearDataToSend([s EXCEPT !.connected = TRUE, !.pending = FALSE])
    OBVIOUS
  <2>2. Calm(s, u)
    BY <1>2, <2>1 DEF ClearDataToSend, Calm, Fields
  <2>3. Calm(s, TurnOver(u)) /\ Calm(s, AnswerDisc(s)) /\ Calm(s, Ended(s))
    BY <1>2, <2>2, CalmTurns
  <2>4. Respond(p, TurnOver(u)) \/ Respond(p, AnswerDisc(s)) \/ Respond(p, Ended(s))
    BY <1>1, <1>13, <2>1 DEF ReceiveControlInISSData
  <2> QED BY <1>4, <2>3, <2>4
<1> QED BY <1>6, <1>7, <1>8, <1>9, <1>10, <1>11, <1>12, <1>13

\* An ABORT that comes while a station plays.
LEMMA AbortQuiet ==
  ASSUME TypedInv, NEW p \in Station, AbortInPlay(p)
  PROVE  QuietSteps(p)
<1>1. PICK s : s = st[p] /\ DOMAIN s = Fields
  BY DEF TypedInv, Typed
<1>2. calls' = calls
  BY <1>1, AbortInPlayIs
<1>3. PICK t : Change(p, t) /\ (GoesOut(t, s) \/ (Strands(t, s) /\ s.state = "IDLE"))
  BY <1>1, AbortInPlayIs
<1>4. Moved(p, t, FALSE)
  BY <1>3, ChangeMoves
<1>5. \A type, id : Encode4FSKControl(type, id).type = type
  BY DEF Encode4FSKControl
<1>6. CASE GoesOut(t, s)
  <2>1. Leaves(t, s, Out) /\ Out \cap {"needCall", "pendTimer"} = {} /\ t.enc.type # "ConReq"
    BY <1>5, <1>6 DEF GoesOut, Out
  <2>2. Quiet(s, t)
    BY <2>1, QuietLeaves
  <2> QED BY <1>1, <1>2, <1>4, <2>2 DEF QuietSteps
<1>7. CASE Strands(t, s) /\ s.state = "IDLE"
  <2>1. DOMAIN t = Fields /\ t.needCall = s.needCall /\ t.pendTimer = s.pendTimer
    BY <1>7 DEF Strands, Same, Fields
  <2>2. t.enc.type # "ConReq"
    BY <1>5, <1>7 DEF Strands, EncodeDATAACK
  <2>3. Quiet(s, t)
    BY <1>7, <2>1, <2>2 DEF Quiet, Called
  <2> QED BY <1>1, <1>2, <1>4, <2>3 DEF QuietSteps
<1> QED BY <1>3, <1>6, <1>7

\* At first nobody has called.
LEMMA CallInit == ASSUME NEW c \in Station, OneCaller(c) PROVE Init => CallInv(c)
<1> SUFFICES ASSUME Init PROVE CallInv(c)
  OBVIOUS
<1>1. PICK bw \in Bandwidths : st = [p \in Station |-> NewStation(bw[p][1], bw[p][2])]
  BY DEF Init
<1>2. ASSUME NEW p \in Station
      PROVE  ~st[p].pendTimer /\ ~st[p].needCall /\ st[p].state = "DISC" /\ st[p].enc = NONE
  <2>1. \A arqBW, callBW : LET s == NewStation(arqBW, callBW) IN
          ~s.pendTimer /\ ~s.needCall /\ s.state = "DISC" /\ s.enc = NONE
    BY DEF NewStation
  <2> QED BY <1>1, <2>1
<1>3. DOMAIN calls = Station /\ \A p \in Station : calls[p] = 0 /\ MaxCalls[p] \in Nat
  BY ArqAssumption DEF Init
<1>4. \A p \in Station : calls[p] \in Nat /\ calls[p] <= MaxCalls[p]
  BY <1>3
<1> QED BY <1>2, <1>3, <1>4, TwoStations DEF CallInv

\* Quiet steps of either station keep it.
LEMMA QuietKeeps ==
  ASSUME NEW c \in Station, TypedInv, SessionInv, CallInv(c), NEW p \in Station, QuietSteps(p)
  PROVE  CallInv(c)'
<1>0. PICK t : \E heard \in BOOLEAN :
        /\ Moved(p, t, heard)
        /\ \/ Quiet(st[p], t)
           \/ air # NONE /\ air.to = p /\ air.frame.type = "ConReq" /\ Answered(st[p], t)
  BY DEF QuietSteps
<1>1. PICK heard \in BOOLEAN :
        /\ Moved(p, t, heard)
        /\ \/ Quiet(st[p], t)
           \/ air # NONE /\ air.to = p /\ air.frame.type = "ConReq" /\ Answered(st[p], t)
  BY <1>0
<1>2. PICK q \in Station : q = Peer(p) /\ p = Peer(q) /\ p # q /\ (c = p \/ c = q)
  BY TwoStations
<1>3. PICK u : u = [t EXCEPT !.tx = FALSE]
  OBVIOUS
<1>4. /\ u.needCall = t.needCall /\ u.pendTimer = t.pendTimer /\ u.enc = t.enc
      /\ u.state = t.state /\ u.sub = t.sub
  BY <1>1, <1>3 DEF Quiet, Answered, Fields
<1>5. st'[p] = u /\ st'[q] = st[q] /\ calls' = calls
  BY <1>1, <1>2, <1>3 DEF Moved, TypedInv, QuietSteps
<1>6. Called(u) = Called(t)
  BY <1>4 DEF Called
<1>7. CASE c = p
  <2>1. Quiet(st[p], t)
    <3>1. air # NONE /\ air.to = p => air.frame = st[q].enc /\ air.frame # NONE
      BY <1>2, FramesAreThere DEF SessionInv, TypedInv
    <3> QED BY <1>1, <1>2, <1>7, <3>1 DEF CallInv
  <2> QED BY <1>2, <1>4, <1>5, <1>7, <2>1 DEF CallInv, Quiet, Called
<1>8. CASE c = q
  <2>1. /\ DOMAIN calls' = Station /\ \A x \in Station : calls'[x] \in Nat /\ calls'[x] <= MaxCalls[x]
        /\ ~st'[c].pendTimer /\ (st'[c].needCall => st'[c].state = "DISC" /\ calls'[c] = 1)
        /\ calls'[c] = 0 => st'[c].state = "DISC"
    BY <1>5, <1>8 DEF CallInv
  <2>2. /\ ~st[p].needCall /\ (st[p].enc # NONE => st[p].enc.type # "ConReq")
        /\ st[p].pendTimer => st[p].state = "DISC" \/ Called(st[p])
    BY <1>2, <1>8 DEF CallInv
  <2>3. ~u.needCall /\ (u.enc # NONE => u.enc.type # "ConReq")
    BY <1>1, <1>4, <2>2 DEF Quiet, Answered
  <2>4. u.pendTimer => u.state = "DISC" \/ Called(u)
    BY <1>1, <1>4, <1>6, <2>2 DEF Quiet, Answered
  <2> QED BY <1>2, <1>5, <1>8, <2>1, <2>3, <2>4 DEF CallInv, Called
<1> QED BY <1>2, <1>7, <1>8

\* So do the command that calls and the call itself, of the station that may.
LEMMA CallKeeps ==
  ASSUME NEW c \in Station, OneCaller(c), TypedInv, CallInv(c), NEW p \in Station,
         ArqCall(p) \/ PlaceCall(p)
  PROVE  CallInv(c)'
<1>1. PICK q \in Station : q = Peer(c) /\ c # q /\ (p = c \/ p = q) /\ \A x \in Station : x \in {c, q}
  BY TwoStations
<1>2. DOMAIN st = Station /\ DOMAIN st[c] = Fields /\ DOMAIN calls = Station
  BY DEF TypedInv, Typed, CallInv
<1>3. MaxCalls[c] \in Nat /\ MaxCalls[c] <= 1 /\ MaxCalls[q] = 0 /\ calls[c] \in Nat /\ calls[q] = 0
  BY <1>1, ArqAssumption DEF OneCaller, CallInv
<1>4. p = c
  BY <1>1, <1>3 DEF CallInv, ArqCall, PlaceCall
<1>5. CASE ArqCall(p)
  <2>1. calls[c] = 0 /\ MaxCalls[c] = 1 /\ st[c].state = "DISC"
    BY <1>3, <1>4, <1>5 DEF ArqCall, CallInv
  <2>2. calls' = [calls EXCEPT ![c] = 1]
    BY <1>2, <1>4, <1>5, <2>1 DEF ArqCall
  <2>3. PICK t : t = [st[c] EXCEPT !.needCall = TRUE] /\ Change(c, t)
    BY <1>4, <1>5 DEF ArqCall
  <2>4. PICK u : u = [t EXCEPT !.tx = FALSE] /\ st' = [st EXCEPT ![c] = u]
    BY <2>3 DEF Change
  <2>5. u.state = st[c].state /\ u.pendTimer = st[c].pendTimer
    BY <1>2, <2>3, <2>4 DEF Fields
  <2>6. st'[c] = u /\ st'[q] = st[q] /\ calls'[c] = 1 /\ calls'[q] = 0 /\ DOMAIN calls' = Station
    BY <1>1, <1>2, <1>3, <2>2, <2>4
  <2>7. \A x \in Station : calls'[x] \in Nat /\ calls'[x] <= MaxCalls[x]
    BY <1>1, <1>3, <2>1, <2>6
  <2> QED BY <1>1, <2>1, <2>5, <2>6, <2>7 DEF CallInv, Called
<1>6. CASE PlaceCall(p)
  <2>1. st[c].needCall /\ calls[c] = 1 /\ calls' = calls
    BY <1>4, <1>6 DEF PlaceCall, CallInv, Act, host
  <2>2. PICK t : t = ConnectRequest(st[c], c) /\ Change(c, t)
    BY <1>4, <1>6 DEF PlaceCall, Act
  <2>3. PICK u : u = [t EXCEPT !.tx = FALSE] /\ st' = [st EXCEPT ![c] = u]
    BY <2>2 DEF Change
  <2>4. /\ Same(t, st[c], {"sid", "lastAcked", "bw", "abort", "state", "sub", "repeats", "psid",
                           "pending", "connected", "rpt", "needCall", "enc", "tx"})
        /\ ~t.needCall
    BY <1>2, <2>2, ConnectRequestIs
  <2>5. DOMAIN t = Fields /\ ~t.needCall /\ t.pendTimer = st[c].pendTimer
    BY <2>4 DEF Same, Fields
  <2>6. ~u.needCall /\ u.pendTimer = st[c].pendTimer
    BY <2>3, <2>5 DEF Fields
  <2>7. st'[c] = u /\ st'[q] = st[q]
    BY <1>1, <1>2, <2>3
  <2> QED BY <1>1, <2>1, <2>6, <2>7 DEF CallInv, Called
<1> QED BY <1>5, <1>6

\* The invariant is kept,
LEMMA CallNext ==
  ASSUME NEW c \in Station, OneCaller(c)
  PROVE  TypedInv /\ SessionInv /\ CallInv(c) /\ [Next]_vars => CallInv(c)'
<1> SUFFICES ASSUME TypedInv, SessionInv, CallInv(c), [Next]_vars PROVE CallInv(c)'
  OBVIOUS
<1>1. CASE Fade \/ GoOutOfReach \/ UNCHANGED vars
  <2>1. st' = st /\ calls' = calls
    BY <1>1 DEF Fade, GoOutOfReach, vars
  <2> QED BY <2>1 DEF CallInv, Called
<1>2. CASE \E p \in Station :
             \/ GiveData(p) \/ ArqCall(p) \/ HostAbort(p) \/ HostDisconnect(p) \/ HostBreak(p)
             \/ HostPurge(p) \/ Poll(p) \/ Receive(p) \/ AbortInPlay(p)
  <2>1. PICK p \in Station :
             \/ GiveData(p) \/ ArqCall(p) \/ HostAbort(p) \/ HostDisconnect(p) \/ HostBreak(p)
             \/ HostPurge(p) \/ Poll(p) \/ Receive(p) \/ AbortInPlay(p)
    BY <1>2
  <2>2. CASE ArqCall(p) \/ PlaceCall(p)
    BY <2>2, CallKeeps
  <2>3. CASE ~(ArqCall(p) \/ PlaceCall(p))
    <3>1. Receive(p) => QuietSteps(p)
      BY CalledQuiet, ReceivingQuiet, SendingQuiet DEF Receive
    <3>2. QuietSteps(p)
      BY <2>1, <2>3, <3>1, HostQuiet, PollQuiet, AbortQuiet
    <3> QED BY <3>2, QuietKeeps
  <2> QED BY <2>2, <2>3
<1> QED BY <1>1, <1>2 DEF Next

\* and lets nothing interrupt a station that sends.
LEMMA CallGoesOn ==
  ASSUME NEW c \in Station, OneCaller(c), CallInv(c)
  PROVE  SendersGoOn
<1> SUFFICES ASSUME NEW p \in Station, Sending(st[p]), Interrupts(p) PROVE FALSE
  BY DEF SendersGoOn
<1>1. p = c \/ p = Peer(c)
  BY TwoStations
<1>2. st[p].state # "DISC" /\ ~Called(st[p])
  BY DEF Sending, Called
<1>3. ~PlaceCall(p) /\ ~PendTimerExpires(p)
  BY <1>1, <1>2 DEF CallInv, PlaceCall, PendTimerExpires
<1>4. ~HostPurge(p)
  BY DEF OneCaller, HostPurge, Command
<1> QED BY <1>3, <1>4 DEF Interrupts

\* Between two hosts of which one calls, once, and that do not purge, ardop1 delivers in order, at
\* most once, and without loss to those it confirms, whatever else the hosts command and when
\* (ABORT, DISCONNECT, BREAK), whatever is lost, and however the session ends.
THEOREM ArqOneCall ==
  ASSUME NEW c \in Station, OneCaller(c)
  PROVE  Spec => ImplementsLink
<1>1. TypedInv /\ [Next]_vars => TypedInv'
  BY TypedNext
<1>2. TypedInv /\ SessionInv /\ [Next]_vars => SessionInv'
  BY SessionNext
<1>3. Init => CallInv(c)
  BY CallInit
<1>4. TypedInv /\ SessionInv /\ CallInv(c) /\ [Next]_vars => CallInv(c)'
  BY CallNext
<1>5. CallInv(c) => [SendersGoOn]_vars
  BY CallGoesOn
<1>6. Spec => [][SendersGoOn]_vars
  BY TypedInit, SessionInit, <1>1, <1>2, <1>3, <1>4, <1>5, PTL DEF Spec
<1> QED BY <1>6, ArqImplementsLink, PTL
=============================================================================
