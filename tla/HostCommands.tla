----------------------------- MODULE HostCommands -----------------------------
(***************************************************************************)
(* The commands of ardop1's host (ext/ardop1/HostInterface.c,              *)
(* ProcessCommandFromHost): operators from the record of the modem and a   *)
(* command to the record it becomes, reply included.                       *)
(*                                                                         *)
(* A command is a record: its name; arg, which is "none", "number", "word" *)
(* or "call"; n, the number, the count of a call or the sub-command's      *)
(* value; w, the word or the callsign, in upper case.  atoi makes 0 of     *)
(* what is no number.  The fields of the modem's record are                *)
(*   number, flag, choice, word  the settings, by the name of their command*)
(*   mycall, aux         Callsign, AuxCalls                                *)
(*   state               ProtocolState                                     *)
(*   need                NeedConReq, NeedPing, NeedID, NeedTwoToneTest     *)
(*   callee              ConnectToCall                                     *)
(*   calls, pings        ARQConReqRepeats, PingCount                       *)
(*   abort, disconnect, brk, closing  blnAbort, blnARQDisconnect,          *)
(*                       blnBREAKCmd, blnClosing                           *)
(*   queue               bytDataToSend                                     *)
(*   reports             CommandToHostBuffer: numbers, in the order told   *)
(*   forHost             bytDataforHost, likewise                          *)
(*   packets             PacketMonLength # 0                               *)
(*   kiss                the ring of frames to be sent as packets          *)
(*   rig, cat            what the radio said: in the CAT port, CatRXbuffer *)
(*   hostMode, pac       HostMode, PACMode                                 *)
(*   pkt, level          pktMaxFrame and the like; TXLevel and RXLevel     *)
(*   reply               what the last command was answered                *)
(* Histories: told, passed and heard, how many reports, data and CAT data  *)
(* the host is due;                                                        *)
(* wanted, the call and the ping that were accepted last; mixed, that one  *)
(* of them was accepted while the other waited.                            *)
(*                                                                         *)
(* CAPTURE, PLAYBACK and GRIDSQUARE have one setting, word; the radio's    *)
(* own commands have an answer but no state here.                          *)
(***************************************************************************)
EXTENDS Kiss

CONSTANTS
  ReportRoom,  \* reports CommandToHostBuffer holds: 500 bytes
  QueueRoom,   \* items bytDataToSend holds: DATABUFFERSIZE bytes
  HasCAT       \* there is a CAT port

ASSUME HostCommandsAssumption ==
  /\ ReportRoom \in Nat /\ QueueRoom \in Nat /\ HasCAT \in BOOLEAN

-------------------------------------------------------------------------------
\* Settings.

Limits ==
  [ARQTIMEOUT |-> 30 .. 240, BUSYDET |-> 0 .. 10, CONSOLELOG |-> 0 .. 7, DRIVELEVEL |-> 0 .. 100,
   FECREPEATS |-> 0 .. 5, LEADER |-> 120 .. 2500, LOGLEVEL |-> 0 .. 7, SQUELCH |-> 1 .. 10,
   TRAILER |-> 0 .. 200, TUNINGRANGE |-> 0 .. 200, RETRIES |-> 3 .. 30, FRACK |-> 2 .. 15]
ARQBandwidths ==
  {"200FORCED", "500FORCED", "1000FORCED", "2000FORCED", "200MAX", "500MAX", "1000MAX", "2000MAX"}
Options ==
  [ARQBW |-> ARQBandwidths, CALLBW |-> ARQBandwidths \cup {"UNDEFINED"},
   CWID |-> {"TRUE", "FALSE", "ONOFF"}, PROTOCOLMODE |-> {"ARQ", "FEC"},
   FECMODE |-> {"4FSK.500.100", "4FSK.200.50S"}, MODE |-> {"4PSK/500", "4FSK/500"}]
InSession == {"ISS", "IRS", "IDLE", "IRStoISS"}
States == InSession \cup {"DISC", "FECSend"}

NewModem ==
  [number |-> [ARQTIMEOUT |-> 120, BUSYDET |-> 5, CONSOLELOG |-> 7, DRIVELEVEL |-> 100,
               FECREPEATS |-> 0, LEADER |-> 240, LOGLEVEL |-> 7, SQUELCH |-> 5, TRAILER |-> 0,
               TUNINGRANGE |-> 100, RETRIES |-> 6, FRACK |-> 4],
   flag |-> [AUTOBREAK |-> TRUE, BUSYBLOCK |-> FALSE, CMDTRACE |-> TRUE, CODEC |-> FALSE,
             DEBUGLOG |-> TRUE, ENABLEPINGACK |-> TRUE, FASTSTART |-> TRUE, FECID |-> FALSE,
             FSKONLY |-> FALSE, LISTEN |-> TRUE, MONITOR |-> TRUE, USE600MODES |-> FALSE],
   choice |-> [ARQBW |-> "2000MAX", CALLBW |-> "UNDEFINED", CWID |-> "FALSE",
               PROTOCOLMODE |-> "ARQ", FECMODE |-> "4FSK.500.100", MODE |-> "4PSK/500"],
   word |-> "", mycall |-> "", aux |-> <<>>, state |-> "DISC", need |-> {}, callee |-> "",
   calls |-> 5, pings |-> 0, abort |-> FALSE, disconnect |-> FALSE, brk |-> FALSE,
   closing |-> FALSE, queue |-> <<>>, reports |-> <<>>, forHost |-> <<>>, packets |-> 0, reply |-> "none",
   kiss |-> NewKiss, rig |-> <<>>, cat |-> <<>>, hostMode |-> FALSE, pac |-> FALSE,
   pkt |-> [BAUD |-> 8, MAX |-> 4, PACL |-> 80], level |-> [PSKA |-> 300, FSKA |-> 0],
   told |-> 0, passed |-> 0, heard |-> 0, wanted |-> [ConReq |-> <<"", 0>>, Ping |-> <<"", 0>>],
   mixed |-> FALSE]

Answer(m, reply) == [m EXCEPT !.reply = reply]
Fault(m) == Answer(m, "fault")
Silent(m) == Answer(m, "none")

-------------------------------------------------------------------------------
\* What commands share.

\* SendCommandToHost: queued for a host in host mode, and dropped when there is no room; in
\* text mode, and over TCP, it is written at once.
Report(m) ==
  IF ~m.hostMode \/ Len(m.reports) >= ReportRoom THEN m
  ELSE [m EXCEPT !.reports = Append(@, m.told + 1), !.told = @ + 1]

\* AddDataToDataToSend: what does not fit is dropped, and nobody is told.
AddData(m, item) ==
  IF Len(m.queue) >= QueueRoom THEN m ELSE Report([m EXCEPT !.queue = Append(@, item)])
ClearData(m) == Report([m EXCEPT !.queue = <<>>])

\* SetARDOPProtocolState
SetState(m, s) ==
  IF m.state = s THEN m
  ELSE IF s = "DISC" THEN Report(ClearData([m EXCEPT !.state = s, !.disconnect = FALSE]))
  ELSE Report([m EXCEPT !.state = s])

Value(c) == IF c.arg = "number" THEN c.n ELSE 0
Word(c) == IF c.arg = "word" THEN c.w ELSE ""
Asks(c) == c.arg = "none"
IsCallsign(w) == w \in {"A1A", "B2B", "C3C"}

NumberCommand(m, c, v) ==
  IF Asks(c) THEN Answer(m, "value")
  ELSE IF Value(c) \in Limits[c.name] THEN Answer([m EXCEPT !.number[c.name] = v], "now")
  ELSE Fault(m)
ChoiceCommand(m, c) ==
  IF Asks(c) THEN Answer(m, "value")
  ELSE IF Word(c) \in Options[c.name] THEN Answer([m EXCEPT !.choice[c.name] = Word(c)], "now")
  ELSE Fault(m)
\* Neither TRUE nor FALSE: the fault goes to another strFault, and nothing is answered.
DoTrueFalseCmd(m, c) ==
  IF Asks(c) THEN Answer(m, "value")
  ELSE IF Word(c) \in {"TRUE", "FALSE"}
       THEN Answer([m EXCEPT !.flag[c.name] = (Word(c) = "TRUE")], "now")
  ELSE Silent(m)
InTens(n) == ((n + 9) \div 10) * 10

-------------------------------------------------------------------------------
\* The session and what is to be sent.

\* Abort and GetNextARQFrame; in the other states the abort waits for its turn.
ABORT(m) ==
  IF m.state \in {"IDLE", "IRS", "IRStoISS"}
  THEN Answer([SetState(ClearData(m), "DISC") EXCEPT !.abort = FALSE], "echo")
  ELSE Answer([m EXCEPT !.abort = TRUE], "echo")

\* A call or a ping is accepted: the background sends it, to ConnectToCall.
Accept(m, kind, c) ==
  [m EXCEPT !.need = @ \cup {kind}, !.callee = c.w, !.reply = "echo",
            !.wanted[kind] = <<c.w, c.n>>,
            !.mixed = @ \/ m.need \cap ({"ConReq", "Ping"} \ {kind}) # {}]
Calls(c) == c.arg = "call" /\ (IsCallsign(c.w) \/ c.w = "CQ") /\ c.n \in 2 .. 15
\* Mutant of ARQCALL: the callsign is copied before the command is checked.
CopiedFirst(m, c) ==
  IF Calls(c) /\ m.mycall # "" /\ m.choice.PROTOCOLMODE = "ARQ"
  THEN [Accept(m, "ConReq", c) EXCEPT !.calls = c.n]
  ELSE Fault([m EXCEPT !.callee = IF c.arg = "call" THEN c.w ELSE @])
ARQCALL(m, c) ==
  IF Calls(c) /\ m.mycall # "" /\ m.choice.PROTOCOLMODE = "ARQ"
  THEN [Accept(m, "ConReq", c) EXCEPT !.calls = c.n]
  ELSE Fault(m)
PING(m, c) ==
  IF c.arg = "call" /\ IsCallsign(c.w) /\ c.n \in 1 .. 15 /\ m.state = "DISC"
  THEN [Accept(m, "Ping", c) EXCEPT !.pings = c.n]
  ELSE Fault(m)

BREAK(m) == Silent(IF m.state = "IRS" THEN [m EXCEPT !.brk = TRUE] ELSE m)
DISCONNECT(m) ==
  Answer(IF m.state \in InSession THEN [m EXCEPT !.disconnect = TRUE] ELSE m, "echo")
FECSEND(m, c) ==
  CASE Word(c) = "TRUE" ->
         IF m.state = "FECSend" \/ m.queue = <<>> \/ m.mycall = "" THEN Answer(m, "now")
         ELSE Answer([SetState(m, "FECSend") EXCEPT
                        !.abort = FALSE, !.need = IF m.flag.FECID THEN @ \cup {"ID"} ELSE @], "now")
    [] Word(c) = "FALSE" -> Answer([m EXCEPT !.abort = TRUE], "now")
    [] Word(c) \notin {"TRUE", "FALSE"} -> Fault(m)
InDISC(m, kind) ==
  IF m.state = "DISC" THEN Answer([m EXCEPT !.need = @ \cup {kind}], "echo") ELSE Fault(m)
SENDID(m) == InDISC(m, "ID")
TWOTONETEST(m) == InDISC(m, "TwoTone")
PROTOCOLMODE(m, c) ==
  LET done == ChoiceCommand(m, c)
  IN IF done.reply = "now" THEN SetState(done, "DISC") ELSE done

\* The data waiting to be sent; what is no number is 0 here.
BUFFER(m, c) == IF Asks(c) THEN Answer(m, "value") ELSE Fault(m)
DATATOSEND(m, c) ==
  IF Asks(c) THEN Answer(m, "value")
  ELSE IF Value(c) = 0 THEN Answer([m EXCEPT !.queue = <<>>], "now") ELSE Fault(m)
PURGEBUFFER(m) == Answer(ClearData(m), "echo")
INITIALIZE(m) == Answer(ClearData(m), "echo")
CL(m) == Silent(ClearData(m))

-------------------------------------------------------------------------------
\* Settings, one definition for each stretch of the source.

ARQBW(m, c) == ChoiceCommand(m, c)
ARQTIMEOUT(m, c) == NumberCommand(m, c, Value(c))
BUSYDET(m, c) == NumberCommand(m, c, Value(c))
CALLBW(m, c) == ChoiceCommand(m, c)
CAPTURE(m, c) ==
  IF Asks(c) THEN Answer(m, "value") ELSE Answer([m EXCEPT !.word = Word(c)], "now")
CONSOLELOG(m, c) == NumberCommand(m, c, Value(c))
CWID(m, c) == ChoiceCommand(m, c)
DRIVELEVEL(m, c) == NumberCommand(m, c, Value(c))
FECMODE(m, c) == ChoiceCommand(m, c)
FECREPEATS(m, c) == NumberCommand(m, c, Value(c))
GRIDSQUARE(m, c) == IF Asks(c) \/ IsCallsign(Word(c)) THEN CAPTURE(m, c) ELSE Fault(m)
\* Mutant of LEADER: the length is not checked.
AnyLeader(m, c) ==
  IF Asks(c) THEN Answer(m, "value")
  ELSE Answer([m EXCEPT !.number.LEADER = InTens(Value(c))], "now")
LEADER(m, c) == NumberCommand(m, c, InTens(Value(c)))
LOGLEVEL(m, c) == NumberCommand(m, c, Value(c))
SQUELCH(m, c) == NumberCommand(m, c, Value(c))
TRAILER(m, c) == NumberCommand(m, c, InTens(Value(c)))
TUNINGRANGE(m, c) == NumberCommand(m, c, Value(c))

\* Up to ten callsigns; those that are not valid are left out, without a fault.
MYAUX(m, c) ==
  IF Asks(c) THEN Answer(m, "value")
  ELSE Answer([m EXCEPT !.aux = FoldLeft(LAMBDA q, w : IF Len(q) < 10 /\ IsCallsign(w)
                                                       THEN Append(q, w) ELSE q, <<>>, c.list)],
              "now")
MYCALL(m, c) ==
  IF Asks(c) THEN Answer(m, "value")
  ELSE IF IsCallsign(Word(c)) THEN Answer([m EXCEPT !.mycall = Word(c)], "now") ELSE Fault(m)

\* PAC MODE, RETRIES and FRACK: a number out of range is answered as if it had been set.
PAC(m, c) ==
  CASE c.sub = "MODE" -> ChoiceCommand(m, [c EXCEPT !.name = "MODE"])
    [] c.sub \in {"RETRIES", "FRACK"} ->
         IF Asks(c) THEN Answer(m, "value")
         ELSE IF Value(c) \in Limits[c.sub] THEN Answer([m EXCEPT !.number[c.sub] = Value(c)], "now")
         ELSE Answer(m, "now")
    [] c.sub = "other" -> Answer(m, "echo")

\* The radio: what is to be sent to it, or how its PTT is keyed.
RADIOHEX(m, c) == IF Asks(c) THEN Fault(m) ELSE Silent(m)
RADIOFREQ(m, c) == IF Asks(c) THEN Fault(m) ELSE Silent(m)
RADIOPTTOFF(m, c) == IF Asks(c) \/ ~HasCAT THEN Fault(m) ELSE Answer(m, "echo")
RADIOPTTON(m, c) == IF Asks(c) \/ ~HasCAT THEN Fault(m) ELSE Answer(m, "echo")

\* Questions
StateCommand(m, c) == IF Asks(c) THEN Answer(m, "value") ELSE Fault(m)
Devices == {"CAPTUREDEVICES", "PLAYBACKDEVICES"}
\* The levels are not there on this platform, and DATETIME is a fault.
VERSION == {"VERSION", "RXLEVEL", "TXLEVEL"}
DATETIME(m) == Fault(m)
\* The codec is started or stopped as well.
CODEC(m, c) == DoTrueFalseCmd(m, c)
CLOSE(m) == Silent([m EXCEPT !.closing = TRUE])

ProcessCommandFromHost(m, c) ==
  CASE c.name \in {"ABORT", "DD"} -> ABORT(m)
    [] c.name = "ARQCALL" -> ARQCALL(m, c)
    [] c.name = "PING" -> PING(m, c)
    [] c.name = "BREAK" -> BREAK(m)
    [] c.name = "CLOSE" -> CLOSE(m)
    [] c.name = "CODEC" -> CODEC(m, c)
    [] c.name = "DATETIME" -> DATETIME(m)
    [] c.name = "DISCONNECT" -> DISCONNECT(m)
    [] c.name = "FECSEND" -> FECSEND(m, c)
    [] c.name = "SENDID" -> SENDID(m)
    [] c.name = "TWOTONETEST" -> TWOTONETEST(m)
    [] c.name = "PROTOCOLMODE" -> PROTOCOLMODE(m, c)
    [] c.name = "BUFFER" -> BUFFER(m, c)
    [] c.name = "DATATOSEND" -> DATATOSEND(m, c)
    [] c.name = "PURGEBUFFER" -> PURGEBUFFER(m)
    [] c.name = "INITIALIZE" -> INITIALIZE(m)
    [] c.name = "CL" -> CL(m)
    [] c.name \in DOMAIN m.flag \ {"CODEC"} -> DoTrueFalseCmd(m, c)
    [] c.name = "ARQBW" -> ARQBW(m, c)
    [] c.name = "ARQTIMEOUT" -> ARQTIMEOUT(m, c)
    [] c.name = "BUSYDET" -> BUSYDET(m, c)
    [] c.name = "CALLBW" -> CALLBW(m, c)
    [] c.name \in {"CAPTURE", "PLAYBACK"} -> CAPTURE(m, c)
    [] c.name = "CONSOLELOG" -> CONSOLELOG(m, c)
    [] c.name = "CWID" -> CWID(m, c)
    [] c.name = "DRIVELEVEL" -> DRIVELEVEL(m, c)
    [] c.name = "FECMODE" -> FECMODE(m, c)
    [] c.name = "FECREPEATS" -> FECREPEATS(m, c)
    [] c.name = "GRIDSQUARE" -> GRIDSQUARE(m, c)
    [] c.name = "LEADER" -> LEADER(m, c)
    [] c.name = "LOGLEVEL" -> LOGLEVEL(m, c)
    [] c.name = "SQUELCH" -> SQUELCH(m, c)
    [] c.name = "TRAILER" -> TRAILER(m, c)
    [] c.name = "TUNINGRANGE" -> TUNINGRANGE(m, c)
    [] c.name = "MYAUX" -> MYAUX(m, c)
    [] c.name = "MYCALL" -> MYCALL(m, c)
    [] c.name = "PAC" -> PAC(m, c)
    [] c.name = "RADIOHEX" -> RADIOHEX(m, c)
    [] c.name = "RADIOFREQ" -> RADIOFREQ(m, c)
    [] c.name = "RADIOPTTOFF" -> RADIOPTTOFF(m, c)
    [] c.name = "RADIOPTTON" -> RADIOPTTON(m, c)
    [] c.name = "STATE" -> StateCommand(m, c)
    [] c.name \in Devices \cup VERSION -> Answer(m, "value")
    [] OTHER -> Fault(m)
===============================================================================
