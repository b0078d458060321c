------------------------------- MODULE ScsHost -------------------------------
(***************************************************************************)
(* The modem's end of the serial line in host mode, native ARDOP           *)
(* (ext/ardop1/SCSHostInterface.c, with SerialHostPoll of LinSerial.c).    *)
(*                                                                         *)
(* The bytes of a frame, or of a line of text, travel in two pieces: what  *)
(* is read from the line at a time, or lost on it, is some of them.  The   *)
(* first piece of a frame has the header, two bytes 170, and the second    *)
(* does not begin with one (where else a frame may be cut); a piece is     *)
(* [frame, half], and a frame [id, toggle, ask], id being a history that   *)
(* numbers the host's requests.  A line of text is a frame [id, line], its *)
(* id 0, the command its line; TEXT is the one that says JHOST4.           *)
(*                                                                         *)
(* The fields of the record of the line are                                *)
(*   toggle             Toggle # 0                                         *)
(*   buf                RXBUFFER, up to RXBPtr                             *)
(*   last               SCSReply, as it was sent                           *)
(*   connecting         the requests 'C' whose call is on the air; the     *)
(*                      first is the outermost                             *)
(*   ran                a history: the requests that were done             *)
(*   crossed            a history: a repeat was answered during a call     *)
(* A reply is [id, toggle, kind, items, kept, whole]: the request it was   *)
(* made for, what it holds, that ReplyLen tells its length, and that it is *)
(* what was to be said.                                                    *)
(***************************************************************************)
EXTENDS HostCommands

CONSTANTS
  Chunk,   \* how many items one reply holds: 256 bytes
  Stuffed  \* the items for the host that contain a byte 170

ASSUME ScsHostAssumption == Chunk \in Nat \ {0} /\ Stuffed \subseteq Nat

Text(c) == [id |-> 0, line |-> c]
TEXT == Text([name |-> "JHOST4", arg |-> "none", n |-> 0, w |-> ""])
IsText(piece) == piece.frame.id = 0
Pieces(f) == <<[frame |-> f, half |-> 1], [frame |-> f, half |-> 2]>>

\* Nothing was said yet: ReplyLen is 0.
NoReply ==
  [id |-> 0, toggle |-> FALSE, kind |-> "none", items |-> <<>>, kept |-> TRUE, whole |-> TRUE]
NewLine ==
  [toggle |-> FALSE, buf |-> <<>>, last |-> NoReply, connecting |-> <<>>, ran |-> <<>>,
   crossed |-> FALSE]

-------------------------------------------------------------------------------
\* What is answered to a request: the modem as it becomes, and what the reply holds.

Holding(m, kind, items, kept) == [modem |-> m, kind |-> kind, items |-> items, kept |-> kept]
Plain(m, kind) == Holding(m, kind, <<>>, TRUE)
FirstOf(s) == SubSeq(s, 1, Min({Chunk, Len(s)}))
RestOf(s) == SubSeq(s, Min({Chunk, Len(s)}) + 1, Len(s))

\* CheckForControl and CheckForData
CheckForControl(m) ==
  IF m.reports = <<>> THEN Plain(m, "ack")
  ELSE Holding([m EXCEPT !.reports = RestOf(@)], "reports", FirstOf(m.reports), TRUE)
CheckForData(m) ==
  IF m.forHost = <<>> THEN Plain(m, "ack")
  ELSE Holding([m EXCEPT !.forHost = RestOf(@)], "data", FirstOf(m.forHost), TRUE)
SpecificPoll(m, chan) ==
  CASE chan = 32 -> CheckForControl(m)
    [] chan = 33 -> CheckForData(m)
    [] chan \notin {32, 33} -> Plain(m, "ack")

\* The packet monitor's and CheckKISS's replies do not set ReplyLen.
PacketMonitor(m) == Holding([m EXCEPT !.packets = 0], "packets", <<>>, FALSE)
CheckKISS(m) == Holding([m EXCEPT !.kiss.acks = 0], "packets", <<>>, FALSE)
\* The channels that have something, among them what is now read from the CAT port.
ListOfChannels(m) ==
  Plain(IF m.cat = <<>> THEN [m EXCEPT !.cat = m.rig, !.rig = <<>>] ELSE m, "list")
GeneralPoll(m) ==
  IF m.packets > 0 THEN PacketMonitor(m)
  ELSE IF m.kiss.acks > 0 THEN CheckKISS(m)
  ELSE ListOfChannels(m)

StatusPoll(m) == Plain(m, "reply")
\* What is sent to the radio is not looked at (ProcessRIGPacket).
RigFrame(m, ask) ==
  IF ask.fetch THEN Holding([m EXCEPT !.cat = <<>>], "cat", m.cat, TRUE) ELSE Plain(m, "ack")
KissFrame(m, bytes) == Plain([m EXCEPT !.kiss = ProcessKISSBytes(@, bytes)], "ack")

CommandFrame(m, c) ==
  LET done == ProcessCommandFromHost(m, c)
  IN Plain(done, IF done.reply = "none" THEN "ack" ELSE "reply")
DataFrame(m, item) == Plain(AddData(m, item), "ack")

\* SendARQConnectRequest, up to where the call plays; a call that cannot be encoded does not.
Encodes(m, w) == w = "CQ" \/ (IsCallsign(m.mycall) /\ IsCallsign(w))
ConnectTo(m, w) == IF Encodes(m, w) THEN SetState([m EXCEPT !.abort = FALSE], "ISS") ELSE m
HostDisconnect(m) ==
  IF m.state \in {"IDLE", "IRS", "ISS"} THEN [m EXCEPT !.disconnect = TRUE] ELSE m
LinkStatus(m) == Plain(m, "reply")
PercentCommand(m) == Plain(m, "reply")
FreeBytes(m) == Plain(m, "reply")
\* What the command answers is not told.
HashCommand(m, c) == Plain(ProcessCommandFromHost(m, c), "reply")

ProcessSCSHostFrame(m, ask) ==
  CASE ask.chan = "poll" -> GeneralPoll(m)
    [] ask.chan = "status" -> StatusPoll(m)
    [] ask.chan = "rig" -> RigFrame(m, ask)
    [] ask.chan = "kiss" -> KissFrame(m, ask.bytes)
    [] ask.chan = "command" -> CommandFrame(m, ask.c)
    [] ask.chan = "data" -> DataFrame(m, ask.item)
    [] ask.chan = "G" -> SpecificPoll(m, ask.of)
    [] ask.chan = "L" -> LinkStatus(m)
    [] ask.chan = "%" -> PercentCommand(m)
    [] ask.chan = "@" -> FreeBytes(m)
    [] ask.chan = "C" -> Plain(ConnectTo(m, ask.w), "ack")
    [] ask.chan = "D" -> Plain(HostDisconnect(m), "ack")
    [] ask.chan = "#" -> HashCommand(m, ask.c)

-------------------------------------------------------------------------------
\* EmCRCStuffAndSend: it stuffs SCSReply in place and leaves ReplyLen, so that what held a
\* byte 170 is not whole when it is sent again; nor is what ReplyLen does not tell of.
Again(reply, toggle) ==
  [reply EXCEPT !.toggle = toggle, !.whole = reply.kept /\ Range(reply.items) \cap Stuffed = {}]
Reply(f, done) ==
  [id |-> f.id, toggle |-> f.toggle, kind |-> done.kind, items |-> done.items,
   kept |-> done.kept, whole |-> TRUE]

-------------------------------------------------------------------------------
\* ProcessSCSPacket: what is to be done with what has been read.

TwoHeaders(buf) == \E i \in 2 .. Len(buf) : buf[i].half = 1 /\ ~IsText(buf[i])
IsWhole(buf) == buf = Pieces(buf[1].frame)

\* In host mode nothing but a frame is expected at the start of the buffer.
Noise(buf) == IsText(buf[1]) \/ buf[1].half = 2
HostModeFate(buf) ==
  IF Noise(buf) \/ TwoHeaders(buf) THEN "drop" ELSE IF IsWhole(buf) THEN "frame" ELSE "wait"

\* In text mode lines are taken one by one; a frame is dropped with what follows.
LineEnds(buf) ==
  {k \in 1 .. Len(buf) : buf[k].half = 2 /\ \A i \in 1 .. k : IsText(buf[i])}
LineUpTo(buf, k) == SubSeq(buf, Max({i \in LineEnds(buf) \cup {0} : i < k}) + 1, k)
Entries(buf) == {k \in LineEnds(buf) : LineUpTo(buf, k) = Pieces(TEXT)}
After(buf, k) == SubSeq(buf, k + 1, Len(buf))

Outcome(m, l, replies) == [modem |-> m, line |-> l, replies |-> replies]

\* A frame with the toggle of the one before is a repeat, and is not looked at.  When nothing
\* was said yet two bytes 170 are sent, which is no reply.
SayAgain(m, l) ==
  IF l.last = NoReply THEN Outcome(m, l, <<>>)
  ELSE Outcome(m, [l EXCEPT !.crossed = @ \/ l.connecting # <<>>], <<Again(l.last, l.toggle)>>)
\* The host is polled while the call of a request 'C' plays: the toggle is the new one
\* and the buffer is free, but SCSReply is still the answer to the request before.
Plays(m, ask) == ask.chan = "C" /\ Encodes(m, ask.w)
Began(l, f) == [l EXCEPT !.buf = <<>>, !.toggle = f.toggle, !.ran = Append(@, f.id)]
Do(m, l, f) ==
  LET done == ProcessSCSHostFrame(m, f.ask)
  IN IF Plays(m, f.ask)
     THEN Outcome(done.modem, [Began(l, f) EXCEPT !.connecting = Append(@, f.id)], <<>>)
     ELSE Outcome(done.modem, [Began(l, f) EXCEPT !.last = Reply(f, done)], <<Reply(f, done)>>)
\* Mutant of TakeFrame: a repeat is done again.
RepeatIsDone(m, l, f) == Do(m, l, f)
TakeFrame(m, l, f) ==
  IF f.toggle = l.toggle THEN SayAgain(m, [l EXCEPT !.buf = <<>>]) ELSE Do(m, l, f)

\* AckIt, when the call was played: the toggle is that of the last request by now.
AckIt(l) ==
  LET ack == [NoReply EXCEPT !.id = Last(l.connecting), !.toggle = l.toggle, !.kind = "ack"]
  IN [line |-> [l EXCEPT !.connecting = Front(@), !.last = ack], reply |-> ack]

TakeInHostMode(m, l, buf) ==
  LET fate == IF buf = <<>> THEN "drop" ELSE HostModeFate(buf)
  IN CASE fate = "frame" -> TakeFrame(m, l, buf[1].frame)
       [] fate = "wait" -> Outcome(m, [l EXCEPT !.buf = buf], <<>>)
       [] fate = "drop" -> Outcome(m, [l EXCEPT !.buf = <<>>], <<>>)

\* Settings that text mode has of its own; MYC is not checked, nor are PACL and MAX.
Levels == 0 .. 3000
PSKA(m, c) == IF Value(c) \in Levels THEN [m EXCEPT !.level[c.name] = Value(c)] ELSE m
Bandwidth == <<"200MAX", "500MAX", "1000MAX", "2000MAX">>
MYL(m, c) == IF Value(c) \in 1 .. 4 THEN [m EXCEPT !.choice.ARQBW = Bandwidth[Value(c)]] ELSE m
PacketSetting(m, c) == IF c.name \in DOMAIN m.pkt THEN [m EXCEPT !.pkt[c.name] = Value(c)] ELSE m

\* ProcessSCSTextCommand: JHOST4 aborts what goes on.
JHOST4(m) == Silent(ABORT([m EXCEPT !.hostMode = TRUE]))
ProcessSCSTextCommand(m, c) ==
  CASE c.name = "ARDOP" -> [m EXCEPT !.flag.LISTEN = TRUE, !.number.CONSOLELOG = 6]
    [] c.name \in {"PAC", "QUIT"} /\ "sub" \notin DOMAIN c -> [m EXCEPT !.pac = (c.name = "PAC")]
    [] c.name = "MYC" -> IF Asks(c) THEN m ELSE [m EXCEPT !.mycall = c.w]
    [] c.name \in {"PSKA", "FSKA"} -> PSKA(m, c)
    [] c.name = "MYL" -> MYL(m, c)
    [] OTHER -> IF m.pac THEN PacketSetting(m, c) ELSE ProcessCommandFromHost(m, c)

\* A line that lost one of its ends is none of the commands.
CommandIn(pieces) ==
  IF pieces = Pieces(pieces[1].frame) THEN pieces[1].frame.line
  ELSE [name |-> "unknown", arg |-> "none", n |-> 0, w |-> ""]
RunTexts(m, buf, ends) ==
  FoldLeft(LAMBDA x, k : IF k \in ends THEN ProcessSCSTextCommand(x, CommandIn(LineUpTo(buf, k)))
                         ELSE x, m, [k \in 1 .. Len(buf) |-> k])

\* What follows JHOST4 is taken in host mode.
TakeInTextMode(m, l, buf) ==
  LET rest == After(buf, Max(LineEnds(buf) \cup {0}))
      waits == \A i \in 1 .. Len(rest) : IsText(rest[i])
      entry == Min(Entries(buf))
  IN IF Entries(buf) # {}
     THEN TakeInHostMode(JHOST4(RunTexts(m, buf, {k \in LineEnds(buf) : k < entry})),
                         [l EXCEPT !.toggle = FALSE], After(buf, entry))
     ELSE Outcome(RunTexts(m, buf, LineEnds(buf)), [l EXCEPT !.buf = IF waits THEN rest ELSE <<>>],
                  <<>>)

\* SerialHostPoll, with what was read
TakeBytes(m, l, taken) ==
  IF m.hostMode THEN TakeInHostMode(m, l, l.buf \o taken)
  ELSE TakeInTextMode(m, l, l.buf \o taken)
===============================================================================
