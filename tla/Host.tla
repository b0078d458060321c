--------------------------------- MODULE Host ---------------------------------
(***************************************************************************)
(* ardop1 and the program that controls it, over a serial line or over TCP *)
(* (the two branches of SerialMode in ardopmain), while the radio changes  *)
(* the session and the background sends what was asked for (CheckTimers).  *)
(* The sending of a frame takes time, and the host is polled meanwhile;    *)
(* the call of a request 'C' plays before the request is answered, in the  *)
(* middle of a poll, and nothing but the host is looked after.             *)
(* MainPoll also sends the packets that wait, one after the other.         *)
(*                                                                         *)
(* The host follows a script.  Over the serial line it makes one request   *)
(* at a time and repeats it when no answer comes (SerialIntefaceSpec.html);*)
(* until the first answer it sends JHOST4 with every other one.  Its       *)
(* toggle starts at 1, the modem's is 0 after JHOST4, and the flag 0x40 is *)
(* not used.                                                               *)
(***************************************************************************)
EXTENDS ScsHost, TcpHost

CONSTANTS
  SerialScripts,  \* conversations over the serial line: lines of text, then requests
  TcpScripts,     \* conversations over TCP: commands, blocks of data, KISS frames
  MaxEvents,      \* bound: what comes from the radio
  MaxLosses,      \* bound: pieces and replies that are lost
  MaxEarly,       \* bound: repeats of a request whose answer is under way
  MaxConnects     \* bound: how often each connection is made

\* What a host says.  A line of text may have a PAC alone, which is not for the host mode.
IsCommand(c) ==
  /\ "name" \in DOMAIN c /\ (c.w = "" \/ c.w \in STRING) /\ c.n \in Int
  /\ c.name = "MYAUX" => c.list \in Seq(STRING)
  /\ c.name = "PAC" /\ "sub" \in DOMAIN c => c.sub \in {"MODE", "RETRIES", "FRACK", "other"}
IsHostCommand(c) == IsCommand(c) /\ (c.name = "PAC" => "sub" \in DOMAIN c)
IsRequest(ask) ==
  /\ ask.chan \in {"poll", "status", "rig", "kiss", "command", "data", "G", "L", "%", "@", "C", "D", "#"}
  /\ ask.chan \in {"command", "#"} => IsHostCommand(ask.c)
  /\ ask.chan = "data" => ask.item \in Nat

ASSUME HostAssumption ==
  /\ {MaxEvents, MaxLosses, MaxEarly, MaxConnects} \subseteq Nat
  /\ \A s \in SerialScripts :
       /\ s.text \in Seq(Range(s.text)) /\ \A c \in Range(s.text) : IsCommand(c)
       /\ s.asks \in Seq(Range(s.asks)) /\ \A ask \in Range(s.asks) : IsRequest(ask)
  /\ \A s \in TcpScripts :
       /\ \A c \in {"control", "data", "packet"} : s[c] \in Seq(Range(s[c]))
       /\ \A c \in Range(s.control) : IsHostCommand(c)

VARIABLES
  mode,      \* SerialMode: "serial" or "tcp"
  script,    \* what the host will do, and what kinds of events come from the radio
  modem,     \* the modem's record
  playing,   \* what the background is sending, or "none"
  sent,      \* history: the calls and pings that went on the air
  line,      \* the modem's end of the serial line
  up, down,  \* pieces on their way to the modem, replies on their way to the host
  host,      \* the host at the serial line
  conn,      \* the TCP connections
  bounds     \* what has been used of the bounds

serial == <<line, up, down, host>>
vars == <<mode, script, modem, playing, sent, line, up, down, host, conn, bounds>>

Channels == {"control", "data"}
Ports == Channels \cup {"packet"}

Init ==
  /\ \/ mode = "serial" /\ script \in SerialScripts
     \/ mode = "tcp" /\ script \in TcpScripts
  /\ modem = NewModem /\ playing = "none" /\ sent = <<>>
  /\ line = NewLine /\ up = <<>> /\ down = <<>>
  /\ host = [said |-> 0, asked |-> 0, waiting |-> FALSE, enters |-> TRUE, answers |-> <<>>, reports |-> <<>>,
             data |-> <<>>, cat |-> <<>>, damaged |-> FALSE]
  /\ conn = [c \in Ports |-> NewConnection]
  /\ bounds = [events |-> 0, losses |-> 0, early |-> 0, connects |-> [c \in Ports |-> 0]]

Spend(what) == bounds' = [bounds EXCEPT ![what] = @ + 1]

\* Over TCP the packet monitor goes out with the next poll.
CheckForPktMon(m) == [m EXCEPT !.packets = 0]
Become(m) == modem' = IF mode = "serial" THEN m ELSE CheckForPktMon(m)

-------------------------------------------------------------------------------
\* The host at the serial line.

Toggle(n) == n % 2 = 1
Frame(n) == [id |-> n, toggle |-> Toggle(n), ask |-> script.asks[n]]
Bytes(n, entering) == (IF entering THEN Pieces(TEXT) ELSE <<>>) \o Pieces(Frame(n))

SayText ==
  /\ mode = "serial" /\ host.asked = 0 /\ host.said < Len(script.text)
  /\ host' = [host EXCEPT !.said = @ + 1]
  /\ up' = up \o Pieces(Text(script.text[host.said + 1]))
  /\ UNCHANGED <<mode, script, modem, playing, sent, line, down, conn, bounds>>

Ask ==
  /\ mode = "serial" /\ host.said = Len(script.text)
  /\ ~host.waiting /\ host.asked < Len(script.asks)
  /\ host' = [host EXCEPT !.asked = @ + 1, !.waiting = TRUE]
  /\ up' = up \o Bytes(host.asked + 1, host.enters)
  /\ UNCHANGED <<mode, script, modem, playing, sent, line, down, conn, bounds>>

\* No answer came in time, or it is under way.
Repeat ==
  /\ host.waiting
  /\ host' = [host EXCEPT !.enters = host.answers = <<>> /\ ~@]
  /\ up' = up \o Bytes(host.asked, host'.enters)
  /\ \/ up = <<>> /\ down = <<>> /\ UNCHANGED bounds
     \/ ~(up = <<>> /\ down = <<>>) /\ bounds.early < MaxEarly /\ Spend("early")
  /\ UNCHANGED <<mode, script, modem, playing, sent, line, down, conn>>

\* An answer out of sequence is late, and discarded.
HostRead ==
  /\ down # <<>>
  /\ down' = Tail(down)
  /\ LET r == Head(down) IN
     host' = IF host.waiting /\ r.toggle = Toggle(host.asked)
             THEN [host EXCEPT
                     !.waiting = FALSE, !.enters = FALSE, !.answers = Append(@, r.id),
                     !.reports = IF r.kind = "reports" THEN @ \o r.items ELSE @,
                     !.data = IF r.kind = "data" THEN @ \o r.items ELSE @,
                     !.cat = IF r.kind = "cat" THEN @ \o r.items ELSE @,
                     !.damaged = @ \/ ~r.whole]
             ELSE host
  /\ UNCHANGED <<mode, script, modem, playing, sent, line, up, conn, bounds>>

LosePiece == up # <<>> /\ up' = Tail(up) /\ UNCHANGED down
LoseReply == down # <<>> /\ down' = Tail(down) /\ UNCHANGED up
Lose ==
  /\ bounds.losses < MaxLosses /\ Spend("losses")
  /\ LosePiece \/ LoseReply
  /\ UNCHANGED <<mode, script, modem, playing, sent, line, host, conn>>

SerialHostPoll(n) ==
  /\ ~modem.closing
  /\ n \in 1 .. Len(up)
  /\ up' = SubSeq(up, n + 1, Len(up))
  /\ LET o == TakeBytes(modem, line, SubSeq(up, 1, n)) IN
     Become(o.modem) /\ line' = o.line /\ down' = down \o o.replies
  /\ UNCHANGED <<mode, script, playing, sent, host, conn, bounds>>

\* The call of a request 'C' was played.
Connected ==
  /\ line.connecting # <<>>
  /\ line' = AckIt(line).line /\ down' = Append(down, AckIt(line).reply)
  /\ UNCHANGED <<mode, script, modem, playing, sent, up, host, conn, bounds>>

-------------------------------------------------------------------------------
\* The host at the TCP connections.

Connect(c) ==
  /\ mode = "tcp" /\ script[c] # <<>> /\ bounds.connects[c] < MaxConnects
  /\ conn' = [conn EXCEPT ![c] = AcceptSock(@)]
  /\ bounds' = [bounds EXCEPT !.connects[c] = @ + 1]
  /\ Become(IF c = "packet" THEN PacketLost(modem) ELSE modem)
  /\ UNCHANGED <<mode, script, playing, sent, serial>>

HostSend(c) ==
  /\ mode = "tcp" /\ conn[c].up /\ ~conn[c].eof /\ conn[c].said < Len(script[c])
  /\ conn' = [conn EXCEPT ![c].said = @ + 1,
                          ![c].wire = @ \o Parts(conn[c].said + 1, script[c][conn[c].said + 1])]
  /\ UNCHANGED <<mode, script, modem, playing, sent, serial, bounds>>

\* The host closes, or dies in the middle of what it sends.
HostCloses(c) ==
  /\ conn[c].up /\ ~conn[c].eof
  /\ \E n \in 0 .. Len(conn[c].wire) :
       conn' = [conn EXCEPT ![c].eof = TRUE, ![c].wire = SubSeq(@, 1, n)]
  /\ UNCHANGED <<mode, script, modem, playing, sent, serial, bounds>>

RecvControl(n) ==
  /\ ~modem.closing /\ n \in 1 .. Len(conn.control.wire)
  /\ LET done == ProcessControl(modem, conn.control, n) IN
     Become(done.modem) /\ conn' = [conn EXCEPT !.control = done.conn]
  /\ UNCHANGED <<mode, script, playing, sent, serial, bounds>>

RecvData(n) ==
  /\ ~modem.closing /\ n \in 1 .. Len(conn.data.wire)
  /\ \E done \in ProcessData(modem, conn.data, n) :
       Become(done.modem) /\ conn' = [conn EXCEPT !.data = done.conn]
  /\ UNCHANGED <<mode, script, playing, sent, serial, bounds>>

RecvPacket(n) ==
  /\ ~modem.closing /\ n \in 1 .. Len(conn.packet.wire)
  /\ LET done == ProcessPacketBytes(modem, conn.packet, n) IN
     Become(done.modem) /\ conn' = [conn EXCEPT !.packet = done.conn]
  /\ UNCHANGED <<mode, script, playing, sent, serial, bounds>>

\* The end of any of them ends the session.
RecvEnd(c) ==
  /\ ~modem.closing /\ conn[c].up /\ conn[c].eof /\ conn[c].wire = <<>>
  /\ conn' = [conn EXCEPT ![c] = CloseSock(@)]
  /\ Become(LostHost(IF c = "packet" THEN PacketLost(modem) ELSE modem))
  /\ UNCHANGED <<mode, script, playing, sent, serial, bounds>>

-------------------------------------------------------------------------------
\* The radio: a session begins, turns and ends; data and packets arrive.

\* A datagram of the display program, which is served by TCPHostPoll.
GuiAsks(kind) ==
  /\ mode = "tcp" /\ ~modem.closing /\ modem.state = "DISC"
  /\ "gui" \in script.events /\ bounds.events < MaxEvents /\ Spend("events")
  /\ Become([modem EXCEPT !.need = @ \cup {kind}])
  /\ UNCHANGED <<mode, script, playing, sent, serial, conn>>

NextStates(s) ==
  CASE s = "DISC" -> IF modem.flag.LISTEN THEN {"IRS"} ELSE {}
    [] s = "FECSend" -> {"DISC"}
    [] s \in InSession -> InSession \cup {"DISC"}
Radio ==
  /\ bounds.events < MaxEvents /\ Spend("events")
  /\ ~modem.closing /\ playing = "none" /\ line.connecting = <<>>
  /\ \/ /\ "state" \in script.events
        /\ \E s \in NextStates(modem.state) \ {modem.state} : Become(SetState(modem, s))
     \/ /\ "data" \in script.events /\ modem.hostMode /\ modem.state # "FECSend"
        /\ Become([modem EXCEPT !.forHost = Append(@, modem.passed + 1), !.passed = @ + 1])
     \/ /\ "packet" \in script.events /\ modem.packets = 0
        /\ Become([modem EXCEPT !.packets = 1])
     \/ /\ "cat" \in script.events /\ HasCAT
        /\ Become([modem EXCEPT !.rig = Append(@, modem.heard + 1), !.heard = @ + 1])
  /\ UNCHANGED <<mode, script, playing, sent, serial, conn>>

-------------------------------------------------------------------------------
\* CheckTimers: calls come before pings, pings before identifications.  Each is looked at
\* once in a pass, with the host being polled while it plays.

Order == <<"ConReq", "Ping", "ID", "CWID", "TwoTone">>
Place(kind) == CHOOSE i \in DOMAIN Order : Order[i] = kind
NextNeed(m, place) ==
  LET later == {kind \in m.need : Place(kind) > place}
  IN IF later = {} THEN "none" ELSE CHOOSE kind \in later : \A k \in later : Place(kind) <= Place(k)

\* SendARQConnectRequest and SendPING: the flag is reset first, and all is set before it plays.
Begin(m, kind) ==
  CASE kind = "ConReq" -> SetState([m EXCEPT !.need = @ \ {kind}, !.abort = FALSE], "ISS")
    [] kind = "Ping" -> [m EXCEPT !.need = @ \ {kind}]
    [] kind \notin {"ConReq", "Ping"} -> m
\* What was asked meanwhile is forgotten: an abort after a ping, another identification.
Finish(m, kind) ==
  CASE kind = "ConReq" -> m
    [] kind = "Ping" -> [m EXCEPT !.abort = FALSE]
    [] kind \notin {"ConReq", "Ping"} -> [m EXCEPT !.need = @ \ {kind}]

CheckFrom(m, place) ==
  LET kind == NextNeed(m, place) IN
  /\ playing' = kind /\ Become(Begin(m, kind))
  /\ sent' = CASE kind = "ConReq" -> Append(sent, <<kind, m.callee, m.calls>>)
               [] kind = "Ping" -> Append(sent, <<kind, m.callee, m.pings>>)
               [] kind \notin {"ConReq", "Ping"} -> sent
  /\ UNCHANGED <<mode, script, serial, conn, bounds>>
CheckTimers ==
  /\ ~modem.closing /\ playing = "none" /\ line.connecting = <<>> /\ modem.need # {}
  /\ CheckFrom(modem, 0)
Played ==
  /\ playing \notin {"none", "Packet"} /\ line.connecting = <<>>
  /\ CheckFrom(Finish(modem, playing), Place(playing))

-------------------------------------------------------------------------------
\* Packets.  The packet sessions are looked after first, and may put a frame (ptkSessionBG).

Sessions(k, puts) == IF puts THEN PUT_ON_PORT_Q(k, 0) ELSE k

\* The mode that a session sets: pktMode, which PAC MODE sets as well.
SessionMode == "4FSK/500"
\* PktARDOPStartTX: frames are taken until one is to be sent, or there are no more; each has a
\* byte at least.
SetsMode(body) == body # <<>> /\ TypeOf(body) = "mode"
NextPacket(m) ==
  LET first == GetNextKISSFrame(m.kiss)
      next == FoldLeft(LAMBDA x, byte : IF SetsMode(x.body) THEN GetNextKISSFrame(x.kiss) ELSE x,
                       first, m.kiss.ring)
      taken == [m EXCEPT !.kiss = next.kiss,
                         !.choice.MODE = IF SetsMode(first.body) THEN SessionMode ELSE @]
  IN IF next.body = <<>> THEN [modem |-> taken, playing |-> "none"]
     ELSE [modem |-> [taken EXCEPT
                        !.kiss.aired = Append(@, next.body),
                        !.packets = IF TypeOf(next.body) = "data" THEN 1 ELSE @],
           playing |-> "Packet"]
SendPackets(m, puts) ==
  LET next == NextPacket([m EXCEPT !.kiss = Sessions(@, puts)])
  IN /\ Become(next.modem) /\ playing' = next.playing
     /\ IF puts THEN "session" \in script.events /\ bounds.events < MaxEvents /\ Spend("events")
        ELSE UNCHANGED bounds
     /\ UNCHANGED <<mode, script, sent, serial, conn>>

StartPackets ==
  /\ ~modem.closing /\ ~modem.kiss.astray /\ playing = "none" /\ line.connecting = <<>>
  /\ \E puts \in BOOLEAN : SendPackets(modem, puts)
Acknowledged(m) ==
  IF TypeOf(Last(m.kiss.aired)) = "ack" THEN [m EXCEPT !.kiss = SendAckModeAck(@)] ELSE m
PacketSent ==
  /\ playing = "Packet" /\ line.connecting = <<>>
  /\ \E puts \in BOOLEAN : SendPackets(Acknowledged(modem), puts)

Next ==
  \/ SayText \/ Ask \/ Repeat \/ HostRead \/ Lose
  \/ (\E n \in 1 .. Len(up) : SerialHostPoll(n)) \/ Connected
  \/ \E c \in Ports : Connect(c) \/ HostSend(c) \/ HostCloses(c) \/ RecvEnd(c)
  \/ (\E n \in 1 .. Len(conn.control.wire) : RecvControl(n))
  \/ (\E n \in 1 .. Len(conn.data.wire) : RecvData(n))
  \/ (\E n \in 1 .. Len(conn.packet.wire) : RecvPacket(n))
  \/ StartPackets \/ PacketSent
  \/ \E kind \in {"ID", "CWID", "TwoTone"} : GuiAsks(kind)
  \/ Radio \/ CheckTimers \/ Played

Spec == Init /\ [][Next]_vars

\* The modem polls the host, a host that waits repeats, a call ends, and what is answered is read.  All of
\* it is weak fairness, written out because ENABLED is costly to evaluate.
MayRepeat == host.waiting /\ up = <<>> /\ down = <<>>
Poll == \E n \in 1 .. Len(up) : SerialHostPoll(n)
Control == \E n \in 1 .. Len(conn.control.wire) : RecvControl(n)
Fairness ==
  /\ []<>(down = <<>>) \/ []<><<HostRead>>_vars
  /\ []<>(up = <<>> \/ modem.closing) \/ []<><<Poll>>_vars
  /\ []<>(line.connecting = <<>>) \/ []<><<Connected>>_vars
  /\ []<>(conn.control.wire = <<>> \/ modem.closing) \/ []<><<Control>>_vars
  /\ []<>~MayRepeat \/ []<><<Repeat>>_vars
FairSpec == Spec /\ Fairness

-------------------------------------------------------------------------------
\* Properties.

\* TypeOK: whatever the host sends, the settings keep to what the modem works with, and the
\* buffers to their room.
TypeOK ==
  /\ \A name \in DOMAIN Limits : modem.number[name] \in Limits[name]
  /\ \A name \in DOMAIN Options : modem.choice[name] \in Options[name]
  /\ \A name \in DOMAIN modem.level : modem.level[name] \in Levels
  /\ modem.state \in States /\ Len(modem.aux) <= 10
  /\ Len(modem.reports) <= ReportRoom /\ Len(modem.queue) <= QueueRoom

CountOf(s) == IF s = [i \in 1 .. Len(s) |-> i] THEN Len(s) ELSE -1

\* ImplementsHostLink: over the serial line every request is done once and answered with
\* its own answer, and what is fetched arrives once and in order, until a repeat is answered
\* while the call of a request 'C' plays.
Promise == INSTANCE HostLink WITH
  asked <- host.asked, ran <- CountOf(line.ran), answered <- CountOf(host.answers),
  given <- [reports |-> modem.told - Len(modem.reports),
            data |-> modem.passed - Len(modem.forHost),
            cat |-> modem.heard - Len(modem.rig \o modem.cat)],
  got <- [reports |-> CountOf(host.reports), data |-> CountOf(host.data), cat |-> CountOf(host.cat)],
  crossed <- line.crossed
ImplementsHostLink == Promise!Spec

\* These two fail.  OwnAnswers: what a host takes for the answer to its request was made for that request.
OwnAnswers == CountOf(host.answers) = Len(host.answers)

\* AnswersAreWhole: what a host takes for an answer is what was to be said, repeated or not.
AnswersAreWhole == ~host.damaged

\* RunInOrder: of what the hosts send over TCP a line or block is done at most once, in the
\* order sent, none is left out while the connection lasts, and one that nobody sent is done
\* only after a connection was cut.
Strays(c) == {i \in DOMAIN conn[c].ran : conn[c].ran[i] = 0}
RunInOrder ==
  /\ \A c \in Channels :
       /\ \A i, j \in DOMAIN conn[c].ran \ Strays(c) : i < j => conn[c].ran[i] < conn[c].ran[j]
       /\ bounds.connects[c] = 1 => CountOf(conn[c].ran) = Len(conn[c].ran)
  /\ Cardinality(Strays("control")) <= conn.control.cuts
  /\ conn.data.cuts = 0 => Strays("data") = {}

\* PacketsInOrder: packets are sent as the host and the sessions put them, whole and in order,
\* and the FENDs are counted, unless a frame was not put whole: a session's in the middle of
\* it, the ring full, or a connection that delivered it in parts.
PacketsInOrder == InOrder(modem.kiss) /\ Counts(modem.kiss)

\* CalledAsAsked: a call or a ping goes to the station it was asked for, as often, unless a
\* call and a ping waited at the same time.
CalledAsAsked ==
  [][sent' # sent /\ ~modem.mixed =>
       LET s == sent'[Len(sent')] IN <<s[2], s[3]>> = modem.wanted[s[1]]]_vars

\* CommandsRun: commands whose end is with the modem do not stay there, but for DD and CL,
\* which wait for what comes next.
Held == \E i \in DOMAIN (conn.control.buf \o conn.control.wire) :
          (conn.control.buf \o conn.control.wire)[i].half = 2
CommandsRun == Held ~> ~Held \/ TooShort(conn.control.buf) \/ modem.closing
===============================================================================
