-------------------------------- MODULE MCHost --------------------------------
\* Conversations: every command once with good and with bad values, and what concerns the
\* session, calls, pings and data in every order.
EXTENDS Host

Cmd(name) == [name |-> name, arg |-> "none", n |-> 0, w |-> ""]
Number(name, n) == [Cmd(name) EXCEPT !.arg = "number", !.n = n]
Texted(name, w) == [Cmd(name) EXCEPT !.arg = "word", !.w = w]
To(name, w, n) == [Cmd(name) EXCEPT !.arg = "call", !.w = w, !.n = n]
List(calls) == [name |-> "MYAUX", arg |-> "word", n |-> 0, w |-> "", list |-> calls]
Pac(c, sub) == [name |-> "PAC", arg |-> c.arg, n |-> c.n, w |-> c.w, list |-> <<>>, sub |-> sub]

\* The edges of each range, what is no number, and the question.
Edges(S) == {Min(S) - 11, Min(S) - 1, Min(S), Max(S), Max(S) + 1}
Settings ==
  UNION {{Number(name, n) : n \in Edges(Limits[name])} \cup {Cmd(name), Texted(name, "X")} :
           name \in DOMAIN Limits \ {"RETRIES", "FRACK"}}
  \cup UNION {{Texted(name, w) : w \in Options[name] \cup {"X"}} \cup {Cmd(name)} :
           name \in DOMAIN Options \ {"MODE"}}
  \cup {Texted(name, w) : name \in DOMAIN NewModem.flag, w \in {"TRUE", "X"}}
  \cup {Cmd("CMDTRACE"), Cmd("CAPTURE"), Texted("PLAYBACK", "hw"),
        Texted("GRIDSQUARE", "A1A"), Texted("GRIDSQUARE", "X"),
        List(<<"A1A", "X", "B2B">>), List([i \in 1 .. 11 |-> "A1A"]), Texted("MYCALL", "X"),
        Pac(Texted("PAC", "4FSK/500"), "MODE"), Pac(Number("PAC", 31), "RETRIES"),
        Pac(Number("PAC", 2), "FRACK"), Pac(Cmd("PAC"), "RETRIES"), Pac(Cmd("PAC"), "other"),
        Cmd("RADIOHEX"), Texted("RADIOFREQ", "X"), Texted("RADIOPTTOFF", "X"), Cmd("RADIOPTTON"),
        Cmd("STATE"), Cmd("VERSION"), Cmd("unknown"), Cmd("BUFFER"), Cmd("CLOSE"), Cmd("INITIALIZE")}

MyCall == Texted("MYCALL", "A1A")
Transmissions == {To("ARQCALL", "B2B", 5), To("PING", "C3C", 2)}
Meanwhile ==
  {To("ARQCALL", "C3C", 1), Cmd("ABORT"), Cmd("SENDID"), Cmd("CL"), Texted("PROTOCOLMODE", "FEC")}
Alone ==
  {Cmd("DD"), Cmd("BREAK"), Cmd("DISCONNECT"), Cmd("TWOTONETEST"), Texted("FECSEND", "FALSE"),
   Number("DATATOSEND", 0), Cmd("PURGEBUFFER")}

Only(s) == [control |-> s, data |-> <<>>, packet |-> <<>>, events |-> {"state"}]
Conversations ==
  {Only(<<c>>) : c \in Settings \cup Alone}
  \cup {Only(<<MyCall, c, d>>) : c \in Transmissions, d \in Transmissions \cup Meanwhile}
  \cup {[Only(<<c>>) EXCEPT !.data = <<"block">>] : c \in {MyCall, Texted("FECSEND", "TRUE")}}
  \cup {[Only(<<MyCall, c>>) EXCEPT !.events = {"gui"}] : c \in Transmissions}
  \cup {[Only(<<>>) EXCEPT !.data = <<"block", "block">>],
        [Only(<<>>) EXCEPT !.packet = <<HostFrame("data", 1), HostFrame("ack", 2)>>,
                           !.events = {"session"}]}

Chan(chan) == [chan |-> chan]
Command(c) == [chan |-> "command", c |-> c]
Data(item) == [chan |-> "data", item |-> item]
Get(of) == [chan |-> "G", of |-> of]
Rig(fetch) == [chan |-> "rig", fetch |-> fetch]
Kiss(bytes) == [chan |-> "kiss", bytes |-> bytes]
Call(w) == [chan |-> "C", w |-> w]
Requests ==
  {Data(1), Command(To("PING", "C3C", 2)), Call("B2B"), Call("CQ"), Chan("D"), Chan("poll")}
Others ==
  {Chan("status"), Rig(FALSE), Chan("L"), Chan("%"), Chan("@"), [chan |-> "#", c |-> Cmd("STATE")],
   Command(MyCall), Command(Cmd("SENDID")), Command(Cmd("ABORT")), Get(31)}
Start(f, n) == SubSeq(f, 1, n)
Rest(f, n) == SubSeq(f, n + 1, Len(f))
Packets ==
  LET f == HostFrame("ack", 1)
      g == HostFrame("data", 2)
  IN {<<Kiss(Start(f, n)), Kiss(Rest(f, n) \o g)>> : n \in {2, 3}} \cup {<<Kiss(f), Chan("poll")>>}
TextLines ==
  {<<Cmd("ARDOP")>>, <<Texted("MYC", "A1A"), Number("MYL", 2)>>, <<Number("PSKA", 3001)>>,
   <<Number("FSKA", 3000), Texted("LISTEN", "FALSE")>>, <<Cmd("PAC"), Number("PACL", 40), Cmd("QUIT")>>}
Serial(text, asks, events) == [text |-> text, asks |-> asks, events |-> events]
Polls ==
  {Serial(<<>>, <<a, b, b>>, {"state", "data", "packet"}) :
     a \in Requests, b \in {Get(32), Get(33)}}
  \cup {Serial(<<>>, <<a>>, {"state"}) : a \in Others}
  \cup {Serial(<<>>, <<Get(33), Chan("poll"), Get(32)>>, {"state", "data", "packet"}),
        Serial(<<>>, <<Chan("poll"), Rig(TRUE)>>, {"cat"}),
        Serial(<<>>, <<Command(MyCall), Call("B2B"), Get(32)>>, {"state"})}
  \cup {Serial(<<>>, asks, {"session"}) : asks \in Packets}
  \cup {Serial(text, <<Chan("status")>>, {}) : text \in TextLines}
===============================================================================
