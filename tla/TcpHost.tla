------------------------------- MODULE TcpHost -------------------------------
(***************************************************************************)
(* The modem's end of the three TCP connections of a host                  *)
(* (ext/ardop1/TCPHostInterface.c): for commands, data and KISS frames.    *)
(*                                                                         *)
(* A command, block of data or frame travels in two pieces, [id, half,     *)
(* what]: a command ends with its second piece, the length of a block is   *)
(* in the first.  The fields of the record of a connection are             *)
(*   up          CONNECTED, DATACONNECTED                                  *)
(*   said        how many of them the host has sent                        *)
(*   wire, eof   what the host has sent and recv not yet returned, and     *)
(*               whether the end follows                                   *)
(*   buf         ARDOPBuffer up to InputLen, ARDOPDataBuffer likewise: it  *)
(*               outlives the connection                                   *)
(* Histories: cuts, connections that were lost while buf held something;   *)
(* ran, the numbers of what was done, 0 for what no host has sent.         *)
(***************************************************************************)
EXTENDS HostCommands

NewConnection ==
  [up |-> FALSE, said |-> 0, wire |-> <<>>, eof |-> FALSE, buf |-> <<>>, cuts |-> 0, ran |-> <<>>]

Parts(id, what) == [half \in 1 .. 2 |-> [id |-> id, half |-> half, what |-> what]]
IsEntire(pieces) == pieces = Parts(pieces[1].id, pieces[1].what)

\* A connection is given up, or replaced by the next one that is accepted.
CutOff(t) == [t EXCEPT !.cuts = IF t.buf = <<>> THEN @ ELSE @ + 1, !.wire = <<>>, !.eof = FALSE]
AcceptSock(t) == [CutOff(t) EXCEPT !.up = TRUE]
CloseSock(t) == [CutOff(t) EXCEPT !.up = FALSE]

\* LostHost
LostHost(m) == IF m.state \in InSession THEN [m EXCEPT !.disconnect = TRUE] ELSE m

-------------------------------------------------------------------------------
\* ProcessReceivedControl.  Fewer than four bytes are left where they are: "DD" and "CL" with
\* their CR are three.

TooShort(buf) == Len(buf) = 2 /\ IsEntire(buf) /\ buf[1].what.name \in {"DD", "CL"}
Ends(buf) == {k \in 1 .. Len(buf) : buf[k].half = 2}
LineTo(buf, k) == SubSeq(buf, Max({i \in Ends(buf) \cup {0} : i < k}) + 1, k)
\* Where the commands end that are complete.
Lines(buf) == {k \in Ends(buf) : ~(k = Len(buf) /\ TooShort(LineTo(buf, k)))}

RunLine(x, pieces) ==
  IF IsEntire(pieces)
  THEN [modem |-> ProcessCommandFromHost(x.modem, pieces[1].what), ran |-> Append(x.ran, pieces[1].id)]
  ELSE [modem |-> Fault(x.modem), ran |-> Append(x.ran, 0)]

\* What was received is there, and the lines that end at these places are run and removed.
Received(t, n) == t.buf \o SubSeq(t.wire, 1, n)
RunLines(m, t, n, places) ==
  LET buf == Received(t, n)
      done == FoldLeft(LAMBDA x, k : IF k \in Lines(buf) THEN RunLine(x, LineTo(buf, k)) ELSE x,
                       [modem |-> m, ran |-> t.ran], places)
  IN [modem |-> done.modem,
      conn |-> [t EXCEPT !.wire = SubSeq(@, n + 1, Len(@)), !.ran = done.ran,
                         !.buf = SubSeq(buf, Max({0} \cup (Lines(buf) \cap Range(places))) + 1,
                                        Len(buf))]]

\* Mutants of ProcessControl: the last line is run first; one line is run and the rest waits.
Places(n) == [k \in 1 .. n |-> k]
LastLineFirst(m, t, n) == RunLines(m, t, n, Reverse(Places(Len(Received(t, n)))))
OneLineOnly(m, t, n) ==
  RunLines(m, t, n, Places(Min(Lines(Received(t, n)) \cup {Len(Received(t, n))})))
ProcessControl(m, t, n) == RunLines(m, t, n, Places(Len(Received(t, n))))

-------------------------------------------------------------------------------
\* ProcessReceivedData.  What follows a part of a block is taken for the rest of it, and then
\* bytes that are no length for one: any stretch may pass for blocks until one starts where a
\* block does.

Blocks(pieces) ==
  [i \in 1 .. Len(pieces) \div 2 |->
     LET pair == SubSeq(pieces, 2 * i - 1, 2 * i) IN IF IsEntire(pair) THEN pair[1].id ELSE 0]
\* How many pieces are taken as blocks that start where a block does.
InStep(pieces) ==
  Max({n \in 0 .. Len(pieces) : /\ n % 2 = 0
                                /\ \A i \in 1 .. n : i % 2 = 1 => pieces[i].half = 1})
Zeros(n) == [i \in 1 .. n |-> 0]
ReadBlocks(buf) ==
  LET n == InStep(buf)
      rest == SubSeq(buf, n + 1, Len(buf))
  IN IF rest = <<>> \/ rest[1].half = 1
     THEN {[ids |-> Blocks(SubSeq(buf, 1, n)), buf |-> rest]}
     ELSE {LET again == SubSeq(rest, p[1] + 1, Len(rest))
               m == IF p[1] = 0 THEN 0 ELSE InStep(again)
           IN [ids |-> Blocks(SubSeq(buf, 1, n)) \o Zeros(p[2]) \o Blocks(SubSeq(again, 1, m)),
               buf |-> SubSeq(again, m + 1, Len(again))] :
             p \in {p \in (0 .. Len(rest)) \X (0 .. Len(rest)) :
                      p[2] <= p[1] /\ (p[2] = 0 <=> p[1] = 0)}}

ProcessData(m, t, n) ==
  {[modem |-> FoldLeft(LAMBDA x, id : AddData(x, id), m, read.ids),
    conn |-> [t EXCEPT !.wire = SubSeq(@, n + 1, Len(@)), !.buf = read.buf, !.ran = @ \o read.ids]] :
     read \in ReadBlocks(t.buf \o SubSeq(t.wire, 1, n))}

-------------------------------------------------------------------------------
\* ProcessPacketBytes: what does not begin with a FEND is taken for a frame of the host
\* protocol, all of it.

BytesIn(piece) ==
  IF piece.half = 1 THEN SubSeq(piece.what, 1, 2) ELSE SubSeq(piece.what, 3, Len(piece.what))
Misread(k, pieces) == [k EXCEPT !.spoiled = TRUE]
ProcessPacketBytes(m, t, n) ==
  LET pieces == SubSeq(t.wire, 1, n)
      bytes == FlattenSeq([i \in 1 .. n |-> BytesIn(pieces[i])])
  IN [modem |-> [m EXCEPT !.kiss = IF pieces[1].half = 1 THEN ProcessKISSBytes(@, bytes)
                                   ELSE Misread(@, pieces)],
      conn |-> [t EXCEPT !.wire = SubSeq(@, n + 1, Len(@))]]
\* The connection ends; what was put of a frame stays in the ring.
PacketLost(m) == [m EXCEPT !.kiss.spoiled = @ \/ m.kiss.open # <<>>]
===============================================================================
