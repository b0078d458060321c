------------------------------- MODULE Ax25Link -------------------------------
(***************************************************************************)
(* One end of an AX.25 link, as ext/ardop1/pktSession.c keeps it: the      *)
(* handlers of received frames, of the timers and of the host's commands,  *)
(* as operators from the record of a link to the record it becomes.  The   *)
(* fields are those of LINKTABLE:                                          *)
(*   state                L2STATE (0 no link, 2 SABM sent, 3 FRMR sent,    *)
(*                        4 disconnecting, 5 up, 6 up, a frame is missing) *)
(*   nr, ns, ws, slot     LINKNR, LINKNS, LINKWS, SDTSLOT; LINKOWS is ws,  *)
(*                        for ACKMSG follows every change of LINKWS        *)
(*   frames, rxframes     FRAMES, RXFRAMES: an item, 0 for none            *)
(*   next                 the items next .. given are in TXBuffer          *)
(*   rx                   RXBuffer                                         *)
(*   poll, rnrsent, rejf  POLLSENT, RNRSENT, SDREJF # 0                    *)
(*   timer                L2TIMER: off, due (1, the next tick) or running  *)
(*   retries, active      L2RETRIES (a byte), SESSACTIVE                   *)
(*   reports              ReportFlags                                      *)
(* and out is what PUT_ON_PORT_Q has queued for the modem.  Histories:     *)
(* given, the number of items the host has given; recv, what PROC_I_FRAME  *)
(* has accepted; acked, the items removed as acknowledged.                 *)
(*                                                                         *)
(* A link is removed when its state is 0 and nothing is left to report.    *)
(* UseSREJ is TRUE, as NewLink sets it: it changes only after an XID       *)
(* command, which this program never sends.                                *)
(***************************************************************************)
EXTENDS Integers, Sequences, FiniteSetsExt

CONSTANTS
  Modulus,  \* of the sequence numbers: 8
  N2,       \* PORTN2
  RxLimit   \* items RXBuffer holds before RNR is sent: 512 bytes' worth

ASSUME Ax25LinkAssumption ==
  /\ Modulus \in Nat /\ Modulus >= 2 /\ N2 \in 1 .. 30 /\ RxLimit \in Nat

Slot == 0 .. Modulus - 1
Window == Modulus - 1
Mod(n) == n % Modulus
NoFrames == [k \in Slot |-> 0]

NewLink(given, recv, acked) ==
  [state |-> 0, nr |-> 0, ns |-> 0, ws |-> 0, slot |-> 0, frames |-> NoFrames,
   rxframes |-> NoFrames, next |-> given + 1, rx |-> <<>>, poll |-> FALSE, rnrsent |-> FALSE,
   rejf |-> FALSE, timer |-> "off", retries |-> 0, active |-> FALSE, reports |-> {},
   out |-> <<>>, given |-> given, recv |-> recv, acked |-> acked]

\* The link is freed, or stays for its reports; what is queued for the modem is still sent.
Removed(l) == [NewLink(l.given, l.recv, l.acked) EXCEPT !.out = l.out]
Exists(l) == l.state # 0 \/ l.reports # {}

-------------------------------------------------------------------------------
\* Frames.

Put(l, f) == [l EXCEPT !.out = Append(@, f)]
Frame(type, cmd, l) == [type |-> type, cmd |-> cmd, pf |-> TRUE, nr |-> l.nr]
Plain(type, cmd) == [type |-> type, cmd |-> cmd, pf |-> TRUE]
Information(l, k, pf) ==
  [type |-> "I", cmd |-> TRUE, pf |-> pf, nr |-> l.nr, ns |-> k, item |-> l.frames[k]]

Supervisory == {"RR", "RNR", "SREJ"}
SendCommand(l, type) == [Put(l, Plain(type, TRUE)) EXCEPT !.timer = "running"]
SendResp(l, type) == Put(l, Plain(type, FALSE))
Report(l, r) == [l EXCEPT !.reports = @ \cup {r}]

-------------------------------------------------------------------------------
\* Resetting and clearing.

\* RESET2X, which leaves what is queued, CLEARL2QUEUES, and both
Reset2X(l) ==
  [l EXCEPT !.rejf = FALSE, !.ws = 0, !.nr = 0, !.ns = 0, !.slot = 0, !.state = 5,
            !.poll = FALSE, !.rnrsent = FALSE]
ClearQueues(l) ==
  [l EXCEPT !.frames = NoFrames, !.rxframes = NoFrames, !.next = l.given + 1, !.rx = <<>>]
Reset2(l) == Reset2X(ClearQueues(l))

\* Mutant of ClearOutLink: a link that stays for its reports keeps its frames.
ClearOutLater(l) == IF l.reports = {} THEN Removed(l) ELSE [l EXCEPT !.state = 0]
ClearOutLink(l) ==
  IF l.reports = {} THEN Removed(l) ELSE [ClearQueues(l) EXCEPT !.state = 0]

-------------------------------------------------------------------------------
\* Acknowledgement of the frames that were sent.

\* Mutant of Between: the slot after is taken too.
OneTooMany(a, b) == {k \in Slot : Mod(k - a) <= Mod(b - a)}
\* The slots from a up to, and without, b.
Between(a, b) == {k \in Slot : Mod(k - a) < Mod(b - a)}

\* ACKMSG, ows being LINKOWS
AckMsg(l, ows) ==
  LET done == {k \in Between(ows, l.ws) : l.frames[k] # 0}
      r == IF ows # l.ws /\ l.retries > 0 THEN 1 ELSE l.retries
      m == [l EXCEPT !.frames = [k \in Slot |-> IF k \in done THEN 0 ELSE @[k]],
                     !.acked = @ \cup {l.frames[k] : k \in done},
                     !.reports = IF done = {} THEN @ ELSE @ \cup {"ReportQueue"},
                     !.retries = r]
  IN IF l.ws # l.ns THEN [m EXCEPT !.timer = "running"]
     ELSE IF r = 0 THEN [m EXCEPT !.timer = "off", !.poll = FALSE]
     ELSE m

\* Mutant of NrGood: what acknowledges everything is refused.
NrBelowNs(l, nr) ==
  IF nr >= l.ws THEN nr < l.ns \/ l.ns < l.ws ELSE nr < l.ns
\* SDNRCHK
NrGood(l, nr) ==
  IF nr >= l.ws THEN nr <= l.ns \/ l.ns < l.ws ELSE nr <= l.ns
NrCheck(l, f) ==
  IF ~NrGood(l, f.nr) THEN [l EXCEPT !.rejf = TRUE]
  ELSE IF f.type = "SREJ" /\ ~f.pf THEN l
  ELSE AckMsg([l EXCEPT !.ws = f.nr], l.ws)

-------------------------------------------------------------------------------
\* Reception of information.

\* PROC_I_FRAME, for an item just received and for n that were saved
Accept(l, item) ==
  [l EXCEPT !.rx = Append(@, item), !.recv = Append(@, item), !.nr = Mod(@ + 1)]
\* Mutant of AcceptSaved: what was accepted stays saved.
AcceptSavedKept(l, n) ==
  LET items == [i \in 1 .. n |-> l.rxframes[Mod(l.nr + i - 1)]]
  IN [l EXCEPT !.rx = @ \o items, !.recv = @ \o items, !.nr = Mod(@ + n)]
AcceptSaved(l, n) ==
  LET items == [i \in 1 .. n |-> l.rxframes[Mod(l.nr + i - 1)]]
  IN [l EXCEPT !.rx = @ \o items, !.recv = @ \o items, !.nr = Mod(@ + n),
               !.rxframes = [k \in Slot |-> IF Mod(k - l.nr) < n THEN 0 ELSE @[k]]]

\* How many frames, limit at most, are saved from N(R) on.
Saved(l, limit) ==
  Max({n \in 0 .. limit : \A i \in 0 .. n - 1 : l.rxframes[Mod(l.nr + i)] # 0})

\* REJ is left when no frame is saved any more.
LeaveRej(l) == IF l.rxframes = NoFrames THEN [l EXCEPT !.state = 5] ELSE l

\* RR_OR_RNR: what to send, and the link after the saved frames were looked at.
Busy(l) == Len(l.rx) > RxLimit
Sequenced(l) ==
  LET n == Saved(l, Modulus) IN
  IF Busy(l) THEN [l EXCEPT !.rnrsent = TRUE]
  ELSE IF l.state = 6 /\ n > 0 THEN LeaveRej([AcceptSaved(l, n) EXCEPT !.rnrsent = FALSE])
  ELSE [l EXCEPT !.rnrsent = FALSE]
Answer(l) == IF l.rnrsent THEN "RNR" ELSE IF l.state = 6 THEN "SREJ" ELSE "RR"

\* SendSupervisCmd, and the reply to a command of the other end
SendSupervisCmd(l) ==
  LET m == Sequenced(l)
  IN [Put(m, Frame(Answer(m), TRUE, m)) EXCEPT !.poll = TRUE, !.timer = "running"]
SendRROrRNR(l) == LET m == Sequenced(l) IN Put(m, Frame(Answer(m), FALSE, m))

\* SDFRMR
Frmr(l) == Put([l EXCEPT !.state = 3, !.timer = "running"],
               [type |-> "FRMR", cmd |-> FALSE, pf |-> FALSE])
SendFrmr(l) == Put(l, [type |-> "FRMR", cmd |-> FALSE, pf |-> FALSE])

OutOfSequence(l, f) ==
  [l EXCEPT !.state = 6, !.rxframes[f.ns] = IF @ = 0 THEN f.item ELSE @]

\* SDIFRM, after N(R) was looked at
InformationFrame(l, f) ==
  LET m == [AcceptSaved(l, Saved(l, Mod(f.ns - l.nr))) EXCEPT !.active = TRUE]
      kept == [m EXCEPT !.rxframes[f.ns] = 0]
      taken == IF m.nr # f.ns THEN OutOfSequence(m, f)
               ELSE Accept(IF m.state = 6 THEN LeaveRej(kept) ELSE kept, f.item)
      replied == SendRROrRNR(taken)
  IN IF f.pf THEN AckMsg(replied, replied.ws) ELSE taken

-------------------------------------------------------------------------------
\* Supervisory frames.

\* SREJ(F) has the missing frame sent again.
Resend(l, k) ==
  IF l.frames[k] = 0 THEN l
  ELSE Put([l EXCEPT !.poll = TRUE, !.timer = "running"], Information(l, k, TRUE))

\* A response to a poll: after a timeout, N(S) goes back to what the other end lacks.
PolledAnswer(l, f) ==
  LET m == IF l.retries = 0 THEN [l EXCEPT !.poll = FALSE]
           ELSE [l EXCEPT !.poll = FALSE, !.ns = f.nr, !.timer = "off",
                          !.retries = IF l.ns = f.nr THEN 0 ELSE @]
  IN IF f.type = "RNR" THEN [m EXCEPT !.timer = "running"] ELSE m

\* SFRAME, after N(R) was looked at: a command is discarded soon after an F was sent.
SupervisoryFrame(l, f, soon) ==
  CASE f.type = "SREJ" -> IF ~f.cmd /\ f.pf THEN Resend(l, f.nr) ELSE l
    [] f.type # "SREJ" /\ f.cmd -> IF soon THEN l ELSE SendRROrRNR(l)
    [] f.type # "SREJ" /\ ~f.cmd -> IF f.pf THEN PolledAnswer(l, f) ELSE l

-------------------------------------------------------------------------------
\* Received frames.

\* L2SABM with SETUPNEWL2SESSION
Sabm(l) == SendResp(Report([Reset2(l) EXCEPT !.timer = "off"], "Incomming"), "UA")

\* A frame is rejected, or resets the link.
Restart(l) == SendCommand([Reset2(l) EXCEPT !.state = 2, !.retries = 0], "SABM")

Lost(l) == ClearOutLink(Report(l, "DiscRpt"))

\* States 5 and 6: SDIFRM, SDUFRM and SFRAME
LinkUp(l, f, soon) ==
  LET m == IF l.rejf THEN l ELSE NrCheck(l, f) IN
  CASE f.type = "I" -> IF m.rejf THEN Frmr(m) ELSE InformationFrame(m, f)
    [] f.type \in Supervisory -> IF m.rejf THEN Frmr(m) ELSE SupervisoryFrame(m, f, soon)
    [] f.type = "FRMR" -> Restart(l)
    [] f.type = "DM" -> Lost(l)
    [] f.type = "UA" -> l

\* The other states
Connected(l) ==
  Report([Reset2X(l) EXCEPT !.timer = "off", !.retries = 0], "ConOK")
LinkDown(l, f) ==
  CASE f.type = "UA" -> IF l.state = 2 THEN Connected(l) ELSE IF l.state = 4 THEN Lost(l) ELSE l
    [] f.type = "DM" -> IF l.state = 2 THEN Report(l, "ConBusy") ELSE Lost(l)
    [] f.type = "FRMR" -> Restart(l)
    [] f.type \notin {"UA", "DM", "FRMR"} -> l

\* L2_PROCESS; after FRMR nothing is answered but commands.
Process(l, f, soon) ==
  LET m == IF ~f.cmd /\ f.pf THEN [l EXCEPT !.timer = "off"] ELSE l IN
  IF m.state = 3 THEN (IF f.cmd THEN SendFrmr(m) ELSE m)
  ELSE IF m.state >= 5 THEN LinkUp(m, f, soon)
  ELSE LinkDown(m, f)

\* A SABM for a link that exists
SabmOnLink(l) ==
  IF l.state = 4 THEN SendResp(l, "DM")
  ELSE IF ~l.active THEN SendResp(l, "UA")
  ELSE Sabm(Report(l, "DiscRpt"))

\* L2LINKACTIVE and L2FORUS: without a link or a free channel (FindFreeHostChannel) the answer is
\* DM; the link that was made for the caller stays, without an address that could be found.
LinkActive(l, f, soon) ==
  CASE f.type = "DISC" -> SendResp(Lost(l), "UA")
    [] f.type = "SABM" -> SabmOnLink(l)
    [] f.type \notin {"DISC", "SABM"} -> Process(l, f, soon)
AsksForSrej(f) == f.type = "SREJ" /\ f.nr = 0
ForUs(l, f, full) ==
  IF f.type = "SABM" /\ ~full THEN Sabm(l)
  ELSE IF AsksForSrej(f) \/ (f.cmd /\ f.pf) THEN SendResp(l, "DM") ELSE l
Receive(l, f, soon, full) ==
  IF Exists(l) THEN LinkActive(l, f, soon) ELSE ForUs(l, f, full)

-------------------------------------------------------------------------------
\* Sending and timers.

\* SDETX: the slots are filled from TXBuffer, and frames are sent until one has P set.
Load(l) ==
  LET n == Max({n \in 0 .. Modulus : /\ l.next + n - 1 <= l.given
                                     /\ \A i \in 0 .. n - 1 : l.frames[Mod(l.slot + i)] = 0})
  IN [l EXCEPT !.frames = [k \in Slot |-> IF Mod(k - l.slot) < n
                                          THEN l.next + Mod(k - l.slot) ELSE @[k]],
               !.slot = Mod(@ + n), !.next = @ + n]
EndsOver(l, k) ==
  LET after == Mod(l.ns + k)
  IN Mod(after - l.ws) >= Window \/ l.frames[after] = 0
SendFrames(l) ==
  IF l.poll \/ l.frames[l.ns] = 0 THEN l
  ELSE LET n == Min({k \in 1 .. Modulus : EndsOver(l, k)})
       IN [l EXCEPT !.out = @ \o [i \in 1 .. n |-> Information(l, Mod(l.ns + i - 1), i = n)],
                    !.ns = Mod(@ + n), !.poll = TRUE, !.timer = "running"]
Sdetx(l) == SendFrames(Load(l))

\* Mutant of Timeout: retries are not counted.
TimeoutForever(l) ==
  LET m == [l EXCEPT !.timer = "off"] IN
  CASE l.state = 2 -> SendCommand(m, "SABM")
    [] l.state = 4 -> SendCommand(m, "DISC")
    [] l.state \in {3, 5, 6} -> SendSupervisCmd(m)
\* L2TIMEOUT; after the last retry L2RETRIES is -2, as a byte 254.
GiveUp(l) ==
  SendCommand([Report(l, "DiscRpt") EXCEPT !.retries = 254, !.state = 4], "DISC")
Retried(l) == [l EXCEPT !.retries = (@ + 1) % 256]
Timeout(l) ==
  LET m == [Retried(l) EXCEPT !.timer = "off"]
      last == m.retries >= N2
      again == IF l.state = 3 THEN Retried(m) ELSE m
  IN CASE l.state = 2 -> IF last THEN ClearOutLink(Report(m, "ConFailed")) ELSE SendCommand(m, "SABM")
       [] l.state = 4 -> IF last THEN ClearOutLink(m) ELSE SendCommand(m, "DISC")
       [] l.state = 3 /\ last -> SendCommand([m EXCEPT !.retries = 0, !.state = 2], "SABM")
       [] l.state \in {3, 5, 6} /\ ~(l.state = 3 /\ last) ->
            IF again.retries >= N2 THEN GiveUp(again) ELSE SendSupervisCmd(again)

\* What is counted as queued: the frames not acknowledged and what is in TXBuffer.
Queued(l) == {l.frames[k] : k \in Slot} \cup l.next .. l.given

\* The link has been idle for too long.
KillIdle(l) == Report([l EXCEPT !.timer = "due", !.state = 4], "DiscRpt")

\* A host that closes, and CheckForPktData.
Closing(l) == [l EXCEPT !.state = 4, !.timer = "due"]
Reported(l) == IF l.state = 0 THEN Removed(l) ELSE [l EXCEPT !.reports = {}]
===============================================================================
