--------------------------------- MODULE Ax25 ---------------------------------
(***************************************************************************)
(* Two ardop1 stations with an AX.25 link between them                     *)
(* (ext/ardop1/pktSession.c): their hosts call, send, read and close, the  *)
(* modems exchange frames, and timers expire.                              *)
(*                                                                         *)
(* A frame that is queued for a modem is later heard by the other station  *)
(* or lost.  ptkSessionBG sends and looks at the timers only while nothing *)
(* is queued.  Time is left out; with Patient the timer of a link is       *)
(* longer than an exchange: it does not expire while the other station has *)
(* something to send.  T3 and L2KILLTIME are longer still.  Links to       *)
(* others are not modelled, but they may hold every channel of the host.   *)
(***************************************************************************)
EXTENDS Ax25Link

CONSTANTS
  Station,     \* the two stations
  Patient,     \* an answer comes before the timer expires
  Validates,   \* T3 expires
  Shared,      \* the stations whose channels may all be held by links to others
  MaxItems,    \* bound: items each station's host gives it
  MaxCalls,    \* bound: calls of each station's host
  MaxCloses,   \* bound: how often each station's host closes the link
  MaxLosses    \* bound: frames that are lost

ASSUME Ax25Assumption ==
  /\ \E a, b \in Station : a # b /\ Station = {a, b}
  /\ {Patient, Validates} \subseteq BOOLEAN /\ MaxLosses \in Nat /\ Shared \subseteq Station
  /\ MaxItems \in [Station -> Nat] /\ MaxCalls \in [Station -> Nat]
  /\ MaxCloses \in [Station -> Nat]

VARIABLES
  link,    \* the stations' records
  calls,   \* calls made so far
  closes,  \* how often a host has closed
  losses   \* frames lost so far

vars == <<link, calls, closes, losses>>

Peer(p) == CHOOSE q \in Station : q # p

Init ==
  /\ link = [p \in Station |-> NewLink(0, <<>>, {})]
  /\ calls = [p \in Station |-> 0] /\ closes = [p \in Station |-> 0] /\ losses = 0

Change(p, l) == link' = [link EXCEPT ![p] = l]
Act(p, l) == Change(p, l) /\ UNCHANGED <<calls, closes, losses>>

-------------------------------------------------------------------------------
\* The hosts.

\* PKTCALL: there must be no link between the two, not even one with a report left.
HostCall(p) ==
  /\ calls[p] < MaxCalls[p]
  /\ ~Exists(link[p])
  /\ Change(p, [Reset2(link[p]) EXCEPT !.state = 2, !.timer = "due"])
  /\ calls' = [calls EXCEPT ![p] = @ + 1]
  /\ UNCHANGED <<closes, losses>>

\* ProcessPktData
HostSend(p) ==
  /\ Exists(link[p]) /\ link[p].given < MaxItems[p]
  /\ Act(p, [link[p] EXCEPT !.given = @ + 1])

\* DISCONNECT, or ClosePacketSessions
HostClose(p) ==
  /\ closes[p] < MaxCloses[p]
  /\ Exists(link[p])
  /\ Change(p, Closing(link[p]))
  /\ closes' = [closes EXCEPT ![p] = @ + 1]
  /\ UNCHANGED <<calls, losses>>

\* CheckForPktData: one report and the others are dropped; data when nothing is reported.
HostPoll(p) ==
  \/ /\ link[p].reports # {}
     /\ Act(p, Reported(link[p]))
  \/ /\ link[p].reports = {} /\ link[p].rx # <<>>
     /\ Act(p, [link[p] EXCEPT !.rx = Tail(@)])

-------------------------------------------------------------------------------
\* The radio.

\* F was sent less than 150 ms ago (LAST_F_TIME): it is not even on the air yet.
MayBeSoon(p) ==
  \E i \in 1 .. Len(link[p].out) : link[p].out[i].type \in Supervisory /\ ~link[p].out[i].cmd
Hear(p) ==
  /\ link[Peer(p)].out # <<>>
  /\ \E soon, full \in BOOLEAN :
       /\ soon => MayBeSoon(p)
       /\ full => p \in Shared
       /\ link' = [link EXCEPT ![Peer(p)].out = Tail(@),
                               ![p] = Receive(@, Head(link[Peer(p)].out), soon, full)]
  /\ UNCHANGED <<calls, closes, losses>>

Lose(p) ==
  /\ losses < MaxLosses
  /\ link[p].out # <<>>
  /\ Change(p, [link[p] EXCEPT !.out = Tail(@)])
  /\ losses' = losses + 1
  /\ UNCHANGED <<calls, closes>>

-------------------------------------------------------------------------------
\* ptkSessionBG and L2TimerProc.

Quiet == \A p \in Station : link[p].out = <<>>
MaySend(p) ==
  link[p].out = <<>> /\ link[p].state >= 5 /\ Sdetx(link[p]) # link[p]
Ticking(p) ==
  /\ link[p].out = <<>> /\ link[p].state # 0
  /\ ~(link[p].state >= 5 /\ Sdetx(link[p]).out # <<>>)

Send(p) == MaySend(p) /\ Act(p, Sdetx(link[p]))

\* The timer of a link that is going down is started if it does not run.
MayExpire(p) ==
  /\ Ticking(p)
  /\ \/ link[p].timer = "due"
     \/ link[p].timer = "running" /\ (Patient => Quiet)
     \/ link[p].timer = "off" /\ link[p].state \in {3, 4}
Expire(p) == MayExpire(p) /\ Act(p, Timeout(link[p]))

\* RNR was sent and the host has read since.
CanGoOn(p) == Ticking(p) /\ link[p].rnrsent /\ ~Busy(link[p])
NoLongerBusy(p) ==
  /\ CanGoOn(p)
  /\ Act(p, IF link[p].retries = 0 THEN SendSupervisCmd(link[p]) ELSE Sequenced(link[p]))

\* Mutant of Idle: only a link that is up is looked after.
IdleWhenUp(p) ==
  /\ Ticking(p) /\ link[p].timer = "off" /\ link[p].state >= 5
  /\ Patient => Quiet /\ \A q \in Station : link[q].timer = "off" /\ ~MaySend(q) /\ ~MayExpire(q)
\* Neither of these happens while frames are exchanged or a retry is near.
Idle(p) ==
  /\ Ticking(p) /\ link[p].timer = "off"
  /\ link[p].state \notin {3, 4}
  /\ Patient => Quiet /\ \A q \in Station : link[q].timer = "off" /\ ~MaySend(q) /\ ~MayExpire(q)

\* L2SLOTIM: a poll to see whether the other end is there.
Validate(p) == Validates /\ Idle(p) /\ Act(p, SendSupervisCmd(link[p]))

\* KILLTIMER
TooLongIdle(p) == Idle(p) /\ Act(p, KillIdle(link[p]))

Next ==
  \E p \in Station :
    \/ HostCall(p) \/ HostSend(p) \/ HostClose(p) \/ HostPoll(p)
    \/ Hear(p) \/ Lose(p)
    \/ Send(p) \/ Expire(p) \/ NoLongerBusy(p) \/ Validate(p) \/ TooLongIdle(p)

Spec == Init /\ [][Next]_vars

\* The background runs, hosts poll, and what is sent is heard or lost.  All of it is weak
\* fairness; it is written out for the actions whose ENABLED is costly to evaluate.
Fair(p) ==
  /\ WF_vars(HostPoll(p))
  /\ []<>(link[Peer(p)].out = <<>>) \/ []<><<Hear(p)>>_vars
  /\ []<>~MaySend(p) \/ []<><<Send(p)>>_vars
  /\ []<>~MayExpire(p) \/ []<><<Expire(p)>>_vars
  /\ []<>~CanGoOn(p) \/ []<><<NoLongerBusy(p)>>_vars
FairSpec == Spec /\ \A p \in Station : Fair(p)

\* KILLTIMER counts while no data goes over the link, whatever else does: hosts that give a bounded
\* number of items leave it idle again and again, and it expires.
KillTimerExpires == \A p \in Station : <>[]~Idle(p) \/ []<><<TooLongIdle(p)>>_vars

-------------------------------------------------------------------------------
\* Properties.

FrameType == {"SABM", "UA", "DISC", "DM", "FRMR", "RR", "RNR", "SREJ", "I"}

\* TypeOK: the fields of a link keep their ranges; in particular no sequence number leaves
\* the modulus and no frame is kept for a link that is down.
TypeOK ==
  \A p \in Station : LET l == link[p] IN
    /\ l.state \in {0, 2, 3, 4, 5, 6}
    /\ {l.nr, l.ns, l.ws, l.slot} \subseteq Slot
    /\ l.timer \in {"off", "due", "running"} /\ l.retries \in 0 .. 255
    /\ l.state = 0 => l.frames = NoFrames /\ l.rxframes = NoFrames /\ l.rx = <<>>
    /\ \A i \in 1 .. Len(l.out) : l.out[i].type \in FrameType

\* ImplementsLink: what an end passes on is what the other end was given, in order and
\* nothing twice, and what was removed as acknowledged has arrived.
Promise == INSTANCE ArqLink WITH
  given <- [p \in Station |-> link[p].given],
  got <- [p \in Station |-> link[p].recv],
  confirmed <- [p \in Station |-> link[p].acked]
ImplementsLink == Promise!Spec

\* NeverRejected: two such stations never find each other's N(R) wrong.
NeverRejected == \A p \in Station : ~link[p].rejf

\* SavedIsAhead: what is kept out of order is the next window's, each item in its place.
SavedIsAhead ==
  \A p \in Station : \A k \in Slot :
    link[p].rxframes[k] # 0 =>
      link[p].rxframes[k] = Len(link[p].recv) + 1 + Mod(k - link[p].nr)

\* The link carries data.
Up(l) == l.state \in {5, 6}

\* Progress: what a host gives to a link that is up is acknowledged, or the link goes down.
Progress ==
  \A p \in Station : \A n \in 1 .. MaxItems[p] :
    n \in Queued(link[p]) /\ Up(link[p]) ~> n \notin Queued(link[p]) \/ ~Up(link[p])

\* HandshakesEnd: a call is answered, fails or is given up, though it was answered with DM, which
\* stops its timer (pktSession.c:1613); and a link that is being closed is closed. KILLTIMER does it.
HandshakesEnd ==
  KillTimerExpires => \A p \in Station : \A s \in {2, 4} : link[p].state = s ~> link[p].state # s
===============================================================================
