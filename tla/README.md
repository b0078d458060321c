# A TLA+ model of hamchat

hamchat is an IRC server for amateur radio. One process accepts IRC clients on
TCP listeners, registers them by callsign, and is meant to relay their messages
over IP links and over radio. The radio side is `ardop1`, a software modem kept in
`src/ext/ardop1` and run as a process of its own: it speaks the ARDOP protocol
(sessions with acknowledgement, and broadcasts with forward error correction) and
AX.25 packet over a sound card, and is controlled by a program over a serial line,
TCP or KISS. At this commit the IRC core, the dictionary under it and the start-up
code are written, the drivers that join server and modem are stubs, and the
modem is complete; it is nine tenths of the code and has most of its concurrency.

This directory holds TLA+ modules that model the parts with logic of their own,
TLC configurations that check them on small instances, and proofs that TLAPS
checks. Every definition is translated from the C and C++ under `src/`; the lines
are in `PROJECT.json`, "map". "Hazards" there lists what is hard to test, with the
properties that would notice.

## Inventory

The server (`src/src`, `src/include`):

| Component | State | Operations | Hard behaviour | Correct when |
|---|---|---|---|---|
| dict (`dict.cpp`) | table, size, used, fill | new, add, add_blob, get, get_blob, del; growth | growth in the middle of an add, probe chains under deletion, counters | it is the map `dict.h` promises, and every call returns |
| daemon, main | pidfd, the pidfile, its lock | daemonize, signals, exit handlers, start-up | two starts at once, crash, exit while starting | one instance serves; a stale pidfile means a crash |
| client, registration commands | Client objects, Clients_by_fd, Clients_by_callsign, stats | accept, read, NICK, USER, PASS, QUIT, KILL | reuse of descriptors and memory, tables whose entries outlive deletion and are lost in growth, order of commands | no two clients have one callsign; no connection is unknown; clients are counted; who has registered is welcomed |
| socket, parser | recvbuf and its lock | sock_read_cb, Parse | partial lines, failed reads | the buffer is not modelled: nothing parses it at this commit |
| channels, config, rig, timers, modem drivers, logger, database, stubs | | | | not modelled, see below |

The modem (`src/ext/ardop1`):

| Component | State | Operations | Hard behaviour | Correct when |
|---|---|---|---|---|
| ARQ sessions (`ARQ.c`, timers and poll of `ARDOPC.c`) | protocol state, session id, queue, parity, repeats, timers, bandwidth | received frames, poll, timers, host commands | lost and garbled frames, change of roles, modes that change between repeats, ends that are not heard | data arrives in order and once; one sender; everything ends |
| FEC (`FEC.c`) | mode, repeats, queue | start, poll, repeat timer, identification | two paths to the next frame, shared buffers | frames are repeated as asked, and sending ends |
| receiver (`SoundInput.c`) | type of the last frame, decoded carriers, failed frame | acquisition, decoding, retry | several damaged copies of one frame | the host gets whole frames, once, in order |
| AX.25 (`pktSession.c`) | link table | frames, timers, host | window arithmetic, saved frames, RNR, retries, stale links | data arrives in order and once; handshakes end |
| host commands (`HostInterface.c`) | settings, requests for the background | 70 commands | requests done later, in another state | settings stay in range; calls go where they were asked |
| serial host (`SCSHostInterface.c`, `LinSerial.c`) | reply buffer, toggle, frame buffer | text mode, host mode frames, polls | lost bytes, repeats | each request is done once and gets its own answer |
| TCP host (`TCPHostInterface.c`) | three connections and their buffers | accept, receive, close | commands in parts, connections that end | commands run once, in order |
| KISS (`KISSModule.c`), packet modem (`pktARDOP.c`) | a ring and a count of FENDs | put byte, take frame, ACKMODE | two writers, wrap, overflow | frames go out whole and in order |
| modulation, sound, Reed-Solomon | samples | | signal processing | abstracted to choices |

Server and modem share nothing but a TCP connection that the server's driver does
not use yet. Inside the server one thread matters (libev's loop): an atomic step is
one callback. The modem has one thread: `ardopmain` polls the host and calls
`CheckTimers` and `MainPoll` in a loop, and while a frame is played it goes on
polling the host and the radio, so that commands come in the middle of
a transmission. What interleaves is therefore the order of polls, timers, commands,
frames and, with two stations, the other station.

## Modules

| Module | Models | Uses |
|---|---|---|
| `Dict` | one dictionary, one action for each call, the copy at growth item by item | |
| `DictContract` | what `dict.h` promises, as a map | |
| `DictProbe`, `DictLookup` | the probe sequence; `dict_lookup` one probe at a time | |
| `Pidfile` | instances starting and stopping, one system call an action | |
| `ClientTable` | the calls of `dict.cpp` the client layer makes, with their blobs | |
| `Clients` | client objects, both tables, the registration commands | `ClientTable` |
| `ArqBandwidth` | bandwidths and their negotiation, data modes and their sizes | |
| `ArqStation` | one station's ARQ state and the subroutines on it | `ArqBandwidth` |
| `Arq` | two stations, their hosts, timers and the radio | `ArqStation`, `ArqLink` |
| `ArqLink` | what a session promises to the two hosts | |
| `Ax25Link` | one end of an AX.25 link: handlers of frames, timers and commands | |
| `Ax25` | two ends, losses | `Ax25Link`, `ArqLink` |
| `FecReceiver` | reception of data frames with memory of carriers | |
| `Fec` | the FEC sender, the radio and a listener | `FecReceiver` |
| `HostCommands` | the modem as its host sees it, `ProcessCommandFromHost` | `Kiss` |
| `Kiss` | the KISS ring | |
| `ScsHost` | the serial protocol: text mode, host mode, replies | `HostCommands` |
| `TcpHost` | the three TCP connections | `HostCommands` |
| `HostLink` | what the serial line promises its host | |
| `Host` | the modem, its host, the line, the connections, the background | `ScsHost`, `TcpHost`, `HostLink` |
| `MCDict`, `MCClients`, `MCArq`, `MCAx25`, `MCFec`, `MCHost` | instances for TLC | |
| `DictProofs`, `DictLookupProofs`, `PidfileProofs`, `ClientsProofs`, `ArqProofs`, `Ax25Proofs`, `FecProofs`, `HostProofs` | proofs | |

Definitions marked "Mutant of ..." are the same operations with a plausible bug.
Nothing uses them; each is substituted for the operation it names to see that a
run's property notices.

**Dict.** `table` is a function from slots to records of key, val and blob. A
lookup is not run probe by probe: `Lookup` is the first slot, in the order of the
constant `Rank`, that is free or holds the key. `DictLookup` checks that the loop
of the code computes that (for tables of 8 slots, every set of free slots, every
place of the key, and nine hashes), and `MCDict` instantiates `Rank` with the
order that `DictProbe` computes from the code's recurrence. Unsigned arithmetic
keeps its wrap (`UMod`), scaled down from 2^32 together with the sizes. There are
two specifications for two uses: `SpecGrow` never deletes (Config, Channels,
Listeners), `Spec` also deletes any key, there or not, as the client tables do.
The history `strayed` records that a key has been deleted that was not there.

**Pidfile.** The inode, its lock and its content are separate from the path, since
`unlink` removes only the name. `Terminate`, `ClosePidfile` and `UnlinkPidfile` are
the exit by a signal through the `atexit` handler; `Crash` runs no handler.
`InitModem` and `DropPidfile` are `Modem_ARDOP::Init` calling `shutdown()`, which
does not exit. The history `orderly` is true as long as no start has begun while
another was under way and no instance has given up its pidfile in that way.

**Clients.** `mem` is the contents of every Client object including freed ones,
because `Client::Client` leaves some fields unset: `Accept` takes an object whose
fields hold zeroes or its previous contents (`Leftovers`). The two tables are
dictionaries as `dict.cpp` makes them. `ClientTable` computes each call from start to
end (with the copy at growth, which in `Dict` takes many steps, since one thread makes
these calls), and keeps what `Dict` leaves aside: that `dict_add_p` stores the address
of its parameter, that `dict_del` leaves the blob in the slot, that `dict_get_blob`
takes the blob of whatever slot the lookup ends at, and that growth drops all blobs.
So `find_client` finds `NULL` or a dead address, never a Client. `m_nick` asks only
which; `sock_read_cb` closes the connection on `NULL` (`SockRead`), and otherwise goes on
from that address, as `m_kill` does. What happens then is not the program's to say: `up`
turns false, and no further step is modelled. `up` also turns false when the server dies
of using a client that a handler has deleted; it may survive that. The handlers are
modelled as `Client::Parse` would dispatch them; nothing calls it (main.cpp:38).

**Arq.** A station is a record of the modem's global variables; the subroutines of
`ARQ.c` are operators from record to record (`ArqStation`), and the actions of `Arq`
are the branches of `ProcessRcvdARQFrame` (`ReceiveIn...`, by state and substate),
of `GetNextARQFrame` (`Poll` and its parts), of the timers (`...Expires`) and the
commands of the host. At most one frame is in the air, because a station that plays
does nothing else; it is decoded, decoded badly, faded, or lost. A frame
is decoded whole here; putting one together from several copies is
`FecReceiver`'s subject, which the ARQ receiver shares. While a frame plays the host is
polled (`txSleep`, ALSASound.c:473), inside the handler that plays it. A command that
comes then leaves what it leaves just before the handler or just after, since the
handler has set its state or does not look at what the command sets; but not ABORT where
the handler goes on to change state: `AbortInPlay` is an ABORT during the ACK to a BREAK
(ARQ.c:1842), the END that answers a DISC in IDLE (1868), or the ID before DISC
(ARDOPC.c:2343). What else follows a frame in its handler (the parity after an ACK,
ARQ.c:1774; the modes after a ConAck, 1571; the flag of BREAK, SoundInput.c:1253) is set
again by whatever starts the next session. Time is left out: a running
timer may expire at any moment. What gives a mode is its place in the table of the
session's bandwidth, with the real numbers of bytes, so that a change of mode
changes how much of the queue a repeat holds.

**Ax25.** `Ax25Link` is the record of a link and the handlers of `pktSession.c`,
one operator for each of the routines; the queue to the modem is part of the
record. `Ax25` lets either end send, hear, lose, tick and be called. The windows
keep their modulus (a constant), and `L2RETRIES` wraps as a byte. A poll that comes
within 150 ms of the last final frame is discarded (`MayBeSoon`: that frame has not even
been sent yet). The stations in `Shared` have other links, so that all their host channels
may be taken when a call comes: it is answered DM, though the link has been allocated, and
stays so (pktSession.c:942-957).

**Fec.** `snd` is the sender (queue, mode, parity, repeats), `rcv` the record of a
listener that is never sending; between them a frame is heard with any set of its
carriers decodable. FSK modes have one carrier or three (`FecAssumption`): the cases 0x78
and 0x79 of `DecodeFrame`, which fall through to 0x7A (SoundInput.c:3784-3801), are dead,
since neither is among the valid types (ARDOPC.c:215-232) or known to `FrameInfo`. `MainPoll`, `CheckTimers` and `SendID` are the three paths that
play something.

**Host.** `modem` is one record of settings, requests (`NeedConReq` and the like),
queues and the KISS ring. A conversation is a script of requests; which of
them the instances hold is in `MCHost` (each command with good and bad values, and
what concerns calls, pings and data in many orders). Bytes are kept apart only
where the code does: a frame on the serial line comes in pieces, cut where no byte
170 follows; a line over TCP in two halves; a KISS frame byte by byte. `Radio`
stands for everything sessions do to the modem meanwhile. The call of a request 'C'
plays inside its handler (SCSHostInterface.c:964): `Do` is the handler up to there, with
the toggle changed, the frame buffer free and `SCSReply` the reply before it; polls come in
between (one may start another such request), and `Connected` makes and sends its answer.
`line.connecting` are the requests that play, and `crossed` records that a repeat was
answered meanwhile. The background is
`CheckTimers`, whose parts run in their order (`CheckFrom`), and a transmission takes
from `CheckTimers` or `StartPackets` to `Played` or `PacketSent`, with the host
polled in between.

## Runs

| Run | Bounds | Shows |
|---|---|---|
| `dict_grow` | three colliding keys, one with two strings, tables of 2 to 64 slots, `MaxFill` 12 | the table grows twice, by the large and by the small factor; no call spins (`NeverHangs`), each key is where its lookup leads (`ChainsIntact`), and the whole is the string map of `dict.h` (`ImplementsContract`) |
| `dict_delete` | two string keys, a blob key, tables of 2 to 32 slots, `MaxFill` 4 | any sequence of calls. Until a deletion strays no call spins (`HangsOnlyAfterStray`); afterwards tables fill up, calls spin and `used` wraps, but types hold |
| `dict_lookup` | 8 slots, every set of free slots, every place of the key, nine hashes | the probe loop ends (`Terminates`), at the right slot (`FindsFirst`) |
| `pidfile` | three instances, one without a station, four inodes | while starts are orderly one instance serves (`OneWhenOrderly`), by its own pidfile (`FileGuards`); in any case only a crash leaves a pidfile that turns starts away (`OrphanMeansCrash`) |
| `clients` | two objects, three colliding descriptors, two colliding callsigns; tables of 8 to 32 slots, `MaxFdFill` 5, `MaxFill` 4 | until a table grows, no two clients have one callsign (`OneHolderUntilGrowth`), no connection is unknown (`FoundUntilGrowth`) and the count is that of connections (`CountUntilGrowth`); types, with the wrap of `used` |
| `clients_grown` | two objects, two descriptors, three callsigns; `MaxFdFill` 2, `MaxFill` 6 | violation: after growth a callsign that is held is given away (`OneHolder`) |
| `arq_session` | stations a and b, a calls once; two items from a and one from b; one command each of DISCONNECT, BREAK, ABORT; three pairs of bandwidth settings; BUSYBLOCK | data in order and once, nothing dropped as acknowledged that has not arrived (`ImplementsLink`); never two senders (`OneSender`); both at the agreed bandwidth and the data within it (`AgreedWidth`) |
| `arq_ends` | the same with one item each, one command of b (also PURGEBUFFER), 2000 Hz, fast start | what is queued is acknowledged while the session lasts (`Settles`); out of reach both return to DISC (`LinkEnds`) |
| `ax25_session` | modulus 3, three items from a and one from b, one call, one close, two losses, two retries | `ImplementsLink`, what is saved out of order is the next window's (`SavedIsAhead`), nobody is rejected (`NeverRejected`) |
| `ax25_ends` | one item each, receivers that go busy at once, link validation, one loss, a station b whose host channels may be taken | data is acknowledged or the link goes down (`Progress`); with the idle timeout, calls and disconnections end, those that were refused with DM too (`HandshakesEnd`) |
| `fec` | three items, 4FSK of one carrier, PSK and QAM of two, 0 or 2 repeats, one identification | order and wholeness (`DeliversInOrder`), a frame is delivered once its carriers add up (`CarriersAddUp`), repeats are kept (`RepeatsKept`), sending ends (`FecEnds`) |
| `host` | the conversations of `MCHost` over a serial line or TCP, a loss, an early repeat, connections made again | requests are done once and answered by their own answers until a repeat crosses a call that plays (`ImplementsHostLink`), TCP commands run in order and once (`RunInOrder`) and do not stay (`CommandsRun`), packets go out whole (`PacketsInOrder`), calls go where they were asked (`CalledAsAsked`), settings stay in range (`TypeOK`) |

**Bounds.** `MaxFill` bounds the additions between two growths: the table
starts with 2 slots instead of 8, fewer than the keys, and in `dict_grow` grows to 16
at the second addition and to 32 at the eleventh (`BigSize` is scaled to 8, so that
the second uses the other factor). In `dict_delete` it can be full after a stray
deletion. `MaxInode` = 4 lets every instance
create a file and one more be created after a crash. In the client runs the tables have
their real first size, 8, and `BigSize` its real value; `MaxFill` (callsigns) and
`MaxFdFill` (descriptors) are the additions of one table; the sixth makes it grow, which
`clients_grown` reaches, and five are every addition that the properties "until growth" speak of;
`UMod` is 64 for
2^32, and the sizes stop at 32 accordingly. The hashes collide at the first slot, in part
further on. Two objects are enough for one to be freed and its memory taken by
another client while the second holds what is at stake; objects are symmetric. In the ARQ runs an item is 32 bytes, and FSKONLY leaves two modes, of 32
and 64 bytes, so that two items are one frame or two and a change of mode regroups
them; the pairs of settings are one that is refused, one where CALLBW asks for less,
and 1000MAX called with 2000FORCED; DISC and ConReq are sent twice (`DiscRepeats`,
`ConReqRepeats`) instead of five times. The other pairs are covered by the theorems
about `IRSNegotiateBW`. In the AX.25 runs the modulus of 3 (window 2) stands for 8
(window 7) and two retries for six: with three items the window fills and the
numbers wrap. One call suffices for a session; two calls are not in the passing
runs because the code then breaks the promise (below). KISS frames are of three
kinds and the ring has 14 bytes for 4096, so that it wraps and fills.

**What fails.** Properties that state what the program says of itself and does not do stand at
the end of `Clients` and among the properties of `Host`. One has a run, `clients_grown`; TLC shows the others violated when
they replace the properties of a run:

| Property | In | Shows |
|---|---|---|
| `FindsItsClient` | `clients` | a descriptor leads to a dead address, never to its client |
| `FreeIsFree` | `clients` | a callsign that was given up stays in use |
| `RegisteredIsWelcomed` | `clients` | a client that sent NICK and PASS is never welcomed |
| `CountsConnections` | `clients` with `Fd` {f1, f2}, `Name` {n1}, `MaxFdFill` 6 | after growth clients of closed connections stay counted |
| `OneHolder` | `clients` with `Name` {k16, l16} | two callsigns of 16 characters are stored as one |
| `OwnAnswers` | `host` | a request 'C' repeated while its call plays gets the reply to the request before it |
| `AnswersAreWhole` | `host` | a reply with a byte 170, or with packets, is damaged in its repeat |

**Deadlock** is checked where something can always happen (`dict_grow`, `pidfile`,
`dict_lookup` ends in a stuttering step). The other systems may really stop: a
dictionary that spins, a server that has used a dead address or a freed client, two stations out of
calls, data and time, a sender that is done, a script that has ended.

**Fairness.** `DictLookup`: weak fairness of `Probe`, plain sequential code.
`Arq`: polls and timers are weakly fair, because `ardopmain` runs them in a loop
whatever else happens; the ARQ timeout is only forced once the stations are out of
reach, since hearing something restarts it; decoding is strongly fair, which says
that a frame repeated for ever is decoded some time: without it no protocol gets
anywhere, and `LinkEnds` covers the case where it does not hold. `Ax25`: hearing,
sending, ticks and the end of being busy are weakly fair, losses are bounded, and
the host polls; `HandshakesEnd` also needs the idle timeout, whose counter
(`KILLTIMER`) runs whenever no data passes, whatever else does: hosts give a bounded number
of items, so a link that is idle again and again is killed some time (`KillTimerExpires`). `Fec`: the poll, the timer and SENDID, for the same loop. `Host`: the
modem polls its host, a call that plays ends, a host that waits repeats and reads. In `Ax25` and `Host` weak
fairness is written as "infinitely often disabled or taken", since that is cheaper
to evaluate than ENABLED.

## Proofs

| Theorem | States | Assumes |
|---|---|---|
| `TypeCorrect`, `CareSound`, `CareNeverHangs` | `Spec => []TypeOK`, `[]CareInv`, `[]HangsOnlyAfterStray` | the constants' assumptions in `Dict` |
| `GrowSound`, `GrowNeverHangs`, `GrowChainsIntact` | `SpecGrow => []GrowInv`, `[]NeverHangs`, `[]ChainsIntact` | same |
| `GrowIsMap` | `SpecGrow => ImplementsContract` | same, and that callers store strings only and ask for no default (`OnlyStrings`) |
| `LookupFindsFirst` | `Spec => []FindsFirst` of `DictLookup` | its `LookupAssumption` |
| `OrderlySound`, `OrderlyOneInstance`, `OrderlyFileGuards` | `Spec => []OrderlyInv`, `[]OneWhenOrderly`, `[]FileGuards` | those of `Pidfile` |
| `OnlyCrashesLeaveOrphans` | `Spec => []OrphanMeansCrash` | same |
| `ConnectionsAreFound`, `ConnectionsAreCounted` | `Spec => []FoundUntilGrowth`, `[]CountUntilGrowth` of `Clients` | those of `ClientTable` and `Clients` |
| `CallsignsHaveOneHolder` | `Spec => []OneHolderUntilGrowth` of `Clients` | same, and that callsigns are stored as typed |
| `NegotiatedWidth`, `NegotiatedFits`, `NegotiatedWidest` | what `IRSNegotiateBW` agrees on, for every pair of settings | those of `ArqBandwidth` |
| `StartsWithAMode`, `ModesFit`, `SizesAgree`, `SizesGrow` | the tables of data modes | same |
| `ArqOneSender`, `ArqTypes`, `ArqAgreedWidth` | `Spec => []OneSender`, `[]TypeOK`, `[]AgreedWidth` of `Arq` | those of `Arq`, `ArqStation`, `ArqBandwidth` |
| `ArqImplementsLink` | `Spec /\ [][SendersGoOn]_vars => ImplementsLink` of `Arq` | same, and by `SendersGoOn` that a station that sends places no call, has no timer of an old call expire and its queue purged |
| `ArqOneCall` | `Spec => ImplementsLink` of `Arq` | same, and that one host calls, once, and none purges (`OneCaller`, what the constants of `arq_session` say) |
| `Ax25Types` | `Spec => []TypeOK` of `Ax25` | those of `Ax25`, `Ax25Link` |
| `RepeatsHold`, `RepeatsAreKept` | `Spec => []RepeatsInv`, `Spec => RepeatsKept` | those of `Fec` |
| `FecTypes` | `Spec => []TypeOK` of `Fec` | same |
| `HostInvariant`, `HostTypes`, `HostCalls` | `Spec => []HostInv`, `[]TypeOK`, `CalledAsAsked` of `Host` | that the conversations consist of commands and requests (`HostAssumption`) |
| `HostRunsInOrder` | `Spec => []RunInOrder` of `Host` | same |
| `HostKeepsPromise` | `Spec => KeepsPromise`, the part of `ImplementsHostLink` without fairness | same |
| `FecHolds`, `FecDelivers`, `FecAddsUp` | `Spec => []FecInv`, `[]DeliversInOrder`, `[]CarriersAddUp` | same, and that no QAM mode has more than two carriers (`FewCarriers`) |

*Dictionary.* That lookups end needs a free slot; that needs a bound on the
occupied slots; and that has to survive the copy, which resets the counters
while the keys are still in the old table. `Counters` therefore counts the items
left to copy: during a copy, `fill` plus what is left is below half the new size,
so no growth starts within a growth (`NoNestedResize`). Outside a copy the occupied
slots are at most `used`, `used` is at most `fill`, and either `fill` is below the
threshold of growth or growth was considered and `used` was below half the size.
Deleting a key that is there takes one from both sides; deleting one that is not
breaks it, hence the hypothesis `~strayed` of `CareInv`. `Chains` says that no slot
probed before a key's own is free; writing a key at the slot its lookup returns
keeps it, and `ChainsIntact` follows. Assumed of the constants: `Rank` orders the
slots of each key without ties (`ProbeAssumption`; `Terminates` of `DictLookup`
checks that the code's sequence visits every slot), and sizes reach four times the
bound on additions (`FillAssumption`: the real dictionary is smaller than 2^29
items or so).

That callers see the map of `dict.h` (`GrowIsMap`) adds to this invariant that
every key holds what was last added: `MapInv` says, while the table is copied, that
a key is among the items left to copy or in the new table, and never in both or
twice (`CopiesApart`). The steps of a copy are then stuttering steps of the map.
The theorem leaves out blobs, which a growth loses, and defaults, which `dict_get`
never returns (see below).

*Lookup.* `LookupInv` says that the loop is at some probe of the sequence and that
none of the slots before it would have stopped it. `DictProbe` defines the sequence as
a recursive function; that such a function exists is proved here, by the least
number at which one could fail, since the library's induction takes an operator.

*Pidfile.* `Orderly` says by program counter what an instance holds; its heart is
that at most one instance is past its `stat`, because the file is there from its
`open` until its `unlink`. `OrphanMeansCrash` is inductive as it stands: a step that
closes the file either unlinks it or leads to an unlink.

*Clients.* That the faults of `dict_del` do no harm before growth is an argument about
blobs: until then nothing takes a blob out of a slot. `Holds` says of a descriptor that
its key is in the table, and that every slot probed on the way to it has a blob. A
deletion may free one of those slots, and break the chain, but leaves the blob there; so
the lookup stops at the key or at a slot that was freed before it, and finds a blob
(`HeldIsFound`). A connection keeps its key, since only its own client, which closes
it, deletes that (`FdInv`); the count follows from the same: the destructor deletes
through the descriptor of the object it is called on, not through what a table finds. For
callsigns the key itself may be lost, because a new client can find the callsign of a
freed one in its memory and delete it again. `Leads` therefore says only that the lookup,
if it ends, finds a blob, and `NameInv` says it of whatever any object has in its memory,
freed ones included, and that no two objects have the same. A NICK is accepted only for a
callsign that does not lead to a blob, which none of them has. The theorems end where a
table grows, as the properties do; `TypeOK` of `Clients` is only model-checked.

*Bandwidth.* The settings are eight and a request is one of them; the proof splits
on the called station's setting, as the `switch` of the code does. `SizesAgree` is
about two tables the code keeps by hand: `FrameSize`, which `Gearshift_9` looks at,
and `FrameInfo`, by which frames are filled.

*ARQ.* Three invariants, each proved for every step of both stations, for any
number of calls by either of them, any bandwidths and any losses. `SenderInv`: a
station in ISS or IDLE has not played ACK or BREAK last, and while such a frame is in
the air, the station it is from does not send. A station takes the sending over only
on the ACK to its BREAK, so the two cannot both have it. `TypedInv`: the record's
fields, and that what a sender has in process fits the frame of its mode, which
`Gearshift_9` may only change when nothing is in process. `SessionInv` is the
negotiation: it names what a station is at (`Calling`, `Confirming`, `Called`,
`Joined`) and says that its last frame, which it repeats until answered, does not
speak of anything else; that while one station is called the other has not joined;
and that two stations of one session have the same caller. The width is then a
function of the caller (`WidthFor`), and `AgreedWidth` follows from
`NegotiatedFits`. A ConReq of an old call that comes late is the hard case: it is
answered only in DISC, and whoever is in DISC is in no session. `Stranded` is the
station that an ABORT has caught while its ACK to a BREAK played: in IRS with no session,
which hears nothing of one, sends nothing and returns to DISC by the ARQ timeout.

*ARQ data.* `DataInv` says where the items are that a station has taken from its
host. Those that have not been acknowledged are in its queue; the first of them are
in process, and are what its last data frame carries. That frame has come to the
other host or it has not: it has come if the other station's memory of the last frame
is of this type, and then these are the items that host got last (`Came`); it has not
if all that host got is older (`Coming`). An ACK in the air that finds a sender says
the first, a NAK the second (`Told`), so an ACK removes only what has arrived and the
frame that follows, of the other type, is new (`Fresh`). Around this the invariant has
to follow the roles: a station that becomes sender has heard the ACK to its BREAK, after
which the other cannot take what it repeats for data.

`DataStep` names what a step of one station has to respect; each handler, timer and
command is shown to be one, and `DataStep` to keep `DataInv` and to be a step of
`ArqLink`. One thing the code does is not: a station that sends may be cut off by
`InitializeConnection`, when it places the call of an ARQCALL that was made earlier in
DISC, when the timer of a call it once answered expires, or when PURGEBUFFER empties
the queue under the frame. The frame's data then stays queued, or newer data is taken
for it. `SendersGoOn` says that this does not happen. `CallInv` shows what is enough:
one host calls, once. Then the station that called is never called, so it has no
pending timer, and its call is placed from DISC; the other has no call to place, and
its timer runs only until it has joined.

*AX.25 types.* `Typed` says what a record of a link is, and each operator
of `Ax25Link` is shown to keep it. What it adds to `TypeOK` is what the handlers need
of one another: the items in the slots, the fields of queued frames (the other end
takes N(R) and N(S) from them without a check), and `next <= given + 1`, without which
SDETX has no slot to fill (`LoadOpen`). A burst ends because one of the next frames
is at the end of the window (`WindowEnds`).

*FEC repeats.* Between frames `repeatsSent` counts what the timer has played, while
the poll plays without counting. `RepeatsInv` says that as long as nothing disturbed
the frame (ABORT, identification, SENDID) it has been played more often than was
counted, and that the repeat timer is only off once enough were counted.

*FEC reception.* `FecInv` has two parts. The sender's: the frames sent are the items
in order, and a frame differs from the one before in type, or its mode does. The
listener's: what its memory of carriers holds are carriers of the frame its type
names (`MemoryTypes`), and a frame whose carriers have all been decoded has been given
to the host, last of all (`WholeIsGiven`). `CarriersAddUp` and `DeliversInOrder`
follow. Only with `FewCarriers`: the retry collects two carriers of QAM, however many
there are (see below).

*Host.* `HostInv` has four parts, for every conversation (`MCHost` has some dozens) and
any number of losses, repeats and events. `Kept` is about the modem's record: each
setting is in its range, the queues in their rooms, the call or ping that waits is the
one the host asked for last (`Agreed`), and what the host has still to fetch are the
last of the reports, data and CAT bytes, in order (`Due`). Each command is shown to keep
that and to hand nothing over (`Run`: `CommandRuns`, `TextCommandRuns`); each request in
host mode, to hand over what comes next of one kind, in one answer (`Handed`:
`FrameHands`); a line of text, a piece that comes over TCP, a packet and an event from
the radio, to hand over nothing (`Goes`).

`LinkInv` is the serial line. A toggle of one bit tells a request from a repeat of the
last one, so the proof has to bound what can be on its way: to the modem, the request it
did last and then the one it is asked now, in this order (`Coming`); to the host,
answers of these two (`Returning`). As they differ by one, the toggle tells them apart
(`Toggles`). `Takes` shows that what is read in host mode leaves that order as it is,
however the pieces were cut, lost or run into each other. `Delivered` says that what the
host holds is all that was handed over, but for what the last answer holds; with it a
request that is done is a step `Run` of `HostLink`, an answer that is read a step
`Answer`, and everything else a stutter. While a call plays the request has been done and
its answer does not exist yet; the host has nothing to wait for but that, so unless it
repeats, nothing else is on its way. When a repeat is answered meanwhile, `LinkInv` ends
and `HostLink` promises nothing: `Astray` is what stays true of the line for the other
invariants.

`ConnTyped` says that what is on a wire was said by its host, and is what `Kept` needs
over TCP; `SentTyped`, with `Agreed`, gives `CalledAsAsked`.

`RunInOrder` needs an invariant of its own, `RanInv`: what a connection holds and what
is on its way to it are one queue of halves of lines or blocks (`Way`), and it is about
that queue as much as about what was done. `Flows`: the halves come in the order sent
and after all that was done; while nothing was cut they come in pairs and nothing
strange was done; on the first connection the pairs are numbered on from what was done
(`Once`), so that none can be left out. `StraysFew`: a second half follows its first,
and the lines nobody sent, done already or still to come because a first half has lost
its second (`Orphans`), are no more than the cuts. Lines are taken one at a time
(`LineGoes`, `LineOrphans`), blocks as far as the stream is in step and again after
some were dropped (`ReadGoes`); a cut leaves a start of the queue (`CutFlows`), a host
that speaks adds a pair (`SaidFlows`). TLC has checked `RanInv` on `MCHost`.

Folds over sequences (the lines
that are read, the packets of the ring) are recursive functions in the library; that
they exist, and that what holds of the start and is kept at each place holds of the
result, is proved first (`FoldExists`, `FoldStays`).

Only model-checked: liveness (`Terminates`, `Settles`, `LinkEnds`, `Progress`,
`HandshakesEnd`, `FecEnds`, `CommandsRun`, and that requests are done and answered in
`ImplementsHostLink`), which with fairness is out of the prover's reach; the refinement
`ImplementsLink` of `Ax25`, and its `NeverRejected` and `SavedIsAhead`, which hold with one
call and patient timers only, so that a proof has to know how old a frame in flight can
be; and `PacketsInOrder` of `Host`, about the bytes of the KISS ring.

## Where the code does something else

What comments, headers and documents say and the models show not to hold. The
properties of the passing runs are stated, or their bounds chosen, so that these cases
are excluded by name; where a run shows one as a violation it is named here, and in
`PROJECT.json`, "findings".

Server:
- `dict_get` never uses `defval`: a lookup never returns NULL (dict.cpp:347, against
  dict.h:89). `dict_get_blob` returns the address of a parameter (dict.cpp:202) and
  does not compare the key (363); growth does not copy blobs (286).
- `dict_del` breaks the probe chain of keys that collided with the deleted one
  (dict.cpp:387), and decrements `used` for absent keys (393), after which a call may
  spin; it returns 0 for an absent key (dict.h:107 promises -1).
- Two starts that overlap can leave two instances serving: the loser of the lock
  unlinks the winner's file (daemon.cpp:53). An instance without `station.callsign`
  gives up its pidfile and goes on (modem_ardop.cpp:213).
- `Client::Client` does not set callsign: what the memory held before takes another
  client out of the table (irc_client.cpp:86). Two callsigns of 16 characters that
  agree in 15 are stored as one (226). NICK after USER counts as a change of
  callsign and sets no flag (m_nick.cpp:22-37), so such a client is never welcomed;
  `IRC_STATE_PASS` equals `IRC_STATE_USER`, so that PASS before USER makes USER a
  reregistration.
- `find_client` never finds a Client: `sock_read_cb` and `m_kill` use a dead
  address of the stack when it finds something. A callsign that was given up stays in
  use; after growth held callsigns are free (`clients_grown`), and
  connections are closed as unknown while their clients stay. The branch
  of `sock_read_cb` for a hangup is therefore never reached for a client.
- `sock_read_cb` keeps the length of a failed read as a positive number
  (transport_socket.cpp:62) and offers the whole buffer as free (50); `Client::Parse`
  leaves `recvbuf_lock` held when it finds ": " (irc_parser.cpp:73) and sets the offset
  to 0 although data remains (206). Nothing calls `Parse` at this commit.

ARQ:
- An ABORT while the ACK to a BREAK plays resets the session, and the handler then makes the
  station IRS without one until the ARQ timeout (ARQ.c:1846). An IRS that hears END clears
  its callsign before it would identify (1656-1664).
- The case of 1000MAX in `IRSNegotiateBW` has no `break`: called with 2000FORCED such
  a station agrees to 2000 Hz (ARQ.c:2327; `RunsOn`).
- END that answers a repeated DISC from IRS or ISS carries session id 0xFF, so the
  station that repeats DISC does not take it (ARQ.c:1633, against 1627).
- PURGEBUFFER while a frame is on its way lets its ACK remove newer data; data that
  was not acknowledged is sent again in the next session, where the repeat is taken
  for new; with two calls `tmrFinalID` of the first session puts an ID frame in the
  buffer the second repeats from, and crossing calls leave a station in DISC but
  connected. Each makes a property fail when the run's bounds let it in; what the data
  needs instead is the hypothesis `SendersGoOn` of `ArqImplementsLink`.

AX.25:
- N(R) below the window is accepted without looking whether the window wraps
  (pktSession.c:2136, against 2134): a station that calls again one that still has
  the old link loses frames. With two calls `ImplementsLink` and `Progress` fail.
- When a busy receiver has frames saved and the sender has gone back, its
  acknowledgement is rejected with FRMR and both queues are lost (2343, where the
  guard is commented out); `NeverRejected` fails with `RxLimit` 1 and three items.
- A validation poll that crosses an I frame lets the window be overrun (2381), and a
  late RR(F) makes old duplicates count as new after a wrap (1846): `SavedIsAhead`
  fails with `Validates` and three items, `ImplementsLink` when retries do not wait
  for answers (`Patient` FALSE).
- A DM to a SABM leaves the link in state 2 with its timer off (1613), until a validation
  poll starts it or the link is killed (`HandshakesEnd`). A caller refused because no host
  channel is free leaves its link allocated (942-957). `LAST_F_TIME` has 16 bits: 65 s after
  start the check of 1807 discards nothing any more. One report of several is given to the
  host and all flags are cleared (3381).

FEC and receiver:
- The retry of QAM collects two carriers whatever their number (SoundInput.c:5503):
  with more, `DeliversInOrder` fails.
- After FECMODE a transmission starts with an even frame whatever was sent last, and
  a listener takes it for a repeat (FEC.c:227; the check is commented out, 229-231).
- The ten-minute identification cuts the repeat after it short, SENDID and FECID
  replace the frame that is repeated.

Host:
- A reply that holds a byte 170 is stuffed in place while its length stays: its
  repeat is cut with a good CRC (SCSHostInterface.c:1561, against
  SerialIntefaceSpec.html:67, "resend the previous response unchanged"); packets and
  KISS frames are answered without setting the length (605).
- A repeat that comes while the call of a request 'C' plays gets the reply to the request
  before it, with the new toggle and a good CRC (539, 545, 964).
- ARQCALL and PING share `ConnectToCall`; PING, SENDID and TWOTONETEST are checked in
  DISC and done later in any state; FECSEND in a session ends it silently.
- Numbers out of a word: `DATATOSEND X` clears the queue, `DRIVELEVEL X` sets 0.
- "DD" and "CL" are shorter than the four bytes a command needs and wait for the next
  (TCPHostInterface.c:328); what a cut connection left in the buffer is put before
  what the next one sends; closing the packet port disconnects the session of the
  control port's host.
- A FEND shared by two KISS frames loses one; frames of a session that come into the
  middle of a host's frame, and a connection that delivers a frame in parts
  (KISSModule.c:156, "pretty safe with TCP (I hope!)"), spoil both.

## Not modelled

Server: `dict_free`, enumeration, dump, merge and the typed getters; running out of
memory; texts of replies and logs; the receive buffer (never parsed at this commit);
channels (members are only added, and no message is sent); configuration, rigs,
heartbeat and statistics files (read or written once by one thread); stubs.

Modem: signal processing (what is decoded, whether the channel is busy, are choices
of the environment); Reed-Solomon (its sizes are out of TLC's reach, and a block is
decoded or not); PING and its answer beyond that they are sent where asked; the PTC
and DED modes and packet channels of the serial protocol; XID, SABME, TEST and UI
frames; frames to the host over KISS, which nothing calls; J, which leaves host mode
without an answer; rigs over TCP.

## Plan

Done: the dictionary, the pidfile, the clients, ARQ, FEC, AX.25 and the host side of
the modem; proofs about all of them. Next:

1. Proofs: `SavedIsAhead` and `NeverRejected` of `Ax25` for one call; `PacketsInOrder` of
   `Host`.
2. PING and the monitoring of third stations in `Arq`.
3. The packet channels of the serial protocol over `Ax25Link`.
4. Channels and the receive buffer of the server, once something calls `Parse`.
