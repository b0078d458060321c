------------------------------- MODULE Clients -------------------------------
(***************************************************************************)
(* The IRC clients of the server: their life from accept to delete, the    *)
(* tables Clients_by_fd and Clients_by_callsign, and the registration      *)
(* commands (src/irc_client.cpp, m_nick, m_user, m_pass, m_quit, m_kill,   *)
(* and the checks of Client::Parse before a handler runs).                 *)
(*                                                                         *)
(* The server has one thread: an action is one callback of the event loop, *)
(* or one command that Client::Parse dispatches.  Malformed commands and   *)
(* invalid callsigns are refused without a change of state and left out.   *)
(* At this commit nothing calls Client::Parse (main.cpp:38), so the        *)
(* commands are what a caller of it could have the handlers do, for any    *)
(* client that is allocated.                                               *)
(*                                                                         *)
(* The tables are those of ClientTable.  What find_client finds is never a *)
(* client: it is NULL or a dead address of the stack.  sock_read_cb and    *)
(* m_kill go on to use it, which ends what can be said of the server (up); *)
(* m_nick only asks whether it is NULL.                                    *)
(*                                                                         *)
(* A Client is a heap object: no constructor sets callsign or pass, so a   *)
(* new client finds there zeroes or what the memory held before            *)
(* (Leftovers); nothing ever sets is_oper, so any client may turn out to   *)
(* be an operator.  Of a freed client only the callsign is remembered.  A  *)
(* handler that deletes its own client returns into Client::Parse, which   *)
(* uses the freed object: the server dies of it or not.                    *)
(***************************************************************************)
EXTENDS ClientTable

CONSTANTS
  Obj,        \* the addresses `new Client` returns
  Fd,         \* the descriptors accept may return (0 is never among them: the
              \* log or a listener has it when stdin is closed)
  Name,       \* the valid callsigns users type
  Stored(_),  \* what snprintf(callsign, CALLSIGN_LEN, ...) keeps of a name
  MaxFdFill,  \* bounds: additions to Clients_by_fd and Clients_by_callsign, of
  MaxFill     \* one size each, before callers stop

Calls == Name \cup {Stored(n) : n \in Name}

ASSUME ClientsAssumption == NULL \notin Obj \cup Calls \cup Fd

\* dict_lookup visits every slot, and two slots are never visited at once.
ASSUME ProbeAssumption ==
  \A k \in Calls \cup Fd, n \in Sizes : \A s, t \in 0 .. n-1 :
    /\ Rank(k, n, s) \in Nat
    /\ Rank(k, n, s) = Rank(k, n, t) => s = t

IRC_STATE_NICK == 4   \* 0x0004
IRC_STATE_USER == 16  \* 0x0010
IRC_STATE_PASS == 16  \* 0x0010

VARIABLES
  alive,       \* the clients that are allocated
  mem,         \* the contents of every Client object, freed ones too
  byFd,        \* Clients_by_fd
  byCallsign,  \* Clients_by_callsign
  open,        \* the descriptors of connections
  curr, max,   \* stats.curr_clients, stats.max_clients
  welcomed,    \* the clients that were sent the numerics from 001 on
  up           \* the server has used neither a dead address nor, to its death,
               \* a freed client

vars == <<alive, mem, byFd, byCallsign, open, curr, max, welcomed, up>>

Client ==
  [fd : Fd \cup {NULL}, callsign : Calls \cup {NULL},
   conn_state : SUBSET {IRC_STATE_NICK, IRC_STATE_USER, IRC_STATE_PASS},
   pass : BOOLEAN]

Zeroed == [fd |-> NULL, callsign |-> NULL, conn_state |-> {}, pass |-> FALSE]

Init ==
  /\ alive = {} /\ mem = [c \in Obj |-> Zeroed]
  /\ byFd = NewDict /\ byCallsign = NewDict
  /\ open = {} /\ curr = 0 /\ max = 0
  /\ welcomed = {} /\ up = TRUE

\* No call of the dictionary hangs: a handler in which one does never ends, so
\* what it would do afterwards does not matter.
Running == up /\ ~byFd.hung /\ ~byCallsign.hung

\* IRC_IsActive
Active(c) == mem[c].conn_state \cap {IRC_STATE_NICK, IRC_STATE_USER} # {}

-----------------------------------------------------------------------------
(* Life and death.                                                         *)

\* What may be in the fields of a new client that its constructor leaves.
Leftovers(c) ==
  [fd : {NULL}, callsign : {NULL, mem[c].callsign}, conn_state : {{}}, pass : BOOLEAN]

\* sock_pending_cb accepts f and creates the client, of memory that holds m.
Accept(c, f, m) ==
  /\ Running /\ c \notin alive /\ f \notin open /\ byFd.fill < MaxFdFill
  /\ alive' = alive \cup {c}
  /\ open' = open \cup {f}
  /\ mem' = [mem EXCEPT ![c] = [m EXCEPT !.fd = f, !.conn_state = {}]]
  /\ byFd' = AddBlob(byFd, f)
  /\ curr' = curr + 1
  /\ max' = IF curr + 1 > max THEN curr + 1 ELSE max
  /\ UNCHANGED <<byCallsign, welcomed, up>>

\* The callsign table without the callsign in the memory of c, if there is one.
Dropped(c) ==
  IF mem[c].callsign = NULL THEN byCallsign ELSE Del(byCallsign, mem[c].callsign)

\* Mutants of Delete: a client is counted out twice, by ~Client and by who
\* deletes it, or not at all.
DeleteCountedTwice(c) ==
  /\ alive' = alive \ {c}
  /\ mem' = [mem EXCEPT ![c] = [Zeroed EXCEPT !.callsign = mem[c].callsign]]
  /\ open' = open \ {mem[c].fd}
  /\ byFd' = Del(byFd, mem[c].fd)
  /\ byCallsign' = Dropped(c)
  /\ curr' = curr - 2
  /\ welcomed' = welcomed \ {c}
  /\ UNCHANGED max

DeleteUncounted(c) ==
  /\ alive' = alive \ {c}
  /\ mem' = [mem EXCEPT ![c] = [Zeroed EXCEPT !.callsign = mem[c].callsign]]
  /\ open' = open \ {mem[c].fd}
  /\ byFd' = Del(byFd, mem[c].fd)
  /\ byCallsign' = Dropped(c)
  /\ welcomed' = welcomed \ {c}
  /\ UNCHANGED <<curr, max>>

\* Client::~Client.  The second close of the descriptor, by ~Socket, finds
\* it closed: nothing else opens one in between.
Delete(c) ==
  /\ alive' = alive \ {c}
  /\ mem' = [mem EXCEPT ![c] = [Zeroed EXCEPT !.callsign = mem[c].callsign]]
  /\ open' = open \ {mem[c].fd}
  /\ byFd' = Del(byFd, mem[c].fd)
  /\ byCallsign' = Dropped(c)
  /\ curr' = curr - 1
  /\ welcomed' = welcomed \ {c}
  /\ UNCHANGED max

\* sock_read_cb, called for data or a hangup on f.  When it finds nothing it
\* closes the connection and forgets the client, which stays allocated and
\* counted; else it reads cli_type, sock and recvbuf_lock from the stack and
\* aborts, or writes where sock points.
SockRead(f) ==
  /\ Running /\ f \in open
  /\ IF Returns(byFd, f) /\ Find(byFd, f) = NULL
     THEN open' = open \ {f} /\ UNCHANGED up
     ELSE up' = FALSE /\ UNCHANGED open
  /\ UNCHANGED <<alive, mem, byFd, byCallsign, curr, max, welcomed>>

-----------------------------------------------------------------------------
(* Commands.                                                               *)

Commands(c) == Running /\ c \in alive

\* Client::SetCallsign
SetCallsign(c, n) == byCallsign' = AddBlob(Dropped(c), Stored(n))

\* Client::send_connect_numerics, for a client whose memory is then m: any
\* password is wrong.
Numerics(c, m) ==
  IF m.pass
  THEN Delete(c) /\ up' \in BOOLEAN
  ELSE /\ welcomed' = welcomed \cup {c}
       /\ mem' = [mem EXCEPT ![c] = m]
       /\ UNCHANGED <<alive, byFd, byCallsign, open, curr, max, up>>

\* m_nick of a callsign for which find_client finds nothing.  Either flag
\* means a change of callsign, which sets no flag; so a client is never an
\* active user already when its first NICK sets the flag, and the call of
\* send_connect_numerics there is never reached.  (A NICK whose lookup never
\* returns takes no step: nothing happens after it.)
Nick(c, n) ==
  /\ Commands(c) /\ byCallsign.fill < MaxFill
  /\ Returns(byCallsign, n) /\ Find(byCallsign, n) = NULL
  /\ mem' = [mem EXCEPT ![c].callsign = Stored(n),
                        ![c].conn_state = IF Active(c) THEN @ ELSE @ \cup {IRC_STATE_NICK}]
  /\ SetCallsign(c, n)
  /\ UNCHANGED <<alive, byFd, open, curr, max, welcomed, up>>

\* m_user
User(c) ==
  /\ Commands(c)
  /\ IRC_STATE_USER \notin mem[c].conn_state
  /\ LET m == [mem[c] EXCEPT !.conn_state = @ \cup {IRC_STATE_USER}]
     IN IF IRC_STATE_NICK \in m.conn_state THEN Numerics(c, m)
        ELSE /\ mem' = [mem EXCEPT ![c] = m]
             /\ UNCHANGED <<alive, byFd, byCallsign, open, curr, max, welcomed, up>>

\* m_pass, a command for active users only
Pass(c) ==
  /\ Commands(c) /\ Active(c)
  /\ IRC_STATE_PASS \notin mem[c].conn_state
  /\ \E given \in BOOLEAN :
       mem' = [mem EXCEPT ![c].pass = given, ![c].conn_state = @ \cup {IRC_STATE_PASS}]
  /\ UNCHANGED <<alive, byFd, byCallsign, open, curr, max, welcomed, up>>

\* m_quit
Quit(c) ==
  /\ Commands(c)
  /\ Delete(c)
  /\ up' \in BOOLEAN

\* m_kill of a callsign for which find_client finds something: it deletes the
\* client that would be at a dead address.
Kill(c, n) ==
  /\ Commands(c) /\ Active(c)
  /\ Returns(byCallsign, n) => Find(byCallsign, n) # NULL
  /\ up' = FALSE
  /\ UNCHANGED <<alive, mem, byFd, byCallsign, open, curr, max, welcomed>>

Next ==
  \/ \E c \in Obj, f \in Fd : \E m \in Leftovers(c) : Accept(c, f, m)
  \/ \E f \in Fd : SockRead(f)
  \/ \E c \in Obj, n \in Name : Nick(c, n)
  \/ \E c \in Obj : User(c)
  \/ \E c \in Obj : Pass(c)
  \/ \E c \in Obj : Quit(c)
  \/ \E c \in Obj, n \in Name : Kill(c, n)

Spec == Init /\ [][Next]_vars

-----------------------------------------------------------------------------
(* What holds as long as a table has its first size.                       *)

\* The variables keep their types.
TypeOK ==
  /\ alive \subseteq Obj /\ welcomed \subseteq alive
  /\ mem \in [Obj -> Client]
  /\ Dicts(byFd, Fd) /\ Dicts(byCallsign, Calls)
  /\ open \subseteq Fd
  /\ curr \in Nat /\ max \in Nat
  /\ up \in BOOLEAN

\* No two clients have one callsign.
OneHolder ==
  \A c, d \in alive : c # d /\ mem[c].callsign # NULL => mem[c].callsign # mem[d].callsign

\* No two clients have one callsign until the table of callsigns grows: NICK,
\* QUIT and failed logins break its probe chains, and new clients find the
\* callsigns of old ones in their memory, but the blobs that dict_del leaves
\* behind keep every callsign that a client has from being given away.
OneHolderUntilGrowth == byCallsign.size = MinSize => OneHolder

\* sock_read_cb turns no connection away as unknown until Clients_by_fd grows,
\* in whatever order colliding descriptors were opened, closed and reused.
FoundUntilGrowth ==
  byFd.size = MinSize /\ ~byFd.hung =>
    \A f \in open : Returns(byFd, f) /\ Find(byFd, f) # NULL

\* stats.curr_clients is the number of connections.
CountsConnections == curr = Cardinality(open)

\* It is until Clients_by_fd grows, through quits and failed logins.
CountUntilGrowth == byFd.size = MinSize => CountsConnections

-----------------------------------------------------------------------------
(* What the program says of itself and does not do: these fail, as OneHolder *)
(* and CountsConnections do once a table has grown.                          *)

\* find_client(fd) locates the client of a descriptor, or nothing.
FindsItsClient ==
  \A f \in open : Find(byFd, f) \in {NULL} \cup {c \in alive : mem[c].fd = f}

\* A callsign that no client has is not registered.
FreeIsFree ==
  \A n \in Name : (\A c \in alive : mem[c].callsign # n) => Find(byCallsign, n) = NULL

\* A client that sent both NICK and USER has been welcomed.
RegisteredIsWelcomed ==
  \A c \in alive : {IRC_STATE_NICK, IRC_STATE_USER} \subseteq mem[c].conn_state => c \in welcomed
=============================================================================
