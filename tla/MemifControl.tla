---------------------------- MODULE MemifControl ----------------------------
(***************************************************************************)
(* The memif control channel: how a client (memif slave) and the server    *)
(* (memif master) agree on shared memory over a unix socket, and how they  *)
(* part.                                                                   *)
(*                                                                         *)
(* The slave connects; the master greets every accepted socket with HELLO  *)
(* and keeps it on a list of pending sockets.  The slave creates regions   *)
(* and rings and queues INIT, ADD_REGION, ADD_RING and CONNECT, of which   *)
(* it sends one per ACK.  INIT binds the socket to an interface, CONNECT   *)
(* makes the master map the memory and answer CONNECTED.                   *)
(*                                                                         *)
(* Each side has one epoll thread; an action is one call of                *)
(* memif_control_fd_handler, which reads one message and, while the        *)
(* descriptor is also watched for writing, sends one.  Sockets, and what   *)
(* is left on them when one end is closed, are the kernel's.  A send to a  *)
(* closed end is lost: SIGPIPE is taken to be ignored, as systemd does for *)
(* the services it runs.                                                   *)
(*                                                                         *)
(* Two calls block the thread that makes them: recvmsg on a pending socket *)
(* (the handler reads it whatever event it has) and connect while the      *)
(* listen queue is full.                                                   *)
(***************************************************************************)
EXTENDS Naturals, Sequences, FiniteSets

CONSTANTS
  Clients,       \* connections of clients
  ProcOf(_),     \* client process of a connection
  Ids,           \* interface ids
  Served,        \* ids the server creates interfaces for
  IdOf(_),       \* id of a client's connection
  Socks,         \* sockets
  Pick(_),       \* the free ones of which connect may take any
  None,
  NumRegions,    \* 2: rings and buffers
  NumRings,      \* rings in each direction
  Backlog,       \* connections the kernel holds for accept
  MaxDepartures  \* bound on the times a process or connection leaves

ASSUME ControlAssumption ==
  /\ Served \subseteq Ids /\ \A c \in Clients : IdOf(c) \in Ids
  /\ None \notin Socks \union Clients
  /\ \A S \in SUBSET Socks : Pick(S) \subseteq S
  /\ NumRegions \in Nat \ {0} /\ NumRings \in Nat \ {0}
  /\ Backlog \in Nat \ {0} /\ MaxDepartures \in Nat

VARIABLES
  sock,      \* sockets: who holds the ends, messages under way
  ifaces,    \* interfaces the server has created; it listens if there are any
  master,    \* the server's connection of each interface
  reading,   \* pending socket the server's thread is blocked on
  created,   \* clients whose connection exists
  slave,     \* the connection of each client
  ticking,   \* connections the timer handler of a process has still to try
  departures

clientVars == <<created, slave, ticking>>
vars == <<sock, ifaces, master, reading, clientVars, departures>>

Procs == {ProcOf(c) : c \in Clients}

Regions == 0 .. (NumRegions - 1)
Dirs == {"s2m", "m2s"}

Msg(t) == [t |-> t]
\* Not messages: what recvmsg reports once the other end is closed.
Eof == Msg("EOF")
Reset == Msg("RESET")
Init_(id) == [t |-> "INIT", id |-> id]
AddRegion(i, mem) == [t |-> "ADD_REGION", index |-> i, mem |-> mem]
AddRing(dir) == [t |-> "ADD_RING", dir |-> dir]

Msgs ==
  {Msg(t) : t \in {"HELLO", "ACK", "CONNECT", "CONNECTED", "DISCONNECT",
                   "EOF", "RESET"}}
    \union {Init_(id) : id \in Ids}
    \union {AddRegion(i, k) : i \in Regions, k \in Socks}
    \union {AddRing(d) : d \in Dirs}

\* memif_connection_t.  The memory a slave creates after HELLO is named by
\* the socket it is offered on.
Fresh ==
  [fd |-> None, queue |-> <<>>, write |-> FALSE, up |-> FALSE,
   regionsNum |-> 0, region |-> [i \in Regions |-> None],
   rings |-> [d \in Dirs |-> 0]]

FreeSock == [client |-> None, server |-> "closed", toM |-> <<>>, toC |-> <<>>]

-----------------------------------------------------------------------------
\* Sockets.

\* Messages to an end that is closed are lost.
SendToC(s, k, msgs) ==
  IF s[k].client = None THEN s ELSE [s EXCEPT ![k].toC = @ \o msgs]

SendToM(s, k, msgs) ==
  IF s[k].server = "closed" THEN s ELSE [s EXCEPT ![k].toM = @ \o msgs]

\* An end closed with messages unread resets the connection: the other end
\* gets an error before the messages that are still on the way to it.
Remains(unread, queued) ==
  (IF unread # <<>> THEN <<Reset>> ELSE <<>>) \o queued \o <<Eof>>

CloseC(s, k) ==
  IF s[k].server = "closed"
  THEN [s EXCEPT ![k] = FreeSock]
  ELSE [s EXCEPT ![k] = [client |-> None, server |-> @.server,
                         toM |-> Remains(@.toC, @.toM), toC |-> <<>>]]

ClosedM(r) ==
  IF r.client = None
  THEN FreeSock
  ELSE [client |-> r.client, server |-> "closed", toM |-> <<>>,
        toC |-> IF r.server = "backlog" THEN <<Reset, Eof>>
                                        ELSE Remains(r.toM, r.toC)]

CloseM(s, k) == [s EXCEPT ![k] = ClosedM(@)]

\* recvmsg at either end.
PopM(s, k) == [s EXCEPT ![k].toM = Tail(@)]
PopC(s, k) == [s EXCEPT ![k].toC = Tail(@)]

-----------------------------------------------------------------------------
\* What the two sides do with a connection.

Leaving == {Msg("DISCONNECT"), Eof, Reset}

Enqueue(conn, msgs) == [conn EXCEPT !.queue = @ \o msgs, !.write = TRUE]

\* memif_conn_fd_write_ready: the messages it sends (one at most) and the
\* connection it leaves.
CanWrite(conn) == conn.write /\ conn.queue # <<>>

Written(conn) == IF CanWrite(conn) THEN <<Head(conn.queue)>> ELSE <<>>

AfterWrite(conn) ==
  IF CanWrite(conn)
  THEN [conn EXCEPT !.queue = Tail(@), !.write = FALSE]
  ELSE conn

\* Mutant: the regions are not counted from zero again.
DisconnectedKeepsRegions(conn) ==
  [Fresh EXCEPT !.write = conn.write, !.regionsNum = conn.regionsNum]

\* Mutant: the descriptor is closed but not forgotten.
DisconnectedKeepsFd(conn) == [Fresh EXCEPT !.write = conn.write, !.fd = conn.fd]

\* memif_disconnect_internal after its callback, the DISCONNECT message and
\* the close: everything but the write flag is reset.
Disconnected(conn) == [Fresh EXCEPT !.write = conn.write]

\* Region and ring messages, as the master stores them.
WithRegion(conn, m) ==
  [conn EXCEPT !.regionsNum = @ + 1, !.region[m.index] = m.mem]

WithRing(conn, m) == [conn EXCEPT !.rings[m.dir] = @ + 1]

\* memif_connect1: from here on the descriptor is watched for reading only.
Connect1(conn) == [conn EXCEPT !.up = TRUE]

\* CONNECT at the master and CONNECTED at the slave map the memory and call
\* on_connect.
ReceiveConnect(conn) == Enqueue(Connect1(conn), <<Msg("CONNECTED")>>)
ReceiveConnected(conn) == Enqueue(Connect1(conn), <<>>)

\* memif_msg_receive at the master, for messages on a control descriptor.
MasterTakes(conn, m) ==
  CASE m.t = "ADD_REGION" -> Enqueue(WithRegion(conn, m), <<Msg("ACK")>>)
    [] m.t = "ADD_RING"   -> Enqueue(WithRing(conn, m), <<Msg("ACK")>>)
    [] m.t = "CONNECT"    -> ReceiveConnect(conn)

\* What a slave queues when it gets HELLO.
Offer(id, k) ==
  <<Init_(id)>>
    \o [i \in 1 .. NumRegions |-> AddRegion(i - 1, k)]
    \o [i \in 1 .. NumRings |-> AddRing("s2m")]
    \o [i \in 1 .. NumRings |-> AddRing("m2s")]
    \o <<Msg("CONNECT")>>

\* memif_init_regions_and_queues.
WithMemory(conn, k) ==
  [conn EXCEPT !.regionsNum = NumRegions,
               !.region = [i \in Regions |-> k],
               !.rings = [d \in Dirs |-> NumRings]]

SlaveTakes(c, conn, m) ==
  CASE m.t = "HELLO" -> Enqueue(WithMemory(conn, conn.fd),
                                Offer(IdOf(c), conn.fd))
    [] m.t = "ACK"       -> Enqueue(conn, <<>>)
    [] m.t = "CONNECTED" -> ReceiveConnected(conn)

-----------------------------------------------------------------------------
Init ==
  /\ sock = [k \in Socks |-> FreeSock]
  /\ ifaces = {}
  /\ master = [id \in Ids |-> Fresh]
  /\ reading = None
  /\ created = {}
  /\ slave = [c \in Clients |-> Fresh]
  /\ ticking = [p \in Procs |-> {}]
  /\ departures = 0

\* The server process ends; the kernel closes its descriptors.
ServerDown(s) ==
  /\ sock' = [k \in Socks |-> IF s[k].server = "closed" THEN s[k]
                                                        ELSE ClosedM(s[k])]
  /\ ifaces' = {}
  /\ master' = [id \in Ids |-> Fresh]
  /\ reading' = None

\* memif_create of the server; the first one starts listening.
CreateMaster(id) ==
  /\ id \in Served \ ifaces
  /\ ifaces' = ifaces \union {id}
  /\ UNCHANGED <<sock, master, reading, clientVars, departures>>

\* memif_conn_fd_accept_ready.
Accept(k) ==
  /\ ifaces # {} /\ reading = None
  /\ sock[k].server = "backlog"
  /\ sock' = SendToC([sock EXCEPT ![k].server = "pending"], k, <<Msg("HELLO")>>)
  /\ UNCHANGED <<ifaces, master, reading, clientVars, departures>>

\* The handler reads a pending socket also when it is only writable, and
\* waits for a message then.
PendingWait(k) ==
  /\ reading = None
  /\ sock[k].server = "pending"
  /\ sock[k].toM = <<>>
  /\ reading' = k
  /\ UNCHANGED <<sock, ifaces, master, clientVars, departures>>

\* Mutant: an interface that is connected is not protected.
RefusedUnknown(id) == id \notin ifaces

\* memif_msg_receive_init refuses an id that does not exist or is taken.
Refused(id) == id \notin ifaces \/ master[id].fd # None

\* The next read of pending socket k returns a message of type t.
Pending(k, t) ==
  /\ sock[k].server = "pending"
  /\ reading \in {None, k} /\ reading' = None
  /\ sock[k].toM # <<>>
  /\ Head(sock[k].toM).t = t

\* The pending socket becomes the control channel of its interface.
PendingInit(k) ==
  /\ Pending(k, "INIT")
  /\ LET id == Head(sock[k].toM).id
     IN  /\ ~Refused(id)
         /\ master' = [master EXCEPT
              ![id] = Enqueue([@ EXCEPT !.fd = k], <<Msg("ACK")>>)]
  /\ sock' = [PopM(sock, k) EXCEPT ![k].server = "control"]
  /\ UNCHANGED <<ifaces, clientVars, departures>>

\* Mutant: the refusal is only logged.
PendingRefuseSilently(k) ==
  /\ Pending(k, "INIT")
  /\ Refused(Head(sock[k].toM).id)
  /\ sock' = PopM(sock, k)
  /\ UNCHANGED <<ifaces, master, clientVars, departures>>

PendingRefuse(k) ==
  /\ Pending(k, "INIT")
  /\ Refused(Head(sock[k].toM).id)
  /\ sock' = CloseM(SendToC(PopM(sock, k), k, <<Msg("DISCONNECT")>>), k)
  /\ UNCHANGED <<ifaces, master, clientVars, departures>>

\* An error on a pending socket is only logged, the socket stays on the list
\* (at the end of the stream, for good).
PendingError(k) ==
  /\ \/ Pending(k, "RESET") /\ sock' = PopM(sock, k)
     \/ reading = k /\ Pending(k, "EOF") /\ UNCHANGED sock
  /\ UNCHANGED <<ifaces, master, clientVars, departures>>

\* DISCONNECT on a pending socket: memif_msg_receive_disconnect is called
\* with no connection and writes through a null pointer.
PendingFault(k) ==
  /\ Pending(k, "DISCONNECT")
  /\ ServerDown(PopM(sock, k))
  /\ UNCHANGED <<clientVars, departures>>

\* The next message of an interface's control channel, if there is one.
MasterIn(id) ==
  IF master[id].fd = None THEN <<>> ELSE sock[master[id].fd].toM

\* A descriptor is watched for writing until the connection is up.
WatchedForWrite(conn) == ~conn.up

MasterReceive(id) ==
  /\ reading = None /\ MasterIn(id) # <<>>
  /\ Head(MasterIn(id)) \notin Leaving
  /\ LET k == master[id].fd
         taken == MasterTakes(master[id], Head(MasterIn(id)))
         writes == WatchedForWrite(master[id])
     IN  /\ master' = [master EXCEPT
              ![id] = IF writes THEN AfterWrite(taken) ELSE taken]
         /\ sock' = SendToC(PopM(sock, k), k,
                            IF writes THEN Written(taken) ELSE <<>>)
  /\ UNCHANGED <<ifaces, reading, clientVars, departures>>

\* Only the write event: the ACK of INIT, queued by the pending handler.
MasterWrite(id) ==
  /\ reading = None /\ master[id].fd # None
  /\ MasterIn(id) = <<>>
  /\ WatchedForWrite(master[id]) /\ CanWrite(master[id])
  /\ master' = [master EXCEPT ![id] = AfterWrite(@)]
  /\ sock' = SendToC(sock, master[id].fd, Written(master[id]))
  /\ UNCHANGED <<ifaces, reading, clientVars, departures>>

\* memif_conn_fd_read_ready disconnects and returns the result of that, which
\* is success, so the handler goes on with the other events of the
\* descriptor; but memif_disconnect_internal has cleared the list element the
\* handler takes the connection from.
OtherEvents(conn, m) == WatchedForWrite(conn) \/ m = Reset

\* Mutant: the end of the stream is not taken for a disconnection.
MasterDisconnectByMessage(id) ==
  /\ reading = None /\ MasterIn(id) # <<>>
  /\ Head(MasterIn(id)) = Msg("DISCONNECT")
  /\ ~OtherEvents(master[id], Head(MasterIn(id)))
  /\ LET k == master[id].fd
     IN  sock' = CloseM(SendToC(PopM(sock, k), k, <<Msg("DISCONNECT")>>), k)
  /\ master' = [master EXCEPT ![id] = Disconnected(@)]
  /\ UNCHANGED <<ifaces, reading, clientVars, departures>>

MasterDisconnect(id) ==
  /\ reading = None /\ MasterIn(id) # <<>>
  /\ Head(MasterIn(id)) \in Leaving
  /\ ~OtherEvents(master[id], Head(MasterIn(id)))
  /\ LET k == master[id].fd
     IN  sock' = CloseM(SendToC(PopM(sock, k), k, <<Msg("DISCONNECT")>>), k)
  /\ master' = [master EXCEPT ![id] = Disconnected(@)]
  /\ UNCHANGED <<ifaces, reading, clientVars, departures>>

MasterFault(id) ==
  /\ reading = None /\ MasterIn(id) # <<>>
  /\ Head(MasterIn(id)) \in Leaving
  /\ OtherEvents(master[id], Head(MasterIn(id)))
  /\ ServerDown(sock)
  /\ UNCHANGED <<clientVars, departures>>

-----------------------------------------------------------------------------
InBacklog == {k \in Socks : sock[k].server = "backlog"}

\* memif_request_connection: connect succeeds if the server listens, fails if
\* it does not, and waits while the backlog is full.
Connect(c, k) ==
  /\ ifaces # {}
  /\ Cardinality(InBacklog) < Backlog
  /\ k \in Pick({f \in Socks : sock[f] = FreeSock})
  /\ sock' = [sock EXCEPT ![k].client = c, ![k].server = "backlog"]
  /\ slave' = [slave EXCEPT ![c].fd = k]

RequestConnection(c) ==
  \/ \E k \in Socks : Connect(c, k)
  \/ ifaces = {} /\ UNCHANGED <<sock, slave>>

\* memif_create of a client tries to connect, and leaves the rest to the
\* timer if that fails.
CreateSlave(c) ==
  /\ c \notin created
  /\ created' = created \union {c}
  /\ RequestConnection(c)
  /\ UNCHANGED <<ifaces, master, reading, ticking, departures>>

\* The timer, taken to be armed while a connection is down (ReconnectTimer has
\* the counter it depends on).  The handler requests one connection after the
\* other, in any order here.
Down(p) == {c \in created : ProcOf(c) = p /\ slave[c].fd = None}

Timer(p) ==
  /\ ticking[p] = {} /\ Down(p) # {}
  /\ ticking' = [ticking EXCEPT ![p] = Down(p)]
  /\ UNCHANGED <<sock, ifaces, master, reading, created, slave, departures>>

TimerRequest(c) ==
  /\ c \in ticking[ProcOf(c)]
  /\ ticking' = [ticking EXCEPT ![ProcOf(c)] = @ \ {c}]
  /\ RequestConnection(c)
  /\ UNCHANGED <<ifaces, master, reading, created, departures>>

\* What the epoll thread of the client's process can read.
SlaveIn(c) ==
  IF slave[c].fd = None \/ ticking[ProcOf(c)] # {} THEN <<>>
                                                  ELSE sock[slave[c].fd].toC

SlaveReceive(c) ==
  /\ SlaveIn(c) # <<>>
  /\ Head(SlaveIn(c)) \notin Leaving
  /\ LET k == slave[c].fd
         taken == SlaveTakes(c, slave[c], Head(SlaveIn(c)))
         writes == WatchedForWrite(slave[c])
     IN  /\ slave' = [slave EXCEPT
              ![c] = IF writes THEN AfterWrite(taken) ELSE taken]
         /\ sock' = SendToM(PopC(sock, k), k,
                            IF writes THEN Written(taken) ELSE <<>>)
  /\ UNCHANGED <<ifaces, master, reading, created, ticking, departures>>

\* The slave keeps its list element when it disconnects, so that the events
\* that follow find a connection with nothing to send.
SlaveDisconnect(c) ==
  /\ SlaveIn(c) # <<>>
  /\ Head(SlaveIn(c)) \in Leaving
  /\ LET k == slave[c].fd
     IN  sock' = CloseC(SendToM(PopC(sock, k), k, <<Msg("DISCONNECT")>>), k)
  /\ slave' = [slave EXCEPT ![c] = Disconnected(@)]
  /\ UNCHANGED <<ifaces, master, reading, created, ticking, departures>>

\* memif_delete, outside of the timer's handling of the same connection.
DeleteSlave(c) ==
  /\ c \in created /\ c \notin ticking[ProcOf(c)]
  /\ departures < MaxDepartures /\ departures' = departures + 1
  /\ created' = created \ {c}
  /\ slave' = [slave EXCEPT ![c] = Fresh]
  /\ IF slave[c].fd = None
     THEN UNCHANGED sock
     ELSE sock' = CloseC(SendToM(sock, slave[c].fd, <<Msg("DISCONNECT")>>),
                         slave[c].fd)
  /\ UNCHANGED <<ifaces, master, reading, ticking>>

-----------------------------------------------------------------------------
\* Processes that die.

ClientCrash(p) ==
  LET own == {c \in Clients : ProcOf(c) = p}
      open == {k \in Socks : sock[k].client \in own}
  IN
  /\ created \intersect own # {}
  /\ departures < MaxDepartures /\ departures' = departures + 1
  /\ created' = created \ own
  /\ slave' = [c \in Clients |-> IF c \in own THEN Fresh ELSE slave[c]]
  /\ ticking' = [ticking EXCEPT ![p] = {}]
  /\ sock' = [k \in Socks |-> IF k \in open THEN CloseC(sock, k)[k] ELSE sock[k]]
  /\ UNCHANGED <<ifaces, master, reading>>

ServerCrash ==
  /\ ifaces # {}
  /\ departures < MaxDepartures /\ departures' = departures + 1
  /\ ServerDown(sock)
  /\ UNCHANGED clientVars

PendingStep(k) ==
  \/ Accept(k) \/ PendingWait(k) \/ PendingInit(k) \/ PendingRefuse(k)
  \/ PendingError(k) \/ PendingFault(k)

MasterStep(id) ==
  \/ MasterReceive(id) \/ MasterWrite(id)
  \/ MasterDisconnect(id) \/ MasterFault(id)

SlaveStep(c) == SlaveReceive(c) \/ SlaveDisconnect(c)

Next ==
  \/ \E id \in Ids : CreateMaster(id) \/ MasterStep(id)
  \/ \E k \in Socks : PendingStep(k)
  \/ \E c \in Clients : CreateSlave(c) \/ TimerRequest(c) \/ SlaveStep(c)
  \/ \E c \in Clients : DeleteSlave(c)
  \/ \E p \in Procs : Timer(p) \/ ClientCrash(p)
  \/ ServerCrash

Spec == Init /\ [][Next]_vars

\* An epoll thread is given its ready descriptors in turn (they stay ready
\* until they are handled), so that one is handled although others come up
\* and block the thread for a while; the timer is periodic, and the service
\* manager starts a server that has died again.  Nobody has to create or
\* leave.
Fairness ==
  /\ \A id \in Ids : WF_vars(CreateMaster(id)) /\ SF_vars(MasterStep(id))
  /\ \A k \in Socks : WF_vars(PendingStep(k))
  /\ \A c \in Clients : WF_vars(TimerRequest(c)) /\ WF_vars(SlaveStep(c))
  /\ \A p \in Procs : WF_vars(Timer(p))

FairSpec == Spec /\ Fairness

-----------------------------------------------------------------------------
ConnType ==
  [fd : Socks \union {None}, queue : Seq(Msgs), write : BOOLEAN, up : BOOLEAN,
   regionsNum : Nat, region : [Regions -> Socks \union {None}],
   rings : [Dirs -> Nat]]

SockType ==
  [client : Clients \union {None},
   server : {"closed", "backlog", "pending", "control"},
   toM : Seq(Msgs), toC : Seq(Msgs)]

TypeOK ==
  /\ sock \in [Socks -> SockType]
  /\ ifaces \subseteq Served
  /\ master \in [Ids -> ConnType]
  /\ reading \in Socks \union {None}
  /\ created \subseteq Clients
  /\ ticking \in [Procs -> SUBSET Clients]
  /\ slave \in [Clients -> ConnType]
  /\ departures \in 0 .. MaxDepartures

\* All regions and rings of a connection that is up are those of socket k.
Mapped(conn, k) ==
  /\ conn.regionsNum = NumRegions /\ \A i \in Regions : conn.region[i] = k
  /\ \A d \in Dirs : conn.rings[d] = NumRings

\* A connection that on_connect has reported has exactly the regions and rings
\* of the current socket (nothing is left of an earlier connection), and a
\* slave that was told it is connected has a master that mapped its memory
\* before, unless the server has closed the socket since.
MemoryAgreed ==
  /\ \A id \in Ids : master[id].up => Mapped(master[id], master[id].fd)
  /\ \A c \in Clients : slave[c].up =>
       /\ Mapped(slave[c], slave[c].fd)
       /\ sock[slave[c].fd].server # "closed" =>
            /\ master[IdOf(c)].up
            /\ master[IdOf(c)].fd = slave[c].fd

\* A descriptor in the control list belongs to one interface, and to one that
\* exists: no handler finds the connection of another interface, or none, and
\* no interface stays bound to a descriptor that is closed.
DescriptorsOwned ==
  /\ \A k \in Socks : sock[k].server = "control" =>
       \E id \in ifaces : master[id].fd = k
  /\ \A id \in Ids : master[id].fd # None =>
       /\ id \in ifaces /\ sock[master[id].fd].server = "control"
       /\ \A j \in Ids \ {id} : master[j].fd # master[id].fd

\* The client whose memory an interface that is up has mapped.
Gone == "gone"

ASSUME GrantAssumption == Gone \notin Clients \union {None}

HolderOf(id) ==
  IF ~master[id].up THEN None
  ELSE IF sock[master[id].fd].client = None THEN Gone
  ELSE sock[master[id].fd].client

UsingClients ==
  {c \in Clients : slave[c].up /\ sock[slave[c].fd].server # "closed"}

\* The handshake implements the exclusive grant of interfaces: a client is
\* told CONNECTED only while its interface is bound to it, and INIT of
\* another client is refused until memif_disconnect_internal has run.
Grant == INSTANCE ChannelGrant WITH holder <- [id \in Ids |-> HolderOf(id)],
                                    using <- UsingClients

ImplementsGrant == Grant!GrantSpec

\* The server's thread reads a pending socket of a process whose thread is in
\* its timer handler and waits there for room in the full listen queue, which
\* only the server's thread could make.
WaitCycle ==
  /\ reading # None /\ sock[reading].toM = <<>> /\ sock[reading].client # None
  /\ ticking[ProcOf(sock[reading].client)] # {}
  /\ Cardinality(InBacklog) >= Backlog

\* Once processes stop leaving, a client that is the only one left to want its
\* interface gets it, whatever the state earlier departures left behind: an
\* interface still bound to a dead client, sockets pending for ever, a server
\* that has to come back, interfaces not created yet when INIT arrives.  The
\* one thing that can prevent it is that the server and a process with two
\* connections wait for each other.
EventuallyConnected ==
  \A c \in Clients :
    []<>(\/ c \notin created \/ slave[c].up
         \/ \E d \in created \ {c} : IdOf(d) = IdOf(c)
         \/ WaitCycle)

\* Control channels of clients that have gone are given up, so that the
\* interface can be connected again.
EventuallyReleased ==
  \A id \in Ids :
    []<>(master[id].fd # None => sock[master[id].fd].client # None)
=============================================================================
