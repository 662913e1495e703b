--------------------------- MODULE ConnLifecycle ----------------------------
(***************************************************************************)
(* The life of a client's connections: conn_alloc, send, poll and          *)
(* conn_free, called by application threads, against the epoll thread of   *)
(* Memif_client that reports connections made and lost.                    *)
(*                                                                         *)
(* Two flags say that a connection is up.  "connected" belongs to          *)
(* Memif_client and is written without a lock.  _is_conn_active belongs to *)
(* the agent and is written under the connection's mutex, which send and   *)
(* poll hold from their first test to their return.  A thread that finds   *)
(* the ring full waits inside send, with the mutex; the epoll thread takes *)
(* the same mutex before the queues are freed.                             *)
(*                                                                         *)
(* Serial and MayFree name what the application does: MayFree lets it call *)
(* conn_free, and with Serial the epoll thread does nothing for a          *)
(* connection while another thread frees it.                               *)
(***************************************************************************)
EXTENDS Naturals, FiniteSets

CONSTANTS
  Conns,         \* connections of the process
  Callers,       \* application threads
  Owners,        \* the ones that call conn_alloc and conn_free
  ConnOf(_),     \* the connection a caller uses
  Epoll,         \* the thread of Memif_client::run
  None,
  MaxPolls,      \* poll_count in one call of poll
  MaxBursts,     \* bursts of jobs in the rings of a connection
  MaxCrashes,    \* how often the server goes away
  MayFree,       \* the application calls conn_free and cleanup
  Serial         \* conn_free and the epoll thread exclude each other

ASSUME LifecycleAssumption ==
  /\ Owners \subseteq Callers /\ Epoll \notin Callers /\ None \notin Callers \cup {Epoll}
  /\ \A t \in Callers : ConnOf(t) \in Conns
  /\ MaxPolls \in Nat \ {0} /\ MaxBursts \in Nat /\ MaxCrashes \in Nat

VARIABLES
  opState,    \* Memif_client::_op_state
  handle,     \* connections with a memif connection behind them
  fd,         \* connections with a control socket
  lost,       \* ... whose other end is closed
  queues,     \* connections with queues and regions mapped
  connected,  \* memif_connection_t.connected
  active,     \* _is_conn_active
  room,       \* connections with room in the request ring
  owed,       \* bursts of jobs the server has still to answer
  ready,      \* bursts of answers in the response ring
  mutex,      \* _conn_m: owner and depth of a recursive mutex
  pc,         \* where each thread is
  at,         \* connection the epoll thread is working on
  deleting,   \* threads inside memif_delete
  left,       \* poll_count: what a poll has still to do
  nobuf,      \* callers whose last burst ended with MEMIF_ERR_NOBUF
  server,     \* the server process is up
  crashes

link == <<handle, fd, lost, queues>>
flags == <<connected, active>>
rings == <<room, owed, ready>>
polls == <<left, nobuf>>
world == <<server, crashes>>
vars == <<opState, link, flags, rings, mutex, pc, at, deleting, polls, world>>

Threads == Callers \cup {Epoll}
Free == [owner |-> None, depth |-> 0]
On(x) == IF x = Epoll THEN at ELSE ConnOf(x)
Disconnecting == {"drop", "deactivate", "free", "remove"}
InQueues == {"tx", "nested", "rx", "again", "callback", "served"}

Goto(x, place) == pc' = [pc EXCEPT ![x] = place]

CanLock(x, c) == mutex[c].owner \in {None, x}

Lock(x, c) == mutex' = [mutex EXCEPT ![c] = [owner |-> x, depth |-> @.depth + 1]]

Unlock(x, c) ==
  mutex' = [mutex EXCEPT ![c] = IF @.depth = 1 THEN Free
                               ELSE [owner |-> x, depth |-> @.depth - 1]]

\* With Serial, nobody else is busy with the connection.
Alone(x, c) ==
  Serial => \A y \in Threads \ {x} : ~(On(y) = c /\ pc[y] \in Disconnecting \cup {"up", "activate"})

Init ==
  /\ opState = "RUNNING"
  /\ handle = {} /\ fd = {} /\ lost = {} /\ queues = {}
  /\ connected = {} /\ active = {} /\ room = {}
  /\ mutex = [c \in Conns |-> Free]
  /\ pc = [x \in Threads |-> "idle"]
  /\ at \in {CHOOSE c \in Conns : TRUE}
  /\ deleting = {}
  /\ owed = [c \in Conns |-> 0] /\ ready = [c \in Conns |-> 0]
  /\ left = [t \in Callers |-> 0] /\ nobuf = {}
  /\ server = TRUE /\ crashes = 0
-----------------------------------------------------------------------------
(***************************************************************************)
(* memif_disconnect_internal, run by the epoll thread or by a thread in    *)
(* memif_delete.                                                           *)
(***************************************************************************)

\* Mutant: on_disconnect tells the agent before it clears "connected".
DropLate(x) ==
  /\ pc[x] = "drop"
  /\ CanLock(x, On(x))
  /\ active' = active \ {On(x)}
  /\ connected' = connected \ {On(x)}
  /\ Goto(x, "free")
  /\ UNCHANGED <<opState, link, rings, mutex, at, deleting, polls, world>>

\* on_disconnect clears "connected", whoever holds the mutex.
Drop(x) ==
  /\ pc[x] = "drop"
  /\ connected' = connected \ {On(x)}
  /\ Goto(x, "deactivate")
  /\ UNCHANGED <<opState, link, active, rings, mutex, at, deleting, polls, world>>

\* Mutant: on_disconnected does not take the mutex.
DeactivateUnlocked(x) ==
  /\ pc[x] = "deactivate"
  /\ active' = active \ {On(x)}
  /\ Goto(x, "free")
  /\ UNCHANGED <<opState, link, connected, rings, mutex, at, deleting, polls, world>>

\* on_disconnected waits for the mutex; it is released on return.
Deactivate(x) ==
  /\ pc[x] = "deactivate"
  /\ CanLock(x, On(x))
  /\ active' = active \ {On(x)}
  /\ Goto(x, "free")
  /\ UNCHANGED <<opState, link, connected, rings, mutex, at, deleting, polls, world>>

\* The rings go with their regions, and the jobs in them.
EmptyRings(S) ==
  /\ room' = room \ S
  /\ owed' = [c \in Conns |-> IF c \in S THEN 0 ELSE owed[c]]
  /\ ready' = [c \in Conns |-> IF c \in S THEN 0 ELSE ready[c]]

\* The socket is closed, queues and regions are freed.
FreeQueues(x) ==
  /\ pc[x] = "free"
  /\ fd' = fd \ {On(x)} /\ lost' = lost \ {On(x)}
  /\ queues' = queues \ {On(x)}
  /\ EmptyRings({On(x)})
  /\ Goto(x, IF x \in deleting THEN "remove" ELSE "idle")
  /\ UNCHANGED <<opState, handle, flags, mutex, at, deleting, polls, world>>

\* memif_delete takes the connection out of the lists and frees it.
Remove(x) ==
  /\ pc[x] = "remove"
  /\ handle' = handle \ {On(x)}
  /\ deleting' = deleting \ {x}
  /\ Goto(x, "idle")
  /\ UNCHANGED <<opState, fd, lost, queues, flags, rings, mutex, at, polls, world>>

\* Mutant: memif_delete does not disconnect.
DeleteConnected(x, c) == "remove"

\* memif_delete disconnects a connection that has a socket.
DeleteFrom(x, c) == IF c \in fd THEN "drop" ELSE "remove"
-----------------------------------------------------------------------------
(***************************************************************************)
(* Application threads.                                                    *)
(***************************************************************************)

\* conn_alloc up to its wait: memif_create sends the first request itself.
ConnAlloc(t) ==
  /\ opState = "RUNNING" /\ pc[t] = "idle" /\ t \in Owners
  /\ ConnOf(t) \notin handle
  /\ Alone(t, ConnOf(t))
  /\ handle' = handle \cup {ConnOf(t)}
  /\ fd' = IF server THEN fd \cup {ConnOf(t)} ELSE fd
  /\ connected' = connected \ {ConnOf(t)}
  /\ Goto(t, "wait")
  /\ UNCHANGED <<opState, lost, queues, active, rings, mutex, at, deleting, polls, world>>

\* The wait looks at "connected" once a second.
ConnAllocReturn(t) ==
  /\ pc[t] = "wait"
  /\ ConnOf(t) \in connected
  /\ Goto(t, "idle")
  /\ UNCHANGED <<opState, link, flags, rings, mutex, at, deleting, polls, world>>

\* conn_free: memif_delete without the mutex.
ConnFree(t) ==
  /\ MayFree
  /\ opState = "RUNNING" /\ pc[t] = "idle" /\ t \in Owners
  /\ ConnOf(t) \in handle
  /\ Alone(t, ConnOf(t))
  /\ deleting' = deleting \cup {t}
  /\ Goto(t, DeleteFrom(t, ConnOf(t)))
  /\ UNCHANGED <<opState, link, flags, rings, mutex, at, polls, world>>

\* A call of send or poll, up to its LOCK_GUARD.
Call(t) ==
  /\ opState = "RUNNING" /\ pc[t] = "idle"
  /\ \E f \in {"send", "poll"} : Goto(t, f)
  /\ UNCHANGED <<opState, link, flags, rings, mutex, at, deleting, polls, world>>

\* The connection is not active: -2.
Refused(t) ==
  /\ pc[t] \in {"send", "poll"}
  /\ CanLock(t, ConnOf(t))
  /\ ConnOf(t) \notin active
  /\ Goto(t, "idle")
  /\ UNCHANGED <<opState, link, flags, rings, mutex, at, deleting, polls, world>>

\* Memif_client finds no connection (-1) or "connected" clear (-2).
NotConnected(t) ==
  /\ pc[t] \in {"send", "poll"}
  /\ CanLock(t, ConnOf(t))
  /\ ConnOf(t) \in active
  /\ ConnOf(t) \notin connected \cap handle
  /\ Goto(t, "idle")
  /\ UNCHANGED <<opState, link, flags, rings, mutex, at, deleting, polls, world>>

\* The mutex is taken, and held until the call returns.
Enter(t) ==
  /\ pc[t] \in {"send", "poll"}
  /\ CanLock(t, ConnOf(t))
  /\ ConnOf(t) \in active \cap connected \cap handle
  /\ Lock(t, ConnOf(t))
  /\ Goto(t, IF pc[t] = "send" THEN "tx" ELSE "rx")
  /\ \E n \in 1 .. MaxPolls : left' = [left EXCEPT ![t] = IF pc[t] = "send" THEN 0 ELSE n]
  /\ UNCHANGED <<opState, link, flags, rings, at, deleting, nobuf, world>>

\* send returns: to the application, or to the callback that called it.
SendReturn(t) ==
  /\ Unlock(t, ConnOf(t))
  /\ Goto(t, IF pc[t] = "nested" THEN "served" ELSE "idle")

\* All jobs of the call fit into the ring: another burst, or less.
Put(t) ==
  /\ pc[t] \in {"tx", "nested"}
  /\ ConnOf(t) \in room
  /\ room' \in {room, room \ {ConnOf(t)}}
  /\ \E n \in 0 .. 1 :
       /\ owed[ConnOf(t)] + ready[ConnOf(t)] + n <= MaxBursts
       /\ owed' = [owed EXCEPT ![ConnOf(t)] = @ + n]
  /\ SendReturn(t)
  /\ UNCHANGED <<opState, link, flags, ready, at, deleting, polls, world>>

\* The ring stays full: send tries again, with the mutex held.
Retry(t) ==
  /\ pc[t] \in {"tx", "nested"}
  /\ ConnOf(t) \in connected \ room
  /\ UNCHANGED vars

\* The ring stays full and the test after MAX_SEND_RETRIES finds "connected" clear.
GiveUp(t) ==
  /\ pc[t] \in {"tx", "nested"}
  /\ ConnOf(t) \notin room
  /\ ConnOf(t) \notin connected
  /\ SendReturn(t)
  /\ UNCHANGED <<opState, link, flags, rings, at, deleting, polls, world>>

(***************************************************************************)
(* memif_rx_burst and the callback, which may send.  Answers are counted in *)
(* bursts, and several that are not full may be taken as one; what is left  *)
(* in the ring makes the result MEMIF_ERR_NOBUF.                            *)
(***************************************************************************)
TakeBurst(t) ==
  /\ \E n \in 0 .. ready[ConnOf(t)] :
       /\ n < ready[ConnOf(t)] \/ n = 0
       /\ ready' = [ready EXCEPT ![ConnOf(t)] = n]
       /\ nobuf' = IF n > 0 THEN nobuf \cup {t} ELSE nobuf \ {t}
  /\ \E next \in {"callback", "served"} : Goto(t, next)
  /\ UNCHANGED <<opState, link, flags, room, owed, mutex, at, deleting, world>>

\* on_interrupt02_poll looks at "connected" once ...
Burst(t) ==
  /\ pc[t] = "rx"
  /\ left[t] > 0
  /\ ConnOf(t) \in connected
  /\ left' = [left EXCEPT ![t] = @ - 1]
  /\ TakeBurst(t)

\* ... and takes bursts until one leaves nothing in the ring.
BurstAgain(t) ==
  /\ pc[t] = "again"
  /\ TakeBurst(t)
  /\ UNCHANGED left

\* A send from the callback takes the mutex once more.
CallbackSend(t) ==
  /\ pc[t] = "callback"
  /\ CanLock(t, ConnOf(t))
  /\ IF ConnOf(t) \in active \cap connected \cap handle
     THEN Lock(t, ConnOf(t)) /\ Goto(t, "nested")
     ELSE UNCHANGED mutex /\ Goto(t, "served")
  /\ UNCHANGED <<opState, link, flags, rings, at, deleting, polls, world>>

\* The callback returns and the buffers are given back.
CallbackReturn(t) ==
  /\ pc[t] = "served"
  /\ Goto(t, IF t \in nobuf THEN "again" ELSE "rx")
  /\ UNCHANGED <<opState, link, flags, rings, mutex, at, deleting, polls, world>>

\* poll_count is used up; the rest of it does nothing once "connected" is clear.
PollReturn(t) ==
  /\ pc[t] = "rx"
  /\ left[t] = 0 \/ ConnOf(t) \notin connected
  /\ left' = [left EXCEPT ![t] = 0]
  /\ Unlock(t, ConnOf(t))
  /\ Goto(t, "idle")
  /\ UNCHANGED <<opState, link, flags, rings, at, deleting, nobuf, world>>
-----------------------------------------------------------------------------
(***************************************************************************)
(* The epoll thread.                                                       *)
(***************************************************************************)
Picks(c) ==
  /\ opState # "IDLE" /\ pc[Epoll] = "idle"
  /\ c \in handle
  /\ Alone(Epoll, c)

\* The timer asks for a connection again.
TimerConnect(c) ==
  /\ Picks(c)
  /\ c \notin fd /\ server
  /\ fd' = fd \cup {c}
  /\ UNCHANGED <<opState, handle, lost, queues, flags, rings, mutex, pc, at, deleting, polls, world>>

\* The handshake ends: memif_connect1 has mapped the queues and calls on_connect.
Connected(c) ==
  /\ Picks(c)
  /\ c \in fd \ (lost \cup queues)
  /\ queues' = queues \cup {c}
  /\ room' = room \cup {c}
  /\ at' = c
  /\ Goto(Epoll, "up")
  /\ UNCHANGED <<opState, handle, fd, lost, flags, owed, ready, mutex, deleting, polls, world>>

\* on_connect sets "connected" ...
SetConnected ==
  /\ pc[Epoll] = "up"
  /\ connected' = connected \cup {at}
  /\ Goto(Epoll, "activate")
  /\ UNCHANGED <<opState, link, active, rings, mutex, at, deleting, polls, world>>

\* ... and on_connected, under the mutex, _is_conn_active.
Activate ==
  /\ pc[Epoll] = "activate"
  /\ CanLock(Epoll, at)
  /\ active' = active \cup {at}
  /\ Goto(Epoll, "idle")
  /\ UNCHANGED <<opState, link, connected, rings, mutex, at, deleting, polls, world>>

\* The other end is closed: the handlers end in memif_disconnect_internal.
HangUp(c) ==
  /\ Picks(c)
  /\ c \in fd \cap lost
  /\ at' = c
  /\ Goto(Epoll, "drop")
  /\ UNCHANGED <<opState, link, flags, rings, mutex, deleting, polls, world>>

\* The command "del" on standard input: conn_free in this thread.
UserDelete(c) ==
  /\ MayFree
  /\ Picks(c)
  /\ at' = c
  /\ deleting' = deleting \cup {Epoll}
  /\ Goto(Epoll, DeleteFrom(Epoll, c))
  /\ UNCHANGED <<opState, link, flags, rings, mutex, polls, world>>

(***************************************************************************)
(* cleanup, when the application has no call in progress: the epoll thread *)
(* is told to stop and joined, then every connection is deleted.           *)
(***************************************************************************)
CleanupStop ==
  /\ MayFree
  /\ opState = "RUNNING"
  /\ \A t \in Callers : pc[t] = "idle"
  /\ opState' = "STOPPING"
  /\ UNCHANGED <<link, flags, rings, mutex, pc, at, deleting, polls, world>>

CleanupDelete ==
  /\ opState = "STOPPING"
  /\ pc[Epoll] = "idle"
  /\ opState' = "IDLE"
  /\ connected' = connected \ (handle \cap fd)
  /\ active' = active \ (handle \cap fd)
  /\ queues' = queues \ (handle \cap fd) /\ EmptyRings(handle \cap fd)
  /\ fd' = fd \ handle /\ lost' = lost \ handle
  /\ handle' = {}
  /\ UNCHANGED <<mutex, pc, at, deleting, polls, world>>

\* init clears all connections and starts the thread again.
InitAgain ==
  /\ opState = "IDLE"
  /\ opState' = "RUNNING"
  /\ connected' = {}
  /\ handle' = {}
  /\ UNCHANGED <<fd, lost, queues, active, rings, mutex, pc, at, deleting, polls, world>>

(***************************************************************************)
(* The server (JobDataPath, ServerSessions): it takes jobs from the ring   *)
(* and answers them while it runs, and closes its sockets when it goes.    *)
(***************************************************************************)
ServerDrains(c) ==
  /\ c \in queues \ lost
  /\ c \notin room \/ owed[c] > 0
  /\ room' = room \cup {c}
  /\ \E n \in 0 .. owed[c] :
       /\ n > 0 \/ owed[c] = 0
       /\ owed' = [owed EXCEPT ![c] = @ - n]
       /\ ready' = [ready EXCEPT ![c] = @ + n]
  /\ UNCHANGED <<opState, link, flags, mutex, pc, at, deleting, polls, world>>

ServerGoes ==
  /\ server /\ crashes < MaxCrashes
  /\ server' = FALSE /\ crashes' = crashes + 1
  /\ lost' = fd
  /\ UNCHANGED <<opState, handle, fd, queues, flags, rings, mutex, pc, at, deleting, polls>>

ServerReturns ==
  /\ ~server
  /\ server' = TRUE
  /\ UNCHANGED <<opState, link, flags, rings, mutex, pc, at, deleting, polls, crashes>>

Next ==
  \/ \E x \in Threads : Drop(x) \/ Deactivate(x) \/ FreeQueues(x) \/ Remove(x)
  \/ \E t \in Callers :
       \/ ConnAlloc(t) \/ ConnAllocReturn(t) \/ ConnFree(t)
       \/ Call(t) \/ Refused(t) \/ NotConnected(t) \/ Enter(t)
       \/ Put(t) \/ Retry(t) \/ GiveUp(t)
       \/ Burst(t) \/ BurstAgain(t) \/ CallbackSend(t) \/ CallbackReturn(t) \/ PollReturn(t)
  \/ \E c \in Conns :
       \/ TimerConnect(c) \/ Connected(c) \/ HangUp(c) \/ UserDelete(c)
       \/ ServerDrains(c)
  \/ SetConnected \/ Activate
  \/ CleanupStop \/ CleanupDelete \/ InitAgain
  \/ ServerGoes \/ ServerReturns

Spec == Init /\ [][Next]_vars

(***************************************************************************)
(* Fairness.  Threads go on, a thread that waits for a mutex which becomes *)
(* free again and again gets it, and epoll reports every descriptor that   *)
(* stays ready; the server is restarted and empties its rings.             *)
(***************************************************************************)
Moves(x) == Drop(x) \/ FreeQueues(x) \/ Remove(x)

Takes(t) == Refused(t) \/ NotConnected(t) \/ Enter(t)

Runs(t) ==
  \/ ConnAllocReturn(t) \/ Put(t) \/ GiveUp(t)
  \/ Burst(t) \/ BurstAgain(t) \/ CallbackSend(t) \/ CallbackReturn(t) \/ PollReturn(t)

Event(c) == TimerConnect(c) \/ Connected(c) \/ HangUp(c)

Fairness ==
  /\ \A x \in Threads : WF_vars(Moves(x)) /\ SF_vars(Deactivate(x))
  /\ \A t \in Callers : WF_vars(Runs(t)) /\ SF_vars(Takes(t))
  /\ \A c \in Conns : SF_vars(Event(c)) /\ WF_vars(ServerDrains(c))
  /\ WF_vars(SetConnected) /\ SF_vars(Activate)
  /\ WF_vars(CleanupDelete) /\ WF_vars(ServerReturns)

FairSpec == Spec /\ Fairness
-----------------------------------------------------------------------------
\* The values the variables take.
TypeOK ==
  /\ opState \in {"IDLE", "RUNNING", "STOPPING"}
  /\ handle \subseteq Conns /\ fd \subseteq Conns /\ lost \subseteq fd
  /\ queues \subseteq Conns /\ room \subseteq queues
  /\ connected \subseteq Conns /\ active \subseteq Conns
  /\ mutex \in [Conns -> [owner : Threads \cup {None}, depth : 0 .. 2]]
  /\ \A c \in Conns : mutex[c].depth = 0 <=> mutex[c].owner = None
  /\ \A t \in Callers : pc[t] \in Disconnecting \cup InQueues \cup {"idle", "wait", "send", "poll"}
  /\ pc[Epoll] \in Disconnecting \cup {"idle", "up", "activate"}
  /\ at \in Conns /\ deleting \subseteq Threads
  /\ owed \in [Conns -> 0 .. MaxBursts] /\ ready \in [Conns -> 0 .. MaxBursts]
  /\ left \in [Callers -> 0 .. MaxPolls] /\ nobuf \subseteq Callers
  /\ server \in BOOLEAN /\ crashes \in 0 .. MaxCrashes

\* A thread inside memif_rx_burst, memif_buffer_alloc or the callback with
\* pointers into the buffers has a connection whose queues are mapped: the
\* mutex keeps memif_disconnect_internal from freeing them.
UsesMappedQueues ==
  \A t \in Callers : pc[t] \in InQueues => ConnOf(t) \in queues \cap handle

\* A connection that was freed is not active and has no queues, so that
\* later calls are refused and the next conn_alloc starts from nothing.
FreedIsClean ==
  \A c \in Conns \ handle : c \notin active \cup queues \cup fd \cup connected

\* At most one thread runs memif_disconnect_internal or memif_delete for a
\* connection, and none while it is being connected.
OneThreadDisconnects ==
  \A x, y \in Threads :
    x # y /\ On(x) = On(y) /\ pc[x] \in Disconnecting =>
      pc[y] \notin Disconnecting \cup {"up", "activate"}

\* The call of t never returns.  A conn_alloc whose connection is deleted by
\* command waits for ever and is left out.
NeverReturns(t) == <>[](pc[t] # "idle" /\ ConnOf(t) \in handle)

\* conn_alloc, send, poll and conn_free return, also when the server goes
\* while send waits for room with the mutex held.  There is one exception: a
\* poll whose callback sends again and again, and whose answers come back
\* before on_interrupt02_poll has emptied the ring, keeps the mutex for ever.
CallsReturn ==
  \A t \in Callers : NeverReturns(t) =>
    \E u \in Callers :
      ConnOf(u) = ConnOf(t) /\ NeverReturns(u) /\ []<>(pc[u] = "callback")
=============================================================================
