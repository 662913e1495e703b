--------------------------- MODULE ReconnectTimer ---------------------------
(***************************************************************************)
(* The reconnect timer of a client process that has several connections.   *)
(* One timer serves all slaves: disconn_slaves counts those that are down, *)
(* the timer is armed when the count leaves zero and disarmed when it gets *)
(* there.                                                                  *)
(*                                                                         *)
(* Application threads create and delete connections (one thread per       *)
(* connection), the epoll thread handles the timer and lost connections;   *)
(* none of them takes a lock.  A step is the part of a function up to its  *)
(* next use of the counter or the timer.  With Serial, library calls do   *)
(* not overlap, which tells what the algorithm does from what the missing  *)
(* lock does.  A connection is up when connect has succeeded:              *)
(* MemifControl has the handshake that follows.                            *)
(***************************************************************************)
EXTENDS Naturals, FiniteSets

CONSTANTS
  Conns,       \* connections of the process
  Wrap,        \* values of disconn_slaves, 2^16 in the code
  Serial,      \* library calls of different threads do not overlap
  MayDelete,   \* connections are deleted (and created again)
  MaxCrashes   \* bound on the times the server goes down

ASSUME TimerAssumption ==
  /\ IsFiniteSet(Conns) /\ MaxCrashes \in Nat /\ {Serial, MayDelete} \subseteq BOOLEAN
  /\ Wrap \in Nat /\ Wrap > 4 * Cardinality(Conns) * (MaxCrashes + 1)

VARIABLES
  listening,       \* the server accepts connections
  crashes,
  listed,          \* connections in control_list
  fd,              \* state of a connection's socket
  disconn_slaves,
  armed,           \* the timer
  app,             \* what each connection's application thread does
  epoll            \* what the epoll thread does: left to request, to count

vars == <<listening, crashes, listed, fd, disconn_slaves, armed, app, epoll>>
netVars == <<listening, crashes>>

Idle == [left |-> {}, uncount |-> 0, count |-> 0]
Down == {c \in listed : fd[c] = "none"}

Init ==
  /\ listening \in BOOLEAN /\ crashes = 0
  /\ listed = {} /\ fd = [c \in Conns |-> "none"]
  /\ disconn_slaves = 0 /\ armed = FALSE
  /\ app = [c \in Conns |-> "none"]
  /\ epoll = Idle

\* Threads inside the library, and whether another may enter.
Calling == {c \in Conns : app[c] \notin {"none", "created"}}
MayEnter == Serial => epoll = Idle /\ Calling = {}

-----------------------------------------------------------------------------
\* The counter and the timer.

Plus(n) == (n + 1) % Wrap
Minus(n) == (n + Wrap - 1) % Wrap

\* A slave has connected.
Uncount ==
  /\ disconn_slaves' = Minus(disconn_slaves)
  /\ armed' = (armed /\ disconn_slaves' # 0)

\* Mutant: the first disconnected slave does not arm the timer.
CountUnarmed ==
  /\ armed' = (armed \/ disconn_slaves = 1)
  /\ disconn_slaves' = Plus(disconn_slaves)

\* A slave has disconnected.
Count ==
  /\ armed' = (armed \/ disconn_slaves = 0)
  /\ disconn_slaves' = Plus(disconn_slaves)

\* connect of memif_request_connection.
Connects(c) == fd[c] = "none" /\ listening
ConnectFails(c) == fd[c] # "none" \/ ~listening

-----------------------------------------------------------------------------
\* The server goes, which the epoll thread sees as end of stream or, if it
\* left messages unread, as an error; and comes back.

Crash ==
  /\ listening /\ crashes < MaxCrashes
  /\ listening' = FALSE /\ crashes' = crashes + 1
  /\ fd' \in [Conns -> {"none", "up", "eof", "reset"}]
  /\ \A c \in Conns : IF fd[c] = "up" THEN fd'[c] \in {"eof", "reset"}
                                      ELSE fd'[c] = fd[c]
  /\ UNCHANGED <<listed, disconn_slaves, armed, app, epoll>>

Restart ==
  /\ ~listening /\ listening' = TRUE
  /\ UNCHANGED <<crashes, listed, fd, disconn_slaves, armed, app, epoll>>

-----------------------------------------------------------------------------
\* memif_create.

CreateList(c) ==
  /\ app[c] = "none" /\ MayEnter
  /\ listed' = listed \union {c}
  /\ app' = [app EXCEPT ![c] = "request"]
  /\ UNCHANGED <<netVars, fd, disconn_slaves, armed, epoll>>

CreateRequest(c) ==
  /\ app[c] = "request"
  /\ \/ Connects(c) /\ fd' = [fd EXCEPT ![c] = "up"]
        /\ app' = [app EXCEPT ![c] = "uncount"]
     \/ ConnectFails(c) /\ app' = [app EXCEPT ![c] = "arm"] /\ UNCHANGED fd
  /\ UNCHANGED <<netVars, listed, disconn_slaves, armed, epoll>>

CreateUncount(c) ==
  /\ app[c] = "uncount"
  /\ Uncount
  /\ app' = [app EXCEPT ![c] = "count"]
  /\ UNCHANGED <<netVars, listed, fd, epoll>>

CreateArm(c) ==
  /\ app[c] = "arm"
  /\ armed' = (armed \/ disconn_slaves = 0)
  /\ app' = [app EXCEPT ![c] = "count"]
  /\ UNCHANGED <<netVars, listed, fd, disconn_slaves, epoll>>

\* Mutant: the new slave is counted only if it could not connect.
CreateCountFailed(c) ==
  /\ app[c] = "count"
  /\ disconn_slaves' = IF fd[c] = "none" THEN Plus(disconn_slaves)
                                         ELSE disconn_slaves
  /\ app' = [app EXCEPT ![c] = "created"]
  /\ UNCHANGED <<netVars, listed, fd, armed, epoll>>

CreateCount(c) ==
  /\ app[c] = "count"
  /\ disconn_slaves' = Plus(disconn_slaves)
  /\ app' = [app EXCEPT ![c] = "created"]
  /\ UNCHANGED <<netVars, listed, fd, armed, epoll>>

\* memif_delete (ConnLifecycle has its race with the epoll thread).
DeleteDisconnect(c) ==
  /\ MayDelete /\ app[c] = "created" /\ MayEnter /\ epoll = Idle
  /\ IF fd[c] = "none"
     THEN app' = [app EXCEPT ![c] = "remove"] /\ UNCHANGED <<fd, disconn_slaves, armed>>
     ELSE /\ fd' = [fd EXCEPT ![c] = "none"]
          /\ Count
          /\ app' = [app EXCEPT ![c] = "remove"]
  /\ UNCHANGED <<netVars, listed, epoll>>

DeleteRemove(c) ==
  /\ app[c] = "remove" /\ epoll = Idle
  /\ listed' = listed \ {c} /\ fd' = [fd EXCEPT ![c] = "none"]
  /\ Uncount
  /\ app' = [app EXCEPT ![c] = "none"]
  /\ UNCHANGED <<netVars, epoll>>

-----------------------------------------------------------------------------
\* The epoll thread.

TimerExpires ==
  /\ armed /\ epoll = Idle /\ MayEnter /\ Down # {}
  /\ epoll' = [epoll EXCEPT !.left = Down]
  /\ UNCHANGED <<netVars, listed, fd, disconn_slaves, armed, app>>

TimerRequest(c) ==
  /\ c \in epoll.left /\ epoll.uncount = 0
  /\ \/ /\ Connects(c)
        /\ fd' = [fd EXCEPT ![c] = "up"]
        /\ epoll' = [epoll EXCEPT !.left = @ \ {c}, !.uncount = 1]
     \/ /\ ConnectFails(c)
        /\ epoll' = [epoll EXCEPT !.left = @ \ {c}]
        /\ UNCHANGED fd
  /\ UNCHANGED <<netVars, listed, disconn_slaves, armed, app>>

TimerUncount ==
  /\ epoll.uncount = 1
  /\ Uncount
  /\ epoll' = [epoll EXCEPT !.uncount = 0]
  /\ UNCHANGED <<netVars, listed, fd, app>>

\* After an error, both read_fn and error_fn disconnect.
Lost(c) ==
  /\ epoll = Idle /\ MayEnter /\ fd[c] \in {"eof", "reset"}
  /\ epoll' = [epoll EXCEPT !.count = IF fd[c] = "reset" THEN 2 ELSE 1]
  /\ fd' = [fd EXCEPT ![c] = "none"]
  /\ UNCHANGED <<netVars, listed, disconn_slaves, armed, app>>

LostCount ==
  /\ epoll.count > 0
  /\ Count
  /\ epoll' = [epoll EXCEPT !.count = @ - 1]
  /\ UNCHANGED <<netVars, listed, fd, app>>

Create(c) ==
  CreateRequest(c) \/ CreateUncount(c) \/ CreateArm(c) \/ CreateCount(c)

Epoll ==
  \/ TimerExpires \/ TimerUncount \/ LostCount
  \/ \E c \in Conns : TimerRequest(c) \/ Lost(c)

Next ==
  \/ Crash \/ Restart \/ Epoll
  \/ \E c \in Conns : \/ CreateList(c) \/ Create(c)
                      \/ DeleteDisconnect(c) \/ DeleteRemove(c)

Spec == Init /\ [][Next]_vars

\* The timer is periodic, the epoll thread and a thread inside memif_create
\* or memif_delete run on, and a server that has died is started again.
FairSpec ==
  /\ Spec
  /\ WF_vars(Restart) /\ WF_vars(Epoll)
  /\ \A c \in Conns : WF_vars(Create(c)) /\ WF_vars(DeleteRemove(c))

-----------------------------------------------------------------------------
TypeOK ==
  /\ listening \in BOOLEAN /\ crashes \in 0 .. MaxCrashes
  /\ listed \subseteq Conns /\ armed \in BOOLEAN
  /\ fd \in [Conns -> {"none", "up", "eof", "reset"}]
  /\ disconn_slaves \in 0 .. (Wrap - 1)
  /\ app \in [Conns -> {"none", "request", "uncount", "arm", "count",
                        "created", "remove"}]
  /\ epoll \in [left : SUBSET Conns, uncount : 0 .. 1, count : 0 .. 2]

Quiet == epoll = Idle /\ Calling = {}

\* Whenever no thread is inside the library, disconn_slaves is at least the
\* number of slaves that are down, although connecting before being counted
\* takes it below zero and an error counts a slave twice: it never reads as
\* zero, which would keep a later disconnect from being the first.
CountCoversDown ==
  Quiet => /\ disconn_slaves >= Cardinality(Down)
           /\ disconn_slaves < Wrap \div 2

\* A slave that is down gets another connection (or is deleted).
DownIsRetried == \A c \in Conns : c \in Down ~> c \notin Down

\* A process with one connection, which it keeps, always connects again: the
\* timer is armed while that slave is down, also after errors that count it
\* twice and after a server that was not there when it was created.
AloneIsRetried ==
  \A c \in Conns :
    /\ []\A d \in Conns \ {c} : app[d] = "none"
    /\ [](app[c] # "remove")
    => (c \in Down ~> c \notin Down)
=============================================================================
