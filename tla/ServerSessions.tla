--------------------------- MODULE ServerSessions ---------------------------
(***************************************************************************)
(* The two threads of the ciphering server and what they share.            *)
(*                                                                         *)
(* The application thread runs poll_all for ever: for every active channel *)
(* (memif connection) it takes the channel's mutex, checks again, and      *)
(* handles bursts of jobs with Dpdk_cryptodev_client::run_jobs.  A burst   *)
(* is preprocessed (sessions are created and looked up), run on the crypto *)
(* devices and postprocessed (sessions are closed).                        *)
(*                                                                         *)
(* The epoll thread of Memif_client reports connections that come and go:  *)
(* on_disconnect clears "connected", takes the mutex, marks the channel    *)
(* inactive and removes all its sessions; only then are the queues of the  *)
(* connection unmapped.                                                    *)
(*                                                                         *)
(* The session registry is per channel.  The pools the sessions and their  *)
(* private data come from are shared by all channels and devices.          *)
(***************************************************************************)
EXTENDS Integers, Sequences, FiniteSets

CONSTANTS
  NumChannels,\* connections served
  NumDevs,    \* _nb_cryptodevs
  MaxSess,    \* MAX_SESS_NUM: slots per channel and device, size of the pools
  Sessions,   \* the objects of _sess_mp
  NoSession,  \* NULL
  IdRange,    \* values of each half of a session id: 2^16 in the code
  SessIds,    \* session ids clients send
  MaxBurst    \* most jobs in a burst

ASSUME SessionsAssumption ==
  /\ IsFiniteSet(Sessions) /\ Cardinality(Sessions) = MaxSess
  /\ NoSession \notin Sessions
  /\ NumChannels \in Nat \ {0}
  /\ NumDevs \in Nat \ {0} /\ MaxSess \in Nat \ {0} /\ MaxBurst \in Nat
  /\ IdRange \in Nat /\ NumDevs < IdRange /\ MaxSess < IdRange
  /\ SessIds \subseteq 0 .. (IdRange * IdRange - 1)

VARIABLES
  connected,  \* channels with memif_connection_t.connected set
  active,     \* channels with _is_conn_active set
  mapped,     \* channels whose queues and regions exist
  lock,       \* owner of each mutex _conn_m
  registry,   \* _active_sessions_registry
  sessPool,   \* free objects of _sess_mp
  priv,       \* device whose private data a session has, or NoDev
  apc,        \* application thread: control state
  ach,        \* application thread: channel at hand
  burst,      \* application thread: jobs of the burst handled so far
  cursor,     \* application thread: next job of postprocess_jobs
  made,       \* application thread: <<device, session>> of create_session
  onDevice,   \* <<device, session>> pairs of the operations enqueued
  epc,        \* epoll thread: control state
  ech,        \* epoll thread: channel at hand
  victim      \* slot each thread is removing a session from

conns == <<connected, active, mapped>>
pools == <<registry, sessPool, priv>>
app == <<apc, ach, burst, cursor, made, onDevice>>
epoll == <<epc, ech>>
vars == <<conns, lock, pools, app, epoll, victim>>

Channels == 0 .. (NumChannels - 1)
Threads == {"app", "epoll"}
Devs == 0 .. (NumDevs - 1)
Slots == 0 .. (MaxSess - 1)
NoDev == -1
Nowhere == <<NoDev, 0>>
Nothing == <<NoDev, NoSession>>

\* The id of slot i of a device, and back.
SessId(dev, i) == dev * IdRange + i
DevOf(id) == id \div IdRange
SlotOf(id) == id % IdRange
NoSessId == IdRange * IdRange - 1

\* Free objects of _priv_mp, which is as large as _sess_mp.
PrivFree == MaxSess - Cardinality({s \in Sessions : priv[s] # NoDev})

Job(type, id, status) == [type |-> type, id |-> id, status |-> status]

\* get_session
GetSession(ch, id) ==
  IF DevOf(id) < NumDevs /\ SlotOf(id) < MaxSess
  THEN registry[ch][DevOf(id)][SlotOf(id)]
  ELSE NoSession

Init ==
  /\ connected = {} /\ active = {} /\ mapped = {}
  /\ lock = [ch \in Channels |-> "none"]
  /\ registry = [ch \in Channels |-> [d \in Devs |-> [i \in Slots |-> NoSession]]]
  /\ sessPool = Sessions
  /\ priv = [s \in Sessions |-> NoDev]
  /\ apc = "scan" /\ ach = 0
  /\ burst = <<>> /\ cursor = 1 /\ made = Nothing /\ onDevice = {}
  /\ epc = "wait" /\ ech = 0
  /\ victim = [t \in Threads |-> Nowhere]
-----------------------------------------------------------------------------
(***************************************************************************)
(* Removing one session, in remove_session and remove_all_sessions: its    *)
(* private data goes back to _priv_mp, the session to _sess_mp, and only   *)
(* then is the slot cleared.                                               *)
(***************************************************************************)
VictimSession(t, ch) == registry[ch][victim[t][1]][victim[t][2]]

\* Mutant: the private data is not returned.
ClearSessionForgotten(t, ch) ==
  UNCHANGED <<registry, sessPool, priv, victim>>

ClearSession(t, ch) ==
  /\ priv' = [priv EXCEPT ![VictimSession(t, ch)] = NoDev]
  /\ UNCHANGED <<registry, sessPool, victim>>

FreeSession(t, ch) ==
  /\ sessPool' = sessPool \cup {VictimSession(t, ch)}
  /\ UNCHANGED <<registry, priv, victim>>

ForgetSession(t, ch) ==
  /\ registry' = [registry EXCEPT ![ch][victim[t][1]][victim[t][2]] = NoSession]
  /\ victim' = [victim EXCEPT ![t] = Nowhere]
  /\ UNCHANGED <<sessPool, priv>>

-----------------------------------------------------------------------------
\* Application thread: poll_all and on_interrupt00_poll.

NextChannel == (ach + 1) % NumChannels

\* The unlocked test of _is_conn_active.
AppScan ==
  /\ apc = "scan"
  /\ apc' = IF ach \in active THEN "lock" ELSE "scan"
  /\ ach' = IF ach \in active THEN ach ELSE NextChannel
  /\ UNCHANGED <<conns, lock, pools, burst, cursor, made, onDevice, epoll, victim>>

\* The mutex is taken and the test repeated.
AppLock ==
  /\ apc = "lock"
  /\ lock[ach] = "none"
  /\ IF ach \in active
     THEN /\ lock' = [lock EXCEPT ![ach] = "app"]
          /\ apc' = "poll"
          /\ ach' = ach
     ELSE /\ lock' = lock
          /\ apc' = "scan"
          /\ ach' = NextChannel
  /\ UNCHANGED <<conns, pools, burst, cursor, made, onDevice, epoll, victim>>

AppPoll ==
  /\ apc = "poll"
  /\ apc' = IF ach \in connected THEN "pre" ELSE "unlock"
  /\ UNCHANGED <<conns, lock, pools, ach, burst, cursor, made, onDevice, epoll, victim>>

\* The responses are sent.  The next burst is of the same queue when more
\* requests are pending, or of the other queue.
AppAnswer ==
  /\ apc = "post"
  /\ cursor > Len(burst)
  /\ burst' = <<>>
  /\ cursor' = 1
  /\ apc' \in {"pre", "poll", "unlock"}
  /\ UNCHANGED <<conns, lock, pools, ach, made, onDevice, epoll, victim>>

AppUnlock ==
  /\ apc = "unlock"
  /\ lock' = [lock EXCEPT ![ach] = "none"]
  /\ ach' = NextChannel
  /\ apc' = "scan"
  /\ UNCHANGED <<conns, pools, burst, cursor, made, onDevice, epoll, victim>>

-----------------------------------------------------------------------------
\* Application thread: preprocess_jobs, one job at a time.

\* The job is done with; the next one is taken from the burst.
Preprocessed(job) ==
  /\ burst' = Append(burst, job)
  /\ apc' = "pre"
  /\ UNCHANGED <<conns, lock, ach, cursor, onDevice, epoll, victim>>

MoreJobs == apc = "pre" /\ Len(burst) < MaxBurst

\* Jobs the client's agent marked FAILED, and jobs of no known type.  Their
\* session id is looked at again only when they are close jobs.
PreSkip(type, id) ==
  /\ MoreJobs
  /\ Preprocessed(Job(type, id, "FAILED"))
  /\ UNCHANGED <<pools, made>>

\* create_session with an unknown algorithm, or when _sess_mp is empty.
PreCreateFails ==
  /\ MoreJobs
  /\ Preprocessed(Job("create", NoSessId, "FAILED"))
  /\ UNCHANGED <<pools, made>>

\* rte_cryptodev_sym_session_create
PreCreate(dev, s) ==
  /\ MoreJobs
  /\ s \in sessPool
  /\ sessPool' = sessPool \ {s}
  /\ made' = <<dev, s>>
  /\ apc' = "init"
  /\ UNCHANGED <<conns, lock, registry, priv, ach, burst, cursor, onDevice, epoll, victim>>

\* rte_cryptodev_sym_session_init, then the first empty slot.
PreInit ==
  LET dev == made[1]
      s == made[2]
      empty == {i \in Slots : registry[ach][dev][i] = NoSession}
  IN  /\ apc = "init"
      /\ PrivFree > 0
      /\ \E i \in empty :
           /\ \A j \in empty : i <= j
           /\ registry' = [registry EXCEPT ![ach][dev][i] = s]
           /\ Preprocessed(Job("create", SessId(dev, i), "SUCC"))
      /\ priv' = [priv EXCEPT ![s] = dev]
      /\ made' = Nothing
      /\ UNCHANGED sessPool

\* The device refuses the key, or there is no private data or slot left: the
\* session goes back.
PreInitFails ==
  /\ apc = "init"
  /\ sessPool' = sessPool \cup {made[2]}
  /\ made' = Nothing
  /\ Preprocessed(Job("create", NoSessId, "FAILED"))
  /\ UNCHANGED <<registry, priv>>

\* Mutant: the session is removed at once instead of at the end of the burst.
PreCloseAtOnce(id) ==
  /\ MoreJobs
  /\ Preprocessed(Job("close", id, "SUCC"))
  /\ IF GetSession(ach, id) = NoSession
     THEN UNCHANGED pools
     ELSE /\ registry' = [registry EXCEPT ![ach][DevOf(id)][SlotOf(id)] = NoSession]
          /\ sessPool' = sessPool \cup {GetSession(ach, id)}
          /\ priv' = [priv EXCEPT ![GetSession(ach, id)] = NoDev]
  /\ UNCHANGED made

\* Closing is postponed to the end of the burst.
PreClose(id) ==
  /\ MoreJobs
  /\ Preprocessed(Job("close", id, "SUCC"))
  /\ UNCHANGED <<pools, made>>

PreCipher(id) ==
  /\ MoreJobs
  /\ Preprocessed(Job("cipher", id, IF GetSession(ach, id) = NoSession
                                    THEN "FAILED" ELSE "SUCC"))
  /\ UNCHANGED <<pools, made>>

PreDone ==
  /\ apc = "pre"
  /\ apc' = "run"
  /\ cursor' = 0
  /\ UNCHANGED <<conns, lock, pools, ach, burst, made, onDevice, epoll, victim>>

-----------------------------------------------------------------------------
\* Application thread: the devices one after the other.

DevJobs(dev) ==
  {j \in DOMAIN burst : /\ burst[j].type = "cipher" /\ burst[j].status = "SUCC"
                        /\ DevOf(burst[j].id) = dev}

\* set_ops_cipher attaches the sessions, then the operations are enqueued.
RunEnqueue ==
  /\ apc = "run"
  /\ cursor < NumDevs
  /\ onDevice' = {<<cursor, GetSession(ach, burst[j].id)>> : j \in DevJobs(cursor)}
  /\ apc' = "device"
  /\ UNCHANGED <<conns, lock, pools, ach, burst, cursor, made, epoll, victim>>

\* set_ops_cipher_result: the device may fail any of them.
RunDequeue ==
  /\ apc = "device"
  /\ \E failed \in SUBSET DevJobs(cursor) :
       burst' = [j \in DOMAIN burst |->
                   IF j \in failed THEN [burst[j] EXCEPT !.status = "FAILED"]
                   ELSE burst[j]]
  /\ onDevice' = {}
  /\ cursor' = cursor + 1
  /\ apc' = "run"
  /\ UNCHANGED <<conns, lock, pools, ach, made, epoll, victim>>

RunDone ==
  /\ apc = "run"
  /\ cursor = NumDevs
  /\ apc' = "post"
  /\ cursor' = 1
  /\ UNCHANGED <<conns, lock, pools, ach, burst, made, onDevice, epoll, victim>>

-----------------------------------------------------------------------------
\* Application thread: postprocess_jobs; every close job removes a session,
\* one the agent marked FAILED included.

Closing == apc = "post" /\ cursor <= Len(burst) /\ burst[cursor].type = "close"

PostSkip ==
  /\ apc = "post"
  /\ cursor <= Len(burst)
  /\ burst[cursor].type # "close"
  /\ cursor' = cursor + 1
  /\ UNCHANGED <<conns, lock, pools, apc, ach, burst, made, onDevice, epoll, victim>>

PostCloseFails ==
  /\ Closing
  /\ GetSession(ach, burst[cursor].id) = NoSession
  /\ burst' = [burst EXCEPT ![cursor].status = "FAILED"]
  /\ cursor' = cursor + 1
  /\ UNCHANGED <<conns, lock, pools, apc, ach, made, onDevice, epoll, victim>>

PostClose ==
  LET id == burst[cursor].id
  IN  /\ Closing
      /\ GetSession(ach, id) # NoSession
      /\ victim' = [victim EXCEPT !["app"] = <<DevOf(id), SlotOf(id)>>]
      /\ apc' = "clear"
      /\ UNCHANGED <<conns, lock, pools, ach, burst, cursor, made, onDevice, epoll>>

PostClear ==
  /\ apc = "clear"
  /\ ClearSession("app", ach)
  /\ apc' = "free"
  /\ UNCHANGED <<conns, lock, ach, burst, cursor, made, onDevice, epoll>>

PostFree ==
  /\ apc = "free"
  /\ FreeSession("app", ach)
  /\ apc' = "forget"
  /\ UNCHANGED <<conns, lock, ach, burst, cursor, made, onDevice, epoll>>

\* Mutant: the slot keeps pointing to the session that was freed.
PostForgetNothing ==
  /\ apc = "forget"
  /\ victim' = [victim EXCEPT !["app"] = Nowhere]
  /\ burst' = [burst EXCEPT ![cursor].status = "SUCC"]
  /\ cursor' = cursor + 1
  /\ apc' = "post"
  /\ UNCHANGED <<conns, lock, pools, ach, made, onDevice, epoll>>

PostForget ==
  /\ apc = "forget"
  /\ ForgetSession("app", ach)
  /\ burst' = [burst EXCEPT ![cursor].status = "SUCC"]
  /\ cursor' = cursor + 1
  /\ apc' = "post"
  /\ UNCHANGED <<conns, lock, ach, made, onDevice, epoll>>

-----------------------------------------------------------------------------
\* Epoll thread: on_connect and on_disconnect of the library.

\* memif_connect1 maps the queues, then on_connect of Memif_client.
EpollConnect(ch) ==
  /\ epc = "wait"
  /\ ch \notin mapped
  /\ mapped' = mapped \cup {ch}
  /\ connected' = connected \cup {ch}
  /\ epc' = "on_connected"
  /\ ech' = ch
  /\ UNCHANGED <<active, lock, pools, app, victim>>

EpollActivate ==
  /\ epc = "on_connected"
  /\ lock[ech] = "none"
  /\ active' = active \cup {ech}
  /\ epc' = "wait"
  /\ UNCHANGED <<connected, mapped, lock, pools, app, ech, victim>>

\* The peer is gone; also when its handshake fails half way.
EpollDisconnect(ch) ==
  /\ epc = "wait"
  /\ connected' = connected \ {ch}
  /\ epc' = "on_disconnected"
  /\ ech' = ch
  /\ UNCHANGED <<active, mapped, lock, pools, app, victim>>

\* Mutant: on_disconnected does not wait for the mutex.
EpollDeactivateUnlocked ==
  /\ epc = "on_disconnected"
  /\ active' = active \ {ech}
  /\ epc' = "remove"
  /\ UNCHANGED <<connected, mapped, lock, pools, app, ech, victim>>

EpollDeactivate ==
  /\ epc = "on_disconnected"
  /\ lock[ech] = "none"
  /\ lock' = [lock EXCEPT ![ech] = "epoll"]
  /\ active' = active \ {ech}
  /\ epc' = "remove"
  /\ UNCHANGED <<connected, mapped, pools, app, ech, victim>>

\* remove_all_sessions: the slots of the first device, then of the next.
InUse == {v \in Devs \X Slots : registry[ech][v[1]][v[2]] # NoSession}

EpollRemove ==
  /\ epc = "remove"
  /\ \E v \in InUse :
       /\ \A u \in InUse : SessId(v[1], v[2]) <= SessId(u[1], u[2])
       /\ victim' = [victim EXCEPT !["epoll"] = v]
  /\ epc' = "clear"
  /\ UNCHANGED <<conns, lock, pools, app, ech>>

EpollClear ==
  /\ epc = "clear"
  /\ ClearSession("epoll", ech)
  /\ epc' = "free"
  /\ UNCHANGED <<conns, lock, app, ech>>

EpollFree ==
  /\ epc = "free"
  /\ FreeSession("epoll", ech)
  /\ epc' = "forget"
  /\ UNCHANGED <<conns, lock, app, ech>>

EpollForget ==
  /\ epc = "forget"
  /\ ForgetSession("epoll", ech)
  /\ epc' = "remove"
  /\ UNCHANGED <<conns, lock, app, ech>>

\* Mutant: only the first device is cleaned up.
EpollUnlockEarly ==
  /\ epc = "remove"
  /\ \A i \in Slots : registry[ech][0][i] = NoSession
  /\ lock' = [lock EXCEPT ![ech] = "none"]
  /\ epc' = "teardown"
  /\ UNCHANGED <<conns, pools, app, ech, victim>>

EpollUnlock ==
  /\ epc = "remove"
  /\ InUse = {}
  /\ lock' = [lock EXCEPT ![ech] = "none"]
  /\ epc' = "teardown"
  /\ UNCHANGED <<conns, pools, app, ech, victim>>

\* memif_disconnect_internal goes on: queues freed, regions unmapped.
EpollTeardown ==
  /\ epc = "teardown"
  /\ mapped' = mapped \ {ech}
  /\ epc' = "wait"
  /\ UNCHANGED <<connected, active, lock, pools, app, ech, victim>>

-----------------------------------------------------------------------------
AppNext ==
  \/ AppScan \/ AppLock \/ AppPoll \/ AppAnswer \/ AppUnlock
  \/ \E type \in {"create", "cipher", "unknown"} : PreSkip(type, NoSessId)
  \/ \E id \in SessIds : PreSkip("close", id) \/ PreClose(id) \/ PreCipher(id)
  \/ \E dev \in Devs, s \in Sessions : PreCreate(dev, s)
  \/ PreCreateFails \/ PreInit \/ PreInitFails \/ PreDone
  \/ RunEnqueue \/ RunDequeue \/ RunDone
  \/ PostSkip \/ PostCloseFails \/ PostClose \/ PostClear \/ PostFree \/ PostForget

EpollNext ==
  \/ \E ch \in Channels : EpollConnect(ch) \/ EpollDisconnect(ch)
  \/ EpollActivate \/ EpollDeactivate \/ EpollUnlock \/ EpollTeardown
  \/ EpollRemove \/ EpollClear \/ EpollFree \/ EpollForget

Next == AppNext \/ EpollNext

Spec == Init /\ [][Next]_vars

-----------------------------------------------------------------------------
AppStates == {"scan", "lock", "poll", "pre", "init", "run", "device", "post",
              "clear", "free", "forget", "unlock"}
EpollStates == {"wait", "on_connected", "on_disconnected", "remove", "clear",
                "free", "forget", "teardown"}
Jobs == [type : {"create", "close", "cipher", "unknown"},
         id : 0 .. NoSessId, status : {"SUCC", "FAILED"}]

\* Types of the shared state and of the two threads' local state.
TypeOK ==
  /\ connected \subseteq Channels /\ active \subseteq Channels /\ mapped \subseteq Channels
  /\ lock \in [Channels -> Threads \cup {"none"}]
  /\ registry \in [Channels -> [Devs -> [Slots -> Sessions \cup {NoSession}]]]
  /\ sessPool \subseteq Sessions
  /\ priv \in [Sessions -> Devs \cup {NoDev}]
  /\ apc \in AppStates /\ ach \in Channels
  /\ burst \in Seq(Jobs) /\ Len(burst) <= MaxBurst
  /\ cursor \in Nat
  /\ made \in (Devs \X Sessions) \cup {Nothing}
  /\ onDevice \subseteq Devs \X (Sessions \cup {NoSession})
  /\ epc \in EpollStates /\ ech \in Channels
  /\ victim \in [Threads -> (Devs \X Slots) \cup {Nowhere}]

\* A slot whose session was freed and that is about to be set to NULL.
Dangling(ch, d, i) ==
  \/ apc = "forget" /\ ach = ch /\ victim["app"] = <<d, i>>
  \/ epc = "forget" /\ ech = ch /\ victim["epoll"] = <<d, i>>

\* Where session s is held: the slots that own it.
SlotsOf(s) ==
  {p \in Channels \X Devs \X Slots :
     registry[p[1]][p[2]][p[3]] = s /\ ~Dangling(p[1], p[2], p[3])}

(***************************************************************************)
(* The session pool is shared by all channels and by both threads, the     *)
(* registry is not.  Every session is in one place: free in the pool, with *)
(* create_session before it is registered, or in one slot of one channel.  *)
(* So no session is leaked, freed twice, or used by two channels, however  *)
(* closing, creation and the clean-up of a lost connection interleave.     *)
(***************************************************************************)
OwnedOnce ==
  \A s \in Sessions :
    (IF s \in sessPool THEN 1 ELSE 0) + (IF made[2] = s THEN 1 ELSE 0)
      + Cardinality(SlotsOf(s)) = 1

(***************************************************************************)
(* The sessions attached to the operations a device is working on are      *)
(* registered for the channel being served, are not in the free pool and   *)
(* hold the private data of that very device: closing is postponed to the  *)
(* end of the burst, and the mutex keeps the clean-up of the connection    *)
(* out until the burst is over.                                            *)
(***************************************************************************)
DeviceSessionsLive ==
  \A op \in onDevice :
    /\ op[2] \in Sessions \ sessPool
    /\ \E i \in Slots : registry[ach][op[1]][i] = op[2]
    /\ priv[op[2]] = op[1]

(***************************************************************************)
(* A channel that is not active and that nobody is cleaning up has no      *)
(* sessions: the next client to take the same memif id starts from an      *)
(* empty registry and cannot reach a session it did not create.            *)
(***************************************************************************)
InactiveChannelsClean ==
  \A ch \in Channels \ active :
    lock[ch] = "none" => \A d \in Devs, i \in Slots : registry[ch][d][i] = NoSession

(***************************************************************************)
(* While the application thread reads and writes the queues of a channel   *)
(* they are mapped: memif_disconnect_internal unmaps them only after its   *)
(* callback has taken the mutex the application thread holds meanwhile.    *)
(***************************************************************************)
PollsMappedQueues ==
  apc \in AppStates \ {"scan", "lock", "poll", "unlock"} => ach \in mapped

(***************************************************************************)
(* A session taken from the pool can be completed: private data and a slot *)
(* are left for it.  Private data is returned before its session is, and   *)
(* the slots of a channel and device are as many as the sessions.  Only    *)
(* the device's refusal makes create_session fail after that.              *)
(***************************************************************************)
CreationHasRoom ==
  apc = "init" =>
    /\ PrivFree > 0
    /\ \E i \in Slots : registry[ach][made[1]][i] = NoSession
=============================================================================
