----------------------------- MODULE ServerStart -----------------------------
(***************************************************************************)
(* The start of ciph_app: main, Dpdk_cryptodev_client::init with the       *)
(* options, init_inner, fill_session_pool_socket and alloc_common_memory,  *)
(* the server agent's init and conn_alloc, and the epoll thread that       *)
(* accepts clients as soon as a connection exists.                         *)
(*                                                                         *)
(* A device is known by its id, its place among the --vdev arguments       *)
(* counted from 0.  Every call into DPDK or libmemif may fail.  The        *)
(* members of the client are zero before init; the singleton that holds it *)
(* is not part of the repository.                                          *)
(***************************************************************************)
EXTENDS DeviceOptions

CONSTANTS
  VdevLists,    \* devices of a start-up line: sequences of types
  ClientLists,  \* conn_ids: sequences of client ids
  MaxConn       \* MAX_CONNECTIONS of the server agent; Memif_client has room for more

ASSUME StartAssumption ==
  /\ \A list \in VdevLists : list \in Seq({"aesni", "snow3g", "other"})
  /\ \A list \in ClientLists : list \in Seq(Nat) /\ IsInjective(list)
  /\ MaxConn \in Nat
  /\ \A list \in ClientLists : \A i \in DOMAIN list : 2 * list[i] + 1 < MaxConn

VARIABLES
  pc,
  vdevs,     \* types of the devices, by id
  clients,   \* uint_client_ids
  enabled,   \* _enabled_cdevs
  algo2cdev, \* algo2cdev_id_map
  cur,       \* device that is being set up: index into _enabled_cdevs
  made,      \* session pools made, in order
  pools,     \* _priv_mp and _sess_mp: places in made, 0 when NULL
  queued,    \* devices with a queue pair: the session pools it was given
  opsPool,   \* _ops_mp: the device it was made for, -1 when NULL
  started,   \* devices started
  nb,        \* _nb_cryptodevs
  todo,      \* memif ids that conn_alloc is still to be called for
  callbacks, \* connections with callbacks
  created,   \* connections of libmemif
  failed,    \* connections whose conn_alloc failed
  active     \* _is_conn_active

search == <<enabled, algo2cdev>>
setup == <<cur, made, pools, queued, opsPool, started>>
agent == <<todo, callbacks, created, failed, active>>
vars == <<pc, vdevs, clients, optionVars, search, setup, nb, agent>>

Algos == {"AES_CTR", "SNOW3G"}
TypeOf(algo) == IF algo = "AES_CTR" THEN "aesni" ELSE "snow3g"

Init ==
  /\ pc = "init"
  /\ vdevs \in VdevLists /\ clients \in ClientLists
  /\ OptionsInit
  /\ enabled = <<>> /\ algo2cdev = [a \in Algos |-> 0]
  /\ cur = 1 /\ made = <<>> /\ pools = [priv |-> 0, sess |-> 0]
  /\ queued = <<>> /\ opsPool = -1 /\ started = {}
  /\ nb = 0
  /\ todo = <<>> /\ callbacks = {} /\ created = {} /\ failed = {} /\ active = {}

\* init fails and main ends with an exception.
Fail == pc' = "ended" /\ UNCHANGED <<vdevs, clients, optionVars, search, setup, nb, agent>>

\* rte_eal_init.
Begin ==
  /\ pc = "init"
  /\ pc' = "options"
  /\ UNCHANGED <<vdevs, clients, optionVars, search, setup, nb, agent>>

BeginFails == pc = "init" /\ Fail

\* cperf_options_parse and cperf_options_check.
Options ==
  /\ pc = "options"
  /\ OptionsNext
  /\ UNCHANGED <<pc, vdevs, clients, search, setup, nb, agent>>

OptionsAccepted ==
  /\ pc = "options" /\ res = "ok"
  /\ pc' = "aesni"
  /\ UNCHANGED <<vdevs, clients, optionVars, search, setup, nb, agent>>

\* An error, or help: rte_exit.
OptionsRefused == pc = "options" /\ res \in {"error", "help"} /\ Fail

\* rte_cryptodev_devices_get: ids of the devices of a type.
DevicesGet(type) == {i - 1 : i \in {j \in DOMAIN vdevs : vdevs[j] = type}}

\* Mutant: every device is entered with the first algorithm.
EnableAsFirst(algo) ==
  LET ids == DevicesGet(TypeOf(algo))
      id == CHOOSE i \in ids : \A j \in ids : i <= j
  IN  /\ ids # {}
      /\ enabled' = Append(enabled, [id |-> id, algo |-> "AES_CTR"])
      /\ algo2cdev' = [algo2cdev EXCEPT ![algo] = id]

\* The first id that devices_get stored is the one that is used.
Enable(algo) ==
  LET ids == DevicesGet(TypeOf(algo))
      id == CHOOSE i \in ids : \A j \in ids : i <= j
  IN  /\ ids # {}
      /\ enabled' = Append(enabled, [id |-> id, algo |-> algo])
      /\ algo2cdev' = [algo2cdev EXCEPT ![algo] = id]

FindAesni ==
  /\ pc = "aesni"
  /\ Enable("AES_CTR")
  /\ pc' = "snow3g"
  /\ UNCHANGED <<vdevs, clients, optionVars, setup, nb, agent>>

FindSnow3g ==
  /\ pc = "snow3g"
  /\ Enable("SNOW3G")
  /\ pc' = "pools"
  /\ UNCHANGED <<vdevs, clients, optionVars, setup, nb, agent>>

FindFails ==
  /\ \/ pc = "aesni" /\ DevicesGet("aesni") = {}
     \/ pc = "snow3g" /\ DevicesGet("snow3g") = {}
  /\ Fail

Dev == enabled[cur].id

\* fill_session_pool_socket makes the pools that are not there yet.
FillSessionPool ==
  LET priv == IF pools.priv = 0 THEN Append(made, "priv") ELSE made
      sess == IF pools.sess = 0 THEN Append(priv, "sess") ELSE priv
  IN  /\ made' = sess
      /\ pools' = [priv |-> IF pools.priv = 0 THEN Len(priv) ELSE pools.priv,
                   sess |-> IF pools.sess = 0 THEN Len(sess) ELSE pools.sess]

FillPools ==
  /\ pc = "pools" /\ cur <= Len(enabled)
  /\ FillSessionPool
  /\ pc' = "queue"
  /\ UNCHANGED <<vdevs, clients, optionVars, search, cur, queued, opsPool, started, nb, agent>>

\* rte_cryptodev_configure and rte_cryptodev_queue_pair_setup.
SetUpQueue ==
  /\ pc = "queue"
  /\ queued' = [d \in DOMAIN queued \cup {Dev} |-> IF d = Dev THEN pools ELSE queued[d]]
  /\ pc' = "ops"
  /\ UNCHANGED <<vdevs, clients, optionVars, search, cur, made, pools, opsPool, started, nb, agent>>

\* alloc_common_memory: the pool is named after the device.
AllocCommonMemory ==
  /\ pc = "ops"
  /\ opsPool' = Dev
  /\ pc' = "start"
  /\ UNCHANGED <<vdevs, clients, optionVars, search, cur, made, pools, queued, started, nb, agent>>

StartDevice ==
  /\ pc = "start"
  /\ started' = started \cup {Dev}
  /\ cur' = cur + 1
  /\ pc' = "pools"
  /\ UNCHANGED <<vdevs, clients, optionVars, search, made, pools, queued, opsPool, nb, agent>>

\* Mutant: a device that does not start is passed over.
SetUpFailsIgnored ==
  /\ \/ pc = "pools" /\ cur <= Len(enabled)
     \/ pc \in {"queue", "ops", "start"}
  /\ pc' = "pools" /\ cur' = cur + 1
  /\ UNCHANGED <<vdevs, clients, optionVars, search, made, pools, queued, opsPool, started, nb, agent>>

\* Any call of the set-up fails: _nb_cryptodevs is 0 when the devices are to be
\* stopped, so the ones that were started stay so.
SetUpFails ==
  /\ \/ pc = "pools" /\ cur <= Len(enabled)
     \/ pc \in {"queue", "ops", "start"}
  /\ Fail

\* init_inner returns the number of devices, init clears the registry.
SetUpDone ==
  /\ pc = "pools" /\ cur > Len(enabled)
  /\ nb' = Len(enabled)
  /\ pc' = "agent"
  /\ UNCHANGED <<vdevs, clients, optionVars, search, setup, agent>>
-----------------------------------------------------------------------------
\* Mutant: the second id of a client is the first one of the next.
MemifIdsApart(id) == <<id * 2, id * 2 + 2>>

\* Ids of the two connections of a client.
MemifIds(id) == <<id * 2, id * 2 + 1>>

\* Ciph_comm_agent_server::init starts the epoll thread.
AgentInit ==
  /\ pc = "agent"
  /\ todo' = FlattenSeq([i \in DOMAIN clients |-> MemifIds(clients[i])])
  /\ pc' = "alloc"
  /\ UNCHANGED <<vdevs, clients, optionVars, search, setup, nb, callbacks, created, failed, active>>

\* memif_init fails; cleanup joins a thread that does not exist, which throws.
AgentInitFails == pc = "agent" /\ Fail

\* conn_alloc of the server agent.
SetCallbacks ==
  /\ pc = "alloc" /\ todo # <<>>
  /\ callbacks' = callbacks \cup {Head(todo)}
  /\ pc' = "create"
  /\ UNCHANGED <<vdevs, clients, optionVars, search, setup, nb, todo, created, failed, active>>

\* conn_alloc of Memif_client.
CreateConn ==
  /\ pc = "create"
  /\ created' = created \cup {Head(todo)}
  /\ todo' = Tail(todo)
  /\ pc' = "alloc"
  /\ UNCHANGED <<vdevs, clients, optionVars, search, setup, nb, callbacks, failed, active>>

\* memif_create fails; main does not look at the result.
CreateConnFails ==
  /\ pc = "create"
  /\ failed' = failed \cup {Head(todo)}
  /\ todo' = Tail(todo)
  /\ pc' = "alloc"
  /\ UNCHANGED <<vdevs, clients, optionVars, search, setup, nb, callbacks, created, active>>

EnterLoop ==
  /\ pc = "alloc" /\ todo = <<>>
  /\ pc' = "serving"
  /\ UNCHANGED <<vdevs, clients, optionVars, search, setup, nb, agent>>

\* Epoll thread: on_connected.
Connected(c) ==
  /\ c \in created \ active
  /\ active' = active \cup {c}
  /\ UNCHANGED <<pc, vdevs, clients, optionVars, search, setup, nb, todo, callbacks, created, failed>>

\* Epoll thread: on_disconnected.
Disconnected(c) ==
  /\ c \in active
  /\ active' = active \ {c}
  /\ UNCHANGED <<pc, vdevs, clients, optionVars, search, setup, nb, todo, callbacks, created, failed>>

Next ==
  \/ Begin \/ BeginFails \/ Options \/ OptionsAccepted \/ OptionsRefused
  \/ FindAesni \/ FindSnow3g \/ FindFails
  \/ FillPools \/ SetUpQueue \/ AllocCommonMemory \/ StartDevice \/ SetUpFails \/ SetUpDone
  \/ AgentInit \/ AgentInitFails
  \/ SetCallbacks \/ CreateConn \/ CreateConnFails \/ EnterLoop
  \/ \E c \in created : Connected(c) \/ Disconnected(c)

Spec == Init /\ [][Next]_vars
-----------------------------------------------------------------------------
\* create_session puts the device id into the session id, get_session compares
\* it with the number of devices, and run_jobs takes it for an index into
\* _enabled_cdevs.
Accepted(algo) == algo2cdev[algo] < nb
RunsOn(algo) == enabled[algo2cdev[algo] + 1].id

\* set_ops_cipher counts the data in bits; it takes the device id for an index.
InBits(dev) == dev < Len(enabled) /\ enabled[dev + 1].algo = "SNOW3G"

\* get_memif_conn_id and get_conn_id of a client with connections 0 and 1.
GetMemifConnId(client, conn) == conn + 2 * client
GetConnId(client, memif) == memif - 2 * client

Ready == pc \in {"agent", "alloc", "create", "serving"}

RightDevice(a) ==
  /\ Accepted(a) /\ RunsOn(a) = algo2cdev[a]
  /\ vdevs[RunsOn(a) + 1] = TypeOf(a)
  /\ InBits(RunsOn(a)) <=> a = "SNOW3G"

(***************************************************************************)
(* Once the devices are set up, the jobs of both algorithms are accepted,  *)
(* run on the device their session was made for, which is of the right     *)
(* type, and have their length in the unit of the algorithm, exactly when  *)
(* the first two --vdev arguments are aesni and snow3g: device ids are     *)
(* used as indices in three places, and with any other order that the      *)
(* start accepts some job is refused or goes to the wrong device.          *)
(***************************************************************************)
JobsOnTheirDevice ==
  Ready => ((\A a \in Algos : RightDevice(a)) <=> SubSeq(vdevs, 1, 2) = <<"aesni", "snow3g">>)

(***************************************************************************)
(* When the epoll thread reports a client, which it may do while main is   *)
(* still allocating connections, the callbacks of that connection are set, *)
(* the options were accepted and every device is started with a queue pair *)
(* and operations.                                                         *)
(***************************************************************************)
ConnectedMeansReady ==
  \A c \in active :
    /\ c \in callbacks
    /\ res = "ok" /\ opsPool # -1
    /\ \A i \in DOMAIN enabled : enabled[i].id \in started /\ enabled[i].id \in DOMAIN queued

(***************************************************************************)
(* When main enters its loop, both connections of every configured client  *)
(* lead to a connection of the server that no other client leads to, and   *)
(* the client finds its own number back, unless the allocation failed.     *)
(***************************************************************************)
ClientsMeetServer ==
  pc = "serving" =>
    \A i \in DOMAIN clients, conn \in 0 .. 1 :
      LET memif == GetMemifConnId(clients[i], conn)
      IN  /\ memif \in created \cup failed
          /\ GetConnId(clients[i], memif) = conn
          /\ \A j \in DOMAIN clients \ {i}, other \in 0 .. 1 :
               GetMemifConnId(clients[j], other) # memif
=============================================================================
