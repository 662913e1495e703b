# Verification of the ciphering application

TLA+ models of `ciph_app` (the ciphering server), `libciph_agent` (the client
library) and the layers they share, checked with TLC on small instances and
proved with TLAPS where noted.

## The system

A client links `libciph_agent` and sends *jobs* (create a session, cipher a
buffer, close a session) to the server over memif: two processes that share
memory regions holding rings of descriptors. The client is the memif *slave*,
the server the *master*. The server runs the jobs on DPDK crypto devices.

| part | source | what it does |
|---|---|---|
| memif rings | `src/libmemif/src/main.c` (`memif_buffer_alloc`, `memif_tx_burst`, `memif_rx_burst`, `memif_refill_queue`) | free running 16 bit indices in shared memory, one producer and one consumer per ring |
| memif control channel | `src/libmemif/src/socket.c`, `main.c` | handshake over a unix socket, disconnection, reconnect timer |
| `Memif_client` | `src/libmemif_client/memif_client.cpp` | `send`, the two poll loops, connection table, epoll thread with the connection callbacks |
| agents | `src/libciph_agent/ciph_agent.cpp` | job encoding, one mutex and one active flag per connection, client `send`/`poll`, server `poll_all` |
| device client | `src/libdpdk_cryptodev_client/dpdk_cryptodev_client.cpp` | session registry and pools, pre- and postprocessing of a burst, running it on the devices |
| option parsing | `src/libdpdk_cryptodev_client/options_parsing.cpp` | command line |
| `ciph_app` | `src/ciph_app/ciph_app.cpp` | start-up, endless `poll_all` loop, clean-up when a client goes |
| test client | `src/ciph_app_test/ciph_app_test.c` | how clients use the library |
| helpers | `src/libmemcpy`, `src/CRCpp` | copying, checksums |

Threads: in the server, the *application thread* (main loop) and the *epoll
thread* of `Memif_client` (connection callbacks). In a client, the application's
threads and an epoll thread. Client and server interact through the rings and
the unix socket only.

## Modules

| module | models | kind |
|---|---|---|
| `MemifRing` | index arithmetic of the four ring functions, per role | operators |
| `JobDataPath` | one queue of an established connection: client `send` and `poll`, server `on_interrupt00_poll` | detailed specification |
| `JobChannel` | what that queue promises: an ordered job channel that drops only the tail of a batch, when responses run out of buffers | abstract specification |
| `JobCodec` | one job through the encoding of both sides and back | specification |
| `MemoryLayout` | how a slave lays out rings and packet buffers in the shared regions | specification |
| `MemcpyFast` | `clib_memcpy_fast` for AVX2 and AVX-512 | specification |
| `SharedBuffers` | copies of `MemcpyFast` into the buffers of `MemoryLayout` | composition |
| `MemifControl` | handshake, refusal, disconnection and reconnection over unix sockets, with processes that die | detailed specification |
| `ChannelGrant` | what the control channel promises: an interface is granted to one client at a time | abstract specification |
| `ReconnectTimer` | `disconn_slaves` and the timer that all slaves of a process share | specification |
| `ConnLifecycle` | a client's `conn_alloc`, `send`, `poll`, `conn_free`, `cleanup` against its epoll thread | specification |
| `ServerSessions` | the server's two threads, the mutex of each channel, session registry and pools | specification |
| `DeviceBurst` | `run_jobs_inner` against an asynchronous device | specification |
| `DeviceOptions` | parsers, defaults and final check of the start-up options | actions, used by `ServerStart` |
| `ServerStart` | `main` up to its loop: options, devices, pools, connections, against the epoll thread | composition |
| `JobDataPathLemmas` | arithmetic of wrapped indices, runs of ring slots, writing a buffer array; each step of the client keeps the inductive invariant of `JobDataPath` | proofs |
| `JobDataPathProofs` | each step of the server does; the theorems that follow | proofs |
| `JobDataPathRefinement` | the rings implement `JobChannel`; jobs come back processed and in order | proofs |
| `ServerSessionsLemmas`, `ServerSessionsProofs` | the inductive invariant of `ServerSessions`, its steps and the theorems | proofs |
| `SharedBuffersProofs` | the theorems about `MemoryLayout`, `MemcpyFast` and `SharedBuffers` | proofs |
| `DeviceBurstProofs`, `ConnLifecycleProofs` | the theorems about the two modules | proofs |
| `MC...` | instances for TLC | model checking |

### JobDataPath

Variables: the head and tail of both rings, their buffers and the length field
of the response descriptors (shared memory); for each side its control state,
its buffer arrays, its private `last_head`/`last_tail` and the counters of its
`memif_connection_t`. One action is one library call with the bookkeeping after
it: `SendAlloc`, `SendSerialize`, `SendTx` are the loop body of
`Memif_client::send`, `PollRx`, `PollRecv`, `PollRefill` that of
`on_interrupt02_poll`, and `ServerRx`, `ServerAlloc`, `ServerCopy`,
`ServerRefill`, `ServerRecv`, `ServerTx` that of `on_interrupt00_poll`. Each
call reads the index its peer writes once, so finer interleaving adds nothing.
`SendCall` is also enabled in the completion callback, as the test client does.

A job is its sequence number; a response buffer holds a copy of a job and
whether it was processed. Buffer chaining in `memif_buffer_alloc` is left out,
because no call here needs it. The slave asks for `BUFF_SIZE` bytes and compares
them with the buffer size of the connection, which is the same number. The
master asks for 128 bytes and compares them with the length in the descriptor,
so it would chain only at a descriptor offered with less than that;
`OfferedBuffersFull` shows that each is offered with its full length.

Bounds: `MaxJobs` limits how many jobs a behaviour sends; `Credit` is how many
jobs the client application keeps outstanding. With an index space of 8, a ring
of 4 and 9 jobs the indices wrap, the rings run full and more than a ring of
jobs is outstanding, so that the server drops; the proofs need no such bound.

### ServerSessions

Application thread: `AppScan` (unlocked test), `AppLock`, `AppPoll`, then for
each burst the `Pre...` actions (one per job), `RunEnqueue`/`RunDequeue` per
device, the `Post...` actions, and `AppAnswer`. Epoll thread: `EpollConnect`,
`EpollActivate`; `EpollDisconnect`, `EpollDeactivate`, one
`EpollRemove`/`Clear`/`Free`/`Forget` round per session, `EpollUnlock`,
`EpollTeardown`. The two calls that return a session and its private data to
the shared pools, and the assignment that clears the slot, are separate steps,
because the other thread may take from the pools in between.

A session id is built from and split into device and slot as in the code, with
`IdRange` in place of 2^16. Clients send any id of `SessIds`: valid, reused,
stale, or out of range. The device may refuse a key (`PreInitFails`) and may
fail an operation (`RunDequeue`). The run has two channels, two devices and two
sessions, so either channel can exhaust the pool; bursts have up to two jobs,
enough for a job and a close of its session in one burst.

### DeviceBurst

The two loops of `run_jobs_inner`, with the counters under their own names.
The device is external: a FIFO that processes operations when it pleases and
accepts at most `Capacity` of them. `PoolSize` is `--pool-sz`, `MaxBurst` is
`max_burst_size`. A burst *fits* when pool, burst size and ingress queue are
at least as large; `AnsweredAsProcessed` and `FittingBurstReturns` are stated
for those, `OpsReturned` for all. The passing run has bursts that fit (up to
3), bursts of 4 that the queue takes in part and bursts of 5 that the pool of 4
is too small for. An operation that comes back unprocessed leaves the status of
its job as it was (`Answer`).

### MemifControl and ChannelGrant

An action is one call of `memif_control_fd_handler`: it reads one message and,
while the descriptor is watched for writing, sends one. Sockets with the
messages under way, the listen queue and what `recvmsg` reports after a close
are the kernel's and marked external. The two calls that block a thread are
states of their own: `recvmsg` on a pending socket (`reading`) and `connect`
while the listen queue is full (`ticking` stays). A process may leave at any
point (`ClientCrash`, `ServerCrash`, `DeleteSlave`); `MasterFault` and
`PendingFault` are the two places where the handler ends the server itself.
Version, mode and secret agree, as this application builds them.

The run has two client processes with two connections each, three interfaces,
three sockets, a listen queue of one and two departures. `MCNext` takes every
step of `Next` that the fairness speaks of, and restricts only when a process
starts or leaves, to two groups of behaviours. *Rivals*: two clients want one
interface; one can take over from the other, come back while its old connection
is not yet noticed, and meet a restarted server. *Crowd*: both connections of
one process are down while the server starts, its timer handler requests them
one after the other, and a third connection takes the only place in the listen
queue. Then the server can read the first connection's socket while that
process waits in `connect` for its second one (`WaitCycle`): both wait for
ever, unless somebody leaves. It is the one exception of `EventuallyConnected`.
The code calls `listen` with a backlog of 1 (`main.c:887`), for which Linux
keeps two places; filling the second takes one more client and changes nothing
else. One region and one ring per direction keep the run small; with two
regions the messages only repeat.

### ReconnectTimer

A step is the part of a library function up to its next use of the counter or
the timer. `Serial` excludes overlapping library calls, to tell what the
algorithm does from what the missing lock does; both runs have it. `Wrap`
stands for 2^16 and is larger than any value the counter reaches by counting,
so that only a decrement below zero wraps, as in the code.

### ConnLifecycle

`connected` (of `Memif_client`, no lock) and `active` (of the agent, under the
recursive mutex) are two sets; `queues` are the connections with mapped
memory. Application threads go through the steps of `send` and `poll` with the
mutex held; the epoll thread, or a thread in `conn_free`, goes through
`Drop` (`on_disconnect`), `Deactivate` (`on_disconnected`, takes the mutex),
`FreeQueues` and `Remove`. `room` says whether the request ring has room. With
`Serial`, nothing is done for a connection by the epoll thread while another
thread frees it. `on_interrupt02_poll` repeats while a burst leaves something
in the ring (`BurstAgain`), and its callback may send (`CallbackReturn`): when
answers keep coming that fast, `poll` keeps the mutex for ever, which is the
exception `CallsReturn` states. The run has two threads on one connection, up
to two rounds per poll (`MaxPolls`), two bursts of jobs under way (`MaxBursts`)
and one loss of the server; `life_race` has two connections with a thread each.

### JobCodec

The four conversions as functions on buffers of a context, three lengths and a
payload; buffers keep what the job before left in them. Cells stand for bytes.
Two jobs of all shapes follow each other: no data, data in pieces, data that
just fit, data that do not, buffers and keys that are NULL (passed over by the
copy), an outbuff that is missing, too short or enough, and any status the
application may have left in the job, since `send` does not set it. Both sides
run the same decoder. When a ciphering job arrives with the status SUCC, the
decoder of the server copies to the client's outbuff address: the server ends
(`dead`), or something of its own is overwritten and it goes on.

### MemoryLayout, MemcpyFast and SharedBuffers

`MemoryLayout` fills one ring per step, with slot numbers and offsets reduced
to their widths. `MemcpyFast` is a set of moves `<<offset, length>>`; both
instruction sets share the actions, with their own block sizes. In
`SharedBuffers` the target of a copy lies in a buffer of the layout, which
gives its alignment. Slot numbers have 4 bits and offsets 13 bits in the run;
the arguments are all small ones that fit, those that just fit included.
Every size up to 1700 bytes is copied (two rounds of the largest block and all
tails) from five starting points, besides the edge sizes in small buffers.
Arguments whose slot numbers or offsets wrap are excluded by
`LayoutAssumption`: what is shown is that nothing overlaps up to the last one
that fits, not what happens beyond. If the region of the rings cannot be made,
nobody looks at the error and the process ends when it writes to it
(`RingRegionFails`).

### DeviceOptions and ServerStart

An argument is groups separated by `,` of numbers separated by `:`, which both
tokenisers read in their own way; 32 and 64 bits are 8 and 16 values. Each
parser stores in the order of the code, so that a failed range leaves its
minimum and increment behind. `ServerStart` goes on with the devices in the
order of their `--vdev` arguments, one action per call that can fail, the
pools, `_enabled_cdevs` and `algo2cdev_id_map`, and the connections, which the
epoll thread may report while `main` still allocates others. One option per
line, every option and every argument of the list; no device, two or three of
three kinds in every order, the one of `ciph_app.xml` among them.

## Runs

| run | result | shows |
|---|---|---|
| `datapath` | pass | a client that may send without polling and sends from its callback: every job is accounted for (`NoSilentLoss`), the server drops only while more than a ring of jobs is outstanding (`DropsOnlyBeyondRing`), response buffers are offered whole, responses come processed and in order, the rings implement `JobChannel`, `send` returns although nobody polls (`SendReturns`), and `RingInv`, the invariant of the proofs |
| `server_sessions` | pass | a session has one owner, is live while a device uses it and gone when its channel is; queues are mapped while polled; a registry with a free slot finds room |
| `device_burst` | pass | a burst that fits returns, every job answered by the result of its own operation; no call that returns keeps operations |
| `device_full_ingress` | violation | a partial enqueue makes `run_jobs_inner` loop for ever (finding 1) |
| `control` | pass | both ends of a connection agree on its memory, every descriptor has one owner, interfaces are granted to one client at a time (`ChannelGrant`) and given up again (`EventuallyReleased`), a client without a rival gets connected unless the server and a process with two connections wait for each other (`EventuallyConnected`, `WaitCycle`) |
| `timer` | pass | `disconn_slaves` is at least the number of slaves that are down; a process with one connection always connects again |
| `timer_two` | violation | a second `memif_create` can disarm the timer that the first connection waits for (finding 2) |
| `life` | pass | no call uses queues that were unmapped, a freed connection leaves nothing behind (both if `conn_free` and the epoll thread exclude each other); `conn_alloc`, `send`, `poll` and `conn_free` return, also when the server goes while `send` waits for room with the mutex held, unless a `poll` on the connection is kept busy for ever by its own callback |
| `life_race` | violation | `conn_free` and the epoll thread work on one memif connection at the same time (finding 3) |
| `codec` | pass | the server sees the job that was sent, and a ciphering is reported as successful exactly when this job's result is in its outbuff, although buffers are used again and whatever status the job was sent with |
| `buffers` | pass | no two slots and no two rings share a byte; a copy moves all bytes and touches no other slot's buffer |
| `start` | pass | options that are accepted leave usable sizes; a connected client finds callbacks and started devices; jobs of both algorithms run on their device exactly when the first two `--vdev` arguments are aesni and snow3g |

Deadlock is checked except in `buffers`, `codec` and `start`, whose
computations end, and in `control`, `timer` and `timer_two`, where nothing is
left to do once everybody is connected and the bounded departures are used up.

The other modules have a `TypeOK` too; it lists the values of their variables
and holds in the same instances, but only that of `JobDataPath`, which is also
proved, is part of a run.

### Fairness

* `datapath`: the server thread keeps polling (the main loop of `ciph_app`
  waits for no client) and a client inside `send` or `poll` runs on. Whether
  the application calls them is left open.
* `device_burst`, `device_full_ingress`: the thread inside `run_jobs_inner`
  runs on and the device processes what it holds.
* `control`: weak fairness of the timer (periodic), of the restart of the
  server (its service manager) and of each epoll thread for each ready
  descriptor; strong fairness for the server's side of a connection, because
  other descriptors can block the thread in between and epoll reports ready
  descriptors in turn. Nobody has to create an interface or to leave.
* `timer`, `timer_two`: the epoll thread, a thread inside `memif_create` or
  `memif_delete`, and the restart of the server.
* `life`: weak fairness of every thread that holds what it needs, of a running
  server and of its restart; strong fairness where a mutex is taken (`Takes`,
  `Deactivate`, `Activate`) and of the events of the epoll thread. The mutex is
  free infinitely often between calls, and the calling threads block on it;
  glibc's mutexes do not queue, so this is an assumption about scheduling.
* `server_sessions` checks safety only and assumes no fairness: `poll_all` may
  retake a mutex before the epoll thread gets it.

## Findings

Each of these is a run that ends in a violation.

1. `device_full_ingress`: after a partial enqueue `ops_needed` is 0 for ever,
   although `ops_unused` is kept for devices "whose ingress queue can fill up"
   (`dpdk_cryptodev_client.cpp:1171`). With the defaults (8192 operations, 2048
   descriptors, bursts of 64) the queue does not fill.
2. `timer_two`: `memif_request_connection` decrements `disconn_slaves` for a
   slave that `memif_create` has not counted yet, which disarms the timer while
   another slave waits for it; the header promises that "every disconnected
   memif in slave mode will send connection request" (`libmemif.h:552`).
3. `life_race`: `conn_free` calls `memif_delete` without a lock while the epoll
   thread may be connecting the same connection, as in the trace of the run, or
   disconnecting it; libmemif lists "Multi-thread support" below "Multiple
   queues" (`libmemif_doc.md:21`).

Met while modelling; the passing runs are stated so that they leave these
out, in the places named:

* `poll` turns its size into a number of bursts and may return more than the
  "max size of completed jobs to return" (`ciph_agent_c.h:48`; `PollCount`).
* When the operation pool is too small for a burst, the error of
  `run_jobs_inner` is ignored and its jobs are answered SUCC
  (`AnsweredAsProcessed` without `Fits`). When a burst is longer than
  `max_burst_size`, its second part is filled from the first jobs again, as
  the comment at `dpdk_cryptodev_client.cpp:1129` warns.
* A client that leaves before the server has handled its handshake can end the
  server: `DISCONNECT` on a pending socket is handled without a connection, and
  a handler goes on with a connection that the call before it has closed
  (`PendingFault`, `MasterFault`; `main.c:1360`).
* While the server waits in `recvmsg` for the first message of one client,
  other clients fill the listen queue and their `connect` blocks
  (`main.c:1350`; `reading`, `ticking`). If the client it waits for is among
  them with another connection, neither goes on (`WaitCycle`).
* A completion callback that sends on can keep `poll` from returning, with the
  mutex held (`memif_client.cpp:445`; `CallsReturn`).
* `send` passes the status of the job on as the application left it; the server
  takes SUCC in a ciphering job for a result to be copied out (`JobCodec`).
* The start accepts `--vdev` arguments in an order in which jobs are refused or
  go to the wrong device (`JobsOnTheirDevice`), because device ids are used as
  indices.
* An error on a control descriptor is counted twice in `disconn_slaves`
  (`main.c:1375`): with two connections, one of them deleted, the count and the
  timer no longer agree (`DownIsRetried` with `MayDelete`). Without `Serial`
  the unlocked counter is exposed to a race (`main.c:1202`).
* `conn_alloc` returns once `Memif_client` has set `connected`
  (`memif_client.cpp:609`), which the epoll thread does before it sets the
  agent's active flag; the first `send` may still be refused (`Refused`).
* A range that fails to parse keeps the increment it has stored
  (`options_parsing.cpp:259`).
* With several devices of a kind the message says "use last", the code uses the
  first (`dpdk_cryptodev_client.cpp:375` and `:379`). The header has one
  operation pool; each device makes one, and the last is used (`:523`).

## Proofs

All proofs are for arbitrary constants under the named assumptions. Every
inductive invariant was checked with TLC on the instance of its component
before it was proved; `RingInv` is part of a run.

**`RingInv`** (`JobDataPathProofs`; `RingAssumption`, `DataPathAssumption`:
the index space is a multiple of the ring size and at least twice as large; any
burst size, credit and number of jobs). It gives `TypeCorrect`,
`NothingLostSilently`, `OffersAreFull`, `DropsAreBeyondRing` (an action
property) and `CreditIsEnough` (with at most a ring of jobs outstanding nothing
is ever dropped). None of these is inductive: each speaks of wrapped indices,
and a step changes an index by a difference of other wrapped indices. `RingInv`
ties the indices to the unbounded private counters (`IndicesAreCounters`),
bounds the differences of counters by the ring size (`RingsBounded`), fixes the
buffer arrays as runs of consecutive indices (`BuffersAreRuns`) and says what
the buffers between the counters hold (`RequestsInPlace`, `LengthsReset`).
`JobDataPathLemmas` begins with the arithmetic: when a difference of counters
is below the index space it is the difference of the wrapped indices; two
indices less than a ring apart denote different slots. There is one lemma per
action, then one step lemma.

**The job channel** (`JobDataPathRefinement`, same assumptions).
`RingsImplementChannel` proves the refinement `ImplementsChannel`. `View`
restates the mapped variables with counters: requests, batch, responses and
held answers are what a run of buffers from a counter on holds (`Read`). Then
publishing appends a run, receiving cuts one off (`ReadSplit`, `ReadJoin`), and
serialising, copying and processing write only buffers outside the runs the
channel sees, because no ring holds more than its size. `SendTx`, `ServerRx`,
`ServerAlloc`, `ServerTx`, `PollRx` and `PollRefill` are the channel's `Send`,
`Take`, `Keep`, `Answer`, `Receive` and `Release` (or nothing, for an empty
burst); all other steps are invisible. The only fact needed beyond `RingInv` is
that `send` takes at most `MAX_MEMIF_BUFS` buffers at a time (`SendsBounded`).

**`AnswersOrdered`** (`JobDataPathRefinement`). `ProcessedInOrder` compares
only answers that are decoded together with the last one before; its invariant
has to follow them from the server's copy on. It says that the answers between
`cFreed` and the last one copied are increasing and below the first request the
server still has to copy, that the next one to decode comes after the last one
decoded, and that what is published is processed. A copy keeps it because
`RequestsInPlace` makes the new jobs consecutive numbers that start where all
earlier ones end, whatever was dropped in between. The theorem is
`JobsArriveProcessedInOrder`.

**`SessInv`** (`ServerSessionsLemmas`; `SessionsAssumption`: as many sessions
as registry slots, ids wide enough for device and slot). For any number of
channels, devices, sessions and jobs per burst it gives `OwnedOnceHolds`,
`InactiveChannelsAreClean`, `QueuesAreMapped`, `DeviceSessionsStayLive` and
`CreationAlwaysHasRoom`. None is inductive. The argument starts with the mutex
(`LockInv`): a thread inside its critical section holds the mutex of the
channel at hand, and the application thread's channel is active. From that,
the epoll thread never touches the channel being served (`MapInv`), a thread
that removes a session owns the slot it works on (`VictimInv`), and a session
is in the pool, with `create_session` or in one slot (`OwnInv`), where a slot
whose session was freed but not yet forgotten does not count. `PrivInv` says
which device's private data a session has, `BurstInv` that a cipher job which
passed `preprocess_jobs` keeps its session until postprocessing, `DeviceInv`
what is on the device. `CreationHasRoom` is a counting argument: slots in use
map one to one to sessions outside the pool, and there is one that is not in a
slot.

**`BurstInv`** (`DeviceBurstProofs`; `DeviceAssumption`, and as a hypothesis of
each theorem that a burst has at most `max_burst_size` jobs, which the comment
at `dpdk_cryptodev_client.cpp:1129` asks for). It gives `OpsAreReturned` and
`JobsAnsweredAsProcessed` for every size of the pool and the ingress queue. It
counts operations in the pool, in hand and on the device (`Accounted`), says
for which jobs they are (`Portions`), and that position `i` of the device's
queue is the `i`-th job after those dequeued (`Matched`). Without the
hypothesis it does not hold: when a second round finds the pool empty,
`run_jobs_inner` returns while operations of the first are on the device.

**`LayoutInv`** (`SharedBuffersProofs`; `LayoutAssumption`: slot numbers and
offsets of the arguments fit their widths). It says what the rings filled so
far contain and gives `BuffersNeverOverlap` and `RingsNeverOverlap`. The
argument is that under the assumption no reduction to a width changes a value,
so that slots are numbered without gaps and buffers are multiples of the buffer
size apart. A sum of products is beyond the solver, hence the lemmas
`ProductGrows`, `ProductNat`, `ProductNext`.

**`CopyInv` and `Aim`** (`SharedBuffersProofs`; `CopyAssumption`: places and
lengths are natural numbers). They give `CopyIsComplete` and
`CopiesStayInTheirBuffer` for every size, every alignment and both builds.
`CopiesAll` speaks of finished copies only; `CopyInv` says that meanwhile the
bytes before `off` have been moved and `n` are left, that no more than two
registers are left when the tail is reached, and that a copy that gets there is
larger than a register: the last move starts before `off`, but not before the
first byte. `Aim` ties the call to a slot of a finished layout, which
`BuffersApart` then separates from all others.

**`LifeInv`** (`ConnLifecycleProofs`; `LifecycleAssumption`, and `Serial` as a
hypothesis of each theorem). For any threads and connections it says which
thread can be where, who holds which mutex how deeply, and how `handle`, `fd`,
`queues`, `connected` and `active` lie within each other meanwhile. It gives
`QueuesStayMapped` and `FreedStaysClean`. `UsesMappedQueues` alone is not
inductive: that nobody is inside the queues when `FreeQueues` runs follows from
`Deactivate` having taken the mutex before and from `active` being tested under
it. The run `life_race` shows that `Serial` cannot be dropped.

Only model-checked:

* All liveness properties (`SendReturns`, `FittingBurstReturns`, `CallsReturn`,
  `EventuallyConnected`, `EventuallyReleased`, `AloneIsRetried`): fairness and
  `ENABLED` are out of the prover's reach.
* `MemifControl` with its refinement of `ChannelGrant`, `ReconnectTimer`,
  `JobCodec`, `DeviceOptions` and `ServerStart`: not proved.

## Plan

1. Proofs: the inductive invariant of `MemifControl` (`MemoryAgreed`,
   `DescriptorsOwned`, then the refinement of `ChannelGrant`) and of
   `ReconnectTimer` (`CountCoversDown`).
2. `MemifControl` with two regions and departures in the crowd.
3. Composition: the server step of `JobDataPath` as the burst of
   `ServerSessions`, over several queues.

## Not modelled

* The per-thread API and the interrupt mode of libmemif: the application uses
  neither.
* Printing of details and statistics, the statistics interval and log set-up,
  CRC (debug output only), the test client, containers and build scripts.
* `poll` with size 0: its loop counter would wrap to 2^32-1; `PollSizes` holds
  positive numbers. Connection ids of 32 and more: the callers in the
  repository do not pass them. Keys and vectors longer than a buffer has room
  for: the code does not check them and `CodecAssumption` excludes them.
* The callbacks of an agent as state: its `conn_free` clears them without the
  mutex (`ciph_agent.cpp:459`), while a thread inside `poll` may be between the
  test and the call (`:377`).
* `verify_devices_capabilities`, which nothing calls.
* The exit command, which makes the epoll thread join itself.
* Members that the constructors leave unset are taken as zero, as the static
  objects of the application are.
