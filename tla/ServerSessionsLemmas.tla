------------------------ MODULE ServerSessionsLemmas ------------------------
(***************************************************************************)
(* The inductive invariant of ServerSessions, and the steps that preserve  *)
(* its parts.                                                              *)
(*                                                                         *)
(* None of the five safety properties is inductive.  The invariant says    *)
(* who holds which mutex (LockInv), why the channel at hand stays mapped   *)
(* (MapInv), what a thread that removes a session has in hand (VictimInv), *)
(* where a session can be (OwnInv) and whose private data it has           *)
(* (PrivInv), and that a job which passed preprocess_jobs keeps its        *)
(* session (BurstInv, DeviceInv).                                          *)
(***************************************************************************)
EXTENDS ServerSessions, TLAPS

\* The application thread is between lock and unlock of _conn_m; so is the
\* epoll thread, in on_disconnected.
AppHolds == apc \in AppStates \ {"scan", "lock"}
EpollHolds == epc \in {"remove", "clear", "free", "forget"}

\* A mutex is held by the thread that is in its critical section, on the
\* channel at hand; the channel the application thread serves is active.
LockInv ==
  /\ AppHolds => lock[ach] = "app" /\ ach \in active
  /\ EpollHolds => lock[ech] = "epoll"
  /\ \A c \in Channels : lock[c] = "app" => c = ach /\ AppHolds
  /\ \A c \in Channels : lock[c] = "epoll" => c = ech /\ EpollHolds

\* Active channels are mapped, and a channel being torn down is not active.
MapInv ==
  /\ active \subseteq mapped
  /\ epc = "on_connected" => ech \in mapped
  /\ EpollHolds \/ epc = "teardown" => ech \notin active

\* A thread that removes a session has a slot that holds one in hand.
VictimInv ==
  /\ apc \in {"clear", "free", "forget"} =>
       victim["app"] \in Devs \X Slots /\ VictimSession("app", ach) # NoSession
  /\ epc \in {"clear", "free", "forget"} =>
       victim["epoll"] \in Devs \X Slots /\ VictimSession("epoll", ech) # NoSession

\* Session s belongs to a slot.
Owns(c, d, i, s) == registry[c][d][i] = s /\ ~Dangling(c, d, i)

\* A session is in the pool, with create_session, or in exactly one slot.
OwnInv ==
  /\ apc = "init" => made \in Devs \X Sessions
  /\ apc # "init" => made = Nothing
  /\ made[2] \notin sessPool
  /\ \A c \in Channels, d \in Devs, i \in Slots, s \in Sessions :
       Owns(c, d, i, s) => s \notin sessPool /\ s # made[2]
  /\ \A c1, c2 \in Channels, d1, d2 \in Devs, i1, i2 \in Slots, s \in Sessions :
       Owns(c1, d1, i1, s) /\ Owns(c2, d2, i2, s) => c1 = c2 /\ d1 = d2 /\ i1 = i2
  /\ \A s \in Sessions :
       \/ s \in sessPool
       \/ s = made[2]
       \/ \E c \in Channels, d \in Devs, i \in Slots : Owns(c, d, i, s)

\* A slot whose session has lost its private data and is about to be freed.
Cleared(c, d, i) ==
  \/ apc = "free" /\ ach = c /\ victim["app"] = <<d, i>>
  \/ epc = "free" /\ ech = c /\ victim["epoll"] = <<d, i>>

\* A session outside the slots has no private data, one in a slot has that
\* of the slot's device.
PrivInv ==
  /\ \A s \in Sessions : s \in sessPool \/ s = made[2] => priv[s] = NoDev
  /\ \A c \in Channels, d \in Devs, i \in Slots, s \in Sessions :
       Owns(c, d, i, s) => priv[s] = IF Cleared(c, d, i) THEN NoDev ELSE d

\* A session is created for a job of the burst, and a cipher job that passed
\* preprocess_jobs has its session until the devices are done.
BurstInv ==
  /\ apc = "init" => Len(burst) < MaxBurst
  /\ apc \in {"post", "clear", "free", "forget"} => cursor >= 1
  /\ apc \in {"scan", "lock", "poll", "unlock"} => burst = <<>>
  /\ apc \in {"pre", "init", "run", "device"} =>
       \A j \in DOMAIN burst :
         burst[j].type = "cipher" /\ burst[j].status = "SUCC"
           => GetSession(ach, burst[j].id) # NoSession

\* What is on a device are the sessions of the device's cipher jobs.
DeviceInv ==
  /\ apc = "device" =>
       /\ cursor \in Devs
       /\ onDevice = {<<cursor, GetSession(ach, burst[j].id)>> : j \in DevJobs(cursor)}
  /\ apc # "device" => onDevice = {}

SessInv ==
  /\ TypeOK /\ LockInv /\ MapInv /\ InactiveChannelsClean /\ VictimInv
  /\ OwnInv /\ PrivInv /\ BurstInv /\ DeviceInv

-----------------------------------------------------------------------------
\* A step that moves no session and leaves the removals where they are.
LEMMA OwnFrame ==
  ASSUME OwnInv, PrivInv, UNCHANGED <<registry, sessPool, priv, made>>,
         apc' = "init" <=> apc = "init",
         \A c \in Channels, d \in Devs, i \in Slots :
           /\ Dangling(c, d, i)' <=> Dangling(c, d, i)
           /\ Cleared(c, d, i)' <=> Cleared(c, d, i)
  PROVE  OwnInv' /\ PrivInv'
<1>1. \A c \in Channels, d \in Devs, i \in Slots, s \in Sessions :
        Owns(c, d, i, s)' <=> Owns(c, d, i, s)
  BY Zenon DEF Owns
<1>2. OwnInv'
  BY <1>1 DEF OwnInv
<1>3. PrivInv'
  BY <1>1 DEF PrivInv
<1> QED
  BY <1>2, <1>3, Zenon

\* rte_cryptodev_sym_session_clear on the session of a slot.
LEMMA OwnClear ==
  ASSUME TypeOK, OwnInv, PrivInv,
         NEW c0 \in Channels, NEW d0 \in Devs, NEW i0 \in Slots, NEW s0 \in Sessions,
         Owns(c0, d0, i0, s0),
         \A s \in Sessions : priv'[s] = IF s = s0 THEN NoDev ELSE priv[s],
         UNCHANGED <<registry, sessPool, made>>,
         apc' = "init" <=> apc = "init",
         \A c \in Channels, d \in Devs, i \in Slots :
           /\ Dangling(c, d, i)' <=> Dangling(c, d, i)
           /\ Cleared(c, d, i)' <=> Cleared(c, d, i) \/ (c = c0 /\ d = d0 /\ i = i0)
  PROVE  OwnInv' /\ PrivInv'
<1>1. \A c \in Channels, d \in Devs, i \in Slots, s \in Sessions :
        Owns(c, d, i, s)' <=> Owns(c, d, i, s)
  BY Zenon DEF Owns
<1>2. OwnInv'
  BY <1>1 DEF OwnInv
<1>3. \A c \in Channels, d \in Devs, i \in Slots, s \in Sessions :
        Owns(c, d, i, s) => (s = s0 <=> (c = c0 /\ d = d0 /\ i = i0))
  BY DEF OwnInv, Owns
<1>4. PrivInv'
  BY <1>1, <1>3 DEF PrivInv
<1> QED
  BY <1>2, <1>4, Zenon

\* rte_cryptodev_sym_session_free on a session without private data.
LEMMA OwnFree ==
  ASSUME TypeOK, OwnInv, PrivInv,
         NEW c0 \in Channels, NEW d0 \in Devs, NEW i0 \in Slots, NEW s0 \in Sessions,
         Owns(c0, d0, i0, s0), Cleared(c0, d0, i0),
         sessPool' = sessPool \cup {s0}, UNCHANGED <<registry, priv, made>>,
         apc' = "init" <=> apc = "init",
         \A c \in Channels, d \in Devs, i \in Slots :
           /\ Dangling(c, d, i)' <=> Dangling(c, d, i) \/ (c = c0 /\ d = d0 /\ i = i0)
           /\ Cleared(c, d, i)' <=> Cleared(c, d, i) /\ ~(c = c0 /\ d = d0 /\ i = i0)
  PROVE  OwnInv' /\ PrivInv'
<1>1. \A c \in Channels, d \in Devs, i \in Slots, s \in Sessions :
        Owns(c, d, i, s)' <=> Owns(c, d, i, s) /\ s # s0
  BY DEF Owns, OwnInv
<1>2. s0 # made[2]
  BY Zenon DEF OwnInv
<1>3. OwnInv'
  BY <1>1, <1>2 DEF OwnInv
<1>4. priv[s0] = NoDev
  BY Zenon DEF PrivInv
<1>5. \A c \in Channels, d \in Devs, i \in Slots, s \in Sessions :
        Owns(c, d, i, s) /\ s # s0 => ~(c = c0 /\ d = d0 /\ i = i0)
  BY Zenon DEF Owns
<1>6. PrivInv'
  BY <1>1, <1>4, <1>5 DEF PrivInv
<1> QED
  BY <1>3, <1>6, Zenon

\* The slot of a freed session is set to NULL.
LEMMA OwnForget ==
  ASSUME TypeOK, OwnInv, PrivInv,
         NEW c0 \in Channels, NEW d0 \in Devs, NEW i0 \in Slots,
         Dangling(c0, d0, i0),
         \A c \in Channels, d \in Devs, i \in Slots :
           registry'[c][d][i] = IF c = c0 /\ d = d0 /\ i = i0 THEN NoSession
                                ELSE registry[c][d][i],
         UNCHANGED <<sessPool, priv, made>>,
         apc' = "init" <=> apc = "init",
         \A c \in Channels, d \in Devs, i \in Slots :
           /\ Dangling(c, d, i)' <=> Dangling(c, d, i) /\ ~(c = c0 /\ d = d0 /\ i = i0)
           /\ Cleared(c, d, i)' <=> Cleared(c, d, i)
  PROVE  OwnInv' /\ PrivInv'
<1>1. \A c \in Channels, d \in Devs, i \in Slots, s \in Sessions :
        Owns(c, d, i, s)' <=> Owns(c, d, i, s)
  BY SessionsAssumption DEF Owns
<1>2. OwnInv'
  BY <1>1 DEF OwnInv
<1>3. PrivInv'
  BY <1>1 DEF PrivInv
<1> QED
  BY <1>2, <1>3, Zenon

-----------------------------------------------------------------------------
\* The halves of a session id are numbers, and the ids a slot can have fit.
LEMMA IdHalves ==
  ASSUME NEW id \in 0 .. NoSessId
  PROVE  DevOf(id) \in Nat /\ SlotOf(id) \in Nat
BY SessionsAssumption DEF DevOf, SlotOf, NoSessId

LEMMA IdBounds ==
  ASSUME NEW d \in Devs, NEW i \in Slots
  PROVE  SessId(d, i) \in 0 .. NoSessId /\ NoSessId \in 0 .. NoSessId
<1>1. d \in Nat /\ d + 2 <= IdRange /\ i \in Nat /\ i + 2 <= IdRange /\ IdRange \in Nat
  BY SessionsAssumption DEF Devs, Slots
<1>2. d * IdRange \in Nat /\ d * IdRange <= (IdRange - 2) * IdRange
  BY <1>1
<1>3. (IdRange - 2) * IdRange = IdRange * IdRange - 2 * IdRange
  BY <1>1
<1>4. IdRange * IdRange \in Nat
  BY <1>1
<1> QED
  BY <1>1, <1>2, <1>3, <1>4 DEF SessId, NoSessId

\* A session that get_session finds is in a slot of the channel.
LEMMA GetSessionFound ==
  ASSUME TypeOK, NEW c \in Channels, NEW id \in 0 .. NoSessId,
         GetSession(c, id) # NoSession
  PROVE  /\ DevOf(id) \in Devs /\ SlotOf(id) \in Slots
         /\ GetSession(c, id) = registry[c][DevOf(id)][SlotOf(id)]
         /\ GetSession(c, id) \in Sessions
<1>1. DevOf(id) < NumDevs /\ SlotOf(id) < MaxSess
  BY Zenon DEF GetSession
<1>2. DevOf(id) \in Devs /\ SlotOf(id) \in Slots
  BY <1>1, IdHalves, SessionsAssumption DEF Devs, Slots
<1> QED
  BY <1>1, <1>2 DEF GetSession, TypeOK

LEMMA NextChannelType ==
  ASSUME ach \in Channels
  PROVE  NextChannel \in Channels
BY SessionsAssumption DEF NextChannel, Channels

-----------------------------------------------------------------------------
\* Setting the status of a job yields a job with the same session id.
LEMMA JobSet ==
  ASSUME NEW r \in Jobs, NEW st \in {"SUCC", "FAILED"}
  PROVE  /\ [r EXCEPT !.status = st] \in Jobs
         /\ [r EXCEPT !.status = st].id = r.id
         /\ [r EXCEPT !.status = st].type = r.type
         /\ [r EXCEPT !.status = st].status = st
BY Zenon DEF Jobs

\* A job that is appended to the burst, or whose status is set, leaves it a
\* burst of jobs.
LEMMA BurstAppend ==
  ASSUME TypeOK, Len(burst) < MaxBurst, NEW job \in Jobs
  PROVE  /\ Append(burst, job) \in Seq(Jobs)
         /\ Len(Append(burst, job)) <= MaxBurst
BY SessionsAssumption DEF TypeOK

LEMMA BurstSet ==
  ASSUME TypeOK, NEW st \in {"SUCC", "FAILED"}, NEW f \in SUBSET (DOMAIN burst)
  PROVE  LET b == [j \in DOMAIN burst |->
                     IF j \in f THEN [burst[j] EXCEPT !.status = st] ELSE burst[j]]
         IN  b \in Seq(Jobs) /\ Len(b) = Len(burst)
<1> DEFINE b == [j \in DOMAIN burst |->
                   IF j \in f THEN [burst[j] EXCEPT !.status = st] ELSE burst[j]]
<1>1. burst \in Seq(Jobs)
  BY Zenon DEF TypeOK
<1>2. \A j \in DOMAIN burst : burst[j] \in Jobs
  BY <1>1
<1>3. \A j \in DOMAIN burst : b[j] \in Jobs
  BY <1>2, JobSet, Zenon
<1>4. Len(burst) \in Nat /\ DOMAIN burst = 1 .. Len(burst)
  BY <1>1
<1>5. b \in [1 .. Len(burst) -> Jobs]
  BY <1>3, <1>4, Zenon
<1> HIDE DEF b
<1>6. b \in Seq(Jobs) /\ Len(b) = Len(burst)
  BY <1>4, <1>5
<1> QED
  BY <1>6, Zenon DEF b

\* Every step keeps the types.
LEMMA TypeStep ==
  ASSUME TypeOK, VictimInv, OwnInv, BurstInv, Next
  PROVE  TypeOK'
<1> USE DEF conns, app, epoll, pools
<1>1. CASE AppScan
  BY <1>1, NextChannelType, Zenon DEF AppScan, TypeOK, AppStates
<1>2. CASE AppLock
  BY <1>2, NextChannelType, Zenon DEF AppLock, TypeOK, AppStates, Threads
<1>3. CASE AppUnlock
  BY <1>3, NextChannelType, Zenon DEF AppUnlock, TypeOK, AppStates
<1>4. CASE AppPoll \/ PreDone \/ RunDone
  BY <1>4 DEF AppPoll, PreDone, RunDone, TypeOK, AppStates
<1>5. CASE AppAnswer
  BY <1>5, SessionsAssumption DEF AppAnswer, TypeOK, AppStates
<1>6. ASSUME NEW type \in {"create", "close", "cipher", "unknown"}, NEW id \in 0 .. NoSessId, PreSkip(type, id)
      PROVE  TypeOK'
  <2>1. Job(type, id, "FAILED") \in Jobs
    BY Zenon DEF Job, Jobs
  <2> QED
    BY <1>6, <2>1, BurstAppend, Zenon DEF PreSkip, MoreJobs, Preprocessed, TypeOK, AppStates
<1>7. ASSUME NEW id \in 0 .. NoSessId, PreClose(id)
      PROVE  TypeOK'
  <2>1. Job("close", id, "SUCC") \in Jobs
    BY Zenon DEF Job, Jobs
  <2> QED
    BY <1>7, <2>1, BurstAppend, Zenon DEF PreClose, MoreJobs, Preprocessed, TypeOK, AppStates
<1>8. ASSUME NEW id \in 0 .. NoSessId, PreCipher(id)
      PROVE  TypeOK'
  <2>1. Job("cipher", id, IF GetSession(ach, id) = NoSession THEN "FAILED" ELSE "SUCC") \in Jobs
    BY Zenon DEF Job, Jobs
  <2> QED
    BY <1>8, <2>1, BurstAppend, Zenon DEF PreCipher, MoreJobs, Preprocessed, TypeOK, AppStates
<1>9. ASSUME NEW dev \in Devs, NEW s \in Sessions, PreCreate(dev, s)
      PROVE  TypeOK'
  BY <1>9, Zenon DEF PreCreate, MoreJobs, TypeOK, AppStates
<1>10. Job("create", NoSessId, "FAILED") \in Jobs
  BY IdBounds, SessionsAssumption DEF Job, Jobs, Devs, Slots
<1>11. CASE PreCreateFails
  BY <1>10, <1>11, BurstAppend, Zenon DEF PreCreateFails, MoreJobs, Preprocessed, TypeOK, AppStates
<1>12. CASE PreInit
  <2>1. made[1] \in Devs /\ made[2] \in Sessions
    BY <1>12, Zenon DEF PreInit, OwnInv
  <2>2. PICK i \in Slots : /\ registry' = [registry EXCEPT ![ach][made[1]][i] = made[2]]
                           /\ Preprocessed(Job("create", SessId(made[1], i), "SUCC"))
    BY <1>12, Zenon DEF PreInit
  <2>3. Job("create", SessId(made[1], i), "SUCC") \in Jobs
    BY <2>1, IdBounds, Zenon DEF Job, Jobs
  <2>4. registry' \in [Channels -> [Devs -> [Slots -> Sessions \cup {NoSession}]]]
    BY <2>1, <2>2 DEF TypeOK
  <2>5. Len(burst) < MaxBurst
    BY <1>12, Zenon DEF PreInit, BurstInv
  <2> QED
    BY <1>12, <2>1, <2>2, <2>3, <2>4, <2>5, BurstAppend, Zenon DEF PreInit, Preprocessed, TypeOK, AppStates
<1>13. CASE PreInitFails
  <2>1. made[2] \in Sessions
    BY <1>13, Zenon DEF PreInitFails, OwnInv
  <2>2. Len(burst) < MaxBurst
    BY <1>13, Zenon DEF PreInitFails, BurstInv
  <2> QED
    BY <1>10, <1>13, <2>1, <2>2, BurstAppend, Zenon DEF PreInitFails, Preprocessed, TypeOK, AppStates
<1>14. CASE RunEnqueue
  <2>1. cursor \in Devs
    BY <1>14, SessionsAssumption DEF RunEnqueue, TypeOK, Devs
  <2>2. \A j \in DOMAIN burst : burst[j] \in Jobs
    BY DEF TypeOK
  <2>3. \A j \in DOMAIN burst : GetSession(ach, burst[j].id) \in Sessions \cup {NoSession}
    BY <2>2, GetSessionFound, Zenon DEF Jobs, TypeOK
  <2>4. \A j \in DevJobs(cursor) : j \in DOMAIN burst
    BY Zenon DEF DevJobs
  <2>5. onDevice' \subseteq Devs \X (Sessions \cup {NoSession})
    BY <1>14, <2>1, <2>3, <2>4 DEF RunEnqueue
  <2> QED
    BY <1>14, <2>5, Zenon DEF RunEnqueue, TypeOK, AppStates
<1>15. CASE RunDequeue
  <2>1. PICK failed \in SUBSET DevJobs(cursor) :
          burst' = [j \in DOMAIN burst |->
                      IF j \in failed THEN [burst[j] EXCEPT !.status = "FAILED"]
                      ELSE burst[j]]
    BY <1>15, Zenon DEF RunDequeue
  <2>2. failed \in SUBSET (DOMAIN burst)
    BY Zenon DEF DevJobs
  <2>3. burst' \in Seq(Jobs) /\ Len(burst') = Len(burst)
    BY <2>1, <2>2, BurstSet, Zenon
  <2> QED
    BY <1>15, <2>3 DEF RunDequeue, TypeOK, AppStates
<1>16. CASE PostSkip
  BY <1>16 DEF PostSkip, TypeOK
<1>17. ASSUME NEW st \in {"SUCC", "FAILED"}, burst' = [burst EXCEPT ![cursor].status = st]
       PROVE  burst' \in Seq(Jobs) /\ Len(burst') = Len(burst)
  <2> DEFINE f == {cursor} \cap DOMAIN burst
  <2>1. burst' = [j \in DOMAIN burst |->
                    IF j \in f THEN [burst[j] EXCEPT !.status = st] ELSE burst[j]]
    BY <1>17, Zenon DEF TypeOK
  <2>2. f \in SUBSET (DOMAIN burst)
    BY Zenon
  <2> HIDE DEF f
  <2> QED
    BY <2>1, <2>2, BurstSet, Zenon
<1>18. CASE PostCloseFails
  BY <1>17, <1>18 DEF PostCloseFails, TypeOK
<1>19. CASE PostClose
  <2>1. burst[cursor] \in Jobs
    BY <1>19 DEF PostClose, Closing, TypeOK, BurstInv
  <2> QED
    BY <1>19, <2>1, GetSessionFound, Zenon DEF PostClose, TypeOK, AppStates, Jobs, Threads
<1>20. CASE PostClear
  BY <1>20, Zenon DEF PostClear, ClearSession, TypeOK, AppStates
<1>21. CASE PostFree
  BY <1>21 DEF PostFree, FreeSession, VictimSession, VictimInv, TypeOK, AppStates
<1>22. CASE PostForget
  BY <1>17, <1>22 DEF PostForget, ForgetSession, VictimInv, TypeOK, AppStates, Threads
<1>23. ASSUME NEW ch \in Channels, EpollConnect(ch) \/ EpollDisconnect(ch)
       PROVE  TypeOK'
  BY <1>23, Zenon DEF EpollConnect, EpollDisconnect, TypeOK, EpollStates
<1>24. CASE EpollActivate \/ EpollTeardown
  BY <1>24, Zenon DEF EpollActivate, EpollTeardown, TypeOK, EpollStates
<1>25. CASE EpollDeactivate \/ EpollUnlock
  BY <1>25, Zenon DEF EpollDeactivate, EpollUnlock, TypeOK, EpollStates, Threads
<1>26. CASE EpollRemove
  BY <1>26 DEF EpollRemove, InUse, TypeOK, EpollStates, Threads
<1>27. CASE EpollClear
  BY <1>27, Zenon DEF EpollClear, ClearSession, TypeOK, EpollStates
<1>28. CASE EpollFree
  BY <1>28 DEF EpollFree, FreeSession, VictimSession, VictimInv, TypeOK, EpollStates
<1>29. CASE EpollForget
  BY <1>29 DEF EpollForget, ForgetSession, VictimInv, TypeOK, EpollStates, Threads
<1>30. NoSessId \in 0 .. NoSessId /\ SessIds \subseteq 0 .. NoSessId
  BY <1>10, SessionsAssumption, Zenon DEF Job, Jobs, NoSessId
<1> QED
  BY <1>1, <1>2, <1>3, <1>4, <1>5, <1>6, <1>7, <1>8, <1>9, <1>11, <1>12, <1>13, <1>14, <1>15,
     <1>16, <1>18, <1>19, <1>20, <1>21, <1>22, <1>23, <1>24, <1>25, <1>26, <1>27, <1>28, <1>29, <1>30, Zenon
  DEF Next, AppNext, EpollNext

-----------------------------------------------------------------------------
\* The mutexes and the connections.
LEMMA LockStep ==
  ASSUME TypeOK, LockInv, MapInv, Next
  PROVE  LockInv' /\ MapInv'
<1> USE DEF LockInv, MapInv, AppHolds, EpollHolds, AppStates, conns, app, epoll, pools
<1>1. CASE AppScan
  BY <1>1, Zenon DEF AppScan, TypeOK
<1>2. CASE AppLock
  BY <1>2 DEF AppLock, TypeOK
<1>3. CASE AppUnlock
  BY <1>3, Zenon DEF AppUnlock, TypeOK
<1>4. CASE EpollDeactivate
  BY <1>4, Zenon DEF EpollDeactivate, TypeOK
<1>5. CASE EpollUnlock
  BY <1>5, Zenon DEF EpollUnlock, TypeOK
<1>6. CASE EpollTeardown
  BY <1>6, Zenon DEF EpollTeardown, TypeOK
<1>7. CASE EpollActivate
  BY <1>7, Zenon DEF EpollActivate, TypeOK
<1>8. ASSUME NEW ch \in Channels, EpollConnect(ch) PROVE LockInv' /\ MapInv'
  BY <1>8, Zenon DEF EpollConnect, TypeOK
<1>9. ASSUME NEW ch \in Channels, EpollDisconnect(ch) PROVE LockInv' /\ MapInv'
  BY <1>9, Zenon DEF EpollDisconnect, TypeOK
<1>10. CASE EpollRemove \/ EpollClear \/ EpollFree \/ EpollForget
  BY <1>10, Zenon DEF EpollRemove, EpollClear, EpollFree, EpollForget, TypeOK
<1>11. CASE AppPoll \/ AppAnswer \/ PreDone \/ RunEnqueue \/ RunDequeue \/ RunDone
  BY <1>11, Zenon DEF AppPoll, AppAnswer, PreDone, RunEnqueue, RunDequeue, RunDone
<1>12. CASE PostSkip \/ PostCloseFails \/ PostClose \/ PostClear \/ PostFree \/ PostForget
  BY <1>12, Zenon DEF PostSkip, PostCloseFails, PostClose, PostClear, PostFree, PostForget, Closing
<1>13. CASE PreCreateFails \/ PreInit \/ PreInitFails
  BY <1>13, Zenon DEF PreCreateFails, PreInit, PreInitFails, Preprocessed, MoreJobs
<1>14. ASSUME NEW type, NEW id, PreSkip(type, id) \/ PreClose(id) \/ PreCipher(id) PROVE LockInv' /\ MapInv'
  BY <1>14, Zenon DEF PreSkip, PreClose, PreCipher, Preprocessed, MoreJobs
<1>15. ASSUME NEW dev, NEW s, PreCreate(dev, s) PROVE LockInv' /\ MapInv'
  BY <1>15, Zenon DEF PreCreate, MoreJobs
<1> QED
  BY <1>1, <1>2, <1>3, <1>4, <1>5, <1>6, <1>7, <1>8, <1>9, <1>10, <1>11, <1>12, <1>13, <1>14, <1>15, Zenon
  DEF Next, AppNext, EpollNext
\* The registry of a channel that is not active and not locked stays empty:
\* the application thread fills slots of an active channel only, and
\* on_disconnected unlocks only when no slot is in use.
LEMMA CleanStep ==
  ASSUME TypeOK, LockInv, MapInv, InactiveChannelsClean, VictimInv, OwnInv, Next
  PROVE  InactiveChannelsClean'
<1>1. CASE UNCHANGED <<active, lock, registry>>
  BY <1>1, Zenon DEF InactiveChannelsClean
<1> USE DEF InactiveChannelsClean, LockInv, MapInv, AppHolds, EpollHolds, AppStates, conns, app, epoll, pools
<1>2. CASE AppLock
  <2>1. UNCHANGED <<active, registry>>
    BY <1>2, Zenon DEF AppLock
  <2>2. \A c \in Channels : lock'[c] = "none" => lock[c] = "none"
    BY <1>2, Zenon DEF AppLock, TypeOK
  <2> QED
    BY <2>1, <2>2, Zenon
<1>3. CASE AppUnlock
  BY <1>3 DEF AppUnlock, TypeOK
<1>4. CASE PreInit
  <2>1. /\ UNCHANGED <<active, lock>> /\ ach \in active
        /\ made[1] \in Devs
    BY <1>4, Zenon DEF PreInit, Preprocessed, OwnInv
  <2>2. PICK i \in Slots : registry' = [registry EXCEPT ![ach][made[1]][i] = made[2]]
    BY <1>4, Zenon DEF PreInit
  <2>3. \A c \in Channels \ {ach} : registry'[c] = registry[c]
    BY <2>2, Zenon DEF TypeOK
  <2> QED
    BY <2>1, <2>3 
<1>5. CASE PostForget
  <2>1. UNCHANGED <<active, lock>> /\ ach \in active
    BY <1>5, Zenon DEF PostForget
  <2>2. \A c \in Channels \ {ach} : registry'[c] = registry[c]
    BY <1>5, Zenon DEF PostForget, ForgetSession, TypeOK
  <2> QED
    BY <2>1, <2>2
<1>6. CASE EpollForget
  <2>1. UNCHANGED <<active, lock>> /\ lock[ech] = "epoll"
    BY <1>6, Zenon DEF EpollForget
  <2>2. \A c \in Channels \ {ech} : registry'[c] = registry[c]
    BY <1>6, Zenon DEF EpollForget, ForgetSession, TypeOK
  <2> QED
    BY <2>1, <2>2
<1>7. CASE EpollActivate
  BY <1>7 DEF EpollActivate
<1>8. CASE EpollDeactivate
  BY <1>8 DEF EpollDeactivate, TypeOK
<1>9. CASE EpollUnlock
  <2>1. \A d \in Devs, i \in Slots : registry[ech][d][i] = NoSession
    <3>1. \A v \in Devs \X Slots : registry[ech][v[1]][v[2]] = NoSession
      BY <1>9, Zenon DEF EpollUnlock, InUse
    <3>2. ASSUME NEW d \in Devs, NEW i \in Slots PROVE registry[ech][d][i] = NoSession
      <4>1. <<d, i>> \in Devs \X Slots /\ <<d, i>>[1] = d /\ <<d, i>>[2] = i
        BY Zenon
      <4> QED
        BY <3>1, <4>1, Zenon
    <3> QED
      BY <3>2, Zenon
  <2> QED
    BY <1>9, <2>1 DEF EpollUnlock, TypeOK
<1>10. CASE EpollTeardown \/ EpollRemove \/ EpollClear \/ EpollFree
  BY <1>1, <1>10, Zenon DEF EpollTeardown, EpollRemove, EpollClear, EpollFree, ClearSession, FreeSession
<1>11. ASSUME NEW ch, EpollConnect(ch) \/ EpollDisconnect(ch)
       PROVE  UNCHANGED <<active, lock, registry>>
  BY <1>11, Zenon DEF EpollConnect, EpollDisconnect
<1>12. CASE AppScan \/ AppPoll \/ AppAnswer \/ PreDone \/ RunEnqueue \/ RunDequeue \/ RunDone
  BY <1>1, <1>12, Zenon DEF AppScan, AppPoll, AppAnswer, PreDone, RunEnqueue, RunDequeue, RunDone
<1>13. CASE PostSkip \/ PostCloseFails \/ PostClose \/ PostClear \/ PostFree
  BY <1>1, <1>13, Zenon DEF PostSkip, PostCloseFails, PostClose, PostClear, PostFree, ClearSession, FreeSession
<1>14. CASE PreCreateFails \/ PreInitFails
  BY <1>1, <1>14, Zenon DEF PreCreateFails, PreInitFails, Preprocessed
<1>15. ASSUME NEW type, NEW id, PreSkip(type, id) \/ PreClose(id) \/ PreCipher(id)
       PROVE  UNCHANGED <<active, lock, registry>>
  BY <1>15, Zenon DEF PreSkip, PreClose, PreCipher, Preprocessed
<1>16. ASSUME NEW dev, NEW s, PreCreate(dev, s)
       PROVE  UNCHANGED <<active, lock, registry>>
  BY <1>16, Zenon DEF PreCreate
<1> QED
  BY <1>1, <1>2, <1>3, <1>4, <1>5, <1>6, <1>7, <1>8, <1>9, <1>10, <1>11, <1>12, <1>13, <1>14, <1>15, <1>16, Zenon
  DEF Next, AppNext, EpollNext

\* A thread that removes a session and a thread in its critical section are
\* never on the same channel.
LEMMA Apart ==
  ASSUME LockInv, AppHolds, EpollHolds
  PROVE  ach # ech
BY Zenon DEF LockInv

\* A thread keeps its victim, and the session in it, until it has removed
\* it: the other thread works on another channel.
LEMMA VictimStep ==
  ASSUME TypeOK, LockInv, VictimInv, OwnInv, BurstInv, Next
  PROVE  VictimInv'
<1> DEFINE R == {"clear", "free", "forget"}
           Keeps == /\ UNCHANGED <<registry, victim>>
                    /\ apc' \in R => apc \in R /\ ach' = ach
                    /\ epc' \in R => epc \in R /\ ech' = ech
<1>1. CASE Keeps
  BY <1>1, Zenon DEF VictimInv, VictimSession
<1> USE DEF conns, app, epoll, pools
<1>2. CASE AppScan \/ AppLock \/ AppPoll \/ AppAnswer \/ AppUnlock \/ PreDone
  BY <1>1, <1>2, Zenon DEF AppScan, AppLock, AppPoll, AppAnswer, AppUnlock, PreDone
<1>3. CASE RunEnqueue \/ RunDequeue \/ RunDone \/ PostSkip \/ PostCloseFails
  BY <1>1, <1>3, Zenon DEF RunEnqueue, RunDequeue, RunDone, PostSkip, PostCloseFails, Closing
<1>4. CASE PostClear \/ PostFree
  BY <1>1, <1>4, Zenon DEF PostClear, PostFree, ClearSession, FreeSession
<1>5. CASE PreCreateFails \/ PreInitFails
  BY <1>1, <1>5, Zenon DEF PreCreateFails, PreInitFails, Preprocessed
<1>6. ASSUME NEW type, NEW id, PreSkip(type, id) \/ PreClose(id) \/ PreCipher(id)
      PROVE  Keeps
  BY <1>6, Zenon DEF PreSkip, PreClose, PreCipher, Preprocessed
<1>7. ASSUME NEW dev, NEW s, PreCreate(dev, s)
      PROVE  Keeps
  BY <1>7, Zenon DEF PreCreate
<1>8. ASSUME NEW ch, EpollConnect(ch) \/ EpollDisconnect(ch)
      PROVE  Keeps
  BY <1>8, Zenon DEF EpollConnect, EpollDisconnect
<1>9. CASE EpollActivate \/ EpollDeactivate \/ EpollUnlock \/ EpollTeardown
  BY <1>1, <1>9, Zenon DEF EpollActivate, EpollDeactivate, EpollUnlock, EpollTeardown
<1>10. CASE EpollClear \/ EpollFree
  BY <1>1, <1>10, Zenon DEF EpollClear, EpollFree, ClearSession, FreeSession
<1>11. CASE PreInit
  <2>1. PICK i \in Slots : registry' = [registry EXCEPT ![ach][made[1]][i] = made[2]]
    BY <1>11, Zenon DEF PreInit
  <2>2. /\ apc = "init" /\ apc' = "pre" /\ UNCHANGED <<victim, epc, ech>>
    BY <1>11, Zenon DEF PreInit, Preprocessed
  <2>3. \A c \in Channels \ {ach} : registry'[c] = registry[c]
    BY <2>1, Zenon DEF TypeOK
  <2>4. epc \in R => ech # ach
    BY <2>2, Apart, Zenon DEF AppHolds, AppStates, EpollHolds
  <2> QED
    BY <2>2, <2>3, <2>4, Zenon DEF VictimInv, VictimSession, TypeOK
<1>12. CASE PostClose
  <2> DEFINE id == burst[cursor].id
  <2>1. burst[cursor] \in Jobs
    BY <1>12 DEF PostClose, Closing, TypeOK, BurstInv
  <2>2. id \in 0 .. NoSessId
    BY <2>1, Zenon DEF Jobs
  <2>3. GetSession(ach, id) # NoSession /\ ach \in Channels
    BY <1>12, Zenon DEF PostClose, TypeOK
  <2>4. /\ victim'["app"] = <<DevOf(id), SlotOf(id)>> /\ victim'["epoll"] = victim["epoll"]
        /\ UNCHANGED <<registry, ach, ech, epc>> /\ apc' = "clear"
    BY <1>12, Zenon DEF PostClose, TypeOK, Threads
  <2> HIDE DEF id
  <2>5. /\ DevOf(id) \in Devs /\ SlotOf(id) \in Slots
        /\ registry[ach][DevOf(id)][SlotOf(id)] # NoSession
    BY <2>2, <2>3, GetSessionFound, Zenon
  <2> QED
    BY <2>4, <2>5 DEF VictimInv, VictimSession
<1>13. CASE PostForget
  <2>1. /\ apc = "forget" /\ apc' = "post" /\ UNCHANGED <<epc, ech>>
        /\ victim'["epoll"] = victim["epoll"]
    BY <1>13, Zenon DEF PostForget, ForgetSession, TypeOK, Threads
  <2>2. \A c \in Channels \ {ach} : registry'[c] = registry[c]
    BY <1>13, Zenon DEF PostForget, ForgetSession, TypeOK
  <2>3. epc \in R => ech # ach
    BY <2>1, Apart, Zenon DEF AppHolds, AppStates, EpollHolds
  <2> QED
    BY <2>1, <2>2, <2>3, Zenon DEF VictimInv, VictimSession, TypeOK
<1>14. CASE EpollRemove
  <2>1. PICK v \in InUse : victim' = [victim EXCEPT !["epoll"] = v]
    BY <1>14, Zenon DEF EpollRemove
  <2> QED
    BY <1>14, <2>1, Zenon DEF EpollRemove, InUse, VictimInv, VictimSession, TypeOK, Threads
<1>15. CASE EpollForget
  <2>1. /\ epc = "forget" /\ epc' = "remove" /\ UNCHANGED <<apc, ach>>
        /\ victim'["app"] = victim["app"]
    BY <1>15, Zenon DEF EpollForget, ForgetSession, TypeOK, Threads
  <2>2. \A c \in Channels \ {ech} : registry'[c] = registry[c]
    BY <1>15, Zenon DEF EpollForget, ForgetSession, TypeOK
  <2>3. apc \in R => ech # ach
    BY <2>1, Apart, Zenon DEF AppHolds, AppStates, EpollHolds
  <2> QED
    BY <2>1, <2>2, <2>3, Zenon DEF VictimInv, VictimSession, TypeOK
<1> QED
  BY <1>1, <1>2, <1>3, <1>4, <1>5, <1>6, <1>7, <1>8, <1>9, <1>10, <1>11, <1>12, <1>13, <1>14, <1>15, Zenon
  DEF Next, AppNext, EpollNext

-----------------------------------------------------------------------------
\* The epoll thread changes neither the burst nor, while the application
\* thread is in its critical section, the registry of the channel at hand.
LEMMA EpollApart ==
  ASSUME TypeOK, LockInv, EpollNext
  PROVE  /\ UNCHANGED app
         /\ AppHolds => registry'[ach] = registry[ach]
<1>1. ASSUME NEW ch, EpollConnect(ch) \/ EpollDisconnect(ch)
      PROVE  UNCHANGED <<app, registry>>
  BY <1>1, Zenon DEF EpollConnect, EpollDisconnect, pools
<1>2. CASE EpollActivate \/ EpollDeactivate \/ EpollUnlock \/ EpollTeardown
  BY <1>2, Zenon DEF EpollActivate, EpollDeactivate, EpollUnlock, EpollTeardown, pools
<1>3. CASE EpollRemove \/ EpollClear \/ EpollFree
  BY <1>3, Zenon DEF EpollRemove, EpollClear, EpollFree, ClearSession, FreeSession, pools
<1>4. CASE EpollForget
  <2>1. AppHolds => ach # ech
    BY <1>4, Apart, Zenon DEF EpollForget, EpollHolds
  <2> QED
    BY <1>4, <2>1, Zenon DEF EpollForget, ForgetSession, TypeOK
<1> QED
  BY <1>1, <1>2, <1>3, <1>4, Zenon DEF EpollNext

\* A job appended to a burst whose cipher jobs have their sessions.
LEMMA BurstGrows ==
  ASSUME TypeOK, BurstInv, apc \in {"pre", "init"}, NEW job \in Jobs,
         Preprocessed(job), UNCHANGED registry,
         job.type = "cipher" /\ job.status = "SUCC" => GetSession(ach, job.id) # NoSession
  PROVE  BurstInv'
<1>1. /\ burst' = Append(burst, job) /\ burst \in Seq(Jobs) /\ apc' = "pre" /\ UNCHANGED ach
  BY Zenon DEF Preprocessed, TypeOK
<1>2. \A j \in DOMAIN burst' : burst'[j] = job \/ (j \in DOMAIN burst /\ burst'[j] = burst[j])
  BY <1>1
<1>3. \A id : GetSession(ach, id)' = GetSession(ach, id)
  BY <1>1, Zenon DEF GetSession
<1> QED
  BY <1>1, <1>2, <1>3, Zenon DEF BurstInv

\* The jobs of a burst keep their sessions until the devices are done.
LEMMA BurstStep ==
  ASSUME TypeOK, LockInv, OwnInv, BurstInv, Next
  PROVE  BurstInv'
<1> USE DEF conns, app, epoll, pools
<1>1. CASE AppScan \/ AppLock \/ AppUnlock
  <2>1. apc \in {"scan", "lock", "unlock"} /\ apc' \in {"scan", "lock", "poll"} /\ UNCHANGED burst
    BY <1>1, Zenon DEF AppScan, AppLock, AppUnlock
  <2> QED
    BY <2>1, Zenon DEF BurstInv
<1>2. CASE AppPoll
  <2>1. apc = "poll" /\ apc' \in {"pre", "unlock"} /\ UNCHANGED burst
    BY <1>2, Zenon DEF AppPoll
  <2>2. burst = <<>> /\ DOMAIN burst' = {}
    BY <2>1 DEF BurstInv
  <2> QED
    BY <2>1, <2>2, Zenon DEF BurstInv
<1>3. CASE AppAnswer
  BY <1>3 DEF AppAnswer, BurstInv
<1>4. ASSUME NEW type \in {"create", "close", "cipher", "unknown"}, NEW id \in 0 .. NoSessId,
             PreSkip(type, id) \/ PreClose(id)
      PROVE  BurstInv'
  <2>1. Job(type, id, "FAILED") \in Jobs /\ Job("close", id, "SUCC") \in Jobs
    BY Zenon DEF Job, Jobs
  <2>2. Job(type, id, "FAILED").status = "FAILED" /\ Job("close", id, "SUCC").type = "close"
    BY Zenon DEF Job
  <2> QED
    BY <1>4, <2>1, <2>2, BurstGrows, Zenon DEF PreSkip, PreClose, MoreJobs
<1>5. ASSUME NEW id \in 0 .. NoSessId, PreCipher(id)
      PROVE  BurstInv'
  <2> DEFINE job == Job("cipher", id, IF GetSession(ach, id) = NoSession THEN "FAILED" ELSE "SUCC")
  <2>1. job \in Jobs
    BY Zenon DEF Job, Jobs
  <2>2. job.status = "SUCC" => GetSession(ach, job.id) # NoSession
    BY Zenon DEF Job
  <2>3. Preprocessed(job) /\ apc = "pre" /\ UNCHANGED registry
    BY <1>5, Zenon DEF PreCipher, MoreJobs
  <2> HIDE DEF job
  <2> QED
    BY <2>1, <2>2, <2>3, BurstGrows, Zenon
<1>6. ASSUME NEW dev, NEW s, PreCreate(dev, s)
      PROVE  BurstInv'
  BY <1>6, Zenon DEF PreCreate, MoreJobs, BurstInv, GetSession
<1>7. Job("create", NoSessId, "FAILED") \in Jobs /\ Job("create", NoSessId, "FAILED").type = "create"
  BY IdBounds, SessionsAssumption DEF Job, Jobs, Devs, Slots
<1>8. CASE PreCreateFails \/ PreInitFails
  BY <1>7, <1>8, BurstGrows, Zenon DEF PreCreateFails, PreInitFails, MoreJobs
<1>9. CASE PreInit
  <2> DEFINE dev == made[1]
             s == made[2]
  <2>1. PICK i \in Slots : /\ registry[ach][dev][i] = NoSession
                           /\ registry' = [registry EXCEPT ![ach][dev][i] = s]
                           /\ Preprocessed(Job("create", SessId(dev, i), "SUCC"))
    BY <1>9, Zenon DEF PreInit
  <2>2. apc = "init" /\ dev \in Devs /\ s \in Sessions /\ ach \in Channels
    BY <1>9, Zenon DEF PreInit, OwnInv, TypeOK
  <2> DEFINE job == Job("create", SessId(dev, i), "SUCC")
  <2>3. job \in Jobs /\ job.type = "create"
    BY <2>2, IdBounds, Zenon DEF Job, Jobs
  <2>4. /\ burst' = Append(burst, job) /\ burst \in Seq(Jobs) /\ apc' = "pre" /\ UNCHANGED ach
    BY <2>1, Zenon DEF Preprocessed, TypeOK
  <2>5. \A d \in Devs, j \in Slots :
          registry'[ach][d][j] = IF d = dev /\ j = i THEN s ELSE registry[ach][d][j]
    BY <2>1, <2>2 DEF TypeOK
  <2> HIDE DEF dev, s, job
  <2>6. \A j \in DOMAIN burst' : burst'[j] = job \/ (j \in DOMAIN burst /\ burst'[j] = burst[j])
    BY <2>3, <2>4
  <2>7. ASSUME NEW id \in 0 .. NoSessId, GetSession(ach, id) # NoSession
        PROVE  GetSession(ach, id)' # NoSession
    <3>1. /\ DevOf(id) \in Devs /\ SlotOf(id) \in Slots
          /\ registry[ach][DevOf(id)][SlotOf(id)] # NoSession
      BY <2>2, <2>7, GetSessionFound, Zenon
    <3>2. registry'[ach][DevOf(id)][SlotOf(id)] # NoSession
      BY <2>2, <2>5, <3>1, SessionsAssumption, Zenon
    <3>3. DevOf(id) < NumDevs /\ SlotOf(id) < MaxSess
      BY <3>1, SessionsAssumption DEF Devs, Slots
    <3> QED
      BY <2>4, <3>2, <3>3, Zenon DEF GetSession
  <2>8. \A j \in DOMAIN burst : burst[j].id \in 0 .. NoSessId
    <3>1. \A j \in DOMAIN burst : burst[j] \in Jobs
      BY <2>4
    <3> QED
      BY <3>1, Zenon DEF Jobs
  <2>9. ASSUME NEW j \in DOMAIN burst', burst'[j].type = "cipher", burst'[j].status = "SUCC"
        PROVE  GetSession(ach, burst[j].id)' # NoSession
    <3>1. j \in DOMAIN burst /\ burst'[j] = burst[j]
      BY <2>3, <2>6, <2>9, Zenon
    <3>2. GetSession(ach, burst[j].id) # NoSession
      BY <2>2, <2>9, <3>1, Zenon DEF BurstInv
    <3>3. GetSession(ach, burst[j].id)' # NoSession
      <4>1. PICK id \in 0 .. NoSessId : id = burst[j].id /\ id = burst'[j].id
        BY <2>8, <3>1, Zenon
      <4> QED
        BY <2>7, <3>2, <4>1, Zenon
    <3> QED
      BY <3>3, Zenon
  <2> QED
    BY <2>4, <2>9, Zenon DEF BurstInv
<1>10. CASE PreDone \/ RunEnqueue
  BY <1>10, Zenon DEF PreDone, RunEnqueue, BurstInv, GetSession
<1>11. CASE RunDequeue
  <2>1. PICK failed \in SUBSET DevJobs(cursor) :
          burst' = [j \in DOMAIN burst |->
                      IF j \in failed THEN [burst[j] EXCEPT !.status = "FAILED"]
                      ELSE burst[j]]
    BY <1>11 DEF RunDequeue
  <2>2. /\ apc = "device" /\ apc' = "run" /\ UNCHANGED <<ach, registry>>
    BY <1>11, Zenon DEF RunDequeue
  <2>3. \A j \in DOMAIN burst : burst[j] \in Jobs
    BY DEF TypeOK
  <2>4. ASSUME NEW j \in DOMAIN burst', burst'[j].status = "SUCC"
        PROVE  j \in DOMAIN burst /\ burst'[j] = burst[j]
    <3>1. j \in DOMAIN burst
      BY <2>1, Zenon
    <3>2. [burst[j] EXCEPT !.status = "FAILED"].status = "FAILED"
      BY <2>3, <3>1, JobSet, Zenon
    <3> QED
      BY <2>1, <2>4, <3>1, <3>2, Zenon
  <2>5. \A id : GetSession(ach, id)' = GetSession(ach, id)
    BY <2>2, Zenon DEF GetSession
  <2> QED
    BY <2>2, <2>4, <2>5, Zenon DEF BurstInv
<1>12. CASE RunDone
  BY <1>12 DEF RunDone, BurstInv
<1>13. CASE PostSkip
  BY <1>13 DEF PostSkip, BurstInv, TypeOK
<1>14. CASE PostCloseFails
  BY <1>14 DEF PostCloseFails, Closing, BurstInv, TypeOK
<1>15. CASE PostClose \/ PostClear \/ PostFree
  BY <1>15, Zenon DEF PostClose, Closing, PostClear, PostFree, BurstInv
<1>16. CASE PostForget
  <2>1. apc = "forget" /\ apc' = "post" /\ cursor' = cursor + 1 /\ cursor \in Nat
    BY <1>16, Zenon DEF PostForget, TypeOK
  <2> QED
    BY <2>1 DEF BurstInv
<1>17. CASE EpollNext
  <2>1. UNCHANGED <<apc, ach, burst, cursor>>
    BY <1>17, EpollApart, Zenon
  <2>2. AppHolds => \A id : GetSession(ach, id)' = GetSession(ach, id)
    BY <1>17, <2>1, EpollApart, Zenon DEF GetSession
  <2> QED
    BY <2>1, <2>2, Zenon DEF BurstInv, AppHolds, AppStates
<1>18. NoSessId \in 0 .. NoSessId /\ SessIds \subseteq 0 .. NoSessId
  BY <1>7, SessionsAssumption, Zenon DEF Job, Jobs, NoSessId
<1> QED
  BY <1>1, <1>2, <1>3, <1>4, <1>5, <1>6, <1>8, <1>9, <1>10, <1>11, <1>12, <1>13,
     <1>14, <1>15, <1>16, <1>17, <1>18, Zenon
  DEF Next, AppNext

\* What is on a device stays what was put there.
LEMMA DeviceStep ==
  ASSUME TypeOK, LockInv, DeviceInv, Next
  PROVE  DeviceInv'
<1> USE DEF conns, app, epoll, pools
<1>1. CASE apc # "device" /\ apc' # "device" /\ UNCHANGED onDevice
  BY <1>1, Zenon DEF DeviceInv
<1>2. CASE AppScan \/ AppLock \/ AppPoll \/ AppAnswer \/ AppUnlock \/ PreDone \/ RunDone
  BY <1>1, <1>2, Zenon DEF AppScan, AppLock, AppPoll, AppAnswer, AppUnlock, PreDone, RunDone
<1>3. ASSUME NEW type, NEW id, PreSkip(type, id) \/ PreClose(id) \/ PreCipher(id)
      PROVE  DeviceInv'
  BY <1>1, <1>3, Zenon DEF PreSkip, PreClose, PreCipher, MoreJobs, Preprocessed
<1>4. ASSUME NEW dev, NEW s, PreCreate(dev, s)
      PROVE  DeviceInv'
  BY <1>1, <1>4, Zenon DEF PreCreate, MoreJobs
<1>5. CASE PreCreateFails \/ PreInit \/ PreInitFails
  BY <1>1, <1>5, Zenon DEF PreCreateFails, PreInit, PreInitFails, MoreJobs, Preprocessed
<1>6. CASE PostSkip \/ PostCloseFails \/ PostClose \/ PostClear \/ PostFree \/ PostForget
  BY <1>1, <1>6, Zenon DEF PostSkip, PostCloseFails, PostClose, PostClear, PostFree, PostForget, Closing
<1>7. CASE RunEnqueue
  <2>1. cursor \in Devs
    BY <1>7, SessionsAssumption DEF RunEnqueue, TypeOK, Devs
  <2>2. UNCHANGED <<ach, burst, cursor, registry>> /\ apc' = "device"
    BY <1>7, Zenon DEF RunEnqueue
  <2>3. onDevice' = {<<cursor, GetSession(ach, burst[j].id)>> : j \in DevJobs(cursor)}
    BY <1>7, Zenon DEF RunEnqueue
  <2> QED
    BY <2>1, <2>2, <2>3, Zenon DEF DeviceInv, GetSession, DevJobs
<1>8. CASE RunDequeue
  BY <1>8, Zenon DEF RunDequeue, DeviceInv
<1>9. CASE EpollNext
  <2>1. UNCHANGED <<apc, ach, burst, cursor, onDevice>>
    BY <1>9, EpollApart, Zenon
  <2>2. apc = "device" => \A id : GetSession(ach, id)' = GetSession(ach, id)
    BY <1>9, <2>1, EpollApart, Zenon DEF GetSession, AppHolds, AppStates
  <2>3. DevJobs(cursor)' = DevJobs(cursor)
    BY <2>1, Zenon DEF DevJobs
  <2> QED
    BY <2>1, <2>2, <2>3 DEF DeviceInv
<1> QED
  BY <1>2, <1>3, <1>4, <1>5, <1>6, <1>7, <1>8, <1>9, Zenon DEF Next, AppNext

=============================================================================
