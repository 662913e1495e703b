------------------------ MODULE ServerSessionsProofs ------------------------
(***************************************************************************)
(* The five safety properties of ServerSessions hold for every number of   *)
(* channels, devices, sessions and jobs: the last steps of the induction   *)
(* of ServerSessionsLemmas (where a session is, and whose private data it  *)
(* has), the theorem that SessInv is an invariant, and what follows.       *)
(***************************************************************************)
EXTENDS ServerSessionsLemmas, FiniteSetTheorems

\* Where the two threads' removals are, as the lemmas above want it.
LEMMA MarksFrame ==
  ASSUME \/ UNCHANGED <<apc, ach>> /\ victim'["app"] = victim["app"]
         \/ apc \notin {"free", "forget"} /\ apc' \notin {"free", "forget"},
         \/ UNCHANGED <<epc, ech>> /\ victim'["epoll"] = victim["epoll"]
         \/ epc \notin {"free", "forget"} /\ epc' \notin {"free", "forget"}
  PROVE  \A c \in Channels, d \in Devs, i \in Slots :
           /\ Dangling(c, d, i)' <=> Dangling(c, d, i)
           /\ Cleared(c, d, i)' <=> Cleared(c, d, i)
BY DEF Dangling, Cleared

\* Every step keeps each session in one place, with the private data of
\* the device it is registered for.
LEMMA OwnStep ==
  ASSUME TypeOK, LockInv, VictimInv, OwnInv, PrivInv, Next
  PROVE  OwnInv' /\ PrivInv'
<1> DEFINE Still == /\ UNCHANGED <<registry, sessPool, priv, made>>
                    /\ apc' = "init" <=> apc = "init"
                    /\ \/ UNCHANGED <<apc, ach>> /\ victim'["app"] = victim["app"]
                       \/ apc \notin {"free", "forget"} /\ apc' \notin {"free", "forget"}
                    /\ \/ UNCHANGED <<epc, ech>> /\ victim'["epoll"] = victim["epoll"]
                       \/ epc \notin {"free", "forget"} /\ epc' \notin {"free", "forget"}
<1>1. CASE Still
  BY <1>1, MarksFrame, OwnFrame, Zenon
<1> USE DEF conns, app, epoll, pools
<1>2. CASE AppScan \/ AppLock \/ AppPoll \/ AppAnswer \/ AppUnlock \/ PreDone
  BY <1>1, <1>2, Zenon DEF AppScan, AppLock, AppPoll, AppAnswer, AppUnlock, PreDone
<1>3. CASE RunEnqueue \/ RunDequeue \/ RunDone \/ PostSkip \/ PostCloseFails
  BY <1>1, <1>3, Zenon DEF RunEnqueue, RunDequeue, RunDone, PostSkip, PostCloseFails
<1>4. CASE PostClose
  <2>1. victim'["epoll"] = victim["epoll"]
    BY <1>4, Zenon DEF PostClose, TypeOK, Threads
  <2> QED
    BY <1>1, <1>4, <2>1, Zenon DEF PostClose, Closing
<1>5. CASE PreCreateFails
  BY <1>1, <1>5, Zenon DEF PreCreateFails, MoreJobs, Preprocessed
<1>6. ASSUME NEW type, NEW id, PreSkip(type, id) \/ PreClose(id) \/ PreCipher(id)
      PROVE  Still
  BY <1>6, Zenon DEF PreSkip, PreClose, PreCipher, MoreJobs, Preprocessed
<1>7. ASSUME NEW ch, EpollConnect(ch) \/ EpollDisconnect(ch)
      PROVE  Still
  BY <1>7, Zenon DEF EpollConnect, EpollDisconnect
<1>8. CASE EpollActivate \/ EpollDeactivate \/ EpollUnlock \/ EpollTeardown
  BY <1>1, <1>8, Zenon DEF EpollActivate, EpollDeactivate, EpollUnlock, EpollTeardown
<1>9. CASE EpollRemove
  <2>1. victim'["app"] = victim["app"]
    BY <1>9, Zenon DEF EpollRemove, TypeOK, Threads
  <2> QED
    BY <1>1, <1>9, <2>1, Zenon DEF EpollRemove
<1>10. ASSUME NEW dev \in Devs, NEW s \in Sessions, PreCreate(dev, s)
       PROVE  OwnInv' /\ PrivInv'
  <2>1. /\ apc = "pre" /\ apc' = "init" /\ s \in sessPool /\ sessPool' = sessPool \ {s}
        /\ made' = <<dev, s>> /\ made = Nothing /\ UNCHANGED <<registry, priv>>
    BY <1>10, Zenon DEF PreCreate, MoreJobs, OwnInv
  <2>2. \A c \in Channels, d \in Devs, i \in Slots :
           /\ Dangling(c, d, i)' <=> Dangling(c, d, i)
           /\ Cleared(c, d, i)' <=> Cleared(c, d, i)
    BY <1>10, MarksFrame, Zenon DEF PreCreate, MoreJobs
  <2>3. \A c \in Channels, d \in Devs, i \in Slots, r \in Sessions :
          Owns(c, d, i, r)' <=> Owns(c, d, i, r)
    BY <2>1, <2>2, Zenon DEF Owns
  <2>4. made'[2] = s /\ made[2] = NoSession
    BY <2>1, Zenon DEF Nothing
  <2>5. OwnInv'
    BY <2>1, <2>3, <2>4, SessionsAssumption DEF OwnInv
  <2>6. PrivInv'
    BY <2>1, <2>2, <2>3, <2>4 DEF PrivInv
  <2> QED
    BY <2>5, <2>6, Zenon
<1>11. CASE PreInitFails
  <2>1. /\ apc = "init" /\ apc' = "pre" /\ sessPool' = sessPool \cup {made[2]}
        /\ made' = Nothing /\ UNCHANGED <<registry, priv>>
        /\ made[2] \in Sessions
    BY <1>11, Zenon DEF PreInitFails, Preprocessed, OwnInv
  <2>2. \A c \in Channels, d \in Devs, i \in Slots :
           /\ Dangling(c, d, i)' <=> Dangling(c, d, i)
           /\ Cleared(c, d, i)' <=> Cleared(c, d, i)
    BY <1>11, MarksFrame, Zenon DEF PreInitFails, Preprocessed
  <2>3. \A c \in Channels, d \in Devs, i \in Slots, r \in Sessions :
          Owns(c, d, i, r)' <=> Owns(c, d, i, r)
    BY <2>1, <2>2, Zenon DEF Owns
  <2>4. made'[2] = NoSession /\ NoSession \notin sessPool' /\ NoSession \notin Sessions
    BY <2>1, SessionsAssumption, Zenon DEF Nothing, TypeOK
  <2>5. OwnInv'
    BY <2>1, <2>3, <2>4 DEF OwnInv
  <2>6. PrivInv'
    BY <2>1, <2>2, <2>3, <2>4 DEF PrivInv
  <2> QED
    BY <2>5, <2>6, Zenon
<1>12. CASE PreInit
  <2> DEFINE dev == made[1]
             s == made[2]
  <2>1. PICK i \in Slots : /\ registry[ach][dev][i] = NoSession
                           /\ registry' = [registry EXCEPT ![ach][dev][i] = s]
    BY <1>12, Zenon DEF PreInit
  <2>2. /\ apc = "init" /\ apc' = "pre" /\ priv' = [priv EXCEPT ![s] = dev]
        /\ made' = Nothing /\ UNCHANGED <<sessPool, victim, epc, ech, ach>>
    BY <1>12, Zenon DEF PreInit, Preprocessed
  <2>3. dev \in Devs /\ s \in Sessions /\ s \notin sessPool /\ ach \in Channels
    BY <2>2, Zenon DEF OwnInv, TypeOK
  <2> HIDE DEF dev, s
  <2>4. \A c \in Channels, d \in Devs, j \in Slots :
          /\ Dangling(c, d, j)' <=> Dangling(c, d, j)
          /\ Cleared(c, d, j)' <=> Cleared(c, d, j)
    BY <2>2, MarksFrame, Zenon
  <2>5. ~Dangling(ach, dev, i) /\ ~Cleared(ach, dev, i)
    <3>1. epc \in {"free", "forget"} => ech # ach
      BY <2>2, Apart, Zenon DEF AppHolds, AppStates, EpollHolds
    <3> QED
      BY <2>2, <3>1, Zenon DEF Dangling, Cleared
  <2>6. \A c \in Channels, d \in Devs, j \in Slots :
          registry'[c][d][j] = IF c = ach /\ d = dev /\ j = i THEN s ELSE registry[c][d][j]
    BY <2>1, <2>3 DEF TypeOK
  <2>7. \A c \in Channels, d \in Devs, j \in Slots, r \in Sessions :
          Owns(c, d, j, r) => r # s /\ r \notin sessPool /\ ~(c = ach /\ d = dev /\ j = i)
    BY <2>1, SessionsAssumption DEF OwnInv, Owns, s
  <2>8. \A c \in Channels, d \in Devs, j \in Slots, r \in Sessions :
          Owns(c, d, j, r)' <=> Owns(c, d, j, r) \/ (r = s /\ c = ach /\ d = dev /\ j = i)
    BY <2>1, <2>4, <2>5, <2>6, <2>7 DEF Owns
  <2>9. made'[2] = NoSession /\ NoSession \notin sessPool /\ NoSession \notin Sessions
    BY <2>2, SessionsAssumption, Zenon DEF Nothing, TypeOK
  <2>10. \A c \in Channels, d \in Devs, j \in Slots, r \in Sessions :
           Owns(c, d, j, r)' => r \notin sessPool' /\ r # made'[2]
    BY <2>2, <2>3, <2>7, <2>8, <2>9, Zenon
  <2>11. \A c1, c2 \in Channels, d1, d2 \in Devs, i1, i2 \in Slots, r \in Sessions :
           Owns(c1, d1, i1, r)' /\ Owns(c2, d2, i2, r)' => c1 = c2 /\ d1 = d2 /\ i1 = i2
    BY <2>7, <2>8 DEF OwnInv
  <2>12. \A r \in Sessions :
           \/ r \in sessPool'
           \/ r = made'[2]
           \/ \E c \in Channels, d \in Devs, j \in Slots : Owns(c, d, j, r)'
    BY <2>1, <2>2, <2>3, <2>8 DEF OwnInv, s
  <2>13. OwnInv'
    BY <2>2, <2>9, <2>10, <2>11, <2>12, Zenon DEF OwnInv
  <2>14. \A r \in Sessions : priv'[r] = IF r = s THEN dev ELSE priv[r]
    BY <2>2, <2>3, Zenon DEF TypeOK
  <2>15. PrivInv'
    BY <2>2, <2>3, <2>4, <2>5, <2>7, <2>8, <2>9, <2>14 DEF PrivInv
  <2> QED
    BY <2>13, <2>15, Zenon
<1>13. ASSUME apc \in {"clear", "free", "forget"}
       PROVE  /\ victim["app"] = <<victim["app"][1], victim["app"][2]>>
              /\ victim["app"][1] \in Devs /\ victim["app"][2] \in Slots
              /\ VictimSession("app", ach) \in Sessions
              /\ epc \in {"free", "forget"} => ech # ach
  BY <1>13, Apart DEF VictimInv, VictimSession, TypeOK, AppHolds, AppStates, EpollHolds
<1>14. ASSUME epc \in {"clear", "free", "forget"}
       PROVE  /\ victim["epoll"] = <<victim["epoll"][1], victim["epoll"][2]>>
              /\ victim["epoll"][1] \in Devs /\ victim["epoll"][2] \in Slots
              /\ VictimSession("epoll", ech) \in Sessions
              /\ apc \in {"free", "forget"} => ech # ach
  BY <1>14, Apart DEF VictimInv, VictimSession, TypeOK, AppHolds, AppStates, EpollHolds
<1> DEFINE ad == victim["app"][1]
           ai == victim["app"][2]
           ed == victim["epoll"][1]
           ei == victim["epoll"][2]
<1>15. CASE PostClear
  <2>1. /\ apc = "clear" /\ apc' = "free" /\ UNCHANGED <<registry, sessPool, made, victim, ach, epc, ech>>
        /\ priv' = [priv EXCEPT ![VictimSession("app", ach)] = NoDev]
    BY <1>15, Zenon DEF PostClear, ClearSession
  <2>2. ach \in Channels /\ Owns(ach, ad, ai, VictimSession("app", ach))
    BY <1>13, <2>1, Zenon DEF Owns, Dangling, VictimSession, TypeOK
  <2>3. \A c \in Channels, d \in Devs, i \in Slots :
          /\ Dangling(c, d, i)' <=> Dangling(c, d, i)
          /\ Cleared(c, d, i)' <=> Cleared(c, d, i) \/ (c = ach /\ d = ad /\ i = ai)
    BY <1>13, <2>1 DEF Dangling, Cleared
  <2>4. \A s \in Sessions : priv'[s] = IF s = VictimSession("app", ach) THEN NoDev ELSE priv[s]
    BY <1>13, <2>1, Zenon DEF TypeOK
  <2> QED
    BY <1>13, <2>1, <2>2, <2>3, <2>4, OwnClear
<1>16. CASE PostFree
  <2>1. /\ apc = "free" /\ apc' = "forget" /\ UNCHANGED <<registry, priv, made, victim, ach, epc, ech>>
        /\ sessPool' = sessPool \cup {VictimSession("app", ach)}
    BY <1>16, Zenon DEF PostFree, FreeSession
  <2>2. ach \in Channels /\ Owns(ach, ad, ai, VictimSession("app", ach)) /\ Cleared(ach, ad, ai)
    BY <1>13, <2>1, Zenon DEF Owns, Dangling, Cleared, VictimSession, TypeOK
  <2>3. \A c \in Channels, d \in Devs, i \in Slots :
          /\ Dangling(c, d, i)' <=> Dangling(c, d, i) \/ (c = ach /\ d = ad /\ i = ai)
          /\ Cleared(c, d, i)' <=> Cleared(c, d, i) /\ ~(c = ach /\ d = ad /\ i = ai)
    BY <1>13, <2>1 DEF Dangling, Cleared
  <2> QED
    BY <1>13, <2>1, <2>2, <2>3, OwnFree
<1>17. CASE PostForget
  <2>1. /\ apc = "forget" /\ apc' = "post" /\ UNCHANGED <<sessPool, priv, made, ach, epc, ech>>
        /\ registry' = [registry EXCEPT ![ach][ad][ai] = NoSession]
        /\ victim'["epoll"] = victim["epoll"]
    BY <1>17, Zenon DEF PostForget, ForgetSession, TypeOK, Threads
  <2>2. ach \in Channels /\ Dangling(ach, ad, ai)
    BY <1>13, <2>1, Zenon DEF Dangling, TypeOK
  <2>3. \A c \in Channels, d \in Devs, i \in Slots :
          /\ Dangling(c, d, i)' <=> Dangling(c, d, i) /\ ~(c = ach /\ d = ad /\ i = ai)
          /\ Cleared(c, d, i)' <=> Cleared(c, d, i)
    BY <1>13, <2>1 DEF Dangling, Cleared
  <2>4. \A c \in Channels, d \in Devs, i \in Slots :
          registry'[c][d][i] = IF c = ach /\ d = ad /\ i = ai THEN NoSession
                               ELSE registry[c][d][i]
    BY <1>13, <2>1, <2>2 DEF TypeOK
  <2> QED
    BY <1>13, <2>1, <2>2, <2>3, <2>4, OwnForget, Zenon
<1>18. CASE EpollClear
  <2>1. /\ epc = "clear" /\ epc' = "free" /\ UNCHANGED <<registry, sessPool, made, victim, ach, apc, ech>>
        /\ priv' = [priv EXCEPT ![VictimSession("epoll", ech)] = NoDev]
    BY <1>18, Zenon DEF EpollClear, ClearSession
  <2>2. ech \in Channels /\ Owns(ech, ed, ei, VictimSession("epoll", ech))
    BY <1>14, <2>1, Zenon DEF Owns, Dangling, VictimSession, TypeOK
  <2>3. \A c \in Channels, d \in Devs, i \in Slots :
          /\ Dangling(c, d, i)' <=> Dangling(c, d, i)
          /\ Cleared(c, d, i)' <=> Cleared(c, d, i) \/ (c = ech /\ d = ed /\ i = ei)
    BY <1>14, <2>1 DEF Dangling, Cleared
  <2>4. \A s \in Sessions : priv'[s] = IF s = VictimSession("epoll", ech) THEN NoDev ELSE priv[s]
    BY <1>14, <2>1, Zenon DEF TypeOK
  <2> QED
    BY <1>14, <2>1, <2>2, <2>3, <2>4, OwnClear
<1>19. CASE EpollFree
  <2>1. /\ epc = "free" /\ epc' = "forget" /\ UNCHANGED <<registry, priv, made, victim, ach, apc, ech>>
        /\ sessPool' = sessPool \cup {VictimSession("epoll", ech)}
    BY <1>19, Zenon DEF EpollFree, FreeSession
  <2>2. ech \in Channels /\ Owns(ech, ed, ei, VictimSession("epoll", ech)) /\ Cleared(ech, ed, ei)
    BY <1>14, <2>1, Zenon DEF Owns, Dangling, Cleared, VictimSession, TypeOK
  <2>3. \A c \in Channels, d \in Devs, i \in Slots :
          /\ Dangling(c, d, i)' <=> Dangling(c, d, i) \/ (c = ech /\ d = ed /\ i = ei)
          /\ Cleared(c, d, i)' <=> Cleared(c, d, i) /\ ~(c = ech /\ d = ed /\ i = ei)
    BY <1>14, <2>1 DEF Dangling, Cleared
  <2> QED
    BY <1>14, <2>1, <2>2, <2>3, OwnFree
<1>20. CASE EpollForget
  <2>1. /\ epc = "forget" /\ epc' = "remove" /\ UNCHANGED <<sessPool, priv, made, ach, apc, ech>>
        /\ registry' = [registry EXCEPT ![ech][ed][ei] = NoSession]
        /\ victim'["app"] = victim["app"]
    BY <1>20, Zenon DEF EpollForget, ForgetSession, TypeOK, Threads
  <2>2. ech \in Channels /\ Dangling(ech, ed, ei)
    BY <1>14, <2>1, Zenon DEF Dangling, TypeOK
  <2>3. \A c \in Channels, d \in Devs, i \in Slots :
          /\ Dangling(c, d, i)' <=> Dangling(c, d, i) /\ ~(c = ech /\ d = ed /\ i = ei)
          /\ Cleared(c, d, i)' <=> Cleared(c, d, i)
    BY <1>14, <2>1 DEF Dangling, Cleared
  <2>4. \A c \in Channels, d \in Devs, i \in Slots :
          registry'[c][d][i] = IF c = ech /\ d = ed /\ i = ei THEN NoSession
                               ELSE registry[c][d][i]
    BY <1>14, <2>1, <2>2 DEF TypeOK
  <2> QED
    BY <1>14, <2>1, <2>2, <2>3, <2>4, OwnForget, Zenon
<1> HIDE DEF Still
<1> QED
  BY <1>1, <1>2, <1>3, <1>4, <1>5, <1>6, <1>7, <1>8, <1>9, <1>10, <1>11, <1>12,
     <1>15, <1>16, <1>17, <1>18, <1>19, <1>20, Zenon
  DEF Next, AppNext, EpollNext

-----------------------------------------------------------------------------
\* The invariant holds at the start and is kept by every step.
LEMMA SessInvInit ==
  ASSUME Init
  PROVE  SessInv
<1> USE SessionsAssumption DEF Init
<1>1. TypeOK
  <2>1. 0 \in Channels
    BY DEF Channels
  <2>2. burst \in Seq(Jobs) /\ Len(burst) <= MaxBurst
    OBVIOUS
  <2> QED
    BY <2>1, <2>2, Zenon DEF TypeOK, AppStates, EpollStates, Threads
<1>2. LockInv /\ MapInv
  BY Zenon DEF LockInv, MapInv, AppHolds, EpollHolds, AppStates
<1>3. InactiveChannelsClean
  BY Zenon DEF InactiveChannelsClean
<1>4. VictimInv
  BY Zenon DEF VictimInv
<1>5. \A c \in Channels, d \in Devs, i \in Slots, s \in Sessions : ~Owns(c, d, i, s)
  BY Zenon DEF Owns
<1>6. OwnInv
  <2>1. made[2] = NoSession
    BY Zenon DEF Nothing
  <2> QED
    BY <1>5, <2>1, Zenon DEF OwnInv
<1>7. PrivInv
  BY <1>5, Zenon DEF PrivInv
<1>8. BurstInv /\ DeviceInv
  BY Zenon DEF BurstInv, DeviceInv
<1> QED
  BY <1>1, <1>2, <1>3, <1>4, <1>6, <1>7, <1>8, Zenon DEF SessInv

LEMMA SessInvStep ==
  ASSUME SessInv, [Next]_vars
  PROVE  SessInv'
<1>1. CASE Next
  BY <1>1, TypeStep, LockStep, CleanStep, VictimStep, OwnStep, BurstStep, DeviceStep, Zenon DEF SessInv
<1>2. CASE UNCHANGED vars
  <2> USE <1>2 DEF vars, conns, pools, app, epoll
  <2>1. TypeOK' /\ LockInv' /\ MapInv' /\ InactiveChannelsClean'
    BY DEF SessInv, TypeOK, LockInv, MapInv, AppHolds, EpollHolds, InactiveChannelsClean
  <2>2. VictimInv'
    BY Zenon DEF SessInv, VictimInv, VictimSession
  <2>3. OwnInv' /\ PrivInv'
    BY MarksFrame, OwnFrame, Zenon DEF SessInv
  <2>4. BurstInv'
    BY Zenon DEF SessInv, BurstInv, GetSession
  <2>5. DeviceInv'
    BY Zenon DEF SessInv, DeviceInv, GetSession, DevJobs
  <2> QED
    BY <2>1, <2>2, <2>3, <2>4, <2>5, Zenon DEF SessInv
<1> QED
  BY <1>1, <1>2, Zenon

\* Every reachable state of the server satisfies the invariant.
THEOREM SessionsInvariant == Spec => []SessInv
<1>1. Init => SessInv
  BY SessInvInit, Zenon
<1>2. SessInv /\ [Next]_vars => SessInv'
  BY SessInvStep, Zenon
<1> QED
  BY <1>1, <1>2, PTL DEF Spec

-----------------------------------------------------------------------------
\* Session s is in at most one slot, and in none when it is elsewhere.
LEMMA SlotsCounted ==
  ASSUME OwnInv, NEW s \in Sessions
  PROVE  (IF s \in sessPool THEN 1 ELSE 0) + (IF made[2] = s THEN 1 ELSE 0)
           + Cardinality(SlotsOf(s)) = 1
<1>1. \A p \in SlotsOf(s) : /\ p = <<p[1], p[2], p[3]>>
                            /\ p[1] \in Channels /\ p[2] \in Devs /\ p[3] \in Slots
                            /\ Owns(p[1], p[2], p[3], s)
  BY DEF SlotsOf, Owns
<1>2. CASE s \in sessPool \/ s = made[2]
  <2>1. SlotsOf(s) = {}
    BY <1>1, <1>2 DEF OwnInv
  <2>2. Cardinality(SlotsOf(s)) = 0
    BY <2>1, FS_EmptySet, Zenon
  <2> QED
    BY <1>2, <2>2 DEF OwnInv
<1>3. CASE s \notin sessPool /\ s # made[2]
  <2>1. PICK c \in Channels, d \in Devs, i \in Slots : Owns(c, d, i, s)
    BY <1>3, Zenon DEF OwnInv
  <2>2. <<c, d, i>> \in SlotsOf(s)
    BY <2>1, Zenon DEF SlotsOf, Owns
  <2>3. \A p \in SlotsOf(s) : p = <<c, d, i>>
    <3>1. \A p \in SlotsOf(s) : p[1] = c /\ p[2] = d /\ p[3] = i
      BY <1>1, <2>1 DEF OwnInv
    <3> QED
      BY <1>1, <3>1, Zenon
  <2>4. SlotsOf(s) = {<<c, d, i>>}
    BY <2>2, <2>3, Zenon
  <2>5. Cardinality(SlotsOf(s)) = 1
    BY <2>4, FS_Singleton, Zenon
  <2> QED
    BY <1>3, <2>5
<1> QED
  BY <1>2, <1>3, Zenon

\* No session is leaked, freed twice, or held by two slots, for any number
\* of channels, devices and sessions and every interleaving of the threads.
THEOREM OwnedOnceHolds == Spec => []OwnedOnce
<1>1. SessInv => OwnedOnce
  BY SlotsCounted, Zenon DEF SessInv, OwnedOnce
<1> QED
  BY <1>1, SessionsInvariant, PTL

\* A channel without a client has no sessions left.
THEOREM InactiveChannelsAreClean == Spec => []InactiveChannelsClean
<1>1. SessInv => InactiveChannelsClean
  BY Zenon DEF SessInv
<1> QED
  BY <1>1, SessionsInvariant, PTL

\* The application thread works on mapped queues only.
THEOREM QueuesAreMapped == Spec => []PollsMappedQueues
<1>1. SessInv => PollsMappedQueues
  BY Zenon DEF SessInv, PollsMappedQueues, LockInv, MapInv, AppHolds
<1> QED
  BY <1>1, SessionsInvariant, PTL

\* The sessions on a device are registered, not free, and have the private
\* data of that device.
LEMMA LiveOnDevice ==
  ASSUME SessInv
  PROVE  DeviceSessionsLive
<1> SUFFICES ASSUME NEW op \in onDevice
             PROVE  /\ op[2] \in Sessions \ sessPool
                    /\ \E i \in Slots : registry[ach][op[1]][i] = op[2]
                    /\ priv[op[2]] = op[1]
  BY Zenon DEF DeviceSessionsLive
<1>1. apc = "device" /\ cursor \in Devs
  BY Zenon DEF SessInv, DeviceInv
<1>2. PICK j \in DevJobs(cursor) : op = <<cursor, GetSession(ach, burst[j].id)>>
  BY <1>1, Zenon DEF SessInv, DeviceInv
<1> DEFINE id == burst[j].id
<1>3. /\ j \in DOMAIN burst /\ burst[j] \in Jobs
      /\ burst[j].type = "cipher" /\ burst[j].status = "SUCC" /\ DevOf(id) = cursor
  BY DEF DevJobs, SessInv, TypeOK
<1>4. id \in 0 .. NoSessId
  BY <1>3, Zenon DEF Jobs
<1>5. GetSession(ach, id) # NoSession /\ ach \in Channels
  BY <1>1, <1>3, Zenon DEF SessInv, BurstInv, TypeOK
<1> HIDE DEF id
<1> DEFINE s == GetSession(ach, id)
<1>6. /\ SlotOf(id) \in Slots /\ s = registry[ach][cursor][SlotOf(id)] /\ s \in Sessions
  BY <1>3, <1>4, <1>5, GetSessionFound, Zenon DEF SessInv
<1>7. ~Dangling(ach, cursor, SlotOf(id)) /\ ~Cleared(ach, cursor, SlotOf(id))
  <2>1. epc \in {"free", "forget"} => ech # ach
    BY <1>1, Apart, Zenon DEF SessInv, AppHolds, AppStates, EpollHolds
  <2> QED
    BY <1>1, <2>1, Zenon DEF Dangling, Cleared
<1>8. op[1] = cursor /\ op[2] = s
  BY <1>2, Zenon DEF id
<1> HIDE DEF s
<1>9. Owns(ach, cursor, SlotOf(id), s)
  BY <1>6, <1>7, Zenon DEF Owns
<1>10. OwnInv /\ PrivInv
  BY Zenon DEF SessInv
<1>11. s \notin sessPool
  BY <1>1, <1>5, <1>6, <1>9, <1>10, Zenon DEF OwnInv
<1>12. priv[s] = cursor
  BY <1>1, <1>5, <1>6, <1>7, <1>9, <1>10 DEF PrivInv
<1> QED
  BY <1>6, <1>8, <1>11, <1>12, Zenon

\* A device never works with a session that was closed, freed or created
\* for another device.
THEOREM DeviceSessionsStayLive == Spec => []DeviceSessionsLive
BY LiveOnDevice, SessionsInvariant, PTL

\* With a session in hand there is private data and a slot left: the session
\* in hand has neither, and there are as many of each as sessions.
LEMMA RoomForOne ==
  ASSUME SessInv
  PROVE  CreationHasRoom
<1> SUFFICES ASSUME apc = "init"
             PROVE  PrivFree > 0 /\ \E i \in Slots : registry[ach][made[1]][i] = NoSession
  BY Zenon DEF CreationHasRoom
<1> DEFINE dev == made[1]
           s == made[2]
           Others == Sessions \ {s}
<1>1. dev \in Devs /\ s \in Sessions /\ priv[s] = NoDev /\ ach \in Channels
  BY Zenon DEF SessInv, OwnInv, PrivInv, TypeOK
<1>2. IsFiniteSet(Others) /\ Cardinality(Others) = MaxSess - 1
  <2>1. IsFiniteSet(Sessions) /\ Cardinality(Sessions) = MaxSess
    BY SessionsAssumption
  <2> QED
    BY <1>1, <2>1, FS_RemoveElement
<1>3. PrivFree > 0
  <2> DEFINE P == {r \in Sessions : priv[r] # NoDev}
  <2>1. P \in SUBSET Others
    BY <1>1, Zenon
  <2>2. Cardinality(P) <= MaxSess - 1 /\ Cardinality(P) \in Nat
    BY <1>2, <2>1, FS_Subset, FS_CardinalityType
  <2> QED
    BY <2>2, SessionsAssumption DEF PrivFree
<1>4. ASSUME \A i \in Slots : registry[ach][dev][i] # NoSession
      PROVE  FALSE
  <2> DEFINE f == [i \in Slots |-> registry[ach][dev][i]]
  <2>1. \A i \in Slots : registry[ach][dev][i] \in Sessions
    BY <1>1, <1>4 DEF SessInv, TypeOK
  <2>2. \A i \in Slots : ~Dangling(ach, dev, i)
    <3>1. epc = "forget" => ech # ach
      BY Apart, Zenon DEF SessInv, AppHolds, AppStates, EpollHolds
    <3> QED
      BY <3>1, Zenon DEF Dangling
  <2>3. \A i \in Slots : Owns(ach, dev, i, f[i])
    BY <2>2, Zenon DEF Owns
  <2>4. \A i \in Slots : f[i] \in Others
    BY <1>1, <2>1, <2>3 DEF SessInv, OwnInv
  <2>5. \A i, j \in Slots : f[i] = f[j] => i = j
    BY <1>1, <2>1, <2>3 DEF SessInv, OwnInv
  <2>6. IsFiniteSet(Slots) /\ Cardinality(Slots) = MaxSess
    BY FS_Interval, SessionsAssumption DEF Slots
  <2>7. f \in [Slots -> Others]
    BY <2>4, Zenon
  <2> HIDE DEF f, Others
  <2>8. \E i, j \in Slots : i # j /\ f[i] = f[j]
    BY <1>2, <2>6, <2>7, FS_PigeonHole, SessionsAssumption
  <2> QED
    BY <2>5, <2>8, Zenon
<1> QED
  BY <1>3, <1>4, Zenon

\* create_session never has to give a session back for want of private data
\* or of a slot.
THEOREM CreationAlwaysHasRoom == Spec => []CreationHasRoom
BY RoomForOne, SessionsInvariant, PTL
=============================================================================
