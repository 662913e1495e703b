------------------------ MODULE ConnLifecycleProofs -------------------------
(***************************************************************************)
(* For any number of threads and connections, however often the server     *)
(* goes: if conn_free and the epoll thread exclude each other, no thread   *)
(* uses queues that were freed and a freed connection is clean.            *)
(***************************************************************************)
EXTENDS ConnLifecycle, TLAPS

\* Only what has a socket has queues, and only what has queues is up.
Nested ==
  /\ handle \subseteq Conns
  /\ fd \subseteq handle
  /\ queues \subseteq fd
  /\ connected \subseteq queues
  /\ active \subseteq queues

Spots == Disconnecting \cup InQueues \cup {"idle", "wait", "send", "poll", "up", "activate"}

\* Where the threads may be.
Places ==
  /\ pc \in [Threads -> Spots]
  /\ pc[Epoll] # "idle" => at \in Conns
  /\ pc[Epoll] \in Disconnecting \cup {"idle", "up", "activate"}
  /\ \A t \in Callers : pc[t] \notin {"up", "activate"}
  /\ opState # "RUNNING" => \A t \in Callers : pc[t] = "idle"
  /\ opState = "IDLE" => pc[Epoll] = "idle" /\ handle = {}

\* A thread that connects or disconnects is alone with the connection, and
\* what it has cleared stays cleared.
Progress(x) ==
  /\ pc[x] \in {"up", "activate"} => On(x) \in queues
  /\ pc[x] \in {"deactivate", "free", "remove"} => On(x) \notin connected
  /\ pc[x] \in {"free", "remove"} =>
       /\ On(x) \notin active
       /\ \A t \in Callers : ConnOf(t) = On(x) => pc[t] \notin InQueues
  /\ pc[x] = "remove" => On(x) \notin fd

\* A thread is between its lock and its return exactly when it has the mutex.
Locked ==
  /\ mutex \in [Conns -> [owner : Threads \cup {None}, depth : Nat]]
  /\ \A c \in Conns : mutex[c].owner # Epoll
  /\ \A c \in Conns : mutex[c].owner = None => mutex[c].depth = 0
  /\ \A t \in Callers :
       /\ pc[t] \in InQueues =>
            /\ mutex[ConnOf(t)].owner = t
            /\ mutex[ConnOf(t)].depth = IF pc[t] = "nested" THEN 2 ELSE 1
       /\ \A c \in Conns : mutex[c].owner = t => c = ConnOf(t) /\ pc[t] \in InQueues

LifeInv ==
  /\ Nested
  /\ Places
  /\ OneThreadDisconnects
  /\ \A x \in Threads : Progress(x)
  /\ Locked
  /\ UsesMappedQueues
-----------------------------------------------------------------------------
\* Unlock releases a mutex held once, and one level of a mutex held twice.
LEMMA UnlockOnce ==
  ASSUME NEW t, NEW c, mutex[c].depth = 1, Unlock(t, c)
  PROVE  mutex' = [mutex EXCEPT ![c] = Free]
BY DEF Unlock

LEMMA UnlockTwice ==
  ASSUME NEW t, NEW c, mutex[c].depth = 2, Unlock(t, c)
  PROVE  mutex' = [mutex EXCEPT ![c] = [owner |-> t, depth |-> 1]]
BY DEF Unlock

\* Steps that leave every variable of the invariant alone.
LEMMA FrameInv ==
  ASSUME LifeInv, UNCHANGED <<opState, handle, fd, queues, connected, active, mutex, pc, at>>
  PROVE  LifeInv'
<1> USE LifecycleAssumption DEF LifeInv, Threads, On, Disconnecting, InQueues, Goto
<1>1. Nested'
  BY DEF Nested, Places, Progress, UsesMappedQueues
<1>2. Places'
  BY DEF Nested, Places, Spots
<1>3. OneThreadDisconnects'
  BY DEF OneThreadDisconnects, Places
<1>4. (\A y \in Threads : Progress(y))'
  BY DEF Progress, Places, Nested, Locked, OneThreadDisconnects, UsesMappedQueues
<1>5. Locked'
  BY DEF Locked, Places
<1>6. UsesMappedQueues'
  BY DEF UsesMappedQueues, Nested, Places, Progress, Locked
<1>7. QED
  BY <1>1, <1>2, <1>3, <1>4, <1>5, <1>6

\* A caller goes on outside the queues, or inside them with the mutex held.
LEMMA CallerMoves ==
  ASSUME LifeInv, NEW t \in Callers, NEW p \in Spots,
         pc' = [pc EXCEPT ![t] = p], opState = "RUNNING",
         UNCHANGED <<opState, handle, fd, queues, connected, active, mutex, at>>,
         \/ {pc[t], p} \subseteq {"idle", "wait", "send", "poll"}
         \/ {pc[t], p} \subseteq {"tx", "rx", "again", "callback", "served"}
  PROVE  LifeInv'
<1> USE LifecycleAssumption DEF LifeInv, Threads, On, Disconnecting, InQueues, Goto
<1>1. Nested'
  BY DEF Nested, Places, Progress, UsesMappedQueues
<1>2. Places'
  BY DEF Nested, Places, Spots
<1>3. OneThreadDisconnects'
  BY DEF OneThreadDisconnects, Places
<1>4. (\A y \in Threads : Progress(y))'
  BY DEF Progress, Places, Nested, Locked, OneThreadDisconnects, UsesMappedQueues
<1>5. Locked'
  BY DEF Locked, Places
<1>6. UsesMappedQueues'
  BY DEF UsesMappedQueues, Nested, Places, Progress, Locked
<1>7. QED
  BY <1>1, <1>2, <1>3, <1>4, <1>5, <1>6

\* Drop(x) keeps the invariant.
LEMMA DropInv ==
  ASSUME LifeInv, NEW x \in Threads, Drop(x)
  PROVE  LifeInv'
<1> USE LifecycleAssumption DEF LifeInv, Threads, On, Disconnecting, InQueues, Goto, Drop, link
<1>1. Nested'
  BY DEF Nested, Places, Progress, UsesMappedQueues
<1>2. Places'
  BY DEF Nested, Places, Spots
<1>3. OneThreadDisconnects'
  BY DEF OneThreadDisconnects, Places
<1>4. (\A y \in Threads : Progress(y))'
  BY DEF Progress, Places, Nested, Locked, OneThreadDisconnects, UsesMappedQueues
<1>5. Locked'
  BY DEF Locked, Places
<1>6. UsesMappedQueues'
  BY DEF UsesMappedQueues, Nested, Places, Progress, Locked
<1>7. QED
  BY <1>1, <1>2, <1>3, <1>4, <1>5, <1>6

\* Deactivate(x) keeps the invariant.
LEMMA DeactivateInv ==
  ASSUME LifeInv, NEW x \in Threads, Deactivate(x)
  PROVE  LifeInv'
<1> USE LifecycleAssumption DEF LifeInv, Threads, On, Disconnecting, InQueues, Goto, Deactivate, CanLock, link
<1>0. \A t \in Callers : ConnOf(t) = On(x) => pc[t] \notin InQueues
  <2> SUFFICES ASSUME NEW t \in Callers, ConnOf(t) = On(x), pc[t] \in InQueues
               PROVE  FALSE
    OBVIOUS
  <2>1. mutex[ConnOf(t)].owner = t
    BY DEF Locked
  <2>2. t = x
    BY <2>1
  <2>3. QED
    BY <2>2
<1>1. Nested'
  BY <1>0 DEF Nested, Places, Progress, UsesMappedQueues
<1>2. Places'
  BY <1>0 DEF Nested, Places, Spots
<1>3. OneThreadDisconnects'
  BY <1>0 DEF OneThreadDisconnects, Places
<1>4. (\A y \in Threads : Progress(y))'
  BY <1>0 DEF Progress, Places, Nested, Locked, OneThreadDisconnects, UsesMappedQueues
<1>5. Locked'
  BY <1>0 DEF Locked, Places
<1>6. UsesMappedQueues'
  BY <1>0 DEF UsesMappedQueues, Nested, Places, Progress, Locked
<1>7. QED
  BY <1>1, <1>2, <1>3, <1>4, <1>5, <1>6

\* FreeQueues(x) keeps the invariant.
LEMMA FreeQueuesInv ==
  ASSUME LifeInv, NEW x \in Threads, FreeQueues(x)
  PROVE  LifeInv'
<1> USE LifecycleAssumption DEF LifeInv, Threads, On, Disconnecting, InQueues, Goto, FreeQueues, flags
<1>1. Nested'
  BY DEF Nested, Places, Progress, UsesMappedQueues
<1>2. Places'
  BY DEF Nested, Places, Spots
<1>3. OneThreadDisconnects'
  BY DEF OneThreadDisconnects, Places
<1>4. (\A y \in Threads : Progress(y))'
  BY DEF Progress, Places, Nested, Locked, OneThreadDisconnects, UsesMappedQueues
<1>5. Locked'
  BY DEF Locked, Places
<1>6. UsesMappedQueues'
  BY DEF UsesMappedQueues, Nested, Places, Progress, Locked
<1>7. QED
  BY <1>1, <1>2, <1>3, <1>4, <1>5, <1>6

\* Remove(x) keeps the invariant.
LEMMA RemoveInv ==
  ASSUME LifeInv, NEW x \in Threads, Remove(x)
  PROVE  LifeInv'
<1> USE LifecycleAssumption DEF LifeInv, Threads, On, Disconnecting, InQueues, Goto, Remove, flags
<1>1. Nested'
  BY DEF Nested, Places, Progress, UsesMappedQueues
<1>2. Places'
  BY DEF Nested, Places, Spots
<1>3. OneThreadDisconnects'
  BY DEF OneThreadDisconnects, Places
<1>4. (\A y \in Threads : Progress(y))'
  BY DEF Progress, Places, Nested, Locked, OneThreadDisconnects, UsesMappedQueues
<1>5. Locked'
  BY DEF Locked, Places
<1>6. UsesMappedQueues'
  BY DEF UsesMappedQueues, Nested, Places, Progress, Locked
<1>7. QED
  BY <1>1, <1>2, <1>3, <1>4, <1>5, <1>6

\* ConnAlloc(t) keeps the invariant.
LEMMA ConnAllocInv ==
  ASSUME LifeInv, Serial, NEW t \in Callers, ConnAlloc(t)
  PROVE  LifeInv'
<1> USE LifecycleAssumption DEF LifeInv, Threads, On, Disconnecting, InQueues, Goto, ConnAlloc, Alone
<1>1. Nested'
  BY DEF Nested, Places, Progress, UsesMappedQueues
<1>2. Places'
  BY DEF Nested, Places, Spots
<1>3. OneThreadDisconnects'
  BY DEF OneThreadDisconnects, Places
<1>4. (\A y \in Threads : Progress(y))'
  BY DEF Progress, Places, Nested, Locked, OneThreadDisconnects, UsesMappedQueues
<1>5. Locked'
  BY DEF Locked, Places
<1>6. UsesMappedQueues'
  BY DEF UsesMappedQueues, Nested, Places, Progress, Locked
<1>7. QED
  BY <1>1, <1>2, <1>3, <1>4, <1>5, <1>6

\* ConnFree(t) keeps the invariant.
LEMMA ConnFreeInv ==
  ASSUME LifeInv, Serial, NEW t \in Callers, ConnFree(t)
  PROVE  LifeInv'
<1> USE LifecycleAssumption DEF LifeInv, Threads, On, Disconnecting, InQueues, Goto, ConnFree, Alone, DeleteFrom, link, flags
<1>1. Nested'
  BY DEF Nested, Places, Progress, UsesMappedQueues
<1>2. Places'
  BY DEF Nested, Places, Spots
<1>3. OneThreadDisconnects'
  BY DEF OneThreadDisconnects, Places
<1>4. (\A y \in Threads : Progress(y))'
  BY DEF Progress, Places, Nested, Locked, OneThreadDisconnects, UsesMappedQueues
<1>5. Locked'
  BY DEF Locked, Places
<1>6. UsesMappedQueues'
  BY DEF UsesMappedQueues, Nested, Places, Progress, Locked
<1>7. QED
  BY <1>1, <1>2, <1>3, <1>4, <1>5, <1>6

\* Enter(t) keeps the invariant.
LEMMA EnterInv ==
  ASSUME LifeInv, NEW t \in Callers, Enter(t)
  PROVE  LifeInv'
<1> USE LifecycleAssumption DEF LifeInv, Threads, On, Disconnecting, InQueues, Goto, Enter, CanLock, Lock, link, flags
<1>1. Nested'
  BY DEF Nested, Places, Progress, UsesMappedQueues
<1>2. Places'
  BY DEF Nested, Places, Spots
<1>3. OneThreadDisconnects'
  BY DEF OneThreadDisconnects, Places
<1>4. (\A y \in Threads : Progress(y))'
  BY DEF Progress, Places, Nested, Locked, OneThreadDisconnects, UsesMappedQueues
<1>5. Locked'
  BY DEF Locked, Places
<1>6. UsesMappedQueues'
  BY DEF UsesMappedQueues, Nested, Places, Progress, Locked
<1>7. QED
  BY <1>1, <1>2, <1>3, <1>4, <1>5, <1>6

\* A send that returns, to the application or to the callback, keeps the invariant.
LEMMA SendReturnInv ==
  ASSUME LifeInv, NEW t \in Callers, pc[t] \in {"tx", "nested"}, SendReturn(t),
         UNCHANGED <<opState, handle, fd, queues, connected, active, at>>
  PROVE  LifeInv'
<1> USE LifecycleAssumption DEF LifeInv, Threads, On, Disconnecting, InQueues, Goto, SendReturn
<1>0. \/ pc[t] = "tx" /\ mutex' = [mutex EXCEPT ![ConnOf(t)] = Free]
      \/ /\ pc[t] = "nested"
         /\ mutex' = [mutex EXCEPT ![ConnOf(t)] = [owner |-> t, depth |-> 1]]
  <2>1. mutex[ConnOf(t)].depth = IF pc[t] = "nested" THEN 2 ELSE 1
    BY DEF Locked
  <2>2. QED
    BY <2>1, UnlockOnce, UnlockTwice
<1>1. Nested'
  BY DEF Nested, Places, Progress, UsesMappedQueues
<1>2. Places'
  BY DEF Nested, Places, Spots
<1>3. OneThreadDisconnects'
  BY DEF OneThreadDisconnects, Places
<1>4. (\A y \in Threads : Progress(y))'
  BY DEF Progress, Places, Nested, Locked, OneThreadDisconnects, UsesMappedQueues
<1>5. Locked'
  <2>1. /\ mutex' \in [Conns -> [owner : Threads \cup {None}, depth : Nat]]
        /\ \A c \in Conns : mutex'[c].owner # Epoll
        /\ \A c \in Conns : mutex'[c].owner = None => mutex'[c].depth = 0
    BY <1>0 DEF Locked, Free
  <2>2. ASSUME NEW u \in Callers, u # t
        PROVE  /\ pc'[u] = pc[u]
               /\ pc[u] \in InQueues => mutex'[ConnOf(u)] = mutex[ConnOf(u)]
               /\ \A c \in Conns : mutex'[c].owner = u => mutex[c].owner = u
    BY <1>0, <2>2 DEF Locked, Places, Free
  <2>3. /\ pc'[t] \in InQueues => mutex'[ConnOf(t)] = [owner |-> t, depth |-> 1]
        /\ pc'[t] # "nested"
        /\ \A c \in Conns : mutex'[c].owner = t => pc'[t] \in InQueues
    BY <1>0 DEF Locked, Places, Free
  <2>4. ASSUME NEW u \in Callers
        PROVE  /\ pc'[u] \in InQueues =>
                    /\ mutex'[ConnOf(u)].owner = u
                    /\ mutex'[ConnOf(u)].depth = IF pc'[u] = "nested" THEN 2 ELSE 1
               /\ \A c \in Conns : mutex'[c].owner = u => c = ConnOf(u) /\ pc'[u] \in InQueues
    <3>1. CASE u = t
      BY <1>0, <2>3, <3>1 DEF Locked, Free
    <3>2. CASE u # t
      BY <2>2, <3>2 DEF Locked
    <3>3. QED
      BY <3>1, <3>2
  <2>5. QED
    BY <2>1, <2>4 DEF Locked
<1>6. UsesMappedQueues'
  BY DEF UsesMappedQueues, Nested, Places, Progress, Locked
<1>7. QED
  BY <1>1, <1>2, <1>3, <1>4, <1>5, <1>6

\* CallbackSend(t) keeps the invariant.
LEMMA CallbackSendInv ==
  ASSUME LifeInv, NEW t \in Callers, CallbackSend(t)
  PROVE  LifeInv'
<1> USE LifecycleAssumption DEF LifeInv, Threads, On, Disconnecting, InQueues, Goto, CallbackSend, CanLock, Lock, link, flags
<1>1. Nested'
  BY DEF Nested, Places, Progress, UsesMappedQueues
<1>2. Places'
  BY DEF Nested, Places, Spots
<1>3. OneThreadDisconnects'
  BY DEF OneThreadDisconnects, Places
<1>4. (\A y \in Threads : Progress(y))'
  BY DEF Progress, Places, Nested, Locked, OneThreadDisconnects, UsesMappedQueues
<1>5. Locked'
  BY DEF Locked, Places
<1>6. UsesMappedQueues'
  BY DEF UsesMappedQueues, Nested, Places, Progress, Locked
<1>7. QED
  BY <1>1, <1>2, <1>3, <1>4, <1>5, <1>6

\* PollReturn(t) keeps the invariant.
LEMMA PollReturnInv ==
  ASSUME LifeInv, NEW t \in Callers, PollReturn(t)
  PROVE  LifeInv'
<1> USE LifecycleAssumption DEF LifeInv, Threads, On, Disconnecting, InQueues, Goto, PollReturn, link, flags
<1>0. mutex' = [mutex EXCEPT ![ConnOf(t)] = Free]
  <2>1. mutex[ConnOf(t)].depth = 1
    BY DEF Locked
  <2>2. QED
    BY <2>1, UnlockOnce
<1>1. Nested'
  BY DEF Nested, Places, Progress, UsesMappedQueues
<1>2. Places'
  BY DEF Nested, Places, Spots
<1>3. OneThreadDisconnects'
  BY DEF OneThreadDisconnects, Places
<1>4. (\A y \in Threads : Progress(y))'
  BY DEF Progress, Places, Nested, Locked, OneThreadDisconnects, UsesMappedQueues
<1>5. Locked'
  <2>1. /\ mutex' \in [Conns -> [owner : Threads \cup {None}, depth : Nat]]
        /\ \A c \in Conns : mutex'[c].owner # Epoll
        /\ \A c \in Conns : mutex'[c].owner = None => mutex'[c].depth = 0
    BY <1>0 DEF Locked, Free
  <2>2. ASSUME NEW u \in Callers, u # t
        PROVE  /\ pc'[u] = pc[u]
               /\ pc[u] \in InQueues => mutex'[ConnOf(u)] = mutex[ConnOf(u)]
               /\ \A c \in Conns : mutex'[c].owner = u => mutex[c].owner = u
    BY <1>0, <2>2 DEF Locked, Places, Free
  <2>3. /\ pc'[t] \in InQueues => mutex'[ConnOf(t)] = [owner |-> t, depth |-> 1]
        /\ pc'[t] # "nested"
        /\ \A c \in Conns : mutex'[c].owner = t => pc'[t] \in InQueues
    BY <1>0 DEF Locked, Places, Free
  <2>4. ASSUME NEW u \in Callers
        PROVE  /\ pc'[u] \in InQueues =>
                    /\ mutex'[ConnOf(u)].owner = u
                    /\ mutex'[ConnOf(u)].depth = IF pc'[u] = "nested" THEN 2 ELSE 1
               /\ \A c \in Conns : mutex'[c].owner = u => c = ConnOf(u) /\ pc'[u] \in InQueues
    <3>1. CASE u = t
      BY <1>0, <2>3, <3>1 DEF Locked, Free
    <3>2. CASE u # t
      BY <2>2, <3>2 DEF Locked
    <3>3. QED
      BY <3>1, <3>2
  <2>5. QED
    BY <2>1, <2>4 DEF Locked
<1>6. UsesMappedQueues'
  BY DEF UsesMappedQueues, Nested, Places, Progress, Locked
<1>7. QED
  BY <1>1, <1>2, <1>3, <1>4, <1>5, <1>6

\* TimerConnect(c) keeps the invariant.
LEMMA TimerConnectInv ==
  ASSUME LifeInv, Serial, NEW c \in Conns, TimerConnect(c)
  PROVE  LifeInv'
<1> USE LifecycleAssumption DEF LifeInv, Threads, On, Disconnecting, InQueues, Goto, TimerConnect, Picks, Alone, flags
<1>1. Nested'
  BY DEF Nested, Places, Progress, UsesMappedQueues
<1>2. Places'
  BY DEF Nested, Places, Spots
<1>3. OneThreadDisconnects'
  BY DEF OneThreadDisconnects, Places
<1>4. (\A y \in Threads : Progress(y))'
  BY DEF Progress, Places, Nested, Locked, OneThreadDisconnects, UsesMappedQueues
<1>5. Locked'
  BY DEF Locked, Places
<1>6. UsesMappedQueues'
  BY DEF UsesMappedQueues, Nested, Places, Progress, Locked
<1>7. QED
  BY <1>1, <1>2, <1>3, <1>4, <1>5, <1>6

\* Connected(c) keeps the invariant.
LEMMA ConnectedInv ==
  ASSUME LifeInv, Serial, NEW c \in Conns, Connected(c)
  PROVE  LifeInv'
<1> USE LifecycleAssumption DEF LifeInv, Threads, On, Disconnecting, InQueues, Goto, Connected, Picks, Alone, flags
<1>1. Nested'
  BY DEF Nested, Places, Progress, UsesMappedQueues
<1>2. Places'
  BY DEF Nested, Places, Spots
<1>3. OneThreadDisconnects'
  BY DEF OneThreadDisconnects, Places
<1>4. (\A y \in Threads : Progress(y))'
  BY DEF Progress, Places, Nested, Locked, OneThreadDisconnects, UsesMappedQueues
<1>5. Locked'
  BY DEF Locked, Places
<1>6. UsesMappedQueues'
  BY DEF UsesMappedQueues, Nested, Places, Progress, Locked
<1>7. QED
  BY <1>1, <1>2, <1>3, <1>4, <1>5, <1>6

\* SetConnected keeps the invariant.
LEMMA SetConnectedInv ==
  ASSUME LifeInv, SetConnected
  PROVE  LifeInv'
<1> USE LifecycleAssumption DEF LifeInv, Threads, On, Disconnecting, InQueues, Goto, SetConnected, link
<1>1. Nested'
  BY DEF Nested, Places, Progress, UsesMappedQueues
<1>2. Places'
  BY DEF Nested, Places, Spots
<1>3. OneThreadDisconnects'
  BY DEF OneThreadDisconnects, Places
<1>4. (\A y \in Threads : Progress(y))'
  BY DEF Progress, Places, Nested, Locked, OneThreadDisconnects, UsesMappedQueues
<1>5. Locked'
  BY DEF Locked, Places
<1>6. UsesMappedQueues'
  BY DEF UsesMappedQueues, Nested, Places, Progress, Locked
<1>7. QED
  BY <1>1, <1>2, <1>3, <1>4, <1>5, <1>6

\* Activate keeps the invariant.
LEMMA ActivateInv ==
  ASSUME LifeInv, Activate
  PROVE  LifeInv'
<1> USE LifecycleAssumption DEF LifeInv, Threads, On, Disconnecting, InQueues, Goto, Activate, CanLock, link
<1>1. Nested'
  BY DEF Nested, Places, Progress, UsesMappedQueues
<1>2. Places'
  BY DEF Nested, Places, Spots
<1>3. OneThreadDisconnects'
  BY DEF OneThreadDisconnects, Places
<1>4. (\A y \in Threads : Progress(y))'
  BY DEF Progress, Places, Nested, Locked, OneThreadDisconnects, UsesMappedQueues
<1>5. Locked'
  BY DEF Locked, Places
<1>6. UsesMappedQueues'
  BY DEF UsesMappedQueues, Nested, Places, Progress, Locked
<1>7. QED
  BY <1>1, <1>2, <1>3, <1>4, <1>5, <1>6

\* HangUp(c) keeps the invariant.
LEMMA HangUpInv ==
  ASSUME LifeInv, Serial, NEW c \in Conns, HangUp(c)
  PROVE  LifeInv'
<1> USE LifecycleAssumption DEF LifeInv, Threads, On, Disconnecting, InQueues, Goto, HangUp, Picks, Alone, link, flags
<1>1. Nested'
  BY DEF Nested, Places, Progress, UsesMappedQueues
<1>2. Places'
  BY DEF Nested, Places, Spots
<1>3. OneThreadDisconnects'
  BY DEF OneThreadDisconnects, Places
<1>4. (\A y \in Threads : Progress(y))'
  BY DEF Progress, Places, Nested, Locked, OneThreadDisconnects, UsesMappedQueues
<1>5. Locked'
  BY DEF Locked, Places
<1>6. UsesMappedQueues'
  BY DEF UsesMappedQueues, Nested, Places, Progress, Locked
<1>7. QED
  BY <1>1, <1>2, <1>3, <1>4, <1>5, <1>6

\* UserDelete(c) keeps the invariant.
LEMMA UserDeleteInv ==
  ASSUME LifeInv, Serial, NEW c \in Conns, UserDelete(c)
  PROVE  LifeInv'
<1> USE LifecycleAssumption DEF LifeInv, Threads, On, Disconnecting, InQueues, Goto, UserDelete, Picks, Alone, DeleteFrom, link, flags
<1>1. Nested'
  BY DEF Nested, Places, Progress, UsesMappedQueues
<1>2. Places'
  BY DEF Nested, Places, Spots
<1>3. OneThreadDisconnects'
  BY DEF OneThreadDisconnects, Places
<1>4. (\A y \in Threads : Progress(y))'
  BY DEF Progress, Places, Nested, Locked, OneThreadDisconnects, UsesMappedQueues
<1>5. Locked'
  BY DEF Locked, Places
<1>6. UsesMappedQueues'
  BY DEF UsesMappedQueues, Nested, Places, Progress, Locked
<1>7. QED
  BY <1>1, <1>2, <1>3, <1>4, <1>5, <1>6

\* CleanupStop keeps the invariant.
LEMMA CleanupStopInv ==
  ASSUME LifeInv, CleanupStop
  PROVE  LifeInv'
<1> USE LifecycleAssumption DEF LifeInv, Threads, On, Disconnecting, InQueues, Goto, CleanupStop, link, flags
<1>1. Nested'
  BY DEF Nested, Places, Progress, UsesMappedQueues
<1>2. Places'
  BY DEF Nested, Places, Spots
<1>3. OneThreadDisconnects'
  BY DEF OneThreadDisconnects, Places
<1>4. (\A y \in Threads : Progress(y))'
  BY DEF Progress, Places, Nested, Locked, OneThreadDisconnects, UsesMappedQueues
<1>5. Locked'
  BY DEF Locked, Places
<1>6. UsesMappedQueues'
  BY DEF UsesMappedQueues, Nested, Places, Progress, Locked
<1>7. QED
  BY <1>1, <1>2, <1>3, <1>4, <1>5, <1>6

\* CleanupDelete keeps the invariant.
LEMMA CleanupDeleteInv ==
  ASSUME LifeInv, CleanupDelete
  PROVE  LifeInv'
<1> USE LifecycleAssumption DEF LifeInv, Threads, On, Disconnecting, InQueues, Goto, CleanupDelete
<1>1. Nested'
  BY DEF Nested, Places, Progress, UsesMappedQueues
<1>2. Places'
  BY DEF Nested, Places, Spots
<1>3. OneThreadDisconnects'
  BY DEF OneThreadDisconnects, Places
<1>4. (\A y \in Threads : Progress(y))'
  BY DEF Progress, Places, Nested, Locked, OneThreadDisconnects, UsesMappedQueues
<1>5. Locked'
  BY DEF Locked, Places
<1>6. UsesMappedQueues'
  BY DEF UsesMappedQueues, Nested, Places, Progress, Locked
<1>7. QED
  BY <1>1, <1>2, <1>3, <1>4, <1>5, <1>6

\* InitAgain keeps the invariant.
LEMMA InitAgainInv ==
  ASSUME LifeInv, InitAgain
  PROVE  LifeInv'
<1> USE LifecycleAssumption DEF LifeInv, Threads, On, Disconnecting, InQueues, Goto, InitAgain
<1>1. Nested'
  BY DEF Nested, Places, Progress, UsesMappedQueues
<1>2. Places'
  BY DEF Nested, Places, Spots
<1>3. OneThreadDisconnects'
  BY DEF OneThreadDisconnects, Places
<1>4. (\A y \in Threads : Progress(y))'
  BY DEF Progress, Places, Nested, Locked, OneThreadDisconnects, UsesMappedQueues
<1>5. Locked'
  BY DEF Locked, Places
<1>6. UsesMappedQueues'
  BY DEF UsesMappedQueues, Nested, Places, Progress, Locked
<1>7. QED
  BY <1>1, <1>2, <1>3, <1>4, <1>5, <1>6

\* In the initial states nothing is connected and every mutex is free.
LEMMA InitInv == Init => LifeInv
<1> SUFFICES ASSUME Init PROVE LifeInv
  OBVIOUS
<1> USE LifecycleAssumption DEF Init, Threads, Disconnecting, InQueues
<1>1. Nested /\ UsesMappedQueues
  BY DEF Nested, UsesMappedQueues
<1>2. Places
  BY DEF Places, Spots
<1>3. OneThreadDisconnects /\ \A x \in Threads : Progress(x)
  BY DEF OneThreadDisconnects, Progress
<1>4. Locked
  BY DEF Locked, Free
<1>5. QED
  BY <1>1, <1>2, <1>3, <1>4 DEF LifeInv

\* The calls of the application threads.
LEMMA CallerStep ==
  ASSUME LifeInv, Serial, NEW t \in Callers,
         \/ ConnAlloc(t) \/ ConnAllocReturn(t) \/ ConnFree(t)
         \/ Call(t) \/ Refused(t) \/ NotConnected(t) \/ Enter(t)
         \/ Put(t) \/ Retry(t) \/ GiveUp(t)
         \/ Burst(t) \/ BurstAgain(t) \/ CallbackSend(t) \/ CallbackReturn(t) \/ PollReturn(t)
  PROVE  LifeInv'
<1>0. pc[t] # "idle" => opState = "RUNNING"
  BY DEF LifeInv, Places
<1> USE DEF Goto, link, flags
<1>1. CASE ConnAllocReturn(t) \/ Call(t) \/ Refused(t) \/ NotConnected(t)
  <2>1. PICK p \in {"idle", "send", "poll"} : pc' = [pc EXCEPT ![t] = p]
    BY <1>1 DEF ConnAllocReturn, Call, Refused, NotConnected
  <2>2. /\ pc[t] \in {"idle", "wait", "send", "poll"} /\ opState = "RUNNING"
        /\ UNCHANGED <<opState, handle, fd, queues, connected, active, mutex, at>>
    BY <1>0, <1>1 DEF ConnAllocReturn, Call, Refused, NotConnected
  <2>3. QED
    BY <2>1, <2>2, CallerMoves DEF Spots
<1>2. CASE Burst(t) \/ BurstAgain(t) \/ CallbackReturn(t)
  <2>1. PICK p \in {"callback", "served", "rx", "again"} : pc' = [pc EXCEPT ![t] = p]
    BY <1>2 DEF Burst, BurstAgain, TakeBurst, CallbackReturn
  <2>2. /\ pc[t] \in {"rx", "again", "served"} /\ opState = "RUNNING"
        /\ UNCHANGED <<opState, handle, fd, queues, connected, active, mutex, at>>
    BY <1>0, <1>2 DEF Burst, BurstAgain, TakeBurst, CallbackReturn
  <2>3. QED
    BY <2>1, <2>2, CallerMoves DEF Spots, InQueues
<1>3. CASE Put(t) \/ GiveUp(t)
  BY <1>3, SendReturnInv DEF Put, GiveUp
<1>4. CASE Retry(t)
  BY <1>4, FrameInv DEF Retry, vars
<1>5. QED
  BY <1>1, <1>2, <1>3, <1>4, ConnAllocInv, ConnFreeInv, EnterInv, CallbackSendInv, PollReturnInv

\* Every step keeps the invariant.
LEMMA StepInv ==
  ASSUME LifeInv, Serial, [Next]_vars
  PROVE  LifeInv'
<1>1. CASE \E x \in Threads : Drop(x) \/ Deactivate(x) \/ FreeQueues(x) \/ Remove(x)
  BY <1>1, DropInv, DeactivateInv, FreeQueuesInv, RemoveInv
<1>2. CASE \E c \in Conns : TimerConnect(c) \/ Connected(c) \/ HangUp(c) \/ UserDelete(c)
  BY <1>2, TimerConnectInv, ConnectedInv, HangUpInv, UserDeleteInv
<1>3. CASE SetConnected \/ Activate \/ CleanupStop \/ CleanupDelete \/ InitAgain
  BY <1>3, SetConnectedInv, ActivateInv, CleanupStopInv, CleanupDeleteInv, InitAgainInv
<1>4. CASE (\E c \in Conns : ServerDrains(c)) \/ ServerGoes \/ ServerReturns \/ UNCHANGED vars
  BY <1>4, FrameInv DEF ServerDrains, ServerGoes, ServerReturns, vars, link, flags
<1>5. QED
  BY <1>1, <1>2, <1>3, <1>4, CallerStep DEF Next

\* The invariant holds in every reachable state.
THEOREM LifeInvariant ==
  ASSUME Serial
  PROVE  Spec => []LifeInv
<1>1. LifeInv /\ [Next]_vars => LifeInv'
  BY StepInv
<1>2. QED
  BY InitInv, <1>1, PTL DEF Spec

\* While conn_free and the epoll thread exclude each other, a thread inside
\* send or poll never touches queues that memif_disconnect_internal freed:
\* the mutex is enough, for any number of threads, connections and crashes.
THEOREM QueuesStayMapped ==
  ASSUME Serial
  PROVE  Spec => []UsesMappedQueues
<1>1. LifeInv => UsesMappedQueues
  BY DEF LifeInv
<1>2. QED
  BY LifeInvariant, <1>1, PTL

\* What conn_free or cleanup leaves behind is not active, not connected and
\* has neither socket nor queues.
THEOREM FreedStaysClean ==
  ASSUME Serial
  PROVE  Spec => []FreedIsClean
<1>1. LifeInv => FreedIsClean
  BY DEF LifeInv, Nested, FreedIsClean
<1>2. QED
  BY LifeInvariant, <1>1, PTL
=============================================================================
