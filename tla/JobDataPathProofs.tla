------------------------- MODULE JobDataPathProofs --------------------------
(***************************************************************************)
(* Theorems about JobDataPath for every ring size, index width, burst size *)
(* and client behaviour.  The inductive invariant holds initially and is   *)
(* kept by each step of the client and, first here, of the server; what    *)
(* the runs check follows from it.                                         *)
(***************************************************************************)
EXTENDS JobDataPathLemmas

\* The server receives only requests that were published.
LEMMA ServerRxKeeps ==
  ASSUME RingInv, ServerRx
  PROVE  RingInv'
  <1> DEFINE n == Least(RxAvailable(sLastHead, s2mHead), MaxBufs)
  <1>0. TypeOK /\ ServerRx /\ RingsBounded /\ ControlState
    BY Zenon DEF RingInv
  <1>1. sRxBufs = <<>> /\ Len(sRxBufs) = 0 /\ sTxBufs = <<>> /\ Len(sTxBufs) = 0
    BY <1>0, Zenon DEF ServerRx, ControlState
  <1>2. /\ sRx \in Nat /\ cTx \in Nat /\ sRx <= cTx /\ cTx <= sRx + RingSize
        /\ Len(cTxBufs) \in Nat
    BY <1>0, <1>1, TypeFacts, RingConstants DEF RingsBounded, sFreed, cAlloc
  <1>3. RxAvailable(sLastHead, s2mHead) = cTx - sRx
    BY <1>2, RxAvailableExact DEF RingInv, IndicesAreCounters
  <1>4. n \in Nat /\ n <= cTx - sRx /\ n <= RingSize
    BY <1>2, <1>3, DataPathAssumption, RingConstants DEF Least
  <1>5. RxBufs(sLastHead, s2mHead, MaxBufs) = Run(sRx, n)
    <2>1. RxBufs(sLastHead, s2mHead, MaxBufs) = Run(U16(sRx), n)
      BY Zenon DEF RxBufs, RingInv, IndicesAreCounters
    <2>2. Run(U16(sRx) + 0, n) = Run(sRx + 0, n)
      <3>1. sRx \in Int /\ n \in Nat /\ 0 \in Int
        BY <1>2, <1>4
      <3> HIDE DEF n
      <3> QED BY <3>1, RunOfU16, Zenon
    <2>3. U16(sRx) + 0 = U16(sRx) /\ sRx + 0 = sRx
      BY <1>2, U16Type, RingConstants DEF Index
    <2> QED BY <2>1, <2>2, <2>3, Zenon
  <1>6. Len(Run(sRx, n)) = n /\ Run(sRx, n) \in Seq(Index)
    BY <1>2, <1>4, RunType
  <1>7. /\ sRxBufs' = Run(sRx, n) /\ Len(sRxBufs') = n
        /\ sLastHead' = RxNext(sLastHead, n)
        /\ sRx' = sRx + n
        /\ spc = "rx" /\ spc' = "alloc"
        /\ UNCHANGED <<s2m, m2s, client, sTxBufs, sTx, sErr>>
    BY <1>0, <1>5, <1>6, Zenon DEF ServerRx
  <1> HIDE DEF n
  <1>8. sLastHead' = U16(sRx + n) /\ sLastHead' \in Index
    <2>1. sLastHead = U16(sRx) /\ sRx \in Int /\ n \in Int /\ sRx + n \in Int
      BY <1>2, <1>4 DEF RingInv, IndicesAreCounters
    <2>2. sLastHead' = U16(U16(sRx) + n)
      BY <1>7, <2>1, Zenon DEF RxNext
    <2> QED BY <2>1, <2>2, U16Sum, U16Type, Zenon
  <1> USE DEF s2m, m2s, client, cSend, cRecv
  <1>9. TypeOK'
    <2>1. sRx' \in Nat /\ sRxBufs' \in Seq(Index)
      BY <1>2, <1>4, <1>6, <1>7
    <2> QED BY <1>0, <1>7, <1>8, <2>1, Zenon DEF TypeOK
  <1>10. cFreed' = cFreed /\ sFreed' = sFreed /\ sFreed = sRx
    BY <1>1, <1>2, <1>4, <1>7 DEF cFreed, sFreed
  <1>11. IndicesAreCounters'
    BY <1>7, <1>8, <1>10, Zenon DEF RingInv, IndicesAreCounters
  <1>12. BuffersAreRuns'
    BY <1>7, <1>10, Zenon DEF RingInv, BuffersAreRuns
  <1>13. RingsBounded'
    BY <1>0, <1>2, <1>4, <1>7, <1>10 DEF RingsBounded, cAlloc, sAlloc
  <1>14. ControlState' /\ RequestsInPlace' /\ LengthsReset'
    BY <1>0, <1>1, <1>7, <1>10, Zenon DEF RingInv, ControlState, RequestsInPlace, LengthsReset, cAlloc, sAlloc
  <1>15. JobsCounted'
    <2>1. sErr \in Nat /\ sTx \in Nat /\ sRx = sTx + sErr
      BY <1>0, <1>1, <1>7, TypeFacts DEF RingInv, JobsCounted
    <2> QED BY <1>2, <1>4, <1>7, <2>1, Zenon DEF JobsCounted
  <1>16. OutstandingBounded' /\ CreditSuffices'
    BY <1>7, Zenon DEF RingInv, OutstandingBounded, Outstanding, CreditSuffices
  <1> QED BY <1>9, <1>11, <1>12, <1>13, <1>14, <1>15, <1>16, Zenon DEF RingInv

\* memif_buffer_alloc gives as many response buffers as there are requests, or
\* else all that the client has given back.
LEMMA ServerAllocCounts ==
  ASSUME RingInv, ServerAlloc
  PROVE  \E n \in Nat :
           /\ n <= Len(sRxBufs) /\ sTx + n <= cFreed + RingSize
           /\ n < Len(sRxBufs) => n = cFreed + RingSize - sTx
           /\ sTxBufs' = Run(sTx, n) /\ Len(sTxBufs') = n
           /\ Run(sTx, n) \in Seq(Index)
           /\ sErr' = sErr + (Len(sRxBufs) - n)
  <1> DEFINE L == Len(sRxBufs)
             ns == MasterFree(m2sHead, m2sTail, sAlloc)
             n == Least(L, ns)
  <1>0. TypeOK /\ ServerAlloc /\ RingsBounded /\ ControlState
    BY DEF RingInv
  <1>1. sTxBufs = <<>> /\ Len(sTxBufs) = 0 /\ sAlloc = 0
    BY <1>0, Zenon DEF ServerAlloc, ControlState, sAlloc
  <1>2. /\ sTx \in Nat /\ cFreed \in Int /\ sTx <= cFreed + RingSize /\ L \in Nat
        /\ cFreed <= sTx
    <2>1. cRx \in Nat /\ Len(cRxBufs) \in Nat /\ sTx \in Nat /\ L \in Nat /\ RingSize \in Nat
      BY <1>0, TypeFacts, RingConstants, Zenon
    <2>2. cRx <= sTx /\ sTx + 0 <= cFreed + RingSize
      BY <1>0, <1>1, Zenon DEF RingsBounded
    <2> QED BY <1>0, <2>1, <2>2, TypeFacts DEF cFreed
  <1>3. ns = cFreed + RingSize - sTx
    <2> DEFINE head == cFreed + RingSize
    <2>1. head \in Int /\ sTx \in Int /\ 0 \in Int /\ sTx + 0 <= head /\ head <= sTx + 0 + RingSize
      BY <1>2, RingConstants
    <2>2. ns = MasterFree(U16(head), U16(sTx), 0)
      BY <1>1, Zenon DEF RingInv, IndicesAreCounters
    <2> HIDE DEF head, ns
    <2>3. ns = head - (sTx + 0)
      BY <2>1, <2>2, MasterFreeExact, Zenon
    <2> QED BY <1>2, <2>3, RingConstants DEF head
  <1>4. n \in Nat /\ n <= L /\ sTx + n <= cFreed + RingSize /\ (n < L => n = ns)
    BY <1>2, <1>3, RingConstants DEF Least
  <1>5. AllocBufs(m2sTail, sAlloc, L, ns) = Run(sTx, n)
    <2>1. AllocBufs(m2sTail, sAlloc, L, ns) = Run(U16(sTx) + 0, n)
      BY <1>1, Zenon DEF AllocBufs, RingInv, IndicesAreCounters
    <2>2. sTx \in Int /\ 0 \in Int /\ n \in Nat /\ sTx + 0 = sTx
      BY <1>2, <1>4
    <2> HIDE DEF n
    <2> QED BY <2>1, <2>2, RunOfU16, Zenon
  <1>6. Len(Run(sTx, n)) = n /\ Run(sTx, n) \in Seq(Index)
    BY <1>2, <1>4, RunType
  <1>7. sTxBufs' = Run(sTx, n) /\ Len(sTxBufs') = n /\ sErr' = sErr + (L - n)
    BY <1>0, <1>5, <1>6, Zenon DEF ServerAlloc
  <1> HIDE DEF n, ns
  <1> QED BY <1>3, <1>4, <1>6, <1>7, Zenon

\* What the counters tell about a client when requests are allocated for.
LEMMA ServerAllocFacts ==
  ASSUME RingInv, ServerAlloc
  PROVE  /\ sTx \in Nat /\ sErr \in Nat /\ sRx \in Nat /\ cTx \in Nat /\ cCount \in Nat
         /\ Len(sRxBufs) \in Nat /\ cFreed \in Int
         /\ sRx <= cTx /\ sRx = sTx + sErr + Len(sRxBufs)
         /\ Outstanding = cTx + cCount - cFreed
  <1>1. TypeOK /\ RingsBounded /\ JobsCounted /\ spc = "alloc"
    BY Zenon DEF RingInv, ServerAlloc
  <1>2. cRx \in Nat /\ Len(cRxBufs) \in Nat
    BY <1>1, TypeFacts, Zenon
  <1> QED BY <1>1, <1>2, TypeFacts DEF RingsBounded, JobsCounted, Outstanding, cFreed

\* Requests are dropped only when more than a ring of jobs is outstanding.
LEMMA ServerAllocDrops ==
  ASSUME RingInv, ServerAlloc, sErr' > sErr
  PROVE  Outstanding > RingSize
  <1>1. PICK n \in Nat :
          /\ n < Len(sRxBufs) => n = cFreed + RingSize - sTx
          /\ sErr' = sErr + (Len(sRxBufs) - n)
    BY ServerAllocCounts, Zenon
  <1>2. /\ sTx \in Nat /\ sErr \in Nat /\ cTx \in Nat /\ cCount \in Nat
        /\ Len(sRxBufs) \in Nat /\ cFreed \in Int /\ RingSize \in Nat
    BY ServerAllocFacts, RingConstants, Zenon
  <1>3. sTx + sErr + Len(sRxBufs) <= cTx /\ Outstanding = cTx + cCount - cFreed
    BY ServerAllocFacts, Zenon
  <1>4. n < Len(sRxBufs)
    BY <1>1, <1>2
  <1>5. cFreed + RingSize < sTx + Len(sRxBufs)
    BY <1>1, <1>2, <1>4
  <1>6. sTx + Len(sRxBufs) <= cTx + cCount
    BY <1>2, <1>3
  <1> QED BY <1>2, <1>3, <1>5, <1>6

\* Response buffers are free ones; with credit there are enough.
LEMMA ServerAllocKeeps ==
  ASSUME RingInv, ServerAlloc
  PROVE  RingInv'
  <1> DEFINE L == Len(sRxBufs)
  <1>0. TypeOK /\ RingsBounded /\ ControlState
    BY Zenon DEF RingInv
  <1>1. PICK n \in Nat :
          /\ n <= L /\ sTx + n <= cFreed + RingSize
          /\ sTxBufs' = Run(sTx, n) /\ Len(sTxBufs') = n
          /\ Run(sTx, n) \in Seq(Index)
          /\ sErr' = sErr + (L - n)
    BY ServerAllocCounts, Zenon
  <1>2. sTx \in Nat /\ sErr \in Nat /\ sRx \in Nat /\ L \in Nat
    BY ServerAllocFacts, Zenon
  <1>3. /\ spc = "alloc" /\ spc' = "copy"
        /\ UNCHANGED <<s2m, m2s, client, sRxBufs, sLastHead, sTx, sRx>>
    BY Zenon DEF ServerAlloc
  <1>4. sErr' \in Nat /\ sErr' >= sErr
    BY <1>1, <1>2
  <1>5. CreditSuffices'
    <2> SUFFICES ASSUME Credit <= RingSize PROVE sErr' = 0
      BY Zenon DEF CreditSuffices
    <2>1. sErr = 0 /\ Outstanding <= Credit
      BY Zenon DEF RingInv, CreditSuffices, OutstandingBounded
    <2>2. ~(sErr' > sErr)
      <3>1. Outstanding \in Int /\ ~(Outstanding > RingSize)
        BY <2>1, ServerAllocFacts, RingConstants, DataPathAssumption
      <3> QED BY <3>1, ServerAllocDrops, Zenon
    <2> QED BY <1>4, <2>1, <2>2
  <1> USE DEF s2m, m2s, client, cSend, cRecv
  <1>6. JobsCounted'
    <2>1. sRx = sTx + sErr + L
      BY <1>3, Zenon DEF RingInv, JobsCounted
    <2> HIDE DEF L
    <2> QED BY <1>1, <1>2, <1>3, <2>1 DEF JobsCounted
  <1>7. TypeOK'
    BY <1>0, <1>1, <1>3, <1>4, Zenon DEF TypeOK
  <1>8. cFreed' = cFreed /\ sFreed' = sFreed
    BY <1>3, Zenon DEF cFreed, sFreed
  <1>9. IndicesAreCounters' /\ BuffersAreRuns'
    BY <1>1, <1>3, <1>8, Zenon DEF RingInv, IndicesAreCounters, BuffersAreRuns
  <1>10. RingsBounded'
    BY <1>0, <1>1, <1>3, <1>8, Zenon DEF RingsBounded, cAlloc, sAlloc
  <1>11. ControlState'
    BY <1>0, <1>1, <1>3, Zenon DEF ControlState, cAlloc, sAlloc
  <1>12. RequestsInPlace' /\ LengthsReset' /\ OutstandingBounded'
    BY <1>3, <1>8, Zenon DEF RingInv, RequestsInPlace, LengthsReset, OutstandingBounded, Outstanding, cAlloc
  <1> QED BY <1>5, <1>6, <1>7, <1>9, <1>10, <1>11, <1>12, Zenon DEF RingInv

\* The buffers the server handles denote slots of the rings.
LEMMA ServerBuffers ==
  ASSUME TypeOK
  PROVE  /\ \A i \in DOMAIN sTxBufs : Slot(sTxBufs[i]) \in Slots
         /\ \A i \in DOMAIN sRxBufs : Slot(sRxBufs[i]) \in Slots
  <1>1. sTxBufs \in Seq(Index) /\ sRxBufs \in Seq(Index)
    BY TypeFacts, Zenon
  <1>2. /\ \A i \in DOMAIN sTxBufs : sTxBufs[i] \in Index
        /\ \A i \in DOMAIN sRxBufs : sRxBufs[i] \in Index
    BY <1>1
  <1>3. Index \subseteq Int
    BY RingConstants DEF Index
  <1> QED BY <1>2, <1>3, SlotType, ZenonT(30)

\* Copying writes only response buffers the client cannot see yet.
LEMMA ServerCopyKeeps ==
  ASSUME RingInv, ServerCopy
  PROVE  RingInv'
  <1> DEFINE vals == [i \in DOMAIN sTxBufs |->
                        Response(s2mBuf[Slot(sRxBufs[i])], FALSE)]
             R == [seq : Nat \cup {NoJob}, done : BOOLEAN]
  <1>0. TypeOK /\ ServerCopy /\ ControlState
    BY Zenon DEF RingInv
  <1>1. \A i \in DOMAIN sTxBufs : i \in DOMAIN sRxBufs
    <2>1. /\ Len(sTxBufs) \in Nat /\ Len(sRxBufs) \in Nat
          /\ sTxBufs \in Seq(Index) /\ sRxBufs \in Seq(Index)
      BY <1>0, TypeFacts, Zenon
    <2>2. Len(sTxBufs) <= Len(sRxBufs)
      BY <1>0, Zenon DEF ServerCopy, ControlState, sAlloc
    <2> QED BY <2>1, <2>2
  <1>2. \A i \in DOMAIN vals : vals[i] \in R
    BY <1>0, <1>1, ServerBuffers, Zenon DEF Response, TypeOK
  <1>3. m2sBuf \in [Slots -> R] /\ m2sBuf' = Fill(m2sBuf, sTxBufs, vals)
    BY <1>0, Zenon DEF TypeOK, ServerCopy
  <1> HIDE DEF vals, R
  <1>4. m2sBuf' \in [Slots -> R]
    BY <1>2, <1>3, FillType, Zenon
  <1> USE DEF RingInv, ServerCopy, s2m, client, cSend, cRecv
  <1>5. TypeOK'
    BY <1>0, <1>4, ZenonT(30) DEF TypeOK, R
  <1>6. IndicesAreCounters' /\ BuffersAreRuns' /\ RingsBounded'
    <2>1. IndicesAreCounters'
      BY Zenon DEF IndicesAreCounters, sFreed, cFreed
    <2>2. BuffersAreRuns'
      BY Zenon DEF BuffersAreRuns, sFreed, cFreed
    <2>3. RingsBounded'
      BY Zenon DEF RingsBounded, sFreed, cFreed, cAlloc, sAlloc
    <2> QED BY <2>1, <2>2, <2>3, Zenon
  <1>7. ControlState'
    BY <1>0, SMTT(30) DEF ControlState, cAlloc, sAlloc
  <1>8. RequestsInPlace' /\ LengthsReset' /\ JobsCounted'
    BY ZenonT(30) DEF RequestsInPlace, LengthsReset, JobsCounted, sFreed, cAlloc
  <1>9. OutstandingBounded' /\ CreditSuffices'
    BY Zenon DEF OutstandingBounded, Outstanding, CreditSuffices
  <1> QED BY <1>5, <1>6, <1>7, <1>8, <1>9, Zenon

\* Giving requests back moves tail to what the server has received.
LEMMA ServerRefillKeeps ==
  ASSUME RingInv, ServerRefill
  PROVE  RingInv'
  <1> DEFINE n == Len(sRxBufs)
  <1>0. TypeOK /\ ServerRefill /\ RingsBounded /\ ControlState
    BY DEF RingInv
  <1>1. /\ sRx \in Nat /\ n \in Nat /\ sFreed \in Int /\ sFreed = sRx - n
        /\ sFreed <= sRx /\ sRx <= sFreed + RingSize
        /\ cTx \in Nat /\ Len(cTxBufs) \in Nat
    <2>1. /\ sRx \in Nat /\ n \in Nat /\ cTx \in Nat /\ Len(cTxBufs) \in Nat
          /\ RingSize \in Nat
      BY <1>0, TypeFacts, RingConstants, Zenon
    <2>2. sRx <= cTx /\ cTx + Len(cTxBufs) <= sFreed + RingSize
      BY <1>0, Zenon DEF RingsBounded, cAlloc
    <2>3. sFreed = sRx - n
      BY Zenon DEF sFreed
    <2> HIDE DEF n
    <2> QED BY <2>1, <2>2, <2>3
  <1>2. s2mTail = U16(sFreed) /\ sLastHead = U16(sRx)
    BY Zenon DEF RingInv, IndicesAreCounters
  <1> HIDE DEF n
  <1>3. MasterRefill(s2mTail, sLastHead, n) = U16(sRx)
    <2>1. n = sRx - sFreed /\ sRx \in Int
      BY <1>1
    <2> QED BY <1>1, <1>2, <2>1, MasterRefillExact, Zenon
  <1>4. /\ s2mTail' = U16(sRx) /\ sRxBufs' = <<>> /\ Len(sRxBufs') = 0
        /\ spc = "refill" /\ spc' = "recv"
        /\ UNCHANGED <<s2mHead, s2mBuf, m2s, client, sTxBufs, sLastHead, sTx,
                       sRx, sErr>>
    BY <1>0, <1>3, Zenon DEF ServerRefill, n
  <1>5. s2mTail' \in Index
    BY <1>1, <1>4, U16Type
  <1> USE DEF m2s, client, cSend, cRecv
  <1>6. TypeOK'
    <2>1. sRxBufs' \in Seq(Index)
      BY <1>4
    <2> QED BY <1>0, <1>4, <1>5, <2>1, Zenon DEF TypeOK
  <1>7. sFreed' = sRx /\ cFreed' = cFreed
    BY <1>1, <1>4 DEF sFreed, cFreed
  <1>8. IndicesAreCounters'
    BY <1>4, <1>7, Zenon DEF RingInv, IndicesAreCounters
  <1>9. BuffersAreRuns'
    <2>1. sRxBufs' = Run(sFreed', Len(sRxBufs'))
      BY <1>1, <1>4, <1>7, RunType
    <2> QED BY <1>4, <1>7, <2>1, Zenon DEF RingInv, BuffersAreRuns
  <1>10. RingsBounded'
    BY <1>0, <1>1, <1>4, <1>7, RingConstants DEF RingsBounded, cAlloc, sAlloc
  <1>11. ControlState' /\ LengthsReset' /\ JobsCounted'
    BY <1>0, <1>4, Zenon DEF RingInv, ControlState, LengthsReset, JobsCounted, cAlloc, sAlloc
  <1>12. RequestsInPlace'
    <2> DEFINE last == IF cpc = "tx" THEN cTx + cAlloc - 1 ELSE cTx - 1
    <2>1. ASSUME NEW k \in sRx .. last PROVE s2mBuf[Slot(k)] = k
      <3>1. last \in Int
        BY <1>1 DEF cAlloc
      <3>2. k \in sFreed .. last
        BY <1>1, <3>1
      <3> QED BY <3>2, Zenon DEF RingInv, RequestsInPlace
    <2> QED BY <1>4, <1>7, <2>1, Zenon DEF RequestsInPlace, cAlloc
  <1>13. OutstandingBounded' /\ CreditSuffices'
    BY <1>4, Zenon DEF RingInv, OutstandingBounded, Outstanding, CreditSuffices
  <1> QED BY <1>6, <1>8, <1>9, <1>10, <1>11, <1>12, <1>13, Zenon DEF RingInv

\* Processing the jobs in place changes no index.
LEMMA ServerRecvKeeps ==
  ASSUME RingInv, ServerRecv
  PROVE  RingInv'
  <1> DEFINE vals == [i \in DOMAIN sTxBufs |->
                        Response(m2sBuf[Slot(sTxBufs[i])].seq, TRUE)]
             R == [seq : Nat \cup {NoJob}, done : BOOLEAN]
  <1>0. TypeOK /\ ServerRecv /\ ControlState
    BY DEF RingInv
  <1>1. \A i \in DOMAIN vals : vals[i] \in R
    BY <1>0, ServerBuffers, Zenon DEF Response, TypeOK
  <1>2. m2sBuf \in [Slots -> R] /\ m2sBuf' = Fill(m2sBuf, sTxBufs, vals)
    BY <1>0, SMTT(30) DEF TypeOK, ServerRecv
  <1> HIDE DEF vals, R
  <1>3. m2sBuf' \in [Slots -> R]
    BY <1>1, <1>2, FillType
  <1> USE DEF RingInv, ServerRecv, s2m, client, cSend, cRecv
  <1>5. TypeOK'
    BY <1>0, <1>3, ZenonT(30) DEF TypeOK, R
  <1>6. IndicesAreCounters' /\ BuffersAreRuns' /\ RingsBounded'
    <2>1. IndicesAreCounters'
      BY Zenon DEF IndicesAreCounters, sFreed, cFreed
    <2>2. BuffersAreRuns'
      BY Zenon DEF BuffersAreRuns, sFreed, cFreed
    <2>3. RingsBounded'
      BY Zenon DEF RingsBounded, sFreed, cFreed, cAlloc, sAlloc
    <2> QED BY <2>1, <2>2, <2>3, Zenon
  <1>7. ControlState'
    BY <1>0, Zenon DEF ControlState, cAlloc, sAlloc
  <1>8. RequestsInPlace' /\ LengthsReset' /\ JobsCounted'
    BY ZenonT(30) DEF RequestsInPlace, LengthsReset, JobsCounted, sFreed, cAlloc
  <1>9. OutstandingBounded' /\ CreditSuffices'
    BY Zenon DEF OutstandingBounded, Outstanding, CreditSuffices
  <1> QED BY <1>5, <1>6, <1>7, <1>8, <1>9, SMTT(30)

\* Publishing moves tail by the responses counted and sets their length.
LEMMA ServerTxKeeps ==
  ASSUME RingInv, ServerTx
  PROVE  RingInv'
  <1> DEFINE n == Len(sTxBufs)
             vals == [i \in 1 .. n |-> TxLength]
  <1>0. TypeOK /\ ServerTx /\ RingsBounded /\ ControlState
    BY DEF RingInv
  <1>1. sTx \in Nat /\ n \in Nat /\ cRx \in Nat /\ Len(cRxBufs) \in Nat /\ RingSize \in Nat
    BY <1>0, TypeFacts, RingConstants, Zenon
  <1>2. sTxBufs = Run(sTx, n) /\ m2sTail = U16(sTx)
    BY Zenon DEF RingInv, BuffersAreRuns, IndicesAreCounters
  <1>3. /\ DOMAIN vals = 1 .. n
        /\ \A i \in DOMAIN vals : vals[i] \in {FullLength, TxLength}
    BY Zenon
  <1>4. TxCount(Len(sTxBufs), sAlloc) = n
    BY <1>1, Zenon DEF sAlloc, TxCount, Least
  <1>5. n <= RingSize /\ cRx <= sTx /\ sTx + n <= cFreed + RingSize
    <2>1. cRx <= sTx /\ sTx + n <= cRx - Len(cRxBufs) + RingSize
      BY <1>0, Zenon DEF RingsBounded, cFreed, sAlloc
    <2> HIDE DEF n
    <2> QED BY <1>1, <2>1 DEF cFreed
  <1>6. /\ m2sTail' = TxIndex(m2sTail, sTxBufs, n)
        /\ m2sLen' = Fill(m2sLen, sTxBufs, vals)
        /\ sTxBufs' = <<>> /\ Len(sTxBufs') = 0 /\ sTx' = sTx + n
        /\ spc = "tx" /\ spc' = "rx"
        /\ UNCHANGED <<s2m, m2sHead, m2sBuf, client, sRxBufs, sLastHead, sRx,
                       sErr>>
    BY <1>0, <1>4, Zenon DEF ServerTx
  <1> HIDE DEF n, vals
  <1>7. m2sTail' = U16(sTx + n) /\ m2sTail' \in Index
    <2>1. sTx \in Int /\ sTx + n \in Int
      BY <1>1
    <2> QED BY <1>1, <1>2, <1>6, <2>1, TxIndexExact, U16Type, Zenon
  <1>8. m2sLen' \in [Slots -> {FullLength, TxLength}]
    <2>1. m2sLen \in [Slots -> {FullLength, TxLength}]
      BY <1>0, Zenon DEF TypeOK
    <2> QED BY <1>3, <1>6, <2>1, FillType, ZenonT(30)
  <1>9. LengthsReset'
    <2>1. ASSUME NEW k \in (sTx + n) .. (cRx + RingSize - 1)
          PROVE  m2sLen'[Slot(k)] = FullLength
      <3>1. /\ k \in Int /\ sTx \in Int /\ (k < sTx \/ sTx + n <= k)
            /\ sTx + n <= k + RingSize /\ k < sTx + RingSize
            /\ k \in sTx .. (cRx + RingSize - 1)
        BY <1>1, <1>5
      <3>2. m2sLen'[Slot(k)] = m2sLen[Slot(k)]
        <4>1. n \in Nat /\ n <= RingSize /\ DOMAIN vals = 1 .. n
          BY <1>1, <1>3, <1>5, Zenon
        <4>2. Fill(m2sLen, Run(sTx, n), vals)[Slot(k)] = m2sLen[Slot(k)]
          BY <3>1, <4>1, FillKeeps, ZenonT(40)
        <4> QED BY <1>2, <1>6, <4>2, Zenon
      <3> QED BY <3>1, <3>2, Zenon DEF RingInv, LengthsReset
    <2> QED BY <1>6, <2>1, Zenon DEF LengthsReset, client, cRecv
  <1> USE DEF s2m, client, cSend, cRecv
  <1>10. TypeOK'
    <2>1. sTxBufs' \in Seq(Index) /\ sTx' \in Nat
      BY <1>1, <1>6
    <2> QED BY <1>0, <1>6, <1>7, <1>8, <2>1, Zenon DEF TypeOK
  <1>11. sFreed' = sFreed /\ cFreed' = cFreed
    BY <1>6, Zenon DEF sFreed, cFreed
  <1>12. IndicesAreCounters'
    BY <1>6, <1>7, <1>11, Zenon DEF RingInv, IndicesAreCounters
  <1>13. BuffersAreRuns'
    <2>1. sTxBufs' = Run(sTx', Len(sTxBufs'))
      BY <1>1, <1>6, RunType
    <2> QED BY <1>6, <1>11, <2>1, Zenon DEF RingInv, BuffersAreRuns
  <1>14. RingsBounded'
    BY <1>0, <1>1, <1>5, <1>6, <1>11 DEF RingsBounded, cAlloc, sAlloc
  <1>15. ControlState' /\ RequestsInPlace'
    BY <1>0, <1>6, <1>11, Zenon DEF RingInv, ControlState, RequestsInPlace, cAlloc, sAlloc
  <1>16. JobsCounted'
    <2>1. sRx = sTx + sErr + n /\ sErr \in Nat /\ sRx \in Nat
      BY <1>0, <1>6, TypeFacts, Zenon DEF RingInv, JobsCounted, n
    <2> QED BY <1>1, <1>6, <2>1 DEF JobsCounted
  <1>17. OutstandingBounded' /\ CreditSuffices'
    BY <1>6, Zenon DEF RingInv, OutstandingBounded, Outstanding, CreditSuffices
  <1> QED BY <1>9, <1>10, <1>12, <1>13, <1>14, <1>15, <1>16, <1>17, Zenon DEF RingInv

-----------------------------------------------------------------------------
\* Both sides start connected with empty rings and a full offer of buffers.
LEMMA RingInvInit == Init => RingInv
  <1> SUFFICES ASSUME Init PROVE RingInv
    BY Zenon
  <1>1. /\ U16(0) = 0 /\ 0 \in Index /\ RingSize \in Index
        /\ U16(RingSize) = RingSize /\ U16(-1) \in Nat /\ RingSize <= U16(-1)
    <2>1. U16(-1) = IndexSpace - 1
      <3>1. -1 \in Int /\ -1 = (-1) * IndexSpace + (IndexSpace - 1)
        BY RingConstants
      <3> QED BY <3>1, RemainderUnique, RingConstants DEF U16
    <2>2. 0 \in Index /\ RingSize \in Index
      BY RingConstants DEF Index
    <2> QED BY <2>1, <2>2, U16Type, RingConstants
  <1>2. s2mTail = 0
    BY <1>1 DEF Init, MasterRefill
  <1>3. m2sHead = RingSize
    BY <1>1, RingConstants DEF Init, SlaveRefill, Least
  <1>4. TypeOK
    <2>1. {s2mHead, s2mTail, m2sHead, m2sTail, cLastTail, sLastHead} \subseteq Index
      BY <1>1, <1>2, <1>3, Zenon DEF Init
    <2>2. /\ s2mBuf \in [Slots -> Nat \cup {NoJob}]
          /\ m2sBuf \in [Slots -> [seq : Nat \cup {NoJob}, done : BOOLEAN]]
          /\ m2sLen \in [Slots -> {FullLength, TxLength}]
      BY Zenon DEF Init, Response
    <2>3. {cTxBufs, cRxBufs, sTxBufs, sRxBufs} \subseteq Seq(Index)
      BY DEF Init
    <2>4. /\ {cCount, cRetries, cTx, cRx, cPollCount} \subseteq Nat
          /\ {sTx, sRx, sErr} \subseteq Nat
          /\ cLastSeq \in Nat \cup {NoJob}
      BY DEF Init
    <2> QED BY <2>1, <2>2, <2>3, <2>4, Zenon DEF Init, TypeOK
  <1>5. IndicesAreCounters
    BY <1>1, <1>2, <1>3, RingConstants DEF Init, IndicesAreCounters, sFreed, cFreed
  <1>6. BuffersAreRuns
    BY RunType DEF Init, BuffersAreRuns, sFreed, cFreed
  <1>7. RingsBounded /\ ControlState /\ RequestsInPlace /\ JobsCounted
    BY RingConstants DEF Init, RingsBounded, ControlState, RequestsInPlace, JobsCounted, sFreed, cFreed, cAlloc, sAlloc
  <1>8. LengthsReset
    BY SlotType, RingConstants DEF Init, LengthsReset
  <1>9. OutstandingBounded /\ CreditSuffices
    BY DataPathAssumption DEF Init, OutstandingBounded, Outstanding, CreditSuffices
  <1> QED BY <1>4, <1>5, <1>6, <1>7, <1>8, <1>9, Zenon DEF RingInv

\* Every step of either side keeps the invariant.
LEMMA RingInvStep == RingInv /\ [Next]_vars => RingInv'
  <1> SUFFICES ASSUME RingInv, [Next]_vars PROVE RingInv'
    BY Zenon
  <1>1. ASSUME NEW n \in SendSizes, SendCall(n) PROVE RingInv'
    BY <1>1, SendCallKeeps, Zenon
  <1>2. ASSUME NEW n \in PollSizes, PollCall(n) PROVE RingInv'
    BY <1>2, PollCallKeeps, Zenon
  <1>3. CASE SendRetry
    BY <1>3, SendRetryKeeps, Zenon
  <1>4. CASE SendAlloc
    BY <1>4, SendAllocKeeps
  <1>5. CASE SendSerialize
    BY <1>5, SendSerializeKeeps
  <1>6. CASE SendTx
    BY <1>6, SendTxKeeps
  <1>7. CASE PollRx
    BY <1>7, PollRxKeeps
  <1>8. CASE PollRecv
    BY <1>8, PollRecvKeeps
  <1>9. CASE PollRefill
    BY <1>9, PollRefillKeeps
  <1>10. CASE ServerRx
    BY <1>10, ServerRxKeeps
  <1>11. CASE ServerAlloc
    BY <1>11, ServerAllocKeeps
  <1>12. CASE ServerCopy
    BY <1>12, ServerCopyKeeps
  <1>13. CASE ServerRefill
    BY <1>13, ServerRefillKeeps
  <1>14. CASE ServerRecv
    BY <1>14, ServerRecvKeeps
  <1>15. CASE ServerTx
    BY <1>15, ServerTxKeeps
  <1>16. CASE UNCHANGED vars
    <2> USE <1>16 DEF RingInv, vars, s2m, m2s, client, server, cSend, cRecv
    <2>1. TypeOK'
      BY Zenon DEF TypeOK
    <2>2. IndicesAreCounters' /\ BuffersAreRuns' /\ RingsBounded'
      BY Zenon DEF IndicesAreCounters, BuffersAreRuns, RingsBounded, sFreed, cFreed, cAlloc, sAlloc
    <2>3. ControlState' /\ RequestsInPlace' /\ LengthsReset' /\ JobsCounted'
      BY DEF ControlState, RequestsInPlace, LengthsReset, JobsCounted, sFreed, cAlloc, sAlloc
    <2>4. OutstandingBounded' /\ CreditSuffices'
      BY Zenon DEF OutstandingBounded, Outstanding, CreditSuffices
    <2> QED BY <2>1, <2>2, <2>3, <2>4, Zenon
  <1> QED BY <1>1, <1>2, <1>3, <1>4, <1>5, <1>6, <1>7, <1>8, <1>9, <1>10,
             <1>11, <1>12, <1>13, <1>14, <1>15, <1>16, Zenon
          DEF Next, ClientStep, ServerStep

(***************************************************************************)
(* The indices in shared memory are the private counters reduced to 16     *)
(* bits, neither ring overflows, and buffers hold what their index says.   *)
(***************************************************************************)
THEOREM RingInvariant == Spec => []RingInv
  BY RingInvInit, RingInvStep, PTL DEF Spec

(***************************************************************************)
(* Every variable of the two memif_connection_t and of the rings keeps its *)
(* type: no index leaves uint16_t, no counter goes below zero.             *)
(***************************************************************************)
THEOREM TypeCorrect == Spec => []TypeOK
  <1>1. RingInv => TypeOK
    BY Zenon DEF RingInv
  <1> QED BY <1>1, RingInvariant, PTL

\* Differences of wrapped indices are differences of counters.
LEMMA RingInvAccountsForJobs == RingInv => NoSilentLoss
  <1> SUFFICES ASSUME RingInv PROVE NoSilentLoss
    BY Zenon
  <1>1. /\ cTx \in Nat /\ cRx \in Nat /\ sTx \in Nat /\ sRx \in Nat
        /\ Len(cTxBufs) \in Nat /\ Len(cRxBufs) \in Nat
        /\ Len(sTxBufs) \in Nat /\ Len(sRxBufs) \in Nat /\ RingSize \in Nat
    <2>1. TypeOK
      BY Zenon DEF RingInv
    <2> QED BY <2>1, TypeFacts, RingConstants, Zenon
  <1>2. /\ sRx <= cTx /\ cTx <= sRx + RingSize
        /\ cRx <= sTx /\ sTx <= cRx + RingSize
    BY <1>1 DEF RingInv, RingsBounded, cAlloc, sAlloc, sFreed, cFreed
  <1>3. RxAvailable(sLastHead, s2mHead) = cTx - sRx
    BY <1>1, <1>2, RxAvailableExact DEF RingInv, IndicesAreCounters
  <1>4. RxAvailable(cLastTail, m2sTail) = sTx - cRx
    BY <1>1, <1>2, RxAvailableExact DEF RingInv, IndicesAreCounters
  <1>5. JobsCounted
    BY Zenon DEF RingInv
  <1> QED BY <1>1, <1>3, <1>4, <1>5 DEF NoSilentLoss, JobsCounted

(***************************************************************************)
(* For every ring size and burst size, each job sent is in a ring, in the  *)
(* server's hands, answered or counted in tx_err_counter, although         *)
(* memif_rx_burst only sees differences of wrapped indices.                *)
(***************************************************************************)
THEOREM NothingLostSilently == Spec => []NoSilentLoss
  BY RingInvariant, RingInvAccountsForJobs, PTL

\* What the master may allocate lies where lengths are reset.
LEMMA RingInvOffersFullBuffers == RingInv => OfferedBuffersFull
  <1> SUFFICES ASSUME RingInv,
                      NEW i \in 0 .. (MasterFree(m2sHead, m2sTail, sAlloc) - 1)
               PROVE  m2sLen[Slot(m2sTail + sAlloc + i)] = FullLength
    BY Zenon DEF OfferedBuffersFull
  <1> DEFINE head == cFreed + RingSize
             d == sAlloc + i
             k == sTx + d
  <1>1. /\ cRx \in Nat /\ sTx \in Nat /\ sAlloc \in Nat /\ RingSize \in Nat
        /\ Len(cRxBufs) \in Nat /\ cFreed = cRx - Len(cRxBufs)
    <2>1. TypeOK
      BY Zenon DEF RingInv
    <2> QED BY <2>1, TypeFacts, RingConstants, Zenon DEF sAlloc, cFreed
  <1>2. cRx <= sTx /\ sTx + sAlloc <= head /\ head \in Int
    BY <1>1 DEF RingInv, RingsBounded
  <1>3. MasterFree(m2sHead, m2sTail, sAlloc) = head - (sTx + sAlloc)
    <2>1. m2sHead = U16(head) /\ m2sTail = U16(sTx)
      BY Zenon DEF RingInv, IndicesAreCounters
    <2>2. head <= sTx + sAlloc + RingSize /\ sTx \in Int /\ sAlloc \in Int
      BY <1>1, <1>2
    <2> HIDE DEF head
    <2> QED BY <1>2, <2>1, <2>2, MasterFreeExact, Zenon
  <1>4. /\ i \in Int /\ d \in Int /\ k \in Int
        /\ k \in sTx .. (cRx + RingSize - 1)
        /\ m2sTail + sAlloc + i = m2sTail + d
    <2>1. m2sTail \in Int
      BY RingConstants DEF RingInv, TypeOK, Index
    <2> QED BY <1>1, <1>2, <1>3, <2>1
  <1>5. Slot(m2sTail + d) = Slot(k)
    <2>1. m2sTail = U16(sTx) /\ m2sTail + d \in Int /\ sTx \in Int
      <3>1. m2sTail = U16(sTx)
        BY Zenon DEF RingInv, IndicesAreCounters
      <3>2. m2sTail \in Int
        BY RingConstants DEF RingInv, TypeOK, Index
      <3> HIDE DEF d
      <3> QED BY <1>1, <1>4, <3>1, <3>2
    <2> HIDE DEF d
    <2>2. U16(m2sTail + d) = U16(k)
      BY <1>4, <2>1, U16Sum, Zenon
    <2> HIDE DEF k
    <2> QED BY <1>4, <2>1, <2>2, SlotOfU16, Zenon
  <1> HIDE DEF d, k
  <1> QED BY <1>4, <1>5, Zenon DEF RingInv, LengthsReset

(***************************************************************************)
(* Every response buffer memif_buffer_alloc of the master may take has its *)
(* full length, wherever the head index stands, so it never chains two.    *)
(***************************************************************************)
THEOREM OffersAreFull == Spec => []OfferedBuffersFull
  BY RingInvariant, RingInvOffersFullBuffers, PTL

\* A step that counts an error is the server's allocation.
LEMMA DropsAreTheClients ==
  RingInv /\ [Next]_vars => [sErr' > sErr => Outstanding > RingSize]_vars
  <1> SUFFICES ASSUME RingInv, Next, sErr' > sErr
               PROVE  Outstanding > RingSize
    BY Zenon
  <1>1. sErr \in Nat
    BY Zenon DEF RingInv, TypeOK
  <1>2. sErr' # sErr
    BY <1>1
  <1>3. ServerAlloc
    BY <1>2, Zenon
       DEF Next, ClientStep, ServerStep, server, SendCall, PollCall,
           SendRetry, SendAlloc, SendSerialize, SendTx, PollRx, PollRecv, PollRefill,
           ServerRx, ServerCopy, ServerRefill, ServerRecv, ServerTx
  <1> QED BY <1>3, ServerAllocDrops, Zenon

(***************************************************************************)
(* Whatever a client does, the server drops a request only while more than *)
(* RingSize jobs are outstanding: on_interrupt00_poll finds a response     *)
(* buffer for every request of a client that keeps to the ring.            *)
(***************************************************************************)
THEOREM DropsAreBeyondRing == Spec => DropsOnlyBeyondRing
  BY RingInvariant, DropsAreTheClients, PTL DEF Spec, DropsOnlyBeyondRing

(***************************************************************************)
(* A client with at most RingSize jobs outstanding never makes the server  *)
(* drop a response, whatever the sizes of its bursts and polls.            *)
(***************************************************************************)
THEOREM CreditIsEnough == Spec => []CreditSuffices
  <1>1. RingInv => CreditSuffices
    BY Zenon DEF RingInv
  <1> QED BY <1>1, RingInvariant, PTL
=============================================================================
