---------------------------- MODULE JobDataPath ----------------------------
(***************************************************************************)
(* One queue of one established connection between a client (the memif     *)
(* slave, Ciph_comm_agent_client over Memif_client) and the ciphering      *)
(* server (the memif master, Ciph_comm_agent_server).                      *)
(*                                                                         *)
(* The client thread sends bursts of jobs (Memif_client::send) and polls   *)
(* for completed ones (on_interrupt02_poll); its completion callback may   *)
(* send again before the received buffers are given back.  The server      *)
(* thread runs on_interrupt00_poll: it copies each request it received     *)
(* into a response buffer, gives the request buffer back, processes the    *)
(* copy in place and publishes it.  Requests for which no response buffer  *)
(* is free are counted in tx_err_counter and forgotten.                    *)
(*                                                                         *)
(* The two threads share nothing but the two rings and their buffers.  A   *)
(* step is one library call together with the bookkeeping that follows it; *)
(* each call reads the one index its peer writes exactly once.             *)
(***************************************************************************)
EXTENDS MemifRing

CONSTANTS
  MaxBufs,    \* MAX_MEMIF_BUFS: the largest burst of one library call
  MaxRetries, \* MAX_SEND_RETRIES: attempts of send between two sleeps
  SendSizes,  \* burst sizes the client application sends
  PollSizes,  \* the "size" arguments the client application polls with
  Credit,     \* most jobs the client application keeps outstanding
  MaxJobs     \* bound on the number of jobs a behaviour sends

ASSUME DataPathAssumption ==
  /\ MaxBufs \in Nat \ {0}
  /\ MaxRetries \in Nat \ {0}
  /\ SendSizes \subseteq Nat \ {0}
  /\ PollSizes \subseteq Nat \ {0}
  /\ Credit \in Nat
  /\ MaxJobs \in Nat

VARIABLES
  \* shared memory: indices and buffers of the two rings, and the length
  \* field of the master-to-slave descriptors
  s2mHead, s2mTail, s2mBuf,
  m2sHead, m2sTail, m2sBuf, m2sLen,
  \* client: control state, jobs left and attempts made in the current send,
  \* buffer arrays, last_tail, counters of its memif_connection_t
  cpc, cCount, cRetries, cTxBufs, cRxBufs, cRxErr, cLastTail, cTx, cRx,
  \* client: poll_count of the current poll, where the current send returns
  \* to, last job seen
  cPollCount, cReturn, cLastSeq,
  \* server
  spc, sTxBufs, sRxBufs, sLastHead, sTx, sRx, sErr

s2m == <<s2mHead, s2mTail, s2mBuf>>
m2s == <<m2sHead, m2sTail, m2sBuf, m2sLen>>
cSend == <<cCount, cRetries, cTxBufs, cTx>>
cRecv == <<cRxBufs, cRxErr, cLastTail, cRx>>
client == <<cpc, cSend, cRecv, cPollCount, cReturn, cLastSeq>>
server == <<spc, sTxBufs, sRxBufs, sLastHead, sTx, sRx, sErr>>
vars == <<s2m, m2s, client, server>>

-----------------------------------------------------------------------------
(***************************************************************************)
(* Jobs are numbered 0, 1, 2 ... in the order the client sends them (the   *)
(* op.seq field).  A response buffer holds a copy of a request until the   *)
(* server processed it.                                                    *)
(***************************************************************************)
NoJob == -1

Response(seq, done) == [seq |-> seq, done |-> done]

\* Writes vals[i] into the slot of the buffer bufs[i], for every i.
Fill(slots, bufs, vals) ==
  [s \in Slots |->
     IF \E i \in DOMAIN vals : Slot(bufs[i]) = s
     THEN vals[CHOOSE i \in DOMAIN vals : Slot(bufs[i]) = s]
     ELSE slots[s]]

FullLength == "buffer_size"
TxLength == "tx_size"

\* alloc_bufs of the client's tx queue and of the server's tx queue.
cAlloc == Len(cTxBufs)
sAlloc == Len(sTxBufs)

\* Jobs whose response buffer the client has not given back yet.
Outstanding == cTx + cCount - (cRx - Len(cRxBufs))

(***************************************************************************)
(* Both sides have run memif_connect1 and on_connect: all indices were     *)
(* reset, then each side refilled its receive queues with count -1.        *)
(***************************************************************************)
Init ==
  /\ s2mHead = 0 /\ s2mTail = MasterRefill(0, 0, U16(-1))
  /\ s2mBuf = [s \in Slots |-> NoJob]
  /\ m2sHead = SlaveRefill(0, 0, U16(-1)) /\ m2sTail = 0
  /\ m2sBuf = [s \in Slots |-> Response(NoJob, FALSE)]
  /\ m2sLen = [s \in Slots |-> FullLength]
  /\ cpc = "idle" /\ cCount = 0 /\ cRetries = 0 /\ cTxBufs = <<>> /\ cTx = 0
  /\ cRxBufs = <<>> /\ cRxErr = "SUCCESS" /\ cLastTail = 0 /\ cRx = 0
  /\ cPollCount = 0 /\ cReturn = "idle" /\ cLastSeq = NoJob
  /\ spc = "rx" /\ sTxBufs = <<>> /\ sRxBufs = <<>>
  /\ sLastHead = 0 /\ sTx = 0 /\ sRx = 0 /\ sErr = 0

-----------------------------------------------------------------------------
\* Client: Memif_client::send, called by the application or by its callback.

SendCall(n) ==
  /\ cpc \in {"idle", "callback"}
  /\ cTx + n <= MaxJobs
  /\ Outstanding + n <= Credit
  /\ cpc' = "alloc"
  /\ cCount' = n
  /\ cReturn' = cpc
  /\ UNCHANGED <<s2m, m2s, server, cRetries, cTxBufs, cTx, cRecv, cPollCount,
                 cLastSeq>>

\* The attempts are counted; after too many the loop sleeps and starts over.
NextRetry == IF cRetries + 1 > MaxRetries THEN 0 ELSE cRetries + 1

\* memif_buffer_alloc finds no buffer: the loop of send tries again.
SendRetry ==
  /\ cpc = "alloc"
  /\ SlaveFree(s2mHead, s2mTail, cAlloc) = 0
  /\ cRetries' = NextRetry
  /\ UNCHANGED <<s2m, m2s, server, cpc, cCount, cTxBufs, cTx, cRecv, cPollCount,
                 cReturn, cLastSeq>>

\* memif_buffer_alloc takes what is free, at most what is left to send.
SendAlloc ==
  LET count == IF MaxBufs > cCount THEN cCount ELSE MaxBufs
      ns == SlaveFree(s2mHead, s2mTail, cAlloc)
  IN  /\ cpc = "alloc"
      /\ ns > 0
      /\ cRetries' = NextRetry
      /\ cTxBufs' = AllocBufs(s2mHead, cAlloc, count, ns)
      /\ cpc' = "serialize"
      /\ UNCHANGED <<s2m, m2s, server, cCount, cTx, cRecv, cPollCount, cReturn,
                     cLastSeq>>

\* ser.serialize into each buffer: the jobs after the ones already sent.
SendSerialize ==
  /\ cpc = "serialize"
  /\ s2mBuf' = Fill(s2mBuf, cTxBufs, [i \in DOMAIN cTxBufs |-> cTx + i - 1])
  /\ cpc' = "tx"
  /\ UNCHANGED <<s2mHead, s2mTail, m2s, server, cSend, cRecv, cPollCount, cReturn,
                 cLastSeq>>

SendTx ==
  LET tx == TxCount(Len(cTxBufs), cAlloc)
  IN  /\ cpc = "tx"
      /\ s2mHead' = TxIndex(s2mHead, cTxBufs, tx)
      /\ cTxBufs' = <<>>
      /\ cTx' = cTx + tx
      /\ cCount' = cCount - tx
      /\ cRetries' = IF cCount' > 0 THEN cRetries ELSE 0
      /\ cpc' = IF cCount' > 0 THEN "alloc" ELSE cReturn
      /\ cReturn' = IF cCount' > 0 THEN cReturn ELSE "idle"
      /\ UNCHANGED <<s2mTail, s2mBuf, m2s, server, cRecv, cPollCount, cLastSeq>>

-----------------------------------------------------------------------------
\* Client: Ciph_comm_agent_client::poll and on_interrupt02_poll.

\* The number of _client.poll calls for a poll of "size" jobs.
PollCount(size) ==
  IF size % MaxBufs # 0 THEN size \div MaxBufs + 1 ELSE size \div MaxBufs

PollCall(size) ==
  /\ cpc = "idle"
  /\ cpc' = "rx"
  /\ cPollCount' = PollCount(size)
  /\ UNCHANGED <<s2m, m2s, server, cSend, cRecv, cReturn, cLastSeq>>

\* Mutant: the length of a received descriptor is not reset, as if the
\* refill alone took care of it.
PollRxKeepsLength ==
  LET bufs == RxBufs(cLastTail, m2sTail, MaxBufs)
  IN  /\ cpc = "rx"
      /\ cRxBufs' = bufs
      /\ cRxErr' = RxError(cLastTail, m2sTail, MaxBufs)
      /\ cLastTail' = RxNext(cLastTail, Len(bufs))
      /\ cRx' = cRx + Len(bufs)
      /\ cpc' = "recv"
      /\ UNCHANGED <<s2m, m2s, server, cSend, cPollCount, cReturn, cLastSeq>>

\* memif_rx_burst; the slave resets the length of what it takes.
PollRx ==
  LET bufs == RxBufs(cLastTail, m2sTail, MaxBufs)
  IN  /\ cpc = "rx"
      /\ cRxBufs' = bufs
      /\ cRxErr' = RxError(cLastTail, m2sTail, MaxBufs)
      /\ cLastTail' = RxNext(cLastTail, Len(bufs))
      /\ cRx' = cRx + Len(bufs)
      /\ m2sLen' = Fill(m2sLen, bufs, [i \in DOMAIN bufs |-> FullLength])
      /\ cpc' = "recv"
      /\ UNCHANGED <<s2m, m2sHead, m2sTail, m2sBuf, server, cSend, cPollCount,
                     cReturn, cLastSeq>>

\* on_recv_cb decodes the buffers in place and calls the application.
PollRecv ==
  /\ cpc = "recv"
  /\ cLastSeq' = IF cRxBufs = <<>> THEN cLastSeq
                 ELSE m2sBuf[Slot(cRxBufs[Len(cRxBufs)])].seq
  /\ cpc' = "callback"
  /\ UNCHANGED <<s2m, m2s, server, cSend, cRecv, cPollCount, cReturn>>

(***************************************************************************)
(* The application's callback returned: memif_refill_queue, then the do    *)
(* loops of on_interrupt02_poll (while MEMIF_ERR_NOBUF) and of poll.       *)
(***************************************************************************)
PollRefill ==
  LET newHead == SlaveRefill(m2sHead, cLastTail, Len(cRxBufs))
      reset == SlaveResetSlots(m2sHead, newHead)
      left == IF cRxErr = "NOBUF" THEN cPollCount
              ELSE cPollCount - 1
  IN  /\ cpc = "callback"
      /\ m2sHead' = newHead
      /\ m2sLen' = [s \in Slots |->
                      IF s \in reset THEN FullLength ELSE m2sLen[s]]
      /\ cRxBufs' = <<>>
      /\ cRxErr' = "SUCCESS"
      /\ cPollCount' = left
      /\ cpc' = IF left = 0 THEN "idle" ELSE "rx"
      /\ UNCHANGED <<s2m, m2sTail, m2sBuf, server, cSend, cLastTail, cRx,
                     cReturn, cLastSeq>>

-----------------------------------------------------------------------------
(***************************************************************************)
(* Server: on_interrupt00_poll, repeated for ever by poll_all.  A poll     *)
(* that receives nothing changes nothing and is left to stuttering.        *)
(***************************************************************************)
\* Mutant: the request buffers are given back before they are copied.
ServerRxRefillsFirst ==
  LET bufs == RxBufs(sLastHead, s2mHead, MaxBufs)
      next == RxNext(sLastHead, Len(bufs))
  IN  /\ spc = "rx"
      /\ Len(bufs) > 0
      /\ sRxBufs' = bufs
      /\ sLastHead' = next
      /\ s2mTail' = MasterRefill(s2mTail, next, Len(bufs))
      /\ sRx' = sRx + Len(bufs)
      /\ spc' = "alloc"
      /\ UNCHANGED <<s2mHead, s2mBuf, m2s, client, sTxBufs, sTx, sErr>>

ServerRx ==
  LET bufs == RxBufs(sLastHead, s2mHead, MaxBufs)
  IN  /\ spc = "rx"
      /\ Len(bufs) > 0
      /\ sRxBufs' = bufs
      /\ sLastHead' = RxNext(sLastHead, Len(bufs))
      /\ sRx' = sRx + Len(bufs)
      /\ spc' = "alloc"
      /\ UNCHANGED <<s2m, m2s, client, sTxBufs, sTx, sErr>>

\* Mutant: requests without a response buffer are not counted.
ServerAllocUncounted ==
  /\ spc = "alloc"
  /\ sTxBufs' = AllocBufs(m2sTail, sAlloc, Len(sRxBufs),
                          MasterFree(m2sHead, m2sTail, sAlloc))
  /\ spc' = "copy"
  /\ UNCHANGED <<s2m, m2s, client, sRxBufs, sLastHead, sTx, sRx, sErr>>

\* Mutant: the server waits until every request has a response buffer.
ServerAllocWaits ==
  LET bufs == AllocBufs(m2sTail, sAlloc, Len(sRxBufs),
                        MasterFree(m2sHead, m2sTail, sAlloc))
  IN  /\ spc = "alloc"
      /\ Len(bufs) = Len(sRxBufs)
      /\ sTxBufs' = bufs
      /\ spc' = "copy"
      /\ UNCHANGED <<s2m, m2s, client, sRxBufs, sLastHead, sTx, sRx, sErr>>

\* memif_buffer_alloc; what does not fit is counted as an error.
ServerAlloc ==
  LET bufs == AllocBufs(m2sTail, sAlloc, Len(sRxBufs),
                        MasterFree(m2sHead, m2sTail, sAlloc))
  IN  /\ spc = "alloc"
      /\ sTxBufs' = bufs
      /\ sErr' = sErr + (Len(sRxBufs) - Len(bufs))
      /\ spc' = "copy"
      /\ UNCHANGED <<s2m, m2s, client, sRxBufs, sLastHead, sTx, sRx>>

\* copy_buffer_to_buffer for the requests that got a response buffer.
ServerCopy ==
  /\ spc = "copy"
  /\ m2sBuf' = Fill(m2sBuf, sTxBufs,
                    [i \in DOMAIN sTxBufs |->
                       Response(s2mBuf[Slot(sRxBufs[i])], FALSE)])
  /\ spc' = "refill"
  /\ UNCHANGED <<s2m, m2sHead, m2sTail, m2sLen, client, sTxBufs, sRxBufs,
                 sLastHead, sTx, sRx, sErr>>

\* memif_refill_queue for everything received, copied or not.
ServerRefill ==
  /\ spc = "refill"
  /\ s2mTail' = MasterRefill(s2mTail, sLastHead, Len(sRxBufs))
  /\ sRxBufs' = <<>>
  /\ spc' = "recv"
  /\ UNCHANGED <<s2mHead, s2mBuf, m2s, client, sTxBufs, sLastHead, sTx, sRx,
                 sErr>>

\* Mutant: the loop that writes the contexts back stops one job short.
ServerRecvOffByOne ==
  /\ spc = "recv"
  /\ m2sBuf' = Fill(m2sBuf, sTxBufs,
                    [i \in 1 .. (Len(sTxBufs) - 1) |->
                       Response(m2sBuf[Slot(sTxBufs[i])].seq, TRUE)])
  /\ spc' = "tx"
  /\ UNCHANGED <<s2m, m2sHead, m2sTail, m2sLen, client, sTxBufs, sRxBufs,
                 sLastHead, sTx, sRx, sErr>>

\* on_recv_cb: the jobs are run and their context written back in place.
ServerRecv ==
  /\ spc = "recv"
  /\ m2sBuf' = Fill(m2sBuf, sTxBufs,
                    [i \in DOMAIN sTxBufs |->
                       Response(m2sBuf[Slot(sTxBufs[i])].seq, TRUE)])
  /\ spc' = "tx"
  /\ UNCHANGED <<s2m, m2sHead, m2sTail, m2sLen, client, sTxBufs, sRxBufs,
                 sLastHead, sTx, sRx, sErr>>

\* memif_tx_burst writes the length of each buffer it publishes.
ServerTx ==
  LET tx == TxCount(Len(sTxBufs), sAlloc)
  IN  /\ spc = "tx"
      /\ m2sTail' = TxIndex(m2sTail, sTxBufs, tx)
      /\ m2sLen' = Fill(m2sLen, sTxBufs, [i \in 1 .. tx |-> TxLength])
      /\ sTxBufs' = <<>>
      /\ sTx' = sTx + tx
      /\ spc' = "rx"
      /\ UNCHANGED <<s2m, m2sHead, m2sBuf, client, sRxBufs, sLastHead, sRx,
                     sErr>>

-----------------------------------------------------------------------------
ClientStep ==
  \/ SendRetry \/ SendAlloc \/ SendSerialize \/ SendTx
  \/ PollRx \/ PollRecv \/ PollRefill

ServerStep ==
  \/ ServerRx \/ ServerAlloc \/ ServerCopy
  \/ ServerRefill \/ ServerRecv \/ ServerTx

Next ==
  \/ \E n \in SendSizes : SendCall(n)
  \/ \E n \in PollSizes : PollCall(n)
  \/ ClientStep
  \/ ServerStep

Spec == Init /\ [][Next]_vars

(***************************************************************************)
(* The server thread polls for ever (the main loop of ciph_app never       *)
(* waits for a client), and a client that entered send or poll runs on.    *)
(* When the application calls them is left open.                           *)
(***************************************************************************)
FairSpec == Spec /\ WF_vars(ClientStep) /\ WF_vars(ServerStep)

-----------------------------------------------------------------------------
(***************************************************************************)
(* Type invariant.                                                         *)
(***************************************************************************)
TypeOK ==
  /\ s2mHead \in Index /\ s2mTail \in Index /\ sLastHead \in Index
  /\ m2sHead \in Index /\ m2sTail \in Index /\ cLastTail \in Index
  /\ s2mBuf \in [Slots -> Nat \cup {NoJob}]
  /\ m2sBuf \in [Slots -> [seq : Nat \cup {NoJob}, done : BOOLEAN]]
  /\ m2sLen \in [Slots -> {FullLength, TxLength}]
  /\ cpc \in {"idle", "alloc", "serialize", "tx", "rx", "recv", "callback"}
  /\ cTxBufs \in Seq(Index) /\ cRxBufs \in Seq(Index)
  /\ sTxBufs \in Seq(Index) /\ sRxBufs \in Seq(Index)
  /\ cCount \in Nat /\ cRetries \in Nat /\ cTx \in Nat
  /\ cRx \in Nat /\ cPollCount \in Nat
  /\ sTx \in Nat /\ sRx \in Nat /\ sErr \in Nat
  /\ cRxErr \in {"SUCCESS", "NOBUF"}
  /\ cReturn \in {"idle", "callback"}
  /\ cLastSeq \in Nat \cup {NoJob}
  /\ spc \in {"rx", "alloc", "copy", "refill", "recv", "tx"}

(***************************************************************************)
(* No job vanishes silently: at any moment each job sent is in the request *)
(* ring, in the server's hands, answered, or counted in tx_err_counter;    *)
(* and each answer is in the response ring or was received.  The numbers   *)
(* of buffers in the rings are what memif_rx_burst computes from wrapped   *)
(* 16 bit indices.                                                         *)
(***************************************************************************)
NoSilentLoss ==
  /\ cTx = sRx + RxAvailable(sLastHead, s2mHead)
  /\ sRx = sTx + sErr + (IF spc = "alloc" THEN Len(sRxBufs) ELSE Len(sTxBufs))
  /\ sTx = cRx + RxAvailable(cLastTail, m2sTail)

(***************************************************************************)
(* Every response buffer the slave offers has its full length again, even  *)
(* when the reset loop of memif_refill_queue skipped it because the head   *)
(* index wrapped.  memif_buffer_alloc of the master compares what it is    *)
(* asked for with this length, and chains buffers when it is too short.    *)
(***************************************************************************)
OfferedBuffersFull ==
  \A i \in 0 .. (MasterFree(m2sHead, m2sTail, sAlloc) - 1) :
    m2sLen[Slot(m2sTail + sAlloc + i)] = FullLength

(***************************************************************************)
(* A client that never has more jobs outstanding than the ring has buffers *)
(* loses no response: tx_err_counter of the server stays 0.                *)
(***************************************************************************)
CreditSuffices == Credit <= RingSize => sErr = 0

(***************************************************************************)
(* The server drops a request only while the client has more jobs          *)
(* outstanding than the ring has buffers: whatever a client does, each     *)
(* drop is its own doing, never a matter of timing.                        *)
(***************************************************************************)
DropsOnlyBeyondRing == [][sErr' > sErr => Outstanding > RingSize]_vars

(***************************************************************************)
(* send always returns: the server gives request buffers back whether or   *)
(* not the client polls, so a client that only sends is never stuck.       *)
(***************************************************************************)
SendReturns == cpc = "alloc" ~> cpc \in {"idle", "callback"}

-----------------------------------------------------------------------------
(***************************************************************************)
(* The rings implement the job channel: requests and responses are what    *)
(* the buffers between the indices hold.                                   *)
(***************************************************************************)
WorkInHand ==
  CASE spc = "alloc" -> [i \in DOMAIN sRxBufs |-> s2mBuf[Slot(sRxBufs[i])]]
    [] spc = "copy" -> [i \in DOMAIN sTxBufs |-> s2mBuf[Slot(sRxBufs[i])]]
    [] OTHER -> [i \in DOMAIN sTxBufs |-> m2sBuf[Slot(sTxBufs[i])].seq]

Requests ==
  [i \in 1 .. RxAvailable(sLastHead, s2mHead) |-> s2mBuf[Slot(sLastHead + i - 1)]]

Responses ==
  [i \in 1 .. RxAvailable(cLastTail, m2sTail) |-> m2sBuf[Slot(cLastTail + i - 1)].seq]

Held == [i \in DOMAIN cRxBufs |-> m2sBuf[Slot(cRxBufs[i])].seq]

Stage == CASE spc = "rx" -> "none" [] spc = "alloc" -> "taken" [] OTHER -> "kept"

Channel == INSTANCE JobChannel WITH
  Capacity <- RingSize, Batch <- MaxBufs, sent <- cTx, requests <- Requests,
  work <- WorkInHand, stage <- Stage, responses <- Responses, held <- Held

ImplementsChannel == Channel!Spec

(***************************************************************************)
(* What the client decodes was processed by the server, and each job it is *)
(* handed was sent after the one before: no request is answered twice and  *)
(* none overtakes another.                                                 *)
(***************************************************************************)
ProcessedInOrder ==
  [][cpc = "recv" /\ cpc' = "callback" =>
       \A i \in DOMAIN cRxBufs :
         LET r == m2sBuf[Slot(cRxBufs[i])]
         IN  /\ r.done
             /\ r.seq > IF i = 1 THEN cLastSeq
                        ELSE m2sBuf[Slot(cRxBufs[i - 1])].seq]_vars

-----------------------------------------------------------------------------
(***************************************************************************)
(* Why it holds.  The counters of the two connection structures never      *)
(* wrap, and the indices are these counters reduced to 16 bits; cFreed and *)
(* sFreed count the buffers each side has given back.                      *)
(***************************************************************************)
sFreed == sRx - Len(sRxBufs)
cFreed == cRx - Len(cRxBufs)

IndicesAreCounters ==
  /\ s2mHead = U16(cTx) /\ sLastHead = U16(sRx) /\ s2mTail = U16(sFreed)
  /\ m2sTail = U16(sTx) /\ cLastTail = U16(cRx)
  /\ m2sHead = U16(cFreed + RingSize)

BuffersAreRuns ==
  /\ cTxBufs = Run(cTx, Len(cTxBufs))
  /\ sTxBufs = Run(sTx, Len(sTxBufs))
  /\ sRxBufs = Run(sFreed, Len(sRxBufs))
  /\ cRxBufs = Run(cFreed, Len(cRxBufs))

\* Neither ring ever holds more than RingSize buffers.
RingsBounded ==
  /\ 0 <= sFreed /\ sRx <= cTx /\ cTx + cAlloc <= sFreed + RingSize
  /\ 0 <= cFreed /\ cRx <= sTx /\ sTx + sAlloc <= cFreed + RingSize

\* Which buffer arrays are in use at which point of the code.
ControlState ==
  /\ cpc \in {"serialize", "tx"} \/ cTxBufs = <<>>
  /\ cpc \in {"alloc", "serialize", "tx"} \/ cCount = 0
  /\ cAlloc <= cCount
  /\ cpc \in {"recv", "callback"} \/ cReturn = "callback" \/ cRxBufs = <<>>
  /\ cReturn = "callback" => cpc \in {"alloc", "serialize", "tx"}
  /\ cpc \in {"rx", "recv", "callback"} \/ cReturn = "callback" => cPollCount > 0
  /\ spc \in {"alloc", "copy", "refill"} \/ sRxBufs = <<>>
  /\ spc \in {"copy", "refill", "recv", "tx"} \/ sTxBufs = <<>>
  /\ spc \in {"copy", "refill"} => sAlloc <= Len(sRxBufs)

\* A request buffer keeps its job from serialize until it is given back.
RequestsInPlace ==
  \A k \in sFreed .. (IF cpc = "tx" THEN cTx + cAlloc - 1 ELSE cTx - 1) :
    s2mBuf[Slot(k)] = k

\* Response buffers that are not published have their full length.
LengthsReset == \A k \in sTx .. (cRx + RingSize - 1) : m2sLen[Slot(k)] = FullLength

\* What became of the jobs the server received.
JobsCounted ==
  sRx = sTx + sErr + (IF spc = "alloc" THEN Len(sRxBufs) ELSE Len(sTxBufs))

OutstandingBounded == Outstanding <= Credit

(***************************************************************************)
(* The inductive invariant: the shared 16 bit indices are the private      *)
(* counters, no more buffers are in use than the ring has, and what a      *)
(* buffer holds follows from the index that denotes it.                    *)
(***************************************************************************)
RingInv ==
  /\ TypeOK
  /\ IndicesAreCounters
  /\ BuffersAreRuns
  /\ RingsBounded
  /\ ControlState
  /\ RequestsInPlace
  /\ LengthsReset
  /\ JobsCounted
  /\ OutstandingBounded
  /\ CreditSuffices
=============================================================================
