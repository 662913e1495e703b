----------------------- MODULE JobDataPathRefinement ------------------------
(***************************************************************************)
(* The rings of JobDataPath implement JobChannel, and the client is handed *)
(* processed jobs in the order it sent them, for every ring size, index    *)
(* width, burst size and client behaviour.                                 *)
(***************************************************************************)
EXTENDS JobDataPathProofs

\* What n consecutive buffers from index a on hold.
Read(buf, a, n) == [i \in 1 .. n |-> buf[Slot(a + i - 1)]]

\* The jobs in the response buffers.
Answers == [s \in Slots |-> m2sBuf[s].seq]

\* What a request or response buffer may hold.
Job == Nat \cup {NoJob}

BuffersTyped == s2mBuf \in [Slots -> Job] /\ Answers \in [Slots -> Job]

Counted ==
  /\ cTx \in Nat /\ cRx \in Nat /\ sTx \in Nat /\ sRx \in Nat
  /\ Len(cTxBufs) \in Nat /\ Len(cRxBufs) \in Nat
  /\ Len(sTxBufs) \in Nat /\ Len(sRxBufs) \in Nat /\ RingSize \in Nat
  /\ sFreed \in Nat /\ sFreed + Len(sRxBufs) = sRx /\ sRx <= cTx
  /\ cTx + Len(cTxBufs) <= sFreed + RingSize
  /\ cFreed \in Nat /\ cFreed + Len(cRxBufs) = cRx /\ cRx <= sTx
  /\ sTx + Len(sTxBufs) <= cFreed + RingSize

\* One library call takes no more buffers than the array of send holds.
SendsBounded == Len(cTxBufs) <= MaxBufs

\* The state of the job channel, by counters.
View ==
  /\ Requests = Read(s2mBuf, sRx, cTx - sRx)
  /\ Responses = Read(Answers, cRx, sTx - cRx)
  /\ Held = Read(Answers, cFreed, Len(cRxBufs))
  /\ WorkInHand = CASE spc = "alloc" -> Read(s2mBuf, sFreed, Len(sRxBufs))
                    [] spc = "copy" -> Read(s2mBuf, sFreed, Len(sTxBufs))
                    [] OTHER -> Read(Answers, sTx, Len(sTxBufs))

\* How far the server has copied answers and how far it has run them.  The
\* jobs before Taken were answered or dropped, and Seen is the next answer
\* the client decodes.
Copied == sTx + (IF spc \in {"refill", "recv", "tx"} THEN sAlloc ELSE 0)
Finished == sTx + (IF spc = "tx" THEN sAlloc ELSE 0)
Taken == IF spc \in {"alloc", "copy"} THEN sFreed ELSE sRx
Seen == IF cpc = "recv" THEN cFreed ELSE cRx

\* The jobs in the buffers from freed up to copied are in the order they
\* were sent, all before taken; those from seen on come after last.
Ordered(jobs, freed, copied, taken, seen, last) ==
  /\ \A k \in freed .. (copied - 1) : jobs[Slot(k)] < taken
  /\ \A k \in freed .. (copied - 2) : jobs[Slot(k)] < jobs[Slot(k + 1)]
  /\ last < taken
  /\ seen < copied => last < jobs[Slot(seen)]

AllDone(buf, freed, finished) == \A k \in freed .. (finished - 1) : buf[Slot(k)].done

\* The answers the client has not given back are in the order of their jobs,
\* the ones it has not decoded come after the last one it has, and what is
\* published was processed.
AnswersOrdered ==
  /\ Ordered(Answers, cFreed, Copied, Taken, Seen, cLastSeq)
  /\ AllDone(m2sBuf, cFreed, Finished)

-----------------------------------------------------------------------------
\* Reading is a sequence with one element per buffer.
LEMMA ReadElements ==
  ASSUME NEW buf \in [Slots -> Job], NEW a \in Int, NEW n \in Nat
  PROVE  /\ Read(buf, a, n) \in Seq(Job) /\ Len(Read(buf, a, n)) = n
         /\ DOMAIN Read(buf, a, n) = 1 .. n
<1>1. \A i \in 1 .. n : buf[Slot(a + i - 1)] \in Job
  <2> TAKE i \in 1 .. n
  <2>1. a + i - 1 \in Int
    OBVIOUS
  <2> QED
    BY <2>1, SlotType, Zenon
<1>2. Read(buf, a, n) \in [1 .. n -> Job]
  BY <1>1, Zenon DEF Read
<1>3. Read(buf, a, n) \in Seq(Job) /\ Len(Read(buf, a, n)) = n
  <2> DEFINE r == Read(buf, a, n)
  <2> HIDE DEF r
  <2>1. r \in [1 .. n -> Job]
    BY <1>2, Zenon DEF r
  <2>2. r \in Seq(Job) /\ Len(r) = n
    BY <2>1
  <2> QED
    BY <2>2, Zenon DEF r
<1> QED
  BY <1>3, Zenon DEF Read

\* Sequences with the same elements are the same.
LEMMA SameElements ==
  ASSUME NEW s \in Seq(Job), NEW t \in Seq(Job), Len(s) = Len(t),
         \A i \in 1 .. Len(s) : s[i] = t[i]
  PROVE  s = t
<1>1. DOMAIN s = 1 .. Len(s) /\ DOMAIN t = 1 .. Len(s)
  OBVIOUS
<1>2. s \in [1 .. Len(s) -> Job] /\ t \in [1 .. Len(s) -> Job]
  BY <1>1
<1>3. s = [i \in 1 .. Len(s) |-> s[i]] /\ t = [i \in 1 .. Len(s) |-> t[i]]
  BY <1>2, Zenon
<1>4. [i \in 1 .. Len(s) |-> s[i]] = [i \in 1 .. Len(s) |-> t[i]]
  BY Zenon
<1> QED
  BY <1>3, <1>4, Zenon

\* What concatenation and SubSeq return.
LEMMA JoinElements ==
  ASSUME NEW p \in Seq(Job), NEW q \in Seq(Job)
  PROVE  /\ p \o q \in Seq(Job) /\ Len(p \o q) = Len(p) + Len(q)
         /\ \A i \in 1 .. (Len(p) + Len(q)) :
              (p \o q)[i] = IF i <= Len(p) THEN p[i] ELSE q[i - Len(p)]
OBVIOUS

LEMMA RestElements ==
  ASSUME NEW r \in Seq(Job), NEW n \in Nat, NEW m \in 0 .. n, Len(r) = n
  PROVE  /\ SubSeq(r, m + 1, n) \in Seq(Job) /\ Len(SubSeq(r, m + 1, n)) = n - m
         /\ \A i \in 1 .. (n - m) : SubSeq(r, m + 1, n)[i] = r[m + i]
<1>1. \A i \in (m + 1) .. n : r[i] \in Job
  OBVIOUS
<1>2. Len(SubSeq(r, m + 1, n)) = n - m
  BY <1>1
<1>3. SubSeq(r, m + 1, n) \in Seq(Job)
  BY <1>1
<1>4. \A i \in 1 .. (n - m) : SubSeq(r, m + 1, n)[i] = r[m + i]
  BY <1>1
<1> QED
  BY <1>2, <1>3, <1>4, Zenon

\* The first buffers of a reading, and the others.
LEMMA ReadSplit ==
  ASSUME NEW buf \in [Slots -> Job], NEW a \in Int, NEW n \in Nat, NEW m \in 0 .. n
  PROVE  /\ SubSeq(Read(buf, a, n), 1, m) = Read(buf, a, m)
         /\ SubSeq(Read(buf, a, n), m + 1, n) = Read(buf, a + m, n - m)
<1> DEFINE r == Read(buf, a, n)
           p == Read(buf, a, m)
           q == Read(buf, a + m, n - m)
<1>0. m \in Nat /\ n - m \in Nat /\ a + m \in Int
  OBVIOUS
<1>1. r \in Seq(Job) /\ Len(r) = n
  BY <1>0, ReadElements, Zenon
<1>1e. \A i \in 1 .. n : r[i] = buf[Slot(a + i - 1)]
  BY Zenon DEF Read
<1>2. p \in Seq(Job) /\ Len(p) = m
  BY <1>0, ReadElements, Zenon
<1>2e. \A i \in 1 .. m : p[i] = buf[Slot(a + i - 1)]
  BY Zenon DEF Read
<1>3. q \in Seq(Job) /\ Len(q) = n - m
  BY <1>0, ReadElements, Zenon
<1>3e. \A i \in 1 .. (n - m) : q[i] = buf[Slot((a + m) + i - 1)]
  BY Zenon DEF Read
<1> HIDE DEF r, p, q
<1>4. SubSeq(r, 1, m) = p
  <2>1. \A i \in 1 .. m : r[i] \in Job
    BY <1>0, <1>1
  <2>2. /\ SubSeq(r, 1, m) \in Seq(Job) /\ Len(SubSeq(r, 1, m)) = m
        /\ \A i \in 1 .. m : SubSeq(r, 1, m)[i] = r[i]
    BY <1>0, <1>1, <1>1e, <2>1
  <2>3. \A i \in 1 .. m : SubSeq(r, 1, m)[i] = p[i]
    BY <1>0, <1>1e, <1>2e, <2>2
  <2> QED
    BY <1>2, <2>2, <2>3, SameElements, Zenon
<1>5. SubSeq(r, m + 1, n) = q
  <2>2. /\ SubSeq(r, m + 1, n) \in Seq(Job) /\ Len(SubSeq(r, m + 1, n)) = n - m
        /\ \A i \in 1 .. (n - m) : SubSeq(r, m + 1, n)[i] = r[m + i]
    BY <1>1, RestElements
  <2>3. \A i \in 1 .. (n - m) : SubSeq(r, m + 1, n)[i] = q[i]
    <3> TAKE i \in 1 .. (n - m)
    <3>1. m + i \in 1 .. n /\ a + (m + i) - 1 = (a + m) + i - 1
      BY <1>0
    <3> QED
      BY <1>1e, <1>3e, <2>2, <3>1
  <2> QED
    BY <1>3, <2>2, <2>3, SameElements, Zenon
<1> QED
  BY <1>4, <1>5, Zenon DEF r, p, q

\* Readings of adjacent runs of buffers.
LEMMA ReadJoin ==
  ASSUME NEW buf \in [Slots -> Job], NEW a \in Int, NEW n \in Nat, NEW m \in Nat
  PROVE  Read(buf, a, n) \o Read(buf, a + n, m) = Read(buf, a, n + m)
<1> DEFINE r == Read(buf, a, n + m)
           p == Read(buf, a, n)
           q == Read(buf, a + n, m)
<1>0. n + m \in Nat /\ a + n \in Int
  OBVIOUS
<1>1. r \in Seq(Job) /\ Len(r) = n + m
  BY <1>0, ReadElements, Zenon
<1>1e. \A i \in 1 .. (n + m) : r[i] = buf[Slot(a + i - 1)]
  BY Zenon DEF Read
<1>2. p \in Seq(Job) /\ Len(p) = n
  BY <1>0, ReadElements, Zenon
<1>2e. \A i \in 1 .. n : p[i] = buf[Slot(a + i - 1)]
  BY Zenon DEF Read
<1>3. q \in Seq(Job) /\ Len(q) = m
  BY <1>0, ReadElements, Zenon
<1>3e. \A i \in 1 .. m : q[i] = buf[Slot((a + n) + i - 1)]
  BY Zenon DEF Read
<1> HIDE DEF r, p, q
<1>4. /\ p \o q \in Seq(Job) /\ Len(p \o q) = n + m
      /\ \A i \in 1 .. (n + m) : (p \o q)[i] = IF i <= n THEN p[i] ELSE q[i - n]
  <2>1. /\ p \o q \in Seq(Job) /\ Len(p \o q) = Len(p) + Len(q)
        /\ \A i \in 1 .. (Len(p) + Len(q)) :
             (p \o q)[i] = IF i <= Len(p) THEN p[i] ELSE q[i - Len(p)]
    BY <1>2, <1>3, JoinElements, Zenon
  <2> QED
    BY <1>2, <1>3, <2>1
<1>5. \A i \in 1 .. (n + m) : (p \o q)[i] = r[i]
  <2> SUFFICES ASSUME NEW i \in 1 .. (n + m) PROVE (p \o q)[i] = r[i]
    BY Zenon
  <2>1. CASE i <= n
    <3>1. i \in 1 .. n
      BY <2>1
    <3> QED
      BY <1>1e, <1>2e, <1>4, <2>1, <3>1, Zenon
  <2>2. CASE ~(i <= n)
    <3>1. i - n \in 1 .. m /\ (a + n) + (i - n) - 1 = a + i - 1
      BY <2>2
    <3> QED
      BY <1>1e, <1>3e, <1>4, <2>2, <3>1, Zenon
  <2> QED
    BY <2>1, <2>2, Zenon
<1>6. p \o q = r
  BY <1>1, <1>4, <1>5, SameElements, Zenon
<1> QED
  BY <1>6, Zenon DEF r, p, q

\* A reading depends on the buffers of its run only.
LEMMA ReadSame ==
  ASSUME NEW f, NEW g, NEW a \in Int, NEW n \in Nat,
         \A k \in a .. (a + n - 1) : f[Slot(k)] = g[Slot(k)]
  PROVE  Read(f, a, n) = Read(g, a, n)
<1>1. \A i \in 1 .. n : a + i - 1 \in a .. (a + n - 1)
  OBVIOUS
<1> QED
  BY <1>1, Zenon DEF Read

\* Nothing read.
LEMMA ReadNothing ==
  ASSUME NEW buf, NEW a
  PROVE  Read(buf, a, 0) = <<>>
BY DEF Read

-----------------------------------------------------------------------------
\* An offset from a wrapped index denotes the slot of the same offset from
\* the counter.
LEMMA SlotShift ==
  ASSUME NEW a \in Int, NEW i \in Int
  PROVE  Slot(U16(a) + i - 1) = Slot(a + i - 1)
<1> DEFINE c == i - 1
<1>0. c \in Int /\ a + c \in Int /\ U16(a) \in Int /\ U16(a) + c \in Int
  BY U16Type, RingConstants DEF Index
<1>1. U16(a) + i - 1 = U16(a) + c /\ a + i - 1 = a + c
  BY <1>0, Zenon
<1> HIDE DEF c
<1>2. Slot(U16(U16(a) + c)) = Slot(U16(a) + c) /\ Slot(U16(a + c)) = Slot(a + c)
  BY <1>0, SlotOfU16, Zenon
<1>3. U16(U16(a) + c) = U16(a + c)
  BY <1>0, U16Sum, Zenon
<1> QED
  BY <1>1, <1>2, <1>3, Zenon

\* The counters of the invariant, as numbers.
LEMMA CountedHolds == RingInv => Counted
<1> SUFFICES ASSUME RingInv PROVE Counted
  BY Zenon
<1>1. /\ cTx \in Nat /\ cRx \in Nat /\ sTx \in Nat /\ sRx \in Nat
      /\ Len(cTxBufs) \in Nat /\ Len(cRxBufs) \in Nat
      /\ Len(sTxBufs) \in Nat /\ Len(sRxBufs) \in Nat /\ RingSize \in Nat
  <2>1. TypeOK
    BY Zenon DEF RingInv
  <2> QED
    BY <2>1, TypeFacts, RingConstants, Zenon
<1>2. /\ sFreed = sRx - Len(sRxBufs) /\ cFreed = cRx - Len(cRxBufs)
      /\ 0 <= sFreed /\ sRx <= cTx /\ cTx + Len(cTxBufs) <= sFreed + RingSize
      /\ 0 <= cFreed /\ cRx <= sTx /\ sTx + Len(sTxBufs) <= cFreed + RingSize
  BY Zenon DEF RingInv, RingsBounded, sFreed, cFreed, cAlloc, sAlloc
<1>3. sFreed \in Int /\ cFreed \in Int
  BY <1>1 DEF sFreed, cFreed
<1> QED
  BY <1>1, <1>2, <1>3 DEF Counted

\* The buffers hold jobs.
LEMMA BufferTypes ==
  ASSUME RingInv
  PROVE  s2mBuf \in [Slots -> Job] /\ Answers \in [Slots -> Job]
<1>1. /\ s2mBuf \in [Slots -> Nat \cup {NoJob}]
      /\ m2sBuf \in [Slots -> [seq : Nat \cup {NoJob}, done : BOOLEAN]]
  BY Zenon DEF RingInv, TypeOK
<1> QED
  BY <1>1, Zenon DEF Job, Answers

\* The jobs in a buffer array of responses.
LEMMA RunAnswers ==
  ASSUME NEW bufs, NEW a \in Int, NEW n \in Nat, bufs = Run(a, n)
  PROVE  [i \in DOMAIN bufs |-> m2sBuf[Slot(bufs[i])].seq] = Read(Answers, a, n)
<1>0. /\ DOMAIN Run(a, n) = 1 .. n
      /\ \A i \in 1 .. n : Slot(Run(a, n)[i]) = Slot(a + i - 1)
  BY RunType, Zenon
<1>1. DOMAIN bufs = 1 .. n /\ \A i \in 1 .. n : Slot(bufs[i]) = Slot(a + i - 1)
  BY <1>0, Zenon
<1>2. \A i \in 1 .. n : a + i - 1 \in Int
  OBVIOUS
<1>3. \A i \in 1 .. n : Slot(bufs[i]) \in Slots
  BY <1>1, <1>2, SlotType, Zenon
<1>4. \A i \in 1 .. n : m2sBuf[Slot(bufs[i])].seq = Answers[Slot(a + i - 1)]
  BY <1>1, <1>3, Zenon DEF Answers
<1> QED
  BY <1>1, <1>4, Zenon DEF Read

\* The mapped variables of the channel, by counters.
LEMMA ViewHolds == RingInv => View
<1> SUFFICES ASSUME RingInv PROVE View
  BY Zenon
<1>1. /\ cTx \in Nat /\ cRx \in Nat /\ sTx \in Nat /\ sRx \in Nat
      /\ Len(cTxBufs) \in Nat /\ Len(cRxBufs) \in Nat
      /\ Len(sTxBufs) \in Nat /\ Len(sRxBufs) \in Nat /\ RingSize \in Nat
      /\ sFreed \in Nat /\ sFreed + Len(sRxBufs) = sRx /\ sRx <= cTx
      /\ cTx + Len(cTxBufs) <= sFreed + RingSize
      /\ cFreed \in Nat /\ cFreed + Len(cRxBufs) = cRx /\ cRx <= sTx
      /\ sTx + Len(sTxBufs) <= cFreed + RingSize
  BY CountedHolds, Zenon DEF Counted
<1>2. cTx - sRx \in Nat /\ sTx - cRx \in Nat /\ cTx <= sRx + RingSize /\ sTx <= cRx + RingSize
  BY <1>1
<1>3. sLastHead = U16(sRx) /\ s2mHead = U16(cTx) /\ cLastTail = U16(cRx) /\ m2sTail = U16(sTx)
  BY Zenon DEF RingInv, IndicesAreCounters
<1>4. /\ sTxBufs = Run(sTx, Len(sTxBufs)) /\ sRxBufs = Run(sFreed, Len(sRxBufs))
      /\ cRxBufs = Run(cFreed, Len(cRxBufs))
  BY Zenon DEF RingInv, BuffersAreRuns
<1>5. /\ sRx \in Int /\ cTx \in Int /\ cRx \in Int /\ sTx \in Int
      /\ sFreed \in Int /\ cFreed \in Int
  BY <1>1
<1>slots. /\ DOMAIN sRxBufs = 1 .. Len(sRxBufs) /\ DOMAIN sTxBufs = 1 .. Len(sTxBufs)
          /\ \A i \in 1 .. Len(sRxBufs) : Slot(sRxBufs[i]) = Slot(sFreed + i - 1)
  <2> DEFINE n == Len(sRxBufs)
             m == Len(sTxBufs)
  <2>1. sRxBufs = Run(sFreed, n) /\ n \in Nat /\ sTxBufs = Run(sTx, m) /\ m \in Nat
    BY <1>1, <1>4, Zenon
  <2> HIDE DEF n, m
  <2>2. /\ DOMAIN Run(sFreed, n) = 1 .. n /\ DOMAIN Run(sTx, m) = 1 .. m
        /\ \A i \in 1 .. n : Slot(Run(sFreed, n)[i]) = Slot(sFreed + i - 1)
    BY <1>5, <2>1, RunType, Zenon
  <2> QED
    BY <2>1, <2>2, Zenon DEF n, m
<1>6. RxAvailable(sLastHead, s2mHead) = cTx - sRx /\ RxAvailable(cLastTail, m2sTail) = sTx - cRx
  BY <1>1, <1>2, <1>3, <1>5, RxAvailableExact, Zenon
<1>7. Requests = Read(s2mBuf, sRx, cTx - sRx)
  <2>1. \A i \in 1 .. (cTx - sRx) : Slot(sLastHead + i - 1) = Slot(sRx + i - 1)
    <3>1. \A i \in 1 .. (cTx - sRx) : i \in Int
      OBVIOUS
    <3> QED
      BY <1>3, <1>5, <3>1, SlotShift, Zenon
  <2> QED
    BY <1>6, <2>1, Zenon DEF Requests, Read
<1>8. Responses = Read(Answers, cRx, sTx - cRx)
  <2>1. \A i \in 1 .. (sTx - cRx) : /\ Slot(cLastTail + i - 1) = Slot(cRx + i - 1)
                                    /\ Slot(cRx + i - 1) \in Slots
    <3>1. \A i \in 1 .. (sTx - cRx) : i \in Int /\ cRx + i - 1 \in Int
      BY <1>5
    <3> QED
      BY <1>3, <1>5, <3>1, SlotShift, SlotType, Zenon
  <2>2. \A i \in 1 .. (sTx - cRx) : m2sBuf[Slot(cLastTail + i - 1)].seq = Answers[Slot(cRx + i - 1)]
    BY <2>1, Zenon DEF Answers
  <2> QED
    BY <1>6, <2>2, Zenon DEF Responses, Read
<1>9. Held = Read(Answers, cFreed, Len(cRxBufs))
  BY <1>1, <1>4, <1>5, RunAnswers, Zenon DEF Held
<1>10. WorkInHand = CASE spc = "alloc" -> Read(s2mBuf, sFreed, Len(sRxBufs))
                      [] spc = "copy" -> Read(s2mBuf, sFreed, Len(sTxBufs))
                      [] OTHER -> Read(Answers, sTx, Len(sTxBufs))
  <2>1. CASE spc = "alloc"
    <3>1. [i \in DOMAIN sRxBufs |-> s2mBuf[Slot(sRxBufs[i])]] = Read(s2mBuf, sFreed, Len(sRxBufs))
      BY <1>slots, Zenon DEF Read
    <3> QED
      BY <2>1, <3>1, Zenon DEF WorkInHand
  <2>2. CASE spc = "copy"
    <3>1. DOMAIN sTxBufs = 1 .. Len(sTxBufs) /\ Len(sTxBufs) <= Len(sRxBufs)
      <4>1. Len(sTxBufs) <= Len(sRxBufs)
        BY <2>2, Zenon DEF RingInv, ControlState, sAlloc
      <4> QED
        BY <1>slots, <4>1, Zenon
    <3>2. \A i \in 1 .. Len(sTxBufs) : i \in 1 .. Len(sRxBufs)
      BY <1>1, <3>1
    <3>3. \A i \in 1 .. Len(sTxBufs) : Slot(sRxBufs[i]) = Slot(sFreed + i - 1)
      BY <1>slots, <3>2, Zenon
    <3>4. [i \in DOMAIN sTxBufs |-> s2mBuf[Slot(sRxBufs[i])]] = Read(s2mBuf, sFreed, Len(sTxBufs))
      BY <3>1, <3>3, Zenon DEF Read
    <3> QED
      BY <2>2, <3>4, Zenon DEF WorkInHand
  <2>3. CASE spc \notin {"alloc", "copy"}
    <3>1. [i \in DOMAIN sTxBufs |-> m2sBuf[Slot(sTxBufs[i])].seq] = Read(Answers, sTx, Len(sTxBufs))
      BY <1>1, <1>4, <1>5, RunAnswers, Zenon
    <3> QED
      BY <2>3, <3>1, Zenon DEF WorkInHand
  <2> QED
    BY <2>1, <2>2, <2>3, Zenon
<1> QED
  BY <1>7, <1>8, <1>9, <1>10, Zenon DEF View

\* The same in the next state.
LEMMA ViewHoldsNext == RingInv' => View'
BY ViewHolds, PTL

LEMMA CountedNext == RingInv' => Counted'
BY CountedHolds, PTL

\* The buffers hold jobs, now and in the next state.
LEMMA BuffersTypedNow == RingInv => BuffersTyped
BY BufferTypes, Zenon DEF BuffersTyped

LEMMA BuffersTypedNext == RingInv' => BuffersTyped'
BY BuffersTypedNow, PTL

-----------------------------------------------------------------------------
(***************************************************************************)
(* Steps of the client that the channel does not see.                      *)
(***************************************************************************)
\* Calls, retries, allocation and decoding.
LEMMA ClientHidden ==
  ASSUME \/ \E n \in SendSizes : SendCall(n)
         \/ \E n \in PollSizes : PollCall(n)
         \/ SendRetry \/ SendAlloc \/ PollRecv
  PROVE  UNCHANGED <<cTx, Requests, WorkInHand, Stage, Responses, Held>>
<1>1. UNCHANGED <<s2mHead, s2mTail, s2mBuf, m2sHead, m2sTail, m2sBuf, cRxBufs, cLastTail, cTx,
                  spc, sTxBufs, sRxBufs, sLastHead>>
  BY Zenon DEF SendCall, PollCall, SendRetry, SendAlloc, PollRecv, s2m, m2s, server, cSend, cRecv
<1>2. UNCHANGED <<Requests, Responses, Held>>
  BY <1>1, Zenon DEF Requests, Responses, Held
<1>3. UNCHANGED <<WorkInHand, Stage>>
  BY <1>1, Zenon DEF WorkInHand, Stage
<1> QED
  BY <1>1, <1>2, <1>3, Zenon

\* serialize writes buffers that are not published.
LEMMA SerializeHidden ==
  ASSUME RingInv, RingInv', SendSerialize
  PROVE  UNCHANGED <<cTx, Requests, WorkInHand, Stage, Responses, Held>>
<1>1. UNCHANGED <<s2mHead, s2mTail, m2sHead, m2sTail, m2sBuf, cRxBufs, cLastTail, cTx, cRx,
                  spc, sTxBufs, sRxBufs, sLastHead, sTx, sRx>>
  BY Zenon DEF SendSerialize, m2s, server, cSend, cRecv
<1>2. View /\ View' /\ Counted
  BY ViewHolds, ViewHoldsNext, CountedHolds, Zenon
<1>3. cpc = "serialize" /\ cpc' = "tx"
  BY Zenon DEF SendSerialize
<1>4. Answers' = Answers /\ sFreed' = sFreed /\ cFreed' = cFreed
  BY <1>1, Zenon DEF Answers, sFreed, cFreed
<1>5. \A k \in sFreed .. (cTx - 1) : s2mBuf'[Slot(k)] = s2mBuf[Slot(k)]
  <2>1. \A k \in sFreed .. (cTx - 1) : s2mBuf[Slot(k)] = k
    BY <1>3, Zenon DEF RingInv, RequestsInPlace
  <2> DEFINE m == cAlloc'
  <2>2. \A k \in sFreed .. (cTx + m - 1) : s2mBuf'[Slot(k)] = k
    <3>1. sFreed' = sFreed /\ cTx' = cTx
      BY <1>1, <1>4, Zenon
    <3>2. \A k \in sFreed' .. (cTx' + cAlloc' - 1) : s2mBuf'[Slot(k)] = k
      BY <1>3, Zenon DEF RingInv, RequestsInPlace
    <3> QED
      BY <3>1, <3>2, Zenon
  <2>3. m \in Nat
    BY CountedNext, Zenon DEF Counted, cAlloc
  <2> HIDE DEF m
  <2>4. \A k \in sFreed .. (cTx - 1) : k \in sFreed .. (cTx + m - 1)
    <3>1. cTx \in Nat /\ sFreed \in Nat
      BY <1>2, Zenon DEF Counted
    <3> QED
      BY <2>3, <3>1
  <2> QED
    BY <2>1, <2>2, <2>4, Zenon
<1>6. ASSUME NEW a \in Int, NEW n \in Nat, sFreed <= a, a + n <= cTx
      PROVE  Read(s2mBuf', a, n) = Read(s2mBuf, a, n)
  <2>1. \A k \in a .. (a + n - 1) : k \in sFreed .. (cTx - 1)
    BY <1>2, <1>6 DEF Counted
  <2>2. \A k \in a .. (a + n - 1) : s2mBuf'[Slot(k)] = s2mBuf[Slot(k)]
    BY <1>5, <2>1, Zenon
  <2> QED
    BY <2>2, ReadSame, Zenon
<1>7. Requests' = Requests
  <2>1. sRx \in Int /\ cTx - sRx \in Nat /\ sFreed <= sRx /\ sRx + (cTx - sRx) <= cTx
    BY <1>2 DEF Counted
  <2>2. Read(s2mBuf', sRx, cTx - sRx) = Read(s2mBuf, sRx, cTx - sRx)
    BY <1>6, <2>1, Zenon
  <2> QED
    BY <1>1, <1>2, <2>2, Zenon DEF View
<1>8. WorkInHand' = WorkInHand
  <2>1. sFreed \in Int /\ Len(sRxBufs) \in Nat /\ sFreed <= sFreed /\ sFreed + Len(sRxBufs) <= cTx
    BY <1>2 DEF Counted
  <2>2. Read(s2mBuf', sFreed, Len(sRxBufs)) = Read(s2mBuf, sFreed, Len(sRxBufs))
    BY <1>6, <2>1, Zenon
  <2>3. spc = "copy" => Read(s2mBuf', sFreed, Len(sTxBufs)) = Read(s2mBuf, sFreed, Len(sTxBufs))
    <3>1. SUFFICES ASSUME spc = "copy"
                   PROVE  Read(s2mBuf', sFreed, Len(sTxBufs)) = Read(s2mBuf, sFreed, Len(sTxBufs))
      BY Zenon
    <3>2. Len(sTxBufs) <= Len(sRxBufs)
      BY <3>1, Zenon DEF RingInv, ControlState, sAlloc
    <3>3. Len(sTxBufs) \in Nat /\ sFreed + Len(sTxBufs) <= cTx
      BY <1>2, <2>1, <3>2 DEF Counted
    <3> QED
      BY <1>6, <2>1, <3>3, Zenon
  <2> QED
    BY <1>1, <1>2, <1>4, <2>2, <2>3, Zenon DEF View
<1>9. UNCHANGED <<Responses, Held, Stage>>
  BY <1>1, Zenon DEF Responses, Held, Stage
<1> QED
  BY <1>1, <1>7, <1>8, <1>9, Zenon

-----------------------------------------------------------------------------
(***************************************************************************)
(* What the client publishes, receives and gives back.                     *)
(***************************************************************************)
\* memif_tx_burst of the client.
LEMMA SendTxSends ==
  ASSUME RingInv, RingInv', SendsBounded, SendTx
  PROVE  \/ \E n \in 1 .. MaxBufs : Channel!Send(n)
         \/ UNCHANGED <<cTx, Requests, WorkInHand, Stage, Responses, Held>>
<1> DEFINE n == Len(cTxBufs)
<1>1. View /\ View' /\ Counted /\ BuffersTyped
  BY ViewHolds, ViewHoldsNext, CountedHolds, BuffersTypedNow, Zenon
<1>2. n \in Nat /\ n <= MaxBufs /\ MaxBufs \in Nat
  BY <1>1, DataPathAssumption, Zenon DEF Counted, SendsBounded
<1>3. TxCount(n, cAlloc) = n
  BY <1>2, Zenon DEF TxCount, Least, cAlloc
<1>4. cTx' = cTx + n /\ cpc = "tx"
  BY <1>3, Zenon DEF SendTx
<1>5. UNCHANGED <<s2mTail, s2mBuf, m2sHead, m2sTail, m2sBuf, cRxBufs, cLastTail, cRx,
                  spc, sTxBufs, sRxBufs, sLastHead, sTx, sRx>>
  BY Zenon DEF SendTx, m2s, server, cRecv
<1>6. UNCHANGED <<WorkInHand, Stage, Responses, Held>>
  <2>1. UNCHANGED <<Responses, Held>>
    BY <1>5, Zenon DEF Responses, Held
  <2>2. UNCHANGED <<WorkInHand, Stage>>
    BY <1>5, Zenon DEF WorkInHand, Stage
  <2> QED
    BY <2>1, <2>2, Zenon
<1> HIDE DEF n
<1>7. Requests' = Read(s2mBuf, sRx, (cTx - sRx) + n)
  <2>1. cTx' - sRx' = (cTx - sRx) + n /\ sRx' = sRx /\ s2mBuf' = s2mBuf
    BY <1>1, <1>2, <1>4, <1>5 DEF Counted
  <2> QED
    BY <1>1, <2>1, Zenon DEF View
<1>8. Read(s2mBuf, cTx, n) = [i \in 1 .. n |-> cTx + i - 1]
  <2>1. \A k \in sFreed .. (cTx + cAlloc - 1) : s2mBuf[Slot(k)] = k
    BY <1>4, Zenon DEF RingInv, RequestsInPlace
  <2>2. cAlloc = n /\ cTx \in Nat /\ sFreed \in Nat /\ sFreed <= cTx
    BY <1>1 DEF Counted, cAlloc, n
  <2>3. \A i \in 1 .. n : cTx + i - 1 \in sFreed .. (cTx + cAlloc - 1)
    BY <1>2, <2>2
  <2>4. \A i \in 1 .. n : s2mBuf[Slot(cTx + i - 1)] = cTx + i - 1
    BY <2>1, <2>3, Zenon
  <2> QED
    BY <2>4, Zenon DEF Read
<1>9. Requests = Read(s2mBuf, sRx, cTx - sRx) /\ Len(Requests) = cTx - sRx
  <2>1. Requests = Read(s2mBuf, sRx, cTx - sRx) /\ s2mBuf \in [Slots -> Job]
    BY <1>1, Zenon DEF View, BuffersTyped
  <2>2. sRx \in Int /\ cTx - sRx \in Nat
    BY <1>1 DEF Counted
  <2>3. Len(Read(s2mBuf, sRx, cTx - sRx)) = cTx - sRx
    BY <2>1, <2>2, ReadElements, Zenon
  <2> QED
    BY <2>1, <2>3, Zenon
<1>10. Requests' = Requests \o [i \in 1 .. n |-> cTx + i - 1]
  <2>1. s2mBuf \in [Slots -> Job] /\ sRx \in Int /\ cTx - sRx \in Nat /\ sRx + (cTx - sRx) = cTx
    BY <1>1 DEF Counted, BuffersTyped
  <2>2. Read(s2mBuf, sRx, cTx - sRx) \o Read(s2mBuf, sRx + (cTx - sRx), n)
          = Read(s2mBuf, sRx, (cTx - sRx) + n)
    BY <1>2, <2>1, ReadJoin, Zenon
  <2> QED
    BY <1>7, <1>8, <1>9, <2>1, <2>2, Zenon
<1>11. Len(Requests) + n <= RingSize
  <2>1. /\ cTx \in Nat /\ sRx \in Nat /\ sFreed \in Nat /\ Len(sRxBufs) \in Nat /\ RingSize \in Nat
        /\ sFreed + Len(sRxBufs) = sRx /\ cTx + n <= sFreed + RingSize
    BY <1>1, Zenon DEF Counted, n
  <2>2. (cTx - sRx) + n <= RingSize
    BY <1>2, <2>1
  <2> QED
    BY <1>9, <2>2, Zenon
<1>12. CASE n = 0
  <2>1. cTx' = cTx /\ (cTx - sRx) + n = cTx - sRx
    BY <1>1, <1>4, <1>12 DEF Counted
  <2> QED
    BY <1>6, <1>7, <1>9, <2>1, Zenon
<1>13. CASE n # 0
  <2>1. n \in 1 .. MaxBufs
    BY <1>2, <1>13
  <2>2. Channel!Send(n)
    BY <1>4, <1>6, <1>10, <1>11, Zenon DEF Channel!Send
  <2> QED
    BY <2>1, <2>2, Zenon
<1> QED
  BY <1>12, <1>13, Zenon

\* memif_rx_burst of the client.
LEMMA PollRxReceives ==
  ASSUME RingInv, RingInv', PollRx
  PROVE  \/ \E n \in 1 .. MaxBufs : Channel!Receive(n)
         \/ UNCHANGED <<cTx, Requests, WorkInHand, Stage, Responses, Held>>
<1> DEFINE n == Least(RxAvailable(cLastTail, m2sTail), MaxBufs)
<1>1. View /\ View' /\ Counted /\ BuffersTyped
  BY ViewHolds, ViewHoldsNext, CountedHolds, BuffersTypedNow, Zenon
<1>2. cRxBufs = <<>> /\ Len(cRxBufs) = 0
  BY Zenon DEF PollRx, RingInv, ControlState
<1>3. RxAvailable(cLastTail, m2sTail) = sTx - cRx
  <2>1. /\ cRx \in Int /\ sTx \in Int /\ cRx <= sTx /\ sTx <= cRx + RingSize
    BY <1>1 DEF Counted
  <2>2. cLastTail = U16(cRx) /\ m2sTail = U16(sTx)
    BY Zenon DEF RingInv, IndicesAreCounters
  <2> QED
    BY <2>1, <2>2, RxAvailableExact, Zenon
<1>4. n \in Nat /\ n <= MaxBufs /\ MaxBufs \in Nat /\ n <= sTx - cRx /\ sTx - cRx \in Nat
  BY <1>1, <1>3, DataPathAssumption DEF Least, Counted
<1>5. cRxBufs' = Run(cLastTail, n) /\ cRx' = cRx + Len(Run(cLastTail, n))
  BY Zenon DEF PollRx, RxBufs
<1>6. Len(cRxBufs') = n /\ cRx' = cRx + n
  <2>1. cLastTail \in Int
    BY RingConstants DEF RingInv, TypeOK, Index
  <2> HIDE DEF n
  <2> QED
    BY <1>4, <1>5, <2>1, RunType, Zenon
<1> HIDE DEF n
<1>7. UNCHANGED <<s2mHead, s2mTail, s2mBuf, m2sHead, m2sTail, m2sBuf, cTx,
                  spc, sTxBufs, sRxBufs, sLastHead, sTx, sRx>>
  BY Zenon DEF PollRx, s2m, server, cSend
<1>8. UNCHANGED <<cTx, Requests, WorkInHand, Stage>>
  <2>1. UNCHANGED <<cTx, Requests>>
    BY <1>7, Zenon DEF Requests
  <2>2. UNCHANGED <<WorkInHand, Stage>>
    BY <1>7, Zenon DEF WorkInHand, Stage
  <2> QED
    BY <2>1, <2>2, Zenon
<1>9. Answers' = Answers /\ cFreed' = cRx /\ sTx' = sTx
  <2>1. cRx \in Nat /\ cRx' = cRx + n /\ Len(cRxBufs') = n
    BY <1>1, <1>6, Zenon DEF Counted
  <2>2. cFreed' = cRx
    BY <1>4, <2>1 DEF cFreed
  <2> QED
    BY <1>7, <2>2, Zenon DEF Answers
<1>10. /\ Responses = Read(Answers, cRx, sTx - cRx) /\ Held = Read(Answers, cFreed, 0)
       /\ Responses' = Read(Answers, cRx + n, (sTx - cRx) - n) /\ Held' = Read(Answers, cRx, n)
  <2>1. sTx' - cRx' = (sTx - cRx) - n
    <3>1. cRx \in Nat /\ sTx \in Nat /\ cRx' = cRx + n /\ sTx' = sTx
      BY <1>1, <1>6, <1>7, Zenon DEF Counted
    <3> QED
      BY <1>4, <3>1
  <2> QED
    BY <1>1, <1>2, <1>6, <1>9, <2>1, Zenon DEF View
<1>11. Held = <<>>
  BY <1>10, ReadNothing, Zenon
<1>12. /\ Len(Responses) = sTx - cRx
       /\ SubSeq(Responses, 1, n) = Read(Answers, cRx, n)
       /\ SubSeq(Responses, n + 1, sTx - cRx) = Read(Answers, cRx + n, (sTx - cRx) - n)
  <2>1. Answers \in [Slots -> Job] /\ cRx \in Int /\ sTx - cRx \in Nat /\ n \in 0 .. (sTx - cRx)
    BY <1>1, <1>4 DEF Counted, BuffersTyped
  <2>2. Len(Read(Answers, cRx, sTx - cRx)) = sTx - cRx
    BY <2>1, ReadElements, Zenon
  <2>3. SubSeq(Read(Answers, cRx, sTx - cRx), 1, n) = Read(Answers, cRx, n)
    BY <2>1, ReadSplit, Zenon
  <2>4. SubSeq(Read(Answers, cRx, sTx - cRx), n + 1, sTx - cRx)
          = Read(Answers, cRx + n, (sTx - cRx) - n)
    BY <2>1, ReadSplit, Zenon
  <2> QED
    BY <1>10, <2>2, <2>3, <2>4, Zenon
<1>13. CASE n = 0
  <2>1. cRx + n = cRx /\ (sTx - cRx) - n = sTx - cRx
    BY <1>1, <1>13 DEF Counted
  <2> QED
    BY <1>8, <1>10, <1>11, <1>13, <2>1, ReadNothing, Zenon
<1>14. CASE n # 0
  <2>1. n \in 1 .. MaxBufs
    BY <1>4, <1>14
  <2>2. Channel!Receive(n)
    BY <1>4, <1>8, <1>10, <1>11, <1>12, Zenon DEF Channel!Receive, Channel!Prefix, Channel!Rest
  <2> QED
    BY <2>1, <2>2, Zenon
<1> QED
  BY <1>13, <1>14, Zenon

\* memif_refill_queue of the client.
LEMMA PollRefillReleases ==
  ASSUME RingInv, RingInv', PollRefill
  PROVE  Channel!Release
<1>1. /\ UNCHANGED <<s2mHead, s2mTail, s2mBuf, m2sTail, m2sBuf, cTx, cLastTail,
                     spc, sTxBufs, sRxBufs, sLastHead>>
      /\ cRxBufs' = <<>>
  BY Zenon DEF PollRefill, s2m, server, cSend
<1>2. UNCHANGED <<Requests, Responses>>
  BY <1>1, Zenon DEF Requests, Responses
<1>3. UNCHANGED <<WorkInHand, Stage>>
  BY <1>1, Zenon DEF WorkInHand, Stage
<1>4. Held' = <<>>
  BY <1>1 DEF Held
<1> QED
  BY <1>1, <1>2, <1>3, <1>4, Zenon DEF Channel!Release

-----------------------------------------------------------------------------
(***************************************************************************)
(* What the server takes, keeps and answers.                               *)
(***************************************************************************)
\* memif_rx_burst of the server.
LEMMA ServerRxTakes ==
  ASSUME RingInv, RingInv', ServerRx
  PROVE  \E n \in 1 .. MaxBufs : Channel!Take(n)
<1> DEFINE n == Least(RxAvailable(sLastHead, s2mHead), MaxBufs)
<1>1. View /\ View' /\ Counted /\ BuffersTyped
  BY ViewHolds, ViewHoldsNext, CountedHolds, BuffersTypedNow, Zenon
<1>2. sRxBufs = <<>> /\ Len(sRxBufs) = 0 /\ spc = "rx" /\ spc' = "alloc"
  BY Zenon DEF ServerRx, RingInv, ControlState
<1>3. RxAvailable(sLastHead, s2mHead) = cTx - sRx
  <2>1. /\ sRx \in Int /\ cTx \in Int /\ sRx <= cTx /\ cTx <= sRx + RingSize
    BY <1>1 DEF Counted
  <2>2. sLastHead = U16(sRx) /\ s2mHead = U16(cTx)
    BY Zenon DEF RingInv, IndicesAreCounters
  <2> QED
    BY <2>1, <2>2, RxAvailableExact, Zenon
<1>4. n \in Nat /\ n <= MaxBufs /\ MaxBufs \in Nat /\ n <= cTx - sRx /\ cTx - sRx \in Nat
  BY <1>1, <1>3, DataPathAssumption DEF Least, Counted
<1>5. /\ sRxBufs' = Run(sLastHead, n) /\ sRx' = sRx + Len(Run(sLastHead, n))
      /\ Len(Run(sLastHead, n)) > 0
  BY Zenon DEF ServerRx, RxBufs
<1>6. Len(sRxBufs') = n /\ sRx' = sRx + n /\ n > 0
  <2>1. sLastHead \in Int
    BY RingConstants DEF RingInv, TypeOK, Index
  <2> HIDE DEF n
  <2> QED
    BY <1>4, <1>5, <2>1, RunType, Zenon
<1> HIDE DEF n
<1>7. UNCHANGED <<s2mBuf, m2sTail, m2sBuf, cTx, cRxBufs, cLastTail>>
  BY Zenon DEF ServerRx, s2m, m2s, client, cSend, cRecv
<1>8. UNCHANGED <<cTx, Responses, Held>>
  BY <1>7, Zenon DEF Responses, Held
<1>9. sFreed' = sRx /\ cTx' - sRx' = (cTx - sRx) - n
  <2>1. sRx \in Nat /\ cTx \in Nat /\ sRx' = sRx + n /\ Len(sRxBufs') = n /\ cTx' = cTx
    BY <1>1, <1>6, <1>7, Zenon DEF Counted
  <2> QED
    BY <1>4, <2>1 DEF sFreed
<1>10. /\ Requests = Read(s2mBuf, sRx, cTx - sRx)
       /\ Requests' = Read(s2mBuf, sRx + n, (cTx - sRx) - n)
  BY <1>1, <1>6, <1>7, <1>9, Zenon DEF View
<1>11. WorkInHand' = Read(s2mBuf, sRx, n)
  <2>1. WorkInHand' = Read(s2mBuf', sFreed', Len(sRxBufs'))
    BY <1>1, <1>2, Zenon DEF View
  <2> QED
    BY <1>6, <1>7, <1>9, <2>1, Zenon
<1>12. /\ Len(Requests) = cTx - sRx
       /\ SubSeq(Requests, 1, n) = Read(s2mBuf, sRx, n)
       /\ SubSeq(Requests, n + 1, cTx - sRx) = Read(s2mBuf, sRx + n, (cTx - sRx) - n)
  <2>1. s2mBuf \in [Slots -> Job] /\ sRx \in Int /\ cTx - sRx \in Nat /\ n \in 0 .. (cTx - sRx)
    BY <1>1, <1>4 DEF Counted, BuffersTyped
  <2>2. Len(Read(s2mBuf, sRx, cTx - sRx)) = cTx - sRx
    BY <2>1, ReadElements, Zenon
  <2>3. SubSeq(Read(s2mBuf, sRx, cTx - sRx), 1, n) = Read(s2mBuf, sRx, n)
    BY <2>1, ReadSplit, Zenon
  <2>4. SubSeq(Read(s2mBuf, sRx, cTx - sRx), n + 1, cTx - sRx)
          = Read(s2mBuf, sRx + n, (cTx - sRx) - n)
    BY <2>1, ReadSplit, Zenon
  <2> QED
    BY <1>10, <2>2, <2>3, <2>4, Zenon
<1>13. Stage = "none" /\ Stage' = "taken"
  BY <1>2, Zenon DEF Stage
<1>14. n \in 1 .. MaxBufs
  BY <1>4, <1>6
<1>15. Channel!Take(n)
  BY <1>4, <1>8, <1>10, <1>11, <1>12, <1>13, Zenon DEF Channel!Take, Channel!Prefix, Channel!Rest
<1> QED
  BY <1>14, <1>15, Zenon

\* memif_buffer_alloc of the server.
LEMMA ServerAllocKeepsFree ==
  ASSUME RingInv, RingInv', ServerAlloc
  PROVE  Channel!Keep
<1> DEFINE L == Len(sRxBufs)
           free == RingSize - (Len(Responses) + Len(Held))
<1>1. View /\ View' /\ Counted /\ BuffersTyped
  BY ViewHolds, ViewHoldsNext, CountedHolds, BuffersTypedNow, Zenon
<1>2. spc = "alloc" /\ spc' = "copy"
  BY Zenon DEF ServerAlloc
<1>3. PICK n \in Nat : /\ n <= L /\ sTx + n <= cFreed + RingSize
                       /\ n < L => n = cFreed + RingSize - sTx
                       /\ Len(sTxBufs') = n
  BY ServerAllocCounts, Zenon
<1>4. UNCHANGED <<s2mHead, s2mBuf, m2sTail, m2sBuf, cTx, cRxBufs, cLastTail,
                  sLastHead, sRxBufs, sRx>>
  BY Zenon DEF ServerAlloc, s2m, m2s, client, cSend, cRecv
<1>5. UNCHANGED <<cTx, Requests, Responses, Held>>
  BY <1>4, Zenon DEF Requests, Responses, Held
<1>6. sFreed' = sFreed
  BY <1>4, Zenon DEF sFreed
<1>7. WorkInHand = Read(s2mBuf, sFreed, L) /\ WorkInHand' = Read(s2mBuf, sFreed, n)
  <2>1. WorkInHand = Read(s2mBuf, sFreed, Len(sRxBufs))
    BY <1>1, <1>2, Zenon DEF View
  <2>2. WorkInHand' = Read(s2mBuf', sFreed', Len(sTxBufs'))
    BY <1>1, <1>2, Zenon DEF View
  <2> QED
    BY <1>3, <1>4, <1>6, <2>1, <2>2, Zenon
<1>8. Len(Responses) = sTx - cRx /\ Len(Held) = Len(cRxBufs)
  <2>1. Answers \in [Slots -> Job] /\ Responses = Read(Answers, cRx, sTx - cRx)
        /\ Held = Read(Answers, cFreed, Len(cRxBufs))
    BY <1>1, Zenon DEF View, BuffersTyped
  <2>2. cRx \in Int /\ sTx - cRx \in Nat /\ cFreed \in Int /\ Len(cRxBufs) \in Nat
    BY <1>1 DEF Counted
  <2>3. Len(Read(Answers, cRx, sTx - cRx)) = sTx - cRx
    BY <2>1, <2>2, ReadElements, Zenon
  <2>4. Len(Read(Answers, cFreed, Len(cRxBufs))) = Len(cRxBufs)
    BY <2>1, <2>2, ReadElements, Zenon
  <2> QED
    BY <2>1, <2>3, <2>4, Zenon
<1>9. Len(WorkInHand) = L /\ SubSeq(WorkInHand, 1, n) = Read(s2mBuf, sFreed, n)
  <2>1. s2mBuf \in [Slots -> Job] /\ sFreed \in Int /\ L \in Nat /\ n \in 0 .. L
    BY <1>1, <1>3 DEF Counted, BuffersTyped
  <2> HIDE DEF L
  <2>2. Len(Read(s2mBuf, sFreed, L)) = L
    BY <2>1, ReadElements, Zenon
  <2>3. SubSeq(Read(s2mBuf, sFreed, L), 1, n) = Read(s2mBuf, sFreed, n)
    BY <2>1, ReadSplit, Zenon
  <2> QED
    BY <1>7, <2>2, <2>3, Zenon
<1>10. n = IF Len(WorkInHand) < free THEN Len(WorkInHand) ELSE free
  <2>1. /\ L \in Nat /\ cFreed \in Nat /\ RingSize \in Nat /\ sTx \in Nat /\ cRx \in Nat
        /\ Len(cRxBufs) \in Nat /\ cFreed + Len(cRxBufs) = cRx
    BY <1>1, Zenon DEF Counted
  <2>2. free = RingSize - ((sTx - cRx) + Len(cRxBufs))
    BY <1>8, Zenon
  <2>3. n <= L /\ sTx + n <= cFreed + RingSize /\ (n < L => n = cFreed + RingSize - sTx)
    BY <1>3, Zenon
  <2> HIDE DEF free, L
  <2>4. free = cFreed + RingSize - sTx
    BY <2>1, <2>2
  <2>5. n = IF L < free THEN L ELSE free
    BY <2>1, <2>3, <2>4
  <2> QED
    BY <1>9, <2>5, Zenon
<1>11. Stage = "taken" /\ Stage' = "kept"
  BY <1>2, Zenon DEF Stage
<1> QED
  BY <1>5, <1>7, <1>9, <1>10, <1>11, Zenon DEF Channel!Keep, Channel!Prefix

-----------------------------------------------------------------------------
(***************************************************************************)
(* Writing the buffers of a burst.                                         *)
(***************************************************************************)
\* What the server writes into the buffers of a burst; the answers before
\* them stay.
LEMMA BuffersFilled ==
  ASSUME RingInv, NEW vals, DOMAIN vals = 1 .. Len(sTxBufs),
         m2sBuf' = Fill(m2sBuf, sTxBufs, vals)
  PROVE  /\ \A k \in cFreed .. (sTx - 1) : m2sBuf'[Slot(k)] = m2sBuf[Slot(k)]
         /\ \A i \in 1 .. Len(sTxBufs) : m2sBuf'[Slot(sTx + i - 1)] = vals[i]
<1> DEFINE n == Len(sTxBufs)
<1>1. Counted
  BY CountedHolds, Zenon
<1>2. n \in Nat /\ n <= RingSize /\ sTx \in Int /\ DOMAIN vals = 1 .. n
  BY <1>1 DEF Counted
<1>3. m2sBuf' = Fill(m2sBuf, Run(sTx, n), vals)
  <2>1. sTxBufs = Run(sTx, n)
    BY Zenon DEF RingInv, BuffersAreRuns
  <2> HIDE DEF n
  <2> QED
    BY <2>1, Zenon
<1>4. cFreed \in Nat /\ sTx + n <= cFreed + RingSize /\ RingSize \in Nat
  BY <1>1, Zenon DEF Counted
<1> HIDE DEF n
<1>5. \A k \in cFreed .. (sTx - 1) : m2sBuf'[Slot(k)] = m2sBuf[Slot(k)]
  <2> TAKE k \in cFreed .. (sTx - 1)
  <2>1. k \in Int /\ (k < sTx \/ sTx + n <= k) /\ sTx + n <= k + RingSize /\ k < sTx + RingSize
    BY <1>2, <1>4
  <2>2. Fill(m2sBuf, Run(sTx, n), vals)[Slot(k)] = m2sBuf[Slot(k)]
    BY <1>2, <2>1, FillKeeps, SMTT(20)
  <2> QED
    BY <1>3, <2>2, Zenon
<1>6. \A i \in 1 .. n : m2sBuf'[Slot(sTx + i - 1)] = vals[i]
  <2> TAKE i \in 1 .. n
  <2> DEFINE k == sTx + i - 1
  <2>1. k \in Int /\ sTx <= k /\ k < sTx + n /\ k - sTx + 1 = i
    BY <1>2
  <2> HIDE DEF k
  <2>2. Fill(m2sBuf, Run(sTx, n), vals)[Slot(k)] = vals[k - sTx + 1]
    BY <1>2, <2>1, FillWrites, SMTT(20)
  <2> QED
    BY <1>3, <2>1, <2>2, Zenon DEF k
<1> QED
  BY <1>5, <1>6, Zenon DEF n

\* The jobs the server writes into the buffers of a burst are what a later
\* reading of these buffers finds; the jobs before them stay.
LEMMA AnswersFilled ==
  ASSUME RingInv, NEW vals, DOMAIN vals = 1 .. Len(sTxBufs),
         m2sBuf' = Fill(m2sBuf, sTxBufs, vals)
  PROVE  /\ \A k \in cFreed .. (sTx - 1) : Answers'[Slot(k)] = Answers[Slot(k)]
         /\ Read(Answers', cRx, sTx - cRx) = Read(Answers, cRx, sTx - cRx)
         /\ Read(Answers', cFreed, Len(cRxBufs)) = Read(Answers, cFreed, Len(cRxBufs))
         /\ \A i \in 1 .. Len(sTxBufs) : Answers'[Slot(sTx + i - 1)] = vals[i].seq
<1> DEFINE n == Len(sTxBufs)
<1>1. /\ n \in Nat /\ cFreed \in Nat /\ sTx \in Nat /\ cRx \in Nat /\ Len(cRxBufs) \in Nat
      /\ cFreed + Len(cRxBufs) = cRx /\ cRx <= sTx
  BY CountedHolds, Zenon DEF Counted
<1>2. /\ \A k \in cFreed .. (sTx - 1) : m2sBuf'[Slot(k)] = m2sBuf[Slot(k)]
      /\ \A i \in 1 .. n : m2sBuf'[Slot(sTx + i - 1)] = vals[i]
  BY BuffersFilled, Zenon
<1> HIDE DEF n
<1>3. \A k \in Int : Slot(k) \in Slots
  BY SlotType, Zenon
<1>4. \A k \in cFreed .. (sTx - 1) : Answers'[Slot(k)] = Answers[Slot(k)]
  <2>1. \A k \in cFreed .. (sTx - 1) : k \in Int
    BY <1>1
  <2> QED
    BY <1>2, <1>3, <2>1, Zenon DEF Answers
<1>5. \A i \in 1 .. n : Answers'[Slot(sTx + i - 1)] = vals[i].seq
  <2>1. \A i \in 1 .. n : sTx + i - 1 \in Int
    BY <1>1
  <2> QED
    BY <1>2, <1>3, <2>1, Zenon DEF Answers
<1>6. \A i \in 1 .. (sTx - cRx) : cRx + i - 1 \in cFreed .. (sTx - 1)
  BY <1>1
<1>7. \A i \in 1 .. Len(cRxBufs) : cFreed + i - 1 \in cFreed .. (sTx - 1)
  BY <1>1
<1>8. Read(Answers', cRx, sTx - cRx) = Read(Answers, cRx, sTx - cRx)
  BY <1>4, <1>6, Zenon DEF Read
<1>9. Read(Answers', cFreed, Len(cRxBufs)) = Read(Answers, cFreed, Len(cRxBufs))
  BY <1>4, <1>7, Zenon DEF Read
<1> QED
  BY <1>4, <1>5, <1>8, <1>9, Zenon DEF n

\* The channel sees neither the copy, nor the refill, nor the jobs being run.
LEMMA ServerCopyHidden ==
  ASSUME RingInv, RingInv', ServerCopy
  PROVE  UNCHANGED <<cTx, Requests, WorkInHand, Stage, Responses, Held>>
<1> DEFINE vals == [i \in DOMAIN sTxBufs |-> Response(s2mBuf[Slot(sRxBufs[i])], FALSE)]
           n == Len(sTxBufs)
<1>1. View /\ View' /\ Counted
  BY ViewHolds, ViewHoldsNext, CountedHolds, Zenon
<1>2. /\ spc = "copy" /\ spc' = "refill" /\ m2sBuf' = Fill(m2sBuf, sTxBufs, vals)
      /\ UNCHANGED <<s2mHead, s2mBuf, cTx, cRx, cRxBufs, cLastTail, sLastHead, sTx, sRx,
                     sTxBufs, sRxBufs, m2sTail>>
  BY Zenon DEF ServerCopy, s2m, client, cSend, cRecv
<1>3. sTxBufs \in Seq(Index) /\ sRxBufs \in Seq(Index) /\ n <= Len(sRxBufs)
  BY <1>2, Zenon DEF RingInv, TypeOK, ControlState, sAlloc
<1>4. DOMAIN sTxBufs = 1 .. n /\ DOMAIN sRxBufs = 1 .. Len(sRxBufs) /\ DOMAIN vals = 1 .. n
  BY <1>3
<1>5. \A i \in 1 .. n : vals[i].seq = s2mBuf[Slot(sRxBufs[i])]
  BY <1>4, Zenon DEF Response
<1> HIDE DEF vals
<1>6. /\ Read(Answers', cRx, sTx - cRx) = Read(Answers, cRx, sTx - cRx)
      /\ Read(Answers', cFreed, Len(cRxBufs)) = Read(Answers, cFreed, Len(cRxBufs))
      /\ \A i \in 1 .. n : Answers'[Slot(sTx + i - 1)] = vals[i].seq
  BY <1>2, <1>4, AnswersFilled, Zenon
<1>7. cFreed' = cFreed
  BY <1>2, Zenon DEF cFreed
<1>8. Responses' = Responses /\ Held' = Held
  BY <1>1, <1>2, <1>6, <1>7, Zenon DEF View
<1>9. Requests' = Requests
  BY <1>2, Zenon DEF Requests
<1>10. WorkInHand = [i \in 1 .. n |-> s2mBuf[Slot(sRxBufs[i])]]
  BY <1>2, <1>4, Zenon DEF WorkInHand
<1>11. WorkInHand' = Read(Answers', sTx, n)
  <2>1. WorkInHand' = Read(Answers', sTx', Len(sTxBufs'))
    BY <1>1, <1>2, Zenon DEF View
  <2> QED
    BY <1>2, <2>1, Zenon
<1>12. WorkInHand' = WorkInHand
  <2>1. \A i \in 1 .. n : Answers'[Slot(sTx + i - 1)] = s2mBuf[Slot(sRxBufs[i])]
    BY <1>5, <1>6, Zenon
  <2>2. Read(Answers', sTx, n) = [i \in 1 .. n |-> s2mBuf[Slot(sRxBufs[i])]]
    BY <2>1, Zenon DEF Read
  <2> QED
    BY <1>10, <1>11, <2>2, Zenon
<1>13. Stage' = Stage
  BY <1>2, Zenon DEF Stage
<1> QED
  BY <1>2, <1>8, <1>9, <1>12, <1>13, Zenon

LEMMA ServerRefillHidden ==
  ASSUME ServerRefill
  PROVE  UNCHANGED <<cTx, Requests, WorkInHand, Stage, Responses, Held>>
<1>1. /\ spc = "refill" /\ spc' = "recv"
      /\ UNCHANGED <<s2mHead, s2mBuf, m2sTail, m2sBuf, cTx, cRxBufs, cLastTail, sLastHead, sTxBufs>>
  BY Zenon DEF ServerRefill, m2s, client, cSend, cRecv
<1>2. UNCHANGED <<cTx, Requests, Responses, Held>>
  BY <1>1, Zenon DEF Requests, Responses, Held
<1>3. UNCHANGED <<WorkInHand, Stage>>
  BY <1>1, Zenon DEF WorkInHand, Stage
<1> QED
  BY <1>2, <1>3, Zenon

LEMMA ServerRecvHidden ==
  ASSUME RingInv, RingInv', ServerRecv
  PROVE  UNCHANGED <<cTx, Requests, WorkInHand, Stage, Responses, Held>>
<1> DEFINE vals == [i \in DOMAIN sTxBufs |-> Response(m2sBuf[Slot(sTxBufs[i])].seq, TRUE)]
           n == Len(sTxBufs)
<1>1. View /\ View' /\ Counted
  BY ViewHolds, ViewHoldsNext, CountedHolds, Zenon
<1>2. /\ spc = "recv" /\ spc' = "tx" /\ m2sBuf' = Fill(m2sBuf, sTxBufs, vals)
      /\ UNCHANGED <<s2mHead, s2mBuf, cTx, cRx, cRxBufs, cLastTail, sLastHead, sTx, sRx,
                     sTxBufs, sRxBufs, m2sTail>>
  BY Zenon DEF ServerRecv, s2m, client, cSend, cRecv
<1>3. sTxBufs \in Seq(Index)
  BY Zenon DEF RingInv, TypeOK
<1>4. DOMAIN sTxBufs = 1 .. n /\ DOMAIN vals = 1 .. n
  BY <1>3
<1>5. \A i \in 1 .. n : vals[i].seq = m2sBuf[Slot(sTxBufs[i])].seq
  BY <1>4, Zenon DEF Response
<1> HIDE DEF vals
<1>6. /\ Read(Answers', cRx, sTx - cRx) = Read(Answers, cRx, sTx - cRx)
      /\ Read(Answers', cFreed, Len(cRxBufs)) = Read(Answers, cFreed, Len(cRxBufs))
      /\ \A i \in 1 .. n : Answers'[Slot(sTx + i - 1)] = vals[i].seq
  BY <1>2, <1>4, AnswersFilled, Zenon
<1>7. cFreed' = cFreed
  BY <1>2, Zenon DEF cFreed
<1>8. Responses' = Responses /\ Held' = Held
  BY <1>1, <1>2, <1>6, <1>7, Zenon DEF View
<1>9. Requests' = Requests
  BY <1>2, Zenon DEF Requests
<1>10. WorkInHand = [i \in 1 .. n |-> m2sBuf[Slot(sTxBufs[i])].seq]
  BY <1>2, <1>4, Zenon DEF WorkInHand
<1>11. WorkInHand' = Read(Answers', sTx, n)
  <2>1. WorkInHand' = Read(Answers', sTx', Len(sTxBufs'))
    BY <1>1, <1>2, Zenon DEF View
  <2> QED
    BY <1>2, <2>1, Zenon
<1>12. WorkInHand' = WorkInHand
  <2>1. \A i \in 1 .. n : Answers'[Slot(sTx + i - 1)] = m2sBuf[Slot(sTxBufs[i])].seq
    BY <1>5, <1>6, Zenon
  <2>2. Read(Answers', sTx, n) = [i \in 1 .. n |-> m2sBuf[Slot(sTxBufs[i])].seq]
    BY <2>1, Zenon DEF Read
  <2> QED
    BY <1>10, <1>11, <2>2, Zenon
<1>13. Stage' = Stage
  BY <1>2, Zenon DEF Stage
<1> QED
  BY <1>2, <1>8, <1>9, <1>12, <1>13, Zenon

\* memif_tx_burst of the server.
LEMMA ServerTxAnswers ==
  ASSUME RingInv, RingInv', ServerTx
  PROVE  Channel!Answer
<1> DEFINE n == Len(sTxBufs)
<1>1. View /\ View' /\ Counted /\ BuffersTyped
  BY ViewHolds, ViewHoldsNext, CountedHolds, BuffersTypedNow, Zenon
<1>2. n \in Nat
  BY <1>1, Zenon DEF Counted
<1>3. TxCount(n, sAlloc) = n
  BY <1>2, Zenon DEF TxCount, Least, sAlloc
<1>4. /\ sTx' = sTx + n /\ spc = "tx" /\ spc' = "rx" /\ sTxBufs' = <<>>
      /\ UNCHANGED <<s2mHead, s2mBuf, m2sBuf, cTx, cRx, cRxBufs, sLastHead, sRx>>
  BY <1>3, Zenon DEF ServerTx, s2m, client, cSend, cRecv
<1>5. UNCHANGED <<cTx, Requests, Held, Answers>>
  BY <1>4, Zenon DEF Requests, Held, Answers
<1>6. WorkInHand = Read(Answers, sTx, n)
  BY <1>1, <1>4, Zenon DEF View
<1>7. WorkInHand' = <<>>
  BY <1>4 DEF WorkInHand
<1>8. Stage = "kept" /\ Stage' = "none"
  BY <1>4, Zenon DEF Stage
<1> HIDE DEF n
<1>9. Responses' = Read(Answers, cRx, (sTx - cRx) + n)
  <2>1. sTx' - cRx' = (sTx - cRx) + n
    <3>1. sTx \in Nat /\ cRx \in Nat /\ sTx' = sTx + n /\ cRx' = cRx
      BY <1>1, <1>4, Zenon DEF Counted
    <3> QED
      BY <1>2, <3>1
  <2> QED
    BY <1>1, <1>4, <1>5, <2>1, Zenon DEF View
<1>10. Responses' = Responses \o WorkInHand
  <2>1. Answers \in [Slots -> Job] /\ cRx \in Int /\ sTx - cRx \in Nat /\ cRx + (sTx - cRx) = sTx
    BY <1>1 DEF Counted, BuffersTyped
  <2>2. Read(Answers, cRx, sTx - cRx) \o Read(Answers, cRx + (sTx - cRx), n)
          = Read(Answers, cRx, (sTx - cRx) + n)
    BY <1>2, <2>1, ReadJoin, Zenon
  <2>3. Responses = Read(Answers, cRx, sTx - cRx)
    BY <1>1, Zenon DEF View
  <2> QED
    BY <1>6, <1>9, <2>1, <2>2, <2>3, Zenon
<1> QED
  BY <1>5, <1>7, <1>8, <1>10, Zenon DEF Channel!Answer

-----------------------------------------------------------------------------
(***************************************************************************)
(* The refinement.                                                         *)
(***************************************************************************)
\* Every burst of send fits the array of buffers it passes to the library.
LEMMA SendsBoundedInvariant == Spec => []SendsBounded
<1>1. Init => SendsBounded
  <2> SUFFICES ASSUME Init PROVE SendsBounded
    BY Zenon
  <2>1. Len(cTxBufs) = 0
    BY Zenon DEF Init
  <2> QED
    BY <2>1, DataPathAssumption DEF SendsBounded
<1>2. ASSUME RingInv, SendsBounded, [Next]_vars
      PROVE  SendsBounded'
  <2>1. CASE SendAlloc
    <3> DEFINE count == IF MaxBufs > cCount THEN cCount ELSE MaxBufs
               ns == SlaveFree(s2mHead, s2mTail, cAlloc)
               n == Least(count, ns)
    <3>1. /\ cTxBufs' = Run(s2mHead + cAlloc, n) /\ ns > 0
      BY <2>1, Zenon DEF SendAlloc, AllocBufs
    <3>2. cCount \in Nat /\ cAlloc \in Nat /\ s2mHead \in Nat /\ s2mTail \in Nat
      <4>1. Counted /\ cCount \in Nat /\ s2mHead \in Index /\ s2mTail \in Index
        BY <1>2, CountedHolds, Zenon DEF RingInv, TypeOK
      <4> QED
        BY <4>1, RingConstants DEF Counted, cAlloc, Index
    <3>3. ns \in Int
      BY <3>2, U16Type, RingConstants DEF SlaveFree, Index
    <3> HIDE DEF ns
    <3>4. n \in Nat /\ n <= MaxBufs
      BY <3>1, <3>2, <3>3, DataPathAssumption DEF Least
    <3>5. s2mHead + cAlloc \in Int
      BY <3>2
    <3> HIDE DEF n
    <3>6. Len(cTxBufs') = n
      BY <3>1, <3>4, <3>5, RunType, Zenon
    <3> QED
      BY <3>4, <3>6, Zenon DEF SendsBounded
  <2>2. CASE SendTx
    <3>1. cTxBufs' = <<>>
      BY <2>2, Zenon DEF SendTx
    <3>2. Len(cTxBufs') = 0
      BY <3>1, Zenon
    <3> QED
      BY <3>2, DataPathAssumption DEF SendsBounded
  <2>3. ASSUME UNCHANGED cTxBufs PROVE SendsBounded'
    BY <1>2, <2>3, Zenon DEF SendsBounded
  <2>4. ASSUME NEW n \in SendSizes, SendCall(n) PROVE UNCHANGED cTxBufs
    BY <2>4, Zenon DEF SendCall
  <2>5. ASSUME NEW n \in PollSizes, PollCall(n) PROVE UNCHANGED cTxBufs
    BY <2>5, Zenon DEF PollCall, cSend
  <2>6. ASSUME SendRetry \/ SendSerialize \/ PollRx \/ PollRecv \/ PollRefill
        PROVE  UNCHANGED cTxBufs
    BY <2>6, Zenon DEF SendRetry, SendSerialize, PollRx, PollRecv, PollRefill, cSend
  <2>7. ASSUME ServerStep PROVE UNCHANGED cTxBufs
    BY <2>7, Zenon DEF ServerStep, ServerRx, ServerAlloc, ServerCopy, ServerRefill, ServerRecv,
                       ServerTx, client, cSend
  <2>8. ASSUME UNCHANGED vars PROVE UNCHANGED cTxBufs
    BY <2>8, Zenon DEF vars, client, cSend
  <2> QED
    BY <1>2, <2>1, <2>2, <2>3, <2>4, <2>5, <2>6, <2>7, <2>8, Zenon DEF Next, ClientStep
<1> QED
  BY <1>1, <1>2, RingInvariant, PTL DEF Spec

\* The connection starts as an empty channel.
LEMMA InitIsEmptyChannel == Init => Channel!Init
<1> SUFFICES ASSUME Init PROVE Channel!Init
  BY Zenon
<1>1. cTx = 0 /\ spc = "rx" /\ sTxBufs = <<>> /\ cRxBufs = <<>>
  BY Zenon DEF Init
<1>2. RingInv
  BY RingInvInit, Zenon
<1>3. View /\ sRx = 0 /\ sTx = 0 /\ cRx = 0
  BY <1>2, ViewHolds, Zenon DEF Init
<1>4. Requests = <<>> /\ Responses = <<>>
  <2>1. Requests = Read(s2mBuf, 0, 0 - 0) /\ Responses = Read(Answers, 0, 0 - 0)
    BY <1>1, <1>3, Zenon DEF View
  <2>2. 0 - 0 = 0
    OBVIOUS
  <2> QED
    BY <2>1, <2>2, ReadNothing, Zenon
<1>5. Held = <<>> /\ WorkInHand = <<>> /\ Stage = "none"
  BY <1>1 DEF Held, WorkInHand, Stage
<1> QED
  BY <1>1, <1>4, <1>5, Zenon DEF Channel!Init

\* Every step is a step of the channel, or one the channel does not see.
LEMMA StepOfChannel ==
  ASSUME RingInv, RingInv', SendsBounded, [Next]_vars
  PROVE  [Channel!Next]_(Channel!vars)
<1> USE DEF Channel!Next, Channel!vars
<1>1. CASE SendTx
  BY <1>1, SendTxSends, Zenon
<1>2. CASE PollRx
  BY <1>2, PollRxReceives, Zenon
<1>3. CASE PollRefill
  BY <1>3, PollRefillReleases, Zenon
<1>4. CASE ServerRx
  BY <1>4, ServerRxTakes, Zenon
<1>5. CASE ServerAlloc
  BY <1>5, ServerAllocKeepsFree, Zenon
<1>6. CASE ServerTx
  BY <1>6, ServerTxAnswers, Zenon
<1>7. CASE ServerCopy \/ ServerRefill \/ ServerRecv
  BY <1>7, ServerCopyHidden, ServerRefillHidden, ServerRecvHidden, Zenon
<1>8. CASE SendSerialize
  BY <1>8, SerializeHidden, Zenon
<1>9. CASE \/ \E n \in SendSizes : SendCall(n)
           \/ \E n \in PollSizes : PollCall(n)
           \/ SendRetry \/ SendAlloc \/ PollRecv
  BY <1>9, ClientHidden, Zenon
<1>10. CASE UNCHANGED vars
  <2>1. UNCHANGED <<s2mHead, s2mBuf, m2sTail, m2sBuf, cTx, cRxBufs, cLastTail, spc, sTxBufs,
                    sRxBufs, sLastHead>>
    BY <1>10, Zenon DEF vars, s2m, m2s, client, cSend, cRecv, server
  <2>2. UNCHANGED <<cTx, Requests, Responses, Held>>
    BY <2>1, Zenon DEF Requests, Responses, Held
  <2>3. UNCHANGED <<WorkInHand, Stage>>
    BY <2>1, Zenon DEF WorkInHand, Stage
  <2> QED
    BY <2>2, <2>3, Zenon
<1> QED
  BY <1>1, <1>2, <1>3, <1>4, <1>5, <1>6, <1>7, <1>8, <1>9, <1>10, Zenon
  DEF Next, ClientStep, ServerStep

\* The rings implement the channel.
THEOREM RingsImplementChannel == Spec => ImplementsChannel
<1>1. Spec => []RingInv
  BY RingInvariant, Zenon
<1>2. RingInv /\ RingInv' /\ SendsBounded /\ [Next]_vars => [Channel!Next]_(Channel!vars)
  BY StepOfChannel, Zenon
<1> QED
  BY <1>1, <1>2, SendsBoundedInvariant, InitIsEmptyChannel, PTL
     DEF Spec, ImplementsChannel, Channel!Spec

-----------------------------------------------------------------------------
(***************************************************************************)
(* The order of the answers.                                               *)
(***************************************************************************)
\* The frontiers of the invariant, as numbers.
LEMMA Frontiers ==
  ASSUME RingInv
  PROVE  /\ cFreed \in Nat /\ cRx \in Nat /\ sTx \in Nat /\ sAlloc \in Nat
         /\ sFreed \in Nat /\ sRx \in Nat /\ cFreed <= cRx /\ cRx <= sTx /\ sFreed <= sRx
         /\ Copied \in Nat /\ sTx <= Copied /\ Taken \in Nat /\ Seen \in Nat
         /\ cFreed <= Seen /\ Seen <= cRx /\ cLastSeq \in Int
         /\ \A k \in Int : Slot(k) \in Slots /\ Answers[Slot(k)] \in Int
<1>1. Counted
  BY CountedHolds, Zenon
<1>2. /\ cFreed \in Nat /\ cRx \in Nat /\ sTx \in Nat /\ sAlloc \in Nat
      /\ sFreed \in Nat /\ sRx \in Nat /\ cFreed <= cRx /\ cRx <= sTx /\ sFreed <= sRx
  BY <1>1 DEF Counted, sAlloc
<1>3. /\ Copied \in Nat /\ sTx <= Copied /\ Taken \in Nat
      /\ Seen \in Nat /\ cFreed <= Seen /\ Seen <= cRx
  BY <1>2 DEF Copied, Taken, Seen
<1>4. cLastSeq \in Int
  BY DEF RingInv, TypeOK, NoJob
<1>5. \A k \in Int : Slot(k) \in Slots /\ Answers[Slot(k)] \in Int
  <2>1. Answers \in [Slots -> Job]
    BY BuffersTypedNow, Zenon DEF BuffersTyped
  <2>2. \A j \in Job : j \in Int
    BY DEF Job, NoJob
  <2> QED
    BY <2>1, <2>2, SlotType, Zenon
<1> QED
  BY <1>2, <1>3, <1>4, <1>5, Zenon

\* Steps that move none of the frontiers.
LEMMA FrontiersKept ==
  ASSUME AnswersOrdered,
         UNCHANGED <<m2sBuf, cLastSeq, cFreed, Copied, Finished, Taken, Seen>>
  PROVE  AnswersOrdered'
<1>1. Answers' = Answers
  BY Zenon DEF Answers
<1> QED
  BY <1>1, Zenon DEF AnswersOrdered

\* Sending touches no answer.
LEMMA OrderOfSending ==
  ASSUME RingInv, AnswersOrdered,
         \/ \E n \in SendSizes : SendCall(n)
         \/ \E n \in PollSizes : PollCall(n)
         \/ SendRetry \/ SendAlloc \/ SendSerialize \/ SendTx
  PROVE  AnswersOrdered'
<1>1. /\ UNCHANGED <<m2sBuf, cLastSeq, cRx, cRxBufs, spc, sTx, sTxBufs, sRx, sRxBufs>>
      /\ cpc # "recv" /\ cpc' # "recv"
  <2>1. cReturn \in {"idle", "callback"}
    BY Zenon DEF RingInv, TypeOK
  <2>2. ASSUME SendTx
        PROVE  cpc = "tx" /\ cpc' \in {"alloc", "idle", "callback"}
    BY <2>1, <2>2, Zenon DEF SendTx
  <2> QED
    BY <2>2, Zenon DEF SendCall, PollCall, SendRetry, SendAlloc, SendSerialize, SendTx,
                       m2s, server, cRecv
<1>2. UNCHANGED <<cFreed, Copied, Finished, Taken, Seen>>
  BY <1>1, Zenon DEF cFreed, sFreed, sAlloc, Copied, Finished, Taken, Seen
<1> QED
  BY <1>1, <1>2, FrontiersKept, Zenon

\* The server is done with its burst when it publishes it.
LEMMA OrderOfServerIndices ==
  ASSUME RingInv, RingInv', AnswersOrdered,
         ServerRx \/ ServerAlloc \/ ServerRefill \/ ServerTx
  PROVE  AnswersOrdered'
<1>1. UNCHANGED <<m2sBuf, cLastSeq, cRx, cRxBufs, cpc>>
  BY Zenon DEF ServerRx, ServerAlloc, ServerRefill, ServerTx, m2s, client, cRecv
<1>2. UNCHANGED <<cFreed, Seen>>
  BY <1>1, Zenon DEF cFreed, Seen
<1>3. Counted /\ Counted'
  BY CountedHolds, CountedNext, Zenon
<1>4. CASE ServerRx
  <2>1. /\ spc = "rx" /\ spc' = "alloc" /\ UNCHANGED <<sTx, sTxBufs>>
        /\ sRxBufs' = RxBufs(sLastHead, s2mHead, MaxBufs)
        /\ sRx' = sRx + Len(RxBufs(sLastHead, s2mHead, MaxBufs))
    BY <1>4, Zenon DEF ServerRx
  <2>2. sRx' = sRx + Len(sRxBufs')
    BY <2>1, Zenon
  <2>3. Taken = sRx /\ Taken' = sFreed'
    BY <2>1, Zenon DEF Taken
  <2>4. Taken' = Taken
    <3>1. /\ sRx \in Nat /\ sFreed' \in Nat /\ Len(sRxBufs') \in Nat
          /\ sFreed' + Len(sRxBufs') = sRx'
      BY <1>3, Zenon DEF Counted
    <3> QED
      BY <2>2, <2>3, <3>1
  <2>5. UNCHANGED <<Copied, Finished>>
    BY <2>1, Zenon DEF Copied, Finished
  <2> QED
    BY <1>1, <1>2, <2>4, <2>5, FrontiersKept, Zenon
<1>5. CASE ServerAlloc
  <2>1. spc = "alloc" /\ spc' = "copy" /\ UNCHANGED <<sTx, sRx, sRxBufs>>
    BY <1>5, Zenon DEF ServerAlloc
  <2>2. UNCHANGED <<Copied, Finished, Taken>>
    BY <2>1, Zenon DEF Copied, Finished, Taken, sFreed
  <2> QED
    BY <1>1, <1>2, <2>2, FrontiersKept, Zenon
<1>6. CASE ServerRefill
  <2>1. spc = "refill" /\ spc' = "recv" /\ UNCHANGED <<sTx, sRx, sTxBufs>>
    BY <1>6, Zenon DEF ServerRefill
  <2>2. UNCHANGED <<Copied, Finished, Taken>>
    BY <2>1, Zenon DEF Copied, Finished, Taken, sAlloc
  <2> QED
    BY <1>1, <1>2, <2>2, FrontiersKept, Zenon
<1>7. CASE ServerTx
  <2>1. sAlloc \in Nat /\ sTx \in Nat
    BY <1>3, Zenon DEF Counted, sAlloc
  <2>2. TxCount(sAlloc, sAlloc) = sAlloc
    BY <2>1, Zenon DEF TxCount, Least
  <2>3. spc = "tx" /\ spc' = "rx" /\ sTx' = sTx + sAlloc /\ sRx' = sRx
    BY <1>7, <2>2, Zenon DEF ServerTx, sAlloc
  <2>4. UNCHANGED <<Copied, Finished, Taken>>
    <3>1. Copied = sTx + sAlloc /\ Finished = sTx + sAlloc /\ Taken = sRx
      BY <2>3, Zenon DEF Copied, Finished, Taken
    <3>2. Copied' = sTx' + 0 /\ Finished' = sTx' + 0 /\ Taken' = sRx'
      BY <2>3, Zenon DEF Copied, Finished, Taken
    <3> QED
      BY <2>1, <2>3, <3>1, <3>2
  <2> QED
    BY <1>1, <1>2, <2>4, FrontiersKept, Zenon
<1> QED
  BY <1>4, <1>5, <1>6, <1>7, Zenon

\* The client takes answers it has not decoded yet.
LEMMA OrderOfPollRx ==
  ASSUME RingInv, RingInv', AnswersOrdered, PollRx
  PROVE  AnswersOrdered'
<1>1. /\ UNCHANGED <<m2sBuf, cLastSeq, spc, sTx, sTxBufs, sRx, sRxBufs>>
      /\ cpc = "rx" /\ cpc' = "recv"
  BY Zenon DEF PollRx, server
<1>2. UNCHANGED <<Copied, Finished, Taken>>
  BY <1>1, Zenon DEF sFreed, sAlloc, Copied, Finished, Taken
<1>3. cFreed' = cRx /\ cFreed = cRx
  <2>1. cRxBufs = <<>>
    BY <1>1, Zenon DEF RingInv, ControlState
  <2>2. cRx' = cRx + Len(cRxBufs')
    BY Zenon DEF PollRx
  <2>3. /\ cRx \in Nat /\ Len(cRxBufs) = 0 /\ cFreed + Len(cRxBufs) = cRx /\ cFreed \in Nat
        /\ cFreed' \in Nat /\ Len(cRxBufs') \in Nat /\ cFreed' + Len(cRxBufs') = cRx'
    BY <2>1, CountedHolds, CountedNext, Zenon DEF Counted
  <2> QED
    BY <2>2, <2>3
<1>4. Seen = cRx /\ Seen' = cRx
  BY <1>1, <1>3, Zenon DEF Seen
<1> QED
  BY <1>1, <1>2, <1>3, <1>4, FrontiersKept, Zenon

\* on_recv_cb of the client: what it decodes is processed and in order.
LEMMA OrderOfPollRecv ==
  ASSUME RingInv, RingInv', AnswersOrdered, PollRecv
  PROVE  AnswersOrdered'
<1>1. /\ UNCHANGED <<m2sBuf, cRx, cRxBufs, spc, sTx, sTxBufs, sRx, sRxBufs>>
      /\ cpc = "recv" /\ cpc' = "callback"
  BY Zenon DEF PollRecv, server, m2s, cRecv
<1>2. UNCHANGED <<cFreed, Copied, Finished, Taken, Answers>>
  BY <1>1, Zenon DEF cFreed, sFreed, sAlloc, Copied, Finished, Taken, Answers
<1>3. Seen = cFreed /\ Seen' = cRx
  BY <1>1, Zenon DEF Seen
<1>4. CASE cRxBufs = <<>>
  <2>1. cLastSeq' = cLastSeq
    BY <1>4, Zenon DEF PollRecv
  <2>2. cFreed = cRx
    <3>1. Len(cRxBufs) = 0 /\ cFreed + Len(cRxBufs) = cRx /\ cFreed \in Nat
      BY <1>4, CountedHolds, Zenon DEF Counted
    <3> QED
      BY <3>1
  <2> QED
    BY <1>1, <1>2, <1>3, <2>1, <2>2, FrontiersKept, Zenon
<1>5. CASE cRxBufs # <<>>
  <2> DEFINE n == Len(cRxBufs)
  <2>1. n \in Nat /\ n > 0 /\ cRxBufs = Run(cFreed, n) /\ cFreed \in Int
    <3>1. cRxBufs \in Seq(Index) /\ cRxBufs = Run(cFreed, n) /\ cFreed \in Nat
      BY CountedHolds, Zenon DEF RingInv, TypeOK, BuffersAreRuns, Counted
    <3>2. n \in Nat /\ n > 0
      BY <1>5, <3>1
    <3> QED
      BY <3>1, <3>2
  <2>2. cLastSeq' = m2sBuf[Slot(cRxBufs[n])].seq
    BY <1>5, Zenon DEF PollRecv
  <2>3. cFreed + n = cRx /\ cRx \in Nat
    BY CountedHolds, Zenon DEF Counted
  <2> HIDE DEF n
  <2>4. Slot(Run(cFreed, n)[n]) = Slot(cFreed + n - 1)
    <3>1. n \in 1 .. n
      BY <2>1
    <3> QED
      BY <2>1, <3>1, RunType, Zenon
  <2>5. cFreed + n - 1 = cRx - 1
    BY <2>1, <2>3
  <2>6. cLastSeq' = Answers[Slot(cRx - 1)]
    <3>1. Slot(cRx - 1) \in Slots
      BY <2>3, SlotType
    <3> QED
      BY <2>1, <2>2, <2>4, <2>5, <3>1, Zenon DEF Answers
  <2>7. cRx - 1 \in cFreed .. (Copied - 1) /\ (cRx < Copied => cRx - 1 \in cFreed .. (Copied - 2))
        /\ (cRx - 1) + 1 = cRx
    <3>1. cRx <= sTx /\ sTx <= Copied /\ Copied \in Nat /\ sTx \in Nat
      BY Frontiers, Zenon
    <3> QED
      BY <2>1, <2>3, <3>1
  <2>8. cLastSeq' < Taken
    BY <2>6, <2>7, Zenon DEF AnswersOrdered, Ordered, AllDone
  <2>9. cRx < Copied => cLastSeq' < Answers[Slot(cRx)]
    <3>1. cRx - 1 \in cFreed .. (Copied - 2)
            => Answers[Slot(cRx - 1)] < Answers[Slot((cRx - 1) + 1)]
      BY Zenon DEF AnswersOrdered, Ordered, AllDone
    <3> QED
      BY <2>6, <2>7, <3>1, Zenon
  <2> QED
    BY <1>1, <1>2, <1>3, <2>8, <2>9, Zenon DEF AnswersOrdered, Ordered, AllDone
<1> QED
  BY <1>4, <1>5, Zenon

\* The client gives the oldest answers back.
LEMMA OrderOfPollRefill ==
  ASSUME RingInv, RingInv', AnswersOrdered, PollRefill
  PROVE  AnswersOrdered'
<1>1. /\ UNCHANGED <<m2sBuf, cLastSeq, cRx, spc, sTx, sTxBufs, sRx, sRxBufs>>
      /\ cpc = "callback" /\ cpc' \in {"idle", "rx"} /\ cRxBufs' = <<>>
  BY Zenon DEF PollRefill, server, m2s
<1>2. UNCHANGED <<Copied, Finished, Taken, Answers>>
  BY <1>1, Zenon DEF sFreed, sAlloc, Copied, Finished, Taken, Answers
<1>3. Seen = cRx /\ Seen' = cRx
  BY <1>1, Zenon DEF Seen
<1>4. cFreed' = cRx /\ cFreed \in Nat /\ cFreed <= cRx /\ cRx \in Nat
  <2>1. Len(cRxBufs') = 0 /\ cFreed' + Len(cRxBufs') = cRx' /\ cFreed' \in Nat
    BY <1>1, CountedNext, Zenon DEF Counted
  <2> QED
    BY <1>1, <2>1, Frontiers
<1>6. \A k \in cRx .. (Copied - 1) : k \in cFreed .. (Copied - 1)
  BY <1>4
<1>7. \A k \in cRx .. (Copied - 2) : k \in cFreed .. (Copied - 2)
  BY <1>4
<1>8. \A k \in cRx .. (Finished - 1) : k \in cFreed .. (Finished - 1)
  BY <1>4
<1> QED
  BY <1>1, <1>2, <1>3, <1>4, <1>6, <1>7, <1>8, Zenon DEF AnswersOrdered, Ordered, AllDone

\* The server copies requests that come after all it answered before.
LEMMA OrderOfServerCopy ==
  ASSUME RingInv, RingInv', AnswersOrdered, ServerCopy
  PROVE  AnswersOrdered'
<1> DEFINE vals == [i \in DOMAIN sTxBufs |-> Response(s2mBuf[Slot(sRxBufs[i])], FALSE)]
           n == Len(sTxBufs)
           A == Answers'
<1>1. /\ spc = "copy" /\ spc' = "refill" /\ m2sBuf' = Fill(m2sBuf, sTxBufs, vals)
      /\ UNCHANGED <<cpc, cRx, cRxBufs, cLastSeq, sTx, sRx, sTxBufs, sRxBufs>>
  BY Zenon DEF ServerCopy, client, cRecv
<1>2. sTxBufs \in Seq(Index) /\ n <= Len(sRxBufs) /\ sRxBufs = Run(sFreed, Len(sRxBufs))
  BY <1>1, Zenon DEF RingInv, TypeOK, ControlState, sAlloc, BuffersAreRuns
<1>3. DOMAIN sTxBufs = 1 .. n /\ DOMAIN vals = 1 .. n
  BY <1>2
<1>4. \A i \in 1 .. n : vals[i].seq = s2mBuf[Slot(sRxBufs[i])]
  BY <1>3, Zenon DEF Response
<1> HIDE DEF vals
<1>5. /\ \A k \in cFreed .. (sTx - 1) : A[Slot(k)] = Answers[Slot(k)]
      /\ \A i \in 1 .. n : A[Slot(sTx + i - 1)] = vals[i].seq
      /\ \A k \in cFreed .. (sTx - 1) : m2sBuf'[Slot(k)] = m2sBuf[Slot(k)]
  BY <1>1, <1>3, AnswersFilled, BuffersFilled, Zenon
<1>6. /\ n \in Nat /\ sTx \in Nat /\ sFreed \in Nat /\ sRx \in Nat /\ cTx \in Nat /\ cFreed \in Nat
      /\ sFreed + Len(sRxBufs) = sRx /\ sRx <= cTx /\ Len(sRxBufs) \in Nat
  BY CountedHolds, Zenon DEF Counted
<1>7. sFreed + n <= sRx
  BY <1>2, <1>6
<1>8. \A i \in 1 .. n : vals[i].seq = sFreed + i - 1
  <2> TAKE i \in 1 .. n
  <2>1. i \in 1 .. Len(sRxBufs)
    BY <1>2, <1>6
  <2>2. Slot(Run(sFreed, Len(sRxBufs))[i]) = Slot(sFreed + i - 1)
    <3>1. sFreed \in Int
      BY <1>6
    <3> QED
      BY <1>6, <2>1, <3>1, RunType, Zenon
  <2>3. s2mBuf[Slot(sFreed + i - 1)] = sFreed + i - 1
    <3>1. cAlloc \in Nat
      BY CountedHolds, Zenon DEF Counted, cAlloc
    <3>2. sFreed + i - 1 \in sFreed .. (IF cpc = "tx" THEN cTx + cAlloc - 1 ELSE cTx - 1)
      BY <1>6, <1>7, <3>1
    <3> QED
      BY <3>2, Zenon DEF RingInv, RequestsInPlace
  <2> QED
    BY <1>2, <1>4, <2>2, <2>3, Zenon
<1> HIDE DEF n, A
<1>9. \A k \in sTx .. ((sTx + n) - 1) : A[Slot(k)] = sFreed + (k - sTx)
  <2> TAKE k \in sTx .. ((sTx + n) - 1)
  <2> DEFINE i == k - sTx + 1
  <2>1. i \in 1 .. n /\ sTx + i - 1 = k /\ sFreed + i - 1 = sFreed + (k - sTx)
    BY <1>6
  <2> HIDE DEF i
  <2> QED
    BY <1>5, <1>8, <2>1, Zenon
<1>10. /\ Copied = sTx /\ Finished = sTx /\ Taken = sFreed
       /\ Copied' = sTx + n /\ Finished' = sTx /\ Taken' = sRx
  <2>1. Copied = sTx + 0 /\ Finished = sTx + 0 /\ Taken = sFreed
    BY <1>1, Zenon DEF Copied, Finished, Taken
  <2>2. Copied' = sTx' + sAlloc' /\ Finished' = sTx' + 0 /\ Taken' = sRx'
    BY <1>1, Zenon DEF Copied, Finished, Taken
  <2>3. sAlloc' = n
    BY <1>1, Zenon DEF sAlloc, n
  <2>4. sTx + 0 = sTx
    BY <1>6
  <2> QED
    BY <1>1, <2>1, <2>2, <2>3, <2>4, Zenon
<1>11. cFreed' = cFreed /\ Seen' = Seen
  BY <1>1, Zenon DEF cFreed, Seen
<1>12. /\ \A k \in cFreed .. (sTx - 1) : Answers[Slot(k)] < sFreed
       /\ \A k \in cFreed .. (sTx - 2) : Answers[Slot(k)] < Answers[Slot(k + 1)]
       /\ cLastSeq < sFreed
       /\ Seen < sTx => cLastSeq < Answers[Slot(Seen)]
       /\ \A k \in cFreed .. (sTx - 1) : m2sBuf[Slot(k)].done
  <2>1. Ordered(Answers, cFreed, sTx, sFreed, Seen, cLastSeq) /\ AllDone(m2sBuf, cFreed, sTx)
    BY <1>10, Zenon DEF AnswersOrdered
  <2> QED
    BY <2>1, Zenon DEF Ordered, AllDone
<1>13. /\ cLastSeq \in Int /\ Seen \in Nat /\ cFreed <= Seen /\ Seen <= sTx
       /\ \A k \in Int : Answers[Slot(k)] \in Int
  <2>1. Seen <= cRx /\ cRx <= sTx /\ cRx \in Nat /\ Seen \in Nat
    BY Frontiers, Zenon
  <2> QED
    BY <1>6, <2>1, Frontiers
<1>14. \A k \in cFreed .. ((sTx + n) - 1) : A[Slot(k)] < sRx
  <2> TAKE k \in cFreed .. ((sTx + n) - 1)
  <2>1. CASE k < sTx
    <3>1. k \in cFreed .. (sTx - 1)
      BY <1>6, <2>1
    <3>2. A[Slot(k)] = Answers[Slot(k)] /\ Answers[Slot(k)] < sFreed /\ Answers[Slot(k)] \in Int
      BY <1>5, <1>12, <1>13, <3>1
    <3> QED
      BY <1>6, <1>7, <3>2
  <2>2. CASE ~ (k < sTx)
    <3>1. k \in sTx .. ((sTx + n) - 1)
      BY <1>6, <2>2
    <3>2. A[Slot(k)] = sFreed + (k - sTx)
      BY <1>9, <3>1, Zenon
    <3> QED
      BY <1>6, <1>7, <3>1, <3>2
  <2> QED
    BY <2>1, <2>2, Zenon
<1>15. \A k \in cFreed .. ((sTx + n) - 2) : A[Slot(k)] < A[Slot(k + 1)]
  <2> TAKE k \in cFreed .. ((sTx + n) - 2)
  <2>1. CASE k < sTx - 1
    <3>1. k \in cFreed .. (sTx - 1) /\ k + 1 \in cFreed .. (sTx - 1) /\ k \in cFreed .. (sTx - 2)
      BY <1>6, <2>1
    <3> QED
      BY <1>5, <1>12, <3>1, Zenon
  <2>2. CASE k = sTx - 1
    <3>1. k \in cFreed .. (sTx - 1) /\ k + 1 \in sTx .. ((sTx + n) - 1) /\ (k + 1) - sTx = 0
      BY <1>6, <2>2
    <3>2. A[Slot(k + 1)] = sFreed + ((k + 1) - sTx) /\ sFreed + 0 = sFreed
      BY <1>6, <1>9, <3>1
    <3> QED
      BY <1>5, <1>12, <3>1, <3>2, Zenon
  <2>3. CASE k > sTx - 1
    <3>1. k \in sTx .. ((sTx + n) - 1) /\ k + 1 \in sTx .. ((sTx + n) - 1)
      BY <1>6, <2>3
    <3>2. A[Slot(k)] = sFreed + (k - sTx) /\ A[Slot(k + 1)] = sFreed + ((k + 1) - sTx)
      BY <1>9, <3>1, Zenon
    <3>3. sFreed + (k - sTx) < sFreed + ((k + 1) - sTx)
      BY <1>6, <3>1
    <3> QED
      BY <3>2, <3>3, Zenon
  <2> QED
    BY <1>6, <2>1, <2>2, <2>3
<1>16. cLastSeq < sRx
  BY <1>6, <1>7, <1>12, <1>13
<1>17. Seen < sTx + n => cLastSeq < A[Slot(Seen)]
  <2> SUFFICES ASSUME Seen < sTx + n PROVE cLastSeq < A[Slot(Seen)]
    BY Zenon
  <2>1. CASE Seen < sTx
    <3>1. Seen \in cFreed .. (sTx - 1)
      BY <1>6, <1>13, <2>1
    <3> QED
      BY <1>5, <1>12, <2>1, <3>1, Zenon
  <2>2. CASE Seen = sTx
    <3>1. sTx \in sTx .. ((sTx + n) - 1) /\ sFreed + (sTx - sTx) = sFreed
      BY <1>6, <2>2
    <3>2. A[Slot(sTx)] = sFreed + (sTx - sTx)
      BY <1>9, <3>1, Zenon
    <3> QED
      BY <1>12, <2>2, <3>1, <3>2, Zenon
  <2> QED
    BY <1>6, <1>13, <2>1, <2>2
<1>18. \A k \in cFreed .. (sTx - 1) : m2sBuf'[Slot(k)].done
  BY <1>5, <1>12, Zenon
<1>19. Ordered(A, cFreed, sTx + n, sRx, Seen, cLastSeq) /\ AllDone(m2sBuf', cFreed, sTx)
  <2>1. Ordered(A, cFreed, sTx + n, sRx, Seen, cLastSeq)
    BY <1>14, <1>15, <1>16, <1>17, Zenon DEF Ordered
  <2>2. AllDone(m2sBuf', cFreed, sTx)
    BY <1>18, Zenon DEF AllDone
  <2> QED
    BY <2>1, <2>2, Zenon
<1> QED
  BY <1>1, <1>10, <1>11, <1>19, Zenon DEF AnswersOrdered, A

\* The server runs the jobs it copied, in place.
LEMMA OrderOfServerRecv ==
  ASSUME RingInv, RingInv', AnswersOrdered, ServerRecv
  PROVE  AnswersOrdered'
<1> DEFINE vals == [i \in DOMAIN sTxBufs |-> Response(m2sBuf[Slot(sTxBufs[i])].seq, TRUE)]
           n == Len(sTxBufs)
           A == Answers'
<1>1. /\ spc = "recv" /\ spc' = "tx" /\ m2sBuf' = Fill(m2sBuf, sTxBufs, vals)
      /\ UNCHANGED <<cpc, cRx, cRxBufs, cLastSeq, sTx, sRx, sTxBufs, sRxBufs>>
  BY Zenon DEF ServerRecv, client, cRecv
<1>2. sTxBufs \in Seq(Index) /\ sTxBufs = Run(sTx, n)
  BY Zenon DEF RingInv, TypeOK, BuffersAreRuns
<1>3. DOMAIN sTxBufs = 1 .. n /\ DOMAIN vals = 1 .. n
  BY <1>2
<1>4. \A i \in 1 .. n : vals[i].seq = m2sBuf[Slot(sTxBufs[i])].seq /\ vals[i].done
  BY <1>3, Zenon DEF Response
<1> HIDE DEF vals
<1>5. /\ \A k \in cFreed .. (sTx - 1) : A[Slot(k)] = Answers[Slot(k)]
      /\ \A i \in 1 .. n : A[Slot(sTx + i - 1)] = vals[i].seq
      /\ \A k \in cFreed .. (sTx - 1) : m2sBuf'[Slot(k)] = m2sBuf[Slot(k)]
      /\ \A i \in 1 .. n : m2sBuf'[Slot(sTx + i - 1)] = vals[i]
  BY <1>1, <1>3, AnswersFilled, BuffersFilled, Zenon
<1>6. /\ n \in Nat /\ sTx \in Nat /\ cFreed \in Nat /\ cFreed <= sTx
      /\ Seen \in Nat /\ cFreed <= Seen
  <2>1. cFreed <= cRx /\ cRx <= sTx /\ cRx \in Nat /\ sTx \in Nat /\ cFreed \in Nat /\ n \in Nat
    BY CountedHolds, Frontiers, Zenon DEF Counted
  <2> QED
    BY <2>1, Frontiers
<1> HIDE DEF n, A
<1>7. \A i \in 1 .. n : vals[i].seq = Answers[Slot(sTx + i - 1)]
  <2> TAKE i \in 1 .. n
  <2>1. sTx \in Int /\ sTx + i - 1 \in Int
    BY <1>6
  <2>2. Slot(Run(sTx, n)[i]) = Slot(sTx + i - 1) /\ Slot(sTx + i - 1) \in Slots
    BY <1>6, <2>1, RunType, SlotType, Zenon
  <2> QED
    BY <1>2, <1>4, <2>2, Zenon DEF Answers
<1>8. \A k \in sTx .. ((sTx + n) - 1) : A[Slot(k)] = Answers[Slot(k)] /\ m2sBuf'[Slot(k)].done
  <2> TAKE k \in sTx .. ((sTx + n) - 1)
  <2> DEFINE i == k - sTx + 1
  <2>1. i \in 1 .. n /\ sTx + i - 1 = k
    BY <1>6
  <2> HIDE DEF i
  <2> QED
    BY <1>4, <1>5, <1>7, <2>1, Zenon
<1>9. \A k \in cFreed .. ((sTx + n) - 1) : k \in cFreed .. (sTx - 1) \/ k \in sTx .. ((sTx + n) - 1)
  BY <1>6
<1>10. \A k \in cFreed .. ((sTx + n) - 1) : A[Slot(k)] = Answers[Slot(k)]
  BY <1>5, <1>8, <1>9, Zenon
<1>11. /\ Copied = sTx + n /\ Finished = sTx /\ Taken = sRx
       /\ Copied' = sTx + n /\ Finished' = sTx + n /\ Taken' = sRx
  <2>1. Copied = sTx + sAlloc /\ Finished = sTx + 0 /\ Taken = sRx
    BY <1>1, Zenon DEF Copied, Finished, Taken
  <2>2. Copied' = sTx' + sAlloc' /\ Finished' = sTx' + sAlloc' /\ Taken' = sRx'
    BY <1>1, Zenon DEF Copied, Finished, Taken
  <2>3. sAlloc = n /\ sAlloc' = n
    BY <1>1, Zenon DEF sAlloc, n
  <2>4. sTx + 0 = sTx
    BY <1>6
  <2> QED
    BY <1>1, <2>1, <2>2, <2>3, <2>4, Zenon
<1>12. cFreed' = cFreed /\ Seen' = Seen
  BY <1>1, Zenon DEF cFreed, Seen
<1>13. /\ Ordered(Answers, cFreed, sTx + n, sRx, Seen, cLastSeq)
       /\ AllDone(m2sBuf, cFreed, sTx)
  BY <1>11, Zenon DEF AnswersOrdered
<1>14. AllDone(m2sBuf', cFreed, sTx + n)
  <2>1. \A k \in cFreed .. (sTx - 1) : m2sBuf[Slot(k)].done
    BY <1>13, Zenon DEF AllDone
  <2>2. \A k \in cFreed .. ((sTx + n) - 1) : m2sBuf'[Slot(k)].done
    BY <1>5, <1>8, <1>9, <2>1, Zenon
  <2> QED
    BY <2>2, Zenon DEF AllDone
<1>15. \A k \in cFreed .. ((sTx + n) - 2) : /\ k \in cFreed .. ((sTx + n) - 1)
                                         /\ k + 1 \in cFreed .. ((sTx + n) - 1)
  BY <1>6
<1>16. Seen < sTx + n => Seen \in cFreed .. ((sTx + n) - 1)
  BY <1>6
<1>17. Ordered(A, cFreed, sTx + n, sRx, Seen, cLastSeq)
  <2>1. /\ \A k \in cFreed .. ((sTx + n) - 1) : Answers[Slot(k)] < sRx
        /\ \A k \in cFreed .. ((sTx + n) - 2) : Answers[Slot(k)] < Answers[Slot(k + 1)]
        /\ cLastSeq < sRx
        /\ Seen < sTx + n => cLastSeq < Answers[Slot(Seen)]
    BY <1>13, Zenon DEF Ordered
  <2>2. \A k \in cFreed .. ((sTx + n) - 1) : A[Slot(k)] < sRx
    BY <1>10, <2>1, Zenon
  <2>3. \A k \in cFreed .. ((sTx + n) - 2) : A[Slot(k)] < A[Slot(k + 1)]
    BY <1>10, <1>15, <2>1, Zenon
  <2>4. Seen < sTx + n => cLastSeq < A[Slot(Seen)]
    BY <1>10, <1>16, <2>1, Zenon
  <2> QED
    BY <2>1, <2>2, <2>3, <2>4 DEF Ordered
<1> QED
  BY <1>1, <1>11, <1>12, <1>14, <1>17, Zenon DEF AnswersOrdered, A

\* There is no answer yet.
LEMMA AnswersOrderedInit == Init => AnswersOrdered
<1> SUFFICES ASSUME Init PROVE AnswersOrdered
  BY Zenon
<1>1. /\ cpc = "idle" /\ cRx = 0 /\ cRxBufs = <<>> /\ cLastSeq = NoJob
      /\ spc = "rx" /\ sTx = 0 /\ sRx = 0
  BY Zenon DEF Init
<1>2. cFreed = 0 /\ Copied = 0 /\ Finished = 0 /\ Taken = 0 /\ Seen = 0
  <2>1. Len(cRxBufs) = 0
    BY <1>1, Zenon
  <2>2. cFreed = 0
    <3>1. cFreed = 0 - 0
      BY <1>1, <2>1, Zenon DEF cFreed
    <3> QED
      BY <3>1
  <2> QED
    BY <1>1, <2>2 DEF Copied, Finished, Taken, Seen
<1> QED
  BY <1>1, <1>2 DEF AnswersOrdered, Ordered, AllDone, NoJob

\* Every step keeps the answers in order.
LEMMA AnswersOrderedStep ==
  ASSUME RingInv, RingInv', AnswersOrdered, [Next]_vars
  PROVE  AnswersOrdered'
<1>1. CASE \/ \E n \in SendSizes : SendCall(n)
           \/ \E n \in PollSizes : PollCall(n)
           \/ SendRetry \/ SendAlloc \/ SendSerialize \/ SendTx
  BY <1>1, OrderOfSending, Zenon
<1>2. CASE PollRx
  BY <1>2, OrderOfPollRx, Zenon
<1>3. CASE PollRecv
  BY <1>3, OrderOfPollRecv, Zenon
<1>4. CASE PollRefill
  BY <1>4, OrderOfPollRefill, Zenon
<1>5. CASE ServerRx \/ ServerAlloc \/ ServerRefill \/ ServerTx
  BY <1>5, OrderOfServerIndices, Zenon
<1>6. CASE ServerCopy
  BY <1>6, OrderOfServerCopy, Zenon
<1>7. CASE ServerRecv
  BY <1>7, OrderOfServerRecv, Zenon
<1>8. CASE UNCHANGED vars
  <2>1. UNCHANGED <<m2sBuf, cLastSeq, cRx, cRxBufs, cpc, spc, sTx, sTxBufs, sRx, sRxBufs>>
    BY <1>8, Zenon DEF vars, m2s, client, cRecv, server
  <2>2. UNCHANGED <<cFreed, Copied, Finished, Taken, Seen>>
    BY <2>1, Zenon DEF cFreed, sFreed, sAlloc, Copied, Finished, Taken, Seen
  <2> QED
    BY <2>1, <2>2, FrontiersKept, Zenon
<1> QED
  BY <1>1, <1>2, <1>3, <1>4, <1>5, <1>6, <1>7, <1>8, Zenon DEF Next, ClientStep, ServerStep

\* A client about to decode what it received finds it processed, and in the
\* order the jobs were sent.
LEMMA DecodesInOrder ==
  ASSUME RingInv, AnswersOrdered, cpc = "recv", NEW i \in DOMAIN cRxBufs
  PROVE  /\ m2sBuf[Slot(cRxBufs[i])].done
         /\ m2sBuf[Slot(cRxBufs[i])].seq > IF i = 1 THEN cLastSeq
                                           ELSE m2sBuf[Slot(cRxBufs[i - 1])].seq
<1> DEFINE n == Len(cRxBufs)
<1>1. n \in Nat /\ cRxBufs = Run(cFreed, n) /\ cFreed \in Nat /\ cFreed + n = cRx
  BY CountedHolds, Zenon DEF Counted, RingInv, BuffersAreRuns
<1>2. /\ cRx <= sTx /\ sTx <= Copied /\ Copied \in Nat /\ sTx \in Nat /\ cLastSeq \in Int
      /\ \A k \in Int : Slot(k) \in Slots /\ Answers[Slot(k)] \in Int
  BY Frontiers, Zenon
<1>3. /\ Ordered(Answers, cFreed, Copied, Taken, cFreed, cLastSeq)
      /\ \A k \in cFreed .. (Finished - 1) : m2sBuf[Slot(k)].done
  BY Zenon DEF AnswersOrdered, AllDone, Seen
<1>4. sTx <= Finished /\ Finished \in Nat
  <2>1. sAlloc \in Nat
    BY Frontiers, Zenon
  <2> QED
    BY <1>2, <2>1 DEF Finished
<1> HIDE DEF n
<1>5. /\ DOMAIN Run(cFreed, n) = 1 .. n
      /\ \A j \in 1 .. n : Slot(Run(cFreed, n)[j]) = Slot(cFreed + j - 1)
  <2>1. cFreed \in Int
    BY <1>1
  <2> QED
    BY <1>1, <2>1, RunType, Zenon
<1>6. i \in 1 .. n /\ \A j \in 1 .. n : Slot(cRxBufs[j]) = Slot(cFreed + j - 1)
  BY <1>1, <1>5, Zenon
<1>7. \A j \in 1 .. n : m2sBuf[Slot(cRxBufs[j])].seq = Answers[Slot(cFreed + j - 1)]
  <2>1. \A j \in 1 .. n : cFreed + j - 1 \in Int
    BY <1>1
  <2> QED
    BY <1>2, <1>6, <2>1, Zenon DEF Answers
<1>8. m2sBuf[Slot(cRxBufs[i])].done
  <2>1. cFreed + i - 1 \in cFreed .. (Finished - 1)
    BY <1>1, <1>2, <1>4, <1>6
  <2> QED
    BY <1>3, <1>6, <2>1, Zenon
<1>9. CASE i = 1
  <2>1. cFreed < Copied /\ cFreed + i - 1 = cFreed
    BY <1>1, <1>2, <1>6, <1>9
  <2>2. cLastSeq < Answers[Slot(cFreed)]
    BY <1>3, <2>1, Zenon DEF Ordered
  <2>3. m2sBuf[Slot(cRxBufs[i])].seq = Answers[Slot(cFreed)] /\ Answers[Slot(cFreed)] \in Int
    BY <1>1, <1>2, <1>6, <1>7, <2>1
  <2> QED
    BY <1>2, <1>8, <1>9, <2>2, <2>3, Zenon
<1>10. CASE i # 1
  <2> DEFINE k == cFreed + i - 2
  <2>1. /\ k \in cFreed .. (Copied - 2) /\ k + 1 = cFreed + i - 1 /\ k = cFreed + (i - 1) - 1
        /\ i - 1 \in 1 .. n /\ k \in Int /\ k + 1 \in Int
    BY <1>1, <1>2, <1>6, <1>10
  <2> HIDE DEF k
  <2>2. Answers[Slot(k)] < Answers[Slot(k + 1)]
    BY <1>3, <2>1, Zenon DEF Ordered
  <2>3. /\ m2sBuf[Slot(cRxBufs[i])].seq = Answers[Slot(k + 1)]
        /\ m2sBuf[Slot(cRxBufs[i - 1])].seq = Answers[Slot(k)]
    BY <1>6, <1>7, <2>1, Zenon
  <2>4. Answers[Slot(k)] \in Int /\ Answers[Slot(k + 1)] \in Int
    BY <1>2, <2>1, Zenon
  <2> QED
    BY <1>8, <1>10, <2>2, <2>3, <2>4, Zenon
<1> QED
  BY <1>9, <1>10, Zenon

\* Answers stay in the order of their jobs, from the server's copy until the
\* client gives them back.
THEOREM AnswersStayOrdered == Spec => []AnswersOrdered
<1>1. RingInv /\ RingInv' /\ AnswersOrdered /\ [Next]_vars => AnswersOrdered'
  BY AnswersOrderedStep, Zenon
<1> QED
  BY <1>1, AnswersOrderedInit, RingInvariant, PTL DEF Spec

\* What the client decodes was processed by the server, and each job it is
\* handed was sent after the one before.
THEOREM JobsArriveProcessedInOrder == Spec => ProcessedInOrder
<1> DEFINE Handed == cpc = "recv" /\ cpc' = "callback" =>
                       \A i \in DOMAIN cRxBufs :
                         LET r == m2sBuf[Slot(cRxBufs[i])]
                         IN  /\ r.done
                             /\ r.seq > IF i = 1 THEN cLastSeq
                                        ELSE m2sBuf[Slot(cRxBufs[i - 1])].seq
<1>1. RingInv /\ AnswersOrdered => Handed
  BY DecodesInOrder, Zenon
<1>2. RingInv /\ AnswersOrdered /\ [Next]_vars => [Handed]_vars
  BY <1>1, Zenon
<1> QED
  BY <1>2, RingInvariant, AnswersStayOrdered, PTL DEF Spec, ProcessedInOrder

=============================================================================
