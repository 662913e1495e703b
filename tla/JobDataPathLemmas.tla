------------------------- MODULE JobDataPathLemmas --------------------------
(***************************************************************************)
(* What the proofs about the two sides of JobDataPath share.  When indices *)
(* are unbounded counters reduced to 16 bits and at most RingSize buffers  *)
(* are in use, the wrapped sums and differences of MemifRing are the true  *)
(* ones; writing a buffer array writes a run of slots; the type invariant  *)
(* is taken apart.  Then each step of the client, in send and in poll, is  *)
(* shown to keep the inductive invariant.                                  *)
(***************************************************************************)
EXTENDS JobDataPath, TLAPS

(***************************************************************************)
(* Facts about division with remainder.                                    *)
(***************************************************************************)

\* A remainder is determined by the quotient and remainder of its number.
LEMMA RemainderUnique ==
  ASSUME NEW m \in Nat \ {0}, NEW x \in Int, NEW q \in Int, NEW r \in Int,
         0 <= r, r < m, x = q * m + r
  PROVE  x % m = r
  OBVIOUS

\* Every number has a quotient and a remainder.
LEMMA DivisionExists ==
  ASSUME NEW m \in Nat \ {0}, NEW x \in Int
  PROVE  \E q \in Int : \E r \in 0 .. (m - 1) : x = q * m + r /\ x % m = r
  <1>1. /\ x \div m \in Int
        /\ x % m \in 0 .. (m - 1)
        /\ x = (x \div m) * m + (x % m)
    OBVIOUS
  <1> QED BY <1>1, Zenon

\* Adding a multiple does not change a remainder.
LEMMA ShiftByMultiple ==
  ASSUME NEW m \in Nat \ {0}, NEW x \in Int, NEW y \in Int, NEW k \in Int,
         y = x + k * m
  PROVE  y % m = x % m
  <1>1. PICK q \in Int, r \in 0 .. (m - 1) : x = q * m + r /\ x % m = r
    BY DivisionExists, Zenon
  <1>2. y = (q + k) * m + r
    BY <1>1
  <1> DEFINE p == q + k
  <1>3. p \in Int /\ y = p * m + r /\ r \in Int /\ 0 <= r /\ r < m
    BY <1>2
  <1> HIDE DEF p
  <1>4. y % m = r
    BY <1>3, RemainderUnique, Zenon
  <1> QED BY <1>1, <1>4, Zenon

\* Operands of a difference may be reduced before the result is.
LEMMA ReduceDifference ==
  ASSUME NEW m \in Nat \ {0}, NEW a \in Int, NEW b \in Int, NEW c \in Int
  PROVE  ((b % m) - (a % m) + c) % m = (b - a + c) % m
  <1>1. PICK q \in Int, r \in 0 .. (m - 1) : a = q * m + r /\ a % m = r
    BY DivisionExists, Zenon
  <1>2. PICK p \in Int, s \in 0 .. (m - 1) : b = p * m + s /\ b % m = s
    BY DivisionExists, Zenon
  <1> DEFINE y == b - a + c
             x == s - r + c
             k == p - q
  <1>3. y \in Int /\ x \in Int /\ k \in Int /\ y = x + k * m
    BY <1>1, <1>2
  <1> HIDE DEF y, x, k
  <1>4. y % m = x % m
    BY <1>3, ShiftByMultiple, Zenon
  <1> QED BY <1>1, <1>2, <1>4, Zenon DEF x, y

\* The same for one operand of a sum.
LEMMA ReduceSum ==
  ASSUME NEW m \in Nat \ {0}, NEW b \in Int, NEW c \in Int
  PROVE  ((b % m) + c) % m = (b + c) % m
  <1>1. PICK p \in Int, s \in 0 .. (m - 1) : b = p * m + s /\ b % m = s
    BY DivisionExists, Zenon
  <1> DEFINE y == b + c
             x == s + c
  <1>2. y \in Int /\ x \in Int /\ y = x + p * m
    BY <1>1
  <1> HIDE DEF y, x
  <1>3. y % m = x % m
    BY <1>2, ShiftByMultiple, Zenon
  <1> QED BY <1>1, <1>3, Zenon DEF x, y

\* Numbers closer than the modulus have different remainders.
LEMMA CloseRemainders ==
  ASSUME NEW m \in Nat \ {0}, NEW a \in Int, NEW b \in Int,
         a <= b, b < a + m, a % m = b % m
  PROVE  a = b
  <1>1. PICK q \in Int, r \in 0 .. (m - 1) : a = q * m + r /\ a % m = r
    BY DivisionExists, Zenon
  <1>2. PICK p \in Int, s \in 0 .. (m - 1) : b = p * m + s /\ b % m = s
    BY DivisionExists, Zenon
  <1> DEFINE d == b - a
             k == p - q
  <1>3. d = k * m + 0 /\ k \in Int /\ d \in Int /\ 0 <= d /\ d < m
    BY <1>1, <1>2
  <1> HIDE DEF d, k
  <1>4. d % m = 0 /\ d % m = d
    BY <1>3
  <1> QED BY <1>4 DEF d

-----------------------------------------------------------------------------
(***************************************************************************)
(* Indices and slots.                                                      *)
(***************************************************************************)

\* The constants as the provers need them.
LEMMA RingConstants ==
  /\ RingSize \in Nat \ {0} /\ IndexSpace \in Nat \ {0}
  /\ RingSize < IndexSpace
  BY RingAssumption

\* An assignment to a uint16_t yields an index, and is exact in its range.
LEMMA U16Type ==
  ASSUME NEW x \in Int
  PROVE  /\ U16(x) \in Index
         /\ x \in Index => U16(x) = x
  BY RingConstants DEF U16, Index

\* Masking yields a descriptor of the ring.
LEMMA SlotType ==
  ASSUME NEW x \in Int
  PROVE  Slot(x) \in Slots
  BY RingConstants DEF Slot, Slots

\* A wrapped index denotes the same descriptor as the counter behind it.
LEMMA SlotOfU16 ==
  ASSUME NEW x \in Int
  PROVE  Slot(U16(x)) = Slot(x)
  <1>0. IndexSpace \in Int /\ IndexSpace \in Nat \ {0} /\ RingSize \in Nat \ {0}
    BY RingConstants
  <1>1. PICK q \in Int, r \in 0 .. (IndexSpace - 1) :
          x = q * IndexSpace + r /\ x % IndexSpace = r
    BY <1>0, DivisionExists, Zenon
  <1>2. PICK k \in Int, z \in 0 .. (RingSize - 1) :
          IndexSpace = k * RingSize + z /\ IndexSpace % RingSize = z
    BY <1>0, DivisionExists, Zenon
  <1> DEFINE j == q * k
  <1>3. /\ j \in Int /\ x = r + j * RingSize
        /\ r \in Int /\ RingSize \in Nat \ {0}
    BY <1>1, <1>2, RingAssumption
  <1> HIDE DEF j
  <1>4. x % RingSize = r % RingSize
    BY <1>3, ShiftByMultiple, Zenon
  <1> QED BY <1>1, <1>4, Zenon DEF Slot, U16

\* Fewer than RingSize apart, two counters denote different descriptors.
LEMMA SlotsDistinct ==
  ASSUME NEW a \in Int, NEW b \in Int, a < b, b < a + RingSize
  PROVE  Slot(a) # Slot(b)
  <1>1. RingSize \in Nat \ {0} /\ a <= b /\ a # b
    BY RingConstants
  <1>2. a % RingSize # b % RingSize
    BY <1>1, CloseRemainders, Zenon
  <1> QED BY <1>2, Zenon DEF Slot

\* A full ring further, the descriptor is the same.
LEMMA SlotOneRound ==
  ASSUME NEW a \in Int
  PROVE  Slot(a + RingSize) = Slot(a)
  <1> DEFINE y == a + RingSize
  <1>1. y \in Int /\ y = a + 1 * RingSize /\ 1 \in Int /\ RingSize \in Nat \ {0}
    BY RingConstants
  <1> HIDE DEF y
  <1>2. y % RingSize = a % RingSize
    BY <1>1, ShiftByMultiple, Zenon
  <1> QED BY <1>2, Zenon DEF y, Slot

-----------------------------------------------------------------------------
(***************************************************************************)
(* The library's operations on reduced counters.                           *)
(***************************************************************************)

\* A difference of reduced counters is the true one if that is an index.
LEMMA U16Difference ==
  ASSUME NEW a \in Int, NEW b \in Int, NEW c \in Int, b - a + c \in Index
  PROVE  U16(U16(b) - U16(a) + c) = b - a + c
  <1>1. ((b % IndexSpace) - (a % IndexSpace) + c) % IndexSpace
          = (b - a + c) % IndexSpace
    BY ReduceDifference, RingConstants, Zenon
  <1>2. (b - a + c) % IndexSpace = b - a + c
    BY RingConstants DEF Index
  <1> QED BY <1>1, <1>2, Zenon DEF U16

\* A reduced operand of a sum makes no difference.
LEMMA U16Sum ==
  ASSUME NEW a \in Int, NEW c \in Int
  PROVE  U16(U16(a) + c) = U16(a + c)
  BY ReduceSum, RingConstants, Zenon DEF U16

\* memif_buffer_alloc of the slave sees the number of free buffers.
LEMMA SlaveFreeExact ==
  ASSUME NEW head \in Int, NEW tail \in Int, NEW alloc \in Int,
         tail <= head + alloc, head + alloc <= tail + RingSize
  PROVE  SlaveFree(U16(head), U16(tail), alloc)
           = tail + RingSize - (head + alloc)
  <1> DEFINE c == RingSize - alloc
  <1>1. c \in Int /\ tail - head + c \in Index
    BY RingConstants DEF Index
  <1>2. /\ U16(head) \in Int /\ U16(tail) \in Int
        /\ RingSize - (U16(head) + alloc) + U16(tail) = U16(tail) - U16(head) + c
    BY U16Type, RingConstants DEF Index
  <1>3. U16(U16(tail) - U16(head) + c) = tail - head + c
    BY <1>1, U16Difference, Zenon
  <1> QED BY <1>2, <1>3, RingConstants DEF SlaveFree

\* memif_buffer_alloc of the master sees the number of free buffers.
LEMMA MasterFreeExact ==
  ASSUME NEW head \in Int, NEW tail \in Int, NEW alloc \in Int,
         tail + alloc <= head, head <= tail + alloc + RingSize
  PROVE  MasterFree(U16(head), U16(tail), alloc) = head - (tail + alloc)
  <1> DEFINE c == 0 - alloc
  <1>1. c \in Int /\ head - tail + c \in Index
    BY RingConstants DEF Index
  <1>2. /\ U16(head) \in Int /\ U16(tail) \in Int
        /\ U16(head) - (U16(tail) + alloc) = U16(head) - U16(tail) + c
    BY U16Type, RingConstants DEF Index
  <1>3. U16(U16(head) - U16(tail) + c) = head - tail + c
    BY <1>1, U16Difference, Zenon
  <1> QED BY <1>2, <1>3 DEF MasterFree

\* memif_rx_burst sees the number of buffers published and not yet read.
LEMMA RxAvailableExact ==
  ASSUME NEW read \in Int, NEW published \in Int,
         read <= published, published <= read + RingSize
  PROVE  RxAvailable(U16(read), U16(published)) = published - read
  <1>1. published - read + 0 \in Index
    BY RingConstants DEF Index
  <1>2. /\ U16(read) \in Int /\ U16(published) \in Int
        /\ U16(published) - U16(read) = U16(published) - U16(read) + 0
    BY U16Type, RingConstants DEF Index
  <1>3. U16(U16(published) - U16(read) + 0) = published - read + 0
    BY <1>1, U16Difference
  <1> QED BY <1>2, <1>3 DEF RxAvailable

\* A buffer array starting at a reduced counter.
LEMMA RunOfU16 ==
  ASSUME NEW a \in Int, NEW c \in Int, NEW n \in Nat
  PROVE  Run(U16(a) + c, n) = Run(a + c, n)
  <1>1. ASSUME NEW i \in 1 .. n
        PROVE  U16(U16(a) + c + i - 1) = U16(a + c + i - 1)
    <2>1. U16(a) \in Int
      BY U16Type, RingConstants DEF Index
    <2> DEFINE d == c + i - 1
    <2>2. /\ d \in Int /\ U16(a) + c + i - 1 = U16(a) + d
          /\ a + c + i - 1 = a + d
      BY <2>1
    <2>3. U16(U16(a) + d) = U16(a + d)
      BY <2>2, U16Sum, Zenon
    <2> QED BY <2>2, <2>3, Zenon
  <1> QED BY <1>1, Zenon DEF Run

\* The entries of a buffer array and their type.
LEMMA RunType ==
  ASSUME NEW a \in Int, NEW n \in Nat
  PROVE  /\ Run(a, n) \in Seq(Index)
         /\ Len(Run(a, n)) = n
         /\ DOMAIN Run(a, n) = 1 .. n
         /\ \A i \in 1 .. n : Run(a, n)[i] = U16(a + i - 1)
         /\ \A i \in 1 .. n : Slot(Run(a, n)[i]) = Slot(a + i - 1)
         /\ Run(a, 0) = <<>>
  <1>1. \A i \in 1 .. n : U16(a + i - 1) \in Index
    BY U16Type
  <1>2. \A i \in 1 .. n : Slot(U16(a + i - 1)) = Slot(a + i - 1)
    BY SlotOfU16
  <1> QED BY <1>1, <1>2 DEF Run

\* memif_tx_burst of a whole buffer array publishes all of it.
LEMMA TxIndexExact ==
  ASSUME NEW a \in Int, NEW n \in Nat
  PROVE  /\ TxCount(n, n) = n
         /\ TxIndex(U16(a), Run(a, n), n) = U16(a + n)
  <1>1. CASE n = 0
    BY <1>1, RingConstants DEF TxCount, TxIndex, Least
  <1>2. CASE n # 0
    <2>1. Run(a, n)[n] = U16(a + n - 1)
      BY <1>2, RunType
    <2> DEFINE b == a + n - 1
    <2>2. b \in Int /\ U16(U16(b) + 1) = U16(b + 1) /\ b + 1 = a + n
      BY U16Sum
    <2> QED BY <1>2, <2>1, <2>2, Zenon DEF TxCount, TxIndex, Least
  <1> QED BY <1>1, <1>2, Zenon

\* memif_refill_queue of the master gives back all that was read.
LEMMA MasterRefillExact ==
  ASSUME NEW tail \in Int, NEW last_head \in Int,
         tail <= last_head, last_head <= tail + RingSize
  PROVE  MasterRefill(U16(tail), U16(last_head), last_head - tail)
           = U16(last_head)
  <1> DEFINE n == last_head - tail
             t == U16(tail)
             l == U16(last_head)
  <1>1. n \in Nat /\ t \in Index /\ l \in Index
    BY U16Type
  <1>2. U16(t + n) = l
    <2>1. U16(t + n) = U16(tail + n) /\ tail + n = last_head
      BY <1>1, U16Sum
    <2> QED BY <2>1, Zenon
  <1>3. t + n <= l => t + n = l
    <2> SUFFICES ASSUME t + n <= l PROVE t + n = l
      BY Zenon
    <2> HIDE DEF t, n, l
    <2>1. t + n \in Index
      BY <1>1, RingConstants DEF Index
    <2>2. U16(t + n) = t + n
      BY <2>1, U16Type, RingConstants DEF Index
    <2> QED BY <1>2, <2>2, Zenon
  <1> QED BY <1>3, Zenon DEF MasterRefill

\* memif_refill_queue of the slave offers all that was read.
LEMMA SlaveRefillExact ==
  ASSUME NEW freed \in Int, NEW last_tail \in Int,
         freed <= last_tail, last_tail <= freed + RingSize
  PROVE  SlaveRefill(U16(freed + RingSize), U16(last_tail), last_tail - freed)
           = U16(last_tail + RingSize)
  <1> DEFINE n == last_tail - freed
             h == freed + RingSize
  <1>1. n \in Nat /\ h \in Int /\ RingSize \in Int
    BY RingConstants
  <1>2. last_tail - h + RingSize \in Index
    BY RingConstants DEF Index
  <1>3. U16(U16(last_tail) - U16(h) + RingSize) = last_tail - h + RingSize
    BY <1>1, <1>2, U16Difference, Zenon
  <1>4. last_tail - h + RingSize = n
    BY <1>1
  <1>5. /\ U16(h) \in Int /\ U16(last_tail) \in Int
        /\ RingSize - U16(h) + U16(last_tail)
             = U16(last_tail) - U16(h) + RingSize
    BY <1>1, U16Type, RingConstants DEF Index
  <1>6. U16(RingSize - U16(h) + U16(last_tail)) = n
    BY <1>3, <1>4, <1>5, Zenon
  <1>7. U16(U16(h) + n) = U16(last_tail + RingSize)
    <2>1. U16(U16(h) + n) = U16(h + n)
      BY <1>1, U16Sum
    <2>2. h + n = last_tail + RingSize
      BY <1>1
    <2> QED BY <2>1, <2>2, Zenon
  <1> QED BY <1>1, <1>6, <1>7, Zenon DEF SlaveRefill, Least

-----------------------------------------------------------------------------
(***************************************************************************)
(* Writing a buffer array writes the slots of its run of counters and no   *)
(* others.                                                                 *)
(***************************************************************************)

\* A counter of the run denotes the slot its value is written to.
LEMMA FillWrites ==
  ASSUME NEW slots, NEW a \in Int, NEW n \in Nat, n <= RingSize,
         NEW vals, DOMAIN vals = 1 .. n, NEW k \in Int, a <= k, k < a + n
  PROVE  Fill(slots, Run(a, n), vals)[Slot(k)] = vals[k - a + 1]
  <1> DEFINE i == k - a + 1
             Here(j) == Slot(Run(a, n)[j]) = Slot(k)
  <1>1. i \in 1 .. n
    OBVIOUS
  <1>2. \A j \in 1 .. n : Slot(Run(a, n)[j]) = Slot(a + j - 1)
    BY RunType, Zenon
  <1>3. Here(i)
    <2>1. a + i - 1 = k
      OBVIOUS
    <2> HIDE DEF i
    <2> QED BY <1>1, <1>2, <2>1, Zenon
  <1>4. ASSUME NEW j \in 1 .. n, Here(j)
        PROVE  j = i
    <2> DEFINE y == a + j - 1
    <2>1. y \in Int /\ y < k + RingSize /\ k < y + RingSize
      BY RingConstants
    <2>2. Slot(y) = Slot(k)
      BY <1>2, <1>4, Zenon
    <2>3. y # k => j # i
      OBVIOUS
    <2>4. y = k
      <3> HIDE DEF y
      <3> QED BY <2>1, <2>2, SlotsDistinct
    <2> QED BY <2>4
  <1>5. (CHOOSE j \in 1 .. n : Here(j)) = i
    BY <1>1, <1>3, <1>4, Zenon
  <1>6. Slot(k) \in Slots
    BY SlotType, Zenon
  <1> HIDE DEF i
  <1>7. Fill(slots, Run(a, n), vals)[Slot(k)] = vals[i]
    BY <1>1, <1>3, <1>5, <1>6, Zenon DEF Fill
  <1> QED BY <1>7, Zenon DEF i

\* Fill keeps the type of the buffers.
LEMMA FillType ==
  ASSUME NEW S, NEW slots \in [Slots -> S], NEW bufs, NEW vals,
         \A i \in DOMAIN vals : vals[i] \in S
  PROVE  Fill(slots, bufs, vals) \in [Slots -> S]
  BY Zenon DEF Fill

\* Counters near the run, but not in it, denote slots Fill leaves alone.
LEMMA FillKeeps ==
  ASSUME NEW slots, NEW a \in Int, NEW n \in Nat,
         n <= RingSize, NEW vals, DOMAIN vals = 1 .. n,
         NEW k \in Int, k < a \/ a + n <= k, a + n <= k + RingSize,
         k < a + RingSize
  PROVE  Fill(slots, Run(a, n), vals)[Slot(k)] = slots[Slot(k)]
  <1>1. ASSUME NEW i \in 1 .. n
        PROVE  Slot(a + i - 1) # Slot(k)
    <2> DEFINE x == a + i - 1
    <2>1. x \in Int /\ x # k /\ x < k + RingSize /\ k < x + RingSize
      BY RingConstants
    <2> HIDE DEF x
    <2>2. Slot(x) # Slot(k)
      BY <2>1, SlotsDistinct
    <2> QED BY <2>2, Zenon DEF x
  <1>2. ASSUME NEW s \in Slots, \A i \in 1 .. n : Slot(a + i - 1) # s
        PROVE  Fill(slots, Run(a, n), vals)[s] = slots[s]
    <2>1. \A i \in 1 .. n : Slot(Run(a, n)[i]) # s
      BY <1>2, RunType, Zenon
    <2> QED BY <2>1, Zenon DEF Fill
  <1>3. Slot(k) \in Slots
    BY SlotType, Zenon
  <1> QED BY <1>1, <1>2, <1>3, Zenon

-----------------------------------------------------------------------------
\* The type invariant, one variable at a time.
LEMMA TypeFacts ==
  ASSUME TypeOK
  PROVE  /\ cTx \in Nat /\ cRx \in Nat /\ sTx \in Nat /\ sRx \in Nat
         /\ sErr \in Nat /\ cCount \in Nat /\ cPollCount \in Nat
         /\ cTxBufs \in Seq(Index) /\ cRxBufs \in Seq(Index)
         /\ sTxBufs \in Seq(Index) /\ sRxBufs \in Seq(Index)
         /\ Len(cTxBufs) \in Nat /\ Len(cRxBufs) \in Nat
         /\ Len(sTxBufs) \in Nat /\ Len(sRxBufs) \in Nat
  <1>1. /\ cTxBufs \in Seq(Index) /\ cRxBufs \in Seq(Index)
        /\ sTxBufs \in Seq(Index) /\ sRxBufs \in Seq(Index)
    BY Zenon DEF TypeOK
  <1>2. /\ Len(cTxBufs) \in Nat /\ Len(cRxBufs) \in Nat
        /\ Len(sTxBufs) \in Nat /\ Len(sRxBufs) \in Nat
    BY <1>1
  <1> QED BY <1>1, <1>2, Zenon DEF TypeOK

\* The number of attempts of send stays a natural number.
LEMMA NextRetryType ==
  ASSUME TypeOK
  PROVE  NextRetry \in Nat
  <1>1. cRetries \in Nat /\ cRetries + 1 \in Nat
    BY DEF TypeOK
  <1> QED BY <1>1, Zenon DEF NextRetry

-----------------------------------------------------------------------------
(***************************************************************************)
(* The steps of the client.                                                *)
(***************************************************************************)

\* A call of send touches no ring; the application's credit admits it.
LEMMA SendCallKeeps ==
  ASSUME RingInv, NEW n \in SendSizes, SendCall(n)
  PROVE  RingInv'
  <1> USE DEF RingInv, SendCall, s2m, m2s, server, cRecv
  <1>1. n \in Nat
    BY DataPathAssumption, Zenon
  <1>2. TypeOK'
    BY <1>1, Zenon DEF TypeOK
  <1>3. IndicesAreCounters' /\ BuffersAreRuns' /\ RingsBounded'
    BY Zenon DEF IndicesAreCounters, BuffersAreRuns, RingsBounded, sFreed, cFreed, cAlloc, sAlloc
  <1>4. ControlState'
    BY <1>1 DEF ControlState, cAlloc, sAlloc
  <1>5. RequestsInPlace' /\ LengthsReset' /\ JobsCounted'
    BY Zenon DEF RequestsInPlace, LengthsReset, JobsCounted, sFreed, cAlloc
  <1>6. OutstandingBounded' /\ CreditSuffices'
    <2>1. cCount = 0
      BY Zenon DEF ControlState
    <2> QED BY <1>1, <2>1, TypeFacts, SMTT(30) DEF OutstandingBounded, Outstanding, CreditSuffices
  <1> QED BY <1>2, <1>3, <1>4, <1>5, <1>6, Zenon

\* A failed attempt of send only counts itself.
LEMMA SendRetryKeeps ==
  ASSUME RingInv, SendRetry
  PROVE  RingInv'
  <1>1. cRetries' \in Nat
    BY NextRetryType, Zenon DEF RingInv, SendRetry
  <1> USE DEF RingInv, SendRetry, s2m, m2s, server, cRecv
  <1>2. TypeOK'
    BY <1>1, Zenon DEF TypeOK
  <1>3. IndicesAreCounters' /\ BuffersAreRuns' /\ RingsBounded'
    BY Zenon DEF IndicesAreCounters, BuffersAreRuns, RingsBounded, sFreed, cFreed, cAlloc, sAlloc
  <1>4. ControlState' /\ RequestsInPlace' /\ LengthsReset' /\ JobsCounted'
    BY DEF ControlState, RequestsInPlace, LengthsReset, JobsCounted, sFreed, cAlloc, sAlloc
  <1>5. OutstandingBounded' /\ CreditSuffices'
    BY Zenon DEF OutstandingBounded, Outstanding, CreditSuffices
  <1> QED BY <1>2, <1>3, <1>4, <1>5, Zenon

\* The buffers send allocates are free ones of the request ring.
LEMMA SendAllocKeeps ==
  ASSUME RingInv, SendAlloc
  PROVE  RingInv'
  <1> DEFINE count == IF MaxBufs > cCount THEN cCount ELSE MaxBufs
             ns == SlaveFree(s2mHead, s2mTail, cAlloc)
             n == Least(count, ns)
  <1>0. TypeOK /\ SendAlloc
    BY Zenon DEF RingInv
  <1>1. cTxBufs = <<>> /\ cAlloc = 0
    BY <1>0, Zenon DEF RingInv, SendAlloc, ControlState, cAlloc
  <1>2. /\ sFreed \in Int /\ cTx \in Int /\ sFreed <= cTx + 0
        /\ cTx + 0 <= sFreed + RingSize
    BY <1>0, <1>1, TypeFacts DEF RingInv, RingsBounded, sFreed
  <1>3. ns = sFreed + RingSize - (cTx + 0)
    BY <1>1, <1>2, SlaveFreeExact DEF RingInv, IndicesAreCounters
  <1>4. n \in Nat /\ n <= cCount /\ cTx + n <= sFreed + RingSize
    BY <1>0, <1>2, <1>3, TypeFacts, DataPathAssumption, RingConstants, SMTT(30) DEF Least
  <1>5. cTxBufs' = Run(cTx, n)
    <2>1. cTxBufs' = Run(U16(cTx) + 0, n)
      BY <1>0, <1>1, Zenon DEF SendAlloc, AllocBufs, RingInv, IndicesAreCounters
    <2>2. Run(U16(cTx) + 0, n) = Run(cTx + 0, n)
      BY <1>2, <1>4, RunOfU16
    <2> QED BY <1>2, <2>1, <2>2
  <1>6. cTxBufs' \in Seq(Index) /\ Len(cTxBufs') = n
    BY <1>2, <1>4, <1>5, RunType, Zenon
  <1> HIDE DEF n, ns, count
  <1>13. cRetries' \in Nat
    BY <1>0, NextRetryType, Zenon DEF SendAlloc
  <1> USE DEF RingInv, SendAlloc, s2m, m2s, server, cRecv
  <1>7. TypeOK'
    BY <1>6, <1>13, Zenon DEF TypeOK
  <1>8. IndicesAreCounters' /\ BuffersAreRuns' /\ RingsBounded'
    BY <1>4, <1>5, <1>6, Zenon DEF IndicesAreCounters, BuffersAreRuns, RingsBounded, sFreed, cFreed, cAlloc, sAlloc
  <1>9. ControlState'
    BY <1>4, <1>6, Zenon DEF ControlState, cAlloc, sAlloc
  <1>10. RequestsInPlace' /\ LengthsReset' /\ JobsCounted'
    BY Zenon DEF RequestsInPlace, LengthsReset, JobsCounted, sFreed, cAlloc
  <1>11. OutstandingBounded' /\ CreditSuffices'
    BY Zenon DEF OutstandingBounded, Outstanding, CreditSuffices
  <1> QED BY <1>7, <1>8, <1>9, <1>10, <1>11, Zenon

\* Serializing writes only buffers the server cannot see yet.
LEMMA SendSerializeKeeps ==
  ASSUME RingInv, SendSerialize
  PROVE  RingInv'
  <1> DEFINE n == Len(cTxBufs)
             vals == [i \in DOMAIN cTxBufs |-> cTx + i - 1]
  <1>0. TypeOK /\ SendSerialize /\ RingsBounded
    BY Zenon DEF RingInv
  <1>1. cTx \in Int /\ n \in Nat /\ DOMAIN cTxBufs = 1 .. n
    BY <1>0, TypeFacts
  <1>2. n <= RingSize /\ sFreed \in Int /\ cTx + n <= sFreed + RingSize /\ sFreed <= cTx
    BY <1>0, <1>1, TypeFacts, RingConstants DEF RingsBounded, cAlloc, sFreed
  <1>3. cTxBufs = Run(cTx, n)
    BY Zenon DEF RingInv, BuffersAreRuns
  <1>4. s2mBuf' = Fill(s2mBuf, Run(cTx, n), vals)
    BY <1>0, <1>3, Zenon DEF SendSerialize
  <1>5. /\ DOMAIN vals = 1 .. n
        /\ \A i \in 1 .. n : vals[i] = cTx + i - 1
        /\ \A i \in 1 .. n : vals[i] \in Nat \cup {NoJob}
    BY <1>0, <1>1, TypeFacts
  <1> HIDE DEF vals, n
  <1>6. s2mBuf' \in [Slots -> Nat \cup {NoJob}]
    BY <1>0, <1>1, <1>2, <1>4, <1>5, FillType, Zenon DEF TypeOK
  <1>7. RequestsInPlace'
    <2>1. ASSUME NEW k \in sFreed .. (cTx - 1)
          PROVE  s2mBuf'[Slot(k)] = k
      <3>1. s2mBuf'[Slot(k)] = s2mBuf[Slot(k)]
        <4>1. /\ k \in Int
              /\ k < cTx \/ cTx + n <= k
              /\ cTx + n <= k + RingSize /\ k < cTx + RingSize
          BY <1>1, <1>2, RingConstants
        <4> QED BY <1>1, <1>2, <1>4, <1>5, <4>1, FillKeeps
      <3>2. s2mBuf[Slot(k)] = k
        BY <1>0, Zenon DEF RingInv, RequestsInPlace, SendSerialize
      <3> QED BY <3>1, <3>2, Zenon
    <2>2. ASSUME NEW k \in cTx .. (cTx + n - 1)
          PROVE  s2mBuf'[Slot(k)] = k
      <3> DEFINE i == k - cTx + 1
      <3>1. i \in 1 .. n /\ k = cTx + i - 1
        BY <1>1
      <3> HIDE DEF i
      <3>2. s2mBuf'[Slot(k)] = vals[k - cTx + 1]
        BY <1>1, <1>2, <1>4, <1>5, FillWrites
      <3> QED BY <1>5, <3>1, <3>2, Zenon DEF i
    <2>3. ASSUME NEW k \in sFreed .. (cTx + n - 1)
          PROVE  k \in sFreed .. (cTx - 1) \/ k \in cTx .. (cTx + n - 1)
      BY <1>1, <1>2
    <2> QED BY <1>0, <2>1, <2>2, <2>3, Zenon DEF RequestsInPlace, SendSerialize, sFreed, cAlloc, cSend, n, server
  <1> USE DEF RingInv, SendSerialize, m2s, server, cSend, cRecv
  <1>8. TypeOK'
    BY <1>6, Zenon DEF TypeOK
  <1>9. IndicesAreCounters' /\ BuffersAreRuns' /\ RingsBounded'
    BY Zenon DEF IndicesAreCounters, BuffersAreRuns, RingsBounded, sFreed, cFreed, cAlloc, sAlloc
  <1>10. ControlState' /\ LengthsReset' /\ JobsCounted'
    BY Zenon DEF ControlState, LengthsReset, JobsCounted, cAlloc, sAlloc
  <1>11. OutstandingBounded' /\ CreditSuffices'
    BY Zenon DEF OutstandingBounded, Outstanding, CreditSuffices
  <1> QED BY <1>7, <1>8, <1>9, <1>10, <1>11, Zenon

\* What publishing the buffers does, whether or not send then returns.
LEMMA SendTxFrame ==
  ASSUME RingInv, NEW n \in Nat, n = Len(cTxBufs), n <= cCount, cpc = "tx",
         s2mHead' = U16(cTx + n), s2mHead' \in Index, cTxBufs' = <<>>,
         cTx' = cTx + n, cCount' = cCount - n,
         UNCHANGED <<s2mTail, s2mBuf, m2s, server, cRecv, cPollCount, cLastSeq>>,
         cpc' \in {"idle", "alloc", "callback"}, cRetries' \in Nat,
         cReturn' \in {"idle", "callback"},
         cpc' = "alloc" => cReturn' = cReturn,
         cpc' # "alloc" => cCount' = 0 /\ cReturn' = "idle" /\ cpc' = cReturn
  PROVE  RingInv'
  <1>1. TypeOK /\ cTx \in Nat /\ cCount \in Nat /\ Len(cTxBufs') = 0
    <2>1. TypeOK
      BY Zenon DEF RingInv
    <2> QED BY <2>1, TypeFacts, Zenon
  <1> USE DEF m2s, server, cRecv
  <1>6. TypeOK'
    <2>1. cTxBufs' \in Seq(Index) /\ cTx' \in Nat /\ cCount' \in Nat
      BY <1>1
    <2> QED BY <1>1, <2>1, Zenon DEF TypeOK
  <1>7. IndicesAreCounters'
    BY Zenon DEF RingInv, IndicesAreCounters, sFreed, cFreed
  <1>8. BuffersAreRuns'
    <2>1. cTxBufs' = Run(cTx', Len(cTxBufs'))
      BY <1>1, RunType
    <2> QED BY <2>1, Zenon DEF RingInv, BuffersAreRuns, sFreed, cFreed
  <1>9. RingsBounded'
    <2>1. RingsBounded /\ UNCHANGED <<sFreed, cFreed, sAlloc>>
      BY Zenon DEF RingInv, sFreed, cFreed, sAlloc
    <2>2. cTx + cAlloc = cTx' + cAlloc' /\ cTx <= cTx'
      BY <1>1 DEF cAlloc
    <2>3. sRx \in Nat /\ UNCHANGED <<sRx, sTx, cRx>>
      BY <1>1, TypeFacts, Zenon
    <2> QED BY <1>1, <2>1, <2>2, <2>3 DEF RingsBounded
  <1>10. ControlState'
    <2>1. ControlState /\ cReturn \in {"idle", "callback"} /\ cCount' \in Nat
      BY <1>1 DEF RingInv, TypeOK
    <2> QED BY <1>1, <2>1 DEF ControlState, cAlloc, sAlloc
  <1>11. RequestsInPlace'
    <2>1. cpc' # "tx" /\ sFreed' = sFreed
      BY <1>1, Zenon DEF sFreed
    <2> QED BY <1>1, <2>1 DEF RingInv, RequestsInPlace, cAlloc
  <1>12. LengthsReset' /\ JobsCounted'
    BY Zenon DEF RingInv, LengthsReset, JobsCounted
  <1>13. OutstandingBounded' /\ CreditSuffices'
    <2>1. /\ OutstandingBounded /\ CreditSuffices
          /\ UNCHANGED <<cRx, cRxBufs, sErr>>
          /\ cRx \in Nat /\ Len(cRxBufs) \in Nat
      BY <1>1, TypeFacts, Zenon DEF RingInv
    <2>2. Outstanding' = Outstanding
      BY <1>1, <2>1 DEF Outstanding
    <2> QED BY <2>1, <2>2, Zenon DEF OutstandingBounded, CreditSuffices
  <1> QED BY <1>6, <1>7, <1>8, <1>9, <1>10, <1>11, <1>12, <1>13, Zenon DEF RingInv

\* Publishing moves head by the number of jobs counted.
LEMMA SendTxKeeps ==
  ASSUME RingInv, SendTx
  PROVE  RingInv'
  <1> DEFINE n == Len(cTxBufs)
  <1>0. TypeOK /\ SendTx /\ RingsBounded /\ ControlState
    BY Zenon DEF RingInv
  <1>1. cTx \in Int /\ cTx \in Nat /\ n \in Nat
    BY <1>0, TypeFacts
  <1>2. cTxBufs = Run(cTx, n) /\ s2mHead = U16(cTx)
    BY Zenon DEF RingInv, BuffersAreRuns, IndicesAreCounters
  <1>3. TxCount(n, n) = n /\ TxIndex(U16(cTx), Run(cTx, n), n) = U16(cTx + n)
    BY <1>1, TxIndexExact, Zenon
  <1>4. /\ s2mHead' = U16(cTx + n) /\ cTxBufs' = <<>>
        /\ cTx' = cTx + n /\ cCount' = cCount - n
        /\ cCount' \in Nat /\ n <= cCount
    <2>1. TxCount(Len(cTxBufs), cAlloc) = n
      BY <1>3, Zenon DEF cAlloc
    <2>2. n <= cCount /\ cCount \in Nat
      BY <1>0, TypeFacts, Zenon DEF ControlState, cAlloc
    <2> HIDE DEF n
    <2> QED BY <1>0, <1>1, <1>2, <1>3, <2>1, <2>2 DEF SendTx
  <1>5. s2mHead' \in Index
    BY <1>1, <1>4, U16Type
  <1>6. UNCHANGED <<s2mTail, s2mBuf, m2s, server, cRecv, cPollCount, cLastSeq>>
    BY <1>0, Zenon DEF SendTx
  <1>7. CASE cCount' > 0
    <2>1. /\ cpc' = "alloc" /\ cReturn' = cReturn
          /\ cRetries' \in Nat /\ cReturn' \in {"idle", "callback"}
      BY <1>0, <1>7, Zenon DEF SendTx, TypeOK
    <2> QED BY <1>0, <1>1, <1>4, <1>5, <1>6, <2>1, SendTxFrame, Zenon DEF SendTx, n
  <1>8. CASE cCount' = 0
    <2>1. /\ cpc' = cReturn /\ cReturn' = "idle" /\ cRetries' \in Nat
          /\ cpc' \in {"idle", "callback"}
      BY <1>0, <1>8 DEF SendTx, TypeOK
    <2> QED BY <1>0, <1>1, <1>4, <1>5, <1>6, <1>8, <2>1, SendTxFrame, Zenon DEF SendTx, n
  <1> QED BY <1>4, <1>7, <1>8

-----------------------------------------------------------------------------
\* A call of poll makes at least one burst.
LEMMA PollCallKeeps ==
  ASSUME RingInv, NEW size \in PollSizes, PollCall(size)
  PROVE  RingInv'
  <1> USE DEF RingInv, PollCall, s2m, m2s, server, cSend, cRecv
  <1>1. size \in Nat \ {0} /\ MaxBufs \in Nat \ {0}
    BY DataPathAssumption, Zenon
  <1>2. PollCount(size) \in Nat \ {0}
    <2>2. size \div MaxBufs \in Int /\ 0 <= size \div MaxBufs
      BY <1>1
    <2>3. size % MaxBufs = 0 => size \div MaxBufs # 0
      BY <1>1
    <2> QED BY <2>2, <2>3 DEF PollCount
  <1>3. TypeOK'
    BY <1>1, <1>2, Zenon DEF TypeOK
  <1>4. IndicesAreCounters' /\ BuffersAreRuns' /\ RingsBounded'
    BY Zenon DEF IndicesAreCounters, BuffersAreRuns, RingsBounded, sFreed, cFreed, cAlloc, sAlloc
  <1>5. ControlState'
    BY <1>2 DEF ControlState, cAlloc, sAlloc
  <1>6. RequestsInPlace' /\ LengthsReset' /\ JobsCounted'
    BY Zenon DEF RequestsInPlace, LengthsReset, JobsCounted, sFreed, cAlloc
  <1>7. OutstandingBounded' /\ CreditSuffices'
    BY Zenon DEF OutstandingBounded, Outstanding, CreditSuffices
  <1> QED BY <1>3, <1>4, <1>5, <1>6, <1>7, Zenon

\* Receiving takes published responses and resets their length.
LEMMA PollRxKeeps ==
  ASSUME RingInv, PollRx
  PROVE  RingInv'
  <1> DEFINE n == Least(RxAvailable(cLastTail, m2sTail), MaxBufs)
             vals == [i \in DOMAIN Run(cRx, n) |-> FullLength]
  <1>0. TypeOK /\ PollRx /\ RingsBounded /\ ControlState
    BY DEF RingInv
  <1>1. cRxBufs = <<>> /\ Len(cRxBufs) = 0
    BY <1>0, Zenon DEF PollRx, ControlState
  <1>2. cRx \in Nat /\ sTx \in Nat /\ cRx <= sTx /\ sTx <= cRx + RingSize
    BY <1>0, <1>1, TypeFacts, RingConstants DEF RingsBounded, cFreed, sAlloc
  <1>3. RxAvailable(cLastTail, m2sTail) = sTx - cRx
    BY <1>2, RxAvailableExact DEF RingInv, IndicesAreCounters
  <1>4. n \in Nat /\ n <= sTx - cRx /\ n <= RingSize
    BY <1>2, <1>3, DataPathAssumption, RingConstants DEF Least
  <1>5. RxBufs(cLastTail, m2sTail, MaxBufs) = Run(cRx, n)
    <2>1. RxBufs(cLastTail, m2sTail, MaxBufs) = Run(U16(cRx), n)
      BY Zenon DEF RxBufs, RingInv, IndicesAreCounters
    <2>2. Run(U16(cRx) + 0, n) = Run(cRx + 0, n)
      <3>1. cRx \in Int /\ n \in Nat /\ 0 \in Int
        BY <1>2, <1>4
      <3> HIDE DEF n
      <3> QED BY <3>1, RunOfU16, Zenon
    <2>3. U16(cRx) + 0 = U16(cRx) /\ cRx + 0 = cRx
      BY <1>2, U16Type, RingConstants DEF Index
    <2> QED BY <2>1, <2>2, <2>3, Zenon
  <1>6. Len(Run(cRx, n)) = n /\ DOMAIN Run(cRx, n) = 1 .. n /\ Run(cRx, n) \in Seq(Index)
    BY <1>2, <1>4, RunType
  <1>7. /\ cRxBufs' = Run(cRx, n) /\ Len(cRxBufs') = n
        /\ cLastTail' = RxNext(cLastTail, n)
        /\ cRx' = cRx + n
        /\ m2sLen' = Fill(m2sLen, Run(cRx, n), vals)
        /\ cRxErr' = RxError(cLastTail, m2sTail, MaxBufs)
        /\ cpc = "rx" /\ cpc' = "recv"
        /\ UNCHANGED <<s2m, m2sHead, m2sTail, m2sBuf, server, cSend, cPollCount,
                       cReturn, cLastSeq>>
    BY <1>0, <1>5, <1>6, Zenon DEF PollRx
  <1>9. /\ DOMAIN vals = 1 .. n
        /\ \A i \in 1 .. n : vals[i] = FullLength
        /\ \A i \in DOMAIN vals : vals[i] \in {FullLength, TxLength}
    BY <1>6, Zenon
  <1>10. cRxErr' \in {"SUCCESS", "NOBUF"}
    BY <1>7, Zenon DEF RxError
  <1> HIDE DEF n, vals
  <1>8. cLastTail' = U16(cRx + n) /\ cLastTail' \in Index
    <2>1. cLastTail = U16(cRx) /\ cRx \in Int /\ n \in Int /\ cRx + n \in Int
      BY <1>2, <1>4 DEF RingInv, IndicesAreCounters
    <2>2. cLastTail' = U16(U16(cRx) + n)
      BY <1>7, <2>1, Zenon DEF RxNext
    <2> QED BY <2>1, <2>2, U16Sum, U16Type, Zenon
  <1>11. m2sLen' \in [Slots -> {FullLength, TxLength}]
    <2>1. m2sLen \in [Slots -> {FullLength, TxLength}]
      BY <1>0, Zenon DEF TypeOK
    <2> QED BY <1>7, <1>9, <2>1, FillType, Zenon
  <1>12. LengthsReset'
    <2>1. ASSUME NEW k \in sTx .. (cRx + RingSize - 1)
          PROVE  m2sLen'[Slot(k)] = FullLength
      <3>1. m2sLen[Slot(k)] = FullLength
        BY Zenon DEF RingInv, LengthsReset
      <3>2. /\ k \in Int /\ cRx \in Int /\ (k < cRx \/ cRx + n <= k)
            /\ cRx + n <= k + RingSize /\ k < cRx + RingSize
        BY <1>2, <1>4, RingConstants
      <3>3. m2sLen'[Slot(k)] = m2sLen[Slot(k)]
        <4>1. n \in Nat /\ n <= RingSize /\ DOMAIN vals = 1 .. n
          BY <1>4, <1>9, Zenon
        <4>2. Fill(m2sLen, Run(cRx, n), vals)[Slot(k)] = m2sLen[Slot(k)]
          <5>1. CASE k < cRx
            BY <3>2, <4>1, <5>1, FillKeeps, SMTT(30)
          <5>2. CASE cRx + n <= k
            BY <3>2, <4>1, <5>2, FillKeeps, SMTT(30)
          <5> QED BY <3>2, <5>1, <5>2, Zenon
        <4> QED BY <1>7, <4>2, Zenon
      <3> QED BY <3>1, <3>3, Zenon
    <2>2. ASSUME NEW k \in (cRx + RingSize) .. (cRx + n + RingSize - 1)
          PROVE  m2sLen'[Slot(k)] = FullLength
      <3> DEFINE j == k - RingSize
      <3>1. /\ j \in Int /\ cRx \in Int /\ cRx <= j /\ j < cRx + n
            /\ k = j + RingSize /\ j - cRx + 1 \in 1 .. n
        BY <1>2, <1>4, RingConstants
      <3> HIDE DEF j
      <3>2. Slot(k) = Slot(j)
        BY <3>1, SlotOneRound, Zenon
      <3>3. m2sLen'[Slot(j)] = vals[j - cRx + 1]
        BY <1>4, <1>7, <1>9, <3>1, FillWrites
      <3> QED BY <1>9, <3>1, <3>2, <3>3, Zenon
    <2>3. ASSUME NEW k \in sTx .. (cRx + n + RingSize - 1)
          PROVE  \/ k \in sTx .. (cRx + RingSize - 1)
                 \/ k \in (cRx + RingSize) .. (cRx + n + RingSize - 1)
      BY <1>2, <1>4, RingConstants
    <2> QED BY <1>7, <2>1, <2>2, <2>3, Zenon DEF LengthsReset, server
  <1> USE DEF s2m, server, cSend
  <1>13. TypeOK'
    <2>1. cRx' \in Nat /\ cRxBufs' \in Seq(Index)
      BY <1>2, <1>4, <1>6, <1>7
    <2> QED BY <1>0, <1>7, <1>8, <1>10, <1>11, <2>1, Zenon DEF TypeOK
  <1>14. cFreed' = cFreed /\ sFreed' = sFreed /\ cFreed = cRx
    BY <1>1, <1>2, <1>4, <1>7 DEF cFreed, sFreed
  <1>15. IndicesAreCounters'
    BY <1>7, <1>8, <1>14, Zenon DEF RingInv, IndicesAreCounters
  <1>16. BuffersAreRuns'
    BY <1>7, <1>14, Zenon DEF RingInv, BuffersAreRuns
  <1>17. RingsBounded'
    BY <1>0, <1>2, <1>4, <1>7, <1>14 DEF RingsBounded, cAlloc, sAlloc
  <1>18. ControlState' /\ RequestsInPlace' /\ JobsCounted'
    BY <1>0, <1>7, <1>14, Zenon DEF RingInv, ControlState, RequestsInPlace, JobsCounted, cAlloc, sAlloc
  <1>19. OutstandingBounded' /\ CreditSuffices'
    BY <1>1, <1>2, <1>4, <1>7 DEF RingInv, OutstandingBounded, Outstanding, CreditSuffices
  <1> QED BY <1>12, <1>13, <1>15, <1>16, <1>17, <1>18, <1>19, Zenon DEF RingInv

\* Decoding the responses changes no ring.
LEMMA PollRecvKeeps ==
  ASSUME RingInv, PollRecv
  PROVE  RingInv'
  <1> USE DEF RingInv, PollRecv, s2m, m2s, server, cSend, cRecv
  <1>1. cLastSeq' \in Nat \cup {NoJob}
    <2>1. CASE cRxBufs = <<>>
      BY <2>1, Zenon DEF TypeOK
    <2>2. CASE cRxBufs # <<>>
      <3> DEFINE b == cRxBufs[Len(cRxBufs)]
      <3>1. cRxBufs \in Seq(Index)
        BY TypeFacts, Zenon
      <3>2. b \in Index
        BY <2>2, <3>1
      <3>3. b \in Int
        BY <3>2, RingConstants DEF Index
      <3> HIDE DEF b
      <3>4. Slot(b) \in Slots
        BY <3>3, SlotType, Zenon
      <3>5. m2sBuf[Slot(b)].seq \in Nat \cup {NoJob}
        BY <3>4, Zenon DEF TypeOK
      <3> QED BY <2>2, <3>5, Zenon DEF b
    <2> QED BY <2>1, <2>2, Zenon
  <1>2. TypeOK'
    BY <1>1, Zenon DEF TypeOK
  <1>3. IndicesAreCounters' /\ BuffersAreRuns' /\ RingsBounded'
    BY Zenon DEF IndicesAreCounters, BuffersAreRuns, RingsBounded, sFreed, cFreed, cAlloc, sAlloc
  <1>4. ControlState'
    BY Zenon DEF ControlState, cAlloc, sAlloc
  <1>5. RequestsInPlace' /\ LengthsReset' /\ JobsCounted'
    BY Zenon DEF RequestsInPlace, LengthsReset, JobsCounted, sFreed, cAlloc
  <1>6. OutstandingBounded' /\ CreditSuffices'
    BY Zenon DEF OutstandingBounded, Outstanding, CreditSuffices
  <1> QED BY <1>2, <1>3, <1>4, <1>5, <1>6, Zenon

\* Giving responses back moves head by exactly the buffers held.
LEMMA PollRefillKeeps ==
  ASSUME RingInv, PollRefill
  PROVE  RingInv'
  <1> DEFINE n == Len(cRxBufs)
             reset == SlaveResetSlots(m2sHead, m2sHead')
             left == IF cRxErr = "NOBUF" THEN cPollCount ELSE cPollCount - 1
  <1>0. TypeOK /\ PollRefill /\ RingsBounded /\ ControlState /\ cpc = "callback"
    BY Zenon DEF RingInv, PollRefill
  <1>1. /\ cRx \in Nat /\ n \in Nat /\ cFreed \in Int /\ cFreed = cRx - n
        /\ cFreed <= cRx /\ cRx <= cFreed + RingSize /\ cRx - cFreed = n
    <2>1. /\ cRx \in Nat /\ n \in Nat /\ sTx \in Nat /\ Len(sTxBufs) \in Nat
          /\ RingSize \in Nat
      BY <1>0, TypeFacts, RingConstants, Zenon
    <2>2. cRx <= sTx /\ sTx + Len(sTxBufs) <= cRx - n + RingSize
      BY <1>0, Zenon DEF RingsBounded, cFreed, sAlloc
    <2> HIDE DEF n
    <2>3. cFreed = cRx - n
      BY Zenon DEF cFreed, n
    <2> QED BY <2>1, <2>2, <2>3
  <1>2. m2sHead = U16(cFreed + RingSize) /\ cLastTail = U16(cRx)
    BY Zenon DEF RingInv, IndicesAreCounters
  <1>3. SlaveRefill(m2sHead, cLastTail, n) = U16(cRx + RingSize)
    BY <1>1, <1>2, SlaveRefillExact
  <1>4. /\ m2sHead' = U16(cRx + RingSize) /\ cRxBufs' = <<>> /\ cRxErr' = "SUCCESS"
        /\ cPollCount' = left
        /\ m2sLen' = [s \in Slots |-> IF s \in reset THEN FullLength ELSE m2sLen[s]]
        /\ UNCHANGED <<s2m, m2sTail, m2sBuf, server, cSend, cLastTail, cRx,
                       cReturn, cLastSeq>>
    BY <1>0, <1>3, Zenon DEF PollRefill
  <1>5. m2sHead' \in Index
    BY <1>1, <1>4, U16Type, RingConstants
  <1>6. cReturn = "idle" /\ cPollCount \in Nat /\ cPollCount > 0 /\ cCount = 0
    BY <1>0, TypeFacts, Zenon DEF ControlState, TypeOK
  <1>7. /\ cPollCount' \in Nat
        /\ cPollCount' = 0 => cpc' = "idle"
        /\ cPollCount' # 0 => cpc' = "rx"
    <2>1. left \in Nat
      BY <1>6
    <2> QED BY <1>0, <1>4, <2>1 DEF PollRefill
  <1> HIDE DEF n, left, reset
  <1>8. /\ m2sLen' \in [Slots -> {FullLength, TxLength}]
        /\ \A s \in Slots : m2sLen[s] = FullLength => m2sLen'[s] = FullLength
    BY <1>0, <1>4, Zenon DEF TypeOK
  <1> USE DEF s2m, server, cSend
  <1>9. TypeOK'
    <2>1. cRxBufs' \in Seq(Index) /\ cpc' \in {"idle", "rx"}
      <3>1. cRxBufs' \in Seq(Index)
        BY <1>4
      <3>2. CASE cPollCount' = 0
        BY <1>7, <3>1, <3>2, Zenon
      <3>3. CASE cPollCount' # 0
        BY <1>7, <3>1, <3>3, Zenon
      <3> QED BY <3>2, <3>3, Zenon
    <2> QED BY <1>0, <1>4, <1>5, <1>7, <1>8, <2>1, Zenon DEF TypeOK
  <1>10. cFreed' = cRx /\ sFreed' = sFreed /\ Len(cRxBufs') = 0
    BY <1>1, <1>4 DEF cFreed, sFreed
  <1>11. IndicesAreCounters'
    BY <1>4, <1>10, Zenon DEF RingInv, IndicesAreCounters
  <1>12. BuffersAreRuns'
    <2>1. cRxBufs' = Run(cFreed', Len(cRxBufs'))
      BY <1>1, <1>4, <1>10, RunType
    <2> QED BY <1>4, <1>10, <2>1, Zenon DEF RingInv, BuffersAreRuns
  <1>13. RingsBounded'
    <2>1. sTx \in Nat /\ Len(sTxBufs) \in Nat
      BY <1>0, TypeFacts, Zenon
    <2> QED BY <1>0, <1>1, <1>4, <1>10, <2>1, RingConstants DEF RingsBounded, cAlloc, sAlloc
  <1>14. ControlState'
    BY <1>0, <1>4, <1>6, <1>7 DEF ControlState, cAlloc, sAlloc
  <1>15. RequestsInPlace' /\ JobsCounted'
    <2>1. cpc' # "tx" /\ cpc # "tx"
      BY <1>0, <1>7, Zenon
    <2> QED BY <1>4, <1>10, <2>1, Zenon DEF RingInv, RequestsInPlace, JobsCounted
  <1>16. LengthsReset'
    <2>1. ASSUME NEW k \in sTx .. (cRx + RingSize - 1)
          PROVE  m2sLen'[Slot(k)] = FullLength
      <3>1. m2sLen[Slot(k)] = FullLength /\ Slot(k) \in Slots
        BY SlotType DEF RingInv, LengthsReset
      <3> QED BY <1>8, <3>1, Zenon
    <2> QED BY <1>4, <2>1, Zenon DEF LengthsReset
  <1>17. OutstandingBounded' /\ CreditSuffices'
    <2>1. cTx \in Nat /\ Credit \in Nat
      BY <1>0, TypeFacts, DataPathAssumption, Zenon
    <2> QED BY <1>1, <1>4, <1>6, <1>10, <2>1 DEF RingInv, OutstandingBounded, Outstanding, CreditSuffices, n
  <1> QED BY <1>9, <1>11, <1>12, <1>13, <1>14, <1>15, <1>16, <1>17, Zenon DEF RingInv
=============================================================================
