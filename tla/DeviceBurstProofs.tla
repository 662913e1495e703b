-------------------------- MODULE DeviceBurstProofs --------------------------
(***************************************************************************)
(* OpsReturned and AnsweredAsProcessed hold for every size of the pool, of *)
(* the bursts and of the ingress queue, provided that a burst has no more  *)
(* jobs than max_burst_size: the comment above the first loop of           *)
(* run_jobs_inner asks for that.                                           *)
(*                                                                         *)
(* The invariant accounts for every operation (in the pool, on the device, *)
(* or in the hands of the function) and says which job the operation at a  *)
(* position of the device queue belongs to.                                *)
(***************************************************************************)
EXTENDS DeviceBurst, WellFoundedInduction, TLAPS

\* Operations run_jobs_inner has taken from the pool and not enqueued.
InHand == ops_unused + (IF pc = "enqueue" THEN ops_needed ELSE 0)

\* Every operation is in one place, every operation enqueued is either
\* dequeued or on the device, and the device takes no more than it holds.
Accounted ==
  /\ Len(queue) <= Capacity
  /\ pc # "idle" => pool + Len(queue) + InHand = PoolSize
  /\ pc # "idle" => ops_enqd_total = ops_deqd_total + Len(queue)

\* What the function has in hand is for the jobs not enqueued yet; only the
\* first round takes operations from the pool.
Portions ==
  /\ pc = "fill" => \/ ops_enqd_total = 0 /\ ops_unused = 0
                    \/ ops_unused = size - ops_enqd_total
  /\ pc = "enqueue" => /\ InHand = size - ops_enqd_total
                       /\ ops_needed = 0 \/ ops_enqd_total = 0
  /\ pc = "dequeue" => ops_unused = size - ops_enqd_total
  /\ pc = "drain" => ops_enqd_total = size /\ ops_unused = 0

\* The operation at position i of the device queue is that of the i-th job
\* after the ones dequeued, and carries what the device did with its data;
\* the jobs dequeued have their result.
Matched ==
  pc # "idle" =>
    /\ \A i \in 1 .. Len(queue) : /\ queue[i].job = ops_deqd_total + i
                                  /\ queue[i].status = done[ops_deqd_total + i]
    /\ \A j \in 1 .. ops_deqd_total : status[j] = "SUCC" <=> done[j] = "SUCCESS"

\* The device has not touched the data of a job that is not enqueued.
Fresh == pc # "idle" => \A j \in 1 .. size : j > ops_enqd_total => done[j] = "NOT_PROCESSED"

BurstInv ==
  /\ TypeOK /\ Accounted /\ Portions /\ Matched /\ Fresh
  /\ OpsReturned /\ AnsweredAsProcessed

-----------------------------------------------------------------------------
\* A set of natural numbers that is not empty has a least element.
LEMMA Smallest ==
  ASSUME NEW T \in SUBSET Nat, T # {}
  PROVE  \E x \in T : \A y \in T : x <= y
<1> DEFINE L == OpToRel(<, Nat)
<1>1. IsWellFoundedOn(L, Nat)
  BY NatLessThanWellFounded, Zenon
<1> HIDE DEF L
<1>2. PICK x \in T : \A y \in T : ~(<<y, x>> \in L)
  BY <1>1, WFMin, Zenon
<1>3. \A y \in T : ~(y < x)
  BY <1>2, Zenon DEF OpToRel, L
<1> QED
  BY <1>3

\* A dequeue returns at most what is on the device, and only what has been
\* processed.
LEMMA ReadyBound ==
  ASSUME TypeOK, NEW count \in Nat
  PROVE  /\ Ready(count) \in 0 .. Len(queue)
         /\ \A i \in 1 .. Ready(count) : queue[i].status # "NOT_PROCESSED"
<1> DEFINE pending == {i \in DOMAIN queue : queue[i].status = "NOT_PROCESSED"}
           least == CHOOSE i \in pending : \A j \in pending : i <= j
           processed == IF pending = {} THEN Len(queue) ELSE least - 1
<1>1. Len(queue) \in Nat /\ DOMAIN queue = 1 .. Len(queue)
  BY DEF TypeOK
<1>2. pending \in SUBSET (1 .. Len(queue)) /\ pending \in SUBSET Nat
  BY <1>1
<1> HIDE DEF pending
<1>3. ASSUME pending # {} PROVE least \in pending /\ \A j \in pending : least <= j
  <2>1. \E i \in pending : \A j \in pending : i <= j
    BY <1>2, <1>3, Smallest, Zenon
  <2> QED
    BY <2>1, Zenon
<1> HIDE DEF least
<1>4. processed \in 0 .. Len(queue)
  <2>1. CASE pending = {}
    BY <1>1, <2>1
  <2>2. CASE pending # {}
    <3>1. least \in 1 .. Len(queue)
      BY <1>2, <1>3, <2>2, Zenon
    <3> QED
      BY <1>1, <2>2, <3>1
  <2> QED
    BY <2>1, <2>2, Zenon
<1>5. Ready(count) = Lesser(count, processed)
  BY Zenon DEF Ready, pending, least
<1>6. \A i \in 1 .. processed : i \notin pending
  <2>1. CASE pending = {}
    BY <2>1
  <2>2. CASE pending # {}
    <3>1. least \in Nat /\ processed = least - 1
      BY <1>2, <1>3, <2>2
    <3> QED
      BY <1>3, <2>2, <3>1
  <2> QED
    BY <2>1, <2>2, Zenon
<1> HIDE DEF processed
<1>7. Ready(count) \in 0 .. Len(queue) /\ Ready(count) <= processed
  BY <1>1, <1>4, <1>5 DEF Lesser
<1>8. ASSUME NEW i \in 1 .. Ready(count) PROVE queue[i].status # "NOT_PROCESSED"
  <2>1. i \in 1 .. processed /\ i \in DOMAIN queue
    BY <1>1, <1>4, <1>7, <1>8
  <2> QED
    BY <1>6, <2>1, Zenon DEF pending
<1> QED
  BY <1>7, <1>8, Zenon

\* With a burst no larger than max_burst_size, a round is for all the jobs
\* that are not enqueued.
LEMMA OneRound ==
  ASSUME MaxJobs <= MaxBurst, TypeOK
  PROVE  BurstSize = size - ops_enqd_total
BY DeviceAssumption DEF TypeOK, BurstSize

\* The parts of a concatenation.
LEMMA Concatenated ==
  ASSUME NEW S, NEW T, NEW a \in Seq(S), NEW b \in Seq(T)
  PROVE  /\ Len(a \o b) = Len(a) + Len(b) /\ DOMAIN (a \o b) = 1 .. (Len(a) + Len(b))
         /\ \A i \in 1 .. Len(a) : (a \o b)[i] = a[i]
         /\ \A i \in 1 .. Len(b) : (a \o b)[Len(a) + i] = b[i]
OBVIOUS

\* The device queue after an enqueue.
LEMMA QueueGrows ==
  ASSUME TypeOK, Accounted, pc = "enqueue"
  PROVE  LET enqd == Lesser(ops_needed, Capacity - Len(queue))
             q == queue \o [i \in 1 .. enqd |-> Op(i)]
         IN  /\ enqd \in 0 .. ops_needed /\ Len(queue) + enqd <= Capacity
             /\ Len(q) = Len(queue) + enqd /\ DOMAIN q = 1 .. (Len(queue) + enqd)
             /\ \A i \in 1 .. Len(queue) : q[i] = queue[i]
             /\ \A i \in 1 .. enqd : q[Len(queue) + i] = Op(i)
<1> DEFINE enqd == Lesser(ops_needed, Capacity - Len(queue))
           new == [i \in 1 .. enqd |-> Op(i)]
           S == {Op(i) : i \in 1 .. enqd}
           Ops == [job : 1 .. size, status : Outcomes]
<1>1. queue \in Seq(Ops) /\ Len(queue) \in Nat
  BY DEF TypeOK
<1> HIDE DEF Ops
<1>2. Len(queue) <= Capacity /\ ops_needed \in Nat /\ Capacity \in Nat
  BY DeviceAssumption DEF TypeOK, Accounted
<1>3. enqd \in 0 .. ops_needed /\ Len(queue) + enqd <= Capacity /\ enqd \in Nat
  BY <1>1, <1>2 DEF Lesser
<1> HIDE DEF enqd
<1>4. \A i \in 1 .. enqd : new[i] = Op(i) /\ Op(i) \in S
  BY Zenon
<1> HIDE DEF S
<1>5. new \in Seq(S) /\ Len(new) = enqd
  BY <1>3, <1>4
<1> HIDE DEF new
<1> DEFINE q == queue \o new
<1>6. /\ Len(q) = Len(queue) + Len(new) /\ DOMAIN q = 1 .. (Len(queue) + Len(new))
      /\ \A i \in 1 .. Len(queue) : q[i] = queue[i]
      /\ \A i \in 1 .. Len(new) : q[Len(queue) + i] = new[i]
  <2>1. queue \in Seq(Ops) /\ new \in Seq(S)
    BY <1>1, <1>5, Zenon
  <2> QED
    BY <2>1, Concatenated
<1> HIDE DEF q
<1>7. /\ Len(q) = Len(queue) + enqd /\ DOMAIN q = 1 .. (Len(queue) + enqd)
      /\ \A i \in 1 .. Len(queue) : q[i] = queue[i]
      /\ \A i \in 1 .. enqd : q[Len(queue) + i] = Op(i)
  BY <1>4, <1>5, <1>6, Zenon
<1> QED
  BY <1>3, <1>7, Zenon DEF enqd, new, q

\* The device queue after a dequeue.
LEMMA QueueShrinks ==
  ASSUME TypeOK, NEW deqd \in 0 .. Len(queue)
  PROVE  LET q == SubSeq(queue, deqd + 1, Len(queue))
         IN  /\ Len(q) = Len(queue) - deqd
             /\ q \in Seq([job : 1 .. size, status : Outcomes])
             /\ \A i \in 1 .. (Len(queue) - deqd) : q[i] = queue[deqd + i]
<1> DEFINE q == SubSeq(queue, deqd + 1, Len(queue))
           Ops == [job : 1 .. size, status : Outcomes]
<1>1. queue \in Seq(Ops) /\ Len(queue) \in Nat /\ deqd \in Nat
  BY DEF TypeOK
<1> HIDE DEF Ops
<1>2. Len(q) = Len(queue) - deqd
  BY <1>1
<1>3. \A i \in 1 .. (Len(queue) - deqd) : q[i] = queue[deqd + i]
  BY <1>1
<1>4. q \in Seq(Ops)
  BY <1>1
<1> QED
  BY <1>2, <1>3, <1>4, Zenon DEF Ops

-----------------------------------------------------------------------------
\* The steps of the first loop before an enqueue, and the ends of the loops:
\* nothing moves but operations from the pool into the function's hands.
LEMMA CallStep ==
  ASSUME BurstInv, NEW n \in 1 .. MaxJobs, Call(n)
  PROVE  BurstInv'
<1> USE DeviceAssumption DEF BurstInv, Call
<1>1. /\ pool = PoolSize /\ queue = <<>> /\ pc' = "fill" /\ UNCHANGED <<pool, queue>>
      /\ ops_enqd_total' = 0 /\ ops_deqd_total' = 0 /\ ops_unused' = 0 /\ ops_needed' = 0
  BY Zenon DEF OpsReturned
<1>2. queue' = <<>> /\ Len(queue') = 0 /\ queue' \in Seq([job : 1 .. size', status : Outcomes])
  BY <1>1
<1>3. TypeOK'
  BY <1>1, <1>2 DEF TypeOK, Outcomes
<1>4. Accounted' /\ Portions'
  BY <1>1, <1>2 DEF Accounted, Portions, InHand
<1>5. Matched' /\ Fresh' /\ OpsReturned' /\ AnsweredAsProcessed'
  BY <1>1, <1>2 DEF Matched, Fresh, OpsReturned, AnsweredAsProcessed
<1> QED
  BY <1>3, <1>4, <1>5, Zenon

LEMMA FillStep ==
  ASSUME MaxJobs <= MaxBurst, BurstInv, Fill
  PROVE  BurstInv'
<1>1. /\ pc = "fill" /\ pc' = "enqueue" /\ ops_enqd_total < size
      /\ ops_needed' = size - ops_enqd_total - ops_unused /\ ops_needed' <= pool
      /\ pool' = pool - ops_needed'
      /\ UNCHANGED <<size, ops_enqd_total, ops_deqd_total, ops_unused, queue, status, done>>
  BY OneRound, Zenon DEF BurstInv, Fill
<1>2. /\ size \in 0 .. MaxJobs /\ ops_enqd_total \in 0 .. size /\ ops_unused \in 0 .. MaxBurst
      /\ pool \in 0 .. PoolSize /\ PoolSize \in Nat /\ MaxBurst \in Nat /\ MaxJobs \in Nat
      /\ Len(queue) \in Nat
  BY DeviceAssumption DEF BurstInv, TypeOK
<1>3. \/ ops_enqd_total = 0 /\ ops_unused = 0
      \/ ops_unused = size - ops_enqd_total
  BY <1>1, Zenon DEF BurstInv, Portions
<1>4. ops_needed' \in 0 .. MaxBurst /\ pool' \in 0 .. PoolSize
  BY <1>1, <1>2, <1>3
<1>5. TypeOK'
  BY <1>1, <1>4, Zenon DEF BurstInv, TypeOK
<1>6. Accounted'
  BY <1>1, <1>2, <1>4 DEF BurstInv, Accounted, InHand
<1>7. Portions'
  BY <1>1, <1>2, <1>3, <1>4 DEF BurstInv, Portions, InHand
<1>8. Matched' /\ Fresh' /\ OpsReturned' /\ AnsweredAsProcessed'
  BY <1>1, Zenon DEF BurstInv, Matched, Fresh, OpsReturned, AnsweredAsProcessed
<1> QED
  BY <1>5, <1>6, <1>7, <1>8, Zenon DEF BurstInv

\* return -1 happens in the first round only, with nothing in hand, and
\* never to a burst that fits.
LEMMA FillFailsStep ==
  ASSUME MaxJobs <= MaxBurst, BurstInv, FillFails
  PROVE  BurstInv'
<1>1. /\ pc = "fill" /\ pc' = "idle" /\ ops_enqd_total < size
      /\ size - ops_enqd_total - ops_unused > pool
      /\ UNCHANGED <<size, counters, pool, queue, status, done>>
  BY OneRound, Zenon DEF BurstInv, FillFails
<1>2. /\ size \in 0 .. MaxJobs /\ ops_enqd_total \in 0 .. size /\ ops_unused \in 0 .. MaxBurst
      /\ ops_deqd_total \in 0 .. size
      /\ pool \in 0 .. PoolSize /\ PoolSize \in Nat /\ MaxBurst \in Nat /\ MaxJobs \in Nat
      /\ Len(queue) \in Nat /\ queue \in Seq([job : 1 .. size, status : Outcomes])
  BY DeviceAssumption DEF BurstInv, TypeOK
<1>3. ops_enqd_total = 0 /\ ops_unused = 0
  BY <1>1, <1>2 DEF BurstInv, Portions
<1>4. pool + Len(queue) + ops_unused = PoolSize /\ ops_enqd_total = ops_deqd_total + Len(queue)
  BY <1>1, <1>2 DEF BurstInv, Accounted, InHand
<1>5. Len(queue) = 0 /\ pool = PoolSize
  BY <1>2, <1>3, <1>4
<1>6. queue = <<>>
  BY <1>2, <1>5
<1>7. ~Fits(size)
  BY <1>1, <1>2, <1>3, <1>5 DEF Fits
<1>8. TypeOK' /\ Accounted' /\ Portions' /\ Matched' /\ Fresh'
  BY <1>1, Zenon DEF BurstInv, TypeOK, Accounted, Portions, Matched, Fresh, counters
<1>9. OpsReturned' /\ AnsweredAsProcessed'
  BY <1>1, <1>5, <1>6, <1>7, Zenon DEF OpsReturned, AnsweredAsProcessed, Fits
<1> QED
  BY <1>8, <1>9, Zenon DEF BurstInv

LEMMA FillDoneStep ==
  ASSUME BurstInv, FillDone
  PROVE  BurstInv'
<1>1. /\ pc = "fill" /\ pc' = "drain" /\ ops_enqd_total >= size
      /\ UNCHANGED <<size, ops_enqd_total, ops_deqd_total, ops_unused, ops_needed,
                     pool, queue, status, done>>
  BY Zenon DEF FillDone, counters
<1>2. /\ size \in Nat /\ ops_enqd_total \in 0 .. size /\ ops_unused \in Nat
  BY DeviceAssumption DEF BurstInv, TypeOK
<1>3. ops_enqd_total = size /\ ops_unused = 0
  BY <1>1, <1>2 DEF BurstInv, Portions
<1>4. TypeOK' /\ Portions'
  BY <1>1, <1>3, Zenon DEF BurstInv, TypeOK, Portions
<1>5. Accounted'
  BY <1>1, Zenon DEF BurstInv, Accounted, InHand
<1>6. Matched' /\ Fresh' /\ OpsReturned' /\ AnsweredAsProcessed'
  BY <1>1, Zenon DEF BurstInv, Matched, Fresh, OpsReturned, AnsweredAsProcessed
<1> QED
  BY <1>4, <1>5, <1>6, Zenon DEF BurstInv

\* The end of the second loop: everything is dequeued.
LEMMA ReturnStep ==
  ASSUME BurstInv, Return
  PROVE  BurstInv'
<1>1. /\ pc = "drain" /\ pc' = "idle" /\ ops_deqd_total >= size
      /\ UNCHANGED <<size, ops_enqd_total, ops_deqd_total, ops_unused, ops_needed,
                     pool, queue, status, done>>
  BY Zenon DEF Return, counters
<1>2. /\ size \in Nat /\ ops_deqd_total \in 0 .. size /\ pool \in Nat /\ PoolSize \in Nat
      /\ Len(queue) \in Nat /\ queue \in Seq([job : 1 .. size, status : Outcomes])
  BY DeviceAssumption DEF BurstInv, TypeOK
<1>3. ops_enqd_total = size /\ ops_unused = 0
  BY <1>1, Zenon DEF BurstInv, Portions
<1>4. pool + Len(queue) + ops_unused = PoolSize /\ ops_enqd_total = ops_deqd_total + Len(queue)
  BY <1>1, <1>2, <1>3 DEF BurstInv, Accounted, InHand
<1>5. Len(queue) = 0 /\ pool = PoolSize /\ ops_deqd_total = size
  BY <1>1, <1>2, <1>3, <1>4
<1>6. queue = <<>>
  BY <1>2, <1>5
<1>7. \A j \in 1 .. size : status[j] = "SUCC" <=> done[j] = "SUCCESS"
  BY <1>1, <1>5, Zenon DEF BurstInv, Matched
<1>8. TypeOK' /\ Portions' /\ Matched' /\ Fresh'
  BY <1>1, Zenon DEF BurstInv, TypeOK, Portions, Matched, Fresh
<1>9. Accounted'
  BY <1>1, Zenon DEF BurstInv, Accounted
<1>10. OpsReturned' /\ AnsweredAsProcessed'
  BY <1>1, <1>5, <1>6, <1>7, Zenon DEF OpsReturned, AnsweredAsProcessed
<1> QED
  BY <1>8, <1>9, <1>10, Zenon DEF BurstInv

-----------------------------------------------------------------------------
\* The operations enqueued are those of the first jobs: right, because only
\* the first round enqueues any.
LEMMA EnqueueStep ==
  ASSUME MaxJobs <= MaxBurst, BurstInv, Enqueue
  PROVE  BurstInv'
<1> DEFINE enqd == Lesser(ops_needed, Capacity - Len(queue))
           Ops == [job : 1 .. size, status : Outcomes]
<1>1. /\ pc = "enqueue" /\ pc' = "dequeue"
      /\ queue' = queue \o [i \in 1 .. enqd |-> Op(i)]
      /\ ops_unused' = size - ops_enqd_total - enqd
      /\ ops_enqd_total' = ops_enqd_total + enqd
      /\ UNCHANGED <<size, ops_deqd_total, ops_needed, pool, status, done>>
  BY OneRound, Zenon DEF BurstInv, Enqueue
<1>2. /\ enqd \in 0 .. ops_needed /\ Len(queue) + enqd <= Capacity
      /\ Len(queue') = Len(queue) + enqd /\ DOMAIN queue' = 1 .. (Len(queue) + enqd)
      /\ \A i \in 1 .. Len(queue) : queue'[i] = queue[i]
      /\ \A i \in 1 .. enqd : queue'[Len(queue) + i] = Op(i)
  BY <1>1, QueueGrows, Zenon DEF BurstInv
<1>3. /\ size \in 0 .. MaxJobs /\ ops_enqd_total \in 0 .. size /\ ops_unused \in 0 .. MaxBurst
      /\ ops_deqd_total \in 0 .. size /\ ops_needed \in 0 .. MaxBurst
      /\ pool \in 0 .. PoolSize /\ PoolSize \in Nat /\ MaxBurst \in Nat /\ MaxJobs \in Nat
      /\ Capacity \in Nat /\ Len(queue) \in Nat
  BY DeviceAssumption DEF BurstInv, TypeOK
<1>4. /\ ops_unused + ops_needed = size - ops_enqd_total
      /\ ops_needed = 0 \/ ops_enqd_total = 0
      /\ pool + Len(queue) + ops_unused + ops_needed = PoolSize
      /\ ops_enqd_total = ops_deqd_total + Len(queue)
  BY <1>1, <1>3 DEF BurstInv, Accounted, Portions, InHand
<1>5. queue \in Seq(Ops) /\ done \in [1 .. size -> Outcomes]
  BY Zenon DEF BurstInv, TypeOK
<1>6. \A i \in 1 .. Len(queue) : /\ queue[i].job = ops_deqd_total + i
                                 /\ queue[i].status = done[ops_deqd_total + i]
  BY <1>1, Zenon DEF BurstInv, Matched
<1> HIDE DEF enqd
<1>len. /\ enqd \in 0 .. ops_needed /\ Len(queue) + enqd <= Capacity
        /\ Len(queue') = Len(queue) + enqd
  BY <1>2, Zenon
<1>same. /\ pc' = "dequeue" /\ size' = size /\ ops_deqd_total' = ops_deqd_total /\ pool' = pool
         /\ ops_unused' = size - ops_enqd_total - enqd /\ ops_enqd_total' = ops_enqd_total + enqd
  BY <1>1, Zenon
<1>7. /\ enqd \in 0 .. (size - ops_enqd_total)
      /\ (enqd # 0 => ops_enqd_total = 0 /\ Len(queue) = 0 /\ ops_deqd_total = 0)
  BY <1>3, <1>4, <1>len
<1>8. \A i \in 1 .. enqd : Op(i) \in Ops
  BY <1>3, <1>7 DEF Op, Outcomes
<1> HIDE DEF Ops
<1>9. queue' \in Seq(Ops)
  <2>1. [i \in 1 .. enqd |-> Op(i)] \in Seq(Ops)
    BY <1>2, <1>3, <1>8
  <2> QED
    BY <1>1, <1>5, <2>1
<1>10. TypeOK'
  <2>1. ops_unused' \in 0 .. MaxBurst /\ ops_enqd_total' \in 0 .. size
    BY <1>3, <1>7, <1>same
  <2> QED
    BY <1>1, <1>9, <2>1, Zenon DEF BurstInv, TypeOK, Ops
<1>11. Accounted'
  <2>1. InHand' = ops_unused' /\ Len(queue') <= Capacity
    BY <1>same, <1>len DEF InHand
  <2>2. pool' + Len(queue') + ops_unused' = PoolSize
    <3>1. /\ size \in Int /\ ops_enqd_total \in Int /\ ops_unused \in Int /\ ops_needed \in Int
          /\ pool \in Int /\ Len(queue) \in Int /\ enqd \in Int
      BY <1>3, <1>len
    <3>2. /\ pool + Len(queue) + ops_unused + ops_needed = PoolSize
          /\ ops_unused + ops_needed = size - ops_enqd_total
      BY <1>4, Zenon
    <3>3. /\ pool' = pool /\ Len(queue') = Len(queue) + enqd
          /\ ops_unused' = size - ops_enqd_total - enqd
      BY <1>same, <1>len, Zenon
    <3> QED
      BY <3>1, <3>2, <3>3
  <2>3. ops_enqd_total' = ops_deqd_total' + Len(queue')
    BY <1>3, <1>4, <1>same, <1>len
  <2> QED
    BY <2>1, <2>2, <2>3, Zenon DEF Accounted
<1>12. Portions'
  BY <1>3, <1>7, <1>same DEF Portions
<1>13. Matched'
  <2>1. \A i \in 1 .. Len(queue') : /\ queue'[i].job = ops_deqd_total' + i
                                    /\ queue'[i].status = done'[ops_deqd_total' + i]
    <3>1. CASE enqd = 0
      BY <1>1, <1>2, <1>3, <1>6, <3>1
    <3>2. CASE enqd # 0
      <4>1. Len(queue') = enqd /\ ops_deqd_total' = 0 /\ Len(queue) = 0
        BY <1>1, <1>2, <1>3, <1>7, <3>2
      <4>2. ASSUME NEW i \in 1 .. enqd
            PROVE  queue'[i] = Op(i) /\ done'[i] = "NOT_PROCESSED"
        <5>1. queue'[i] = Op(i)
          BY <1>2, <4>1
        <5>2. done[i] = "NOT_PROCESSED"
          BY <1>1, <1>3, <1>7, <3>2 DEF BurstInv, Fresh
        <5> QED
          BY <1>1, <5>1, <5>2, Zenon
      <4> QED
        BY <1>2, <4>1, <4>2 DEF Op
    <3> QED
      BY <3>1, <3>2, Zenon
  <2> QED
    BY <1>1, <2>1, Zenon DEF BurstInv, Matched
<1>14. OpsReturned' /\ AnsweredAsProcessed' /\ Fresh'
  BY <1>1, <1>3, <1>7 DEF BurstInv, OpsReturned, AnsweredAsProcessed, Fresh
<1> QED
  BY <1>10, <1>11, <1>12, <1>13, <1>14, Zenon DEF BurstInv

-----------------------------------------------------------------------------
\* A dequeue takes the results of the oldest jobs not dequeued, in order.
LEMMA TakeStep ==
  ASSUME BurstInv, pc \in {"dequeue", "drain"}, NEW count \in Nat, Take(count),
         pc' = (IF pc = "dequeue" THEN "fill" ELSE "drain"),
         UNCHANGED <<size, ops_enqd_total, ops_unused, ops_needed, done>>
  PROVE  BurstInv'
<1> DEFINE deqd == Ready(count)
           Ops == [job : 1 .. size, status : Outcomes]
<1>1. /\ Results(deqd) /\ queue' = SubSeq(queue, deqd + 1, Len(queue))
      /\ pool' = pool + deqd /\ ops_deqd_total' = ops_deqd_total + deqd
  BY Zenon DEF Take
<1>2. /\ deqd \in 0 .. Len(queue)
      /\ \A i \in 1 .. deqd : queue[i].status # "NOT_PROCESSED"
  BY ReadyBound, Zenon DEF BurstInv
<1> HIDE DEF deqd
<1>3. /\ Len(queue') = Len(queue) - deqd /\ queue' \in Seq(Ops)
      /\ \A i \in 1 .. (Len(queue) - deqd) : queue'[i] = queue[deqd + i]
  BY <1>1, <1>2, QueueShrinks, Zenon DEF BurstInv
<1> HIDE DEF Ops
<1>4. /\ size \in 0 .. MaxJobs /\ ops_enqd_total \in 0 .. size /\ ops_unused \in 0 .. MaxBurst
      /\ ops_deqd_total \in 0 .. size /\ pool \in 0 .. PoolSize
      /\ PoolSize \in Nat /\ MaxBurst \in Nat /\ MaxJobs \in Nat /\ Capacity \in Nat
      /\ Len(queue) \in Nat /\ deqd \in Nat
  BY <1>2, DeviceAssumption DEF BurstInv, TypeOK
<1>5. /\ pool + Len(queue) + ops_unused = PoolSize /\ Len(queue) <= Capacity
      /\ ops_enqd_total = ops_deqd_total + Len(queue)
      /\ ops_unused = size - ops_enqd_total
      /\ pc = "drain" => ops_enqd_total = size /\ ops_unused = 0
  BY <1>4 DEF BurstInv, Accounted, Portions, InHand
<1>6. /\ \A i \in 1 .. Len(queue) : /\ queue[i].job = ops_deqd_total + i
                                    /\ queue[i].status = done[ops_deqd_total + i]
      /\ \A j \in 1 .. ops_deqd_total : status[j] = "SUCC" <=> done[j] = "SUCCESS"
      /\ \A j \in 1 .. size : j > ops_enqd_total => done[j] = "NOT_PROCESSED"
  BY Zenon DEF BurstInv, Matched, Fresh
<1>7. /\ status \in [1 .. size -> {"SUCC", "FAILED"}] /\ done \in [1 .. size -> Outcomes]
      /\ ops_needed \in 0 .. MaxBurst
  BY Zenon DEF BurstInv, TypeOK
<1>8. status' \in [1 .. size -> {"SUCC", "FAILED"}]
  BY <1>1, <1>7, Zenon DEF Results, Answer
<1>9. TypeOK'
  <2>1. ops_deqd_total' \in 0 .. size /\ pool' \in 0 .. PoolSize
    BY <1>1, <1>2, <1>4, <1>5
  <2> QED
    BY <1>3, <1>4, <1>7, <1>8, <2>1, Zenon DEF TypeOK, Ops
<1>10. Accounted' /\ Portions'
  <2>1. /\ pool' + Len(queue') + ops_unused' = PoolSize /\ Len(queue') <= Capacity
        /\ ops_enqd_total' = ops_deqd_total' + Len(queue')
    <3>1. /\ pool' = pool + deqd /\ ops_deqd_total' = ops_deqd_total + deqd
          /\ Len(queue') = Len(queue) - deqd /\ ops_unused' = ops_unused
          /\ ops_enqd_total' = ops_enqd_total
      BY <1>1, <1>3, Zenon
    <3>2. /\ pool \in Int /\ Len(queue) \in Int /\ ops_unused \in Int /\ ops_enqd_total \in Int
          /\ ops_deqd_total \in Int /\ deqd \in Nat /\ Capacity \in Int
      BY <1>4
    <3> QED
      BY <1>5, <3>1, <3>2
  <2>2. pc' \in {"fill", "drain"} /\ InHand' = ops_unused'
    BY <1>4 DEF InHand
  <2>3. Accounted'
    BY <2>1, <2>2, Zenon DEF Accounted
  <2>4. Portions'
    BY <1>5, <2>2, Zenon DEF Portions
  <2> QED
    BY <2>3, <2>4, Zenon
<1>11. \A i \in 1 .. Len(queue') : /\ queue'[i].job = ops_deqd_total' + i
                                   /\ queue'[i].status = done'[ops_deqd_total' + i]
  <2> TAKE i \in 1 .. Len(queue')
  <2>1. deqd + i \in 1 .. Len(queue) /\ queue'[i] = queue[deqd + i] /\ i \in Nat
    BY <1>2, <1>3, <1>4
  <2>2. ops_deqd_total' + i = ops_deqd_total + (deqd + i)
    BY <1>1, <1>4, <2>1
  <2> QED
    BY <1>6, <2>1, <2>2, Zenon
<1>12. \A j \in 1 .. ops_deqd_total' : status'[j] = "SUCC" <=> done'[j] = "SUCCESS"
  <2> TAKE j \in 1 .. ops_deqd_total'
  <2>1. j \in 1 .. size /\ j \in Nat
    <3>1. ops_deqd_total' \in 0 .. size
      BY <1>9 DEF TypeOK
    <3> QED
      BY <1>4, <3>1
  <2>2. CASE j <= ops_deqd_total
    <3>1. j \in 1 .. ops_deqd_total /\ ~(j - ops_deqd_total \in 1 .. deqd)
      BY <1>4, <2>1, <2>2
    <3>2. status'[j] = status[j]
      BY <1>1, <1>7, <2>1, <3>1, Zenon DEF Results
    <3> QED
      BY <1>6, <3>1, <3>2, Zenon
  <2>3. CASE j > ops_deqd_total
    <3>1. /\ j - ops_deqd_total \in 1 .. deqd /\ j - ops_deqd_total \in 1 .. Len(queue)
          /\ ops_deqd_total + (j - ops_deqd_total) = j
      BY <1>1, <1>2, <1>4, <2>1, <2>3
    <3>2. queue[j - ops_deqd_total].status = done[j]
      BY <1>6, <3>1, Zenon
    <3>3. status'[j] = IF queue[j - ops_deqd_total].status = "SUCCESS" THEN "SUCC" ELSE "FAILED"
      BY <1>1, <1>2, <1>7, <2>1, <3>1, Zenon DEF Results, Answer
    <3> QED
      BY <3>2, <3>3, Zenon
  <2> QED
    BY <1>4, <2>1, <2>2, <2>3
<1>13. Matched' /\ Fresh' /\ OpsReturned' /\ AnsweredAsProcessed'
  BY <1>6, <1>11, <1>12, Zenon DEF Matched, Fresh, OpsReturned, AnsweredAsProcessed
<1> QED
  BY <1>9, <1>10, <1>13, Zenon DEF BurstInv

\* The device writes the data of a job whose operation it holds: enqueued
\* and not dequeued.
LEMMA ProcessStep ==
  ASSUME BurstInv, Process
  PROVE  BurstInv'
<1> DEFINE Ops == [job : 1 .. size, status : Outcomes]
<1>1. PICK i \in DOMAIN queue, outcome \in {"SUCCESS", "ERROR"} :
        /\ queue' = [queue EXCEPT ![i].status = outcome]
        /\ done' = [done EXCEPT ![queue[i].job] = outcome]
        /\ UNCHANGED <<pc, size, counters, pool, status>>
  BY Zenon DEF Process
<1>2. UNCHANGED <<pc, size, ops_enqd_total, ops_deqd_total, ops_unused, ops_needed, pool, status>>
  BY <1>1, Zenon DEF counters
<1>3. queue \in Seq(Ops) /\ done \in [1 .. size -> Outcomes] /\ Len(queue) \in Nat
  BY DEF BurstInv, TypeOK
<1>4. i \in 1 .. Len(queue) /\ queue[i] \in Ops /\ outcome \in Outcomes
  <2> HIDE DEF Ops
  <2>1. i \in 1 .. Len(queue) /\ queue[i] \in Ops
    BY <1>3
  <2> QED
    BY <2>1, Zenon DEF Outcomes
<1>5. pc # "idle"
  BY <1>3, <1>4 DEF BurstInv, OpsReturned
<1>6. /\ size \in Nat /\ ops_enqd_total \in 0 .. size /\ ops_deqd_total \in 0 .. size
      /\ ops_enqd_total = ops_deqd_total + Len(queue)
  BY <1>5, DeviceAssumption DEF BurstInv, TypeOK, Accounted
<1>7. \A k \in 1 .. Len(queue) : /\ queue[k].job = ops_deqd_total + k
                                 /\ queue[k].status = done[ops_deqd_total + k]
  BY <1>5, Zenon DEF BurstInv, Matched
<1>8. queue[i].job = ops_deqd_total + i /\ ops_deqd_total + i \in 1 .. size
  BY <1>4, <1>6, <1>7, Zenon
<1> DEFINE new == [queue[i] EXCEPT !.status = outcome]
<1>9. new \in Ops /\ new.job = queue[i].job /\ new.status = outcome
  BY <1>4, Zenon
<1>10. queue' = [queue EXCEPT ![i] = new]
  BY <1>1, Zenon
<1> HIDE DEF Ops, new
<1>11. queue' \in Seq(Ops) /\ Len(queue') = Len(queue)
  BY <1>3, <1>4, <1>9, <1>10
<1>12. /\ \A k \in 1 .. Len(queue) : queue'[k] = IF k = i THEN new ELSE queue[k]
       /\ \A j \in 1 .. size : done'[j] = IF j = ops_deqd_total + i THEN outcome ELSE done[j]
       /\ done' \in [1 .. size -> Outcomes]
  BY <1>1, <1>3, <1>4, <1>8, <1>10
<1>13. TypeOK'
  BY <1>2, <1>11, <1>12, Zenon DEF BurstInv, TypeOK, Ops
<1>14. Accounted' /\ Portions'
  BY <1>2, <1>11, Zenon DEF BurstInv, Accounted, Portions, InHand
<1>15. \A k \in 1 .. Len(queue') : /\ queue'[k].job = ops_deqd_total' + k
                                   /\ queue'[k].status = done'[ops_deqd_total' + k]
  <2> TAKE k \in 1 .. Len(queue')
  <2>1. k \in 1 .. Len(queue) /\ ops_deqd_total + k \in 1 .. size
        /\ (ops_deqd_total + k = ops_deqd_total + i <=> k = i)
    BY <1>4, <1>6, <1>11
  <2> QED
    BY <1>2, <1>7, <1>8, <1>9, <1>12, <2>1, Zenon
<1>16. \A j \in 1 .. size : (j <= ops_deqd_total \/ j > ops_enqd_total) => done'[j] = done[j]
  BY <1>4, <1>6, <1>12
<1>17. Matched'
  <2>1. \A j \in 1 .. ops_deqd_total : j \in 1 .. size /\ j <= ops_deqd_total
    BY <1>6
  <2> QED
    BY <1>2, <1>5, <1>15, <1>16, <2>1, Zenon DEF BurstInv, Matched
<1>18. Fresh' /\ OpsReturned' /\ AnsweredAsProcessed'
  BY <1>2, <1>5, <1>16, Zenon DEF BurstInv, Fresh, OpsReturned, AnsweredAsProcessed
<1> QED
  BY <1>13, <1>14, <1>17, <1>18, Zenon DEF BurstInv

-----------------------------------------------------------------------------
LEMMA BurstInvInit ==
  ASSUME Init
  PROVE  BurstInv
<1>1. /\ pc = "idle" /\ size = 0 /\ pool = PoolSize /\ queue = <<>> /\ status = <<>> /\ done = <<>>
      /\ ops_enqd_total = 0 /\ ops_deqd_total = 0 /\ ops_unused = 0 /\ ops_needed = 0
  BY Zenon DEF Init
<1>2. queue \in Seq([job : 1 .. size, status : Outcomes]) /\ Len(queue) = 0
  BY <1>1
<1>3. status \in [1 .. size -> {"SUCC", "FAILED"}] /\ done \in [1 .. size -> Outcomes]
  BY <1>1
<1>4. TypeOK
  BY <1>1, <1>2, <1>3, DeviceAssumption DEF TypeOK
<1>5. Accounted /\ Portions /\ Matched /\ Fresh /\ OpsReturned /\ AnsweredAsProcessed
  BY <1>1, <1>2, DeviceAssumption
     DEF Accounted, Portions, Matched, Fresh, OpsReturned, AnsweredAsProcessed
<1> QED
  BY <1>4, <1>5, Zenon DEF BurstInv

LEMMA BurstInvStep ==
  ASSUME MaxJobs <= MaxBurst, BurstInv, [Next]_vars
  PROVE  BurstInv'
<1>1. ASSUME NEW n \in 1 .. MaxJobs, Call(n) PROVE BurstInv'
  BY <1>1, CallStep, Zenon
<1>2. CASE Fill
  BY <1>2, FillStep, Zenon
<1>3. CASE FillFails
  BY <1>3, FillFailsStep
<1>4. CASE FillDone
  BY <1>4, FillDoneStep, Zenon
<1>5. CASE Enqueue
  BY <1>5, EnqueueStep
<1>6. CASE Dequeue
  <2>1. ops_needed \in Nat
    BY DeviceAssumption DEF BurstInv, TypeOK
  <2>2. /\ pc \in {"dequeue", "drain"} /\ Take(ops_needed)
        /\ pc' = (IF pc = "dequeue" THEN "fill" ELSE "drain")
        /\ UNCHANGED <<size, ops_enqd_total, ops_unused, ops_needed, done>>
    BY <1>6, Zenon DEF Dequeue
  <2> QED
    BY <2>1, <2>2, TakeStep, Zenon
<1>7. CASE Drain
  <2>1. MaxBurst \in Nat
    BY DeviceAssumption, Zenon
  <2> QED
    BY <1>7, <2>1, TakeStep, Zenon DEF Drain
<1>8. CASE Return
  BY <1>8, ReturnStep
<1>9. CASE Process
  BY <1>9, ProcessStep
<1>10. CASE UNCHANGED vars
  BY <1>10, Zenon DEF vars, counters, BurstInv, TypeOK, Accounted, Portions, InHand, Matched, Fresh,
               OpsReturned, AnsweredAsProcessed
<1> QED
  BY <1>1, <1>2, <1>3, <1>4, <1>5, <1>6, <1>7, <1>8, <1>9, <1>10, Zenon DEF Next

-----------------------------------------------------------------------------
(***************************************************************************)
(* The accounting of operations and their matching to jobs hold in every   *)
(* state of run_jobs_inner, when no burst has more jobs than               *)
(* max_burst_size.                                                         *)
(***************************************************************************)
THEOREM BurstInvariant ==
  ASSUME MaxJobs <= MaxBurst
  PROVE  Spec => []BurstInv
<1>1. Init => BurstInv
  BY BurstInvInit, Zenon
<1>2. BurstInv /\ [Next]_vars => BurstInv'
  BY BurstInvStep, Zenon
<1> QED
  BY <1>1, <1>2, PTL DEF Spec

(***************************************************************************)
(* Whether it fails or not, a call of run_jobs_inner leaves all operations *)
(* in the pool and none on the device, whatever the sizes of the pool and  *)
(* of the ingress queue, and however the device spreads its results.       *)
(***************************************************************************)
THEOREM OpsAreReturned ==
  ASSUME MaxJobs <= MaxBurst
  PROVE  Spec => []OpsReturned
<1>1. BurstInv => OpsReturned
  BY Zenon DEF BurstInv
<1> QED
  BY <1>1, BurstInvariant, PTL

(***************************************************************************)
(* A job of a burst that fits is answered SUCC just when the device        *)
(* processed its own data, whatever portions set_ops_cipher_result is      *)
(* called with.                                                            *)
(***************************************************************************)
THEOREM JobsAnsweredAsProcessed ==
  ASSUME MaxJobs <= MaxBurst
  PROVE  Spec => []AnsweredAsProcessed
<1>1. BurstInv => AnsweredAsProcessed
  BY Zenon DEF BurstInv
<1> QED
  BY <1>1, BurstInvariant, PTL

=============================================================================
