----------------------------- MODULE DeviceBurst -----------------------------
(***************************************************************************)
(* Dpdk_cryptodev_client::run_jobs_inner: the ciphering jobs of a burst    *)
(* that belong to one device are turned into crypto operations, enqueued   *)
(* on the device and dequeued when they are processed.  The first loop     *)
(* enqueues, and dequeues what is ready meanwhile; the second one drains   *)
(* the device.                                                             *)
(*                                                                         *)
(* The device is a queue that processes operations in order, at its own    *)
(* pace, and takes at most Capacity of them.  Jobs are numbered as         *)
(* dev_vecs_idxs lists them.                                               *)
(***************************************************************************)
EXTENDS Integers, Sequences

CONSTANTS
  MaxJobs,   \* most jobs of a burst for one device
  MaxBurst,  \* _opts.max_burst_size
  PoolSize,  \* _opts.pool_sz: operations in _ops_mp
  Capacity   \* operations the ingress queue of the device holds

ASSUME DeviceAssumption ==
  /\ MaxJobs \in Nat \ {0} /\ MaxBurst \in Nat \ {0}
  /\ PoolSize \in Nat /\ Capacity \in Nat

VARIABLES
  pc,             \* where run_jobs_inner is
  size,           \* dev_vecs_size
  ops_enqd_total,
  ops_deqd_total,
  ops_unused,
  ops_needed,
  pool,           \* free operations of _ops_mp
  queue,          \* operations on the device, oldest first
  status,         \* op_status of each job
  done            \* what the device did with the data of each job

counters == <<ops_enqd_total, ops_deqd_total, ops_unused, ops_needed>>
vars == <<pc, size, counters, pool, queue, status, done>>

Outcomes == {"NOT_PROCESSED", "SUCCESS", "ERROR"}

Lesser(a, b) == IF a < b THEN a ELSE b

Op(job) == [job |-> job, status |-> "NOT_PROCESSED"]

\* Operations a dequeue of at most count returns: the oldest ones, as far as
\* they are processed.
Ready(count) ==
  LET pending == {i \in DOMAIN queue : queue[i].status = "NOT_PROCESSED"}
      processed == IF pending = {} THEN Len(queue)
                   ELSE (CHOOSE i \in pending : \A j \in pending : i <= j) - 1
  IN  Lesser(count, processed)

Init ==
  /\ pc = "idle" /\ size = 0
  /\ ops_enqd_total = 0 /\ ops_deqd_total = 0 /\ ops_unused = 0 /\ ops_needed = 0
  /\ pool = PoolSize
  /\ queue = <<>>
  /\ status = <<>> /\ done = <<>>

\* preprocess_jobs has counted n jobs for the device and set them to SUCC.
Call(n) ==
  /\ pc = "idle"
  /\ size' = n
  /\ ops_enqd_total' = 0 /\ ops_deqd_total' = 0 /\ ops_unused' = 0 /\ ops_needed' = 0
  /\ status' = [j \in 1 .. n |-> "SUCC"]
  /\ done' = [j \in 1 .. n |-> "NOT_PROCESSED"]
  /\ pc' = "fill"
  /\ UNCHANGED <<pool, queue>>

BurstSize ==
  IF ops_enqd_total + MaxBurst <= size THEN MaxBurst ELSE size - ops_enqd_total

\* Top of the first loop: operations are taken from the pool.
Fill ==
  /\ pc = "fill"
  /\ ops_enqd_total < size
  /\ ops_needed' = BurstSize - ops_unused
  /\ ops_needed' <= pool
  /\ pool' = pool - ops_needed'
  /\ pc' = "enqueue"
  /\ UNCHANGED <<size, ops_enqd_total, ops_deqd_total, ops_unused, queue, status, done>>

\* Mutant: the pool hands out what it has.
FillFailsPartly ==
  /\ pc = "fill"
  /\ ops_enqd_total < size
  /\ BurstSize - ops_unused > pool
  /\ pool' = 0
  /\ pc' = "idle"
  /\ UNCHANGED <<size, counters, queue, status, done>>

\* The pool has too few operations: return -1.
FillFails ==
  /\ pc = "fill"
  /\ ops_enqd_total < size
  /\ BurstSize - ops_unused > pool
  /\ pc' = "idle"
  /\ UNCHANGED <<size, counters, pool, queue, status, done>>

FillDone ==
  /\ pc = "fill"
  /\ ops_enqd_total >= size
  /\ pc' = "drain"
  /\ UNCHANGED <<size, counters, pool, queue, status, done>>

\* set_ops_cipher fills the operations from the first job on; the device
\* takes as many as it has room for.
Enqueue ==
  LET enqd == Lesser(ops_needed, Capacity - Len(queue))
  IN  /\ pc = "enqueue"
      /\ queue' = queue \o [i \in 1 .. enqd |-> Op(i)]
      /\ ops_unused' = BurstSize - enqd
      /\ ops_enqd_total' = ops_enqd_total + enqd
      /\ pc' = "dequeue"
      /\ UNCHANGED <<size, ops_deqd_total, ops_needed, pool, status, done>>

\* What an operation says of a job; one that was not processed says nothing.
Answer(op, before) ==
  IF op.status = "NOT_PROCESSED" THEN before
  ELSE IF op.status = "SUCCESS" THEN "SUCC" ELSE "FAILED"

\* Mutant: the jobs dequeued before are not counted.
ResultsFromStart(deqd) ==
  status' = [j \in DOMAIN status |->
               IF j \in 1 .. deqd
               THEN Answer(queue[j], status[j])
               ELSE status[j]]

\* set_ops_cipher_result
Results(deqd) ==
  status' = [j \in DOMAIN status |->
               IF j - ops_deqd_total \in 1 .. deqd
               THEN Answer(queue[j - ops_deqd_total], status[j])
               ELSE status[j]]

\* rte_cryptodev_dequeue_burst, results, operations put back.
Take(count) ==
  LET deqd == Ready(count)
  IN  /\ Results(deqd)
      /\ queue' = SubSeq(queue, deqd + 1, Len(queue))
      /\ pool' = pool + deqd
      /\ ops_deqd_total' = ops_deqd_total + deqd

\* Mutant: what the first loop dequeues is not counted.
DequeueUncounted ==
  LET deqd == Ready(ops_needed)
  IN  /\ pc = "dequeue"
      /\ Results(deqd)
      /\ queue' = SubSeq(queue, deqd + 1, Len(queue))
      /\ pool' = pool + deqd
      /\ pc' = "fill"
      /\ UNCHANGED <<size, ops_enqd_total, ops_deqd_total, ops_unused, ops_needed, done>>

Dequeue ==
  /\ pc = "dequeue"
  /\ Take(ops_needed)
  /\ pc' = "fill"
  /\ UNCHANGED <<size, ops_enqd_total, ops_unused, ops_needed, done>>

Drain ==
  /\ pc = "drain"
  /\ ops_deqd_total < size
  /\ Take(MaxBurst)
  /\ UNCHANGED <<pc, size, ops_enqd_total, ops_unused, ops_needed, done>>

Return ==
  /\ pc = "drain"
  /\ ops_deqd_total >= size
  /\ pc' = "idle"
  /\ UNCHANGED <<size, counters, pool, queue, status, done>>

\* The device processes the oldest operation it has not processed.
Process ==
  \E i \in DOMAIN queue, outcome \in {"SUCCESS", "ERROR"} :
    /\ queue[i].status = "NOT_PROCESSED"
    /\ \A j \in 1 .. (i - 1) : queue[j].status # "NOT_PROCESSED"
    /\ queue' = [queue EXCEPT ![i].status = outcome]
    /\ done' = [done EXCEPT ![queue[i].job] = outcome]
    /\ UNCHANGED <<pc, size, counters, pool, status>>

Step == Fill \/ FillFails \/ FillDone \/ Enqueue \/ Dequeue \/ Drain \/ Return

Next ==
  \/ \E n \in 1 .. MaxJobs : Call(n)
  \/ Fill \/ FillFails \/ FillDone \/ Enqueue \/ Dequeue \/ Drain \/ Return
  \/ Process

Spec == Init /\ [][Next]_vars

\* run_jobs_inner keeps running and the device keeps processing.
FairSpec == Spec /\ WF_vars(Step) /\ WF_vars(Process)

-----------------------------------------------------------------------------
\* Types of the counters, of the device queue and of the job status.
TypeOK ==
  /\ pc \in {"idle", "fill", "enqueue", "dequeue", "drain"}
  /\ size \in 0 .. MaxJobs
  /\ ops_enqd_total \in 0 .. size /\ ops_deqd_total \in 0 .. size
  /\ ops_unused \in 0 .. MaxBurst /\ ops_needed \in 0 .. MaxBurst
  /\ pool \in 0 .. PoolSize
  /\ queue \in Seq([job : 1 .. size, status : Outcomes])
  /\ status \in [1 .. size -> {"SUCC", "FAILED"}]
  /\ done \in [1 .. size -> Outcomes]

\* A burst that one round of the first loop handles: operations, the burst
\* and the ingress queue are large enough.
Fits(n) == n <= PoolSize /\ n <= MaxBurst /\ n <= Capacity

(***************************************************************************)
(* When run_jobs_inner has returned from a burst that fits, a job is       *)
(* answered SUCC just when the device has successfully processed its own   *)
(* data, although results are dequeued in portions and matched to jobs by  *)
(* position only.                                                          *)
(***************************************************************************)
AnsweredAsProcessed ==
  pc = "idle" /\ Fits(size) =>
    \A j \in 1 .. size : status[j] = "SUCC" <=> done[j] = "SUCCESS"

(***************************************************************************)
(* No call, whether it fails or not, keeps operations of the pool or       *)
(* leaves operations on the device for a later call to dequeue.            *)
(***************************************************************************)
OpsReturned == pc = "idle" => pool = PoolSize /\ queue = <<>>

(***************************************************************************)
(* run_jobs_inner returns, whenever the device gets to processing.  The    *)
(* application thread holds the mutex of the channel meanwhile.            *)
(***************************************************************************)
BurstReturns == (pc # "idle") ~> (pc = "idle")

(***************************************************************************)
(* run_jobs_inner returns from every burst that fits, however the device   *)
(* spreads its results over the dequeues of the two loops.                 *)
(***************************************************************************)
FittingBurstReturns == (pc # "idle" /\ Fits(size)) ~> (pc = "idle")
=============================================================================
