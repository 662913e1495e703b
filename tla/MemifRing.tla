----------------------------- MODULE MemifRing -----------------------------
(***************************************************************************)
(* The index arithmetic of a memif ring (libmemif/src/main.c).             *)
(*                                                                         *)
(* A ring lives in shared memory and has two free running 16 bit indices,  *)
(* head and tail; a descriptor is found by masking an index with the ring  *)
(* size.  On a slave-to-master ring the slave publishes buffers by moving  *)
(* head and the master gives them back by moving tail.  On a               *)
(* master-to-slave ring the slave offers empty buffers by moving head and  *)
(* the master publishes the ones it filled by moving tail.  Each side also *)
(* keeps private state per queue: last_head or last_tail (what it has read *)
(* so far) and alloc_bufs (what it has taken and not yet published).       *)
(*                                                                         *)
(* Every operator below is one function of the library, restricted to one  *)
(* role, applied to the indices it reads.                                  *)
(***************************************************************************)
EXTENDS Integers, Sequences

CONSTANTS
  IndexSpace,  \* number of values of a ring index: 2^16 in the code
  RingSize     \* 1 << log2_ring_size: 2^10 in the application

(***************************************************************************)
(* log2_ring_size is at most 14, so the ring size divides the index space  *)
(* and is at most half of it.                                              *)
(***************************************************************************)
ASSUME RingAssumption ==
  /\ RingSize \in Nat \ {0}
  /\ IndexSpace \in Nat
  /\ 2 * RingSize <= IndexSpace
  /\ IndexSpace % RingSize = 0

\* Assignment of an integer to a uint16_t.
U16(x) == x % IndexSpace

Index == 0 .. (IndexSpace - 1)

\* The descriptor an index denotes: "slot & mask".
Slot(i) == i % RingSize

Slots == 0 .. (RingSize - 1)

Least(a, b) == IF a < b THEN a ELSE b

\* n consecutive descriptor indices, the desc_index fields of a buffer array.
Run(first, n) == [i \in 1 .. n |-> U16(first + i - 1)]

-----------------------------------------------------------------------------
(***************************************************************************)
(* memif_buffer_alloc: ns, the number of buffers the producer may take.    *)
(* A request never needs more than one buffer here (the slave asks for     *)
(* exactly its buffer size, the master for 128 bytes), so the chaining     *)
(* branch is not taken and each of the Least(count, ns) iterations takes   *)
(* one descriptor.                                                         *)
(***************************************************************************)
SlaveFree(head, tail, alloc_bufs) ==
  U16(RingSize - (head + alloc_bufs) + tail)

MasterFree(head, tail, alloc_bufs) ==
  U16(head - (tail + alloc_bufs))

\* The descriptors one call takes; start is head for the slave, tail for
\* the master.
AllocBufs(start, alloc_bufs, count, ns) ==
  Run(start + alloc_bufs, Least(count, ns))

\* memif_tx_burst: how many of count buffers are published.
TxCount(count, alloc_bufs) == Least(count, alloc_bufs)

\* memif_tx_burst: the published index after bufs[1..tx].
TxIndex(index, bufs, tx) ==
  IF tx = 0 THEN index ELSE U16(bufs[tx] + 1)

\* memif_rx_burst: ns, the number of buffers published and not yet read.
RxAvailable(cur_slot, last_slot) == U16(last_slot - cur_slot)

RxBufs(cur_slot, last_slot, count) ==
  Run(cur_slot, Least(RxAvailable(cur_slot, last_slot), count))

\* Mutant: cur_slot is kept in an int and does not wrap.
RxNextUnwrapped(cur_slot, rx) == cur_slot + rx

RxNext(cur_slot, rx) == U16(cur_slot + rx)

\* memif_rx_burst: the result tells whether it left buffers unread.
RxError(cur_slot, last_slot, count) ==
  IF RxAvailable(cur_slot, last_slot) > count THEN "NOBUF" ELSE "SUCCESS"

\* memif_refill_queue of the master: the sum is an int, not a uint16_t.
MasterRefill(tail, last_head, count) ==
  IF tail + count <= last_head THEN tail + count ELSE last_head

\* Mutant: one descriptor is always kept back, as in rings that cannot tell
\* full from empty.
SlaveRefillShort(head, last_tail, count) ==
  U16(head + Least(count, U16(RingSize - 1 - head + last_tail)))

\* memif_refill_queue of the slave.
SlaveRefill(head, last_tail, count) ==
  U16(head + Least(count, U16(RingSize - head + last_tail)))

\* The descriptors whose length and offset the slave's refill resets: the
\* loop "while (slot < head)" compares the wrapped indices as they are.
SlaveResetSlots(head, newHead) ==
  {Slot(i) : i \in head .. (newHead - 1)}
=============================================================================
