---------------------------- MODULE MemoryLayout ----------------------------
(***************************************************************************)
(* How a slave lays out the memory it shares: region 0 holds the rings,    *)
(* region 1 the packet buffers, and every ring is created with one         *)
(* descriptor per slot that points at a buffer.  The number of a buffer is *)
(* computed in a uint16_t, offsets and region sizes are 32 bits wide.      *)
(*                                                                         *)
(* memif_init_regions_and_queues adds the two regions, then fills first    *)
(* the slave-to-master and then the master-to-slave rings, then makes the  *)
(* queues, whose offsets the master is told in ADD_RING.                   *)
(***************************************************************************)
EXTENDS Naturals

CONSTANTS
  RingHead,   \* sizeof (memif_ring_t)
  DescSize,   \* sizeof (memif_desc_t)
  SlotRange,  \* values of a uint16_t
  OffRange,   \* values of a uint32_t
  Args        \* run_args of connections: [s2m, m2s, size, buf], size = 2^log2_ring_size

NumRings(a) == a.s2m + a.m2s
RingSize(a) == RingHead + DescSize * a.size

\* What the arguments must satisfy: all buffers have numbers in SlotRange, and
\* both regions can be addressed.  conn_alloc asks for 4 rings of 1024 slots
\* with buffers of 16384 bytes: 2^12 buffers, 2^26 bytes.
ASSUME LayoutAssumption ==
  /\ RingHead \in Nat \ {0} /\ DescSize \in Nat \ {0}
  /\ SlotRange \in Nat \ {0} /\ OffRange \in Nat \ {0}
  /\ Args \subseteq [s2m : Nat, m2s : Nat, size : Nat \ {0}, buf : Nat \ {0}]
  /\ \A a \in Args :
       /\ NumRings(a) * a.size <= SlotRange
       /\ (NumRings(a) * a.size) * a.buf < OffRange
       /\ NumRings(a) * RingSize(a) < OffRange

VARIABLES
  args,     \* run_args of the connection
  step,     \* what is done next
  next,     \* the ring that is filled next
  regions,  \* size of each region, 0 before it is added
  ringAt,   \* offset of each ring in region 0, once it is filled
  descs,    \* its descriptors: offsets in region 1
  queueAt   \* offsets of the queues: what the master is told

vars == <<args, step, next, regions, ringAt, descs, queueAt>>

Unset == [at |-> 0, length |-> 0]
Rings == 0 .. (NumRings(args) - 1)
Slots == 0 .. (args.size - 1)

\* Mutant: the direction of the ring is not counted.
GetRingUndirected(r) == (r % args.s2m) * RingSize(args)

\* memif_get_ring: rings of the second direction come after those of the first.
GetRing(r) == r * RingSize(args)

\* Mutant: the buffers of the second direction start again from 0.
SlotOfDirection(r, j) ==
  (IF r < args.s2m THEN r * args.size + j ELSE (r - args.s2m) * args.size + j) % SlotRange

\* The number of the buffer of slot j of ring r, in a uint16_t.
Slot(r, j) == (r * args.size + j) % SlotRange

\* A descriptor as memif_init_queues writes it.
Desc(r, j) == [at |-> (Slot(r, j) * args.buf) % OffRange, length |-> args.buf]

Init ==
  /\ args \in Args
  /\ step = "regions"
  /\ next = 0
  /\ regions = [rings |-> 0, buffers |-> 0]
  /\ ringAt = [r \in Rings |-> 0]
  /\ descs = [r \in Rings |-> [j \in Slots |-> Unset]]
  /\ queueAt = [r \in Rings |-> 0]

\* memif_add_region, called for the rings and for the buffers.
AddRegions ==
  /\ step = "regions"
  /\ regions' = [rings |-> (NumRings(args) * RingSize(args)) % OffRange,
                 buffers |-> ((NumRings(args) * args.size) * args.buf) % OffRange]
  /\ step' = "fill"
  /\ UNCHANGED <<args, next, ringAt, descs, queueAt>>

\* memif_add_region fails for the rings, nobody looks at its result, and
\* memif_init_queues writes through an address that is not mapped.  A region
\* of buffers that is not mapped changes nothing here: its size is set before.
RingRegionFails ==
  /\ step = "regions"
  /\ step' = "dead"
  /\ UNCHANGED <<args, next, regions, ringAt, descs, queueAt>>

\* One pass of the loops of memif_init_queues over the rings.
FillRing ==
  /\ step = "fill" /\ next \in Rings
  /\ ringAt' = [ringAt EXCEPT ![next] = GetRing(next)]
  /\ descs' = [descs EXCEPT ![next] = [j \in Slots |-> Desc(next, j)]]
  /\ next' = next + 1
  /\ UNCHANGED <<args, step, regions, queueAt>>

\* The queues of both directions get the offsets of their rings.
MakeQueues ==
  /\ step = "fill" /\ next \notin Rings
  /\ queueAt' = [r \in Rings |-> GetRing(r) % OffRange]
  /\ step' = "done"
  /\ UNCHANGED <<args, next, regions, ringAt, descs>>

Next == AddRegions \/ RingRegionFails \/ FillRing \/ MakeQueues

Spec == Init /\ [][Next]_vars
-----------------------------------------------------------------------------
Filled(r) == r < next

\* No two slots share a byte of a buffer, also not slots of different rings,
\* and every buffer lies inside the region of the buffers.
BuffersApart ==
  \A r, q \in Rings : \A j, k \in Slots :
    Filled(r) =>
      /\ descs[r][j].at + descs[r][j].length <= regions.buffers
      /\ Filled(q) /\ <<r, j>> # <<q, k>> =>
           \/ descs[r][j].at + descs[r][j].length <= descs[q][k].at
           \/ descs[q][k].at + descs[q][k].length <= descs[r][j].at

\* The queues the master is told about are rings that do not overlap and lie
\* inside the region of the rings.
RingsApart ==
  step = "done" =>
    \A r, q \in Rings :
      /\ queueAt[r] = ringAt[r]
      /\ queueAt[r] + RingSize(args) <= regions.rings
      /\ r # q => \/ queueAt[r] + RingSize(args) <= queueAt[q]
                  \/ queueAt[q] + RingSize(args) <= queueAt[r]
=============================================================================
