------------------------ MODULE SharedBuffersProofs -------------------------
(***************************************************************************)
(* The layout of the shared memory is right for every number and size of   *)
(* rings and buffers that the widths of slot numbers and offsets can hold, *)
(* and a copy into a buffer is complete and stays inside that buffer, for  *)
(* every size and alignment.                                               *)
(***************************************************************************)
EXTENDS SharedBuffers, TLAPS

(***************************************************************************)
(* Arithmetic.                                                             *)
(***************************************************************************)

\* A product grows with its first factor.
LEMMA ProductGrows ==
  ASSUME NEW a \in Nat, NEW b \in Nat, NEW c \in Nat, a <= b
  PROVE  a * c <= b * c
  OBVIOUS

\* A product of naturals is a natural.
LEMMA ProductNat ==
  ASSUME NEW a \in Nat, NEW c \in Nat
  PROVE  a * c \in Nat
  OBVIOUS

\* One step of a product.
LEMMA ProductNext ==
  ASSUME NEW a \in Nat, NEW c \in Nat
  PROVE  (a + 1) * c = a * c + c
  OBVIOUS

\* A value below the modulus is not changed.
LEMMA ModSmall ==
  ASSUME NEW x \in Nat, NEW m \in Nat \ {0}, x < m
  PROVE  x % m = x
  OBVIOUS
-----------------------------------------------------------------------------
(***************************************************************************)
(* What the invariant knows: regions have their full size, and the rings   *)
(* filled so far have the descriptors and offsets of the formulas.         *)
(***************************************************************************)
LayoutInv ==
  /\ args \in Args
  /\ step \in {"regions", "fill", "done", "dead"}
  /\ next \in Nat /\ next <= NumRings(args)
  /\ step \in {"regions", "dead"} => next = 0
  /\ step = "done" => next = NumRings(args)
  /\ step \in {"fill", "done"} =>
       /\ regions.rings = NumRings(args) * RingSize(args)
       /\ regions.buffers = (NumRings(args) * args.size) * args.buf
  /\ DOMAIN descs = Rings /\ DOMAIN ringAt = Rings
  /\ \A r \in Rings : r < next =>
       /\ descs[r] = [j \in Slots |-> Desc(r, j)]
       /\ ringAt[r] = GetRing(r)
  /\ step = "done" => queueAt = [r \in Rings |-> GetRing(r) % OffRange]

\* The types of the arguments.
LEMMA ArgTypes ==
  ASSUME args \in Args
  PROVE  /\ args.s2m \in Nat /\ args.m2s \in Nat
         /\ args.size \in Nat \ {0} /\ args.buf \in Nat \ {0}
         /\ NumRings(args) \in Nat /\ RingSize(args) \in Nat
         /\ NumRings(args) * args.size <= SlotRange
         /\ (NumRings(args) * args.size) * args.buf < OffRange
         /\ NumRings(args) * RingSize(args) < OffRange
<1>1. /\ args.s2m \in Nat /\ args.m2s \in Nat
      /\ args.size \in Nat \ {0} /\ args.buf \in Nat \ {0}
  BY LayoutAssumption
<1>2. NumRings(args) \in Nat
  BY <1>1 DEF NumRings
<1>3. RingSize(args) \in Nat
  BY <1>1, LayoutAssumption, ProductNat DEF RingSize
<1>. QED
  BY <1>1, <1>2, <1>3, LayoutAssumption

\* Slot numbers do not wrap: the buffer of slot j of ring r is the one the
\* formula says, and it is one of the buffers of the region.
LEMMA SlotExact ==
  ASSUME args \in Args, NEW r \in Rings, NEW j \in Slots
  PROVE  /\ Slot(r, j) = r * args.size + j
         /\ r * args.size + j \in Nat
         /\ r * args.size + j < (r + 1) * args.size
         /\ (r + 1) * args.size <= NumRings(args) * args.size
<1>. DEFINE total == NumRings(args)  z == args.size
<1>1. total \in Nat /\ z \in Nat \ {0} /\ total * z <= SlotRange /\ SlotRange \in Nat \ {0}
  BY ArgTypes, LayoutAssumption
<1>2. r \in Nat /\ r + 1 <= total /\ j \in Nat /\ j < z
  BY <1>1 DEF Rings, Slots
<1>. HIDE DEF total, z
<1>3. r * z \in Nat /\ (r + 1) * z = r * z + z /\ (r + 1) * z <= total * z
  <2>1. r * z \in Nat
    BY <1>1, <1>2, ProductNat
  <2>2. (r + 1) * z = r * z + z
    BY <1>1, <1>2, ProductNext
  <2>3. (r + 1) * z <= total * z
    BY <1>1, <1>2, ProductGrows
  <2>. QED
    BY <2>1, <2>2, <2>3
<1>4. total * z \in Nat
  BY <1>1, ProductNat
<1>5. r * z + j \in Nat /\ r * z + j < (r + 1) * z
  BY <1>1, <1>2, <1>3
<1>6. r * z + j < SlotRange
  BY <1>1, <1>3, <1>4, <1>5
<1>7. (r * z + j) % SlotRange = r * z + j
  BY <1>1, <1>5, <1>6, ModSmall
<1>. QED
  BY <1>3, <1>5, <1>7 DEF Slot, total, z

\* Different slots have different buffers.
LEMMA SlotsDiffer ==
  ASSUME args \in Args, NEW r \in Rings, NEW q \in Rings,
         NEW j \in Slots, NEW k \in Slots, <<r, j>> # <<q, k>>
  PROVE  r * args.size + j # q * args.size + k
<1>. DEFINE z == args.size
<1>1. z \in Nat \ {0} /\ NumRings(args) \in Nat
  BY ArgTypes
<1>2. r \in Nat /\ q \in Nat /\ j \in Nat /\ k \in Nat
  BY <1>1 DEF Rings, Slots
<1>3. /\ r * z + j < (r + 1) * z
      /\ q * z + k < (q + 1) * z
  BY SlotExact
<1>. HIDE DEF z
<1>4. r * z \in Nat /\ q * z \in Nat /\ (r + 1) * z \in Nat /\ (q + 1) * z \in Nat
  BY <1>1, <1>2, ProductNat
<1>5. CASE r = q
  BY <1>2, <1>4, <1>5 DEF z
<1>6. CASE r < q
  <2>1. (r + 1) * z <= q * z
    BY <1>1, <1>2, <1>6, ProductGrows
  <2>. QED
    BY <2>1, <1>2, <1>3, <1>4 DEF z
<1>7. CASE q < r
  <2>1. (q + 1) * z <= r * z
    BY <1>1, <1>2, <1>7, ProductGrows
  <2>. QED
    BY <2>1, <1>2, <1>3, <1>4 DEF z
<1>. QED
  BY <1>2, <1>5, <1>6, <1>7

\* Buffers with different numbers do not overlap, and all lie in the region.
LEMMA DescExact ==
  ASSUME args \in Args, NEW r \in Rings, NEW j \in Slots
  PROVE  /\ Desc(r, j).at = (r * args.size + j) * args.buf
         /\ Desc(r, j).length = args.buf
         /\ Desc(r, j).at \in Nat
         /\ Desc(r, j).at + args.buf <= (NumRings(args) * args.size) * args.buf
<1>. DEFINE s == r * args.size + j
            total == NumRings(args) * args.size
            b == args.buf
<1>1. b \in Nat \ {0} /\ total \in Nat /\ total * b < OffRange /\ OffRange \in Nat \ {0}
  BY ArgTypes, LayoutAssumption, ProductNat
<1>2. s \in Nat /\ s + 1 <= total /\ Slot(r, j) = s
  <2>1. /\ s \in Nat /\ Slot(r, j) = s
        /\ s < (r + 1) * args.size /\ (r + 1) * args.size <= total
    BY SlotExact
  <2>2. (r + 1) * args.size \in Nat
    BY ArgTypes, ProductNat DEF Rings
  <2>. QED
    BY <1>1, <2>1, <2>2
<1>. HIDE DEF s, total, b
<1>3. s * b \in Nat /\ s * b + b <= total * b
  <2>1. s * b \in Nat /\ total * b \in Nat
    BY <1>1, <1>2, ProductNat
  <2>2. (s + 1) * b = s * b + b
    BY <1>1, <1>2, ProductNext
  <2>3. (s + 1) * b <= total * b
    BY <1>1, <1>2, ProductGrows
  <2>. QED
    BY <2>1, <2>2, <2>3
<1>4. total * b \in Nat
  BY <1>1, ProductNat
<1>5. (s * b) % OffRange = s * b
  BY <1>1, <1>3, <1>4, ModSmall
<1>. QED
  BY <1>2, <1>3, <1>5 DEF Desc, s, total, b

\* The layout invariant is inductive.
THEOREM LayoutInvariant == Spec => []LayoutInv
<1>1. Init => LayoutInv
  <2>. SUFFICES ASSUME Init PROVE LayoutInv
    OBVIOUS
  <2>1. NumRings(args) \in Nat
    BY ArgTypes DEF Init
  <2>. QED
    BY <2>1 DEF Init, LayoutInv, Rings
<1>2. LayoutInv /\ [Next]_vars => LayoutInv'
  <2>. SUFFICES ASSUME LayoutInv, [Next]_vars PROVE LayoutInv'
    OBVIOUS
  <2>. USE DEF LayoutInv
  <2>0. NumRings(args) \in Nat /\ args.size \in Nat \ {0}
    BY ArgTypes
  <2>1. CASE AddRegions
    <3>1. /\ regions'.rings = NumRings(args) * RingSize(args)
          /\ regions'.buffers = (NumRings(args) * args.size) * args.buf
      <4>1. /\ NumRings(args) * RingSize(args) \in Nat
            /\ (NumRings(args) * args.size) * args.buf \in Nat
        BY ArgTypes, ProductNat
      <4>. QED
        BY <2>1, <4>1, ArgTypes, LayoutAssumption, ModSmall DEF AddRegions
    <3>. QED
      BY <2>1, <3>1 DEF AddRegions, Rings, Slots, Desc, Slot, GetRing
  <2>5. CASE RingRegionFails
    BY <2>5 DEF RingRegionFails, Rings, Slots, Desc, Slot, GetRing
  <2>2. CASE FillRing
    <3>1. /\ args' = args /\ step' = step /\ regions' = regions /\ queueAt' = queueAt
          /\ next' = next + 1 /\ next \in Rings /\ step = "fill"
      BY <2>2 DEF FillRing
    <3>2. /\ DOMAIN descs' = Rings /\ DOMAIN ringAt' = Rings
          /\ descs'[next] = [j \in Slots |-> Desc(next, j)]
          /\ ringAt'[next] = GetRing(next)
          /\ \A r \in Rings \ {next} : descs'[r] = descs[r] /\ ringAt'[r] = ringAt[r]
      BY <2>2 DEF FillRing
    <3>3. \A r \in Rings : r < next' => r = next \/ r < next
      BY <3>1, <2>0 DEF Rings
    <3>4. next' \in Nat /\ next' <= NumRings(args)
      BY <3>1, <2>0 DEF Rings
    <3>. QED
      BY <3>1, <3>2, <3>3, <3>4 DEF Rings, Slots, Desc, Slot, GetRing
  <2>3. CASE MakeQueues
    <3>1. next = NumRings(args)
      BY <2>3, <2>0 DEF MakeQueues, Rings
    <3>. QED
      BY <2>3, <3>1 DEF MakeQueues, Rings, Slots, Desc, Slot, GetRing
  <2>4. CASE UNCHANGED vars
    BY <2>4 DEF vars, Rings, Slots, Desc, Slot, GetRing
  <2>. QED
    BY <2>1, <2>2, <2>3, <2>4, <2>5 DEF Next
<1>. QED
  BY <1>1, <1>2, PTL DEF Spec

\* For all ring counts, ring sizes and buffer sizes that fit the widths, the
\* buffers memif_init_queues hands to the descriptors never overlap and lie
\* inside the buffer region.
THEOREM BuffersNeverOverlap == Spec => []BuffersApart
<1>1. LayoutInv => BuffersApart
  <2>. SUFFICES ASSUME LayoutInv,
                       NEW r \in Rings, NEW q \in Rings, NEW j \in Slots, NEW k \in Slots,
                       Filled(r)
                PROVE  /\ descs[r][j].at + descs[r][j].length <= regions.buffers
                       /\ Filled(q) /\ <<r, j>> # <<q, k>> =>
                            \/ descs[r][j].at + descs[r][j].length <= descs[q][k].at
                            \/ descs[q][k].at + descs[q][k].length <= descs[r][j].at
    BY DEF BuffersApart
  <2>0. args \in Args /\ descs[r][j] = Desc(r, j) /\ (Filled(q) => descs[q][k] = Desc(q, k))
    BY DEF LayoutInv, Filled
  <2>1. step \in {"fill", "done"}
    BY ArgTypes DEF LayoutInv, Filled, Rings
  <2>2. descs[r][j].at + descs[r][j].length <= regions.buffers
    BY <2>0, <2>1, DescExact DEF LayoutInv
  <2>3. ASSUME Filled(q), <<r, j>> # <<q, k>>
        PROVE  \/ descs[r][j].at + descs[r][j].length <= descs[q][k].at
               \/ descs[q][k].at + descs[q][k].length <= descs[r][j].at
    <3>. DEFINE s == r * args.size + j
                t == q * args.size + k
                b == args.buf
    <3>1. /\ descs[r][j].at = s * b /\ descs[r][j].length = b
          /\ descs[q][k].at = t * b /\ descs[q][k].length = b
      BY <2>0, <2>3, DescExact
    <3>2. s # t /\ s \in Nat /\ t \in Nat /\ b \in Nat
      BY <2>0, <2>3, SlotsDiffer, SlotExact, ArgTypes
    <3>. HIDE DEF s, t, b
    <3>3. (s + 1) * b = s * b + b /\ (t + 1) * b = t * b + b
      BY <3>2, ProductNext
    <3>4. CASE s < t
      <4>1. (s + 1) * b <= t * b
        BY <3>2, <3>4, ProductGrows
      <4>. QED
        BY <3>1, <3>3, <4>1
    <3>5. CASE t < s
      <4>1. (t + 1) * b <= s * b
        BY <3>2, <3>5, ProductGrows
      <4>. QED
        BY <3>1, <3>3, <4>1
    <3>. QED
      BY <3>2, <3>4, <3>5
  <2>. QED
    BY <2>2, <2>3
<1>. QED
  BY <1>1, LayoutInvariant, PTL

\* For all ring counts and sizes that fit, the rings the master is told about
\* never overlap and lie inside the ring region.
THEOREM RingsNeverOverlap == Spec => []RingsApart
<1>1. LayoutInv => RingsApart
  <2>. SUFFICES ASSUME LayoutInv, step = "done", NEW r \in Rings, NEW q \in Rings
                PROVE  /\ queueAt[r] = ringAt[r]
                       /\ queueAt[r] + RingSize(args) <= regions.rings
                       /\ r # q => \/ queueAt[r] + RingSize(args) <= queueAt[q]
                                   \/ queueAt[q] + RingSize(args) <= queueAt[r]
    BY DEF RingsApart
  <2>. DEFINE z == RingSize(args)  total == NumRings(args)
  <2>1. total \in Nat /\ z \in Nat /\ total * z < OffRange /\ OffRange \in Nat \ {0}
    BY ArgTypes, LayoutAssumption DEF LayoutInv
  <2>2. r \in Nat /\ q \in Nat /\ r + 1 <= total /\ q + 1 <= total
    BY <2>1 DEF Rings
  <2>3. /\ ringAt[r] = r * z /\ regions.rings = total * z
        /\ queueAt[r] = (r * z) % OffRange /\ queueAt[q] = (q * z) % OffRange
    BY <2>1, <2>2 DEF LayoutInv, GetRing
  <2>. HIDE DEF z, total
  <2>4. /\ r * z \in Nat /\ q * z \in Nat /\ total * z \in Nat
        /\ (r + 1) * z = r * z + z /\ (q + 1) * z = q * z + z
    BY <2>1, <2>2, ProductNat, ProductNext
  <2>5. (r + 1) * z <= total * z /\ (q + 1) * z <= total * z
    BY <2>1, <2>2, ProductGrows
  <2>6. queueAt[r] = r * z /\ queueAt[q] = q * z
    <3>1. r * z < OffRange /\ q * z < OffRange
      <4>1. r * z <= total * z /\ q * z <= total * z
        BY <2>1, <2>2, ProductGrows
      <4>. QED
        BY <2>1, <2>4, <4>1
    <3>. QED
      BY <2>1, <2>3, <2>4, <3>1, ModSmall
  <2>7. CASE r < q
    <3>1. (r + 1) * z <= q * z
      BY <2>1, <2>2, <2>7, ProductGrows
    <3>. QED
      BY <2>3, <2>4, <2>5, <2>6, <3>1 DEF z
  <2>8. CASE q < r
    <3>1. (q + 1) * z <= r * z
      BY <2>1, <2>2, <2>8, ProductGrows
    <3>. QED
      BY <2>3, <2>4, <2>5, <2>6, <3>1 DEF z
  <2>9. CASE r = q
    BY <2>3, <2>4, <2>5, <2>6, <2>9 DEF z
  <2>. QED
    BY <2>2, <2>7, <2>8, <2>9
<1>. QED
  BY <1>1, LayoutInvariant, PTL

-----------------------------------------------------------------------------
(***************************************************************************)
(* The copy routine.  Moves cover the first k bytes of the call, and none  *)
(* of them leaves its s bytes.                                             *)
(***************************************************************************)
Covered(ms, k) == \A i \in Nat : i < k => \E m \in ms : m[1] <= i /\ i < m[1] + m[2]

Inside(ms, s) == \A m \in ms : m[1] \in Nat /\ m[2] \in Nat /\ m[1] + m[2] <= s

\* One move at the end of what is covered.
LEMMA MoveCovers ==
  ASSUME NEW ms, NEW o \in Nat, NEW l \in Nat, NEW a \in Nat,
         a <= l, Covered(ms, o)
  PROVE  Covered(ms \cup {<<o, l>>}, o + a)
<1>. SUFFICES ASSUME NEW i \in Nat, i < o + a
              PROVE  \E m \in ms \cup {<<o, l>>} : m[1] <= i /\ i < m[1] + m[2]
  BY DEF Covered
<1>1. CASE i < o
  BY <1>1 DEF Covered
<1>2. CASE i >= o
  <2>1. <<o, l>> \in ms \cup {<<o, l>>}
    OBVIOUS
  <2>2. <<o, l>>[1] <= i /\ i < <<o, l>>[1] + <<o, l>>[2]
    BY <1>2
  <2>. QED
    BY <2>1, <2>2, Zenon
<1>. QED
  BY <1>1, <1>2

\* One move inside the bytes of the call.
LEMMA MoveInside ==
  ASSUME NEW ms, NEW s \in Nat, NEW o \in Nat, NEW l \in Nat,
         o + l <= s, Inside(ms, s)
  PROVE  Inside(ms \cup {<<o, l>>}, s)
  BY DEF Inside

\* The moves made when o bytes are covered and k are left, with registers of w.
TailMoves(ms, o, k, w) ==
  ms \cup (IF k > 0 THEN {<<o - w + k, w>>} ELSE {})
     \cup (IF k > w THEN {<<o, w>>} ELSE {})

\* Two registers from the end, or one, cover a tail of up to two registers.
LEMMA TailCovers ==
  ASSUME NEW ms, NEW o \in Nat, NEW k \in Nat, NEW w \in Nat \ {0},
         k <= 2 * w, o + k >= w, Covered(ms, o)
  PROVE  Covered(TailMoves(ms, o, k, w), o + k)
<1>. DEFINE all == TailMoves(ms, o, k, w)
<1>. SUFFICES ASSUME NEW i \in Nat, i < o + k
              PROVE  \E m \in all : m[1] <= i /\ i < m[1] + m[2]
  BY DEF Covered
<1>1. CASE i < o
  BY <1>1 DEF Covered, TailMoves
<1>2. CASE i >= o /\ i >= o - w + k
  <2>1. <<o - w + k, w>> \in all
    BY <1>2 DEF TailMoves
  <2>2. <<o - w + k, w>>[1] <= i /\ i < <<o - w + k, w>>[1] + <<o - w + k, w>>[2]
    BY <1>2
  <2>. QED
    BY <2>1, <2>2
<1>3. CASE i >= o /\ i < o - w + k
  <2>1. <<o, w>> \in all
    BY <1>3 DEF TailMoves
  <2>2. <<o, w>>[1] <= i /\ i < <<o, w>>[1] + <<o, w>>[2]
    BY <1>3
  <2>. QED
    BY <2>1, <2>2
<1>. QED
  BY <1>1, <1>2, <1>3

\* The moves of the tail stay inside if the call is as large as a register.
LEMMA TailInside ==
  ASSUME NEW ms, NEW o \in Nat, NEW k \in Nat, NEW w \in Nat \ {0},
         o + k >= w, Inside(ms, o + k)
  PROVE  Inside(TailMoves(ms, o, k, w), o + k)
  BY DEF Inside, TailMoves

\* The moves of a copy of fewer than 16 bytes.
BitMoves(k) == {<<k % b, b>> : b \in {w \in {1, 2, 4, 8} : (k \div w) % 2 = 1}}

\* The bits of a size below 16 add up to it.
LEMMA BitOfByte ==
  ASSUME NEW k \in 0 .. 15, NEW i \in Nat, i < k
  PROVE  \E b \in {1, 2, 4, 8} : (k \div b) % 2 = 1 /\ k % b <= i /\ i < (k % b) + b
  OBVIOUS

\* What a bit moves ends inside the size.
LEMMA BitInside ==
  ASSUME NEW k \in 0 .. 15, NEW b \in {1, 2, 4, 8}, (k \div b) % 2 = 1
  PROVE  k % b \in Nat /\ (k % b) + b <= k
  OBVIOUS

\* A move for each bit of the size is a whole copy.
LEMMA BitsCopy ==
  ASSUME NEW k \in 0 .. 15
  PROVE  Covered(BitMoves(k), k) /\ Inside(BitMoves(k), k)
<1>1. ASSUME NEW i \in Nat, i < k
      PROVE  \E m \in BitMoves(k) : m[1] <= i /\ i < m[1] + m[2]
  <2>1. PICK b \in {1, 2, 4, 8} :
          (k \div b) % 2 = 1 /\ k % b <= i /\ i < (k % b) + b
    BY <1>1, BitOfByte
  <2>2. <<k % b, b>> \in BitMoves(k)
    BY <2>1 DEF BitMoves
  <2>3. <<k % b, b>>[1] <= i /\ i < <<k % b, b>>[1] + <<k % b, b>>[2]
    BY <2>1
  <2>. QED
    BY <2>2, <2>3
<1>2. ASSUME NEW m \in BitMoves(k)
      PROVE  m[1] \in Nat /\ m[2] \in Nat /\ m[1] + m[2] <= k
  <2>1. PICK b \in {1, 2, 4, 8} : (k \div b) % 2 = 1 /\ m = <<k % b, b>>
    BY <1>2 DEF BitMoves
  <2>2. m[1] = k % b /\ m[2] = b /\ b \in Nat
    BY <2>1
  <2>3. k % b \in Nat /\ (k % b) + b <= k
    BY <2>1, BitInside
  <2>. QED
    BY <2>2, <2>3
<1>. QED
  BY <1>1, <1>2 DEF Covered, Inside

\* The moves of a copy of 16 to 64 bytes.
EndMoves(k) ==
  IF k <= 32 THEN {<<0, 16>>, <<k - 16, 16>>}
  ELSE IF k <= 48 /\ isa = "avx2" THEN {<<0, 16>>, <<16, 16>>, <<k - 16, 16>>}
  ELSE {<<0, 32>>, <<k - 32, 32>>}

\* Two moves from both ends meet.
LEMMA TwoEnds ==
  ASSUME NEW k \in Nat, NEW w \in Nat, w <= k, k <= 2 * w
  PROVE  /\ Covered({<<0, w>>, <<k - w, w>>}, k)
         /\ Inside({<<0, w>>, <<k - w, w>>}, k)
<1>1. ASSUME NEW i \in Nat, i < k
      PROVE  \E m \in {<<0, w>>, <<k - w, w>>} : m[1] <= i /\ i < m[1] + m[2]
  <2>1. CASE i < w
    <3>1. <<0, w>>[1] <= i /\ i < <<0, w>>[1] + <<0, w>>[2]
      BY <2>1
    <3>. QED
      BY <3>1
  <2>2. CASE i >= w
    <3>1. <<k - w, w>>[1] <= i /\ i < <<k - w, w>>[1] + <<k - w, w>>[2]
      BY <1>1, <2>2
    <3>. QED
      BY <3>1
  <2>. QED
    BY <2>1, <2>2
<1>. QED
  BY <1>1 DEF Covered, Inside

\* A third move before the last one lets them be further apart.
LEMMA ThreeEnds ==
  ASSUME NEW k \in Nat, NEW w \in Nat, 2 * w <= k, k <= 3 * w
  PROVE  /\ Covered({<<0, w>>, <<w, w>>, <<k - w, w>>}, k)
         /\ Inside({<<0, w>>, <<w, w>>, <<k - w, w>>}, k)
<1>. DEFINE all == {<<0, w>>, <<w, w>>, <<k - w, w>>}
<1>1. ASSUME NEW i \in Nat, i < k
      PROVE  \E m \in all : m[1] <= i /\ i < m[1] + m[2]
  <2>1. CASE i < w
    <3>1. <<0, w>>[1] <= i /\ i < <<0, w>>[1] + <<0, w>>[2]
      BY <2>1
    <3>. QED
      BY <3>1
  <2>2. CASE i >= w /\ i < 2 * w
    <3>1. <<w, w>>[1] <= i /\ i < <<w, w>>[1] + <<w, w>>[2]
      BY <2>2
    <3>. QED
      BY <3>1
  <2>3. CASE i >= 2 * w
    <3>1. <<k - w, w>>[1] <= i /\ i < <<k - w, w>>[1] + <<k - w, w>>[2]
      BY <1>1, <2>3
    <3>. QED
      BY <3>1
  <2>. QED
    BY <2>1, <2>2, <2>3
<1>. QED
  BY <1>1 DEF Covered, Inside

\* The moves from both ends are a whole copy.
LEMMA EndsCopy ==
  ASSUME NEW k \in 16 .. 64
  PROVE  Covered(EndMoves(k), k) /\ Inside(EndMoves(k), k)
<1>1. CASE k <= 32
  <2>1. EndMoves(k) = {<<0, 16>>, <<k - 16, 16>>}
    BY <1>1 DEF EndMoves
  <2>2. /\ Covered({<<0, 16>>, <<k - 16, 16>>}, k)
        /\ Inside({<<0, 16>>, <<k - 16, 16>>}, k)
    <3>1. k \in Nat /\ 16 \in Nat /\ 16 <= k /\ k <= 2 * 16
      BY <1>1
    <3>. QED
      BY <3>1, TwoEnds
  <2>. QED
    BY <2>1, <2>2, Zenon
<1>2. CASE k > 32 /\ k <= 48 /\ isa = "avx2"
  <2>1. EndMoves(k) = {<<0, 16>>, <<16, 16>>, <<k - 16, 16>>}
    BY <1>2 DEF EndMoves
  <2>2. /\ Covered({<<0, 16>>, <<16, 16>>, <<k - 16, 16>>}, k)
        /\ Inside({<<0, 16>>, <<16, 16>>, <<k - 16, 16>>}, k)
    BY <1>2, ThreeEnds
  <2>. QED
    BY <2>1, <2>2, Zenon
<1>3. CASE k > 32 /\ ~(k <= 48 /\ isa = "avx2")
  <2>1. EndMoves(k) = {<<0, 32>>, <<k - 32, 32>>}
    BY <1>3 DEF EndMoves
  <2>2. /\ Covered({<<0, 32>>, <<k - 32, 32>>}, k)
        /\ Inside({<<0, 32>>, <<k - 32, 32>>}, k)
    BY <1>3, TwoEnds
  <2>. QED
    BY <2>1, <2>2, Zenon
<1>. QED
  BY <1>1, <1>2, <1>3

-----------------------------------------------------------------------------
(***************************************************************************)
(* The invariant of a call.  While it is under way, the bytes before off   *)
(* have been moved and n are left; what is left when the tail is reached   *)
(* fits into two registers, and the call is larger than one, so that the   *)
(* last move, which starts before off, does not start before the buffer.   *)
(***************************************************************************)
Underway == pc \notin {"idle", "start", "done"}

CopyInv ==
  /\ isa \in {"avx2", "avx512"}
  /\ pc \in {"idle", "start", "256", "128", "64", "blocks", "128blocks", "tail", "done"}
  /\ size \in Nat /\ align \in Nat /\ off \in Nat /\ n \in Nat
  /\ pc \in {"idle", "start"} => moves = {} /\ off = 0
  /\ pc = "start" => n = size
  /\ Underway => size > 64 /\ off + n = size /\ Covered(moves, off)
  /\ pc = "256" => isa = "avx512" /\ n <= 512
  /\ pc = "128" => n <= 256
  /\ pc = "64" => isa = "avx2" /\ n <= 128
  /\ pc = "128blocks" => isa = "avx512"
  /\ pc = "tail" => n <= 2 * Copy!Wide
  /\ pc = "done" => Covered(moves, size)
  /\ Inside(moves, size)

\* Where a copy goes: a slot of a finished layout, inside its buffer.
Aim ==
  pc # "idle" =>
    /\ step = "done" /\ target.ring \in Rings /\ target.slot \in Slots
    /\ target.place \in Nat /\ target.place + size <= args.buf

\* A move inside the call, at the end of what is covered.
LEMMA ForwardKeeps ==
  ASSUME NEW l \in Nat, NEW a \in Nat, a <= l, a <= n, off + l <= size,
         off \in Nat, n \in Nat, size \in Nat, off + n = size,
         Covered(moves, off), Inside(moves, size),
         Copy!Forward(l, a)
  PROVE  /\ off' = off + a /\ n' = n - a
         /\ off' \in Nat /\ n' \in Nat /\ off' + n' = size
         /\ Covered(moves', off') /\ Inside(moves', size)
<1>1. off' = off + a /\ n' = n - a /\ moves' = moves \cup {<<off, l>>}
  BY DEF Copy!Forward
<1>2. Covered(moves \cup {<<off, l>>}, off + a)
  BY MoveCovers
<1>3. Inside(moves \cup {<<off, l>>}, size)
  BY MoveInside
<1>4. off + a \in Nat /\ n - a \in Nat /\ (off + a) + (n - a) = size
  OBVIOUS
<1>. QED
  BY <1>1, <1>2, <1>3, <1>4

\* The same while a call is under way.
LEMMA ForwardUnderway ==
  ASSUME CopyInv, Underway, NEW l \in Nat, l <= n, Copy!Forward(l, l)
  PROVE  /\ n' = n - l
         /\ off' \in Nat /\ n' \in Nat /\ off' + n' = size
         /\ size > 64 /\ Covered(moves', off') /\ Inside(moves', size)
<1>1. /\ off \in Nat /\ n \in Nat /\ size \in Nat /\ off + n = size /\ size > 64
      /\ Covered(moves, off) /\ Inside(moves, size)
  BY DEF CopyInv
<1>2. off + l <= size
  BY <1>1
<1>. QED
  BY <1>1, <1>2, ForwardKeeps

\* Nothing has been moved before the start.
LEMMA NothingCovered == Covered({}, 0) /\ \A s : Inside({}, s)
<1>1. \A i \in Nat : ~(i < 0)
  OBVIOUS
<1>2. Covered({}, 0)
  BY <1>1, Zenon DEF Covered
<1>3. \A s : Inside({}, s)
  BY Zenon DEF Inside
<1>. QED
  BY <1>2, <1>3

\* Every step of a call keeps the invariant.
LEMMA CopySteps ==
  ASSUME CopyInv, Copy!Next
  PROVE  CopyInv'
<1>. USE DEF CopyInv, Underway
<1>1. CASE Copy!Bits
  <2>1. n = size /\ n \in 0 .. 15 /\ moves' = BitMoves(n) /\ pc' = "done"
    BY <1>1 DEF Copy!Bits, BitMoves
  <2>2. size' = size /\ isa' = isa /\ align' = align /\ off' = off /\ n' = n
    BY <1>1 DEF Copy!Bits, Copy!call
  <2>3. Covered(moves', size') /\ Inside(moves', size')
    BY <2>1, <2>2, BitsCopy
  <2>. QED
    BY <2>1, <2>2, <2>3
<1>2. CASE Copy!Ends
  <2>1. n = size /\ n \in 16 .. 64 /\ moves' = EndMoves(n) /\ pc' = "done"
    BY <1>2 DEF Copy!Ends, EndMoves
  <2>2. size' = size /\ isa' = isa /\ align' = align /\ off' = off /\ n' = n
    BY <1>2 DEF Copy!Ends, Copy!call
  <2>3. Covered(moves', size') /\ Inside(moves', size')
    BY <2>1, <2>2, EndsCopy
  <2>. QED
    BY <2>1, <2>2, <2>3
<1>3. CASE Copy!Halve
  <2>1. /\ size' = size /\ isa' = isa /\ align' = align /\ off' = off /\ n' = n
        /\ moves' = moves
    BY <1>3 DEF Copy!Halve, Copy!Goto, Copy!call
  <2>2. /\ pc = "start" /\ n > 64 /\ n <= (IF isa = "avx2" THEN 256 ELSE 512)
        /\ pc' = (IF isa = "avx2" THEN "128" ELSE "256")
    BY <1>3 DEF Copy!Halve, Copy!Goto, Copy!Direct
  <2>3. moves = {} /\ off = 0 /\ n = size
    BY <2>2
  <2>4. Covered(moves', off') /\ Inside(moves', size')
    BY <2>1, <2>3, NothingCovered
  <2>. QED
    BY <2>1, <2>2, <2>3, <2>4
<1>4. CASE Copy!Move256
  <2>1. size' = size /\ isa' = isa /\ align' = align /\ pc = "256" /\ pc' = "128"
    BY <1>4 DEF Copy!Move256, Copy!call
  <2>2. CASE n >= 256
    <3>1. Copy!Forward(256, 256)
      BY <1>4, <2>2 DEF Copy!Move256
    <3>2. /\ off' \in Nat /\ n' \in Nat /\ off' + n' = size
          /\ size > 64 /\ Covered(moves', off') /\ Inside(moves', size)
      BY <2>1, <2>2, <3>1, ForwardUnderway
    <3>3. n' <= 256
      BY <2>1, <2>2, <3>1 DEF Copy!Forward
    <3>. QED
      BY <2>1, <3>2, <3>3, Zenon
  <2>3. CASE n < 256
    <3>1. off' = off /\ n' = n /\ moves' = moves
      BY <1>4, <2>3 DEF Copy!Move256
    <3>. QED
      BY <2>1, <2>3, <3>1
  <2>. QED
    BY <2>2, <2>3
<1>5. CASE Copy!Move128
  <2>1. /\ size' = size /\ isa' = isa /\ align' = align
        /\ pc = "128" /\ pc' = (IF isa = "avx2" THEN "64" ELSE "tail")
    BY <1>5 DEF Copy!Move128, Copy!call
  <2>2. CASE n >= 128
    <3>1. Copy!Forward(128, 128)
      BY <1>5, <2>2 DEF Copy!Move128
    <3>2. /\ off' \in Nat /\ n' \in Nat /\ off' + n' = size
          /\ size > 64 /\ Covered(moves', off') /\ Inside(moves', size)
      BY <2>1, <2>2, <3>1, ForwardUnderway
    <3>3. n' <= 128
      BY <2>1, <2>2, <3>1 DEF Copy!Forward
    <3>4. pc' = "tail" => (n <= 2 * Copy!Wide)'
      BY <2>1, <3>2, <3>3 DEF Copy!Wide
    <3>5. CASE isa = "avx2"
      <4>1. pc' = "64" /\ isa' = "avx2" /\ size' = size /\ align' = align
        BY <2>1, <3>5
      <4>. QED
        BY <3>2, <3>3, <4>1, Zenon
    <3>6. CASE isa # "avx2"
      <4>1. pc' = "tail" /\ isa' = isa /\ size' = size /\ align' = align
        BY <2>1, <3>6
      <4>. QED
        BY <3>2, <3>4, <4>1, Zenon
    <3>. QED
      BY <3>5, <3>6
  <2>3. CASE n < 128
    <3>1. off' = off /\ n' = n /\ moves' = moves
      BY <1>5, <2>3 DEF Copy!Move128
    <3>. QED
      BY <2>1, <2>3, <3>1 DEF Copy!Wide
  <2>. QED
    BY <2>2, <2>3
<1>6. CASE Copy!Align
  <2>1. /\ size' = size /\ isa' = isa /\ align' = align
        /\ pc = "start" /\ pc' = "blocks" /\ n > Copy!Direct
    BY <1>6 DEF Copy!Align, Copy!call
  <2>2. /\ n = size /\ off = 0 /\ off + n = size /\ n > 64 /\ Copy!Wide < n
        /\ Covered(moves, off) /\ Inside(moves, size)
    BY <2>1, NothingCovered DEF Copy!Direct, Copy!Wide
  <2>3. CASE align % Copy!Wide = 0
    <3>1. off' = off /\ n' = n /\ moves' = moves
      BY <1>6, <2>3 DEF Copy!Align
    <3>. QED
      BY <2>1, <2>2, <3>1
  <2>4. CASE align % Copy!Wide # 0
    <3>. DEFINE a == Copy!Wide - (align % Copy!Wide)
    <3>1. Copy!Forward(Copy!Wide, a)
      BY <1>6, <2>4 DEF Copy!Align
    <3>2. Copy!Wide \in Nat /\ a \in Nat /\ a <= Copy!Wide
      BY DEF Copy!Wide
    <3>3. a <= n /\ off + Copy!Wide <= size
      BY <2>2, <3>2
    <3>. HIDE DEF a
    <3>4. /\ off' \in Nat /\ n' \in Nat /\ off' + n' = size
          /\ Covered(moves', off') /\ Inside(moves', size)
      <4>1. off \in Nat /\ n \in Nat /\ size \in Nat
        OBVIOUS
      <4>. HIDE DEF CopyInv
      <4>. QED
        BY <2>2, <3>1, <3>2, <3>3, <4>1, ForwardKeeps
    <3>. QED
      BY <2>1, <2>2, <3>4, Zenon
  <2>. QED
    BY <2>3, <2>4
<1>7. CASE Copy!MoveBlock
  <2>0. Copy!Block \in Nat
    BY DEF Copy!Block
  <2>1. /\ size' = size /\ isa' = isa /\ align' = align
        /\ pc = "blocks" /\ pc' = pc /\ n >= Copy!Block /\ Copy!Forward(Copy!Block, Copy!Block)
    BY <1>7 DEF Copy!MoveBlock, Copy!call
  <2>2. /\ off' \in Nat /\ n' \in Nat /\ off' + n' = size
        /\ size > 64 /\ Covered(moves', off') /\ Inside(moves', size)
    BY <2>0, <2>1, ForwardUnderway
  <2>. QED
    BY <2>1, <2>2, Zenon
<1>8. CASE Copy!EndBlocks
  <2>1. /\ size' = size /\ isa' = isa /\ align' = align /\ off' = off /\ n' = n
        /\ moves' = moves
    BY <1>8 DEF Copy!EndBlocks, Copy!Goto, Copy!call
  <2>2. pc = "blocks" /\ n < Copy!Block /\ pc' = (IF isa = "avx2" THEN "64" ELSE "128blocks")
    BY <1>8 DEF Copy!EndBlocks, Copy!Goto
  <2>. QED
    BY <2>1, <2>2 DEF Copy!Block
<1>9. CASE Copy!Move128Block
  <2>1. /\ size' = size /\ isa' = isa /\ align' = align
        /\ pc = "128blocks" /\ pc' = pc /\ n >= 128 /\ Copy!Forward(128, 128)
    BY <1>9 DEF Copy!Move128Block, Copy!call
  <2>2. /\ off' \in Nat /\ n' \in Nat /\ off' + n' = size
        /\ size > 64 /\ Covered(moves', off') /\ Inside(moves', size)
    BY <2>1, ForwardUnderway
  <2>. QED
    BY <2>1, <2>2, Zenon
<1>10. CASE Copy!End128Blocks
  <2>1. /\ size' = size /\ isa' = isa /\ align' = align /\ off' = off /\ n' = n
        /\ moves' = moves
    BY <1>10 DEF Copy!End128Blocks, Copy!Goto, Copy!call
  <2>2. pc = "128blocks" /\ n < 128 /\ pc' = "tail"
    BY <1>10 DEF Copy!End128Blocks, Copy!Goto
  <2>. QED
    BY <2>1, <2>2 DEF Copy!Wide
<1>11. CASE Copy!Move64
  <2>1. size' = size /\ isa' = isa /\ align' = align /\ pc = "64" /\ pc' = "tail"
    BY <1>11 DEF Copy!Move64, Copy!call
  <2>2. CASE n >= 64
    <3>1. Copy!Forward(64, 64)
      BY <1>11, <2>2 DEF Copy!Move64
    <3>2. /\ off' \in Nat /\ n' \in Nat /\ off' + n' = size
          /\ size > 64 /\ Covered(moves', off') /\ Inside(moves', size)
      BY <2>1, <2>2, <3>1, ForwardUnderway
    <3>3. n' <= 64
      BY <2>1, <2>2, <3>1 DEF Copy!Forward
    <3>4. pc' = "tail" => (n <= 2 * Copy!Wide)'
      BY <2>1, <3>2, <3>3 DEF Copy!Wide
    <3>. QED
      BY <2>1, <3>2, <3>3, <3>4, Zenon
  <2>3. CASE n < 64
    <3>1. off' = off /\ n' = n /\ moves' = moves
      BY <1>11, <2>3 DEF Copy!Move64
    <3>. QED
      BY <2>1, <2>3, <3>1 DEF Copy!Wide
  <2>. QED
    BY <2>2, <2>3
<1>12. CASE Copy!MoveTail
  <2>1. size' = size /\ isa' = isa /\ align' = align /\ off' = off /\ n' = n
    BY <1>12 DEF Copy!MoveTail, Copy!call
  <2>2. /\ pc = "tail" /\ pc' = "done"
        /\ moves' = TailMoves(moves, off, n, Copy!Wide)
    BY <1>12 DEF Copy!MoveTail, TailMoves
  <2>3. /\ off \in Nat /\ n \in Nat /\ off + n = size /\ n <= 2 * Copy!Wide
        /\ Covered(moves, off) /\ Inside(moves, off + n)
    BY <2>2
  <2>4. Copy!Wide \in Nat \ {0} /\ off + n >= Copy!Wide
    BY <2>2 DEF Copy!Wide
  <2>5. Covered(moves', size) /\ Inside(moves', size)
    <3>. HIDE DEF CopyInv
    <3>1. Covered(moves', off + n)
      BY <2>2, <2>3, <2>4, TailCovers
    <3>2. Inside(moves', off + n)
      BY <2>2, <2>3, <2>4, TailInside
    <3>. QED
      BY <2>3, <3>1, <3>2
  <2>. QED
    BY <2>1, <2>2, <2>5
<1>. QED
  BY <1>1, <1>2, <1>3, <1>4, <1>5, <1>6, <1>7, <1>8, <1>9, <1>10, <1>11, <1>12
     DEF Copy!Next

-----------------------------------------------------------------------------
(***************************************************************************)
(* Layout and copy together.                                               *)
(***************************************************************************)

\* Copying does not disturb the layout.
LEMMA SharedIsLayout == SharedSpec => Spec
<1>1. SharedInit => Init
  BY DEF SharedInit
<1>2. [SharedNext]_sharedVars => [Next]_vars
  BY DEF SharedNext, sharedVars, Lay, StartCopy, MoveBytes
<1>. QED
  BY <1>1, <1>2, PTL DEF SharedSpec, Spec

\* A finished layout is not changed any more.
LEMMA DoneStays ==
  ASSUME step = "done", [Next]_vars
  PROVE  UNCHANGED vars
  BY DEF Next, AddRegions, RingRegionFails, FillRing, MakeQueues, vars

\* Where a copy may start: the slots of a finished layout have offsets.
LEMMA PlaceTypes ==
  ASSUME LayoutInv, step = "done", NEW r \in Rings, NEW j \in Slots
  PROVE  /\ descs[r][j].at \in Nat /\ descs[r][j].length = args.buf
         /\ Filled(r) /\ args \in Args /\ args.buf \in Nat
<1>1. args \in Args /\ NumRings(args) \in Nat /\ args.buf \in Nat
  BY ArgTypes DEF LayoutInv
<1>2. r < next
  BY <1>1 DEF LayoutInv, Rings
<1>3. descs[r][j] = Desc(r, j)
  BY <1>2 DEF LayoutInv
<1>. QED
  BY <1>1, <1>2, <1>3, DescExact DEF Filled

\* A copy under way has moved the bytes before off and stays inside its place.
THEOREM CopyInvariant == SharedSpec => [](CopyInv /\ Aim)
<1>1. SharedInit => CopyInv /\ Aim
  BY NothingCovered DEF SharedInit, Copy!Init, CopyInv, Underway, Aim
<1>2. ASSUME LayoutInv, CopyInv, Aim, [SharedNext]_sharedVars
      PROVE  CopyInv' /\ Aim'
  <2>1. CASE Lay
    <3>1. /\ isa' = isa /\ size' = size /\ align' = align /\ pc' = pc
          /\ off' = off /\ n' = n /\ moves' = moves /\ target' = target
      BY <2>1 DEF Lay, copyVars
    <3>2. CopyInv'
      BY <1>2, <3>1 DEF CopyInv, Underway, Copy!Wide
    <3>3. CASE pc = "idle"
      BY <3>1, <3>2, <3>3 DEF Aim
    <3>4. CASE pc # "idle"
      <4>1. UNCHANGED vars
        BY <1>2, <2>1, <3>4, DoneStays DEF Lay, Aim
      <4>2. args' = args /\ step' = step
        BY <4>1 DEF vars
      <4>. QED
        BY <1>2, <3>1, <3>2, <3>4, <4>2 DEF Aim, Rings, Slots
    <3>. QED
      BY <3>3, <3>4
  <2>2. CASE StartCopy
    <3>1. PICK r \in Rings, j \in Slots, place \in Places, bytes \in Lengths(args) :
            /\ place + bytes <= args.buf
            /\ Copy!Call(bytes, (descs[r][j].at + place) % 64)
            /\ target' = [ring |-> r, slot |-> j, place |-> place]
      BY <2>2 DEF StartCopy
    <3>2. step = "done" /\ pc = "idle" /\ args' = args /\ step' = step
      BY <2>2 DEF StartCopy, vars
    <3>3. /\ size' = bytes /\ align' = (descs[r][j].at + place) % 64
          /\ pc' = "start" /\ n' = bytes /\ isa' = isa /\ off' = off /\ moves' = moves
      BY <3>1 DEF Copy!Call
    <3>4. descs[r][j].at \in Nat /\ args \in Args
      BY <1>2, <3>2, PlaceTypes
    <3>5. place \in Nat /\ bytes \in Nat
      BY <3>4, CopyAssumption
    <3>6. align' \in Nat
      BY <3>3, <3>4, <3>5
    <3>7. moves = {} /\ off = 0 /\ Inside(moves', size')
      <4>1. moves = {} /\ off = 0
        BY <1>2, <3>2, Zenon DEF CopyInv
      <4>2. Inside(moves', size')
        BY <3>3, <4>1, NothingCovered, Zenon
      <4>. QED
        BY <4>1, <4>2
    <3>8. CopyInv'
      BY <1>2, <3>3, <3>5, <3>6, <3>7 DEF CopyInv, Underway
    <3>9. Aim'
      BY <3>1, <3>2, <3>3, <3>5 DEF Aim, Rings, Slots
    <3>. QED
      BY <3>8, <3>9
  <2>3. CASE MoveBytes
    <3>1. Copy!Next /\ UNCHANGED <<vars, target>>
      BY <2>3 DEF MoveBytes
    <3>2. CopyInv'
      BY <1>2, <3>1, CopySteps
    <3>3. size' = size /\ pc # "idle"
      BY <3>1 DEF Copy!Next, Copy!Bits, Copy!Ends, Copy!Halve, Copy!Move256, Copy!Move128,
                  Copy!Align, Copy!MoveBlock, Copy!EndBlocks, Copy!Move128Block,
                  Copy!End128Blocks, Copy!Move64, Copy!MoveTail, Copy!Goto, Copy!call
    <3>4. args' = args /\ step' = step /\ target' = target
      BY <3>1 DEF vars
    <3>. QED
      BY <1>2, <3>2, <3>3, <3>4 DEF Aim, Rings, Slots
  <2>4. CASE UNCHANGED sharedVars
    <3>1. /\ isa' = isa /\ size' = size /\ align' = align /\ pc' = pc
          /\ off' = off /\ n' = n /\ moves' = moves /\ target' = target
          /\ args' = args /\ step' = step
      BY <2>4 DEF sharedVars, copyVars, vars
    <3>. QED
      BY <1>2, <3>1 DEF CopyInv, Underway, Copy!Wide, Aim, Rings, Slots
  <2>. QED
    BY <1>2, <2>1, <2>2, <2>3, <2>4 DEF SharedNext
<1>. QED
  BY <1>1, <1>2, SharedIsLayout, LayoutInvariant, PTL DEF SharedSpec

\* clib_memcpy_fast copies every byte, for every size, alignment and both
\* builds: the block loops and the tail moved backwards leave no gap.
THEOREM CopyIsComplete == SharedSpec => []CopiesAll
<1>1. CopyInv => CopiesAll
  <2>. SUFFICES ASSUME CopyInv, pc = "done", NEW i \in 0 .. (size - 1)
                PROVE  \E m \in moves : i \in Copy!Bytes(m)
    BY DEF CopiesAll, Copy!CopiesAll
  <2>1. size \in Nat /\ Covered(moves, size) /\ Inside(moves, size)
    BY DEF CopyInv
  <2>2. i \in Nat /\ i < size
    BY <2>1
  <2>3. PICK m \in moves : m[1] <= i /\ i < m[1] + m[2]
    BY <2>1, <2>2 DEF Covered
  <2>4. m[1] \in Nat /\ m[2] \in Nat
    BY <2>1 DEF Inside
  <2>5. i \in Copy!Bytes(m)
    BY <2>2, <2>3, <2>4 DEF Copy!Bytes
  <2>. QED
    BY <2>5
<1>. QED
  BY <1>1, CopyInvariant, PTL

\* A copy into the buffer of one slot touches no byte of another, whatever
\* the layout, the place in the buffer and the size are.
THEOREM CopiesStayInTheirBuffer == SharedSpec => []OthersUntouched
<1>1. ASSUME LayoutInv, BuffersApart, CopyInv, Aim
      PROVE  OthersUntouched
  <2>1. Inside(moves, size) /\ size \in Nat
    BY <1>1 DEF CopyInv
  <2>2. Copy!StaysInside
    <3>1. \A i \in Nat : 0 <= i
      OBVIOUS
    <3>. QED
      BY <2>1, <3>1, Zenon DEF Copy!StaysInside, Inside
  <2>3. ASSUME NEW m \in moves, NEW r \in Rings, NEW j \in Slots,
               <<r, j>> # <<target.ring, target.slot>>
        PROVE  LET first == descs[target.ring][target.slot].at + target.place + m[1]
               IN  \/ first + m[2] <= descs[r][j].at
                   \/ descs[r][j].at + descs[r][j].length <= first
    <3>. DEFINE q == target.ring  k == target.slot
    <3>1. pc # "idle"
      BY <1>1, <2>3 DEF CopyInv
    <3>2. /\ step = "done" /\ q \in Rings /\ k \in Slots
          /\ target.place \in Nat /\ target.place + size <= args.buf
      BY <1>1, <3>1 DEF Aim
    <3>3. /\ descs[r][j].at \in Nat /\ descs[r][j].length = args.buf /\ Filled(r)
          /\ args.buf \in Nat
      BY <1>1, <3>2, PlaceTypes
    <3>4. descs[q][k].at \in Nat /\ descs[q][k].length = args.buf /\ Filled(q)
      BY <1>1, <3>2, PlaceTypes
    <3>5. \/ descs[r][j].at + descs[r][j].length <= descs[q][k].at
          \/ descs[q][k].at + descs[q][k].length <= descs[r][j].at
      BY <1>1, <2>3, <3>2, <3>3, <3>4 DEF BuffersApart
    <3>6. m[1] \in Nat /\ m[2] \in Nat /\ m[1] + m[2] <= size
      BY <2>1, <2>3 DEF Inside
    <3>. QED
      BY <2>1, <3>2, <3>3, <3>4, <3>5, <3>6
  <2>. QED
    BY <2>2, <2>3 DEF OthersUntouched
<1>. QED
  BY <1>1, CopyInvariant, SharedIsLayout, LayoutInvariant, BuffersNeverOverlap, PTL
=============================================================================
