--------------------------- MODULE MCSharedBuffers ---------------------------
(***************************************************************************)
(* SharedBuffers for TLC: all small arguments that a 4 bit slot number and *)
(* a 13 bit offset can hold, the largest ones included.  Buffers of 1700   *)
(* bytes take copies of every size, through two rounds of the largest      *)
(* block loop; in the others the sizes at the edges are copied.            *)
(***************************************************************************)
EXTENDS SharedBuffers

AllArgs ==
  [s2m : 1 .. 3, m2s : 0 .. 3, size : {1, 2, 4}, buf : {1, 15, 511}]
    \cup [s2m : {1}, m2s : {1}, size : {1, 2}, buf : {1700}]

FittingArgs ==
  {a \in AllArgs : /\ NumRings(a) * a.size <= SlotRange
                   /\ (NumRings(a) * a.size) * a.buf < OffRange
                   /\ NumRings(a) * RingSize(a) < OffRange}

EdgePlaces == {0, 1, 28, 33, 63}
EdgeLengths == {0, 1, 15, 16, 33, 64, 65, 257, 448, 511}

MCLengths(a) == IF a.buf = 1700 /\ a.size = 1 THEN 0 .. 1700 ELSE EdgeLengths
=============================================================================
