----------------------------- MODULE MemcpyFast ------------------------------
(***************************************************************************)
(* clib_memcpy_fast, which copies keys, vectors and payloads into and out  *)
(* of the shared buffers, as built for AVX2 and for AVX-512.               *)
(*                                                                         *)
(* A copy is a set of moves <<offset, length>>; a move reads and writes    *)
(* the same offset, so the offsets alone tell what is copied.  The tail of *)
(* a copy is moved backwards from its end, over bytes moved before.        *)
(***************************************************************************)
EXTENDS Integers

VARIABLES
  isa,    \* instruction set of the build
  size,   \* bytes asked for
  align,  \* address of the destination modulo 64
  pc,
  off,    \* how far dst and src have advanced
  n,      \* bytes left
  moves   \* moves made

call == <<isa, size, align>>
vars == <<call, pc, off, n, moves>>

Wide == IF isa = "avx2" THEN 32 ELSE 64     \* widest move
Direct == IF isa = "avx2" THEN 256 ELSE 512 \* largest copy without alignment
Block == IF isa = "avx2" THEN 128 ELSE 512  \* block of the first loop

Init ==
  /\ isa \in {"avx2", "avx512"}
  /\ size = 0 /\ align = 0
  /\ pc = "idle" /\ off = 0 /\ n = 0
  /\ moves = {}

\* A call that copies bytes to an address with the low bits low.
Call(bytes, low) ==
  /\ pc = "idle"
  /\ size' = bytes /\ align' = low
  /\ pc' = "start" /\ n' = bytes
  /\ UNCHANGED <<isa, off, moves>>

\* A move at the current position, which then advances.
Forward(length, advance) ==
  /\ moves' = moves \cup {<<off, length>>}
  /\ off' = off + advance
  /\ n' = n - advance

Goto(place) == pc' = place /\ UNCHANGED <<call, off, n, moves>>

\* Fewer than 16 bytes: one move for each bit of the size.
Bits ==
  /\ pc = "start" /\ n < 16
  /\ moves' = {<<n % b, b>> : b \in {w \in {1, 2, 4, 8} : (n \div w) % 2 = 1}}
  /\ pc' = "done"
  /\ UNCHANGED <<call, off, n>>

\* Up to 64 bytes: moves from both ends, which overlap.
Ends ==
  /\ pc = "start" /\ n \in 16 .. 64
  /\ moves' = IF n <= 32 THEN {<<0, 16>>, <<n - 16, 16>>}
              ELSE IF n <= 48 /\ isa = "avx2" THEN {<<0, 16>>, <<16, 16>>, <<n - 16, 16>>}
              ELSE {<<0, 32>>, <<n - 32, 32>>}
  /\ pc' = "done"
  /\ UNCHANGED <<call, off, n>>

\* Up to Direct bytes: 256 bytes (AVX-512 only), then 128, then the tail.
Halve ==
  /\ pc = "start" /\ n \in 65 .. Direct
  /\ Goto(IF isa = "avx2" THEN "128" ELSE "256")

Move256 ==
  /\ pc = "256"
  /\ IF n >= 256 THEN Forward(256, 256) ELSE UNCHANGED <<off, n, moves>>
  /\ pc' = "128"
  /\ UNCHANGED call

Move128 ==
  /\ pc = "128"
  /\ IF n >= 128 THEN Forward(128, 128) ELSE UNCHANGED <<off, n, moves>>
  /\ pc' = IF isa = "avx2" THEN "64" ELSE "tail"
  /\ UNCHANGED call

\* Mutant: the bytes moved to reach alignment are not counted.
AlignUncounted ==
  /\ pc = "start" /\ n > Direct
  /\ IF align % Wide = 0 THEN UNCHANGED <<off, n, moves>>
     ELSE /\ moves' = moves \cup {<<off, Wide>>}
          /\ off' = off + (Wide - (align % Wide))
          /\ n' = n
  /\ pc' = "blocks"
  /\ UNCHANGED call

\* More than Direct bytes: a move that brings dst to a multiple of Wide.
Align ==
  /\ pc = "start" /\ n > Direct
  /\ IF align % Wide = 0 THEN UNCHANGED <<off, n, moves>>
     ELSE Forward(Wide, Wide - (align % Wide))
  /\ pc' = "blocks"
  /\ UNCHANGED call

\* The block loops: clib_mov512blocks, clib_mov128blocks.
MoveBlock ==
  /\ pc = "blocks" /\ n >= Block
  /\ Forward(Block, Block)
  /\ UNCHANGED <<call, pc>>

EndBlocks ==
  /\ pc = "blocks" /\ n < Block
  /\ Goto(IF isa = "avx2" THEN "64" ELSE "128blocks")

Move128Block ==
  /\ pc = "128blocks" /\ n >= 128
  /\ Forward(128, 128)
  /\ UNCHANGED <<call, pc>>

End128Blocks ==
  /\ pc = "128blocks" /\ n < 128
  /\ Goto("tail")

\* AVX2 only: COPY_BLOCK_128_BACK31 starts with a move of 64 bytes.
Move64 ==
  /\ pc = "64"
  /\ IF n >= 64 THEN Forward(64, 64) ELSE UNCHANGED <<off, n, moves>>
  /\ pc' = "tail"
  /\ UNCHANGED call

\* Mutant: the tail is moved from its end only.
MoveTailBackOnly ==
  /\ pc = "tail"
  /\ moves' = moves \cup (IF n > 0 THEN {<<off - Wide + n, Wide>>} ELSE {})
  /\ pc' = "done"
  /\ UNCHANGED <<call, off, n>>

\* The tail: a move that ends with the last byte, and one before it when it
\* does not reach back to the bytes moved so far.
MoveTail ==
  /\ pc = "tail"
  /\ moves' = moves \cup (IF n > 0 THEN {<<off - Wide + n, Wide>>} ELSE {})
                    \cup (IF n > Wide THEN {<<off, Wide>>} ELSE {})
  /\ pc' = "done"
  /\ UNCHANGED <<call, off, n>>

\* The steps of a call.
Next ==
  \/ Bits \/ Ends \/ Halve \/ Move256 \/ Move128
  \/ Align \/ MoveBlock \/ EndBlocks \/ Move128Block \/ End128Blocks
  \/ Move64 \/ MoveTail
-----------------------------------------------------------------------------
Bytes(move) == move[1] .. (move[1] + move[2] - 1)

\* A copy moves every byte it was asked to move: no size and no alignment
\* leaves a gap between the block loops and the tail moved backwards.
CopiesAll == pc = "done" => 0 .. (size - 1) \subseteq UNION {Bytes(m) : m \in moves}

\* No move reads or writes outside the bytes of the call, although the last
\* one starts before the bytes that are left and the aligning one runs ahead.
StaysInside == \A m \in moves : 0 <= m[1] /\ m[1] + m[2] <= size
=============================================================================
