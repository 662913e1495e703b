---------------------------- MODULE SharedBuffers ----------------------------
(***************************************************************************)
(* Copies into the packet buffers of a connection: a slave lays out the    *)
(* shared memory (MemoryLayout), and clib_memcpy_fast (MemcpyFast) copies  *)
(* data, keys and vectors to places inside one buffer.                     *)
(*                                                                         *)
(* The copy routine moves whole registers, aligned and backwards, right    *)
(* next to buffers of other jobs that the other process may be reading.    *)
(* Regions are mapped at page boundaries, so that the low bits of an       *)
(* address are those of the offset.                                        *)
(***************************************************************************)
EXTENDS MemoryLayout

CONSTANTS
  Places,     \* offsets inside a buffer that are copied to
  Lengths(_)  \* numbers of bytes that are copied with given run_args

\* Offsets and sizes are unsigned.
ASSUME CopyAssumption ==
  /\ Places \subseteq Nat
  /\ \A a \in Args : Lengths(a) \subseteq Nat

VARIABLES
  isa, size, align, pc, off, n, moves,  \* of the copy
  target                                \* where it goes: ring, slot, place

Copy == INSTANCE MemcpyFast

copyVars == <<isa, size, align, pc, off, n, moves>>
sharedVars == <<vars, copyVars, target>>

SharedInit ==
  /\ Init
  /\ Copy!Init
  /\ target = [ring |-> 0, slot |-> 0, place |-> 0]

Lay == Next /\ UNCHANGED <<copyVars, target>>

\* A copy of crypto_job_to_buffer: data, key or vector, which fit (JobCodec).
StartCopy ==
  /\ step = "done" /\ pc = "idle"
  /\ \E r \in Rings, j \in Slots, place \in Places, bytes \in Lengths(args) :
       /\ place + bytes <= args.buf
       /\ Copy!Call(bytes, (descs[r][j].at + place) % 64)
       /\ target' = [ring |-> r, slot |-> j, place |-> place]
  /\ UNCHANGED vars

MoveBytes == Copy!Next /\ UNCHANGED <<vars, target>>

SharedNext == Lay \/ StartCopy \/ MoveBytes

SharedSpec == SharedInit /\ [][SharedNext]_sharedVars
-----------------------------------------------------------------------------
\* A copy moves every byte it was asked to move: no size and no alignment
\* leaves a gap between the block loops and the tail moved backwards.
CopiesAll == Copy!CopiesAll

\* A copy into the buffer of one slot reads and writes only the bytes of the
\* call, and no byte of the buffer of any other slot in either direction.
OthersUntouched ==
  /\ Copy!StaysInside
  /\ \A m \in moves, r \in Rings, j \in Slots :
       LET first == descs[target.ring][target.slot].at + target.place + m[1]
       IN  <<r, j>> # <<target.ring, target.slot>> =>
             \/ first + m[2] <= descs[r][j].at
             \/ descs[r][j].at + descs[r][j].length <= first
=============================================================================
