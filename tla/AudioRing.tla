------------------------------- MODULE AudioRing -------------------------------
(***************************************************************************)
(* The audio ring (enginehost_audio_ring.c): one shared file with two      *)
(* 32-bit positions, a capacity and the sound.  The core's thread writes;  *)
(* the host, in another process, reads with pread and moves the read       *)
(* position.  Both copy byte by byte while the other works.                *)
(*                                                                         *)
(* The host is not in this repository.  It is modelled from what the C     *)
(* file and its header say of it: it reads what was published, at the      *)
(* position modulo the capacity, in whole frames, and then moves `read`.   *)
(*                                                                         *)
(* A byte of sound is its place in the stream of the bytes that the ring   *)
(* accepted, so `sent` and `heard` count what the positions only know      *)
(* modulo Modulus (2^32 in the code).                                      *)
(***************************************************************************)
EXTENDS Integers, Sequences

CONSTANTS
  FrameBytes,   \* FRAME_BYTES
  Modulus,      \* the positions are counted modulo this
  DataSizes,    \* the bytes of the file behind its header: st_size - HEADER_SIZE
  Capacities,   \* the capacities the file's header may state
  MaxFrames,    \* frames in one call of write
  MaxSent       \* bound: bytes accepted in a behaviour

ASSUME RingAssumption ==
  /\ FrameBytes \in Nat \ {0}
  /\ Modulus \in Nat \ {0}
  /\ DataSizes \subseteq Nat
  /\ Capacities \subseteq 0 .. Modulus - 1
  /\ MaxFrames \in Nat /\ MaxSent \in Nat

VARIABLES
  mapped,            \* bytes of sound in the mapping; 0 when there is none
  capacity,          \* ring->capacity, 0 until the ring is open
  write, read,       \* the header's positions
  data,              \* offset -> byte of sound, -1 where nothing was written
  w_pc, bytes, copied,  \* the writer: "closed", "idle", "copy"
  r_pc, take, got,   \* the host's reader: "idle", "read"
  sent, heard, out   \* bytes published, bytes heard, the last byte heard

writer == <<w_pc, bytes, copied>>
reader == <<r_pc, take, got>>
stream == <<sent, heard, out>>
file   == <<mapped, capacity, write, read, data>>
vars   == <<file, writer, reader, stream>>

Init ==
  /\ mapped = 0 /\ capacity = 0 /\ write = 0 /\ read = 0 /\ data = <<>>
  /\ w_pc = "closed" /\ bytes = 0 /\ copied = 0
  /\ r_pc = "idle" /\ take = 0 /\ got = 0
  /\ sent = 0 /\ heard = 0 /\ out = -1

-----------------------------------------------------------------------------
(* enginehost_audio_ring_open: which header it takes. *)
Accepted_AnyCapacity(c, size) == c # 0 /\ c % FrameBytes = 0
Accepted(c, size) == c # 0 /\ c <= size /\ c % FrameBytes = 0

(* A ring that does not map, or that is refused, leaves the game silent. *)
ring_open ==
  /\ w_pc = "closed"
  /\ w_pc' = "idle"
  /\ \/ \E size \in DataSizes \ {0}, c \in Capacities :
          /\ Accepted(c, size)
          /\ mapped' = size /\ capacity' = c
          /\ data' = [i \in 0 .. size - 1 |-> -1]
     \/ UNCHANGED <<mapped, capacity, data>>
  /\ UNCHANGED <<write, read, bytes, copied, reader, stream>>

(* Positions are uint32_t: they wrap. *)
Advance_NoWrap(position, n) == position + n
Advance(position, n) == (position + n) % Modulus

(* enginehost_audio_ring_buffered_frames and _free_frames. *)
buffered_frames ==
  LET used == (write - read) % Modulus
  IN  (IF used > capacity THEN capacity ELSE used) \div FrameBytes

free_frames_All == capacity \div FrameBytes
free_frames == capacity \div FrameBytes - buffered_frames

(* write, up to its first memcpy: a call that finds no room returns 0. *)
ring_write ==
  /\ w_pc = "idle" /\ mapped # 0
  /\ \E frames \in 1 .. MaxFrames :
       LET fitting == IF frames > free_frames THEN free_frames ELSE frames
       IN  /\ fitting # 0
           /\ sent + fitting * FrameBytes <= MaxSent
           /\ bytes' = fitting * FrameBytes
  /\ w_pc' = "copy" /\ copied' = 0
  /\ UNCHANGED <<file, reader, stream>>

(* Where memcpy puts byte i of the call: from `start` up to the end of the *)
(* data, the rest from its beginning.                                      *)
CopyOffset_Unwrapped(i) == (write % capacity) + i
CopyOffset(i) ==
  LET start == write % capacity
      first == capacity - start
  IN  IF i < first THEN start + i ELSE i - first

ring_copy ==
  /\ w_pc = "copy" /\ copied < bytes
  /\ data' = [data EXCEPT ![CopyOffset(copied)] = sent + copied]
  /\ copied' = copied + 1
  /\ UNCHANGED <<mapped, capacity, write, read, w_pc, bytes, reader, stream>>

(* The position is published after the data, with release order. *)
Published_Early == TRUE
Published == copied = bytes

ring_publish ==
  /\ w_pc = "copy" /\ Published
  /\ write' = Advance(write, bytes)
  /\ sent' = sent + bytes
  /\ w_pc' = "idle"
  /\ UNCHANGED <<mapped, capacity, read, data, bytes, copied, reader, heard, out>>

-----------------------------------------------------------------------------
(* The host's reader. *)

host_load ==
  /\ r_pc = "idle" /\ mapped # 0
  /\ take' \in {n \in 1 .. (write - read) % Modulus : n % FrameBytes = 0}
  /\ got' = 0
  /\ r_pc' = "read"
  /\ UNCHANGED <<file, writer, stream>>

host_pread ==
  /\ r_pc = "read" /\ got < take
  /\ out' = data[Advance(read, got) % capacity]
  /\ heard' = heard + 1
  /\ got' = got + 1
  /\ UNCHANGED <<file, writer, r_pc, take, sent>>

host_store ==
  /\ r_pc = "read" /\ got = take
  /\ read' = Advance(read, take)
  /\ got' = 0
  /\ r_pc' = "idle"
  /\ UNCHANGED <<mapped, capacity, write, data, writer, take, stream>>

-----------------------------------------------------------------------------
Next ==
  \/ ring_open \/ ring_write \/ ring_copy \/ ring_publish
  \/ host_load \/ host_pread \/ host_store

Spec == Init /\ [][Next]_vars
-----------------------------------------------------------------------------
(* Every variable has its type.                                            *)
TypeOK ==
  /\ mapped \in DataSizes \union {0}
  /\ capacity \in Capacities \union {0}
  /\ write \in 0 .. Modulus - 1 /\ read \in 0 .. Modulus - 1
  /\ data \in [0 .. mapped - 1 -> Int]
  /\ w_pc \in {"closed", "idle", "copy"} /\ bytes \in Nat /\ copied \in 0 .. bytes
  /\ r_pc \in {"idle", "read"} /\ take \in Nat /\ got \in 0 .. take
  /\ sent \in 0 .. MaxSent /\ heard \in 0 .. sent /\ out \in Int

(* Every byte published and not yet heard lies where the host looks for it *)
(* (enginehost_audio_ring.h: positions are byte counts that only grow).    *)
UnreadInPlace ==
  \A k \in heard .. sent - 1 : data[k % capacity] = k

(* The host hears the accepted stream in order: no byte missing, repeated, *)
(* or read before it was copied.                                           *)
HeardInOrder == out = heard - 1

(* No memcpy leaves the mapping, whatever capacity the header states.      *)
InMapping ==
  w_pc = "copy" => \A i \in copied .. bytes - 1 : CopyOffset(i) \in 0 .. mapped - 1

(* The ring is a queue of bytes no longer than its capacity.               *)
Queue == INSTANCE AudioQueue WITH
  room  <- capacity,
  queue <- [i \in 1 .. sent - heard |-> data[(heard + i - 1) % capacity]]
QueueSpec == Queue!Spec
=============================================================================
