----------------------------- MODULE AudioRingProofs ----------------------------
(***************************************************************************)
(* Theorems about AudioRing for every frame size, width of the positions,  *)
(* header and number of frames: the writer never passes the reader, both   *)
(* stay in the mapping, and, where a capacity divides the range of the     *)
(* positions, the ring is a queue of bytes.                                *)
(***************************************************************************)
EXTENDS AudioRing, SequenceTheorems, TLAPS

-----------------------------------------------------------------------------
(* Division: what the provers do not know of % and \div. *)

(* The quotient and the remainder of a by n.                               *)
LEMMA DivMod ==
  \A a \in Int, n \in Nat \ {0} :
    /\ a \div n \in Int
    /\ a % n \in 0 .. n - 1
    /\ a = (a \div n) * n + (a % n)
<1> SUFFICES ASSUME NEW a \in Int, NEW n \in Nat \ {0}
             PROVE  /\ a \div n \in Int /\ a % n \in 0 .. n - 1
                    /\ a = (a \div n) * n + (a % n)
  OBVIOUS
<1>1. a \div n \in Int /\ a % n \in 0 .. n - 1
  OBVIOUS
<1>2. a = (a \div n) * n + (a % n)
  OBVIOUS
<1> QED
  BY <1>1, <1>2

(* There is only one such quotient and remainder.                          *)
LEMMA ModUnique ==
  \A q \in Int, n \in Nat \ {0} : \A r \in 0 .. n - 1 :
    (q * n + r) % n = r /\ (q * n + r) \div n = q
OBVIOUS

(* A number already in range is its own remainder.                         *)
LEMMA ModSmall ==
  \A n \in Nat \ {0} : \A r \in 0 .. n - 1 : r % n = r
OBVIOUS

(* Adding to a position that has wrapped.                                  *)
LEMMA ModAdd == ASSUME NEW a \in Int, NEW b \in Int, NEW n \in Nat \ {0}
  PROVE ((a % n) + b) % n = (a + b) % n
<1> DEFINE q == a \div n
           r == a % n
           s == (r + b) \div n
           t == (r + b) % n
<1>1. q \in Int /\ r \in 0 .. n - 1 /\ a = q * n + r
  BY DivMod
<1>2. s \in Int /\ t \in 0 .. n - 1 /\ r + b = s * n + t
  <2>1. r + b \in Int
    BY <1>1
  <2> QED BY <2>1, DivMod
<1> HIDE DEF q, r, s, t
<1>3. a + b = (q + s) * n + t
  BY <1>1, <1>2
<1>4. q + s \in Int
  BY <1>1, <1>2
<1>5. ((q + s) * n + t) % n = t
  BY <1>2, <1>4, ModUnique
<1>6. (a + b) % n = t
  BY <1>3, <1>5
<1> QED
  BY <1>6 DEF t, r

(* A multiple of n that is more than 0 is at least n.                      *)
LEMMA MultipleSmall == ASSUME NEW k \in Int, NEW n \in Nat \ {0}, 0 < k * n PROVE k * n >= n
<1>1. k >= 1
  <2> SUFFICES ASSUME k <= 0 PROVE FALSE
    OBVIOUS
  <2>1. k * n <= 0
    OBVIOUS
  <2> QED BY <2>1
<1> QED BY <1>1

(* Less than n bytes apart, two bytes have different offsets.              *)
LEMMA ModDistinct == ASSUME NEW a \in Int, NEW b \in Int, NEW n \in Nat \ {0}, a < b, b < a + n
  PROVE a % n # b % n
<1> SUFFICES ASSUME a % n = b % n PROVE FALSE
  OBVIOUS
<1> DEFINE q == a \div n
           r == a % n
           s == b \div n
<1>1. q \in Int /\ r \in 0 .. n - 1 /\ a = q * n + r
  BY DivMod
<1>2. s \in Int /\ b = s * n + r
  BY DivMod
<1> HIDE DEF q, r, s
<1>3. b - a = (s - q) * n
  BY <1>1, <1>2
<1>4. s - q \in Int /\ 0 < (s - q) * n /\ (s - q) * n < n
  BY <1>1, <1>2, <1>3
<1> QED
  BY <1>4, MultipleSmall

(* So does a multiple of n added to a number.                              *)
LEMMA ModShift ==
  ASSUME NEW n \in Nat \ {0}, NEW k \in Int, NEW x \in Int
  PROVE  (k * n + x) % n = x % n
<1> DEFINE q == x \div n
           r == x % n
<1>1. q \in Int /\ r \in 0 .. n - 1 /\ x = q * n + r
  BY DivMod
<1> HIDE DEF q, r
<1>2. k + q \in Int /\ k * n + x = (k + q) * n + r
  BY <1>1
<1>3. ((k + q) * n + r) % n = r
  BY <1>1, <1>2, ModUnique
<1> QED
  BY <1>2, <1>3 DEF r

(* The distance of two positions is that of the counts, modulo the range.  *)
LEMMA ModDifference ==
  ASSUME NEW n \in Nat \ {0}, NEW a \in Int, NEW b \in Int
  PROVE  ((a % n) - (b % n)) % n = (a - b) % n
<1> DEFINE q == a \div n
           r == a % n
           s == b \div n
           t == b % n
<1>1. q \in Int /\ r \in 0 .. n - 1 /\ a = q * n + r
  BY DivMod
<1>2. s \in Int /\ t \in 0 .. n - 1 /\ b = s * n + t
  BY DivMod
<1> HIDE DEF q, r, s, t
<1>3. q - s \in Int /\ r - t \in Int /\ a - b = (q - s) * n + (r - t)
  BY <1>1, <1>2
<1>4. ((q - s) * n + (r - t)) % n = (r - t) % n
  BY <1>3, ModShift
<1> QED
  BY <1>3, <1>4 DEF r, t

(* What it is to be a multiple of n.                                       *)
LEMMA Multiple == ASSUME NEW a \in Int, NEW n \in Nat \ {0}
  PROVE a % n = 0 <=> \E k \in Int : a = k * n
<1>1. ASSUME a % n = 0 PROVE \E k \in Int : a = k * n
  <2>1. a \div n \in Int /\ a = (a \div n) * n + (a % n)
    BY DivMod
  <2>2. a = (a \div n) * n
    BY <1>1, <2>1
  <2> QED
    BY <2>1, <2>2
<1>2. ASSUME NEW k \in Int, a = k * n PROVE a % n = 0
  <2>1. a = k * n + 0 /\ 0 \in 0 .. n - 1
    BY <1>2
  <2> QED BY <2>1, ModUnique
<1> QED BY <1>1, <1>2

(* Sums and differences of multiples are multiples.                        *)
LEMMA ModSum == ASSUME NEW n \in Nat \ {0}, NEW a \in Int, NEW b \in Int, a % n = 0, b % n = 0
  PROVE (a + b) % n = 0 /\ (a - b) % n = 0
<1>1. PICK k \in Int : a = k * n
  BY Multiple
<1>2. PICK l \in Int : b = l * n
  BY Multiple
<1>3. a + b = (k + l) * n /\ a - b = (k - l) * n
  BY <1>1, <1>2
<1>4. a + b \in Int /\ a - b \in Int /\ k + l \in Int /\ k - l \in Int
  OBVIOUS
<1> QED BY <1>3, <1>4, Multiple

(* Wrapping at a multiple of n loses nothing of the remainder by n.        *)
LEMMA ModDivides == ASSUME NEW a \in Int, NEW m \in Nat \ {0}, NEW n \in Nat \ {0}, m % n = 0
  PROVE (a % m) % n = a % n
<1>1. PICK k \in Int : m = k * n
  BY Multiple
<1> DEFINE q == a \div m
           r == a % m
           s == r \div n
           t == r % n
<1>2. q \in Int /\ r \in 0 .. m - 1 /\ a = q * m + r
  BY DivMod
<1>3. s \in Int /\ t \in 0 .. n - 1 /\ r = s * n + t
  BY <1>2, DivMod
<1> HIDE DEF q, r, s, t
<1>4. a = q * (k * n) + (s * n + t)
  BY <1>1, <1>2, <1>3
<1>5. q * (k * n) = (q * k) * n
  BY <1>2
<1>6. q * k \in Int /\ (q * k) * n + s * n = (q * k + s) * n
  BY <1>2, <1>3
<1>7. a = (q * k + s) * n + t
  BY <1>2, <1>3, <1>4, <1>5, <1>6
<1>8. a % n = t
  <2>1. q * k + s \in Int
    BY <1>3, <1>6
  <2>2. ((q * k + s) * n + t) % n = t
    BY <1>3, <2>1, ModUnique
  <2> QED
    BY <1>7, <2>2
<1> QED BY <1>8 DEF t, r
-----------------------------------------------------------------------------
(* The positions. *)

(* How far the position `read` has come: the host moves it after its pread. *)
base == heard - got

(* The positions are the two counts, each modulo Modulus; the counts keep  *)
(* to whole frames; and no more is in the ring than it holds, with what is *)
(* being copied and without what is being read.                            *)
MappedInv ==
  /\ mapped = 0 => capacity = 0
  /\ mapped # 0 => Accepted(capacity, mapped)
  /\ w_pc = "closed" => mapped = 0
  /\ w_pc = "copy" => mapped # 0
  /\ r_pc = "read" => mapped # 0

FramesInv ==
  /\ base % FrameBytes = 0 /\ sent % FrameBytes = 0
  /\ bytes % FrameBytes = 0 /\ take % FrameBytes = 0

PositionInv ==
  /\ write = sent % Modulus /\ read = base % Modulus
  /\ base >= 0 /\ sent - base <= capacity
  /\ r_pc = "read" => take <= sent - base
  /\ r_pc = "idle" => got = 0
  /\ w_pc = "copy" => sent + bytes - base <= capacity /\ sent + bytes <= MaxSent

IInv == TypeOK /\ MappedInv /\ FramesInv /\ PositionInv
-----------------------------------------------------------------------------
(* The invariant is inductive. *)

(* Where there is a mapping, the ring has a capacity within it.            *)
LEMMA Mapped ==
  ASSUME TypeOK, MappedInv, mapped # 0
  PROVE  /\ capacity \in Nat \ {0} /\ capacity <= mapped /\ mapped \in Nat
         /\ capacity % FrameBytes = 0 /\ capacity < Modulus
BY RingAssumption DEF TypeOK, MappedInv, Accepted

(* What the two counts are.                                                *)
LEMMA Counts ==
  ASSUME IInv
  PROVE  /\ base \in Nat /\ sent \in Nat /\ heard \in Nat /\ capacity \in Nat
         /\ heard = base + got /\ heard <= sent
         /\ sent - base \in 0 .. capacity /\ capacity < Modulus
         /\ got \in Nat /\ take \in Nat /\ base <= heard /\ base <= sent
<1>1. capacity \in Nat /\ capacity < Modulus
  BY RingAssumption DEF IInv, TypeOK
<1> QED
  BY <1>1, RingAssumption DEF IInv, TypeOK, PositionInv, base

(* The two positions tell how many bytes are in the ring.                  *)
LEMMA Used ==
  ASSUME IInv
  PROVE  (write - read) % Modulus = sent - base
<1>1. Modulus \in Nat \ {0}
  BY RingAssumption
<1>2. base \in Int /\ sent \in Int /\ sent - base \in 0 .. Modulus - 1
  BY <1>1, Counts
<1>3. write = sent % Modulus /\ read = base % Modulus
  BY DEF IInv, PositionInv
<1>4. ((sent % Modulus) - (base % Modulus)) % Modulus = (sent - base) % Modulus
  BY <1>1, <1>2, ModDifference
<1>5. (sent - base) % Modulus = sent - base
  BY <1>1, <1>2, ModSmall
<1> QED
  BY <1>3, <1>4, <1>5

(* A number of bytes that is a whole number of frames.                     *)
LEMMA WholeFrames ==
  ASSUME NEW n \in Nat \ {0}, NEW a \in Nat, a % n = 0
  PROVE  a \div n \in Nat /\ (a \div n) * n = a
<1>1. a \div n \in Nat
  OBVIOUS
<1>2. a = (a \div n) * n + (a % n)
  BY DivMod
<1> QED
  BY <1>1, <1>2

(* A write asks for no more than the room there is.                        *)
LEMMA Fitting ==
  ASSUME IInv, mapped # 0
  PROVE  free_frames \in Nat /\ free_frames * FrameBytes = capacity - (sent - base)
<1> DEFINE used == sent - base
           c == capacity \div FrameBytes
           u == used \div FrameBytes
<1>1. FrameBytes \in Nat \ {0} /\ capacity \in Nat /\ used \in 0 .. capacity
  BY RingAssumption, Counts
<1>2. base \in Int /\ sent \in Int /\ used % FrameBytes = 0
  BY <1>1, Counts, ModSum DEF IInv, FramesInv
<1>3. capacity % FrameBytes = 0
  BY Mapped DEF IInv
<1>4. buffered_frames = u
  BY <1>1, Used DEF buffered_frames
<1>5. c \in Nat /\ c * FrameBytes = capacity
  BY <1>1, <1>3, WholeFrames
<1>6. u \in Nat /\ u * FrameBytes = used
  BY <1>1, <1>2, WholeFrames
<1>7. free_frames = c - u
  BY <1>4 DEF free_frames
<1> HIDE DEF used, c, u
<1>8. (c - u) * FrameBytes = capacity - used
  BY <1>1, <1>5, <1>6
<1>9. c - u >= 0
  <2>1. SUFFICES ASSUME c + 1 <= u PROVE FALSE
    BY <1>5, <1>6
  <2>2. (c + 1) * FrameBytes <= u * FrameBytes
    BY <1>1, <1>5, <1>6, <2>1
  <2> QED
    BY <1>1, <1>5, <1>6, <2>2
<1> QED
  BY <1>5, <1>6, <1>7, <1>8, <1>9 DEF used
(* memcpy stays within the capacity, and goes round at its end.            *)
LEMMA CopyOffsets ==
  ASSUME IInv, w_pc = "copy", NEW i \in 0 .. bytes - 1
  PROVE  /\ capacity \in Nat \ {0} /\ capacity <= mapped
         /\ CopyOffset(i) \in 0 .. capacity - 1
         /\ CopyOffset(i) = (write + i) % capacity
<1> DEFINE start == write % capacity
<1>1. capacity \in Nat \ {0} /\ capacity <= mapped
  BY Mapped DEF IInv, MappedInv
<1>2. bytes \in Nat /\ bytes <= capacity /\ write \in Int /\ i \in Int
  <2>1. sent + bytes - base <= capacity /\ bytes \in Nat
    BY DEF IInv, PositionInv, TypeOK
  <2>2. base \in Int /\ sent \in Int /\ sent - base \in 0 .. capacity
    BY Counts
  <2> QED
    BY <1>1, <2>1, <2>2, RingAssumption DEF IInv, TypeOK
<1>3. start \in 0 .. capacity - 1
  BY <1>1, <1>2, DivMod
<1>4. (start + i) % capacity = (write + i) % capacity
  BY <1>1, <1>2, ModAdd
<1>5. CopyOffset(i) = IF i < capacity - start THEN start + i ELSE i - (capacity - start)
  BY DEF CopyOffset
<1> HIDE DEF start
<1>6. CASE i < capacity - start
  <2>1. start + i \in 0 .. capacity - 1
    BY <1>1, <1>2, <1>3, <1>6
  <2>2. (start + i) % capacity = start + i
    BY <1>1, <2>1, ModSmall
  <2> QED
    BY <1>1, <1>4, <1>5, <1>6, <2>1, <2>2
<1>7. CASE ~(i < capacity - start)
  <2> DEFINE x == i - (capacity - start)
  <2>1. x \in 0 .. capacity - 1 /\ start + i = 1 * capacity + x
    BY <1>1, <1>2, <1>3, <1>7
  <2>2. CopyOffset(i) = x
    BY <1>5, <1>7
  <2> HIDE DEF x
  <2>3. (1 * capacity + x) % capacity = x
    BY <1>1, <2>1, ModUnique
  <2> QED
    BY <1>1, <1>4, <2>1, <2>2, <2>3
<1> QED
  BY <1>6, <1>7

LEMMA IInvInit == Init => IInv
<1> SUFFICES ASSUME Init PROVE IInv
  OBVIOUS
<1>1. TypeOK
  BY RingAssumption DEF Init, TypeOK
<1>2. MappedInv
  BY DEF Init, MappedInv
<1>3. 0 % FrameBytes = 0 /\ 0 % Modulus = 0
  BY RingAssumption, ModSmall
<1>4. FramesInv
  BY <1>3 DEF Init, FramesInv, base
<1>5. PositionInv
  BY <1>3 DEF Init, PositionInv, base
<1> QED
  BY <1>1, <1>2, <1>4, <1>5 DEF IInv

LEMMA TypeNext == IInv /\ [Next]_vars => TypeOK'
<1> SUFFICES ASSUME IInv, [Next]_vars PROVE TypeOK'
  OBVIOUS
<1> USE RingAssumption
<1>1. CASE ring_open
  <2>1. CASE UNCHANGED <<mapped, capacity, data>>
    BY <1>1, <2>1 DEF ring_open, IInv, TypeOK, reader, stream
  <2>2. CASE \E size \in DataSizes \ {0}, c \in Capacities :
               /\ mapped' = size /\ capacity' = c
               /\ data' = [i \in 0 .. size - 1 |-> -1]
    BY <1>1, <2>2 DEF ring_open, IInv, TypeOK, reader, stream
  <2> QED
    BY <1>1, <2>1, <2>2 DEF ring_open
<1>2. CASE ring_write
  <2>1. mapped # 0
    BY <1>2 DEF ring_write
  <2>2. \A n \in Nat : n * FrameBytes \in Nat
    OBVIOUS
  <2>3. bytes' \in Nat
    BY <1>2, <2>1, <2>2, Fitting DEF ring_write
  <2> QED
    BY <1>2, <2>3 DEF ring_write, IInv, TypeOK, file, reader, stream
<1>3. CASE ring_copy
  <2>1. w_pc = "copy" /\ copied \in 0 .. bytes - 1
    BY <1>3 DEF ring_copy, IInv, TypeOK
  <2>2. CopyOffset(copied) \in 0 .. mapped - 1
    BY <2>1, CopyOffsets, Counts DEF IInv, TypeOK
  <2>3. sent + copied \in Int
    BY <2>1 DEF IInv, TypeOK
  <2>4. data' \in [0 .. mapped - 1 -> Int]
    BY <1>3, <2>2, <2>3 DEF ring_copy, IInv, TypeOK
  <2> QED
    BY <1>3, <2>1, <2>4 DEF ring_copy, IInv, TypeOK, reader, stream
<1>4. CASE ring_publish
  <2>1. write' \in 0 .. Modulus - 1
    <3>1. write + bytes \in Int
      BY DEF IInv, TypeOK
    <3> QED
      BY <1>4, <3>1, DivMod DEF ring_publish, Advance
  <2>2. sent' \in 0 .. MaxSent /\ heard \in 0 .. sent'
    BY <1>4 DEF ring_publish, IInv, TypeOK, PositionInv
  <2> QED
    BY <1>4, <2>1, <2>2 DEF ring_publish, IInv, TypeOK, reader
<1>5. CASE host_load
  <2>1. (write - read) % Modulus \in Nat
    BY Used, Counts
  <2>2. take' \in Nat
    BY <1>5, <2>1 DEF host_load
  <2> QED
    BY <1>5, <2>2 DEF host_load, IInv, TypeOK, file, writer, stream
<1>6. CASE host_pread
  <2>1. mapped # 0 /\ got < take /\ take <= sent - base
    BY <1>6 DEF host_pread, IInv, MappedInv, PositionInv
  <2>2. heard + 1 \in 0 .. sent
    BY <2>1, Counts DEF IInv, TypeOK
  <2>3. capacity \in Nat \ {0} /\ capacity <= mapped
    BY <2>1, Mapped DEF IInv
  <2>4. Advance(read, got) \in Int
    <3>1. read + got \in Int
      BY DEF IInv, TypeOK
    <3> QED
      BY <3>1, DivMod DEF Advance
  <2>5. Advance(read, got) % capacity \in 0 .. capacity - 1
    BY <2>3, <2>4, DivMod
  <2>6. out' \in Int
    BY <1>6, <2>3, <2>5 DEF host_pread, IInv, TypeOK
  <2> QED
    BY <1>6, <2>1, <2>2, <2>6 DEF host_pread, IInv, TypeOK, file, writer
<1>7. CASE host_store
  <2>1. read' \in 0 .. Modulus - 1
    <3>1. read + take \in Int
      BY DEF IInv, TypeOK
    <3> QED
      BY <1>7, <3>1, DivMod DEF host_store, Advance
  <2> QED
    BY <1>7, <2>1 DEF host_store, IInv, TypeOK, writer, stream
<1>8. CASE UNCHANGED vars
  BY <1>8 DEF vars, file, writer, reader, stream, IInv, TypeOK
<1> QED
  BY <1>1, <1>2, <1>3, <1>4, <1>5, <1>6, <1>7, <1>8 DEF Next

LEMMA MappedNext == IInv /\ [Next]_vars => MappedInv'
<1> SUFFICES ASSUME IInv, [Next]_vars PROVE MappedInv'
  OBVIOUS
<1>1. CASE ring_open
  <2>1. w_pc' = "idle" /\ r_pc' = r_pc /\ mapped = 0
    BY <1>1 DEF ring_open, reader, IInv, MappedInv
  <2>2. CASE UNCHANGED <<mapped, capacity, data>>
    BY <2>1, <2>2 DEF IInv, MappedInv
  <2>3. CASE \E size \in DataSizes \ {0}, c \in Capacities :
               Accepted(c, size) /\ mapped' = size /\ capacity' = c
    BY <2>1, <2>3 DEF IInv, MappedInv
  <2> QED
    BY <1>1, <2>2, <2>3 DEF ring_open
<1>2. CASE \/ ring_write \/ ring_copy \/ ring_publish
           \/ host_load \/ host_pread \/ host_store \/ UNCHANGED vars
  BY <1>2 DEF ring_write, ring_copy, ring_publish, host_load, host_pread, host_store,
     vars, file, writer, reader, stream, IInv, MappedInv
<1> QED
  BY <1>1, <1>2 DEF Next

(* `read` never moves but by what was read: `base` moves with host_store.  *)
LEMMA BaseNext ==
  ASSUME IInv, [Next]_vars
  PROVE  IF host_store THEN base' = base + take ELSE base' = base
<1>1. CASE host_store
  BY <1>1 DEF host_store, stream, base, IInv, TypeOK
<1>2. ASSUME \/ ring_open \/ ring_write \/ ring_copy \/ ring_publish
             \/ host_load \/ host_pread \/ UNCHANGED vars
      PROVE  base' = base
  BY <1>2 DEF ring_open, ring_write, ring_copy, ring_publish, host_load, host_pread,
     vars, file, writer, reader, stream, base, IInv, TypeOK, PositionInv
<1> QED
  BY <1>1, <1>2 DEF Next

LEMMA FramesNext == IInv /\ [Next]_vars => FramesInv'
<1> SUFFICES ASSUME IInv, [Next]_vars PROVE FramesInv'
  OBVIOUS
<1>1. FrameBytes \in Nat \ {0} /\ base \in Int /\ sent \in Int
      /\ bytes \in Int /\ take \in Int
  BY RingAssumption, Counts DEF IInv, TypeOK
<1>2. base' % FrameBytes = 0
  <2>1. (base + take) % FrameBytes = 0
    BY <1>1, ModSum DEF IInv, FramesInv
  <2> QED
    BY <2>1, BaseNext DEF IInv, FramesInv
<1>3. sent' % FrameBytes = 0
  <2>1. (sent + bytes) % FrameBytes = 0
    BY <1>1, ModSum DEF IInv, FramesInv
  <2>2. sent' = sent \/ sent' = sent + bytes
    BY DEF Next, ring_open, ring_write, ring_copy, ring_publish, host_load, host_pread,
       host_store, vars, stream
  <2> QED
    BY <2>1, <2>2 DEF IInv, FramesInv
<1>4. bytes' % FrameBytes = 0
  <2>1. CASE ring_write
    <3>1. PICK n \in Int : bytes' = n * FrameBytes
      <4>1. PICK frames \in 1 .. MaxFrames :
              bytes' = (IF frames > free_frames THEN free_frames ELSE frames) * FrameBytes
        BY <2>1 DEF ring_write
      <4>2. free_frames \in Nat
        BY <2>1, Fitting DEF ring_write
      <4> QED
        BY <4>1, <4>2
    <3>2. n * FrameBytes \in Int
      BY <1>1, <3>1
    <3> QED
      BY <1>1, <3>1, <3>2, Multiple
  <2>2. ~ring_write => bytes' = bytes
    BY DEF Next, ring_open, ring_copy, ring_publish, host_load, host_pread,
       host_store, vars, writer
  <2> QED
    BY <2>1, <2>2 DEF IInv, FramesInv
<1>5. take' % FrameBytes = 0
  <2>1. CASE host_load
    BY <2>1 DEF host_load
  <2>2. ~host_load => take' = take
    BY DEF Next, ring_open, ring_write, ring_copy, ring_publish, host_pread,
       host_store, vars, reader
  <2> QED
    BY <2>1, <2>2 DEF IInv, FramesInv
<1> QED
  BY <1>2, <1>3, <1>4, <1>5 DEF FramesInv

LEMMA PositionNext == IInv /\ [Next]_vars => PositionInv'
<1> SUFFICES ASSUME IInv, [Next]_vars PROVE PositionInv'
  OBVIOUS
<1>0. /\ Modulus \in Nat \ {0} /\ bytes \in Nat /\ take \in Nat /\ got \in Nat
      /\ base \in Nat /\ sent \in Nat /\ capacity \in Nat /\ sent - base \in 0 .. capacity
  BY RingAssumption, Counts DEF IInv, TypeOK
<1>1. CASE ring_open
  <2>1. UNCHANGED <<write, read, sent, take, got, r_pc>> /\ w_pc' = "idle" /\ base' = base
    BY <1>1 DEF ring_open, reader, stream, base
  <2>2. mapped = 0 /\ capacity = 0 /\ r_pc = "idle"
    BY <1>1 DEF ring_open, IInv, MappedInv, TypeOK
  <2>3. capacity' \in Nat
    BY <1>1, <1>0, RingAssumption DEF ring_open
  <2> QED
    BY <1>0, <2>1, <2>2, <2>3 DEF IInv, PositionInv
<1>2. CASE ring_write
  <2>1. base' = base
    BY <1>2 DEF ring_write, reader, stream, base
  <2>2. PICK frames \in 1 .. MaxFrames :
          LET fitting == IF frames > free_frames THEN free_frames ELSE frames
          IN  /\ sent + fitting * FrameBytes <= MaxSent
              /\ bytes' = fitting * FrameBytes
    BY <1>2 DEF ring_write
  <2>3. free_frames \in Nat /\ free_frames * FrameBytes = capacity - (sent - base)
    BY <1>2, Fitting DEF ring_write
  <2>4. bytes' <= free_frames * FrameBytes /\ bytes' \in Int
    <3>1. \A m, n \in Nat : m <= n => m * FrameBytes <= n * FrameBytes
      BY RingAssumption
    <3>2. \A m \in Nat : m * FrameBytes \in Int
      BY RingAssumption
    <3> QED
      BY <2>2, <2>3, <3>1, <3>2
  <2>5. sent + bytes' - base <= capacity /\ sent + bytes' <= MaxSent
    BY <1>0, <2>2, <2>3, <2>4
  <2> QED
    BY <1>2, <2>1, <2>5 DEF ring_write, file, reader, stream, IInv, PositionInv
<1>3. CASE ring_copy \/ UNCHANGED vars
  BY <1>3 DEF ring_copy, vars, file, writer, reader, stream, base, IInv, PositionInv
<1>4. CASE ring_publish
  <2>1. base' = base /\ w_pc = "copy"
    BY <1>4 DEF ring_publish, reader, base
  <2>2. write' = (sent + bytes) % Modulus
    <3>1. sent \in Int /\ bytes \in Int /\ Modulus \in Nat \ {0}
      BY <1>0
    <3>2. ((sent % Modulus) + bytes) % Modulus = (sent + bytes) % Modulus
      BY <3>1, ModAdd
    <3> QED
      BY <1>4, <3>2 DEF ring_publish, Advance, IInv, PositionInv
  <2>3. sent + bytes - base <= capacity
    BY <2>1 DEF IInv, PositionInv
  <2>4. r_pc = "read" => take <= sent + bytes - base
    BY <1>0 DEF IInv, PositionInv
  <2> QED
    BY <1>0, <1>4, <2>1, <2>2, <2>3, <2>4 DEF ring_publish, reader, IInv, PositionInv
<1>5. CASE host_load
  <2>1. base' = base
    BY <1>5, BaseNext, <1>0 DEF host_load, stream, base, IInv, PositionInv
  <2>2. take' <= sent - base
    BY <1>5, Used, <1>0 DEF host_load
  <2> QED
    BY <1>5, <2>1, <2>2 DEF host_load, file, writer, stream, IInv, PositionInv
<1>6. CASE host_pread
  <2>1. base' = base
    BY <1>6 DEF host_pread, base, IInv, TypeOK
  <2> QED
    BY <1>6, <2>1 DEF host_pread, file, writer, IInv, PositionInv
<1>7. CASE host_store
  <2>1. base' = base + take
    BY <1>7, BaseNext
  <2>2. read' = (base + take) % Modulus
    <3>1. base \in Int /\ take \in Int /\ Modulus \in Nat \ {0}
      BY <1>0
    <3>2. ((base % Modulus) + take) % Modulus = (base + take) % Modulus
      BY <3>1, ModAdd
    <3> QED
      BY <1>7, <3>2 DEF host_store, Advance, IInv, PositionInv
  <2>3. w_pc = "copy" => sent + bytes - (base + take) <= capacity
    BY <1>0 DEF IInv, PositionInv
  <2> QED
    BY <1>0, <1>7, <2>1, <2>2, <2>3 DEF host_store, writer, stream, IInv, PositionInv
<1> QED
  BY <1>1, <1>2, <1>3, <1>4, <1>5, <1>6, <1>7 DEF Next

LEMMA IInvNext == IInv /\ [Next]_vars => IInv'
BY TypeNext, MappedNext, FramesNext, PositionNext DEF IInv

LEMMA Inductive == Spec => []IInv
<1> QED
  BY IInvInit, IInvNext, PTL DEF Spec

-----------------------------------------------------------------------------
(* Every variable keeps its type, whatever the header says.                *)
THEOREM TypeCorrect == Spec => []TypeOK
<1>1. IInv => TypeOK
  BY DEF IInv
<1> QED
  BY <1>1, Inductive, PTL

(* What a copy under way brings fits beside what was not heard yet.        *)
NoOverrun == w_pc = "copy" => sent + bytes - heard <= capacity

(* The engine never writes over sound the host has not heard: the host     *)
(* moving `read` after free_frames was computed only makes more room.      *)
THEOREM NeverOverruns == Spec => []NoOverrun
<1>1. IInv => NoOverrun
  <2> SUFFICES ASSUME IInv, w_pc = "copy" PROVE sent + bytes - heard <= capacity
    BY DEF NoOverrun
  <2>1. sent + bytes - base <= capacity
    BY DEF IInv, PositionInv
  <2>2. heard = base + got /\ bytes \in Nat
    BY Counts DEF IInv, TypeOK
  <2> QED
    BY <2>1, <2>2, Counts
<1> QED
  BY <1>1, Inductive, PTL

(* No memcpy leaves the mapping, whatever capacity a header states and     *)
(* whether or not it divides the range of the positions.                   *)
THEOREM StaysInMapping == Spec => []InMapping
<1>1. IInv => InMapping
  <2> SUFFICES ASSUME IInv, w_pc = "copy", NEW i \in copied .. bytes - 1
               PROVE  CopyOffset(i) \in 0 .. mapped - 1
    BY DEF InMapping
  <2>1. i \in 0 .. bytes - 1
    BY DEF IInv, TypeOK
  <2>2. mapped \in Nat
    BY Mapped DEF IInv, MappedInv
  <2> QED
    BY <2>1, <2>2, CopyOffsets
<1> QED
  BY <1>1, Inductive, PTL
-----------------------------------------------------------------------------
(* The queue. *)

(* A position that wraps keeps its place in the data: the capacity divides *)
(* the range of the positions, or they have not wrapped yet.  The code     *)
(* does not see to it; without it the ring breaks at the first wrap.       *)
PlacesSurviveWrap ==
  \/ MaxSent <= Modulus
  \/ \A size \in DataSizes, c \in Capacities : Accepted(c, size) => Modulus % c = 0

(* The bytes already copied of this call are where the reader will look.   *)
CopiedInPlace ==
  w_pc = "copy" => \A i \in 0 .. copied - 1 : data[(sent + i) % capacity] = sent + i

StreamInv == UnreadInPlace /\ CopiedInPlace /\ HeardInOrder

LEMMA KeepsPlace ==
  ASSUME PlacesSurviveWrap, IInv, mapped # 0, NEW k \in 0 .. MaxSent - 1
  PROVE  (k % Modulus) % capacity = k % capacity
<1>1. Modulus \in Nat \ {0} /\ capacity \in Nat \ {0} /\ k \in Int
  BY RingAssumption, Mapped DEF IInv
<1>2. CASE MaxSent <= Modulus
  <2>1. k \in 0 .. Modulus - 1
    BY <1>1, <1>2, RingAssumption
  <2> QED
    BY <1>1, <2>1, ModSmall
<1>3. CASE \A size \in DataSizes, c \in Capacities : Accepted(c, size) => Modulus % c = 0
  <2>1. mapped \in DataSizes /\ capacity \in Capacities /\ Accepted(capacity, mapped)
    BY <1>1 DEF IInv, TypeOK, MappedInv
  <2>2. Modulus % capacity = 0
    BY <1>3, <2>1
  <2> QED
    BY <1>1, <2>2, ModDivides
<1> QED
  BY <1>2, <1>3 DEF PlacesSurviveWrap

(* The next byte goes to the place of its number in the stream.            *)
LEMMA CopyPlace ==
  ASSUME PlacesSurviveWrap, IInv, w_pc = "copy", NEW i \in 0 .. bytes - 1
  PROVE  CopyOffset(i) = (sent + i) % capacity
<1>1. capacity \in Nat \ {0} /\ CopyOffset(i) = (write + i) % capacity
  BY CopyOffsets
<1>2. sent \in 0 .. MaxSent - 1 /\ sent \in Int /\ write \in Int /\ i \in Int
  BY Counts, RingAssumption DEF IInv, TypeOK, PositionInv
<1>3. write % capacity = sent % capacity
  BY <1>2, KeepsPlace DEF IInv, PositionInv, MappedInv
<1>4. ((write % capacity) + i) % capacity = (write + i) % capacity
  BY <1>1, <1>2, ModAdd
<1>5. ((sent % capacity) + i) % capacity = (sent + i) % capacity
  BY <1>1, <1>2, ModAdd
<1> QED
  BY <1>1, <1>3, <1>4, <1>5

(* The reader looks for the next byte where the writer put it.             *)
LEMMA ReadPlace ==
  ASSUME PlacesSurviveWrap, IInv, r_pc = "read", got < take
  PROVE  /\ heard \in 0 .. sent - 1
         /\ Advance(read, got) % capacity = heard % capacity
<1>1. mapped # 0 /\ take <= sent - base
  BY DEF IInv, MappedInv, PositionInv
<1>2. /\ base \in Int /\ got \in Int /\ Modulus \in Nat \ {0}
      /\ heard = base + got /\ heard \in 0 .. sent - 1 /\ heard \in 0 .. MaxSent - 1
  BY <1>1, Counts, RingAssumption DEF IInv, TypeOK
<1>3. ((base % Modulus) + got) % Modulus = (base + got) % Modulus
  BY <1>2, ModAdd
<1>4. Advance(read, got) = heard % Modulus
  BY <1>2, <1>3 DEF Advance, IInv, PositionInv
<1> QED
  BY <1>1, <1>2, <1>4, KeepsPlace

(* UnreadInPlace of any data, capacity and counts.                         *)
InPlace(bytesAt, c, h, s) == \A k \in h .. s - 1 : bytesAt[k % c] = k

LEMMA StreamNext ==
  PlacesSurviveWrap /\ IInv /\ StreamInv /\ [Next]_vars => StreamInv'
<1> SUFFICES ASSUME PlacesSurviveWrap, IInv, StreamInv, [Next]_vars PROVE StreamInv'
  OBVIOUS
<1>0. base \in Nat /\ sent \in Nat /\ heard \in Nat /\ capacity \in Nat
      /\ base <= heard /\ heard <= sent /\ sent - base \in 0 .. capacity
      /\ bytes \in Nat /\ copied \in 0 .. bytes
  BY Counts DEF IInv, TypeOK
<1>1. CASE ring_open
  <2>1. capacity = 0
    BY <1>1 DEF ring_open, IInv, MappedInv
  <2>2. heard = sent
    BY <1>0, <2>1
  <2>3. UNCHANGED <<sent, heard, out>> /\ w_pc' = "idle"
    BY <1>1 DEF ring_open, stream
  <2> QED
    BY <2>2, <2>3, <1>0 DEF StreamInv, UnreadInPlace, CopiedInPlace, HeardInOrder
<1>2. CASE ring_write
  <2>1. UNCHANGED <<data, capacity, sent, heard, out>> /\ copied' = 0
    BY <1>2 DEF ring_write, file, stream
  <2> QED
    BY <2>1 DEF StreamInv, UnreadInPlace, CopiedInPlace, HeardInOrder
<1>3. CASE ring_copy
  <2>1. /\ w_pc = "copy" /\ copied \in 0 .. bytes - 1
        /\ UNCHANGED <<capacity, sent, heard, out, w_pc, bytes>> /\ copied' = copied + 1
    BY <1>0, <1>3 DEF ring_copy, stream
  <2> DEFINE place == (sent + copied) % capacity
  <2>2. data' = [data EXCEPT ![place] = sent + copied]
    BY <1>3, <2>1, CopyPlace DEF ring_copy
  <2>3. capacity \in Nat \ {0} /\ capacity <= mapped /\ sent + bytes - base <= capacity
    BY <2>1, CopyOffsets DEF IInv, PositionInv
  <2>4. place \in 0 .. mapped - 1
    <3>1. sent + copied \in Int /\ capacity \in Nat \ {0}
      BY <1>0, <2>1, <2>3
    <3>2. place \in 0 .. capacity - 1
      BY <3>1, DivMod
    <3>3. mapped \in Nat
      BY RingAssumption DEF IInv, TypeOK
    <3> HIDE DEF place
    <3> QED
      BY <2>3, <3>2, <3>3
  <2>5. \A k \in base .. sent + copied - 1 : k % capacity # place
    <3> SUFFICES ASSUME NEW k \in base .. sent + copied - 1
                 PROVE  k % capacity # (sent + copied) % capacity
      OBVIOUS
    <3>1. /\ k \in Int /\ sent + copied \in Int /\ capacity \in Nat \ {0}
          /\ k < sent + copied /\ sent + copied < k + capacity
      BY <1>0, <2>1, <2>3
    <3> QED
      BY <3>1, ModDistinct
  <2> HIDE DEF place
  <2>6. \A k \in base .. sent + copied - 1 : data'[k % capacity] = data[k % capacity]
    BY <2>2, <2>5
  <2>7. data'[place] = sent + copied
    BY <2>2, <2>4 DEF IInv, TypeOK
  <2>8. UnreadInPlace'
    BY <1>0, <2>1, <2>6 DEF StreamInv, UnreadInPlace
  <2>9. CopiedInPlace'
    <3>1. \A i \in 0 .. copied - 1 : sent + i \in base .. sent + copied - 1
      BY <1>0, <2>1
    <3>2. \A i \in 0 .. copied - 1 : data'[(sent + i) % capacity] = sent + i
      BY <2>1, <2>6, <3>1 DEF StreamInv, CopiedInPlace
    <3>3. \A i \in 0 .. copied : i \in 0 .. copied - 1 \/ i = copied
      BY <2>1
    <3>4. \A i \in 0 .. copied : data'[(sent + i) % capacity] = sent + i
      BY <2>7, <3>2, <3>3 DEF place
    <3>5. copied' - 1 = copied
      BY <2>1
    <3> QED
      BY <2>1, <3>4, <3>5 DEF CopiedInPlace
  <2> QED
    BY <2>1, <2>8, <2>9 DEF StreamInv, HeardInOrder
<1>4. CASE ring_publish
  <2>1. /\ w_pc = "copy" /\ copied = bytes /\ sent' = sent + bytes /\ w_pc' = "idle"
        /\ UNCHANGED <<capacity, data, heard, out>>
    BY <1>4 DEF ring_publish, Published
  <2>2. \A k \in sent .. (sent + bytes) - 1 : data[k % capacity] = k
    <3>1. \A k \in sent .. (sent + bytes) - 1 : k - sent \in 0 .. copied - 1 /\ sent + (k - sent) = k
      BY <1>0, <2>1
    <3> QED
      BY <2>1, <3>1 DEF StreamInv, CopiedInPlace
  <2>3. \A k \in heard .. (sent + bytes) - 1 :
          k \in heard .. sent - 1 \/ k \in sent .. (sent + bytes) - 1
    BY <1>0
  <2>4. \A k \in heard .. (sent + bytes) - 1 : data[k % capacity] = k
    BY <2>2, <2>3 DEF StreamInv, UnreadInPlace
  <2>5. UnreadInPlace'
    <3>1. heard' = heard /\ sent' = sent + bytes /\ data' = data /\ capacity' = capacity
      BY <2>1
    <3>2. InPlace(data, capacity, heard, sent + bytes)
      BY <2>4 DEF InPlace
    <3>3. InPlace(data', capacity', heard', sent')
      BY <3>1, <3>2
    <3> QED
      BY <3>3 DEF InPlace, UnreadInPlace
  <2> QED
    BY <2>1, <2>5 DEF StreamInv, CopiedInPlace, HeardInOrder
<1>5. CASE host_pread
  <2>1. heard \in 0 .. sent - 1 /\ Advance(read, got) % capacity = heard % capacity
    BY <1>5, ReadPlace DEF host_pread
  <2>2. data[heard % capacity] = heard
    BY <1>0, <2>1 DEF StreamInv, UnreadInPlace
  <2>3. out' = heard /\ heard' = heard + 1
    BY <1>5, <2>1, <2>2 DEF host_pread
  <2>4. UNCHANGED <<data, capacity, sent, w_pc, copied>>
    BY <1>5 DEF host_pread, file, writer
  <2>5. UnreadInPlace'
    <3>1. \A k \in heard + 1 .. sent - 1 : k \in heard .. sent - 1
      BY <1>0
    <3> QED
      BY <2>3, <2>4, <3>1 DEF StreamInv, UnreadInPlace
  <2>6. CopiedInPlace'
    BY <2>4 DEF StreamInv, CopiedInPlace
  <2>7. HeardInOrder'
    BY <1>0, <2>3 DEF HeardInOrder
  <2> QED
    BY <2>5, <2>6, <2>7 DEF StreamInv
<1>6. CASE host_load \/ host_store \/ UNCHANGED vars
  <2>1. UNCHANGED <<data, capacity, sent, heard, out, w_pc, copied>>
    BY <1>6 DEF host_load, host_store, vars, file, writer, stream
  <2> QED
    BY <2>1 DEF StreamInv, UnreadInPlace, CopiedInPlace, HeardInOrder
<1> QED
  BY <1>1, <1>2, <1>3, <1>4, <1>5, <1>6 DEF Next

LEMMA StreamAlways == PlacesSurviveWrap => (Spec => []StreamInv)
<1>1. Init => StreamInv
  BY DEF Init, StreamInv, UnreadInPlace, CopiedInPlace, HeardInOrder
<1> SUFFICES ASSUME PlacesSurviveWrap PROVE Spec => []StreamInv
  OBVIOUS
<1>2. IInv /\ StreamInv /\ [Next]_vars => StreamInv'
  BY StreamNext
<1> QED
  BY <1>1, <1>2, Inductive, PTL DEF Spec

(* A byte published and not yet heard lies where the host will look for    *)
(* it, while the engine copies behind it, as long as places survive a wrap. *)
THEOREM UnreadStays == PlacesSurviveWrap => (Spec => []UnreadInPlace)
<1>1. StreamInv => UnreadInPlace
  BY DEF StreamInv
<1> QED
  BY <1>1, StreamAlways, PTL

(* Under the same condition the host hears what was accepted, byte by      *)
(* byte, in order, and nothing that was not copied yet.                    *)
THEOREM HeardAsAccepted == PlacesSurviveWrap => (Spec => []HeardInOrder)
<1>1. StreamInv => HeardInOrder
  BY DEF StreamInv
<1> QED
  BY <1>1, StreamAlways, PTL
-----------------------------------------------------------------------------
(* The ring implements the queue. *)

(* The bytes of the stream from `from` up to `to`.                         *)
Bytes(from, to) == [i \in 1 .. to - from |-> from + i - 1]

(* The queue AudioRing reads off its data.                                 *)
queue == [i \in 1 .. sent - heard |-> data[(heard + i - 1) % capacity]]

LEMMA BytesRange ==
  \A h, s \in Nat : \A i \in 1 .. s - h : h + i - 1 \in h .. s - 1
OBVIOUS

LEMMA BytesLength ==
  ASSUME NEW h \in Nat, NEW s \in Nat, h <= s
  PROVE  Bytes(h, s) \in Seq(Int) /\ Len(Bytes(h, s)) = s - h
<1>1. Bytes(h, s) \in [1 .. s - h -> Int] /\ s - h \in Nat
  BY DEF Bytes
<1> QED
  BY <1>1

LEMMA BytesPut ==
  ASSUME NEW h \in Nat, NEW s \in Nat, h <= s, NEW n \in Nat
  PROVE  Bytes(h, s + n) = Bytes(h, s) \o [i \in 1 .. n |-> s + i - 1]
<1> DEFINE more == [i \in 1 .. n |-> s + i - 1]
<1>1. more \in Seq(Int) /\ Len(more) = n
  OBVIOUS
<1>2. Bytes(h, s) \in Seq(Int) /\ Len(Bytes(h, s)) = s - h
  BY BytesLength
<1>3. \A i \in 1 .. n : more[i] = s + i - 1
  OBVIOUS
<1>4. \A i \in 1 .. s - h : Bytes(h, s)[i] = h + i - 1
  BY DEF Bytes
<1> HIDE DEF more
<1>5. /\ Bytes(h, s) \o more \in Seq(Int)
      /\ Len(Bytes(h, s) \o more) = (s - h) + n
      /\ \A i \in 1 .. (s - h) + n : (Bytes(h, s) \o more)[i] =
           IF i <= s - h THEN Bytes(h, s)[i] ELSE more[i - (s - h)]
  <2>1. /\ Bytes(h, s) \o more \in Seq(Int)
        /\ Len(Bytes(h, s) \o more) = Len(Bytes(h, s)) + Len(more)
        /\ \A i \in 1 .. Len(Bytes(h, s)) + Len(more) : (Bytes(h, s) \o more)[i] =
             IF i <= Len(Bytes(h, s)) THEN Bytes(h, s)[i] ELSE more[i - Len(Bytes(h, s))]
    BY <1>1, <1>2, ConcatProperties
  <2> QED
    BY <1>1, <1>2, <2>1
<1>6. \A i \in 1 .. (s - h) + n : (Bytes(h, s) \o more)[i] = h + i - 1
  BY <1>3, <1>4, <1>5
<1>7. /\ Bytes(h, s + n) \in Seq(Int) /\ Len(Bytes(h, s + n)) = (s - h) + n
      /\ \A i \in 1 .. (s - h) + n : Bytes(h, s + n)[i] = h + i - 1
  <2>1. s + n \in Nat /\ h <= s + n /\ (s + n) - h = (s - h) + n
    OBVIOUS
  <2> QED
    BY <2>1, BytesLength DEF Bytes
<1>8. Bytes(h, s + n) = Bytes(h, s) \o more
  BY <1>5, <1>6, <1>7, SeqEqual
<1> QED
  BY <1>8 DEF more

LEMMA BytesTake ==
  ASSUME NEW h \in Nat, NEW s \in Nat, h < s
  PROVE  /\ Bytes(h, s) # <<>> /\ Head(Bytes(h, s)) = h
         /\ Tail(Bytes(h, s)) = Bytes(h + 1, s)
<1>1. Bytes(h, s) \in Seq(Int) /\ Len(Bytes(h, s)) = s - h
  BY BytesLength
<1>2. \A i \in 1 .. s - h : Bytes(h, s)[i] = h + i - 1
  BY DEF Bytes
<1>3. Bytes(h, s) # <<>> /\ Head(Bytes(h, s)) = h
  BY <1>1, <1>2
<1>4. /\ Tail(Bytes(h, s)) \in Seq(Int) /\ Len(Tail(Bytes(h, s))) = (s - h) - 1
      /\ \A i \in 1 .. (s - h) - 1 : Tail(Bytes(h, s))[i] = Bytes(h, s)[i + 1]
  BY <1>1, <1>3, HeadTailProperties
<1>5. \A i \in 1 .. (s - h) - 1 : Tail(Bytes(h, s))[i] = (h + 1) + i - 1
  BY <1>2, <1>4
<1>6. /\ Bytes(h + 1, s) \in Seq(Int) /\ Len(Bytes(h + 1, s)) = (s - h) - 1
      /\ \A i \in 1 .. (s - h) - 1 : Bytes(h + 1, s)[i] = (h + 1) + i - 1
  <2>1. h + 1 \in Nat /\ h + 1 <= s /\ s - (h + 1) = (s - h) - 1
    OBVIOUS
  <2> QED
    BY <2>1, BytesLength DEF Bytes
<1>7. Tail(Bytes(h, s)) = Bytes(h + 1, s)
  <2>1. /\ Len(Tail(Bytes(h, s))) = Len(Bytes(h + 1, s))
        /\ \A i \in 1 .. Len(Tail(Bytes(h, s))) : Tail(Bytes(h, s))[i] = Bytes(h + 1, s)[i]
    BY <1>4, <1>5, <1>6
  <2> QED
    BY <1>4, <1>6, <2>1, SeqEqual
<1> QED
  BY <1>3, <1>7

LEMMA QueueInit == Init => Queue!Init
<1> SUFFICES ASSUME Init PROVE Queue!Init
  OBVIOUS
<1>1. queue = <<>>
  BY DEF Init, queue
<1> QED
  BY <1>1 DEF Init, Queue!Init, queue

LEMMA QueueStep ==
  IInv /\ IInv' /\ StreamInv /\ StreamInv' /\ [Next]_vars => [Queue!Next]_(Queue!vars)
<1> SUFFICES ASSUME IInv, IInv', StreamInv, StreamInv', [Next]_vars
             PROVE  [Queue!Next]_(Queue!vars)
  OBVIOUS
<1>1. heard \in Nat /\ sent \in Nat /\ heard <= sent /\ capacity \in Nat
  BY Counts
<1>2. queue = Bytes(heard, sent)
  <2>1. \A k \in heard .. sent - 1 : data[k % capacity] = k
    BY DEF StreamInv, UnreadInPlace
  <2> QED
    BY <1>1, <2>1, BytesRange DEF queue, Bytes
<1>3. queue' = Bytes(heard', sent')
  <2>1. heard' \in Nat /\ sent' \in Nat
    BY RingAssumption DEF IInv, TypeOK
  <2>2. \A k \in heard' .. sent' - 1 : data'[k % capacity'] = k
    BY DEF StreamInv, UnreadInPlace
  <2> QED
    BY <2>1, <2>2, BytesRange DEF queue, Bytes
<1>4. ASSUME UNCHANGED <<capacity, sent, heard, out>> PROVE UNCHANGED Queue!vars
  <2>1. queue' = queue
    BY <1>2, <1>3, <1>4
  <2> QED
    BY <1>4, <2>1 DEF Queue!vars, queue
<1>5. CASE ring_open
  <2>1. UNCHANGED <<sent, heard, out>>
    BY <1>5 DEF ring_open, stream
  <2>2. CASE UNCHANGED <<mapped, capacity, data>>
    BY <1>4, <2>1, <2>2
  <2>3. CASE \E size \in DataSizes \ {0}, c \in Capacities :
               Accepted(c, size) /\ capacity' = c
    <3>1. capacity = 0
      BY <1>5 DEF ring_open, IInv, MappedInv
    <3>2. capacity' \in Nat \ {0}
      BY <2>3, RingAssumption DEF Accepted
    <3>3. queue' = queue
      BY <1>2, <1>3, <2>1
    <3>4. Queue!Open
      BY <2>1, <3>1, <3>2, <3>3 DEF Queue!Open, queue
    <3> QED
      BY <3>4 DEF Queue!Next
  <2> QED
    BY <1>5, <2>2, <2>3 DEF ring_open
<1>6. CASE ring_publish
  <2>1. /\ w_pc = "copy" /\ sent' = sent + bytes /\ bytes \in Nat
        /\ UNCHANGED <<capacity, heard, out>>
    BY <1>6 DEF ring_publish, IInv, TypeOK
  <2>2. CASE bytes = 0
    BY <1>1, <1>4, <2>1, <2>2
  <2>3. CASE bytes # 0
    <3>1. sent - heard + bytes <= capacity /\ bytes \in 1 .. capacity
      <4>1. sent + bytes - base <= capacity
        BY <2>1 DEF IInv, PositionInv
      <4>2. base \in Nat /\ base <= heard /\ base <= sent
        BY Counts
      <4> QED
        BY <1>1, <2>1, <2>3, <4>1, <4>2
    <3>2. Len(queue) = sent - heard
      BY <1>1, <1>2, BytesLength
    <3>3. queue' = queue \o [i \in 1 .. bytes |-> sent + i - 1]
      BY <1>1, <1>2, <1>3, <2>1, BytesPut
    <3>4. Queue!Put(bytes)
      BY <2>1, <3>1, <3>2, <3>3 DEF Queue!Put, queue
    <3> QED
      BY <3>1, <3>4 DEF Queue!Next, Queue!Put
  <2> QED
    BY <2>2, <2>3
<1>7. CASE host_pread
  <2>1. got < take /\ r_pc = "read"
    BY <1>7 DEF host_pread
  <2>2. heard \in 0 .. sent - 1 /\ heard < sent
    <3>1. take <= sent - base
      BY <2>1 DEF IInv, PositionInv
    <3> QED
      BY <2>1, <3>1, Counts
  <2>3. heard' = heard + 1 /\ UNCHANGED <<capacity, sent>>
    BY <1>7 DEF host_pread, file
  <2>4. out' = heard
    BY <1>1, <2>3 DEF StreamInv, HeardInOrder
  <2>5. queue # <<>> /\ Head(queue) = heard /\ Tail(queue) = Bytes(heard + 1, sent)
    BY <1>1, <1>2, <2>2, BytesTake
  <2>6. queue' = Tail(queue)
    BY <1>3, <2>3, <2>5
  <2>7. Queue!Take
    BY <2>3, <2>4, <2>5, <2>6 DEF Queue!Take, queue
  <2> QED
    BY <2>7 DEF Queue!Next
<1>8. CASE \/ ring_write \/ ring_copy \/ host_load \/ host_store \/ UNCHANGED vars
  BY <1>4, <1>8 DEF ring_write, ring_copy, host_load, host_store, vars, file, stream
<1> QED
  BY <1>5, <1>6, <1>7, <1>8 DEF Next

(* The ring of two positions, copied byte by byte from both sides, is the  *)
(* queue AudioQueue describes: the engine puts each call's bytes at once   *)
(* when it publishes them, the host takes one with every byte it reads,    *)
(* and opening, copying and moving `read` do not show.                     *)
THEOREM RingIsQueue == PlacesSurviveWrap => (Spec => QueueSpec)
<1> SUFFICES ASSUME PlacesSurviveWrap PROVE Spec => QueueSpec
  OBVIOUS
<1>1. Init => Queue!Init
  BY QueueInit
<1>2. IInv /\ IInv' /\ StreamInv /\ StreamInv' /\ [Next]_vars => [Queue!Next]_(Queue!vars)
  BY QueueStep
<1>3. Spec => []StreamInv
  BY StreamAlways
<1> QED
  BY <1>1, <1>2, <1>3, Inductive, PTL DEF Spec, QueueSpec, Queue!Spec
=============================================================================
