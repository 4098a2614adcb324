---------------------------- MODULE SpeexBuffer ----------------------------
(* The byte buffer of the Speex library: a ring. Its pointers may be equal  *)
(* to its size, which is the same place as 0. A write that overflows moves  *)
(* read_ptr to where the newest bytes begin, not to where the oldest that   *)
(* are left do.                                                             *)
EXTENDS Integers, Sequences

CONSTANTS
  size,
  Byte,
  Inputs,   \* what is written
  Lengths   \* how many bytes, or zeros, are asked for

ASSUME BufferAssumption ==
  /\ size \in Nat \ {0}
  /\ 0 \in Byte
  /\ Inputs \subseteq Seq(Byte)
  /\ Lengths \subseteq Nat
  /\ \A len \in Lengths : [i \in 1..len |-> 0] \in Inputs

VARIABLES
  data, read_ptr, write_ptr, available,
  call,     \* what the last call wrote, or left in its caller's array
  ordered   \* history: no write of fewer than size bytes has overflowed since
            \* the start, or since a write of at least size bytes that found
            \* the ring not empty

vars == <<data, read_ptr, write_ptr, available, call, ordered>>

Cell == 0..(size - 1)

Wrote(bytes) == [op |-> "write", bytes |-> bytes]
Got(bytes) == [op |-> "read", bytes |-> bytes]
Zeros(len) == [i \in 1..len |-> 0]

\* speex_alloc clears what it allocates.
Init ==
  /\ data = [c \in Cell |-> 0]
  /\ read_ptr = 0
  /\ write_ptr = 0
  /\ available = 0
  /\ call = Got(<<>>)
  /\ ordered = TRUE

\* A slip to detect: the pointers only ever grow.
WrappedNever(p) == p

Wrapped(p) == IF p > size THEN p - size ELSE p

\* At most size bytes behind write_ptr, in one piece or in two.
Stored(bytes) ==
  LET end == write_ptr + Len(bytes)
  IN  [c \in Cell |->
         IF c >= write_ptr /\ c < end THEN bytes[c - write_ptr + 1]
         ELSE IF c < end - size THEN bytes[size - write_ptr + c + 1]
         ELSE data[c]]

Store(bytes) ==
  /\ data' = Stored(bytes)
  /\ IF available + Len(bytes) > size
     THEN available' = size /\ read_ptr' = write_ptr
     ELSE available' = available + Len(bytes) /\ UNCHANGED read_ptr
  /\ write_ptr' = Wrapped(write_ptr + Len(bytes))

\* The history variable, for a write of n bytes.
Ordered(n) ==
  \/ ordered /\ available + n <= size
  \/ n >= size /\ (ordered \/ available > 0)

\* A slip to detect: of too many bytes the first are kept.
KeptFirst(bytes) == IF Len(bytes) > size THEN SubSeq(bytes, 1, size) ELSE bytes

\* Of too many bytes the last are kept.
Kept(bytes) ==
  IF Len(bytes) > size THEN SubSeq(bytes, Len(bytes) - size + 1, Len(bytes)) ELSE bytes

speex_buffer_write(bytes) ==
  /\ Store(Kept(bytes))
  /\ call' = Wrote(bytes)
  /\ ordered' = Ordered(Len(bytes))

speex_buffer_writezeros(len) ==
  /\ Store(Zeros(IF len > size THEN size ELSE len))
  /\ call' = Wrote(Zeros(len))
  /\ ordered' = Ordered(len)

\* The i-th byte from read_ptr.
At(i) == data[IF read_ptr + i - 1 >= size THEN read_ptr + i - 1 - size ELSE read_ptr + i - 1]

\* How many of len bytes there are.
Served(len) == IF len > available THEN available ELSE len

\* The caller's array holds at least size bytes; beyond those it keeps what
\* it held when fewer than len are available.
Answer(len, old) ==
  [i \in 1..len |-> IF i <= Served(len) THEN At(i) ELSE IF i <= size THEN 0 ELSE old[i]]

speex_buffer_read(len) ==
  /\ \E old \in [1..len -> Byte] : call' = Got(Answer(len, old))
  /\ available' = available - Served(len)
  /\ read_ptr' = Wrapped(read_ptr + Served(len))
  /\ UNCHANGED <<data, write_ptr, ordered>>

Next ==
  \/ \E bytes \in Inputs : speex_buffer_write(bytes)
  \/ \E len \in Lengths : speex_buffer_writezeros(len)
  \/ \E len \in Lengths : speex_buffer_read(len)

Spec == Init /\ [][Next]_vars

----------------------------------------------------------------------------

\* The pointers stay in the ring or one past it, and never more than size
\* bytes are available.
TypeOK ==
  /\ data \in [Cell -> Byte]
  /\ read_ptr \in 0..size
  /\ write_ptr \in 0..size
  /\ available \in 0..size
  /\ call \in [op : {"write", "read"}, bytes : Seq(Byte)]
  /\ ordered \in BOOLEAN

Content == IF ordered THEN [i \in 1..available |-> At(i)] ELSE <<>>

Queue == INSTANCE ByteQueue WITH queue <- Content, count <- available

\* The ring is a queue: what is read is what was written, in its order, for
\* every way in which writes and reads wrap around, until a write overflows.
ImplementsQueue == Queue!Spec

\* In order, the pointers and the number of bytes agree.
Straight ==
  ordered => \/ write_ptr = read_ptr + available
             \/ write_ptr = read_ptr + available - size

BufferInv == TypeOK /\ Straight
============================================================================
