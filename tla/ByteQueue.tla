----------------------------- MODULE ByteQueue -----------------------------
(* What a byte buffer of a fixed size promises: a queue. A write that fits  *)
(* is appended, a write of at least size bytes replaces everything. After   *)
(* any other write that does not fit only the number of bytes is promised,  *)
(* until a write replaces everything, which must not be nothing, again.     *)
EXTENDS Integers, Sequences

CONSTANTS size, Byte, Inputs, Lengths

VARIABLES
  queue, count, ordered,
  call   \* what the last call wrote or read

vars == <<queue, count, ordered, call>>

Wrote(bytes) == [op |-> "write", bytes |-> bytes]
Got(bytes) == [op |-> "read", bytes |-> bytes]

Init ==
  /\ queue = <<>>
  /\ count = 0
  /\ ordered = TRUE
  /\ call = Got(<<>>)

Enqueue(bytes) ==
  /\ ordered /\ count + Len(bytes) <= size
  /\ queue' = queue \o bytes
  /\ count' = count + Len(bytes)
  /\ call' = Wrote(bytes)
  /\ UNCHANGED ordered

Replace(bytes) ==
  /\ Len(bytes) >= size /\ (ordered \/ count > 0)
  /\ queue' = SubSeq(bytes, Len(bytes) - size + 1, Len(bytes))
  /\ count' = size
  /\ ordered' = TRUE
  /\ call' = Wrote(bytes)

Disorder(bytes) ==
  /\ IF ordered THEN Len(bytes) < size /\ count + Len(bytes) > size
               ELSE Len(bytes) < size \/ count = 0
  /\ queue' = <<>>
  /\ count' = IF count + Len(bytes) > size THEN size ELSE count + Len(bytes)
  /\ ordered' = FALSE
  /\ call' = Wrote(bytes)

\* What is missing is filled up with zeros, as far as size.
Read(len) ==
  LET n == IF len < count THEN len ELSE count
  IN  /\ \E bytes \in [1..len -> Byte] :
           /\ \A i \in 1..len : i > n /\ i <= size => bytes[i] = 0
           /\ ordered => \A i \in 1..n : bytes[i] = queue[i]
           /\ call' = Got(bytes)
      /\ queue' = IF ordered THEN SubSeq(queue, n + 1, count) ELSE <<>>
      /\ count' = count - n
      /\ UNCHANGED ordered

Next ==
  \/ \E bytes \in Inputs : Enqueue(bytes) \/ Replace(bytes) \/ Disorder(bytes)
  \/ \E len \in Lengths : Read(len)

Spec == Init /\ [][Next]_vars
============================================================================
