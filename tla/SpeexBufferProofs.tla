------------------------- MODULE SpeexBufferProofs -------------------------
(* For every size, every alphabet and every set of inputs: the pointers of  *)
(* the ring stay in bounds and agree with the number of bytes, and the ring *)
(* implements the queue. The inductive invariant is BufferInv.              *)
EXTENDS SpeexBuffer, SequenceTheorems, TLAPS

LEMMA SizeType == size \in Nat /\ size >= 1
BY BufferAssumption

\* Kept keeps the last bytes, at most size of them.
LEMMA KeptBytes ==
  ASSUME NEW b \in Seq(Byte)
  PROVE  /\ Kept(b) \in Seq(Byte)
         /\ Len(Kept(b)) = IF Len(b) > size THEN size ELSE Len(b)
         /\ \A i \in 1..Len(Kept(b)) : Kept(b)[i] = b[Len(b) - Len(Kept(b)) + i]
<1>1. Len(b) \in Nat
  BY LenProperties
<1>2. CASE Len(b) > size
  <2>1. \A i \in (Len(b) - size + 1)..Len(b) : b[i] \in Byte
    BY <1>1, <1>2, SizeType, ElementOfSeq
  <2>2. Len(b) - size + 1 \in Int /\ Len(b) \in Int /\ Len(b) - size + 1 <= Len(b)
    BY <1>1, SizeType
  <2>. DEFINE s == SubSeq(b, Len(b) - size + 1, Len(b))
  <2>3. /\ s \in Seq(Byte)
        /\ Len(s) = Len(b) - (Len(b) - size + 1) + 1
        /\ \A i \in 1..(Len(b) - (Len(b) - size + 1) + 1) : s[i] = b[Len(b) - size + 1 + i - 1]
    BY <2>1, <2>2, SubSeqProperties
  <2>4. Kept(b) = s
    BY <1>2 DEF Kept
  <2>. HIDE DEF s
  <2>5. Len(s) = size
    BY <1>1, <2>3, SizeType
  <2>6. ASSUME NEW i \in 1..size
        PROVE  s[i] = b[Len(b) - size + i]
    <3>1. /\ i \in 1..(Len(b) - (Len(b) - size + 1) + 1)
          /\ Len(b) - size + 1 + i - 1 = Len(b) - size + i
      BY <1>1, SizeType
    <3>. QED
      BY <2>3, <3>1
  <2>. QED
    BY <1>2, <2>3, <2>4, <2>5, <2>6
<1>3. CASE ~(Len(b) > size)
  <2>1. Kept(b) = b
    BY <1>3 DEF Kept
  <2>2. \A i \in 1..Len(b) : b[i] = b[Len(b) - Len(b) + i]
    BY <1>1
  <2>. QED
    BY <1>3, <2>1, <2>2
<1>. QED
  BY <1>2, <1>3

\* The zeros of a call are one of the inputs, and keeping at most size of
\* them is Kept.
LEMMA ZeroBytes ==
  ASSUME NEW len \in Lengths
  PROVE  /\ Zeros(len) \in Inputs
         /\ Len(Zeros(len)) = len
         /\ Zeros(IF len > size THEN size ELSE len) = Kept(Zeros(len))
<1>1. len \in Nat /\ Zeros(len) \in Inputs /\ Zeros(len) \in Seq(Byte)
  BY BufferAssumption DEF Zeros
<1>2. \A n \in Nat : Zeros(n) \in Seq(Byte) /\ Len(Zeros(n)) = n
  BY BufferAssumption DEF Zeros
<1>3. \A n \in Nat : \A i \in 1..n : Zeros(n)[i] = 0
  BY DEF Zeros
<1>. DEFINE k == IF len > size THEN size ELSE len
<1>4. k \in Nat /\ k <= len
  BY <1>1, SizeType
<1>5. /\ Kept(Zeros(len)) \in Seq(Byte)
      /\ Len(Kept(Zeros(len))) = k
      /\ \A i \in 1..k : Kept(Zeros(len))[i] = Zeros(len)[len - k + i]
  <2>. DEFINE z == Zeros(len)
  <2>1. z \in Seq(Byte) /\ Len(z) = len
    BY <1>1, <1>2
  <2>. HIDE DEF z
  <2>2. /\ Kept(z) \in Seq(Byte)
        /\ Len(Kept(z)) = k
        /\ \A i \in 1..Len(Kept(z)) : Kept(z)[i] = z[Len(z) - Len(Kept(z)) + i]
    BY <2>1, KeptBytes
  <2>3. \A i \in 1..k : Kept(z)[i] = z[len - k + i]
    BY <2>1, <2>2
  <2>. QED
    BY <2>2, <2>3 DEF z
<1>. HIDE DEF k
<1>6. \A i \in 1..k : Kept(Zeros(len))[i] = 0
  BY <1>1, <1>3, <1>4, <1>5
<1>7. \A i \in 1..Len(Zeros(k)) : Zeros(k)[i] = Kept(Zeros(len))[i]
  BY <1>2, <1>3, <1>4, <1>6
<1>8. Zeros(k) \in Seq(Byte) /\ Len(Zeros(k)) = Len(Kept(Zeros(len)))
  BY <1>2, <1>4, <1>5
<1>9. Zeros(k) = Kept(Zeros(len))
  BY <1>5, <1>7, <1>8, SeqEqual
<1>. QED
  BY <1>1, <1>2, <1>9 DEF k

\* What a call to write or to writezeros does.
Written(b) ==
  /\ Store(Kept(b))
  /\ call' = Wrote(b)
  /\ ordered' = Ordered(Len(b))

LEMMA WriteSteps ==
  (\E b \in Inputs : speex_buffer_write(b)) \/ (\E len \in Lengths : speex_buffer_writezeros(len))
    => \E b \in Inputs : Written(b)
<1>1. ASSUME NEW b \in Inputs, speex_buffer_write(b)
      PROVE  \E c \in Inputs : Written(c)
  BY <1>1 DEF speex_buffer_write, Written
<1>2. ASSUME NEW len \in Lengths, speex_buffer_writezeros(len)
      PROVE  \E c \in Inputs : Written(c)
  <2>1. Written(Zeros(len))
    BY <1>2, ZeroBytes DEF speex_buffer_writezeros, Written
  <2>. QED
    BY <2>1, ZeroBytes
<1>. QED
  BY <1>1, <1>2

----------------------------------------------------------------------------

\* Storing at most size bytes keeps the types; the pointers and the number of
\* bytes agree after it when they did before and nothing overflowed, and when
\* the ring is full of one write that was too large for what was free.
LEMMA StoreKeepsBounds ==
  ASSUME BufferInv, NEW k \in Seq(Byte), Len(k) <= size, Store(k)
  PROVE  /\ data' \in [Cell -> Byte]
         /\ read_ptr' \in 0..size /\ write_ptr' \in 0..size /\ available' \in 0..size
         /\ available + Len(k) <= size => available' = available + Len(k)
         /\ available + Len(k) > size => available' = size
<1>1. Len(k) \in Nat
  BY LenProperties
<1>2. \A i \in 1..Len(k) : k[i] \in Byte
  BY ElementOfSeq
<1>3. /\ size \in Nat /\ size >= 1 /\ data \in [Cell -> Byte]
      /\ read_ptr \in 0..size /\ write_ptr \in 0..size /\ available \in 0..size
  BY SizeType DEF BufferInv, TypeOK
<1>4. data' \in [Cell -> Byte]
  <2>1. ASSUME NEW c \in Cell
        PROVE  (IF c >= write_ptr /\ c < write_ptr + Len(k) THEN k[c - write_ptr + 1]
                ELSE IF c < write_ptr + Len(k) - size THEN k[size - write_ptr + c + 1]
                ELSE data[c]) \in Byte
    <3>1. c \in Int /\ 0 <= c /\ c < size
      BY <1>3 DEF Cell
    <3>2. c >= write_ptr /\ c < write_ptr + Len(k) => c - write_ptr + 1 \in 1..Len(k)
      BY <1>1, <1>3, <3>1
    <3>3. c < write_ptr + Len(k) - size => size - write_ptr + c + 1 \in 1..Len(k)
      BY <1>1, <1>3, <3>1
    <3>4. data[c] \in Byte
      BY <1>3
    <3>. QED
      BY <1>2, <3>2, <3>3, <3>4
  <2>2. data' = Stored(k)
    BY DEF Store
  <2>3. Stored(k) \in [Cell -> Byte]
    BY <1>1, <1>3, <2>1 DEF Stored, Cell
  <2>. QED
    BY <2>2, <2>3
<1>5. read_ptr' \in 0..size
  BY <1>1, <1>3 DEF Store
<1>6. write_ptr' \in 0..size
  BY <1>1, <1>3 DEF Store, Wrapped
<1>7. /\ available' \in 0..size
      /\ available + Len(k) <= size => available' = available + Len(k)
      /\ available + Len(k) > size => available' = size
  BY <1>1, <1>3 DEF Store
<1>. QED
  BY <1>4, <1>5, <1>6, <1>7

LEMMA WriteKeepsInv ==
  ASSUME BufferInv, NEW b \in Inputs, Written(b)
  PROVE  BufferInv'
<1>1. b \in Seq(Byte) /\ Len(b) \in Nat
  BY BufferAssumption, LenProperties
<1>2. /\ Kept(b) \in Seq(Byte) /\ Len(Kept(b)) \in Nat /\ Len(Kept(b)) <= size
      /\ Len(Kept(b)) = IF Len(b) > size THEN size ELSE Len(b)
  BY <1>1, KeptBytes, SizeType
<1>3. /\ data' \in [Cell -> Byte]
      /\ read_ptr' \in 0..size /\ write_ptr' \in 0..size /\ available' \in 0..size
  BY <1>2, StoreKeepsBounds DEF Written
<1>4. call' \in [op : {"write", "read"}, bytes : Seq(Byte)]
  BY <1>1 DEF Written, Wrote
<1>5. ordered' \in BOOLEAN
  BY DEF Written, Ordered
<1>6. Straight'
  <2>. SUFFICES ASSUME ordered'
                PROVE  \/ write_ptr' = read_ptr' + available'
                       \/ write_ptr' = read_ptr' + available' - size
    BY DEF Straight
  <2>1. /\ size \in Nat /\ size >= 1
        /\ read_ptr \in 0..size /\ write_ptr \in 0..size /\ available \in 0..size
    BY SizeType DEF BufferInv, TypeOK
  <2>2. \/ ordered /\ available + Len(b) <= size
        \/ Len(b) >= size /\ (ordered \/ available > 0)
    BY DEF Written, Ordered
  <2>3. ordered => \/ write_ptr = read_ptr + available
                   \/ write_ptr = read_ptr + available - size
    BY DEF BufferInv, Straight
  <2>4. Store(Kept(b))
    BY DEF Written
  <2>. DEFINE n == Len(Kept(b))
  <2>5. /\ IF available + n > size
           THEN available' = size /\ read_ptr' = write_ptr
           ELSE available' = available + n /\ UNCHANGED read_ptr
        /\ write_ptr' = IF write_ptr + n > size THEN write_ptr + n - size ELSE write_ptr + n
    BY <1>2, <2>1, <2>4 DEF Store, Wrapped
  <2>6. n \in Nat /\ n = IF Len(b) > size THEN size ELSE Len(b)
    BY <1>2
  <2>. HIDE DEF n
  <2>7. CASE available + n > size
    <3>1. n = size
      BY <1>1, <2>1, <2>2, <2>6, <2>7
    <3>. QED
      BY <2>1, <2>5, <2>7, <3>1
  <2>8. CASE ~(available + n > size)
    <3>1. ordered
      BY <1>1, <2>1, <2>2, <2>6, <2>8
    <3>. QED
      BY <2>1, <2>3, <2>5, <2>6, <2>8, <3>1
  <2>. QED
    BY <2>7, <2>8
<1>. QED
  BY <1>3, <1>4, <1>5, <1>6 DEF BufferInv, TypeOK

\* The bytes that are available are where At looks for them.
LEMMA AtByte ==
  ASSUME BufferInv, NEW i \in 1..size
  PROVE  At(i) \in Byte
<1>1. /\ size \in Nat /\ size >= 1 /\ read_ptr \in 0..size /\ data \in [Cell -> Byte]
  BY SizeType DEF BufferInv, TypeOK
<1>2. (IF read_ptr + i - 1 >= size THEN read_ptr + i - 1 - size ELSE read_ptr + i - 1) \in Cell
  BY <1>1 DEF Cell
<1>. QED
  BY <1>1, <1>2 DEF At

LEMMA ReadStep ==
  ASSUME BufferInv, NEW len \in Lengths, speex_buffer_read(len)
  PROVE  /\ \E old \in [1..len -> Byte] : call' = Got(Answer(len, old))
         /\ \A old \in [1..len -> Byte] : Answer(len, old) \in [1..len -> Byte]
         /\ len \in Nat /\ Served(len) \in 0..available /\ Served(len) <= len
<1>1. len \in Nat /\ available \in 0..size /\ size \in Nat
  BY BufferAssumption, SizeType DEF BufferInv, TypeOK
<1>2. Served(len) \in 0..available /\ Served(len) <= len
  BY <1>1 DEF Served
<1>3. \E old \in [1..len -> Byte] : call' = Got(Answer(len, old))
  BY DEF speex_buffer_read
<1>4. ASSUME NEW old \in [1..len -> Byte], NEW i \in 1..len
      PROVE  (IF i <= Served(len) THEN At(i) ELSE IF i <= size THEN 0 ELSE old[i]) \in Byte
  <2>1. i <= Served(len) => i \in 1..size
    BY <1>1, <1>2
  <2>2. i <= Served(len) => At(i) \in Byte
    BY <2>1, AtByte
  <2>. QED
    BY <2>2, BufferAssumption
<1>5. \A old \in [1..len -> Byte] : Answer(len, old) \in [1..len -> Byte]
  BY <1>4 DEF Answer
<1>. QED
  BY <1>1, <1>2, <1>3, <1>5

LEMMA ReadKeepsInv ==
  ASSUME BufferInv, NEW len \in Lengths, speex_buffer_read(len)
  PROVE  BufferInv'
<1>1. PICK old \in [1..len -> Byte] : call' = Got(Answer(len, old))
  BY ReadStep
<1>2. /\ len \in Nat /\ Served(len) \in 0..available
      /\ Answer(len, old) \in [1..len -> Byte]
  BY ReadStep
<1>3. Answer(len, old) \in Seq(Byte)
  BY <1>2
<1>4. call' \in [op : {"write", "read"}, bytes : Seq(Byte)]
  BY <1>1, <1>3 DEF Got
<1>5. /\ size \in Nat /\ size >= 1 /\ data \in [Cell -> Byte] /\ ordered \in BOOLEAN
      /\ read_ptr \in 0..size /\ write_ptr \in 0..size /\ available \in 0..size
      /\ (ordered => \/ write_ptr = read_ptr + available
                     \/ write_ptr = read_ptr + available - size)
  BY SizeType DEF BufferInv, TypeOK, Straight
<1>6. /\ available' = available - Served(len)
      /\ read_ptr' = IF read_ptr + Served(len) > size THEN read_ptr + Served(len) - size
                                                    ELSE read_ptr + Served(len)
      /\ data' = data /\ write_ptr' = write_ptr /\ ordered' = ordered
  <2>1. /\ available' = available - Served(len)
        /\ read_ptr' = Wrapped(read_ptr + Served(len))
        /\ UNCHANGED <<data, write_ptr, ordered>>
    BY DEF speex_buffer_read
  <2>. QED
    BY <1>2, <1>5, <2>1 DEF Wrapped
<1>7. available' \in 0..size /\ read_ptr' \in 0..size
  <2>. DEFINE n == Served(len)
  <2>. HIDE DEF n
  <2>1. /\ size \in Nat /\ available \in 0..size /\ n \in 0..available
        /\ read_ptr \in 0..size /\ available' = available - n
        /\ read_ptr' = IF read_ptr + n > size THEN read_ptr + n - size ELSE read_ptr + n
    BY <1>2, <1>5, <1>6 DEF n
  <2>2. available' \in 0..size
    BY <2>1
  <2>. QED
    BY <2>1, <2>2
<1>8. Straight'
  <2>. DEFINE n == Served(len)
  <2>1. n \in 0..available
    BY <1>2
  <2>2. /\ available' = available - n
        /\ read_ptr' = IF read_ptr + n > size THEN read_ptr + n - size ELSE read_ptr + n
    BY <1>6
  <2>. HIDE DEF n
  <2>. SUFFICES ASSUME ordered
                PROVE  \/ write_ptr = read_ptr' + available'
                       \/ write_ptr = read_ptr' + available' - size
    BY <1>6 DEF Straight
  <2>3. \/ write_ptr = read_ptr + available
        \/ write_ptr = read_ptr + available - size
    BY <1>5
  <2>. QED
    BY <1>5, <2>1, <2>2, <2>3
<1>. QED
  BY <1>4, <1>5, <1>6, <1>7, <1>8 DEF BufferInv, TypeOK

\* The pointers stay in the ring or one past it and, as long as the bytes are
\* in order, agree with the number of bytes that are available.
THEOREM RingInvariant == Spec => []BufferInv
<1>1. Init => BufferInv
  <2>. SUFFICES ASSUME Init PROVE BufferInv
    OBVIOUS
  <2>1. <<>> \in Seq(Byte)
    BY EmptySeq
  <2>. QED
    BY <2>1, SizeType, BufferAssumption DEF Init, BufferInv, TypeOK, Straight, Got, Cell
<1>2. BufferInv /\ [Next]_vars => BufferInv'
  <2>. SUFFICES ASSUME BufferInv, [Next]_vars PROVE BufferInv'
    OBVIOUS
  <2>1. CASE \E b \in Inputs : Written(b)
    BY <2>1, WriteKeepsInv
  <2>2. ASSUME NEW len \in Lengths, speex_buffer_read(len) PROVE BufferInv'
    BY <2>2, ReadKeepsInv
  <2>3. CASE UNCHANGED vars
    BY <2>3 DEF vars, BufferInv, TypeOK, Straight
  <2>. QED
    BY <2>1, <2>2, <2>3, WriteSteps DEF Next
<1>. QED
  BY <1>1, <1>2, PTL DEF Spec

\* Neither a pointer nor the number of bytes ever leaves its bounds.
THEOREM RingTypes == Spec => []TypeOK
<1>1. BufferInv => TypeOK
  BY DEF BufferInv
<1>. QED
  BY <1>1, RingInvariant, PTL

----------------------------------------------------------------------------

\* What of the ring a refinement step needs.
LEMMA Ring ==
  ASSUME BufferInv
  PROVE  /\ size \in Nat /\ size >= 1
         /\ read_ptr \in 0..size /\ write_ptr \in 0..size /\ available \in 0..size
         /\ ordered \in BOOLEAN
         /\ ordered => \/ write_ptr = read_ptr + available
                       \/ write_ptr = read_ptr + available - size
BY SizeType DEF BufferInv, TypeOK, Straight

\* The cell of the i-th byte from r.
Place(r, i) == IF r + i - 1 >= size THEN r + i - 1 - size ELSE r + i - 1

LEMMA PlaceCell ==
  ASSUME NEW r \in 0..size, NEW i \in 1..size
  PROVE  Place(r, i) \in Cell
BY SizeType DEF Place, Cell

\* Going round the whole ring from w, the i-th cell is the i-th behind w.
LEMMA PlaceAround ==
  ASSUME NEW r \in 0..size, NEW w \in 0..size, r = w \/ (r = size /\ w = 0),
         NEW i \in 1..size
  PROVE  IF Place(r, i) >= w THEN Place(r, i) - w + 1 = i
                             ELSE size - w + Place(r, i) + 1 = i
<1>1. size \in Nat /\ size >= 1 /\ i \in Int /\ 1 <= i /\ i <= size
  BY SizeType
<1>2. CASE r + i - 1 >= size
  BY <1>1, <1>2 DEF Place
<1>3. CASE ~(r + i - 1 >= size)
  BY <1>1, <1>3 DEF Place
<1>. QED
  BY <1>2, <1>3

\* What a store leaves in a cell.
LEMMA StoredCell ==
  ASSUME BufferInv, NEW k \in Seq(Byte), NEW c \in Cell, Store(k)
  PROVE  data'[c] = IF c >= write_ptr /\ c < write_ptr + Len(k) THEN k[c - write_ptr + 1]
                    ELSE IF c < write_ptr + Len(k) - size THEN k[size - write_ptr + c + 1]
                    ELSE data[c]
<1>1. data' = Stored(k)
  BY DEF Store
<1>2. /\ c \in Int /\ size \in Nat /\ write_ptr \in Int /\ Len(k) \in Nat
  BY Ring, LenProperties DEF Cell
<1>. QED
  BY <1>1, <1>2 DEF Stored

\* Bytes that fit are stored behind those that are there, which stay.
LEMMA Appended ==
  ASSUME BufferInv, ordered, NEW k \in Seq(Byte), available + Len(k) <= size, Store(k),
         NEW i \in 1..(available + Len(k))
  PROVE  At(i)' = IF i <= available THEN At(i) ELSE k[i - available]
<1>1. /\ size \in Nat /\ size >= 1 /\ Len(k) \in Nat
      /\ read_ptr \in 0..size /\ write_ptr \in 0..size /\ available \in 0..size
      /\ \/ write_ptr = read_ptr + available
         \/ write_ptr = read_ptr + available - size
  BY Ring, LenProperties
<1>2. read_ptr' = read_ptr
  BY <1>1 DEF Store
<1>. DEFINE c == Place(read_ptr, i)
<1>3. i \in 1..size /\ c \in Cell
  BY <1>1, PlaceCell
<1>4. At(i)' = data'[c]
  BY <1>2 DEF At, Place
<1>5. At(i) = data[c]
  BY DEF At, Place
<1>6. data'[c] = IF c >= write_ptr /\ c < write_ptr + Len(k) THEN k[c - write_ptr + 1]
                 ELSE IF c < write_ptr + Len(k) - size THEN k[size - write_ptr + c + 1]
                 ELSE data[c]
  BY <1>3, StoredCell
<1>7. c = IF read_ptr + i - 1 >= size THEN read_ptr + i - 1 - size ELSE read_ptr + i - 1
  BY <1>1, <1>3 DEF Place
<1>. HIDE DEF c
<1>8. CASE i <= available
  <2>1. ~(c >= write_ptr /\ c < write_ptr + Len(k)) /\ ~(c < write_ptr + Len(k) - size)
    BY <1>1, <1>3, <1>7, <1>8
  <2>. QED
    BY <1>4, <1>5, <1>6, <1>8, <2>1
<1>9. CASE ~(i <= available)
  <2>1. CASE c >= write_ptr /\ c < write_ptr + Len(k)
    <3>1. c - write_ptr + 1 = i - available
      BY <1>1, <1>3, <1>7, <1>9, <2>1
    <3>. QED
      BY <1>4, <1>6, <1>9, <2>1, <3>1
  <2>2. CASE ~(c >= write_ptr /\ c < write_ptr + Len(k))
    <3>1. c < write_ptr + Len(k) - size /\ size - write_ptr + c + 1 = i - available
      BY <1>1, <1>3, <1>7, <1>9, <2>2
    <3>. QED
      BY <1>4, <1>6, <1>9, <2>2, <3>1
  <2>. QED
    BY <2>1, <2>2
<1>. QED
  BY <1>8, <1>9

\* A store of size bytes that overflows, or that starts where reading does,
\* replaces everything, in order.
LEMMA Replaced ==
  ASSUME BufferInv, ordered \/ available > 0,
         NEW k \in Seq(Byte), Len(k) = size, Store(k), NEW i \in 1..size
  PROVE  At(i)' = k[i]
<1>1. /\ size \in Nat /\ size >= 1
      /\ read_ptr \in 0..size /\ write_ptr \in 0..size /\ available \in 0..size
      /\ ordered => \/ write_ptr = read_ptr + available
                    \/ write_ptr = read_ptr + available - size
  BY Ring
<1>2. IF available + size > size THEN read_ptr' = write_ptr ELSE read_ptr' = read_ptr
  BY DEF Store
<1>3. read_ptr' = write_ptr \/ (read_ptr' = size /\ write_ptr = 0)
  BY <1>1, <1>2
<1>4. read_ptr' \in 0..size /\ i \in Int /\ 1 <= i /\ i <= size
  BY <1>1, <1>3
<1>. DEFINE c == Place(read_ptr', i)
<1>5. c \in Cell
  BY <1>4, PlaceCell
<1>6. At(i)' = data'[c]
  BY DEF At, Place
<1>7. data'[c] = IF c >= write_ptr /\ c < write_ptr + size THEN k[c - write_ptr + 1]
                 ELSE IF c < write_ptr + size - size THEN k[size - write_ptr + c + 1]
                 ELSE data[c]
  BY <1>5, StoredCell
<1>8. IF c >= write_ptr THEN c - write_ptr + 1 = i ELSE size - write_ptr + c + 1 = i
  BY <1>1, <1>3, <1>4, PlaceAround
<1>9. c \in Int /\ 0 <= c /\ c < size
  BY <1>1, <1>5 DEF Cell
<1>. HIDE DEF c
<1>. QED
  BY <1>1, <1>6, <1>7, <1>8, <1>9

\* In order, Content is the sequence of what is available.
LEMMA ContentSeq ==
  ASSUME BufferInv, ordered
  PROVE  /\ Content \in Seq(Byte)
         /\ Len(Content) = available
         /\ \A i \in 1..available : Content[i] = At(i)
<1>1. available \in Nat /\ \A i \in 1..available : At(i) \in Byte
  BY Ring, AtByte
<1>2. Content = [i \in 1..available |-> At(i)]
  BY DEF Content
<1>. QED
  BY <1>1, <1>2

LEMMA ContentSeqNext ==
  ASSUME BufferInv', ordered'
  PROVE  /\ Content' \in Seq(Byte)
         /\ Len(Content') = available'
         /\ \A i \in 1..available' : Content'[i] = At(i)'
<1>1. (BufferInv /\ ordered =>
        /\ Content \in Seq(Byte)
        /\ Len(Content) = available
        /\ \A i \in 1..available : Content[i] = At(i))'
  BY ContentSeq, PTL
<1>. QED
  BY <1>1

\* A write that fits, while the bytes are in order, is appended.
LEMMA WriteEnqueues ==
  ASSUME BufferInv, BufferInv', NEW b \in Inputs, Written(b),
         ordered, available + Len(b) <= size
  PROVE  Queue!Enqueue(b)
<1>1. /\ b \in Seq(Byte) /\ Len(b) \in Nat
      /\ size \in Nat /\ available \in 0..size
  BY BufferAssumption, LenProperties, Ring
<1>2. Kept(b) = b
  BY <1>1 DEF Kept
<1>3. Store(b)
  BY <1>2 DEF Written
<1>4. available' = available + Len(b) /\ ordered'
  BY <1>1, <1>3 DEF Store, Written, Ordered
<1>5. /\ Content \in Seq(Byte) /\ Len(Content) = available
      /\ \A i \in 1..available : Content[i] = At(i)
  BY ContentSeq
<1>6. /\ Content' \in Seq(Byte) /\ Len(Content') = available + Len(b)
      /\ \A i \in 1..(available + Len(b)) : Content'[i] = At(i)'
  BY <1>4, ContentSeqNext
<1>7. \A i \in 1..(available + Len(b)) :
        At(i)' = IF i <= available THEN At(i) ELSE b[i - available]
  BY <1>1, <1>3, Appended
<1>8. /\ Content \o b \in Seq(Byte) /\ Len(Content \o b) = available + Len(b)
      /\ \A i \in 1..(available + Len(b)) :
           (Content \o b)[i] = IF i <= available THEN Content[i] ELSE b[i - available]
  BY <1>1, <1>5, ConcatProperties
<1>9. \A i \in 1..Len(Content') : Content'[i] = (Content \o b)[i]
  BY <1>1, <1>5, <1>6, <1>7, <1>8
<1>10. Content' = Content \o b
  BY <1>6, <1>8, <1>9, SeqEqual
<1>11. call' = Queue!Wrote(b)
  BY DEF Written, Wrote, Queue!Wrote
<1>. QED
  BY <1>4, <1>10, <1>11 DEF Queue!Enqueue

\* A write of at least size bytes replaces everything, unless it finds the
\* ring empty and out of order.
LEMMA WriteReplaces ==
  ASSUME BufferInv, BufferInv', NEW b \in Inputs, Written(b),
         Len(b) >= size, ordered \/ available > 0
  PROVE  Queue!Replace(b)
<1>1. /\ b \in Seq(Byte) /\ Len(b) \in Nat
      /\ size \in Nat /\ size >= 1 /\ available \in 0..size
  BY BufferAssumption, LenProperties, Ring
<1>. DEFINE k == Kept(b)
<1>2. /\ k \in Seq(Byte) /\ Len(k) = size
      /\ \A i \in 1..size : k[i] = b[Len(b) - size + i]
  <2>1. /\ k \in Seq(Byte)
        /\ Len(k) = IF Len(b) > size THEN size ELSE Len(b)
        /\ \A i \in 1..Len(k) : k[i] = b[Len(b) - Len(k) + i]
    BY <1>1, KeptBytes
  <2>. HIDE DEF k
  <2>2. Len(k) = size
    BY <1>1, <2>1
  <2>. QED
    BY <2>1, <2>2
<1>3. Store(k) /\ ordered'
  BY DEF Written, Ordered
<1>. HIDE DEF k
<1>4. available' = size
  BY <1>1, <1>2, <1>3 DEF Store
<1>5. /\ Content' \in Seq(Byte) /\ Len(Content') = size
      /\ \A i \in 1..size : Content'[i] = At(i)'
  BY <1>3, <1>4, ContentSeqNext
<1>6. \A i \in 1..size : At(i)' = k[i]
  BY <1>2, <1>3, Replaced
<1>. DEFINE m == Len(b) - size + 1
            s == SubSeq(b, m, Len(b))
<1>7. /\ s \in Seq(Byte) /\ Len(s) = size
      /\ \A i \in 1..size : s[i] = b[Len(b) - size + i]
  <2>1. m \in Int /\ Len(b) \in Int /\ m <= Len(b) /\ m >= 1 /\ Len(b) - m + 1 = size
    BY <1>1
  <2>2. \A i \in m..Len(b) : b[i] \in Byte
    BY <1>1, <2>1, ElementOfSeq
  <2>. HIDE DEF m
  <2>3. /\ s \in Seq(Byte)
        /\ Len(s) = IF m <= Len(b) THEN Len(b) - m + 1 ELSE 0
        /\ \A i \in 1..(Len(b) - m + 1) : s[i] = b[m + i - 1]
    BY <2>1, <2>2, SubSeqProperties
  <2>. HIDE DEF s
  <2>4. ASSUME NEW i \in 1..size PROVE s[i] = b[Len(b) - size + i]
    <3>1. m + i - 1 = Len(b) - size + i
      BY <1>1 DEF m
    <3>. QED
      BY <2>1, <2>3, <3>1
  <2>. QED
    BY <2>1, <2>3, <2>4
<1>. HIDE DEF s
<1>8. \A i \in 1..Len(Content') : Content'[i] = s[i]
  BY <1>2, <1>5, <1>6, <1>7
<1>9. Content' = s
  BY <1>5, <1>7, <1>8, SeqEqual
<1>10. call' = Queue!Wrote(b)
  BY DEF Written, Wrote, Queue!Wrote
<1>. QED
  BY <1>3, <1>4, <1>9, <1>10 DEF Queue!Replace, s, m

\* Every other write leaves only the number of bytes known.
LEMMA WriteDisorders ==
  ASSUME BufferInv, BufferInv', NEW b \in Inputs, Written(b),
         ~(ordered /\ available + Len(b) <= size),
         ~(Len(b) >= size /\ (ordered \/ available > 0))
  PROVE  Queue!Disorder(b)
<1>1. /\ b \in Seq(Byte) /\ Len(b) \in Nat
      /\ size \in Nat /\ size >= 1 /\ available \in 0..size /\ ordered \in BOOLEAN
  BY BufferAssumption, LenProperties, Ring
<1>2. ordered' = FALSE
  BY DEF Written, Ordered
<1>3. Content' = <<>>
  BY <1>2 DEF Content
<1>. DEFINE n == Len(Kept(b))
<1>4. n = IF Len(b) > size THEN size ELSE Len(b)
  BY <1>1, KeptBytes
<1>5. IF available + n > size THEN available' = size ELSE available' = available + n
  BY DEF Written, Store
<1>. HIDE DEF n
<1>6. available' = IF available + Len(b) > size THEN size ELSE available + Len(b)
  BY <1>1, <1>4, <1>5
<1>7. IF ordered THEN Len(b) < size /\ available + Len(b) > size
                 ELSE Len(b) < size \/ available = 0
  BY <1>1
<1>8. call' = Queue!Wrote(b)
  BY DEF Written, Wrote, Queue!Wrote
<1>. QED
  BY <1>2, <1>3, <1>6, <1>7, <1>8 DEF Queue!Disorder

\* A read takes from the front of the queue.
LEMMA ReadDequeues ==
  ASSUME BufferInv, BufferInv', NEW len \in Lengths, speex_buffer_read(len)
  PROVE  Queue!Read(len)
<1>. DEFINE n == Served(len)
<1>1. PICK old \in [1..len -> Byte] : call' = Got(Answer(len, old))
  BY ReadStep
<1>2. /\ len \in Nat /\ n \in 0..available /\ n <= len
      /\ Answer(len, old) \in [1..len -> Byte]
  BY ReadStep
<1>3. /\ size \in Nat /\ size >= 1
      /\ read_ptr \in 0..size /\ available \in 0..size /\ ordered \in BOOLEAN
  BY Ring
<1>4. n = IF len < available THEN len ELSE available
  BY <1>2, <1>3 DEF Served
<1>5. /\ available' = available - n
      /\ read_ptr' = Wrapped(read_ptr + n)
      /\ data' = data /\ ordered' = ordered
  BY DEF speex_buffer_read
<1>6. \A i \in 1..len : Answer(len, old)[i] =
        IF i <= n THEN At(i) ELSE IF i <= size THEN 0 ELSE old[i]
  BY DEF Answer
<1>. HIDE DEF n
<1>7. \A i \in 1..len : i > n /\ i <= size => Answer(len, old)[i] = 0
  BY <1>2, <1>3, <1>6
<1>8. ordered => \A i \in 1..n : Answer(len, old)[i] = Content[i]
  BY <1>2, <1>3, <1>6, ContentSeq
<1>9. call' = Queue!Got(Answer(len, old))
  BY <1>1 DEF Got, Queue!Got
<1>10. Content' = IF ordered THEN SubSeq(Content, n + 1, available) ELSE <<>>
  <2>1. CASE ~ordered
    BY <1>5, <2>1 DEF Content
  <2>2. CASE ordered
    <3>. DEFINE s == SubSeq(Content, n + 1, available)
    <3>1. /\ Content \in Seq(Byte) /\ Len(Content) = available
          /\ \A i \in 1..available : Content[i] = At(i)
      BY <2>2, ContentSeq
    <3>2. /\ Content' \in Seq(Byte) /\ Len(Content') = available - n
          /\ \A i \in 1..(available - n) : Content'[i] = At(i)'
      BY <1>5, <2>2, ContentSeqNext
    <3>3. /\ s \in Seq(Byte)
          /\ Len(s) = available - n
          /\ \A i \in 1..(available - n) : s[i] = Content[n + i]
      <4>. DEFINE m == n + 1
      <4>1. m \in Int /\ available \in Int /\ m >= 1 /\ available - m + 1 = available - n
        BY <1>2, <1>3
      <4>2. \A i \in m..available : Content[i] \in Byte
        BY <1>3, <3>1, <4>1, ElementOfSeq
      <4>. HIDE DEF m
      <4>. DEFINE t == SubSeq(Content, m, available)
      <4>3. /\ t \in Seq(Byte)
            /\ Len(t) = IF m <= available THEN available - m + 1 ELSE 0
            /\ \A i \in 1..(available - m + 1) : t[i] = Content[m + i - 1]
        BY <4>1, <4>2, SubSeqProperties
      <4>. HIDE DEF t
      <4>4. Len(t) = available - n
        BY <1>2, <1>3, <4>1, <4>3
      <4>5. ASSUME NEW i \in 1..(available - n) PROVE t[i] = Content[n + i]
        <5>1. m + i - 1 = n + i
          BY <1>2, <1>3 DEF m
        <5>. QED
          BY <4>1, <4>3, <5>1
      <4>. QED
        BY <4>3, <4>4, <4>5 DEF t, m
    <3>4. ASSUME NEW i \in 1..(available - n) PROVE At(i)' = At(n + i)
      <4>1. i \in Int /\ 1 <= i /\ i <= available - n
        BY <1>2, <1>3
      <4>2. At(i)' = data[Place(read_ptr', i)] /\ At(n + i) = data[Place(read_ptr, n + i)]
        BY <1>5 DEF At, Place
      <4>3. read_ptr' = IF read_ptr + n > size THEN read_ptr + n - size ELSE read_ptr + n
        BY <1>2, <1>3, <1>5 DEF Wrapped
      <4>4. Place(read_ptr', i) = Place(read_ptr, n + i)
        BY <1>2, <1>3, <4>1, <4>3 DEF Place
      <4>. QED
        BY <4>2, <4>4
    <3>. HIDE DEF s
    <3>5. ASSUME NEW i \in 1..Len(Content') PROVE Content'[i] = s[i]
      <4>1. i \in 1..(available - n) /\ n + i \in 1..available
        BY <1>2, <1>3, <3>2
      <4>. QED
        BY <3>1, <3>2, <3>3, <3>4, <4>1
    <3>6. Content' = s
      BY <3>2, <3>3, <3>5, SeqEqual
    <3>. QED
      BY <2>2, <3>6 DEF s
  <2>. QED
    BY <1>3, <2>1, <2>2
<1>. QED
  BY <1>2, <1>4, <1>5, <1>7, <1>8, <1>9, <1>10 DEF Queue!Read

\* The ring is a queue: bytes are read in the order in which they were
\* written, however reads and writes wrap around, until a write overflows,
\* and again from a write that replaces everything.
THEOREM RingIsQueue == Spec => ImplementsQueue
<1>1. Init => Queue!Init
  <2>. SUFFICES ASSUME Init PROVE Queue!Init
    OBVIOUS
  <2>1. Content = <<>>
    BY DEF Init, Content
  <2>. QED
    BY <2>1 DEF Init, Got, Queue!Init, Queue!Got
<1>2. BufferInv /\ BufferInv' /\ [Next]_vars => [Queue!Next]_(Queue!vars)
  <2>. SUFFICES ASSUME BufferInv, BufferInv', [Next]_vars
                PROVE  [Queue!Next]_(Queue!vars)
    OBVIOUS
  <2>1. ASSUME NEW b \in Inputs, Written(b)
        PROVE  Queue!Next
    <3>1. Queue!Enqueue(b) \/ Queue!Replace(b) \/ Queue!Disorder(b)
      BY <2>1, WriteEnqueues, WriteReplaces, WriteDisorders
    <3>. QED
      BY <3>1 DEF Queue!Next
  <2>2. ASSUME NEW len \in Lengths, speex_buffer_read(len)
        PROVE  Queue!Next
    BY <2>2, ReadDequeues DEF Queue!Next
  <2>3. CASE UNCHANGED vars
    BY <2>3 DEF vars, Queue!vars, Content, At
  <2>. QED
    BY <2>1, <2>2, <2>3, WriteSteps DEF Next
<1>. QED
  BY <1>1, <1>2, RingInvariant, PTL DEF Spec, ImplementsQueue, Queue!Spec
============================================================================
