-------------------------- MODULE JitterLinkProofs -------------------------
(* Proofs of the safety of the jitter buffer, for every size of the buffer  *)
(* and of the timestamps.                                                   *)
EXTENDS JitterLinkProperties, FiniteSetTheorems, TLAPS

\* A set of natural numbers has a least one. What is proved by induction here
\* is proved by it: a counterexample would be preceded by a smaller one.
LEMMA Least ==
    ASSUME NEW T, T \subseteq Nat, T # {}
    PROVE  \E n \in T : \A m \in T : n <= m
<1> DEFINE R == OpToRel(<, Nat)
<1>1. IsWellFoundedOn(R, Nat)
  BY NatLessThanWellFounded
<1>2. R = {ss \in Nat \X Nat : ss[1] < ss[2]}
  BY DEF OpToRel
<1> HIDE DEF R
<1>3. PICK n \in T : \A m \in T : <<m, n>> \notin R
  BY <1>1, WFMin
<1>4. ASSUME NEW m \in T PROVE n <= m
  <2>1. ~(<<m, n>> \in {ss \in Nat \X Nat : ss[1] < ss[2]})
    BY <1>2, <1>3
  <2>2. <<m, n>> \in Nat \X Nat
    OBVIOUS
  <2> QED
    BY <2>1, <2>2
<1> QED
  BY <1>4

----------------------------------------------------------------------------
(* Arithmetic of timestamps.                                                *)

\* Half of the range of timestamps.
H == WRAP \div 2

LEMMA Halves == H \in Nat \ {0} /\ WRAP = H + H /\ WRAP \in Nat \ {0}
BY JitterAssumption DEF H

LEMMA Sizes ==
    /\ SPEEX_JITTER_MAX_BUFFER_SIZE \in Nat \ {0}
    /\ MAX_TIMINGS \in Nat \ {0} /\ MAX_BUFFERS \in Nat \ {0}
    /\ TOP_DELAY \in Nat \ {0} /\ TIMING_LIMIT \in Nat \ {0}
    /\ delay_step \in Nat \ {0} /\ concealment_size \in Nat \ {0}
    /\ MAX_LOST \in Nat /\ buffer_margin \in Nat
BY JitterAssumption

LEMMA ModUnique ==
    ASSUME NEW m \in Nat \ {0}, NEW r \in 0..(m - 1), NEW k \in Int
    PROVE  (r + k * m) % m = r
OBVIOUS

LEMMA ModIs ==
    ASSUME NEW m \in Nat \ {0}, NEW x \in Int
    PROVE  /\ x % m \in 0..(m - 1)
           /\ \E k \in Int : x % m = x + k * m
<1> DEFINE q == x \div m
<1>1. q \in Int /\ x % m \in 0..(m - 1)
  OBVIOUS
<1>2. x = q * m + (x % m)
  OBVIOUS
<1>3. x % m = x + (-q) * m
  BY <1>1, <1>2
<1>4. -q \in Int
  BY <1>1
<1> QED
  BY <1>1, <1>3, <1>4

LEMMA RoundDown ==
    ASSUME NEW x \in Int, NEW step \in Nat \ {0}
    PROVE  /\ ROUND_DOWN(x, step) \in Int
           /\ ROUND_DOWN(x, step) <= x
           /\ x >= 0 => ROUND_DOWN(x, step) >= 0
           /\ x = 0 => ROUND_DOWN(x, step) = 0
BY DEF ROUND_DOWN

LEMMA Int16Is ==
    ASSUME NEW x \in Int
    PROVE  /\ Int16(x) \in Int /\ Int16(x) \in (-TIMING_LIMIT - 1)..TIMING_LIMIT
           /\ x = 0 => Int16(x) = 0
<1> DEFINE m == 2 * (TIMING_LIMIT + 1)
           z == x + TIMING_LIMIT + 1
<1>1. TIMING_LIMIT \in Nat \ {0} /\ m \in Nat \ {0} /\ z \in Int
  BY Sizes
<1>2. Int16(x) = (z % m) - (TIMING_LIMIT + 1)
  BY DEF Int16
<1>3. m = 2 * TIMING_LIMIT + 2 /\ (x = 0 => z = TIMING_LIMIT + 1)
  BY <1>1
<1> HIDE DEF m, z
<1>4. z % m \in 0..(m - 1)
  BY <1>1
<1>5. x = 0 => z % m = z
  BY <1>1, <1>3
<1> QED
  BY <1>1, <1>2, <1>3, <1>4, <1>5

LEMMA PlusIs ==
    ASSUME NEW x \in Int, NEW y \in Int
    PROVE  /\ Plus(x, y) \in Timestamp
           /\ Plus(x, y) \in Int
           /\ \E k \in Int : Plus(x, y) = x + y + k * WRAP
<1> DEFINE z == x + y
<1>1. z \in Int /\ Plus(x, y) = z % WRAP /\ WRAP \in Nat \ {0}
  BY Halves DEF Plus
<1>2. z % WRAP \in 0..(WRAP - 1) /\ \E k \in Int : z % WRAP = z + k * WRAP
  BY <1>1, ModIs
<1> QED
  BY <1>1, <1>2 DEF Timestamp

\* A difference is the only one in its range that differs from it by a
\* multiple of WRAP.
LEMMA TsubIs ==
    ASSUME NEW x \in Int, NEW y \in Int
    PROVE  /\ TSUB(x, y) \in (-H)..(H - 1) /\ TSUB(x, y) \in Int
           /\ \E k \in Int : TSUB(x, y) = x - y + k * WRAP
<1> DEFINE z == x - y + H
<1>1. z \in Int /\ H \in Nat /\ WRAP \in Nat \ {0} /\ WRAP = H + H
  BY Halves
<1>2. TSUB(x, y) = (z % WRAP) - H
  BY DEF TSUB, H
<1> HIDE DEF z
<1>3. /\ z % WRAP \in 0..(WRAP - 1)
      /\ \E k \in Int : z % WRAP = z + k * WRAP
  BY <1>1, ModIs
<1>4. PICK k \in Int : z % WRAP = z + k * WRAP
  BY <1>3
<1>5. TSUB(x, y) \in (-H)..(H - 1) /\ TSUB(x, y) \in Int
  BY <1>1, <1>2, <1>3
<1>6. k * WRAP \in Int
  BY <1>1
<1>7. TSUB(x, y) = x - y + k * WRAP
  BY <1>1, <1>2, <1>4, <1>6 DEF z
<1> QED
  BY <1>5, <1>7

LEMMA TsubUnique ==
    ASSUME NEW x \in Int, NEW y \in Int, NEW d \in (-H)..(H - 1), NEW k \in Int,
           x - y = d + k * WRAP
    PROVE  TSUB(x, y) = d
<1>1. H \in Nat /\ WRAP \in Nat \ {0} /\ WRAP = H + H /\ k * WRAP \in Int
  BY Halves
<1>2. d + H \in 0..(WRAP - 1)
  BY <1>1
<1>3. x - y + H = (d + H) + k * WRAP
  BY <1>1
<1>4. ((d + H) + k * WRAP) % WRAP = d + H
  BY <1>1, <1>2, ModUnique
<1> QED
  BY <1>1, <1>3, <1>4 DEF TSUB, H

\* What is added to a timestamp is added to a difference, short of a wrap.
LEMMA Ahead ==
    ASSUME NEW x \in Int, NEW y \in Int, NEW n \in Int,
           TSUB(x, y) + n \in (-H)..(H - 1)
    PROVE  TSUB(Plus(x, n), y) = TSUB(x, y) + n
<1>1. PICK k \in Int : TSUB(x, y) = x - y + k * WRAP
  BY TsubIs
<1>2. PICK l \in Int : Plus(x, n) = x + n + l * WRAP
  BY PlusIs
<1>3. WRAP \in Int /\ H \in Int /\ Plus(x, n) \in Int
  BY Halves, PlusIs
<1> DEFINE d == TSUB(x, y) + n
           m == l - k
<1>4. k * WRAP \in Int /\ l * WRAP \in Int /\ m \in Int /\ m * WRAP = l * WRAP - k * WRAP
  BY <1>3
<1>5. Plus(x, n) - y = d + m * WRAP
  BY <1>1, <1>2, <1>3, <1>4
<1>6. d \in (-H)..(H - 1)
  OBVIOUS
<1> HIDE DEF d, m
<1>7. TSUB(Plus(x, n), y) = d
  BY <1>3, <1>4, <1>5, <1>6, TsubUnique
<1> QED
  BY <1>7 DEF d

LEMMA Behind ==
    ASSUME NEW x \in Int, NEW y \in Int, NEW n \in Int,
           TSUB(x, y) - n \in (-H)..(H - 1)
    PROVE  TSUB(x, Plus(y, n)) = TSUB(x, y) - n
<1>1. PICK k \in Int : TSUB(x, y) = x - y + k * WRAP
  BY TsubIs
<1>2. PICK l \in Int : Plus(y, n) = y + n + l * WRAP
  BY PlusIs
<1>3. WRAP \in Int /\ H \in Int /\ Plus(y, n) \in Int
  BY Halves, PlusIs
<1> DEFINE d == TSUB(x, y) - n
           m == -l - k
<1>4. k * WRAP \in Int /\ l * WRAP \in Int /\ m \in Int /\ m * WRAP = -(l * WRAP) - k * WRAP
  BY <1>3
<1>5. x - Plus(y, n) = d + m * WRAP
  BY <1>1, <1>2, <1>3, <1>4
<1>6. d \in (-H)..(H - 1)
  OBVIOUS
<1> HIDE DEF d, m
<1>7. TSUB(x, Plus(y, n)) = d
  BY <1>3, <1>4, <1>5, <1>6, TsubUnique
<1> QED
  BY <1>7 DEF d

\* Differences add up, short of a wrap.
LEMMA Through ==
    ASSUME NEW x \in Int, NEW y \in Int, NEW z \in Int,
           TSUB(x, y) + TSUB(y, z) \in (-H)..(H - 1)
    PROVE  TSUB(x, z) = TSUB(x, y) + TSUB(y, z)
<1>1. PICK k \in Int : TSUB(x, y) = x - y + k * WRAP
  BY TsubIs
<1>2. PICK l \in Int : TSUB(y, z) = y - z + l * WRAP
  BY TsubIs
<1> DEFINE d == TSUB(x, y) + TSUB(y, z)
           m == -k - l
<1>3. WRAP \in Int /\ m \in Int
  BY Halves
<1>4. k * WRAP \in Int /\ l * WRAP \in Int /\ m * WRAP = -(k * WRAP) - l * WRAP
  BY <1>3
<1>5. x - z = d + m * WRAP
  BY <1>1, <1>2, <1>3, <1>4
<1>6. d \in (-H)..(H - 1)
  OBVIOUS
<1> HIDE DEF d, m
<1>7. TSUB(x, z) = d
  BY <1>3, <1>5, <1>6, TsubUnique
<1> QED
  BY <1>7 DEF d

LEMMA SameTime ==
    ASSUME NEW x \in Timestamp
    PROVE  TSUB(x, x) = 0 /\ Plus(x, 0) = x /\ Plus(x, -0) = x
<1>1. WRAP \in Nat \ {0} /\ H \in Nat \ {0} /\ x \in 0..(WRAP - 1) /\ x \in Int
  BY Halves DEF Timestamp
<1>2. TSUB(x, x) = 0
  <2>1. 0 \in (-H)..(H - 1) /\ x - x = 0 + 0 * WRAP /\ 0 \in Int
    BY <1>1
  <2> QED
    BY <1>1, <2>1, TsubUnique
<1>3. x + 0 = x /\ x + (-0) = x /\ x + 0 * WRAP = x
  BY <1>1
<1>4. x % WRAP = x
  BY <1>1, <1>3, ModUnique
<1> QED
  BY <1>2, <1>3, <1>4 DEF Plus

\* There and back.
LEMMA BackAgain ==
    ASSUME NEW x \in Timestamp, NEW n \in Int
    PROVE  Plus(Plus(x, n), -n) = x
<1>1. WRAP \in Nat \ {0} /\ x \in 0..(WRAP - 1) /\ x \in Int
  BY Halves DEF Timestamp
<1>2. PICK k \in Int : Plus(x, n) = x + n + k * WRAP
  BY <1>1, PlusIs
<1>3. k * WRAP \in Int
  BY <1>1
<1>4. Plus(x, n) + (-n) = x + k * WRAP
  BY <1>1, <1>2, <1>3
<1>5. (x + k * WRAP) % WRAP = x
  BY <1>1, ModUnique
<1> QED
  BY <1>4, <1>5 DEF Plus

----------------------------------------------------------------------------
(* What a loop keeps.                                                       *)

\* One more turn of the loop of Keep, for what it has kept so far.
Turns(n, S, better, kept) ==
  [j \in 0..n |->
     IF j = 0 THEN 0
     ELSE LET i == kept[j - 1]
          IN  IF j \in S /\ (i = 0 \/ better[j][i]) THEN j ELSE i]

\* The recursive function of Keep exists.
LEMMA KeptExists ==
    ASSUME NEW n \in Nat, NEW S, NEW better
    PROVE  \E kept : kept = Turns(n, S, better, kept)
<1> DEFINE Exists(m) == \E kept : kept = Turns(m, S, better, kept)
           T == {m \in Nat : ~Exists(m)}
<1>1. SUFFICES T = {}
  OBVIOUS
<1>2. SUFFICES ASSUME T # {} PROVE FALSE
  OBVIOUS
<1>3. PICK m \in T : \A l \in T : m <= l
  <2>1. T \subseteq Nat
    OBVIOUS
  <2> HIDE DEF T
  <2> QED
    BY <1>2, <2>1, Least
<1>4. m # 0
  <2>1. [j \in 0..0 |-> 0] = Turns(0, S, better, [j \in 0..0 |-> 0])
    BY DEF Turns
  <2> QED
    BY <2>1
<1>5. m - 1 \in Nat /\ Exists(m - 1)
  BY <1>3, <1>4
<1>6. PICK before : before = Turns(m - 1, S, better, before)
  BY <1>5
<1> DEFINE last == IF m \in S /\ (before[m - 1] = 0 \/ better[m][before[m - 1]])
                   THEN m ELSE before[m - 1]
           kept == [j \in 0..m |-> IF j = m THEN last ELSE before[j]]
<1>7. ASSUME NEW j \in 0..m PROVE kept[j] = Turns(m, S, better, kept)[j]
  <2>1. CASE j = 0
    <3>1. 0 \in 0..(m - 1) /\ 0 # m /\ 0 \in 0..m
      BY <1>4, <1>5
    <3>2. before[0] = Turns(m - 1, S, better, before)[0]
      BY <1>6
    <3> QED
      BY <2>1, <3>1, <3>2 DEF Turns
  <2>2. CASE j = m
    BY <1>4, <1>5, <2>2 DEF Turns
  <2>3. CASE j # 0 /\ j # m
    <3>1. j \in 0..(m - 1) /\ j - 1 \in 0..(m - 1) /\ j - 1 # m /\ j - 1 \in 0..m
      BY <1>5, <2>3
    <3>2. before[j] = Turns(m - 1, S, better, before)[j]
      BY <1>6
    <3>3. kept[j] = before[j] /\ kept[j - 1] = before[j - 1]
      BY <2>3, <3>1
    <3> HIDE DEF kept, last
    <3> QED
      BY <2>3, <3>1, <3>2, <3>3 DEF Turns
  <2> QED
    BY <2>1, <2>2, <2>3
<1>8. kept = [j \in 0..m |-> kept[j]]
  OBVIOUS
<1>9. Turns(m, S, better, kept) = [j \in 0..m |-> Turns(m, S, better, kept)[j]]
  BY DEF Turns
<1>10. kept = Turns(m, S, better, kept)
  <2> HIDE DEF kept
  <2> QED
    BY <1>7, <1>8, <1>9
<1> QED
  BY <1>3, <1>10

\* Keep returns one of the set, if there is one.
LEMMA KeepInSet ==
    ASSUME NEW n \in Nat, NEW S, S \subseteq 1..n, S # {}, NEW better
    PROVE  Keep(n, S, better) \in S
<1>1. PICK kept : kept = Turns(n, S, better, kept) /\ Keep(n, S, better) = kept[n]
  <2> DEFINE f == CHOOSE kept : kept = Turns(n, S, better, kept)
  <2>a. \E kept : kept = Turns(n, S, better, kept)
    BY KeptExists
  <2>1. f = Turns(n, S, better, f)
    BY <2>a
  <2>2. Keep(n, S, better) = f[n]
    BY Zenon DEF Keep, Turns
  <2> QED
    BY <2>1, <2>2
<1> DEFINE Right(j) == IF S \intersect 1..j = {} THEN kept[j] = 0
                       ELSE kept[j] \in S
           T == {j \in 0..n : ~Right(j)}
<1>2. kept[0] = 0 /\ \A j \in 1..n : \/ j \in S /\ kept[j] = j
                                     \/ kept[j] = kept[j - 1] /\ (j \in S => kept[j - 1] # 0)
  BY <1>1 DEF Turns
<1>3. T = {}
  <2> SUFFICES ASSUME T # {} PROVE FALSE
    OBVIOUS
  <2>1. PICK j \in T : \A l \in T : j <= l
    <3>1. T \subseteq Nat
      OBVIOUS
    <3> HIDE DEF T
    <3> QED
      BY <3>1, Least
  <2>2. j \in 0..n /\ ~Right(j) /\ \A l \in 0..n : l < j => Right(l)
    BY <2>1
  <2>3. CASE j = 0
    BY <1>2, <2>2, <2>3
  <2>4. CASE j # 0
    <3>1. j \in 1..n /\ j - 1 \in 0..n /\ j - 1 < j
      BY <2>2, <2>4
    <3>2. Right(j - 1)
      BY <2>2, <3>1
    <3>3. 1..j = 1..(j - 1) \union {j}
      BY <3>1
    <3> QED
      BY <1>2, <2>2, <3>1, <3>2, <3>3
  <2> QED
    BY <2>3, <2>4
<1>4. Right(n)
  BY <1>3
<1> QED
  BY <1>1, <1>4

----------------------------------------------------------------------------
(* The latest timings.                                                      *)

Windows ==
  timeBuffers \in [1..MAX_BUFFERS -> [timing : Seq(Int), curr_count : 0..subwindow_size]]

LEMMA SeenFinite == IsFiniteSet(Seen) /\ Cardinality(Seen) \in Nat
<1>1. IsFiniteSet(1..MAX_BUFFERS) /\ IsFiniteSet(1..MAX_TIMINGS)
  <2>1. 1 \in Int /\ MAX_BUFFERS \in Int /\ MAX_TIMINGS \in Int
    BY Sizes
  <2> QED
    BY <2>1, FS_Interval
<1>2. IsFiniteSet((1..MAX_BUFFERS) \X (1..MAX_TIMINGS))
  BY <1>1, FS_Product
<1>3. Seen \in SUBSET ((1..MAX_BUFFERS) \X (1..MAX_TIMINGS))
  BY DEF Seen
<1> QED
  BY <1>2, <1>3, FS_Subset, FS_CardinalityType

LEMMA SeenFacts ==
    ASSUME Windows, NEW e \in Seen
    PROVE  /\ At(e) \in Int /\ At(e) < TIMING_LIMIT
           /\ e[1] \in 1..MAX_BUFFERS /\ e[2] \in 1..Len(timeBuffers[e[1]].timing)
           /\ e[1] \in Int /\ e[2] \in Int /\ e = <<e[1], e[2]>>
<1>1. /\ e \in (1..MAX_BUFFERS) \X (1..MAX_TIMINGS)
      /\ e[2] <= Len(timeBuffers[e[1]].timing) /\ At(e) < TIMING_LIMIT
  BY DEF Seen
<1>2. timeBuffers[e[1]] \in [timing : Seq(Int), curr_count : 0..subwindow_size]
  BY <1>1 DEF Windows
<1>3. timeBuffers[e[1]].timing \in Seq(Int) /\ Len(timeBuffers[e[1]].timing) \in Nat
  BY <1>2
<1>4. e[1] \in 1..MAX_BUFFERS /\ e[2] \in 1..MAX_TIMINGS /\ e = <<e[1], e[2]>>
  BY <1>1
<1>5. e[1] \in Int /\ e[2] \in Int /\ e[2] \in 1..Len(timeBuffers[e[1]].timing)
  BY <1>1, <1>3, <1>4, Sizes
<1> QED
  BY <1>1, <1>3, <1>4, <1>5 DEF At

\* Precedes is a strict order in which any two timings compare.
LEMMA Order ==
    ASSUME Windows, NEW e \in Seen, NEW f \in Seen
    PROVE  /\ ~Precedes(e, e)
           /\ e # f => Precedes(e, f) \/ Precedes(f, e)
           /\ \A g \in Seen : Precedes(g, e) /\ Precedes(e, f) => Precedes(g, f)
<1>1. /\ At(e) \in Int /\ e[1] \in Int /\ e[2] \in Int /\ e = <<e[1], e[2]>>
      /\ At(f) \in Int /\ f[1] \in Int /\ f[2] \in Int /\ f = <<f[1], f[2]>>
  BY SeenFacts
<1>2. ~Precedes(e, e)
  BY <1>1 DEF Precedes
<1>3. e # f => e[1] # f[1] \/ e[2] # f[2]
  BY <1>1
<1>4. e # f => Precedes(e, f) \/ Precedes(f, e)
  BY <1>1, <1>3 DEF Precedes
<1>5. ASSUME NEW g \in Seen, Precedes(g, e), Precedes(e, f) PROVE Precedes(g, f)
  <2>1. At(g) \in Int /\ g[1] \in Int /\ g[2] \in Int
    BY SeenFacts
  <2> QED
    BY <1>1, <1>5, <2>1 DEF Precedes
<1> QED
  BY <1>2, <1>4, <1>5

LEMMA RankFacts ==
    ASSUME Windows, NEW e \in Seen
    PROVE  /\ Rank(e) \in 0..(Cardinality(Seen) - 1)
           /\ \A f \in Seen : Precedes(e, f) => Rank(e) < Rank(f)
<1> DEFINE Below(f) == {g \in Seen : Precedes(g, f)}
<1>1. \A f \in Seen : IsFiniteSet(Below(f)) /\ Cardinality(Below(f)) \in Nat
  <2>1. \A f \in Seen : Below(f) \in SUBSET Seen
    OBVIOUS
  <2> HIDE DEF Below
  <2> QED
    BY <2>1, SeenFinite, FS_Subset, FS_CardinalityType
<1>2. Rank(e) <= Cardinality(Seen) - 1 /\ Rank(e) \in Nat
  <2>1. Below(e) \in SUBSET (Seen \ {e})
    BY Order
  <2>2. IsFiniteSet(Seen \ {e}) /\ Cardinality(Seen \ {e}) = Cardinality(Seen) - 1
    BY SeenFinite, FS_RemoveElement
  <2>3. Rank(e) = Cardinality(Below(e))
    BY DEF Rank
  <2> HIDE DEF Below
  <2> QED
    BY <1>1, <2>1, <2>2, <2>3, FS_Subset
<1>3. ASSUME NEW f \in Seen, Precedes(e, f) PROVE Rank(e) < Rank(f)
  <2>1. Below(e) \in SUBSET Below(f)
    BY <1>3, Order
  <2>2. e \in Below(f) /\ e \notin Below(e)
    BY <1>3, Order
  <2>3. Rank(e) = Cardinality(Below(e)) /\ Rank(f) = Cardinality(Below(f))
    BY DEF Rank
  <2> HIDE DEF Below
  <2>4. Cardinality(Below(e)) <= Cardinality(Below(f)) /\ Cardinality(Below(e)) # Cardinality(Below(f))
    BY <1>1, <2>1, <2>2, FS_Subset
  <2> QED
    BY <1>1, <2>3, <2>4
<1> QED
  BY <1>2, <1>3, SeenFinite

\* Every rank is that of a timing: distinct timings have distinct ranks, and
\* there are as many of them.
LEMMA RankExists ==
    ASSUME Windows, NEW k \in 1..Cardinality(Seen)
    PROVE  \E e \in Seen : Rank(e) = k - 1
<1> DEFINE n == Cardinality(Seen)
           ranks == [e \in Seen |-> Rank(e)]
<1>1. n \in Nat /\ k - 1 \in 0..(n - 1) /\ n - 1 \in Int
  BY SeenFinite
<1>2. IsFiniteSet(0..(n - 1)) /\ Cardinality(0..(n - 1)) = n
  <2> DEFINE last == n - 1
  <2>1. last \in Int /\ 0 \in Int /\ last >= 0
    BY <1>1
  <2> HIDE DEF n, last
  <2>2. IsFiniteSet(0..last) /\ Cardinality(0..last) = IF 0 > last THEN 0 ELSE last - 0 + 1
    BY <2>1, FS_Interval
  <2> QED
    BY <1>1, <2>1, <2>2 DEF last
<1>3. ranks \in [Seen -> 0..(n - 1)]
  BY RankFacts
<1>4. ASSUME NEW e \in Seen, NEW f \in Seen, ranks[e] = ranks[f] PROVE e = f
  <2>1. Rank(e) = Rank(f) /\ Rank(e) \in Int /\ Rank(f) \in Int
    BY <1>4, RankFacts
  <2>2. Precedes(e, f) => Rank(e) < Rank(f)
    BY RankFacts
  <2>3. Precedes(f, e) => Rank(f) < Rank(e)
    BY RankFacts
  <2> QED
    BY <2>1, <2>2, <2>3, Order
<1> HIDE DEF ranks, n
<1>5. ranks \in Injection(Seen, 0..(n - 1))
  BY <1>3, <1>4 DEF Injection, IsInjective
<1>6. ranks \in Surjection(Seen, 0..(n - 1))
  BY <1>2, <1>5, FS_Injection DEF n
<1>7. PICK e \in Seen : ranks[e] = k - 1
  BY <1>1, <1>6 DEF Surjection
<1> QED
  BY <1>7 DEF ranks

\* The latest timings are timings that are there, and there are some unless
\* none is.
LEMMA LatestFacts ==
    ASSUME Windows
    PROVE  /\ Len(Latest) \in Nat /\ DOMAIN Latest = 1..Len(Latest)
           /\ Latest # <<>> => Len(Latest) > 0
           /\ \A k \in 1..Len(Latest) : \E e \in Seen : Latest[k] = At(e)
<1> DEFINE n == Cardinality(Seen)
           m == IF n < TOP_DELAY THEN n ELSE TOP_DELAY
           latest == [k \in 1..m |-> At(CHOOSE e \in Seen : Rank(e) = k - 1)]
<1>1. n \in Nat /\ m \in Nat /\ m <= n
  BY SeenFinite, Sizes
<1>2. Latest = latest
  BY DEF Latest
<1>3. \A k \in 1..m : \E e \in Seen : latest[k] = At(e)
  <2> TAKE k \in 1..m
  <2>1. k \in 1..Cardinality(Seen)
    BY <1>1
  <2>2. \E e \in Seen : Rank(e) = k - 1
    BY <2>1, RankExists
  <2>3. (CHOOSE e \in Seen : Rank(e) = k - 1) \in Seen
    BY <2>2
  <2> QED
    BY <2>3
<1> HIDE DEF n, m
<1>4. Len(latest) = m /\ DOMAIN latest = 1..m
  BY <1>1
<1>5. m = 0 => latest = <<>>
  BY <1>4
<1> HIDE DEF latest
<1> QED
  BY <1>1, <1>2, <1>3, <1>4, <1>5

\* The delay that is chosen is what 16 bits keep of a timing, rounded down.
LEMMA OptFacts ==
    ASSUME Windows
    PROVE  /\ compute_opt_delay \in Int
           /\ compute_opt_delay \in (-TIMING_LIMIT - 1)..TIMING_LIMIT
           /\ compute_opt_delay = 0
                \/ \E e \in Seen : compute_opt_delay = Int16(ROUND_DOWN(At(e), delay_step))
<1>1. CASE Latest = <<>>
  BY <1>1, Sizes DEF compute_opt_delay
<1>2. CASE Latest # <<>>
  <2> DEFINE choices == 1..Len(Latest)
  <2>1. \A better : Keep(Len(Latest), choices, better) \in choices
    <3>1. Len(Latest) \in Nat /\ choices \subseteq 1..Len(Latest) /\ choices # {}
      BY <1>2, LatestFacts
    <3> HIDE DEF choices
    <3> QED
      BY <3>1, KeepInSet
  <2>2. PICK better : BestDelay = ROUND_DOWN(Latest[Keep(Len(Latest), choices, better)], delay_step)
    <3> DEFINE delay == [i \in choices |-> ROUND_DOWN(Latest[i], delay_step)]
    <3>1. PICK better : BestDelay = delay[Keep(Len(Latest), choices, better)]
      BY DEF BestDelay
    <3>2. Keep(Len(Latest), choices, better) \in choices
      BY <2>1
    <3>3. BestDelay = ROUND_DOWN(Latest[Keep(Len(Latest), choices, better)], delay_step)
      BY <3>1, <3>2
    <3> QED
      BY <3>3
  <2>3. PICK e \in Seen : Latest[Keep(Len(Latest), choices, better)] = At(e)
    BY <2>1, LatestFacts
  <2>4. BestDelay = ROUND_DOWN(At(e), delay_step)
    BY <2>2, <2>3
  <2>5. BestDelay \in Int
    <3>1. At(e) \in Int /\ delay_step \in Nat \ {0}
      BY SeenFacts, Sizes
    <3> QED
      BY <2>4, <3>1, RoundDown
  <2>6. Int16(BestDelay) \in Int /\ Int16(BestDelay) \in (-TIMING_LIMIT - 1)..TIMING_LIMIT
    BY <2>5, Int16Is
  <2>7. compute_opt_delay = 0 \/ compute_opt_delay = Int16(BestDelay)
    BY <1>2 DEF compute_opt_delay
  <2>8. TIMING_LIMIT \in Nat
    BY Sizes
  <2> QED
    BY <2>4, <2>6, <2>7, <2>8
<1> QED
  BY <1>1, <1>2

----------------------------------------------------------------------------
(* The sub-windows.                                                         *)

LEMMA DivAtLeast ==
    ASSUME NEW x \in Nat, NEW m \in Nat \ {0}, NEW k \in Nat, m * k <= x
    PROVE  x \div m \in Nat /\ x \div m >= k
<1> DEFINE q == x \div m
<1>1. q \in Nat /\ x = m * q + (x % m) /\ x % m \in 0..(m - 1)
  OBVIOUS
<1>2. m * (q + 1) = m * q + m /\ x < m * (q + 1)
  BY <1>1
<1> HIDE DEF q
<1>3. ASSUME q < k PROVE FALSE
  <2>1. q + 1 <= k
    BY <1>1, <1>3
  <2>2. m * (q + 1) <= m * k
    BY <1>1, <2>1
  <2> QED
    BY <1>1, <1>2, <2>2
<1> QED
  BY <1>1, <1>3 DEF q

\* A sub-window holds a packet.
LEMMA SubwindowSize == subwindow_size \in Nat /\ subwindow_size >= 1
<1>1. window_size \in Nat /\ window_size >= MAX_BUFFERS
  BY DivAtLeast, JitterAssumption DEF window_size
<1> QED
  BY <1>1, DivAtLeast, JitterAssumption DEF subwindow_size

\* Sub-windows with timings from V.
Fits(bufs, V) ==
  /\ bufs \in [1..MAX_BUFFERS -> [timing : Seq(V), curr_count : 0..subwindow_size]]
  /\ \A b \in 1..MAX_BUFFERS : Len(bufs[b].timing) <= MAX_TIMINGS

LEMMA NoneFits == \A V : Fits(tb_init, V)
<1> TAKE V
<1>1. NoTimings \in [timing : Seq(V), curr_count : 0..subwindow_size]
  BY SubwindowSize DEF NoTimings
<1> QED
  BY <1>1, Sizes DEF Fits, tb_init, NoTimings

LEMMA FirstOfFacts ==
    ASSUME NEW V, NEW s \in Seq(V), NEW n \in Nat
    PROVE  /\ FirstOf(n, s) \in Seq(V)
           /\ Len(FirstOf(n, s)) = (IF Len(s) < n THEN Len(s) ELSE n)
           /\ \A i \in 1..Len(FirstOf(n, s)) : FirstOf(n, s)[i] = s[i]
<1> DEFINE m == IF Len(s) < n THEN Len(s) ELSE n
<1>1. Len(s) \in Nat /\ m \in Nat /\ m <= Len(s) /\ FirstOf(n, s) = SubSeq(s, 1, m)
  BY DEF FirstOf
<1> HIDE DEF m
<1>2. /\ SubSeq(s, 1, m) \in Seq(V) /\ Len(SubSeq(s, 1, m)) = m
      /\ \A i \in 1..m : SubSeq(s, 1, m)[i] = s[i]
  BY <1>1
<1> QED
  BY <1>1, <1>2 DEF m

LEMMA AddFits ==
    ASSUME NEW V, V \subseteq Int, NEW t \in V, NEW c \in Nat,
           NEW tb \in [timing : Seq(V), curr_count : 0..c]
    PROVE  /\ tb_add(tb, t) \in [timing : Seq(V), curr_count : 0..(c + 1)]
           /\ Len(tb_add(tb, t).timing) <= MAX_TIMINGS
<1> DEFINE s == tb.timing
<1>1. s \in Seq(V) /\ Len(s) \in Nat /\ tb.curr_count \in 0..c
  OBVIOUS
<1>2. Inserted(s, t) \in Seq(V)
  <2>1. \A i \in 1..(Len(s) + 1) : (i <= Len(s) => s[i] \in V) /\ (i # 1 => s[i - 1] \in V)
    BY <1>1
  <2> DEFINE val(i) == IF i <= Len(s) /\ s[i] <= t THEN s[i]
                       ELSE IF i = 1 \/ s[i - 1] <= t THEN t ELSE s[i - 1]
  <2>2. \A i \in 1..(Len(s) + 1) : val(i) \in V
    BY <2>1
  <2>3. Inserted(s, t) = [i \in 1..(Len(s) + 1) |-> val(i)]
    BY DEF Inserted
  <2> HIDE DEF val, s
  <2>4. [i \in 1..(Len(s) + 1) |-> val(i)] \in Seq(V)
    <3>1. Len(s) + 1 \in Nat
      BY <1>1
    <3> QED
      BY <2>2, <3>1
  <2> QED
    BY <2>3, <2>4
<1> HIDE DEF s
<1>3. MAX_TIMINGS \in Nat
  BY Sizes
<1>4. /\ FirstOf(MAX_TIMINGS, Inserted(s, t)) \in Seq(V)
      /\ Len(FirstOf(MAX_TIMINGS, Inserted(s, t))) <= MAX_TIMINGS
  BY <1>2, <1>3, FirstOfFacts
<1>5. tb.curr_count + 1 \in 0..(c + 1)
  BY <1>1
<1> QED
  BY <1>4, <1>5 DEF tb_add, s

LEMMA UpdateFits ==
    ASSUME NEW V, V = Int \/ V = {0}, NEW bufs, Fits(bufs, V), NEW timing \in V
    PROVE  Fits(update_timings(bufs, timing), V)
<1> DEFINE TB(c) == [timing : Seq(V), curr_count : 0..c]
           full == bufs[1].curr_count >= subwindow_size
           room == IF full THEN <<NoTimings>> \o FirstOf(MAX_BUFFERS - 1, bufs) ELSE bufs
           t == IF timing < -TIMING_LIMIT THEN -TIMING_LIMIT
                ELSE IF timing > TIMING_LIMIT THEN TIMING_LIMIT ELSE timing
<1>1. MAX_BUFFERS \in Nat \ {0} /\ TIMING_LIMIT \in Nat \ {0}
  BY Sizes
<1>2. t \in V /\ V \subseteq Int
  BY <1>1
<1>3. bufs \in [1..MAX_BUFFERS -> TB(subwindow_size)]
      /\ bufs \in Seq(TB(subwindow_size)) /\ Len(bufs) = MAX_BUFFERS
  <2>1. bufs \in [1..MAX_BUFFERS -> TB(subwindow_size)]
    BY DEF Fits
  <2> HIDE DEF TB
  <2> QED
    BY <1>1, <2>1
<1>4. /\ room \in [1..MAX_BUFFERS -> TB(subwindow_size)]
      /\ room[1] \in TB(subwindow_size - 1)
      /\ \A b \in 1..MAX_BUFFERS : Len(room[b].timing) <= MAX_TIMINGS
  <2>1. CASE full
    <3> DEFINE rest == FirstOf(MAX_BUFFERS - 1, bufs)
    <3>0. NoTimings \in TB(subwindow_size) /\ NoTimings \in TB(subwindow_size - 1)
          /\ Len(NoTimings.timing) <= MAX_TIMINGS
      <4>1. NoTimings.timing = <<>> /\ Len(<<>>) = 0 /\ <<>> \in Seq(V)
        BY DEF NoTimings
      <4>2. 0 \in 0..subwindow_size /\ 0 \in 0..(subwindow_size - 1) /\ 0 <= MAX_TIMINGS
        BY SubwindowSize, Sizes
      <4> QED
        BY <4>1, <4>2 DEF NoTimings
    <3> HIDE DEF TB, full
    <3>1. MAX_BUFFERS - 1 \in Nat /\ MAX_BUFFERS - 1 < MAX_BUFFERS
      BY <1>1
    <3>2. /\ rest \in Seq(TB(subwindow_size)) /\ Len(rest) = MAX_BUFFERS - 1
          /\ \A b \in 1..(MAX_BUFFERS - 1) : rest[b] = bufs[b]
      BY <1>3, <3>1, FirstOfFacts
    <3> HIDE DEF rest
    <3>3. room = <<NoTimings>> \o rest
      BY <2>1 DEF rest
    <3> HIDE DEF room
    <3>a. /\ Len(room) = MAX_BUFFERS /\ room \in Seq(TB(subwindow_size))
          /\ room[1] = NoTimings
      BY <3>0, <3>1, <3>2, <3>3, <1>1
    <3>b. ASSUME NEW b \in 2..MAX_BUFFERS PROVE room[b] = bufs[b - 1]
      <4>1. b - 1 \in 1..(MAX_BUFFERS - 1) /\ b - 1 \in 1..Len(rest)
        BY <1>1, <3>2
      <4>2. room[b] = rest[b - 1]
        BY <1>1, <3>0, <3>2, <3>3, <4>1
      <4> QED
        BY <3>2, <4>1, <4>2
    <3>4. /\ Len(room) = MAX_BUFFERS /\ room \in Seq(TB(subwindow_size))
          /\ room[1] = NoTimings
          /\ \A b \in 2..MAX_BUFFERS : room[b] = bufs[b - 1]
      BY <3>a, <3>b
    <3>5. room \in [1..MAX_BUFFERS -> TB(subwindow_size)]
      BY <3>4
    <3>6. ASSUME NEW b \in 1..MAX_BUFFERS PROVE Len(room[b].timing) <= MAX_TIMINGS
      <4>1. CASE b = 1
        BY <4>1, <3>0, <3>4
      <4>2. CASE b # 1
        <5>1. b \in 2..MAX_BUFFERS /\ b - 1 \in 1..MAX_BUFFERS
          BY <1>1, <4>2
        <5> QED
          BY <3>4, <5>1 DEF Fits
      <4> QED
        BY <4>1, <4>2
    <3> QED
      BY <3>0, <3>4, <3>5, <3>6
  <2>2. CASE ~full
    <3>1. bufs[1] \in TB(subwindow_size) /\ bufs[1].curr_count < subwindow_size
      BY <1>1, <1>3, <2>2, SubwindowSize
    <3>2. bufs[1] \in TB(subwindow_size - 1)
      BY <3>1, SubwindowSize
    <3> QED
      BY <1>3, <2>2, <3>2 DEF Fits
  <2> QED
    BY <2>1, <2>2
<1>5. update_timings(bufs, timing) = [room EXCEPT ![1] = tb_add(room[1], t)]
  BY DEF update_timings
<1> HIDE DEF room, t
<1>6. tb_add(room[1], t) \in TB(subwindow_size) /\ Len(tb_add(room[1], t).timing) <= MAX_TIMINGS
  <2>1. subwindow_size - 1 \in Nat /\ subwindow_size - 1 + 1 = subwindow_size
    BY SubwindowSize
  <2> QED
    BY <1>2, <1>4, <2>1, AddFits
<1> QED
  BY <1>1, <1>4, <1>5, <1>6 DEF Fits

LEMMA ShiftFits ==
    ASSUME NEW bufs, Fits(bufs, Int), NEW amount \in Int
    PROVE  Fits(shift_timings(bufs, amount), Int)
<1>1. ASSUME NEW b \in 1..MAX_BUFFERS
      PROVE  /\ shift_timings(bufs, amount)[b] \in
                  [timing : Seq(Int), curr_count : 0..subwindow_size]
             /\ Len(shift_timings(bufs, amount)[b].timing) <= MAX_TIMINGS
  <2> DEFINE s == bufs[b].timing
             new == [i \in DOMAIN s |-> s[i] + Int16(amount)]
  <2>1. /\ bufs[b] \in [timing : Seq(Int), curr_count : 0..subwindow_size]
        /\ Len(s) <= MAX_TIMINGS
    BY DEF Fits
  <2>2. s \in Seq(Int) /\ Len(s) \in Nat /\ DOMAIN s = 1..Len(s)
    BY <2>1
  <2>3. \A i \in 1..Len(s) : s[i] + Int16(amount) \in Int
    <3>1. Int16(amount) \in Int
      BY Int16Is
    <3> HIDE DEF s
    <3> QED
      BY <2>2, <3>1
  <2>4. shift_timings(bufs, amount)[b] = [bufs[b] EXCEPT !.timing = new]
    BY DEF shift_timings
  <2> HIDE DEF s
  <2>5. new \in Seq(Int) /\ Len(new) = Len(s)
    BY <2>2, <2>3
  <2> HIDE DEF new
  <2> QED
    BY <2>1, <2>4, <2>5
<1> QED
  BY <1>1 DEF Fits, shift_timings

----------------------------------------------------------------------------
(* Types.                                                                   *)

Packet == [timestamp : Timestamp, span : Spans \union {Span}, arrival : Timestamp]

\* The part of TypeOK that is about the buffer.
Buffer ==
  /\ packets \in [Slot -> {NoPacket} \union Packet]
  /\ pointer_timestamp \in Timestamp /\ next_stop \in Timestamp
  /\ last_returned_timestamp \in Timestamp
  /\ buffered \in Int /\ interp_requested \in Nat
  /\ Fits(timeBuffers, Int)
  /\ lost_count \in 0..(MAX_LOST + 1)
  /\ reset_state \in BOOLEAN /\ auto_adjust \in BOOLEAN

LEMMA TypeParts ==
    TypeOK <=> /\ Buffer
               /\ sender \in Timestamp /\ heard \in Timestamp /\ steady \in BOOLEAN
               /\ wild \in 0..Wild
               /\ player \in {"receive", "get", "tick", "adjusted"}
BY DEF TypeOK, Buffer, Fits, Packet

LEMMA BufferWindows == Buffer => Windows
BY DEF Buffer, Windows, Fits

LEMMA Constants ==
    /\ 0 \in Timestamp /\ Timestamp \subseteq Int /\ WRAP \in Nat \ {0}
    /\ Slot = 1..SPEEX_JITTER_MAX_BUFFER_SIZE /\ SPEEX_JITTER_MAX_BUFFER_SIZE \in Nat \ {0}
    /\ Spans \union {Span} \subseteq Nat \ {0}
    /\ Span \in Nat \ {0} /\ Span \in Int
    /\ MAX_LOST \in Nat /\ buffer_margin \in Nat
    /\ delay_step \in Nat \ {0} /\ concealment_size \in Nat \ {0}
<1>1. WRAP \in Nat \ {0}
  BY Halves
<1>2. 0 \in Timestamp /\ Timestamp \subseteq Int
  BY <1>1 DEF Timestamp
<1>3. Span \in Nat \ {0} /\ Span \in Int /\ Spans \union {Span} \subseteq Nat \ {0}
  BY JitterLinkAssumption
<1> QED
  BY <1>1, <1>2, <1>3, Sizes DEF Slot

LEMMA OccupiedFacts ==
    ASSUME Buffer, NEW i \in Occupied(packets)
    PROVE  /\ i \in Slot /\ packets[i] \in Packet /\ packets[i] # NoPacket
           /\ packets[i].timestamp \in Timestamp /\ packets[i].timestamp \in Int
           /\ packets[i].span \in Spans \union {Span} /\ packets[i].span \in Nat \ {0}
           /\ packets[i].arrival \in Timestamp
<1>1. i \in Slot /\ packets[i] # NoPacket
  BY DEF Occupied
<1>2. packets[i] \in Packet
  BY <1>1 DEF Buffer
<1> QED
  BY <1>1, <1>2, Constants DEF Packet

LEMMA StartType ==
    ASSUME Buffer, ~reset_state \/ Occupied(packets) # {}
    PROVE  /\ Start \in Timestamp
           /\ reset_state => \E i \in Occupied(packets) : Start = packets[i].timestamp
<1>1. CASE reset_state
  <2>1. Occupied(packets) # {} /\ Occupied(packets) \subseteq 1..SPEEX_JITTER_MAX_BUFFER_SIZE
    BY <1>1, OccupiedFacts, Constants
  <2>2. Earliest(packets, Occupied(packets)) \in Occupied(packets)
    <3> DEFINE S == Occupied(packets)
               better == [j \in S |-> [i \in S |-> LT32(packets[j].timestamp, packets[i].timestamp)]]
    <3>1. Earliest(packets, S) = Keep(SPEEX_JITTER_MAX_BUFFER_SIZE, S, better)
      BY DEF Earliest, KeepSlot
    <3> HIDE DEF S, better
    <3>2. S # {} /\ S \subseteq 1..SPEEX_JITTER_MAX_BUFFER_SIZE
          /\ SPEEX_JITTER_MAX_BUFFER_SIZE \in Nat
      BY <2>1, Constants DEF S
    <3>3. Keep(SPEEX_JITTER_MAX_BUFFER_SIZE, S, better) \in S
      BY <3>2, KeepInSet
    <3> QED
      BY <3>1, <3>3 DEF S
  <2>3. Start = packets[Earliest(packets, Occupied(packets))].timestamp
    BY <1>1 DEF Start
  <2> QED
    BY <2>2, <2>3, OccupiedFacts
<1>2. CASE ~reset_state
  BY <1>2 DEF Start, Buffer
<1> QED
  BY <1>1, <1>2

\* How a packet that is played lies to what is to be played.
Spanning(p, stop) == LE32(p.timestamp, Start) /\ GE32(End(p), stop)
Partial(p)        == LE32(p.timestamp, Start) /\ GT32(End(p), Start)
Begins(p, stop)   == LT32(p.timestamp, stop) /\ GE32(p.timestamp, Start)

LEMMA FittingFacts ==
    ASSUME Buffer, NEW desired \in Int, NEW i \in Fitting(desired)
    PROVE  /\ i \in Occupied(packets)
           /\ \/ Spanning(packets[i], Plus(Start, desired))
              \/ Partial(packets[i])
              \/ Begins(packets[i], Plus(Start, desired))
<1> DEFINE stop == Plus(Start, desired)
           began == {j \in Occupied(packets) : LE32(packets[j].timestamp, Start)}
           spanning == {j \in began : GE32(End(packets[j]), stop)}
           exact == {j \in spanning : packets[j].timestamp = Start}
           partial == {j \in began : GT32(End(packets[j]), Start)}
           begins == {j \in Occupied(packets) : /\ LT32(packets[j].timestamp, stop)
                                                /\ GE32(packets[j].timestamp, Start)}
           lowest(S) == CHOOSE j \in S : \A l \in S : j <= l
<1>1. \A S \in SUBSET Occupied(packets) : S # {} => lowest(S) \in S
  <2> TAKE S \in SUBSET Occupied(packets)
  <2> HAVE S # {}
  <2>1. S \subseteq Nat
    BY OccupiedFacts, Constants
  <2>2. \E j \in S : \A l \in S : j <= l
    BY <2>1, Least
  <2> QED
    BY <2>2
<1>2. \/ exact # {} /\ i = lowest(exact)
      \/ spanning # {} /\ i = lowest(spanning)
      \/ partial # {} /\ i = lowest(partial)
      \/ begins # {} /\ \E better : i = KeepSlot(begins, better)
  BY DEF Fitting
<1>3. exact \in SUBSET Occupied(packets) /\ spanning \in SUBSET Occupied(packets)
      /\ partial \in SUBSET Occupied(packets) /\ exact \subseteq spanning
      /\ begins \subseteq Occupied(packets)
  OBVIOUS
<1>4. ASSUME begins # {}, NEW better PROVE KeepSlot(begins, better) \in begins
  <2>1. begins \subseteq 1..SPEEX_JITTER_MAX_BUFFER_SIZE /\ SPEEX_JITTER_MAX_BUFFER_SIZE \in Nat
    BY OccupiedFacts, Constants
  <2> HIDE DEF begins
  <2> QED
    BY <1>4, <2>1, KeepInSet DEF KeepSlot
<1> HIDE DEF lowest
<1>5. i \in spanning \/ i \in partial \/ i \in begins
  <2> HIDE DEF spanning, partial, begins, exact
  <2> QED
    BY <1>1, <1>2, <1>3, <1>4
<1> QED
  BY <1>5 DEF Spanning, Partial, Begins

LEMMA PutTypes ==
    ASSUME Buffer, NEW timestamp \in Timestamp, NEW span \in Spans \union {Span},
           jitter_buffer_put(timestamp, span)
    PROVE  Buffer'
<1> DEFINE new == [timestamp |-> timestamp, span |-> span, arrival |-> 0]
<1>1. CASE PutResync(timestamp, span)
  <2>1. new \in Packet /\ 0 \in Timestamp /\ 0 \in Int /\ 0 \in 0..(MAX_LOST + 1)
    BY Constants DEF Packet
  <2> QED
    BY <1>1, <2>1, NoneFits DEF PutResync, Buffer
<1>2. CASE PutNormal(timestamp, span)
  <2>1. TSUB(timestamp, next_stop) - buffer_margin \in Int
    <3>1. timestamp \in Int /\ next_stop \in Int /\ buffer_margin \in Int /\ H \in Int
      BY Constants, Halves DEF Buffer
    <3>2. TSUB(timestamp, next_stop) \in Int
      BY <3>1, TsubIs
    <3> QED
      BY <3>1, <3>2
  <2>2. Fits(timeBuffers, Int)'
    BY <1>2, <2>1, UpdateFits DEF PutNormal, Buffer, Fits
  <2>3. Cleaned \in [Slot -> {NoPacket} \union Packet]
    BY DEF Cleaned, Buffer
  <2> DEFINE arrived == [timestamp |-> timestamp, span |-> span,
                arrival |-> IF reset_state \/ Late(timestamp) THEN 0 ELSE next_stop]
  <2>4. arrived \in Packet
    BY Constants DEF Packet, Buffer
  <2>5. packets' \in [Slot -> {NoPacket} \union Packet]
    <3>1. packets' = [Cleaned EXCEPT ![SlotFor(Cleaned)] = arrived] \/ packets' = Cleaned
      BY <1>2 DEF PutNormal
    <3> HIDE DEF arrived
    <3> QED
      BY <2>3, <2>4, <3>1
  <2> QED
    BY <1>2, <2>2, <2>5 DEF PutNormal, Buffer, timeline
<1> QED
  BY <1>1, <1>2 DEF jitter_buffer_put

LEMMA SyncedTypes ==
    ASSUME Buffer, Synced
    PROVE  /\ Start \in Timestamp /\ next_stop' \in Timestamp
           /\ reset_state' = FALSE /\ auto_adjust' \in BOOLEAN
<1>1. Start \in Timestamp
  BY StartType DEF Synced
<1> QED
  BY <1>1 DEF Synced, Buffer

LEMMA DeferredTypes ==
    ASSUME Buffer, GetDeferred(Span)
    PROVE  Buffer'
<1>1. /\ Start \in Timestamp /\ next_stop' \in Timestamp
      /\ reset_state' = FALSE /\ auto_adjust' \in BOOLEAN
  BY SyncedTypes DEF GetDeferred
<1>2. Plus(Start, interp_requested) \in Timestamp
  BY <1>1, PlusIs, Constants DEF Buffer
<1>3. interp_requested - Span \in Int
  BY Constants DEF Buffer
<1> QED
  BY <1>1, <1>2, <1>3 DEF GetDeferred, Buffer

LEMMA PacketTypes ==
    ASSUME Buffer, GetPacket(Span)
    PROVE  Buffer'
<1>1. /\ Start \in Timestamp /\ next_stop' \in Timestamp
      /\ reset_state' = FALSE /\ auto_adjust' \in BOOLEAN
  BY SyncedTypes DEF GetPacket
<1>2. PICK i \in Fitting(Span) :
        LET p == packets[i] IN
        /\ lost_count' = 0
        /\ timeBuffers' =
             IF p.arrival = 0 THEN timeBuffers
             ELSE update_timings(timeBuffers, TSUB(p.timestamp, p.arrival) - buffer_margin)
        /\ packets' = [packets EXCEPT ![i] = NoPacket]
        /\ last_returned_timestamp' = p.timestamp
        /\ pointer_timestamp' = End(p)
        /\ buffered' = p.span - Span + TSUB(p.timestamp, Start)
  BY DEF GetPacket
<1> DEFINE p == packets[i]
<1>3. /\ p.timestamp \in Timestamp /\ p.timestamp \in Int
      /\ p.span \in Nat \ {0} /\ p.arrival \in Timestamp
  <2>1. i \in Occupied(packets)
    BY FittingFacts, Constants
  <2> QED
    BY <2>1, OccupiedFacts
<1>4. p.arrival \in Int /\ Start \in Int /\ buffer_margin \in Int /\ Span \in Int /\ H \in Int
  <2>1. p.arrival \in Int /\ Start \in Int
    <3>1. Timestamp \subseteq Int
      BY Constants
    <3> QED
      BY <1>1, <1>3, <3>1
  <2>2. buffer_margin \in Int /\ Span \in Int /\ H \in Int
    BY Constants, Halves
  <2> QED
    BY <2>1, <2>2
<1>5. TSUB(p.timestamp, p.arrival) \in Int /\ TSUB(p.timestamp, Start) \in Int
      /\ End(p) \in Timestamp
  <2> DEFINE ts == p.timestamp
             from == p.arrival
             n == p.span
  <2>1. ts \in Int /\ from \in Int /\ n \in Int /\ Start \in Int /\ H \in Int
    BY <1>3, <1>4
  <2>2. End(p) = Plus(ts, n)
    BY DEF End
  <2> HIDE DEF ts, from, n, p
  <2>3. TSUB(ts, from) \in (-H)..(H - 1) /\ TSUB(ts, Start) \in (-H)..(H - 1)
    BY <2>1, TsubIs
  <2>4. Plus(ts, n) \in Timestamp
    BY <2>1, PlusIs
  <2> QED
    BY <2>1, <2>2, <2>3, <2>4 DEF ts, from
<1>6. Fits(timeBuffers, Int)'
  <2>1. Fits(timeBuffers, Int) /\ TSUB(p.timestamp, p.arrival) - buffer_margin \in Int
    BY <1>4, <1>5 DEF Buffer
  <2>2. Fits(update_timings(timeBuffers, TSUB(p.timestamp, p.arrival) - buffer_margin), Int)
    BY <2>1, UpdateFits
  <2>3. Fits(timeBuffers', Int)
    BY <1>2, <2>1, <2>2
  <2> QED
    BY <2>3 DEF Fits
<1>7. packets' \in [Slot -> {NoPacket} \union Packet] /\ interp_requested' \in Nat
  BY <1>2 DEF Buffer, GetPacket
<1>8. buffered' \in Int
  BY <1>2, <1>3, <1>4, <1>5
<1>9. 0 \in 0..(MAX_LOST + 1)
  BY Constants
<1> QED
  BY <1>1, <1>2, <1>3, <1>5, <1>6, <1>7, <1>8, <1>9 DEF Buffer

LEMMA LostTypes ==
    ASSUME Buffer, Lost(Span)
    PROVE  /\ packets' \in [Slot -> {NoPacket} \union Packet]
           /\ Start \in Timestamp /\ next_stop' \in Timestamp
           /\ last_returned_timestamp' \in Timestamp
           /\ interp_requested' \in Nat
           /\ lost_count' \in 0..(MAX_LOST + 1)
           /\ reset_state' \in BOOLEAN /\ auto_adjust' \in BOOLEAN
<1>1. /\ Start \in Timestamp /\ next_stop' \in Timestamp
      /\ reset_state' = FALSE /\ auto_adjust' \in BOOLEAN
  BY SyncedTypes DEF Lost
<1>2. lost_count' \in 0..(MAX_LOST + 1)
  BY Constants DEF Buffer, Lost
<1> QED
  BY <1>1, <1>2 DEF Buffer, Lost

LEMMA InsertionTypes ==
    ASSUME Buffer, GetInsertion(Span)
    PROVE  Buffer'
<1> DEFINE opt == compute_opt_delay
<1>1. opt \in Int
  BY BufferWindows, OptFacts
<1>2. -opt - Span \in Int /\ -opt \in Int
  BY <1>1, Constants
<1>3. Fits(timeBuffers, Int)'
  <2>1. Fits(shift_timings(timeBuffers, -opt), Int)
    BY <1>2, ShiftFits DEF Buffer
  <2> QED
    BY <2>1 DEF GetInsertion, Fits
<1> QED
  BY <1>2, <1>3, LostTypes DEF GetInsertion, Buffer

LEMMA MissingTypes ==
    ASSUME Buffer, GetMissing(Span)
    PROVE  Buffer'
<1> DEFINE span == ROUND_DOWN(Span, concealment_size)
<1>1. span \in Int
  BY RoundDown, Constants
<1>2. Start \in Int
  BY LostTypes, Constants DEF GetMissing
<1>3. Plus(Start, span) \in Timestamp
  BY <1>1, <1>2, PlusIs
<1> QED
  BY <1>3, LostTypes DEF GetMissing, Buffer, Fits

LEMMA GetTypes ==
    ASSUME Buffer, jitter_buffer_get(Span)
    PROVE  Buffer'
<1>1. CASE GetBeforeSync
  BY <1>1 DEF GetBeforeSync, Buffer, timeline, delays, Fits
<1> QED
  BY <1>1, DeferredTypes, PacketTypes, InsertionTypes, MissingTypes DEF jitter_buffer_get

LEMMA AnotherTypes ==
    ASSUME Buffer, jitter_buffer_get_another
    PROVE  Buffer'
<1>1. packets' \in [Slot -> {NoPacket} \union Packet]
  BY DEF jitter_buffer_get_another, Buffer
<1> QED
  BY <1>1 DEF jitter_buffer_get_another, Buffer, timeline, delays, Fits

\* What an adjustment of the delay leaves, besides next_stop and buffered.
LEMMA DelayTypes ==
    ASSUME Buffer, NEW adjust \in BOOLEAN, NEW opt \in Int, update_delay(adjust, opt)
    PROVE  /\ packets' \in [Slot -> {NoPacket} \union Packet]
           /\ pointer_timestamp' \in Timestamp /\ last_returned_timestamp' \in Timestamp
           /\ interp_requested' \in Nat
           /\ Fits(timeBuffers, Int)'
           /\ lost_count' \in 0..(MAX_LOST + 1)
           /\ reset_state' \in BOOLEAN
<1>1. Plus(pointer_timestamp, opt) \in Timestamp
  BY PlusIs, Constants DEF Buffer
<1>2. -opt \in Int /\ (opt < 0 => -opt \in Nat)
  OBVIOUS
<1>3. Fits(timeBuffers, Int)'
  <2>1. Fits(timeBuffers', Int)
    BY <1>2, ShiftFits DEF Buffer, update_delay
  <2> QED
    BY <2>1 DEF Fits
<1> QED
  BY <1>1, <1>2, <1>3 DEF Buffer, update_delay

LEMMA AdjustmentFacts ==
    ASSUME Buffer, NEW adjust \in BOOLEAN
    PROVE  /\ Adjustment(adjust) \in Int
           /\ Adjustment(adjust) \in (-TIMING_LIMIT - 1)..TIMING_LIMIT
BY BufferWindows, OptFacts, Sizes DEF Adjustment

LEMMA UpdateDelayTypes ==
    ASSUME Buffer, jitter_buffer_update_delay
    PROVE  Buffer'
<1>1. compute_opt_delay \in Int
  BY BufferWindows, OptFacts
<1> QED
  BY <1>1, DelayTypes DEF jitter_buffer_update_delay, Buffer

LEMMA TickTypes ==
    ASSUME Buffer, jitter_buffer_tick
    PROVE  Buffer'
<1>1. auto_adjust \in BOOLEAN /\ Adjustment(auto_adjust) \in Int
  BY AdjustmentFacts DEF Buffer
<1>2. pointer_timestamp' \in Timestamp /\ pointer_timestamp' \in Int
  BY <1>1, DelayTypes, Constants DEF jitter_buffer_tick
<1>3. next_stop' \in Timestamp
  <2>1. -buffered \in Int
    BY DEF Buffer
  <2>2. Plus(pointer_timestamp', -buffered) \in Timestamp
    BY <1>2, <2>1, PlusIs
  <2> QED
    BY <1>2, <2>2 DEF jitter_buffer_tick
<1> QED
  BY <1>1, <1>3, DelayTypes DEF jitter_buffer_tick, Buffer

LEMMA RemainingSpanTypes ==
    ASSUME Buffer, NEW rem \in Int, jitter_buffer_remaining_span(rem)
    PROVE  Buffer'
<1>1. auto_adjust \in BOOLEAN /\ Adjustment(auto_adjust) \in Int
  BY AdjustmentFacts DEF Buffer
<1>2. pointer_timestamp' \in Timestamp /\ pointer_timestamp' \in Int
  BY <1>1, DelayTypes, Constants DEF jitter_buffer_remaining_span
<1>3. next_stop' \in Timestamp
  <2>1. -rem \in Int
    OBVIOUS
  <2> QED
    BY <1>2, <2>1, PlusIs DEF jitter_buffer_remaining_span
<1> QED
  BY <1>1, <1>3, DelayTypes DEF jitter_buffer_remaining_span, Buffer

LEMMA ResetTypes ==
    ASSUME Buffer, jitter_buffer_reset
    PROVE  Buffer'
BY Constants, NoneFits DEF jitter_buffer_reset, Buffer, Fits

\* Timestamps stay in their range, the sub-windows in their sizes.
THEOREM TypeCorrect == Spec => []TypeOK
<1>1. Init => TypeOK
  <2> SUFFICES ASSUME Init PROVE TypeOK
    OBVIOUS
  <2>1. Buffer
    <3>1. Fits(timeBuffers, Int)
      BY NoneFits DEF Init, JitterInit
    <3> QED
      BY <3>1, Constants DEF Init, JitterInit, Buffer
  <2>2. wild \in 0..Wild
    BY JitterLinkAssumption DEF Init
  <2>3. sender \in Timestamp /\ heard \in Timestamp /\ steady \in BOOLEAN /\ player = "get"
    BY Constants DEF Init
  <2> QED
    BY <2>1, <2>2, <2>3, TypeParts
<1>2. TypeOK /\ [Next]_vars => TypeOK'
  <2> SUFFICES ASSUME TypeOK, [Next]_vars PROVE TypeOK'
    OBVIOUS
  <2>1. /\ Buffer /\ sender \in Timestamp /\ heard \in Timestamp /\ steady \in BOOLEAN
        /\ wild \in 0..Wild
        /\ player \in {"receive", "get", "tick", "adjusted"}
    BY TypeParts
  <2>2. ASSUME Buffer', sender' \in Timestamp, heard' \in Timestamp, steady' \in BOOLEAN,
               wild' \in 0..Wild,
               player' \in {"receive", "get", "tick", "adjusted"}
        PROVE  TypeOK'
    BY <2>2 DEF TypeOK, Buffer, Fits, Packet
  <2>3. CASE Arrive
    <3>1. PICK timestamp \in Timestamp, span \in Spans : jitter_buffer_put(timestamp, span)
      BY <2>3, JitterLinkAssumption DEF Arrive
    <3>2. Buffer'
      BY <2>1, <3>1, PutTypes
    <3>3. wild' \in 0..Wild
      BY <2>1, <2>3, JitterLinkAssumption DEF Arrive
    <3> QED
      BY <2>1, <2>2, <2>3, <3>2, <3>3 DEF Arrive
  <2>4. CASE Settle
    <3>1. Buffer'
      BY <2>1, <2>4 DEF Settle, jitterVars, timeline, delays, Buffer, Fits
    <3> QED
      BY <2>1, <2>2, <2>4, <3>1 DEF Settle
  <2>5. CASE ArriveRegular
    <3>1. Buffer'
      BY <2>1, <2>5, PutTypes DEF ArriveRegular
    <3>2. sender \in Int /\ Plus(sender, Span) \in Timestamp
      <4>1. sender \in Int /\ Span \in Int
        BY <2>1, Constants
      <4> QED
        BY <4>1, PlusIs
    <3> QED
      BY <2>1, <2>2, <2>5, <3>1, <3>2 DEF ArriveRegular
  <2>6. CASE Get
    <3>1. Buffer'
      BY <2>1, <2>6, GetTypes DEF Get
    <3>2. heard' \in Timestamp
      BY <2>6, <3>1 DEF Get, Buffer
    <3> QED
      BY <2>1, <2>2, <2>6, <3>1, <3>2 DEF Get
  <2>7. CASE GetAnother
    BY <2>1, <2>2, <2>7, AnotherTypes DEF GetAnother, linkVars
  <2>8. CASE Adjust
    BY <2>1, <2>2, <2>8, UpdateDelayTypes DEF Adjust
  <2>9. CASE Tick
    BY <2>1, <2>2, <2>9, TickTypes DEF Tick
  <2>10. CASE RemainingSpan
    <3>1. PICK rem \in 1..Span : jitter_buffer_remaining_span(rem)
      BY <2>10 DEF RemainingSpan
    <3>2. rem \in Int
      BY Constants
    <3>3. Buffer'
      BY <2>1, <3>1, <3>2, RemainingSpanTypes
    <3> QED
      BY <2>1, <2>2, <2>10, <3>3 DEF RemainingSpan
  <2>11. CASE Reset
    BY <2>1, <2>2, <2>11, ResetTypes DEF Reset, linkVars
  <2>12. CASE UNCHANGED vars
    BY <2>12 DEF TypeOK, vars, jitterVars, linkVars, timeline, delays
  <2> QED
    BY <2>3, <2>4, <2>5, <2>6, <2>7, <2>8, <2>9, <2>10, <2>11, <2>12 DEF Next
<1> QED
  BY <1>1, <1>2, PTL DEF Spec

----------------------------------------------------------------------------
(* What is played.                                                          *)

\* A packet that is played ends after the point of playback, by at most its
\* span and what the player asks for.
LEMMA PlayedEnds ==
    ASSUME Buffer, Start \in Timestamp, NEW i \in Fitting(Span),
           packets[i].span >= Span, packets[i].span + Span <= H
    PROVE  LET p == packets[i]
               ahead == TSUB(p.timestamp, Start) + p.span
           IN  /\ TSUB(End(p), Start) = ahead
               /\ ahead \in 1..(p.span + Span - 1)
<1> DEFINE p == packets[i]
           a == TSUB(p.timestamp, Start)
           n == p.span
           stop == Plus(Start, Span)
<1>1. /\ i \in Occupied(packets)
      /\ Spanning(p, stop) \/ Partial(p) \/ Begins(p, stop)
  BY FittingFacts, Constants
<1>2. p.timestamp \in Int /\ n \in Nat \ {0}
  BY <1>1, OccupiedFacts
<1>3. /\ Start \in Int /\ Span \in Nat \ {0} /\ H \in Nat \ {0}
      /\ n >= Span /\ n + Span <= H
  BY Constants, Halves
<1>4. a \in (-H)..(H - 1)
  BY <1>2, <1>3, TsubIs
<1>5. End(p) = Plus(p.timestamp, n) /\ End(p) \in Int /\ stop \in Int
  <2> DEFINE ts == p.timestamp
  <2>1. End(p) = Plus(ts, n) /\ ts \in Int /\ n \in Int /\ Start \in Int /\ Span \in Int
    BY <1>2, <1>3 DEF End
  <2> HIDE DEF p, n, ts
  <2>2. Plus(ts, n) \in Int /\ Plus(Start, Span) \in Int
    BY <2>1, PlusIs
  <2> QED
    BY <2>1, <2>2 DEF ts
<1>6. a <= Span - 1 => TSUB(End(p), Start) = a + n
  <2> SUFFICES ASSUME a <= Span - 1 PROVE TSUB(End(p), Start) = a + n
    OBVIOUS
  <2>1. a + n \in (-H)..(H - 1)
    BY <1>2, <1>3, <1>4
  <2> HIDE DEF p, n
  <2>2. TSUB(Plus(p.timestamp, n), Start) = TSUB(p.timestamp, Start) + n
    BY <1>2, <1>3, <2>1, Ahead
  <2> QED
    BY <1>5, <2>2
<1>7. a \in (1 - n)..(Span - 1)
  <2>1. CASE Spanning(p, stop)
    <3>1. a <= 0 /\ TSUB(End(p), stop) >= 0
      BY <2>1 DEF Spanning, LE32, GE32
    <3>2. TSUB(End(p), Start) = a + n
      BY <1>3, <1>4, <1>6, <3>1
    <3>3. TSUB(End(p), Start) - Span \in (-H)..(H - 1)
      BY <1>2, <1>3, <1>4, <3>1, <3>2
    <3>4. TSUB(End(p), stop) = TSUB(End(p), Start) - Span
      BY <1>3, <1>5, <3>3, Behind
    <3> HIDE DEF p, n, a, stop
    <3> QED
      BY <1>2, <1>3, <1>4, <3>1, <3>2, <3>4
  <2>2. CASE Partial(p)
    <3>1. a <= 0 /\ TSUB(End(p), Start) > 0
      BY <2>2 DEF Partial, LE32, GT32
    <3>2. TSUB(End(p), Start) = a + n
      BY <1>3, <1>4, <1>6, <3>1
    <3> HIDE DEF p, n, a, stop
    <3> QED
      BY <1>2, <1>3, <1>4, <3>1, <3>2
  <2>3. CASE Begins(p, stop)
    <3>1. a >= 0 /\ TSUB(p.timestamp, stop) < 0
      BY <2>3 DEF Begins, LT32, GE32
    <3>2. TSUB(p.timestamp, Start) - Span \in (-H)..(H - 1)
      BY <1>2, <1>3, <1>4, <3>1
    <3>3. TSUB(p.timestamp, stop) = a - Span
      BY <1>2, <1>3, <3>2, Behind
    <3> HIDE DEF p, n, a, stop
    <3> QED
      BY <1>2, <1>3, <1>4, <3>1, <3>3
  <2> QED
    BY <1>1, <2>1, <2>2, <2>3
<1>8. TSUB(End(p), Start) = a + n /\ a + n \in 1..(n + Span - 1)
  <2> HIDE DEF p, n, a, stop
  <2> QED
    BY <1>2, <1>3, <1>4, <1>6, <1>7
<1> QED
  BY <1>8

----------------------------------------------------------------------------
(* Playback goes forward.                                                   *)

\* The sizes at which no difference of timestamps wraps: every packet is as
\* long as what the player asks for, or longer, and the delay, a packet and
\* what the player asks for fit in half of the range of timestamps.
NoWrap ==
  \A s \in Spans \union {Span} : Span <= s /\ s + Span + TIMING_LIMIT <= H

\* How far the pointer is from where the last get left it.
Lead == TSUB(pointer_timestamp, heard)

LEMMA ForwardInit == Init => ForwardInv
BY DEF Init, JitterInit, ForwardInv, OnTime

\* A get takes playback no further back than the last get left it.
LEMMA GetForward ==
    ASSUME NoWrap, TypeOK, ForwardInv, ~reset_state, jitter_buffer_get(Span)
    PROVE  GE32(pointer_timestamp', heard)
<1>1. Buffer /\ heard \in Timestamp /\ heard \in Int /\ Timestamp \subseteq Int
  BY TypeParts, Constants
<1>2. Start = pointer_timestamp /\ Start \in Timestamp /\ Start \in Int
  BY <1>1 DEF Start, Buffer
<1>3. H \in Nat /\ Span \in Nat \ {0} /\ TIMING_LIMIT \in Nat \ {0}
      /\ Span + Span + TIMING_LIMIT <= H
  BY Halves, Constants, Sizes DEF NoWrap
<1>4. interp_requested = 0 => Lead \in 0..TIMING_LIMIT
  BY DEF ForwardInv, OnTime, Lead
<1>5. CASE GetDeferred(Span)
  <2>1. pointer_timestamp' = heard
    BY <1>2, <1>5 DEF GetDeferred, ForwardInv, OnTime
  <2> QED
    BY <1>1, <2>1, SameTime DEF GE32
<1>6. CASE GetPacket(Span)
  <2>1. PICK i \in Fitting(Span) : pointer_timestamp' = End(packets[i])
    BY <1>6 DEF GetPacket
  <2> DEFINE p == packets[i]
             n == p.span
             ahead == TSUB(End(p), Start)
  <2>2. i \in Occupied(packets)
    BY <1>1, FittingFacts, Constants
  <2>3. p.timestamp \in Int /\ n \in Nat \ {0} /\ n \in Spans \union {Span}
    BY <1>1, <2>2, OccupiedFacts
  <2>4. n >= Span /\ n + Span + TIMING_LIMIT <= H
    BY <2>3 DEF NoWrap
  <2>5. ahead \in 1..(n + Span - 1)
    <3>1. n >= Span /\ n + Span <= H
      BY <1>3, <2>3, <2>4
    <3> QED
      BY <1>1, <1>2, <3>1, PlayedEnds
  <2>6. End(p) \in Int
    <3> DEFINE ts == p.timestamp
    <3>1. End(p) = Plus(ts, n) /\ ts \in Int /\ n \in Int
      BY <2>3 DEF End
    <3> HIDE DEF p, n, ts
    <3> QED
      BY <3>1, PlusIs
  <2>7. Lead \in 0..TIMING_LIMIT
    BY <1>4, <1>6 DEF GetPacket
  <2> HIDE DEF p, n, ahead
  <2>8. ahead + Lead \in 0..(H - 1)
    BY <1>3, <2>3, <2>4, <2>5, <2>7
  <2>9. TSUB(End(p), heard) = ahead + Lead
    <3>1. TSUB(End(p), Start) + TSUB(Start, heard) \in (-H)..(H - 1)
      BY <1>2, <1>3, <2>8 DEF ahead, Lead
    <3> QED
      BY <1>1, <1>2, <2>6, <3>1, Through DEF ahead, Lead
  <2> QED
    BY <2>1, <2>8, <2>9 DEF GE32, p
<1>7. CASE GetInsertion(Span)
  <2>1. pointer_timestamp' = pointer_timestamp /\ Lead >= 0
    BY <1>2, <1>3, <1>4, <1>7 DEF GetInsertion, Lost
  <2> QED
    BY <2>1 DEF GE32, Lead
<1>8. CASE GetMissing(Span)
  <2> DEFINE n == ROUND_DOWN(Span, concealment_size)
  <2>1. n \in Int /\ n >= 0 /\ n <= Span
    <3>1. Span \in Int /\ Span >= 0 /\ concealment_size \in Nat \ {0}
      BY <1>3, Sizes
    <3> QED
      BY <3>1, RoundDown
  <2>2. pointer_timestamp' = Plus(pointer_timestamp, n) /\ Lead \in 0..TIMING_LIMIT
    BY <1>2, <1>4, <1>8 DEF GetMissing, Lost
  <2> HIDE DEF n
  <2>3. Lead + n \in 0..(H - 1)
    BY <1>3, <2>1, <2>2
  <2>4. TSUB(Plus(pointer_timestamp, n), heard) = Lead + n
    <3>1. TSUB(pointer_timestamp, heard) + n \in (-H)..(H - 1)
      BY <1>3, <2>3 DEF Lead
    <3> QED
      BY <1>1, <1>2, <2>1, <3>1, Ahead DEF Lead
  <2> QED
    BY <2>2, <2>3, <2>4 DEF GE32
<1> QED
  BY <1>5, <1>6, <1>7, <1>8 DEF jitter_buffer_get, GetBeforeSync

\* An adjustment from where a get left the pointer moves it ahead, or back by
\* what is then requested.
LEMMA AdjustForward ==
    ASSUME NoWrap, TypeOK, interp_requested = 0, pointer_timestamp = heard,
           NEW adjust \in BOOLEAN, update_delay(adjust, Adjustment(adjust)), heard' = heard
    PROVE  IF interp_requested' = 0 THEN TSUB(pointer_timestamp', heard') \in 0..TIMING_LIMIT
           ELSE Plus(pointer_timestamp', interp_requested') = heard'
<1> DEFINE opt == Adjustment(adjust)
<1>1. heard \in Timestamp /\ heard \in Int /\ Buffer
  BY TypeParts, Constants
<1>2. opt \in Int /\ opt <= TIMING_LIMIT
  BY <1>1, AdjustmentFacts, Sizes
<1>3. H \in Nat /\ TIMING_LIMIT \in Nat \ {0} /\ TIMING_LIMIT < H
  <2>1. H \in Nat /\ TIMING_LIMIT \in Nat \ {0} /\ Span \in Nat \ {0}
    BY Halves, Constants, Sizes
  <2>2. Span + Span + TIMING_LIMIT <= H
    BY DEF NoWrap
  <2> QED
    BY <2>1, <2>2
<1>4. /\ pointer_timestamp' = Plus(heard, opt)
      /\ interp_requested' = IF opt < 0 THEN -opt ELSE interp_requested
  BY DEF update_delay
<1> HIDE DEF opt
<1>5. CASE opt < 0
  <2>1. Plus(Plus(heard, opt), -opt) = heard
    BY <1>1, <1>2, BackAgain
  <2>2. interp_requested' = -opt /\ -opt # 0
    BY <1>2, <1>4, <1>5
  <2> QED
    BY <1>4, <2>1, <2>2
<1>6. CASE ~(opt < 0)
  <2>1. TSUB(heard, heard) = 0
    BY <1>1, SameTime
  <2>2. TSUB(heard, heard) + opt \in (-H)..(H - 1) /\ opt \in 0..TIMING_LIMIT
    BY <1>2, <1>3, <1>6, <2>1
  <2>3. TSUB(Plus(heard, opt), heard) = opt
    BY <1>1, <1>2, <2>1, <2>2, Ahead
  <2> QED
    BY <1>4, <1>6, <2>2, <2>3
<1> QED
  BY <1>5, <1>6

LEMMA ForwardStep ==
    ASSUME NoWrap, TypeOK, ForwardInv, [Next]_vars
    PROVE  ForwardInv'
<1>1. /\ Buffer /\ heard \in Timestamp
      /\ player \in {"receive", "get", "tick", "adjusted"}
  BY TypeParts
<1>2. ASSUME NEW timestamp, NEW span, jitter_buffer_put(timestamp, span),
             player' \in {player, "get"}, heard' = heard
      PROVE  ForwardInv'
  <2>1. CASE PutResync(timestamp, span)
    BY <1>2, <2>1 DEF PutResync, ForwardInv, OnTime
  <2>2. CASE PutNormal(timestamp, span)
    BY <1>2, <2>2 DEF PutNormal, ForwardInv, OnTime, timeline
  <2> QED
    BY <1>2, <2>1, <2>2 DEF jitter_buffer_put
<1>3. CASE Arrive \/ ArriveRegular
  BY <1>2, <1>3 DEF Arrive, ArriveRegular
<1>4. CASE Settle
  BY <1>4 DEF Settle, jitterVars, timeline, delays, ForwardInv, OnTime
<1>5. CASE Get
  <2>1. heard' = pointer_timestamp' /\ player' = "tick" /\ jitter_buffer_get(Span)
    BY <1>5 DEF Get
  <2>2. reset_state' \/ interp_requested' = 0
    BY <2>1 DEF jitter_buffer_get, GetBeforeSync, GetDeferred, GetPacket, GetInsertion,
         GetMissing, Lost
  <2>3. pointer_timestamp' \in Timestamp
    BY <1>1, <2>1, GetTypes DEF Buffer
  <2>4. TSUB(pointer_timestamp', heard') = 0 /\ 0 \in 0..TIMING_LIMIT
    BY <2>1, <2>3, SameTime, Sizes
  <2> QED
    BY <2>1, <2>2, <2>4 DEF ForwardInv, OnTime
<1>6. CASE GetAnother
  BY <1>6 DEF GetAnother, linkVars, jitter_buffer_get_another, timeline, delays,
       ForwardInv, OnTime
<1>7. CASE Adjust
  <2>1. CASE reset_state
    BY <1>7, <2>1 DEF Adjust, jitter_buffer_update_delay, update_delay, ForwardInv, OnTime
  <2>2. CASE ~reset_state
    <3>1. interp_requested = 0 /\ pointer_timestamp = heard
      BY <1>7, <2>2 DEF Adjust, ForwardInv, OnTime
    <3>2. Adjustment(TRUE) = compute_opt_delay
      BY DEF Adjustment
    <3>3. update_delay(TRUE, Adjustment(TRUE)) /\ heard' = heard
      BY <1>7, <3>2 DEF Adjust, jitter_buffer_update_delay
    <3>4. player' = "adjusted" /\ auto_adjust' = FALSE
      BY <1>7 DEF Adjust, jitter_buffer_update_delay
    <3> QED
      BY <3>1, <3>3, <3>4, AdjustForward DEF ForwardInv, OnTime
  <2> QED
    BY <1>1, <2>1, <2>2 DEF Buffer
<1>8. ASSUME update_delay(auto_adjust, Adjustment(auto_adjust)), heard' = heard,
             player \in {"tick", "adjusted"}, player' \in {"receive", "get"}
      PROVE  ForwardInv'
  <2>1. CASE reset_state
    BY <1>8, <2>1 DEF update_delay, ForwardInv, OnTime
  <2>2. CASE ~reset_state /\ player = "tick"
    <3>1. interp_requested = 0 /\ pointer_timestamp = heard /\ auto_adjust \in BOOLEAN
      BY <1>1, <2>2 DEF ForwardInv, OnTime, Buffer
    <3> QED
      BY <1>8, <3>1, AdjustForward DEF ForwardInv, OnTime
  <2>3. CASE ~reset_state /\ player = "adjusted"
    <3>1. Adjustment(auto_adjust) = 0
      BY <2>3 DEF ForwardInv, Adjustment
    <3>2. pointer_timestamp' = pointer_timestamp /\ interp_requested' = interp_requested
      BY <1>1, <1>8, <3>1, SameTime DEF update_delay, Buffer
    <3> QED
      BY <1>8, <2>3, <3>2 DEF ForwardInv, OnTime, update_delay
  <2> QED
    BY <1>1, <1>8, <2>1, <2>2, <2>3 DEF Buffer
<1>9. CASE Tick
  BY <1>8, <1>9 DEF Tick, jitter_buffer_tick
<1>10. CASE RemainingSpan
  BY <1>8, <1>10 DEF RemainingSpan, jitter_buffer_remaining_span
<1>11. CASE Reset
  BY <1>11 DEF Reset, linkVars, jitter_buffer_reset, ForwardInv, OnTime
<1>12. CASE UNCHANGED vars
  BY <1>12 DEF vars, linkVars, jitterVars, timeline, delays, ForwardInv, OnTime
<1> QED
  BY <1>3, <1>4, <1>5, <1>6, <1>7, <1>9, <1>10, <1>11, <1>12 DEF Next

\* However timestamps wrap, a get after a sync takes playback no further back
\* than the last get left it.
THEOREM NeverBackwards ==
    ASSUME NoWrap
    PROVE  Spec => PlaybackGoesForward
<1>1. TypeOK /\ ForwardInv /\ [Next]_vars => ForwardInv'
  BY ForwardStep
<1>2. TypeOK /\ ForwardInv /\ [Next]_vars
        => [Gets /\ ~reset_state => GE32(pointer_timestamp', heard)]_vars
  <2> SUFFICES ASSUME TypeOK, ForwardInv, [Next]_vars, Gets, ~reset_state, ~UNCHANGED vars
               PROVE  GE32(pointer_timestamp', heard)
    OBVIOUS
  <2>1. Get
    BY DEF Next, Gets, Arrive, Settle, ArriveRegular, GetAnother, Adjust, Tick,
         RemainingSpan, Reset, linkVars
  <2> QED
    BY <2>1, GetForward DEF Get
<1> QED
  BY <1>1, <1>2, ForwardInit, TypeCorrect, PTL DEF Spec, PlaybackGoesForward

----------------------------------------------------------------------------
(* Deadlines.                                                               *)

\* A quarter of the range of timestamps, and the sizes at which what is
\* buffered and what a get plays fit in it.
Q == H \div 2

Quarter ==
  \A s \in Spans \union {Span} : Span <= s /\ s + Span + TIMING_LIMIT <= Q

\* How far playback is past the deadline of the packets.
Past == TSUB(pointer_timestamp, next_stop)

\* What NeededIsNotLate needs: nothing is buffered, requested or played that
\* would take the deadline half of the range behind.
DeadlineInv ==
  /\ interp_requested <= TIMING_LIMIT + 1
  /\ buffered <= Q
  /\ ~reset_state /\ player \in {"get", "receive"} => Past \in 0..Q
  /\ ~reset_state /\ player = "tick" => Past \in 0..(H - 1)

LEMMA Quarters ==
    ASSUME Quarter
    PROVE  /\ Q \in Nat /\ H \in Nat \ {0} /\ Q + Q <= H
           /\ TIMING_LIMIT \in Nat \ {0} /\ Span \in Nat \ {0}
           /\ \A s \in Spans \union {Span} :
                s \in Nat \ {0} /\ Span <= s /\ s + Span + TIMING_LIMIT <= Q
           /\ Span + Span + TIMING_LIMIT <= Q
BY Halves, Sizes, Constants DEF Quarter, Q

LEMMA DeadlineInit ==
    ASSUME Quarter
    PROVE  Init => DeadlineInv
BY Quarters DEF Init, JitterInit, DeadlineInv

\* A get takes playback past the deadline by less than half of the range, and
\* leaves less than a quarter of it to play.
LEMMA DeadlineGet ==
    ASSUME Quarter, TypeOK, DeadlineInv, player = "get", jitter_buffer_get(Span)
    PROVE  /\ interp_requested' <= TIMING_LIMIT + 1 /\ buffered' <= Q
           /\ ~reset_state' => Past' \in 0..(H - 1)
<1>1. Buffer /\ Timestamp \subseteq Int
  BY TypeParts, Constants
<1>2. /\ Q \in Nat /\ H \in Nat \ {0} /\ Q + Q <= H
      /\ TIMING_LIMIT \in Nat \ {0} /\ Span \in Nat \ {0}
      /\ Span + Span + TIMING_LIMIT <= Q
  BY Quarters
<1>3. interp_requested \in Nat /\ interp_requested <= TIMING_LIMIT + 1 /\ buffered <= Q
  BY <1>1 DEF DeadlineInv, Buffer
<1>4. ASSUME Synced, NEW d \in 0..(Q - 1), pointer_timestamp' \in Int,
             TSUB(pointer_timestamp', Start) = d
      PROVE  Past' \in 0..(H - 1)
  <2>1. Start \in Timestamp /\ Start \in Int /\ next_stop' \in Timestamp /\ next_stop' \in Int
    BY <1>1, <1>4, SyncedTypes
  <2>2. TSUB(Start, next_stop') \in 0..Q
    <3>1. CASE reset_state
      <4>1. next_stop' = Start
        BY <1>4, <3>1 DEF Synced
      <4>2. TSUB(Start, Start) = 0
        BY <2>1, SameTime
      <4> QED
        BY <1>2, <4>1, <4>2
    <3>2. CASE ~reset_state
      <4>1. Start = pointer_timestamp /\ next_stop' = next_stop
        BY <1>4, <3>2 DEF Synced, Start
      <4>2. Past \in 0..Q
        BY <3>2 DEF DeadlineInv
      <4> QED
        BY <4>1, <4>2 DEF Past
    <3> QED
      BY <1>1, <3>1, <3>2 DEF Buffer
  <2> DEFINE e == TSUB(Start, next_stop')
  <2>3. d + e \in 0..(H - 1) /\ d + e \in (-H)..(H - 1)
    BY <1>2, <2>2
  <2>4. TSUB(pointer_timestamp', next_stop') = d + e
    <3>1. TSUB(pointer_timestamp', Start) + TSUB(Start, next_stop') \in (-H)..(H - 1)
      BY <1>4, <2>3
    <3> HIDE DEF e
    <3>2. TSUB(pointer_timestamp', next_stop')
            = TSUB(pointer_timestamp', Start) + TSUB(Start, next_stop')
      BY <1>4, <2>1, <3>1, Through
    <3> QED
      BY <1>4, <3>2 DEF e
  <2> QED
    BY <2>3, <2>4 DEF Past
<1>5. ASSUME Start \in Timestamp, NEW n \in 0..(Q - 1),
             pointer_timestamp' = Plus(Start, n)
      PROVE  pointer_timestamp' \in Int /\ TSUB(pointer_timestamp', Start) = n
  <2>1. Start \in Int /\ n \in Int
    BY <1>1, <1>5
  <2>2. TSUB(Start, Start) = 0
    BY <1>5, SameTime
  <2>3. TSUB(Start, Start) + n \in (-H)..(H - 1)
    BY <1>2, <1>5, <2>2
  <2>4. TSUB(Plus(Start, n), Start) = TSUB(Start, Start) + n
    BY <2>1, <2>3, Ahead
  <2>5. Plus(Start, n) \in Int
    BY <2>1, PlusIs
  <2> QED
    BY <1>5, <2>2, <2>4, <2>5
<1>6. CASE GetBeforeSync
  BY <1>3, <1>6 DEF GetBeforeSync, delays
<1>7. CASE GetDeferred(Span)
  <2>1. /\ Synced /\ pointer_timestamp' = Plus(Start, interp_requested)
        /\ interp_requested' = 0 /\ buffered' = interp_requested - Span
    BY <1>7 DEF GetDeferred
  <2>2. interp_requested \in 0..(Q - 1)
    BY <1>2, <1>3
  <2>3. Start \in Timestamp
    BY <1>1, <2>1, SyncedTypes
  <2>4. pointer_timestamp' \in Int /\ TSUB(pointer_timestamp', Start) = interp_requested
    BY <1>5, <2>1, <2>2, <2>3
  <2>5. Past' \in 0..(H - 1)
    BY <1>4, <2>1, <2>2, <2>4
  <2> QED
    BY <1>2, <1>3, <2>1, <2>5
<1>8. CASE GetPacket(Span)
  <2>1. PICK i \in Fitting(Span) :
          /\ pointer_timestamp' = End(packets[i])
          /\ buffered' = packets[i].span - Span + TSUB(packets[i].timestamp, Start)
    BY <1>8 DEF GetPacket
  <2> DEFINE p == packets[i]
             n == p.span
             ahead == TSUB(End(p), Start)
  <2>2. Synced /\ interp_requested' = 0
    BY <1>8 DEF GetPacket
  <2>3. Start \in Timestamp
    BY <1>1, <2>2, SyncedTypes
  <2>4. i \in Occupied(packets)
    BY <1>1, FittingFacts, Constants
  <2>5. n \in Nat \ {0} /\ n \in Spans \union {Span}
    BY <1>1, <2>4, OccupiedFacts
  <2>6. n >= Span /\ n + Span + TIMING_LIMIT <= Q
    BY <2>5, Quarters
  <2>7. ahead \in 1..(n + Span - 1) /\ ahead = TSUB(p.timestamp, Start) + n
    <3>1. n >= Span /\ n + Span <= H
      <4> HIDE DEF p, n
      <4> QED
        BY <1>2, <2>5, <2>6
    <3> QED
      BY <1>1, <2>3, <3>1, PlayedEnds
  <2>8. pointer_timestamp' = End(p) /\ pointer_timestamp' \in Int
    <3>1. Buffer'
      BY <1>1, <1>8, PacketTypes
    <3> QED
      BY <1>1, <2>1, <3>1 DEF Buffer
  <2>9. TSUB(p.timestamp, Start) \in Int
    <3>1. p.timestamp \in Int /\ Start \in Int
      BY <1>1, <2>3, <2>4, OccupiedFacts
    <3> DEFINE ts == p.timestamp
    <3> HIDE DEF ts
    <3>2. TSUB(ts, Start) \in Int
      BY <3>1, TsubIs DEF ts
    <3> QED
      BY <3>2 DEF ts
  <2>10. buffered' = n - Span + TSUB(p.timestamp, Start)
    BY <2>1
  <2> HIDE DEF p, n, ahead
  <2>11. ahead \in 0..(Q - 1)
    BY <1>2, <2>5, <2>6, <2>7
  <2>12. Past' \in 0..(H - 1)
    <3>1. TSUB(pointer_timestamp', Start) = ahead
      BY <2>8 DEF ahead
    <3> QED
      BY <1>4, <2>2, <2>8, <2>11, <3>1
  <2>13. buffered' <= Q
    BY <1>2, <2>5, <2>6, <2>7, <2>9, <2>10
  <2> QED
    BY <1>2, <2>2, <2>12, <2>13
<1>9. CASE GetInsertion(Span)
  <2>1. Synced /\ pointer_timestamp' = Start /\ interp_requested' = interp_requested
        /\ buffered' = -compute_opt_delay - Span
    BY <1>9 DEF GetInsertion, Lost
  <2>2. compute_opt_delay \in Int /\ compute_opt_delay \in (-TIMING_LIMIT - 1)..TIMING_LIMIT
    BY <1>1, BufferWindows, OptFacts
  <2>3. Start \in Timestamp /\ Start \in Int
    BY <1>1, <2>1, SyncedTypes
  <2>4. TSUB(Start, Start) = 0 /\ 0 \in 0..(Q - 1)
    BY <1>2, <2>3, SameTime
  <2>5. Past' \in 0..(H - 1)
    BY <1>4, <2>1, <2>3, <2>4
  <2>6. buffered' <= Q
    BY <1>2, <2>1, <2>2
  <2> QED
    BY <1>3, <2>1, <2>5, <2>6
<1>10. CASE GetMissing(Span)
  <2> DEFINE n == ROUND_DOWN(Span, concealment_size)
  <2>1. Synced /\ pointer_timestamp' = Plus(Start, n) /\ interp_requested' = interp_requested
        /\ buffered' = 0
    BY <1>10 DEF GetMissing, Lost
  <2>2. n \in Int /\ n >= 0 /\ n <= Span
    <3>1. Span \in Int /\ Span >= 0 /\ concealment_size \in Nat \ {0}
      BY <1>2, Sizes
    <3> QED
      BY <3>1, RoundDown
  <2> HIDE DEF n
  <2>3. Start \in Timestamp
    BY <1>1, <2>1, SyncedTypes
  <2>4. n \in 0..(Q - 1)
    BY <1>2, <2>2
  <2>5. pointer_timestamp' \in Int /\ TSUB(pointer_timestamp', Start) = n
    BY <1>5, <2>1, <2>3, <2>4
  <2>6. Past' \in 0..(H - 1)
    BY <1>4, <2>1, <2>4, <2>5
  <2> QED
    BY <1>2, <1>3, <2>1, <2>6
<1> QED
  BY <1>6, <1>7, <1>8, <1>9, <1>10 DEF jitter_buffer_get

\* A deadline that is set n before the pointer is n behind it.
LEMMA DeadlineSet ==
    ASSUME Quarter, NEW pointer \in Timestamp, NEW n \in 0..Q
    PROVE  TSUB(pointer, Plus(pointer, -n)) = n
<1>1. pointer \in Int /\ -n \in Int /\ n \in Int
  BY Constants, Quarters
<1>2. TSUB(pointer, pointer) = 0
  BY SameTime
<1>3. TSUB(pointer, pointer) - (-n) \in (-H)..(H - 1)
  <2>1. Q \in Nat /\ H \in Nat /\ Q < H
    BY Quarters
  <2> QED
    BY <1>2, <2>1
<1>4. TSUB(pointer, Plus(pointer, -n)) = TSUB(pointer, pointer) - (-n)
  BY <1>1, <1>3, Behind
<1> QED
  BY <1>1, <1>2, <1>4

LEMMA DeadlineAdjust ==
    ASSUME TypeOK, DeadlineInv, NEW adjust \in BOOLEAN, update_delay(adjust, Adjustment(adjust))
    PROVE  interp_requested' <= TIMING_LIMIT + 1 /\ pointer_timestamp' \in Timestamp
<1>1. Buffer
  BY TypeParts
<1>2. /\ Adjustment(adjust) \in Int
      /\ Adjustment(adjust) \in (-TIMING_LIMIT - 1)..TIMING_LIMIT
      /\ TIMING_LIMIT \in Nat
  BY <1>1, AdjustmentFacts, Sizes
<1>3. pointer_timestamp' \in Timestamp
  BY <1>1, <1>2, DelayTypes
<1> DEFINE opt == Adjustment(adjust)
<1>4. interp_requested' = IF opt < 0 THEN -opt ELSE interp_requested
  BY DEF update_delay
<1>5. interp_requested <= TIMING_LIMIT + 1
  BY DEF DeadlineInv
<1> HIDE DEF opt
<1> QED
  BY <1>2, <1>3, <1>4, <1>5 DEF opt

LEMMA DeadlineStep ==
    ASSUME Quarter, TypeOK, DeadlineInv, [Next]_vars
    PROVE  DeadlineInv'
<1>1. /\ Buffer /\ player \in {"receive", "get", "tick", "adjusted"}
      /\ auto_adjust \in BOOLEAN /\ buffered \in Int /\ buffered <= Q
      /\ Q \in Nat /\ H \in Nat /\ Span \in Nat /\ Span <= Q /\ 0 <= Q
      /\ TIMING_LIMIT \in Nat
  BY TypeParts, Quarters DEF Buffer, DeadlineInv
<1>2. ASSUME NEW timestamp, NEW span, jitter_buffer_put(timestamp, span),
             player' = player \/ (player = "receive" /\ player' = "get")
      PROVE  DeadlineInv'
  <2>1. CASE PutResync(timestamp, span)
    BY <1>1, <2>1 DEF PutResync, DeadlineInv
  <2>2. CASE PutNormal(timestamp, span)
    BY <1>2, <2>2 DEF PutNormal, DeadlineInv, timeline, Past
  <2> QED
    BY <1>2, <2>1, <2>2 DEF jitter_buffer_put
<1>3. CASE Arrive \/ ArriveRegular
  BY <1>2, <1>3 DEF Arrive, ArriveRegular
<1>4. CASE Settle
  BY <1>4 DEF Settle, jitterVars, timeline, delays, DeadlineInv, Past
<1>5. CASE Get
  BY <1>5, DeadlineGet DEF Get, DeadlineInv
<1>6. CASE GetAnother
  BY <1>6 DEF GetAnother, linkVars, jitter_buffer_get_another, timeline, delays,
       DeadlineInv, Past
<1>7. CASE Adjust
  <2>1. update_delay(TRUE, Adjustment(TRUE))
    BY <1>7 DEF Adjust, jitter_buffer_update_delay, Adjustment
  <2>2. interp_requested' <= TIMING_LIMIT + 1
    BY <2>1, DeadlineAdjust
  <2> QED
    BY <1>1, <1>7, <2>2 DEF Adjust, jitter_buffer_update_delay, DeadlineInv
<1>8. ASSUME NEW n \in 0..Q, next_stop' = Plus(pointer_timestamp', -n), buffered' <= Q,
             update_delay(auto_adjust, Adjustment(auto_adjust)),
             player' \in {"receive", "get"}
      PROVE  DeadlineInv'
  <2>1. interp_requested' <= TIMING_LIMIT + 1 /\ pointer_timestamp' \in Timestamp
    BY <1>1, <1>8, DeadlineAdjust
  <2>2. TSUB(pointer_timestamp', next_stop') = n
    BY <1>8, <2>1, DeadlineSet
  <2> QED
    BY <1>8, <2>1, <2>2 DEF DeadlineInv, Past
<1>9. CASE Tick
  <2>1. /\ update_delay(auto_adjust, Adjustment(auto_adjust)) /\ buffered' = 0
        /\ player' \in {"receive", "get"}
        /\ next_stop' = IF buffered >= 0 THEN Plus(pointer_timestamp', -buffered)
                        ELSE pointer_timestamp'
    BY <1>9 DEF Tick, jitter_buffer_tick
  <2>2. CASE buffered >= 0
    <3>1. buffered \in 0..Q /\ next_stop' = Plus(pointer_timestamp', -buffered)
      BY <1>1, <2>1, <2>2
    <3> QED
      BY <1>1, <1>8, <2>1, <3>1
  <2>3. CASE ~(buffered >= 0)
    <3>1. pointer_timestamp' \in Timestamp
      BY <1>1, <2>1, DeadlineAdjust
    <3>2. 0 \in 0..Q /\ next_stop' = Plus(pointer_timestamp', -0)
      BY <1>1, <2>1, <2>3, <3>1, SameTime
    <3> QED
      BY <1>1, <1>8, <2>1, <3>2
  <2> QED
    BY <2>2, <2>3
<1>10. CASE RemainingSpan
  <2>1. PICK rem \in 1..Span : jitter_buffer_remaining_span(rem)
    BY <1>10 DEF RemainingSpan
  <2>2. /\ update_delay(auto_adjust, Adjustment(auto_adjust)) /\ buffered' = buffered
        /\ player' \in {"receive", "get"} /\ next_stop' = Plus(pointer_timestamp', -rem)
    BY <1>10, <2>1 DEF RemainingSpan, jitter_buffer_remaining_span
  <2>3. rem \in 0..Q
    BY <1>1
  <2> QED
    BY <1>1, <1>8, <2>2, <2>3
<1>11. CASE Reset
  BY <1>1, <1>11 DEF Reset, linkVars, jitter_buffer_reset, DeadlineInv
<1>12. CASE UNCHANGED vars
  BY <1>12 DEF vars, linkVars, jitterVars, timeline, delays, DeadlineInv, Past
<1> QED
  BY <1>3, <1>4, <1>5, <1>6, <1>7, <1>9, <1>10, <1>11, <1>12 DEF Next

\* If packets are at least as long as what the player asks for, and a packet,
\* a request and a delay fit in a quarter of the range of timestamps, then a
\* packet that begins where playback stands is late only between update_delay
\* and the tick, however much less than was asked for the gets have played.
THEOREM DeadlineBehind ==
    ASSUME Quarter
    PROVE  Spec => []NeededIsNotLate
<1>1. TypeOK /\ DeadlineInv /\ [Next]_vars => DeadlineInv'
  BY DeadlineStep
<1>2. TypeOK /\ DeadlineInv => NeededIsNotLate
  <2> SUFFICES ASSUME TypeOK, DeadlineInv, player # "adjusted", ~reset_state
               PROVE  ~LT32(pointer_timestamp, next_stop)
    BY DEF NeededIsNotLate, Late
  <2>1. Past \in 0..Q \/ Past \in 0..(H - 1)
    BY TypeParts DEF DeadlineInv
  <2>2. Q \in Int /\ H \in Int
    BY Quarters
  <2> QED
    BY <2>1, <2>2 DEF LT32, Past
<1> QED
  BY <1>1, <1>2, DeadlineInit, TypeCorrect, PTL DEF Spec

----------------------------------------------------------------------------
(* Over a steady network.                                                   *)

\* The delays cannot be adjusted when no timing is off.
AllZero(bufs) ==
  \A b \in 1..MAX_BUFFERS : \A i \in DOMAIN bufs[b].timing : bufs[b].timing[i] = 0

LEMMA ZeroFits ==
    ASSUME NEW bufs
    PROVE  Fits(bufs, {0}) <=> Fits(bufs, Int) /\ AllZero(bufs)
<1>1. ASSUME Fits(bufs, {0}) PROVE Fits(bufs, Int) /\ AllZero(bufs)
  <2>1. ASSUME NEW b \in 1..MAX_BUFFERS
        PROVE  /\ bufs[b] \in [timing : Seq(Int), curr_count : 0..subwindow_size]
               /\ \A i \in DOMAIN bufs[b].timing : bufs[b].timing[i] = 0
    <3> DEFINE s == bufs[b].timing
    <3>1. bufs[b] \in [timing : Seq({0}), curr_count : 0..subwindow_size]
      BY <1>1 DEF Fits
    <3>2. s \in Seq({0})
      BY <3>1
    <3> HIDE DEF s
    <3>3. s \in Seq(Int) /\ \A i \in DOMAIN s : s[i] = 0
      BY <3>2
    <3> QED
      BY <3>1, <3>3 DEF s
  <2> QED
    BY <1>1, <2>1 DEF Fits, AllZero
<1>2. ASSUME Fits(bufs, Int), AllZero(bufs) PROVE Fits(bufs, {0})
  <2>1. ASSUME NEW b \in 1..MAX_BUFFERS
        PROVE  bufs[b] \in [timing : Seq({0}), curr_count : 0..subwindow_size]
    <3> DEFINE s == bufs[b].timing
    <3>1. /\ bufs[b] \in [timing : Seq(Int), curr_count : 0..subwindow_size]
          /\ \A i \in DOMAIN s : s[i] = 0
      BY <1>2 DEF Fits, AllZero
    <3>2. s \in Seq(Int)
      BY <3>1
    <3> HIDE DEF s
    <3>3. s \in Seq({0})
      <4>1. Len(s) \in Nat /\ s \in [1..Len(s) -> {0}]
        BY <3>1, <3>2
      <4> QED
        BY <4>1
    <3> QED
      BY <3>1, <3>3 DEF s
  <2> QED
    BY <1>2, <2>1 DEF Fits
<1> QED
  BY <1>1, <1>2

LEMMA OptZero ==
    ASSUME Buffer, AllZero(timeBuffers)
    PROVE  compute_opt_delay = 0
<1>1. Windows
  BY BufferWindows
<1>2. ASSUME NEW e \in Seen PROVE At(e) = 0
  <2>1. e[1] \in 1..MAX_BUFFERS /\ e[2] \in 1..Len(timeBuffers[e[1]].timing)
    BY <1>1, SeenFacts
  <2>2. timeBuffers[e[1]].timing \in Seq(Int)
    BY <1>1, <2>1 DEF Windows
  <2> QED
    BY <2>1, <2>2 DEF AllZero, At
<1>3. Int16(ROUND_DOWN(0, delay_step)) = 0
  BY RoundDown, Int16Is, Constants
<1> QED
  BY <1>1, <1>2, <1>3, OptFacts

LEMMA AdjustZero ==
    ASSUME Buffer, AllZero(timeBuffers), NEW adjust \in BOOLEAN
    PROVE  Adjustment(adjust) = 0
BY OptZero DEF Adjustment

\* A put of the packet the buffer waits for, in an empty buffer.
LEMMA PutExpected ==
    ASSUME Buffer, sender \in Timestamp, Span + delay_step < H,
           Occupied(packets) = {}, lost_count = 0,
           ~reset_state => pointer_timestamp = sender /\ next_stop = sender,
           jitter_buffer_put(sender, Span), sender' = Plus(sender, Span)
    PROVE  /\ \E i \in Slot : Occupied(packets)' = {i} /\ Holds(i)'
           /\ LastSent' = sender
           /\ UNCHANGED <<timeline, buffered, reset_state, interp_requested, lost_count,
                          timeBuffers>>
<1>1. PutNormal(sender, Span)
  BY Constants DEF jitter_buffer_put, PutResync
<1>2. sender \in Int /\ delay_step \in Int /\ Span \in Nat \ {0} /\ H \in Nat \ {0}
      /\ delay_step \in Nat \ {0}
  <2>1. sender \in Int
    BY Constants
  <2> QED
    BY <2>1, Constants, Halves
<1>3. TSUB(sender, sender) = 0
  BY SameTime
<1>4. ~Late(sender)
  BY <1>3 DEF Late, LT32
<1>5. reset_state \/ GE32(Plus(sender, Span + delay_step), pointer_timestamp)
  <2> DEFINE n == Span + delay_step
  <2>1. n \in Int /\ n >= 0 /\ n < H
    BY <1>2
  <2> HIDE DEF n
  <2>2. TSUB(sender, sender) + n \in (-H)..(H - 1)
    BY <1>2, <1>3, <2>1
  <2>3. TSUB(Plus(sender, n), sender) = n
    BY <1>2, <1>3, <2>1, <2>2, Ahead
  <2>4. GE32(Plus(sender, n), sender)
    BY <2>1, <2>3 DEF GE32
  <2> QED
    BY <2>4 DEF n, Buffer
<1> DEFINE new == [timestamp |-> sender, span |-> Span,
                   arrival |-> IF reset_state THEN 0 ELSE next_stop]
           free == SlotFor(Cleaned)
<1>6. Cleaned = [i \in Slot |-> NoPacket] /\ Occupied(Cleaned) = {}
  <2>1. \A i \in Slot : packets[i] = NoPacket
    BY DEF Occupied
  <2> QED
    BY <2>1 DEF Cleaned, Occupied
<1>7. free \in Slot
  <2>1. Slot \subseteq Nat /\ Slot # {} /\ Slot \ {} = Slot
    BY Constants
  <2>2. \E i \in Slot : \A j \in Slot : i <= j
    BY <2>1, Least
  <2>3. free = CHOOSE i \in Slot : \A j \in Slot : i <= j
    BY <1>6, <2>1 DEF SlotFor
  <2> HIDE DEF free
  <2> QED
    BY <2>2, <2>3
<1>8. PICK k \in Slot : packets' = [Cleaned EXCEPT ![k] = new]
  BY <1>1, <1>4, <1>5, <1>7 DEF PutNormal
<1>9. new # NoPacket
  <2>1. sender # -1
    BY <1>2 DEF Timestamp
  <2>2. new.timestamp = sender /\ NoPacket.timestamp = -1
    BY DEF NoPacket
  <2> QED
    BY <2>1, <2>2
<1>10. packets'[k] = new /\ Occupied(packets)' = {k}
  <2>1. packets'[k] = new /\ \A i \in Slot : i # k => packets'[i] = NoPacket
    BY <1>6, <1>8
  <2> HIDE DEF new
  <2> QED
    BY <1>9, <2>1 DEF Occupied
<1>11. LastSent' = sender
  BY <1>2, BackAgain DEF LastSent
<1>12. Holds(k)'
  <2>1. /\ new.timestamp = sender /\ new.span = Span
        /\ new.arrival = IF reset_state THEN 0 ELSE next_stop
    OBVIOUS
  <2>2. reset_state \in BOOLEAN
    BY DEF Buffer
  <2>3. reset_state \/ next_stop = sender
    BY <2>2
  <2>4. packets'[k] = new
    BY <1>10
  <2> HIDE DEF new
  <2>5. /\ packets'[k].timestamp = LastSent' /\ packets'[k].span = Span
        /\ packets'[k].arrival \in {0, LastSent'}
    BY <1>11, <2>1, <2>2, <2>3, <2>4
  <2> QED
    BY <2>5 DEF Holds
<1>13. timeBuffers' = timeBuffers
  BY <1>1, <1>4 DEF PutNormal
<1>14. \E i \in Slot : Occupied(packets)' = {i} /\ Holds(i)'
  BY <1>10, <1>12
<1> QED
  BY <1>1, <1>11, <1>13, <1>14 DEF PutNormal

\* A get when the last packet of the sender is all the buffer holds.
LEMMA GetExpected ==
    ASSUME Buffer, sender \in Timestamp, buffer_margin = 0,
           NEW only \in Slot, Occupied(packets) = {only}, Holds(only),
           ~reset_state => pointer_timestamp = LastSent,
           interp_requested = 0, AllZero(timeBuffers),
           jitter_buffer_get(Span), sender' = sender
    PROVE  /\ Occupied(packets)' = {} /\ lost_count' = 0 /\ interp_requested' = 0
           /\ AllZero(timeBuffers)'
           /\ ~reset_state' /\ pointer_timestamp' = sender /\ buffered' = 0
           /\ returned' = [status |-> "OK", timestamp |-> LastSent, span |-> Span]
<1> DEFINE p == packets[only]
           stop == Plus(Start, Span)
<1>1. /\ sender \in Int /\ Span \in Nat \ {0} /\ Span \in Int /\ -Span \in Int
      /\ LastSent \in Timestamp /\ LastSent \in Int
  <2>1. sender \in Int /\ Span \in Nat \ {0} /\ Span \in Int /\ -Span \in Int
    BY Constants
  <2> QED
    BY <2>1, PlusIs DEF LastSent
<1>2. Start = LastSent
  <2>1. CASE reset_state
    <3>1. PICK i \in Occupied(packets) : Start = packets[i].timestamp
      BY <2>1, StartType
    <3> QED
      BY <3>1 DEF Holds
  <2>2. CASE ~reset_state
    BY <2>2 DEF Start
  <2> QED
    BY <2>1, <2>2
<1>3. End(p) = stop /\ stop \in Timestamp /\ TSUB(stop, stop) = 0
      /\ TSUB(LastSent, LastSent) = 0
  <2>1. End(p) = stop
    BY <1>2 DEF End, Holds
  <2>2. stop \in Timestamp
    BY <1>1, <1>2, PlusIs
  <2> HIDE DEF stop
  <2> QED
    BY <1>1, <2>1, <2>2, SameTime
<1>4. Fitting(Span) = {only}
  <2> DEFINE began == {j \in Occupied(packets) : LE32(packets[j].timestamp, Start)}
             spanning == {j \in began : GE32(End(packets[j]), stop)}
             exact == {j \in spanning : packets[j].timestamp = Start}
             lowest(S) == CHOOSE j \in S : \A l \in S : j <= l
  <2>1. LE32(p.timestamp, Start) /\ GE32(End(p), stop) /\ p.timestamp = Start
    BY <1>2, <1>3 DEF LE32, GE32, Holds
  <2>2. exact = {only}
    BY <2>1
  <2>3. exact # {} => Fitting(Span) = {lowest(exact)}
    BY DEF Fitting
  <2> HIDE DEF began, spanning, exact
  <2>4. only <= only
    BY Constants
  <2>5. lowest({only}) = only
    BY <2>4
  <2> QED
    BY <2>2, <2>3, <2>5
<1>5. GetPacket(Span)
  BY <1>4 DEF jitter_buffer_get, GetBeforeSync, GetDeferred, GetInsertion, GetMissing, Lost
<1>6. /\ lost_count' = 0
      /\ timeBuffers' =
           IF p.arrival = 0 THEN timeBuffers
           ELSE update_timings(timeBuffers, TSUB(p.timestamp, p.arrival) - buffer_margin)
      /\ packets' = [packets EXCEPT ![only] = NoPacket]
      /\ returned' = [status |-> "OK", timestamp |-> p.timestamp, span |-> p.span]
      /\ pointer_timestamp' = End(p)
      /\ buffered' = p.span - Span + TSUB(p.timestamp, Start)
      /\ interp_requested' = 0 /\ ~reset_state'
  BY <1>4, <1>5 DEF GetPacket, Synced
<1>7. p.timestamp = LastSent /\ p.span = Span /\ p.arrival \in {0, LastSent}
  BY DEF Holds
<1> HIDE DEF p
<1>8. Occupied(packets)' = {}
  BY <1>6 DEF Occupied, Buffer
<1>9. pointer_timestamp' = sender
  <2>1. Plus(LastSent, Span) = sender
    <3>1. Plus(Plus(sender, -Span), -(-Span)) = sender
      BY <1>1, BackAgain
    <3>2. -(-Span) = Span
      BY <1>1
    <3> QED
      BY <3>1, <3>2 DEF LastSent
  <2> QED
    BY <1>6, <1>7, <2>1 DEF End
<1>10. buffered' = 0
  BY <1>1, <1>2, <1>3, <1>6, <1>7
<1>11. AllZero(timeBuffers)'
  <2>1. Fits(timeBuffers, {0})
    BY ZeroFits DEF Buffer
  <2>2. p.arrival # 0 => TSUB(p.timestamp, p.arrival) - buffer_margin = 0
    BY <1>3, <1>7
  <2>3. Fits(update_timings(timeBuffers, 0), {0})
    BY <2>1, UpdateFits
  <2>4. Fits(timeBuffers', {0})
    BY <1>6, <2>1, <2>2, <2>3
  <2>5. AllZero(timeBuffers')
    BY <2>4, ZeroFits
  <2> QED
    BY <2>5 DEF AllZero
<1> QED
  BY <1>6, <1>7, <1>8, <1>9, <1>10, <1>11

\* An adjustment when no timing is off leaves the buffer as it is.
LEMMA AdjustNothing ==
    ASSUME Buffer, AllZero(timeBuffers), NEW adjust \in BOOLEAN,
           update_delay(adjust, Adjustment(adjust))
    PROVE  /\ pointer_timestamp' = pointer_timestamp
           /\ UNCHANGED <<timeBuffers, interp_requested, packets, reset_state, lost_count>>
<1>1. Adjustment(adjust) = 0
  BY AdjustZero
<1>2. Plus(pointer_timestamp, 0) = pointer_timestamp
  BY SameTime DEF Buffer
<1> QED
  BY <1>1, <1>2 DEF update_delay

LEMMA FillInit == Init => FillInv
<1> SUFFICES ASSUME Init PROVE FillInv
  OBVIOUS
<1>1. AllZero(timeBuffers)
  <2>1. Fits(tb_init, {0})
    BY NoneFits
  <2> QED
    BY <2>1, ZeroFits DEF Init, JitterInit
<1>2. Occupied(packets) = {}
  BY DEF Init, JitterInit, Occupied
<1> QED
  BY <1>1, <1>2 DEF Init, JitterInit, FillInv, AllZero

LEMMA FillStep ==
    ASSUME buffer_margin = 0, Span + delay_step < H, TypeOK, FillInv, [Next]_vars
    PROVE  FillInv'
<1>1. /\ Buffer /\ sender \in Timestamp /\ heard \in Timestamp /\ steady \in BOOLEAN
      /\ wild \in 0..Wild
      /\ player \in {"receive", "get", "tick", "adjusted"}
  BY TypeParts
<1>2. SUFFICES ASSUME wild' = Wild PROVE FillInv'
  BY DEF FillInv
<1>3. CASE Arrive
  BY <1>1, <1>2, <1>3, JitterLinkAssumption DEF Arrive
<1>4. SUFFICES ASSUME wild' = wild, ~Arrive PROVE FillInv'
  BY <1>3 DEF Next, Settle, ArriveRegular, Get, GetAnother, Adjust, Tick, RemainingSpan,
     Reset, linkVars, vars
<1>5. /\ interp_requested = 0 /\ lost_count = 0 /\ AllZero(timeBuffers)
      /\ ~steady => reset_state /\ player # "receive"
      /\ steady => player # "adjusted"
      /\ steady /\ player = "get" =>
           /\ \E i \in Slot : Occupied(packets) = {i} /\ Holds(i)
           /\ ~reset_state => pointer_timestamp = LastSent
      /\ ~(steady /\ player = "get") => Occupied(packets) = {}
      /\ steady /\ player = "receive" /\ ~reset_state =>
           pointer_timestamp = sender /\ next_stop = sender
      /\ steady /\ player = "tick" =>
           ~reset_state /\ pointer_timestamp = sender /\ buffered = 0 /\ FillTest
  BY <1>2, <1>4 DEF FillInv, AllZero
<1>6. CASE Settle
  <2>1. UNCHANGED jitterVars /\ steady' /\ player' = "receive" /\ reset_state
    BY <1>5, <1>6 DEF Settle
  <2>2. AllZero(timeBuffers)' /\ Occupied(packets)' = {}
    BY <1>5, <1>6, <2>1 DEF jitterVars, delays, AllZero, Occupied, Settle
  <2> QED
    BY <1>5, <2>1, <2>2 DEF jitterVars, delays, FillInv, AllZero
<1>7. CASE ArriveRegular
  <2>1. steady /\ player = "receive" /\ player' = "get" /\ steady'
        /\ jitter_buffer_put(sender, Span) /\ sender' = Plus(sender, Span)
    BY <1>5, <1>7 DEF ArriveRegular
  <2>2. /\ \E i \in Slot : Occupied(packets)' = {i} /\ Holds(i)'
        /\ LastSent' = sender
        /\ UNCHANGED <<timeline, buffered, reset_state, interp_requested, lost_count,
                       timeBuffers>>
    BY <1>1, <1>5, <2>1, PutExpected
  <2>3. AllZero(timeBuffers)' /\ pointer_timestamp' = pointer_timestamp
    BY <1>5, <2>2 DEF AllZero, timeline
  <2> QED
    BY <1>5, <2>1, <2>2, <2>3 DEF FillInv, AllZero
<1>8. CASE Get
  <2>1. player = "get" /\ player' = "tick" /\ steady' = steady /\ sender' = sender
        /\ jitter_buffer_get(Span)
    BY <1>8 DEF Get
  <2>2. CASE steady
    <3>1. PICK i \in Slot : Occupied(packets) = {i} /\ Holds(i)
      BY <1>5, <2>1, <2>2
    <3>2. /\ Occupied(packets)' = {} /\ lost_count' = 0 /\ interp_requested' = 0
          /\ AllZero(timeBuffers)'
          /\ ~reset_state' /\ pointer_timestamp' = sender /\ buffered' = 0
          /\ returned' = [status |-> "OK", timestamp |-> LastSent, span |-> Span]
      BY <1>1, <1>5, <2>1, <2>2, <3>1, GetExpected
    <3>3. FillTest'
      BY <2>1, <3>2 DEF FillTest, LastSent
    <3> QED
      BY <2>1, <2>2, <3>2, <3>3 DEF FillInv, AllZero
  <2>3. CASE ~steady
    <3>1. reset_state /\ Occupied(packets) = {}
      BY <1>5, <2>3
    <3>2. GetBeforeSync
      BY <2>1, <3>1 DEF jitter_buffer_get, GetDeferred, GetPacket, GetInsertion,
         GetMissing, Lost, Synced
    <3>3. UNCHANGED <<packets, reset_state, interp_requested, timeBuffers, lost_count>>
      BY <3>2 DEF GetBeforeSync, delays
    <3>4. AllZero(timeBuffers)' /\ Occupied(packets)' = {}
      BY <1>5, <3>1, <3>3 DEF AllZero, Occupied
    <3> QED
      BY <1>5, <2>1, <2>3, <3>1, <3>3, <3>4 DEF FillInv, AllZero
  <2> QED
    BY <1>1, <2>2, <2>3
<1>9. CASE GetAnother
  <2>1. ~steady /\ UNCHANGED linkVars /\ reset_state /\ Occupied(packets) = {}
        /\ jitter_buffer_get_another
    BY <1>5, <1>9 DEF GetAnother
  <2>2. UNCHANGED <<packets, reset_state, interp_requested, timeBuffers, lost_count>>
    BY <2>1 DEF jitter_buffer_get_another, delays
  <2>3. AllZero(timeBuffers)' /\ Occupied(packets)' = {}
    BY <1>5, <2>1, <2>2 DEF AllZero, Occupied
  <2> QED
    BY <1>5, <2>1, <2>2, <2>3 DEF FillInv, AllZero, linkVars
<1>10. CASE Adjust
  <2>1. ~steady /\ ~steady' /\ player' = "adjusted" /\ reset_state /\ Occupied(packets) = {}
    BY <1>5, <1>10 DEF Adjust
  <2>2. update_delay(TRUE, Adjustment(TRUE))
    BY <1>10 DEF Adjust, jitter_buffer_update_delay, Adjustment
  <2>3. UNCHANGED <<timeBuffers, interp_requested, packets, reset_state, lost_count>>
    BY <1>1, <1>5, <2>2, AdjustNothing
  <2>4. AllZero(timeBuffers)' /\ Occupied(packets)' = {}
    BY <1>5, <2>1, <2>3 DEF AllZero, Occupied
  <2> QED
    BY <1>5, <2>1, <2>3, <2>4 DEF FillInv, AllZero
<1>11. ASSUME update_delay(auto_adjust, Adjustment(auto_adjust)),
              player \in {"tick", "adjusted"}, steady' = steady, sender' = sender
       PROVE  /\ pointer_timestamp' = pointer_timestamp
              /\ UNCHANGED <<timeBuffers, interp_requested, packets, reset_state, lost_count>>
              /\ AllZero(timeBuffers)' /\ Occupied(packets)' = {}
  <2>1. auto_adjust \in BOOLEAN /\ Occupied(packets) = {}
    BY <1>1, <1>5, <1>11 DEF Buffer
  <2>2. /\ pointer_timestamp' = pointer_timestamp
        /\ UNCHANGED <<timeBuffers, interp_requested, packets, reset_state, lost_count>>
    BY <1>1, <1>5, <1>11, <2>1, AdjustNothing
  <2> QED
    BY <1>5, <2>1, <2>2 DEF AllZero, Occupied
<1>12. CASE Tick
  <2>1. /\ pointer_timestamp' = pointer_timestamp
        /\ UNCHANGED <<timeBuffers, interp_requested, packets, reset_state, lost_count>>
        /\ AllZero(timeBuffers)' /\ Occupied(packets)' = {}
    BY <1>11, <1>12 DEF Tick, jitter_buffer_tick
  <2>2. steady' = steady /\ sender' = sender /\ player' = IF steady THEN "receive" ELSE "get"
    BY <1>12 DEF Tick
  <2>3. steady => pointer_timestamp' = sender /\ next_stop' = sender
    <3> SUFFICES ASSUME steady PROVE pointer_timestamp' = sender /\ next_stop' = sender
      OBVIOUS
    <3>1. pointer_timestamp = sender /\ buffered = 0
      BY <1>5, <1>12 DEF Tick
    <3>2. next_stop' = Plus(sender, -0)
      BY <1>12, <2>1, <3>1 DEF Tick, jitter_buffer_tick
    <3> QED
      BY <1>1, <2>1, <3>1, <3>2, SameTime
  <2> QED
    BY <1>5, <2>1, <2>2, <2>3 DEF FillInv, AllZero
<1>13. CASE RemainingSpan
  <2>1. ~steady /\ player = "tick" /\ player' = "get" /\ steady' = steady /\ sender' = sender
    BY <1>13 DEF RemainingSpan
  <2>2. update_delay(auto_adjust, Adjustment(auto_adjust))
    BY <1>13 DEF RemainingSpan, jitter_buffer_remaining_span
  <2>3. /\ UNCHANGED <<timeBuffers, interp_requested, packets, reset_state, lost_count>>
        /\ AllZero(timeBuffers)' /\ Occupied(packets)' = {}
    BY <1>11, <2>1, <2>2
  <2> QED
    BY <1>5, <2>1, <2>3 DEF FillInv, AllZero
<1>14. CASE Reset
  <2>1. /\ ~steady /\ UNCHANGED linkVars /\ reset_state' /\ lost_count' = 0
        /\ interp_requested' = 0 /\ timeBuffers' = tb_init
    BY <1>5, <1>14 DEF Reset, jitter_buffer_reset
  <2>2. Occupied(packets)' = {}
    BY <1>14 DEF Reset, jitter_buffer_reset, Occupied
  <2>3. AllZero(timeBuffers)'
    <3>1. Fits(tb_init, {0})
      BY NoneFits
    <3>2. AllZero(tb_init)
      BY <3>1, ZeroFits
    <3> QED
      BY <2>1, <3>2 DEF AllZero
  <2> QED
    BY <1>5, <2>1, <2>2, <2>3 DEF FillInv, AllZero, linkVars
<1>15. CASE UNCHANGED vars
  BY <1>2, <1>15 DEF vars, linkVars, jitterVars, timeline, delays, FillInv, FillTest,
     Holds, LastSent, Occupied
<1> QED
  BY <1>4, <1>6, <1>7, <1>8, <1>9, <1>10, <1>12, <1>13, <1>14, <1>15 DEF Next

\* Over a network that was always steady, whatever timestamp the sender began
\* with and however often it wrapped, every get returns the packet just put.
THEOREM SteadyFill ==
    ASSUME buffer_margin = 0, Span + delay_step < H
    PROVE  Spec => []FillTest
<1>1. TypeOK /\ FillInv /\ [Next]_vars => FillInv'
  BY FillStep
<1>2. TypeOK /\ FillInv => FillTest
  BY DEF FillInv, FillTest
<1> QED
  BY <1>1, <1>2, FillInit, TypeCorrect, PTL DEF Spec
============================================================================
