------------------------- MODULE EncoderHeapProofs -------------------------
(* Whichever allocations fail, and however many encoders are created: no    *)
(* wild pointer is followed, an encoder is whole or not there, and nothing  *)
(* but an lspState is lost.                                                 *)
EXTENDS EncoderHeapProperties, SequenceTheorems, TLAPS

----------------------------------------------------------------------------
(* The tree of the objects.                                                 *)

\* The kinds without parts, those whose parts have none, and so on.
Level0 == {"pre_proc", "pitch", "q_plsf", "gain_adapt", "p_ol_wgh", "ton_stab",
           "vad1", "dtx_enc", "levinson", "sid_sync"}
Level1 == Level0 \union {"cl_ltp", "lsp", "gainQuant", "lpc"}
Level2 == Level1 \union {"cod_amr"}

\* Where a part belongs.
Owner(p) ==
  CASE p \in {"pre_proc", "cod_amr"} -> "frame"
    [] p = "pitch" -> "cl_ltp"
    [] p = "q_plsf" -> "lsp"
    [] p = "gain_adapt" -> "gainQuant"
    [] p = "levinson" -> "lpc"
    [] OTHER -> "cod_amr"

Place(p) ==
  CASE p \in {"cod_amr", "lsp"} -> 2
    [] p = "gainQuant" -> 3
    [] p = "p_ol_wgh" -> 4
    [] p = "ton_stab" -> 5
    [] p = "vad1" -> 6
    [] p = "dtx_enc" -> 7
    [] p = "lpc" -> 8
    [] OTHER -> 1

\* What the proofs use of a shape.
WellShaped(k) ==
  LET shape == Shape[k]
  IN  /\ Len(shape.parts) \in Nat
      /\ shape.clears \/ Len(shape.parts) <= 1
      /\ shape.undoes \/ k = "lsp"
      /\ \A i \in 1..Len(shape.parts) :
           /\ shape.parts[i] \in Kind \ {"frame", "sid_sync"}
           /\ Owner(shape.parts[i]) = k /\ Place(shape.parts[i]) = i

LEMMA Kinds == Kind = Level2 \union {"frame"}
BY DEF Kind, Shape, Level0, Level1, Level2

LEMMA LeafShape ==
  ASSUME NEW k \in Level0
  PROVE  /\ Len(Shape[k].parts) = 0
         /\ Shape[k].clears /\ Shape[k].undoes
BY DEF Level0, Shape, Leaf

LEMMA StemShape ==
  ASSUME NEW k \in {"cl_ltp", "lsp", "gainQuant", "lpc"}
  PROVE  /\ Len(Shape[k].parts) = 1
         /\ Shape[k].parts[1] = CASE k = "cl_ltp" -> "pitch"    [] k = "lsp" -> "q_plsf"
                                  [] k = "gainQuant" -> "gain_adapt"
                                  [] k = "lpc" -> "levinson"
         /\ Shape[k].undoes \/ k = "lsp"
<1>1. CASE k = "cl_ltp"
  BY <1>1 DEF Shape, cl_ltp_init
<1>2. CASE k = "lsp"
  BY <1>2 DEF Shape, lsp_init
<1>3. CASE k = "gainQuant"
  BY <1>3 DEF Shape, gainQuant_init
<1>4. CASE k = "lpc"
  BY <1>4 DEF Shape, lpc_init
<1>. QED
  BY <1>1, <1>2, <1>3, <1>4

LEMMA CodShape ==
  LET parts == Shape["cod_amr"].parts
  IN  /\ Len(parts) = 8
      /\ parts[1] = "cl_ltp" /\ parts[2] = "lsp" /\ parts[3] = "gainQuant"
      /\ parts[4] = "p_ol_wgh" /\ parts[5] = "ton_stab" /\ parts[6] = "vad1"
      /\ parts[7] = "dtx_enc" /\ parts[8] = "lpc"
      /\ Shape["cod_amr"].clears /\ Shape["cod_amr"].undoes
BY DEF Shape, cod_amr_init

LEMMA FrameShape ==
  LET parts == Shape["frame"].parts
  IN  /\ Len(parts) = 2 /\ parts[1] = "pre_proc" /\ parts[2] = "cod_amr"
      /\ Shape["frame"].clears /\ Shape["frame"].undoes
BY DEF Shape, GSMInitEncode

LEMMA Tree == \A k \in Kind : WellShaped(k)
<1>1. ASSUME NEW k \in Level0 PROVE WellShaped(k)
  <2>1. Len(Shape[k].parts) = 0 /\ Shape[k].clears /\ Shape[k].undoes
    BY LeafShape
  <2>. QED
    BY <2>1 DEF WellShaped
<1>2. ASSUME NEW k \in {"cl_ltp", "lsp", "gainQuant", "lpc"} PROVE WellShaped(k)
  <2>1. /\ Len(Shape[k].parts) = 1
        /\ Shape[k].undoes \/ k = "lsp"
    BY StemShape
  <2>2. /\ Shape[k].parts[1] \in Kind \ {"frame", "sid_sync"}
        /\ Owner(Shape[k].parts[1]) = k /\ Place(Shape[k].parts[1]) = 1
    BY StemShape, Kinds DEF Owner, Place, Level0, Level1, Level2
  <2>. QED
    BY <2>1, <2>2 DEF WellShaped
<1>3. WellShaped("cod_amr")
  <2>. DEFINE parts == Shape["cod_amr"].parts
  <2>1. ASSUME NEW i \in 1..Len(parts)
        PROVE  /\ parts[i] \in Kind \ {"frame", "sid_sync"}
               /\ Owner(parts[i]) = "cod_amr" /\ Place(parts[i]) = i
    <3>1. i \in {1, 2, 3, 4, 5, 6, 7, 8}
      BY CodShape
    <3>. QED
      BY <3>1, CodShape, Kinds DEF Owner, Place, Level0, Level1, Level2
  <2>. QED
    <3>1. /\ Len(parts) = 8
          /\ Shape["cod_amr"].clears /\ Shape["cod_amr"].undoes
      BY CodShape
    <3>. QED
      BY <2>1, <3>1 DEF WellShaped
<1>4. WellShaped("frame")
  <2>. DEFINE parts == Shape["frame"].parts
  <2>1. ASSUME NEW i \in 1..Len(parts)
        PROVE  /\ parts[i] \in Kind \ {"frame", "sid_sync"}
               /\ Owner(parts[i]) = "frame" /\ Place(parts[i]) = i
    <3>1. i \in {1, 2}
      BY FrameShape
    <3>. QED
      BY <3>1, FrameShape, Kinds DEF Owner, Place, Level0, Level1, Level2
  <2>. QED
    <3>1. /\ Len(parts) = 2
          /\ Shape["frame"].clears /\ Shape["frame"].undoes
      BY FrameShape
    <3>. QED
      BY <2>1, <3>1 DEF WellShaped
<1>. QED
  BY <1>1, <1>2, <1>3, <1>4, Kinds DEF Level1, Level2

\* A part has one owner and one place there, and the roots have no owner.
LEMMA PartsFacts ==
  ASSUME NEW k \in Kind
  PROVE  /\ Parts(k) \subseteq Kind
         /\ \A p \in Parts(k) : p \notin {"frame", "sid_sync"} /\ Owner(p) = k
         /\ \A p \in Parts(k) : \E i \in 1..Len(Shape[k].parts) : p = Shape[k].parts[i]
         /\ \A i \in 1..Len(Shape[k].parts) : Shape[k].parts[i] \in Parts(k)
         /\ \A i, j \in 1..Len(Shape[k].parts) :
              Shape[k].parts[i] = Shape[k].parts[j] => i = j
<1>1. WellShaped(k)
  BY Tree
<1>. QED
  BY <1>1 DEF WellShaped, Parts

\* The one object that may be lost.
LEMMA LspFacts ==
  /\ "lsp" \in Kind /\ "q_plsf" \in Kind
  /\ Len(Shape["lsp"].parts) = 1 /\ Shape["lsp"].parts[1] = "q_plsf"
  /\ "q_plsf" \in Parts("lsp")
<1>1. "lsp" \in Kind /\ "q_plsf" \in Kind
  BY Kinds DEF Level0, Level1, Level2
<1>2. Len(Shape["lsp"].parts) = 1 /\ Shape["lsp"].parts[1] = "q_plsf"
  BY StemShape
<1>. QED
  BY <1>1, <1>2 DEF Parts

LEMMA Levels ==
  /\ Level0 \subseteq Level1 /\ Level1 \subseteq Level2 /\ Level2 \subseteq Kind
  /\ \A k \in Level0 : Parts(k) = {}
  /\ \A k \in Level1 : Parts(k) \subseteq Level0
  /\ \A k \in Level2 : Parts(k) \subseteq Level1
  /\ \A k \in Kind : Parts(k) \subseteq Level2
<1>1. /\ Level0 \subseteq Level1 /\ Level1 \subseteq Level2 /\ Level2 \subseteq Kind
  BY Kinds DEF Level1, Level2
<1>2. ASSUME NEW k \in Level0 PROVE Parts(k) = {}
  <2>1. Len(Shape[k].parts) = 0
    BY LeafShape
  <2>. QED
    BY <2>1 DEF Parts
<1>3. ASSUME NEW k \in {"cl_ltp", "lsp", "gainQuant", "lpc"} PROVE Parts(k) \subseteq Level0
  BY StemShape DEF Parts, Level0
<1>4. Parts("cod_amr") \subseteq Level1
  <2>1. \A i \in 1..Len(Shape["cod_amr"].parts) : i \in {1, 2, 3, 4, 5, 6, 7, 8}
    BY CodShape
  <2>. QED
    BY <2>1, CodShape DEF Parts, Level0, Level1
<1>5. Parts("frame") \subseteq Level2
  <2>1. \A i \in 1..Len(Shape["frame"].parts) : i \in {1, 2}
    BY FrameShape
  <2>. QED
    BY <2>1, FrameShape DEF Parts, Level0, Level1, Level2
<1>. QED
  BY <1>1, <1>2, <1>3, <1>4, <1>5, Kinds DEF Level1, Level2

\* Whatever comes with its owner comes with a root.
LEMMA NoOrphans ==
  ASSUME NEW S \in SUBSET Kind, \A k \in Kind : \A p \in Parts(k) : p \in S => k \in S,
         "frame" \notin S
  PROVE  S \subseteq {"sid_sync"}
<1>1. "cod_amr" \notin S /\ "pre_proc" \notin S
  <2>1. {"pre_proc", "cod_amr"} \subseteq Parts("frame") /\ "frame" \in Kind
    BY FrameShape, Kinds DEF Parts
  <2>. QED
    BY <2>1
<1>2. /\ "cl_ltp" \notin S /\ "lsp" \notin S /\ "gainQuant" \notin S /\ "p_ol_wgh" \notin S
      /\ "ton_stab" \notin S /\ "vad1" \notin S /\ "dtx_enc" \notin S /\ "lpc" \notin S
  <2>1. "cod_amr" \in Kind
    BY Kinds DEF Level2
  <2>2. Len(Shape["cod_amr"].parts) = 8
    BY CodShape
  <2>3. \A i \in {1, 2, 3, 4, 5, 6, 7, 8} : Shape["cod_amr"].parts[i] \in Parts("cod_amr")
    BY <2>2 DEF Parts
  <2>4. \A i \in {1, 2, 3, 4, 5, 6, 7, 8} : Shape["cod_amr"].parts[i] \notin S
    BY <1>1, <2>1, <2>3
  <2>. QED
    BY <2>4, CodShape
<1>3. "pitch" \notin S /\ "q_plsf" \notin S /\ "gain_adapt" \notin S /\ "levinson" \notin S
  <2>1. \A k \in {"cl_ltp", "lsp", "gainQuant", "lpc"} :
          Shape[k].parts[1] \in Parts(k) /\ k \in Kind
    BY StemShape, Kinds DEF Parts, Level1, Level2
  <2>. QED
    BY <1>2, <2>1, StemShape
<1>. QED
  BY <1>1, <1>2, <1>3, Kinds DEF Level0, Level1, Level2

----------------------------------------------------------------------------
(* What an exit function reaches.                                           *)

Attached(k) == {q \in Parts(k) : field[q] # "null"}

\* One step of the recursion.
Further(f) == [kind \in Kind |-> {kind} \union UNION {f[p] : p \in Attached(kind)}]

LEMMA FurtherAgrees ==
  ASSUME NEW f, NEW g, NEW L, \A k \in L : f[k] = g[k],
         NEW k \in Kind, Parts(k) \subseteq L
  PROVE  Further(f)[k] = Further(g)[k]
BY DEF Further, Attached

\* Three steps reach everything, as the tree is no higher.
LEMMA ReachedUnfolds == Reached = Further(Reached)
<1>. DEFINE f0 == [kind \in Kind |-> {kind}]
            f1 == Further(f0)
            f2 == Further(f1)
            f3 == Further(f2)
<1>1. \A k \in Level0 : f1[k] = f0[k]
  BY Levels DEF Further, Attached
<1>2. \A k \in Level1 : f2[k] = f1[k]
  <2>. HIDE DEF f0
  <2>. QED
    BY <1>1, Levels, FurtherAgrees
<1>3. \A k \in Level2 : f3[k] = f2[k]
  <2>. HIDE DEF f1
  <2>. QED
    BY <1>2, Levels, FurtherAgrees
<1>4. \A k \in Kind : Further(f3)[k] = f3[k]
  <2>. HIDE DEF f2
  <2>. QED
    BY <1>3, Levels, FurtherAgrees
<1>5. f3 = Further(f3)
  <2>. HIDE DEF f2
  <2>1. f3 = [k \in Kind |-> f3[k]] /\ Further(f3) = [k \in Kind |-> Further(f3)[k]]
    BY DEF Further
  <2>. QED
    BY <1>4, <2>1
<1>. HIDE DEF f3
<1>6. \E f : f = [kind \in Kind |->
                    {kind} \union UNION {f[p] : p \in {q \in Parts(kind) : field[q] # "null"}}]
  BY <1>5 DEF Further, Attached
<1>. QED
  BY <1>6, Zenon DEF Reached, Further, Attached

LEMMA ReachedRule ==
  ASSUME NEW k \in Kind
  PROVE  /\ Reached[k] = {k} \union UNION {Reached[p] : p \in Attached(k)}
         /\ Attached(k) \subseteq Parts(k)
BY ReachedUnfolds DEF Further, Attached

\* It follows the pointers that are not NULL,
LEMMA ReachedClosed ==
  ASSUME NEW k \in Kind
  PROVE  /\ k \in Reached[k]
         /\ \A j \in Reached[k] \intersect Kind : Attached(j) \subseteq Reached[k]
<1>. DEFINE Closed(i) == \A j \in Reached[i] \intersect Kind : Attached(j) \subseteq Reached[i]
<1>1. \A i \in Kind : i \in Reached[i]
  BY ReachedRule
<1>2. ASSUME NEW i \in Kind, \A p \in Parts(i) : Closed(p) PROVE Closed(i)
  <2>. SUFFICES ASSUME NEW j \in Reached[i], j \in Kind, NEW p \in Attached(j)
                PROVE  p \in Reached[i]
    OBVIOUS
  <2>1. p \in Kind /\ p \in Reached[p]
    BY <1>1, PartsFacts DEF Attached
  <2>2. CASE j = i
    BY <2>1, <2>2, ReachedRule
  <2>3. CASE j # i
    <3>1. PICK q \in Attached(i) : j \in Reached[q]
      BY <2>3, ReachedRule
    <3>2. p \in Reached[q]
      BY <1>2, <3>1, ReachedRule
    <3>. QED
      BY <3>1, <3>2, ReachedRule
  <2>. QED
    BY <2>2, <2>3
<1>. HIDE DEF Closed
<1>3. \A i \in Level0 : Closed(i)
  BY <1>2, Levels
<1>4. \A i \in Level1 : Closed(i)
  BY <1>2, <1>3, Levels
<1>5. \A i \in Level2 : Closed(i)
  BY <1>2, <1>4, Levels
<1>6. Closed(k)
  BY <1>2, <1>5, Levels
<1>. QED
  BY <1>1, <1>6 DEF Closed

\* and nothing else.
LEMMA ReachedLeast ==
  ASSUME NEW S \in SUBSET Kind, \A k \in S : Attached(k) \subseteq S
  PROVE  \A k \in S : Reached[k] \subseteq S
<1>1. ASSUME NEW k \in S, \A p \in Parts(k) \intersect S : Reached[p] \subseteq S
      PROVE  Reached[k] \subseteq S
  BY <1>1, ReachedRule
<1>2. \A k \in S \intersect Level0 : Reached[k] \subseteq S
  BY <1>1, Levels
<1>3. \A k \in S \intersect Level1 : Reached[k] \subseteq S
  BY <1>1, <1>2, Levels
<1>4. \A k \in S \intersect Level2 : Reached[k] \subseteq S
  BY <1>1, <1>3, Levels
<1>. QED
  BY <1>1, <1>4, Levels

----------------------------------------------------------------------------
(* What the invariant says of the stack.                                    *)

LEMMA NotOwnPart == \A k : Owner(k) # k
BY DEF Owner

LEMMA MadeFacts ==
  ASSUME Nested
  PROVE  /\ Made \subseteq Kind /\ Unfinished \subseteq Made
         /\ \A k \in Unfinished : field[k] = "null"
BY DEF Nested, InitUnderWay, Made, Unfinished

LEMMA FrameFacts ==
  ASSUME Nested, NEW i \in 1..Len(stack)
  PROVE  LET parts == Shape[stack[i].kind].parts
         IN  /\ stack[i] \in [kind : Kind, done : Nat]
             /\ stack[i].kind \in Kind /\ stack[i].done \in Nat /\ Len(parts) \in Nat
             /\ stack[i].kind \in Unfinished /\ InitUnderWay(i)
             /\ \A j \in 1..Len(parts) : parts[j] \in Parts(stack[i].kind)
             /\ stack[i].done < Len(parts) => stack[i].done + 1 \in 1..Len(parts)
<1>1. stack[i] \in [kind : Kind, done : Nat]
  <2>1. stack \in Seq([kind : Kind, done : Nat])
    BY DEF Nested
  <2>. QED
    BY <2>1, ElementOfSeq
<1>2. stack[i].kind \in Kind /\ stack[i].done \in Nat
  BY <1>1
<1>3. Len(Shape[stack[i].kind].parts) \in Nat
  BY <1>2, Tree DEF WellShaped
<1>. QED
  BY <1>1, <1>2, <1>3, PartsFacts DEF Nested, Unfinished

LEMMA TopFacts ==
  ASSUME Nested, stack # <<>>
  PROVE  /\ Len(stack) \in Nat /\ Len(stack) >= 1
         /\ Top = stack[Len(stack)] /\ Top.kind \in Kind /\ Top.done \in Nat
         /\ Top.kind \in Unfinished /\ Top.kind \in Made /\ field[Top.kind] = "null"
         /\ Top.done <= Len(Shape[Top.kind].parts)
         /\ Len(Shape[Top.kind].parts) \in Nat
         /\ \A j \in 1..Len(Shape[Top.kind].parts) :
              LET p == Shape[Top.kind].parts[j]
              IN  /\ p \in Parts(Top.kind)
                  /\ j <= Top.done => p \in Made /\ p \notin Unfinished
                  /\ j > Top.done => p \notin Made
<1>1. Len(stack) \in Nat /\ Len(stack) >= 1 /\ Len(stack) \in 1..Len(stack)
  BY EmptySeq DEF Nested
<1>2. Top = stack[Len(stack)]
  BY DEF Top
<1>3. InitUnderWay(Len(stack)) /\ ~(Len(stack) < Len(stack))
  BY <1>1 DEF Nested
<1>4. \A j \in 1..Len(Shape[Top.kind].parts) :
              LET p == Shape[Top.kind].parts[j]
              IN  /\ j <= Top.done => p \in Made /\ p \notin Unfinished
                  /\ j > Top.done => p \notin Made
  BY <1>2, <1>3 DEF InitUnderWay
<1>. QED
  BY <1>1, <1>2, <1>3, <1>4, FrameFacts DEF InitUnderWay

\* An object that is not the root was called for by the one below it.
LEMMA Below ==
  ASSUME Nested, stack # <<>>, Len(stack) > 1
  PROVE  /\ stack[Len(stack) - 1].kind \in Made
         /\ Top.kind \in Parts(stack[Len(stack) - 1].kind)
         /\ Top.kind \notin {"frame", "sid_sync"}
<1>1. /\ Len(stack) \in Nat /\ Len(stack) - 1 \in 1..Len(stack) /\ Len(stack) - 1 < Len(stack)
      /\ (Len(stack) - 1) + 1 = Len(stack) /\ Top = stack[Len(stack)]
  BY TopFacts
<1>. DEFINE f == stack[Len(stack) - 1]
<1>2. InitUnderWay(Len(stack) - 1) /\ f.kind \in Kind
  BY <1>1, FrameFacts
<1>3. /\ f.kind \in Made /\ f.done < Len(Shape[f.kind].parts)
      /\ Top.kind = Shape[f.kind].parts[f.done + 1]
  BY <1>1, <1>2 DEF InitUnderWay
<1>4. f.done + 1 \in 1..Len(Shape[f.kind].parts)
  BY <1>1, <1>3, FrameFacts
<1>. QED
  BY <1>2, <1>3, <1>4, PartsFacts

LEMMA SidShape == Len(Shape["sid_sync"].parts) = 0 /\ Parts("sid_sync") = {}
<1>1. "sid_sync" \in Level0
  BY DEF Level0
<1>. QED
  BY <1>1, LeafShape, Levels

\* sid_sync has no parts.
LEMMA SidAlone ==
  ASSUME Nested, stack # <<>>, caller # "codec"
  PROVE  Len(stack) = 1 /\ Top.kind = "sid_sync" /\ Top.done = 0
<1>1. /\ Len(stack) \in Nat /\ Len(stack) >= 1 /\ 1 \in 1..Len(stack)
      /\ Top = stack[Len(stack)] /\ Top.done \in Nat
  BY TopFacts
<1>2. stack[1].kind = "sid_sync"
  BY <1>1 DEF Nested, Root
<1>3. stack[1].done \in Nat /\ InitUnderWay(1)
  BY <1>1, FrameFacts
<1>4. ~(stack[1].done < Len(Shape[stack[1].kind].parts))
  BY <1>2, <1>3, SidShape
<1>5. Len(stack) = 1
  <2>1. ~(1 < Len(stack))
    BY <1>3, <1>4 DEF InitUnderWay
  <2>2. Len(stack) \in Nat /\ Len(stack) >= 1
    BY TopFacts
  <2>3. \A n \in Nat : ~(1 < n) /\ n >= 1 => n = 1
    OBVIOUS
  <2>. QED
    BY <2>1, <2>2, <2>3
<1>6. Top.done <= Len(Shape[Top.kind].parts)
  BY TopFacts
<1>. QED
  BY <1>1, <1>2, <1>5, <1>6, SidShape

\* The kind whose init function is called next.
LEMMA WantedFacts ==
  ASSUME HeapInv, Building, NEW kind \in Wanted
  PROVE  /\ kind \in Kind /\ kind \notin Made /\ kind \notin Unfinished
         /\ stack = <<>> => kind = Root
         /\ stack # <<>> =>
              /\ kind \in Parts(Top.kind) /\ Top.kind \in Made /\ Top.kind \in Unfinished
              /\ kind \notin {"frame", "sid_sync"}
              /\ Top.done < Len(Shape[Top.kind].parts)
              /\ kind = Shape[Top.kind].parts[Top.done + 1]
              /\ caller = "codec"
              /\ \A p \in Parts(Top.kind) : p = kind \/ Shape[Top.kind].clears
<1>1. Nested /\ Called /\ Made \subseteq Kind /\ Unfinished \subseteq Made
  BY MadeFacts DEF HeapInv
<1>2. CASE stack = <<>>
  <2>1. kind = Root
    BY <1>2 DEF Wanted, Root
  <2>2. Root \in Kind
    BY Kinds DEF Root, Level0, Level1, Level2
  <2>3. kind \notin Made
    BY <1>1, <1>2, <2>1 DEF Building, Called
  <2>. QED
    BY <1>1, <1>2, <2>1, <2>2, <2>3
<1>3. CASE stack # <<>>
  <2>. DEFINE parts == Shape[Top.kind].parts
  <2>1. /\ Top.kind \in Kind /\ Top.done \in Nat /\ Len(parts) \in Nat
        /\ Top.kind \in Made /\ Top.kind \in Unfinished
    BY <1>1, <1>3, TopFacts
  <2>2. Top.done < Len(parts) /\ kind = parts[Top.done + 1]
    BY <1>3 DEF Wanted
  <2>3. Top.done + 1 \in 1..Len(parts) /\ Top.done + 1 > Top.done
    BY <2>1, <2>2
  <2>4. kind \in Parts(Top.kind) /\ kind \notin Made
    BY <1>1, <1>3, <2>2, <2>3, TopFacts
  <2>5. kind \in Kind /\ kind \notin {"frame", "sid_sync"}
    BY <2>1, <2>4, PartsFacts
  <2>6. caller = "codec"
    BY <1>1, <1>3, <2>1, <2>2, SidAlone, SidShape
  <2>7. ASSUME NEW p \in Parts(Top.kind), ~Shape[Top.kind].clears PROVE p = kind
    <3>1. Len(parts) <= 1
      BY <2>1, <2>7, Tree DEF WellShaped
    <3>2. PICK i \in 1..Len(parts) : p = parts[i]
      BY <2>1, PartsFacts
    <3>3. i = Top.done + 1
      BY <2>1, <2>3, <3>1, <3>2
    <3>. QED
      BY <2>2, <3>2, <3>3
  <2>. QED
    BY <1>1, <1>3, <2>1, <2>2, <2>4, <2>5, <2>6, <2>7
<1>. QED
  BY <1>2, <1>3

----------------------------------------------------------------------------
(* The steps.                                                               *)

\* Nothing of the invariant depends on the wrapper and on the count alone.
LEMMA SameHeap ==
  ASSUME UNCHANGED <<alive, stack>>
  PROVE  Unfinished' = Unfinished /\ Made' = Made
BY DEF Unfinished, Made

LEMMA InitStep ==
  ASSUME HeapInv, Encoder_Interface_init
  PROVE  HeapInv'
<1>1. /\ Running /\ caller = "idle" /\ inits < MaxInits /\ inits' = inits + 1
      /\ UNCHANGED <<alive, field, stack, failing>> /\ failed' \in BOOLEAN
      /\ \/ /\ fault' = fault /\ caller' = "codec" /\ wrapper' = TRUE
         \/ fault' = "null_use" /\ failed' = TRUE /\ caller' = caller /\ wrapper' = wrapper
  BY DEF Encoder_Interface_init
<1>2. /\ stack = <<>> /\ failing = FALSE /\ Made = {}
      /\ wrapper \in BOOLEAN /\ failing \in BOOLEAN
  BY <1>1 DEF HeapInv, Called
<1>3. Unfinished' = Unfinished /\ Made' = Made
  BY <1>1, SameHeap
<1>4. inits \in Nat /\ inits' \in 0..MaxInits /\ inits' > 0 /\ inits < inits'
      /\ alive \in [Kind -> Nat] /\ "lsp" \in Kind /\ alive["lsp"] <= inits
  BY <1>1, EncoderAssumption, Kinds DEF HeapInv, Counted, Level1, Level2
<1>5. Counted'
  BY <1>1, <1>2, <1>3, <1>4 DEF HeapInv, Counted
<1>6. Owned' /\ Linked'
  BY <1>1, <1>2, <1>3 DEF HeapInv, Owned, Linked
<1>7. Nested'
  BY <1>1, <1>2 DEF HeapInv, Nested
<1>8. Called'
  BY <1>1, <1>2, <1>3 DEF Called
<1>9. fault' \in {"none", "null_use"} /\ CrashMeansFailure'
  BY <1>1 DEF Running, CrashMeansFailure
<1>. QED
  BY <1>5, <1>6, <1>7, <1>8, <1>9 DEF HeapInv

LEMMA EncodeStep ==
  ASSUME HeapInv, Encoder_Interface_Encode
  PROVE  HeapInv'
<1>1. /\ Running /\ caller = "open"
      /\ UNCHANGED <<alive, field, wrapper, stack, failing, caller, failed, inits>>
      /\ fault' \in {"none", "null_use"}
      /\ fault' = "null_use" => field["frame"] # "set" \/ field["sid_sync"] # "set"
  BY DEF Encoder_Interface_Encode
<1>2. Unfinished' = Unfinished /\ Made' = Made
  BY <1>1, SameHeap
<1>3. Counted' /\ Owned'
  BY <1>1, <1>2 DEF HeapInv, Counted, Owned
<1>4. Linked'
  BY <1>1, <1>2 DEF HeapInv, Linked, MayBeWild, Top
<1>5. Nested'
  BY <1>1, <1>2 DEF HeapInv, Nested, InitUnderWay, Root, Top
<1>6. Called'
  BY <1>1, <1>2 DEF HeapInv, Called, Root, Returned
<1>7. CrashMeansFailure'
  BY <1>1 DEF HeapInv, Called, Returned, CrashMeansFailure
<1>. QED
  BY <1>1, <1>3, <1>4, <1>5, <1>6, <1>7 DEF HeapInv

LEMMA AllocateStep ==
  ASSUME HeapInv, Allocate
  PROVE  HeapInv'
<1>. DEFINE n == Len(stack)
<1>1. Building /\ Nested /\ Called /\ Owned /\ Linked /\ Counted
  BY DEF Allocate, HeapInv
<1>2. PICK kind \in Wanted :
        /\ alive' = [alive EXCEPT ![kind] = @ + 1]
        /\ field' = [k \in Kind |->
             CASE k = kind -> "null"
               [] k \in Parts(kind) -> IF Shape[kind].clears THEN "null" ELSE "wild"
               [] OTHER -> field[k]]
        /\ stack' = Append(stack, [kind |-> kind, done |-> 0])
  BY DEF Allocate
<1>3. /\ UNCHANGED <<wrapper, failing, caller, failed, fault, inits>>
      /\ Running /\ ~failing /\ caller \in {"codec", "sid"}
  BY <1>1 DEF Allocate, Building
<1>4. /\ kind \in Kind /\ kind \notin Made /\ kind \notin Unfinished
      /\ stack = <<>> => kind = Root
      /\ stack # <<>> =>
           /\ kind \in Parts(Top.kind) /\ Top.kind \in Made /\ Top.kind \in Unfinished
           /\ kind \notin {"frame", "sid_sync"}
           /\ Top.done < Len(Shape[Top.kind].parts)
           /\ kind = Shape[Top.kind].parts[Top.done + 1]
           /\ caller = "codec"
           /\ \A p \in Parts(Top.kind) : p = kind \/ Shape[Top.kind].clears
  BY <1>1, WantedFacts
<1>5. /\ Made \subseteq Kind /\ Unfinished \subseteq Made
      /\ n \in Nat /\ stack \in Seq([kind : Kind, done : Nat])
  BY <1>1, MadeFacts DEF Nested
<1>6. /\ stack' \in Seq([kind : Kind, done : Nat]) /\ Len(stack') = n + 1
      /\ \A i \in 1..n : stack'[i] = stack[i]
      /\ stack'[n + 1] = [kind |-> kind, done |-> 0]
      /\ stack'[n + 1].kind = kind /\ stack'[n + 1].done = 0
  BY <1>2, <1>4, <1>5, AppendProperties
<1>7. Unfinished' = Unfinished \union {kind}
  <2>1. 1..(n + 1) = 1..n \union {n + 1}
    BY <1>5
  <2>. QED
    BY <1>6, <2>1 DEF Unfinished
<1>8. /\ alive \in [Kind -> Nat] /\ alive'[kind] = alive[kind] + 1
      /\ \A k \in Kind : k # kind => alive'[k] = alive[k]
      /\ alive' \in [Kind -> Nat]
  BY <1>1, <1>2, <1>4 DEF Counted
\* What belongs to the new object is not there yet.
<1>9. \A p \in Parts(kind) : p \notin Made /\ p # kind /\ p \in Kind
  <2>1. \A p \in Parts(kind) : p # kind /\ p \in Kind
    BY <1>4, PartsFacts, NotOwnPart
  <2>. QED
    BY <1>1, <1>4, <2>1 DEF Owned
<1>10. \A k \in Kind : kind \in Parts(k) => k \in Made /\ k \in Unfinished /\ k = Top.kind
                                            /\ stack # <<>>
  <2>. SUFFICES ASSUME NEW k \in Kind, kind \in Parts(k)
                PROVE  k \in Made /\ k \in Unfinished /\ k = Top.kind /\ stack # <<>>
    OBVIOUS
  <2>1. kind \notin {"frame", "sid_sync"} /\ Owner(kind) = k
    BY PartsFacts
  <2>2. stack # <<>>
    BY <1>4, <2>1 DEF Root
  <2>3. Top.kind \in Kind
    BY <1>1, <2>2, TopFacts
  <2>. QED
    BY <1>4, <2>1, <2>2, <2>3, PartsFacts
<1>11. Made' = Made \union {kind}
  <2>1. "lsp" \in Kind /\ "q_plsf" \in Kind /\ "q_plsf" \in Parts("lsp")
    BY LspFacts
  <2>2. ASSUME NEW k \in Kind, k # "lsp"
        PROVE  k \in Made' <=> k \in Made \/ k = kind
    <3>1. (k \in Made' <=> alive'[k] > 0) /\ (k \in Made <=> alive[k] > 0)
      BY <2>2 DEF Made
    <3>. QED
      BY <1>4, <1>8, <2>2, <3>1
  <2>3. "lsp" \in Made' <=> "lsp" \in Made \/ "lsp" = kind
    <3>1. /\ "lsp" \in Made' <=> "lsp" \in Unfinished' \/ alive'["q_plsf"] > 0
          /\ "lsp" \in Made <=> "lsp" \in Unfinished \/ alive["q_plsf"] > 0
      BY <2>1 DEF Made
    <3>2. kind = "q_plsf" => "lsp" \in Made
      BY <1>10, <2>1
    <3>. QED
      BY <1>7, <1>8, <2>1, <3>1, <3>2
  <2>4. Made' \subseteq Kind
    BY DEF Made
  <2>. QED
    BY <1>4, <1>5, <2>2, <2>3, <2>4
<1>12. Counted'
  <2>1. inits' = inits /\ caller' = caller /\ failing' = failing
    BY <1>3
  <2>2. ASSUME NEW k \in Kind \ {"lsp"} PROVE alive'[k] <= 1
    <3>1. CASE k = kind
      <4>1. alive[k] = 0
        BY <1>4, <1>8, <2>2, <3>1 DEF Made
      <4>. QED
        BY <1>8, <3>1, <4>1
    <3>2. CASE k # kind
      BY <1>1, <1>8, <3>2 DEF Counted
    <3>. QED
      BY <3>1, <3>2
  <2>3. /\ "lsp" \in Made' => alive'["lsp"] > 0
        /\ alive'["lsp"] <= inits
        /\ (caller = "codec" /\ ~failing /\ "lsp" \notin Made') => alive'["lsp"] < inits
    <3>1. "lsp" \in Kind /\ alive["lsp"] \in Nat /\ inits \in Nat
      BY <1>1, <1>8, LspFacts DEF Counted
    <3>2. CASE kind = "lsp"
      <4>1. caller = "codec"
        BY <1>3, <1>4, <3>2 DEF Root
      <4>2. alive["lsp"] < inits
        BY <1>1, <1>3, <1>4, <3>2, <4>1 DEF Counted
      <4>. QED
        BY <1>8, <1>11, <3>1, <3>2, <4>2
    <3>3. CASE kind # "lsp"
      BY <1>1, <1>8, <1>11, <3>1, <3>3 DEF Counted
    <3>. QED
      BY <3>2, <3>3
  <2>. QED
    BY <1>1, <1>8, <2>1, <2>2, <2>3 DEF Counted
<1>13. Owned'
  BY <1>1, <1>10, <1>11 DEF Owned
<1>14. /\ field' \in [Kind -> {"null", "set", "wild"}] /\ field'[kind] = "null"
       /\ \A p \in Parts(kind) : field'[p] = "null" \/ (field'[p] = "wild" /\ ~Shape[kind].clears)
       /\ \A k \in Made : field'[k] = field[k]
       /\ \A k \in Kind : k # kind /\ k \notin Parts(kind) => field'[k] = field[k]
  <2>1. field \in [Kind -> {"null", "set", "wild"}]
    BY <1>1 DEF Linked
  <2>2. \A k \in Kind : field'[k] = CASE k = kind -> "null"
               [] k \in Parts(kind) -> IF Shape[kind].clears THEN "null" ELSE "wild"
               [] OTHER -> field[k]
    BY <1>2
  <2>3. field' \in [Kind -> {"null", "set", "wild"}]
    BY <1>2, <2>1
  <2>. QED
    BY <1>4, <1>5, <1>9, <2>1, <2>2, <2>3
<1>15. Linked'
  <2>. SUFFICES ASSUME NEW k \in Made', NEW p \in Parts(k)
                PROVE  /\ p \in Made' => p \in Unfinished' \/ field'[p] = "set"
                       /\ p \notin Made' => field'[p] = "null" \/ MayBeWild(k)'
                       /\ k \notin Unfinished' => p \in Made' /\ p \notin Unfinished'
    BY <1>14 DEF Linked
  <2>1. CASE k = kind
    <3>1. stack' # <<>> /\ Top'.kind = kind
      BY <1>5, <1>6, EmptySeq DEF Top
    <3>. QED
      BY <1>3, <1>7, <1>9, <1>11, <1>14, <2>1, <3>1 DEF MayBeWild
  <2>2. CASE k # kind /\ p = kind
    BY <1>5, <1>7, <1>10, <1>11, <2>2
  <2>3. CASE k # kind /\ p # kind
    <3>1. k \in Made /\ k \in Kind /\ p \in Kind /\ p \notin Parts(kind)
      BY <1>4, <1>5, <1>11, <2>3, PartsFacts
    <3>2. field'[p] = field[p]
      BY <1>14, <2>3, <3>1
    <3>3. ~MayBeWild(k)
      BY <1>4, <2>3 DEF MayBeWild
    <3>. QED
      BY <1>1, <1>7, <1>11, <2>3, <3>1, <3>2, <3>3 DEF Linked
  <2>. QED
    BY <2>1, <2>2, <2>3
<1>16. ASSUME NEW i \in 1..n PROVE InitUnderWay(i)'
  <2>. DEFINE parts == Shape[stack[i].kind].parts
              done  == stack[i].done
  <2>1. i \in Nat /\ i <= n /\ i < Len(stack') /\ stack'[i] = stack[i]
    BY <1>5, <1>6
  <2>2. /\ InitUnderWay(i) /\ stack[i].kind \in Kind
        /\ done \in Nat /\ Len(parts) \in Nat
        /\ \A j \in 1..Len(parts) : parts[j] \in Parts(stack[i].kind)
    BY <1>1, FrameFacts
  <2>3. stack[i].kind \in Made' /\ field'[stack[i].kind] = "null" /\ done <= Len(parts)
    BY <1>11, <1>14, <2>2 DEF InitUnderWay
  <2>4. done < Len(parts) /\ stack'[i + 1].kind = parts[done + 1]
    <3>1. CASE i < n
      <4>1. done < Len(parts) /\ stack[i + 1].kind = parts[done + 1]
        BY <2>2, <3>1 DEF InitUnderWay
      <4>2. i + 1 \in 1..n
        BY <1>5, <2>1, <3>1
      <4>3. stack'[i + 1] = stack[i + 1]
        BY <1>6, <4>2
      <4>. QED
        BY <4>1, <4>3
    <3>2. CASE i = n
      <4>1. stack # <<>>
        BY <1>5, <2>1, <3>2, EmptySeq
      <4>2. Top = stack[i]
        BY <3>2 DEF Top
      <4>. QED
        BY <1>4, <1>6, <3>2, <4>1, <4>2
    <3>. QED
      BY <1>5, <2>1, <3>1, <3>2
  <2>5. ASSUME NEW j \in 1..Len(parts)
        PROVE  /\ j <= done => parts[j] \in Made' /\ parts[j] \notin Unfinished'
               /\ (j > done /\ parts[j] \in Made') => j = done + 1
    <3>1. /\ j <= done => parts[j] \in Made /\ parts[j] \notin Unfinished
          /\ (j > done /\ parts[j] \in Made) => j = done + 1
      BY <2>2 DEF InitUnderWay
    <3>2. parts[j] = kind => j = done + 1
      <4>. SUFFICES ASSUME parts[j] = kind PROVE j = done + 1
        OBVIOUS
      <4>1. stack[i].kind = Top.kind /\ stack # <<>>
        BY <1>10, <2>2
      <4>2. n \in 1..n /\ Top = stack[n]
        BY <1>1, <4>1, TopFacts
      <4>3. i = n
        BY <1>1, <4>1, <4>2 DEF Nested
      <4>4. Top.done = done /\ Shape[Top.kind].parts = parts
        BY <4>2, <4>3
      <4>5. done + 1 \in 1..Len(parts) /\ parts[done + 1] = parts[j]
        BY <1>4, <2>2, <4>1, <4>4
      <4>6. \A a, b \in 1..Len(parts) : parts[a] = parts[b] => a = b
        BY <2>2, PartsFacts
      <4>. QED
        BY <4>5, <4>6
    <3>3. j <= done => j # done + 1
      BY <2>2
    <3>. QED
      BY <1>4, <1>7, <1>11, <3>1, <3>2, <3>3
  <2>. QED
    BY <2>1, <2>3, <2>4, <2>5 DEF InitUnderWay
<1>17. ASSUME NEW i, i = n + 1 PROVE InitUnderWay(i)'
  <2>. DEFINE parts == Shape[kind].parts
  <2>1. Len(parts) \in Nat
    BY <1>4, Tree DEF WellShaped
  <2>2. \A j \in 1..Len(parts) : parts[j] \notin Made'
    BY <1>4, <1>9, <1>11, PartsFacts
  <2>3. ~(i < Len(stack')) /\ 0 <= Len(parts) /\ \A j \in 1..Len(parts) : ~(j <= 0)
    BY <1>5, <1>6, <1>17, <2>1
  <2>4. stack'[i].kind = kind /\ stack'[i].done = 0
    BY <1>6, <1>17
  <2>5. kind \in Made' /\ field'[kind] = "null"
    BY <1>11, <1>14
  <2>. QED
    BY <2>2, <2>3, <2>4, <2>5 DEF InitUnderWay
<1>18. Nested'
  <2>1. \A i \in 1..Len(stack') : i \in 1..n \/ i = n + 1
    BY <1>5, <1>6
  <2>2. \A i, j \in 1..Len(stack') : stack'[i].kind = stack'[j].kind => i = j
    <3>1. \A i \in 1..n : stack'[i].kind \in Unfinished
      BY <1>6 DEF Unfinished
    <3>2. \A i, j \in 1..n : stack'[i].kind = stack'[j].kind => i = j
      BY <1>1, <1>6 DEF Nested
    <3>. QED
      BY <1>4, <1>6, <2>1, <3>1, <3>2
  <2>3. stack'[1].kind = Root'
    <3>1. Root' = Root
      BY <1>3 DEF Root
    <3>2. CASE stack = <<>>
      BY <1>4, <1>5, <1>6, <3>1, <3>2, EmptySeq
    <3>3. CASE stack # <<>>
      <4>1. 1 \in 1..n /\ stack[1].kind = Root
        BY <1>1, <3>3, TopFacts DEF Nested
      <4>. QED
        BY <1>6, <3>1, <4>1
    <3>. QED
      BY <3>2, <3>3
  <2>4. failing' = failing
    BY <1>3
  <2>5. \A i \in 1..Len(stack') : InitUnderWay(i)'
    BY <1>16, <1>17, <2>1
  <2>6. stack' \in Seq([kind : Kind, done : Nat]) /\ ~failing'
    BY <1>3, <1>6
  <2>. QED
    BY <2>2, <2>3, <2>5, <2>6 DEF Nested
<1>19. Called'
  <2>1. stack' # <<>>
    BY <1>5, <1>6, EmptySeq
  <2>2. caller = "codec" => kind # "sid_sync"
    BY <1>4 DEF Root
  <2>3. caller = "sid" => kind = "sid_sync"
    BY <1>4 DEF Root
  <2>4. caller = "sid" => Returned("frame")'
    <3>. SUFFICES ASSUME caller = "sid" PROVE Returned("frame")'
      OBVIOUS
    <3>1. "frame" \in Kind /\ "frame" # kind /\ "frame" \notin Parts(kind)
      BY <1>4, <2>3, PartsFacts, Kinds
    <3>2. field'["frame"] = field["frame"] /\ ("frame" \in Made' <=> "frame" \in Made)
      BY <1>11, <1>14, <3>1
    <3>. QED
      BY <1>1, <1>3, <3>2 DEF Called, Returned
  <2>. QED
    BY <1>1, <1>3, <1>5, <1>11, <2>1, <2>2, <2>4 DEF Called
<1>. QED
  BY <1>3, <1>12, <1>13, <1>15, <1>18, <1>19 DEF HeapInv, CrashMeansFailure

LEMMA AllocateFailsStep ==
  ASSUME HeapInv, AllocateFails
  PROVE  HeapInv'
<1>1. Building /\ Nested /\ Called /\ Owned /\ Linked /\ Counted
  BY DEF AllocateFails, HeapInv
<1>2. PICK kind \in Wanted : field' = [field EXCEPT ![kind] = "null"]
  BY DEF AllocateFails
<1>3. /\ UNCHANGED <<alive, wrapper, stack, caller, fault, inits>>
      /\ failing' = TRUE /\ failed' = TRUE
      /\ Running /\ ~failing /\ caller \in {"codec", "sid"}
  BY <1>1 DEF AllocateFails, Building
<1>4. /\ kind \in Kind /\ kind \notin Made /\ kind \notin Unfinished
      /\ stack = <<>> => kind = Root
      /\ stack # <<>> =>
           /\ kind \in Parts(Top.kind) /\ Top.kind \in Made /\ Top.kind \in Unfinished
           /\ kind \notin {"frame", "sid_sync"}
           /\ Top.done < Len(Shape[Top.kind].parts)
           /\ kind = Shape[Top.kind].parts[Top.done + 1]
           /\ caller = "codec"
           /\ \A p \in Parts(Top.kind) : p = kind \/ Shape[Top.kind].clears
  BY <1>1, WantedFacts
<1>5. Made \subseteq Kind /\ Unfinished \subseteq Made
  BY <1>1, MadeFacts
<1>6. Unfinished' = Unfinished /\ Made' = Made
  BY <1>3, SameHeap
<1>7. /\ field \in [Kind -> {"null", "set", "wild"}]
      /\ field' \in [Kind -> {"null", "set", "wild"}]
      /\ field'[kind] = "null" /\ \A k \in Kind : k # kind => field'[k] = field[k]
  BY <1>1, <1>2, <1>4 DEF Linked
<1>8. Counted' /\ Owned'
  BY <1>1, <1>3, <1>6 DEF Counted, Owned
<1>9. Linked'
  <2>. SUFFICES ASSUME NEW k \in Made, NEW p \in Parts(k)
                PROVE  /\ p \in Made => p \in Unfinished \/ field'[p] = "set"
                       /\ p \notin Made => field'[p] = "null"
                       /\ k \notin Unfinished => p \in Made /\ p \notin Unfinished
    BY <1>6, <1>7 DEF Linked
  <2>1. p \in Kind
    BY <1>5, PartsFacts
  <2>2. CASE p = kind
    BY <1>1, <1>4, <1>7, <2>2 DEF Linked
  <2>3. CASE p # kind
    <3>1. ~MayBeWild(k)
      BY <1>4, <2>3 DEF MayBeWild
    <3>. QED
      BY <1>1, <1>7, <2>1, <2>3, <3>1 DEF Linked
  <2>. QED
    BY <2>2, <2>3
<1>10. Nested'
  <2>1. ASSUME NEW i \in 1..Len(stack) PROVE InitUnderWay(i)'
    <3>1. InitUnderWay(i)
      BY <1>1 DEF Nested
    <3>2. field'[stack[i].kind] = "null"
      BY <1>4, <1>5, <1>7, <3>1 DEF InitUnderWay
    <3>. QED
      BY <1>3, <1>6, <3>1, <3>2 DEF InitUnderWay
  <2>2. stack # <<>> => field'[Shape[Top.kind].parts[Top.done + 1]] = "null"
    BY <1>4, <1>7
  <2>. QED
    BY <1>1, <1>3, <1>4, <2>1, <2>2 DEF Nested, Root, Top
<1>11. Called'
  <2>1. caller = "sid" => Returned("frame")'
    <3>. SUFFICES ASSUME caller = "sid" PROVE Returned("frame")'
      OBVIOUS
    <3>1. kind = "sid_sync" /\ "frame" \in Kind
      BY <1>4, Kinds DEF Root
    <3>2. field'["frame"] = field["frame"]
      BY <1>7, <3>1
    <3>. QED
      BY <1>1, <1>3, <1>6, <3>2 DEF Called, Returned
  <2>2. stack = <<>> => field'[Root] = "null"
    BY <1>4, <1>7
  <2>. QED
    BY <1>1, <1>3, <1>6, <2>1, <2>2 DEF Called, Root
<1>. QED
  BY <1>3, <1>8, <1>9, <1>10, <1>11 DEF HeapInv, CrashMeansFailure, Running

LEMMA FrontFacts ==
  ASSUME NEW S, NEW s \in Seq(S), NEW n \in Nat, n = Len(s), n >= 1
  PROVE  /\ SubSeq(s, 1, n - 1) \in Seq(S) /\ Len(SubSeq(s, 1, n - 1)) = n - 1
         /\ \A i \in 1..(n - 1) : SubSeq(s, 1, n - 1)[i] = s[i]
OBVIOUS

\* What is left of the stack when the init function called last returns.
LEMMA PopFacts ==
  ASSUME Nested, stack # <<>>
  PROVE  LET n == Len(stack)
         IN  /\ Pop(stack) \in Seq([kind : Kind, done : Nat]) /\ Len(Pop(stack)) = n - 1
             /\ \A i \in 1..(n - 1) : Pop(stack)[i] = stack[i] /\ stack[i].kind # Top.kind
             /\ {stack[i].kind : i \in 1..(n - 1)} = Unfinished \ {Top.kind}
             /\ Pop(stack) = <<>> <=> n = 1
<1>. DEFINE n == Len(stack)
            S == [kind : Kind, done : Nat]
<1>1. stack \in Seq(S) /\ n \in Nat /\ n >= 1 /\ n \in 1..n /\ Top = stack[n]
  BY TopFacts DEF Nested
<1>2. \A i \in 1..(n - 1) : i \in 1..n /\ i # n
  BY <1>1
<1>3. Pop(stack) = SubSeq(stack, 1, n - 1)
  BY DEF Pop
<1>4. Pop(stack) \in Seq(S) /\ Len(Pop(stack)) = n - 1
  BY <1>1, <1>3, FrontFacts
<1>5. Len(Pop(stack)) = n - 1
  BY <1>4
<1>6. \A i \in 1..(n - 1) : Pop(stack)[i] = stack[i]
  BY <1>1, <1>3, FrontFacts
<1>7. \A i \in 1..(n - 1) : stack[i].kind # Top.kind
  BY <1>1, <1>2 DEF Nested
<1>8. {stack[i].kind : i \in 1..(n - 1)} = Unfinished \ {Top.kind}
  <2>1. \A i \in 1..n : i \in 1..(n - 1) \/ i = n
    BY <1>1
  <2>. QED
    BY <1>1, <1>2, <1>7, <2>1 DEF Unfinished
<1>9. Pop(stack) = <<>> <=> n = 1
  <2>1. Pop(stack) = <<>> <=> Len(Pop(stack)) = 0
    BY <1>4, EmptySeq
  <2>. QED
    BY <1>1, <1>5, <2>1
<1>. QED
  BY <1>4, <1>5, <1>6, <1>7, <1>8, <1>9

LEMMA FinishStep ==
  ASSUME HeapInv, Finish
  PROVE  HeapInv'
<1>. DEFINE n == Len(stack)
            K == Top.kind
<1>1. Building /\ Nested /\ Called /\ Owned /\ Linked /\ Counted
  BY DEF Finish, HeapInv
<1>2. /\ Wanted = {} /\ field' = [field EXCEPT ![K] = "set"]
      /\ stack' = IF n = 1 THEN <<>> ELSE [Pop(stack) EXCEPT ![n - 1].done = @ + 1]
      /\ caller' = IF n = 1 THEN Onwards ELSE caller
      /\ UNCHANGED <<alive, wrapper, failing, failed, fault, inits>>
      /\ Running /\ ~failing /\ caller \in {"codec", "sid"}
  BY <1>1 DEF Finish, Building
<1>3. stack # <<>> /\ ~(Top.done < Len(Shape[K].parts))
  BY <1>2 DEF Wanted
<1>4. /\ n \in Nat /\ n >= 1 /\ K \in Kind /\ K \in Made /\ K \in Unfinished
      /\ Top = stack[n] /\ n \in 1..n
  BY <1>1, <1>3, TopFacts
\* Every part of the object is there.
<1>5. \A p \in Parts(K) : p \in Made /\ p \notin Unfinished /\ p \in Kind
  <2>1. \A j \in 1..Len(Shape[K].parts) : j <= Top.done
    BY <1>1, <1>3, TopFacts
  <2>2. \A j \in 1..Len(Shape[K].parts) :
          Shape[K].parts[j] \in Made /\ Shape[K].parts[j] \notin Unfinished
    BY <1>1, <1>3, <2>1, TopFacts
  <2>. QED
    BY <1>4, <2>2, PartsFacts
<1>6. Made \subseteq Kind /\ Unfinished \subseteq Made
  BY <1>1, MadeFacts
<1>7. /\ field \in [Kind -> {"null", "set", "wild"}]
      /\ field' \in [Kind -> {"null", "set", "wild"}]
      /\ field'[K] = "set" /\ \A k \in Kind : k # K => field'[k] = field[k]
  <2>1. field \in [Kind -> {"null", "set", "wild"}]
    BY <1>1 DEF Linked
  <2>. HIDE DEF K
  <2>. QED
    BY <1>2, <1>4, <2>1
<1>8. /\ Len(stack') = n - 1 /\ stack' \in Seq([kind : Kind, done : Nat])
      /\ \A i \in 1..(n - 1) :
           /\ stack'[i].kind = stack[i].kind /\ stack[i].kind # K
           /\ stack'[i].done = IF i = n - 1 THEN stack[i].done + 1 ELSE stack[i].done
      /\ stack' = <<>> <=> n = 1
  <2>1. /\ Pop(stack) \in Seq([kind : Kind, done : Nat]) /\ Len(Pop(stack)) = n - 1
        /\ \A i \in 1..(n - 1) : Pop(stack)[i] = stack[i] /\ stack[i].kind # K
        /\ Pop(stack) = <<>> <=> n = 1
    BY <1>1, <1>3, PopFacts
  <2>2. CASE n = 1
    <3>1. stack' = <<>> /\ Len(<<>>) = 0 /\ <<>> \in Seq([kind : Kind, done : Nat])
      BY <1>2, <2>2, EmptySeq
    <3>2. \A i \in 1..(n - 1) : FALSE
      BY <2>2
    <3>. QED
      BY <2>2, <3>1, <3>2
  <2>3. CASE n # 1
    <3>. DEFINE f == [Pop(stack)[n - 1] EXCEPT !.done = @ + 1]
                S == [kind : Kind, done : Nat]
    <3>1. n - 1 \in 1..(n - 1)
      BY <1>4, <2>3
    <3>2. stack' = [Pop(stack) EXCEPT ![n - 1] = f]
      BY <1>2, <2>3
    <3>3. Pop(stack)[n - 1] = stack[n - 1] /\ stack[n - 1] \in S
      BY <2>1, <3>1, ElementOfSeq
    <3>4. f \in S /\ f.kind = stack[n - 1].kind /\ f.done = stack[n - 1].done + 1
      BY <3>3
    <3>. HIDE DEF f, S
    <3>5. /\ stack' \in Seq(S) /\ Len(stack') = n - 1
          /\ \A i \in 1..(n - 1) : stack'[i] = IF i = n - 1 THEN f ELSE Pop(stack)[i]
      BY <2>1, <3>1, <3>2, <3>4, ExceptSeq DEF S
    <3>6. stack' # <<>>
      BY <3>1, <3>5, EmptySeq
    <3>. QED
      BY <2>1, <2>3, <3>3, <3>4, <3>5, <3>6 DEF S
  <2>. QED
    BY <2>2, <2>3
<1>. HIDE DEF K
<1>9. Unfinished' = Unfinished \ {K}
  <2>1. Unfinished' = {stack'[i].kind : i \in 1..(n - 1)}
    <3>1. Len(stack') = n - 1
      BY <1>8
    <3>. QED
      BY <3>1 DEF Unfinished
  <2>2. \A i \in 1..(n - 1) : stack'[i].kind = stack[i].kind
    BY <1>8
  <2>3. {stack[i].kind : i \in 1..(n - 1)} = Unfinished \ {K}
    BY <1>1, <1>3, PopFacts DEF K
  <2>. HIDE DEF n
  <2>. QED
    BY <2>1, <2>2, <2>3
<1>10. Made' = Made
  <2>1. \A k \in Kind : k # "lsp" => (k \in Made' <=> k \in Made)
    BY <1>2 DEF Made
  <2>2. "lsp" \in Made' <=> "lsp" \in Made
    <3>1. K = "lsp" => alive["q_plsf"] > 0
      <4>. SUFFICES ASSUME K = "lsp" PROVE alive["q_plsf"] > 0
        OBVIOUS
      <4>1. "q_plsf" \in Made
        BY <1>5, LspFacts
      <4>. QED
        BY <4>1 DEF Made
    <3>. QED
      BY <1>2, <1>9, <3>1 DEF Made
  <2>. QED
    BY <2>1, <2>2 DEF Made
<1>11. Counted'
  <2>1. caller' # "idle"
    BY <1>2 DEF Onwards
  <2>2. caller' = "codec" => caller = "codec"
    BY <1>2 DEF Onwards
  <2>. QED
    BY <1>1, <1>2, <1>10, <2>1, <2>2 DEF Counted
<1>12. Owned'
  BY <1>1, <1>10 DEF Owned
<1>13. Linked'
  <2>. SUFFICES ASSUME NEW k \in Made, NEW p \in Parts(k)
                PROVE  /\ p \in Made => p \in Unfinished' \/ field'[p] = "set"
                       /\ p \notin Made => field'[p] = "null"
                       /\ k \notin Unfinished' => p \in Made /\ p \notin Unfinished'
    BY <1>7, <1>10 DEF Linked
  <2>1. p \in Kind /\ Owner(p) = k
    BY <1>6, PartsFacts
  <2>2. CASE p = K
    <3>1. k # K
      BY <2>1, <2>2, NotOwnPart
    <3>2. k \in Unfinished
      BY <1>1, <1>4, <2>2 DEF Linked
    <3>. QED
      BY <1>4, <1>7, <1>9, <2>2, <3>1, <3>2
  <2>3. CASE p # K /\ k = K
    <3>1. field[p] = "set"
      BY <1>1, <1>4, <1>5, <2>3 DEF Linked
    <3>. QED
      BY <1>5, <1>7, <1>9, <2>1, <2>3, <3>1
  <2>4. CASE p # K /\ k # K
    <3>1. ~MayBeWild(k)
      BY <2>4 DEF MayBeWild, K
    <3>. QED
      BY <1>1, <1>7, <1>9, <2>1, <2>4, <3>1 DEF Linked
  <2>. QED
    BY <2>2, <2>3, <2>4
<1>14. ASSUME NEW i \in 1..(n - 1) PROVE InitUnderWay(i)'
  <2>. DEFINE parts == Shape[stack[i].kind].parts
              done  == stack[i].done
  <2>1. i \in 1..n /\ i \in Nat /\ i < n /\ i + 1 \in 1..n /\ i <= n - 1
    BY <1>4
  <2>2. /\ InitUnderWay(i) /\ stack[i].kind \in Kind
        /\ done \in Nat /\ Len(parts) \in Nat
    BY <1>1, <2>1, FrameFacts
  <2>3. stack'[i].kind = stack[i].kind /\ stack[i].kind # K
    BY <1>8
  <2>4. stack[i].kind \in Made' /\ field'[stack[i].kind] = "null"
    BY <1>7, <1>10, <2>2, <2>3 DEF InitUnderWay
  <2>5. done < Len(parts) /\ stack[i + 1].kind = parts[done + 1]
    BY <2>1, <2>2 DEF InitUnderWay
  <2>6. \A j \in 1..Len(parts) :
          /\ j <= done => parts[j] \in Made /\ parts[j] \notin Unfinished
          /\ (j > done /\ parts[j] \in Made) => j = done + 1
    BY <2>2 DEF InitUnderWay
  <2>7. CASE i = n - 1
    <3>1. stack'[i].done = done + 1 /\ ~(i < Len(stack')) /\ i + 1 = n
      BY <1>4, <1>8, <2>7
    <3>2. parts[done + 1] = K
      BY <1>4, <2>5, <3>1 DEF K
    <3>3. ASSUME NEW j \in 1..Len(parts)
          PROVE  /\ j <= done + 1 => parts[j] \in Made' /\ parts[j] \notin Unfinished'
                 /\ ~(j > done + 1 /\ parts[j] \in Made')
      <4>1. CASE j = done + 1
        BY <1>4, <1>9, <1>10, <2>2, <3>2, <4>1
      <4>2. CASE j # done + 1
        <5>1. (j <= done + 1 => j <= done) /\ (j > done + 1 => j > done)
          BY <2>2, <4>2
        <5>. QED
          BY <1>9, <1>10, <2>6, <4>2, <5>1
      <4>. QED
        BY <4>1, <4>2
    <3>4. done + 1 <= Len(parts)
      BY <2>2, <2>5
    <3>. QED
      BY <2>3, <2>4, <3>1, <3>3, <3>4 DEF InitUnderWay
  <2>8. CASE i # n - 1
    <3>1. stack'[i].done = done /\ i < Len(stack') /\ i + 1 \in 1..(n - 1)
      BY <1>4, <1>8, <2>8
    <3>2. stack'[i + 1].kind = parts[done + 1] /\ done <= Len(parts)
      <4>1. \A l \in 1..(n - 1) : stack'[l].kind = stack[l].kind
        BY <1>8
      <4>. HIDE DEF parts, done
      <4>2. stack'[i + 1].kind = stack[i + 1].kind
        BY <3>1, <4>1
      <4>. QED
        BY <2>2, <2>5, <4>2
    <3>3. ASSUME NEW j \in 1..Len(parts)
          PROVE  /\ j <= done => parts[j] \in Made' /\ parts[j] \notin Unfinished'
                 /\ (j > done /\ parts[j] \in Made') => j = done + 1
      <4>1. /\ j <= done => parts[j] \in Made /\ parts[j] \notin Unfinished
            /\ (j > done /\ parts[j] \in Made) => j = done + 1
        BY <2>6
      <4>. HIDE DEF parts, done
      <4>. QED
        BY <1>9, <1>10, <4>1
    <3>4. /\ Shape[stack'[i].kind].parts = parts
          /\ stack'[i].kind \in Made' /\ field'[stack'[i].kind] = "null"
      BY <2>3, <2>4
    <3>. HIDE DEF parts, done
    <3>. QED
      BY <2>5, <3>1, <3>2, <3>3, <3>4 DEF InitUnderWay
  <2>. QED
    BY <2>7, <2>8
<1>15. Nested'
  <2>1. \A i \in 1..Len(stack') : InitUnderWay(i)'
    BY <1>8, <1>14
  <2>2. \A i, j \in 1..Len(stack') : stack'[i].kind = stack'[j].kind => i = j
    <3>1. \A i \in 1..(n - 1) : i \in 1..n
      BY <1>4
    <3>2. \A i, j \in 1..n : stack[i].kind = stack[j].kind => i = j
      BY <1>1 DEF Nested
    <3>. QED
      BY <1>8, <3>1, <3>2
  <2>3. stack' # <<>> => stack'[1].kind = Root'
    <3>. SUFFICES ASSUME stack' # <<>> PROVE stack'[1].kind = Root'
      OBVIOUS
    <3>1. n # 1 /\ 1 \in 1..(n - 1) /\ 1 \in 1..n
      BY <1>4, <1>8
    <3>2. stack[1].kind = Root /\ Root' = Root
      BY <1>1, <1>2, <1>3, <3>1 DEF Nested, Root
    <3>. QED
      BY <1>8, <3>1, <3>2
  <2>. QED
    BY <1>2, <1>8, <2>1, <2>2, <2>3 DEF Nested
<1>16. Called'
  <2>1. CASE n = 1
    <3>1. stack' = <<>> /\ caller' = Onwards /\ K = Root
      BY <1>1, <1>2, <1>3, <1>4, <2>1 DEF Nested, K
    <3>2. CASE caller = "codec"
      <4>1. K = "frame" /\ caller' = "sid" /\ Root' = "sid_sync"
        BY <3>1, <3>2 DEF Root, Onwards
      <4>2. Returned("frame")'
        BY <1>4, <1>7, <1>10, <4>1 DEF Returned
      <4>. QED
        BY <1>1, <1>2, <1>10, <3>1, <3>2, <4>1, <4>2 DEF Called
    <3>3. CASE caller = "sid"
      <4>1. K = "sid_sync" /\ caller' = "open" /\ "frame" \in Kind
        BY <3>1, <3>3, Kinds DEF Root, Onwards
      <4>2. Returned("sid_sync")'
        BY <1>4, <1>7, <1>10, <4>1 DEF Returned
      <4>3. Returned("frame")'
        BY <1>1, <1>2, <1>7, <1>10, <3>3, <4>1 DEF Called, Returned
      <4>. QED
        BY <1>1, <1>2, <1>10, <3>1, <3>3, <4>1, <4>2, <4>3 DEF Called
    <3>. QED
      BY <1>2, <3>2, <3>3
  <2>2. CASE n # 1
    <3>1. caller = "codec" /\ caller' = "codec" /\ stack' # <<>>
      BY <1>1, <1>2, <1>3, <1>8, <2>2, SidAlone
    <3>. QED
      BY <1>1, <1>2, <1>10, <3>1 DEF Called
  <2>. QED
    BY <2>1, <2>2
<1>. QED
  BY <1>2, <1>11, <1>12, <1>13, <1>15, <1>16 DEF HeapInv, CrashMeansFailure, Running

\* What an exit function removes when its caller gives up: the objects made
\* so far, from the one whose init function failed upwards.
LEMMA UndoneFacts ==
  ASSUME HeapInv, stack # <<>>, failing
  PROVE  LET K == Top.kind
             G == Reached[K]
         IN  /\ G \subseteq Made /\ K \in G
             /\ \A j \in G \ {K} : j \notin Unfinished /\ field[j] = "set" /\ Owner(j) \in G
             /\ \A k \in G : \A p \in Parts(k) : p \in Made => p \in G
<1>. DEFINE K == Top.kind
            G == Reached[K]
            S == {j \in Made \intersect G :
                    j = K \/ (j \notin Unfinished /\ field[j] = "set" /\ Owner(j) \in G)}
<1>1. Nested /\ Linked /\ Made \subseteq Kind /\ Unfinished \subseteq Made
      /\ \A k \in Unfinished : field[k] = "null"
  BY MadeFacts DEF HeapInv
<1>2. K \in Kind /\ K \in Made /\ K \in Unfinished
  BY <1>1, TopFacts
<1>3. \A k : ~MayBeWild(k)
  BY DEF MayBeWild
<1>. HIDE DEF K
<1>4. K \in G
  BY <1>2, ReachedClosed
<1>5. ASSUME NEW k \in S, NEW p \in Attached(k) PROVE p \in S
  <2>1. k \in Made /\ k \in Kind /\ k \in G /\ p \in Parts(k) /\ field[p] # "null"
    BY <1>1 DEF Attached
  <2>2. p \in G
    BY <1>2, <2>1, ReachedClosed
  <2>3. p \in Made
    BY <1>1, <1>3, <2>1 DEF Linked
  <2>4. p \notin Unfinished /\ field[p] = "set"
    BY <1>1, <2>1, <2>3 DEF Linked
  <2>5. Owner(p) = k
    BY <2>1, PartsFacts
  <2>. QED
    BY <2>1, <2>2, <2>3, <2>4, <2>5
<1>6. G \subseteq S
  <2>1. S \in SUBSET Kind /\ \A k \in S : Attached(k) \subseteq S
    BY <1>1, <1>5
  <2>2. K \in S
    BY <1>2, <1>4
  <2>. HIDE DEF S, G
  <2>3. Reached[K] \subseteq S
    BY <2>1, <2>2, ReachedLeast
  <2>. QED
    BY <2>3 DEF G
<1>7. ASSUME NEW k \in G, NEW p \in Parts(k), p \in Made PROVE p \in G
  <2>1. k \in Kind /\ k \in Made
    BY <1>1, <1>6
  <2>2. p \notin Unfinished
    <3>1. CASE k = K
      <4>1. PICK j \in 1..Len(Shape[K].parts) : p = Shape[K].parts[j]
        BY <1>2, <3>1, PartsFacts
      <4>2. j <= Top.done
        BY <1>1, <1>7, <4>1, TopFacts DEF K
      <4>. QED
        BY <1>1, <4>1, <4>2, TopFacts DEF K
    <3>2. CASE k # K
      BY <1>1, <1>6, <2>1, <3>2 DEF Linked
    <3>. QED
      BY <3>1, <3>2
  <2>3. field[p] = "set"
    BY <1>1, <1>7, <2>1, <2>2 DEF Linked
  <2>4. p \in Attached(k)
    BY <2>3 DEF Attached
  <2>. QED
    BY <1>2, <2>1, <2>4, ReachedClosed
<1>. QED
  BY <1>4, <1>6, <1>7 DEF K

\* The init function called last gives up: it and what it made are gone.
LEMMA UnwoundInv ==
  ASSUME HeapInv, stack # <<>>, failing,
         stack' = Pop(stack),
         UNCHANGED <<field, wrapper, failing, caller, failed, inits>>,
         NEW G, Top.kind \in G, G \subseteq Made,
         \A j \in G \ {Top.kind} : j \notin Unfinished /\ Owner(j) \in G,
         \A k \in G : \A p \in Parts(k) : p \in Made => p \in G,
         Unfinished' = Unfinished \ {Top.kind}, Made' = Made \ G
  PROVE  Owned' /\ Linked' /\ Nested' /\ Called'
<1>. DEFINE n == Len(stack)
            K == Top.kind
<1>1. Nested /\ Called /\ Owned /\ Linked
  BY DEF HeapInv
<1>2. /\ n \in Nat /\ n >= 1 /\ K \in Kind /\ K \in Made /\ K \in Unfinished
      /\ Top = stack[n] /\ n \in 1..n /\ field[K] = "null"
  BY <1>1, TopFacts
<1>3. /\ Made \subseteq Kind /\ Unfinished \subseteq Made
      /\ \A k : ~MayBeWild(k) /\ ~MayBeWild(k)'
  BY <1>1, MadeFacts DEF MayBeWild
<1>4. /\ Len(stack') = n - 1 /\ stack' \in Seq([kind : Kind, done : Nat])
      /\ \A i \in 1..(n - 1) : stack'[i] = stack[i] /\ stack[i].kind # K
      /\ stack' = <<>> <=> n = 1
  BY <1>1, PopFacts
<1>5. caller = "codec"
  <2>1. Top.done < Len(Shape[K].parts) /\ Top.done \in Nat
    BY <1>1, TopFacts DEF Nested
  <2>. QED
    BY <1>1, <2>1, SidAlone, SidShape
<1>. HIDE DEF K
<1>6. K \in G /\ (\A j \in G : j # K => j \notin Unfinished /\ Owner(j) \in G)
      /\ Unfinished' = Unfinished \ {K}
  BY DEF K
<1>7. Owned'
  BY <1>1 DEF Owned
<1>8. Linked'
  <2>. SUFFICES ASSUME NEW k \in Made \ G, NEW p \in Parts(k)
                PROVE  /\ p \in Made \ G => p \in Unfinished' \/ field[p] = "set"
                       /\ p \notin Made \ G => field[p] = "null"
                       /\ k \notin Unfinished' => p \in Made \ G /\ p \notin Unfinished'
    BY <1>1 DEF Linked
  <2>1. k \in Kind /\ Owner(p) = k
    BY <1>3, PartsFacts
  <2>2. p \in G => p = K
    BY <1>6, <2>1
  <2>3. /\ p \in Made => p \in Unfinished \/ field[p] = "set"
        /\ p \notin Made => field[p] = "null"
        /\ k \notin Unfinished => p \in Made /\ p \notin Unfinished
    BY <1>1, <1>3 DEF Linked
  <2>. QED
    BY <1>2, <1>6, <2>2, <2>3
<1>9. ASSUME NEW i \in 1..(n - 1) PROVE InitUnderWay(i)'
  <2>. DEFINE parts == Shape[stack[i].kind].parts
              done  == stack[i].done
  <2>1. i \in 1..n /\ i < n
    BY <1>2
  <2>2. /\ InitUnderWay(i) /\ stack[i].kind \in Kind /\ stack[i].kind \in Unfinished
        /\ done \in Nat /\ Len(parts) \in Nat
        /\ \A j \in 1..Len(parts) : parts[j] \in Parts(stack[i].kind)
    BY <1>1, <2>1, FrameFacts
  <2>3. stack'[i] = stack[i] /\ stack[i].kind # K
    BY <1>4
  <2>4. /\ stack[i].kind \in Made /\ field[stack[i].kind] = "null"
        /\ done < Len(parts) /\ stack[i + 1].kind = parts[done + 1]
        /\ \A j \in 1..Len(parts) :
             /\ j <= done => parts[j] \in Made /\ parts[j] \notin Unfinished
             /\ (j > done /\ parts[j] \in Made) => j = done + 1
    BY <2>1, <2>2 DEF InitUnderWay
  <2>5. stack[i].kind \notin G
    BY <1>6, <2>2, <2>3
  <2>6. \A j \in 1..Len(parts) : Owner(parts[j]) = stack[i].kind
    BY <2>2, PartsFacts
  <2>7. \A j \in 1..Len(parts) :
          /\ j <= done => parts[j] \in Made \ G /\ parts[j] \notin Unfinished'
          /\ (j > done /\ parts[j] \in Made \ G) => (i < Len(stack') /\ j = done + 1)
    <3>. SUFFICES ASSUME NEW j \in 1..Len(parts)
                  PROVE  /\ j <= done => parts[j] \in Made \ G /\ parts[j] \notin Unfinished'
                         /\ (j > done /\ parts[j] \in Made \ G)
                              => (i < Len(stack') /\ j = done + 1)
      OBVIOUS
    <3>1. j <= done => parts[j] \in Made \ G /\ parts[j] \notin Unfinished'
      BY <1>2, <1>6, <2>4, <2>5, <2>6
    <3>2. ASSUME j > done, parts[j] \in Made \ G PROVE i < Len(stack') /\ j = done + 1
      <4>1. j = done + 1
        BY <2>4, <3>2
      <4>2. i # n - 1
        <5>. SUFFICES ASSUME i = n - 1 PROVE FALSE
          OBVIOUS
        <5>1. i + 1 = n
          BY <1>2
        <5>2. parts[j] = K
          BY <1>2, <2>4, <4>1, <5>1 DEF K
        <5>. QED
          BY <1>6, <3>2, <5>2
      <4>. QED
        BY <1>2, <1>4, <2>1, <4>1, <4>2
    <3>. QED
      BY <3>1, <3>2
  <2>8. i < Len(stack') => stack'[i + 1].kind = parts[done + 1]
    <3>. SUFFICES ASSUME i < Len(stack') PROVE stack'[i + 1].kind = parts[done + 1]
      OBVIOUS
    <3>1. i + 1 \in 1..(n - 1)
      BY <1>2, <1>4, <2>1
    <3>. QED
      BY <1>4, <2>4, <3>1
  <2>9. done <= Len(parts)
    BY <2>2, <2>4
  <2>. QED
    BY <2>3, <2>4, <2>5, <2>7, <2>8, <2>9 DEF InitUnderWay
<1>10. Nested'
  <2>1. \A i \in 1..Len(stack') : InitUnderWay(i)'
    BY <1>4, <1>9
  <2>2. \A i, j \in 1..Len(stack') : stack'[i].kind = stack'[j].kind => i = j
    <3>1. \A i \in 1..(n - 1) : i \in 1..n
      BY <1>2
    <3>2. \A i, j \in 1..n : stack[i].kind = stack[j].kind => i = j
      BY <1>1 DEF Nested
    <3>. QED
      BY <1>4, <3>1, <3>2
  <2>3. ASSUME stack' # <<>>
        PROVE  /\ stack'[1].kind = Root'
               /\ Top'.done < Len(Shape[Top'.kind].parts)
               /\ field[Shape[Top'.kind].parts[Top'.done + 1]] = "null"
    <3>1. /\ n # 1 /\ 1 \in 1..(n - 1) /\ 1 \in 1..n /\ n - 1 \in 1..(n - 1)
          /\ n - 1 \in 1..n /\ n - 1 < n /\ (n - 1) + 1 = n
      BY <1>2, <1>4, <2>3
    <3>2. stack[1].kind = Root /\ Root' = Root
      BY <1>1 DEF Nested, Root
    <3>3. Top' = stack[n - 1]
      BY <1>4, <3>1 DEF Top
    <3>4. InitUnderWay(n - 1)
      BY <1>1, <3>1 DEF Nested
    <3>5. /\ stack[n - 1].done < Len(Shape[stack[n - 1].kind].parts)
          /\ Shape[stack[n - 1].kind].parts[stack[n - 1].done + 1] = K
      BY <1>2, <3>1, <3>4 DEF InitUnderWay, K
    <3>. QED
      BY <1>2, <1>4, <3>1, <3>2, <3>3, <3>5
  <2>. QED
    BY <1>4, <2>1, <2>2, <2>3 DEF Nested
<1>11. Called'
  <2>1. Root' = Root
    BY DEF Root
  <2>2. stack' = <<>> => Root = K
    BY <1>1, <1>2, <1>4 DEF Nested, K
  <2>. QED
    BY <1>1, <1>2, <1>5, <1>6, <2>1, <2>2 DEF Called
<1>. QED
  BY <1>7, <1>8, <1>10, <1>11

LEMMA UndoStep ==
  ASSUME HeapInv, Undo
  PROVE  HeapInv'
<1>. DEFINE K == Top.kind
<1>1. /\ Running /\ failing /\ stack # <<>> /\ stack' = Pop(stack)
      /\ UNCHANGED <<field, wrapper, failing, caller, failed, inits>>
  BY DEF Undo
<1>2. Nested /\ Counted /\ Owned /\ Made \subseteq Kind /\ Unfinished \subseteq Made
  BY MadeFacts DEF HeapInv
<1>3. K \in Kind /\ K \in Unfinished /\ K \in Made
  BY <1>1, <1>2, TopFacts
<1>4. Unfinished' = Unfinished \ {K}
  <2>1. /\ Len(stack') = Len(stack) - 1
        /\ \A i \in 1..(Len(stack) - 1) : stack'[i] = stack[i]
        /\ {stack[i].kind : i \in 1..(Len(stack) - 1)} = Unfinished \ {K}
    BY <1>1, <1>2, PopFacts
  <2>2. Unfinished' = {stack'[i].kind : i \in 1..(Len(stack) - 1)}
    BY <2>1 DEF Unfinished
  <2>. QED
    BY <2>1, <2>2
<1>5. CASE Shape[K].undoes
  <2>. DEFINE G == Reached[K]
  <2>1. /\ alive' = [k \in Kind |-> IF k \in G THEN alive[k] - 1 ELSE alive[k]]
        /\ fault' = IF \E k \in G : k \notin {K} /\ field[k] = "wild"
                    THEN "wild_free" ELSE "none"
    <3>1. Exit({K})
      BY <1>1, <1>5 DEF Undo
    <3>2. UNION {Reached[k] : k \in {K}} = G
      OBVIOUS
    <3>. HIDE DEF K
    <3>. QED
      BY <3>1, <3>2 DEF Exit
  <2>2. /\ G \subseteq Made /\ K \in G
        /\ \A j \in G \ {K} : j \notin Unfinished /\ field[j] = "set" /\ Owner(j) \in G
        /\ \A k \in G : \A p \in Parts(k) : p \in Made => p \in G
    BY <1>1, UndoneFacts
  <2>. HIDE DEF G, K
  <2>3. fault' = "none"
    BY <2>1, <2>2
  <2>4. \A k \in Kind : /\ alive[k] \in Nat
                        /\ k \in G => alive'[k] = alive[k] - 1
                        /\ k \notin G => alive'[k] = alive[k]
    BY <1>2, <2>1 DEF Counted
  <2>5. \A k \in Kind : k \in Made => alive[k] > 0
    BY <1>2 DEF Counted, Made
  <2>6. Made' = Made \ G
    <3>1. ASSUME NEW k \in Kind, k # "lsp" PROVE k \in Made' <=> k \in Made \ G
      <4>1. (k \in Made' <=> alive'[k] > 0) /\ (k \in Made <=> alive[k] > 0)
        BY <3>1 DEF Made
      <4>2. alive[k] <= 1
        BY <1>2, <3>1 DEF Counted
      <4>. QED
        BY <2>2, <2>4, <4>1, <4>2
    <3>2. "lsp" \in Made' <=> "lsp" \in Made \ G
      <4>1. /\ "lsp" \in Made' <=> "lsp" \in Unfinished' \/ alive'["q_plsf"] > 0
            /\ "lsp" \in Made <=> "lsp" \in Unfinished \/ alive["q_plsf"] > 0
            /\ "q_plsf" \in Made' <=> alive'["q_plsf"] > 0
            /\ "q_plsf" \in Made <=> alive["q_plsf"] > 0
        BY LspFacts DEF Made
      <4>2. "q_plsf" \in Made' <=> "q_plsf" \in Made \ G
        BY <3>1, LspFacts
      <4>3. "q_plsf" \in Made /\ "lsp" \in G => "q_plsf" \in G
        BY <2>2, LspFacts
      <4>4. Owner("q_plsf") = "lsp"
        BY DEF Owner
      <4>5. "q_plsf" \in G /\ "lsp" \notin G => "lsp" \in Unfinished
        <5>1. "q_plsf" = K => "lsp" \in Unfinished
          <6>1. "q_plsf" = K => "lsp" \in Made
            BY <1>2, <1>3, LspFacts DEF Owned
          <6>2. Linked
            BY DEF HeapInv
          <6>. QED
            BY <1>3, <6>1, <6>2, LspFacts DEF Linked
        <5>. QED
          BY <2>2, <4>4, <5>1
      <4>. QED
        BY <1>4, <2>2, <4>1, <4>2, <4>3, <4>5
    <3>3. Made' \subseteq Kind
      BY DEF Made
    <3>. QED
      BY <1>2, <3>1, <3>2, <3>3
  <2>7. Owned' /\ Linked' /\ Nested' /\ Called'
    BY <1>1, <1>4, <2>2, <2>6, UnwoundInv DEF K
  <2>8. Counted'
    <3>1. ASSUME NEW k \in Kind PROVE alive'[k] \in Nat /\ alive'[k] <= alive[k]
      BY <2>2, <2>4, <2>5
    <3>2. alive' \in [Kind -> Nat]
      BY <2>1, <3>1
    <3>3. \A k \in Kind \ {"lsp"} : alive'[k] <= 1
      BY <1>2, <2>4, <3>1 DEF Counted
    <3>4. "lsp" \in Made' => alive'["lsp"] > 0
      BY <2>4, <2>5, <2>6, LspFacts
    <3>5. alive'["lsp"] <= inits
      BY <1>2, <2>4, <3>1, LspFacts DEF Counted
    <3>. QED
      BY <1>1, <1>2, <3>2, <3>3, <3>4, <3>5 DEF Counted
  <2>. QED
    BY <2>3, <2>7, <2>8 DEF HeapInv, CrashMeansFailure
\* lsp_init frees nothing: what it allocated is lost.
<1>6. CASE ~Shape[K].undoes
  <2>1. K = "lsp" /\ UNCHANGED <<alive, fault>>
    BY <1>3, <1>6, Tree DEF Undo, WellShaped
  <2>2. "q_plsf" \notin Made /\ alive["q_plsf"] = 0
    <3>1. Top.done < 1 /\ Top.done \in Nat
      BY <1>1, <1>2, <2>1, LspFacts, TopFacts DEF Nested
    <3>2. 1 \in 1..Len(Shape[Top.kind].parts) /\ 1 > Top.done
      BY <2>1, <3>1, LspFacts
    <3>3. "q_plsf" \notin Made
      BY <1>1, <1>2, <2>1, <3>2, LspFacts, TopFacts
    <3>4. alive["q_plsf"] \in Nat
      BY <1>2, LspFacts DEF Counted
    <3>. QED
      BY <3>3, <3>4, LspFacts DEF Made
  <2>3. \A p \in Parts("lsp") : p \notin Made
    <3>1. \A p \in Parts("lsp") : p = "q_plsf"
      <4>1. \A p \in Parts("lsp") : \E i \in 1..1 : p = Shape["lsp"].parts[i]
        BY LspFacts, PartsFacts
      <4>. QED
        BY <4>1, LspFacts
    <3>. QED
      BY <2>2, <3>1
  <2>. HIDE DEF K
  <2>4. Made' = Made \ {"lsp"}
    <3>1. \A k \in Kind : k # "lsp" => (k \in Made' <=> k \in Made)
      BY <2>1 DEF Made
    <3>2. "lsp" \notin Made'
      BY <1>4, <2>1, <2>2 DEF Made
    <3>3. Made' \subseteq Kind
      BY DEF Made
    <3>. QED
      BY <1>2, <3>1, <3>2, <3>3
  <2>5. Owned' /\ Linked' /\ Nested' /\ Called'
    <3>. DEFINE G == {"lsp"}
    <3>1. /\ Top.kind \in G /\ G \subseteq Made
          /\ \A j \in G \ {Top.kind} : j \notin Unfinished /\ Owner(j) \in G
          /\ \A k \in G : \A p \in Parts(k) : p \in Made => p \in G
          /\ Unfinished' = Unfinished \ {Top.kind} /\ Made' = Made \ G
      BY <1>3, <1>4, <2>1, <2>3, <2>4 DEF K
    <3>. HIDE DEF G
    <3>. QED
      BY <1>1, <3>1, UnwoundInv
  <2>6. Counted'
    BY <1>1, <1>2, <2>1, <2>4 DEF Counted
  <2>. QED
    BY <1>1, <2>1, <2>5, <2>6 DEF HeapInv, CrashMeansFailure
<1>. QED
  BY <1>5, <1>6

LEMMA GiveUpStep ==
  ASSUME HeapInv, GiveUp
  PROVE  HeapInv'
<1>1. /\ Running /\ failing /\ stack = <<>> /\ failing' = FALSE /\ caller' = Onwards
      /\ UNCHANGED <<alive, field, wrapper, stack, failed, fault, inits>>
  BY DEF GiveUp
<1>2. Counted /\ Owned /\ Linked /\ Nested /\ Called
  BY DEF HeapInv
<1>3. Unfinished' = Unfinished /\ Made' = Made
  BY <1>1, SameHeap
<1>4. /\ caller \in {"codec", "sid"} /\ failed /\ Root \notin Made /\ field[Root] = "null"
      /\ failed' = failed /\ field' = field
  BY <1>1, <1>2 DEF Called
<1>5. Counted'
  BY <1>1, <1>2, <1>3, <1>4 DEF Counted, Onwards
<1>6. Owned' /\ Linked'
  BY <1>1, <1>2, <1>3 DEF Owned, Linked, MayBeWild
<1>7. Nested'
  BY <1>1, <1>2 DEF Nested
<1>8. Called'
  <2>1. CASE caller = "codec"
    <3>1. /\ Root = "frame" /\ caller' = "sid" /\ Root' = "sid_sync"
          /\ "sid_sync" \notin Made
      BY <1>1, <1>2, <2>1 DEF Root, Onwards, Called
    <3>2. Returned("frame")'
      BY <1>3, <1>4, <3>1 DEF Returned
    <3>. QED
      BY <1>1, <1>2, <1>3, <3>1, <3>2 DEF Called
  <2>2. CASE caller = "sid"
    <3>1. Root = "sid_sync" /\ caller' = "open"
      BY <1>1, <2>2 DEF Root, Onwards
    <3>2. Returned("sid_sync")'
      BY <1>3, <1>4, <3>1 DEF Returned
    <3>3. Returned("frame")'
      BY <1>2, <1>3, <1>4, <2>2 DEF Called, Returned
    <3>. QED
      BY <1>1, <1>2, <1>3, <3>1, <3>2, <3>3 DEF Called
  <2>. QED
    BY <1>4, <2>1, <2>2
<1>. QED
  BY <1>1, <1>5, <1>6, <1>7, <1>8 DEF HeapInv, CrashMeansFailure, Running

Roots == {"frame", "sid_sync"}

\* Of an encoder whose init function returned, what is there is what the two
\* pointers lead to.
LEMMA OpenFacts ==
  ASSUME HeapInv, caller = "open"
  PROVE  /\ \A r \in Roots : r \in Kind /\ (r \in Made <=> field[r] = "set")
                             /\ (r \notin Made <=> field[r] = "null")
         /\ \A k \in Made : field[k] = "set" /\ Parts(k) \subseteq Made
         /\ \A r \in Roots \intersect Made : Reached[r] \subseteq Made
         /\ \A k \in Made : \E r \in Roots \intersect Made : k \in Reached[r]
         /\ \A r \in Roots \intersect Made : \A k \in Reached[r] : Parts(k) \subseteq Reached[r]
<1>1. /\ Owned /\ Linked /\ Nested /\ Called /\ stack = <<>>
      /\ Returned("frame") /\ Returned("sid_sync")
      /\ Made \subseteq Kind /\ Unfinished \subseteq Made
  BY MadeFacts DEF HeapInv, Called
<1>2. Unfinished = {}
  BY <1>1 DEF Unfinished
<1>3. \A r \in Roots : r \in Kind /\ (r \in Made <=> field[r] = "set")
                       /\ (r \notin Made <=> field[r] = "null")
  BY <1>1, Kinds DEF Roots, Returned, Level0, Level1, Level2
<1>4. \A k \in Made : \A p \in Parts(k) : p \in Made /\ field[p] = "set"
  BY <1>1, <1>2 DEF Linked
<1>5. \A k \in Made : Attached(k) = Parts(k)
  BY <1>4 DEF Attached
<1>6. \A r \in Roots \intersect Made : Reached[r] \subseteq Made
  <2>1. \A k \in Made : Attached(k) \subseteq Made
    BY <1>4, <1>5
  <2>. QED
    BY <1>1, <2>1, ReachedLeast
<1>7. \A r \in Roots \intersect Made : \A k \in Reached[r] : Parts(k) \subseteq Reached[r]
  BY <1>1, <1>5, <1>6, ReachedClosed
\* What the pointers do not lead to would have no root.
<1>8. \A k \in Made : \E r \in Roots \intersect Made : k \in Reached[r]
  <2>. DEFINE S == {k \in Made : \A r \in Roots \intersect Made : k \notin Reached[r]}
  <2>1. ASSUME NEW k \in Kind, NEW p \in Parts(k), p \in S PROVE k \in S
    <3>1. k \in Made
      BY <1>1, <2>1 DEF Owned
    <3>. QED
      BY <1>7, <2>1, <3>1
  <2>2. \A r \in Roots : r \notin S
    BY <1>1, ReachedClosed
  <2>3. S \subseteq {"sid_sync"}
    <3>1. S \in SUBSET Kind /\ "frame" \notin S
      BY <1>1, <2>2 DEF Roots
    <3>. HIDE DEF S
    <3>. QED
      BY <2>1, <3>1, NoOrphans
  <2>4. S = {}
    BY <2>2, <2>3 DEF Roots
  <2>. QED
    BY <2>4
<1>9. \A k \in Made : field[k] = "set"
  <2>. SUFFICES ASSUME NEW k \in Made, field[k] # "set" PROVE FALSE
    OBVIOUS
  <2>. DEFINE S == {j \in Made : field[j] = "set"}
  <2>1. \A j \in S : Attached(j) \subseteq S
    BY <1>4, <1>5
  <2>2. PICK r \in Roots \intersect Made : k \in Reached[r]
    BY <1>8
  <2>3. r \in S /\ S \in SUBSET Kind
    BY <1>1, <1>3
  <2>4. Reached[r] \subseteq S
    <3>. HIDE DEF S
    <3>. QED
      BY <2>1, <2>3, ReachedLeast
  <2>. QED
    BY <2>2, <2>4
<1>. QED
  BY <1>3, <1>4, <1>6, <1>7, <1>8, <1>9

LEMMA ExitStep ==
  ASSUME HeapInv, Encoder_Interface_exit
  PROVE  HeapInv'
<1>. DEFINE K == {k \in Roots : field[k] # "null"}
            G == UNION {Reached[k] : k \in K}
<1>1. /\ caller = "open" /\ caller' = "idle" /\ wrapper' = FALSE
      /\ UNCHANGED <<stack, failing, failed, inits>>
      /\ field' = [field EXCEPT !["frame"] = "null", !["sid_sync"] = "null"]
      /\ Exit(K)
  BY DEF Encoder_Interface_exit, Roots
<1>2. /\ alive' = [k \in Kind |-> IF k \in G THEN alive[k] - 1 ELSE alive[k]]
      /\ fault' = IF \E k \in G : k \notin K /\ field[k] = "wild"
                  THEN "wild_free" ELSE "none"
  <2>. HIDE DEF K
  <2>. QED
    BY <1>1 DEF Exit
<1>3. K = Roots \intersect Made
  BY <1>1, OpenFacts
<1>4. G = Made /\ \A k \in Made : field[k] = "set"
  <2>. HIDE DEF K
  <2>. QED
    BY <1>1, <1>3, OpenFacts
<1>. HIDE DEF K, G
<1>5. /\ Counted /\ Nested /\ Linked /\ Called /\ stack = <<>> /\ stack' = <<>> /\ ~failing'
      /\ Made \subseteq Kind
  BY <1>1, MadeFacts DEF HeapInv, Called
<1>6. fault' = "none"
  BY <1>2, <1>4
<1>7. \A k \in Kind : /\ alive[k] \in Nat /\ alive'[k] \in Nat /\ alive'[k] <= alive[k]
                      /\ k # "lsp" => alive'[k] = 0
  <2>. SUFFICES ASSUME NEW k \in Kind
                PROVE  /\ alive[k] \in Nat /\ alive'[k] \in Nat /\ alive'[k] <= alive[k]
                       /\ k # "lsp" => alive'[k] = 0
    OBVIOUS
  <2>1. /\ alive[k] \in Nat /\ (k # "lsp" => alive[k] <= 1)
        /\ (k \in Made => alive[k] > 0)
        /\ (k # "lsp" /\ k \notin Made => ~(alive[k] > 0))
    BY <1>5 DEF Counted, Made
  <2>2. alive'[k] = IF k \in Made THEN alive[k] - 1 ELSE alive[k]
    BY <1>2, <1>4
  <2>. QED
    BY <2>1, <2>2
<1>8. Unfinished' = {} /\ Made' = {}
  <2>1. Unfinished' = {}
    BY <1>5 DEF Unfinished
  <2>2. "lsp" \notin Made'
    BY <1>7, <2>1, LspFacts DEF Made
  <2>3. \A k \in Kind : k # "lsp" => k \notin Made'
    BY <1>7 DEF Made
  <2>. QED
    BY <2>1, <2>2, <2>3 DEF Made
<1>9. Counted'
  <2>1. alive' \in [Kind -> Nat]
    BY <1>2, <1>7
  <2>2. alive'["lsp"] <= inits
    BY <1>5, <1>7, LspFacts DEF Counted
  <2>. QED
    BY <1>1, <1>5, <1>7, <1>8, <2>1, <2>2 DEF Counted
<1>10. Owned' /\ Linked'
  <2>1. field' \in [Kind -> {"null", "set", "wild"}]
    BY <1>1, <1>5 DEF Linked
  <2>. QED
    BY <1>8, <2>1 DEF Owned, Linked
<1>11. Nested'
  BY <1>5, EmptySeq DEF Nested
<1>12. Called'
  BY <1>1, <1>5, <1>8 DEF Called
<1>. QED
  BY <1>6, <1>9, <1>10, <1>11, <1>12 DEF HeapInv, CrashMeansFailure

----------------------------------------------------------------------------

LEMMA HeapInvariant == Spec => []HeapInv
<1>1. Init => HeapInv
  <2>. SUFFICES ASSUME Init PROVE HeapInv
    OBVIOUS
  <2>1. /\ alive = [k \in Kind |-> 0] /\ field = [k \in Kind |-> "wild"]
        /\ stack = <<>> /\ caller = "idle" /\ fault = "none" /\ inits = 0
        /\ wrapper = FALSE /\ failing = FALSE /\ failed = FALSE
    BY DEF Init
  <2>2. Unfinished = {} /\ Made = {}
    BY <2>1, LspFacts DEF Unfinished, Made
  <2>3. Counted
    BY <2>1, <2>2, EncoderAssumption, LspFacts DEF Counted
  <2>4. Owned /\ Linked
    BY <2>1, <2>2 DEF Owned, Linked
  <2>5. Nested
    BY <2>1, EmptySeq DEF Nested
  <2>6. Called
    BY <2>1, <2>2 DEF Called
  <2>. QED
    BY <2>1, <2>3, <2>4, <2>5, <2>6 DEF HeapInv, CrashMeansFailure
<1>2. HeapInv /\ [Next]_vars => HeapInv'
  <2>. SUFFICES ASSUME HeapInv, [Next]_vars PROVE HeapInv'
    OBVIOUS
  <2>1. CASE UNCHANGED vars
    <3>1. Unfinished' = Unfinished /\ Made' = Made
      BY <2>1, SameHeap DEF vars
    <3>2. Counted' /\ Owned'
      BY <2>1, <3>1 DEF HeapInv, vars, Counted, Owned
    <3>3. Linked'
      BY <2>1, <3>1 DEF HeapInv, vars, Linked, MayBeWild, Top
    <3>4. Nested'
      BY <2>1, <3>1 DEF HeapInv, vars, Nested, InitUnderWay, Root, Top
    <3>5. Called'
      BY <2>1, <3>1 DEF HeapInv, vars, Called, Root, Returned
    <3>. QED
      BY <2>1, <3>2, <3>3, <3>4, <3>5 DEF HeapInv, vars, CrashMeansFailure
  <2>. QED
    BY <2>1, InitStep, EncodeStep, ExitStep, AllocateStep, AllocateFailsStep,
       FinishStep, UndoStep, GiveUpStep DEF Next
<1>. QED
  BY <1>1, <1>2, PTL DEF Spec

\* The counts and the stack stay within their bounds: no object is freed that
\* is not there, and of none there are more than the encoders created so far.
THEOREM TypeCorrect == Spec => []TypeOK
<1>1. HeapInv => TypeOK
  <2>. SUFFICES ASSUME HeapInv PROVE TypeOK
    OBVIOUS
  <2>1. Counted /\ Linked /\ Nested /\ Called
    BY DEF HeapInv
  <2>2. alive \in [Kind -> 0..MaxInits]
    <3>1. ASSUME NEW k \in Kind PROVE alive[k] \in 0..MaxInits
      <4>1. alive[k] \in Nat /\ inits \in 0..MaxInits /\ MaxInits \in Nat
        BY <2>1, EncoderAssumption DEF Counted
      <4>2. CASE k = "lsp"
        BY <2>1, <4>1, <4>2 DEF Counted
      <4>3. CASE k # "lsp"
        <5>1. alive[k] <= 1 /\ (k \in Made <=> alive[k] > 0)
          BY <2>1, <4>3 DEF Counted, Made
        <5>2. k \in Made => inits > 0
          BY <2>1 DEF Called, Counted
        <5>. QED
          BY <4>1, <5>1, <5>2
      <4>. QED
        BY <4>2, <4>3
    <3>2. alive \in [Kind -> Nat]
      BY <2>1 DEF Counted
    <3>. QED
      BY <3>1, <3>2
  <2>3. \A i \in 1..Len(stack) :
          /\ stack[i].kind \in Kind
          /\ stack[i].done \in 0..Len(Shape[stack[i].kind].parts)
    <3>. SUFFICES ASSUME NEW i \in 1..Len(stack)
                  PROVE  /\ stack[i].kind \in Kind
                         /\ stack[i].done \in 0..Len(Shape[stack[i].kind].parts)
      OBVIOUS
    <3>1. /\ stack[i].kind \in Kind /\ stack[i].done \in Nat
          /\ Len(Shape[stack[i].kind].parts) \in Nat /\ InitUnderWay(i)
      BY <2>1, FrameFacts
    <3>2. stack[i].done <= Len(Shape[stack[i].kind].parts)
      BY <3>1 DEF InitUnderWay
    <3>. QED
      BY <3>1, <3>2
  <2>. QED
    BY <2>1, <2>2, <2>3 DEF HeapInv, TypeOK, Linked, Called, Counted
<1>. QED
  BY <1>1, HeapInvariant, PTL

\* Whichever allocation fails, no exit function follows a pointer that was
\* never initialised.
THEOREM NeverWildFree == Spec => []NoWildFree
<1>1. HeapInv => NoWildFree
  BY DEF HeapInv, NoWildFree
<1>. QED
  BY <1>1, HeapInvariant, PTL

\* AMREncodeInit hands out a whole encoder, or NULL.
THEOREM EncoderWhole == Spec => []WholeOrNone
<1>1. HeapInv => WholeOrNone
  <2>. SUFFICES ASSUME HeapInv, caller = "open", NEW root \in Roots, field[root] # "null",
                       NEW k \in Reached[root]
                PROVE  alive[k] > 0 /\ field[k] = "set" /\ Parts(k) \subseteq Reached[root]
    BY DEF WholeOrNone, Roots
  <2>1. root \in Roots \intersect Made
    BY OpenFacts
  <2>2. k \in Made /\ field[k] = "set" /\ Parts(k) \subseteq Reached[root]
    BY <2>1, OpenFacts
  <2>3. alive[k] > 0
    BY <2>2 DEF HeapInv, Counted, Made
  <2>. QED
    BY <2>2, <2>3
<1>. QED
  BY <1>1, HeapInvariant, PTL

\* Nothing but an lspState is ever lost.
THEOREM OnlyLspIsLost == Spec => []OnlyLspLeaks
<1>1. HeapInv => OnlyLspLeaks
  <2>. SUFFICES ASSUME HeapInv PROVE OnlyLspLeaks
    OBVIOUS
  <2>1. \A k \in Kind \ {"lsp"} : k \notin Made => alive[k] = 0
    <3>. SUFFICES ASSUME NEW k \in Kind \ {"lsp"}, k \notin Made PROVE alive[k] = 0
      OBVIOUS
    <3>1. alive[k] \in Nat /\ ~(alive[k] > 0)
      BY DEF HeapInv, Counted, Made
    <3>. QED
      BY <3>1
  <2>2. caller = "idle" => Made = {}
    BY DEF HeapInv, Called
  <2>3. caller = "open" /\ field["frame"] = "null" => Made \subseteq {"sid_sync"}
    <3>. SUFFICES ASSUME caller = "open", field["frame"] = "null"
                  PROVE  Made \subseteq {"sid_sync"}
      OBVIOUS
    <3>1. "frame" \notin Made /\ Owned /\ Made \in SUBSET Kind
      BY OpenFacts, MadeFacts DEF HeapInv, Roots
    <3>. QED
      BY <3>1, NoOrphans DEF Owned
  <2>. QED
    BY <2>1, <2>2, <2>3 DEF OnlyLspLeaks
<1>. QED
  BY <1>1, HeapInvariant, PTL

\* Without a failed allocation Encode never follows a NULL pointer.
THEOREM CrashOnlyByFailure == Spec => []CrashMeansFailure
<1>1. HeapInv => CrashMeansFailure
  BY DEF HeapInv
<1>. QED
  BY <1>1, HeapInvariant, PTL
============================================================================
