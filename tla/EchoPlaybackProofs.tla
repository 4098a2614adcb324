------------------------- MODULE EchoPlaybackProofs ------------------------
(* For every delay: the buffer never overflows, the references never go     *)
(* back in time, and a steady application finds the delay it was promised.  *)
(* The inductive invariants are OrderInv, SteadyInv and FreshInv.           *)
EXTENDS EchoPlaybackProperties, SequenceTheorems, TLAPS

Frames == Seq(0..Oldest)

LEMMA Constants ==
  /\ PLAYBACK_DELAY \in Nat /\ PLAYBACK_DELAY >= 1
  /\ TOO_BAD \in Nat /\ TOO_BAD >= 1
  /\ Oldest \in Nat /\ Oldest >= 1
BY EchoAssumption

\* No frame is followed by an older one.
Sorted(frames) == \A i, j \in 1..Len(frames) : i <= j => frames[i] >= frames[j]

\* But for silence no frame is older than r.
Since(frames, r) == \A i \in 1..Len(frames) : frames[i] = Silence \/ frames[i] <= r

LEMMA OrderParts ==
  OrderInv <=> TypeOK /\ Sorted(play_buf) /\ (reference # NoFrame => Since(play_buf, reference))
BY DEF OrderInv, Sorted, Since

LEMMA SilentFrames ==
  /\ Silent \in Frames /\ Len(Silent) = PLAYBACK_DELAY
  /\ \A i \in 1..PLAYBACK_DELAY : Silent[i] = Silence
BY Constants DEF Silent, Silence, Frames

LEMMA SilentOrder ==
  Sorted(Silent) /\ \A r : Since(Silent, r)
BY SilentFrames, Constants DEF Sorted, Since, Silence

\* What is left of a buffer without its head.
LEMMA RestFrames ==
  ASSUME NEW f \in Frames, f # <<>>
  PROVE  /\ Rest(f) \in Frames /\ Len(f) \in Nat /\ Len(f) >= 1
         /\ Len(Rest(f)) = Len(f) - 1
         /\ \A i \in 1..(Len(f) - 1) : Rest(f)[i] = f[i + 1]
         /\ Head(f) = f[1] /\ f[1] \in 0..Oldest
<1>1. Len(f) \in Nat /\ Len(f) >= 1
  BY EmptySeq, LenProperties DEF Frames
<1>2. Rest(f) \in Frames /\ Len(Rest(f)) = Len(f) - 1
      /\ \A i \in 1..Len(Rest(f)) : Rest(f)[i] = f[i + 1]
  BY HeadTailProperties DEF Rest, Frames
<1>3. f[1] \in 0..Oldest
  <2>1. 1 \in 1..Len(f) /\ f \in Seq(0..Oldest)
    BY <1>1 DEF Frames
  <2>. QED
    BY <2>1, ElementOfSeq
<1>4. Head(f) = f[1]
  BY DEF Frames
<1>. QED
  BY <1>1, <1>2, <1>3, <1>4

LEMMA RestOrder ==
  ASSUME NEW f \in Frames, f # <<>>, Sorted(f)
  PROVE  Sorted(Rest(f)) /\ Since(Rest(f), Head(f))
<1>1. /\ Len(f) \in Nat /\ Len(f) >= 1 /\ Len(Rest(f)) = Len(f) - 1
      /\ \A i \in 1..(Len(f) - 1) : Rest(f)[i] = f[i + 1]
      /\ Head(f) = f[1]
  BY RestFrames
<1>2. ASSUME NEW i \in 1..Len(Rest(f)), NEW j \in 1..Len(Rest(f)), i <= j
      PROVE  Rest(f)[i] >= Rest(f)[j]
  <2>1. i + 1 \in 1..Len(f) /\ j + 1 \in 1..Len(f) /\ i + 1 <= j + 1
    BY <1>1, <1>2
  <2>2. f[i + 1] >= f[j + 1]
    BY <2>1 DEF Sorted
  <2>. QED
    BY <1>1, <2>2
<1>3. ASSUME NEW i \in 1..Len(Rest(f))
      PROVE  Rest(f)[i] <= f[1]
  <2>1. 1 \in 1..Len(f) /\ i + 1 \in 1..Len(f) /\ 1 <= i + 1
    BY <1>1
  <2>2. f[1] >= f[i + 1] /\ f[1] \in 0..Oldest /\ f[i + 1] \in 0..Oldest
    BY <2>1, ElementOfSeq DEF Sorted, Frames
  <2>. QED
    BY <1>1, <2>2, Constants
<1>. QED
  BY <1>1, <1>2, <1>3 DEF Sorted, Since

\* When a frame is played the others grow older; their order stays.
LEMMA AgedFrames ==
  ASSUME NEW f \in Frames
  PROVE  /\ Aged(f) \in Frames /\ Len(f) \in Nat /\ Len(Aged(f)) = Len(f)
         /\ \A i \in 1..Len(f) : f[i] \in 0..Oldest /\ Aged(f)[i] = Capped(f[i] + 1)
<1>1. Len(f) \in Nat /\ \A i \in 1..Len(f) : f[i] \in 0..Oldest
  BY LenProperties, ElementOfSeq DEF Frames
<1>2. \A i \in 1..Len(f) : Capped(f[i] + 1) \in 0..Oldest
  BY <1>1, Constants DEF Capped
<1>3. Aged(f) = [i \in 1..Len(f) |-> Capped(f[i] + 1)]
  BY DEF Aged
<1>. QED
  BY <1>1, <1>2, <1>3 DEF Frames

LEMMA AgedOrder ==
  ASSUME NEW f \in Frames, Sorted(f), NEW r \in 0..Oldest
  PROVE  Sorted(Aged(f)) /\ (Since(f, r) => Since(Aged(f), Capped(r + 1)))
<1>1. /\ Len(f) \in Nat /\ Len(Aged(f)) = Len(f)
      /\ \A i \in 1..Len(f) : f[i] \in 0..Oldest /\ Aged(f)[i] = Capped(f[i] + 1)
  BY AgedFrames
<1>2. ASSUME NEW a \in 0..Oldest, NEW b \in 0..Oldest, a >= b
      PROVE  Capped(a + 1) >= Capped(b + 1)
  BY <1>2, Constants DEF Capped
<1>3. Capped(Silence + 1) = Silence
  BY Constants DEF Capped, Silence
<1>4. Sorted(Aged(f))
  BY <1>1, <1>2 DEF Sorted
<1>5. ASSUME Since(f, r), NEW i \in 1..Len(f)
      PROVE  Aged(f)[i] = Silence \/ Aged(f)[i] <= Capped(r + 1)
  <2>1. f[i] = Silence \/ f[i] <= r
    BY <1>5 DEF Since
  <2>2. f[i] \in 0..Oldest /\ Aged(f)[i] = Capped(f[i] + 1)
    BY <1>1
  <2>. QED
    BY <1>3, <2>1, <2>2, Constants DEF Capped, Silence
<1>. QED
  BY <1>1, <1>4, <1>5 DEF Since

\* A frame that was just played is not older than any other.
LEMMA QueuedFrames ==
  ASSUME NEW f \in Frames, Sorted(f)
  PROVE  /\ Queued(f) \in Frames /\ Len(Queued(f)) = Len(f) + 1
         /\ Sorted(Queued(f))
         /\ \A r \in 0..Oldest : Since(f, r) => Since(Queued(f), r)
<1>1. /\ Queued(f) \in Frames /\ Len(f) \in Nat /\ Len(Queued(f)) = Len(f) + 1
      /\ \A i \in 1..Len(f) : Queued(f)[i] = f[i] /\ f[i] \in 0..Oldest
      /\ Queued(f)[Len(f) + 1] = 0
  BY LenProperties, ElementOfSeq, Constants DEF Queued, Frames
<1>2. ASSUME NEW i \in 1..(Len(f) + 1), NEW j \in 1..(Len(f) + 1), i <= j
      PROVE  Queued(f)[i] >= Queued(f)[j]
  <2>1. CASE j <= Len(f)
    <3>1. i \in 1..Len(f) /\ j \in 1..Len(f)
      BY <1>1, <1>2, <2>1
    <3>. QED
      BY <1>1, <1>2, <3>1 DEF Sorted
  <2>2. CASE ~(j <= Len(f))
    <3>1. j = Len(f) + 1 /\ (i \in 1..Len(f) \/ i = Len(f) + 1)
      BY <1>1, <1>2, <2>2
    <3>. QED
      BY <1>1, <3>1, Constants
  <2>. QED
    BY <2>1, <2>2
<1>3. ASSUME NEW r \in 0..Oldest, Since(f, r), NEW i \in 1..(Len(f) + 1)
      PROVE  Queued(f)[i] = Silence \/ Queued(f)[i] <= r
  <2>1. i \in 1..Len(f) \/ i = Len(f) + 1
    BY <1>1
  <2>. QED
    BY <1>1, <1>3, <2>1, Constants DEF Since
<1>. QED
  BY <1>1, <1>2, <1>3 DEF Sorted, Since

LEMMA FilledFrames ==
  ASSUME NEW f \in Frames, Sorted(f), Len(f) <= PLAYBACK_DELAY + 1
  PROVE  /\ Filled(f) \in Frames /\ Len(Filled(f)) <= PLAYBACK_DELAY + 1
         /\ Sorted(Filled(f))
         /\ \A r \in 0..Oldest : Since(f, r) => Since(Filled(f), r)
<1>1. Len(f) \in Nat
  BY LenProperties DEF Frames
<1>2. CASE Len(f) <= PLAYBACK_DELAY - 1
  <2>1. Filled(f) = Queued(f)
    BY <1>2 DEF Filled
  <2>. QED
    BY <1>1, <1>2, <2>1, QueuedFrames, Constants
<1>3. CASE ~(Len(f) <= PLAYBACK_DELAY - 1)
  BY <1>3 DEF Filled
<1>. QED
  BY <1>2, <1>3

----------------------------------------------------------------------------

LEMMA CaptureKeepsOrder ==
  ASSUME OrderInv, Capture
  PROVE  OrderInv'
<1>1. /\ play_buf \in Frames /\ Len(play_buf) <= PLAYBACK_DELAY + 1
      /\ screwed_up \in 0..(TOO_BAD - 1) /\ calm \in 0..Oldest
      /\ Sorted(play_buf)
  BY OrderParts DEF TypeOK, Frames
<1>2. Calmer \in 0..Oldest
  BY <1>1, Constants DEF Calmer, Capped
<1>3. /\ turn' \in {"any", "capture", "play"} /\ wild' \in BOOLEAN
      /\ call' \in {"none", "capture", "playback", "reset"}
  BY DEF OrderInv, TypeOK, Capture, speex_echo_capture
<1>4. CASE CaptureMisses
  <2>1. TypeOK'
    BY <1>1, <1>2, <1>3, <1>4, Constants DEF CaptureMisses, TypeOK, NoFrame, Frames
  <2>2. play_buf' = play_buf /\ reference' = NoFrame
    BY <1>4 DEF CaptureMisses
  <2>. QED
    BY <1>1, <2>1, <2>2, OrderParts DEF OrderInv, Sorted
<1>5. CASE CaptureCancels
  <2>1. play_buf # <<>> /\ reference' = Head(play_buf)
    BY <1>5 DEF CaptureCancels
  <2>2. /\ Rest(play_buf) \in Frames /\ Len(Rest(play_buf)) = Len(play_buf) - 1
        /\ Len(play_buf) \in Nat
        /\ Head(play_buf) \in 0..Oldest
    BY <1>1, <2>1, RestFrames
  <2>3. Sorted(Rest(play_buf)) /\ Since(Rest(play_buf), Head(play_buf))
    BY <1>1, <2>1, RestOrder
  <2>4. Silent # <<>>
    BY SilentFrames, Constants, EmptySeq
  <2>5. /\ Rest(Silent) \in Frames /\ Len(Rest(Silent)) = PLAYBACK_DELAY - 1
        /\ Sorted(Rest(Silent))
        /\ \A i \in 1..(PLAYBACK_DELAY - 1) : Rest(Silent)[i] = Silence
    <3>1. /\ Rest(Silent) \in Frames /\ Len(Rest(Silent)) = PLAYBACK_DELAY - 1
          /\ \A i \in 1..(PLAYBACK_DELAY - 1) : Rest(Silent)[i] = Silent[i + 1]
      BY <2>4, SilentFrames, RestFrames
    <3>2. Sorted(Rest(Silent))
      BY <2>4, SilentFrames, SilentOrder, RestOrder
    <3>3. \A i \in 1..(PLAYBACK_DELAY - 1) : i + 1 \in 1..PLAYBACK_DELAY
      BY Constants
    <3>. QED
      BY <3>1, <3>2, <3>3, SilentFrames
  <2>6. PICK verdict \in Verdicts :
          IF verdict >= TOO_BAD
          THEN /\ play_buf' = Rest(Silent) /\ play_buf_started' = FALSE
               /\ screwed_up' = 0 /\ calm' = 0
          ELSE /\ play_buf' = Rest(play_buf) /\ play_buf_started' = TRUE
               /\ screwed_up' = verdict /\ calm' = Calmer
    BY <1>5 DEF CaptureCancels
  <2>7. verdict \in Nat
    BY <1>1, Constants DEF Verdicts
  <2>8. CASE verdict >= TOO_BAD
    <3>1. /\ play_buf' = Rest(Silent) /\ play_buf_started' = FALSE
          /\ screwed_up' = 0 /\ calm' = 0
      BY <2>6, <2>8
    <3>2. TypeOK'
      <4>1. play_buf_started' \in BOOLEAN
        BY <3>1
      <4>2. /\ play_buf' \in Frames /\ Len(play_buf') <= PLAYBACK_DELAY + 1
            /\ screwed_up' \in 0..(TOO_BAD - 1) /\ calm' \in 0..Oldest
            /\ reference' \in NoFrame..Oldest
        BY <2>1, <2>2, <2>5, <3>1, Constants DEF NoFrame
      <4>. QED
        BY <1>3, <4>1, <4>2 DEF TypeOK, Frames
    <3>3. Sorted(play_buf)' /\ Since(play_buf, reference)'
      BY <2>5, <3>1 DEF Sorted, Since
    <3>. QED
      BY <3>2, <3>3 DEF OrderInv, Sorted, Since
  <2>9. CASE ~(verdict >= TOO_BAD)
    <3>1. /\ play_buf' = Rest(play_buf) /\ play_buf_started' = TRUE
          /\ screwed_up' = verdict /\ calm' = Calmer
      BY <2>6, <2>9
    <3>2. TypeOK'
      BY <1>1, <1>2, <1>3, <2>1, <2>2, <2>7, <2>9, <3>1, Constants DEF TypeOK, NoFrame, Frames
    <3>3. Sorted(play_buf)' /\ Since(play_buf, reference)'
      BY <2>1, <2>3, <3>1 DEF Sorted, Since
    <3>. QED
      BY <3>2, <3>3 DEF OrderInv, Sorted, Since
  <2>. QED
    BY <2>8, <2>9
<1>. QED
  BY <1>4, <1>5 DEF Capture, speex_echo_capture

LEMMA PlaybackKeepsOrder ==
  ASSUME OrderInv, Playback
  PROVE  OrderInv'
<1>1. /\ play_buf \in Frames /\ Len(play_buf) <= PLAYBACK_DELAY + 1
      /\ reference \in NoFrame..Oldest /\ Sorted(play_buf)
      /\ reference # NoFrame => Since(play_buf, reference)
  BY OrderParts DEF TypeOK, Frames
<1>2. /\ turn' \in {"any", "capture", "play"} /\ wild' \in BOOLEAN
      /\ call' \in {"none", "capture", "playback", "reset"}
      /\ play_buf_started' \in BOOLEAN /\ screwed_up' \in 0..(TOO_BAD - 1)
      /\ calm' \in 0..Oldest
  BY DEF OrderInv, TypeOK, Playback, speex_echo_playback
<1>3. reference' = IF reference = NoFrame THEN NoFrame ELSE Capped(reference + 1)
  BY DEF Playback, speex_echo_playback
<1>4. /\ reference' \in NoFrame..Oldest
      /\ reference # NoFrame => reference \in 0..Oldest /\ reference' \in 0..Oldest
      /\ reference = NoFrame => reference' = NoFrame
  BY <1>1, <1>3, Constants DEF Capped, NoFrame
<1>. DEFINE aged == Aged(play_buf)
<1>5. aged \in Frames /\ Len(aged) = Len(play_buf) /\ Len(play_buf) \in Nat
  BY <1>1, AgedFrames
<1>6. Sorted(aged) /\ (reference # NoFrame => Since(aged, reference'))
  <2>1. 0 \in 0..Oldest
    BY Constants
  <2>2. Sorted(aged)
    BY <1>1, <2>1, AgedOrder
  <2>3. ASSUME reference # NoFrame PROVE Since(aged, reference')
    BY <1>1, <1>3, <1>4, <2>3, AgedOrder
  <2>. QED
    BY <2>2, <2>3
<1>. HIDE DEF aged
<1>7. /\ play_buf' \in Frames /\ Len(play_buf') <= PLAYBACK_DELAY + 1
      /\ Sorted(play_buf') /\ (reference # NoFrame => Since(play_buf', reference'))
  <2>1. CASE PlaybackBeforeStart \/ PlaybackDiscards
    <3>1. play_buf' = aged
      BY <2>1 DEF PlaybackBeforeStart, PlaybackDiscards, aged
    <3>. QED
      BY <1>1, <1>5, <1>6, <3>1
  <2>2. CASE PlaybackQueues
    <3>1. play_buf' = Filled(Queued(aged)) /\ Len(aged) <= PLAYBACK_DELAY
      BY <1>5, <2>2 DEF PlaybackQueues, Room, aged
    <3>2. /\ Queued(aged) \in Frames /\ Len(Queued(aged)) = Len(aged) + 1
          /\ Sorted(Queued(aged))
          /\ \A r \in 0..Oldest : Since(aged, r) => Since(Queued(aged), r)
      BY <1>5, <1>6, QueuedFrames
    <3>3. Len(Queued(aged)) <= PLAYBACK_DELAY + 1
      BY <1>5, <3>1, <3>2, Constants
    <3>4. /\ Filled(Queued(aged)) \in Frames
          /\ Len(Filled(Queued(aged))) <= PLAYBACK_DELAY + 1
          /\ Sorted(Filled(Queued(aged)))
          /\ \A r \in 0..Oldest : Since(Queued(aged), r) => Since(Filled(Queued(aged)), r)
      BY <3>2, <3>3, FilledFrames
    <3>. QED
      BY <1>4, <1>6, <3>1, <3>2, <3>4
  <2>. QED
    BY <2>1, <2>2 DEF Playback, speex_echo_playback
<1>8. TypeOK'
  BY <1>2, <1>4, <1>7 DEF TypeOK, Frames
<1>. QED
  BY <1>4, <1>7, <1>8 DEF OrderInv, Sorted, Since

LEMMA ResetKeepsOrder ==
  ASSUME OrderInv, Reset
  PROVE  OrderInv'
<1>1. TypeOK'
  <2>1. /\ play_buf_started' \in BOOLEAN /\ wild' \in BOOLEAN
        /\ turn' \in {"any", "capture", "play"}
        /\ call' \in {"none", "capture", "playback", "reset"}
        /\ reference' \in NoFrame..Oldest
    BY DEF OrderInv, TypeOK, Reset, speex_echo_state_reset
  <2>2. /\ play_buf' = Silent /\ screwed_up' = 0 /\ calm' = 0
    BY DEF Reset, speex_echo_state_reset
  <2>3. /\ play_buf' \in Frames /\ Len(play_buf') <= PLAYBACK_DELAY + 1
        /\ screwed_up' \in 0..(TOO_BAD - 1) /\ calm' \in 0..Oldest
    BY <2>2, SilentFrames, Constants
  <2>. QED
    BY <2>1, <2>3 DEF TypeOK, Frames
<1>2. play_buf' = Silent
  BY DEF Reset, speex_echo_state_reset
<1>3. Sorted(play_buf)' /\ Since(play_buf, reference)'
  BY <1>2, SilentOrder DEF Sorted, Since
<1>. QED
  BY <1>1, <1>3 DEF OrderInv, Sorted, Since

THEOREM OrderInvariant == Spec => []OrderInv
<1>1. Init => OrderInv
  <2>. SUFFICES ASSUME Init PROVE OrderInv
    OBVIOUS
  <2>1. TypeOK
    <3>1. /\ play_buf_started \in BOOLEAN /\ wild \in BOOLEAN
          /\ turn \in {"any", "capture", "play"}
          /\ call \in {"none", "capture", "playback", "reset"}
      BY DEF Init
    <3>2. play_buf = Silent /\ screwed_up = 0 /\ calm = 0 /\ reference = Silence
      BY DEF Init
    <3>3. /\ play_buf \in Frames /\ Len(play_buf) <= PLAYBACK_DELAY + 1
          /\ screwed_up \in 0..(TOO_BAD - 1) /\ calm \in 0..Oldest
          /\ reference \in NoFrame..Oldest
      BY <3>2, SilentFrames, Constants DEF NoFrame, Silence
    <3>. QED
      BY <3>1, <3>3 DEF TypeOK, Frames
  <2>2. Sorted(play_buf) /\ Since(play_buf, reference)
    BY SilentOrder DEF Init
  <2>. QED
    BY <2>1, <2>2, OrderParts
<1>2. OrderInv /\ [Next]_vars => OrderInv'
  <2>. SUFFICES ASSUME OrderInv, [Next]_vars PROVE OrderInv'
    OBVIOUS
  <2>1. CASE Settle
    BY <2>1 DEF Settle, echoVars, OrderInv, TypeOK
  <2>2. CASE UNCHANGED vars
    BY <2>2 DEF vars, echoVars, OrderInv, TypeOK
  <2>. QED
    BY <2>1, <2>2, CaptureKeepsOrder, PlaybackKeepsOrder, ResetKeepsOrder DEF Next
<1>. QED
  BY <1>1, <1>2, PTL DEF Spec

\* The playback buffer never overflows what was allocated for it, in any order
\* of captures, playbacks and resets.
THEOREM NoOverflow == Spec => []TypeOK
<1>1. OrderInv => TypeOK
  BY DEF OrderInv
<1>. QED
  BY <1>1, OrderInvariant, PTL

\* The references never go back in time, in any order of calls.
THEOREM ReferencesNeverGoBack == Spec => NeverBack
<1>1. OrderInv /\ [Next]_vars =>
        [call' = "capture" /\ reference # NoFrame /\ reference' # Silence
           => reference' <= reference]_vars
  <2>. SUFFICES ASSUME OrderInv, Next, call' = "capture",
                       reference # NoFrame, reference' # Silence
                PROVE  reference' <= reference
    BY DEF vars
  <2>1. reference \in 0..Oldest
    BY Constants DEF OrderInv, TypeOK, NoFrame
  <2>2. CASE Capture
    <3>1. CASE CaptureMisses
      BY <2>1, <3>1, Constants DEF CaptureMisses, NoFrame
    <3>2. CASE CaptureCancels
      <4>1. /\ play_buf \in Frames /\ play_buf # <<>> /\ reference' = Head(play_buf)
            /\ Since(play_buf, reference)
        BY <3>2, OrderParts DEF CaptureCancels, TypeOK, Frames
      <4>2. Head(play_buf) = play_buf[1] /\ Len(play_buf) \in Nat /\ Len(play_buf) >= 1
        BY <4>1, RestFrames
      <4>. QED
        BY <4>1, <4>2 DEF Since
    <3>. QED
      BY <2>2, <3>1, <3>2 DEF Capture, speex_echo_capture
  <2>3. CASE Settle
    BY <2>1, <2>3 DEF Settle, echoVars
  <2>4. ~Playback /\ ~Reset
    BY DEF Playback, speex_echo_playback, Reset, speex_echo_state_reset
  <2>. QED
    BY <2>2, <2>3, <2>4 DEF Next
<1>. QED
  BY <1>1, OrderInvariant, PTL DEF Spec, NeverBack

----------------------------------------------------------------------------
(* The delay. Frames that were played in turn stay so.                      *)

LEMMA InTurnRest ==
  ASSUME NEW f \in Frames, f # <<>>, NEW n \in Int, InTurn(f, n)
  PROVE  InTurn(Rest(f), n)
<1>1. /\ Len(f) \in Nat /\ Len(f) >= 1 /\ Len(Rest(f)) = Len(f) - 1
      /\ \A i \in 1..(Len(f) - 1) : Rest(f)[i] = f[i + 1]
  BY RestFrames
<1>2. ASSUME NEW i \in 1..(Len(f) - 1), Len(f) - 1 - i < n
      PROVE  Rest(f)[i] = Len(f) - 1 - i
  <2>1. i + 1 \in 1..Len(f) /\ Len(f) - (i + 1) < n
    BY <1>1, <1>2
  <2>2. f[i + 1] = Len(f) - (i + 1)
    BY <2>1 DEF InTurn
  <2>. QED
    BY <1>1, <2>2
<1>. QED
  BY <1>1, <1>2 DEF InTurn

\* Playing a frame: the others age, it is the newest.
LEMMA InTurnPlayed ==
  ASSUME NEW f \in Frames, Len(f) <= PLAYBACK_DELAY, NEW n \in Int, InTurn(f, n)
  PROVE  /\ InTurn(Queued(Aged(f)), n + 1)
         /\ Queued(Aged(f)) \in Frames
         /\ Len(f) \in Nat /\ Len(Queued(Aged(f))) = Len(f) + 1
<1>1. /\ Aged(f) \in Frames /\ Len(f) \in Nat /\ Len(Aged(f)) = Len(f)
      /\ \A i \in 1..Len(f) : f[i] \in 0..Oldest /\ Aged(f)[i] = Capped(f[i] + 1)
  BY AgedFrames
<1>2. /\ Queued(Aged(f)) \in Frames /\ Len(Queued(Aged(f))) = Len(f) + 1
      /\ \A i \in 1..Len(f) : Queued(Aged(f))[i] = Aged(f)[i]
      /\ Queued(Aged(f))[Len(f) + 1] = 0
  BY <1>1, Constants DEF Queued, Frames
<1>3. ASSUME NEW i \in 1..(Len(f) + 1), Len(f) + 1 - i < n + 1
      PROVE  Queued(Aged(f))[i] = Len(f) + 1 - i
  <2>1. CASE i \in 1..Len(f)
    <3>1. f[i] = Len(f) - i
      BY <1>1, <1>3, <2>1 DEF InTurn
    <3>2. f[i] + 1 < Oldest
      BY <1>1, <2>1, <3>1, Constants, EchoAssumption
    <3>. QED
      BY <1>1, <1>2, <2>1, <3>1, <3>2, Constants DEF Capped
  <2>2. CASE i = Len(f) + 1
    BY <1>1, <1>2, <2>2
  <2>. QED
    BY <1>1, <2>1, <2>2
<1>. QED
  BY <1>1, <1>2, <1>3 DEF InTurn

\* A frame that enters a low buffer a second time is in turn by itself.
LEMMA InTurnFilled ==
  ASSUME NEW f \in Frames, Len(f) <= PLAYBACK_DELAY - 1
  PROVE  /\ Len(f) \in Nat /\ Len(Filled(f)) = Len(f) + 1
         /\ \A n \in Int : n <= 1 => InTurn(Filled(f), n)
<1>1. Filled(f) = Append(f, 0) /\ Len(f) \in Nat
  BY LenProperties DEF Filled, Queued, Frames
<1>2. Len(Filled(f)) = Len(f) + 1 /\ Filled(f)[Len(f) + 1] = 0
  BY <1>1 DEF Frames
<1>3. ASSUME NEW n \in Int, n <= 1, NEW i \in 1..(Len(f) + 1), Len(f) + 1 - i < n
      PROVE  Filled(f)[i] = Len(f) + 1 - i
  <2>1. i = Len(f) + 1
    BY <1>1, <1>3
  <2>. QED
    BY <1>1, <1>2, <2>1
<1>. QED
  BY <1>1, <1>2, <1>3 DEF InTurn

LEMMA Times ==
  /\ Late \in Nat /\ SettlingTime \in Nat
  /\ SettlingTime = PLAYBACK_DELAY + 1 + Late
  /\ PLAYBACK_DELAY - 1 - Late <= 1
BY Constants DEF Late, SettlingTime

\* The number of captures grows by one, or stops at the bound.
LEMMA CalmerGrows ==
  ASSUME TypeOK
  PROVE  /\ calm \in Nat /\ Calmer \in Nat /\ Calmer <= calm + 1
         /\ turn # "any" => Calmer > 0
         /\ turn = "any" => Calmer = 0
BY Constants DEF TypeOK, Calmer, Capped

\* What a capture does to the buffer and to the count.
LEMMA CaptureEffect ==
  ASSUME OrderInv, Capture
  PROVE  \/ /\ play_buf = <<>> /\ play_buf' = <<>> /\ reference' = NoFrame
            /\ play_buf_started' = TRUE /\ calm' = Calmer
         \/ /\ play_buf # <<>> /\ reference' = Head(play_buf)
            /\ play_buf' = Rest(play_buf)
            /\ play_buf_started' = TRUE /\ calm' = Calmer
         \/ /\ play_buf # <<>> /\ play_buf' = Rest(Silent)
            /\ play_buf_started' = FALSE /\ calm' = 0
<1>1. CASE CaptureMisses
  BY <1>1 DEF CaptureMisses
<1>2. CASE CaptureCancels
  BY <1>2 DEF CaptureCancels
<1>. QED
  BY <1>1, <1>2 DEF Capture, speex_echo_capture

LEMMA RestSilent == Len(Rest(Silent)) = PLAYBACK_DELAY - 1
<1>1. Silent # <<>>
  BY SilentFrames, Constants, EmptySeq
<1>. QED
  BY <1>1, SilentFrames, RestFrames

\* The head of a buffer that is in turn throughout tells its length.
LEMMA HeadInTurn ==
  ASSUME NEW f \in Frames, f # <<>>, NEW n \in Int, InTurn(f, n), Len(f) <= n
  PROVE  Head(f) = Len(f) - 1
<1>1. Len(f) \in Nat /\ Len(f) >= 1 /\ Head(f) = f[1] /\ 1 \in 1..Len(f)
  BY RestFrames
<1>. QED
  BY <1>1 DEF InTurn

LEMMA CaptureSteady ==
  ASSUME OrderInv, SteadyInv, Capture
  PROVE  SteadyInv'
<1>1. /\ play_buf \in Frames /\ Len(play_buf) \in Nat
      /\ Len(play_buf) <= PLAYBACK_DELAY + 1
      /\ Len(<<>>) = 0 /\ (play_buf # <<>> => Len(play_buf) >= 1)
  BY RestFrames, LenProperties DEF OrderInv, TypeOK, Frames
<1>2. /\ calm \in Nat /\ Calmer \in Nat /\ Calmer <= calm + 1
  BY CalmerGrows DEF OrderInv
<1>3. CASE turn = "any"
  <2>1. turn' = "any" /\ calm' = 0
    BY <1>3, CaptureEffect, CalmerGrows DEF Capture, OrderInv
  <2>. QED
    BY <2>1, Times DEF SteadyInv
<1>4. CASE turn = "capture"
  <2>1. turn' = "play"
    BY <1>4 DEF Capture
  <2>2. CASE play_buf = <<>> /\ play_buf' = <<>> /\ reference' = NoFrame
                /\ play_buf_started' = TRUE /\ calm' = Calmer
    <3>1. calm = 0 \/ PLAYBACK_DELAY <= 0
      BY <1>1, <1>2, <1>4, <2>2, Constants DEF SteadyInv, AtLeast
    <3>2. calm' <= 1
      BY <1>2, <2>2, <3>1, Constants
    <3>3. InTurn(play_buf', calm' - 1 - Late)
      BY <1>1, <2>2 DEF InTurn
    <3>. QED
      BY <1>1, <1>2, <2>1, <2>2, <3>2, <3>3, Times, Constants DEF SteadyInv, AtLeast
  <2>3. CASE play_buf # <<>> /\ reference' = Head(play_buf) /\ play_buf' = Rest(play_buf)
                /\ play_buf_started' = TRUE /\ calm' = Calmer
    <3>1. Len(play_buf') = Len(play_buf) - 1
      BY <1>1, <2>3, RestFrames
    <3>2. AtLeast(PLAYBACK_DELAY - 1, calm' - 1, Len(play_buf'))
      BY <1>1, <1>2, <1>4, <2>3, <3>1, Constants DEF SteadyInv, AtLeast
    <3>3. InTurn(play_buf', calm' - 1 - Late)
      <4>1. CASE calm = 0
        <5>1. calm' - 1 - Late <= 0
          BY <1>2, <2>3, <4>1, Times
        <5>2. Len(play_buf') \in Nat /\ calm' - 1 - Late \in Int
          BY <1>1, <1>2, <2>3, <3>1, Times
        <5>. QED
          BY <5>1, <5>2 DEF InTurn
      <4>2. CASE calm > 0
        <5>1. InTurn(play_buf, calm - Late) /\ calm - Late \in Int
          BY <1>2, <1>4, <4>2, Times DEF SteadyInv
        <5>2. InTurn(play_buf', calm - Late)
          BY <1>1, <2>3, <5>1, InTurnRest
        <5>3. calm' - 1 - Late <= calm - Late /\ calm' - 1 - Late \in Int
              /\ Len(play_buf') \in Nat
          BY <1>1, <1>2, <2>3, <3>1, Times
        <5>. QED
          BY <5>1, <5>2, <5>3 DEF InTurn
      <4>. QED
        BY <1>2, <4>1, <4>2
    <3>4. calm' > SettlingTime => reference' = Len(play_buf')
      <4>1. SUFFICES ASSUME calm' > SettlingTime PROVE reference' = Len(play_buf) - 1
        BY <3>1
      <4>2. calm > 0 /\ calm - Late \in Int /\ Len(play_buf) <= calm - Late
        BY <1>1, <1>2, <2>3, <4>1, Times, Constants
      <4>3. InTurn(play_buf, calm - Late)
        BY <1>4, <4>2 DEF SteadyInv
      <4>. QED
        BY <1>1, <2>3, <4>2, <4>3, HeadInTurn
    <3>. QED
      BY <1>1, <2>1, <2>3, <3>1, <3>2, <3>3, <3>4, Constants DEF SteadyInv
  <2>4. CASE play_buf # <<>> /\ play_buf' = Rest(Silent)
                /\ play_buf_started' = FALSE /\ calm' = 0
    BY <2>1, <2>4, RestSilent, Times, Constants DEF SteadyInv
  <2>. QED
    BY <2>2, <2>3, <2>4, CaptureEffect
<1>. QED
  BY <1>3, <1>4 DEF Capture

\* What a playback does to the buffer and to the count.
LEMMA PlaybackEffect ==
  ASSUME Playback
  PROVE  /\ UNCHANGED <<play_buf_started, calm>>
         /\ reference' = IF reference = NoFrame THEN NoFrame ELSE Capped(reference + 1)
         /\ ~play_buf_started => play_buf' = Aged(play_buf)
         /\ play_buf_started /\ Len(play_buf) <= PLAYBACK_DELAY
              => play_buf' = Filled(Queued(Aged(play_buf)))
BY DEF Playback, speex_echo_playback, PlaybackBeforeStart, PlaybackQueues,
       PlaybackDiscards, Room

LEMMA PlaybackSteady ==
  ASSUME OrderInv, SteadyInv, Playback
  PROVE  SteadyInv'
<1>1. /\ play_buf \in Frames /\ Len(play_buf) \in Nat
      /\ reference \in NoFrame..Oldest /\ calm \in Nat
      /\ play_buf_started \in BOOLEAN
  BY LenProperties DEF OrderInv, TypeOK, Frames
<1>2. CASE turn = "any"
  <2>1. turn' = "any" /\ calm' = 0
    BY <1>1, <1>2, PlaybackEffect DEF Playback, SteadyInv
  <2>. QED
    BY <2>1, Times DEF SteadyInv
<1>3. CASE turn = "play" /\ calm = 0
  BY <1>3, PlaybackEffect, Times DEF Playback, SteadyInv
<1>4. CASE turn = "play" /\ calm > 0
  <2>1. /\ turn' = "capture" /\ calm' = calm /\ play_buf_started' = play_buf_started
        /\ play_buf_started /\ Len(play_buf) <= PLAYBACK_DELAY
        /\ AtLeast(PLAYBACK_DELAY - 1, calm - 1, Len(play_buf))
        /\ InTurn(play_buf, calm - 1 - Late)
    BY <1>4, PlaybackEffect DEF Playback, SteadyInv
  <2>. DEFINE queued == Queued(Aged(play_buf))
  <2>2. calm - 1 - Late \in Int /\ (calm - 1 - Late) + 1 = calm - Late
    BY <1>1, Times
  <2>3. /\ InTurn(queued, calm - Late) /\ queued \in Frames
        /\ Len(queued) = Len(play_buf) + 1
    BY <1>1, <2>1, <2>2, InTurnPlayed
  <2>4. play_buf' = Filled(queued)
    BY <2>1, PlaybackEffect
  <2>. HIDE DEF queued
  <2>5. CASE Len(queued) <= PLAYBACK_DELAY - 1
    <3>1. calm <= PLAYBACK_DELAY - 1
      BY <1>1, <2>1, <2>3, <2>5, Constants DEF AtLeast
    <3>2. calm - Late <= 1 /\ calm - Late \in Int
      BY <1>1, <3>1, Times, Constants
    <3>3. Len(play_buf') = Len(play_buf) + 2 /\ InTurn(play_buf', calm - Late)
      BY <1>1, <2>3, <2>4, <2>5, <3>2, InTurnFilled
    <3>4. AtLeast(PLAYBACK_DELAY, calm + 1, Len(play_buf'))
      BY <1>1, <2>1, <3>3, Constants DEF AtLeast
    <3>5. ~(calm > SettlingTime)
      BY <1>1, <3>1, Times, Constants
    <3>. QED
      BY <2>1, <3>3, <3>4, <3>5, Times DEF SteadyInv
  <2>6. CASE ~(Len(queued) <= PLAYBACK_DELAY - 1)
    <3>1. play_buf' = queued
      BY <2>4, <2>6 DEF Filled
    <3>2. AtLeast(PLAYBACK_DELAY, calm + 1, Len(play_buf'))
      BY <1>1, <2>3, <2>6, <3>1, Constants DEF AtLeast
    <3>3. calm > SettlingTime => reference' = Len(play_buf')
      <4>1. SUFFICES ASSUME calm > SettlingTime PROVE reference' = Len(play_buf) + 1
        BY <2>3, <3>1
      <4>2. reference = Len(play_buf) /\ reference + 1 < Oldest /\ reference # NoFrame
        BY <1>1, <1>4, <2>1, <4>1, Constants, EchoAssumption DEF SteadyInv, NoFrame
      <4>. QED
        BY <1>1, <4>2, Constants, PlaybackEffect DEF Capped
    <3>. QED
      BY <2>1, <2>3, <3>1, <3>2, <3>3, Times DEF SteadyInv
  <2>. QED
    BY <2>5, <2>6
<1>. QED
  BY <1>1, <1>2, <1>3, <1>4 DEF Playback

LEMMA ResetEffect ==
  ASSUME Reset
  PROVE  /\ play_buf' = Silent /\ Len(play_buf') = PLAYBACK_DELAY
         /\ play_buf_started' = FALSE /\ calm' = 0 /\ UNCHANGED <<turn, wild>>
BY SilentFrames DEF Reset, speex_echo_state_reset

\* However the application called before it was steady.
LEMMA SteadyInvariant == Spec => []SteadyInv
<1>1. Init => SteadyInv
  BY Times, SilentFrames DEF Init, SteadyInv
<1>2. OrderInv /\ SteadyInv /\ [Next]_vars => SteadyInv'
  <2>. SUFFICES ASSUME OrderInv, SteadyInv, [Next]_vars PROVE SteadyInv'
    OBVIOUS
  <2>1. CASE Reset
    BY <2>1, ResetEffect, Times, Constants DEF SteadyInv
  <2>2. CASE Settle
    BY <2>2, Times DEF Settle, echoVars, SteadyInv, OrderInv, TypeOK
  <2>3. CASE UNCHANGED vars
    BY <2>3 DEF vars, echoVars, SteadyInv
  <2>. QED
    BY <2>1, <2>2, <2>3, CaptureSteady, PlaybackSteady DEF Next
<1>. QED
  BY <1>1, <1>2, OrderInvariant, PTL DEF Spec

\* A steady application comes to a constant delay, whatever it did before and
\* however often the canceller reset itself.
THEOREM DelaySettled == Spec => DelaySettles
<1>1. OrderInv /\ SteadyInv /\ [Next]_vars =>
        [turn = "capture" /\ turn' = "play" /\ calm > SettlingTime /\ calm' >= calm
           => /\ reference' \in {PLAYBACK_DELAY - 1, PLAYBACK_DELAY}
              /\ reference' = reference - 1]_vars
  <2>. SUFFICES ASSUME OrderInv, SteadyInv, Next, turn = "capture", turn' = "play",
                       calm > SettlingTime, calm' >= calm
                PROVE  /\ reference' \in {PLAYBACK_DELAY - 1, PLAYBACK_DELAY}
                       /\ reference' = reference - 1
    BY DEF vars
  <2>1. Capture
    BY DEF Next, Playback, Reset, Settle
  <2>2. /\ play_buf \in Frames /\ Len(play_buf) \in Nat
        /\ Len(play_buf) <= PLAYBACK_DELAY + 1 /\ calm \in Nat
    BY LenProperties DEF OrderInv, TypeOK, Frames
  <2>3. /\ calm > 0 /\ calm > PLAYBACK_DELAY + 1 + Late
        /\ Len(play_buf) <= calm - Late /\ calm - Late \in Int
    BY <2>2, Times, Constants
  <2>4. /\ Len(play_buf) \in {PLAYBACK_DELAY, PLAYBACK_DELAY + 1}
        /\ InTurn(play_buf, calm - Late) /\ reference = Len(play_buf)
    BY <2>2, <2>3, Times, Constants DEF SteadyInv, AtLeast
  <2>5. play_buf # <<>>
    BY <2>2, <2>4, Constants, EmptySeq
  <2>6. reference' = Head(play_buf)
    <3>1. calm' # 0
      BY <2>2, <2>3
    <3>. QED
      BY <2>1, <2>5, <3>1, CaptureEffect
  <2>7. Head(play_buf) = Len(play_buf) - 1
    BY <2>2, <2>3, <2>4, <2>5, HeadInTurn
  <2>. QED
    BY <2>2, <2>4, <2>6, <2>7, Constants
<1>. QED
  BY <1>1, OrderInvariant, SteadyInvariant, PTL DEF Spec, DelaySettles

----------------------------------------------------------------------------
(* Without wild calls.                                                      *)

LEMMA CaptureFresh ==
  ASSUME OrderInv, FreshInv, Capture
  PROVE  FreshInv'
<1>. SUFFICES ASSUME ~wild' PROVE FreshInv'
  BY DEF FreshInv
<1>1. /\ play_buf \in Frames /\ Len(play_buf) \in Nat /\ Len(<<>>) = 0
      /\ (play_buf # <<>> => Len(play_buf) >= 1)
      /\ wild \in BOOLEAN
  BY RestFrames, LenProperties DEF OrderInv, TypeOK, Frames
<1>2. ~wild /\ turn = "capture" /\ turn' = "play"
  BY <1>1 DEF Capture
<1>3. /\ calm \in Nat /\ Calmer \in Nat /\ Calmer <= calm + 1 /\ Calmer > 0
  BY <1>2, CalmerGrows DEF OrderInv
<1>4. CASE play_buf = <<>> /\ play_buf' = <<>> /\ play_buf_started' = TRUE
              /\ calm' = Calmer
  <2>1. calm = 0 /\ PLAYBACK_DELAY = 1
    BY <1>1, <1>2, <1>3, <1>4, Constants DEF FreshInv
  <2>2. InTurn(play_buf', calm' - 1)
    BY <1>1, <1>4 DEF InTurn
  <2>. QED
    BY <1>1, <1>2, <1>3, <1>4, <2>1, <2>2 DEF FreshInv
<1>5. CASE play_buf # <<>> /\ reference' = Head(play_buf) /\ play_buf' = Rest(play_buf)
              /\ play_buf_started' = TRUE /\ calm' = Calmer
  <2>1. Len(play_buf') = Len(play_buf) - 1
    BY <1>1, <1>5, RestFrames
  <2>2. CASE calm = 0
    <3>1. calm' = 1 /\ Len(play_buf') \in Nat
      BY <1>1, <1>3, <1>5, <2>1, <2>2
    <3>2. Len(play_buf') \in {PLAYBACK_DELAY - 1, PLAYBACK_DELAY - 2}
      BY <1>1, <1>2, <2>1, <2>2, Constants DEF FreshInv
    <3>3. InTurn(play_buf', calm' - 1)
      BY <3>1 DEF InTurn
    <3>. QED
      BY <1>2, <1>5, <3>1, <3>2, <3>3, Constants DEF FreshInv
  <2>3. CASE calm > 0
    <3>1. Len(play_buf) = PLAYBACK_DELAY /\ InTurn(play_buf, calm)
      BY <1>2, <2>3 DEF FreshInv
    <3>2. InTurn(play_buf', calm)
      BY <1>1, <1>3, <1>5, <3>1, InTurnRest
    <3>3. InTurn(play_buf', calm' - 1)
      BY <1>1, <1>3, <1>5, <2>1, <3>1, <3>2, Constants DEF InTurn
    <3>4. calm' > PLAYBACK_DELAY => reference' = PLAYBACK_DELAY - 1
      <4>1. SUFFICES ASSUME calm' > PLAYBACK_DELAY PROVE reference' = PLAYBACK_DELAY - 1
        OBVIOUS
      <4>2. Len(play_buf) <= calm /\ calm \in Int
        BY <1>3, <1>5, <3>1, <4>1, Constants
      <4>. QED
        BY <1>1, <1>5, <3>1, <4>2, HeadInTurn
    <3>. QED
      BY <1>2, <1>3, <1>5, <2>1, <3>1, <3>3, <3>4, Constants DEF FreshInv
  <2>. QED
    BY <1>3, <2>2, <2>3
<1>6. CASE play_buf # <<>> /\ play_buf' = Rest(Silent)
              /\ play_buf_started' = FALSE /\ calm' = 0
  BY <1>2, <1>6, RestSilent, Constants DEF FreshInv
<1>. QED
  BY <1>4, <1>5, <1>6, CaptureEffect

LEMMA PlaybackFresh ==
  ASSUME OrderInv, FreshInv, Playback
  PROVE  FreshInv'
<1>. SUFFICES ASSUME ~wild' PROVE FreshInv'
  BY DEF FreshInv
<1>1. play_buf \in Frames /\ Len(play_buf) \in Nat /\ wild \in BOOLEAN /\ calm \in Nat
  BY LenProperties DEF OrderInv, TypeOK, Frames
<1>2. ~wild /\ turn = "play" /\ turn' = "capture"
  BY <1>1 DEF Playback
<1>3. calm' = calm /\ play_buf_started' = play_buf_started
  BY PlaybackEffect
<1>4. CASE calm = 0
  <2>1. ~play_buf_started /\ Len(play_buf) \in {PLAYBACK_DELAY - 1, PLAYBACK_DELAY}
    BY <1>2, <1>4 DEF FreshInv
  <2>2. Len(play_buf') = Len(play_buf)
    BY <1>1, <2>1, PlaybackEffect, AgedFrames
  <2>. QED
    BY <1>2, <1>3, <1>4, <2>1, <2>2, Constants DEF FreshInv
<1>5. CASE calm > 0
  <2>1. /\ play_buf_started /\ InTurn(play_buf, calm - 1)
        /\ \/ Len(play_buf) = PLAYBACK_DELAY - 1
           \/ calm = 1 /\ Len(play_buf) = PLAYBACK_DELAY - 2
    BY <1>2, <1>5 DEF FreshInv
  <2>. DEFINE queued == Queued(Aged(play_buf))
  <2>2. calm - 1 \in Int /\ (calm - 1) + 1 = calm /\ Len(play_buf) <= PLAYBACK_DELAY
    BY <1>1, <2>1, Constants
  <2>3. InTurn(queued, calm) /\ queued \in Frames /\ Len(queued) = Len(play_buf) + 1
    BY <1>1, <2>1, <2>2, InTurnPlayed
  <2>4. play_buf' = Filled(queued)
    BY <2>1, <2>2, PlaybackEffect
  <2>. HIDE DEF queued
  <2>5. Len(play_buf') = PLAYBACK_DELAY /\ InTurn(play_buf', calm)
    <3>1. CASE Len(queued) <= PLAYBACK_DELAY - 1
      <4>1. calm = 1 /\ Len(play_buf) = PLAYBACK_DELAY - 2
        BY <1>1, <2>1, <2>3, <3>1, Constants
      <4>. QED
        BY <1>1, <2>3, <2>4, <3>1, <4>1, Constants, InTurnFilled
    <3>2. CASE ~(Len(queued) <= PLAYBACK_DELAY - 1)
      <4>1. play_buf' = queued
        BY <2>4, <3>2 DEF Filled
      <4>. QED
        BY <1>1, <2>1, <2>3, <3>2, <4>1, Constants
    <3>. QED
      BY <3>1, <3>2
  <2>. QED
    BY <1>2, <1>3, <1>5, <2>1, <2>5, Constants DEF FreshInv
<1>. QED
  BY <1>1, <1>4, <1>5

\* With an application that plays a frame after each it captures from the
\* start, the delay is exactly PLAYBACK_DELAY, also after resets.
THEOREM DelayIsPromised == Spec => []DelayedByTwo
<1>1. Init => FreshInv
  BY SilentFrames, Constants DEF Init, FreshInv
<1>2. OrderInv /\ FreshInv /\ [Next]_vars => FreshInv'
  <2>. SUFFICES ASSUME OrderInv, FreshInv, [Next]_vars PROVE FreshInv'
    OBVIOUS
  <2>1. CASE Reset
    BY <2>1, ResetEffect, Constants DEF FreshInv
  <2>2. CASE Settle
    BY <2>2 DEF Settle, echoVars, FreshInv, OrderInv, TypeOK
  <2>3. CASE UNCHANGED vars
    BY <2>3 DEF vars, echoVars, FreshInv
  <2>. QED
    BY <2>1, <2>2, <2>3, CaptureFresh, PlaybackFresh DEF Next
<1>3. FreshInv => DelayedByTwo
  BY DEF FreshInv, DelayedByTwo
<1>. QED
  BY <1>1, <1>2, <1>3, OrderInvariant, PTL DEF Spec
============================================================================
