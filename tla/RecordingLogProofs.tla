------------------------- MODULE RecordingLogProofs -------------------------
(* What a RecordingLog guarantees to whoever plays the file. *)
EXTENDS RecordingLog, TLAPS

(* Frames come from runs that are over and from the one that writes, and those
   of the one that writes are the last. *)
LogInv ==
    /\ LogType
    /\ active \notin over
    /\ \A i \in DOMAIN frames : frames[i] \in over \cup {active, Torn}
    /\ \A i, j \in DOMAIN frames :
           i < j /\ frames[i] = active /\ active # Nobody => frames[j] \in {active, Torn}
    /\ Contiguous

LEMMA LogInvInit ==
    ASSUME Nobody \notin Thread, Torn \notin Thread
    PROVE  LogInit => LogInv
BY DEF LogInit, LogInv, LogType, Contiguous

LEMMA LogInvStep ==
    ASSUME Nobody \notin Thread, Torn \notin Thread
    PROVE  LogInv /\ [LogNext]_logVars => LogInv'
<1> SUFFICES ASSUME LogInv, [LogNext]_logVars PROVE LogInv'
  OBVIOUS
<1> USE DEF LogInv, LogType, Contiguous
<1>1. CASE UNCHANGED logVars
  BY <1>1 DEF logVars
<1>2. ASSUME NEW t \in Thread, Begin(t) PROVE LogInv'
  BY <1>2 DEF Begin
<1>3. CASE Truncate
  BY <1>3 DEF Truncate
<1>4. ASSUME NEW x \in Thread \cup {Torn}, Write(x) PROVE LogInv'
  <2>1. /\ Len(frames') = Len(frames) + 1
        /\ DOMAIN frames = 1..Len(frames) /\ DOMAIN frames' = 1..Len(frames')
        /\ \A i \in DOMAIN frames : frames'[i] = frames[i]
        /\ frames'[Len(frames')] = x
        /\ frames' \in Seq(Thread \cup {Torn})
    BY <1>4 DEF Write
  <2>2. x \in {active, Torn} /\ active \in Thread /\ UNCHANGED <<active, over>>
    BY <1>4 DEF Write
  <2>3. LogType' /\ (active \notin over)'
    BY <2>1, <2>2
  <2>4. \A i \in DOMAIN frames' : frames'[i] \in (over \cup {active, Torn})'
    BY <2>1, <2>2
  <2>5. \A i, j \in DOMAIN frames' :
            i < j /\ frames'[i] = active => frames'[j] \in {active, Torn}
    BY <2>1, <2>2
  <2>6. Contiguous'
    BY <2>1, <2>2, <2>5
  <2> QED
    BY <2>2, <2>3, <2>4, <2>5, <2>6
<1>5. ASSUME NEW gone \in SUBSET Thread, End(gone) PROVE LogInv'
  BY <1>5 DEF End
<1> QED
  BY <1>1, <1>2, <1>3, <1>4, <1>5 DEF LogNext

(* In any RecordingLog the frames of one run stand together: the recordings in
   the file follow each other and do not interleave. *)
THEOREM LogContiguous ==
    ASSUME Nobody \notin Thread, Torn \notin Thread
    PROVE  LogSpec => []Contiguous
<1>1. LogInv => Contiguous
  BY DEF LogInv
<1> QED
  BY <1>1, LogInvInit, LogInvStep, PTL DEF LogSpec
=============================================================================
