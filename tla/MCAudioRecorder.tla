--------------------------- MODULE MCAudioRecorder ---------------------------
(* AudioRecorder for TLC. *)
EXTENDS AudioRecorderInvariants, TLC

CONSTANTS t1, t2, t3, r1, r2

OneThread    == {t1}
TwoThreads   == {t1, t2}
ThreeThreads == {t1, t2, t3}
OneRecorder  == {r1}
TwoRecorders == {r1, r2}

(* An error, nothing, one frame, and two frames with a remainder of 80 samples. *)
Reads    == {ReadError, 0, 160, 400}
FewReads == {ReadError, 0, 160}

EveryOutcome == {"written", "short", "unopened"}
MayRefuse    == {"written", "unopened"}
GoodStorage  == {"written"}

(* Threads and recorders are interchangeable; for safety only. *)
Symmetry == Permutations(Thread) \cup Permutations(Recorder)
=============================================================================
