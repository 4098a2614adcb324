---------------------------- MODULE DtxConstants ---------------------------
(* What the two ends of discontinuous transmission share.                   *)
EXTENDS Integers

CONSTANTS
  DTX_HANG_CONST,             \* noise frames still sent as speech
  DTX_ELAPSED_FRAMES_THRESH,  \* frames after which such a hangover is due
  DTX_HIST_SIZE,              \* frames that the noise is averaged over
  MAX_16                      \* where add_16 saturates

\* The code's values are 7, 30, 8 and 32767.
ASSUME DtxAssumption ==
  /\ DTX_HANG_CONST \in Nat \ {0}
  /\ DTX_ELAPSED_FRAMES_THRESH \in Nat \ {0}
  /\ MAX_16 \in Nat
  /\ MAX_16 > DTX_ELAPSED_FRAMES_THRESH
  /\ DTX_HIST_SIZE = DTX_HANG_CONST + 1

Least(a, b) == IF a < b THEN a ELSE b

\* Of two numbers that are not negative.
add_16(a, b) == Least(a + b, MAX_16)
============================================================================
