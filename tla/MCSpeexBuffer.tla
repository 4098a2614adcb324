--------------------------- MODULE MCSpeexBuffer ---------------------------
(* A ring of three bytes; up to four are written or read at once.           *)
EXTENDS SpeexBuffer

MCByte == {0, 1}
MCLengths == 0..4
MCInputs == UNION {[1..n -> MCByte] : n \in 0..4}
============================================================================
