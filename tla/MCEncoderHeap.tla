--------------------------- MODULE MCEncoderHeap ---------------------------
(* Nothing is left to instantiate but MaxInits.                             *)
EXTENDS EncoderHeapProperties
============================================================================
