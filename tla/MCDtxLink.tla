----------------------------- MODULE MCDtxLink -----------------------------
(* Smaller counters than the code's 7, 30, 8, 50 and 8, in the same order.  *)
EXTENDS DtxLinkProperties

OneDebt == {1}
============================================================================
