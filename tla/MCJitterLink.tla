---------------------------- MODULE MCJitterLink ---------------------------
(* Two slots and short statistics. The cfg files keep what must hold between *)
(* the sizes: TIMING_LIMIT is less than half of WRAP, and no packet is       *)
(* shorter than Span.                                                        *)
EXTENDS JitterLinkProperties
============================================================================
