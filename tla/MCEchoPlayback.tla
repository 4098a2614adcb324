--------------------------- MODULE MCEchoPlayback --------------------------
(* The delay is that of the code; two bad frames reset the canceller.       *)
EXTENDS EchoPlaybackProperties
============================================================================
