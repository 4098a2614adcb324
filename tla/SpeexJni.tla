------------------------------ MODULE SpeexJni ------------------------------
(* The native library's entry points, app/jni/speexdsp/speex_jni.cpp: init,
   denoiseAndEnc and close share one denoiser and drive the AMR encoder.
   As in AmrEnc there is no lock and a step is one access to shared state. *)
EXTENDS AmrEnc

VARIABLES
    codec_open,     \* static int codec_open
    denoise_state,  \* SpeexPreprocessState *denoise_state
    denoisers,      \* the preprocessor states that exist on the heap
    count           \* static int count: frames encoded since the last init

jniVars == <<codec_open, denoise_state, denoisers, count>>

SpeexJniType ==
    /\ codec_open \in Nat
    /\ denoise_state \in Thread \cup {Nobody}
    /\ denoisers \subseteq Thread
    /\ count \in Nat

SpeexJniInit ==
    /\ codec_open = 0 /\ denoise_state = Nobody /\ denoisers = {} /\ count = 0

frame_size == 160

(* Division of C and Java, which rounds toward zero. *)
Quotient(n, d) == IF n >= 0 THEN n \div d ELSE -((-n) \div d)

(* The whole frames among n samples; what is left over is dropped. *)
FramesIn(n) == Quotient(n, frame_size)

-----------------------------------------------------------------------------
(* init.  "codec_open++ != 0" is a load and a store: `seen` was loaded. *)
CodecIncrement(seen) ==
    /\ codec_open' = seen + 1
    /\ UNCHANGED <<denoise_state, denoisers, count>>

DenoiserInit(t) ==
    /\ denoise_state' = t
    /\ denoisers' = denoisers \cup {t}
    /\ UNCHANGED <<codec_open, count>>

CountReset ==
    /\ count' = 0
    /\ UNCHANGED <<codec_open, denoise_state, denoisers>>

(* denoiseAndEnc *)
CountFrame ==
    /\ count' = count + 1
    /\ UNCHANGED <<codec_open, denoise_state, denoisers>>

(* close: denoise_state is not set to NULL. *)
DenoiserDestroy ==
    /\ denoisers' = denoisers \ {denoise_state}
    /\ UNCHANGED <<codec_open, denoise_state, count>>

CodecReset ==
    /\ codec_open' = 0
    /\ UNCHANGED <<denoise_state, denoisers, count>>

SpeexJniLost ==
    /\ codec_open' = 0 /\ denoise_state' = Nobody /\ denoisers' = {} /\ count' = 0
=============================================================================
