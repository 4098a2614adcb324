------------------------------- MODULE AmrEnc -------------------------------
(* The AMR back end, app/jni/amr_nb/amr-enc.c: one encoder kept in process-wide
   globals, and the output file, which every call opens and closes again.

   The functions run on the thread that calls them and take no lock, so each
   is split here into the accesses to shared state it makes; AudioRecorder puts
   them in order, one thread's pc at a time.  An encoder is named by the thread
   that created it, and so is an AMR frame by the thread that encoded it. *)
EXTENDS Integers, Sequences

CONSTANTS
    Thread,    \* the recording threads, one for every click on Start
    Nobody,    \* the NULL pointer
    Torn,      \* a frame of which fwrite wrote only a part
    Outcomes   \* what opening and writing the file may come to, see below

ASSUME AmrEncAssumption ==
    /\ Nobody \notin Thread /\ Torn \notin Thread
    /\ Outcomes \subseteq {"written", "short", "unopened"} /\ "written" \in Outcomes

VARIABLES
    encode,    \* static int encode
    amr,       \* void *amr, the encoder in use
    encoders,  \* the encoders that exist on the heap
    file,      \* /sdcard/amrQAQ.amr: is the magic number there, and the frames
    intact     \* history: every write since the file was last truncated was whole

amrVars == <<encode, amr, encoders, file, intact>>

AmrEncType ==
    /\ encode \in Nat
    /\ amr \in Thread \cup {Nobody}
    /\ encoders \subseteq Thread
    /\ file \in [header : BOOLEAN, frames : Seq(Thread \cup {Torn})]
    /\ intact \in BOOLEAN

AmrEncInit ==
    /\ encode = 0 /\ amr = Nobody /\ encoders = {}
    /\ file = [header |-> FALSE, frames |-> <<>>]
    /\ intact = FALSE

-----------------------------------------------------------------------------
(* amr_enc_init.  "encode++ != 0" is a load and a store: `seen` was loaded. *)
EncodeIncrement(seen) ==
    /\ encode' = seen + 1
    /\ UNCHANGED <<amr, encoders, file, intact>>

EncoderOpen(t) ==
    /\ amr' = t
    /\ encoders' = encoders \cup {t}
    /\ UNCHANGED <<encode, file, intact>>

\* A slip to detect: the file is opened with "ab", and grows from run to run.
HeaderWriteAppends(outcome) ==
    /\ file' = IF outcome = "unopened" THEN file
               ELSE [file EXCEPT !.header = @ \/ outcome = "written"]
    /\ intact' = (outcome = "written")
    /\ UNCHANGED <<encode, amr, encoders>>

(* fopen "wb" truncates the file, then the header is written.  Neither result
   makes the caller stop. *)
HeaderWrite(outcome) ==
    /\ file' = IF outcome = "unopened" THEN file
               ELSE [header |-> outcome = "written", frames |-> <<>>]
    /\ intact' = (outcome = "written")
    /\ UNCHANGED <<encode, amr, encoders>>

(* handleAmrEnc: open for appending, encode one frame, write it. *)
FrameWrite(t, outcome) ==
    /\ file' = CASE outcome = "written"  -> [file EXCEPT !.frames = Append(@, t)]
                 [] outcome = "short"    -> [file EXCEPT !.frames = Append(@, Torn)]
                 [] outcome = "unopened" -> file
    /\ intact' = (intact /\ outcome = "written")
    /\ UNCHANGED <<encode, amr, encoders>>

(* arm_enc_exit: the encoder is freed, then the flag cleared; amr dangles. *)
EncoderExit ==
    /\ encoders' = encoders \ {amr}
    /\ UNCHANGED <<encode, amr, file, intact>>

\* A slip to detect: the encoder is freed and encode stays set.
EncodeStaysSet == UNCHANGED amrVars

EncodeReset ==
    /\ encode' = 0
    /\ UNCHANGED <<amr, encoders, file, intact>>

(* The process dies: its memory goes, the file stays. *)
AmrEncLost ==
    /\ encode' = 0 /\ amr' = Nobody /\ encoders' = {}
    /\ intact' = FALSE
    /\ UNCHANGED file
=============================================================================
