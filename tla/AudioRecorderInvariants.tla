---------------------- MODULE AudioRecorderInvariants ----------------------
(* The inductive invariants behind the theorems of AudioRecorderProofs.  Each
   says what a place in the code implies of the state. *)
EXTENDS AudioRecorderProperties

(* While the library handles a frame there is one left to handle: what keeps
   `left` a natural number, and makes the types inductive. *)
FramesLeft ==
    \A t \in Thread : pc[t] \in {"amr_check", "amr_write", "count"} => left[t] > 0

TypeInv == TypeOK /\ FramesLeft

-----------------------------------------------------------------------------
(* A thread that has seen mRun clear finds it clear when it sets it, and the body
   belongs to the thread that set it: inductive as long as there is no race. *)
Exclusion ==
    /\ \A t \in Thread : InBody(t) => mRun[rec[t]]
    /\ \A t \in Thread : pc[t] = "claim" => ~mRun[rec[t]]
    /\ OneRunPerRecorder

(* Patient clicks let one thread of a recorder at a time come to line 54. *)
Claiming(t) == pc[t] \in {"run", "claim"}

PatientClaims ==
    \A t, u \in Thread : Claiming(t) /\ Claiming(u) /\ rec[t] = rec[u] => t = u

-----------------------------------------------------------------------------
(* One run at a time uses the library: there is one recorder, and Exclusion. *)
OneRun == \A t, u \in Thread : InBody(t) /\ InBody(u) => t = u

(* The codec between two calls is whole or absent. *)
Denoiser == codec_open > 0 /\ denoisers = {denoise_state}
Encoder  == encode > 0 /\ encoders = {amr}
Open     == Denoiser /\ Encoder
Shut     == codec_open = 0 /\ encode = 0 /\ denoisers = {} /\ encoders = {}

(* How much of the codec there is at each place of the run that uses it. *)
CodecAt(t) ==
    /\ pc[t] \in {"init", "init_inc", "exit_run"} => Open \/ Shut
    /\ pc[t] = "init_inc" => seen[t] = codec_open
    /\ pc[t] = "alloc" => codec_open > 0 /\ denoisers = {} /\ encode = 0 /\ encoders = {}
    /\ pc[t] \in {"amr_init", "amr_inc"} => Denoiser /\ encode = 0 /\ encoders = {}
    /\ pc[t] = "amr_inc" => seen[t] = 0
    /\ pc[t] = "amr_alloc" => Denoiser /\ encode > 0 /\ encoders = {}
    /\ pc[t] \in {"amr_header", "zero", "stop", "release", "close", "destroy"}
                     \cup MicPlaces \cup LoopPlaces => Open
    /\ pc[t] \in {"amr_exit", "amr_free"} => codec_open > 0 /\ denoisers = {} /\ Encoder
    /\ pc[t] = "amr_reset" => denoisers = {} /\ encode > 0 /\ encoders = {}
    /\ pc[t] = "codec_reset" => denoisers = {} /\ encode = 0 /\ encoders = {}
    /\ pc[t] = "reset" => Shut

CodecInv ==
    /\ ~undefined
    /\ \A t \in Thread : InBody(t) => CodecAt(t)
    /\ (\A t \in Thread : ~InBody(t)) => Open \/ Shut

-----------------------------------------------------------------------------
(* How the two frame counters relate at each place of the run: the frames of the
   read under way are in one of them, in `left`, or still to be added. *)
Samples(t) == FramesIn(samples[t])

CountersAt(t) ==
    LET javaCount == frameCount[rec[t]] IN
    /\ pc[t] \in {"init", "init_inc", "exit_run"} =>
           javaCount = IF codec_open = 0 THEN 0 ELSE count
    /\ pc[t] \in {"alloc", "amr_init", "amr_inc", "amr_alloc", "amr_header", "zero"} =>
           javaCount = 0
    /\ pc[t] \in MicPlaces \cup {"loop", "read", "denoise", "stop", "release", "close"} =>
           javaCount = count
    /\ pc[t] \in {"frames", "amr_check", "amr_write", "count"} =>
           javaCount + Samples(t) = count + left[t]
    /\ pc[t] = "frame_count" => javaCount + Samples(t) = count

CountersInv ==
    /\ \A t \in Thread : InBody(t) => CountersAt(t)
    /\ (\A t \in Thread : ~InBody(t)) =>
           \A r \in Recorder : frameCount[r] = IF codec_open = 0 THEN 0 ELSE count

-----------------------------------------------------------------------------
(* What the file holds at each place of the run, if every write since it was
   truncated was whole.  A run that finds the codec open goes on with the file of
   the run that failed to close it; the run then has frames of its own too. *)
Whole(n) == file.header /\ Len(file.frames) = n
From(S)  == \A i \in DOMAIN file.frames : file.frames[i] \in S

LeftOpen == codec_open # 0 => Whole(count) /\ From(failed)

FileAt(t) ==
    /\ pc[t] \in {"init", "init_inc", "exit_run"} => LeftOpen
    /\ pc[t] = "zero" => Whole(0)
    /\ pc[t] \in MicPlaces \cup {"loop", "read", "denoise", "frames", "amr_check", "amr_write",
                               "frame_count", "stop", "release", "close"} =>
           Whole(count) /\ From(failed \cup {t})
    /\ pc[t] = "count" => Whole(count + 1) /\ From(failed \cup {t})

FileInv ==
    /\ intact => \A t \in Thread : InBody(t) => FileAt(t)
    /\ intact /\ (\A t \in Thread : ~InBody(t)) => LeftOpen
    /\ MixOnlyAfterFailure

-----------------------------------------------------------------------------
(* A thread before or in init(): it has no frame in the file.  This is what lets
   init() truncate the file without taking a frame of the run it is for. *)
Early == {"idle", "run", "claim"} \cup InitPlaces

NothingWritten ==
    \A t \in Thread :
        pc[t] \in Early => \A i \in DOMAIN file.frames : file.frames[i] # t
=============================================================================
