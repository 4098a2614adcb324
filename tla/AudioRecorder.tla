--------------------------- MODULE AudioRecorder ---------------------------
(* The recorder: the buttons of MainActivity, the threads that run
   IMAudioRecorder.run(), and the native library they share.

   Every click on Start makes a thread, which runs once.  The fields of an
   IMAudioRecorder belong to that object and are shared by its threads; the
   globals of SpeexJni and AmrEnc belong to the process and are shared by all.
   Nothing is locked.  pc[t] is the place thread t has reached, and a step of t
   makes one access to what others can see. *)
EXTENDS SpeexJni

CONSTANTS
    Recorder,     \* the IMAudioRecorder objects, one for each MainActivity made
    ReadSizes,    \* what AudioRecord.read may return: samples, or an error code
    MicFaults,    \* may the microphone be refused?
    MayDie,       \* may the system kill the process?
    EagerClicks,  \* may Start be clicked before the last thread got to line 54?
    MaxFrames     \* bound: read() gives no frames beyond this many

ASSUME AudioRecorderAssumption ==
    /\ Recorder # {}
    /\ ReadSizes \subseteq {n \in Int : n > -frame_size} /\ 0 \in ReadSizes
    /\ MicFaults \in BOOLEAN /\ MayDie \in BOOLEAN /\ EagerClicks \in BOOLEAN
    /\ MaxFrames \in Nat

VARIABLES
    mRun, isRecording, audioRecord, frameCount,  \* fields of each recorder
    ui,                    \* the recorder that the visible MainActivity holds
    rec,                   \* the recorder whose run() a thread executes
    pc, seen, samples, left,       \* where a thread is, and its local variables
    failed,                        \* history: the threads that met an exception
    refused, stopped,              \* history: the threads under way whose init()
                                   \* failed, and those that a Stop was clicked for
    undefined              \* a dead object was used: nothing is known from then on

javaVars    == <<mRun, isRecording, audioRecord, frameCount>>
localVars   == <<seen, samples, left>>
historyVars == <<failed, refused, stopped>>
vars == <<amrVars, jniVars, javaVars, ui, rec, pc, localVars, historyVars, undefined>>

ReadError == -3   \* AudioRecord.ERROR_INVALID_OPERATION

(* The places of run() in the order of the code, native calls expanded. *)
InitPlaces  == {"init", "init_inc", "alloc", "amr_init", "amr_inc", "amr_alloc",
                "amr_header", "zero"}
MicPlaces   == {"new_record", "start_record", "set_recording"}
LoopPlaces  == {"loop", "read", "denoise", "frames", "amr_check", "amr_write",
                "count", "frame_count"}
ClosePlaces == {"close", "destroy", "amr_exit", "amr_free", "amr_reset", "codec_reset"}
Body   == InitPlaces \cup MicPlaces \cup LoopPlaces \cup {"stop", "release"}
            \cup ClosePlaces \cup {"reset", "exit_run"}
Places == Body \cup {"idle", "run", "claim", "done"}

InBody(t) == pc[t] \in Body

AudioRecorderType ==
    /\ mRun \in [Recorder -> BOOLEAN]
    /\ isRecording \in [Recorder -> BOOLEAN]
    /\ audioRecord \in [Recorder -> {"null", "usable", "unusable"}]
    /\ frameCount \in [Recorder -> Nat]
    /\ ui \in Recorder
    /\ rec \in [Thread -> Recorder]
    /\ pc \in [Thread -> Places]
    /\ seen \in [Thread -> Nat]
    /\ samples \in [Thread -> {n \in Int : n > -frame_size}]
    /\ left \in [Thread -> Nat]
    /\ failed \subseteq Thread /\ refused \subseteq Thread /\ stopped \subseteq Thread
    /\ undefined \in BOOLEAN

(* A field of every new IMAudioRecorder. *)
NewField(value) == [r \in Recorder |-> value]

Init ==
    /\ AmrEncInit /\ SpeexJniInit
    /\ mRun = NewField(FALSE) /\ isRecording = NewField(FALSE)
    /\ audioRecord = NewField("null") /\ frameCount = NewField(0)
    /\ ui \in Recorder /\ rec = [t \in Thread |-> ui]
    /\ pc = [t \in Thread |-> "idle"]
    /\ seen = [t \in Thread |-> 0]
    /\ samples = [t \in Thread |-> 0]
    /\ left = [t \in Thread |-> 0]
    /\ failed = {} /\ refused = {} /\ stopped = {}
    /\ undefined = FALSE

Go(t, from, to) == ~undefined /\ pc[t] = from /\ pc' = [pc EXCEPT ![t] = to]

\* A slip to detect: line 99 is inside the try block.
ThrowSkipsExit(t, from) == Go(t, from, "done") /\ failed' = failed \cup {t}

(* An exception leaves the try block: no stop, no release, no close. *)
Throw(t, from) == Go(t, from, "exit_run") /\ failed' = failed \cup {t}

-----------------------------------------------------------------------------
(* What a step of one layer leaves alone in the others. *)
OnlyPc     == UNCHANGED <<amrVars, jniVars, javaVars, ui, rec, localVars, historyVars, undefined>>
OnlyAmr    == UNCHANGED <<jniVars, javaVars, ui, rec, localVars, historyVars, undefined>>
OnlyJni    == UNCHANGED <<amrVars, javaVars, ui, rec, localVars, historyVars, undefined>>
OnlyThread == UNCHANGED <<amrVars, jniVars, javaVars, ui, rec, undefined>>
OnlyJava   == UNCHANGED <<amrVars, jniVars, ui, rec, seen, left, refused, stopped, undefined>>

(* MainActivity's buttons. *)
StartRecord(t) ==
    /\ ~undefined /\ pc[t] = "idle"
    /\ EagerClicks \/ \A u \in Thread : rec[u] = ui => pc[u] \notin {"run", "claim"}
    /\ pc' = [pc EXCEPT ![t] = "run"]
    /\ rec' = [rec EXCEPT ![t] = ui]
    /\ UNCHANGED <<amrVars, jniVars, javaVars, ui, localVars, historyVars, undefined>>

\* A slip to detect: Stop makes the recorder ready for the next Start at once.
StopRecordClearsRun ==
    /\ ~undefined
    /\ isRecording' = [isRecording EXCEPT ![ui] = FALSE]
    /\ mRun' = [mRun EXCEPT ![ui] = FALSE]
    /\ stopped' = stopped \cup {t \in Thread : rec[t] = ui /\ InBody(t)}
    /\ UNCHANGED <<amrVars, jniVars, audioRecord, frameCount, ui, rec, pc,
                   localVars, failed, refused, undefined>>

StopRecord ==
    /\ ~undefined
    /\ isRecording' = [isRecording EXCEPT ![ui] = FALSE]
    /\ stopped' = stopped \cup {t \in Thread : rec[t] = ui /\ InBody(t)}
    /\ UNCHANGED <<amrVars, jniVars, mRun, audioRecord, frameCount, ui, rec, pc,
                   localVars, failed, refused, undefined>>

(* A configuration change makes a new MainActivity with a recorder of its own;
   the threads of the old one go on. *)
Recreate(r) ==
    /\ ~undefined /\ r # ui /\ \A t \in Thread : pc[t] # "idle" => rec[t] # r
    /\ ui' = r
    /\ rec' = [t \in Thread |-> IF pc[t] = "idle" THEN r ELSE rec[t]]
    /\ UNCHANGED <<amrVars, jniVars, javaVars, pc, localVars, historyVars, undefined>>

(* The system kills the process and the user opens the application again. *)
ProcessDeath ==
    /\ ~undefined /\ MayDie
    /\ AmrEncLost /\ SpeexJniLost
    /\ mRun' = NewField(FALSE) /\ isRecording' = NewField(FALSE)
    /\ audioRecord' = NewField("null") /\ frameCount' = NewField(0)
    /\ pc' = [t \in Thread |-> IF pc[t] = "idle" THEN "idle" ELSE "done"]
    /\ seen' = [t \in Thread |-> 0]
    /\ samples' = [t \in Thread |-> 0]
    /\ left' = [t \in Thread |-> 0]
    /\ refused' = {} /\ stopped' = {}
    /\ UNCHANGED <<ui, rec, failed, undefined>>

-----------------------------------------------------------------------------
\* A slip to detect: the check of mRun is missing.
RunCheckMissing(t) == Go(t, "run", "claim") /\ OnlyPc

(* run(), lines 50 to 57. *)
RunCheck(t) ==
    /\ Go(t, "run", IF mRun[rec[t]] THEN "done" ELSE "claim")
    /\ OnlyPc

Claim(t) ==
    /\ Go(t, "claim", "init")
    /\ mRun' = [mRun EXCEPT ![rec[t]] = TRUE]
    /\ UNCHANGED <<isRecording, audioRecord, frameCount, samples, failed>>
    /\ OnlyJava

(* native init *)
CodecOpenLoad(t) ==
    /\ Go(t, "init", "init_inc")
    /\ seen' = [seen EXCEPT ![t] = codec_open]
    /\ UNCHANGED <<samples, left, historyVars>>
    /\ OnlyThread

\* A slip to detect: a codec that is already open is set up again.
CodecOpenAgain(t) ==
    /\ Go(t, "init_inc", "alloc")
    /\ CodecIncrement(seen[t])
    /\ UNCHANGED <<amrVars, javaVars, ui, rec, localVars, historyVars, undefined>>

CodecOpenStore(t) ==
    /\ Go(t, "init_inc", IF seen[t] # 0 THEN "new_record" ELSE "alloc")
    /\ CodecIncrement(seen[t])
    /\ refused' = IF seen[t] # 0 THEN refused \cup {t} ELSE refused
    /\ UNCHANGED <<amrVars, javaVars, ui, rec, localVars, failed, stopped, undefined>>

Allocate(t) == Go(t, "alloc", "amr_init") /\ DenoiserInit(t) /\ OnlyJni

EncodeLoad(t) ==
    /\ Go(t, "amr_init", "amr_inc")
    /\ seen' = [seen EXCEPT ![t] = encode]
    /\ UNCHANGED <<samples, left, historyVars>>
    /\ OnlyThread

EncodeStore(t) ==
    /\ Go(t, "amr_inc", IF seen[t] # 0 THEN "zero" ELSE "amr_alloc")
    /\ EncodeIncrement(seen[t])
    /\ OnlyAmr

AmrAllocate(t) == Go(t, "amr_alloc", "amr_header") /\ EncoderOpen(t) /\ OnlyAmr

AmrHeader(t) ==
    /\ Go(t, "amr_header", "zero")
    /\ \E outcome \in Outcomes : HeaderWrite(outcome)
    /\ OnlyAmr

ZeroCount(t) == Go(t, "zero", "new_record") /\ CountReset /\ OnlyJni

(* Lines 62 to 69.  The constructor throws, or makes an object that may be
   unusable because the microphone is not to be had. *)
NewAudioRecord(t) ==
    /\ Go(t, "new_record", "start_record")
    /\ \E s \in {"usable"} \cup (IF MicFaults THEN {"unusable"} ELSE {}) :
           audioRecord' = [audioRecord EXCEPT ![rec[t]] = s]
    /\ UNCHANGED <<mRun, isRecording, frameCount, samples, failed>>
    /\ OnlyJava

NewAudioRecordThrows(t) ==
    /\ MicFaults
    /\ Throw(t, "new_record")
    /\ UNCHANGED <<refused, stopped, localVars>>
    /\ OnlyThread

StartRecording(t) ==
    /\ audioRecord[rec[t]] = "usable"
    /\ Go(t, "start_record", "set_recording")
    /\ OnlyPc

SetRecording(t) ==
    /\ Go(t, "set_recording", "loop")
    /\ isRecording' = [isRecording EXCEPT ![rec[t]] = TRUE]
    /\ UNCHANGED <<mRun, audioRecord, frameCount, samples, failed>>
    /\ OnlyJava

-----------------------------------------------------------------------------
(* The loop, lines 70 to 82, with native denoiseAndEnc expanded. *)
LoopCheck(t) ==
    /\ Go(t, "loop", IF isRecording[rec[t]] THEN "read" ELSE "stop")
    /\ OnlyPc

Read(t) ==
    /\ Go(t, "read", "denoise")
    /\ \E n \in IF audioRecord[rec[t]] = "usable" THEN ReadSizes ELSE {ReadError} :
           /\ \/ FramesIn(n) = 0
              \/ /\ count + FramesIn(n) <= MaxFrames
                 /\ frameCount[rec[t]] + FramesIn(n) <= MaxFrames
           /\ samples' = [samples EXCEPT ![t] = n]
    /\ UNCHANGED <<seen, left, historyVars>>
    /\ OnlyThread

DenoiseClosed(t) == codec_open = 0 /\ Go(t, "denoise", "frame_count") /\ OnlyPc

DenoiseOpen(t) ==
    /\ codec_open # 0 /\ samples[t] >= 0
    /\ Go(t, "denoise", "frames")
    /\ left' = [left EXCEPT ![t] = FramesIn(samples[t])]
    /\ UNCHANGED <<seen, samples, historyVars>>
    /\ OnlyThread

(* GetShortArrayRegion of a negative length raises an exception in Java. *)
DenoiseThrows(t) ==
    /\ codec_open # 0 /\ samples[t] < 0
    /\ Throw(t, "denoise")
    /\ samples' = [samples EXCEPT ![t] = 0]
    /\ UNCHANGED <<seen, left, refused, stopped>>
    /\ OnlyThread

\* A slip to detect: the loop of denoiseAndEnc goes on to i <= size/frame_size.
PreprocessOneMore(t) ==
    /\ left[t] >= 0 /\ denoise_state \in denoisers
    /\ Go(t, "frames", "amr_check")
    /\ OnlyPc

Preprocess(t) ==
    /\ left[t] > 0 /\ denoise_state \in denoisers
    /\ Go(t, "frames", "amr_check")
    /\ OnlyPc

FramesDone(t) == left[t] = 0 /\ Go(t, "frames", "frame_count") /\ OnlyPc

AmrCheck(t) ==
    /\ Go(t, "amr_check", IF encode = 0 THEN "count" ELSE "amr_write")
    /\ OnlyPc

(* The file is opened before the encoder is used. *)
AmrWrite(t) ==
    /\ Go(t, "amr_write", "count")
    /\ \E outcome \in Outcomes :
           /\ outcome = "unopened" \/ amr \in encoders
           /\ FrameWrite(t, outcome)
    /\ OnlyAmr

CountOne(t) ==
    /\ Go(t, "count", "frames")
    /\ CountFrame
    /\ left' = [left EXCEPT ![t] = @ - 1]
    /\ UNCHANGED <<amrVars, javaVars, ui, rec, seen, samples, historyVars, undefined>>

\* A slip to detect: isRecording is tested once, before the loop.
AddFrameCountAndRead(t) ==
    /\ Go(t, "frame_count", "read")
    /\ frameCount' = [frameCount EXCEPT ![rec[t]] = @ + FramesIn(samples[t])]
    /\ samples' = [samples EXCEPT ![t] = 0]
    /\ UNCHANGED <<mRun, isRecording, audioRecord, failed>>
    /\ OnlyJava

AddFrameCount(t) ==
    /\ Go(t, "frame_count", "loop")
    /\ frameCount' = [frameCount EXCEPT ![rec[t]] = @ + FramesIn(samples[t])]
    /\ samples' = [samples EXCEPT ![t] = 0]
    /\ UNCHANGED <<mRun, isRecording, audioRecord, failed>>
    /\ OnlyJava

-----------------------------------------------------------------------------
(* Lines 84 to 99, with native close expanded. *)
StopMic(t) ==
    /\ audioRecord[rec[t]] = "usable"
    /\ Go(t, "stop", "release")
    /\ OnlyPc

\* A slip to detect: the recorder waits until it is given the microphone.
MicThrowsLate(t) ==
    /\ audioRecord[rec[t]] # "usable"
    /\ Throw(t, "stop")
    /\ UNCHANGED <<refused, stopped, localVars>>
    /\ OnlyThread

(* startRecording() and stop() throw IllegalStateException on an AudioRecord
   that was never initialized or is released. *)
MicThrows(t) ==
    /\ audioRecord[rec[t]] # "usable"
    /\ Throw(t, "start_record") \/ Throw(t, "stop")
    /\ UNCHANGED <<refused, stopped, localVars>>
    /\ OnlyThread

Release(t) ==
    /\ Go(t, "release", "close")
    /\ audioRecord' = [audioRecord EXCEPT ![rec[t]] = "unusable"]
    /\ UNCHANGED <<mRun, isRecording, frameCount, samples, failed>>
    /\ OnlyJava

\* A slip to detect: the codec is never closed.
CloseForgotten(t) == Go(t, "close", "reset") /\ OnlyPc

CloseCheck(t) ==
    /\ Go(t, "close", IF codec_open = 0 THEN "reset" ELSE "destroy")
    /\ OnlyPc

Destroy(t) ==
    /\ denoise_state \in denoisers
    /\ Go(t, "destroy", "amr_exit") /\ DenoiserDestroy /\ OnlyJni

AmrExitCheck(t) ==
    /\ Go(t, "amr_exit", IF encode = 0 THEN "codec_reset" ELSE "amr_free")
    /\ OnlyPc

AmrFree(t) ==
    /\ amr \in encoders
    /\ Go(t, "amr_free", "amr_reset") /\ EncoderExit /\ OnlyAmr

AmrReset(t) == Go(t, "amr_reset", "codec_reset") /\ EncodeReset /\ OnlyAmr

CodecClosed(t) == Go(t, "codec_reset", "reset") /\ CodecReset /\ OnlyJni

\* A slip to detect: frameCount is left as it is.
FrameCountKept(t) == Go(t, "reset", "exit_run") /\ OnlyPc

ResetFrameCount(t) ==
    /\ Go(t, "reset", "exit_run")
    /\ frameCount' = [frameCount EXCEPT ![rec[t]] = 0]
    /\ UNCHANGED <<mRun, isRecording, audioRecord, samples, failed>>
    /\ OnlyJava

(* The thread ends, and its locals with it. *)
ExitRun(t) ==
    /\ Go(t, "exit_run", "done")
    /\ mRun' = [mRun EXCEPT ![rec[t]] = FALSE]
    /\ seen' = [seen EXCEPT ![t] = 0]
    /\ refused' = refused \ {t} /\ stopped' = stopped \ {t}
    /\ UNCHANGED <<amrVars, jniVars, isRecording, audioRecord, frameCount, ui, rec,
                   samples, left, failed, undefined>>

(* A denoiser or an encoder that is freed, or was never made, is dereferenced:
   the behaviour is undefined and the model stops. *)
UseDead(t) ==
    /\ ~undefined
    /\ \/ pc[t] = "frames" /\ left[t] > 0 /\ denoise_state \notin denoisers
       \/ pc[t] = "destroy" /\ denoise_state \notin denoisers
       \/ pc[t] = "amr_write" /\ amr \notin encoders
       \/ pc[t] = "amr_free" /\ amr \notin encoders
    /\ undefined' = TRUE
    /\ UNCHANGED <<amrVars, jniVars, javaVars, ui, rec, pc, localVars, historyVars>>

-----------------------------------------------------------------------------
InitStep(t) ==
    \/ RunCheck(t) \/ Claim(t) \/ CodecOpenLoad(t) \/ CodecOpenStore(t) \/ Allocate(t)
    \/ EncodeLoad(t) \/ EncodeStore(t) \/ AmrAllocate(t) \/ AmrHeader(t) \/ ZeroCount(t)
    \/ NewAudioRecord(t) \/ NewAudioRecordThrows(t) \/ StartRecording(t) \/ SetRecording(t)

LoopStep(t) ==
    \/ LoopCheck(t) \/ Read(t) \/ DenoiseClosed(t) \/ DenoiseOpen(t) \/ DenoiseThrows(t)
    \/ Preprocess(t) \/ FramesDone(t) \/ AmrCheck(t) \/ AmrWrite(t) \/ CountOne(t)
    \/ AddFrameCount(t)

CloseStep(t) ==
    \/ StopMic(t) \/ MicThrows(t) \/ Release(t) \/ CloseCheck(t) \/ Destroy(t)
    \/ AmrExitCheck(t) \/ AmrFree(t) \/ AmrReset(t) \/ CodecClosed(t)
    \/ ResetFrameCount(t) \/ ExitRun(t)

(* What thread t does next; the scheduler runs every thread. *)
Step(t) == InitStep(t) \/ LoopStep(t) \/ CloseStep(t) \/ UseDead(t)

Next ==
    \/ \E t \in Thread : StartRecord(t) \/ Step(t)
    \/ StopRecord
    \/ \E r \in Recorder : Recreate(r)
    \/ ProcessDeath

Spec == Init /\ [][Next]_vars

FairSpec == Spec /\ \A t \in Thread : WF_vars(Step(t))
=============================================================================
