---------------------- MODULE AudioRecorderProperties ----------------------
(* What must be true of AudioRecorder.  Where a property needs one recorder, or
   that the race of NoRace does not happen, its comment says so. *)
EXTENDS AudioRecorder

(* Every variable has its type. *)
TypeOK == AmrEncType /\ SpeexJniType /\ AudioRecorderType

(* Of one recorder at most one thread is in run()'s body. *)
OneRunPerRecorder ==
    \A t, u \in Thread : InBody(t) /\ InBody(u) /\ rec[t] = rec[u] => t = u

(* No two threads of one recorder are between the check of mRun at line 50 and
   its setting at line 54, which are two steps.  A user who waits for line 54
   between two clicks on Start keeps them apart; nothing in the code does. *)
NoRace ==
    \A t, u \in Thread : pc[t] = "claim" /\ pc[u] = "claim" /\ rec[t] = rec[u] => t = u

(* That race is the only way for two threads of a recorder into the body: as long
   as it has not happened, no click however early, no exception, no Stop, no end
   of a run and no new MainActivity lets a second thread in. *)
ExclusionUnlessRace == []NoRace => []OneRunPerRecorder

(* Neither denoise_state nor amr, which close() leaves dangling, is ever used or
   freed when it is not alive: also not by the run that follows a run that left
   through line 93 with the codec open (one recorder, no race). *)
NoUseAfterFree == ~undefined

(* No denoiser and no encoder is on the heap but those the globals point to, and
   none is when the codec is closed and no run is under way (as above). *)
NothingLeaks ==
    /\ denoisers \subseteq {denoise_state} /\ encoders \subseteq {amr}
    /\ codec_open = 0 /\ (\A t \in Thread : ~InBody(t))
           => denoisers = {} /\ encoders = {}

(* A recorder that refuses to start (line 50) is one whose run is under way: no
   exception and no death leaves mRun set for ever. *)
NoLockout == \A r \in Recorder : mRun[r] => \E t \in Thread : InBody(t) /\ rec[t] = r

(* Whenever the loop is at its head the frames Java counted and those the library
   counted are the same, though one counter is reset by init(), the other after
   close(), and neither when a run fails (one recorder, no race). *)
CountersAgree == \A t \in Thread : pc[t] = "loop" => frameCount[rec[t]] = count

(* If the storage took every write since the file was truncated, then at the
   loop's head the file has its header and exactly the frames the library
   counted: none is lost, doubled or left from an earlier session. *)
FileComplete ==
    \A t \in Thread : pc[t] = "loop" /\ intact
        => file.header /\ Len(file.frames) = count

(* Two runs have frames in one intact file only when the earlier one failed: a
   run after a clean end starts the file afresh. *)
MixOnlyAfterFailure ==
    intact => \A i, j \in DOMAIN file.frames :
        i < j /\ file.frames[i] # file.frames[j] => file.frames[i] \in failed

-----------------------------------------------------------------------------
(* The file seen as a RecordingLog: the writer is the thread in run()'s body
   (one recorder, no race). *)
Writer == IF \E t \in Thread : InBody(t) THEN CHOOSE t \in Thread : InBody(t) ELSE Nobody

Log == INSTANCE RecordingLog WITH
           active <- Writer,
           over   <- {t \in Thread : pc[t] = "done"},
           frames <- file.frames

(* The recorder implements RecordingLog: a run never loses a frame it has
   written, and never has one written between them by another. *)
ImplementsLog == Log!LogSpec

(* The consequence a listener hears: the sessions in the file do not interleave. *)
FramesContiguous == Log!Contiguous

-----------------------------------------------------------------------------
(* A run in its loop whose isRecording is cleared comes to its end: nothing sets
   it again, and neither a fault of the microphone nor of the storage keeps the
   thread (no race). *)
StopEndsLoop ==
    \A t \in Thread :
        (pc[t] \in LoopPlaces /\ ~isRecording[rec[t]]) ~> pc[t] = "done"

(* Every click on Start comes to something: the thread records or has ended. *)
StartSettles == \A t \in Thread : pc[t] = "run" ~> pc[t] \in {"loop", "done"}

-----------------------------------------------------------------------------
(* What the button labelled "StopRecorder" says: the run that was under way when
   it was clicked ends.  A click before line 69 is undone by that line. *)
StopButtonStops == \A t \in Thread : t \in stopped ~> t \notin stopped

(* What the comment "Write Amr header" says of the file: frames come after it. *)
FramesFollowHeader == file.frames # <<>> => file.header

(* What the log line "IMSpeexDSPAndEnc jni init fail, it is already init!" says: a
   run whose native init() failed does not use the codec. *)
RefusedRunNeverEncodes == \A t \in refused : pc[t] # "amr_write"
=============================================================================
