------------------------ MODULE AudioRecorderProofs ------------------------
(* Theorems of AudioRecorder for any set of threads, any set of recorders, any
   bound and any outcome of reads and writes that the assumptions allow. *)
EXTENDS AudioRecorderInvariants, TLAPS

(* FramesIn counts frames: an error code of read() counts for none. *)
LEMMA FramesInNat ==
    ASSUME NEW n \in Int, n > -frame_size
    PROVE  FramesIn(n) \in Nat
<1>1. CASE n >= 0
  BY <1>1 DEF FramesIn, Quotient, frame_size
<1>2. CASE n < 0
  <2>1. -n \in 0..159
    BY <1>2 DEF frame_size
  <2>2. (-n) \div 160 = 0
    BY <2>1
  <2> QED
    BY <1>2, <2>2 DEF FramesIn, Quotient, frame_size
<1> QED
  BY <1>1, <1>2

(* The places, one by one. *)
LEMMA PlacesListed ==
    Places = {"idle", "run", "claim", "done",
              "init", "init_inc", "alloc", "amr_init", "amr_inc", "amr_alloc",
              "amr_header", "zero", "new_record", "start_record", "set_recording",
              "loop", "read", "denoise", "frames", "amr_check", "amr_write",
              "count", "frame_count", "stop", "release",
              "close", "destroy", "amr_exit", "amr_free", "amr_reset", "codec_reset",
              "reset", "exit_run"}
BY DEF Places, Body, InitPlaces, MicPlaces, LoopPlaces, ClosePlaces

-----------------------------------------------------------------------------
(* The types: every variable of the three layers has its type in every state. *)
LEMMA TypeInit == Init => TypeInv
<1> SUFFICES ASSUME Init PROVE TypeInv
  OBVIOUS
<1>1. AmrEncType
  <2>1. <<>> \in Seq(Thread \cup {Torn})
    OBVIOUS
  <2>2. file \in [header : BOOLEAN, frames : Seq(Thread \cup {Torn})]
    BY <2>1 DEF Init, AmrEncInit
  <2> QED
    BY <2>2 DEF Init, AmrEncInit, AmrEncType
<1>2. SpeexJniType
  BY DEF Init, SpeexJniInit, SpeexJniType
<1>3. AudioRecorderType
  <2>1. pc \in [Thread -> Places]
    BY DEF Init, Places
  <2>2. samples \in [Thread -> {n \in Int : n > -frame_size}]
    BY DEF Init, frame_size
  <2>3. /\ mRun \in [Recorder -> BOOLEAN]
        /\ isRecording \in [Recorder -> BOOLEAN]
        /\ audioRecord \in [Recorder -> {"null", "usable", "unusable"}]
        /\ frameCount \in [Recorder -> Nat]
    BY DEF Init, NewField
  <2>4. /\ ui \in Recorder
        /\ rec \in [Thread -> Recorder]
        /\ seen \in [Thread -> Nat] /\ left \in [Thread -> Nat]
        /\ failed \subseteq Thread /\ refused \subseteq Thread /\ stopped \subseteq Thread
        /\ undefined \in BOOLEAN
    BY DEF Init
  <2> QED
    BY <2>1, <2>2, <2>3, <2>4 DEF AudioRecorderType
<1>4. FramesLeft
  BY DEF Init, FramesLeft
<1> QED
  BY <1>1, <1>2, <1>3, <1>4 DEF TypeInv, TypeOK

LEMMA FramesAppend ==
    ASSUME NEW f \in [header : BOOLEAN, frames : Seq(Thread \cup {Torn})],
           NEW x \in Thread \cup {Torn}
    PROVE  [f EXCEPT !.frames = Append(@, x)]
               \in [header : BOOLEAN, frames : Seq(Thread \cup {Torn})]
<1>1. Append(f.frames, x) \in Seq(Thread \cup {Torn})
  OBVIOUS
<1> QED
  BY <1>1

LEMMA TypeStep == TypeInv /\ [Next]_vars => TypeInv'
<1> SUFFICES ASSUME TypeInv, [Next]_vars PROVE TypeInv'
  OBVIOUS
<1> USE AmrEncAssumption, AudioRecorderAssumption, PlacesListed
<1> USE DEF TypeInv, FramesLeft, TypeOK, AmrEncType, SpeexJniType, AudioRecorderType
<1>1. CASE UNCHANGED vars
  BY <1>1 DEF vars, amrVars, jniVars, javaVars, localVars, historyVars
<1>2. CASE StopRecord
  BY <1>2 DEF StopRecord, amrVars, jniVars, localVars
<1>3. CASE ProcessDeath
  BY <1>3 DEF ProcessDeath, AmrEncLost, SpeexJniLost, NewField, frame_size
<1>4. ASSUME NEW r \in Recorder, Recreate(r) PROVE TypeInv'
  BY <1>4 DEF Recreate, amrVars, jniVars, javaVars, localVars, historyVars
<1>5. ASSUME NEW t \in Thread, StartRecord(t) PROVE TypeInv'
  BY <1>5 DEF StartRecord, amrVars, jniVars, javaVars, localVars, historyVars
<1>6. ASSUME NEW t \in Thread, UseDead(t) PROVE TypeInv'
  BY <1>6 DEF UseDead, amrVars, jniVars, javaVars, localVars, historyVars
<1>7. ASSUME NEW t \in Thread, InitStep(t) PROVE TypeInv'
  <2>1. CASE RunCheck(t)
    BY <2>1 DEF RunCheck, Go, OnlyPc, amrVars, jniVars, javaVars, localVars, historyVars
  <2>2. CASE Claim(t)
    BY <2>2 DEF Claim, Go, OnlyJava, amrVars, jniVars
  <2>3. CASE CodecOpenLoad(t)
    BY <2>3 DEF CodecOpenLoad, Go, OnlyThread, amrVars, jniVars, javaVars, historyVars
  <2>4. CASE CodecOpenStore(t)
    BY <2>4, SMTT(30) DEF CodecOpenStore, CodecIncrement, Go, amrVars, javaVars, localVars
  <2>5. CASE Allocate(t)
    BY <2>5 DEF Allocate, DenoiserInit, Go, OnlyJni, amrVars, javaVars, localVars, historyVars
  <2>6. CASE EncodeLoad(t)
    BY <2>6 DEF EncodeLoad, Go, OnlyThread, amrVars, jniVars, javaVars, historyVars
  <2>7. CASE EncodeStore(t)
    BY <2>7 DEF EncodeStore, EncodeIncrement, Go, OnlyAmr, jniVars, javaVars, localVars, historyVars
  <2>8. CASE AmrAllocate(t)
    BY <2>8 DEF AmrAllocate, EncoderOpen, Go, OnlyAmr, jniVars, javaVars, localVars, historyVars
  <2>9. CASE AmrHeader(t)
    <3>1. PICK outcome \in Outcomes : HeaderWrite(outcome)
      BY <2>9 DEF AmrHeader
    <3>2. [header |-> outcome = "written", frames |-> <<>>]
              \in [header : BOOLEAN, frames : Seq(Thread \cup {Torn})]
      OBVIOUS
    <3>3. file' \in [header : BOOLEAN, frames : Seq(Thread \cup {Torn})]
      BY <3>1, <3>2 DEF HeaderWrite
    <3>4. intact' \in BOOLEAN
      BY <3>1 DEF HeaderWrite
    <3> QED
      BY <2>9, <3>1, <3>3, <3>4 DEF AmrHeader, HeaderWrite, Go, OnlyAmr, jniVars, javaVars,
                                    localVars, historyVars
  <2>10. CASE ZeroCount(t)
    BY <2>10 DEF ZeroCount, CountReset, Go, OnlyJni, amrVars, javaVars, localVars, historyVars
  <2>11. CASE NewAudioRecord(t)
    BY <2>11, SMTT(30) DEF NewAudioRecord, Go, OnlyJava, amrVars, jniVars
  <2>12. CASE NewAudioRecordThrows(t)
    BY <2>12 DEF NewAudioRecordThrows, Throw, Go, OnlyThread, amrVars, jniVars, javaVars, localVars
  <2>13. CASE StartRecording(t)
    BY <2>13 DEF StartRecording, Go, OnlyPc, amrVars, jniVars, javaVars, localVars, historyVars
  <2>14. CASE SetRecording(t)
    BY <2>14 DEF SetRecording, Go, OnlyJava, amrVars, jniVars
  <2> QED
    BY <1>7, <2>1, <2>2, <2>3, <2>4, <2>5, <2>6, <2>7, <2>8, <2>9, <2>10, <2>11, <2>12, <2>13, <2>14 DEF InitStep
<1>8. ASSUME NEW t \in Thread, LoopStep(t) PROVE TypeInv'
  <2>1. CASE LoopCheck(t)
    BY <2>1 DEF LoopCheck, Go, OnlyPc, amrVars, jniVars, javaVars, localVars, historyVars
  <2>2. CASE Read(t)
    <3>1. ReadError \in {n \in Int : n > -frame_size}
      BY DEF ReadError, frame_size
    <3> QED
      BY <2>2, <3>1, SMTT(30) DEF Read, Go, OnlyThread, amrVars, jniVars, javaVars, historyVars
  <2>3. CASE DenoiseClosed(t)
    BY <2>3 DEF DenoiseClosed, Go, OnlyPc, amrVars, jniVars, javaVars, localVars, historyVars
  <2>4. CASE DenoiseOpen(t)
    <3>1. FramesIn(samples[t]) \in Nat
      BY FramesInNat
    <3> QED
      BY <2>4, <3>1 DEF DenoiseOpen, Go, OnlyThread, amrVars, jniVars, javaVars, historyVars
  <2>5. CASE DenoiseThrows(t)
    BY <2>5 DEF DenoiseThrows, Throw, Go, OnlyThread, amrVars, jniVars, javaVars, localVars
  <2>6. CASE Preprocess(t)
    BY <2>6 DEF Preprocess, Go, OnlyPc, amrVars, jniVars, javaVars, localVars, historyVars
  <2>7. CASE FramesDone(t)
    BY <2>7 DEF FramesDone, Go, OnlyPc, amrVars, jniVars, javaVars, localVars, historyVars
  <2>8. CASE AmrCheck(t)
    BY <2>8 DEF AmrCheck, Go, OnlyPc, amrVars, jniVars, javaVars, localVars, historyVars
  <2>9. CASE AmrWrite(t)
    <3>1. PICK outcome \in Outcomes : FrameWrite(t, outcome)
      BY <2>9 DEF AmrWrite
    <3>2. file' \in [header : BOOLEAN, frames : Seq(Thread \cup {Torn})]
      BY <3>1, FramesAppend DEF FrameWrite
    <3> QED
      BY <2>9, <3>1, <3>2 DEF AmrWrite, FrameWrite, Go, OnlyAmr, jniVars, javaVars,
                              localVars, historyVars
  <2>10. CASE CountOne(t)
    <3>1. left[t] - 1 \in Nat
      BY <2>10, SMTT(30) DEF CountOne, Go
    <3>2. left' \in [Thread -> Nat]
      BY <2>10, <3>1 DEF CountOne
    <3>3. FramesLeft'
      BY <2>10 DEF CountOne, Go
    <3>4. count' \in Nat /\ pc' \in [Thread -> Places]
      BY <2>10 DEF CountOne, CountFrame, Go
    <3>5. UNCHANGED <<amrVars, javaVars, ui, rec, seen, samples, historyVars, undefined>>
              /\ UNCHANGED <<codec_open, denoise_state, denoisers>>
      BY <2>10 DEF CountOne, CountFrame
    <3> HIDE DEF FramesLeft
    <3> QED
      BY <3>2, <3>3, <3>4, <3>5 DEF amrVars, javaVars, historyVars
  <2>11. CASE AddFrameCount(t)
    <3>1. FramesIn(samples[t]) \in Nat
      BY FramesInNat
    <3>2. 0 \in {n \in Int : n > -frame_size}
      BY DEF frame_size
    <3>3. frameCount[rec[t]] + FramesIn(samples[t]) \in Nat
      BY <3>1, SMTT(30)
    <3>4. frameCount' \in [Recorder -> Nat]
      BY <2>11, <3>3 DEF AddFrameCount
    <3>5. samples' \in [Thread -> {n \in Int : n > -frame_size}]
      BY <2>11, <3>2 DEF AddFrameCount
    <3> QED
      BY <2>11, <3>4, <3>5 DEF AddFrameCount, Go, OnlyJava, amrVars, jniVars
  <2> QED
    BY <1>8, <2>1, <2>2, <2>3, <2>4, <2>5, <2>6, <2>7, <2>8, <2>9, <2>10, <2>11 DEF LoopStep
<1>9. ASSUME NEW t \in Thread, CloseStep(t) PROVE TypeInv'
  <2>1. CASE StopMic(t)
    BY <2>1 DEF StopMic, Go, OnlyPc, amrVars, jniVars, javaVars, localVars, historyVars
  <2>2. CASE MicThrows(t)
    <3>1. CASE Throw(t, "start_record")
      BY <2>2, <3>1 DEF MicThrows, Throw, Go, OnlyThread, amrVars, jniVars, javaVars, localVars
    <3>2. CASE Throw(t, "stop")
      BY <2>2, <3>2 DEF MicThrows, Throw, Go, OnlyThread, amrVars, jniVars, javaVars, localVars
    <3> QED
      BY <2>2, <3>1, <3>2 DEF MicThrows
  <2>3. CASE Release(t)
    BY <2>3 DEF Release, Go, OnlyJava, amrVars, jniVars
  <2>4. CASE CloseCheck(t)
    BY <2>4 DEF CloseCheck, Go, OnlyPc, amrVars, jniVars, javaVars, localVars, historyVars
  <2>5. CASE Destroy(t)
    BY <2>5 DEF Destroy, DenoiserDestroy, Go, OnlyJni, amrVars, javaVars, localVars, historyVars
  <2>6. CASE AmrExitCheck(t)
    BY <2>6 DEF AmrExitCheck, Go, OnlyPc, amrVars, jniVars, javaVars, localVars, historyVars
  <2>7. CASE AmrFree(t)
    BY <2>7 DEF AmrFree, EncoderExit, Go, OnlyAmr, jniVars, javaVars, localVars, historyVars
  <2>8. CASE AmrReset(t)
    BY <2>8 DEF AmrReset, EncodeReset, Go, OnlyAmr, jniVars, javaVars, localVars, historyVars
  <2>9. CASE CodecClosed(t)
    BY <2>9 DEF CodecClosed, CodecReset, Go, OnlyJni, amrVars, javaVars, localVars, historyVars
  <2>10. CASE ResetFrameCount(t)
    BY <2>10 DEF ResetFrameCount, Go, OnlyJava, amrVars, jniVars
  <2>11. CASE ExitRun(t)
    BY <2>11 DEF ExitRun, Go, amrVars, jniVars
  <2> QED
    BY <1>9, <2>1, <2>2, <2>3, <2>4, <2>5, <2>6, <2>7, <2>8, <2>9, <2>10, <2>11 DEF CloseStep
<1> QED
  BY <1>1, <1>2, <1>3, <1>4, <1>5, <1>6, <1>7, <1>8, <1>9 DEF Next, Step
(* Every state has the types, whatever the clicks and the number of recorders. *)
THEOREM TypeCorrect == Spec => []TypeOK
<1>1. TypeInv => TypeOK
  BY DEF TypeInv
<1> QED
  BY TypeInit, TypeStep, <1>1, PTL DEF Spec

-----------------------------------------------------------------------------
(* A step of thread t inside run()'s body: it does not touch mRun. *)
Within(t) ==
    /\ pc[t] \in Body
    /\ \E to \in Body : pc' = [pc EXCEPT ![t] = to]
    /\ UNCHANGED <<mRun, ui, rec>>

LEMMA BodyListed ==
    Body = {"init", "init_inc", "alloc", "amr_init", "amr_inc", "amr_alloc",
            "amr_header", "zero", "new_record", "start_record", "set_recording",
            "loop", "read", "denoise", "frames", "amr_check", "amr_write",
            "count", "frame_count", "stop", "release",
            "close", "destroy", "amr_exit", "amr_free", "amr_reset", "codec_reset",
            "reset", "exit_run"}
BY DEF Body, InitPlaces, MicPlaces, LoopPlaces, ClosePlaces

(* Only three steps of a thread enter the body, leave it, or touch mRun. *)
LEMMA Moves ==
    ASSUME NEW t \in Thread, Step(t)
    PROVE  RunCheck(t) \/ Claim(t) \/ ExitRun(t) \/ Within(t) \/ UseDead(t)
<1> USE BodyListed
<1>1. ASSUME InitStep(t), ~RunCheck(t), ~Claim(t) PROVE Within(t)
  <2>1. CASE CodecOpenLoad(t)
    BY <2>1 DEF CodecOpenLoad, Go, OnlyThread, javaVars, Within
  <2>2. CASE CodecOpenStore(t)
    BY <2>2 DEF CodecOpenStore, Go, javaVars, Within
  <2>3. CASE Allocate(t)
    BY <2>3 DEF Allocate, Go, OnlyJni, javaVars, Within
  <2>4. CASE EncodeLoad(t)
    BY <2>4 DEF EncodeLoad, Go, OnlyThread, javaVars, Within
  <2>5. CASE EncodeStore(t)
    BY <2>5 DEF EncodeStore, Go, OnlyAmr, javaVars, Within
  <2>6. CASE AmrAllocate(t)
    BY <2>6 DEF AmrAllocate, Go, OnlyAmr, javaVars, Within
  <2>7. CASE AmrHeader(t)
    BY <2>7 DEF AmrHeader, Go, OnlyAmr, javaVars, Within
  <2>8. CASE ZeroCount(t)
    BY <2>8 DEF ZeroCount, Go, OnlyJni, javaVars, Within
  <2>9. CASE NewAudioRecord(t)
    BY <2>9 DEF NewAudioRecord, Go, OnlyJava, Within
  <2>10. CASE NewAudioRecordThrows(t)
    BY <2>10 DEF NewAudioRecordThrows, Throw, Go, OnlyThread, javaVars, Within
  <2>11. CASE StartRecording(t)
    BY <2>11 DEF StartRecording, Go, OnlyPc, javaVars, Within
  <2>12. CASE SetRecording(t)
    BY <2>12 DEF SetRecording, Go, OnlyJava, Within
  <2> QED
    BY <1>1, <2>1, <2>2, <2>3, <2>4, <2>5, <2>6, <2>7, <2>8, <2>9, <2>10, <2>11, <2>12 DEF InitStep
<1>2. ASSUME LoopStep(t) PROVE Within(t)
  <2>1. CASE LoopCheck(t)
    BY <2>1 DEF LoopCheck, Go, OnlyPc, javaVars, Within
  <2>2. CASE Read(t)
    BY <2>2 DEF Read, Go, OnlyThread, javaVars, Within
  <2>3. CASE DenoiseClosed(t)
    BY <2>3 DEF DenoiseClosed, Go, OnlyPc, javaVars, Within
  <2>4. CASE DenoiseOpen(t)
    BY <2>4 DEF DenoiseOpen, Go, OnlyThread, javaVars, Within
  <2>5. CASE DenoiseThrows(t)
    BY <2>5 DEF DenoiseThrows, Throw, Go, OnlyThread, javaVars, Within
  <2>6. CASE Preprocess(t)
    BY <2>6 DEF Preprocess, Go, OnlyPc, javaVars, Within
  <2>7. CASE FramesDone(t)
    BY <2>7 DEF FramesDone, Go, OnlyPc, javaVars, Within
  <2>8. CASE AmrCheck(t)
    BY <2>8 DEF AmrCheck, Go, OnlyPc, javaVars, Within
  <2>9. CASE AmrWrite(t)
    BY <2>9 DEF AmrWrite, Go, OnlyAmr, javaVars, Within
  <2>10. CASE CountOne(t)
    BY <2>10 DEF CountOne, Go, javaVars, Within
  <2>11. CASE AddFrameCount(t)
    BY <2>11 DEF AddFrameCount, Go, OnlyJava, Within
  <2> QED
    BY <1>2, <2>1, <2>2, <2>3, <2>4, <2>5, <2>6, <2>7, <2>8, <2>9, <2>10, <2>11 DEF LoopStep
<1>3. ASSUME CloseStep(t), ~ExitRun(t) PROVE Within(t)
  <2>1. CASE StopMic(t)
    BY <2>1 DEF StopMic, Go, OnlyPc, javaVars, Within
  <2>2. CASE MicThrows(t)
    <3>1. CASE Throw(t, "start_record")
      BY <2>2, <3>1 DEF MicThrows, Throw, Go, OnlyThread, javaVars, Within
    <3>2. CASE Throw(t, "stop")
      BY <2>2, <3>2 DEF MicThrows, Throw, Go, OnlyThread, javaVars, Within
    <3> QED
      BY <2>2, <3>1, <3>2 DEF MicThrows
  <2>3. CASE Release(t)
    BY <2>3 DEF Release, Go, OnlyJava, Within
  <2>4. CASE CloseCheck(t)
    BY <2>4 DEF CloseCheck, Go, OnlyPc, javaVars, Within
  <2>5. CASE Destroy(t)
    BY <2>5 DEF Destroy, Go, OnlyJni, javaVars, Within
  <2>6. CASE AmrExitCheck(t)
    BY <2>6 DEF AmrExitCheck, Go, OnlyPc, javaVars, Within
  <2>7. CASE AmrFree(t)
    BY <2>7 DEF AmrFree, Go, OnlyAmr, javaVars, Within
  <2>8. CASE AmrReset(t)
    BY <2>8 DEF AmrReset, Go, OnlyAmr, javaVars, Within
  <2>9. CASE CodecClosed(t)
    BY <2>9 DEF CodecClosed, Go, OnlyJni, javaVars, Within
  <2>10. CASE ResetFrameCount(t)
    BY <2>10 DEF ResetFrameCount, Go, OnlyJava, Within
  <2> QED
    BY <1>3, <2>1, <2>2, <2>3, <2>4, <2>5, <2>6, <2>7, <2>8, <2>9, <2>10 DEF CloseStep
<1> QED
  BY <1>1, <1>2, <1>3 DEF Step
-----------------------------------------------------------------------------
(* A recorder marked as running has a thread in its body.  This is inductive
   given the types, and needs nothing of the clicks. *)
LEMMA LockoutStep == TypeInv /\ NoLockout /\ [Next]_vars => NoLockout'
<1> SUFFICES ASSUME TypeInv, NoLockout, [Next]_vars PROVE NoLockout'
  OBVIOUS
<1> USE BodyListed DEF TypeInv, TypeOK, AudioRecorderType, NoLockout, InBody
<1>1. CASE UNCHANGED vars
  BY <1>1 DEF vars, javaVars
<1>2. CASE StopRecord
  BY <1>2 DEF StopRecord
<1>3. CASE ProcessDeath
  BY <1>3 DEF ProcessDeath, NewField
<1>4. ASSUME NEW r \in Recorder, Recreate(r) PROVE NoLockout'
  BY <1>4 DEF Recreate, javaVars
<1>5. ASSUME NEW t \in Thread, StartRecord(t) PROVE NoLockout'
  BY <1>5 DEF StartRecord, javaVars
<1>6. ASSUME NEW t \in Thread, Step(t) PROVE NoLockout'
  <2>1. CASE RunCheck(t)
    BY <2>1 DEF RunCheck, Go, OnlyPc, javaVars
  <2>2. CASE Claim(t)
    BY <2>2 DEF Claim, Go, OnlyJava
  <2>3. CASE ExitRun(t)
    BY <2>3 DEF ExitRun, Go
  <2>4. CASE Within(t)
    BY <2>4 DEF Within
  <2>5. CASE UseDead(t)
    BY <2>5 DEF UseDead, javaVars
  <2> QED
    BY <1>6, Moves, <2>1, <2>2, <2>3, <2>4, <2>5
<1> QED
  BY <1>1, <1>2, <1>3, <1>4, <1>5, <1>6 DEF Next

(* No recorder is locked out: for any number of recorders and eager clicks too. *)
THEOREM NeverLockedOut == Spec => []NoLockout
<1>1. Init => NoLockout
  BY DEF Init, NewField, NoLockout
<1> QED
  BY <1>1, TypeInit, TypeStep, LockoutStep, PTL DEF Spec

-----------------------------------------------------------------------------
(* Exclusion is inductive given the types, in a step that starts from no race. *)
LEMMA ExclusionStep == TypeInv /\ NoRace /\ Exclusion /\ [Next]_vars => Exclusion'
<1> SUFFICES ASSUME TypeInv, NoRace, Exclusion, [Next]_vars PROVE Exclusion'
  OBVIOUS
<1> USE BodyListed
<1> USE DEF TypeInv, TypeOK, AudioRecorderType, Exclusion, NoRace, OneRunPerRecorder, InBody
<1>1. CASE UNCHANGED vars
  BY <1>1 DEF vars, javaVars
<1>2. CASE StopRecord
  BY <1>2 DEF StopRecord
<1>3. CASE ProcessDeath
  BY <1>3 DEF ProcessDeath, NewField
<1>4. ASSUME NEW r \in Recorder, Recreate(r) PROVE Exclusion'
  BY <1>4 DEF Recreate, javaVars
<1>5. ASSUME NEW t \in Thread, StartRecord(t) PROVE Exclusion'
  BY <1>5 DEF StartRecord, javaVars
<1>6. ASSUME NEW t \in Thread, Step(t) PROVE Exclusion'
  <2>1. CASE RunCheck(t)
    BY <2>1 DEF RunCheck, Go, OnlyPc, javaVars
  <2>2. CASE Claim(t)
    BY <2>2 DEF Claim, Go, OnlyJava
  <2>3. CASE ExitRun(t)
    BY <2>3 DEF ExitRun, Go
  <2>4. CASE Within(t)
    BY <2>4 DEF Within
  <2>5. CASE UseDead(t)
    BY <2>5 DEF UseDead, javaVars
  <2> QED
    BY <1>6, Moves, <2>1, <2>2, <2>3, <2>4, <2>5
<1> QED
  BY <1>1, <1>2, <1>3, <1>4, <1>5, <1>6 DEF Next

LEMMA ExclusionInit == Init => Exclusion
BY BodyListed DEF Init, NewField, Exclusion, OneRunPerRecorder, InBody

(* The race between lines 50 and 54 is the only way for two threads of a recorder
   into the body, whatever the clicks and the number of recorders. *)
THEOREM MutualExclusion == Spec => ExclusionUnlessRace
<1>1. Exclusion => OneRunPerRecorder
  BY DEF Exclusion
<1> QED
  BY <1>1, TypeInit, TypeStep, ExclusionInit, ExclusionStep, PTL
     DEF Spec, ExclusionUnlessRace

(* Clicks that wait for line 54 rule the race out, also across a new MainActivity
   and the death of the process. *)
LEMMA PatientStep ==
    ASSUME ~EagerClicks
    PROVE  TypeInv /\ PatientClaims /\ [Next]_vars => PatientClaims'
<1> SUFFICES ASSUME TypeInv, PatientClaims, [Next]_vars PROVE PatientClaims'
  OBVIOUS
<1> USE BodyListed
<1> USE DEF TypeInv, TypeOK, AudioRecorderType, PatientClaims, Claiming
<1>1. CASE UNCHANGED vars
  BY <1>1 DEF vars
<1>2. CASE StopRecord
  BY <1>2 DEF StopRecord
<1>3. CASE ProcessDeath
  BY <1>3 DEF ProcessDeath
<1>4. ASSUME NEW r \in Recorder, Recreate(r) PROVE PatientClaims'
  BY <1>4 DEF Recreate
<1>5. ASSUME NEW t \in Thread, StartRecord(t) PROVE PatientClaims'
  BY <1>5 DEF StartRecord
<1>6. ASSUME NEW t \in Thread, Step(t) PROVE PatientClaims'
  <2>1. CASE RunCheck(t)
    BY <2>1 DEF RunCheck, Go, OnlyPc
  <2>2. CASE Claim(t)
    BY <2>2 DEF Claim, Go, OnlyJava
  <2>3. CASE ExitRun(t)
    BY <2>3 DEF ExitRun, Go
  <2>4. CASE Within(t)
    BY <2>4 DEF Within
  <2>5. CASE UseDead(t)
    BY <2>5 DEF UseDead
  <2> QED
    BY <1>6, Moves, <2>1, <2>2, <2>3, <2>4, <2>5
<1> QED
  BY <1>1, <1>2, <1>3, <1>4, <1>5, <1>6 DEF Next

(* With patient clicks there is no race: the theorems below that suppose none hold
   of the runs whose EagerClicks is FALSE. *)
THEOREM PatientClicksDoNotRace ==
    ASSUME ~EagerClicks
    PROVE  Spec => []NoRace
<1>1. Init => PatientClaims
  BY DEF Init, PatientClaims, Claiming
<1>2. PatientClaims => NoRace
  BY DEF PatientClaims, Claiming, NoRace
<1> QED
  BY <1>1, <1>2, TypeInit, TypeStep, PatientStep, PTL DEF Spec

-----------------------------------------------------------------------------
(* The codec.  From here on there is one recorder. *)
LEMMA OneRunFromExclusion ==
    ASSUME \A r, s \in Recorder : r = s, TypeInv, Exclusion
    PROVE  OneRun
BY DEF TypeInv, TypeOK, AudioRecorderType, Exclusion, OneRunPerRecorder, OneRun

(* If one run at a time is in the body, what a step does to the codec need be
   looked at only for the thread that takes it. *)
LEMMA CodecFocus ==
    ASSUME TypeInv, OneRun, NEW t \in Thread, Within(t), CodecAt(t)', ~undefined'
    PROVE  CodecInv'
<1>1. InBody(t)' /\ \A u \in Thread : u # t => ~InBody(u)'
  BY DEF TypeInv, TypeOK, AudioRecorderType, OneRun, InBody, Within
<1>2. \A u \in Thread : InBody(u)' => CodecAt(u)'
  BY <1>1
<1> QED
  BY <1>1, <1>2 DEF CodecInv

LEMMA WithinOpen ==
    ASSUME TypeInv, OneRun, CodecInv, NEW t \in Thread, InBody(t)
    PROVE  CodecAt(t) /\ ~undefined /\ \A u \in Thread : InBody(u) => u = t
BY DEF CodecInv, OneRun

LEMMA CodecStep == TypeInv /\ OneRun /\ OneRun' /\ CodecInv /\ [Next]_vars => CodecInv'
<1> SUFFICES ASSUME TypeInv, OneRun, OneRun', CodecInv, [Next]_vars PROVE CodecInv'
  OBVIOUS
<1> USE BodyListed
<1>a. pc \in [Thread -> Places] /\ codec_open \in Nat /\ encode \in Nat /\ seen \in [Thread -> Nat]
  BY DEF TypeInv, TypeOK, AudioRecorderType, SpeexJniType, AmrEncType
<1>1. CASE UNCHANGED vars
  BY <1>1 DEF vars, amrVars, jniVars, localVars, CodecInv, CodecAt, Open, Shut, Denoiser,
              Encoder, InBody
<1>2. CASE StopRecord
  BY <1>2 DEF StopRecord, amrVars, jniVars, localVars, CodecInv, CodecAt, Open, Shut,
              Denoiser, Encoder, InBody
<1>3. CASE ProcessDeath
  BY <1>3, <1>a DEF ProcessDeath, AmrEncLost, SpeexJniLost, CodecInv, Shut, InBody
<1>4. ASSUME NEW r \in Recorder, Recreate(r) PROVE CodecInv'
  BY <1>4 DEF Recreate, amrVars, jniVars, localVars, CodecInv, CodecAt, Open, Shut,
              Denoiser, Encoder, InBody
<1>5. ASSUME NEW t \in Thread, StartRecord(t) PROVE CodecInv'
  <2>1. \A u \in Thread : InBody(u)' <=> InBody(u)
    BY <1>5, <1>a DEF StartRecord, InBody
  <2>2. \A u \in Thread : InBody(u) => pc'[u] = pc[u]
    BY <1>5, <1>a DEF StartRecord, InBody
  <2> QED
    BY <1>5, <2>1, <2>2 DEF StartRecord, amrVars, jniVars, localVars, CodecInv, CodecAt,
                            Open, Shut, Denoiser, Encoder
<1>6. ASSUME NEW t \in Thread, InitStep(t), Within(t) PROVE CodecInv'
  <2>a. InBody(t)
    BY <1>6 DEF Within, InBody
  <2>b. CodecAt(t) /\ ~undefined
    BY <2>a, WithinOpen
  <2>c. SUFFICES CodecAt(t)' /\ ~undefined'
    BY <1>6, CodecFocus
  <2>1. CASE RunCheck(t)
    BY <2>1, <1>6, <1>a DEF RunCheck, Go, Within
  <2>2. CASE Claim(t)
    BY <2>2, <1>6, <1>a DEF Claim, Go, Within
  <2>3. CASE CodecOpenLoad(t)
    BY <2>3, <1>a, <2>b DEF CodecOpenLoad, Go, OnlyThread, amrVars, jniVars, CodecAt, Open, Shut, Denoiser, Encoder, MicPlaces, LoopPlaces
  <2>4. CASE CodecOpenStore(t)
    BY <2>4, <1>a, <2>b DEF CodecOpenStore, CodecIncrement, Go, amrVars, localVars, CodecAt, Open, Shut, Denoiser, Encoder, MicPlaces, LoopPlaces
  <2>5. CASE Allocate(t)
    BY <2>5, <1>a, <2>b DEF Allocate, DenoiserInit, Go, OnlyJni, amrVars, CodecAt, Open, Shut, Denoiser, Encoder, MicPlaces, LoopPlaces
  <2>6. CASE EncodeLoad(t)
    BY <2>6, <1>a, <2>b DEF EncodeLoad, Go, OnlyThread, amrVars, jniVars, CodecAt, Open, Shut, Denoiser, Encoder, MicPlaces, LoopPlaces
  <2>7. CASE EncodeStore(t)
    BY <2>7, <1>a, <2>b DEF EncodeStore, EncodeIncrement, Go, OnlyAmr, jniVars, CodecAt, Open, Shut, Denoiser, Encoder, MicPlaces, LoopPlaces
  <2>8. CASE AmrAllocate(t)
    BY <2>8, <1>a, <2>b DEF AmrAllocate, EncoderOpen, Go, OnlyAmr, jniVars, CodecAt, Open, Shut, Denoiser, Encoder, MicPlaces, LoopPlaces
  <2>9. CASE AmrHeader(t)
    BY <2>9, <1>a, <2>b DEF AmrHeader, HeaderWrite, Go, OnlyAmr, jniVars, CodecAt, Open, Shut, Denoiser, Encoder, MicPlaces, LoopPlaces
  <2>10. CASE ZeroCount(t)
    BY <2>10, <1>a, <2>b DEF ZeroCount, CountReset, Go, OnlyJni, amrVars, CodecAt, Open, Shut, Denoiser, Encoder, MicPlaces, LoopPlaces
  <2>11. CASE NewAudioRecord(t)
    BY <2>11, <1>a, <2>b DEF NewAudioRecord, Go, OnlyJava, amrVars, jniVars, CodecAt, Open, Shut, Denoiser, Encoder, MicPlaces, LoopPlaces
  <2>12. CASE NewAudioRecordThrows(t)
    BY <2>12, <1>a, <2>b DEF NewAudioRecordThrows, Throw, Go, OnlyThread, amrVars, jniVars, CodecAt, Open, Shut, Denoiser, Encoder, MicPlaces, LoopPlaces
  <2>13. CASE StartRecording(t)
    BY <2>13, <1>a, <2>b DEF StartRecording, Go, OnlyPc, amrVars, jniVars, localVars, CodecAt, Open, Shut, Denoiser, Encoder, MicPlaces, LoopPlaces
  <2>14. CASE SetRecording(t)
    BY <2>14, <1>a, <2>b DEF SetRecording, Go, OnlyJava, amrVars, jniVars, CodecAt, Open, Shut, Denoiser, Encoder, MicPlaces, LoopPlaces
  <2> QED
    BY <1>6, <2>1, <2>2, <2>3, <2>4, <2>5, <2>6, <2>7, <2>8, <2>9, <2>10, <2>11, <2>12, <2>13, <2>14 DEF InitStep
<1>7. ASSUME NEW t \in Thread, LoopStep(t), Within(t) PROVE CodecInv'
  <2>a. InBody(t)
    BY <1>7 DEF Within, InBody
  <2>b. CodecAt(t) /\ ~undefined
    BY <2>a, WithinOpen
  <2>c. SUFFICES CodecAt(t)' /\ ~undefined'
    BY <1>7, CodecFocus
  <2>1. CASE LoopCheck(t)
    BY <2>1, <1>a, <2>b DEF LoopCheck, Go, OnlyPc, amrVars, jniVars, localVars, CodecAt, Open, Shut, Denoiser, Encoder, MicPlaces, LoopPlaces
  <2>2. CASE Read(t)
    BY <2>2, <1>a, <2>b DEF Read, Go, OnlyThread, amrVars, jniVars, CodecAt, Open, Shut, Denoiser, Encoder, MicPlaces, LoopPlaces
  <2>3. CASE DenoiseClosed(t)
    BY <2>3, <1>a, <2>b DEF DenoiseClosed, Go, OnlyPc, amrVars, jniVars, localVars, CodecAt, Open, Shut, Denoiser, Encoder, MicPlaces, LoopPlaces
  <2>4. CASE DenoiseOpen(t)
    BY <2>4, <1>a, <2>b DEF DenoiseOpen, Go, OnlyThread, amrVars, jniVars, CodecAt, Open, Shut, Denoiser, Encoder, MicPlaces, LoopPlaces
  <2>5. CASE DenoiseThrows(t)
    BY <2>5, <1>a, <2>b DEF DenoiseThrows, Throw, Go, OnlyThread, amrVars, jniVars, CodecAt, Open, Shut, Denoiser, Encoder, MicPlaces, LoopPlaces
  <2>6. CASE Preprocess(t)
    BY <2>6, <1>a, <2>b DEF Preprocess, Go, OnlyPc, amrVars, jniVars, localVars, CodecAt, Open, Shut, Denoiser, Encoder, MicPlaces, LoopPlaces
  <2>7. CASE FramesDone(t)
    BY <2>7, <1>a, <2>b DEF FramesDone, Go, OnlyPc, amrVars, jniVars, localVars, CodecAt, Open, Shut, Denoiser, Encoder, MicPlaces, LoopPlaces
  <2>8. CASE AmrCheck(t)
    BY <2>8, <1>a, <2>b DEF AmrCheck, Go, OnlyPc, amrVars, jniVars, localVars, CodecAt, Open, Shut, Denoiser, Encoder, MicPlaces, LoopPlaces
  <2>9. CASE AmrWrite(t)
    BY <2>9, <1>a, <2>b DEF AmrWrite, FrameWrite, Go, OnlyAmr, jniVars, CodecAt, Open, Shut, Denoiser, Encoder, MicPlaces, LoopPlaces
  <2>10. CASE CountOne(t)
    BY <2>10, <1>a, <2>b DEF CountOne, CountFrame, Go, amrVars, CodecAt, Open, Shut, Denoiser, Encoder, MicPlaces, LoopPlaces
  <2>11. CASE AddFrameCount(t)
    BY <2>11, <1>a, <2>b DEF AddFrameCount, Go, OnlyJava, amrVars, jniVars, CodecAt, Open, Shut, Denoiser, Encoder, MicPlaces, LoopPlaces
  <2> QED
    BY <1>7, <2>1, <2>2, <2>3, <2>4, <2>5, <2>6, <2>7, <2>8, <2>9, <2>10, <2>11 DEF LoopStep
<1>8. ASSUME NEW t \in Thread, CloseStep(t), Within(t) PROVE CodecInv'
  <2>a. InBody(t)
    BY <1>8 DEF Within, InBody
  <2>b. CodecAt(t) /\ ~undefined
    BY <2>a, WithinOpen
  <2>c. SUFFICES CodecAt(t)' /\ ~undefined'
    BY <1>8, CodecFocus
  <2>1. CASE StopMic(t)
    BY <2>1, <1>a, <2>b DEF StopMic, Go, OnlyPc, amrVars, jniVars, localVars, CodecAt, Open, Shut, Denoiser, Encoder, MicPlaces, LoopPlaces
  <2>2. CASE MicThrows(t)
    <3>1. CASE Throw(t, "start_record")
      BY <2>2, <3>1, <1>a, <2>b DEF MicThrows, Throw, Go, OnlyThread, amrVars, jniVars, CodecAt, Open, Shut, Denoiser, Encoder, MicPlaces, LoopPlaces
    <3>2. CASE Throw(t, "stop")
      BY <2>2, <3>2, <1>a, <2>b DEF MicThrows, Throw, Go, OnlyThread, amrVars, jniVars, CodecAt, Open, Shut, Denoiser, Encoder, MicPlaces, LoopPlaces
    <3> QED
      BY <2>2, <3>1, <3>2 DEF MicThrows
  <2>3. CASE Release(t)
    BY <2>3, <1>a, <2>b DEF Release, Go, OnlyJava, amrVars, jniVars, CodecAt, Open, Shut, Denoiser, Encoder, MicPlaces, LoopPlaces
  <2>4. CASE CloseCheck(t)
    BY <2>4, <1>a, <2>b DEF CloseCheck, Go, OnlyPc, amrVars, jniVars, localVars, CodecAt, Open, Shut, Denoiser, Encoder, MicPlaces, LoopPlaces
  <2>5. CASE Destroy(t)
    BY <2>5, <1>a, <2>b DEF Destroy, DenoiserDestroy, Go, OnlyJni, amrVars, CodecAt, Open, Shut, Denoiser, Encoder, MicPlaces, LoopPlaces
  <2>6. CASE AmrExitCheck(t)
    BY <2>6, <1>a, <2>b DEF AmrExitCheck, Go, OnlyPc, amrVars, jniVars, localVars, CodecAt, Open, Shut, Denoiser, Encoder, MicPlaces, LoopPlaces
  <2>7. CASE AmrFree(t)
    BY <2>7, <1>a, <2>b DEF AmrFree, EncoderExit, Go, OnlyAmr, jniVars, CodecAt, Open, Shut, Denoiser, Encoder, MicPlaces, LoopPlaces
  <2>8. CASE AmrReset(t)
    BY <2>8, <1>a, <2>b DEF AmrReset, EncodeReset, Go, OnlyAmr, jniVars, CodecAt, Open, Shut, Denoiser, Encoder, MicPlaces, LoopPlaces
  <2>9. CASE CodecClosed(t)
    BY <2>9, <1>a, <2>b DEF CodecClosed, CodecReset, Go, OnlyJni, amrVars, CodecAt, Open, Shut, Denoiser, Encoder, MicPlaces, LoopPlaces
  <2>10. CASE ResetFrameCount(t)
    BY <2>10, <1>a, <2>b DEF ResetFrameCount, Go, OnlyJava, amrVars, jniVars, CodecAt, Open, Shut, Denoiser, Encoder, MicPlaces, LoopPlaces
  <2>11. CASE ExitRun(t)
    BY <2>11, <1>8, <1>a DEF ExitRun, Go, Within
  <2> QED
    BY <1>8, <2>1, <2>2, <2>3, <2>4, <2>5, <2>6, <2>7, <2>8, <2>9, <2>10, <2>11 DEF CloseStep
<1>9. ASSUME NEW t \in Thread, RunCheck(t) PROVE CodecInv'
  <2>1. \A u \in Thread : (InBody(u)' <=> InBody(u)) /\ (InBody(u) => pc'[u] = pc[u])
    BY <1>9, <1>a DEF RunCheck, Go, InBody
  <2> QED
    BY <1>9, <2>1 DEF RunCheck, OnlyPc, amrVars, jniVars, localVars, CodecInv, CodecAt,
                      Open, Shut, Denoiser, Encoder
<1>10. ASSUME NEW t \in Thread, Claim(t) PROVE CodecInv'
  <2>1. InBody(t)' /\ ~InBody(t) /\ pc'[t] = "init"
    BY <1>10, <1>a DEF Claim, Go, InBody
  <2>2. \A u \in Thread : u # t => InBody(u)' = InBody(u)
    BY <1>10, <1>a DEF Claim, Go, InBody
  <2>3. \A u \in Thread : ~InBody(u)
    BY <2>1, <2>2 DEF OneRun
  <2>4. Open \/ Shut
    BY <2>3 DEF CodecInv
  <2>5. (Open \/ Shut)' /\ ~undefined'
    BY <1>10, <2>4 DEF Claim, Go, OnlyJava, amrVars, jniVars, Open, Shut, Denoiser, Encoder
  <2>6. CodecAt(t)'
    BY <2>1, <2>5 DEF CodecAt, MicPlaces, LoopPlaces
  <2>7. \A u \in Thread : InBody(u)' => u = t
    BY <2>2, <2>3
  <2> QED
    BY <2>1, <2>5, <2>6, <2>7 DEF CodecInv
<1>11. ASSUME NEW t \in Thread, ExitRun(t) PROVE CodecInv'
  <2>1. InBody(t) /\ pc[t] = "exit_run" /\ pc' = [pc EXCEPT ![t] = "done"]
    BY <1>11 DEF ExitRun, Go, InBody
  <2>2. \A u \in Thread : ~InBody(u)'
    BY <2>1, <1>a, WithinOpen DEF InBody
  <2>3. Open \/ Shut
    BY <2>1, WithinOpen DEF CodecAt
  <2>4. (Open \/ Shut)' /\ ~undefined'
    BY <1>11, <2>3 DEF ExitRun, Go, amrVars, jniVars, Open, Shut, Denoiser, Encoder
  <2> QED
    BY <2>2, <2>4 DEF CodecInv
<1>12. ASSUME NEW t \in Thread, UseDead(t) PROVE FALSE
  <2>1. InBody(t)
    BY <1>12 DEF UseDead, InBody
  <2>2. CodecAt(t)
    BY <2>1, WithinOpen
  <2> QED
    BY <1>12, <2>2 DEF UseDead, CodecAt, Open, Denoiser, Encoder, LoopPlaces
<1>13. ASSUME NEW t \in Thread, Step(t) PROVE CodecInv'
  BY <1>13, Moves, <1>6, <1>7, <1>8, <1>9, <1>10, <1>11, <1>12 DEF Step
<1> QED
  BY <1>1, <1>2, <1>3, <1>4, <1>5, <1>13 DEF Next

LEMMA CodecInit == Init => CodecInv
BY BodyListed DEF Init, AmrEncInit, SpeexJniInit, CodecInv, Shut, InBody

(* Whoever is in the body, the heap holds only what the globals point to. *)
LEMMA CodecHolds == CodecInv => NoUseAfterFree /\ NothingLeaks
<1> SUFFICES ASSUME CodecInv PROVE NoUseAfterFree /\ NothingLeaks
  OBVIOUS
<1>1. NoUseAfterFree
  BY DEF CodecInv, NoUseAfterFree
<1>2. denoisers \subseteq {denoise_state} /\ encoders \subseteq {amr}
  <2>1. CASE \A t \in Thread : ~InBody(t)
    BY <2>1 DEF CodecInv, Open, Shut, Denoiser, Encoder
  <2>2. ASSUME NEW t \in Thread, InBody(t)
        PROVE  denoisers \subseteq {denoise_state} /\ encoders \subseteq {amr}
    BY <2>2, BodyListed DEF CodecInv, CodecAt, Open, Shut, Denoiser, Encoder, InBody,
                            MicPlaces, LoopPlaces
  <2> QED
    BY <2>1, <2>2
<1>3. codec_open = 0 /\ (\A t \in Thread : ~InBody(t)) => denoisers = {} /\ encoders = {}
  BY DEF CodecInv, Open, Shut, Denoiser
<1> QED
  BY <1>1, <1>2, <1>3 DEF NothingLeaks

(* With one recorder and no race the codec is whole, absent, or what the
   place of the one run under way says. *)
THEOREM CodecInvariant ==
    ASSUME \A r, s \in Recorder : r = s
    PROVE  Spec /\ []NoRace => []CodecInv
<1>1. TypeInv /\ Exclusion => OneRun
  BY OneRunFromExclusion
<1> QED
  BY <1>1, TypeInit, TypeStep, ExclusionInit, ExclusionStep, CodecInit, CodecStep,
     PTL DEF Spec

(* As above: nothing that is not alive is used or freed. *)
THEOREM MemorySafety ==
    ASSUME \A r, s \in Recorder : r = s
    PROVE  Spec /\ []NoRace => []NoUseAfterFree
BY CodecInvariant, CodecHolds, PTL

(* As above: no denoiser and no encoder is lost. *)
THEOREM NoLeak ==
    ASSUME \A r, s \in Recorder : r = s
    PROVE  Spec /\ []NoRace => []NothingLeaks
BY CodecInvariant, CodecHolds, PTL
-----------------------------------------------------------------------------
(* The frame counters.  What a step does to them need be looked at only for the
   thread that takes it. *)
LEMMA CountersFocus ==
    ASSUME TypeInv, OneRun, NEW t \in Thread, Within(t), CountersAt(t)'
    PROVE  CountersInv'
<1>1. InBody(t)' /\ \A u \in Thread : u # t => ~InBody(u)'
  BY DEF TypeInv, TypeOK, AudioRecorderType, OneRun, InBody, Within
<1>2. \A u \in Thread : InBody(u)' => CountersAt(u)'
  BY <1>1
<1> QED
  BY <1>1, <1>2 DEF CountersInv

LEMMA CountersStep ==
    ASSUME \A r, s \in Recorder : r = s
    PROVE  TypeInv /\ OneRun /\ OneRun' /\ CodecInv /\ CountersInv /\ [Next]_vars
               => CountersInv'
<1> SUFFICES ASSUME TypeInv, OneRun, OneRun', CodecInv, CountersInv, [Next]_vars
             PROVE  CountersInv'
  OBVIOUS
<1> USE BodyListed
<1>a. /\ pc \in [Thread -> Places] /\ codec_open \in Nat /\ count \in Nat
      /\ seen \in [Thread -> Nat] /\ left \in [Thread -> Nat]
      /\ rec \in [Thread -> Recorder] /\ frameCount \in [Recorder -> Nat]
      /\ samples \in [Thread -> {n \in Int : n > -frame_size}]
  BY DEF TypeInv, TypeOK, AudioRecorderType, SpeexJniType
<1>b. \A u \in Thread : Samples(u) \in Nat
  BY <1>a, FramesInNat DEF Samples
<1>1. CASE UNCHANGED vars
  BY <1>1 DEF vars, jniVars, javaVars, localVars, CountersInv, CountersAt, Samples, InBody
<1>2. CASE StopRecord
  BY <1>2 DEF StopRecord, jniVars, localVars, CountersInv, CountersAt, Samples, InBody
<1>3. CASE ProcessDeath
  BY <1>3, <1>a DEF ProcessDeath, SpeexJniLost, NewField, CountersInv, InBody
<1>4. ASSUME NEW r \in Recorder, Recreate(r) PROVE CountersInv'
  BY <1>4, <1>a DEF Recreate, jniVars, javaVars, localVars, CountersInv, CountersAt,
                    Samples, InBody
<1>5. ASSUME NEW t \in Thread, StartRecord(t) PROVE CountersInv'
  <2>1. \A u \in Thread : (InBody(u)' <=> InBody(u))
            /\ (InBody(u) => pc'[u] = pc[u] /\ rec'[u] = rec[u])
    BY <1>5, <1>a DEF StartRecord, InBody
  <2> QED
    BY <1>5, <2>1 DEF StartRecord, jniVars, javaVars, localVars, CountersInv, CountersAt,
                      Samples
<1>6. ASSUME NEW t \in Thread, InitStep(t), Within(t) PROVE CountersInv'
  <2>a. InBody(t)
    BY <1>6 DEF Within, InBody
  <2>b. CountersAt(t) /\ CodecAt(t)
    BY <2>a, WithinOpen DEF CountersInv
  <2>d. pc[t] \in LoopPlaces \cup MicPlaces \cup {"stop", "release", "close"} => codec_open > 0
    BY <2>b, <1>a DEF CodecAt, Open, Denoiser
  <2>e. (pc[t] = "init_inc" => seen[t] = codec_open) /\ (pc[t] = "reset" => codec_open = 0)
    BY <2>b DEF CodecAt, Shut
  <2>c. SUFFICES CountersAt(t)'
    BY <1>6, CountersFocus
  <2>1. CASE RunCheck(t)
    BY <2>1, <1>6, <1>a DEF RunCheck, Go, Within
  <2>2. CASE Claim(t)
    BY <2>2, <1>6, <1>a DEF Claim, Go, Within
  <2>3. CASE CodecOpenLoad(t)
    BY <2>3, <1>a, <1>b, <2>b, <2>d, <2>e DEF CodecOpenLoad, Go, OnlyThread, jniVars, javaVars, CountersAt, Samples, MicPlaces
  <2>4. CASE CodecOpenStore(t)
    BY <2>4, <1>a, <1>b, <2>b, <2>d, <2>e DEF CodecOpenStore, CodecIncrement, Go, javaVars, localVars, CountersAt, Samples, MicPlaces
  <2>5. CASE Allocate(t)
    BY <2>5, <1>a, <1>b, <2>b, <2>d, <2>e DEF Allocate, DenoiserInit, Go, OnlyJni, javaVars, localVars, CountersAt, Samples, MicPlaces
  <2>6. CASE EncodeLoad(t)
    BY <2>6, <1>a, <1>b, <2>b, <2>d, <2>e DEF EncodeLoad, Go, OnlyThread, jniVars, javaVars, CountersAt, Samples, MicPlaces
  <2>7. CASE EncodeStore(t)
    BY <2>7, <1>a, <1>b, <2>b, <2>d, <2>e DEF EncodeStore, Go, OnlyAmr, jniVars, javaVars, localVars, CountersAt, Samples, MicPlaces
  <2>8. CASE AmrAllocate(t)
    BY <2>8, <1>a, <1>b, <2>b, <2>d, <2>e DEF AmrAllocate, Go, OnlyAmr, jniVars, javaVars, localVars, CountersAt, Samples, MicPlaces
  <2>9. CASE AmrHeader(t)
    BY <2>9, <1>a, <1>b, <2>b, <2>d, <2>e DEF AmrHeader, Go, OnlyAmr, jniVars, javaVars, localVars, CountersAt, Samples, MicPlaces
  <2>10. CASE ZeroCount(t)
    BY <2>10, <1>a, <1>b, <2>b, <2>d, <2>e DEF ZeroCount, CountReset, Go, OnlyJni, javaVars, localVars, CountersAt, Samples, MicPlaces
  <2>11. CASE NewAudioRecord(t)
    BY <2>11, <1>a, <1>b, <2>b, <2>d, <2>e DEF NewAudioRecord, Go, OnlyJava, jniVars, CountersAt, Samples, MicPlaces
  <2>12. CASE NewAudioRecordThrows(t)
    BY <2>12, <1>a, <1>b, <2>b, <2>d, <2>e DEF NewAudioRecordThrows, Throw, Go, OnlyThread, jniVars, javaVars, localVars, CountersAt, Samples, MicPlaces
  <2>13. CASE StartRecording(t)
    BY <2>13, <1>a, <1>b, <2>b, <2>d, <2>e DEF StartRecording, Go, OnlyPc, jniVars, javaVars, localVars, CountersAt, Samples, MicPlaces
  <2>14. CASE SetRecording(t)
    BY <2>14, <1>a, <1>b, <2>b, <2>d, <2>e DEF SetRecording, Go, OnlyJava, jniVars, CountersAt, Samples, MicPlaces
  <2> QED
    BY <1>6, <2>1, <2>2, <2>3, <2>4, <2>5, <2>6, <2>7, <2>8, <2>9, <2>10, <2>11, <2>12, <2>13, <2>14 DEF InitStep
<1>7. ASSUME NEW t \in Thread, LoopStep(t), Within(t) PROVE CountersInv'
  <2>a. InBody(t)
    BY <1>7 DEF Within, InBody
  <2>b. CountersAt(t) /\ CodecAt(t)
    BY <2>a, WithinOpen DEF CountersInv
  <2>d. pc[t] \in LoopPlaces \cup MicPlaces \cup {"stop", "release", "close"} => codec_open > 0
    BY <2>b, <1>a DEF CodecAt, Open, Denoiser
  <2>e. (pc[t] = "init_inc" => seen[t] = codec_open) /\ (pc[t] = "reset" => codec_open = 0)
    BY <2>b DEF CodecAt, Shut
  <2>c. SUFFICES CountersAt(t)'
    BY <1>7, CountersFocus
  <2>1. CASE LoopCheck(t)
    BY <2>1, <1>a, <1>b, <2>b, <2>d, <2>e DEF LoopCheck, Go, OnlyPc, jniVars, javaVars, localVars, CountersAt, Samples, MicPlaces, LoopPlaces
  <2>2. CASE Read(t)
    BY <2>2, <1>a, <1>b, <2>b, <2>d, <2>e DEF Read, Go, OnlyThread, jniVars, javaVars, CountersAt, Samples, MicPlaces, LoopPlaces
  <2>3. CASE DenoiseClosed(t)
    BY <2>3, <1>a, <1>b, <2>b, <2>d, <2>e DEF DenoiseClosed, Go, OnlyPc, jniVars, javaVars, localVars, CountersAt, Samples, MicPlaces, LoopPlaces
  <2>4. CASE DenoiseOpen(t)
    BY <2>4, <1>a, <1>b, <2>b, <2>d, <2>e DEF DenoiseOpen, Go, OnlyThread, jniVars, javaVars, CountersAt, Samples, MicPlaces, LoopPlaces
  <2>5. CASE DenoiseThrows(t)
    BY <2>5, <1>a, <1>b, <2>b, <2>d, <2>e DEF DenoiseThrows, Throw, Go, OnlyThread, jniVars, javaVars, CountersAt, Samples, MicPlaces, LoopPlaces
  <2>6. CASE Preprocess(t)
    BY <2>6, <1>a, <1>b, <2>b, <2>d, <2>e DEF Preprocess, Go, OnlyPc, jniVars, javaVars, localVars, CountersAt, Samples, MicPlaces, LoopPlaces
  <2>7. CASE FramesDone(t)
    BY <2>7, <1>a, <1>b, <2>b, <2>d, <2>e DEF FramesDone, Go, OnlyPc, jniVars, javaVars, localVars, CountersAt, Samples, MicPlaces, LoopPlaces
  <2>8. CASE AmrCheck(t)
    BY <2>8, <1>a, <1>b, <2>b, <2>d, <2>e DEF AmrCheck, Go, OnlyPc, jniVars, javaVars, localVars, CountersAt, Samples, MicPlaces, LoopPlaces
  <2>9. CASE AmrWrite(t)
    BY <2>9, <1>a, <1>b, <2>b, <2>d, <2>e DEF AmrWrite, Go, OnlyAmr, jniVars, javaVars, localVars, CountersAt, Samples, MicPlaces, LoopPlaces
  <2>10. CASE CountOne(t)
    BY <2>10, <1>a, <1>b, <2>b, <2>d, <2>e DEF CountOne, CountFrame, Go, javaVars, CountersAt, Samples, MicPlaces, LoopPlaces
  <2>11. CASE AddFrameCount(t)
    BY <2>11, <1>a, <1>b, <2>b, <2>d, <2>e DEF AddFrameCount, Go, OnlyJava, jniVars, CountersAt, Samples, MicPlaces, LoopPlaces
  <2> QED
    BY <1>7, <2>1, <2>2, <2>3, <2>4, <2>5, <2>6, <2>7, <2>8, <2>9, <2>10, <2>11 DEF LoopStep
<1>8. ASSUME NEW t \in Thread, CloseStep(t), Within(t) PROVE CountersInv'
  <2>a. InBody(t)
    BY <1>8 DEF Within, InBody
  <2>b. CountersAt(t) /\ CodecAt(t)
    BY <2>a, WithinOpen DEF CountersInv
  <2>d. pc[t] \in LoopPlaces \cup MicPlaces \cup {"stop", "release", "close"} => codec_open > 0
    BY <2>b, <1>a DEF CodecAt, Open, Denoiser
  <2>e. (pc[t] = "init_inc" => seen[t] = codec_open) /\ (pc[t] = "reset" => codec_open = 0)
    BY <2>b DEF CodecAt, Shut
  <2>c. SUFFICES CountersAt(t)'
    BY <1>8, CountersFocus
  <2>1. CASE StopMic(t)
    BY <2>1, <1>a, <1>b, <2>b, <2>d, <2>e DEF StopMic, Go, OnlyPc, jniVars, javaVars, localVars, CountersAt, Samples, MicPlaces
  <2>2. CASE MicThrows(t)
    <3>1. CASE Throw(t, "start_record")
      BY <2>2, <3>1, <1>a, <1>b, <2>b, <2>d, <2>e DEF MicThrows, Throw, Go, OnlyThread, jniVars, javaVars, localVars, CountersAt, Samples, MicPlaces
    <3>2. CASE Throw(t, "stop")
      BY <2>2, <3>2, <1>a, <1>b, <2>b, <2>d, <2>e DEF MicThrows, Throw, Go, OnlyThread, jniVars, javaVars, localVars, CountersAt, Samples, MicPlaces
    <3> QED
      BY <2>2, <3>1, <3>2 DEF MicThrows
  <2>3. CASE Release(t)
    BY <2>3, <1>a, <1>b, <2>b, <2>d, <2>e DEF Release, Go, OnlyJava, jniVars, CountersAt, Samples, MicPlaces
  <2>4. CASE CloseCheck(t)
    BY <2>4, <1>a, <1>b, <2>b, <2>d, <2>e DEF CloseCheck, Go, OnlyPc, jniVars, javaVars, localVars, CountersAt, Samples, MicPlaces
  <2>5. CASE Destroy(t)
    BY <2>5, <1>a, <1>b, <2>b, <2>d, <2>e DEF Destroy, DenoiserDestroy, Go, OnlyJni, javaVars, localVars, CountersAt, Samples, MicPlaces
  <2>6. CASE AmrExitCheck(t)
    BY <2>6, <1>a, <1>b, <2>b, <2>d, <2>e DEF AmrExitCheck, Go, OnlyPc, jniVars, javaVars, localVars, CountersAt, Samples, MicPlaces
  <2>7. CASE AmrFree(t)
    BY <2>7, <1>a, <1>b, <2>b, <2>d, <2>e DEF AmrFree, Go, OnlyAmr, jniVars, javaVars, localVars, CountersAt, Samples, MicPlaces
  <2>8. CASE AmrReset(t)
    BY <2>8, <1>a, <1>b, <2>b, <2>d, <2>e DEF AmrReset, Go, OnlyAmr, jniVars, javaVars, localVars, CountersAt, Samples, MicPlaces
  <2>9. CASE CodecClosed(t)
    BY <2>9, <1>a, <1>b, <2>b, <2>d, <2>e DEF CodecClosed, CodecReset, Go, OnlyJni, javaVars, localVars, CountersAt, Samples, MicPlaces
  <2>10. CASE ResetFrameCount(t)
    BY <2>10, <1>a, <1>b, <2>b, <2>d, <2>e DEF ResetFrameCount, Go, OnlyJava, jniVars, CountersAt, Samples, MicPlaces
  <2>11. CASE ExitRun(t)
    BY <2>11, <1>8, <1>a DEF ExitRun, Go, Within
  <2> QED
    BY <1>8, <2>1, <2>2, <2>3, <2>4, <2>5, <2>6, <2>7, <2>8, <2>9, <2>10, <2>11 DEF CloseStep
<1>9. ASSUME NEW t \in Thread, RunCheck(t) PROVE CountersInv'
  <2>1. \A u \in Thread : (InBody(u)' <=> InBody(u)) /\ (InBody(u) => pc'[u] = pc[u])
    BY <1>9, <1>a DEF RunCheck, Go, InBody
  <2> QED
    BY <1>9, <2>1 DEF RunCheck, OnlyPc, jniVars, javaVars, localVars, CountersInv, CountersAt,
                      Samples
<1>10. ASSUME NEW t \in Thread, Claim(t) PROVE CountersInv'
  <2>1. InBody(t)' /\ ~InBody(t) /\ pc'[t] = "init"
    BY <1>10, <1>a DEF Claim, Go, InBody
  <2>2. \A u \in Thread : u # t => InBody(u)' = InBody(u)
    BY <1>10, <1>a DEF Claim, Go, InBody
  <2>3. \A u \in Thread : ~InBody(u)
    BY <2>1, <2>2 DEF OneRun
  <2>4. frameCount[rec[t]] = IF codec_open = 0 THEN 0 ELSE count
    BY <2>3, <1>a DEF CountersInv
  <2>5. UNCHANGED <<frameCount, rec, codec_open, count>>
    BY <1>10 DEF Claim, OnlyJava, jniVars
  <2>6. CountersAt(t)'
    BY <2>1, <2>4, <2>5 DEF CountersAt, MicPlaces
  <2>7. \A u \in Thread : InBody(u)' => u = t
    BY <2>2, <2>3
  <2> QED
    BY <2>1, <2>6, <2>7 DEF CountersInv
<1>11. ASSUME NEW t \in Thread, ExitRun(t) PROVE CountersInv'
  <2>1. InBody(t) /\ pc[t] = "exit_run" /\ pc' = [pc EXCEPT ![t] = "done"]
    BY <1>11 DEF ExitRun, Go, InBody
  <2>2. \A u \in Thread : ~InBody(u)'
    BY <2>1, <1>a, WithinOpen DEF InBody
  <2>3. frameCount[rec[t]] = IF codec_open = 0 THEN 0 ELSE count
    BY <2>1 DEF CountersInv, CountersAt
  <2>4. \A r \in Recorder : frameCount[r] = IF codec_open = 0 THEN 0 ELSE count
    BY <2>3, <1>a
  <2>5. UNCHANGED <<frameCount, codec_open, count>>
    BY <1>11 DEF ExitRun, jniVars
  <2> QED
    BY <2>2, <2>4, <2>5 DEF CountersInv
<1>12. ASSUME NEW t \in Thread, UseDead(t) PROVE CountersInv'
  BY <1>12 DEF UseDead, jniVars, javaVars, localVars, CountersInv, CountersAt, Samples, InBody
<1>13. ASSUME NEW t \in Thread, Step(t) PROVE CountersInv'
  BY <1>13, Moves, <1>6, <1>7, <1>8, <1>9, <1>10, <1>11, <1>12 DEF Step
<1> QED
  BY <1>1, <1>2, <1>3, <1>4, <1>5, <1>13 DEF Next

LEMMA CountersInit == Init => CountersInv
BY BodyListed DEF Init, SpeexJniInit, NewField, CountersInv, InBody

(* With one recorder and no race Java and C++ agree on the number of frames
   at the head of the loop, whatever runs failed before. *)
THEOREM CountersAlwaysAgree ==
    ASSUME \A r, s \in Recorder : r = s
    PROVE  Spec /\ []NoRace => []CountersAgree
<1>1. TypeInv /\ Exclusion => OneRun
  BY OneRunFromExclusion
<1>2. CountersInv => CountersAgree
  BY BodyListed DEF CountersInv, CountersAt, CountersAgree, InBody
<1> QED
  BY <1>1, <1>2, TypeInit, TypeStep, ExclusionInit, ExclusionStep, CodecInit, CodecStep,
     CountersInit, CountersStep, PTL DEF Spec
=============================================================================
