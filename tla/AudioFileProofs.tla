-------------------------- MODULE AudioFileProofs --------------------------
(* Theorems about the file that AudioRecorder's runs leave, with one recorder and
   no race: what it holds when storage is sound, and that the recorder
   implements RecordingLog. *)
EXTENDS AudioRecorderProofs

-----------------------------------------------------------------------------
(* While the file is not touched, frames of failed runs stay frames of failed runs. *)
LEMMA MixKept ==
    MixOnlyAfterFailure /\ UNCHANGED file /\ (intact' => intact) /\ failed \subseteq failed'
        => MixOnlyAfterFailure'
BY DEF MixOnlyAfterFailure

(* A run that adds its own frame to those of failed runs keeps the mix in order. *)
LEMMA MixOfTwo ==
    ASSUME NEW t \in Thread, From(failed \cup {t}),
           \A i, j \in DOMAIN file.frames :
               i < j /\ file.frames[i] # file.frames[j] => file.frames[i] \in failed,
           file \in [header : BOOLEAN, frames : Seq(Thread \cup {Torn})],
           file'.frames = Append(file.frames, t), UNCHANGED failed
    PROVE  /\ From(failed \cup {t})'
           /\ Len(file'.frames) = Len(file.frames) + 1
           /\ MixOnlyAfterFailure'
<1>1. /\ Len(file'.frames) = Len(file.frames) + 1
      /\ DOMAIN file.frames = 1..Len(file.frames)
      /\ DOMAIN file'.frames = 1..(Len(file.frames) + 1)
      /\ Len(file.frames) \in Nat
      /\ \A i \in 1..Len(file.frames) : file'.frames[i] = file.frames[i]
      /\ file'.frames[Len(file.frames) + 1] = t
  OBVIOUS
<1>2. \A i \in DOMAIN file'.frames : i = Len(file.frames) + 1 \/ i \in DOMAIN file.frames
  BY <1>1
<1>3. From(failed \cup {t})'
  BY <1>1, <1>2 DEF From
<1>4. ASSUME NEW i \in DOMAIN file'.frames, NEW j \in DOMAIN file'.frames,
             i < j, file'.frames[i] # file'.frames[j]
      PROVE  file'.frames[i] \in failed'
  <2>1. i \in DOMAIN file.frames
    BY <1>1, <1>4
  <2>2. CASE j \in DOMAIN file.frames
    BY <1>1, <1>4, <2>1, <2>2
  <2>3. CASE j = Len(file.frames) + 1
    BY <1>1, <1>4, <2>1, <2>3 DEF From
  <2> QED
    BY <1>2, <2>2, <2>3
<1> QED
  BY <1>1, <1>3, <1>4 DEF MixOnlyAfterFailure

(* If one run at a time is in the body, only the thread that takes a step has to
   be looked at. *)
LEMMA FileFocus ==
    ASSUME TypeInv, OneRun, NEW t \in Thread, Within(t), intact' => FileAt(t)',
           MixOnlyAfterFailure'
    PROVE  FileInv'
<1>1. InBody(t)' /\ \A u \in Thread : u # t => ~InBody(u)'
  BY DEF TypeInv, TypeOK, AudioRecorderType, OneRun, InBody, Within
<1>2. intact' => \A u \in Thread : InBody(u)' => FileAt(u)'
  BY <1>1
<1> QED
  BY <1>1, <1>2 DEF FileInv

LEMMA FileStep ==
    TypeInv /\ OneRun /\ OneRun' /\ CodecInv /\ FileInv /\ [Next]_vars => FileInv'
<1> SUFFICES ASSUME TypeInv, OneRun, OneRun', CodecInv, FileInv, [Next]_vars
             PROVE  FileInv'
  OBVIOUS
<1> USE BodyListed
<1>a. /\ pc \in [Thread -> Places] /\ codec_open \in Nat /\ encode \in Nat /\ count \in Nat
      /\ seen \in [Thread -> Nat] /\ left \in [Thread -> Nat] /\ intact \in BOOLEAN
      /\ file \in [header : BOOLEAN, frames : Seq(Thread \cup {Torn})]
  BY DEF TypeInv, TypeOK, AudioRecorderType, SpeexJniType, AmrEncType
<1>b. MixOnlyAfterFailure
  BY DEF FileInv
<1>1. CASE UNCHANGED vars
  BY <1>1, <1>b, MixKept DEF vars, amrVars, jniVars, historyVars, FileInv, FileAt, LeftOpen,
                             Whole, From, InBody
<1>2. CASE StopRecord
  BY <1>2, <1>b, MixKept DEF StopRecord, amrVars, jniVars, FileInv, FileAt, LeftOpen,
                             Whole, From, InBody
<1>3. CASE ProcessDeath
  BY <1>3 DEF ProcessDeath, AmrEncLost, FileInv, MixOnlyAfterFailure
<1>4. ASSUME NEW r \in Recorder, Recreate(r) PROVE FileInv'
  BY <1>4, <1>b, MixKept DEF Recreate, amrVars, jniVars, historyVars, FileInv, FileAt,
                             LeftOpen, Whole, From, InBody
<1>5. ASSUME NEW t \in Thread, StartRecord(t) PROVE FileInv'
  <2>1. \A u \in Thread : (InBody(u)' <=> InBody(u)) /\ (InBody(u) => pc'[u] = pc[u])
    BY <1>5, <1>a DEF StartRecord, InBody
  <2> QED
    BY <1>5, <1>b, <2>1, MixKept DEF StartRecord, amrVars, jniVars, historyVars, FileInv,
                                     FileAt, LeftOpen, Whole, From
<1>6. ASSUME NEW t \in Thread, InitStep(t), Within(t) PROVE FileInv'
  <2>a. InBody(t)
    BY <1>6 DEF Within, InBody
  <2>b. CodecAt(t) /\ (intact => FileAt(t))
    BY <2>a, WithinOpen DEF FileInv
  <2>c. /\ pc[t] = "init_inc" => seen[t] = codec_open
        /\ pc[t] = "amr_inc" => seen[t] = 0
        /\ pc[t] = "reset" => codec_open = 0
        /\ pc[t] \in MicPlaces \cup LoopPlaces => encode # 0
    BY <2>b, <1>a DEF CodecAt, Open, Encoder, Shut
  <2>d. SUFFICES (intact' => FileAt(t)') /\ MixOnlyAfterFailure'
    BY <1>6, FileFocus
  <2>1. CASE RunCheck(t)
    BY <2>1, <1>6, <1>a DEF RunCheck, Go, Within
  <2>2. CASE Claim(t)
    BY <2>2, <1>6, <1>a DEF Claim, Go, Within
  <2>3. CASE CodecOpenLoad(t)
    BY <2>3, <1>a, <1>b, <2>b, <2>c, MixKept DEF CodecOpenLoad, Go, OnlyThread,
            amrVars, jniVars, historyVars, FileAt, LeftOpen, Whole, From, MicPlaces
  <2>4. CASE CodecOpenStore(t)
    BY <2>4, <1>a, <1>b, <2>b, <2>c, MixKept DEF CodecOpenStore, Go, CodecIncrement,
            amrVars, FileAt, LeftOpen, Whole, From, MicPlaces
  <2>5. CASE Allocate(t)
    BY <2>5, <1>a, <1>b, <2>b, <2>c, MixKept DEF Allocate, Go, DenoiserInit, OnlyJni,
            amrVars, historyVars, FileAt, LeftOpen, Whole, From, MicPlaces
  <2>6. CASE EncodeLoad(t)
    BY <2>6, <1>a, <1>b, <2>b, <2>c, MixKept DEF EncodeLoad, Go, OnlyThread, amrVars,
            jniVars, historyVars, FileAt, LeftOpen, Whole, From, MicPlaces
  <2>7. CASE EncodeStore(t)
    BY <2>7, <1>a, <1>b, <2>b, <2>c, MixKept DEF EncodeStore, Go, EncodeIncrement,
            OnlyAmr, jniVars, historyVars, FileAt, LeftOpen, Whole, From, MicPlaces
  <2>8. CASE AmrAllocate(t)
    BY <2>8, <1>a, <1>b, <2>b, <2>c, MixKept DEF AmrAllocate, Go, EncoderOpen,
            OnlyAmr, jniVars, historyVars, FileAt, LeftOpen, Whole, From, MicPlaces
  <2>9. CASE AmrHeader(t)
    <3>1. PICK outcome \in Outcomes : HeaderWrite(outcome)
      BY <2>9 DEF AmrHeader
    <3>2. intact' => file' = [header |-> TRUE, frames |-> <<>>]
      BY <3>1 DEF HeaderWrite
    <3>3. pc'[t] = "zero"
      BY <2>9, <1>a DEF AmrHeader, Go
    <3> QED
      BY <3>2, <3>3 DEF FileAt, Whole, MicPlaces, MixOnlyAfterFailure
  <2>10. CASE ZeroCount(t)
    BY <2>10, <1>a, <1>b, <2>b, <2>c, MixKept DEF ZeroCount, Go, CountReset, OnlyJni,
            amrVars, historyVars, FileAt, LeftOpen, Whole, From, MicPlaces
  <2>11. CASE NewAudioRecord(t)
    BY <2>11, <1>a, <1>b, <2>b, <2>c, MixKept DEF NewAudioRecord, Go, OnlyJava,
            amrVars, jniVars, FileAt, LeftOpen, Whole, From, MicPlaces
  <2>12. CASE NewAudioRecordThrows(t)
    BY <2>12, <1>a, <1>b, <2>b, <2>c, MixKept DEF NewAudioRecordThrows, Go, Throw,
            OnlyThread, amrVars, jniVars, FileAt, LeftOpen, Whole, From, MicPlaces
  <2>13. CASE StartRecording(t)
    BY <2>13, <1>a, <1>b, <2>b, <2>c, MixKept DEF StartRecording, Go, OnlyPc,
            amrVars, jniVars, historyVars, FileAt, LeftOpen, Whole, From, MicPlaces
  <2>14. CASE SetRecording(t)
    BY <2>14, <1>a, <1>b, <2>b, <2>c, MixKept DEF SetRecording, Go, OnlyJava,
            amrVars, jniVars, FileAt, LeftOpen, Whole, From, MicPlaces
  <2> QED
    BY <1>6, <2>1, <2>2, <2>3, <2>4, <2>5, <2>6, <2>7, <2>8, <2>9, <2>10, <2>11,
            <2>12, <2>13, <2>14 DEF InitStep
<1>7. ASSUME NEW t \in Thread, LoopStep(t), Within(t) PROVE FileInv'
  <2>a. InBody(t)
    BY <1>7 DEF Within, InBody
  <2>b. CodecAt(t) /\ (intact => FileAt(t))
    BY <2>a, WithinOpen DEF FileInv
  <2>c. /\ pc[t] = "init_inc" => seen[t] = codec_open
        /\ pc[t] = "amr_inc" => seen[t] = 0
        /\ pc[t] = "reset" => codec_open = 0
        /\ pc[t] \in MicPlaces \cup LoopPlaces => encode # 0
    BY <2>b, <1>a DEF CodecAt, Open, Encoder, Shut
  <2>d. SUFFICES (intact' => FileAt(t)') /\ MixOnlyAfterFailure'
    BY <1>7, FileFocus
  <2>1. CASE LoopCheck(t)
    BY <2>1, <1>a, <1>b, <2>b, <2>c, MixKept DEF LoopCheck, Go, OnlyPc, amrVars,
            jniVars, historyVars, FileAt, LeftOpen, Whole, From, MicPlaces,
            LoopPlaces
  <2>2. CASE Read(t)
    BY <2>2, <1>a, <1>b, <2>b, <2>c, MixKept DEF Read, Go, OnlyThread, amrVars,
            jniVars, historyVars, FileAt, LeftOpen, Whole, From, MicPlaces,
            LoopPlaces
  <2>3. CASE DenoiseClosed(t)
    BY <2>3, <1>a, <1>b, <2>b, <2>c, MixKept DEF DenoiseClosed, Go, OnlyPc, amrVars,
            jniVars, historyVars, FileAt, LeftOpen, Whole, From, MicPlaces,
            LoopPlaces
  <2>4. CASE DenoiseOpen(t)
    BY <2>4, <1>a, <1>b, <2>b, <2>c, MixKept DEF DenoiseOpen, Go, OnlyThread,
            amrVars, jniVars, historyVars, FileAt, LeftOpen, Whole, From, MicPlaces,
            LoopPlaces
  <2>5. CASE DenoiseThrows(t)
    BY <2>5, <1>a, <1>b, <2>b, <2>c, MixKept DEF DenoiseThrows, Go, Throw,
            OnlyThread, amrVars, jniVars, FileAt, LeftOpen, Whole, From, MicPlaces,
            LoopPlaces
  <2>6. CASE Preprocess(t)
    BY <2>6, <1>a, <1>b, <2>b, <2>c, MixKept DEF Preprocess, Go, OnlyPc, amrVars,
            jniVars, historyVars, FileAt, LeftOpen, Whole, From, MicPlaces,
            LoopPlaces
  <2>7. CASE FramesDone(t)
    BY <2>7, <1>a, <1>b, <2>b, <2>c, MixKept DEF FramesDone, Go, OnlyPc, amrVars,
            jniVars, historyVars, FileAt, LeftOpen, Whole, From, MicPlaces,
            LoopPlaces
  <2>8. CASE AmrCheck(t)
    BY <2>8, <1>a, <1>b, <2>b, <2>c, MixKept DEF AmrCheck, Go, OnlyPc, amrVars,
            jniVars, historyVars, FileAt, LeftOpen, Whole, From, MicPlaces,
            LoopPlaces
  <2>9. CASE AmrWrite(t)
    <3>1. PICK outcome \in Outcomes : FrameWrite(t, outcome)
      BY <2>9 DEF AmrWrite
    <3>2. CASE intact'
      <4>1. /\ intact /\ file'.header = file.header
            /\ file'.frames = Append(file.frames, t)
        BY <3>1, <3>2, <1>a DEF FrameWrite
      <4>2. pc[t] = "amr_write" /\ pc'[t] = "count" /\ UNCHANGED <<failed, count>>
        BY <2>9, <1>a DEF AmrWrite, Go, OnlyAmr, jniVars, historyVars
      <4>3. Whole(count) /\ From(failed \cup {t})
        BY <2>b, <4>1, <4>2 DEF FileAt
      <4>4. /\ From(failed \cup {t})' /\ MixOnlyAfterFailure'
            /\ Len(file'.frames) = Len(file.frames) + 1
        BY <1>a, <1>b, <4>1, <4>2, <4>3, MixOfTwo DEF MixOnlyAfterFailure
      <4>5. Whole(count + 1)'
        BY <4>1, <4>2, <4>3, <4>4 DEF Whole
      <4> QED
        BY <4>2, <4>4, <4>5 DEF FileAt, MicPlaces
    <3> QED
      BY <3>2 DEF MixOnlyAfterFailure
  <2>10. CASE CountOne(t)
    BY <2>10, <1>a, <1>b, <2>b, <2>c, MixKept DEF CountOne, Go, CountFrame, amrVars,
            historyVars, FileAt, LeftOpen, Whole, From, MicPlaces, LoopPlaces
  <2>11. CASE AddFrameCount(t)
    BY <2>11, <1>a, <1>b, <2>b, <2>c, MixKept DEF AddFrameCount, Go, OnlyJava,
            amrVars, jniVars, FileAt, LeftOpen, Whole, From, MicPlaces, LoopPlaces
  <2> QED
    BY <1>7, <2>1, <2>2, <2>3, <2>4, <2>5, <2>6, <2>7, <2>8, <2>9, <2>10, <2>11 DEF
            LoopStep
<1>8. ASSUME NEW t \in Thread, CloseStep(t), Within(t) PROVE FileInv'
  <2>a. InBody(t)
    BY <1>8 DEF Within, InBody
  <2>b. CodecAt(t) /\ (intact => FileAt(t))
    BY <2>a, WithinOpen DEF FileInv
  <2>c. /\ pc[t] = "init_inc" => seen[t] = codec_open
        /\ pc[t] = "amr_inc" => seen[t] = 0
        /\ pc[t] = "reset" => codec_open = 0
        /\ pc[t] \in MicPlaces \cup LoopPlaces => encode # 0
    BY <2>b, <1>a DEF CodecAt, Open, Encoder, Shut
  <2>d. SUFFICES (intact' => FileAt(t)') /\ MixOnlyAfterFailure'
    BY <1>8, FileFocus
  <2>1. CASE StopMic(t)
    BY <2>1, <1>a, <1>b, <2>b, <2>c, MixKept DEF StopMic, Go, OnlyPc, amrVars,
            jniVars, historyVars, FileAt, LeftOpen, Whole, From, MicPlaces
  <2>2. CASE MicThrows(t)
    <3>1. CASE Throw(t, "start_record")
      BY <2>2, <3>1, <1>a, <1>b, <2>b, MixKept DEF MicThrows, Throw, Go, OnlyThread, amrVars,
            jniVars, FileAt, LeftOpen, Whole, From, MicPlaces
    <3>2. CASE Throw(t, "stop")
      BY <2>2, <3>2, <1>a, <1>b, <2>b, MixKept DEF MicThrows, Throw, Go, OnlyThread, amrVars,
            jniVars, FileAt, LeftOpen, Whole, From, MicPlaces
    <3> QED
      BY <2>2, <3>1, <3>2 DEF MicThrows
  <2>3. CASE Release(t)
    BY <2>3, <1>a, <1>b, <2>b, <2>c, MixKept DEF Release, Go, OnlyJava, amrVars,
            jniVars, FileAt, LeftOpen, Whole, From, MicPlaces
  <2>4. CASE CloseCheck(t)
    BY <2>4, <1>a, <1>b, <2>b, <2>c, MixKept DEF CloseCheck, Go, OnlyPc, amrVars,
            jniVars, historyVars, FileAt, LeftOpen, Whole, From, MicPlaces
  <2>5. CASE Destroy(t)
    BY <2>5, <1>a, <1>b, <2>b, <2>c, MixKept DEF Destroy, Go, DenoiserDestroy,
            OnlyJni, amrVars, historyVars, FileAt, LeftOpen, Whole, From, MicPlaces
  <2>6. CASE AmrExitCheck(t)
    BY <2>6, <1>a, <1>b, <2>b, <2>c, MixKept DEF AmrExitCheck, Go, OnlyPc, amrVars,
            jniVars, historyVars, FileAt, LeftOpen, Whole, From, MicPlaces
  <2>7. CASE AmrFree(t)
    BY <2>7, <1>a, <1>b, <2>b, <2>c, MixKept DEF AmrFree, Go, EncoderExit, OnlyAmr,
            jniVars, historyVars, FileAt, LeftOpen, Whole, From, MicPlaces
  <2>8. CASE AmrReset(t)
    BY <2>8, <1>a, <1>b, <2>b, <2>c, MixKept DEF AmrReset, Go, EncodeReset, OnlyAmr,
            jniVars, historyVars, FileAt, LeftOpen, Whole, From, MicPlaces
  <2>9. CASE CodecClosed(t)
    BY <2>9, <1>a, <1>b, <2>b, <2>c, MixKept DEF CodecClosed, Go, CodecReset,
            OnlyJni, amrVars, historyVars, FileAt, LeftOpen, Whole, From, MicPlaces
  <2>10. CASE ResetFrameCount(t)
    BY <2>10, <1>a, <1>b, <2>b, <2>c, MixKept DEF ResetFrameCount, Go, OnlyJava,
            amrVars, jniVars, FileAt, LeftOpen, Whole, From, MicPlaces
  <2>11. CASE ExitRun(t)
    BY <2>11, <1>8, <1>a DEF ExitRun, Go, Within
  <2> QED
    BY <1>8, <2>1, <2>2, <2>3, <2>4, <2>5, <2>6, <2>7, <2>8, <2>9, <2>10, <2>11 DEF
            CloseStep
<1>9. ASSUME NEW t \in Thread, RunCheck(t) PROVE FileInv'
  <2>1. \A u \in Thread : (InBody(u)' <=> InBody(u)) /\ (InBody(u) => pc'[u] = pc[u])
    BY <1>9, <1>a DEF RunCheck, Go, InBody
  <2> QED
    BY <1>9, <1>b, <2>1, MixKept DEF RunCheck, OnlyPc, amrVars, jniVars, historyVars, FileInv,
                                     FileAt, LeftOpen, Whole, From
<1>10. ASSUME NEW t \in Thread, Claim(t) PROVE FileInv'
  <2>1. InBody(t)' /\ ~InBody(t) /\ pc'[t] = "init"
    BY <1>10, <1>a DEF Claim, Go, InBody
  <2>2. \A u \in Thread : u # t => InBody(u)' = InBody(u)
    BY <1>10, <1>a DEF Claim, Go, InBody
  <2>3. \A u \in Thread : ~InBody(u)
    BY <2>1, <2>2 DEF OneRun
  <2>4. UNCHANGED <<file, intact, codec_open, count, failed>>
    BY <1>10 DEF Claim, OnlyJava, amrVars, jniVars
  <2>5. intact => FileAt(t)'
    BY <2>1, <2>3, <2>4 DEF FileInv, FileAt, LeftOpen, Whole, From, MicPlaces
  <2>6. \A u \in Thread : InBody(u)' => u = t
    BY <2>2, <2>3
  <2> QED
    BY <1>b, <2>1, <2>4, <2>5, <2>6, MixKept DEF FileInv
<1>11. ASSUME NEW t \in Thread, ExitRun(t) PROVE FileInv'
  <2>1. InBody(t) /\ pc[t] = "exit_run" /\ pc' = [pc EXCEPT ![t] = "done"]
    BY <1>11 DEF ExitRun, Go, InBody
  <2>2. \A u \in Thread : ~InBody(u)'
    BY <2>1, <1>a, WithinOpen DEF InBody
  <2>3. intact => LeftOpen
    BY <2>1 DEF FileInv, FileAt
  <2>4. UNCHANGED <<file, intact, codec_open, count, failed>>
    BY <1>11 DEF ExitRun, amrVars, jniVars
  <2> QED
    BY <1>b, <2>2, <2>3, <2>4, MixKept DEF FileInv, LeftOpen, Whole, From
<1>12. ASSUME NEW t \in Thread, UseDead(t) PROVE FileInv'
  BY <1>12, <1>b, MixKept DEF UseDead, amrVars, jniVars, historyVars, FileInv, FileAt,
                              LeftOpen, Whole, From, InBody
<1>13. ASSUME NEW t \in Thread, Step(t) PROVE FileInv'
  BY <1>13, Moves, <1>6, <1>7, <1>8, <1>9, <1>10, <1>11, <1>12 DEF Step
<1> QED
  BY <1>1, <1>2, <1>3, <1>4, <1>5, <1>13 DEF Next

LEMMA FileInit == Init => FileInv
BY DEF Init, AmrEncInit, FileInv, MixOnlyAfterFailure

(* With one recorder and no race: what is inductive about the file. *)
LEMMA FileInvariant ==
    ASSUME \A r, s \in Recorder : r = s
    PROVE  Spec /\ []NoRace => []FileInv
<1>1. TypeInv /\ Exclusion => OneRun
  BY OneRunFromExclusion
<1> QED
  BY <1>1, TypeInit, TypeStep, ExclusionInit, ExclusionStep, CodecInit, CodecStep,
     FileInit, FileStep, PTL DEF Spec

(* With one recorder and no race, on storage that took every write the file
   holds its header and the counted frames whenever the loop is at its head. *)
THEOREM FileAlwaysComplete ==
    ASSUME \A r, s \in Recorder : r = s
    PROVE  Spec /\ []NoRace => []FileComplete
<1>1. FileInv => FileComplete
  BY BodyListed DEF FileInv, FileAt, FileComplete, Whole, InBody
<1> QED
  BY <1>1, FileInvariant, PTL

(* As above: only a run that failed leaves frames to the file of the next one. *)
THEOREM MixedOnlyByFailure ==
    ASSUME \A r, s \in Recorder : r = s
    PROVE  Spec /\ []NoRace => []MixOnlyAfterFailure
<1>1. FileInv => MixOnlyAfterFailure
  BY DEF FileInv
<1> QED
  BY <1>1, FileInvariant, PTL

-----------------------------------------------------------------------------
LEMMA EarlyListed ==
    Early = {"idle", "run", "claim", "init", "init_inc", "alloc", "amr_init", "amr_inc",
             "amr_alloc", "amr_header", "zero"}
BY DEF Early, InitPlaces

(* But for two steps no step within a run touches the file, and none goes back to
   init(). *)
LEMMA QuietSteps ==
    ASSUME TypeInv, NEW t \in Thread, Step(t), Within(t), ~AmrHeader(t), ~AmrWrite(t)
    PROVE  UNCHANGED file /\ (pc'[t] \in Early => pc[t] \in Early)
<1> USE EarlyListed
<1>a. pc \in [Thread -> Places]
  BY DEF TypeInv, TypeOK, AudioRecorderType
<1>1. ASSUME InitStep(t) PROVE UNCHANGED file /\ (pc'[t] \in Early => pc[t] \in Early)
  <2>1. CASE RunCheck(t)
    BY <2>1, <1>a, BodyListed DEF RunCheck, Go, Within
  <2>2. CASE Claim(t)
    BY <2>2, <1>a, BodyListed DEF Claim, Go, Within
  <2>3. CASE CodecOpenLoad(t)
    BY <2>3, <1>a DEF CodecOpenLoad, Go, OnlyThread, amrVars
  <2>4. CASE CodecOpenStore(t)
    BY <2>4, <1>a DEF CodecOpenStore, Go, CodecIncrement, amrVars
  <2>5. CASE Allocate(t)
    BY <2>5, <1>a DEF Allocate, Go, DenoiserInit, OnlyJni, amrVars
  <2>6. CASE EncodeLoad(t)
    BY <2>6, <1>a DEF EncodeLoad, Go, OnlyThread, amrVars
  <2>7. CASE EncodeStore(t)
    BY <2>7, <1>a DEF EncodeStore, Go, EncodeIncrement, OnlyAmr
  <2>8. CASE AmrAllocate(t)
    BY <2>8, <1>a DEF AmrAllocate, Go, EncoderOpen, OnlyAmr
  <2>9. CASE AmrHeader(t)
    BY <2>9
  <2>10. CASE ZeroCount(t)
    BY <2>10, <1>a DEF ZeroCount, Go, CountReset, OnlyJni, amrVars
  <2>11. CASE NewAudioRecord(t)
    BY <2>11, <1>a DEF NewAudioRecord, Go, OnlyJava, amrVars
  <2>12. CASE NewAudioRecordThrows(t)
    BY <2>12, <1>a DEF NewAudioRecordThrows, Go, Throw, OnlyThread, amrVars
  <2>13. CASE StartRecording(t)
    BY <2>13, <1>a DEF StartRecording, Go, OnlyPc, amrVars
  <2>14. CASE SetRecording(t)
    BY <2>14, <1>a DEF SetRecording, Go, OnlyJava, amrVars
  <2> QED
    BY <1>1, <2>1, <2>2, <2>3, <2>4, <2>5, <2>6, <2>7, <2>8, <2>9, <2>10, <2>11,
            <2>12, <2>13, <2>14 DEF InitStep
<1>2. ASSUME LoopStep(t) PROVE UNCHANGED file /\ (pc'[t] \in Early => pc[t] \in Early)
  <2>1. CASE LoopCheck(t)
    BY <2>1, <1>a DEF LoopCheck, Go, OnlyPc, amrVars
  <2>2. CASE Read(t)
    BY <2>2, <1>a DEF Read, Go, OnlyThread, amrVars
  <2>3. CASE DenoiseClosed(t)
    BY <2>3, <1>a DEF DenoiseClosed, Go, OnlyPc, amrVars
  <2>4. CASE DenoiseOpen(t)
    BY <2>4, <1>a DEF DenoiseOpen, Go, OnlyThread, amrVars
  <2>5. CASE DenoiseThrows(t)
    BY <2>5, <1>a DEF DenoiseThrows, Go, Throw, OnlyThread, amrVars
  <2>6. CASE Preprocess(t)
    BY <2>6, <1>a DEF Preprocess, Go, OnlyPc, amrVars
  <2>7. CASE FramesDone(t)
    BY <2>7, <1>a DEF FramesDone, Go, OnlyPc, amrVars
  <2>8. CASE AmrCheck(t)
    BY <2>8, <1>a DEF AmrCheck, Go, OnlyPc, amrVars
  <2>9. CASE AmrWrite(t)
    BY <2>9
  <2>10. CASE CountOne(t)
    BY <2>10, <1>a DEF CountOne, Go, CountFrame, amrVars
  <2>11. CASE AddFrameCount(t)
    BY <2>11, <1>a DEF AddFrameCount, Go, OnlyJava, amrVars
  <2> QED
    BY <1>2, <2>1, <2>2, <2>3, <2>4, <2>5, <2>6, <2>7, <2>8, <2>9, <2>10, <2>11 DEF
            LoopStep
<1>3. ASSUME CloseStep(t) PROVE UNCHANGED file /\ (pc'[t] \in Early => pc[t] \in Early)
  <2>1. CASE StopMic(t)
    BY <2>1, <1>a DEF StopMic, Go, OnlyPc, amrVars
  <2>2. CASE MicThrows(t)
    BY <2>2, <1>a DEF MicThrows, Throw, Go, OnlyThread, amrVars
  <2>3. CASE Release(t)
    BY <2>3, <1>a DEF Release, Go, OnlyJava, amrVars
  <2>4. CASE CloseCheck(t)
    BY <2>4, <1>a DEF CloseCheck, Go, OnlyPc, amrVars
  <2>5. CASE Destroy(t)
    BY <2>5, <1>a DEF Destroy, Go, DenoiserDestroy, OnlyJni, amrVars
  <2>6. CASE AmrExitCheck(t)
    BY <2>6, <1>a DEF AmrExitCheck, Go, OnlyPc, amrVars
  <2>7. CASE AmrFree(t)
    BY <2>7, <1>a DEF AmrFree, Go, EncoderExit, OnlyAmr
  <2>8. CASE AmrReset(t)
    BY <2>8, <1>a DEF AmrReset, Go, EncodeReset, OnlyAmr
  <2>9. CASE CodecClosed(t)
    BY <2>9, <1>a DEF CodecClosed, Go, CodecReset, OnlyJni, amrVars
  <2>10. CASE ResetFrameCount(t)
    BY <2>10, <1>a DEF ResetFrameCount, Go, OnlyJava, amrVars
  <2>11. CASE ExitRun(t)
    BY <2>11, <1>a, BodyListed DEF ExitRun, Go, Within
  <2> QED
    BY <1>3, <2>1, <2>2, <2>3, <2>4, <2>5, <2>6, <2>7, <2>8, <2>9, <2>10, <2>11 DEF
            CloseStep
<1>4. CASE UseDead(t)
  BY <1>4 DEF UseDead, amrVars
<1> QED
  BY <1>1, <1>2, <1>3, <1>4 DEF Step

LEMMA NothingWrittenStep == TypeInv /\ NothingWritten /\ [Next]_vars => NothingWritten'
<1> SUFFICES ASSUME TypeInv, NothingWritten, [Next]_vars PROVE NothingWritten'
  OBVIOUS
<1> USE AmrEncAssumption, EarlyListed DEF NothingWritten
<1>a. pc \in [Thread -> Places] /\ file \in [header : BOOLEAN, frames : Seq(Thread \cup {Torn})]
  BY DEF TypeInv, TypeOK, AudioRecorderType, AmrEncType
<1>1. CASE UNCHANGED vars
  BY <1>1 DEF vars, amrVars
<1>2. CASE StopRecord
  BY <1>2 DEF StopRecord, amrVars
<1>3. CASE ProcessDeath
  BY <1>3, <1>a DEF ProcessDeath, AmrEncLost
<1>4. ASSUME NEW r \in Recorder, Recreate(r) PROVE NothingWritten'
  BY <1>4 DEF Recreate, amrVars
<1>5. ASSUME NEW t \in Thread, StartRecord(t) PROVE NothingWritten'
  BY <1>5, <1>a DEF StartRecord, amrVars
<1>6. ASSUME NEW t \in Thread, Step(t) PROVE NothingWritten'
  <2>1. CASE AmrHeader(t)
    <3>1. file'.frames = file.frames \/ file'.frames = <<>>
      BY <2>1 DEF AmrHeader, HeaderWrite
    <3>2. \A u \in Thread : pc'[u] \in Early => pc[u] \in Early
      BY <2>1, <1>a DEF AmrHeader, Go
    <3> QED
      BY <3>1, <3>2
  <2>2. CASE AmrWrite(t)
    <3>1. PICK outcome \in Outcomes : FrameWrite(t, outcome)
      BY <2>2 DEF AmrWrite
    <3>2. \/ file'.frames = file.frames
          \/ \E x \in {t, Torn} : file'.frames = Append(file.frames, x)
      BY <3>1, <1>a DEF FrameWrite
    <3>3. \A u \in Thread : pc'[u] \in Early => pc[u] \in Early /\ u # t
      BY <2>2, <1>a DEF AmrWrite, Go
    <3>4. \A x \in {t, Torn} : \A i \in DOMAIN Append(file.frames, x) :
              Append(file.frames, x)[i] = x \/ (i \in DOMAIN file.frames
                                              /\ Append(file.frames, x)[i] = file.frames[i])
      BY <1>a
    <3> QED
      BY <3>2, <3>3, <3>4
  <2>3. CASE Within(t) /\ ~AmrHeader(t) /\ ~AmrWrite(t)
    <3>1. \A u \in Thread : u # t => pc'[u] = pc[u]
      BY <2>3, <1>a DEF Within
    <3> QED
      BY <1>6, <2>3, <3>1, QuietSteps
  <2>4. CASE RunCheck(t)
    BY <2>4, <1>a DEF RunCheck, Go, OnlyPc, amrVars
  <2>5. CASE Claim(t)
    BY <2>5, <1>a DEF Claim, Go, OnlyJava, amrVars
  <2>6. CASE ExitRun(t)
    BY <2>6, <1>a DEF ExitRun, Go, amrVars
  <2>7. CASE UseDead(t)
    BY <2>7 DEF UseDead, amrVars
  <2> QED
    BY <1>6, Moves, <2>1, <2>2, <2>3, <2>4, <2>5, <2>6, <2>7
<1> QED
  BY <1>1, <1>2, <1>3, <1>4, <1>5, <1>6 DEF Next

LEMMA NothingWrittenInit == Init => NothingWritten
BY DEF Init, AmrEncInit, NothingWritten

-----------------------------------------------------------------------------
(* The writer of the log is the run in the body, if there is one. *)
LEMMA WriterIs ==
    ASSUME OneRun
    PROVE  /\ \A t \in Thread : InBody(t) => Writer = t
           /\ (\A t \in Thread : ~InBody(t)) => Writer = Nobody
BY DEF OneRun, Writer

(* Steps that change neither who is in the body, nor who is done, nor the file,
   are no steps of the log. *)
LEMMA LogStutters ==
    ASSUME OneRun, OneRun', UNCHANGED file,
           \A t \in Thread : InBody(t)' <=> InBody(t),
           \A t \in Thread : pc'[t] = "done" <=> pc[t] = "done"
    PROVE  UNCHANGED Log!logVars
<1>1. Writer' = Writer
  <2>1. CASE \A t \in Thread : ~InBody(t)
    BY <2>1 DEF Writer
  <2>2. ASSUME NEW t \in Thread, InBody(t) PROVE Writer' = Writer
    BY <2>2 DEF OneRun, Writer
  <2> QED
    BY <2>1, <2>2
<1> QED
  BY <1>1 DEF Log!logVars

LEMMA LogStep ==
    TypeInv /\ OneRun /\ OneRun' /\ NothingWritten /\ [Next]_vars
        => [Log!LogNext]_(Log!logVars)
<1> SUFFICES ASSUME TypeInv, OneRun, OneRun', NothingWritten, [Next]_vars
             PROVE  Log!LogNext \/ UNCHANGED Log!logVars
  OBVIOUS
<1> USE AmrEncAssumption, BodyListed
<1>a. pc \in [Thread -> Places] /\ file \in [header : BOOLEAN, frames : Seq(Thread \cup {Torn})]
  BY DEF TypeInv, TypeOK, AudioRecorderType, AmrEncType
<1>b. Writer \in Thread \cup {Nobody}
  BY DEF Writer
<1>1. CASE UNCHANGED vars
  BY <1>1, LogStutters DEF vars, amrVars, InBody
<1>2. CASE StopRecord
  BY <1>2, LogStutters DEF StopRecord, amrVars, InBody
<1>3. CASE ProcessDeath
  <2> PICK alive \in SUBSET Thread : alive = {t \in Thread : pc[t] # "idle"}
    OBVIOUS
  <2>1. \A t \in Thread : ~InBody(t)'
    BY <1>3, <1>a DEF ProcessDeath, InBody
  <2>2. Writer' = Nobody
    BY <2>1 DEF Writer
  <2>3. Writer \in alive \/ Writer = Nobody
    BY DEF Writer, InBody
  <2>4. {t \in Thread : pc'[t] = "done"} = {t \in Thread : pc[t] = "done"} \cup alive
    BY <1>3, <1>a DEF ProcessDeath
  <2>5. UNCHANGED file.frames
    BY <1>3 DEF ProcessDeath, AmrEncLost
  <2>6. Log!End(alive)
    BY <2>2, <2>3, <2>4, <2>5 DEF Log!End
  <2> QED
    BY <2>6 DEF Log!LogNext
<1>4. ASSUME NEW r \in Recorder, Recreate(r) PROVE UNCHANGED Log!logVars
  BY <1>4, LogStutters DEF Recreate, amrVars, InBody
<1>5. ASSUME NEW t \in Thread, StartRecord(t) PROVE UNCHANGED Log!logVars
  BY <1>5, <1>a, LogStutters DEF StartRecord, amrVars, InBody
<1>6. ASSUME NEW t \in Thread, Within(t), Step(t) PROVE Log!LogNext \/ UNCHANGED Log!logVars
  <2>1. /\ InBody(t) /\ \A u \in Thread : InBody(u)' <=> InBody(u)
        /\ \A u \in Thread : pc'[u] = "done" <=> pc[u] = "done"
    BY <1>6, <1>a DEF Within, InBody
  <2>2. /\ Writer = t /\ Writer' = t
        /\ UNCHANGED {u \in Thread : pc[u] = "done"}
    BY <2>1, WriterIs DEF OneRun, Writer
  <2>3. CASE AmrHeader(t)
    <3>1. file'.frames = file.frames \/ file'.frames = <<>>
      BY <2>3 DEF AmrHeader, HeaderWrite
    <3>2. \A i \in DOMAIN file.frames : file.frames[i] # t
      BY <2>3, EarlyListed DEF AmrHeader, Go, NothingWritten
    <3> QED
      BY <2>2, <3>1, <3>2 DEF Log!LogNext, Log!Truncate, Log!logVars
  <2>4. CASE AmrWrite(t)
    <3>1. PICK outcome \in Outcomes : FrameWrite(t, outcome)
      BY <2>4 DEF AmrWrite
    <3>2. \/ file'.frames = file.frames
          \/ \E x \in {t, Torn} : file'.frames = Append(file.frames, x)
      BY <3>1, <1>a DEF FrameWrite
    <3> QED
      BY <2>2, <3>2 DEF Log!LogNext, Log!Write, Log!logVars
  <2> QED
    BY <1>6, <2>1, <2>3, <2>4, QuietSteps, LogStutters
<1>7. ASSUME NEW t \in Thread, RunCheck(t) PROVE Log!LogNext \/ UNCHANGED Log!logVars
  <2>1. \A u \in Thread : InBody(u)' <=> InBody(u)
    BY <1>7, <1>a DEF RunCheck, Go, InBody
  <2>2. UNCHANGED file /\ pc[t] = "run" /\ ~InBody(t)
    BY <1>7 DEF RunCheck, Go, OnlyPc, amrVars, InBody
  <2>3. CASE mRun[rec[t]]
    <3>1. {u \in Thread : pc'[u] = "done"} = {u \in Thread : pc[u] = "done"} \cup {t}
      BY <1>7, <1>a, <2>3 DEF RunCheck, Go
    <3>2. Writer' = Writer /\ Writer # t
      BY <2>1, <2>2, WriterIs DEF OneRun, Writer
    <3>3. Log!End({t})
      BY <2>2, <3>1, <3>2 DEF Log!End
    <3> QED
      BY <3>3 DEF Log!LogNext
  <2>4. CASE ~mRun[rec[t]]
    BY <1>7, <1>a, <2>1, <2>2, <2>4, LogStutters DEF RunCheck, Go
  <2> QED
    BY <2>3, <2>4
<1>8. ASSUME NEW t \in Thread, Claim(t) PROVE Log!LogNext
  <2>1. InBody(t)' /\ ~InBody(t) /\ pc[t] = "claim" /\ pc'[t] = "init"
    BY <1>8, <1>a DEF Claim, Go, InBody
  <2>2. \A u \in Thread : ~InBody(u)
    BY <1>8, <1>a, <2>1 DEF Claim, Go, InBody, OneRun
  <2>3. Writer = Nobody /\ Writer' = t
    BY <2>1, <2>2 DEF OneRun, Writer
  <2>4. {u \in Thread : pc'[u] = "done"} = {u \in Thread : pc[u] = "done"}
    BY <1>8, <1>a DEF Claim, Go
  <2>5. UNCHANGED file
    BY <1>8 DEF Claim, OnlyJava, amrVars
  <2>6. Log!Begin(t)
    BY <2>1, <2>3, <2>4, <2>5 DEF Log!Begin
  <2> QED
    BY <2>6 DEF Log!LogNext
<1>9. ASSUME NEW t \in Thread, ExitRun(t) PROVE Log!LogNext
  <2>1. InBody(t) /\ pc[t] = "exit_run" /\ pc' = [pc EXCEPT ![t] = "done"] /\ UNCHANGED file
    BY <1>9 DEF ExitRun, Go, InBody, amrVars
  <2>2. \A u \in Thread : ~InBody(u)'
    BY <2>1, <1>a DEF InBody, OneRun
  <2>3. Writer = t /\ Writer' = Nobody
    BY <2>1, <2>2, WriterIs DEF Writer
  <2>4. {u \in Thread : pc'[u] = "done"} = {u \in Thread : pc[u] = "done"} \cup {t}
    BY <2>1, <1>a
  <2>5. Log!End({t})
    BY <2>1, <2>3, <2>4 DEF Log!End
  <2> QED
    BY <2>5 DEF Log!LogNext
<1>10. ASSUME NEW t \in Thread, UseDead(t) PROVE UNCHANGED Log!logVars
  BY <1>10, LogStutters DEF UseDead, amrVars, InBody
<1>11. ASSUME NEW t \in Thread, Step(t) PROVE Log!LogNext \/ UNCHANGED Log!logVars
  BY <1>11, Moves, <1>6, <1>7, <1>8, <1>9, <1>10
<1> QED
  BY <1>1, <1>2, <1>3, <1>4, <1>5, <1>11 DEF Next

(* With one recorder and no race the recorder is a RecordingLog: runs write
   one at a time, and what a run has written nobody takes away before it ends. *)
THEOREM RecorderIsLog ==
    ASSUME \A r, s \in Recorder : r = s
    PROVE  Spec /\ []NoRace => ImplementsLog
<1>1. Init => Log!LogInit
  <2> SUFFICES ASSUME Init PROVE Log!LogInit
    OBVIOUS
  <2>1. \A t \in Thread : pc[t] = "idle" /\ ~InBody(t)
    BY BodyListed DEF Init, InBody
  <2> QED
    BY <2>1 DEF Init, AmrEncInit, Log!LogInit, Writer
<1>2. TypeInv /\ Exclusion => OneRun
  BY OneRunFromExclusion
<1> QED
  BY <1>1, <1>2, TypeInit, TypeStep, ExclusionInit, ExclusionStep, NothingWrittenInit,
     NothingWrittenStep, LogStep, PTL DEF Spec, ImplementsLog, Log!LogSpec

(* What holds of every RecordingLog therefore holds of the recorder. *)
Proved == INSTANCE RecordingLogProofs WITH
              active <- Writer,
              over   <- {t \in Thread : pc[t] = "done"},
              frames <- file.frames

(* As above: the frames of one session are not divided by those of another. *)
THEOREM SessionsStandTogether ==
    ASSUME \A r, s \in Recorder : r = s
    PROVE  Spec /\ []NoRace => []FramesContiguous
<1>1. Proved!LogInv => FramesContiguous
  BY DEF Proved!LogInv, Proved!Contiguous, FramesContiguous, Log!Contiguous
<1>2. Log!LogInit => Proved!LogInv
  BY AmrEncAssumption, Proved!LogInvInit DEF Log!LogInit, Proved!LogInit
<1>3. Proved!LogInv /\ [Log!LogNext]_(Log!logVars) => Proved!LogInv'
  <2>1. [Log!LogNext]_(Log!logVars) => [Proved!LogNext]_(Proved!logVars)
    BY DEF Log!LogNext, Log!logVars, Log!Begin, Log!Truncate, Log!Write, Log!End,
           Proved!LogNext, Proved!logVars, Proved!Begin, Proved!Truncate, Proved!Write,
           Proved!End
  <2> QED
    BY <2>1, AmrEncAssumption, Proved!LogInvStep
<1> QED
  BY <1>1, <1>2, <1>3, RecorderIsLog, PTL DEF ImplementsLog, Log!LogSpec
============================================================================
