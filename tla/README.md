# AudioRAndSpeex in TLA+

AudioRAndSpeex is an Android application that records from the microphone,
denoises the sound with Speex, encodes it as AMR-NB and writes
`/sdcard/amrQAQ.amr`. This directory holds TLA+ models of it, the TLC
configurations that check them on small instances, and theorems that TLAPS
proves for every instance.

Paths below are relative to `src/app/`; `J` stands for
`src/main/java/com/ccut/shangri/audiorecorder`.

## 1. Inventory

| component | source | state it keeps | operations | in the model |
|---|---|---|---|---|
| Buttons, recorder | `J/MainActivity.java`, `J/IMAudioRecorder.java`, `J/IMSpeexDSPAndEnc.java` | per recorder: `mRun`, `isRecording`, `audioRecord`, `frameCount`; per click: a thread and its place in `run()` | click Start, click Stop, the activity made anew, every step of `run()` | `AudioRecorder` |
| JNI library | `jni/speexdsp/speex_jni.cpp` | process-wide `codec_open`, `denoise_state`, `count` | `init`, `denoiseAndEnc`, `close` | `SpeexJni` |
| AMR back end | `jni/amr_nb/amr-enc.c` | process-wide `encode`, `amr`; the output file | `amr_enc_init`, `handleAmrEnc`, `arm_enc_exit` | `AmrEnc` |
| Playback | `J/IMAudioTrack.java` | the array of the file's samples | `run` | planned |
| AMR encoder objects | `jni/amr_nb/wrapper.cpp`; `amrencode.cpp`, `sp_enc.cpp`, `cod_amr.cpp` and the states they allocate, of opencore | a tree of sixteen allocated states | create, encode, destroy | `EncoderHeap` |
| AMR discontinuous transmission | `dtx_enc.cpp`, `sid_sync.cpp`, `dtx_dec.cpp`, `dec_amr.cpp`, `amrdecode.cpp` of opencore | two hangover counters at each end, the update counter, the decoder's state, its history of noise | encode one frame, decode one frame, handover | `DtxTransmit`, `DtxReceive`, `DtxLink` |
| AMR signal processing | the rest of `jni/amr_nb/opencore` | filters, codebooks | numeric | no |
| Speex denoiser | `preprocess.c`, `filterbank.c`, `fftwrap.c`, `smallft.c` | spectra, frame counters, the voice decision | init, run, ctl, destroy | counters planned |
| Speex byte buffer | `buffer.c` | a ring with two pointers | write, write zeros, read, available | `SpeexBuffer` |
| Speex jitter buffer | `jitter.c` | packets, timestamps, statistics of arrival times | put, get, get another, update the delay, tick, remaining span, reset, ctl | `JitterBuffer`, `JitterLink` |
| Speex echo canceller | `mdf.c` | the adaptive filter; a playback queue; the count of bad results | capture, playback, reset | `EchoPlayback` (queue and resets) |
| Speex resampler, decorrelator | `resample.c`, `scal.c` | filter memories, positions | numeric, but for positions | positions planned |
| OSCL | `jni/oscl` | none of its own here | portability macros | no |

How they interact. A click on Start makes a Java thread that executes `run()` of
the activity's recorder. `run()` calls `init`, then `denoiseAndEnc` for every
read of the microphone, then `close`; these call into the AMR back end, on the
same thread. A click on Stop, on the user-interface thread, clears a field that
the loop of `run()` tests. There is one recorder object for each activity that
was created, one copy of the library's globals for the process, and one file.
Nothing is locked, and no field is volatile. The byte buffer, the jitter buffer
and the echo canceller are built into the library and never called by the
application, nor is the AMR decoder; the application switches discontinuous
transmission off (`dtx` is 0). Each is a program of its own, with one caller
at a time.

What is hard, and what correctness means, component by component:

* **Recorder.** `mRun` is a guard against a second run, tested and set in two
  steps; `isRecording` is written by two threads; an exception leaves `run()`
  without releasing the microphone or closing the codec, and the next run is
  meant to work all the same. Correct: one run at a time unless two clicks race
  between the test and the setting of `mRun` (`ExclusionUnlessRace`), never locked
  out (`NoLockout`), every click comes to something (`StartSettles`), stoppable
  (`StopEndsLoop`).
* **JNI library.** `codec_open` doubles as an open flag and a counter of attempts;
  `close` frees `denoise_state` and leaves it dangling; results of `init` are
  dropped by its caller. Correct: nothing dead is used (`NoUseAfterFree`), nothing
  leaks across failed runs (`NothingLeaks`), its frame counter agrees with Java's
  (`CountersAgree`).
* **AMR back end.** Three separate openings of one file, each of which may fail,
  short writes, and an `encode` flag set before anything succeeded. Correct: the
  file is complete whenever no write failed (`FileComplete`), one run's frames are
  not mixed with another's unless the earlier one failed (`MixOnlyAfterFailure`),
  and the file behaves as a log of runs (`ImplementsLog`).
* **AMR encoder objects.** Any of seventeen allocations may fail, and each init
  function undoes what it did. Correct: nothing uninitialised is freed
  (`NoWildFree`), an encoder is whole or absent (`WholeOrNone`), nothing leaks
  but what is known to (`OnlyLspLeaks`).
* **Discontinuous transmission.** The decoder is never told of the encoder's
  hangover; it counts frames as the encoder does, over a link that loses them.
  Correct: the ends agree, and agree again after loss (`HangoverAgreement`); what
  the decoder averages as noise is noise (`DecoderAveragesNoise`), and so is what the
  encoder averages where `tx_dtx_handler` asks for it (`NoiseFromNoise`; elsewhere it
  may not be, see the end of section 3);
  the decoder fades out only without updates (`GoodLinkNeverMutes`, `MuteEnds`).
* **Jitter buffer.** Timestamps that wrap, packets late, doubled, reordered or
  lost, a pointer that the adjustment of the delay moves back for a while, and a
  resynchronisation after too many fetches in vain. Correct: playback goes forward
  (`PlaybackGoesForward`), packets for the sound that is needed next are not taken
  for late (`NeededIsNotLate`), and once the network is steady packets are played
  again (`Recovers`).
* **Byte buffer.** Two pointers that may equal the size, and an overflow. Correct:
  it is a queue (`ImplementsQueue`).
* **Echo canceller.** A queue fed and drained by an application that may do so out
  of step, and a reset in the middle of a capture. Correct: the reference is the
  frame of two frames ago (`DelayedByTwo`), the delay settles (`DelaySettles`),
  references never go back (`NeverBack`).

`PROJECT.json` lists the hazards of this code at their lines, with the
properties that guard against each.

## 2. Modules

| module | what it is |
|---|---|
| `AmrEnc` | globals of `amr-enc.c`, the encoders on the heap, the file; one operator per access |
| `SpeexJni` | extends `AmrEnc` with the globals of `speex_jni.cpp` and the denoisers on the heap |
| `AudioRecorder` | extends `SpeexJni` with the threads, the recorders and the buttons; all actions, `Spec`, `FairSpec` |
| `RecordingLog` | the abstract specification: what any recording promises of the file |
| `AudioRecorderProperties` | every property, and the refinement mapping onto `RecordingLog` |
| `AudioRecorderInvariants` | the inductive invariants |
| `AudioRecorderProofs`, `AudioFileProofs`, `RecordingLogProofs` | the theorems: types, memory and counters; the file; the abstract log |
| `EncoderHeap`, `EncoderHeapProperties`, `EncoderHeapProofs` | the objects of an AMR encoder on the heap; its properties with the inductive invariant `HeapInv`; the theorems |
| `DtxConstants` | constants and saturating addition, shared by the two ends of discontinuous transmission |
| `DtxTransmit`, `DtxReceive` | the encoder's side and the decoder's side |
| `DtxLink` | composes the two with a link that loses and damages frames |
| `DtxLinkProperties`, `DtxLinkProofs` | their properties with the inductive invariant `LinkInv`; the theorems |
| `JitterBuffer` | the jitter buffer, one operator per function of `jitter.c` |
| `JitterLink` | composes it with a network and a player |
| `JitterLinkProperties`, `JitterLinkProofs` | their properties with the inductive invariants `ForwardInv` and `FillInv`; the theorems, with the invariant `DeadlineInv` |
| `ByteQueue` | the abstract specification of a byte buffer |
| `SpeexBuffer`, `SpeexBufferProofs` | the ring of `buffer.c`, the refinement mapping and the invariant; the theorems |
| `EchoPlayback`, `EchoPlaybackProperties`, `EchoPlaybackProofs` | the playback queue of `mdf.c` and its application; properties; theorems |
| `MC...` | one for each composition: the finite sets that the `.cfg` files choose from |

### Correspondence with the code

`Thread` is the set of clicks on Start; `pc[t]` says where thread `t` is, and the
names of places follow `run()` with the native calls expanded. One step makes at
most one access to state another thread can see. In particular `mRun` is tested
at line 50 (`RunCheck`) and set at line 54 (`Claim`), and `codec_open++ != 0` and
`encode++ != 0` are a load (`CodecOpenLoad`, `EncodeLoad`, into the local `seen`)
and a store (`CodecOpenStore`, `EncodeStore`).

The guard of each action is the condition of the code; a failed check takes
`pc` where the early return leads. `Throw` is the way through the `catch` of line
93 to line 99. The following are the actions' inputs:

* `ReadSizes`: what `AudioRecord.read` returns, a number of samples or the error
  -3. The frames in `n` samples are `n / 160`, rounded toward zero as C and Java
  do; the remainder is lost, as in the code.
* `Outcomes` of opening and writing the file: `written`, `short` (it opened and
  the write was cut short), `unopened`.
* `MicFaults`: the constructor of `AudioRecord` may throw, or give an object that
  throws `IllegalStateException` from `startRecording()` and `stop()`.
* `Recreate`: the system makes the activity anew (a rotation of the screen), with
  a new recorder, while the threads of the old one go on.
* `ProcessDeath`: every variable but the file goes back to its initial value, and
  every thread under way is gone.

A denoiser or an encoder is named by the thread that created it; the sets
`denoisers` and `encoders` are those alive on the heap. Using or freeing a
pointer that is not alive is undefined in C++, so `UseDead` sets `undefined` and
the model stops: no outcome is claimed from then on. An AMR frame is named by the
run that encoded it, `Torn` if the storage took only a part of it. `failed`,
`refused`, `stopped` and `intact` are history variables that only properties read.

Modelling decisions a reader should know:

* Java fields and C globals are taken to be sequentially consistent. The code has
  data races on both; without a fence the compiler might also hoist the test of
  `isRecording` out of the loop. It does not in this loop, which makes native and
  interface calls between any two tests.
* `frameCount += ...`, `++count`, the write of one frame, and the allocation and
  publication of an object are one step each. Splitting them could be noticed
  only by overlapping runs, of which the models claim nothing but `NoLockout`.
* `init`, `close` and `denoiseAndEnc` end without the `return` their types call
  for. Java ignores the results, so a build that returns garbage is
  indistinguishable and this is the outcome the model takes.
* Branches that constant arguments make impossible are left out: `filepath` is
  never `NULL`, `bitsPerSample` is 16, and `size < FRAME_SIZE` in `handleAmrEnc`
  is false since `frame_size` is 160 from the first `init` on.
* A negative result of `read` makes `malloc` fail and `GetShortArrayRegion` throw;
  the loop then has no iterations, and the exception surfaces at line 72
  (`DenoiseThrows`). If the codec is closed, `denoiseAndEnc` returns before that.
* Allocation is assumed to succeed in `AudioRecorder`; `EncoderHeap` says what
  happens to an encoder when it does not. Volume, duration, logging
  and the unused file-name functions of the recorder are left out.

**`EncoderHeap`.** A stack holds the init functions under way. `Allocate` and
`AllocateFails` are the two outcomes of a `malloc`; `Finish` sets the owner's
pointer and returns, `Undo` is the failure path of one init function, which calls
the exit function if that one does (`lsp_init` does not). `Shape` gives for each
init function the parts it initialises in order, and whether it clears the
pointers to them first. `AMREncodeInit` goes on to `sid_sync_init` whatever
`GSMInitEncode` returned, and `Encoder_Interface_init` returns the pointer in any
case (`GiveUp`).

**Discontinuous transmission.** One step (`Frame`) encodes 20 ms of sound, carries
the frame and decodes it. Whether the sound has voice is an input: the detector
itself is numeric. `quietRun` and `noiseRun` stand for the histories of spectra and
levels that the encoder (`dtx_buffer`) and the decoder (`dtx_dec_activity_update`)
average over: how many of the newest entries come from sound without voice. The
link delivers a frame as sent, or as one of the types the receiver gives to a
frame that was lost or damaged; what was not sent (`NO_DATA`) arrives as that.
`dtx_enc` computes new noise parameters when the handler asks for them (`computeSid`)
and, in a frame sent as noise, also when `log_en_index` is 0: the reset leaves it so,
and so does an average of the lowest level. The index the average is rounded to is any
of `0..MAX_INDEX`; `averaged` remembers what the parameters in force were averaged over.
Left out: the levels themselves; `prev_bf` and `prev_pdf`. The comment at
`dtx_dec.cpp` 1564-1565 lists frame types that keep the decoder muted differently
from the code at 1765-1769, which the model follows.

**Jitter buffer.** `WRAP` stands for 2^32, and `TSUB` is the difference as a signed
number. A slot holds a packet with its time of arrival, 0 if it was late, as in the
code; a packet that really arrives at time 0 is taken for late, as in the code. A
sub-window of timings is a sequence; `timeBuffers` lists the newest first where
the code rotates pointers. The code merges the sub-windows, each in order, by picking
the least timing not yet picked; `Latest` says which timing is picked in which place,
by its `Rank` (how many precede it). The loops that keep the best of what they
have seen (the earliest packet, the packet that begins first, the delay that costs
least) are the recursive function of `Keep`. `opt` and the argument of
`shift_timings` are 16 bits wide: `TIMING_LIMIT` stands for the 32767 that a timing is
limited to, and `Int16` takes what is out of `-(TIMING_LIMIT + 1)..TIMING_LIMIT` around,
so that a delay of the limit rounded down to a multiple of `delay_step` turns positive,
and the lowest delay is its own opposite, as in the code. The timings themselves are 32
bits wide (`spx_int32_t timing[]`), begin within 16 bits and are shifted by 16 bits at a
time; they do not wrap, nor do they here. `counts[]`, which nothing reads, the payload and the
callback that destroys it, and the rounding of the cost of a delay, which the code
computes in floating point, are left out, and `latency_tradeoff` keeps its default of 0.
What `jitter_buffer_ctl` can set is a constant of the model.

**Byte buffer.** `call` records what the last call wrote, or left in the caller's
array, so that `ByteQueue` can speak of both. When a write of fewer than `size`
bytes overflows, the code moves `read_ptr` to the beginning of the newest bytes:
they are read first, then what is older, and the ring stays out of order even
after it was emptied, until a write of at least `size` bytes that finds it not
empty. `ByteQueue` promises nothing about the order in between (`Disorder`), only
about the number of bytes.

**Echo canceller.** A frame in the queue is represented by its age, that is how many
frames were played after it, up to `Oldest`. The verdict of the sanity check at the
end of a cancellation is an input; a very bad one, or fifty in a row that add echo,
reset the canceller, and
then `speex_echo_capture` goes on with what the reset left in the queue.

## 3. What the runs check

| run | instance | states | shows |
|---|---|---|---|
| `recorder_safety` | 3 clicks on Start, any number on Stop, 1 recorder, 2 frames, every fault | 231,251 | the type invariant, `NoUseAfterFree`, `NothingLeaks`, `NoLockout`, `CountersAgree`, `FileComplete`, `MixOnlyAfterFailure`, and that the file implements `RecordingLog` |
| `recorder_live` | 2 clicks, 1 recorder, 3 frames, refused opens, microphone faults, deaths, fairness | 35,153 | `StopEndsLoop`, `StartSettles`, `FramesContiguous` |
| `recorder_anarchy` | 2 clicks, 2 recorders, eager clicks, microphone faults | 1,672,110 | `ExclusionUnlessRace`: in the behaviours without a race between lines 50 and 54 no two threads of a recorder are in `run()`'s body |
| `stop_lost` | 1 click, no faults, fairness | violation | a Stop clicked during the set-up is undone by line 69 |
| `headerless_file` | 1 click, storage that fails and recovers | violation | frames are written to a file that has no header |
| `refused_init` | 2 clicks, read errors | violation | a run whose `init` was refused encodes into the file of the run that failed before it |
| `dtx_link` | counters of 3, 6, 4, 7, 4 and 5 for the code's 7, 30, 8, 32767, 8 and 50, an index of 0 or 1 for 0 to 63; lossy; fairness | 235,962 | `NoiseFromNoise`, `HangoverAgreement`, `DecoderAveragesNoise`, `GoodLinkNeverMutes`, `ConcealmentEnds`, `MuteEnds`, types |
| `jitter` | 2 slots, timestamps modulo 14, requests of 2, 2 wild packets of span 2 or 3 at even and odd timestamps, then a steady network; adjustments, resets; fairness | 475,214 | `PlaybackGoesForward`, `NeededIsNotLate`, `FillTest`, `Recovers`, types |
| `jitter_resync` | timestamps modulo 8, requests and packets of 1, `delay_step` 1, no resets | violation | a packet that resynchronises is not played by the get that follows |
| `encoder_heap` | 3 encoders in turn, every allocation may fail | 3,738 | `NoWildFree`, `WholeOrNone`, `OnlyLspLeaks`, `CrashMeansFailure`, types |
| `speex_buffer` | a small ring, inputs shorter, as long as and longer than it | 2,398 | `ImplementsQueue`, types |
| `echo_playback` | delay 2, reset after 2 bad results, any calls and then a steady application | 1,275 | `DelayedByTwo`, `NeverBack`, `DelaySettles`, types |

**Bounds of the recorder.** `Thread` has three members because the longest story has three runs:
one that fails and leaves the codec open, one that finds it open and is refused,
and a third that follows the second's `close`, or overlaps with it. `MaxFrames`
limits the frames read by bounding what `Read` may return; it disables no other
step, and `ReadSizes` always contains 0 so that it never blocks a thread. Two
frames suffice for a file to mix runs; three, in `recorder_live`, for one run's
frame to lie between two of another's. `Reads` has an error, nothing, one
frame, and two frames with a remainder. Threads and recorders are interchangeable
in safety runs, hence the symmetry; the liveness runs have none.

**Bounds of the other models.** `dtx_link` keeps the order of the code's constants:
the threshold of elapsed frames exceeds the hangover, the history is one longer
than the hangover, and the updates come more often than the decoder's patience
lasts; the theorems hold for all such values. Two indices are enough to tell the
lowest level from another.

In `jitter`, two slots are enough for a
full buffer, a discarded packet and packets of the same timestamp; `MAX_LOST` is 1, so
that a resynchronisation needs two fetches in vain. Requests and the steady packets
are 2 long and begin at any timestamp, wild packets come at 0, 1, 3, 7 and 12, which differ
by every difference there is, and are 2 or 3 long: they begin between two requests too,
overlap the point of playback, span a request from before it, and lie half the range away. With that the run reaches `buffered`
below zero, before and after the network is steady, and an adjustment that leaves the
point of playback before the deadline. With timings of at most 3 and a step of 2 it
also reaches delays that `opt` turns positive, and the lowest one, whose opposite it is
itself (`Int16`), again before and after the network is steady. No packet is shorter
than a request: one almost half the range behind, and shorter, would compare as if it
reached beyond the request. `FillTest` supposes a
`buffer_margin` of 0, its default. `JitterAssumption` asks of `max_late_rate` that a
sub-window hold a packet, as it does with the code's 4 per cent and with all others up
to 1333; `jitter_buffer_ctl` does not check it. The wrap at 14 is smaller than the
theorems about `PlaybackGoesForward` and `NeededIsNotLate` suppose; in the run they hold
because with two wild packets the differences stay small.

In `encoder_heap` three encoders in turn show what
one leaves behind for the next; no step depends on their number.

**Patient clicks and races.** Line 50 tests `mRun` and line 54 sets it; two threads of
a recorder that are between the two at once (the negation of `NoRace`) both go into
`run()`. Nothing in the code prevents it: `MainActivity` starts a thread for every
click. `recorder_anarchy` has clicks as fast as can be, and what it checks is that this
race is the only way in: not a Stop, an exception, the end of a run or a new
activity. The other runs of the recorder set `EagerClicks = FALSE`: Start is not clicked
again until the thread of the last click on that recorder is past line 54. This is an
assumption about the user and the scheduler, line 50 being the first a new thread
executes; the theorems suppose only `[]NoRace`, which is weaker, and which
`PatientClicksDoNotRace` derives from it. After a race, or with two recorders, two
runs do use the codec at the same time and no property of memory or of the
file holds; the model reaches `UseDead`. These are listed as hazards and not as
findings, because nothing in the repository says they should be impossible.

**Fairness.** `FairSpec` has weak fairness on each thread's own steps: the
scheduler runs every thread, `read()` and the storage return. No fairness is
assumed of clicks, of recreation or of process death, and a fair thread may
still be told of an error at every read. `recorder_anarchy` may stop where behaviour
is undefined, so it does not check deadlock, nor does `encoder_heap`, where a
crash or the bound on encoders is an end. In the others every reachable state
has a step to take; in the recorder's, because Stop can always be clicked.
`dtx_link` assumes that a frame comes every 20 ms, for the sound card delivers one;
nothing is assumed of what the link does to it. `jitter` assumes that once the
network is steady the next packet comes and the player goes on: only `ArriveRegular`,
`Get` and `Tick` are taken then, each turns `player` to something else, and weak fairness
of that change (`SteadyStep`) is weak fairness of the three. Before that nothing is fair.

**Mutants.** Operators under a comment "A slip to detect" are not part of any
model. Each is a plausible mistake in the definition that follows it; put in its
place, it makes a property fail, which shows that the property depends on that
code.

### Findings

1. *A Stop that is lost.* `IMAudioRecorder.java:69` sets `isRecording = true`
   after `init()` and `startRecording()`. A click on Stop before that is undone,
   and the recording goes on until Stop is clicked again (`stop_lost`). Clicking
   Stop when the loop has begun always works (`StopEndsLoop`).
2. *Frames without a header.* `amr-enc.c:86` returns 1 when the file cannot be
   created, with `encode` already set and the result ignored by its caller;
   `handleAmrEnc` then opens the file with `ab+` and creates it with no
   `#!AMR` (`headerless_file`).
3. *A refused `init` is not noticed.* After an exception the codec stays open;
   the next run's `init` returns -1, `IMSpeexDSPAndEnc.java:26` drops it, and the
   run records with the old codec, appending to the old file (`refused_init`).
   Memory stays sound (`NoUseAfterFree`, `NothingLeaks`) and the next `close`
   puts everything right.
4. *A resynchronisation that does not play its packet.* After more than 20 fetches
   in vain `jitter_buffer_put` resets the buffer, to "make sure this packet is used
   to resync" (`jitter.c:400`). `jitter_buffer_reset` leaves `interp_requested`, so
   that if the delay was adjusted just before, the next `get` returns an insertion
   of silence and moves past the packet's time (`jitter_resync`). Playback recovers
   all the same (`Recovers`).

One more thing a reader of the code should know, which no run is spent on.
`dtx_enc.cpp:557-558` computes noise parameters when the handler asks and also while
`log_en_index` is 0. In a short pause, which is sent as noise because the last noise
was not long ago, the history holds frames with voice, although the comment at 560-561
says not to compute them "immediately after a talk spurt". `NoiseFromNoise` says how
far this goes: only when the parameters in force have the lowest level, or were computed
in this way themselves, and never because of the 0 that the reset leaves, since the first
pause is long enough.

## 4. What is proved

`tlapm` checks the eight `...Proofs` modules to the last leaf. The theorems about
the recorder hold
for any set of threads, any sequence of clicks, faults and deaths, and any bound
`MaxFrames`.

| theorem | statement | assumes |
|---|---|---|
| `TypeCorrect` | `Spec => []TypeOK` | nothing but the constants' assumptions |
| `NeverLockedOut` | `Spec => []NoLockout` | the same; several recorders and eager clicks included |
| `MutualExclusion` | `Spec => ExclusionUnlessRace` | the same; several recorders and eager clicks included |
| `PatientClicksDoNotRace` | `Spec => []NoRace` | patient clicks |
| `MemorySafety` | `Spec /\ []NoRace => []NoUseAfterFree` | one recorder |
| `NoLeak` | `Spec /\ []NoRace => []NothingLeaks` | one recorder |
| `CountersAlwaysAgree` | `Spec /\ []NoRace => []CountersAgree` | one recorder |
| `FileAlwaysComplete`, `MixedOnlyByFailure` | `Spec /\ []NoRace => []P` for `FileComplete`, `MixOnlyAfterFailure` | one recorder |
| `RecorderIsLog` | `Spec /\ []NoRace => ImplementsLog` | one recorder |
| `SessionsStandTogether` | `Spec /\ []NoRace => []FramesContiguous` | one recorder |
| `LogContiguous` | `LogSpec => []Contiguous` | `Nobody` and `Torn` are no threads |
| `TypeCorrect`, `HangoverKnown`, `DecoderNoise`, `NeverMutes` of `DtxLinkProofs` | `Spec => []P` for `TypeOK`, `HangoverAgreement`, `DecoderAveragesNoise`, `GoodLinkNeverMutes` | the constants' assumptions, which the code's values meet |
| `EncoderAveragesNoise`, `ConcealmentOver` of `DtxLinkProofs` | `Spec => NoiseFromNoise`, `Spec => ConcealmentEnds` | the same |
| `RingTypes`, `RingIsQueue` | `Spec => []TypeOK`, `Spec => ImplementsQueue` | any size, bytes and inputs |
| `NoOverflow`, `ReferencesNeverGoBack` | `Spec => []TypeOK`, `Spec => NeverBack` | any delay, any number of bad results before a reset |
| `DelaySettled`, `DelayIsPromised` | `Spec => DelaySettles`, `Spec => []DelayedByTwo` | the same; the cap on ages is more than twice the delay |
| `TypeCorrect` of `JitterLinkProofs` | `Spec => []TypeOK` | any sizes, packets and calls |
| `DeadlineBehind` | `Spec => []NeededIsNotLate` | `Quarter`: packets no shorter than `Span`; a packet, `Span` and `TIMING_LIMIT` together fit in a quarter of the range |
| `NeverBackwards` | `Spec => PlaybackGoesForward` | `NoWrap`: packets no shorter than `Span`; a packet, `Span` and `TIMING_LIMIT` together fit in half the range |
| `SteadyFill` | `Spec => []FillTest` | `buffer_margin = 0`; `Span + delay_step` less than half the range |
| `TypeCorrect`, `NeverWildFree`, `EncoderWhole`, `OnlyLspIsLost`, `CrashOnlyByFailure` of `EncoderHeapProofs` | `Spec => []P` for `TypeOK`, `NoWildFree`, `WholeOrNone`, `OnlyLspLeaks`, `CrashMeansFailure` | any number of encoders in turn |

The argument about the recorder goes in layers, each inductive relative to the ones before:

1. `TypeInv` adds to the types that a thread inside the frame loop has a frame left
   (`FramesLeft`), without which `left` could become negative.
2. `Exclusion` says that `mRun` is set while a thread is in `run()`'s body and still
   clear when a thread that has tested it is about to set it. It is inductive in every
   step that starts from `NoRace`: one thread's setting would make it false of another
   that is about to. `PatientClaims`, inductive with patient clicks, implies `NoRace`.
3. `CodecInv` says, for each place in `run()`, how much of the codec exists.
   Between two calls it is `Open` (both flags set, both objects alive and the ones
   pointed to) or `Shut` (both flags clear, nothing alive). A failed run leaves it
   `Open`, and so the next one starts in either. `NoUseAfterFree` and
   `NothingLeaks` follow.
4. `CountersInv` relates the two counters at each place: while the frames of a read
   are handled, what Java has not added yet is what the library has counted plus
   what is `left`. After a failed run they agree; when the codec is shut Java's
   is zero.
5. `FileInv` says, for each place in `run()`, what an intact file holds: nothing but
   the header when the encoder was just opened (`Whole(0)`), as many frames as the
   library has counted at the loop (`Whole(count)`), one more between the write and
   `++count`. Without a run under way the same holds if a failed run left the codec
   open (`LeftOpen`); all frames are then of failed runs, and this is what
   `MixOnlyAfterFailure` needs.
6. `NothingWritten`: a thread in or before `init` has no frame in the file. `init`
   truncates the file, and the abstract log may forget only the frames of other
   runs than the one that begins.
7. The refinement (`RecorderIsLog`) goes through the steps one by one: the way into
   `run()`'s body is `Begin`, the opening of the file for writing `Clear`, the write
   of a frame `Append`, the way out `End`, and every other step changes neither the
   writer nor the file. `FramesContiguous` is the log's own theorem (`LogContiguous`,
   from `LogInv`: the frames of the run that writes are the last) carried over.

A step that changes one thread's place is reduced to the clause of that thread
(`CodecFocus`, `CountersFocus`) by the fact that no other is in the body
(`OneRunFromExclusion`).

The link (`LinkInv`). `EncoderInv` relates the encoder's hangover counter to how long
it has heard no voice, and the sum of its two counters to whether the hangover is
sent as speech; it says too that parameters the handler asked for are those of noise,
and that without any since the reset the elapsed count is still at its limit, so that
the first pause is not a short one. `Agree` says that the decoder's counters equal the encoder's and that
its patience outlasts the wait for the next update (`Patient`: `since_last_sid` plus
`sid_update_counter` is at most the update rate). `ConvergeInv` says how near the
ends have come after each undamaged frame of comfort noise; it is needed because
`synced` becomes true again after loss. `HandlerInv` is a small invariant of its own:
after a usable speech frame the bad frame handler is not in its last state, from
which the next usable frame would lead to state 5 and not to 0.

The ring (`BufferInv`). While no write has overflowed, `write_ptr` is `available` bytes
ahead of `read_ptr` around the ring, with 0 and `size` the same place (`Straight`);
from that each write appends and each read takes from the front.

The playback queue (`OrderInv`). The ages in the queue do not increase from head to
end, and none but silence is older than the last reference. `FreshInv`: an application
that was never out of step finds `PLAYBACK_DELAY` frames in the queue at each capture,
and the newest of them in order; a reset in the middle of the first capture may take one more,
which the playback after it makes up for. `SteadyInv` is for an application that becomes
steady later: with each capture the queue has at least one frame more until it holds
the delay, and its newest frames are one step apart. The attempt to prove
`DelaySettles` with the settling time of `PLAYBACK_DELAY + 1` failed, rightly: a queue
that ran empty is filled with copies of one frame, and with a delay above 2 these
take up to `PLAYBACK_DELAY - 2` (`Late`) captures more to leave it. For the code's
delay of 2 nothing changes.

The jitter buffer. Three things come before the invariants. The arithmetic: a
difference of timestamps is the only number in its range that equals the difference
of the numbers but for a multiple of `WRAP` (`TsubIs`, `TsubUnique`), so what is
added to a timestamp is added to its differences (`Ahead`, `Behind`, `Through`). The
loops: the recursive function of `Keep` exists (`KeptExists`) and what it keeps is
one of the set (`KeepInSet`); both go by the least number for which they would fail
(`Least`), which takes the place of induction. The order of timings: it is strict and total
(`Order`), so ranks are all different and every rank up to the number of timings is
that of a timing (`RankExists`, by counting), and the delay that is chosen is 0 or that of a
timing rounded down, and less than the limit (`OptFacts`).

`NeededIsNotLate` needs `DeadlineInv`: playback is past the deadline of the packets, by
less than half of the range, and `buffered` is at most a quarter of it. A packet that
is played ends after the point of playback (`PlayedEnds`, for the three ways it may lie
to what is played), and one that begins inside the request may leave `buffered` below
zero; `tick` takes that for 0, and the deadline it computes is then where playback
stands and not ahead of it. An adjustment may move the pointer back behind the
deadline, until the tick that follows.

`PlaybackGoesForward` needs `ForwardInv`: the pointer is less than `TIMING_LIMIT`
ahead of where the last get left it, or `interp_requested` behind, which the next
get makes up for; and a player that has adjusted the delay itself is not adjusted
again by the tick. In the code half the range is 2^31 and `TIMING_LIMIT` 32767, so
`NoWrap` asks that packets be shorter than about 2^31. That no packet is shorter than
`Span` matters: one almost half the range behind, and shorter, would compare as if it
reached beyond the request.

`FillTest` needs `FillInv`: while no wild packet came, no timing is off and no delay is
adjusted; the buffer holds the sender's last packet before a get and nothing
otherwise, and once it heard of the sender its pointer follows it.

The encoder's heap (`HeapInv`). `Made` are the objects of the encoder that is there or
being created, `Unfinished` those whose init function is on the stack.
`InitUnderWay` says that an init function has made the parts before the one it is at
and none after, `Linked` what the pointers of made objects are: set when the part is
made, null when it is not, and wild only in the object at the top of the stack, of a
kind that does not clear its pointers, and not while it undoes (`MayBeWild`). The
last clause is the point: the two functions that do not clear (`cl_ltp_init`,
`lsp_init`) have one part, whose init function sets the pointer to null before
anything can fail. Exit functions free all that `Reached` finds from a root. That is a recursive
function; the proof unfolds it along the tree of shapes, which is three levels high,
and shows it the least set that holds the root and is closed under following the
pointers that are set (`ReachedLeast`).

Every invariant and every action property that a run finds to hold is stated by
a theorem. Liveness stays with TLC (`StopEndsLoop`, `StartSettles`, `MuteEnds`, `Recovers`), for it rests on fairness and
`ENABLED`, which TLAPS does not handle here. The four properties that runs find
violated have no theorem.

## 5. Not modelled

* The signal processing of AMR and Speex: fixed- and floating-point numerics on
  data that no property of the program's control depends on. With the tables of
  the codebooks, the comment headers of the codec's files and OSCL's headers it is by
  far the greater part of the 133,000 lines of this repository, which is
  why the models cover a small share of them: the control of the program and of
  the codecs is a few thousand lines.
* OSCL: third-party headers.
* Playback: it only reads `/reverseme.pcm` and `/adcd.pcm`, which the application
  does not write, and shares no state with recording.
* `findMode` (`amr-enc.c`), `Encoder_Interface_reset` (which passes the wrong pointer
  on) and the reset functions below it, `speex_buffer_resize` (marked unfinished by
  its comments): nothing calls them.
* Setting options of the jitter buffer while it runs.
* Out-of-memory conditions outside the encoder, and the Java memory model.

## 6. Plan

Done: the recorder with `RecordingLog`, the encoder's heap, discontinuous transmission,
the jitter buffer, the byte buffer, the echo canceller's queue; a theorem for each of
their safety properties. Next:

1. The hangover of the voice detector (`vad1.cpp`), as a refinement of the input
   `vad` of `DtxTransmit`; the positions of `resample.c`; the counters of
   `preprocess.c`; playback of a file that changes while it is read.
