---------------------------- MODULE DtxReceive -----------------------------
(* The receiving side: what Decoder_amr makes of the type of a frame. A     *)
(* frame is decoded as speech, possibly concealing a bad one, or replaced   *)
(* by comfort noise, or by noise that fades out (mute). The parameters of   *)
(* speech and noise are left out, but for whether the decoder's history of  *)
(* spectra comes from frames without voice.                                 *)
EXTENDS DtxConstants

CONSTANT DTX_MAX_EMPTY_THRESH  \* frames without an update before the mute

\* dtx_dec.h: 50
ASSUME ReceiveAssumption == DTX_MAX_EMPTY_THRESH \in Nat

VARIABLES
  dtxGlobalState,     \* what the last frame was decoded as
  since_last_sid,
  rxHangoverCount,    \* dtx_decState.dtxHangoverCount
  rxElapsedCount,     \* dtx_decState.decAnaElapsedCount
  dtxHangoverAdded,
  data_updated,
  noiseRun,           \* the newest entries of lsf_hist and log_en_hist that
                      \* come from frames without voice
  bfhState            \* Decoder_amrState.state, of the bad frame handler

receiveVars == <<dtxGlobalState, since_last_sid, rxHangoverCount,
                 rxElapsedCount, dtxHangoverAdded, data_updated, noiseRun,
                 bfhState>>

SidFrame == {"SID_FIRST", "SID_UPDATE", "SID_BAD"}
Unusable == {"SPEECH_BAD", "NO_DATA", "ONSET"}
RxFrameType == {"SPEECH_GOOD", "SPEECH_DEGRADED"} \union SidFrame \union Unusable

ReceiveType ==
  /\ dtxGlobalState \in {"SPEECH", "DTX", "DTX_MUTE"}
  /\ since_last_sid \in 0..DTX_MAX_EMPTY_THRESH
  /\ rxHangoverCount \in 0..DTX_HANG_CONST
  /\ rxElapsedCount \in 0..MAX_16
  /\ dtxHangoverAdded \in BOOLEAN
  /\ data_updated \in BOOLEAN
  /\ noiseRun \in 0..DTX_HIST_SIZE
  /\ bfhState \in 0..6

\* Decoder_amr_reset and dtx_dec_reset
ReceiveInit ==
  /\ dtxGlobalState = "DTX"
  /\ since_last_sid = 0
  /\ rxHangoverCount = DTX_HANG_CONST
  /\ rxElapsedCount = MAX_16
  /\ dtxHangoverAdded = FALSE
  /\ data_updated = FALSE
  /\ noiseRun = 0
  /\ bfhState = 0

----------------------------------------------------------------------------
(* rx_dtx_handler                                                           *)

\* The first test: comfort noise goes on, or begins.
Continues(rx) ==
  \/ rx \in SidFrame
  \/ dtxGlobalState # "SPEECH" /\ rx \in Unusable

StaysMute(rx) ==
  dtxGlobalState = "DTX_MUTE" /\ rx \in {"SID_BAD", "SID_FIRST", "ONSET", "NO_DATA"}

TooOld(rx) ==
  rx # "SID_UPDATE" /\ since_last_sid + 1 > DTX_MAX_EMPTY_THRESH

NewState(rx) ==
  CASE ~Continues(rx) -> "SPEECH"
    [] Continues(rx) /\ (StaysMute(rx) \/ TooOld(rx)) -> "DTX_MUTE"
    [] OTHER -> "DTX"

\* encState: did the sender code this frame as comfort noise?
SentAsNoise(rx) ==
  \/ rx \in SidFrame \union {"ONSET"}
  \/ rx = "NO_DATA" /\ NewState(rx) # "SPEECH"

Counted(rx) ==
  LET before == IF ~data_updated /\ rx = "SID_UPDATE" THEN 0 ELSE rxElapsedCount
  IN  add_16(before, 1)

AddsHangover(rx) == SentAsNoise(rx) /\ Counted(rx) > DTX_ELAPSED_FRAMES_THRESH

\* A slip to detect: the hangover counter is not cleared with the other.
HangoverSyncKeeps(rx) ==
  /\ rxHangoverCount' = IF ~SentAsNoise(rx) THEN DTX_HANG_CONST
                        ELSE IF rxHangoverCount = 0 THEN 0
                        ELSE rxHangoverCount - 1
  /\ rxElapsedCount' =
       IF SentAsNoise(rx) /\ (AddsHangover(rx) \/ rxHangoverCount = 0)
       THEN 0 ELSE Counted(rx)
  /\ dtxHangoverAdded' = (AddsHangover(rx) /\ rx # "SID_BAD")

\* Keeps the two counters that mirror the sender's.
HangoverSync(rx) ==
  /\ rxHangoverCount' = IF ~SentAsNoise(rx) THEN DTX_HANG_CONST
                        ELSE IF AddsHangover(rx) \/ rxHangoverCount = 0 THEN 0
                        ELSE rxHangoverCount - 1
  /\ rxElapsedCount' =
       IF SentAsNoise(rx) /\ (AddsHangover(rx) \/ rxHangoverCount = 0)
       THEN 0 ELSE Counted(rx)
  /\ dtxHangoverAdded' = (AddsHangover(rx) /\ rx # "SID_BAD")

----------------------------------------------------------------------------
(* dtx_dec                                                                  *)

\* The noise parameters are taken from this frame, or from the hangover.
Updates(rx) ==
  \/ rx = "SID_UPDATE"
  \/ rx = "SID_FIRST" /\ AddsHangover(rx)

\* A slip to detect: fading out does not start the count again.
SinceLastSidFading(rx) ==
  since_last_sid' = IF Continues(rx) /\ ~Updates(rx) THEN since_last_sid + 1 ELSE 0

SinceLastSid(rx) ==
  since_last_sid' = IF Continues(rx) /\ ~Updates(rx) /\ NewState(rx) # "DTX_MUTE"
                    THEN since_last_sid + 1 ELSE 0

----------------------------------------------------------------------------
(* Decoder_amr                                                              *)

\* A slip to detect: a good frame does not leave the state 5.
BadFrameHandlerStuck(rx) ==
  bfhState' =
    CASE NewState(rx) # "SPEECH"   -> 0
      [] NewState(rx) = "SPEECH" /\ dtxGlobalState # "SPEECH" -> 5
      [] OTHER -> IF rx \in Unusable THEN Least(bfhState + 1, 6)
                  ELSE IF bfhState >= 5 THEN 5 ELSE 0

BadFrameHandler(rx) ==
  bfhState' =
    CASE NewState(rx) # "SPEECH"   -> 0
      [] NewState(rx) = "SPEECH" /\ dtxGlobalState # "SPEECH" -> 5
      [] OTHER -> IF rx \in Unusable THEN Least(bfhState + 1, 6)
                  ELSE IF bfhState = 6 THEN 5 ELSE 0

\* dtx_dec_activity_update: a frame decoded as speech enters the history; it
\* is noise if it arrived and was sent without voice. A frame that is made up
\* (concealed) counts as voice.
Remember(rx, vad) ==
  noiseRun' = IF NewState(rx) # "SPEECH" THEN noiseRun
              ELSE IF vad \/ rx \in Unusable THEN 0
              ELSE Least(noiseRun + 1, DTX_HIST_SIZE)

Decoder_amr(rx, vad) ==
  /\ HangoverSync(rx)
  /\ SinceLastSid(rx)
  /\ data_updated' = (data_updated \/ (Continues(rx) /\ Updates(rx)))
  /\ BadFrameHandler(rx)
  /\ Remember(rx, vad)
  /\ dtxGlobalState' = NewState(rx)
============================================================================
