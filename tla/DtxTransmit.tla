---------------------------- MODULE DtxTransmit ----------------------------
(* The sending side of discontinuous transmission: after each frame of 20   *)
(* ms the encoder decides whether the frame is sent as speech or as comfort *)
(* noise (tx_dtx_handler, called by cod_amr), and sid_sync chooses which    *)
(* comfort noise frames are sent at all. What the voice detector says of    *)
(* the sound is an input; the spectra it works on are left out.             *)
EXTENDS DtxConstants

CONSTANTS
  sid_update_rate,  \* frames between two SID_UPDATEs
  MAX_INDEX,        \* the greatest log_en_index
  Debts             \* values given to sid_sync_set_handover_debt

\* sid_sync_init: 8. dtx_enc: 63.
ASSUME TransmitAssumption ==
  /\ sid_update_rate \in 4..DTX_HIST_SIZE
  /\ MAX_INDEX \in Nat
  /\ Debts \subseteq Nat

VARIABLES
  txHangoverCount,     \* dtx_encState.dtxHangoverCount
  txElapsedCount,      \* dtx_encState.decAnaElapsedCount
  computeSid,          \* the result of tx_dtx_handler for the last frame
  quietRun,            \* the newest entries of lsp_hist and log_en_hist that
                       \* come from frames without voice
  log_en_index,        \* the level of the noise parameters; 0 at the reset too
  averaged,            \* history: what they were averaged over: nothing since
                       \* the reset, noise only, or a history with voice
  sid_update_counter, sid_handover_debt,
  prev_ft              \* the type of the last frame sent

transmitVars == <<txHangoverCount, txElapsedCount, computeSid, quietRun,
                  log_en_index, averaged,
                  sid_update_counter, sid_handover_debt, prev_ft>>

TxFrameType == {"SPEECH_GOOD", "SID_FIRST", "SID_UPDATE", "NO_DATA"}

TransmitType ==
  /\ txHangoverCount \in 0..DTX_HANG_CONST
  /\ txElapsedCount \in 0..MAX_16
  /\ computeSid \in BOOLEAN
  /\ quietRun \in 0..DTX_HIST_SIZE
  /\ log_en_index \in 0..MAX_INDEX
  /\ averaged \in {"nothing", "noise", "voice"}
  /\ sid_update_counter \in 1..sid_update_rate
  /\ sid_handover_debt \in Nat
  /\ prev_ft \in TxFrameType

TransmitInit ==
  /\ txHangoverCount = DTX_HANG_CONST
  /\ txElapsedCount = MAX_16
  /\ computeSid = FALSE
  /\ quietRun = 0
  /\ log_en_index = 0
  /\ averaged = "nothing"
  /\ sid_update_counter = 3
  /\ sid_handover_debt = 0
  /\ prev_ft = "SPEECH_GOOD"

----------------------------------------------------------------------------
(* tx_dtx_handler: three cases, and whether the frame is coded as MRDTX.    *)

Elapsed == add_16(txElapsedCount, 1)

Voice(vad) ==
  /\ vad
  /\ txHangoverCount' = DTX_HANG_CONST
  /\ txElapsedCount' = Elapsed
  /\ computeSid' = FALSE

HangoverOver(vad) ==
  /\ ~vad
  /\ txHangoverCount = 0
  /\ txElapsedCount' = 0
  /\ computeSid' = TRUE
  /\ UNCHANGED txHangoverCount

\* A slip to detect: the count stays where it is.
HangoverStuck(vad) ==
  /\ ~vad
  /\ txHangoverCount > 0
  /\ txHangoverCount' = 0
  /\ txElapsedCount' = Elapsed
  /\ computeSid' = FALSE

InHangover(vad) ==
  /\ ~vad
  /\ txHangoverCount > 0
  /\ txHangoverCount' = txHangoverCount - 1
  /\ txElapsedCount' = Elapsed
  /\ computeSid' = FALSE

\* A slip to detect: a frame later than the code.
UsesMRDTXLate(vad) ==
  /\ ~vad
  /\ \/ txHangoverCount = 0
     \/ add_16(Elapsed, txHangoverCount - 1) <= DTX_ELAPSED_FRAMES_THRESH

\* *usedMode = MRDTX
UsesMRDTX(vad) ==
  /\ ~vad
  /\ \/ txHangoverCount = 0
     \/ add_16(Elapsed, txHangoverCount - 1) < DTX_ELAPSED_FRAMES_THRESH

\* The first test of dtx_enc: new parameters are computed when the handler
\* asks for them, and in any frame of noise while those in force have index 0.
ComputesParameters(vad) ==
  UsesMRDTX(vad) /\ (computeSid' \/ log_en_index = 0)

\* dtx_enc: the level of the average is rounded to an index.
dtx_enc(vad) ==
  \/ /\ ComputesParameters(vad)
     /\ log_en_index' \in 0..MAX_INDEX
     /\ averaged' = IF quietRun' = DTX_HIST_SIZE THEN "noise" ELSE "voice"
  \/ /\ ~ComputesParameters(vad)
     /\ UNCHANGED <<log_en_index, averaged>>

\* cod_amr: detect voice, decide, let dtx_buffer remember the frame, and
\* compute the parameters of a frame of noise.
cod_amr(vad) ==
  /\ Voice(vad) \/ HangoverOver(vad) \/ InHangover(vad)
  /\ quietRun' = IF vad THEN 0 ELSE Least(quietRun + 1, DTX_HIST_SIZE)
  /\ dtx_enc(vad)

----------------------------------------------------------------------------
(* sid_sync                                                                 *)

SendSpeech ==
  /\ sid_update_counter' = sid_update_rate
  /\ prev_ft' = "SPEECH_GOOD"
  /\ UNCHANGED sid_handover_debt

SendFirst ==
  /\ prev_ft = "SPEECH_GOOD"
  /\ sid_update_counter' = 3
  /\ prev_ft' = "SID_FIRST"
  /\ UNCHANGED sid_handover_debt

PaysDebt == sid_handover_debt > 0 /\ sid_update_counter - 1 > 2

SendExtraUpdate ==
  /\ prev_ft # "SPEECH_GOOD"
  /\ PaysDebt
  /\ sid_update_counter' = sid_update_counter - 1
  /\ sid_handover_debt' = sid_handover_debt - 1
  /\ prev_ft' = "SID_UPDATE"

SendUpdate ==
  /\ prev_ft # "SPEECH_GOOD"
  /\ ~PaysDebt
  /\ sid_update_counter - 1 = 0
  /\ sid_update_counter' = sid_update_rate
  /\ prev_ft' = "SID_UPDATE"
  /\ UNCHANGED sid_handover_debt

\* A slip to detect: the counter is not restarted by an update.
SendNothingTwice ==
  /\ prev_ft # "SPEECH_GOOD"
  /\ ~PaysDebt
  /\ sid_update_counter - 1 # 0
  /\ sid_update_counter' = Least(sid_update_counter, sid_update_rate - 1)
  /\ prev_ft' = "NO_DATA"
  /\ UNCHANGED sid_handover_debt

SendNothing ==
  /\ prev_ft # "SPEECH_GOOD"
  /\ ~PaysDebt
  /\ sid_update_counter - 1 # 0
  /\ sid_update_counter' = sid_update_counter - 1
  /\ prev_ft' = "NO_DATA"
  /\ UNCHANGED sid_handover_debt

sid_sync(mrdtx) ==
  \/ ~mrdtx /\ SendSpeech
  \/ mrdtx /\ (SendFirst \/ SendExtraUpdate \/ SendUpdate \/ SendNothing)

\* AMREncode: one frame of sound becomes one frame of type prev_ft'.
AMREncode(vad) == cod_amr(vad) /\ sid_sync(UsesMRDTX(vad))

sid_sync_set_handover_debt(debtFrames) ==
  /\ sid_handover_debt' = debtFrames
  /\ UNCHANGED <<txHangoverCount, txElapsedCount, computeSid, quietRun,
                 log_en_index, averaged, sid_update_counter, prev_ft>>
============================================================================
