--------------------------- MODULE DtxLinkProofs ---------------------------
(* Proofs of what discontinuous transmission promises, for all values of    *)
(* its constants that the assumptions admit and any losses on the link.     *)
EXTENDS DtxLinkProperties, TLAPS

USE DtxAssumption, TransmitAssumption, ReceiveAssumption, LinkAssumption
USE DEF DtxAssumption, TransmitAssumption, ReceiveAssumption, LinkAssumption

LEMMA InitInv == Init => LinkInv
<1>. SUFFICES ASSUME Init PROVE LinkInv
  OBVIOUS
<1>. USE DEF Init, TransmitInit, ReceiveInit
<1>1. TypeOK
  <2>1. /\ computeSid \in BOOLEAN
        /\ dtxHangoverAdded \in BOOLEAN
        /\ data_updated \in BOOLEAN
        /\ intact \in BOOLEAN
        /\ synced \in BOOLEAN
    OBVIOUS
  <2>2. /\ txHangoverCount \in 0..DTX_HANG_CONST
        /\ txElapsedCount \in 0..MAX_16
        /\ quietRun \in 0..DTX_HIST_SIZE
        /\ log_en_index \in 0..MAX_INDEX
        /\ averaged \in {"nothing", "noise", "voice"}
        /\ sid_update_counter \in 1..sid_update_rate
        /\ sid_handover_debt \in Nat
        /\ prev_ft \in TxFrameType
    BY DEF TxFrameType
  <2>3. /\ dtxGlobalState \in {"SPEECH", "DTX", "DTX_MUTE"}
        /\ since_last_sid \in 0..DTX_MAX_EMPTY_THRESH
        /\ rxHangoverCount \in 0..DTX_HANG_CONST
        /\ rxElapsedCount \in 0..MAX_16
        /\ noiseRun \in 0..DTX_HIST_SIZE
        /\ bfhState \in 0..6
    OBVIOUS
  <2>4. rx \in RxFrameType /\ noiseLen \in 0..(DTX_HANG_CONST + 1)
    BY DEF RxFrameType, Unusable
  <2>. QED
    BY <2>1, <2>2, <2>3, <2>4 DEF TypeOK, TransmitType, ReceiveType
<1>2. EncoderInv
  BY DEF EncoderInv
<1>3. ConvergeInv
  BY DEF ConvergeInv
<1>4. SyncInv
  BY DEF SyncInv, Agree
<1>. QED
  BY <1>1, <1>2, <1>3, <1>4 DEF LinkInv

----------------------------------------------------------------------------
(* The encoder.                                                             *)

LEMMA TransmitTypeStep ==
  ASSUME TransmitType, NEW vad \in BOOLEAN, AMREncode(vad)
  PROVE  TransmitType'
<1>. USE DEF AMREncode, TransmitType
<1>0. computeSid' \in BOOLEAN
  BY DEF cod_amr, Voice, HangoverOver, InHangover
<1>1. /\ txHangoverCount' \in 0..DTX_HANG_CONST
      /\ txElapsedCount' \in 0..MAX_16
  BY DEF cod_amr, Voice, HangoverOver, InHangover, Elapsed, add_16, Least
<1>2. quietRun' \in 0..DTX_HIST_SIZE
  BY DEF cod_amr, Least
<1>4. log_en_index' \in 0..MAX_INDEX /\ averaged' \in {"nothing", "noise", "voice"}
  BY DEF cod_amr, dtx_enc
<1>3. /\ sid_update_counter' \in 1..sid_update_rate
      /\ sid_handover_debt' \in Nat
      /\ prev_ft' \in TxFrameType
  BY DEF sid_sync, SendSpeech, SendFirst, SendExtraUpdate, SendUpdate,
         SendNothing, PaysDebt, TxFrameType
<1>. QED
  BY <1>0, <1>1, <1>2, <1>3, <1>4

\* A frame coded as MRDTX is not sent as speech, and the other way round.
LEMMA SentMode ==
  ASSUME NEW vad \in BOOLEAN, sid_sync(UsesMRDTX(vad))
  PROVE  prev_ft' # "SPEECH_GOOD" <=> UsesMRDTX(vad)
BY DEF sid_sync, SendSpeech, SendFirst, SendExtraUpdate, SendUpdate, SendNothing

\* What dtx_enc averages over: the parameters the handler asks for are new,
\* and those of the reset stay until a frame is coded as MRDTX.
LEMMA Averaging ==
  ASSUME NEW vad \in BOOLEAN, cod_amr(vad)
  PROVE  /\ computeSid' /\ quietRun' = DTX_HIST_SIZE => averaged' = "noise"
         /\ averaged' = "nothing" => averaged = "nothing"
         /\ averaged' = "nothing" /\ UsesMRDTX(vad) => ~computeSid'
<1>1. computeSid' => UsesMRDTX(vad)
  BY DEF cod_amr, Voice, HangoverOver, InHangover, UsesMRDTX
<1>. QED
  BY <1>1 DEF cod_amr, dtx_enc, ComputesParameters

LEMMA EncoderStep ==
  ASSUME TransmitType, EncoderInv, NEW vad \in BOOLEAN, AMREncode(vad)
  PROVE  EncoderInv'
<1>1. prev_ft' # "SPEECH_GOOD" <=> UsesMRDTX(vad)
  BY SentMode DEF AMREncode
<1>2. /\ computeSid' /\ quietRun' = DTX_HIST_SIZE => averaged' = "noise"
      /\ averaged' = "nothing" => averaged = "nothing"
      /\ averaged' = "nothing" /\ UsesMRDTX(vad) => ~computeSid'
  BY Averaging DEF AMREncode
<1>3. /\ Voice(vad) \/ HangoverOver(vad) \/ InHangover(vad)
      /\ quietRun' = IF vad THEN 0 ELSE Least(quietRun + 1, DTX_HIST_SIZE)
  BY DEF AMREncode, cod_amr
<1>4. CASE vad
  BY <1>1, <1>2, <1>3, <1>4 DEF Voice, HangoverOver, InHangover, UsesMRDTX, Elapsed,
                    add_16, Least, EncoderInv, TransmitType
<1>5. CASE ~vad /\ txHangoverCount = 0
  BY <1>1, <1>2, <1>3, <1>5 DEF Voice, HangoverOver, InHangover, UsesMRDTX,
                    EncoderInv, TransmitType, Least
<1>6. CASE ~vad /\ txHangoverCount > 0
  BY <1>1, <1>2, <1>3, <1>6 DEF Voice, HangoverOver, InHangover, UsesMRDTX,
                    EncoderInv, TransmitType, Least, Elapsed, add_16
<1>. QED
  BY <1>4, <1>5, <1>6 DEF TransmitType

----------------------------------------------------------------------------
(* The decoder.                                                             *)

LEMMA ReceiveTypeStep ==
  ASSUME ReceiveType, NEW vad \in BOOLEAN, NEW arrival \in RxFrameType,
         Decoder_amr(arrival, vad)
  PROVE  ReceiveType'
<1>. USE DEF Decoder_amr, ReceiveType
<1>1. dtxGlobalState' \in {"SPEECH", "DTX", "DTX_MUTE"}
  BY DEF NewState
<1>2. since_last_sid' \in 0..DTX_MAX_EMPTY_THRESH
  <2>1. CASE Continues(arrival) /\ ~Updates(arrival) /\ NewState(arrival) # "DTX_MUTE"
    BY <2>1 DEF SinceLastSid, NewState, TooOld, Updates
  <2>2. CASE ~(Continues(arrival) /\ ~Updates(arrival) /\ NewState(arrival) # "DTX_MUTE")
    BY <2>2 DEF SinceLastSid
  <2>. QED
    BY <2>1, <2>2
<1>3. /\ rxHangoverCount' \in 0..DTX_HANG_CONST
      /\ rxElapsedCount' \in 0..MAX_16
      /\ dtxHangoverAdded' \in BOOLEAN
  BY DEF HangoverSync, AddsHangover, Counted, add_16, Least
<1>4. data_updated' \in BOOLEAN
  BY DEF Updates, Continues, SidFrame, AddsHangover
<1>5. noiseRun' \in 0..DTX_HIST_SIZE
  BY DEF Remember, Least
<1>6. bfhState' \in 0..6
  BY DEF BadFrameHandler, Least
<1>. QED
  BY <1>1, <1>2, <1>3, <1>4, <1>5, <1>6

----------------------------------------------------------------------------
(* The link: how the ends come to agree, and stay so.                       *)

\* An undamaged update makes any decoder patient.
LEMMA UpdateMakesPatient ==
  ASSUME TypeOK, NEW vad \in BOOLEAN, NEW arrival \in RxFrameType,
         AMREncode(vad), Decoder_amr(arrival, vad), arrival = prev_ft',
         prev_ft' = "SID_UPDATE"
  PROVE  Patient'
<1>1. sid_update_counter' \in 1..sid_update_rate
  BY TransmitTypeStep DEF TypeOK, TransmitType
<1>2. since_last_sid' = 0
  BY DEF Decoder_amr, Updates, SinceLastSid
<1>3. since_last_sid' + sid_update_counter' <= sid_update_rate
  <2>1. ASSUME NEW since, NEW counter \in 1..sid_update_rate, since = 0
        PROVE  since + counter <= sid_update_rate
    BY <2>1
  <2>. QED
    BY <1>1, <1>2, <2>1
<1>4. dtxGlobalState' = "DTX" /\ data_updated'
  BY DEF Decoder_amr, NewState, Continues, SidFrame, StaysMute, TooOld, Updates
<1>. QED
  BY <1>3, <1>4 DEF Patient

\* A decoder that is patient stays so while undamaged comfort noise goes on.
LEMMA PatientStep ==
  ASSUME TypeOK, Patient, NEW vad \in BOOLEAN, NEW arrival \in RxFrameType,
         AMREncode(vad), Decoder_amr(arrival, vad), arrival = prev_ft',
         prev_ft # "SPEECH_GOOD", prev_ft' # "SPEECH_GOOD"
  PROVE  Patient'
<1>. USE DEF TypeOK, TransmitType, ReceiveType
<1>a. dtxGlobalState = "DTX" /\ data_updated
  BY DEF Patient
<1>b. since_last_sid + sid_update_counter <= sid_update_rate
  BY DEF Patient
<1>1. UsesMRDTX(vad)
  BY SentMode DEF AMREncode
<1>2. CASE prev_ft' = "SID_UPDATE"
  BY <1>2, UpdateMakesPatient
<1>3. CASE prev_ft' = "NO_DATA"
  <2>1. sid_update_counter' = sid_update_counter - 1
    BY <1>1, <1>3 DEF AMREncode, sid_sync, SendSpeech, SendFirst, SendExtraUpdate,
                      SendUpdate, SendNothing
  <2>2. ~TooOld(arrival)
    BY <1>b, <2>1, TransmitTypeStep DEF TooOld
  <2>3. dtxGlobalState' = "DTX" /\ data_updated'
    BY <1>a, <1>3, <2>2 DEF Decoder_amr, NewState, Continues, SidFrame, Unusable, StaysMute
  <2>4. since_last_sid' = since_last_sid + 1
    BY <1>a, <1>3, <2>2 DEF Decoder_amr, NewState, Continues, SidFrame, Unusable, StaysMute,
                      Updates, SinceLastSid
  <2>5. since_last_sid' + sid_update_counter' <= sid_update_rate
    BY <1>b, <2>1, <2>4
  <2>. QED
    BY <2>3, <2>5 DEF Patient
<1>. QED
  BY <1>1, <1>2, <1>3 DEF AMREncode, sid_sync, SendSpeech, SendFirst, SendExtraUpdate,
                          SendUpdate, SendNothing

LEMMA ConvergeStep ==
  ASSUME LinkInv, NEW vad \in BOOLEAN, NEW arrival \in RxFrameType,
         Frame(vad, arrival)
  PROVE  ConvergeInv'
<1>. SUFFICES ASSUME noiseLen' > 0
              PROVE  ConvergeInv'
  BY DEF ConvergeInv
<1>. USE DEF LinkInv, TypeOK, TransmitType, ReceiveType
<1>1. /\ arrival = prev_ft'
      /\ dtxGlobalState' # "SPEECH"
      /\ noiseLen' = Least(noiseLen + 1, DTX_HANG_CONST + 1)
      /\ AMREncode(vad)
      /\ Decoder_amr(arrival, vad)
  <2>1. noiseLen' # 0
    OBVIOUS
  <2>2. noiseLen' = IF intact' /\ dtxGlobalState' # "SPEECH"
                    THEN Least(noiseLen + 1, DTX_HANG_CONST + 1) ELSE 0
    BY DEF Frame
  <2>3. intact' = (arrival = prev_ft')
    BY DEF Frame, Delivered
  <2>. QED
    BY <2>1, <2>2, <2>3, Zenon DEF Frame
<1>2. prev_ft' # "SPEECH_GOOD" /\ SentAsNoise(arrival)
  BY <1>1, TransmitTypeStep DEF Decoder_amr, NewState, Continues, SidFrame, Unusable,
                                SentAsNoise, TxFrameType
<1>3. UsesMRDTX(vad)
  BY <1>1, <1>2, SentMode DEF AMREncode
<1>4. quietRun' >= noiseLen'
  <2>1. quietRun' = Least(quietRun + 1, DTX_HIST_SIZE)
    BY <1>1, <1>3 DEF AMREncode, cod_amr, UsesMRDTX
  <2>2. noiseLen = 0 \/ quietRun >= noiseLen
    BY DEF ConvergeInv
  <2>. QED
    BY <1>1, <2>1, <2>2 DEF Least
<1>5. /\ noiseLen' <= DTX_HANG_CONST => rxHangoverCount' <= DTX_HANG_CONST - noiseLen'
      /\ noiseLen' > DTX_HANG_CONST => rxHangoverCount' = 0 /\ rxElapsedCount' = 0
  <2>1. noiseLen = 0 \/ (noiseLen <= DTX_HANG_CONST => rxHangoverCount <= DTX_HANG_CONST - noiseLen)
    BY DEF ConvergeInv
  <2>2. noiseLen > DTX_HANG_CONST => rxHangoverCount = 0
    BY DEF ConvergeInv
  <2>3. /\ rxHangoverCount' = IF AddsHangover(arrival) \/ rxHangoverCount = 0 THEN 0
                               ELSE rxHangoverCount - 1
        /\ AddsHangover(arrival) \/ rxHangoverCount = 0 => rxElapsedCount' = 0
    BY <1>1, <1>2 DEF Decoder_amr, HangoverSync
  <2>. QED
    BY <1>1, <2>1, <2>2, <2>3 DEF Least
<1>6. Patient' \/ noiseLen' + sid_update_counter' <= sid_update_rate
  <2>1. CASE prev_ft' = "SID_UPDATE"
    BY <1>1, <2>1, UpdateMakesPatient
  <2>2. CASE prev_ft' = "SID_FIRST"
    <3>1. noiseLen = 0
      BY <1>1, <1>3, <2>2 DEF ConvergeInv, AMREncode, sid_sync, SendSpeech, SendFirst,
                         SendExtraUpdate, SendUpdate, SendNothing
    <3>2. sid_update_counter' = 3
      BY <1>1, <1>3, <2>2 DEF AMREncode, sid_sync, SendSpeech, SendFirst,
                         SendExtraUpdate, SendUpdate, SendNothing
    <3>. QED
      BY <1>1, <3>1, <3>2 DEF Least
  <2>3. CASE prev_ft' = "NO_DATA"
    <3>1. sid_update_counter' = sid_update_counter - 1 /\ prev_ft # "SPEECH_GOOD"
      BY <1>1, <1>3, <2>3 DEF AMREncode, sid_sync, SendSpeech, SendFirst,
                         SendExtraUpdate, SendUpdate, SendNothing
    <3>2. CASE noiseLen > 0 /\ Patient
      BY <1>1, <1>2, <3>1, <3>2, PatientStep
    <3>3. CASE noiseLen > 0 /\ ~Patient
      <4>1. noiseLen + sid_update_counter <= sid_update_rate
        BY <3>3 DEF ConvergeInv
      <4>. QED
        BY <1>1, <3>1, <4>1 DEF Least
    <3>4. CASE noiseLen = 0
      BY <1>1, <3>1, <3>4 DEF Least
    <3>. QED
      BY <3>2, <3>3, <3>4
  <2>. QED
    BY <1>1, <1>2, <2>1, <2>2, <2>3, TransmitTypeStep DEF TxFrameType
<1>. QED
  BY <1>1, <1>2, <1>4, <1>5, <1>6 DEF ConvergeInv

----------------------------------------------------------------------------

\* Enough comfort noise in a row makes the ends agree.
LEMMA NoiseMakesAgree ==
  ASSUME LinkInv, noiseLen = DTX_HANG_CONST + 1
  PROVE  Agree /\ prev_ft # "SPEECH_GOOD"
<1>. USE DEF LinkInv, TypeOK, TransmitType, ReceiveType
<1>1. /\ prev_ft # "SPEECH_GOOD"
      /\ quietRun = DTX_HIST_SIZE
      /\ rxHangoverCount = 0
      /\ rxElapsedCount = 0
  BY DEF ConvergeInv
<1>2. txHangoverCount = 0
  BY <1>1 DEF EncoderInv
<1>3. computeSid
  BY <1>1 DEF EncoderInv
<1>4. txElapsedCount = 0
  BY <1>3 DEF EncoderInv
<1>5. ~(noiseLen + sid_update_counter <= sid_update_rate)
  OBVIOUS
<1>6. Patient
  BY <1>5 DEF ConvergeInv
<1>. QED
  BY <1>1, <1>2, <1>4, <1>6 DEF Agree, Patient

\* A frame sent as speech leaves them in agreement.
LEMMA AgreeSpeech ==
  ASSUME LinkInv, Agree, NEW vad \in BOOLEAN, NEW arrival \in RxFrameType,
         AMREncode(vad), Decoder_amr(arrival, vad), arrival = prev_ft',
         prev_ft' = "SPEECH_GOOD"
  PROVE  Agree' /\ ~dtxHangoverAdded'
<1>. USE DEF LinkInv, TypeOK, TransmitType, ReceiveType
<1>1. ~UsesMRDTX(vad)
  BY SentMode DEF AMREncode
<1>2. ~Continues(arrival) /\ ~SentAsNoise(arrival) /\ ~Updates(arrival)
  BY DEF Continues, SentAsNoise, Updates, SidFrame, Unusable
<1>3. /\ rxElapsedCount' = add_16(rxElapsedCount, 1)
      /\ rxHangoverCount' = DTX_HANG_CONST
  BY <1>2 DEF Decoder_amr, HangoverSync, Counted, AddsHangover
<1>4. ~dtxHangoverAdded'
  BY <1>2 DEF Decoder_amr, HangoverSync, AddsHangover
<1>5. since_last_sid' = 0 /\ dtxGlobalState' = "SPEECH"
  BY <1>2 DEF Decoder_amr, SinceLastSid, NewState
<1>6. data_updated' = data_updated
  BY <1>2 DEF Decoder_amr
<1>7. txElapsedCount' = add_16(txElapsedCount, 1)
  BY <1>1 DEF AMREncode, cod_amr, Voice, HangoverOver, InHangover, UsesMRDTX, Elapsed
<1>8. noiseRun' >= quietRun'
  <2>1. CASE vad
    <3>1. noiseRun' = 0 \/ noiseRun' = Least(noiseRun + 1, DTX_HIST_SIZE)
      BY <1>2, <2>1 DEF Decoder_amr, Remember, NewState
    <3>2. quietRun' = 0
      BY <2>1 DEF AMREncode, cod_amr
    <3>. QED
      BY <3>1, <3>2 DEF Least
  <2>2. CASE ~vad
    <3>1. /\ txHangoverCount > 0
          /\ ~(add_16(Elapsed, txHangoverCount - 1) < DTX_ELAPSED_FRAMES_THRESH)
      BY <1>1, <2>2 DEF UsesMRDTX
    <3>2. quietRun < DTX_HANG_CONST
      BY <3>1 DEF EncoderInv
    <3>3. ~computeSid
      BY <3>2 DEF EncoderInv
    <3>4. prev_ft = "SPEECH_GOOD"
      <4>1. ~(txElapsedCount + txHangoverCount < DTX_ELAPSED_FRAMES_THRESH)
        BY <3>1 DEF Elapsed, add_16, Least
      <4>. QED
        BY <3>3, <4>1 DEF EncoderInv
    <3>5. noiseRun >= quietRun
      BY <3>4 DEF Agree
    <3>6. /\ quietRun' = Least(quietRun + 1, DTX_HIST_SIZE)
          /\ noiseRun' = Least(noiseRun + 1, DTX_HIST_SIZE)
      BY <1>2, <2>2 DEF AMREncode, cod_amr, Decoder_amr, Remember, NewState, Unusable
    <3>. QED
      BY <3>5, <3>6 DEF Least
  <2>. QED
    BY <2>1, <2>2
<1>9. rxElapsedCount' = txElapsedCount'
  BY <1>3, <1>7 DEF Agree
<1>10. ~data_updated' => txElapsedCount' = MAX_16
  <2>1. ~data_updated => txElapsedCount = MAX_16
    BY DEF Agree
  <2>2. txElapsedCount = MAX_16 => txElapsedCount' = MAX_16
    BY <1>7 DEF add_16, Least
  <2>. QED
    BY <1>6, <2>1, <2>2
<1>. QED
  BY <1>3, <1>4, <1>5, <1>8, <1>9, <1>10 DEF Agree

\* So does a first frame of comfort noise, and the decoder sees whether a
\* hangover came before it.
LEMMA AgreeFirst ==
  ASSUME LinkInv, Agree, NEW vad \in BOOLEAN, NEW arrival \in RxFrameType,
         AMREncode(vad), Decoder_amr(arrival, vad), arrival = prev_ft',
         prev_ft = "SPEECH_GOOD", prev_ft' # "SPEECH_GOOD"
  PROVE  /\ Agree'
         /\ prev_ft' = "SID_FIRST"
         /\ dtxHangoverAdded' <=> computeSid'
         /\ dtxHangoverAdded' => noiseRun' >= DTX_HANG_CONST
<1>. USE DEF LinkInv, TypeOK, TransmitType, ReceiveType
<1>1. UsesMRDTX(vad)
  BY SentMode DEF AMREncode
<1>2. prev_ft' = "SID_FIRST" /\ sid_update_counter' = 3
  BY <1>1 DEF AMREncode, sid_sync, SendSpeech, SendFirst, SendExtraUpdate,
              SendUpdate, SendNothing
<1>3. Continues(arrival) /\ SentAsNoise(arrival)
  BY <1>2 DEF Continues, SentAsNoise, SidFrame
<1>4. since_last_sid = 0 /\ dtxGlobalState # "DTX_MUTE" /\ noiseRun >= quietRun
  BY DEF Agree
<1>5. NewState(arrival) = "DTX"
  BY <1>2, <1>3, <1>4 DEF NewState, StaysMute, TooOld
<1>6. Counted(arrival) = add_16(txElapsedCount, 1)
  BY <1>2 DEF Counted, Agree
<1>7. rxHangoverCount = DTX_HANG_CONST
  BY DEF Agree
<1>8. noiseRun' = noiseRun /\ dtxGlobalState' = "DTX"
  BY <1>5 DEF Decoder_amr, Remember
<1>9. since_last_sid' + sid_update_counter' <= sid_update_rate
  BY <1>2, <1>4 DEF Decoder_amr, SinceLastSid
<1>10. CASE txHangoverCount = 0
  <2>1. quietRun = DTX_HANG_CONST
    <3>1. ~computeSid
      BY DEF EncoderInv
    <3>. QED
      BY <1>10, <3>1 DEF EncoderInv
  <2>2. txElapsedCount >= DTX_ELAPSED_FRAMES_THRESH
    BY <1>10, <2>1 DEF EncoderInv
  <2>3. AddsHangover(arrival)
    BY <1>3, <1>6, <2>2 DEF AddsHangover, add_16, Least
  <2>4. rxHangoverCount' = 0 /\ rxElapsedCount' = 0
    BY <1>3, <2>3 DEF Decoder_amr, HangoverSync
  <2>5. dtxHangoverAdded' /\ data_updated'
    BY <1>2, <1>3, <2>3 DEF Decoder_amr, HangoverSync, Updates
  <2>6. txHangoverCount' = 0 /\ txElapsedCount' = 0
    BY <1>1, <1>10 DEF AMREncode, cod_amr, Voice, HangoverOver, InHangover, UsesMRDTX
  <2>7. computeSid'
    BY <1>1, <1>10 DEF AMREncode, cod_amr, Voice, HangoverOver, InHangover, UsesMRDTX
  <2>8. noiseRun' >= DTX_HANG_CONST
    BY <1>4, <1>8, <2>1
  <2>9. Patient'
    BY <1>8, <1>9, <2>5 DEF Patient
  <2>. QED
    BY <1>2, <2>4, <2>5, <2>6, <2>7, <2>8, <2>9 DEF Agree
<1>11. CASE txHangoverCount > 0
  <2>1. add_16(Elapsed, txHangoverCount - 1) < DTX_ELAPSED_FRAMES_THRESH /\ ~vad
    BY <1>1, <1>11 DEF UsesMRDTX
  <2>2. txElapsedCount + txHangoverCount < DTX_ELAPSED_FRAMES_THRESH
    BY <1>11, <2>1 DEF Elapsed, add_16, Least
  <2>3. quietRun = 0 /\ txHangoverCount = DTX_HANG_CONST
    BY <2>2 DEF EncoderInv
  <2>4. Counted(arrival) = txElapsedCount + 1 /\ Elapsed = txElapsedCount + 1
    BY <1>6, <2>2 DEF add_16, Least, Elapsed
  <2>5. ~AddsHangover(arrival)
    BY <1>11, <2>2, <2>4 DEF AddsHangover
  <2>6. /\ rxHangoverCount' = DTX_HANG_CONST - 1
        /\ rxElapsedCount' = txElapsedCount + 1
    BY <1>3, <1>7, <2>4, <2>5 DEF Decoder_amr, HangoverSync
  <2>7. /\ txHangoverCount' = DTX_HANG_CONST - 1
        /\ txElapsedCount' = txElapsedCount + 1
    BY <2>1, <2>3, <2>4 DEF AMREncode, cod_amr, Voice, HangoverOver, InHangover
  <2>8. ~computeSid' /\ ~dtxHangoverAdded'
    <3>1. ~computeSid'
      BY <1>11, <2>1 DEF AMREncode, cod_amr, Voice, HangoverOver, InHangover
    <3>2. ~dtxHangoverAdded'
      BY <2>5 DEF Decoder_amr, HangoverSync
    <3>. QED
      BY <3>1, <3>2
  <2>9. data_updated'
    <3>1. txElapsedCount # MAX_16
      BY <2>2
    <3>2. data_updated
      BY <3>1 DEF Agree
    <3>. QED
      BY <3>2 DEF Decoder_amr
  <2>10. Patient'
    BY <1>8, <1>9, <2>9 DEF Patient
  <2>. QED
    BY <1>2, <2>6, <2>7, <2>8, <2>9, <2>10 DEF Agree
<1>. QED
  BY <1>10, <1>11

\* And so does the comfort noise after it.
LEMMA AgreeNoise ==
  ASSUME LinkInv, Agree, NEW vad \in BOOLEAN, NEW arrival \in RxFrameType,
         AMREncode(vad), Decoder_amr(arrival, vad), arrival = prev_ft',
         prev_ft # "SPEECH_GOOD", prev_ft' # "SPEECH_GOOD"
  PROVE  Agree' /\ prev_ft' # "SID_FIRST" /\ ~dtxHangoverAdded'
<1>. USE DEF LinkInv, TypeOK, TransmitType, ReceiveType
<1>1. UsesMRDTX(vad)
  BY SentMode DEF AMREncode
<1>2. prev_ft' \in {"SID_UPDATE", "NO_DATA"}
  BY <1>1 DEF AMREncode, sid_sync, SendSpeech, SendFirst, SendExtraUpdate,
              SendUpdate, SendNothing
<1>3. dtxGlobalState = "DTX" /\ data_updated
  BY DEF Agree, Patient
<1>4. Continues(arrival) /\ SentAsNoise(arrival)
  BY <1>2, <1>3 DEF Continues, SentAsNoise, SidFrame, Unusable, NewState
<1>5. Patient'
  BY PatientStep DEF Agree
<1>6. Counted(arrival) = add_16(txElapsedCount, 1)
  BY <1>3 DEF Counted, Agree
<1>7. rxHangoverCount = txHangoverCount
  BY DEF Agree
<1>8. txElapsedCount < DTX_ELAPSED_FRAMES_THRESH
  <2>1. CASE computeSid
    BY <2>1 DEF EncoderInv
  <2>2. CASE ~computeSid
    BY <2>2 DEF EncoderInv
  <2>. QED
    BY <2>1, <2>2
<1>9. Counted(arrival) = txElapsedCount + 1
  BY <1>6, <1>8 DEF add_16, Least
<1>10. ~AddsHangover(arrival)
  BY <1>8, <1>9 DEF AddsHangover
<1>11. ~dtxHangoverAdded'
  BY <1>10 DEF Decoder_amr, HangoverSync
<1>12. /\ rxHangoverCount' = IF txHangoverCount = 0 THEN 0 ELSE txHangoverCount - 1
       /\ rxElapsedCount' = IF txHangoverCount = 0 THEN 0 ELSE txElapsedCount + 1
  BY <1>4, <1>7, <1>9, <1>10 DEF Decoder_amr, HangoverSync
<1>13. /\ txHangoverCount' = IF txHangoverCount = 0 THEN 0 ELSE txHangoverCount - 1
       /\ txElapsedCount' = IF txHangoverCount = 0 THEN 0 ELSE txElapsedCount + 1
  BY <1>1, <1>8 DEF AMREncode, cod_amr, Voice, HangoverOver, InHangover, UsesMRDTX,
                    Elapsed, add_16, Least
<1>14. data_updated'
  BY <1>5 DEF Patient
<1>. QED
  BY <1>2, <1>5, <1>11, <1>12, <1>13, <1>14 DEF Agree

LEMMA SyncStep ==
  ASSUME LinkInv, NEW vad \in BOOLEAN, NEW arrival \in RxFrameType,
         Frame(vad, arrival)
  PROVE  SyncInv'
<1>. SUFFICES ASSUME synced'
              PROVE  /\ Agree'
                     /\ dtxHangoverAdded' <=> (prev_ft' = "SID_FIRST" /\ computeSid')
                     /\ dtxHangoverAdded' => noiseRun' >= DTX_HANG_CONST
  BY DEF SyncInv
<1>1. /\ AMREncode(vad)
      /\ Decoder_amr(arrival, vad)
      /\ arrival = prev_ft'
      /\ synced \/ noiseLen = DTX_HANG_CONST + 1
  <2>1. intact' /\ (synced \/ noiseLen = DTX_HANG_CONST + 1)
    BY DEF Frame
  <2>. QED
    BY <2>1 DEF Frame, Delivered
<1>2. Agree
  BY <1>1, NoiseMakesAgree DEF LinkInv, SyncInv
<1>3. CASE prev_ft' = "SPEECH_GOOD"
  BY <1>1, <1>2, <1>3, AgreeSpeech
<1>4. CASE prev_ft = "SPEECH_GOOD" /\ prev_ft' # "SPEECH_GOOD"
  BY <1>1, <1>2, <1>4, AgreeFirst
<1>5. CASE prev_ft # "SPEECH_GOOD" /\ prev_ft' # "SPEECH_GOOD"
  BY <1>1, <1>2, <1>5, AgreeNoise
<1>. QED
  BY <1>3, <1>4, <1>5

----------------------------------------------------------------------------

LEMMA FrameStep ==
  ASSUME LinkInv, NEW vad \in BOOLEAN, NEW arrival \in RxFrameType,
         Frame(vad, arrival)
  PROVE  LinkInv'
<1>1. TransmitType' /\ ReceiveType'
  BY TransmitTypeStep, ReceiveTypeStep DEF LinkInv, TypeOK, Frame
<1>2. rx' \in RxFrameType
  BY DEF Frame
<1>3. noiseLen' \in 0..(DTX_HANG_CONST + 1)
  BY DEF LinkInv, TypeOK, Frame, Least
<1>4. intact' \in BOOLEAN /\ synced' \in BOOLEAN
  BY DEF Frame
<1>5. EncoderInv'
  BY EncoderStep DEF LinkInv, TypeOK, Frame
<1>. QED
  BY <1>1, <1>2, <1>3, <1>4, <1>5, ConvergeStep, SyncStep DEF LinkInv, TypeOK

LEMMA HandoverStep ==
  ASSUME LinkInv, Handover
  PROVE  LinkInv'
<1>1. PICK debt \in Debts : sid_sync_set_handover_debt(debt)
  BY DEF Handover
<1>2. /\ sid_handover_debt' \in Nat
      /\ UNCHANGED <<txHangoverCount, txElapsedCount, computeSid, quietRun,
                     log_en_index, averaged, sid_update_counter, prev_ft, receiveVars, linkVars>>
  BY <1>1 DEF sid_sync_set_handover_debt, Handover
<1>. USE <1>2 DEF receiveVars, linkVars, LinkInv
<1>3. TypeOK'
  BY DEF TypeOK, TransmitType, ReceiveType
<1>4. EncoderInv'
  BY DEF EncoderInv
<1>5. ConvergeInv'
  BY DEF ConvergeInv, Patient
<1>6. SyncInv'
  BY DEF SyncInv, Agree, Patient
<1>. QED
  BY <1>3, <1>4, <1>5, <1>6

\* The invariant holds in every behaviour, whatever the link loses.
THEOREM LinkInvariant == Spec => []LinkInv
<1>1. LinkInv /\ [Next]_vars => LinkInv'
  <2>1. ASSUME LinkInv, NEW vad \in BOOLEAN, NEW arrival \in RxFrameType,
               Frame(vad, arrival)
        PROVE  LinkInv'
    BY <2>1, FrameStep
  <2>2. ASSUME LinkInv, UNCHANGED vars
        PROVE  LinkInv'
    BY <2>2 DEF LinkInv, TypeOK, TransmitType, ReceiveType, EncoderInv, ConvergeInv,
                SyncInv, Agree, Patient, vars, transmitVars, receiveVars, linkVars
  <2>. QED
    BY <2>1, <2>2, HandoverStep DEF Next
<1>. QED
  BY <1>1, InitInv, PTL DEF Spec

\* Every counter of both ends stays in range, since_last_sid among them.
THEOREM TypeCorrect == Spec => []TypeOK
<1>1. LinkInv => TypeOK
  BY DEF LinkInv
<1>. QED
  BY <1>1, LinkInvariant, PTL

\* Voice is averaged into the noise only while the lowest level is in force,
\* and never when the handler asks for new parameters.
THEOREM EncoderAveragesNoise == Spec => NoiseFromNoise
<1>1. LinkInv /\ LinkInv' /\ [Next]_vars =>
        [averaged' = "voice" =>
           /\ ~computeSid'
           /\ averaged = "voice" \/ (averaged = "noise" /\ log_en_index = 0)]_transmitVars
  <2>. SUFFICES ASSUME LinkInv, LinkInv', [Next]_vars, averaged' = "voice"
                PROVE  \/ /\ ~computeSid'
                          /\ \/ averaged = "voice"
                             \/ averaged = "noise" /\ log_en_index = 0
                       \/ UNCHANGED transmitVars
    OBVIOUS
  <2>1. ~computeSid'
    BY DEF LinkInv, EncoderInv
  <2>2. ASSUME NEW vad \in BOOLEAN, NEW arrival \in RxFrameType, Frame(vad, arrival),
               averaged # "voice"
        PROVE  averaged = "noise" /\ log_en_index = 0
    <3>1. cod_amr(vad)
      BY <2>2 DEF Frame, AMREncode
    <3>2. ComputesParameters(vad)
      BY <2>2, <3>1 DEF cod_amr, dtx_enc
    <3>3. log_en_index = 0
      BY <2>1, <3>2 DEF ComputesParameters
    <3>4. averaged # "nothing"
      BY <2>1, <3>1, <3>2 DEF LinkInv, TypeOK, TransmitType, EncoderInv, ComputesParameters,
           UsesMRDTX, cod_amr, Voice, HangoverOver, InHangover, Elapsed, add_16, Least
    <3>. QED
      BY <2>2, <3>3, <3>4 DEF LinkInv, TypeOK, TransmitType
  <2>3. CASE Handover \/ UNCHANGED vars
    BY <2>1, <2>3 DEF Handover, sid_sync_set_handover_debt, vars, transmitVars
  <2>. QED
    BY <2>1, <2>2, <2>3 DEF Next
<1>. QED
  BY <1>1, LinkInvariant, PTL DEF NoiseFromNoise, Spec

\* The decoder knows which first SIDs follow a hangover.
THEOREM HangoverKnown == Spec => []HangoverAgreement
<1>1. LinkInv => HangoverAgreement
  BY DEF LinkInv, SyncInv, HangoverAgreement
<1>. QED
  BY <1>1, LinkInvariant, PTL

\* The decoder averages noise only.
THEOREM DecoderNoise == Spec => []DecoderAveragesNoise
<1>1. LinkInv => DecoderAveragesNoise
  <2>. SUFFICES ASSUME LinkInv, synced, dtxHangoverAdded
                PROVE  noiseRun >= DTX_HIST_SIZE - 1
    BY DEF DecoderAveragesNoise
  <2>1. noiseRun >= DTX_HANG_CONST
    BY DEF LinkInv, SyncInv
  <2>. QED
    BY <2>1
<1>. QED
  BY <1>1, LinkInvariant, PTL

\* A good link is never muted.
THEOREM NeverMutes == Spec => []GoodLinkNeverMutes
<1>1. LinkInv => GoodLinkNeverMutes
  BY DEF LinkInv, SyncInv, Agree, Patient, GoodLinkNeverMutes
<1>. QED
  BY <1>1, LinkInvariant, PTL

----------------------------------------------------------------------------
(* The bad frame handler.                                                   *)

LEMMA HandlerStep ==
  ASSUME TypeOK, HandlerInv, NEW vad \in BOOLEAN, NEW arrival \in RxFrameType,
         Frame(vad, arrival), dtxGlobalState' = "SPEECH", rx' \notin Unusable
  PROVE  /\ bfhState' # 6
         /\ dtxGlobalState = "SPEECH" /\ rx \notin Unusable => bfhState' = 0
<1>1. /\ BadFrameHandler(arrival) /\ dtxGlobalState' = NewState(arrival)
      /\ rx' = arrival
  BY DEF Frame, Decoder_amr
<1>2. CASE dtxGlobalState # "SPEECH"
  BY <1>1, <1>2 DEF BadFrameHandler
<1>3. CASE dtxGlobalState = "SPEECH"
  <2>1. bfhState' = IF bfhState = 6 THEN 5 ELSE 0
    BY <1>1, <1>3 DEF BadFrameHandler
  <2>. QED
    BY <1>3, <2>1 DEF HandlerInv
<1>. QED
  BY <1>2, <1>3

\* However many frames were lost before: two usable speech frames in a row
\* end the concealment.
THEOREM ConcealmentOver == Spec => ConcealmentEnds
<1>1. Init => HandlerInv
  BY DEF Init, ReceiveInit, HandlerInv
<1>2. TypeOK /\ HandlerInv /\ [Next]_vars => HandlerInv'
  <2>. SUFFICES ASSUME TypeOK, HandlerInv, [Next]_vars PROVE HandlerInv'
    OBVIOUS
  <2>1. ASSUME NEW vad \in BOOLEAN, NEW arrival \in RxFrameType, Frame(vad, arrival)
        PROVE  HandlerInv'
    BY <2>1, HandlerStep DEF HandlerInv
  <2>2. CASE Handover \/ UNCHANGED vars
    BY <2>2 DEF Handover, vars, receiveVars, linkVars, HandlerInv
  <2>. QED
    BY <2>1, <2>2 DEF Next
<1>3. TypeOK /\ HandlerInv /\ [Next]_vars =>
        [(dtxGlobalState = "SPEECH" /\ rx \notin Unusable
            /\ dtxGlobalState' = "SPEECH" /\ rx' \notin Unusable)
           => bfhState' = 0]_<<receiveVars, rx>>
  <2>. SUFFICES ASSUME TypeOK, HandlerInv, [Next]_vars,
                       dtxGlobalState = "SPEECH" /\ rx \notin Unusable,
                       dtxGlobalState' = "SPEECH" /\ rx' \notin Unusable
                PROVE  bfhState' = 0 \/ UNCHANGED <<receiveVars, rx>>
    OBVIOUS
  <2>1. ASSUME NEW vad \in BOOLEAN, NEW arrival \in RxFrameType, Frame(vad, arrival)
        PROVE  bfhState' = 0
    BY <2>1, HandlerStep
  <2>2. CASE Handover \/ UNCHANGED vars
    BY <2>2 DEF Handover, vars, linkVars
  <2>. QED
    BY <2>1, <2>2 DEF Next
<1>. QED
  BY <1>1, <1>2, <1>3, TypeCorrect, PTL DEF Spec, ConcealmentEnds
============================================================================
