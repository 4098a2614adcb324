------------------------- MODULE DtxLinkProperties -------------------------
(* What discontinuous transmission promises, and the invariant it rests on. *)
EXTENDS DtxLink

\* Every counter and state of both ends stays in its range. In particular
\* since_last_sid, which rx_dtx_handler increments without saturation and
\* three other places reset, stays below its threshold between frames.
TypeOK ==
  /\ TransmitType
  /\ ReceiveType
  /\ rx \in RxFrameType
  /\ intact \in BOOLEAN
  /\ noiseLen \in 0..(DTX_HANG_CONST + 1)
  /\ synced \in BOOLEAN

\* Parameters that tx_dtx_handler asks for are averaged over noise only. Those
\* that dtx_enc computes of its own, because the index in force is 0, may be
\* averaged over voice ("immediately after a talk spurt", dtx_enc.cpp:560-561,
\* is what that should not be), yet only where noise of the lowest level is in
\* force or voice already: the 0 of the reset never lets voice in.
NoiseFromNoise ==
  [][averaged' = "voice" =>
       /\ ~computeSid'
       /\ averaged = "voice" \/ (averaged = "noise" /\ log_en_index = 0)]_transmitVars

\* The decoder finds out by counting whether the encoder sent a hangover. On
\* a link that loses nothing, or that lost something but has since carried
\* enough comfort noise, it is right: it takes the noise from its own history
\* exactly at the first SID after a hangover.
HangoverAgreement ==
  synced => (dtxHangoverAdded <=> (prev_ft = "SID_FIRST" /\ computeSid))

\* When it does, what it averages (all but the oldest entry, which dtx_dec
\* overwrites with a copy of the newest) is noise.
DecoderAveragesNoise ==
  (synced /\ dtxHangoverAdded) => noiseRun >= DTX_HIST_SIZE - 1

\* The decoder never fades out while the link is good: the updates sid_sync
\* sends come often enough for the decoder's patience.
GoodLinkNeverMutes == synced => dtxGlobalState # "DTX_MUTE"

\* After two usable speech frames in a row nothing is concealed any more.
ConcealmentEnds ==
  [][(dtxGlobalState = "SPEECH" /\ rx \notin Unusable
        /\ dtxGlobalState' = "SPEECH" /\ rx' \notin Unusable) => bfhState' = 0]_<<receiveVars, rx>>

\* Once the link stays good the decoder stops fading out for ever.
MuteEnds == <>[]intact => <>[](dtxGlobalState # "DTX_MUTE")

----------------------------------------------------------------------------
(* The inductive invariant, in parts. EncoderInv needs TypeOK alone,        *)
(* SyncInv needs all the others.                                            *)

\* The hangover counter says how long the encoder has heard no voice; in a
\* hangover sent as speech the sum of its counters has reached the
\* threshold, in one sent as noise it has not.
EncoderInv ==
  /\ quietRun <= DTX_HANG_CONST => txHangoverCount = DTX_HANG_CONST - quietRun
  /\ quietRun = DTX_HIST_SIZE => txHangoverCount = 0
  /\ computeSid <=> quietRun = DTX_HIST_SIZE
  /\ computeSid => txElapsedCount = 0 /\ prev_ft # "SPEECH_GOOD"
  /\ computeSid => averaged = "noise"
  /\ averaged = "nothing" => txElapsedCount = MAX_16
  /\ prev_ft # "SPEECH_GOOD" => quietRun > 0
  /\ (prev_ft = "SPEECH_GOOD" /\ quietRun > 0)
       => txElapsedCount + txHangoverCount >= DTX_ELAPSED_FRAMES_THRESH
  /\ (prev_ft # "SPEECH_GOOD" /\ ~computeSid)
       => txElapsedCount + txHangoverCount < DTX_ELAPSED_FRAMES_THRESH

\* The decoder has fresh noise and its patience outlasts the wait for more.
Patient ==
  /\ dtxGlobalState = "DTX"
  /\ data_updated
  /\ since_last_sid + sid_update_counter <= sid_update_rate

\* While comfort noise arrives undamaged the ends come to agree.
ConvergeInv ==
  noiseLen > 0 =>
    /\ prev_ft # "SPEECH_GOOD"
    /\ dtxGlobalState # "SPEECH"
    /\ quietRun >= noiseLen
    /\ noiseLen <= DTX_HANG_CONST => rxHangoverCount <= DTX_HANG_CONST - noiseLen
    /\ noiseLen > DTX_HANG_CONST => rxHangoverCount = 0 /\ rxElapsedCount = 0
    /\ Patient \/ noiseLen + sid_update_counter <= sid_update_rate

\* The two ends count alike, and the decoder's state suits the frame sent.
Agree ==
  /\ rxElapsedCount = txElapsedCount
  /\ rxHangoverCount = IF prev_ft = "SPEECH_GOOD" THEN DTX_HANG_CONST
                       ELSE txHangoverCount
  /\ ~data_updated => txElapsedCount = MAX_16
  /\ prev_ft = "SPEECH_GOOD" =>
        /\ since_last_sid = 0
        /\ dtxGlobalState # "DTX_MUTE"
        /\ noiseRun >= quietRun
  /\ prev_ft # "SPEECH_GOOD" => Patient

SyncInv ==
  synced =>
    /\ Agree
    /\ dtxHangoverAdded <=> (prev_ft = "SID_FIRST" /\ computeSid)
    /\ dtxHangoverAdded => noiseRun >= DTX_HANG_CONST

\* After a usable frame decoded as speech the bad frame handler is not in its
\* last state. What ConcealmentEnds needs.
HandlerInv ==
  (dtxGlobalState = "SPEECH" /\ rx \notin Unusable) => bfhState # 6

LinkInv == TypeOK /\ EncoderInv /\ ConvergeInv /\ SyncInv
============================================================================
