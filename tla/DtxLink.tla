------------------------------ MODULE DtxLink ------------------------------
(* An AMR encoder and decoder with a link between them. Every 20 ms one     *)
(* frame is encoded, carried and decoded. The link may lose a frame or      *)
(* damage it, and says so, as the receiving radio does; what the encoder    *)
(* did not send (NO_DATA) cannot be lost.                                   *)
EXTENDS DtxTransmit, DtxReceive

CONSTANT Lossy   \* may the link lose and damage frames?
ASSUME LinkAssumption ==
  /\ Lossy \in BOOLEAN
  /\ sid_update_rate <= DTX_MAX_EMPTY_THRESH

VARIABLES
  rx,        \* how the last frame arrived
  intact,    \* did it arrive as it was sent?
  noiseLen,  \* intact frames in a row that were decoded as comfort noise,
             \* up to DTX_HANG_CONST + 1
  synced     \* history: nothing was lost since the start, or since so much
             \* comfort noise in a row that the ends agree again

linkVars == <<rx, intact, noiseLen, synced>>
vars == <<transmitVars, receiveVars, linkVars>>

\* AMRDecode: a frame of type tx that arrives.
Delivered(tx) == tx

\* What may arrive in its place.
Damaged(tx) ==
  CASE tx = "SPEECH_GOOD" -> Unusable \union {"SPEECH_DEGRADED"}
    [] tx \in {"SID_FIRST", "SID_UPDATE"} -> {"SID_BAD", "NO_DATA"}
    [] tx = "NO_DATA" -> {}

Arrivals(tx) ==
  {Delivered(tx)} \union (IF Lossy THEN Damaged(tx) ELSE {})

Init ==
  /\ TransmitInit
  /\ ReceiveInit
  /\ rx = "NO_DATA"
  /\ intact = TRUE
  /\ noiseLen = 0
  /\ synced = TRUE

\* Twenty milliseconds of sound, with voice or without, and what arrives.
Frame(vad, arrival) ==
  /\ AMREncode(vad)
  /\ arrival \in Arrivals(prev_ft')
  /\ Decoder_amr(arrival, vad)
  /\ rx' = arrival
  /\ intact' = (arrival = Delivered(prev_ft'))
  /\ noiseLen' = IF intact' /\ dtxGlobalState' # "SPEECH"
                 THEN Least(noiseLen + 1, DTX_HANG_CONST + 1) ELSE 0
  /\ synced' = (intact' /\ (synced \/ noiseLen = DTX_HANG_CONST + 1))

Handover ==
  /\ \E debt \in Debts : sid_sync_set_handover_debt(debt)
  /\ UNCHANGED <<receiveVars, linkVars>>

Next ==
  \/ \E vad \in BOOLEAN, arrival \in RxFrameType : Frame(vad, arrival)
  \/ Handover

Spec == Init /\ [][Next]_vars

\* The sound card delivers a frame every 20 ms.
FairSpec ==
  Spec /\ WF_vars(\E vad \in BOOLEAN, arrival \in RxFrameType : Frame(vad, arrival))
============================================================================
