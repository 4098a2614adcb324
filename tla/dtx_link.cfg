SPECIFICATION FairSpec
CONSTANTS
  DTX_HANG_CONST = 3
  DTX_ELAPSED_FRAMES_THRESH = 6
  DTX_HIST_SIZE = 4
  MAX_16 = 7
  sid_update_rate = 4
  MAX_INDEX = 1
  DTX_MAX_EMPTY_THRESH = 5
  Lossy = TRUE
  Debts <- OneDebt
INVARIANTS TypeOK HangoverAgreement DecoderAveragesNoise GoodLinkNeverMutes
PROPERTIES NoiseFromNoise ConcealmentEnds MuteEnds
