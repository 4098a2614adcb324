SPECIFICATION FairSpec
CONSTANTS
  WRAP = 14
  SPEEX_JITTER_MAX_BUFFER_SIZE = 2
  TIMING_LIMIT = 3
  MAX_TIMINGS = 2
  MAX_BUFFERS = 2
  TOP_DELAY = 2
  MAX_LOST = 1
  PENALTY = 4
  AUTO_TRADEOFF = 100
  delay_step = 2
  concealment_size = 1
  buffer_margin = 0
  max_late_rate = 50
  Wild = 2
  Stamps = {0, 1, 3, 7, 12}
  Spans = {2, 3}
  Span = 2
  Restarts = TRUE
INVARIANTS TypeOK NeededIsNotLate FillTest
PROPERTIES PlaybackGoesForward Recovers
