SPECIFICATION Spec
CONSTANTS
  WRAP = 8
  SPEEX_JITTER_MAX_BUFFER_SIZE = 2
  TIMING_LIMIT = 3
  MAX_TIMINGS = 2
  MAX_BUFFERS = 2
  TOP_DELAY = 2
  MAX_LOST = 1
  PENALTY = 4
  AUTO_TRADEOFF = 100
  delay_step = 1
  concealment_size = 1
  buffer_margin = 0
  max_late_rate = 50
  Wild = 2
  Stamps = {0, 1, 2, 3, 4, 5, 6, 7}
  Spans = {1}
  Span = 1
  Restarts = FALSE
PROPERTY ResyncUsesPacket
