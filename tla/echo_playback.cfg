SPECIFICATION Spec
CONSTANTS
  PLAYBACK_DELAY = 2
  TOO_BAD = 2
  Oldest = 6
INVARIANTS TypeOK DelayedByTwo
PROPERTIES NeverBack DelaySettles
