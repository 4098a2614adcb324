\* Two recorders and eager clicks: two runs use the library at once, of one
\* recorder too when they race.
SPECIFICATION Spec
CONSTANTS
    t1 = t1  t2 = t2  t3 = t3  r1 = r1  r2 = r2
    Nobody = Nobody  Torn = Torn
    Thread <- TwoThreads
    Recorder <- TwoRecorders
    Outcomes <- GoodStorage
    ReadSizes <- FewReads
    MicFaults = TRUE
    MayDie = FALSE
    EagerClicks = TRUE
    MaxFrames = 1
\* The model stops where the behaviour of the code is undefined.
CHECK_DEADLOCK FALSE
PROPERTIES
    ExclusionUnlessRace
