\* Two clicks on Start and any number on Stop, storage and microphone may refuse; no symmetry.
SPECIFICATION FairSpec
CONSTANTS
    t1 = t1  t2 = t2  t3 = t3  r1 = r1  r2 = r2
    Nobody = Nobody  Torn = Torn
    Thread <- TwoThreads
    Recorder <- OneRecorder
    Outcomes <- MayRefuse
    ReadSizes <- Reads
    MicFaults = TRUE
    MayDie = TRUE
    EagerClicks = FALSE
    MaxFrames = 3
INVARIANTS
    FramesContiguous
PROPERTIES
    StopEndsLoop
    StartSettles
