\* The storage refuses a file and accepts it later.
SPECIFICATION Spec
CONSTANTS
    t1 = t1  t2 = t2  t3 = t3  r1 = r1  r2 = r2
    Nobody = Nobody  Torn = Torn
    Thread <- OneThread
    Recorder <- OneRecorder
    Outcomes <- EveryOutcome
    ReadSizes <- FewReads
    MicFaults = FALSE
    MayDie = FALSE
    EagerClicks = FALSE
    MaxFrames = 2
INVARIANTS
    FramesFollowHeader
