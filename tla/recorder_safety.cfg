\* One recorder, three clicks on Start, every fault, patient clicks.
SPECIFICATION Spec
CONSTANTS
    t1 = t1  t2 = t2  t3 = t3  r1 = r1  r2 = r2
    Nobody = Nobody  Torn = Torn
    Thread <- ThreeThreads
    Recorder <- OneRecorder
    Outcomes <- EveryOutcome
    ReadSizes <- Reads
    MicFaults = TRUE
    MayDie = TRUE
    EagerClicks = FALSE
    MaxFrames = 2
SYMMETRY Symmetry
INVARIANTS
    TypeOK
    NoUseAfterFree
    NothingLeaks
    NoLockout
    CountersAgree
    FileComplete
    MixOnlyAfterFailure
PROPERTIES
    ImplementsLog
