\* A read fails, and Start is clicked again.
SPECIFICATION Spec
CONSTANTS
    t1 = t1  t2 = t2  t3 = t3  r1 = r1  r2 = r2
    Nobody = Nobody  Torn = Torn
    Thread <- TwoThreads
    Recorder <- OneRecorder
    Outcomes <- GoodStorage
    ReadSizes <- FewReads
    MicFaults = FALSE
    MayDie = FALSE
    EagerClicks = FALSE
    MaxFrames = 1
INVARIANTS
    RefusedRunNeverEncodes
