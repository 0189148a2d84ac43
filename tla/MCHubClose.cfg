\* Two addresses, one with verdicts that change; two requests at a time and one that waits for its token, a
\* queue of three; a crash before, during or after the shutdown.
CONSTANTS
    Address = {a1, a2}
    Steady = {a2}
    FlushInterval = 1
    Failing = TRUE
    MaxTime = 2
    MaxCrashes = 1
    QueueSize = 3
    maxConcurrentRequests = 2

SPECIFICATION MCSpec

INVARIANTS
    UnsavedIsScheduled
    EndedWithVerdicts

PROPERTIES
    FileNeverForgets
    CloseEnds
    DetailsGoOut

CHECK_DEADLOCK FALSE
