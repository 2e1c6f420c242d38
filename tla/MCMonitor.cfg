SPECIFICATION FairSpec
CONSTANTS
    SampleMs = 1
    Capacity = 4
    MaxTime = 5
    MaxStart = 6
    MaxBytes = 1
CHECK_DEADLOCK FALSE
INVARIANTS SwitchesHonoured TimelineOrdered
PROPERTIES SessionKept StopEndsSession
