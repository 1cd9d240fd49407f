\* The five functions, with up to two damaged bytes and a data byte
\* with bit 3.
SPECIFICATION FairSpec
CONSTANTS
    Programs = {"scan", "poll", "timed", "packet", "async"}
    KeyCodes = {"1E", "81"}
    TICKS = 2
    n = 2
    MaxFaults = 2
    cnt = 2
    MaxMarked = 1
INVARIANTS
    TypeOK
    FaultsBoundWrongs
    EndsOnlyWhenIdle
PROPERTIES
    EndsWhenIdle
    EscEnds
    PacketsEnd
CHECK_DEADLOCK FALSE
