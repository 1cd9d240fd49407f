\* A binary timer, a BCD one in mode 6, one that does not exist, and a frequency
\* whose divisor does not fit 16 bits.
SPECIFICATION FairSpec
CONSTANTS
    TIMER_FREQ = 1193182
    Freqs = {18, 60}
    Asked = {0, 2, 3}
    Modes <- MCModes
    TICKS = 3
    time = 2
INVARIANTS
    ModeKept
    FrequencySet
    UnreportedStops
    ShownIsTrue
    TakesItsTime
PROPERTIES
    TestReturns
CHECK_DEADLOCK FALSE
