\* Time stops at Horizon.
CHECK_DEADLOCK FALSE

CONSTANTS
    CyclePeriod = 2
    Preset = 5
    Horizon = 10

SPECIFICATION TimingSpec

INVARIANTS
    NoMoreCyclesThanTime
    TimerWaits
