SPECIFICATION ClientSpec
CONSTANTS
    Wifi = Wifi
    Wired = Wired
    Cellular = Cellular
    Other = Other
    MaxClock = 2
    Budgets <- MCBudgets
    SCALE = 4
    NaN = NaN
    None = None
    MAX_DURATION = 4
    MaxNow = 6
    MaxTick = 2
    Caps <- MCCaps
    Fractions <- MCFractions
    Latencies <- MCLatencies
    Rates <- MCRates
INVARIANT WindowShowsStatus
INVARIANT LinkIsCurrent
INVARIANT RateIsReal
INVARIANT VectorInRange
INVARIANT RekeyTimerIsHonest
CHECK_DEADLOCK FALSE
