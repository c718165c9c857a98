\* Longest call 3 ticks, longest cycle 9, a day of two cycles and a call and a bit.
CONSTANTS
    Steps <- MCSteps
    History <- MCHistory
    Spacing = 2
    Interval = 1
    MaxAttempts = 2
    Timeout = 1
    MaxBackoff = 1
    Day = 23
    MaxMisses = 1
    None = None
SPECIFICATION CycleSpec
INVARIANTS
    StepsAreSpaced
    AgeWithinCycle
    WindowIsRecent
    OneStepAfterCancel
PROPERTIES
    PollLoopStops
\* The loop ends.
CHECK_DEADLOCK FALSE
