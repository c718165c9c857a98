\* Starts with and without a token, and those that are refused.
CONSTANTS
    Steps <- MCSteps
    Spacing = 2
    Interval = 1
    Probes = {q1}
    MaxRequests = 1
    Inputs <- MCInputs
SPECIFICATION StartupSpec
INVARIANTS
    TypeOK
    ReadyMeansReady
    ShutdownOrder
    CleanExit
    SettingsTakeEffect
    OneTokenSource
PROPERTIES
    SignalEndsProcess
\* The process exits.
CHECK_DEADLOCK FALSE
