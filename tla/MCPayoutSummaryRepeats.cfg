\* Two payouts of one transaction are not the same record.
CONSTANTS
    Day = 4
    HistoryDays = 2
    Half = 8
    MaxRecords = 3
    NoId = "none"
    Responses <- MCBatchResponses
    RequestTimes <- MCTimes
SPECIFICATION Spec
INVARIANTS
    OnlyExactRepeatsDropped
\* The pass over a response ends.
CHECK_DEADLOCK FALSE
