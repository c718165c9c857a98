\* Up to three rewards, or four: one too many.
CONSTANTS
    Day = 4
    HistoryDays = 2
    MaxRecords = 3
    MaxExponent = 3
    Places = 2
    Responses <- MCResponses
    RequestTimes <- MCTimes
SPECIFICATION Spec
INVARIANTS
    ComponentsAreSums
    RefusedForGoodReason
\* The pass over a response ends.
CHECK_DEADLOCK FALSE
