\* Up to three on-chain payouts and one lightning payout, one record too many
\* for the limit.
CONSTANTS
    Day = 4
    HistoryDays = 2
    Half = 8
    MaxRecords = 3
    NoId = "none"
    Responses <- MCResponses
    RequestTimes <- MCTimes
SPECIFICATION Spec
INVARIANTS
    TotalsAreSums
    RefusedForGoodReason
    RailsAreIndependent
\* The pass over a response ends.
CHECK_DEADLOCK FALSE
