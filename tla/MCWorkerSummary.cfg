\* At most three workers with labels of at most five bytes.
CONSTANTS
    MaxWorkers = 3
    MaxLength = 5
    Responses <- MCResponses
SPECIFICATION Spec
INVARIANTS
    EverySeriesOnce
    RefusedForGoodReason
\* The pass over a response ends.
CHECK_DEADLOCK FALSE
