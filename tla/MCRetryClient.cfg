\* Every answer, with Retry-After values a duration can hold.
CONSTANTS
    Half = 64
    Second = 4
    RawPolicies <- MCRawPolicies
    Answers <- MCAnswers
SPECIFICATION Spec
INVARIANTS
    TypeOK
    BoundedEffort
    FinalAnswerEndsCall
    ReportsLastAnswer
    ResultIsDocumented
    RetryAfterHonored
PROPERTIES
    CallReturns
    ImplementsPollCall
\* The call ends when DoJSON returns.
CHECK_DEADLOCK FALSE
