\* A Retry-After so large that its product with a second wraps around.
CONSTANTS
    Half = 64
    Second = 4
    RawPolicies <- MCRawPolicies
    Answers <- MCOverflowAnswers
SPECIFICATION Spec
INVARIANTS
    RetryAfterHonored
CHECK_DEADLOCK FALSE
