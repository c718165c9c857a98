\* A redirect among the answers.
CONSTANTS
    Half = 64
    Second = 4
    RawPolicies <- MCRawPolicies
    Answers <- MCAnswers
SPECIFICATION Spec
INVARIANTS
    RetriesOnlyTransient
CHECK_DEADLOCK FALSE
