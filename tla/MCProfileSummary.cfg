\* Answers of both collectors, in every order.
CONSTANTS
    AccountAnswers <- MCAccountAnswers
    PoolAnswers <- MCPoolAnswers
SPECIFICATION Spec
INVARIANTS
    ShownAsSent
    RefusedForGoodReason
