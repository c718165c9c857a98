\* Polls that overlap, as in TestAllCollectorsConcurrentPollAndGather; the
\* endpoint with the most ways to refuse an answer.
CONSTANTS
    Endpoints = {"workers"}
    History = {}
    Pollers = {p1, p2}
    Scrapers = {s1}
    ErrorCategories = {"transport"}
    NoSnapshot = NoSnapshot
    NoCopy = NoCopy
    MaxTime = 1
    MaxPolls = 3
SPECIFICATION Spec
INVARIANTS
    EveryPollCountedOnce
    CountedBeforeShown
    AgeMatchesData
PROPERTIES
    CountersNeverDecrease
    CountedThenPublished
CHECK_DEADLOCK FALSE
