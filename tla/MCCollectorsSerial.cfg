\* One poller, as runPollSteps drives the collectors; the two endpoints that
\* share HistoryMetrics, so that one Collect call copies both under one lock.
CONSTANTS
    Endpoints = {"rewards", "payouts"}
    History = {"rewards", "payouts"}
    Pollers = {p1}
    Scrapers = {s1}
    ErrorCategories = {"transport"}
    NoSnapshot = NoSnapshot
    NoCopy = NoCopy
    MaxTime = 2
    MaxPolls = 2
SPECIFICATION Spec
INVARIANTS
    TypeOK
    SampleAtMostOneBehind
PROPERTIES
    DataNeverRegresses
    ImplementsLastGoodCache
CHECK_DEADLOCK FALSE
