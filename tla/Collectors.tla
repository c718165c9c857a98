----------------------------- MODULE Collectors -----------------------------
(***************************************************************************)
(* The cache-backed collectors of internal/collector: AccountMetrics,      *)
(* PoolMetrics, WorkerMetrics and HistoryMetrics.  Each polls an endpoint, *)
(* keeps the last snapshot it accepted and a counter per request result,   *)
(* and copies both under its lock when Prometheus scrapes.                 *)
(*                                                                         *)
(* A poll counts its success in one critical section and publishes its     *)
(* snapshot in a second one; a Collect call copies under the read lock and *)
(* computes the age of the data after releasing it.  Every critical        *)
(* section is one action: no code blocks, or takes a second lock, inside.  *)
(*                                                                         *)
(* Polls may overlap (Pollers): main.go runs them all from one goroutine,  *)
(* TestAllCollectorsConcurrentPollAndGather from eight.  What is fetched   *)
(* is abstracted to the time at which the API answered; lastSuccess is the *)
(* collectedAt of lastGood.                                                *)
(***************************************************************************)
EXTENDS Integers, FiniteSets, Functions

CONSTANTS
    Endpoints,          \* endpoint label values: "profile", "rewards", ...
    History,            \* the endpoints HistoryMetrics keeps behind one lock
    Pollers,            \* goroutines that call a Poll method
    Scrapers,           \* goroutines in which Registry.Gather calls Collect
    ErrorCategories,    \* results categorizeError gives a failed request
    NoSnapshot,         \* the nil snapshot pointer
    NoCopy,             \* a Collect call holds no copy
    MaxTime,            \* bound on the clock
    MaxPolls            \* bound on the polls of one endpoint

ASSUME HistoryAssumption == History \subseteq Endpoints
ASSUME ErrorAssumption == "success" \notin ErrorCategories /\ "none" \notin ErrorCategories
ASSUME FiniteAssumption == IsFiniteSet(Pollers) /\ IsFiniteSet(ErrorCategories)
ASSUME BoundAssumption == MaxTime \in Nat /\ MaxPolls \in Nat

\* Why a collector refuses an answer it received.
Rejections(e) == IF e = "workers" THEN {"invalid_data", "limit_exceeded"} ELSE {"invalid_data"}

\* The values of the result label.
Results == ErrorCategories \cup {"invalid_data", "limit_exceeded", "success"}

\* A snapshot: when the API gave the answer it is built from, when it was
\* collected, and which of the endpoint's successful polls it belongs to.
Snapshot == [asOf : Nat, collectedAt : Nat, nth : Nat \ {0}]

\* What Collect copies of an endpoint, and what it emits for it.  copiedAt is the time
\* of the copy, a history variable.
Copied == [counts : [Results -> Nat], snapshot : Snapshot \cup {NoSnapshot}, copiedAt : Nat]
Sample == [counts : [Results -> Nat], snapshot : Snapshot \cup {NoSnapshot}, copiedAt : Nat,
           age : Nat]

ASSUME NilAssumption ==
    NoSnapshot \notin Snapshot /\ NoCopy \notin Copied \cup Snapshot \cup {NoSnapshot}

VARIABLES
    now,        \* clock.Now()
    lastGood,   \* lastGood, rewards, payouts: the cached snapshot
    lastError,  \* lastError, "none" for "" (not kept by HistoryMetrics)
    requests,   \* requests: a counter per endpoint and result
    started,    \* polls begun, for the bound and the accounting invariant
    pc,         \* where each poller is in its Poll method
    target,     \* the endpoint it polls
    reply,      \* when the API gave the answer the poller holds
    draft,      \* the snapshot it has built and not published yet
    view,       \* what each Collect call has copied and not emitted yet
    sample      \* what each scraper last received for each endpoint

cacheVars == <<lastGood, lastError, requests>>
pollVars == <<started, pc, target, reply, draft>>
scrapeVars == <<view, sample>>
vars == <<now, lastGood, lastError, requests, started, pc, target, reply, draft, view, sample>>

\* The endpoints of the collector that serves e: what its lock covers.
Group(e) == IF e \in History THEN History ELSE {e}
Groups == {Group(e) : e \in Endpoints}

NoSample == [counts |-> [r \in Results |-> 0], snapshot |-> NoSnapshot, copiedAt |-> 0, age |-> 0]

Init ==
    /\ now = 0
    /\ lastGood = [e \in Endpoints |-> NoSnapshot]
    /\ lastError = [e \in Endpoints |-> "none"]
    /\ requests = [e \in Endpoints |-> [r \in Results |-> 0]]
    /\ started = [e \in Endpoints |-> 0]
    /\ pc = [p \in Pollers |-> "idle"]
    /\ target \in [Pollers -> Endpoints]
    /\ reply = [p \in Pollers |-> 0]
    /\ draft = [p \in Pollers |-> NoSnapshot]
    /\ view = [s \in Scrapers |-> [e \in Endpoints |-> NoCopy]]
    /\ sample = [s \in Scrapers |-> [e \in Endpoints |-> NoSample]]

\* The clock is monotonic: collectedAt keeps Go's monotonic reading.
Tick ==
    /\ now < MaxTime
    /\ now' = now + 1
    /\ UNCHANGED <<cacheVars, pollVars, scrapeVars>>

-----------------------------------------------------------------------------
(* Poll                                                                    *)

\* Mutation of RecordRequest: a success is not counted.
SuccessNotCounted(e, r) ==
    /\ requests' = IF r = "success" THEN requests ELSE [requests EXCEPT ![e][r] = @ + 1]
    /\ lastError' = IF e \in History THEN lastError ELSE [lastError EXCEPT ![e] = r]

\* Mutation of RecordRequest: only the latest result is kept.
OtherCountsReset(e, r) ==
    /\ requests' = [requests EXCEPT ![e] = [x \in Results |-> IF x = r THEN @[r] + 1 ELSE 0]]
    /\ lastError' = IF e \in History THEN lastError ELSE [lastError EXCEPT ![e] = r]

\* recordRequest, recordHistoryRequest: one critical section.
RecordRequest(e, r) ==
    /\ requests' = [requests EXCEPT ![e][r] = @ + 1]
    /\ lastError' = IF e \in History THEN lastError ELSE [lastError EXCEPT ![e] = r]

BeginPoll(p, e) ==
    /\ pc[p] = "idle"
    /\ started[e] < MaxPolls
    /\ pc' = [pc EXCEPT ![p] = "fetch"]
    /\ target' = [target EXCEPT ![p] = e]
    /\ started' = [started EXCEPT ![e] = @ + 1]
    /\ UNCHANGED <<now, cacheVars, reply, draft, scrapeVars>>

\* Mutation of FetchFails: a failed poll drops the data.
FailureClearsCache(p, c) ==
    /\ pc[p] = "fetch"
    /\ RecordRequest(target[p], c)
    /\ lastGood' = [lastGood EXCEPT ![target[p]] = NoSnapshot]
    /\ pc' = [pc EXCEPT ![p] = "idle"]
    /\ UNCHANGED <<now, started, target, reply, draft, scrapeVars>>

\* The client returns an error: it is counted and the cache is left alone.
FetchFails(p, c) ==
    /\ pc[p] = "fetch"
    /\ RecordRequest(target[p], c)
    /\ pc' = [pc EXCEPT ![p] = "idle"]
    /\ UNCHANGED <<now, lastGood, started, target, reply, draft, scrapeVars>>

\* The API answers; the answer is decoded some time later.
FetchReturns(p) ==
    /\ pc[p] = "fetch"
    /\ reply' = [reply EXCEPT ![p] = now]
    /\ pc' = [pc EXCEPT ![p] = "received"]
    /\ UNCHANGED <<now, cacheVars, started, target, draft, scrapeVars>>

\* Mutation of RejectSnapshot: a refused answer is not counted.
RejectionNotCounted(p, c) ==
    /\ pc[p] = "received"
    /\ c \in Rejections(target[p])
    /\ reply' = [reply EXCEPT ![p] = 0]
    /\ pc' = [pc EXCEPT ![p] = "idle"]
    /\ UNCHANGED <<now, cacheVars, started, target, draft, scrapeVars>>

\* build...Snapshot refuses the answer: all of it, and only its count changes.
RejectSnapshot(p, c) ==
    /\ pc[p] = "received"
    /\ c \in Rejections(target[p])
    /\ RecordRequest(target[p], c)
    /\ reply' = [reply EXCEPT ![p] = 0]
    /\ pc' = [pc EXCEPT ![p] = "idle"]
    /\ UNCHANGED <<now, lastGood, started, target, draft, scrapeVars>>

\* build...Snapshot accepts it and stamps it with clock.Now().
BuildSnapshot(p) ==
    /\ pc[p] = "received"
    /\ draft' = [draft EXCEPT ![p] = [asOf |-> reply[p], collectedAt |-> now, nth |-> 1]]
    /\ reply' = [reply EXCEPT ![p] = 0]
    /\ pc' = [pc EXCEPT ![p] = "built"]
    /\ UNCHANGED <<now, cacheVars, started, target, scrapeVars>>

\* First critical section of a successful poll.
RecordSuccess(p) ==
    /\ pc[p] = "built"
    /\ RecordRequest(target[p], "success")
    /\ draft' = [draft EXCEPT ![p].nth = requests[target[p]]["success"] + 1]
    /\ pc' = [pc EXCEPT ![p] = "recorded"]
    /\ UNCHANGED <<now, lastGood, started, target, reply, scrapeVars>>

\* Mutation of Publish: only an empty cache is filled.
PublishOnce(p) ==
    /\ pc[p] = "recorded"
    /\ LET e == target[p] IN
       /\ lastGood' = IF lastGood[e] = NoSnapshot THEN [lastGood EXCEPT ![e] = draft[p]] ELSE lastGood
       /\ lastError' = IF e \in History THEN lastError ELSE [lastError EXCEPT ![e] = "none"]
    /\ draft' = [draft EXCEPT ![p] = NoSnapshot]
    /\ pc' = [pc EXCEPT ![p] = "idle"]
    /\ UNCHANGED <<now, requests, started, target, reply, scrapeVars>>

\* Second critical section of a successful poll.
Publish(p) ==
    /\ pc[p] = "recorded"
    /\ LET e == target[p] IN
       /\ lastGood' = [lastGood EXCEPT ![e] = draft[p]]
       /\ lastError' = IF e \in History THEN lastError ELSE [lastError EXCEPT ![e] = "none"]
    /\ draft' = [draft EXCEPT ![p] = NoSnapshot]
    /\ pc' = [pc EXCEPT ![p] = "idle"]
    /\ UNCHANGED <<now, requests, started, target, reply, scrapeVars>>

PollStep(p) ==
    \/ \E c \in ErrorCategories : FetchFails(p, c)
    \/ FetchReturns(p)
    \/ \E c \in {"invalid_data", "limit_exceeded"} : RejectSnapshot(p, c)
    \/ BuildSnapshot(p)
    \/ RecordSuccess(p)
    \/ Publish(p)

-----------------------------------------------------------------------------
(* Collect                                                                 *)

\* Collect copies the counters and the snapshots of its collector under RLock.
CopyUnderLock(s, g) ==
    /\ \A e \in Endpoints : view[s][e] = NoCopy
    /\ view' = [view EXCEPT ![s] = [e \in Endpoints |->
                  IF e \in g THEN [counts |-> requests[e], snapshot |-> lastGood[e], copiedAt |-> now]
                  ELSE NoCopy]]
    /\ UNCHANGED <<now, cacheVars, pollVars, sample>>

\* Mutation of Age: the operands swapped.
NegativeAge(snapshot) == IF snapshot = NoSnapshot THEN 0 ELSE snapshot.collectedAt - now

\* Seconds since the snapshot a reader holds was collected (DataAge, Collect).
Age(snapshot) == IF snapshot = NoSnapshot THEN 0 ELSE now - snapshot.collectedAt

\* Mutation of Emit: the age is DataAge(), that of the snapshot cached by now.
EmitAgeOfCache(s, e) ==
    /\ view[s][e] # NoCopy
    /\ sample' = [sample EXCEPT ![s][e] = [counts |-> view[s][e].counts,
                                           snapshot |-> view[s][e].snapshot,
                                           copiedAt |-> view[s][e].copiedAt,
                                           age |-> Age(lastGood[e])]]
    /\ view' = [view EXCEPT ![s][e] = NoCopy]
    /\ UNCHANGED <<now, cacheVars, pollVars>>

\* Mutation of Emit: the cache is read again after RUnlock.
EmitFromCache(s, e) ==
    /\ view[s][e] # NoCopy
    /\ sample' = [sample EXCEPT ![s][e] = [counts |-> view[s][e].counts,
                                           snapshot |-> lastGood[e],
                                           copiedAt |-> view[s][e].copiedAt,
                                           age |-> Age(lastGood[e])]]
    /\ view' = [view EXCEPT ![s][e] = NoCopy]
    /\ UNCHANGED <<now, cacheVars, pollVars>>

\* After RUnlock it emits what it copied, with the age at the time of emission.
\* HistoryMetrics emits its two endpoints one after the other.
Emit(s, e) ==
    /\ view[s][e] # NoCopy
    /\ sample' = [sample EXCEPT ![s][e] = [counts |-> view[s][e].counts,
                                           snapshot |-> view[s][e].snapshot,
                                           copiedAt |-> view[s][e].copiedAt,
                                           age |-> Age(view[s][e].snapshot)]]
    /\ view' = [view EXCEPT ![s][e] = NoCopy]
    /\ UNCHANGED <<now, cacheVars, pollVars>>

Next ==
    \/ Tick
    \/ \E p \in Pollers, e \in Endpoints : BeginPoll(p, e)
    \/ \E p \in Pollers : PollStep(p)
    \/ \E s \in Scrapers, g \in Groups : CopyUnderLock(s, g)
    \/ \E s \in Scrapers, e \in Endpoints : Emit(s, e)

\* A Poll that has begun runs on: the request is bounded by the client's
\* timeout and the rest of the method never waits for anything but the lock.
Fairness == \A p \in Pollers : WF_vars(PollStep(p))

Spec == Init /\ [][Next]_vars /\ Fairness
-----------------------------------------------------------------------------
(* Properties of any number of pollers                                     *)

TypeOK ==
    /\ now \in Nat
    /\ lastGood \in [Endpoints -> Snapshot \cup {NoSnapshot}]
    /\ lastError \in [Endpoints -> Results \cup {"none"}]
    /\ requests \in [Endpoints -> [Results -> Nat]]
    /\ started \in [Endpoints -> Nat]
    /\ pc \in [Pollers -> {"idle", "fetch", "received", "built", "recorded"}]
    /\ target \in [Pollers -> Endpoints]
    /\ reply \in [Pollers -> Nat]
    /\ draft \in [Pollers -> Snapshot \cup {NoSnapshot}]
    /\ view \in [Scrapers -> [Endpoints -> Copied \cup {NoCopy}]]
    /\ sample \in [Scrapers -> [Endpoints -> Sample]]

\* The number of successful polls a cached snapshot takes part in.
Accepted(snapshot) == IF snapshot = NoSnapshot THEN 0 ELSE snapshot.nth

\* Polls that have begun and not been counted, and those that have counted a
\* success and not published it.
Uncounted(e) == {p \in Pollers : target[p] = e /\ pc[p] \in {"fetch", "received", "built"}}
Unpublished(e) == {p \in Pollers : target[p] = e /\ pc[p] = "recorded"}

\* Every poll is counted under exactly one result, whatever overlaps: the
\* counters of an endpoint add up to the polls begun less those still running
\* (braiins_pool_api_requests_total loses and repeats nothing).
EveryPollCountedOnce ==
    \A e \in Endpoints :
        started[e] = SumFunction(requests[e]) + Cardinality(Uncounted(e))

\* Data are visible only after the success they come from was counted, in the
\* cache, in the copy a Collect call holds and in what it emitted: no scrape
\* shows data of a poll that its own success counter does not include.
CountedBeforeShown ==
    /\ \A e \in Endpoints : Accepted(lastGood[e]) <= requests[e]["success"]
    /\ \A s \in Scrapers, e \in Endpoints :
          view[s][e] # NoCopy =>
              Accepted(view[s][e].snapshot) <= view[s][e].counts["success"]
    /\ \A s \in Scrapers, e \in Endpoints :
          Accepted(sample[s][e].snapshot) <= sample[s][e].counts["success"]

\* The age a scrape emits is that of the very data it is emitted with, although it is
\* computed after the lock is released and a newer snapshot may be in place by then:
\* counted from the collection of these data (braiins_pool_api_last_success_timestamp)
\* it leads to a moment between the copy and the scrape's end.  Data are never made to
\* look newer than they were when the scrape began, nor older than the API's answer.
AgeMatchesData ==
    \A s \in Scrapers, e \in Endpoints :
        LET x == sample[s][e] IN
        x.snapshot # NoSnapshot =>
            /\ x.copiedAt <= x.snapshot.collectedAt + x.age
            /\ x.snapshot.collectedAt + x.age <= now
            /\ x.snapshot.asOf + x.age <= now

\* Between two scrapes by one Prometheus server no counter goes down.
CountersNeverDecrease ==
    [][\A s \in Scrapers, e \in Endpoints, r \in Results :
          sample'[s][e].counts[r] >= sample[s][e].counts[r]]_vars

\* Every success that is counted, not the first of an endpoint only, has its data or
\* newer ones in the cache at some time.  They need not stay: of two polls that overlap
\* the older may publish last.
CountedThenPublished ==
    \A e \in Endpoints, n \in 1..MaxPolls :
        <>(requests[e]["success"] >= n) => <>(Accepted(lastGood[e]) >= n)

-----------------------------------------------------------------------------
(* Properties of one poller: the collectors as main.go drives them         *)

OnePollAtATime == \A p, q \in Pollers : p = q

\* What a scrape shows is the data of the last success it counts, or of the one
\* before it when the last is counted and not published yet.
SampleAtMostOneBehind ==
    \A s \in Scrapers, e \in Endpoints :
        sample[s][e].counts["success"] - Accepted(sample[s][e].snapshot) \in {0, 1}

\* From scrape to scrape the data of an endpoint never disappear, whatever
\* fails in between, and never go back to an older answer of the API.
DataNeverRegresses ==
    [][\A s \in Scrapers, e \in Endpoints :
          LET old == sample[s][e].snapshot
              new == sample'[s][e].snapshot IN
          old # NoSnapshot =>
              /\ new # NoSnapshot
              /\ new.asOf >= old.asOf
              /\ new.collectedAt >= old.collectedAt
              /\ new.nth >= old.nth]_vars

\* The collectors implement the last-good cache: the registers are the cached
\* snapshots; requests, errors and the steps of a poll are internal.
Cache == INSTANCE LastGoodCache WITH
    register <- lastGood,
    held <- [s \in Scrapers |-> [e \in Endpoints |->
               IF view[s][e] = NoCopy THEN NoCopy ELSE view[s][e].snapshot]],
    shown <- [s \in Scrapers |-> [e \in Endpoints |-> sample[s][e].snapshot]]

ImplementsLastGoodCache == Cache!Spec
=============================================================================
