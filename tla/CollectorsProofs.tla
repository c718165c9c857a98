-------------------------- MODULE CollectorsProofs --------------------------
(***************************************************************************)
(* Proofs about Collectors for any endpoints, pollers, scrapers and bounds.*)
(***************************************************************************)
EXTENDS Collectors, SumTheorems

\* A poll that has built a snapshot holds it until it publishes it.
DraftHeld == \A p \in Pollers : pc[p] \in {"built", "recorded"} => draft[p] # NoSnapshot

\* Nothing was answered or collected in the future, or collected before it was
\* answered.
Past(snapshot) ==
    snapshot # NoSnapshot => snapshot.asOf <= snapshot.collectedAt /\ snapshot.collectedAt <= now

TimesOrdered ==
    /\ \A e \in Endpoints : Past(lastGood[e])
    /\ \A p \in Pollers : reply[p] <= now /\ Past(draft[p])
    /\ \A s \in Scrapers, e \in Endpoints :
          view[s][e] # NoCopy => Past(view[s][e].snapshot) /\ view[s][e].copiedAt <= now

TypeInv == TypeOK /\ DraftHeld /\ TimesOrdered

LEMMA TypeInvInit == Init => TypeInv /\ AgeMatchesData
<1>1. NoSample \in Sample
  BY DEF NoSample, Sample
<1>2. [r \in Results |-> 0] \in [Results -> Nat] /\ "none" \in Results \cup {"none"}
  OBVIOUS
<1> QED
  BY <1>1, <1>2 DEF Init, TypeInv, TypeOK, DraftHeld, TimesOrdered, Past, AgeMatchesData, NoSample

\* Counting a request keeps the counters and lastError well typed.
LEMMA RecordRequestType ==
    ASSUME TypeOK, NEW e \in Endpoints, NEW r \in Results, RecordRequest(e, r)
    PROVE  /\ requests' \in [Endpoints -> [Results -> Nat]]
           /\ lastError' \in [Endpoints -> Results \cup {"none"}]
<1>1. requests[e] \in [Results -> Nat]
  BY DEF TypeOK
<1>2. [requests[e] EXCEPT ![r] = @ + 1] \in [Results -> Nat]
  BY <1>1
<1>3. requests' \in [Endpoints -> [Results -> Nat]]
  BY <1>2 DEF RecordRequest, TypeOK
<1>4. lastError' \in [Endpoints -> Results \cup {"none"}]
  BY DEF RecordRequest, TypeOK
<1> QED BY <1>3, <1>4

\* Every step keeps the types, and the snapshot a poll holds.
LEMMA TypeNext == TypeInv /\ [Next]_vars => TypeOK' /\ DraftHeld'
<1> SUFFICES ASSUME TypeInv, [Next]_vars PROVE TypeOK' /\ DraftHeld'
  OBVIOUS
<1> USE DEF TypeInv, cacheVars, pollVars, scrapeVars
<1>1. CASE Tick
  <2>1. now' \in Nat
    BY <1>1 DEF Tick, TypeOK
  <2>2. /\ UNCHANGED <<lastGood, lastError, requests, started, pc, target, reply, draft>>
        /\ UNCHANGED <<view, sample>>
    BY <1>1 DEF Tick
  <2> QED BY <2>1, <2>2 DEF TypeOK, DraftHeld
<1>2. ASSUME NEW p \in Pollers, NEW e \in Endpoints, BeginPoll(p, e) PROVE TypeOK' /\ DraftHeld'
  <2>1. started' \in [Endpoints -> Nat]
    BY <1>2 DEF BeginPoll, TypeOK
  <2> QED BY <1>2, <2>1 DEF BeginPoll, TypeOK, DraftHeld
<1>3. ASSUME NEW p \in Pollers, NEW c \in ErrorCategories, FetchFails(p, c) PROVE TypeOK' /\ DraftHeld'
  <2>1. target[p] \in Endpoints /\ c \in Results
    BY DEF TypeOK, Results
  <2>2. /\ requests' \in [Endpoints -> [Results -> Nat]]
        /\ lastError' \in [Endpoints -> Results \cup {"none"}]
    BY <1>3, <2>1, RecordRequestType DEF FetchFails
  <2> QED BY <1>3, <2>2 DEF FetchFails, TypeOK, DraftHeld
<1>4. ASSUME NEW p \in Pollers, FetchReturns(p) PROVE TypeOK' /\ DraftHeld'
  BY <1>4 DEF FetchReturns, TypeOK, DraftHeld
<1>5. ASSUME NEW p \in Pollers, NEW c \in {"invalid_data", "limit_exceeded"}, RejectSnapshot(p, c)
      PROVE TypeOK' /\ DraftHeld'
  <2>1. target[p] \in Endpoints /\ c \in Results
    BY DEF TypeOK, Results
  <2>2. /\ requests' \in [Endpoints -> [Results -> Nat]]
        /\ lastError' \in [Endpoints -> Results \cup {"none"}]
    BY <1>5, <2>1, RecordRequestType DEF RejectSnapshot
  <2> QED BY <1>5, <2>2 DEF RejectSnapshot, TypeOK, DraftHeld
<1>6. ASSUME NEW p \in Pollers, BuildSnapshot(p) PROVE TypeOK' /\ DraftHeld'
  <2>1. [asOf |-> reply[p], collectedAt |-> now, nth |-> 1] \in Snapshot
    BY DEF TypeOK, Snapshot
  <2> QED BY <1>6, <2>1, NilAssumption DEF BuildSnapshot, TypeOK, DraftHeld
<1>7. ASSUME NEW p \in Pollers, RecordSuccess(p) PROVE TypeOK' /\ DraftHeld'
  <2>1. target[p] \in Endpoints /\ "success" \in Results
    BY DEF TypeOK, Results
  <2>2. /\ requests' \in [Endpoints -> [Results -> Nat]]
        /\ lastError' \in [Endpoints -> Results \cup {"none"}]
    BY <1>7, <2>1, RecordRequestType DEF RecordSuccess
  <2>3. requests[target[p]]["success"] \in Nat
    BY <2>1 DEF TypeOK
  <2>4. draft[p] \in Snapshot
    BY <1>7 DEF RecordSuccess, TypeOK, DraftHeld
  <2>5. [draft[p] EXCEPT !.nth = requests[target[p]]["success"] + 1] \in Snapshot
    BY <2>3, <2>4 DEF Snapshot
  <2>6. draft' = [draft EXCEPT ![p] = [draft[p] EXCEPT !.nth = requests[target[p]]["success"] + 1]]
    BY <1>7 DEF RecordSuccess
  <2>7. draft' \in [Pollers -> Snapshot \cup {NoSnapshot}]
    BY <2>5, <2>6 DEF TypeOK
  <2>8. UNCHANGED <<now, lastGood, started, target, reply, view, sample>>
    BY <1>7 DEF RecordSuccess
  <2>9. pc' = [pc EXCEPT ![p] = "recorded"]
    BY <1>7 DEF RecordSuccess
  <2>10. TypeOK'
    BY <2>2, <2>7, <2>8, <2>9 DEF TypeOK
  <2>11. DraftHeld'
    BY <2>5, <2>6, <2>9, NilAssumption DEF TypeOK, DraftHeld
  <2> QED BY <2>10, <2>11
<1>8. ASSUME NEW p \in Pollers, Publish(p) PROVE TypeOK' /\ DraftHeld'
  <2>1. target[p] \in Endpoints /\ draft[p] \in Snapshot
    BY <1>8 DEF Publish, TypeOK, DraftHeld
  <2>2. lastGood' \in [Endpoints -> Snapshot \cup {NoSnapshot}]
    BY <1>8, <2>1 DEF Publish, TypeOK
  <2>3. lastError' \in [Endpoints -> Results \cup {"none"}]
    BY <1>8, <2>1 DEF Publish, TypeOK
  <2> QED BY <1>8, <2>2, <2>3 DEF Publish, TypeOK, DraftHeld
<1>9. ASSUME NEW s \in Scrapers, NEW g \in Groups, CopyUnderLock(s, g) PROVE TypeOK' /\ DraftHeld'
  <2>1. \A e \in Endpoints :
          [counts |-> requests[e], snapshot |-> lastGood[e], copiedAt |-> now] \in Copied
    BY DEF TypeOK, Copied
  <2> QED BY <1>9, <2>1 DEF CopyUnderLock, TypeOK, DraftHeld
<1>10. ASSUME NEW s \in Scrapers, NEW e \in Endpoints, Emit(s, e) PROVE TypeOK' /\ DraftHeld'
  <2>1. view[s][e] \in Copied
    BY <1>10 DEF Emit, TypeOK
  <2>2. Age(view[s][e].snapshot) \in Nat
    BY <1>10, <2>1 DEF Emit, Age, Copied, TypeOK, Snapshot, TimesOrdered, Past
  <2> QED BY <1>10, <2>1, <2>2 DEF Emit, TypeOK, DraftHeld, Sample, Copied
<1>11. CASE UNCHANGED vars
  BY <1>11 DEF vars, TypeOK, DraftHeld
<1> QED
  BY <1>1, <1>2, <1>3, <1>4, <1>5, <1>6, <1>7, <1>8, <1>9, <1>10, <1>11 DEF Next, PollStep

\* Every step keeps the times in order; only Emit changes what AgeMatchesData is
\* about, and the clock only goes up.
LEMMA TimesNext ==
    TypeInv /\ AgeMatchesData /\ [Next]_vars => TimesOrdered' /\ AgeMatchesData'
<1> SUFFICES ASSUME TypeInv, AgeMatchesData, [Next]_vars PROVE TimesOrdered' /\ AgeMatchesData'
  OBVIOUS
<1> USE DEF TypeInv, cacheVars, pollVars, scrapeVars
<1>1. CASE Tick
  <2>1. now' = now + 1 /\ now \in Nat
    BY <1>1 DEF Tick, TypeOK
  <2>2. UNCHANGED <<lastGood, reply, draft, view, sample>>
    BY <1>1 DEF Tick
  <2>3. TimesOrdered'
    <3>1. ASSUME NEW x \in Snapshot \cup {NoSnapshot}, Past(x) PROVE Past(x)'
      BY <2>1, <3>1 DEF Past, Snapshot
    <3>2. \A e \in Endpoints : lastGood[e] \in Snapshot \cup {NoSnapshot}
      BY DEF TypeOK
    <3>3. \A p \in Pollers : draft[p] \in Snapshot \cup {NoSnapshot} /\ reply[p] \in Nat
      BY DEF TypeOK
    <3>4. \A s \in Scrapers, e \in Endpoints :
             view[s][e] # NoCopy => /\ view[s][e].snapshot \in Snapshot \cup {NoSnapshot}
                                    /\ view[s][e].copiedAt \in Nat
      BY DEF TypeOK, Copied
    <3> QED BY <2>1, <2>2, <3>1, <3>2, <3>3, <3>4 DEF TimesOrdered, Past
  <2>4. AgeMatchesData'
    BY <2>1, <2>2 DEF AgeMatchesData, TypeOK, Sample, Snapshot
  <2> QED BY <2>3, <2>4
<1>2. ASSUME NEW p \in Pollers, NEW e \in Endpoints, BeginPoll(p, e)
      PROVE TimesOrdered' /\ AgeMatchesData'
  BY <1>2 DEF BeginPoll, TimesOrdered, Past, AgeMatchesData
<1>3. ASSUME NEW p \in Pollers, NEW c \in ErrorCategories, FetchFails(p, c)
      PROVE TimesOrdered' /\ AgeMatchesData'
  BY <1>3 DEF FetchFails, TimesOrdered, Past, AgeMatchesData
<1>4. ASSUME NEW p \in Pollers, FetchReturns(p) PROVE TimesOrdered' /\ AgeMatchesData'
  BY <1>4 DEF FetchReturns, TimesOrdered, Past, AgeMatchesData, TypeOK
<1>5. ASSUME NEW p \in Pollers, NEW c \in {"invalid_data", "limit_exceeded"}, RejectSnapshot(p, c)
      PROVE TimesOrdered' /\ AgeMatchesData'
  BY <1>5 DEF RejectSnapshot, TimesOrdered, Past, AgeMatchesData, TypeOK
<1>6. ASSUME NEW p \in Pollers, BuildSnapshot(p) PROVE TimesOrdered' /\ AgeMatchesData'
  BY <1>6 DEF BuildSnapshot, TimesOrdered, Past, AgeMatchesData, TypeOK
<1>7. ASSUME NEW p \in Pollers, RecordSuccess(p) PROVE TimesOrdered' /\ AgeMatchesData'
  <2>1. draft[p] \in Snapshot
    BY <1>7 DEF RecordSuccess, TypeOK, DraftHeld
  <2>2. draft' = [draft EXCEPT ![p] = [draft[p] EXCEPT !.nth = requests[target[p]]["success"] + 1]]
    BY <1>7 DEF RecordSuccess
  <2>3. /\ draft'[p].asOf = draft[p].asOf
        /\ draft'[p].collectedAt = draft[p].collectedAt
    BY <2>1, <2>2 DEF Snapshot, TypeOK
  <2>4. Past(draft[p]) /\ draft[p] # NoSnapshot
    BY <2>1, NilAssumption DEF TimesOrdered
  <2>5. \A q \in Pollers : q # p => draft'[q] = draft[q]
    BY <2>2 DEF TypeOK
  <2>6. UNCHANGED <<now, lastGood, reply, view, sample>>
    BY <1>7 DEF RecordSuccess
  <2> QED BY <2>3, <2>4, <2>5, <2>6 DEF TimesOrdered, Past, AgeMatchesData
<1>8. ASSUME NEW p \in Pollers, Publish(p) PROVE TimesOrdered' /\ AgeMatchesData'
  BY <1>8 DEF Publish, TimesOrdered, Past, AgeMatchesData, TypeOK
<1>9. ASSUME NEW s \in Scrapers, NEW g \in Groups, CopyUnderLock(s, g)
      PROVE TimesOrdered' /\ AgeMatchesData'
  BY <1>9 DEF CopyUnderLock, TimesOrdered, Past, AgeMatchesData, TypeOK
<1>10. ASSUME NEW s \in Scrapers, NEW e \in Endpoints, Emit(s, e)
       PROVE TimesOrdered' /\ AgeMatchesData'
  <2>1. view[s][e] \in Copied /\ Past(view[s][e].snapshot) /\ view[s][e].copiedAt <= now
    BY <1>10 DEF Emit, TypeOK, TimesOrdered
  <2>2. TimesOrdered'
    BY <1>10 DEF Emit, TimesOrdered, Past, TypeOK
  <2>3. /\ sample'[s][e].snapshot = view[s][e].snapshot
        /\ sample'[s][e].copiedAt = view[s][e].copiedAt
        /\ sample'[s][e].age = Age(view[s][e].snapshot)
    BY <1>10 DEF Emit, TypeOK
  <2>4. \A t \in Scrapers, x \in Endpoints :
           <<t, x>> # <<s, e>> => sample'[t][x] = sample[t][x]
    BY <1>10 DEF Emit, TypeOK
  <2>5. now' = now /\ now \in Nat
    BY <1>10 DEF Emit, TypeOK
  <2>6. view[s][e].snapshot # NoSnapshot =>
           /\ view[s][e].copiedAt <= view[s][e].snapshot.collectedAt + Age(view[s][e].snapshot)
           /\ view[s][e].snapshot.collectedAt + Age(view[s][e].snapshot) <= now
           /\ view[s][e].snapshot.asOf + Age(view[s][e].snapshot) <= now
    BY <2>1, <2>5 DEF Past, Age, Copied, Snapshot
  <2> QED BY <2>2, <2>3, <2>4, <2>5, <2>6 DEF AgeMatchesData
<1>11. CASE UNCHANGED vars
  BY <1>11 DEF vars, TimesOrdered, Past, AgeMatchesData
<1> QED
  BY <1>1, <1>2, <1>3, <1>4, <1>5, <1>6, <1>7, <1>8, <1>9, <1>10, <1>11 DEF Next, PollStep

\* The state is always well typed, whatever the endpoints, pollers and scrapers.
THEOREM TypeCorrect == Spec => []TypeOK
<1>1. TypeInv /\ AgeMatchesData /\ [Next]_vars => (TypeInv /\ AgeMatchesData)'
  BY TypeNext, TimesNext DEF TypeInv
<1>2. TypeInv /\ AgeMatchesData => TypeOK
  BY DEF TypeInv
<1> QED
  BY TypeInvInit, <1>1, <1>2, PTL DEF Spec

\* What braiins_pool_data_age_seconds tells belongs to the data it is emitted with: added
\* to their collection it leads into the scrape, whatever is published meanwhile.
THEOREM AgesMatchData == Spec => []AgeMatchesData
<1>1. TypeInv /\ AgeMatchesData /\ [Next]_vars => (TypeInv /\ AgeMatchesData)'
  BY TypeNext, TimesNext DEF TypeInv
<1> QED
  BY TypeInvInit, <1>1, PTL DEF Spec

-----------------------------------------------------------------------------
(* Counters                                                                *)

\* Counting a request raises one counter and lowers none.
LEMMA RecordRequestCounts ==
    ASSUME TypeOK, NEW e \in Endpoints, NEW r \in Results, RecordRequest(e, r)
    PROVE  /\ requests'[e][r] = requests[e][r] + 1
           /\ \A f \in Endpoints, x \in Results : requests'[f][x] >= requests[f][x]
<1>1. requests \in [Endpoints -> [Results -> Nat]]
  BY DEF TypeOK
<1>2. requests' = [requests EXCEPT ![e] = [requests[e] EXCEPT ![r] = requests[e][r] + 1]]
  BY DEF RecordRequest
<1>3. requests'[e] = [requests[e] EXCEPT ![r] = requests[e][r] + 1]
  BY <1>1, <1>2
<1>4. \A x \in Results : requests[e][x] \in Nat
  BY <1>1
<1>5. requests[e] \in [Results -> Nat]
  BY <1>1
<1>6. requests'[e][r] = requests[e][r] + 1
  BY <1>3, <1>5
<1>7. \A x \in Results : requests'[e][x] >= requests[e][x]
  BY <1>3, <1>4, <1>5
<1>8. \A f \in Endpoints : f # e => requests'[f] = requests[f]
  BY <1>1, <1>2
<1>9. \A f \in Endpoints, x \in Results : requests[f][x] \in Nat
  BY <1>1
<1> QED BY <1>6, <1>7, <1>8, <1>9

\* No step lowers a counter.
LEMMA RequestsGrow ==
    ASSUME TypeOK, [Next]_vars
    PROVE  \A e \in Endpoints, r \in Results : requests'[e][r] >= requests[e][r]
<1> USE DEF cacheVars, pollVars, scrapeVars
<1>1. \A e \in Endpoints, r \in Results : requests[e][r] \in Nat
  BY DEF TypeOK
<1>2. CASE requests' = requests
  BY <1>1, <1>2
<1>3. ASSUME NEW p \in Pollers, NEW r \in Results, RecordRequest(target[p], r)
      PROVE  \A f \in Endpoints, x \in Results : requests'[f][x] >= requests[f][x]
  <2>1. target[p] \in Endpoints
    BY DEF TypeOK
  <2> QED BY <1>3, <2>1, RecordRequestCounts
<1>4. \/ requests' = requests
      \/ \E p \in Pollers, r \in Results : RecordRequest(target[p], r)
  BY DEF Next, PollStep, Tick, BeginPoll, FetchFails, FetchReturns, RejectSnapshot, BuildSnapshot,
         RecordSuccess, Publish, CopyUnderLock, Emit, vars, Results
<1> QED BY <1>2, <1>3, <1>4

\* Samples lag behind copies, and copies behind the counters.
CountersOrdered ==
    \A s \in Scrapers, e \in Endpoints, r \in Results :
        /\ sample[s][e].counts[r] <= requests[e][r]
        /\ view[s][e] # NoCopy =>
              /\ sample[s][e].counts[r] <= view[s][e].counts[r]
              /\ view[s][e].counts[r] <= requests[e][r]

\* A poll that has counted its success is included in the count.
DraftCounted ==
    \A p \in Pollers : pc[p] = "recorded" => draft[p].nth <= requests[target[p]]["success"]

CountInv == CountersOrdered /\ CountedBeforeShown /\ DraftCounted

LEMMA CountInvInit == Init => CountInv
<1> SUFFICES ASSUME Init PROVE CountInv
  OBVIOUS
<1>1. "success" \in Results
  BY DEF Results
<1>2. \A r \in Results : NoSample.counts[r] = 0
  BY DEF NoSample
<1>3. NoSample.snapshot = NoSnapshot
  BY DEF NoSample
<1>4. CountersOrdered
  BY <1>2 DEF Init, CountersOrdered
<1>5. CountedBeforeShown
  BY <1>1, <1>2, <1>3 DEF Init, CountedBeforeShown, Accepted
<1>6. DraftCounted
  BY DEF Init, DraftCounted
<1> QED BY <1>4, <1>5, <1>6 DEF CountInv

\* What a copy holds of an endpoint is what the collector holds when it is made,
\* and what is emitted is what was copied; no step but these changes them.
LEMMA ScrapeSteps ==
    ASSUME TypeOK, [Next]_vars, NEW s \in Scrapers, NEW e \in Endpoints
    PROVE  /\ \/ view'[s][e] = view[s][e]
              \/ view'[s][e] = NoCopy
              \/ view'[s][e] = [counts |-> requests[e], snapshot |-> lastGood[e], copiedAt |-> now]
                 /\ UNCHANGED <<requests, lastGood>>
           /\ \/ sample'[s][e] = sample[s][e]
              \/ /\ view[s][e] # NoCopy
                 /\ view'[s][e] = NoCopy
                 /\ sample'[s][e] = [counts |-> view[s][e].counts,
                                     snapshot |-> view[s][e].snapshot,
                                     copiedAt |-> view[s][e].copiedAt,
                                     age |-> Age(view[s][e].snapshot)]
                 /\ UNCHANGED <<requests, lastGood>>
           /\ view'[s][e] # view[s][e] /\ view'[s][e] # NoCopy => sample'[s][e] = sample[s][e]
<1> USE DEF cacheVars, pollVars, scrapeVars
<1>1. CASE UNCHANGED <<view, sample>>
  BY <1>1
<1>2. ASSUME NEW t \in Scrapers, NEW g \in Groups, CopyUnderLock(t, g)
      PROVE  /\ UNCHANGED <<sample, requests, lastGood>>
             /\ \/ view'[s][e] = view[s][e]
                \/ view'[s][e] = NoCopy
                \/ view'[s][e] = [counts |-> requests[e], snapshot |-> lastGood[e], copiedAt |-> now]
  BY <1>2 DEF CopyUnderLock, TypeOK
<1>3. ASSUME NEW t \in Scrapers, NEW f \in Endpoints, Emit(t, f)
      PROVE  /\ UNCHANGED <<requests, lastGood>>
             /\ \/ view'[s][e] = view[s][e] /\ sample'[s][e] = sample[s][e]
                \/ /\ view[s][e] # NoCopy
                   /\ view'[s][e] = NoCopy
                   /\ sample'[s][e] = [counts |-> view[s][e].counts,
                                       snapshot |-> view[s][e].snapshot,
                                       copiedAt |-> view[s][e].copiedAt,
                                       age |-> Age(view[s][e].snapshot)]
  BY <1>3 DEF Emit, TypeOK
<1>4. \/ UNCHANGED <<view, sample>>
      \/ \E t \in Scrapers, g \in Groups : CopyUnderLock(t, g)
      \/ \E t \in Scrapers, f \in Endpoints : Emit(t, f)
  BY DEF Next, PollStep, Tick, BeginPoll, FetchFails, FetchReturns, RejectSnapshot, BuildSnapshot,
         RecordSuccess, Publish, vars
<1> QED BY <1>1, <1>2, <1>3, <1>4

\* The counters stay ordered: copies are made of the counters as they are, and
\* samples of copies.
LEMMA CountersOrderedNext ==
    ASSUME TypeOK, TypeOK', [Next]_vars, CountersOrdered
    PROVE  /\ CountersOrdered'
           /\ \A s \in Scrapers, e \in Endpoints, r \in Results :
                 sample'[s][e].counts[r] >= sample[s][e].counts[r]
<1>1. SUFFICES ASSUME NEW s \in Scrapers, NEW e \in Endpoints, NEW r \in Results
               PROVE  /\ sample'[s][e].counts[r] >= sample[s][e].counts[r]
                      /\ sample'[s][e].counts[r] <= requests'[e][r]
                      /\ view'[s][e] # NoCopy =>
                            /\ sample'[s][e].counts[r] <= view'[s][e].counts[r]
                            /\ view'[s][e].counts[r] <= requests'[e][r]
  BY DEF CountersOrdered
<1>2. /\ requests[e][r] \in Nat
      /\ sample[s][e].counts[r] \in Nat
      /\ view[s][e] # NoCopy => view[s][e].counts[r] \in Nat
  BY DEF TypeOK, Sample, Copied
<1>3. requests'[e][r] \in Nat
  BY DEF TypeOK
<1>4. requests'[e][r] >= requests[e][r]
  BY RequestsGrow
<1>5. /\ sample[s][e].counts[r] <= requests[e][r]
      /\ view[s][e] # NoCopy =>
            /\ sample[s][e].counts[r] <= view[s][e].counts[r]
            /\ view[s][e].counts[r] <= requests[e][r]
  BY DEF CountersOrdered
<1>6. CASE sample'[s][e] = sample[s][e] /\ view'[s][e] = view[s][e]
  BY <1>2, <1>3, <1>4, <1>5, <1>6
<1>7. CASE sample'[s][e] = sample[s][e] /\ view'[s][e] = NoCopy
  BY <1>2, <1>3, <1>4, <1>5, <1>7
<1>8. CASE /\ sample'[s][e] = sample[s][e]
           /\ view'[s][e] = [counts |-> requests[e], snapshot |-> lastGood[e], copiedAt |-> now]
           /\ UNCHANGED <<requests, lastGood>>
  BY <1>2, <1>5, <1>8
<1>9. CASE /\ view[s][e] # NoCopy
           /\ view'[s][e] = NoCopy
           /\ sample'[s][e] = [counts |-> view[s][e].counts,
                               snapshot |-> view[s][e].snapshot,
                               copiedAt |-> view[s][e].copiedAt,
                               age |-> Age(view[s][e].snapshot)]
  <2>1. sample'[s][e].counts[r] = view[s][e].counts[r]
    BY <1>9
  <2> QED BY <1>2, <1>3, <1>4, <1>5, <1>9, <2>1
<1> QED BY <1>6, <1>7, <1>8, <1>9, ScrapeSteps

\* Publish is the only step that changes a cached snapshot, and it publishes a
\* counted one.
LEMMA CacheSteps ==
    ASSUME TypeInv, [Next]_vars, NEW e \in Endpoints
    PROVE  \/ lastGood'[e] = lastGood[e]
           \/ \E p \in Pollers : /\ pc[p] = "recorded" /\ target[p] = e
                                  /\ lastGood'[e] = draft[p]
                                  /\ pc'[p] = "idle"
                                  /\ requests' = requests
<1> USE DEF cacheVars, pollVars, scrapeVars
<1>1. ASSUME NEW p \in Pollers, Publish(p)
      PROVE  \/ lastGood'[e] = lastGood[e]
             \/ /\ pc[p] = "recorded" /\ target[p] = e
                /\ lastGood'[e] = draft[p]
                /\ pc'[p] = "idle"
                /\ requests' = requests
  BY <1>1 DEF Publish, TypeInv, TypeOK
<1>2. lastGood' = lastGood \/ \E p \in Pollers : Publish(p)
  BY DEF Next, PollStep, Tick, BeginPoll, FetchFails, FetchReturns, RejectSnapshot, BuildSnapshot,
         RecordSuccess, CopyUnderLock, Emit, vars
<1> QED BY <1>1, <1>2

\* A poll is in "recorded" because it just counted its success, or was already.
LEMMA RecordedSteps ==
    ASSUME TypeInv, [Next]_vars, NEW p \in Pollers, pc'[p] = "recorded"
    PROVE  /\ target'[p] = target[p]
           /\ \/ pc[p] = "recorded" /\ draft'[p] = draft[p]
              \/ /\ pc[p] = "built" /\ RecordSuccess(p)
                 /\ draft'[p].nth = requests[target[p]]["success"] + 1
<1> USE DEF cacheVars, pollVars, scrapeVars, TypeInv
<1>1. ASSUME NEW q \in Pollers, NEW e \in Endpoints, BeginPoll(q, e)
      PROVE  pc[p] = "recorded" /\ draft'[p] = draft[p] /\ target'[p] = target[p]
  BY <1>1 DEF BeginPoll, TypeOK
<1>2. ASSUME NEW q \in Pollers, NEW c \in ErrorCategories, FetchFails(q, c)
      PROVE  pc[p] = "recorded" /\ draft'[p] = draft[p] /\ target'[p] = target[p]
  BY <1>2 DEF FetchFails, TypeOK
<1>3. ASSUME NEW q \in Pollers, FetchReturns(q)
      PROVE  pc[p] = "recorded" /\ draft'[p] = draft[p] /\ target'[p] = target[p]
  BY <1>3 DEF FetchReturns, TypeOK
<1>4. ASSUME NEW q \in Pollers, NEW c \in {"invalid_data", "limit_exceeded"}, RejectSnapshot(q, c)
      PROVE  pc[p] = "recorded" /\ draft'[p] = draft[p] /\ target'[p] = target[p]
  BY <1>4 DEF RejectSnapshot, TypeOK
<1>5. ASSUME NEW q \in Pollers, BuildSnapshot(q)
      PROVE  pc[p] = "recorded" /\ draft'[p] = draft[p] /\ target'[p] = target[p]
  BY <1>5 DEF BuildSnapshot, TypeOK
<1>6. ASSUME NEW q \in Pollers, RecordSuccess(q)
      PROVE  /\ target'[p] = target[p]
             /\ \/ pc[p] = "recorded" /\ draft'[p] = draft[p]
                \/ /\ pc[p] = "built" /\ RecordSuccess(p)
                   /\ draft'[p].nth = requests[target[p]]["success"] + 1
  <2>1. CASE q # p
    BY <1>6, <2>1 DEF RecordSuccess, TypeOK
  <2>2. CASE q = p
    <3>1. draft[p] \in Snapshot
      BY <1>6, <2>2 DEF RecordSuccess, TypeOK, DraftHeld
    <3>2. draft'[p] = [draft[p] EXCEPT !.nth = requests[target[p]]["success"] + 1]
      BY <1>6, <2>2 DEF RecordSuccess, TypeOK
    <3>3. draft'[p].nth = requests[target[p]]["success"] + 1
      BY <3>1, <3>2 DEF Snapshot
    <3> QED BY <1>6, <2>2, <3>3 DEF RecordSuccess
  <2> QED BY <2>1, <2>2
<1>7. ASSUME NEW q \in Pollers, Publish(q)
      PROVE  pc[p] = "recorded" /\ draft'[p] = draft[p] /\ target'[p] = target[p]
  BY <1>7 DEF Publish, TypeOK
<1>8. CASE UNCHANGED <<pc, draft, target>>
  BY <1>8
<1>9. Tick \/ (\E s \in Scrapers, g \in Groups : CopyUnderLock(s, g))
           \/ (\E s \in Scrapers, e \in Endpoints : Emit(s, e)) => UNCHANGED <<pc, draft, target>>
  BY DEF Tick, CopyUnderLock, Emit
<1> QED
  BY <1>1, <1>2, <1>3, <1>4, <1>5, <1>6, <1>7, <1>8, <1>9 DEF Next, PollStep, vars

\* Every step keeps the counting invariant.
LEMMA CountInvNext ==
    ASSUME TypeInv, TypeOK', [Next]_vars, CountInv
    PROVE  CountInv'
<1> USE DEF CountInv, TypeInv
<1>1. CountersOrdered'
  BY CountersOrderedNext
<1>2. "success" \in Results
  BY DEF Results
<1>3. \A e \in Endpoints : /\ requests[e]["success"] \in Nat
                           /\ requests'[e]["success"] \in Nat
                           /\ requests'[e]["success"] >= requests[e]["success"]
  BY <1>2, RequestsGrow DEF TypeOK
<1>4. DraftCounted'
  <2>1. SUFFICES ASSUME NEW p \in Pollers, pc'[p] = "recorded"
                 PROVE  draft'[p].nth <= requests'[target'[p]]["success"]
    BY DEF DraftCounted
  <2>2. target[p] \in Endpoints
    BY DEF TypeOK
  <2>3. CASE pc[p] = "recorded" /\ draft'[p] = draft[p] /\ target'[p] = target[p]
    <3>1. draft[p] \in Snapshot
      BY <2>3 DEF DraftHeld, TypeOK
    <3> QED BY <1>3, <2>2, <2>3, <3>1 DEF DraftCounted, Snapshot
  <2>4. CASE /\ RecordSuccess(p) /\ target'[p] = target[p]
             /\ draft'[p].nth = requests[target[p]]["success"] + 1
    <3>1. requests'[target[p]]["success"] = requests[target[p]]["success"] + 1
      BY <1>2, <2>2, <2>4, RecordRequestCounts DEF RecordSuccess
    <3> QED BY <1>3, <2>2, <2>4, <3>1
  <2> QED BY <2>1, <2>3, <2>4, RecordedSteps
<1>5. \A e \in Endpoints : Accepted(lastGood'[e]) <= requests'[e]["success"]
  <2>1. SUFFICES ASSUME NEW e \in Endpoints
                 PROVE  Accepted(lastGood'[e]) <= requests'[e]["success"]
    OBVIOUS
  <2>2. CASE lastGood'[e] = lastGood[e]
    <3>1. Accepted(lastGood[e]) <= requests[e]["success"] /\ Accepted(lastGood[e]) \in Nat
      BY DEF CountedBeforeShown, Accepted, TypeOK, Snapshot
    <3> QED BY <1>3, <2>2, <3>1
  <2>3. ASSUME NEW p \in Pollers, pc[p] = "recorded", target[p] = e, lastGood'[e] = draft[p],
               requests' = requests
        PROVE  Accepted(lastGood'[e]) <= requests'[e]["success"]
    BY <2>3 DEF DraftCounted, DraftHeld, Accepted
  <2> QED BY <2>2, <2>3, CacheSteps
<1>6. ASSUME NEW s \in Scrapers, NEW e \in Endpoints, view'[s][e] # NoCopy
      PROVE  Accepted(view'[s][e].snapshot) <= view'[s][e].counts["success"]
  <2>1. CASE view'[s][e] = view[s][e]
    BY <1>6, <2>1 DEF CountedBeforeShown
  <2>2. CASE view'[s][e] = [counts |-> requests[e], snapshot |-> lastGood[e], copiedAt |-> now]
    <3>1. view'[s][e].counts = requests[e] /\ view'[s][e].snapshot = lastGood[e]
      BY <2>2
    <3> QED BY <3>1 DEF CountedBeforeShown
  <2> QED BY <1>6, <2>1, <2>2, ScrapeSteps
<1>7. ASSUME NEW s \in Scrapers, NEW e \in Endpoints
      PROVE  Accepted(sample'[s][e].snapshot) <= sample'[s][e].counts["success"]
  <2>1. CASE sample'[s][e] = sample[s][e]
    BY <2>1 DEF CountedBeforeShown
  <2>2. CASE /\ view[s][e] # NoCopy
             /\ sample'[s][e] = [counts |-> view[s][e].counts,
                                 snapshot |-> view[s][e].snapshot,
                                 copiedAt |-> view[s][e].copiedAt,
                                 age |-> Age(view[s][e].snapshot)]
    <3>1. /\ sample'[s][e].counts = view[s][e].counts
          /\ sample'[s][e].snapshot = view[s][e].snapshot
      BY <2>2
    <3> QED BY <2>2, <3>1 DEF CountedBeforeShown
  <2> QED BY <2>1, <2>2, ScrapeSteps
<1>8. CountedBeforeShown'
  BY <1>5, <1>6, <1>7 DEF CountedBeforeShown, Accepted
<1> QED BY <1>1, <1>4, <1>8

\* A scrape never shows data of a poll its own success counter leaves out,
\* however many polls overlap.
THEOREM DataAreCounted == Spec => []CountedBeforeShown
<1>1. TypeInv /\ AgeMatchesData /\ CountInv /\ [Next]_vars
        => (TypeInv /\ AgeMatchesData /\ CountInv)'
  BY TypeNext, TimesNext, CountInvNext DEF TypeInv
<1>2. CountInv => CountedBeforeShown
  BY DEF CountInv
<1> QED
  BY TypeInvInit, CountInvInit, <1>1, <1>2, PTL DEF Spec

\* No counter a Prometheus server sees ever goes down.
THEOREM CountersAreMonotone == Spec => CountersNeverDecrease
<1>1. TypeInv /\ AgeMatchesData /\ CountInv /\ [Next]_vars
        => (TypeInv /\ AgeMatchesData /\ CountInv)'
  BY TypeNext, TimesNext, CountInvNext DEF TypeInv
<1>2. TypeInv /\ TypeInv' /\ CountInv /\ [Next]_vars
        => [\A s \in Scrapers, e \in Endpoints, r \in Results :
               sample'[s][e].counts[r] >= sample[s][e].counts[r]]_vars
  BY CountersOrderedNext DEF TypeInv, CountInv
<1> QED
  BY TypeInvInit, CountInvInit, <1>1, <1>2, PTL DEF Spec, CountersNeverDecrease

-----------------------------------------------------------------------------
(* Every poll is counted once                                              *)

LEMMA ResultsFinite == IsFiniteSet(Results)
<1>1. IsFiniteSet(ErrorCategories \cup {"invalid_data"})
  BY FiniteAssumption, FS_AddElement
<1>2. IsFiniteSet((ErrorCategories \cup {"invalid_data"}) \cup {"limit_exceeded"})
  BY <1>1, FS_AddElement
<1>3. IsFiniteSet(((ErrorCategories \cup {"invalid_data"}) \cup {"limit_exceeded"}) \cup {"success"})
  BY <1>2, FS_AddElement
<1>4. Results = ((ErrorCategories \cup {"invalid_data"}) \cup {"limit_exceeded"}) \cup {"success"}
  BY DEF Results
<1> QED
  BY <1>3, <1>4

\* The requests of an endpoint counted so far.
Counted(e) == SumFunction(requests[e])

LEMMA CountedType == ASSUME TypeOK, NEW e \in Endpoints PROVE Counted(e) \in Int
<1>1. DOMAIN requests[e] = Results /\ \A r \in Results : requests[e][r] \in Int
  BY DEF TypeOK
<1> QED
  BY <1>1, ResultsFinite, SumType DEF Counted, SumFunction

LEMMA UncountedType ==
    ASSUME NEW e PROVE IsFiniteSet(Uncounted(e)) /\ Cardinality(Uncounted(e)) \in Nat
<1>1. Uncounted(e) \in SUBSET Pollers
  BY DEF Uncounted
<1> QED
  BY <1>1, FiniteAssumption, FS_Subset, FS_CardinalityType

\* recordRequest adds one to one endpoint's counters.
LEMMA RecordRequestAddsOne ==
    ASSUME TypeOK, NEW e \in Endpoints, NEW r \in Results, RecordRequest(e, r)
    PROVE  /\ Counted(e)' = Counted(e) + 1
           /\ \A f \in Endpoints \ {e} : Counted(f)' = Counted(f)
<1>1. requests \in [Endpoints -> [Results -> Nat]]
  BY DEF TypeOK
<1>2. requests' = [requests EXCEPT ![e] = [requests[e] EXCEPT ![r] = requests[e][r] + 1]]
  BY DEF RecordRequest
<1>3. Counted(e)' = Counted(e) + 1
  <2> DEFINE v == requests[e]  w == requests'[e]
  <2>1. v \in [Results -> Nat] /\ w = [v EXCEPT ![r] = v[r] + 1]
    BY <1>1, <1>2
  <2>2. Counted(e) = SumFunctionOnSet(v, DOMAIN v) /\ Counted(e)' = SumFunctionOnSet(w, DOMAIN w)
    BY DEF Counted, SumFunction
  <2> HIDE DEF v, w
  <2>3. DOMAIN v = Results /\ DOMAIN w = Results
    BY <2>1
  <2>4. (\A y \in Results : v[y] \in Int) /\ w[r] = v[r] + 1 /\ \A y \in Results \ {r} : w[y] = v[y]
    BY <2>1
  <2>5. SumFunctionOnSet(w, Results) = SumFunctionOnSet(v, Results) + 1
    BY <2>4, ResultsFinite, SumChanged
  <2> QED
    BY <2>2, <2>3, <2>5
<1>4. ASSUME NEW f \in Endpoints \ {e} PROVE Counted(f)' = Counted(f)
  <2>1. requests'[f] = requests[f]
    BY <1>1, <1>2
  <2> QED
    BY <2>1 DEF Counted
<1> QED
  BY <1>3, <1>4

\* A poll that is counted leaves the running ones of its endpoint, and of no other.
LEMMA PollIsCounted ==
    ASSUME TypeOK, EveryPollCountedOnce, NEW p \in Pollers, NEW r \in Results,
           RecordRequest(target[p], r), pc[p] \in {"fetch", "received", "built"},
           NEW to \in {"idle", "recorded"}, pc' = [pc EXCEPT ![p] = to], UNCHANGED <<started, target>>
    PROVE  EveryPollCountedOnce'
<1> DEFINE e == target[p]
<1>1. e \in Endpoints
  BY DEF TypeOK
<1>2. Counted(e)' = Counted(e) + 1 /\ \A f \in Endpoints \ {e} : Counted(f)' = Counted(f)
  BY <1>1, RecordRequestAddsOne
<1>3. Uncounted(e)' = Uncounted(e) \ {p} /\ p \in Uncounted(e)
  BY DEF Uncounted, TypeOK
<1>4. \A f \in Endpoints \ {e} : Uncounted(f)' = Uncounted(f)
  BY DEF Uncounted, TypeOK
<1>5. Cardinality(Uncounted(e)') = Cardinality(Uncounted(e)) - 1
  BY <1>3, UncountedType, FS_RemoveElement
<1>6. ASSUME NEW f \in Endpoints
      PROVE  started'[f] = Counted(f)' + Cardinality(Uncounted(f)')
  <2>1. started'[f] = Counted(f) + Cardinality(Uncounted(f))
    BY DEF EveryPollCountedOnce, Counted
  <2>2. Counted(f) \in Int /\ Cardinality(Uncounted(f)) \in Nat
    BY CountedType, UncountedType
  <2>3. CASE f = e
    BY <1>2, <1>5, <2>1, <2>2, <2>3
  <2>4. CASE f # e
    BY <1>2, <1>4, <2>1, <2>4
  <2> QED
    BY <2>3, <2>4
<1> QED
  BY <1>6 DEF EveryPollCountedOnce, Counted

LEMMA CountedOnceInit == Init => EveryPollCountedOnce
<1> SUFFICES ASSUME Init, NEW e \in Endpoints
             PROVE  started[e] = Counted(e) + Cardinality(Uncounted(e))
  BY DEF EveryPollCountedOnce, Counted
<1>1. Uncounted(e) = {} /\ started[e] = 0
  BY DEF Init, Uncounted
<1>2. Counted(e) = 0
  <2> DEFINE z == [r \in Results |-> 0]
  <2>1. requests[e] = z
    BY DEF Init
  <2>2. DOMAIN z = Results /\ \A r \in Results : z[r] = 0
    OBVIOUS
  <2> HIDE DEF z
  <2>3. SumFunctionOnSet(z, Results) = 0
    BY <2>2, ResultsFinite, SumOfZeros
  <2> QED
    BY <2>1, <2>2, <2>3 DEF Counted, SumFunction
<1> QED
  BY <1>1, <1>2, FS_EmptySet

LEMMA CountedOnceNext == TypeInv /\ EveryPollCountedOnce /\ [Next]_vars => EveryPollCountedOnce'
<1> SUFFICES ASSUME TypeInv, EveryPollCountedOnce, [Next]_vars PROVE EveryPollCountedOnce'
  OBVIOUS
<1> USE DEF TypeInv
<1>1. TypeOK /\ "success" \in Results /\ ErrorCategories \subseteq Results
      /\ {"invalid_data", "limit_exceeded"} \subseteq Results
  BY DEF Results
<1>2. CASE /\ UNCHANGED <<requests, started>>
           /\ \A e \in Endpoints : Uncounted(e)' = Uncounted(e)
  BY <1>2 DEF EveryPollCountedOnce
<1>3. ASSUME NEW p \in Pollers, NEW e \in Endpoints, BeginPoll(p, e) PROVE EveryPollCountedOnce'
  <2>1. started' = [started EXCEPT ![e] = started[e] + 1] /\ UNCHANGED requests
    BY <1>3 DEF BeginPoll, cacheVars
  <2>2. p \notin Uncounted(e) /\ Uncounted(e)' = Uncounted(e) \cup {p}
    BY <1>3 DEF BeginPoll, Uncounted, TypeOK
  <2>3. \A f \in Endpoints \ {e} : Uncounted(f)' = Uncounted(f)
    BY <1>3 DEF BeginPoll, Uncounted, TypeOK
  <2>4. Cardinality(Uncounted(e)') = Cardinality(Uncounted(e)) + 1
    BY <2>2, UncountedType, FS_AddElement
  <2>5. ASSUME NEW f \in Endpoints
        PROVE  started'[f] = Counted(f) + Cardinality(Uncounted(f)')
    <3>1. started[f] = Counted(f) + Cardinality(Uncounted(f)) /\ started[f] \in Nat
      BY DEF EveryPollCountedOnce, Counted, TypeOK
    <3>2. Counted(f) \in Int /\ Cardinality(Uncounted(f)) \in Nat
      BY CountedType, UncountedType
    <3>3. started'[f] = IF f = e THEN started[f] + 1 ELSE started[f]
      BY <2>1 DEF TypeOK
    <3>4. CASE f = e
      BY <2>4, <3>1, <3>2, <3>3, <3>4
    <3>5. CASE f # e
      BY <2>3, <3>1, <3>3, <3>5
    <3> QED
      BY <3>4, <3>5
  <2> QED
    BY <2>1, <2>5 DEF EveryPollCountedOnce, Counted
<1>4. ASSUME NEW p \in Pollers, NEW c \in ErrorCategories, FetchFails(p, c)
      PROVE  EveryPollCountedOnce'
  BY <1>1, <1>4, PollIsCounted DEF FetchFails
<1>5. ASSUME NEW p \in Pollers, NEW c \in {"invalid_data", "limit_exceeded"}, RejectSnapshot(p, c)
      PROVE  EveryPollCountedOnce'
  BY <1>1, <1>5, PollIsCounted DEF RejectSnapshot
<1>6. ASSUME NEW p \in Pollers, RecordSuccess(p) PROVE EveryPollCountedOnce'
  BY <1>1, <1>6, PollIsCounted DEF RecordSuccess
<1>7. ASSUME NEW p \in Pollers, FetchReturns(p) \/ BuildSnapshot(p) \/ Publish(p)
      PROVE  EveryPollCountedOnce'
  <2>1. UNCHANGED <<requests, started>> /\ \A e \in Endpoints : Uncounted(e)' = Uncounted(e)
    BY <1>7 DEF FetchReturns, BuildSnapshot, Publish, cacheVars, Uncounted, TypeOK
  <2> QED
    BY <1>2, <2>1
<1>8. CASE UNCHANGED <<requests, started, pc, target>>
  <2>1. \A e \in Endpoints : Uncounted(e)' = Uncounted(e)
    BY <1>8 DEF Uncounted
  <2> QED
    BY <1>2, <1>8, <2>1
<1>9. Tick \/ (\E s \in Scrapers, g \in Groups : CopyUnderLock(s, g))
           \/ (\E s \in Scrapers, e \in Endpoints : Emit(s, e)) \/ UNCHANGED vars
        => UNCHANGED <<requests, started, pc, target>>
  BY DEF Tick, CopyUnderLock, Emit, vars, cacheVars, pollVars
<1> QED
  BY <1>3, <1>4, <1>5, <1>6, <1>7, <1>8, <1>9 DEF Next, PollStep

\* recordRequest and recordHistoryRequest (account.go, pool.go, worker.go, history.go):
\* however many polls overlap and however they end, the counters of an endpoint add up
\* to the polls begun less those still running.
THEOREM PollsAreCountedOnce == Spec => []EveryPollCountedOnce
<1>1. TypeInv /\ AgeMatchesData /\ EveryPollCountedOnce /\ [Next]_vars
        => (TypeInv /\ AgeMatchesData /\ EveryPollCountedOnce)'
  BY TypeNext, TimesNext, CountedOnceNext DEF TypeInv
<1> QED
  BY TypeInvInit, CountedOnceInit, <1>1, PTL DEF Spec

-----------------------------------------------------------------------------
(* The collectors as main.go drives them, one poll at a time: what scrapes *)
(* show never goes back, lags the success counter by at most one, and the  *)
(* collectors implement LastGoodCache.  Two overlapping polls of an        *)
(* endpoint would break all three: the slower may publish the older answer *)
(* last.                                                                   *)

\* Snapshot a is none, or not newer than snapshot b in any respect.
Precedes(a, b) ==
    a # NoSnapshot => /\ b # NoSnapshot
                      /\ a.asOf <= b.asOf
                      /\ a.collectedAt <= b.collectedAt
                      /\ a.nth <= b.nth

\* The poll in progress holds an answer that came after everything cached.
PollIsNewest ==
    \A p \in Pollers, e \in Endpoints : lastGood[e] # NoSnapshot =>
        /\ pc[p] = "received" => lastGood[e].collectedAt <= reply[p]
        /\ pc[p] \in {"built", "recorded"} => lastGood[e].collectedAt <= draft[p].asOf

\* The success counter is the ordinal of the cached snapshot, or one more while
\* a poll is between its two critical sections.
CountMatches ==
    /\ \A p \in Pollers : pc[p] = "recorded" =>
          /\ draft[p].nth = requests[target[p]]["success"]
          /\ requests[target[p]]["success"] = Accepted(lastGood[target[p]]) + 1
    /\ \A e \in Endpoints :
          (\A p \in Pollers : ~(pc[p] = "recorded" /\ target[p] = e)) =>
              requests[e]["success"] = Accepted(lastGood[e])

\* A copy is no newer than the cache, and a sample no newer than either.
ScrapesLag ==
    \A s \in Scrapers, e \in Endpoints :
        /\ Precedes(sample[s][e].snapshot, lastGood[e])
        /\ view[s][e] # NoCopy =>
              /\ Precedes(view[s][e].snapshot, lastGood[e])
              /\ Precedes(sample[s][e].snapshot, view[s][e].snapshot)
              /\ view[s][e].counts["success"] - Accepted(view[s][e].snapshot) \in {0, 1}

SerialInv == PollIsNewest /\ CountMatches /\ ScrapesLag /\ SampleAtMostOneBehind
FullInv == TypeInv /\ AgeMatchesData /\ SerialInv

LEMMA SerialInvInit == Init => FullInv
<1> SUFFICES ASSUME Init PROVE FullInv
  OBVIOUS
<1>1. "success" \in Results /\ NoSample.snapshot = NoSnapshot
      /\ \A r \in Results : NoSample.counts[r] = 0
  BY DEF Results, NoSample
<1>2. PollIsNewest
  BY DEF Init, PollIsNewest
<1>3. CountMatches
  BY <1>1 DEF Init, CountMatches, Accepted
<1>4. ScrapesLag
  BY <1>1 DEF Init, ScrapesLag, Precedes
<1>5. SampleAtMostOneBehind
  BY <1>1 DEF Init, SampleAtMostOneBehind, Accepted
<1> QED BY <1>2, <1>3, <1>4, <1>5, TypeInvInit DEF FullInv, SerialInv

\* Every step keeps the answer in progress the newest: the cache changes only
\* when the only poll publishes, and then no poll is in progress.
LEMMA PollIsNewestNext ==
    ASSUME OnePollAtATime, TypeInv, PollIsNewest, [Next]_vars
    PROVE  PollIsNewest'
<1> USE DEF TypeInv, cacheVars, pollVars, scrapeVars
<1>1. CASE UNCHANGED <<lastGood, pc, reply, draft>>
  BY <1>1 DEF PollIsNewest
<1>2. ASSUME NEW p \in Pollers, NEW e \in Endpoints, BeginPoll(p, e) PROVE PollIsNewest'
  BY <1>2 DEF BeginPoll, PollIsNewest, TypeOK
<1>3. ASSUME NEW p \in Pollers, NEW c \in ErrorCategories, FetchFails(p, c) PROVE PollIsNewest'
  BY <1>3 DEF FetchFails, PollIsNewest, TypeOK
<1>4. ASSUME NEW p \in Pollers, FetchReturns(p) PROVE PollIsNewest'
  BY <1>4 DEF FetchReturns, PollIsNewest, TypeOK, TimesOrdered, Past
<1>5. ASSUME NEW p \in Pollers, NEW c \in {"invalid_data", "limit_exceeded"}, RejectSnapshot(p, c)
      PROVE PollIsNewest'
  BY <1>5 DEF RejectSnapshot, PollIsNewest, TypeOK, OnePollAtATime
<1>6. ASSUME NEW p \in Pollers, BuildSnapshot(p) PROVE PollIsNewest'
  BY <1>6 DEF BuildSnapshot, PollIsNewest, TypeOK, OnePollAtATime
<1>7. ASSUME NEW p \in Pollers, RecordSuccess(p) PROVE PollIsNewest'
  <2>1. draft[p] \in Snapshot
    BY <1>7 DEF RecordSuccess, TypeOK, DraftHeld
  <2>2. draft' = [draft EXCEPT ![p] = [draft[p] EXCEPT !.nth = requests[target[p]]["success"] + 1]]
    BY <1>7 DEF RecordSuccess
  <2>3. draft'[p].asOf = draft[p].asOf
    BY <2>1, <2>2 DEF Snapshot, TypeOK
  <2> QED BY <1>7, <2>3 DEF RecordSuccess, PollIsNewest, TypeOK, OnePollAtATime
<1>8. ASSUME NEW p \in Pollers, Publish(p) PROVE PollIsNewest'
  <2>1. \A q \in Pollers : pc'[q] = "idle"
    BY <1>8 DEF Publish, TypeOK, OnePollAtATime
  <2> QED BY <2>1 DEF PollIsNewest
<1>9. Tick \/ (\E s \in Scrapers, g \in Groups : CopyUnderLock(s, g))
           \/ (\E s \in Scrapers, e \in Endpoints : Emit(s, e)) \/ UNCHANGED vars
        => UNCHANGED <<lastGood, pc, reply, draft>>
  BY DEF Tick, CopyUnderLock, Emit, vars
<1> QED
  BY <1>1, <1>2, <1>3, <1>4, <1>5, <1>6, <1>7, <1>8, <1>9 DEF Next, PollStep

\* Counting one result leaves the other counters of every endpoint alone.
LEMMA OtherCountersStay ==
    ASSUME TypeOK, NEW e \in Endpoints, NEW r \in Results, RecordRequest(e, r),
           NEW f \in Endpoints, NEW x \in Results, f # e \/ x # r
    PROVE  requests'[f][x] = requests[f][x]
<1>1. requests \in [Endpoints -> [Results -> Nat]]
  BY DEF TypeOK
<1>2. requests' = [requests EXCEPT ![e] = [requests[e] EXCEPT ![r] = requests[e][r] + 1]]
  BY DEF RecordRequest
<1>3. CASE f # e
  BY <1>1, <1>2, <1>3
<1>4. CASE f = e /\ x # r
  <2>1. requests'[e] = [requests[e] EXCEPT ![r] = requests[e][r] + 1]
    BY <1>1, <1>2
  <2>2. requests[e] \in [Results -> Nat]
    BY <1>1
  <2> QED BY <1>4, <2>1, <2>2
<1> QED BY <1>3, <1>4

\* A step that neither counts a success, publishes nor moves a poll to or from
\* "recorded" keeps the two counts equal.
LEMMA CountMatchesStays ==
    ASSUME TypeInv, CountMatches, lastGood' = lastGood,
           \A e \in Endpoints : requests'[e]["success"] = requests[e]["success"],
           \A p \in Pollers : pc[p] = "recorded" \/ pc'[p] = "recorded" =>
               pc'[p] = pc[p] /\ target'[p] = target[p] /\ draft'[p] = draft[p]
    PROVE  CountMatches'
<1>1. ASSUME NEW p \in Pollers, pc'[p] = "recorded"
      PROVE  /\ draft'[p].nth = requests'[target'[p]]["success"]
             /\ requests'[target'[p]]["success"] = Accepted(lastGood'[target'[p]]) + 1
  BY <1>1 DEF CountMatches, TypeInv, TypeOK
<1>2. ASSUME NEW e \in Endpoints, \A p \in Pollers : ~(pc'[p] = "recorded" /\ target'[p] = e)
      PROVE  requests'[e]["success"] = Accepted(lastGood'[e])
  BY <1>2 DEF CountMatches
<1> QED BY <1>1, <1>2 DEF CountMatches, Accepted

LEMMA CountMatchesNext ==
    ASSUME OnePollAtATime, TypeInv, CountMatches, [Next]_vars
    PROVE  CountMatches'
<1> USE DEF TypeInv, cacheVars, pollVars, scrapeVars
<1>1. "success" \in Results /\ ErrorCategories \subseteq Results
      /\ {"invalid_data", "limit_exceeded"} \subseteq Results
  BY DEF Results
<1>2. CASE UNCHANGED <<lastGood, requests, pc, target, draft>>
  BY <1>2, CountMatchesStays
<1>3. ASSUME NEW p \in Pollers, NEW e \in Endpoints, BeginPoll(p, e) PROVE CountMatches'
  <2>1. \A q \in Pollers : pc[q] = "recorded" \/ pc'[q] = "recorded" =>
            pc'[q] = pc[q] /\ target'[q] = target[q] /\ draft'[q] = draft[q]
    BY <1>3 DEF BeginPoll, TypeOK
  <2> QED BY <1>3, <2>1, CountMatchesStays DEF BeginPoll
<1>4. ASSUME NEW p \in Pollers, NEW c \in Results, c # "success", RecordRequest(target[p], c),
             pc[p] # "recorded", pc' = [pc EXCEPT ![p] = "idle"],
             UNCHANGED <<lastGood, target, draft>>
      PROVE CountMatches'
  <2>1. target[p] \in Endpoints
    BY DEF TypeOK
  <2>2. \A e \in Endpoints : requests'[e]["success"] = requests[e]["success"]
    BY <1>1, <1>4, <2>1, OtherCountersStay
  <2>3. \A q \in Pollers : pc[q] = "recorded" \/ pc'[q] = "recorded" =>
            pc'[q] = pc[q] /\ target'[q] = target[q] /\ draft'[q] = draft[q]
    BY <1>4 DEF TypeOK
  <2> QED BY <1>4, <2>2, <2>3, CountMatchesStays
<1>5. ASSUME NEW p \in Pollers, NEW c \in ErrorCategories, FetchFails(p, c) PROVE CountMatches'
  BY <1>1, <1>4, <1>5, ErrorAssumption DEF FetchFails
<1>6. ASSUME NEW p \in Pollers, NEW c \in {"invalid_data", "limit_exceeded"}, RejectSnapshot(p, c)
      PROVE CountMatches'
  BY <1>1, <1>4, <1>6 DEF RejectSnapshot
<1>7. ASSUME NEW p \in Pollers, FetchReturns(p) \/ BuildSnapshot(p) PROVE CountMatches'
  <2>1. \A q \in Pollers : pc[q] = "recorded" \/ pc'[q] = "recorded" =>
            pc'[q] = pc[q] /\ target'[q] = target[q] /\ draft'[q] = draft[q]
    BY <1>7 DEF FetchReturns, BuildSnapshot, TypeOK
  <2> QED BY <1>7, <2>1, CountMatchesStays DEF FetchReturns, BuildSnapshot
<1>8. ASSUME NEW p \in Pollers, RecordSuccess(p) PROVE CountMatches'
  <2> DEFINE e == target[p]
  <2>1. e \in Endpoints /\ pc[p] = "built" /\ target' = target /\ lastGood' = lastGood
    BY <1>8 DEF RecordSuccess, TypeOK
  <2>2. \A q \in Pollers : q = p /\ pc'[q] = "recorded" /\ pc[q] # "recorded"
    BY <1>8, <2>1 DEF RecordSuccess, OnePollAtATime, TypeOK
  <2>3. requests'[e]["success"] = requests[e]["success"] + 1
    BY <1>1, <1>8, <2>1, RecordRequestCounts DEF RecordSuccess
  <2>4. \A f \in Endpoints : f # e => requests'[f]["success"] = requests[f]["success"]
    BY <1>1, <1>8, <2>1, OtherCountersStay DEF RecordSuccess
  <2>5. \A f \in Endpoints : requests[f]["success"] = Accepted(lastGood[f])
    BY <2>2 DEF CountMatches
  <2>6. draft'[p].nth = requests[e]["success"] + 1
    <3>1. pc'[p] = "recorded"
      BY <2>2
    <3> QED BY <1>8, <2>2, <3>1, RecordedSteps DEF Next, PollStep
  <2>7. \A q \in Pollers : /\ draft'[q].nth = requests'[target'[q]]["success"]
                           /\ requests'[target'[q]]["success"] = Accepted(lastGood'[target'[q]]) + 1
    BY <2>1, <2>2, <2>3, <2>5, <2>6
  <2>8. \A f \in Endpoints :
          (\A q \in Pollers : ~(pc'[q] = "recorded" /\ target'[q] = f)) =>
              requests'[f]["success"] = Accepted(lastGood'[f])
    BY <2>1, <2>2, <2>4, <2>5
  <2> QED BY <2>7, <2>8 DEF CountMatches, Accepted
<1>9. ASSUME NEW p \in Pollers, Publish(p) PROVE CountMatches'
  <2> DEFINE e == target[p]
  <2>1. e \in Endpoints /\ pc[p] = "recorded" /\ requests' = requests
        /\ draft[p] \in Snapshot
    BY <1>9 DEF Publish, TypeOK, DraftHeld
  <2>2. \A q \in Pollers : q = p /\ pc'[q] = "idle"
    BY <1>9 DEF Publish, OnePollAtATime, TypeOK
  <2>3. lastGood'[e] = draft[p] /\ \A f \in Endpoints : f # e => lastGood'[f] = lastGood[f]
    BY <1>9, <2>1 DEF Publish, TypeOK
  <2>4. Accepted(draft[p]) = requests[e]["success"]
    BY <2>1, NilAssumption DEF CountMatches, Accepted
  <2>5. \A f \in Endpoints : f # e => requests[f]["success"] = Accepted(lastGood[f])
    BY <2>2 DEF CountMatches
  <2>6. \A f \in Endpoints : requests'[f]["success"] = Accepted(lastGood'[f])
    BY <2>1, <2>3, <2>4, <2>5
  <2> QED BY <2>2, <2>6 DEF CountMatches, Accepted
<1>10. Tick \/ (\E s \in Scrapers, g \in Groups : CopyUnderLock(s, g))
            \/ (\E s \in Scrapers, e \in Endpoints : Emit(s, e)) \/ UNCHANGED vars
        => UNCHANGED <<lastGood, requests, pc, target, draft>>
  BY DEF Tick, CopyUnderLock, Emit, vars
<1> QED
  BY <1>2, <1>3, <1>5, <1>6, <1>7, <1>8, <1>9, <1>10 DEF Next, PollStep

LEMMA PrecedesTransitive ==
    ASSUME NEW a \in Snapshot \cup {NoSnapshot}, NEW b \in Snapshot \cup {NoSnapshot},
           NEW c \in Snapshot \cup {NoSnapshot}, Precedes(a, b), Precedes(b, c)
    PROVE  Precedes(a, c)
BY DEF Precedes, Snapshot

\* The cache only advances: a published snapshot is the successor of the one it
\* replaces and no older in any respect.
LEMMA CacheAdvances ==
    ASSUME TypeInv, TypeOK', PollIsNewest, CountMatches, [Next]_vars, NEW e \in Endpoints
    PROVE  Precedes(lastGood[e], lastGood'[e])
<1>1. lastGood[e] \in Snapshot \cup {NoSnapshot}
  BY DEF TypeInv, TypeOK
<1>2. CASE lastGood'[e] = lastGood[e]
  BY <1>1, <1>2 DEF Precedes, Snapshot
<1>3. ASSUME NEW p \in Pollers, pc[p] = "recorded", target[p] = e, lastGood'[e] = draft[p]
      PROVE  Precedes(lastGood[e], lastGood'[e])
  <2>1. draft[p] \in Snapshot /\ draft[p] # NoSnapshot
    BY <1>3 DEF TypeInv, TypeOK, DraftHeld
  <2>2. draft[p].asOf <= draft[p].collectedAt
    BY <2>1 DEF TypeInv, TimesOrdered, Past
  <2>3. draft[p].nth = Accepted(lastGood[e]) + 1
    BY <1>3 DEF CountMatches
  <2>4. ASSUME lastGood[e] # NoSnapshot
        PROVE  /\ lastGood[e].asOf <= lastGood[e].collectedAt
               /\ lastGood[e].collectedAt <= draft[p].asOf
               /\ draft[p].nth = lastGood[e].nth + 1
    BY <1>3, <2>3, <2>4 DEF TypeInv, TimesOrdered, Past, PollIsNewest, Accepted
  <2> QED BY <1>1, <1>3, <2>1, <2>2, <2>4 DEF Precedes, Snapshot
<1> QED BY <1>2, <1>3, CacheSteps

LEMMA ScrapesLagNext ==
    ASSUME TypeInv, TypeOK', SerialInv, [Next]_vars
    PROVE  ScrapesLag' /\ SampleAtMostOneBehind'
<1> USE DEF SerialInv
<1>1. ASSUME NEW e \in Endpoints
      PROVE  /\ Precedes(lastGood[e], lastGood'[e])
             /\ requests[e]["success"] - Accepted(lastGood[e]) \in {0, 1}
  <2>1. Precedes(lastGood[e], lastGood'[e])
    BY CacheAdvances
  <2>2. requests[e]["success"] \in Nat /\ Accepted(lastGood[e]) \in Nat
    BY DEF TypeInv, TypeOK, Results, Accepted, Snapshot
  <2>3. requests[e]["success"] = Accepted(lastGood[e])
        \/ requests[e]["success"] = Accepted(lastGood[e]) + 1
    BY DEF CountMatches
  <2> QED BY <2>1, <2>2, <2>3
<1>2. ASSUME NEW s \in Scrapers, NEW e \in Endpoints
      PROVE  /\ Precedes(sample'[s][e].snapshot, lastGood'[e])
             /\ view'[s][e] # NoCopy =>
                   /\ Precedes(view'[s][e].snapshot, lastGood'[e])
                   /\ Precedes(sample'[s][e].snapshot, view'[s][e].snapshot)
                   /\ view'[s][e].counts["success"] - Accepted(view'[s][e].snapshot) \in {0, 1}
             /\ sample'[s][e].counts["success"] - Accepted(sample'[s][e].snapshot) \in {0, 1}
  <2> DEFINE v == view[s][e]
             x == sample[s][e]
             S == Snapshot \cup {NoSnapshot}
  <2>1. /\ x.snapshot \in S /\ lastGood[e] \in S /\ lastGood'[e] \in S
        /\ v # NoCopy => v.snapshot \in S
    BY DEF TypeInv, TypeOK, Copied, Sample
  <2>2. /\ Precedes(x.snapshot, lastGood[e])
        /\ x.counts["success"] - Accepted(x.snapshot) \in {0, 1}
        /\ v # NoCopy => /\ Precedes(v.snapshot, lastGood[e])
                         /\ Precedes(x.snapshot, v.snapshot)
                         /\ v.counts["success"] - Accepted(v.snapshot) \in {0, 1}
    BY DEF ScrapesLag, SampleAtMostOneBehind
  <2>3. Precedes(x.snapshot, lastGood'[e]) /\ (v # NoCopy => Precedes(v.snapshot, lastGood'[e]))
    BY <1>1, <2>1, <2>2, PrecedesTransitive
  <2>4. CASE sample'[s][e] = x /\ (view'[s][e] = v \/ view'[s][e] = NoCopy)
    BY <2>2, <2>3, <2>4
  <2>5. CASE /\ sample'[s][e] = x
             /\ view'[s][e] = [counts |-> requests[e], snapshot |-> lastGood[e], copiedAt |-> now]
    <3>1. view'[s][e].counts = requests[e] /\ view'[s][e].snapshot = lastGood[e]
      BY <2>5
    <3> QED BY <1>1, <2>2, <2>3, <2>5, <3>1
  <2>6. CASE /\ v # NoCopy /\ view'[s][e] = NoCopy
             /\ sample'[s][e] = [counts |-> v.counts, snapshot |-> v.snapshot,
                                 copiedAt |-> v.copiedAt, age |-> Age(v.snapshot)]
    <3>1. sample'[s][e].counts = v.counts /\ sample'[s][e].snapshot = v.snapshot
      BY <2>6
    <3> QED BY <2>2, <2>3, <2>6, <3>1
  <2>7. TypeOK
    BY DEF TypeInv
  <2> QED BY <2>4, <2>5, <2>6, <2>7, ScrapeSteps
<1>3. ScrapesLag'
  BY <1>2 DEF ScrapesLag, Precedes, Accepted
<1>4. SampleAtMostOneBehind'
  BY <1>2 DEF SampleAtMostOneBehind, Accepted
<1> QED BY <1>3, <1>4

LEMMA FullInvNext == OnePollAtATime /\ FullInv /\ [Next]_vars => FullInv'
<1> SUFFICES ASSUME OnePollAtATime, FullInv, [Next]_vars PROVE FullInv'
  OBVIOUS
<1>1. TypeInv' /\ AgeMatchesData'
  BY TypeNext, TimesNext DEF FullInv, TypeInv
<1>2. PollIsNewest' /\ CountMatches'
  BY PollIsNewestNext, CountMatchesNext DEF FullInv, SerialInv
<1>3. ScrapesLag' /\ SampleAtMostOneBehind'
  BY <1>1, ScrapesLagNext DEF FullInv, TypeInv
<1> QED BY <1>1, <1>2, <1>3 DEF FullInv, SerialInv

\* With one poll at a time, what a scrape shows belongs to the last success it
\* counts or to the one before.
THEOREM SampleLagsByOne == ASSUME OnePollAtATime PROVE Spec => []SampleAtMostOneBehind
<1>1. Init => FullInv
  BY SerialInvInit
<1>2. FullInv /\ [Next]_vars => FullInv'
  BY FullInvNext
<1>3. FullInv => SampleAtMostOneBehind
  BY DEF FullInv, SerialInv
<1> QED BY <1>1, <1>2, <1>3, PTL DEF Spec

\* What a scraper is shown next does not precede what it was shown last.
LEMMA DataStay ==
    ASSUME FullInv, FullInv', [Next]_vars
    PROVE  [\A s \in Scrapers, e \in Endpoints :
              LET old == sample[s][e].snapshot
                  new == sample'[s][e].snapshot IN
              old # NoSnapshot =>
                  /\ new # NoSnapshot
                  /\ new.asOf >= old.asOf
                  /\ new.collectedAt >= old.collectedAt
                  /\ new.nth >= old.nth]_vars
<1>1. SUFFICES ASSUME NEW s \in Scrapers, NEW e \in Endpoints, sample[s][e].snapshot # NoSnapshot
               PROVE  /\ sample'[s][e].snapshot # NoSnapshot
                      /\ sample'[s][e].snapshot.asOf >= sample[s][e].snapshot.asOf
                      /\ sample'[s][e].snapshot.collectedAt >= sample[s][e].snapshot.collectedAt
                      /\ sample'[s][e].snapshot.nth >= sample[s][e].snapshot.nth
  OBVIOUS
<1>2. /\ TypeOK
      /\ sample[s][e].snapshot \in Snapshot \cup {NoSnapshot}
      /\ sample'[s][e].snapshot \in Snapshot \cup {NoSnapshot}
  BY DEF FullInv, TypeInv, TypeOK, Sample
<1>3. CASE sample'[s][e] = sample[s][e]
  BY <1>1, <1>2, <1>3 DEF Snapshot
<1>4. CASE /\ view[s][e] # NoCopy
           /\ sample'[s][e] = [counts |-> view[s][e].counts,
                               snapshot |-> view[s][e].snapshot,
                               copiedAt |-> view[s][e].copiedAt,
                               age |-> Age(view[s][e].snapshot)]
  <2>1. sample'[s][e].snapshot = view[s][e].snapshot
    BY <1>4
  <2>2. Precedes(sample[s][e].snapshot, sample'[s][e].snapshot)
    BY <1>4, <2>1 DEF FullInv, SerialInv, ScrapesLag
  <2> QED BY <1>1, <1>2, <2>2 DEF Precedes, Snapshot
<1>5. \/ sample'[s][e] = sample[s][e]
      \/ /\ view[s][e] # NoCopy
         /\ sample'[s][e] = [counts |-> view[s][e].counts,
                             snapshot |-> view[s][e].snapshot,
                             copiedAt |-> view[s][e].copiedAt,
                             age |-> Age(view[s][e].snapshot)]
  BY <1>2, ScrapeSteps
<1> QED BY <1>3, <1>4, <1>5

\* With one poll at a time, data shown once never disappear or go back.
THEOREM DataNeverRegress == ASSUME OnePollAtATime PROVE Spec => DataNeverRegresses
<1>1. Init => FullInv
  BY SerialInvInit
<1>2. FullInv /\ [Next]_vars => FullInv'
  BY FullInvNext
<1>3. FullInv /\ FullInv' /\ [Next]_vars
        => [\A s \in Scrapers, e \in Endpoints :
              LET old == sample[s][e].snapshot
                  new == sample'[s][e].snapshot IN
              old # NoSnapshot =>
                  /\ new # NoSnapshot
                  /\ new.asOf >= old.asOf
                  /\ new.collectedAt >= old.collectedAt
                  /\ new.nth >= old.nth]_vars
  BY DataStay
<1> QED BY <1>1, <1>2, <1>3, PTL DEF Spec, DataNeverRegresses

-----------------------------------------------------------------------------
(* The collectors implement LastGoodCache                                  *)

\* What the refinement mapping makes of a Collect call's copies and samples.
HeldMap == [s \in Scrapers |-> [e \in Endpoints |->
              IF view[s][e] = NoCopy THEN NoCopy ELSE view[s][e].snapshot]]
ShownMap == [s \in Scrapers |-> [e \in Endpoints |-> sample[s][e].snapshot]]

\* Two functions that differ in one row, or in one cell of a table.
LEMMA RowChanged ==
    ASSUME NEW S, NEW f, NEW g, NEW s \in S, NEW row,
           f = [t \in S |-> f[t]], g = [t \in S |-> IF t = s THEN row ELSE f[t]]
    PROVE  g = [f EXCEPT ![s] = row]
OBVIOUS

LEMMA CellChanged ==
    ASSUME NEW S, NEW T, NEW V, NEW f \in [S -> [T -> V]], NEW g \in [S -> [T -> V]],
           NEW s \in S, NEW t \in T, NEW v,
           \A x \in S, y \in T : g[x][y] = IF x = s /\ y = t THEN v ELSE f[x][y]
    PROVE  g = [f EXCEPT ![s][t] = v]
OBVIOUS

LEMMA InitRefines == Init => Cache!Init
BY DEF Init, NoSample, Cache!Init

\* Publishing accepts the next snapshot of the endpoint.
LEMMA PublishRefines ==
    ASSUME FullInv, NEW p \in Pollers, Publish(p)
    PROVE  Cache!Accept(target[p])
<1> DEFINE e == target[p]
           d == draft[p]
<1>1. /\ e \in Endpoints /\ d \in Snapshot /\ d # NoSnapshot /\ pc[p] = "recorded"
      /\ lastGood' = [lastGood EXCEPT ![e] = d]
      /\ UNCHANGED <<now, view, sample>>
  BY DEF Publish, scrapeVars, FullInv, TypeInv, TypeOK, DraftHeld
<1>2. d.asOf <= d.collectedAt /\ d.collectedAt <= now
  BY <1>1 DEF FullInv, TypeInv, TimesOrdered, Past
<1>3. d.collectedAt \in 0..now /\ d.asOf \in 0..d.collectedAt
  BY <1>1, <1>2 DEF Snapshot, FullInv, TypeInv, TypeOK
<1>4. d = [asOf |-> d.asOf, collectedAt |-> d.collectedAt, nth |-> Cache!Accepted(lastGood[e]) + 1]
  <2>1. d.nth = Accepted(lastGood[e]) + 1
    BY <1>1 DEF FullInv, SerialInv, CountMatches
  <2>2. Cache!Accepted(lastGood[e]) = Accepted(lastGood[e])
    BY DEF Cache!Accepted, Accepted
  <2> QED BY <1>1, <2>1, <2>2 DEF Snapshot
<1>5. Cache!AtLeastAsRecent(d, lastGood[e])
  <2>1. CASE lastGood[e] = NoSnapshot
    BY <2>1 DEF Cache!AtLeastAsRecent
  <2>2. CASE lastGood[e] # NoSnapshot
    <3>1. lastGood[e] \in Snapshot
      BY <1>1, <2>2 DEF FullInv, TypeInv, TypeOK
    <3>2. lastGood[e].asOf <= lastGood[e].collectedAt /\ lastGood[e].collectedAt <= d.asOf
      BY <1>1, <2>2 DEF FullInv, TypeInv, TimesOrdered, Past, SerialInv, PollIsNewest
    <3> QED BY <1>1, <1>2, <3>1, <3>2 DEF Cache!AtLeastAsRecent, Snapshot
  <2> QED BY <2>1, <2>2
<1> QED BY <1>1, <1>3, <1>4, <1>5 DEF Cache!Accept

LEMMA CopyRefines ==
    ASSUME FullInv, NEW s \in Scrapers, NEW g \in Groups, CopyUnderLock(s, g)
    PROVE  Cache!Copy(s, g)
<1>1. \A e \in Endpoints : HeldMap[s][e] = NoCopy
  BY DEF CopyUnderLock, HeldMap
<1>2. /\ view' = [view EXCEPT ![s] = [e \in Endpoints |->
                    IF e \in g THEN [counts |-> requests[e], snapshot |-> lastGood[e], copiedAt |-> now]
                    ELSE NoCopy]]
      /\ UNCHANGED <<now, lastGood, sample>>
  BY DEF CopyUnderLock, cacheVars
<1>3. view \in [Scrapers -> [Endpoints -> Copied \cup {NoCopy}]]
  BY DEF FullInv, TypeInv, TypeOK
<1>4. \A e \in Endpoints :
        [counts |-> requests[e], snapshot |-> lastGood[e], copiedAt |-> now] \in Copied
  BY DEF FullInv, TypeInv, TypeOK, Copied
<1>5. HeldMap' = [HeldMap EXCEPT ![s] = [e \in Endpoints |-> IF e \in g THEN lastGood[e] ELSE NoCopy]]
  <2> DEFINE row == [e \in Endpoints |-> IF e \in g THEN lastGood[e] ELSE NoCopy]
  <2>1. ASSUME NEW e \in Endpoints
        PROVE  (IF view'[s][e] = NoCopy THEN NoCopy ELSE view'[s][e].snapshot) = row[e]
    <3>1. CASE e \in g
      <4>1. view'[s][e] = [counts |-> requests[e], snapshot |-> lastGood[e], copiedAt |-> now]
        BY <1>2, <1>3, <3>1
      <4>2. view'[s][e] # NoCopy
        BY <1>4, <4>1, NilAssumption
      <4> QED BY <3>1, <4>1, <4>2
    <3>2. CASE e \notin g
      BY <1>2, <1>3, <3>2
    <3> QED BY <3>1, <3>2
  <2>2. [e \in Endpoints |-> IF view'[s][e] = NoCopy THEN NoCopy ELSE view'[s][e].snapshot] = row
    BY <2>1
  <2>3. \A t \in Scrapers : t # s => view'[t] = view[t]
    BY <1>2, <1>3
  <2>4. \A t \in Scrapers : HeldMap'[t] = IF t = s THEN row ELSE HeldMap[t]
    BY <2>2, <2>3 DEF HeldMap
  <2> HIDE DEF row
  <2>5. /\ HeldMap' = [t \in Scrapers |-> IF t = s THEN row ELSE HeldMap[t]]
        /\ HeldMap = [t \in Scrapers |-> HeldMap[t]]
    BY <2>4 DEF HeldMap
  <2>6. HeldMap' = [HeldMap EXCEPT ![s] = row]
    BY <2>5, RowChanged
  <2> QED BY <2>6 DEF row
<1>6. ShownMap' = ShownMap
  BY <1>2 DEF ShownMap
<1> QED BY <1>1, <1>2, <1>5, <1>6 DEF Cache!Copy, HeldMap, ShownMap

LEMMA EmitRefines ==
    ASSUME FullInv, NEW s \in Scrapers, NEW e \in Endpoints, Emit(s, e)
    PROVE  Cache!Show(s, e)
<1> DEFINE v == view[s][e]
<1>1. /\ v # NoCopy
      /\ sample' = [sample EXCEPT ![s][e] = [counts |-> v.counts, snapshot |-> v.snapshot,
                                             copiedAt |-> v.copiedAt, age |-> Age(v.snapshot)]]
      /\ view' = [view EXCEPT ![s][e] = NoCopy]
      /\ UNCHANGED <<now, lastGood>>
  BY DEF Emit, cacheVars
<1>2. /\ view \in [Scrapers -> [Endpoints -> Copied \cup {NoCopy}]]
      /\ sample \in [Scrapers -> [Endpoints -> Sample]]
  BY DEF FullInv, TypeInv, TypeOK
<1>3. HeldMap[s][e] = v.snapshot /\ HeldMap[s][e] # NoCopy
  BY <1>1, <1>2, NilAssumption DEF HeldMap, Copied
<1>4. /\ HeldMap \in [Scrapers -> [Endpoints -> Snapshot \cup {NoSnapshot, NoCopy}]]
      /\ HeldMap' \in [Scrapers -> [Endpoints -> Snapshot \cup {NoSnapshot, NoCopy}]]
      /\ ShownMap \in [Scrapers -> [Endpoints -> Snapshot \cup {NoSnapshot, NoCopy}]]
      /\ ShownMap' \in [Scrapers -> [Endpoints -> Snapshot \cup {NoSnapshot, NoCopy}]]
  <2>1. TypeOK /\ TypeOK'
    <3>1. [Next]_vars
      BY DEF Next
    <3> QED BY <3>1, TypeNext DEF FullInv, TypeInv
  <2> QED BY <2>1 DEF TypeOK, HeldMap, ShownMap, Copied, Sample
<1>5. HeldMap' = [HeldMap EXCEPT ![s][e] = NoCopy]
  <2>1. \A t \in Scrapers, f \in Endpoints :
           view'[t][f] = IF t = s /\ f = e THEN NoCopy ELSE view[t][f]
    BY <1>1, <1>2
  <2>2. \A t \in Scrapers, f \in Endpoints :
           HeldMap'[t][f] = IF t = s /\ f = e THEN NoCopy ELSE HeldMap[t][f]
    BY <2>1 DEF HeldMap
  <2> QED BY <1>4, <2>2, CellChanged
<1>6. ShownMap' = [ShownMap EXCEPT ![s][e] = v.snapshot]
  <2>1. \A t \in Scrapers, f \in Endpoints :
           sample'[t][f].snapshot = IF t = s /\ f = e THEN v.snapshot ELSE sample[t][f].snapshot
    <3> SUFFICES ASSUME NEW t \in Scrapers, NEW f \in Endpoints
                 PROVE  sample'[t][f].snapshot
                          = IF t = s /\ f = e THEN v.snapshot ELSE sample[t][f].snapshot
      OBVIOUS
    <3>1. CASE t = s /\ f = e
      <4>1. sample'[t][f] = [counts |-> v.counts, snapshot |-> v.snapshot,
                             copiedAt |-> v.copiedAt, age |-> Age(v.snapshot)]
        BY <1>1, <1>2, <3>1
      <4> QED BY <3>1, <4>1
    <3>2. CASE ~(t = s /\ f = e)
      BY <1>1, <1>2, <3>2
    <3> QED BY <3>1, <3>2
  <2>2. \A t \in Scrapers, f \in Endpoints :
           ShownMap'[t][f] = IF t = s /\ f = e THEN v.snapshot ELSE ShownMap[t][f]
    BY <2>1 DEF ShownMap
  <2> QED BY <1>4, <2>2, CellChanged
<1> QED BY <1>1, <1>3, <1>5, <1>6 DEF Cache!Show, HeldMap, ShownMap

\* Every step of the collectors is a step of the cache or a stutter.
LEMMA NextRefines == FullInv /\ [Next]_vars => [Cache!Next]_(Cache!vars)
<1> SUFFICES ASSUME FullInv, [Next]_vars PROVE [Cache!Next]_(Cache!vars)
  OBVIOUS
<1>1. CASE Tick
  <2>1. now' = now + 1 /\ UNCHANGED <<lastGood, view, sample>>
    BY <1>1 DEF Tick, cacheVars, scrapeVars
  <2> QED BY <2>1 DEF Cache!Tick, Cache!Next
<1>2. CASE UNCHANGED <<now, lastGood, view, sample>>
  BY <1>2 DEF Cache!vars
<1>3. ASSUME NEW p \in Pollers, Publish(p) PROVE Cache!Next
  <2>1. target[p] \in Endpoints
    BY DEF FullInv, TypeInv, TypeOK
  <2> QED BY <1>3, <2>1, PublishRefines DEF Cache!Next
<1>4. ASSUME NEW s \in Scrapers, NEW g \in Groups, CopyUnderLock(s, g) PROVE Cache!Next
  BY <1>4, CopyRefines DEF Cache!Next
<1>5. ASSUME NEW s \in Scrapers, NEW e \in Endpoints, Emit(s, e) PROVE Cache!Next
  BY <1>5, EmitRefines DEF Cache!Next
<1>6. \/ Tick
      \/ UNCHANGED <<now, lastGood, view, sample>>
      \/ \E p \in Pollers : Publish(p)
      \/ \E s \in Scrapers, g \in Groups : CopyUnderLock(s, g)
      \/ \E s \in Scrapers, e \in Endpoints : Emit(s, e)
  BY DEF Next, PollStep, BeginPoll, FetchFails, FetchReturns, RejectSnapshot, BuildSnapshot,
         RecordSuccess, vars, cacheVars, scrapeVars
<1> QED BY <1>1, <1>2, <1>3, <1>4, <1>5, <1>6

\* With one poll at a time, every behaviour of the collectors is, through the
\* refinement mapping, a behaviour of the last-good cache.
THEOREM CollectorsAreACache == ASSUME OnePollAtATime PROVE Spec => ImplementsLastGoodCache
<1>1. Init => FullInv
  BY SerialInvInit
<1>2. FullInv /\ [Next]_vars => FullInv'
  BY FullInvNext
<1>3. Init => Cache!Init
  BY InitRefines
<1>4. FullInv /\ [Next]_vars => [Cache!Next]_(Cache!vars)
  BY NextRefines
<1> QED BY <1>1, <1>2, <1>3, <1>4, PTL DEF Spec, ImplementsLastGoodCache, Cache!Spec
=============================================================================
