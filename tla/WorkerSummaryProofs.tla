------------------------ MODULE WorkerSummaryProofs ------------------------
(***************************************************************************)
(* Proofs about WorkerSummary for any responses and limits.                *)
(***************************************************************************)
EXTENDS WorkerSummary, FiniteSetTheorems, TLAPS

TypeOK ==
    /\ response \in Responses
    /\ pending \in SUBSET response.workers
    /\ result \in {"checking", "building", "accepted", "invalid_data", "limit_exceeded"}

\* The workers the loop has taken.
Taken == response.workers \ pending

\* There is one label and one sample for each worker taken.
TakenOnce ==
    /\ labels = {NormalizeWorkerLabel(w.name) : w \in Taken}
    /\ samples = {BuildWorkerSample(w) : w \in Taken}
    /\ \A w \in Taken : UsableName(w.name) /\ UsableWorker(w)
    /\ \A v, w \in Taken : NormalizeWorkerLabel(v.name) = NormalizeWorkerLabel(w.name) => v = w

\* Every worker has a usable name and decimals, and a label of its own.
Good ==
    \A v \in response.workers :
        /\ UsableName(v.name) /\ UsableWorker(v)
        /\ \A w \in response.workers : v.name.trimmed = w.name.trimmed => v = w

\* How the loop can have ended, or begun.
ResultTold ==
    /\ result \in {"building", "accepted"} =>
          response.hasCoin /\ Cardinality(response.workers) <= MaxWorkers
    /\ result = "accepted" => pending = {}
    /\ result = "limit_exceeded" => response.hasCoin /\ Cardinality(response.workers) > MaxWorkers
    /\ result = "invalid_data" =>
          ~response.hasCoin \/ (Cardinality(response.workers) <= MaxWorkers /\ ~Good)

SummaryInv == TypeOK /\ TakenOnce /\ ResultTold

-----------------------------------------------------------------------------
LEMMA ResponseType ==
    ASSUME TypeOK
    PROVE  /\ response.workers \in SUBSET Workers /\ IsFiniteSet(response.workers)
           /\ Cardinality(response.workers) \in Nat
BY ResponsesAssumption, FS_CardinalityType DEF TypeOK

LEMMA SummaryInvInit == Init => SummaryInv
<1> SUFFICES ASSUME Init PROVE SummaryInv
  OBVIOUS
<1>1. Taken = {}
  BY DEF Init, Taken
<1> QED
  BY <1>1 DEF Init, SummaryInv, TypeOK, TakenOnce, ResultTold

\* When every worker was taken, every worker is good.
LEMMA AllTakenGood == ASSUME TypeOK, TakenOnce, pending = {} PROVE Good
<1>1. Taken = response.workers
  BY DEF Taken
<1> QED
  BY <1>1 DEF TakenOnce, Good, NormalizeWorkerLabel

\* A worker that cannot be taken is bad, or shares its label with one that was taken.
LEMMA RefusedIsBad ==
    ASSUME TypeOK, TakenOnce, NEW worker \in pending, ~Acceptable(worker)
    PROVE  ~Good
<1>1. worker \in response.workers
  BY DEF TypeOK
<1>2. CASE ~UsableName(worker.name) \/ ~UsableWorker(worker)
  BY <1>1, <1>2 DEF Good
<1>3. CASE NormalizeWorkerLabel(worker.name) \in labels
  <2>1. PICK v \in Taken : NormalizeWorkerLabel(v.name) = NormalizeWorkerLabel(worker.name)
    BY <1>3 DEF TakenOnce
  <2>2. v \in response.workers /\ v # worker /\ v.name.trimmed = worker.name.trimmed
    BY <2>1 DEF Taken, NormalizeWorkerLabel
  <2> QED
    BY <1>1, <2>2 DEF Good
<1> QED
  BY <1>2, <1>3 DEF Acceptable

LEMMA TakeKeeps ==
    ASSUME SummaryInv, NEW worker \in pending, TakeWorker(worker)
    PROVE  SummaryInv'
<1>1. /\ result = "building" /\ UNCHANGED <<response, result>> /\ pending' = pending \ {worker}
      /\ labels' = labels \cup {NormalizeWorkerLabel(worker.name)}
      /\ samples' = samples \cup {BuildWorkerSample(worker)}
      /\ Acceptable(worker)
  BY DEF TakeWorker
<1>2. TypeOK'
  BY <1>1 DEF SummaryInv, TypeOK
<1>3. Taken' = Taken \cup {worker}
  BY <1>1 DEF SummaryInv, TypeOK, Taken
<1>4. TakenOnce'
  <2>1. labels' = {NormalizeWorkerLabel(w.name) : w \in Taken \cup {worker}}
    BY <1>1 DEF SummaryInv, TakenOnce
  <2>2. samples' = {BuildWorkerSample(w) : w \in Taken \cup {worker}}
    BY <1>1 DEF SummaryInv, TakenOnce
  <2>3. \A w \in Taken \cup {worker} : UsableName(w.name) /\ UsableWorker(w)
    BY <1>1 DEF SummaryInv, TakenOnce, Acceptable
  <2>4. \A w \in Taken : NormalizeWorkerLabel(w.name) # NormalizeWorkerLabel(worker.name)
    BY <1>1 DEF SummaryInv, TakenOnce, Acceptable
  <2>5. \A v, w \in Taken \cup {worker} :
            NormalizeWorkerLabel(v.name) = NormalizeWorkerLabel(w.name) => v = w
    BY <2>4 DEF SummaryInv, TakenOnce
  <2> QED
    BY <1>3, <2>1, <2>2, <2>3, <2>5 DEF TakenOnce
<1>5. ResultTold'
  BY <1>1 DEF SummaryInv, ResultTold
<1> QED
  BY <1>2, <1>4, <1>5 DEF SummaryInv

\* Steps that change the result only.
LEMMA EndKeeps ==
    ASSUME SummaryInv, UNCHANGED <<response, pending, labels, samples>>,
           result' \in {"checking", "building", "accepted", "invalid_data", "limit_exceeded"},
           ResultTold'
    PROVE  SummaryInv'
BY DEF SummaryInv, TypeOK, TakenOnce, Taken

LEMMA SummaryInvNext == SummaryInv /\ [Next]_vars => SummaryInv'
<1> SUFFICES ASSUME SummaryInv, [Next]_vars PROVE SummaryInv'
  OBVIOUS
<1>1. CASE CheckCoinAndLimit
  <2>1. ResultTold'
    BY <1>1, ResponseType, LimitsAssumption DEF CheckCoinAndLimit, SummaryInv, ResultTold
  <2>2. result' \in {"building", "invalid_data", "limit_exceeded"}
    BY <1>1 DEF CheckCoinAndLimit
  <2> QED
    BY <1>1, <2>1, <2>2, EndKeeps DEF CheckCoinAndLimit
<1>2. ASSUME NEW worker \in pending, TakeWorker(worker) PROVE SummaryInv'
  BY <1>2, TakeKeeps
<1>3. ASSUME NEW worker \in pending, RefuseWorker(worker) PROVE SummaryInv'
  <2>1. ~Good
    BY <1>3, RefusedIsBad DEF RefuseWorker, SummaryInv
  <2>2. response' = response
    BY <1>3 DEF RefuseWorker
  <2>3. Good' = Good
    BY <2>2 DEF Good
  <2>4. ResultTold'
    BY <1>3, <2>1, <2>3 DEF RefuseWorker, SummaryInv, ResultTold
  <2> QED
    BY <1>3, <2>4, EndKeeps DEF RefuseWorker
<1>4. CASE Accept
  <2>1. ResultTold'
    BY <1>4 DEF Accept, SummaryInv, ResultTold
  <2> QED
    BY <1>4, <2>1, EndKeeps DEF Accept
<1>5. CASE UNCHANGED vars
  BY <1>5 DEF vars, SummaryInv, TypeOK, TakenOnce, Taken, ResultTold, Good
<1> QED
  BY <1>1, <1>2, <1>3, <1>4, <1>5 DEF Next

LEMMA SummaryInvHolds == Spec => []SummaryInv
BY SummaryInvInit, SummaryInvNext, PTL DEF Spec

-----------------------------------------------------------------------------
(* Theorems                                                                *)

\* The series of a sample carry its label, so that two samples with different labels
\* never emit the same series (Collect).
LEMMA SeriesCarryLabel == ASSUME NEW sample, NEW s \in Series(sample) PROVE s[2] = sample.label
BY DEF Series

LEMMA SeriesDisjoint ==
    ASSUME NEW v, NEW w, v.label # w.label
    PROVE  Series(v) \cap Series(w) = {}
BY SeriesCarryLabel

\* There are as many samples as workers: the sample of a worker carries its label.
LEMMA SamplesCounted ==
    ASSUME TypeOK, TakenOnce, pending = {}
    PROVE  Cardinality(samples) = Cardinality(response.workers)
<1>1. Taken = response.workers /\ IsFiniteSet(response.workers)
  BY ResponseType DEF Taken
<1> DEFINE f == [w \in response.workers |-> BuildWorkerSample(w)]
<1>2. samples = {f[w] : w \in response.workers}
  BY <1>1 DEF TakenOnce
<1>3. \A v, w \in response.workers : f[v] = f[w] => v = w
  <2>1. \A w \in response.workers : f[w].label = NormalizeWorkerLabel(w.name)
    BY DEF BuildWorkerSample
  <2> HIDE DEF f
  <2> QED
    BY <1>1, <2>1 DEF TakenOnce
<1>4. f \in [response.workers -> samples]
  BY <1>2
<1>5. f \in Bijection(response.workers, samples)
  <2> DOMAIN f = response.workers
    OBVIOUS
  <2> HIDE DEF f
  <2>1. f \in Injection(response.workers, samples)
    BY <1>3, <1>4 DEF Injection, IsInjective
  <2>2. f \in Surjection(response.workers, samples)
    BY <1>2, <1>4 DEF Surjection
  <2> QED
    BY <2>1, <2>2 DEF Bijection
<1> HIDE DEF f
<1>6. ExistsBijection(response.workers, samples)
  BY <1>5 DEF ExistsBijection
<1> QED
  BY <1>1, <1>6, FS_Bijection

\* For any response and any order of its workers, an accepted snapshot shows every
\* worker once, in series that do not collide (buildWorkerSnapshot, Collect).
THEOREM WorkersShownOnce == Spec => []EverySeriesOnce
<1>1. SummaryInv => EverySeriesOnce
  <2> SUFFICES ASSUME SummaryInv, result = "accepted"
               PROVE  /\ Cardinality(samples) = Cardinality(response.workers)
                      /\ \A v, w \in samples : v # w => Series(v) \cap Series(w) = {}
                      /\ \A worker \in response.workers :
                            /\ UsableName(worker.name)
                            /\ \E sample \in samples :
                                  /\ sample.label = NormalizeWorkerLabel(worker.name)
                                  /\ sample.gauges = {g \in Gauges : worker.decimals[g] # "absent"}
                                  /\ sample.lastShare = worker.lastShare
                                  /\ sample.state \in WorkerStates
    BY DEF EverySeriesOnce
  <2>1. TypeOK /\ TakenOnce /\ pending = {} /\ Taken = response.workers
    BY DEF SummaryInv, ResultTold, Taken
  <2>2. Cardinality(samples) = Cardinality(response.workers)
    BY <2>1, SamplesCounted
  <2>3. ASSUME NEW v \in samples, NEW w \in samples, v # w PROVE Series(v) \cap Series(w) = {}
    <3>1. PICK x \in Taken, y \in Taken : v = BuildWorkerSample(x) /\ w = BuildWorkerSample(y)
      BY <2>1 DEF TakenOnce
    <3>2. x # y
      BY <2>3, <3>1
    <3>3. v.label = NormalizeWorkerLabel(x.name) /\ w.label = NormalizeWorkerLabel(y.name)
      BY <3>1 DEF BuildWorkerSample
    <3>4. v.label # w.label
      BY <2>1, <3>1, <3>2, <3>3 DEF TakenOnce
    <3> QED
      BY <3>4, SeriesDisjoint
  <2>4. ASSUME NEW worker \in response.workers
        PROVE  /\ UsableName(worker.name)
               /\ \E sample \in samples :
                     /\ sample.label = NormalizeWorkerLabel(worker.name)
                     /\ sample.gauges = {g \in Gauges : worker.decimals[g] # "absent"}
                     /\ sample.lastShare = worker.lastShare
                     /\ sample.state \in WorkerStates
    <3>1. UsableName(worker.name) /\ UsableWorker(worker) /\ BuildWorkerSample(worker) \in samples
      BY <2>1 DEF TakenOnce
    <3>2. \A g \in Gauges : worker.decimals[g] \in {"absent", "finite", "unreadable"}
      BY <2>1, ResponseType DEF Workers
    <3>3. {g \in Gauges : worker.decimals[g] = "finite"} = {g \in Gauges : worker.decimals[g] # "absent"}
      BY <3>1, <3>2 DEF UsableWorker
    <3>4. NormalizeWorkerState(worker.state) \in WorkerStates
      BY DEF NormalizeWorkerState, WorkerStates
    <3> QED
      BY <3>1, <3>3, <3>4 DEF BuildWorkerSample
  <2> QED
    BY <2>2, <2>3, <2>4
<1> QED
  BY <1>1, SummaryInvHolds, PTL

\* The result label tells the reason, whatever the order of the workers
\* (buildWorkerSnapshot).
THEOREM RefusalsAreJustified == Spec => []RefusedForGoodReason
<1>1. SummaryInv => RefusedForGoodReason
  <2> SUFFICES ASSUME SummaryInv PROVE RefusedForGoodReason
    OBVIOUS
  <2>1. result = "accepted" => Good
    BY AllTakenGood DEF SummaryInv, ResultTold
  <2>2. Cardinality(response.workers) \in Nat
    BY ResponseType DEF SummaryInv
  <2> QED
    BY <2>1, <2>2, LimitsAssumption DEF SummaryInv, ResultTold, RefusedForGoodReason, Good
<1> QED
  BY <1>1, SummaryInvHolds, PTL
=============================================================================
