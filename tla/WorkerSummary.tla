--------------------------- MODULE WorkerSummary ---------------------------
(***************************************************************************)
(* buildWorkerSnapshot (internal/collector/worker.go) and what Collect     *)
(* makes of its result: one pass over the workers of a response, each with *)
(* a label Prometheus has to accept.  A label that occurs twice would make *)
(* every scrape fail, one that is not UTF-8 would make Collect panic, so   *)
(* one bad worker refuses the whole response.                              *)
(*                                                                         *)
(* The code takes the workers in the order of their names; the model takes *)
(* them in any order, which shows that the outcome does not depend on it.  *)
(***************************************************************************)
EXTENDS Integers, FiniteSets

CONSTANTS
    MaxWorkers,     \* maxWorkers
    MaxLength,      \* maxWorkerLabelLength
    Responses       \* what the API may answer

ASSUME LimitsAssumption == MaxWorkers \in Nat \ {0} /\ MaxLength \in Nat

WorkerStates == {"ok", "low", "off", "dis", "unknown"}
Gauges == {"hashrate"} \X {"5m", "60m", "24h", "scoring"} \cup {"shares"} \X {"5m", "60m", "24h"}

\* The name of a worker: what remains without the blanks around it, its bytes,
\* whether they are UTF-8, and how many blanks there are.
Names == [trimmed : STRING, length : Nat, utf8 : BOOLEAN, blanks : Nat]
\* hash_rate_unit, state and last_share of a worker, and each of its decimals.
Workers == [name : Names, unit : {"none", "Gh/s", "other"}, state : STRING, lastShare : BOOLEAN,
            decimals : [Gauges -> {"absent", "finite", "unreadable"}]]

\* The workers are the entries of a JSON object, one to a name.
ASSUME ResponsesAssumption ==
    \A r \in Responses :
        /\ r = [hasCoin |-> r.hasCoin, workers |-> r.workers]
        /\ r.hasCoin \in BOOLEAN /\ r.workers \subseteq Workers /\ IsFiniteSet(r.workers)
        /\ \A v, w \in r.workers : v.name = w.name => v = w

VARIABLES
    response,
    pending,    \* the workers the loop has not come to
    labels,     \* labels
    samples,    \* samples
    result      \* "checking", "building", "accepted", "invalid_data", "limit_exceeded"

vars == <<response, pending, labels, samples, result>>

\* normalizeWorkerLabel refuses, or returns the trimmed name.
UsableName(name) == 0 < name.length /\ name.utf8 /\ name.length <= MaxLength

\* Mutation of NormalizeWorkerLabel: the blanks stay.
LabelAsGiven(name) == <<name.trimmed, name.blanks>>

NormalizeWorkerLabel(name) == <<name.trimmed>>

NormalizeWorkerState(state) == IF state \in WorkerStates THEN state ELSE "unknown"

\* buildWorkerSample: when it succeeds, and what it returns.
UsableWorker(worker) ==
    /\ worker.unit \in {"none", "Gh/s"}
    /\ \A g \in Gauges : worker.decimals[g] # "unreadable"

BuildWorkerSample(worker) ==
    [label |-> NormalizeWorkerLabel(worker.name),
     state |-> NormalizeWorkerState(worker.state),
     gauges |-> {g \in Gauges : worker.decimals[g] = "finite"},
     lastShare |-> worker.lastShare]

Init ==
    /\ response \in Responses
    /\ pending = response.workers
    /\ labels = {}
    /\ samples = {}
    /\ result = "checking"

\* Mutation of CheckCoinAndLimit: off by one.
LimitBelow ==
    /\ result = "checking"
    /\ result' = CASE ~response.hasCoin -> "invalid_data"
                   [] response.hasCoin /\ Cardinality(response.workers) >= MaxWorkers -> "limit_exceeded"
                   [] OTHER -> "building"
    /\ UNCHANGED <<response, pending, labels, samples>>

CheckCoinAndLimit ==
    /\ result = "checking"
    /\ result' = CASE ~response.hasCoin -> "invalid_data"
                   [] response.hasCoin /\ Cardinality(response.workers) > MaxWorkers -> "limit_exceeded"
                   [] OTHER -> "building"
    /\ UNCHANGED <<response, pending, labels, samples>>

\* A worker the code takes now.
Acceptable(worker) ==
    /\ UsableName(worker.name)
    /\ NormalizeWorkerLabel(worker.name) \notin labels
    /\ UsableWorker(worker)

TakeWorker(worker) ==
    /\ result = "building"
    /\ worker \in pending
    /\ Acceptable(worker)
    /\ pending' = pending \ {worker}
    /\ labels' = labels \cup {NormalizeWorkerLabel(worker.name)}
    /\ samples' = samples \cup {BuildWorkerSample(worker)}
    /\ UNCHANGED <<response, result>>

\* Mutation of RefuseWorker: the worker is left out.
DropWorker(worker) ==
    /\ result = "building"
    /\ worker \in pending
    /\ ~Acceptable(worker)
    /\ pending' = pending \ {worker}
    /\ UNCHANGED <<response, labels, samples, result>>

RefuseWorker(worker) ==
    /\ result = "building"
    /\ worker \in pending
    /\ ~Acceptable(worker)
    /\ result' = "invalid_data"
    /\ UNCHANGED <<response, pending, labels, samples>>

Accept ==
    /\ result = "building"
    /\ pending = {}
    /\ result' = "accepted"
    /\ UNCHANGED <<response, pending, labels, samples>>

Next ==
    \/ CheckCoinAndLimit
    \/ \E worker \in pending : TakeWorker(worker) \/ RefuseWorker(worker)
    \/ Accept

Spec == Init /\ [][Next]_vars

\* Collect: the series of a sample, each a metric name and its label values.
Series(sample) ==
    {<<"worker_state", sample.label, state>> : state \in WorkerStates}
        \cup {<<g[1], sample.label, g[2]>> : g \in sample.gauges}
        \cup IF sample.lastShare
             THEN {<<"last_share_timestamp", sample.label>>, <<"last_share_age", sample.label>>}
             ELSE {}

-----------------------------------------------------------------------------
(* Properties                                                              *)

\* A scrape of the accepted snapshot succeeds and shows every worker once: as
\* many samples as the response has workers, no two of which emit the same
\* series, although names that differ in blanks only are one label; and what the
\* API left out of a worker is left out, not shown as zero.
EverySeriesOnce ==
    result = "accepted" =>
        /\ Cardinality(samples) = Cardinality(response.workers)
        /\ \A v, w \in samples : v # w => Series(v) \cap Series(w) = {}
        /\ \A worker \in response.workers :
              /\ UsableName(worker.name)
              /\ \E sample \in samples :
                    /\ sample.label = NormalizeWorkerLabel(worker.name)
                    /\ sample.gauges = {g \in Gauges : worker.decimals[g] # "absent"}
                    /\ sample.lastShare = worker.lastShare
                    /\ sample.state \in WorkerStates

\* The result label tells the reason, whatever the order of the workers: the
\* limit comes before the workers are looked at, and one unusable worker or one
\* label taken twice refuses them all.
RefusedForGoodReason ==
    LET TooMany == Cardinality(response.workers) > MaxWorkers
        Good == \A v \in response.workers :
                   /\ UsableName(v.name) /\ UsableWorker(v)
                   /\ \A w \in response.workers :
                         v.name.trimmed = w.name.trimmed => v = w
    IN  /\ result = "limit_exceeded" => response.hasCoin /\ TooMany
        /\ result = "invalid_data" => ~response.hasCoin \/ (~TooMany /\ ~Good)
        /\ result = "accepted" => response.hasCoin /\ ~TooMany /\ Good
=============================================================================
