# Verification of braiins-pool-exporter

TLA+ models of the exporter's own logic, TLC runs that check them on small
instances, and TLAPS proofs about them for every instance. File and line
references are to the Go sources under `src/`.

## 1. The system

The exporter is a Go process that polls five endpoints of the Braiins Pool API
and serves what it last learned to Prometheus. API calls are made by one
goroutine only; scrapes are answered from caches.

```
   run (main.go) ── signals, shutdown ──┬───────────────► http.Server (server.go)
        │ starts, cancels               │ SetReady              │ one goroutine per request
        ▼                               ▼                       ▼
   runPollSteps (main.go)          SelfMetrics (self.go)   Registry.Gather ──► Collect
        │ one step at a time            ▲ Ready()                │ copies under RLock
        ▼                               │                        ▼
   Poll / PollRewards / PollPayouts ────┴── caches and counters (account, pool, worker, history)
        │ DoJSON: attempts, backoff, cancellation
        ▼
   Braiins Pool API
```

| Component | State | Operations | What makes it correct |
|---|---|---|---|
| Collectors (`internal/collector/account.go`, `pool.go`, `worker.go`, `history.go`) | last good snapshot, last error, a counter per result; `HistoryMetrics` keeps two endpoints behind one lock | `Poll…`, `Collect` | every poll counted once; data never regress, disappear or appear uncounted; a scrape is a consistent copy; ages are true |
| API client (`internal/braiins/client.go`) | none between calls; attempt, error and delay within one | `DoJSON` | bounded attempts and waits, no answer decoded twice, nothing sent after cancellation, the right error reported and classified |
| Scheduler (`runPollSteps` in `cmd/braiins-pool-exporter/main.go`) | step index, one timer | its two selects | endpoints spaced, none starved, data and date windows of bounded age, ends when canceled |
| Configuration (`internal/config/config.go`) and construction (`run`, `NewClient`, `New…Metrics`) | the `Config`, and what the parts make of it | `Load`, `Validate`, the constructors with their fallbacks | a process that runs has the settings it was given and one token source, or none |
| Lifecycle (`run`, `internal/server/server.go`, `internal/collector/self.go`) | initialized flag, listener, two result channels, shutdown deadline | start, signal, shutdown, `/-/ready` | readiness means data, the order of the shutdown, the process ends |
| Summaries of history and workers (`build{Payout,Reward,Worker}Snapshot`) | local accumulators | one pass over a response | totals are what the API listed, or the response is refused as a whole |
| Account and pool snapshots (`buildAccountSnapshot`, `buildPoolSnapshot`) and JSON types (`internal/braiins/types.go`) | last good snapshot | decode, build, expose | what is shown was sent, and what is refused was unusable |
| Version, logging | none that changes | – | not modelled, see section 8 |

Hard behaviours: polls and scrapes interleave at every lock; a successful poll
has two critical sections; the age of the data is computed outside the lock;
readiness is two reads; selects choose at random; cancellation races with
answers and timers; retries stretch a poll cycle far beyond the poll interval, and
over midnight; three layers have a say in every setting; clients may never finish a
request; three integer widths (durations, satoshis, exponents) have edges.

## 2. Modules

| Module | Models | Composition |
|---|---|---|
| `LastGoodCache` | what a collector promises its readers: one register per endpoint, copied at one moment, shown later | abstract specification |
| `Collectors` | the four cache-backed collectors: `Poll` in six steps, `Collect` in two | instantiates `LastGoodCache` by a refinement mapping |
| `PollCall` | what one call of the client promises the poll loop: a bounded number of requests, none after the cancellation | abstract specification |
| `RetryClient` | one call of `DoJSON`, and `categorizeError` | instantiates `PollCall` by a refinement mapping |
| `PollLoop` | `runPollSteps`: order, waits, cancellation | a specification of its own, extended by the next two |
| `PollCycle` | the loop with the calls it makes, the time they take, the age of what they publish and of the date windows they ask for | extends `PollLoop`; the steps of a call are the actions of an instance of `PollCall` |
| `Lifecycle` | `run` from `app.Listen` on, `App`, `SelfMetrics`, composed with the poll loop | extends `PollLoop` |
| `Startup` | the whole process: `config.Load`, `Validate`, the constructors, then `Lifecycle` | extends `Lifecycle` |
| `HistoryWindow` | `dateWindow`, `timestampInWindow` | extended by both summaries of history |
| `PayoutSummary`, `RewardSummary`, `WorkerSummary` | `buildPayoutSnapshot`, `buildRewardSnapshot`, `buildWorkerSnapshot` | – |
| `ProfileSummary` | decoding, building and exposing account and pool answers | – |
| `MC…` | small instances of the above for TLC | extend them |
| `SumTheorems` | what the proofs need to know of finite sums and of induction | extended by the proofs about counters, payouts and rewards |
| `CollectorsProofs`, `RetryClientProofs`, `PayoutSummaryProofs`, `RewardSummaryProofs`, `WorkerSummaryProofs`, `ProfileSummaryProofs` | theorems and their proofs | extend the module they are about |
| `ProcessProofs` | the same for `PollLoop`, `PollCycle`, `Lifecycle` and `Startup` | extends `PollCycle` and `Startup`, since the loop's argument carries over to all three |

### How the models correspond to the code

**Collectors.** A lock is held for a few assignments in which nothing blocks, so
each critical section is one action: `RecordRequest` (inside `FetchFails`,
`RejectSnapshot`, `RecordSuccess`), `Publish`, `CopyUnderLock`. What happens
outside the locks is separate: the API's answer (`FetchReturns`), the building of
the snapshot with `clock.Now()` (`BuildSnapshot`), and the emission with the age
at that moment (`Emit`). `lastSuccess` always equals `lastGood.collectedAt`, and is
not kept twice. The data of a snapshot are abstracted to three numbers: when the
API answered, when the snapshot was built, and which success of the endpoint it
belongs to. The last is a history variable of the model, as is `copiedAt`, the moment a scrape
took its copy. `MaxTime` bounds the clock and
`MaxPolls` the polls of an endpoint; both are constants and appear in two guards.

**RetryClient.** One behaviour is one call. The answer of the network is an
element of the constant `Answers`; `Cancel` may happen between any two steps.
Durations are integers of a width given by `Half` that wrap around, a second is
`Second` of them. `wellFormed` says whether `NewRequest` accepts the request. For
`PollCall` the phases of a call collapse to five, and the headers, delays and errors
disappear.

**PollCycle.** `BeginPoll`, `SendRequest`, `EndRequest`, `BackOff`, `GiveUp` and the two
ends of a step conjoin an action of the loop, or of `PollCall`, with what happens to
the clock and the data. A request takes any time up to `Timeout`, a backoff up to
`MaxBackoff`. `age` is what a scrape would show as data age, `misses` the
unsuccessful polls since, `windowAge` how many midnights have passed since the date window
behind the cached totals was computed; all three are history variables. Ages are capped
above the largest value the properties tell apart (`OldestAge`), `misses` above
`MaxMisses`, midnights at two.

**PollLoop, Lifecycle and Startup.** `main` is the program counter of `run`; `serve` and
`serveErr` are the goroutine of `app.Serve` and its buffered channel; `signal` is the
channel of `signal.Notify` (a signal before it kills the process). `Shutdown` is
the call of `app.Shutdown`: it closes the listener first and looks for active
requests before it looks at its context, as net/http does. A probe takes the two
reads of `SelfMetrics.Ready` in two steps. `late` and `quiet` are history variables.
`Startup` puts the construction before it: `stage` is the program counter of `run` up to
`app.Listen`, `cfg` what `Load` returned, and `used` what the parts took over from it, zero
where a part was not built. The environment is one record per process (`input`); a
text is the class that `Validate`, `ServeMux` and the token readers distinguish.

**Summaries.** One action per way through the loop's body; the totals change in
the action that adds a record. Amounts, names and decimals are small records that keep
what the code distinguishes: of a worker name what remains after trimming, its
length, its validity and the blanks; of a decimal sign, digits, scale, exponent.
`ProfileSummary` goes from answer to answer instead, since what matters is what an
answer leaves of its predecessor; of a JSON value it keeps the class that decoding,
building and exposing tell apart.

## 3. Runs

| Run | Shows | Instance |
|---|---|---|
| `collectors_serial` | with one poller, as in the exporter: the collectors implement `LastGoodCache`, what scrapes show never regresses, and lags its success counter by one at most | two endpoints behind one lock, one poller, one scraper, two polls each, clock 0..2 |
| `collectors_concurrent` | what survives overlapping polls: counters exact and monotone, data counted before shown, an emitted age that is the age of the data beside it, every counted success published, or overtaken by a later one | one endpoint with two ways to refuse, two pollers, three polls |
| `retry_client` | bounded effort, the right error, every call returns, the call implements `PollCall`, which sends no request after the cancellation | four policies, 17 answers (every class of status, every form of `Retry-After`), durations of 7 bits |
| `poll_cycle` | steps keep their distance; data and date windows are never older than a cycle for each failed poll; one more step at most after the cancellation; the canceled loop ends | two steps, one with a date window, spacing 2, interval 1, two attempts of one tick and a backoff of one: a call of up to 3 ticks, a cycle of up to 9, a day of 23 |
| `lifecycle` | settings and token source of a running process; readiness, order and end of the shutdown, a clean exit | 48 inputs; three steps, spacing 2, interval 1, one probe, one other request |
| `payouts` | totals are sums, refusals are justified, the totals of a rail are those it would have without the other | up to 3+1 of 8 payouts, among them one whose fee alone overflows, 4-bit sums, limit 3, two request times |
| `rewards` | components are sums over the set of rewards, refusals are justified | up to 4 of 7 rewards, limit 3, exponent limit 3 |
| `workers` | every accepted snapshot can be scraped and shows every worker once, and nothing else | up to 4 of 10 workers, limit 3, labels of 5 bytes |
| `profile` | a scrape shows exactly what the last accepted answer sent; what is refused was unusable | every class of JSON value in one field of each kind, the map of blocks and a block among them, in the configured coin and in another |
| `retry_redirect`, `retry_overflow`, `payouts_repeats` | a documented statement that the code does not keep (section 7) | as `retry_client`, `payouts` with one answer more |

Why the bounds are enough: the hazards of the collectors need two polls of an
endpoint (one to be overtaken or to fail) and one scrape that spans them; a third
poll lets a failure fall between two successes. The retry client makes at most
three attempts, so that its behaviours are covered for the given answers. The width
of seven bits lets the doubled backoff and the product of a `Retry-After` leave the
range. In the poll cycle and the life cycle an interval shorter than the spacing is the delicate
case, which the configuration permits. Two steps of a cycle differ in what follows them,
and a day of two cycles, a call and two ticks lets midnight fall anywhere in a cycle, also
when a poll has failed; the theorems cover every other instance. The inputs of `lifecycle` differ from a
plain start in one setting or two, which reaches every reason to refuse and every
combination of token sources; `InputsAssumption` says that those that get to polling have the
instance's steps. Four-bit sums reach both ends in two additions, and three records suffice for
a repetition with something in between. The limits on records are reached
exactly and exceeded by one.

The scraper count of one in the runs is a matter of time only: scrapers do not
interact, and the theorems hold for any number.

## 4. Fairness

* `Collectors`: weak fairness of a poller's steps: once begun, a `Poll` goes on. The
  request is bounded by the client's timeout (`client.go:134`), and the locks are held for
  assignments only. Nothing is assumed of scrapes, nor that polls begin.
* `RetryClient`: weak fairness of the call's own steps; an attempt ends by its timeout
  and a timer fires. Nothing is assumed of `Cancel`.
* `PollLoop` has no fairness of its own. `PollCycle` assumes that the goroutine goes on
  whenever it can: a request ends by its timeout, timers fire, and the clock ticks while a wait
  lasts. A tick passes in a wait only, and none after the cancellation: computing
  takes no time against timeouts of seconds, and a canceled context wakes every
  wait and ends every request at once. From this, not from fairness, the loop ends: a wait
  that begins after the cancellation finds its timer not yet ready, so that only
  the context branch is left. Nothing is assumed of the start and of the cancellation.
* `Lifecycle`: weak fairness of `run`, of `Serve` after the listener is closed and of the
  shutdown deadline. Nothing is assumed of the poll loop, clients, signals or listener
  errors: `SignalEndsProcess` holds with a poll that hangs and a client that never finishes.
* `Startup`: the same, and weak fairness of the construction, in which nothing blocks.

## 5. Proofs

The theorems hold for every value of the constants that satisfies the named
assumptions of the modules: positive timers, a nonempty list of steps, finite sets of pollers
and error categories, responses in their types (`ResponsesAssumption`, `AnswersAssumption`,
`InputsAssumption`), and a scale `Places` that makes every readable decimal of the responses an
integer (`PlacesAssumption`; it only fixes the unit in which exact rationals are written).
All follow from an inductive invariant that is stronger than what it is for. TLC checks every
assumption on the instance of each run.

Induction over data is written without induction principles that take an operator, which the
provers cannot instantiate: `SumTheorems` derives from the library's well-founded
orderings that a set of numbers has a least element (`LeastNumber`), that a set of numbers with
zero and every successor is all of them (`NumbersReached`), and that a family of finite sets has one
that cannot be made smaller (`SmallestSet`). From these it follows what a sum over a finite set is,
element by element (`SumOfNone`, `SumWith`, `SumWithout`, `SumChanged`, `SumSame`), and that it
does not depend on how the elements are named (`SumRenamed`); the models write every sum with
`SumFunction` or `SumFunctionOnSet`.

| Theorems | Property | Argument |
|---|---|---|
| `CollectorsProofs`: `TypeCorrect`, `AgesMatchData` | `TypeOK`, `AgeMatchesData` | Types alone are not inductive: the difference taken by `Emit` is a natural number only because no snapshot is of the future (`TimesOrdered`), and a poll that has built one holds it (`DraftHeld`). The age is taken between the copy and the end of the scrape, and from the copy, so that it leads back into that interval from the copied snapshot and from no newer one. |
| `DataAreCounted`, `CountersAreMonotone` | `CountedBeforeShown`, `CountersNeverDecrease` | The number of a success is at most its endpoint's counter in the poll's hands, in the cache, in copies and in samples; each copy is at least as old as what it was taken from. |
| `PollsAreCountedOnce` | `EveryPollCountedOnce` | Beginning a poll adds one to the polls begun and to those not yet counted; `RecordRequest` adds one to the sum of the counters exactly when its poll leaves the uncounted (`PollIsCounted`); nothing else moves either. Both sides are finite because pollers and categories are. |
| `SampleLagsByOne`, `DataNeverRegress`, `CollectorsAreACache` | `SampleAtMostOneBehind`, `DataNeverRegresses`, `ImplementsLastGoodCache` | Assumes one poller (`OnePollAtATime`). What the cache holds is the last counted success, or the one before it exactly while the poller is between its two critical sections. The refinement maps each step to a step of `LastGoodCache` or a stutter. |
| `RetryClientProofs`: `TypeCorrect`, `EffortIsBounded` | `TypeOK`, `BoundedEffort` | Requests and waits are counted by the attempt they belong to; `Cap` bounds any integer, hence also what is left of a product or a doubling that wrapped around. |
| `FinalAnswersAreLast`, `ReportsAreTrue`, `ResultsAreDocumented` | `FinalAnswerEndsCall`, `ReportsLastAnswer`, `ResultIsDocumented` | The error of an answer is one that `shouldRetry` retries exactly if the answer is not final (`ErrorOfFinal`); as long as nobody cancels there is one answer for each attempt, and the error held is that of the last. |
| `ClientIsAPollCall` | `ImplementsPollCall` | Each step of `DoJSON` is a step of `PollCall` or changes nothing there; a retry keeps an attempt in hand because attempts and requests are counted together. |
| `HeadersThatFitAreHonored`, `HeadersAreHonored` | `RetryAfterHonored` | A wait is `RetryDelay` of the error held, and a status error holds its answer's header (`WaitInv`); `Wrap` is the identity on durations (`WrapFits`). The first theorem holds for any answers and speaks of the waits whose header a duration can hold. The second is the property itself, for answers whose headers all fit; that hypothesis is the border of finding `retry_overflow`, where the code and the property part. |
| `ProcessProofs`: `SpacingKept` | `StepsAreSpaced` | While waiting, the time since the last step and what the timer has left add up to the length of the wait, also when a cut spacing leads into the interval. |
| `CycleKeepsSpacing` | `StepsAreSpaced` | Every step of the cycle is a step of the loop or none of it (`CycleRunsLoop`). |
| `OneMoreStepAtMost` | `OneStepAfterCancel` | No tick passes after the cancellation, so a wait begun then keeps its whole timer and can only be cut. |
| `NoDataTooOld`, `WindowFollowsMidnight` | `AgeWithinCycle`, `WindowIsRecent` | A potential: `Until(i)` is the longest time the loop can still take to the end of its next call of step `i`. It shrinks by a tick whenever an age grows by one, no step raises it but the end of that call, and that raises it to one cycle (`GapStep`, `GapRound`). Age and potential together stay within one cycle, and one more for each miss; for a window the same holds of the time since the first midnight it missed, with one call more because it is computed before the request. |
| `ProcessProofs`: `TypeCorrect`, `ReadyIsHonest`, `ShutdownIsOrdered`, `ExitIsClean` | `TypeOK`, `ReadyMeansReady`, `ShutdownOrder`, `CleanExit` | The flag, the poll context, the budget and the listener are functions of where `run` is; `Serve` reports a clean end only after the listener was closed; a probe that saw the flag began before the shutdown. |
| `ProcessKeepsSpacing` | `StepsAreSpaced` | Every step of the process is a step of the poll loop, its start, its cancellation or none (`ProcessRunsLoop`), so that the loop's invariant carries over. |
| `SettingsHold`, `OneSourceOfTheToken` | `SettingsTakeEffect`, `OneTokenSource` | What has been built agrees with `Load`'s result at every stage, and no fallback of a constructor is ever taken, since `Validate` has let positive numbers through only. |
| `StartupKeepsLifecycle` | – | `run` waits at its start until the construction is over, and every step afterwards is one of `Lifecycle` (`StartupIsLifecycle`); its invariant carries over to `ReadyMeansReady`, `ShutdownOrder` and `CleanExit`. |
| `PayoutSummaryProofs`: `TotalsAdd`, `RefusalsAreJustified` | `TotalsAreSums`, `RefusedForGoodReason` | At position `n` of the list, `seen` holds exactly the keys of the records in the window before `n`, and each total is the sum of the amounts among them that count (`AmountNext`); the guard of `safeAddInt64` refuses exactly if that sum leaves its width (`OverflowIsOutside`), so a refusal names the position where it does. |
| `RailsIndependent` | `RailsAreIndependent` | The records of a rail stand in the joint list in their own order, at an offset (`OwnRecords`). An equal key means an equal rail, so a record is repeated in the joint list exactly if it is within its rail's (`AloneCounts`); the sums over both are equal because one renames the positions of the other (`AloneSum`). |
| `RewardSummaryProofs`: `ComponentsAdd`, `RefusalsAreJustified` | `ComponentsAreSums`, `RefusedForGoodReason` | `seen` is the set of rewards in the window passed so far, and each component is the sum over that set: a repetition changes neither. |
| `WorkerSummaryProofs`: `WorkersShownOnce`, `RefusalsAreJustified` | `EverySeriesOnce`, `RefusedForGoodReason` | Workers taken and samples made correspond one to one, and the labels noted are those of the workers taken, in any order of the names, of which the code takes the sorted one (`worker.go:265`); counting the two shows that no sample is missing or double. |
| `ProfileSummaryProofs`: `CacheShowsOneAnswer`, `RefusalsAreJustified` | `ShownAsSent`, `RefusedForGoodReason` | The cache is `Snapshot` of one answer that was decoded and built. A field can be read exactly if its kind decodes (`DecodesIfReadable`), and a decoded answer builds exactly if it is not useless (`BuildsUnlessUseless`). |

## 6. Only model-checked

Liveness (`CountedThenPublished`, `CallReturns`, `SignalEndsProcess`, `PollLoopStops`):
fairness is out of the prover's reach. Every other property of the passing runs is also a
theorem. `RetryAfterHonored` is one under the hypothesis of `HeadersAreHonored` only; without
it the property is false, as `retry_overflow` shows.

## 7. Where code and documentation disagree

Each of the first three has a run that TLC must find violated.

1. `retry_redirect`: docs/ARCHITECTURE.md:139 lists what is retried, and redirects or
   3xx are not in it. `CheckRedirect` (`client.go:136`) turns a redirect into a transport
   error, which is retried twice and counted as `transport`.
2. `retry_overflow`: docs/ARCHITECTURE.md:145 promises the five-second delay for excessive
   `Retry-After` values. `time.Duration(seconds) * time.Second` (`client.go:399`) wraps around
   first: 18446744074 seconds are a wait of 0.29 seconds.
3. `payouts_repeats`: docs/METRICS.md:121 speaks of exact repeated records. `payoutDedupKey`
   (`history.go:421`) compares the first id only, so that a transaction paying
   two accounts counts once.

Smaller ones met while reading, without a run: a request canceled in flight is
counted `transport` and not `canceled` (docs/ARCHITECTURE.md:144, which speaks of a canceled
wait); the poll interval defaults to 10 s (`config.go:20`) and not to one minute
(docs/ARCHITECTURE.md:85); the pool statistics step stands between profile and
workers (docs/ARCHITECTURE.md:35); an interval under 5 s is accepted, and is then the distance
between the last step and the first; an oversized 5xx answer is
`invalid_data` and not retried, because the size is looked at before the status; exit
status 0 is possible while a poll is still running, if the shutdown budget is spent;
the retries of a call are one and two seconds apart by default, where docs/ARCHITECTURE.md:83
speaks of about one request per five seconds; data older than five poll intervals is
called stale (docs/ARCHITECTURE.md:148), which at the defaults is 50 s, while a
cycle in which other endpoints time out can last far longer without a failure of the
endpoint in question (`AgeWithinCycle` has the bound); a null in a decimal refuses a whole
answer, and a negative or absent count of the account's workers is shown as it is or
as zero, where the same in the pool's refuses the answer.

## 8. Not modelled

* What texts are made of: addresses, paths and URLs are the classes `Validate` makes of them.
  One thing worth a test of its own: it accepts telemetry paths that `http.ServeMux`
  refuses with a panic (`server.go:36`); `Startup` has the panic as an end of the process.
* `Summary` and `Secret` of the configuration, which only format; logging; version
  information; `GET /version` and `/-/healthy`, which are constant answers.
* Float conversion on exposition (`ratToFloat64` turns an infinite sum into 0): TLC has no
  floating point.
* `SharePrice.UnmarshalJSON` and the types of endpoints nobody polls: pure decoding.
* The collectors' `Run` loops, which the program does not use.
* Grafana and Prometheus files.

## 9. Plan

Order of work: the caches first, since every metric passes through them; then the
client under them, the process around them, and the summaries.

1. Done: `LastGoodCache`, `Collectors`, `RetryClient` with `PollCall`, `PollLoop`, `PollCycle`,
   `Lifecycle`, `Startup`, the four summaries, and the proofs of section 5.
2. Next, proving: that the values the documentation's statements hold for are exactly the
   complement of the findings (redirects and repeated payouts, as `HeadersAreHonored` does for
   `Retry-After`); that `Startup` implements `Lifecycle` stated as one refinement; which of the steps
   enable each other, as far as it can be said without ENABLED, for the absence of deadlock.
