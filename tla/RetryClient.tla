---------------------------- MODULE RetryClient ----------------------------
(***************************************************************************)
(* One call of Client.DoJSON (internal/braiins/client.go): attempts, the   *)
(* decision to retry, the wait between attempts, cancellation by the       *)
(* caller's context at any moment, and the result label categorizeError    *)
(* (internal/collector/account.go) gives the error it returns.             *)
(*                                                                         *)
(* An answer is what one http.Client.Do and the reading of its body come   *)
(* to.  Durations are counted in ticks, Second of them to a second, and    *)
(* are integers of the range -Half .. Half-1 that wrap around, as Go's     *)
(* int64 nanoseconds do.                                                   *)
(***************************************************************************)
EXTENDS Integers, Sequences, SequencesExt

CONSTANTS
    Half,           \* 2^63: durations wrap at Half
    Second,         \* time.Second, in ticks
    RawPolicies,    \* Config.Retry values the caller may give
    Answers         \* what the HTTP transport may answer

ASSUME WidthAssumption == Half \in Nat /\ Second \in Nat /\ 0 < Second /\ 5 * Second < Half

Duration == -Half .. Half - 1
Wrap(x) == ((x + Half) % (2 * Half)) - Half

\* maxAttempts may be any int, the backoffs any duration.
RawPolicy == [maxAttempts : Int, initial : Duration, max : Duration, rateLimit : Duration]
Policy == [maxAttempts : 1..3, initial : 1..Half - 1, max : 1..Half - 1, rateLimit : 1..Half - 1]

ASSUME PolicyAssumption == \A raw \in RawPolicies : raw \in RawPolicy

\* A Retry-After header: a number of seconds that fits an int64, a date that is
\* `value` ticks away, or something else (absent, malformed, out of range).
RetryAfterHeader == [form : {"seconds", "date", "none"}, value : Duration]
NoHeader == [form |-> "none", value |-> 0]

\* Kinds of answers: a decodable 2xx, a 2xx that is not the expected JSON, a body
\* over 1 MiB, a non-2xx status, the per-attempt timeout, a broken connection or
\* body, a redirect (which CheckRedirect refuses).
Kinds == {"ok", "bad_json", "too_large", "status", "timeout", "broken", "redirect"}
Answer == [kind : Kinds, status : Nat, retryAfter : RetryAfterHeader]

ASSUME AnswerAssumption == \A a \in Answers : a \in Answer

VARIABLES
    policy,     \* the normalised retry policy
    wellFormed, \* NewRequest accepts the request
    ctx,        \* the caller's context: "live" or "canceled"
    pc,         \* where DoJSON is
    attempt,    \* attempt
    err,        \* the error of the last attempt; at "returned", of the call
    delay,      \* delay
    answers,    \* the answers received so far
    sent,       \* requests handed to the network
    slept       \* total time spent in completed waits

vars == <<policy, wellFormed, ctx, pc, attempt, err, delay, answers, sent, slept>>

-----------------------------------------------------------------------------
(* Errors                                                                  *)

Error(type, status, retryAfter) == [type |-> type, status |-> status, retryAfter |-> retryAfter]
Plain(type) == Error(type, 0, NoHeader)
ErrorTypes == {"nil", "request", "canceled", "transport", "transport_timeout",
               "too_large", "status", "decode"}
Errors == [type : ErrorTypes, status : Nat, retryAfter : RetryAfterHeader]

\* doJSONOnce: the error an answer is turned into.  A refused redirect is an
\* error of http.Client.Do and therefore a transport error.
ErrorOf(a) ==
    CASE a.kind = "ok"       -> Plain("nil")
      [] a.kind = "bad_json" -> Plain("decode")
      [] a.kind = "too_large" -> Plain("too_large")
      [] a.kind = "status"   -> Error("status", a.status, a.retryAfter)
      [] a.kind = "timeout"  -> Plain("transport_timeout")
      [] a.kind \in {"broken", "redirect"} -> Plain("transport")

ServerStatus(code) == code \in 500..599

\* Mutation of ShouldRetry: JSON errors count as transport errors.
RetryDecodeToo(e) ==
    /\ e.type # "nil"
    /\ ctx = "live"
    /\ \/ e.type = "status" /\ (e.status = 429 \/ ServerStatus(e.status))
       \/ e.type \in {"transport", "transport_timeout", "decode"}

\* Mutation of ShouldRetry: server errors are final.
RetryNoServerError(e) ==
    /\ e.type # "nil"
    /\ ctx = "live"
    /\ \/ e.type = "status" /\ e.status = 429
       \/ e.type \in {"transport", "transport_timeout"}

\* Mutation of ShouldRetry: a canceled context is not looked at.
RetryThoughCanceled(e) ==
    \/ e.type = "status" /\ (e.status = 429 \/ ServerStatus(e.status))
    \/ e.type \in {"transport", "transport_timeout"}

\* shouldRetry.
ShouldRetry(e) ==
    /\ e.type # "nil"
    /\ ctx = "live"
    /\ \/ e.type = "status" /\ (e.status = 429 \/ ServerStatus(e.status))
       \/ e.type \in {"transport", "transport_timeout"}

\* Mutation of Category: no case for a canceled wait.
CategoryWithoutCanceled(e) ==
    CASE e.type = "nil"       -> "success"
      [] e.type = "status"    -> "http_error"
      [] e.type = "decode"    -> "decode"
      [] e.type = "too_large" -> "invalid_data"
      [] e.type = "transport_timeout" -> "timeout"
      [] e.type = "transport" -> "transport"
      [] OTHER                -> "error"

\* categorizeError.
Category(e) ==
    CASE e.type = "nil"       -> "success"
      [] e.type = "status"    ->
            (CASE e.status = 401 -> "unauthorized"
               [] e.status = 403 -> "forbidden"
               [] e.status = 429 -> "rate_limited"
               [] ServerStatus(e.status) -> "server"
               [] OTHER -> "http_error")
      [] e.type = "decode"    -> "decode"
      [] e.type = "too_large" -> "invalid_data"
      [] e.type = "transport_timeout" -> "timeout"
      [] e.type = "transport" -> "transport"
      [] e.type = "canceled"  -> "canceled"
      [] OTHER                -> "error"

-----------------------------------------------------------------------------
(* Delays                                                                  *)

Positive(x, default) == IF x <= 0 THEN default ELSE x

\* normalizeRetryPolicy.
Normalize(raw) ==
    [maxAttempts |-> IF raw.maxAttempts \in 1..3 THEN raw.maxAttempts ELSE 3,
     initial     |-> Positive(raw.initial, Second),
     max         |-> Positive(raw.max, 5 * Second),
     rateLimit   |-> Positive(raw.rateLimit, 5 * Second)]

\* parseRetryAfter: whether the header names a delay, and the delay.
Usable(header) == header.form # "none" /\ header.value >= 0
\* Mutation of HeaderDelay: seconds taken for ticks.
HeaderTicks(header) == header.value

HeaderDelay(header) ==
    IF header.form = "seconds" THEN Wrap(header.value * Second) ELSE header.value

\* Mutation of Cap: negative values pass.
CapAboveOnly(value, max) == IF value > max THEN max ELSE value

\* capDuration.
Cap(value, max) == IF value < 0 \/ value > max THEN max ELSE value

\* retryDelay.  Only the first two of three attempts are followed by a wait.
\* The exponential is a float64 converted to int64: out of range it is negative.
Exponential(initial, n) ==
    LET product == IF n = 1 THEN initial ELSE 2 * initial IN
    IF product \in Duration THEN product ELSE -Half

RetryDelay(e, n) ==
    IF e.type = "status" /\ e.status = 429
    THEN Cap(IF Usable(e.retryAfter) THEN HeaderDelay(e.retryAfter) ELSE policy.rateLimit, policy.max)
    ELSE Cap(Exponential(policy.initial, n), policy.max)

-----------------------------------------------------------------------------
(* DoJSON                                                                  *)

Init ==
    /\ \E raw \in RawPolicies : policy = Normalize(raw)
    /\ wellFormed \in BOOLEAN
    /\ ctx \in {"live", "canceled"}
    /\ pc = "attempt"
    /\ attempt = 1
    /\ err = Plain("nil")
    /\ delay = 0
    /\ answers = <<>>
    /\ sent = 0
    /\ slept = 0

\* The caller cancels: main.go stops polling when a signal arrives.
Cancel ==
    /\ pc # "returned"
    /\ ctx = "live"
    /\ ctx' = "canceled"
    /\ UNCHANGED <<policy, wellFormed, pc, attempt, err, delay, answers, sent, slept>>

\* doJSONOnce up to the network: NewRequest may refuse, and http.Client.Do does
\* not send a request whose context is already done.
BeginAttempt ==
    /\ pc = "attempt"
    /\ \/ /\ ~wellFormed
          /\ err' = Plain("request")
          /\ pc' = "failed"
          /\ UNCHANGED sent
       \/ /\ wellFormed /\ ctx = "canceled"
          /\ err' = Plain("transport")
          /\ pc' = "failed"
          /\ UNCHANGED sent
       \/ /\ wellFormed /\ ctx = "live"
          /\ sent' = sent + 1
          /\ pc' = "inflight"
          /\ UNCHANGED err
    /\ UNCHANGED <<policy, wellFormed, ctx, attempt, delay, answers, slept>>

\* An answer arrives; it may do so although the context was canceled meanwhile.
Receive(a) ==
    /\ pc = "inflight"
    /\ answers' = Append(answers, a)
    /\ err' = ErrorOf(a)
    /\ pc' = IF a.kind = "ok" THEN "returned" ELSE "failed"
    /\ UNCHANGED <<policy, wellFormed, ctx, attempt, delay, sent, slept>>

\* Cancellation cuts the request in flight; its text alone is kept
\* (safeTransportError), so it is a transport error from here on.
Abort ==
    /\ pc = "inflight"
    /\ ctx = "canceled"
    /\ err' = Plain("transport")
    /\ pc' = "failed"
    /\ UNCHANGED <<policy, wellFormed, ctx, attempt, delay, answers, sent, slept>>

\* Mutation of GiveUp: nothing is done after the last attempt.
GiveUpOnFinalOnly ==
    /\ pc = "failed"
    /\ ~ShouldRetry(err)
    /\ pc' = "returned"
    /\ UNCHANGED <<policy, wellFormed, ctx, attempt, err, delay, answers, sent, slept>>

GiveUp ==
    /\ pc = "failed"
    /\ ~ShouldRetry(err) \/ attempt = policy.maxAttempts
    /\ pc' = "returned"
    /\ UNCHANGED <<policy, wellFormed, ctx, attempt, err, delay, answers, sent, slept>>

\* Mutation of Backoff: one attempt too many.
BackoffOnceMore ==
    /\ pc = "failed"
    /\ ShouldRetry(err)
    /\ attempt <= policy.maxAttempts
    /\ delay' = RetryDelay(err, attempt)
    /\ pc' = "sleeping"
    /\ UNCHANGED <<policy, wellFormed, ctx, attempt, err, answers, sent, slept>>

Backoff ==
    /\ pc = "failed"
    /\ ShouldRetry(err)
    /\ attempt < policy.maxAttempts
    /\ delay' = RetryDelay(err, attempt)
    /\ pc' = "sleeping"
    /\ UNCHANGED <<policy, wellFormed, ctx, attempt, err, answers, sent, slept>>

\* timerSleeper.Sleep returns nil: the timer fired, or there was nothing to wait.
Wake ==
    /\ pc = "sleeping"
    /\ slept' = slept + delay
    /\ attempt' = attempt + 1
    /\ delay' = 0
    /\ pc' = "attempt"
    /\ UNCHANGED <<policy, wellFormed, ctx, err, answers, sent>>

\* timerSleeper.Sleep returns ctx.Err(), and DoJSON returns it.
SleepCut ==
    /\ pc = "sleeping"
    /\ delay > 0
    /\ ctx = "canceled"
    /\ err' = Plain("canceled")
    /\ delay' = 0
    /\ pc' = "returned"
    /\ UNCHANGED <<policy, wellFormed, ctx, attempt, answers, sent, slept>>

Step ==
    \/ BeginAttempt
    \/ \E a \in Answers : Receive(a)
    \/ Abort
    \/ GiveUp
    \/ Backoff
    \/ Wake
    \/ SleepCut

Next == Cancel \/ Step

\* Every attempt ends by itself: the client has a timeout, and timers fire.
Spec == Init /\ [][Next]_vars /\ WF_vars(Step)

-----------------------------------------------------------------------------
(* Properties                                                              *)

TypeOK ==
    /\ policy \in Policy
    /\ wellFormed \in BOOLEAN
    /\ ctx \in {"live", "canceled"}
    /\ pc \in {"attempt", "inflight", "failed", "sleeping", "returned"}
    /\ attempt \in 1..3
    /\ err \in Errors
    /\ delay \in Nat
    /\ answers \in Seq(Answer)
    /\ sent \in Nat
    /\ slept \in Nat

\* The worst a call can cost: no more requests than attempts, no more attempts
\* than the policy allows, and never a wait longer than MaxBackoff, so that a
\* poll of main.go's client waits at most two times five seconds between
\* requests, whatever Retry-After headers it meets.
BoundedEffort ==
    /\ sent <= attempt
    /\ attempt <= policy.maxAttempts
    /\ delay <= policy.max
    /\ pc = "sleeping" => attempt < policy.maxAttempts
    /\ slept <= (attempt - 1) * policy.max

\* An answer that is final is the last one: what was decoded (or failed to
\* decode) into the caller's value is never followed by a second answer decoded
\* into it, and neither a refusal (4xx) nor an oversized body is asked for again.
FinalAnswer(a) ==
    \/ a.kind \in {"ok", "bad_json", "too_large"}
    \/ a.kind = "status" /\ a.status # 429 /\ ~ServerStatus(a.status)

FinalAnswerEndsCall ==
    \A i \in 1..Len(answers) : FinalAnswer(answers[i]) => i = Len(answers) /\ pc \in {"failed", "returned"}

\* What the call reports is what happened last: success only if the last answer
\* was decoded, and as long as nobody canceled, the error of the last answer,
\* which is a transient one only after every attempt was used up.
ReportsLastAnswer ==
    pc = "returned" =>
        /\ err.type = "nil" => answers # <<>> /\ Last(answers).kind = "ok"
        /\ ctx = "live" /\ wellFormed =>
              /\ answers # <<>> /\ err = ErrorOf(Last(answers))
              /\ FinalAnswer(Last(answers)) \/ Len(answers) = policy.maxAttempts

\* Every poll is counted under one of the results docs/ARCHITECTURE.md lists, and
\* under "canceled" only if the caller did cancel; the catch-all "error" of
\* categorizeError is for requests that no collector makes.
DocumentedResults ==
    {"success", "unauthorized", "forbidden", "rate_limited", "timeout", "transport", "server",
     "decode", "invalid_data", "limit_exceeded", "canceled", "http_error"}

ResultIsDocumented ==
    pc = "returned" =>
        /\ wellFormed => Category(err) \in DocumentedResults
        /\ Category(err) = "canceled" => ctx = "canceled"

\* A wait after HTTP 429 is as long as the Retry-After header says in seconds or
\* by its date, up to MaxBackoff (docs/ARCHITECTURE.md, rate-limit behavior).
RetryAfterHonored ==
    pc = "sleeping" /\ err.type = "status" /\ err.status = 429 /\ Usable(err.retryAfter) =>
        LET value == err.retryAfter.value
            asked == IF err.retryAfter.form = "seconds" THEN value * Second ELSE value
        IN  delay = IF asked > policy.max THEN policy.max ELSE asked

\* Every call returns: no sequence of answers keeps a poll, and with it the
\* serial poll loop, from going on.
CallReturns == <>(pc = "returned")

\* The call as the poll loop sees it.  A request that is not sent, because the
\* context is done or NewRequest refuses it, leaves the call between requests.
Phase ==
    CASE pc = "returned" -> IF err.type = "nil" THEN "succeeded" ELSE "failed"
      [] pc = "inflight" \/ (pc = "failed" /\ sent = attempt) -> "asking"
      [] OTHER -> "between"

Call == INSTANCE PollCall WITH MaxAttempts <- 3, phase <- Phase

\* Whatever the answers and whenever the caller cancels, a call is one of PollCall:
\* a retry waits for the end of the attempt before and is never begun by a canceled
\* caller, and the third failure ends the poll (docs/ARCHITECTURE.md, retry count).
ImplementsPollCall == Call!Spec

\* Only transient transport failures, timeouts, HTTP 429 and HTTP 5xx are retried
\* (docs/ARCHITECTURE.md, retry eligibility).
RetriesOnlyTransient ==
    \A i \in 1..Len(answers) - 1 :
        LET a == answers[i] IN
        \/ a.kind \in {"timeout", "broken"}
        \/ a.kind = "status" /\ (a.status = 429 \/ ServerStatus(a.status))
=============================================================================
