--------------------------- MODULE MCRetryClient ---------------------------
(* A small width for RetryClient: 4 ticks to a second, durations of 7 bits.  *)
EXTENDS RetryClient

\* The zero policy main.go passes, one asking for more than three attempts, one
\* whose doubled backoff overflows, and one of a single attempt.
MCRawPolicies ==
    {[maxAttempts |-> 0, initial |-> 0, max |-> 0, rateLimit |-> 0],
     [maxAttempts |-> 9, initial |-> 2, max |-> 12, rateLimit |-> 16],
     [maxAttempts |-> 3, initial |-> 40, max |-> 60, rateLimit |-> -3],
     [maxAttempts |-> 1, initial |-> 8, max |-> 4, rateLimit |-> 4]}

Of(kind, status) == [kind |-> kind, status |-> status, retryAfter |-> NoHeader]
RateLimited(form, value) ==
    [kind |-> "status", status |-> 429, retryAfter |-> [form |-> form, value |-> value]]

\* Everything but Retry-After values whose product with a second overflows.
MCAnswers ==
    {Of("ok", 200), Of("bad_json", 200), Of("too_large", 200), Of("timeout", 0),
     Of("broken", 0), Of("redirect", 302), Of("status", 401), Of("status", 404),
     Of("status", 503),
     RateLimited("none", 0), RateLimited("seconds", 0), RateLimited("seconds", 1),
     RateLimited("seconds", 6), RateLimited("seconds", -1),
     RateLimited("date", 7), RateLimited("date", 50), RateLimited("date", -9)}

\* 33 seconds are 132 ticks, which wrap around to 4: one second.
MCOverflowAnswers == {RateLimited("seconds", 33), Of("ok", 200)}
=============================================================================
