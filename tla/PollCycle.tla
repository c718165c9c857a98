----------------------------- MODULE PollCycle ------------------------------
(***************************************************************************)
(* The poll loop at work: every step is a call of the API client           *)
(* (PollCall, which RetryClient implements), a successful one replaces the *)
(* last good snapshot of its endpoint, and time passes in the requests,    *)
(* the backoffs and the waits of the loop.  What scrapes report as data    *)
(* age, and the date window behind the history totals, follow from it.     *)
(*                                                                         *)
(* A request takes up to Timeout, a backoff up to MaxBackoff.  A tick      *)
(* passes only while the goroutine waits for something that is not ready:  *)
(* the computing between two waits takes no time, and a canceled context   *)
(* wakes every wait.                                                       *)
(***************************************************************************)
EXTENDS PollLoop

CONSTANTS
    MaxAttempts,    \* attempts of a call
    Timeout,        \* BRAIINS_POOL_TIMEOUT, per attempt, in ticks
    MaxBackoff,     \* RetryPolicy.MaxBackoff, in ticks
    Day,            \* a day, in ticks
    History,        \* the endpoints polled with a date window
    MaxMisses,      \* bound: consecutive failures that are told apart
    None

ASSUME AttemptsAssumption == MaxAttempts \in Nat \ {0}
ASSUME DurationAssumption ==
    Timeout \in Nat \ {0} /\ MaxBackoff \in Nat /\ Day \in Nat \ {0} /\ MaxMisses \in Nat
ASSUME DistinctSteps == \A i, j \in DOMAIN Steps : Steps[i] = Steps[j] => i = j
ASSUME NoneAssumption == None \notin Nat

VARIABLES
    call,       \* the call of the step: a phase of PollCall, or "none"
    sent,       \* its requests so far
    left,       \* ticks until the request times out, or the backoff is over
    age,        \* per endpoint: ticks since collectedAt, or None
    misses,     \* per endpoint: unsuccessful polls since
    now,        \* ticks since midnight UTC
    opened,     \* midnights since dateWindow of the current call
    windowAge,  \* per endpoint: midnights since dateWindow of the cached snapshot
    afterCancel \* steps begun since stopPolling

callState == <<call, sent, left>>
dataState == <<age, misses, windowAge>>
cycleVars == <<loopVars, callState, dataState, now, opened, afterCancel>>

Call == INSTANCE PollCall WITH ctx <- pollCtx, phase <- call

Endpoints == {Steps[i] : i \in DOMAIN Steps}
Endpoint == Steps[index]

\* The longest call, and the longest way from the end of a step round to its next end.
CallBound == MaxAttempts * Timeout + (MaxAttempts - 1) * MaxBackoff
Cycle == Len(Steps) * CallBound + (Len(Steps) - 1) * Spacing + Interval

AtMost(n, bound) == IF n > bound THEN bound ELSE n
OldestAge == (MaxMisses + 1) * Cycle + 1

CycleInit ==
    /\ LoopInit
    /\ call = "none"
    /\ sent = 0
    /\ left = 0
    /\ age = [e \in Endpoints |-> None]
    /\ misses = [e \in Endpoints |-> 0]
    /\ windowAge = [e \in Endpoints |-> 0]
    /\ now \in 0..Day - 1
    /\ opened = 0
    /\ afterCancel = 0

StartPolling == StartLoop /\ UNCHANGED <<callState, dataState, now, opened, afterCancel>>
CancelPolling == CancelLoop /\ UNCHANGED <<callState, dataState, now, opened, afterCancel>>

-----------------------------------------------------------------------------
(* A step                                                                  *)

\* Mutation of BeginPoll: the window is computed once and kept.
BeginPollOldWindow ==
    /\ BeginStep
    /\ call' = "between"
    /\ sent' = 0
    /\ left' = 0
    /\ afterCancel' = IF pollCtx = "canceled" THEN AtMost(afterCancel + 1, 2) ELSE afterCancel
    /\ UNCHANGED <<dataState, now, opened>>

\* Poll...: dateWindow first, where there is one, then the call.
BeginPoll ==
    /\ BeginStep
    /\ call' = "between"
    /\ sent' = 0
    /\ left' = 0
    /\ opened' = 0
    /\ afterCancel' = IF pollCtx = "canceled" THEN AtMost(afterCancel + 1, 2) ELSE afterCancel
    /\ UNCHANGED <<dataState, now>>

SendRequest ==
    /\ left = 0
    /\ Call!Send
    /\ left' = Timeout
    /\ UNCHANGED <<loop, index, timer, quiet, dataState, now, opened, afterCancel>>

\* Answered before the timeout, or ended by it or by the cancellation.
EndRequest ==
    /\ Call!Succeed \/ Call!Fail
    /\ left' = 0
    /\ UNCHANGED <<loop, index, timer, quiet, dataState, now, opened, afterCancel>>

BackOff ==
    /\ Call!Retry
    /\ left' \in 0..MaxBackoff
    /\ UNCHANGED <<loop, index, timer, quiet, dataState, now, opened, afterCancel>>

\* A canceled backoff is cut, and a canceled request is not sent.
GiveUp ==
    /\ pollCtx = "canceled"
    /\ Call!Refuse
    /\ left' = 0
    /\ UNCHANGED <<loop, index, timer, quiet, dataState, now, opened, afterCancel>>

\* A valid snapshot is built, dated and published.
EndPollWithData ==
    /\ call = "succeeded"
    /\ EndStep
    /\ call' = "none"
    /\ age' = [age EXCEPT ![Endpoint] = 0]
    /\ misses' = [misses EXCEPT ![Endpoint] = 0]
    /\ windowAge' = [windowAge EXCEPT ![Endpoint] = IF Endpoint \in History THEN opened ELSE 0]
    /\ UNCHANGED <<sent, left, now, opened, afterCancel>>

\* The call failed, or its answer was refused as invalid data: the cache stays.
EndPollWithout ==
    /\ call \in {"succeeded", "failed"}
    /\ EndStep
    /\ call' = "none"
    /\ misses' = [misses EXCEPT ![Endpoint] = AtMost(@ + 1, MaxMisses + 1)]
    /\ UNCHANGED <<sent, left, age, windowAge, now, opened, afterCancel>>

-----------------------------------------------------------------------------
(* Between the steps                                                       *)

Idle == UNCHANGED <<callState, dataState, now, opened, afterCancel>>

NextStep == SpacingOver /\ Idle
NextCycle == IntervalOver /\ Idle
CutSpacing == SpacingCut /\ Idle
CutInterval == IntervalCut /\ Idle

\* A tick of the clock ages every snapshot, and at midnight every window.
ClockTicks ==
    /\ now' = IF now = Day - 1 THEN 0 ELSE now + 1
    /\ age' = [e \in Endpoints |-> IF age[e] = None THEN None ELSE AtMost(age[e] + 1, OldestAge)]
    /\ opened' = IF now' = 0 THEN AtMost(opened + 1, 2) ELSE opened
    /\ windowAge' = [e \in Endpoints |-> IF now' = 0 /\ e \in History /\ age[e] # None
                                        THEN AtMost(windowAge[e] + 1, 2) ELSE windowAge[e]]
    /\ UNCHANGED <<misses, call, sent, afterCancel>>

WaitInLoop ==
    /\ pollCtx = "live"
    /\ Elapse
    /\ ClockTicks
    /\ UNCHANGED left

WaitInCall ==
    /\ pollCtx = "live"
    /\ call \in {"between", "asking"}
    /\ left > 0
    /\ left' = left - 1
    /\ ClockTicks
    /\ UNCHANGED loopVars

CycleStep ==
    \/ BeginPoll \/ SendRequest \/ EndRequest \/ BackOff \/ GiveUp
    \/ EndPollWithData \/ EndPollWithout
    \/ NextStep \/ NextCycle \/ CutSpacing \/ CutInterval
    \/ WaitInLoop \/ WaitInCall

CycleNext == StartPolling \/ CancelPolling \/ CycleStep

\* The goroutine goes on whenever it can; nothing is assumed of its start and of
\* the cancellation.
CycleSpec == CycleInit /\ [][CycleNext]_cycleVars /\ WF_cycleVars(CycleStep)

-----------------------------------------------------------------------------
(* Properties                                                              *)

\* What braiins_pool_data_age_seconds can show: with nothing but successful polls of
\* its endpoint never more than the longest cycle, and one cycle more for each
\* failure since, whatever the other endpoints do and however long their retries
\* last.  No endpoint is starved.
AgeWithinCycle ==
    \A e \in Endpoints :
        age[e] # None /\ misses[e] <= MaxMisses => age[e] <= (misses[e] + 1) * Cycle

\* The totals of a history endpoint are of today's window again at most one cycle,
\* and one call, after midnight (one cycle more for each failed poll), although the
\* window is computed before the request and its retries.
WindowIsRecent ==
    \A e \in History \cap Endpoints :
        windowAge[e] > 0 /\ misses[e] <= MaxMisses =>
            (windowAge[e] - 1) * Day + now <= (misses[e] + 1) * Cycle + CallBound

\* Once polling is canceled at most one more step begins, although the selects
\* choose at random among what is ready and a cut spacing leads into another wait;
\* that step sends nothing.
OneStepAfterCancel == afterCancel <= 1
=============================================================================
