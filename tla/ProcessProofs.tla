---------------------------- MODULE ProcessProofs ----------------------------
(***************************************************************************)
(* Safety of the exporter process from its start to its end, and of the    *)
(* poll loop in it: proofs about PollLoop, PollCycle, Lifecycle and        *)
(* Startup, in this order, for any steps, durations, attempts, probes,     *)
(* requests in progress and inputs.                                        *)
(***************************************************************************)
EXTENDS PollCycle, Startup, TLAPS

-----------------------------------------------------------------------------
(* The poll loop keeps its spacing, for any steps, spacing and interval.   *)
(* The argument is a sum: during a wait the time since the last step and   *)
(* what the timer has left come to the length of the wait at least, and    *)
(* when the timer fires the second part is zero.                           *)

WaitInv ==
    /\ loop = "unstarted" => index = 1 /\ quiet = LongestWait
    /\ loop = "spacing" => index < Len(Steps) /\ quiet + timer >= Spacing
    /\ loop = "interval" => quiet + timer >= Interval

LoopInv == LoopTypeOK /\ WaitInv /\ StepsAreSpaced

\* The longest wait is a positive number, at least as long as both waits.
LEMMA LongestWaitType ==
    LongestWait \in Nat \ {0} /\ Spacing <= LongestWait /\ Interval <= LongestWait
BY TimerAssumption DEF LongestWait

\* There is at least one step.
LEMMA StepsType == Len(Steps) \in Nat /\ Len(Steps) >= 1
BY StepsAssumption

LEMMA LoopInvInit == LoopInit => LoopInv
BY LongestWaitType, StepsType, TimerAssumption
   DEF LoopInit, LoopInv, LoopTypeOK, WaitInv, StepsAreSpaced

\* Every action of the loop, its start and its cancellation keep the invariant.
LEMMA LoopInvNext == LoopInv /\ [LoopNext]_loopVars => LoopInv'
<1> SUFFICES ASSUME LoopInv, [LoopNext]_loopVars PROVE LoopInv'
  OBVIOUS
<1> USE LongestWaitType, StepsType, TimerAssumption DEF LoopInv, LoopTypeOK, WaitInv, StepsAreSpaced
<1>1. CASE StartLoop
  BY <1>1 DEF StartLoop
<1>2. CASE CancelLoop
  BY <1>2 DEF CancelLoop
<1>3. CASE BeginStep
  BY <1>3 DEF BeginStep
<1>4. CASE EndStep
  BY <1>4 DEF EndStep
<1>5. CASE SpacingOver
  BY <1>5 DEF SpacingOver
<1>6. CASE SpacingCut
  BY <1>6 DEF SpacingCut
<1>7. CASE IntervalOver
  BY <1>7 DEF IntervalOver
<1>8. CASE IntervalCut
  BY <1>8 DEF IntervalCut
<1>9. CASE Elapse
  BY <1>9 DEF Elapse
<1>10. CASE UNCHANGED loopVars
  BY <1>10 DEF loopVars
<1>11. QED
  BY <1>1, <1>2, <1>3, <1>4, <1>5, <1>6, <1>7, <1>8, <1>9, <1>10 DEF LoopNext, LoopStep

\* Steps are spaced, whatever the loop polls, however long it waits and whenever it
\* is canceled (runPollSteps).
THEOREM SpacingKept == LoopSpec => []StepsAreSpaced
<1>1. LoopInv => StepsAreSpaced
  BY DEF LoopInv
<1>2. QED
  BY <1>1, LoopInvInit, LoopInvNext, PTL DEF LoopSpec

-----------------------------------------------------------------------------
(* The poll loop at work, for any steps, durations and number of attempts: *)
(* nothing is older than the longest cycle, and at most one step begins    *)
(* after the cancellation.                                                 *)
(*                                                                         *)
(* The argument for ages is a potential: Until(i) is the longest time the  *)
(* loop can still take to the end of its next call of step i.  It shrinks  *)
(* by a tick whenever an age grows by one, no step of the loop raises it   *)
(* but the end of the call itself, and that raises it to a cycle.          *)

CycleTypeOK ==
    /\ call \in {"none", "between", "asking", "succeeded", "failed"}
    /\ loop = "polling" <=> call # "none"
    /\ sent \in 0..MaxAttempts
    /\ left \in Nat
    /\ age \in [Endpoints -> Nat \cup {None}]
    /\ misses \in [Endpoints -> Nat]
    /\ windowAge \in [Endpoints -> 0..2]
    /\ now \in 0..Day - 1
    /\ opened \in 0..2

TypeInv == LoopInv /\ CycleTypeOK

-----------------------------------------------------------------------------
(* Types                                                                   *)

LEMMA BoundTypes ==
    /\ CallBound \in Nat /\ Cycle \in Nat /\ OldestAge \in Nat
    /\ CallBound = MaxAttempts * (Timeout + MaxBackoff) - MaxBackoff
    /\ Cycle = (Len(Steps) - 1) * (Spacing + CallBound) + CallBound + Interval
<1>1. CallBound \in Nat /\ CallBound = MaxAttempts * (Timeout + MaxBackoff) - MaxBackoff
  BY AttemptsAssumption, DurationAssumption DEF CallBound
<1>2. Cycle \in Nat /\ Cycle = (Len(Steps) - 1) * (Spacing + CallBound) + CallBound + Interval
  BY <1>1, TimerAssumption, StepsType DEF Cycle
<1>3. OldestAge \in Nat
  BY <1>2, DurationAssumption DEF OldestAge
<1>4. QED
  BY <1>1, <1>2, <1>3

LEMMA AtMostType ==
    ASSUME NEW n \in Nat, NEW bound \in Nat
    PROVE  AtMost(n, bound) \in Nat /\ AtMost(n, bound) <= n /\ AtMost(n, bound) <= bound
BY DEF AtMost

LEMMA OlderType ==
    ASSUME NEW n \in Nat
    PROVE  AtMost(n + 1, OldestAge) \in Nat /\ AtMost(n + 1, OldestAge) <= n + 1
<1>1. n + 1 \in Nat /\ OldestAge \in Nat
  BY BoundTypes
<1>2. QED
  BY <1>1, AtMostType

LEMMA EndpointType == LoopTypeOK => Endpoint \in Endpoints
BY StepsType DEF LoopTypeOK, Endpoint, Endpoints

\* Of the poll loop's own actions, the cycle takes each when the loop would.
LEMMA CycleRunsLoop == [CycleNext]_cycleVars => [LoopNext]_loopVars
<1> SUFFICES ASSUME [CycleNext]_cycleVars PROVE [LoopNext]_loopVars
  OBVIOUS
<1>1. CASE StartPolling \/ CancelPolling
  BY <1>1 DEF StartPolling, CancelPolling, LoopNext
<1>2. CASE BeginPoll \/ EndPollWithData \/ EndPollWithout
  BY <1>2 DEF BeginPoll, EndPollWithData, EndPollWithout, LoopNext, LoopStep
<1>3. CASE SendRequest \/ EndRequest \/ BackOff \/ GiveUp
  BY <1>3 DEF SendRequest, EndRequest, BackOff, GiveUp, Call!Send, Call!Succeed, Call!Fail,
              Call!Retry, Call!Refuse, loopVars
<1>4. CASE NextStep \/ NextCycle \/ CutSpacing \/ CutInterval \/ WaitInLoop
  BY <1>4 DEF NextStep, NextCycle, CutSpacing, CutInterval, WaitInLoop, LoopNext, LoopStep
<1>5. CASE WaitInCall \/ UNCHANGED cycleVars
  BY <1>5 DEF WaitInCall, cycleVars
<1>6. QED
  BY <1>1, <1>2, <1>3, <1>4, <1>5 DEF CycleNext, CycleStep

LEMMA TypeInvInit == CycleInit => TypeInv
BY LoopInvInit, AttemptsAssumption, DurationAssumption DEF CycleInit, TypeInv, CycleTypeOK, LoopInit

\* A tick keeps the types of what ages.
LEMMA TickTypes ==
    ASSUME TypeInv, ClockTicks
    PROVE  /\ age' \in [Endpoints -> Nat \cup {None}]
           /\ windowAge' \in [Endpoints -> 0..2]
           /\ now' \in 0..Day - 1
           /\ opened' \in 0..2
<1> USE DEF TypeInv, CycleTypeOK
<1>1. \A e \in Endpoints : age[e] # None => AtMost(age[e] + 1, OldestAge) \in Nat
  <2> SUFFICES ASSUME NEW e \in Endpoints, age[e] # None PROVE AtMost(age[e] + 1, OldestAge) \in Nat
    OBVIOUS
  <2>1. age[e] \in Nat
    OBVIOUS
  <2>2. QED
    BY <2>1, OlderType
<1>2. \A e \in Endpoints : AtMost(windowAge[e] + 1, 2) \in 0..2
  BY DEF AtMost
<1>3. age' \in [Endpoints -> Nat \cup {None}] /\ windowAge' \in [Endpoints -> 0..2]
  BY <1>1, <1>2 DEF ClockTicks
<1>4. now' \in 0..Day - 1
  <2>1. now' = IF now = Day - 1 THEN 0 ELSE now + 1
    BY DEF ClockTicks
  <2>2. QED
    BY <2>1, DurationAssumption
<1>5. opened' \in 0..2
  BY DEF ClockTicks, AtMost
<1>6. QED
  BY <1>3, <1>4, <1>5

LEMMA TypeInvNext == TypeInv /\ [CycleNext]_cycleVars => TypeInv'
<1> SUFFICES ASSUME TypeInv, [CycleNext]_cycleVars PROVE CycleTypeOK'
  BY LoopInvNext, CycleRunsLoop DEF TypeInv
<1> USE AttemptsAssumption, DurationAssumption DEF TypeInv, CycleTypeOK, dataState, callState
<1>1. CASE StartPolling \/ CancelPolling
  BY <1>1 DEF StartPolling, CancelPolling, StartLoop, CancelLoop
<1>2. CASE BeginPoll
  BY <1>2 DEF BeginPoll, BeginStep
<1>3. CASE SendRequest \/ EndRequest
  BY <1>3 DEF SendRequest, EndRequest, Call!Send, Call!Succeed, Call!Fail
<1>4. CASE BackOff \/ GiveUp
  BY <1>4 DEF BackOff, GiveUp, Call!Retry, Call!Refuse
<1>5. CASE EndPollWithData
  <2>1. Endpoint \in Endpoints
    BY EndpointType DEF LoopInv
  <2>2. age' \in [Endpoints -> Nat \cup {None}] /\ misses' \in [Endpoints -> Nat]
    BY <1>5, <2>1 DEF EndPollWithData
  <2>3. windowAge' \in [Endpoints -> 0..2]
    BY <1>5, <2>1 DEF EndPollWithData
  <2>4. QED
    BY <1>5, <2>2, <2>3 DEF EndPollWithData, EndStep
<1>6. CASE EndPollWithout
  <2>1. AtMost(misses[Endpoint] + 1, MaxMisses + 1) \in Nat
    BY EndpointType, AtMostType DEF LoopInv
  <2>2. misses' \in [Endpoints -> Nat]
    BY <1>6, <2>1 DEF EndPollWithout
  <2>3. QED
    BY <1>6, <2>2 DEF EndPollWithout, EndStep
<1>7. CASE NextStep \/ NextCycle \/ CutSpacing \/ CutInterval
  BY <1>7 DEF NextStep, NextCycle, CutSpacing, CutInterval, Idle, SpacingOver, IntervalOver,
              SpacingCut, IntervalCut
<1>8. CASE WaitInLoop
  BY <1>8, TickTypes DEF WaitInLoop, Elapse, ClockTicks
<1>9. CASE WaitInCall
  BY <1>9, TickTypes DEF WaitInCall, ClockTicks, loopVars
<1>10. CASE UNCHANGED cycleVars
  BY <1>10 DEF cycleVars, loopVars
<1>11. QED
  BY <1>1, <1>2, <1>3, <1>4, <1>5, <1>6, <1>7, <1>8, <1>9, <1>10 DEF CycleNext, CycleStep

LEMMA TypeInvariance == CycleSpec => []TypeInv
BY TypeInvInit, TypeInvNext, PTL DEF CycleSpec

\* Calls of the API keep their distance, however long each takes (runPollSteps).
THEOREM CycleKeepsSpacing == CycleSpec => []StepsAreSpaced
<1>1. TypeInv => StepsAreSpaced
  BY DEF TypeInv, LoopInv
<1>2. QED
  BY <1>1, TypeInvariance, PTL

-----------------------------------------------------------------------------
(* After the cancellation                                                  *)

\* The step that began then is still under way, or waited for, or the loop is over:
\* no tick passes, so that the timer of the wait stays as it was set.
AfterInv ==
    /\ afterCancel \in {0, 1}
    /\ pollCtx = "live" => afterCancel = 0
    /\ afterCancel = 1 => \/ loop \in {"polling", "done"}
                          \/ loop \in {"spacing", "interval"} /\ timer > 0

LEMMA AfterInvNext == TypeInv /\ AfterInv /\ [CycleNext]_cycleVars => AfterInv'
<1> SUFFICES ASSUME TypeInv, AfterInv, [CycleNext]_cycleVars PROVE AfterInv'
  OBVIOUS
<1> USE TimerAssumption DEF TypeInv, LoopInv, LoopTypeOK, AfterInv
<1>1. CASE StartPolling \/ CancelPolling
  BY <1>1 DEF StartPolling, CancelPolling, StartLoop, CancelLoop
<1>2. CASE BeginPoll
  BY <1>2 DEF BeginPoll, BeginStep, AtMost
<1>3. CASE SendRequest \/ EndRequest
  BY <1>3 DEF SendRequest, EndRequest, Call!Send, Call!Succeed, Call!Fail
<1>4. CASE BackOff \/ GiveUp
  BY <1>4 DEF BackOff, GiveUp, Call!Retry, Call!Refuse
<1>5. CASE EndPollWithData \/ EndPollWithout
  BY <1>5 DEF EndPollWithData, EndPollWithout, EndStep
<1>6. CASE NextStep \/ NextCycle
  BY <1>6 DEF NextStep, NextCycle, Idle, SpacingOver, IntervalOver
<1>7. CASE CutSpacing \/ CutInterval
  BY <1>7 DEF CutSpacing, CutInterval, Idle, SpacingCut, IntervalCut
<1>8. CASE WaitInLoop \/ WaitInCall
  BY <1>8 DEF WaitInLoop, WaitInCall, Elapse, ClockTicks, loopVars
<1>9. CASE UNCHANGED cycleVars
  BY <1>9 DEF cycleVars, loopVars
<1>10. QED
  BY <1>1, <1>2, <1>3, <1>4, <1>5, <1>6, <1>7, <1>8, <1>9 DEF CycleNext, CycleStep

\* However the selects choose, the canceled loop begins one more step at most
\* (runPollSteps).
THEOREM OneMoreStepAtMost == CycleSpec => []OneStepAfterCancel
<1>1. CycleInit => AfterInv
  BY DEF CycleInit, AfterInv
<1>2. AfterInv => OneStepAfterCancel
  BY DEF AfterInv, OneStepAfterCancel
<1>3. QED
  BY <1>1, <1>2, TypeInvariance, AfterInvNext, PTL DEF CycleSpec

-----------------------------------------------------------------------------
(* The potential                                                           *)

\* The longest the call can still take.
Rest ==
    IF call = "asking" THEN left + (MaxAttempts - sent) * (Timeout + MaxBackoff)
    ELSE IF call = "between" THEN left + (MaxAttempts - sent) * (Timeout + MaxBackoff) - MaxBackoff
    ELSE 0

\* From the end of step j to that of step i, once round at most.
Gap(j, i) ==
    IF i >= j THEN (i - j) * (Spacing + CallBound) ELSE Cycle - (j - i) * (Spacing + CallBound)

Until(i) ==
    IF loop = "polling" THEN Rest + Gap(index, i)
    ELSE IF loop = "spacing" THEN timer + CallBound + Gap(index + 1, i)
    ELSE IF loop = "interval" THEN timer + CallBound + Gap(1, i)
    ELSE CallBound + Gap(index, i)

\* After the cancellation no tick passes.
CallAhead == IF pollCtx = "live" THEN Rest ELSE 0
Ahead(i) == IF pollCtx = "live" THEN Until(i) ELSE 0

CallInv ==
    /\ call = "between" => sent < MaxAttempts
    /\ Rest <= CallBound

LEMMA Products ==
    ASSUME NEW m \in Int, NEW n \in Int, NEW k \in Nat
    PROVE  /\ m * k \in Int
           /\ (m + 1) * k = m * k + k
           /\ (m - 1) * k = m * k - k
           /\ m >= 0 => m * k >= 0
           /\ m >= n => m * k >= n * k
           /\ m >= 1 => m * k >= k
           /\ (m + n) * k = m * k + n * k
           /\ (m - n) * k = m * k - n * k
OBVIOUS

\* Gap is a time, no longer than a cycle.
LEMMA GapType ==
    ASSUME NEW i \in 1..Len(Steps), NEW j \in 1..Len(Steps)
    PROVE  Gap(j, i) \in Nat
<1> DEFINE k == Spacing + CallBound
<1>1. k \in Nat
  BY BoundTypes, TimerAssumption
<1>2. Cycle = (Len(Steps) - 1) * k + CallBound + Interval
  BY BoundTypes
<1>3. (i - j) * k \in Int /\ (j - i) * k \in Int /\ (Len(Steps) - 1) * k \in Int
  BY <1>1, StepsType, Products
<1>4. CASE i >= j
  BY <1>1, <1>3, <1>4, Products DEF Gap
<1>5. CASE i < j
  <2>1. (Len(Steps) - 1) * k >= (j - i) * k
    <3>1. Len(Steps) - 1 \in Int /\ j - i \in Int /\ Len(Steps) - 1 >= j - i
      BY <1>5, StepsType
    <3> HIDE DEF k
    <3>2. QED
      BY <1>1, <3>1, Products
  <2>2. Gap(j, i) = Cycle - (j - i) * k
    BY <1>5 DEF Gap
  <2> DEFINE a == (j - i) * k
             b == (Len(Steps) - 1) * k
  <2>3. a \in Int /\ b \in Int /\ b >= a /\ Cycle = b + CallBound + Interval /\ Gap(j, i) = Cycle - a
    BY <1>2, <1>3, <2>1, <2>2
  <2>4. CallBound \in Nat /\ Interval \in Nat
    BY BoundTypes, TimerAssumption
  <2> HIDE DEF a, b
  <2>5. QED
    BY <2>3, <2>4
<1>6. QED
  BY <1>4, <1>5

\* The way on from the end of step j: to any other step what it was, to the next end
\* of j itself a cycle.
LEMMA GapStep ==
    ASSUME NEW i \in 1..Len(Steps), NEW j \in 1..Len(Steps), j # Len(Steps)
    PROVE  Spacing + CallBound + Gap(j + 1, i) = IF i = j THEN Cycle ELSE Gap(j, i)
<1> DEFINE k == Spacing + CallBound
<1>1. k \in Nat /\ Cycle \in Nat
  BY BoundTypes, TimerAssumption
<1>2. Gap(j, i) = IF i >= j THEN (i - j) * k ELSE Cycle - (j - i) * k
  BY DEF Gap
<1>3. Gap(j + 1, i) = IF i >= j + 1 THEN (i - (j + 1)) * k ELSE Cycle - ((j + 1) - i) * k
  BY DEF Gap
<1>4. (i - (j + 1)) * k = (i - j) * k - k /\ ((j + 1) - i) * k = (j - i) * k + k
  <2>1. i - (j + 1) = (i - j) - 1 /\ (j + 1) - i = (j - i) + 1
    OBVIOUS
  <2>2. QED
    BY <1>1, <2>1, Products
<1>5. (i - j) * k \in Int /\ (j - i) * k \in Int /\ (i = j => (j - i) * k = 0)
  BY <1>1, Products
<1>6. k + Gap(j + 1, i) = IF i = j THEN Cycle ELSE Gap(j, i)
  <2> HIDE DEF k
  <2>1. CASE i = j
    BY <1>1, <1>3, <1>4, <1>5, <2>1
  <2>2. CASE i > j
    BY <1>1, <1>2, <1>3, <1>4, <1>5, <2>2
  <2>3. CASE i < j
    BY <1>1, <1>2, <1>3, <1>4, <1>5, <2>3
  <2>4. QED
    BY <2>1, <2>2, <2>3
<1>7. QED
  BY <1>6

LEMMA GapRound ==
    ASSUME NEW i \in 1..Len(Steps)
    PROVE  Interval + CallBound + Gap(1, i) = IF i = Len(Steps) THEN Cycle ELSE Gap(Len(Steps), i)
<1> DEFINE k == Spacing + CallBound
           n == Len(Steps)
<1>1. k \in Nat /\ n \in Nat /\ Cycle \in Nat /\ CallBound \in Nat
  BY BoundTypes, TimerAssumption, StepsType
<1>2. Cycle = (n - 1) * k + CallBound + Interval
  BY BoundTypes
<1>3. Gap(1, i) = (i - 1) * k
  BY DEF Gap
<1>4. i < n => Gap(n, i) = Cycle - (n - i) * k
  BY DEF Gap
<1>5. (n - i) * k = (n - 1) * k - (i - 1) * k
  <2>1. n - i = (n - 1) - (i - 1)
    BY <1>1
  <2>2. QED
    BY <1>1, <2>1, Products
<1>6. (i - 1) * k \in Int /\ (n - 1) * k \in Int
  BY <1>1, Products
<1>7. Interval + CallBound + Gap(1, i) = IF i = n THEN Cycle ELSE Gap(n, i)
  <2> HIDE DEF k, n
  <2>1. CASE i = n
    BY <1>1, <1>2, <1>3, <1>6, <2>1, TimerAssumption
  <2>2. CASE i < n
    BY <1>1, <1>2, <1>3, <1>4, <1>5, <1>6, <2>2, TimerAssumption
  <2>3. QED
    BY <1>1, <2>1, <2>2 DEF n
<1>8. QED
  BY <1>7

-----------------------------------------------------------------------------
(* The steps of the loop and the potential                                 *)

LEMMA RestType == TypeInv /\ CallInv => Rest \in Nat
<1> SUFFICES ASSUME TypeInv, CallInv PROVE Rest \in Nat
  OBVIOUS
<1> DEFINE w == Timeout + MaxBackoff
           p == (MaxAttempts - sent) * w
<1> USE AttemptsAssumption, DurationAssumption DEF TypeInv, CycleTypeOK, CallInv
<1>1. w \in Nat /\ w >= MaxBackoff /\ p \in Nat /\ (sent < MaxAttempts => p >= w)
  <2>1. w \in Nat /\ w >= MaxBackoff /\ MaxAttempts - sent \in Nat
    OBVIOUS
  <2> HIDE DEF w
  <2>2. QED
    BY <2>1, Products
<1>2. Rest = IF call = "asking" THEN left + p ELSE IF call = "between" THEN left + p - MaxBackoff ELSE 0
  BY DEF Rest
<1> HIDE DEF p, w
<1>3. QED
  BY <1>1, <1>2

\* An untimed step of the call: the wait that ends, or the next that is chosen, is
\* within what was left.
LEMMA CallKeepsRest ==
    ASSUME TypeInv, CallInv, SendRequest \/ EndRequest \/ BackOff \/ GiveUp
    PROVE  CallInv' /\ Rest' \in Nat /\ Rest' <= Rest
<1> DEFINE w == Timeout + MaxBackoff
           p == (MaxAttempts - sent) * w
<1> USE AttemptsAssumption, DurationAssumption DEF TypeInv, CycleTypeOK
<1>1. w \in Nat /\ w >= MaxBackoff /\ p \in Nat /\ (sent < MaxAttempts => p >= w)
  <2>1. w \in Nat /\ w >= MaxBackoff /\ MaxAttempts - sent \in Nat
    OBVIOUS
  <2> HIDE DEF w
  <2>2. QED
    BY <2>1, Products
<1>2. Rest = IF call = "asking" THEN left + p ELSE IF call = "between" THEN left + p - MaxBackoff ELSE 0
  BY DEF Rest
<1>3. Rest' = IF call' = "asking" THEN left' + (MaxAttempts - sent') * w
              ELSE IF call' = "between" THEN left' + (MaxAttempts - sent') * w - MaxBackoff ELSE 0
  BY DEF Rest
<1>4. CallBound' = CallBound
  BY DEF CallBound
<1>5. CASE SendRequest
  <2>1. call = "between" /\ call' = "asking" /\ left = 0 /\ left' = Timeout /\ sent' = sent + 1
    BY <1>5 DEF SendRequest, Call!Send
  <2>2. (MaxAttempts - sent') * w = p - w
    <3>1. MaxAttempts - sent' = (MaxAttempts - sent) - 1
      BY <2>1
    <3>2. QED
      BY <1>1, <3>1, Products
  <2>3. Rest' = Rest
    <3> HIDE DEF p
    <3> QED
      BY <1>1, <1>2, <1>3, <2>1, <2>2
  <2>4. QED
    BY <1>4, <2>1, <2>3, RestType DEF CallInv
<1>6. CASE EndRequest \/ GiveUp
  <2>1. call \in {"between", "asking"} /\ call' \in {"succeeded", "failed"}
    BY <1>6 DEF EndRequest, GiveUp, Call!Succeed, Call!Fail, Call!Refuse
  <2>2. Rest' = 0
    BY <1>3, <2>1
  <2>3. QED
    BY <1>4, <2>1, <2>2, RestType, BoundTypes DEF CallInv
<1>7. CASE BackOff
  <2>1. call = "asking" /\ call' = "between" /\ sent' = sent /\ sent < MaxAttempts
    BY <1>7 DEF BackOff, Call!Retry
  <2>2. PICK wait \in 0..MaxBackoff : left' = wait
    BY <1>7 DEF BackOff
  <2>3. Rest' <= Rest /\ Rest' \in Nat
    <3>1. (MaxAttempts - sent') * w = p
      BY <2>1
    <3> HIDE DEF p, w
    <3>2. Rest = left + p
      BY <1>2, <2>1
    <3>3. Rest' = wait + p - MaxBackoff
      BY <1>3, <2>1, <2>2, <3>1
    <3>4. left \in Nat /\ MaxBackoff \in Nat /\ p \in Nat /\ p >= MaxBackoff
      BY <1>1, <2>1
    <3>5. QED
      BY <3>2, <3>3, <3>4
  <2>4. QED
    BY <1>4, <2>1, <2>3, RestType, BoundTypes DEF CallInv
<1>8. QED
  BY <1>5, <1>6, <1>7

LEMMA AheadType ==
    ASSUME TypeInv, CallInv, NEW i \in 1..Len(Steps)
    PROVE  Ahead(i) \in Nat /\ CallAhead \in Nat
<1>1. Rest \in Nat /\ CallBound \in Nat
  BY RestType, BoundTypes
<1>2. index \in 1..Len(Steps) /\ timer \in Nat
  BY LongestWaitType DEF TypeInv, LoopInv, LoopTypeOK
<1>3. loop = "spacing" => index + 1 \in 1..Len(Steps)
  BY <1>2, StepsType DEF TypeInv, LoopInv, WaitInv
<1>4. Gap(index, i) \in Nat /\ Gap(1, i) \in Nat /\ (loop = "spacing" => Gap(index + 1, i) \in Nat)
  BY <1>2, <1>3, StepsType, GapType
<1>5. QED
  BY <1>1, <1>2, <1>4 DEF Ahead, Until, CallAhead

\* What the loop does between its waits brings no end nearer or farther.
LEMMA LoopKeepsAhead ==
    ASSUME TypeInv, CallInv, NEW i \in 1..Len(Steps),
           StartPolling \/ BeginPoll \/ NextStep \/ NextCycle \/ CutSpacing \/ CutInterval
    PROVE  CallInv' /\ Ahead(i)' = Ahead(i)
<1> USE DEF TypeInv, CycleTypeOK, callState
<1>1. CallBound' = CallBound
  BY DEF CallBound
<1>2. CASE StartPolling
  <2>1. Rest' = Rest
    BY <1>2 DEF StartPolling, Rest
  <2>2. QED
    BY <1>1, <1>2, <2>1 DEF StartPolling, StartLoop, Ahead, Until, CallInv, Gap, Cycle
<1>3. CASE BeginPoll
  <2>1. Rest' = CallBound
    <3>1. Rest' = 0 + (MaxAttempts - 0) * (Timeout + MaxBackoff) - MaxBackoff
      BY <1>3 DEF BeginPoll, Rest
    <3>2. QED
      BY <3>1, BoundTypes, AttemptsAssumption, DurationAssumption
  <2>2. CallInv'
    BY <1>1, <1>3, <2>1, AttemptsAssumption, BoundTypes DEF BeginPoll, CallInv
  <2>3. QED
    BY <1>1, <1>3, <2>1, <2>2 DEF BeginPoll, BeginStep, Ahead, Until, Gap, Cycle
<1>4. CASE NextStep \/ NextCycle
  <2>1. Rest' = Rest
    BY <1>4 DEF NextStep, NextCycle, Idle, Rest
  <2>2. CallInv'
    BY <1>1, <1>4, <2>1 DEF NextStep, NextCycle, Idle, CallInv
  <2>3. loop' = "next" /\ pollCtx' = pollCtx /\ timer = 0
    BY <1>4 DEF NextStep, NextCycle, SpacingOver, IntervalOver
  <2>4. Until(i)' = CallBound + Gap(index', i)
    BY <1>1, <2>3 DEF Until, Gap, Cycle
  <2>5. Until(i) = 0 + CallBound + Gap(index', i)
    BY <1>4, <2>3 DEF NextStep, NextCycle, SpacingOver, IntervalOver, Until
  <2>6. CallBound \in Nat
    BY BoundTypes
  <2>7. QED
    BY <2>2, <2>3, <2>4, <2>5, <2>6 DEF Ahead
<1>5. CASE CutSpacing \/ CutInterval
  <2>1. Rest' = Rest
    BY <1>5 DEF CutSpacing, CutInterval, Idle, Rest
  <2>2. QED
    BY <1>1, <1>5, <2>1 DEF CutSpacing, CutInterval, Idle, SpacingCut, IntervalCut, CallInv, Ahead
<1>6. QED
  BY <1>2, <1>3, <1>4, <1>5

\* The end of a step starts the next way round.
LEMMA EndOfStep ==
    ASSUME TypeInv, CallInv, NEW i \in 1..Len(Steps), EndPollWithData \/ EndPollWithout
    PROVE  /\ CallInv'
           /\ i # index => Ahead(i)' = Ahead(i)
           /\ i = index => Ahead(i)' = IF pollCtx = "live" THEN Cycle ELSE 0
<1> DEFINE n == Len(Steps)
<1>1. CallBound' = CallBound /\ CallBound \in Nat /\ Spacing \in Nat /\ Interval \in Nat
  BY BoundTypes, TimerAssumption DEF CallBound
<1>2. /\ call \in {"succeeded", "failed"} /\ call' = "none" /\ EndStep
      /\ pollCtx' = pollCtx /\ index' = index
  BY DEF EndPollWithData, EndPollWithout, EndStep
<1>3. Rest = 0 /\ Rest' = 0 /\ loop = "polling" /\ index \in 1..n
  BY <1>2 DEF Rest, EndStep, TypeInv, LoopInv, LoopTypeOK
<1>4. CallInv'
  BY <1>1, <1>2, <1>3 DEF CallInv
<1>5. Until(i) = Gap(index, i)
  <2>1. Gap(index, i) \in Nat
    BY <1>3, GapType
  <2>2. QED
    BY <1>3, <2>1 DEF Until
<1>6. Until(i)' = IF i = index THEN Cycle ELSE Gap(index, i)
  <2>1. CASE index = n
    <3>1. Until(i)' = Interval + CallBound + Gap(1, i)
      BY <1>2, <2>1 DEF EndStep, Until, Gap, CallBound, Cycle
    <3>2. QED
      BY <2>1, <3>1, GapRound
  <2>2. CASE index # n
    <3>1. Until(i)' = Spacing + CallBound + Gap(index + 1, i)
      BY <1>2, <2>2 DEF EndStep, Until, Gap, CallBound, Cycle
    <3>2. QED
      BY <1>3, <2>2, <3>1, GapStep
  <2>3. QED
    BY <2>1, <2>2
<1>7. Cycle \in Nat
  BY BoundTypes
<1>8. QED
  BY <1>2, <1>4, <1>5, <1>6, <1>7 DEF Ahead

\* A tick brings every end nearer by one.
LEMMA TickOfLoop ==
    ASSUME TypeInv, CallInv, NEW i \in 1..Len(Steps), WaitInLoop \/ WaitInCall
    PROVE  /\ CallInv'
           /\ Ahead(i)' = Ahead(i) - 1
           /\ call # "none" => CallAhead' = CallAhead - 1
<1> USE DEF TypeInv, CycleTypeOK
<1>1. CallBound' = CallBound /\ CallBound \in Nat
  BY BoundTypes DEF CallBound
<1>2. pollCtx = "live" /\ pollCtx' = "live" /\ index' = index /\ loop' = loop
  BY DEF WaitInLoop, WaitInCall, Elapse, loopVars
<1>3. /\ index \in 1..Len(Steps) /\ timer \in Nat
      /\ Gap(index, i) \in Nat /\ Gap(1, i) \in Nat
      /\ loop = "spacing" => Gap(index + 1, i) \in Nat
  BY LongestWaitType, StepsType, GapType DEF LoopInv, LoopTypeOK, WaitInv
<1>4. CASE WaitInLoop
  <2>1. call = "none" /\ call' = "none" /\ Rest' = Rest /\ timer' = timer - 1
    BY <1>4 DEF WaitInLoop, Elapse, ClockTicks, Rest
  <2>2. Until(i)' = Until(i) - 1
    <3>1. CASE loop = "spacing"
      <4>1. Until(i) = timer + CallBound + Gap(index + 1, i)
        BY <3>1 DEF Until
      <4>2. Until(i)' = (timer - 1) + CallBound + Gap(index + 1, i)
        BY <1>2, <2>1, <3>1 DEF Until, Gap, CallBound, Cycle
      <4>3. QED
        BY <1>1, <1>3, <3>1, <4>1, <4>2
    <3>2. CASE loop = "interval"
      <4>1. Until(i) = timer + CallBound + Gap(1, i)
        BY <3>2 DEF Until
      <4>2. Until(i)' = (timer - 1) + CallBound + Gap(1, i)
        BY <1>2, <2>1, <3>2 DEF Until, Gap, CallBound, Cycle
      <4>3. QED
        BY <1>1, <1>3, <4>1, <4>2
    <3>3. QED
      BY <1>4, <3>1, <3>2 DEF WaitInLoop, Elapse
  <2>3. QED
    BY <1>1, <1>2, <2>1, <2>2 DEF CallInv, Ahead
<1>5. CASE WaitInCall
  <2>1. call' = call /\ sent' = sent /\ left' = left - 1 /\ call \in {"between", "asking"}
    BY <1>5 DEF WaitInCall, ClockTicks
  <2>2. Rest \in Nat /\ Rest' = Rest - 1
    <3> DEFINE p == (MaxAttempts - sent) * (Timeout + MaxBackoff)
    <3>1. p \in Int
      <4>1. MaxAttempts - sent \in Int /\ Timeout + MaxBackoff \in Nat
        BY AttemptsAssumption, DurationAssumption
      <4>2. QED
        BY <4>1, Products
    <3>2. Rest = IF call = "asking" THEN left + p ELSE left + p - MaxBackoff
      BY <2>1 DEF Rest
    <3>3. Rest' = IF call = "asking" THEN (left - 1) + p ELSE (left - 1) + p - MaxBackoff
      BY <2>1 DEF Rest
    <3> HIDE DEF p
    <3>4. QED
      BY <3>1, <3>2, <3>3, RestType, DurationAssumption
  <2>3. loop = "polling"
    BY <2>1
  <2>4. Until(i) = Rest + Gap(index, i) /\ Until(i)' = (Rest - 1) + Gap(index, i)
    BY <1>2, <2>2, <2>3 DEF Until, Gap, CallBound, Cycle
  <2>5. QED
    BY <1>1, <1>2, <1>3, <2>1, <2>2, <2>4 DEF CallInv, Ahead, CallAhead
<1>6. QED
  BY <1>4, <1>5

-----------------------------------------------------------------------------
(* Ages and windows                                                        *)

\* What misses allow, and the time since the first midnight after a window.
Allowed(m) == (m + 1) * Cycle
Since(w) == (w - 1) * Day + now

AgeInv(i) ==
    age[Steps[i]] # None /\ misses[Steps[i]] <= MaxMisses =>
        age[Steps[i]] + Ahead(i) <= Allowed(misses[Steps[i]])

WindowInv(i) ==
    windowAge[Steps[i]] > 0 =>
        /\ age[Steps[i]] # None
        /\ misses[Steps[i]] <= MaxMisses =>
               Since(windowAge[Steps[i]]) + Ahead(i) <= Allowed(misses[Steps[i]]) + CallBound

OpenedInv == call # "none" /\ opened > 0 => Since(opened) + CallAhead <= CallBound

DataInv ==
    /\ CallInv
    /\ OpenedInv
    /\ \A i \in 1..Len(Steps) : AgeInv(i) /\ WindowInv(i)

CycleInv == TypeInv /\ DataInv

LEMMA AllowedType ==
    ASSUME NEW m \in Nat
    PROVE  Allowed(m) \in Nat /\ Allowed(m) >= Cycle /\ Allowed(m + 1) = Allowed(m) + Cycle
<1>1. Cycle \in Nat /\ m + 1 \in Nat /\ m + 1 >= 1
  BY BoundTypes
<1>2. (m + 1) * Cycle \in Nat /\ (m + 1) * Cycle >= Cycle
  BY <1>1, Products
<1>3. ((m + 1) + 1) * Cycle = (m + 1) * Cycle + Cycle
  BY <1>1, Products
<1>4. QED
  BY <1>2, <1>3 DEF Allowed

\* The types of one endpoint's data.
LEMMA DataTypes ==
    ASSUME TypeInv, NEW i \in 1..Len(Steps)
    PROVE  /\ Steps[i] \in Endpoints
           /\ age[Steps[i]] \in Nat \cup {None}
           /\ misses[Steps[i]] \in Nat
           /\ windowAge[Steps[i]] \in 0..2
           /\ now \in 0..Day - 1
           /\ Day \in Nat \ {0}
           /\ Since(windowAge[Steps[i]]) \in Int
<1>1. Steps[i] \in Endpoints
  BY StepsAssumption DEF Endpoints
<1>2. windowAge[Steps[i]] \in 0..2 /\ now \in 0..Day - 1 /\ Day \in Nat \ {0}
  BY <1>1, DurationAssumption DEF TypeInv, CycleTypeOK
<1>3. (windowAge[Steps[i]] - 1) * Day \in Int
  BY <1>2, Products
<1>4. QED
  BY <1>1, <1>2, <1>3 DEF TypeInv, CycleTypeOK, Since

\* A tick, at midnight or not, adds one to the time since a midnight.
LEMMA TickOfWindow ==
    ASSUME TypeInv, ClockTicks, NEW w \in 0..2, NEW v \in 0..2,
           v \in {w, IF now' = 0 THEN AtMost(w + 1, 2) ELSE w}
    PROVE  /\ Since(v)' \in Int
           /\ w > 0 => Since(v)' <= Since(w) + 1
           /\ (w = 0 /\ v > 0) => Since(v)' = 0
<1>1. now \in 0..Day - 1 /\ Day \in Nat \ {0} /\ now' = IF now = Day - 1 THEN 0 ELSE now + 1
  BY DurationAssumption DEF ClockTicks, TypeInv, CycleTypeOK
<1>2. Since(v)' = (v - 1) * Day + now' /\ Since(w) = (w - 1) * Day + now
  BY DEF Since
<1>3. Since(v)' \in Int
  <2>1. PICK t \in Nat : now' = t
    <3>1. now \in Nat
      BY <1>1
    <3>2. CASE now = Day - 1
      BY <1>1, <3>2
    <3>3. CASE now # Day - 1
      BY <1>1, <3>1, <3>3
    <3>4. QED
      BY <3>2, <3>3
  <2>2. (v - 1) * Day \in Int
    BY <1>1, Products
  <2>3. QED
    BY <1>2, <2>1, <2>2
<1>4. CASE now = Day - 1
  <2>1. now' = 0 /\ v \in {w, IF w = 2 THEN 2 ELSE w + 1}
    BY <1>1, <1>4 DEF AtMost
  <2>2. CASE w = 0
    BY <1>1, <1>2, <2>1, <2>2
  <2>3. CASE w = 1
    BY <1>1, <1>2, <1>4, <2>1, <2>3
  <2>4. CASE w = 2
    BY <1>1, <1>2, <1>4, <2>1, <2>4
  <2>5. QED
    BY <2>2, <2>3, <2>4
<1>5. CASE now # Day - 1
  <2>1. now' = now + 1 /\ now' # 0 /\ v = w
    BY <1>1, <1>5
  <2>2. CASE w = 0
    BY <1>1, <1>2, <2>1, <2>2
  <2>3. CASE w = 1
    BY <1>1, <1>2, <2>1, <2>3
  <2>4. CASE w = 2
    BY <1>1, <1>2, <2>1, <2>4
  <2>5. QED
    BY <2>2, <2>3, <2>4
<1>6. QED
  BY <1>3, <1>4, <1>5

\* As long as the data stays and no end moves away, nothing gets too old.
LEMMA DataStays ==
    ASSUME TypeInv, CallInv, NEW i \in 1..Len(Steps), AgeInv(i), WindowInv(i),
           NEW n \in Int, n <= Ahead(i), Ahead(i)' = n,
           UNCHANGED <<age[Steps[i]], misses[Steps[i]], windowAge[Steps[i]], now>>
    PROVE  AgeInv(i)' /\ WindowInv(i)'
<1> DEFINE e == Steps[i]
           allowed == Allowed(misses[e])
           since == Since(windowAge[e])
<1>1. Ahead(i) \in Nat /\ allowed \in Nat /\ CallBound \in Nat /\ since \in Int
  BY AheadType, AllowedType, BoundTypes, DataTypes
<1>2. allowed' = allowed /\ since' = since /\ CallBound' = CallBound
  BY DEF Allowed, Since, Cycle, CallBound
<1>3. AgeInv(i)'
  <2>1. SUFFICES ASSUME age[e] # None, misses[e] <= MaxMisses
                 PROVE  age[e] + n <= allowed
    BY <1>2 DEF AgeInv
  <2>2. age[e] \in Nat /\ age[e] + Ahead(i) <= allowed
    BY <2>1, DataTypes DEF AgeInv
  <2>3. QED
    BY <1>1, <2>2
<1>4. WindowInv(i)'
  <2>1. SUFFICES ASSUME windowAge[e] > 0
                 PROVE  age[e] # None /\ (misses[e] <= MaxMisses => since + n <= allowed + CallBound)
    BY <1>2 DEF WindowInv
  <2>2. age[e] # None /\ (misses[e] <= MaxMisses => since + Ahead(i) <= allowed + CallBound)
    BY <2>1 DEF WindowInv
  <2>3. QED
    BY <1>1, <2>2
<1>5. QED
  BY <1>3, <1>4

\* A tick ages the data by one, and brings the end of its endpoint's next step
\* nearer by one.
LEMMA DataAges ==
    ASSUME TypeInv, CallInv, ClockTicks, NEW i \in 1..Len(Steps), AgeInv(i), WindowInv(i),
           Ahead(i)' = Ahead(i) - 1
    PROVE  AgeInv(i)' /\ WindowInv(i)'
<1> DEFINE e == Steps[i]
           w == windowAge[e]
           allowed == Allowed(misses[e])
<1>1. e \in Endpoints /\ w \in 0..2 /\ Ahead(i) \in Nat /\ allowed \in Nat /\ CallBound \in Nat
  BY AheadType, AllowedType, BoundTypes, DataTypes
<1>2. misses' = misses /\ allowed' = allowed /\ CallBound' = CallBound
  BY DEF Allowed, Cycle, CallBound, ClockTicks
<1>3. AgeInv(i)'
  <2>1. SUFFICES ASSUME age'[e] # None, misses[e] <= MaxMisses
                 PROVE  age'[e] + (Ahead(i) - 1) <= allowed
    BY <1>2 DEF AgeInv
  <2>2. age[e] # None /\ age'[e] = AtMost(age[e] + 1, OldestAge)
    BY <1>1, <2>1 DEF ClockTicks
  <2>3. age[e] \in Nat /\ age[e] + Ahead(i) <= allowed
    BY <2>1, <2>2, DataTypes DEF AgeInv
  <2>4. PICK a \in Nat : age'[e] = a /\ a <= age[e] + 1
    BY <2>2, <2>3, OlderType
  <2>5. QED
    BY <1>1, <2>3, <2>4
<1>4. WindowInv(i)'
  <2>1. PICK v \in 0..2 : windowAge'[e] = v /\ v \in {w, IF now' = 0 THEN AtMost(w + 1, 2) ELSE w}
    <3>1. windowAge'[e] = IF now' = 0 /\ e \in History /\ age[e] # None THEN AtMost(w + 1, 2) ELSE w
      BY <1>1 DEF ClockTicks
    <3>2. AtMost(w + 1, 2) \in 0..2
      BY <1>1 DEF AtMost
    <3>3. QED
      BY <1>1, <3>1, <3>2
  <2>2. SUFFICES ASSUME v > 0
                 PROVE  /\ age'[e] # None
                        /\ misses[e] <= MaxMisses => Since(v)' + (Ahead(i) - 1) <= allowed + CallBound
    BY <1>2, <2>1 DEF WindowInv, Since
  <2>3. age[e] # None
    BY <1>1, <2>1, <2>2 DEF ClockTicks, WindowInv
  <2>4. age'[e] # None
    <3>1. age[e] \in Nat /\ age'[e] = AtMost(age[e] + 1, OldestAge)
      BY <1>1, <2>3, DataTypes DEF ClockTicks
    <3>2. age'[e] \in Nat
      BY <3>1, OlderType
    <3>3. QED
      BY <3>2, NoneAssumption
  <2>5. ASSUME misses[e] <= MaxMisses
        PROVE  Since(v)' + (Ahead(i) - 1) <= allowed + CallBound
    <3>1. PICK s \in Int : Since(v)' = s
      BY <1>1, <2>1, TickOfWindow
    <3>2. Since(w) \in Int
      BY DataTypes
    <3>3. CASE w = 0
      <4>1. s = 0
        BY <1>1, <2>1, <2>2, <3>1, <3>3, TickOfWindow
      <4>2. age[e] \in Nat /\ age[e] + Ahead(i) <= allowed
        BY <2>3, <2>5, DataTypes DEF AgeInv
      <4>3. QED
        BY <1>1, <3>1, <4>1, <4>2
    <3>4. CASE w > 0
      <4>1. s <= Since(w) + 1
        BY <1>1, <2>1, <2>2, <3>1, <3>4, TickOfWindow
      <4>2. Since(w) + Ahead(i) <= allowed + CallBound
        BY <2>5, <3>4 DEF WindowInv
      <4>3. QED
        BY <1>1, <3>1, <3>2, <4>1, <4>2
    <3>5. QED
      BY <1>1, <3>3, <3>4
  <2>6. QED
    BY <2>4, <2>5
<1>5. QED
  BY <1>3, <1>4

\* A snapshot just published may last a cycle, and its window began before the call.
LEMMA DataRenewed ==
    ASSUME TypeInv, CallInv, OpenedInv, EndPollWithData
    PROVE  AgeInv(index)' /\ WindowInv(index)'
<1> DEFINE e == Steps[index]
<1>1. index \in 1..Len(Steps) /\ index' = index /\ e \in Endpoints /\ Endpoint = e
  <2>1. index \in 1..Len(Steps)
    BY DEF TypeInv, LoopInv, LoopTypeOK
  <2>2. QED
    BY <2>1, DataTypes DEF EndPollWithData, EndStep, Endpoint
<1>2. /\ age'[e] = 0 /\ misses'[e] = 0 /\ now' = now
      /\ windowAge'[e] = IF e \in History THEN opened ELSE 0
  BY <1>1 DEF EndPollWithData, TypeInv, CycleTypeOK
<1>3. PICK n \in Nat : Ahead(index)' = n /\ n <= Cycle
  <2>1. Ahead(index)' = IF pollCtx = "live" THEN Cycle ELSE 0
    <3>1. ASSUME NEW i \in 1..Len(Steps), i = index
          PROVE  Ahead(i)' = IF pollCtx = "live" THEN Cycle ELSE 0
      BY <3>1, EndOfStep
    <3>2. PICK i \in 1..Len(Steps) : i = index
      BY <1>1
    <3>3. Ahead(index)' = Ahead(i)'
      BY <1>1, <3>2 DEF Ahead, Until, Gap
    <3>4. QED
      BY <3>1, <3>2, <3>3
  <2>2. QED
    BY <2>1, BoundTypes
<1>4. Allowed(0) \in Nat /\ Allowed(0) >= Cycle /\ CallBound \in Nat /\ Cycle \in Nat
  BY AllowedType, BoundTypes
<1>5. /\ Allowed(misses[Steps[index]])' = Allowed(0) /\ CallBound' = CallBound
      /\ Since(windowAge[Steps[index]])' = Since(windowAge'[e])
  BY <1>1, <1>2 DEF Allowed, Since, Cycle, CallBound
<1>6. AgeInv(index)'
  <2>1. 0 + n <= Allowed(0)
    BY <1>3, <1>4
  <2>2. QED
    BY <1>1, <1>2, <1>3, <1>5, <2>1 DEF AgeInv
<1>7. WindowInv(index)'
  <2>1. SUFFICES ASSUME windowAge'[e] > 0
                 PROVE  Since(windowAge'[e]) + n <= Allowed(0) + CallBound
    BY <1>1, <1>2, <1>3, <1>5, NoneAssumption DEF WindowInv
  <2>2. windowAge'[e] = opened /\ opened > 0
    BY <1>2, <2>1
  <2>3. Since(opened) + CallAhead <= CallBound
    BY <2>2 DEF OpenedInv, EndPollWithData
  <2>4. CallAhead \in Nat
    BY <1>1, AheadType
  <2>5. Since(opened) \in Int
    <3>1. opened \in 0..2 /\ now \in Nat /\ Day \in Nat
      BY DurationAssumption DEF TypeInv, CycleTypeOK
    <3>2. (opened - 1) * Day \in Int
      BY <3>1, Products
    <3>3. QED
      BY <3>1, <3>2 DEF Since
  <2>6. QED
    BY <1>3, <1>4, <2>2, <2>3, <2>4, <2>5
<1>8. QED
  BY <1>6, <1>7

\* One more miss allows one more cycle.
LEMMA DataMissed ==
    ASSUME TypeInv, CallInv, EndPollWithout, AgeInv(index), WindowInv(index)
    PROVE  AgeInv(index)' /\ WindowInv(index)'
<1> DEFINE e == Steps[index]
           m == misses[e]
<1>1. index \in 1..Len(Steps) /\ index' = index /\ e \in Endpoints /\ Endpoint = e
  <2>1. index \in 1..Len(Steps)
    BY DEF TypeInv, LoopInv, LoopTypeOK
  <2>2. QED
    BY <2>1, DataTypes DEF EndPollWithout, EndStep, Endpoint
<1>2. /\ age' = age /\ windowAge' = windowAge /\ now' = now
      /\ misses'[e] = AtMost(m + 1, MaxMisses + 1)
  BY <1>1 DEF EndPollWithout, TypeInv, CycleTypeOK
<1>3. PICK n \in Nat : Ahead(index)' = n /\ n <= Cycle
  <2>1. Ahead(index)' = IF pollCtx = "live" THEN Cycle ELSE 0
    <3>1. ASSUME NEW i \in 1..Len(Steps), i = index
          PROVE  Ahead(i)' = IF pollCtx = "live" THEN Cycle ELSE 0
      BY <3>1, EndOfStep
    <3>2. PICK i \in 1..Len(Steps) : i = index
      BY <1>1
    <3>3. Ahead(index)' = Ahead(i)'
      BY <1>1, <3>2 DEF Ahead, Until, Gap
    <3>4. QED
      BY <3>1, <3>2, <3>3
  <2>2. QED
    BY <2>1, BoundTypes
<1>4. m \in Nat /\ MaxMisses \in Nat /\ Since(windowAge[e]) \in Int
  BY <1>1, DataTypes, DurationAssumption
<1>5. /\ Allowed(m) \in Nat /\ Allowed(m + 1) = Allowed(m) + Cycle
      /\ CallBound \in Nat /\ Cycle \in Nat /\ Ahead(index) \in Nat
  BY <1>1, <1>4, AllowedType, BoundTypes, AheadType
<1>6. misses'[e] <= MaxMisses => m + 1 <= MaxMisses /\ m <= MaxMisses /\ misses'[e] = m + 1
  BY <1>2, <1>4 DEF AtMost
<1>7. /\ Allowed(misses[Steps[index]])' = Allowed(misses'[e]) /\ CallBound' = CallBound
      /\ Since(windowAge[Steps[index]])' = Since(windowAge[e])
  BY <1>1, <1>2 DEF Allowed, Since, Cycle, CallBound
<1>8. AgeInv(index)'
  <2>1. SUFFICES ASSUME age[e] # None, misses'[e] <= MaxMisses
                 PROVE  age[e] + n <= Allowed(m + 1)
    BY <1>1, <1>2, <1>3, <1>6, <1>7 DEF AgeInv
  <2>2. age[e] \in Nat /\ age[e] + Ahead(index) <= Allowed(m)
    BY <1>1, <1>6, <2>1, DataTypes DEF AgeInv
  <2>3. QED
    BY <1>3, <1>5, <2>2
<1>9. WindowInv(index)'
  <2>1. SUFFICES ASSUME windowAge[e] > 0
                 PROVE  /\ age[e] # None
                        /\ misses'[e] <= MaxMisses => Since(windowAge[e]) + n <= Allowed(m + 1) + CallBound
    BY <1>1, <1>2, <1>3, <1>6, <1>7 DEF WindowInv
  <2>2. SUFFICES ASSUME misses'[e] <= MaxMisses
                 PROVE  Since(windowAge[e]) + n <= Allowed(m + 1) + CallBound
    BY <2>1 DEF WindowInv
  <2>3. Since(windowAge[e]) + Ahead(index) <= Allowed(m) + CallBound
    BY <1>6, <2>1, <2>2 DEF WindowInv
  <2>4. QED
    BY <1>3, <1>4, <1>5, <2>3
<1>10. QED
  BY <1>8, <1>9

LEMMA OpenedType == TypeInv => Since(opened) \in Int /\ opened \in 0..2
<1> SUFFICES ASSUME TypeInv PROVE Since(opened) \in Int /\ opened \in 0..2
  OBVIOUS
<1>1. opened \in 0..2 /\ now \in Nat /\ Day \in Nat
  BY DurationAssumption DEF TypeInv, CycleTypeOK
<1>2. (opened - 1) * Day \in Int
  BY <1>1, Products
<1>3. QED
  BY <1>1, <1>2 DEF Since

\* The midnights since dateWindow stay within the call.
LEMMA OpenedStays ==
    ASSUME TypeInv, CallInv, OpenedInv, call # "none", now' = now, opened' = opened,
           NEW n \in Int, n <= CallAhead, CallAhead' = n
    PROVE  OpenedInv'
<1>1. Since(opened)' = Since(opened) /\ CallBound' = CallBound
  BY DEF Since, CallBound
<1>2. SUFFICES ASSUME opened > 0 PROVE Since(opened) + n <= CallBound
  BY <1>1 DEF OpenedInv
<1>3. Since(opened) + CallAhead <= CallBound
  BY <1>2 DEF OpenedInv
<1>4. CallAhead \in Nat
  BY RestType DEF CallAhead
<1>5. QED
  BY <1>3, <1>4, OpenedType, BoundTypes

LEMMA OpenedAges ==
    ASSUME TypeInv, CallInv, OpenedInv, WaitInCall
    PROVE  OpenedInv'
<1>1. ClockTicks /\ call # "none" /\ CallBound' = CallBound /\ CallBound \in Nat
  BY BoundTypes DEF WaitInCall, CallBound
<1>2. CallAhead' = CallAhead - 1 /\ CallAhead \in Nat /\ CallAhead <= CallBound
  <2>1. PICK i \in 1..Len(Steps) : TRUE
    BY StepsType
  <2>2. CallAhead' = CallAhead - 1
    BY <1>1, <2>1, TickOfLoop
  <2>3. QED
    BY <1>1, <2>2, RestType DEF CallAhead, CallInv
<1>3. opened \in 0..2 /\ Since(opened) \in Int
  BY OpenedType
<1>4. PICK v \in 0..2 : opened' = v /\ v = IF now' = 0 THEN AtMost(opened + 1, 2) ELSE opened
  <2>1. AtMost(opened + 1, 2) \in 0..2
    BY <1>3 DEF AtMost
  <2>2. QED
    BY <1>1, <1>3, <2>1 DEF ClockTicks
<1>5. PICK s \in Int : /\ Since(v)' = s
                       /\ opened > 0 => s <= Since(opened) + 1
                       /\ (opened = 0 /\ v > 0) => s = 0
  <2>1. PICK w \in 0..2 : w = opened
    BY <1>3
  <2>2. v \in {w, IF now' = 0 THEN AtMost(w + 1, 2) ELSE w}
    BY <1>4, <2>1
  <2>3. /\ Since(v)' \in Int
        /\ w > 0 => Since(v)' <= Since(w) + 1
        /\ (w = 0 /\ v > 0) => Since(v)' = 0
    BY <1>1, <2>2, TickOfWindow
  <2>4. QED
    BY <2>1, <2>3
<1>6. Since(opened)' = s
  <2>1. Since(opened)' = (opened' - 1) * Day + now'
    BY DEF Since
  <2>2. Since(v)' = (v - 1) * Day + now'
    BY DEF Since
  <2>3. QED
    BY <1>4, <1>5, <2>1, <2>2
<1>7. SUFFICES ASSUME v > 0 PROVE s + (CallAhead - 1) <= CallBound
  BY <1>1, <1>2, <1>4, <1>6 DEF OpenedInv
<1>8. opened > 0 => Since(opened) + CallAhead <= CallBound
  BY <1>1 DEF OpenedInv
<1>9. CASE opened = 0
  <2>1. s = 0
    BY <1>5, <1>7, <1>9
  <2>2. QED
    BY <1>1, <1>2, <2>1
<1>10. CASE opened > 0
  <2>1. s <= Since(opened) + 1 /\ Since(opened) + CallAhead <= CallBound
    BY <1>5, <1>8, <1>10
  <2>2. QED
    BY <1>1, <1>2, <1>3, <2>1
<1>11. QED
  BY <1>3, <1>9, <1>10

\* The steps of a call keep or shorten the way to every end.
LEMMA CallKeepsAhead ==
    ASSUME TypeInv, CallInv, NEW i \in 1..Len(Steps), SendRequest \/ EndRequest \/ BackOff \/ GiveUp
    PROVE  /\ \E n \in Int : n <= Ahead(i) /\ Ahead(i)' = n
           /\ \E n \in Int : n <= CallAhead /\ CallAhead' = n
<1>1. PICK r \in Nat : Rest' = r /\ r <= Rest
  BY CallKeepsRest
<1>2. loop = "polling" /\ loop' = loop /\ index' = index /\ pollCtx' = pollCtx
  <2>1. loop' = loop /\ index' = index /\ pollCtx' = pollCtx /\ call \in {"between", "asking"}
    BY DEF SendRequest, EndRequest, BackOff, GiveUp, Call!Send, Call!Succeed, Call!Fail,
           Call!Retry, Call!Refuse
  <2>2. QED
    BY <2>1 DEF TypeInv, CycleTypeOK
<1>3. Gap(index, i) \in Nat /\ Rest \in Nat
  BY GapType, RestType DEF TypeInv, LoopInv, LoopTypeOK
<1>4. Until(i) = Rest + Gap(index, i) /\ Until(i)' = r + Gap(index, i)
  BY <1>1, <1>2 DEF Until, Gap, CallBound, Cycle
<1>5. CASE pollCtx = "live"
  <2>1. Ahead(i)' = r + Gap(index, i) /\ CallAhead' = r /\ Ahead(i) = Rest + Gap(index, i) /\ CallAhead = Rest
    BY <1>1, <1>2, <1>4, <1>5 DEF Ahead, CallAhead
  <2>2. QED
    BY <1>1, <1>3, <2>1
<1>6. CASE pollCtx # "live"
  BY <1>2, <1>6 DEF Ahead, CallAhead
<1>7. QED
  BY <1>5, <1>6

LEMMA CycleInvInit == CycleInit => CycleInv
<1> SUFFICES ASSUME CycleInit PROVE CycleInv
  OBVIOUS
<1>1. CallInv /\ OpenedInv
  BY BoundTypes DEF CycleInit, CallInv, Rest, OpenedInv
<1>2. \A i \in 1..Len(Steps) : Steps[i] \in Endpoints
  BY StepsAssumption DEF Endpoints
<1>3. \A i \in 1..Len(Steps) : AgeInv(i) /\ WindowInv(i)
  BY <1>2 DEF CycleInit, AgeInv, WindowInv
<1>4. QED
  BY <1>1, <1>3, TypeInvInit DEF CycleInv, DataInv

LEMMA CycleInvNext == CycleInv /\ [CycleNext]_cycleVars => CycleInv'
<1> SUFFICES ASSUME TypeInv, DataInv, [CycleNext]_cycleVars PROVE DataInv'
  BY TypeInvNext DEF CycleInv
<1> USE DEF DataInv
<1>1. \A i \in 1..Len(Steps) : Ahead(i) \in Nat
  BY AheadType
<1>2. CallAhead \in Nat
  BY RestType DEF CallAhead
<1>3. CASE StartPolling \/ BeginPoll \/ NextStep \/ NextCycle \/ CutSpacing \/ CutInterval
  <2>1. UNCHANGED <<age, misses, windowAge, now>>
    BY <1>3 DEF StartPolling, BeginPoll, NextStep, NextCycle, CutSpacing, CutInterval, Idle, dataState
  <2>2. CallInv'
    <3>1. PICK i \in 1..Len(Steps) : TRUE
      BY StepsType
    <3>2. QED
      BY <1>3, <3>1, LoopKeepsAhead
  <2>3. OpenedInv'
    BY <1>3 DEF StartPolling, BeginPoll, NextStep, NextCycle, CutSpacing, CutInterval, Idle, callState,
       StartLoop, SpacingOver, IntervalOver, SpacingCut, IntervalCut, TypeInv, CycleTypeOK, OpenedInv
  <2>4. ASSUME NEW i \in 1..Len(Steps) PROVE AgeInv(i)' /\ WindowInv(i)'
    <3>1. Ahead(i)' = Ahead(i)
      BY <1>3, LoopKeepsAhead
    <3>2. QED
      BY <1>1, <2>1, <3>1, DataStays
  <2>5. QED
    BY <2>2, <2>3, <2>4
<1>4. CASE CancelPolling
  <2>1. UNCHANGED <<age, misses, windowAge, now, opened, call, sent, left>> /\ pollCtx' = "canceled"
    BY <1>4 DEF CancelPolling, CancelLoop, dataState, callState
  <2>2. CallInv'
    BY <2>1 DEF CallInv, Rest, CallBound
  <2>3. OpenedInv'
    <3>1. CallAhead' = 0
      BY <2>1 DEF CallAhead
    <3>2. CASE call = "none"
      BY <2>1, <3>2 DEF OpenedInv
    <3>3. CASE call # "none"
      BY <1>2, <2>1, <3>1, <3>3, OpenedStays
    <3>4. QED
      BY <3>2, <3>3
  <2>4. ASSUME NEW i \in 1..Len(Steps) PROVE AgeInv(i)' /\ WindowInv(i)'
    <3>1. Ahead(i)' = 0
      BY <2>1 DEF Ahead
    <3>2. QED
      BY <1>1, <2>1, <3>1, DataStays
  <2>5. QED
    BY <2>2, <2>3, <2>4
<1>5. CASE SendRequest \/ EndRequest \/ BackOff \/ GiveUp
  <2>1. UNCHANGED <<age, misses, windowAge, now, opened>> /\ call # "none"
    BY <1>5 DEF SendRequest, EndRequest, BackOff, GiveUp, dataState, Call!Send, Call!Succeed,
       Call!Fail, Call!Retry, Call!Refuse
  <2>2. CallInv'
    BY <1>5, CallKeepsRest
  <2>3. OpenedInv'
    <3>1. PICK i \in 1..Len(Steps) : TRUE
      BY StepsType
    <3>2. PICK n \in Int : n <= CallAhead /\ CallAhead' = n
      BY <1>5, <3>1, CallKeepsAhead
    <3>3. QED
      BY <2>1, <3>2, OpenedStays
  <2>4. ASSUME NEW i \in 1..Len(Steps) PROVE AgeInv(i)' /\ WindowInv(i)'
    <3>1. PICK n \in Int : n <= Ahead(i) /\ Ahead(i)' = n
      BY <1>5, CallKeepsAhead
    <3>2. QED
      BY <2>1, <3>1, DataStays
  <2>5. QED
    BY <2>2, <2>3, <2>4
<1>6. CASE EndPollWithData \/ EndPollWithout
  <2>1. index \in 1..Len(Steps)
    BY DEF TypeInv, LoopInv, LoopTypeOK
  <2>2. CallInv'
    BY <1>6, <2>1, EndOfStep
  <2>3. OpenedInv'
    BY <1>6 DEF EndPollWithData, EndPollWithout, OpenedInv
  <2>4. AgeInv(index)' /\ WindowInv(index)'
    BY <1>6, <2>1, DataRenewed, DataMissed
  <2>5. ASSUME NEW i \in 1..Len(Steps) PROVE AgeInv(i)' /\ WindowInv(i)'
    <3>1. CASE i = index
      <4>1. index' = index
        BY <1>6 DEF EndPollWithData, EndPollWithout, EndStep
      <4>2. QED
        BY <2>4, <3>1, <4>1 DEF AgeInv, WindowInv, Ahead, Until, Gap
    <3>2. CASE i # index
      <4>1. Steps[i] # Endpoint
        BY <2>1, <3>2, StepsAssumption, DistinctSteps DEF Endpoint
      <4>2. UNCHANGED <<age[Steps[i]], misses[Steps[i]], windowAge[Steps[i]], now>>
        BY <1>6, <4>1, DataTypes DEF EndPollWithData, EndPollWithout, TypeInv, CycleTypeOK
      <4>3. Ahead(i)' = Ahead(i)
        BY <1>6, <3>2, EndOfStep
      <4>4. QED
        BY <1>1, <4>2, <4>3, DataStays
    <3>3. QED
      BY <3>1, <3>2
  <2>6. QED
    BY <2>2, <2>3, <2>5
<1>7. CASE WaitInLoop \/ WaitInCall
  <2>1. CallInv'
    <3>1. PICK i \in 1..Len(Steps) : TRUE
      BY StepsType
    <3>2. QED
      BY <1>7, <3>1, TickOfLoop
  <2>2. OpenedInv'
    <3>1. CASE WaitInCall
      BY <3>1, OpenedAges
    <3>2. CASE WaitInLoop
      BY <3>2 DEF WaitInLoop, Elapse, ClockTicks, TypeInv, CycleTypeOK, OpenedInv
    <3>3. QED
      BY <1>7, <3>1, <3>2
  <2>3. ASSUME NEW i \in 1..Len(Steps) PROVE AgeInv(i)' /\ WindowInv(i)'
    <3>1. Ahead(i)' = Ahead(i) - 1 /\ ClockTicks
      BY <1>7, TickOfLoop DEF WaitInLoop, WaitInCall
    <3>2. QED
      BY <3>1, DataAges
  <2>4. QED
    BY <2>1, <2>2, <2>3
<1>8. CASE UNCHANGED cycleVars
  BY <1>8 DEF cycleVars, loopVars, callState, dataState, CallInv, OpenedInv, AgeInv, WindowInv, Rest,
     CallAhead, Ahead, Until, Gap, Since, Allowed, CallBound, Cycle
<1>9. QED
  BY <1>3, <1>4, <1>5, <1>6, <1>7, <1>8 DEF CycleNext, CycleStep

LEMMA CycleInvariance == CycleSpec => []CycleInv
BY CycleInvInit, CycleInvNext, PTL DEF CycleSpec

\* What scrapes show is at most a cycle old, and a cycle more for each failed poll of
\* its endpoint, whatever the other steps, their retries and the timers do
\* (runPollSteps, braiins_pool_data_age_seconds).
THEOREM NoDataTooOld == CycleSpec => []AgeWithinCycle
<1>1. ASSUME CycleInv PROVE AgeWithinCycle
  <2>1. SUFFICES ASSUME NEW e \in Endpoints, age[e] # None, misses[e] <= MaxMisses
                 PROVE  age[e] <= (misses[e] + 1) * Cycle
    BY DEF AgeWithinCycle
  <2>2. PICK i \in 1..Len(Steps) : e = Steps[i]
    BY StepsAssumption DEF Endpoints
  <2>3. age[e] + Ahead(i) <= Allowed(misses[e])
    BY <1>1, <2>1, <2>2 DEF CycleInv, DataInv, AgeInv
  <2>4. age[e] \in Nat /\ Ahead(i) \in Nat /\ Allowed(misses[e]) \in Nat
    BY <1>1, <2>1, <2>2, DataTypes, AheadType, AllowedType DEF CycleInv, DataInv
  <2>5. QED
    BY <2>3, <2>4 DEF Allowed
<1>2. QED
  BY <1>1, CycleInvariance, PTL

\* A history endpoint's totals are of today's window again a cycle and a call after
\* midnight at the latest, and a cycle more for each failed poll (dateWindow).
THEOREM WindowFollowsMidnight == CycleSpec => []WindowIsRecent
<1>1. ASSUME CycleInv PROVE WindowIsRecent
  <2>1. SUFFICES ASSUME NEW e \in Endpoints, windowAge[e] > 0, misses[e] <= MaxMisses
                 PROVE  (windowAge[e] - 1) * Day + now <= (misses[e] + 1) * Cycle + CallBound
    BY DEF WindowIsRecent
  <2>2. PICK i \in 1..Len(Steps) : e = Steps[i]
    BY StepsAssumption DEF Endpoints
  <2>3. Since(windowAge[e]) + Ahead(i) <= Allowed(misses[e]) + CallBound
    BY <1>1, <2>1, <2>2 DEF CycleInv, DataInv, WindowInv
  <2>4. /\ Since(windowAge[e]) \in Int /\ Ahead(i) \in Nat /\ Allowed(misses[e]) \in Nat
        /\ CallBound \in Nat
    BY <1>1, <2>1, <2>2, DataTypes, AheadType, AllowedType, BoundTypes DEF CycleInv, DataInv
  <2>5. QED
    BY <2>3, <2>4 DEF Allowed, Since
<1>2. QED
  BY <1>1, CycleInvariance, PTL

-----------------------------------------------------------------------------
(* Safety of the exporter process, for any steps, timers, number of probes *)
(* and requests in progress.                                               *)
(*                                                                         *)
(* The inductive invariant ties everything the shutdown touches to the     *)
(* program counter of run: the flag, the poll context, the budget and the  *)
(* listener change at known lines, and net/http reports a clean stop only  *)
(* after the listener was closed.                                          *)

Starting == main \in {"listen", "launch"}
Stopping == main \in {"drain", "closing", "await"}

\* What run has done so far.
MainInv ==
    /\ initialized <=> main \in {"notify", "select"}
    /\ pollCtx = "canceled" <=> Stopping
    /\ budget # "unset" <=> Stopping
    /\ listening <=> main \in {"launch", "notify", "select", "stop", "drain"}
    /\ Starting => serve = "unstarted"
    /\ main \in {"closing", "await"} => PollDone \/ budget = "expired"
    /\ main = "await" => NoneActive

\* What the goroutine of app.Serve has reported, and what run made of it.
ServeInv ==
    /\ serveErr # "empty" => serve = "returned"
    /\ serveErr = "nil" => main \in {"closing", "await"}
    /\ exit = "ok" => main = "await" /\ serveErr = "nil"

\* A probe that saw the flag began before the shutdown, and data stay.
ProbeInv ==
    \A p \in Probes :
        /\ probe[p] \in {"loaded", "ready"} => ~late[p]
        /\ probe[p] = "ready" => (token => accountReady)

Inv == TypeOK /\ MainInv /\ ServeInv /\ ProbeInv

\* The steps of the poll loop do not undo its end.
LEMMA PollDoneStable == PollDone /\ LoopStep /\ UNCHANGED token => PollDone'
BY DEF PollDone, LoopStep, BeginStep, EndStep, SpacingOver, SpacingCut, IntervalOver, IntervalCut,
       Elapse

LEMMA LoopStepKeepsContext == LoopStep => UNCHANGED pollCtx
BY DEF LoopStep, BeginStep, EndStep, SpacingOver, SpacingCut, IntervalOver, IntervalCut, Elapse

LEMMA InvInit == Init => Inv
<1> SUFFICES ASSUME Init PROVE Inv
  OBVIOUS
<1>1. TypeOK
  <2>1. LoopTypeOK
    BY LoopInvInit DEF Init, LoopInv
  <2>2. requests \in 0..MaxRequests
    BY RequestsAssumption DEF Init
  <2>3. /\ probe \in [Probes -> {"idle", "loaded", "ready", "not_ready"}]
        /\ late \in [Probes -> BOOLEAN]
    BY DEF Init
  <2>4. QED
    BY <2>1, <2>2, <2>3, Zenon DEF Init, TypeOK
<1>2. MainInv
  BY DEF Init, MainInv, LoopInit, Starting, Stopping
<1>3. ServeInv /\ ProbeInv
  BY DEF Init, ServeInv, ProbeInv
<1>4. QED
  BY <1>1, <1>2, <1>3 DEF Inv

\* To the poll loop every step of the process is one of its own, its start, its
\* cancellation, or none.
LEMMA ProcessRunsLoop == [Next]_vars => [LoopNext]_loopVars
<1> SUFFICES ASSUME [Next]_vars PROVE [LoopNext]_loopVars
  OBVIOUS
<1> USE DEF LoopNext
<1>1. CASE ListenFails
  BY <1>1 DEF ListenFails
<1>2. CASE Listen
  BY <1>2 DEF Listen
<1>3. CASE Launch
  BY <1>3 DEF Launch
<1>4. CASE Notify
  BY <1>4 DEF Notify
<1>5. CASE SelectServeErr
  BY <1>5 DEF SelectServeErr
<1>6. CASE SelectSignal
  BY <1>6 DEF SelectSignal
<1>7. CASE StopPolling
  BY <1>7 DEF StopPolling
<1>8. CASE Shutdown
  BY <1>8 DEF Shutdown
<1>9. CASE ShutdownComplete
  BY <1>9 DEF ShutdownComplete
<1>10. CASE ShutdownFails
  BY <1>10 DEF ShutdownFails
<1>11. CASE Finish
  BY <1>11 DEF Finish
<1>12. CASE BudgetExpires
  BY <1>12 DEF BudgetExpires
<1>13. CASE AcceptFails
  BY <1>13 DEF AcceptFails
<1>14. CASE ServeStops
  BY <1>14 DEF ServeStops
<1>15. CASE RequestArrives
  BY <1>15 DEF RequestArrives
<1>16. CASE RequestEnds
  BY <1>16 DEF RequestEnds
<1>17. CASE \E p \in Probes : LoadInitialized(p) \/ AskAccount(p)
  <2>1. PICK p \in Probes : LoadInitialized(p) \/ AskAccount(p)
    BY <1>17
  <2>2. CASE LoadInitialized(p)
    BY <2>2 DEF LoadInitialized
  <2>3. CASE AskAccount(p)
    BY <2>3 DEF AskAccount
  <2>4. QED
    BY <2>1, <2>2, <2>3
<1>18. CASE LoopStep /\ UNCHANGED mainVars
  BY <1>18
<1>19. CASE PublishProfile
  BY <1>19 DEF PublishProfile
<1>20. CASE Signal
  BY <1>20 DEF Signal
<1>21. CASE UNCHANGED vars
  BY <1>21 DEF vars
<1>22. QED
  BY <1>1, <1>2, <1>3, <1>4, <1>5, <1>6, <1>7, <1>8, <1>9, <1>10, <1>11, <1>12,
     <1>13, <1>14, <1>15, <1>16, <1>17, <1>18, <1>19, <1>20, <1>21
     DEF Next, MainStep, Poller

LEMMA TypeOKNext == LoopInv /\ TypeOK /\ [Next]_vars => TypeOK'
<1> SUFFICES ASSUME LoopInv, TypeOK, [Next]_vars PROVE TypeOK'
  OBVIOUS
<1> LoopTypeOK'
  BY LoopInvNext, ProcessRunsLoop DEF LoopInv
<1> USE RequestsAssumption DEF TypeOK, mainVars
<1>1. CASE ListenFails
  BY <1>1 DEF ListenFails
<1>2. CASE Listen
  BY <1>2 DEF Listen
<1>3. CASE Launch
  BY <1>3 DEF Launch
<1>4. CASE Notify
  BY <1>4 DEF Notify
<1>5. CASE SelectServeErr
  BY <1>5 DEF SelectServeErr
<1>6. CASE SelectSignal
  BY <1>6 DEF SelectSignal
<1>7. CASE StopPolling
  BY <1>7 DEF StopPolling
<1>8. CASE Shutdown
  BY <1>8 DEF Shutdown
<1>9. CASE ShutdownComplete
  BY <1>9 DEF ShutdownComplete
<1>10. CASE ShutdownFails
  BY <1>10 DEF ShutdownFails
<1>11. CASE Finish
  BY <1>11 DEF Finish
<1>12. CASE BudgetExpires
  BY <1>12 DEF BudgetExpires
<1>13. CASE AcceptFails
  BY <1>13 DEF AcceptFails
<1>14. CASE ServeStops
  BY <1>14 DEF ServeStops
<1>15. CASE RequestArrives
  BY <1>15 DEF RequestArrives
<1>16. CASE RequestEnds
  BY <1>16 DEF RequestEnds
<1>17. CASE \E p \in Probes : LoadInitialized(p) \/ AskAccount(p)
  <2>1. PICK p \in Probes : LoadInitialized(p) \/ AskAccount(p)
    BY <1>17
  <2>2. CASE LoadInitialized(p)
    BY <2>2 DEF LoadInitialized
  <2>3. CASE AskAccount(p)
    BY <2>3 DEF AskAccount
  <2>4. QED
    BY <2>1, <2>2, <2>3
<1>18. CASE LoopStep /\ UNCHANGED mainVars
  BY <1>18
<1>19. CASE PublishProfile
  BY <1>19 DEF PublishProfile
<1>20. CASE Signal
  BY <1>20 DEF Signal
<1>21. CASE UNCHANGED vars
  BY <1>21 DEF vars
<1>22. QED
  BY <1>1, <1>2, <1>3, <1>4, <1>5, <1>6, <1>7, <1>8, <1>9, <1>10, <1>11, <1>12,
     <1>13, <1>14, <1>15, <1>16, <1>17, <1>18, <1>19, <1>20, <1>21
     DEF Next, MainStep, Poller

LEMMA InvNext == LoopInv /\ Inv /\ [Next]_vars => Inv'
<1> SUFFICES ASSUME LoopInv, Inv, [Next]_vars PROVE Inv'
  OBVIOUS
<1> TypeOK'
  BY TypeOKNext DEF Inv
<1> USE DEF Inv, TypeOK, MainInv, ServeInv, ProbeInv, Starting, Stopping, PollDone, NoneActive,
            Running, loopVars, mainVars
<1>1. CASE ListenFails
  BY <1>1 DEF ListenFails
<1>2. CASE Listen
  BY <1>2 DEF Listen
<1>3. CASE Launch
  BY <1>3 DEF Launch, StartLoop
<1>4. CASE Notify
  BY <1>4 DEF Notify
<1>5. CASE SelectServeErr
  BY <1>5 DEF SelectServeErr
<1>6. CASE SelectSignal
  BY <1>6 DEF SelectSignal
<1>7. CASE StopPolling
  BY <1>7 DEF StopPolling, CancelLoop
<1>8. CASE Shutdown
  BY <1>8 DEF Shutdown
<1>9. CASE ShutdownComplete
  BY <1>9 DEF ShutdownComplete
<1>10. CASE ShutdownFails
  BY <1>10 DEF ShutdownFails
<1>11. CASE Finish
  BY <1>11 DEF Finish
<1>12. CASE BudgetExpires
  BY <1>12 DEF BudgetExpires
<1>13. CASE AcceptFails
  BY <1>13 DEF AcceptFails
<1>14. CASE ServeStops
  BY <1>14 DEF ServeStops
<1>15. CASE RequestArrives
  BY <1>15 DEF RequestArrives
<1>16. CASE RequestEnds
  BY <1>16 DEF RequestEnds
<1>17. CASE \E p \in Probes : LoadInitialized(p) \/ AskAccount(p)
  <2>1. PICK p \in Probes : LoadInitialized(p) \/ AskAccount(p)
    BY <1>17
  <2>2. CASE LoadInitialized(p)
    BY <2>2 DEF LoadInitialized
  <2>3. CASE AskAccount(p)
    BY <2>3 DEF AskAccount
  <2>4. QED
    BY <2>1, <2>2, <2>3
<1>18. CASE LoopStep /\ UNCHANGED mainVars
  BY <1>18, PollDoneStable, LoopStepKeepsContext
<1>19. CASE PublishProfile
  BY <1>19 DEF PublishProfile
<1>20. CASE Signal
  BY <1>20 DEF Signal
<1>21. CASE UNCHANGED vars
  BY <1>21 DEF vars
<1>22. QED
  BY <1>1, <1>2, <1>3, <1>4, <1>5, <1>6, <1>7, <1>8, <1>9, <1>10, <1>11, <1>12,
     <1>13, <1>14, <1>15, <1>16, <1>17, <1>18, <1>19, <1>20, <1>21
     DEF Next, MainStep, Poller

LEMMA Invariance == Spec => [](LoopInv /\ Inv)
<1>1. Init => LoopInv /\ Inv
  BY InvInit, LoopInvInit DEF Init
<1>2. LoopInv /\ Inv /\ [Next]_vars => (LoopInv /\ Inv)'
  BY LoopInvNext, ProcessRunsLoop, InvNext
<1>3. QED
  BY <1>1, <1>2, PTL DEF Spec

\* Type correctness of the process and its poll loop.
THEOREM TypeCorrect == Spec => []TypeOK
<1>1. Inv => TypeOK
  BY DEF Inv
<1>2. QED
  BY <1>1, Invariance, PTL

\* A probe is told ready only when there are data (or no account to have data of),
\* and never when it began after the shutdown did (SelfMetrics.Ready against run).
THEOREM ReadyIsHonest == Spec => []ReadyMeansReady
<1>1. Inv => ReadyMeansReady
  BY DEF Inv, ProbeInv, ReadyMeansReady
<1>2. QED
  BY <1>1, Invariance, PTL

\* The shutdown takes readiness away, then cancels polling, then closes the
\* listener, and closes it only when the poll loop is over or the budget is.
THEOREM ShutdownIsOrdered == Spec => []ShutdownOrder
<1>1. Inv => ShutdownOrder
  BY DEF Inv, MainInv, Stopping, ShutdownOrder
<1>2. QED
  BY <1>1, Invariance, PTL

\* Exit status 0 means that every accepted request was answered, and that the poll
\* loop was over unless the shutdown budget was spent.
THEOREM ExitIsClean == Spec => []CleanExit
<1>1. Inv => CleanExit
  <2> SUFFICES ASSUME Inv, exit = "ok" PROVE NoneActive /\ serve = "returned" /\ (PollDone \/ budget = "expired")
    BY DEF CleanExit
  <2>1. main = "await" /\ serveErr = "nil"
    BY DEF Inv, ServeInv
  <2>2. QED
    BY <2>1 DEF Inv, ServeInv, MainInv
<1>2. QED
  BY <1>1, Invariance, PTL

\* In the whole process, too, steps are spaced: nothing run does disturbs the
\* waits of its poll loop.
THEOREM ProcessKeepsSpacing == Spec => []StepsAreSpaced
<1>1. LoopInv => StepsAreSpaced
  BY DEF LoopInv
<1>2. QED
  BY <1>1, Invariance, PTL

-----------------------------------------------------------------------------
(* The process from its start, for any inputs.  What was proved of the     *)
(* life cycle carries over, since construction is not seen by it.  That    *)
(* settings take effect rests on Validate: every number that gets past it  *)
(* is positive, and therefore no constructor replaces it.                  *)

Built == {"client", "collectors", "server", "run", "crashed"}

\* What Load has made sure of, and what construction has done with it so far.
StartInv ==
    /\ input \in Inputs
    /\ token = HasToken(input)
    /\ stage \in Built => Loads(input) /\ cfg = [n \in Numbers |-> Setting(input, n)]
    /\ stage \notin Built => used = NotUsed
    /\ used \in [Numbers -> Int]
    /\ stage \in Built => \A n \in Numbers : used[n] \in {0, cfg[n]}
    /\ stage # "run" => loop = "unstarted"
    /\ loop # "unstarted" => token

\* The settings that load are positive numbers.
LEMMA LoadedSettings ==
    ASSUME NEW i \in Inputs, Loads(i), NEW n \in Numbers
    PROVE  /\ Setting(i, n) \in Int /\ Setting(i, n) > 0
           /\ Setting(i, n) = IF i[n].form = "given" THEN i[n].value ELSE Default[n]
           /\ i[n].form # "malformed"
           /\ n = "historyDays" => Setting(i, n) <= 90
BY TextsAssumption DEF Loads, Validate, Unparsed, Setting, Default, Numbers, MaxHistoryDays

\* Without a token no action of the process starts the loop; and what it read of the
\* token stays.
LEMMA OnlyTokenStartsLoop ==
    Next => /\ token' = token
            /\ loop = "unstarted" /\ ~token => loop' = "unstarted"
<1> SUFFICES ASSUME Next
             PROVE  /\ token' = token
                    /\ loop = "unstarted" /\ ~token => loop' = "unstarted"
  OBVIOUS
<1>1. CASE MainStep
  BY <1>1 DEF MainStep, ListenFails, Listen, Launch, Notify, SelectServeErr, SelectSignal, StopPolling,
              Shutdown, ShutdownComplete, ShutdownFails, Finish, CancelLoop, loopVars
<1>2. CASE Poller
  BY <1>2 DEF Poller, PublishProfile, mainVars, loopVars, LoopStep, BeginStep, EndStep, SpacingOver,
              SpacingCut, IntervalOver, IntervalCut, Elapse
<1>3. CASE \E p \in Probes : LoadInitialized(p) \/ AskAccount(p)
  BY <1>3 DEF LoadInitialized, AskAccount, loopVars
<1>4. CASE BudgetExpires \/ AcceptFails \/ ServeStops \/ RequestArrives \/ RequestEnds \/ Signal
  BY <1>4 DEF BudgetExpires, AcceptFails, ServeStops, RequestArrives, RequestEnds, Signal, loopVars
<1>5. QED
  BY <1>1, <1>2, <1>3, <1>4 DEF Next

LEMMA StartInvInit == StartupInit => StartInv
BY DEF StartupInit, StartInv, Built, NotUsed, Init, LoopInit, Numbers

\* Construction, while loop and token are still as they were.
LEMMA StartInvConstruction == StartInv /\ Running /\ StartupStep => StartInv'
<1> SUFFICES ASSUME StartInv, StartupStep PROVE StartInv'
  OBVIOUS
<1> USE DEF StartInv, Built
<1>1. UNCHANGED <<loop, token, input>> /\ loop = "unstarted"
  BY DEF StartupStep, Helps, Refuses, Load, NewClient, NewCollectors, NewServer, NewServerPanics,
         vars, mainVars, loopVars
<1>2. HasToken(input)' = HasToken(input)
  BY <1>1
<1>3. CASE Helps \/ Refuses
  BY <1>1, <1>3 DEF Helps, Refuses, NotUsed
<1>4. CASE Load
  BY <1>1, <1>4 DEF Load, NotUsed
<1>5. CASE NewClient
  <2>1. cfg.timeout = Setting(input, "timeout") /\ cfg.timeout \in Int /\ cfg.timeout > 0
    BY <1>5, LoadedSettings DEF NewClient, Numbers
  <2>2. used' = [used EXCEPT !.timeout = cfg.timeout]
    BY <1>5, <2>1 DEF NewClient, OrElse
  <2>3. used' \in [Numbers -> Int] /\ \A n \in Numbers : used'[n] \in {0, cfg[n]}
    BY <1>5, <2>1, <2>2 DEF Numbers, NewClient
  <2>4. QED
    BY <1>1, <1>5, <2>3 DEF NewClient
<1>6. CASE NewCollectors
  <2> DEFINE w == IF Enabled(input, "workers") THEN cfg.maxWorkers ELSE 0
             d == IF Enabled(input, "rewards") \/ Enabled(input, "payouts") THEN cfg.historyDays ELSE 0
  <2>1. /\ cfg.maxWorkers \in Int /\ cfg.maxWorkers > 0
        /\ cfg.historyDays \in Int /\ cfg.historyDays > 0
    BY <1>6, LoadedSettings DEF NewCollectors, Numbers
  <2>2. OrElse(cfg.maxWorkers, 100) = cfg.maxWorkers /\ OrElse(cfg.historyDays, 7) = cfg.historyDays
    BY <2>1 DEF OrElse
  <2>3. used' = [used EXCEPT !.maxWorkers = w, !.historyDays = d]
    BY <1>6, <2>2, Zenon DEF NewCollectors
  <2>4. w \in {0, cfg.maxWorkers} /\ d \in {0, cfg.historyDays}
    OBVIOUS
  <2>5. \A n \in Numbers : used[n] \in {0, cfg[n]}
    BY <1>6 DEF NewCollectors
  <2>6. w \in Int /\ d \in Int
    BY <2>1
  <2> HIDE DEF w, d
  <2>7. \A n \in Numbers : /\ n = "maxWorkers" => used'[n] = w
                           /\ n = "historyDays" => used'[n] = d
                           /\ n \notin {"maxWorkers", "historyDays"} => used'[n] = used[n]
    BY <2>3 DEF Numbers
  <2>8. used' \in [Numbers -> Int]
    <3>1. DOMAIN used' = Numbers /\ used' = [n \in Numbers |-> used'[n]]
      BY <2>3
    <3>2. \A n \in Numbers : used'[n] \in Int
      BY <2>6, <2>7
    <3>3. QED
      BY <3>1, <3>2
  <2>9. \A n \in Numbers : used'[n] \in {0, cfg[n]}
    BY <2>4, <2>5, <2>7
  <2>10. QED
    BY <1>1, <1>6, <2>8, <2>9 DEF NewCollectors
<1>7. CASE NewServer \/ NewServerPanics
  BY <1>1, <1>7 DEF NewServer, NewServerPanics
<1>8. QED
  BY <1>3, <1>4, <1>5, <1>6, <1>7 DEF StartupStep

\* The running process, and one that is killed before it runs.
LEMMA StartInvNext == StartInv /\ [StartupNext]_allVars => StartInv'
<1> SUFFICES ASSUME StartInv, [StartupNext]_allVars PROVE StartInv'
  OBVIOUS
<1> USE DEF StartInv, Built
<1>1. CASE Running /\ StartupStep
  BY <1>1, StartInvConstruction
<1>2. CASE Running /\ KilledEarly
  BY <1>2 DEF KilledEarly, Signal, startupVars, loopVars
<1>3. CASE Serving(Next)
  <2>1. UNCHANGED <<input, stage, cfg, token>> /\ stage = "run"
    BY <1>3, OnlyTokenStartsLoop DEF Serving
  <2>2. loop' # "unstarted" => token
    BY <1>3, OnlyTokenStartsLoop DEF Serving
  <2>3. cfg.interval \in Int /\ cfg.interval > 0
    BY <2>1, LoadedSettings DEF Numbers
  <2>4. used' \in {used, [used EXCEPT !.interval = cfg.interval]}
    BY <1>3, <2>3 DEF Serving, OrElse
  <2>5. used' \in [Numbers -> Int] /\ \A n \in Numbers : used'[n] \in {0, cfg[n]}
    BY <2>1, <2>3, <2>4 DEF Numbers
  <2>6. QED
    BY <2>1, <2>2, <2>5
<1>4. CASE UNCHANGED allVars
  BY <1>4 DEF allVars, startupVars, vars, mainVars, loopVars
<1>5. QED
  BY <1>1, <1>2, <1>3, <1>4 DEF StartupNext

\* To the life cycle, a step of the whole process is one of its own or none.
LEMMA StartupIsLifecycle == [StartupNext]_allVars => [Next]_vars
BY DEF StartupNext, allVars, StartupStep, Helps, Refuses, Load, NewClient, NewCollectors, NewServer,
       NewServerPanics, KilledEarly, Serving, Next

\* Whatever the process is started with, it works with the numbers it was given or the
\* documented defaults (config.Load, Validate and the constructors).
THEOREM SettingsHold == StartupSpec => []SettingsTakeEffect
<1>1. StartInv => SettingsTakeEffect
  <2> SUFFICES ASSUME StartInv, stage = "run", NEW n \in Numbers
               PROVE  /\ input[n].form # "malformed"
                      /\ used[n] # 0 => used[n] = IF input[n].form = "given" THEN input[n].value
                                                  ELSE Default[n]
                      /\ n = "historyDays" => used[n] <= 90
    BY DEF SettingsTakeEffect
  <2>1. Loads(input) /\ cfg[n] = Setting(input, n) /\ used[n] \in {0, cfg[n]}
    BY DEF StartInv, Built
  <2>2. QED
    BY <2>1, LoadedSettings DEF StartInv
<1>2. QED
  BY <1>1, StartInvInit, StartInvNext, PTL DEF StartupSpec

\* Whatever the process is started with, it polls only with exactly one token source,
\* and runs without polling only if it was given none (config.Load).
THEOREM OneSourceOfTheToken == StartupSpec => []OneTokenSource
<1>1. StartInv => OneTokenSource
  <2> SUFFICES ASSUME StartInv PROVE OneTokenSource
    OBVIOUS
  <2>1. stage = "run" => ~TokenRefused(input)
    BY DEF StartInv, Built, Loads
  <2>2. token <=> Present(input.token) \/ Present(input.file)
    BY DEF StartInv, HasToken, TokenSources
  <2>3. stage = "run" => ~(Present(input.token) /\ Present(input.file))
                         /\ input.file \notin {"unreadable", "empty"}
    BY <2>1 DEF TokenRefused, TokenSources
  <2>4. QED
    BY <2>2, <2>3, TextsAssumption DEF StartInv, OneTokenSource, Present
<1>2. QED
  BY <1>1, StartInvInit, StartInvNext, PTL DEF StartupSpec

\* Readiness, the order of the shutdown and the exit status are as safe when the
\* process is seen from its first instruction (main and run).
THEOREM StartupKeepsLifecycle == StartupSpec => [](ReadyMeansReady /\ ShutdownOrder /\ CleanExit)
<1>1. StartupInit => LoopInv /\ Inv
  BY InvInit, LoopInvInit DEF StartupInit, Init
<1>2. LoopInv /\ Inv /\ [StartupNext]_allVars => (LoopInv /\ Inv)'
  BY StartupIsLifecycle, ProcessRunsLoop, LoopInvNext, InvNext
<1>3. Inv => ReadyMeansReady /\ ShutdownOrder
  BY DEF Inv, ProbeInv, ReadyMeansReady, MainInv, Stopping, ShutdownOrder
<1>4. Inv => CleanExit
  <2> SUFFICES ASSUME Inv, exit = "ok" PROVE NoneActive /\ serve = "returned" /\ (PollDone \/ budget = "expired")
    BY DEF CleanExit
  <2>1. main = "await" /\ serveErr = "nil"
    BY DEF Inv, ServeInv
  <2>2. QED
    BY <2>1 DEF Inv, ServeInv, MainInv
<1>5. QED
  BY <1>1, <1>2, <1>3, <1>4, PTL DEF StartupSpec
=============================================================================
