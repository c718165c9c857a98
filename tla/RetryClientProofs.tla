------------------------- MODULE RetryClientProofs -------------------------
(***************************************************************************)
(* Safety of one DoJSON call, for any policy, any answers, any width of    *)
(* durations and cancellation at any moment.                               *)
(*                                                                         *)
(* The argument: what the call holds as its error tells whether the last   *)
(* answer was final, and a wait is entered only if it was not; requests,   *)
(* waits and answers are counted by the attempt they belong to.            *)
(***************************************************************************)
EXTENDS RetryClient, TLAPS

\* Errors that shouldRetry retries while the context is live.
Transient(e) ==
    \/ e.type = "status" /\ (e.status = 429 \/ ServerStatus(e.status))
    \/ e.type \in {"transport", "transport_timeout"}

\* Requests, waits and attempts.
EffortInv ==
    /\ attempt <= policy.maxAttempts
    /\ sent <= (IF pc = "attempt" THEN attempt - 1 ELSE attempt)
    /\ delay <= policy.max
    /\ pc # "sleeping" => delay = 0
    /\ pc = "sleeping" => attempt < policy.maxAttempts
    /\ slept <= (attempt - 1) * policy.max

\* Which answers may be final.
FinalInv ==
    /\ \A i \in 1..Len(answers) - 1 : ~FinalAnswer(answers[i])
    /\ pc \in {"attempt", "inflight", "sleeping"} => \A i \in 1..Len(answers) : ~FinalAnswer(answers[i])
    /\ pc = "failed" /\ Transient(err) => \A i \in 1..Len(answers) : ~FinalAnswer(answers[i])

\* What the error says, and of which answer as long as nobody cancels.
ReportInv ==
    /\ pc = "failed" => err.type # "nil"
    /\ pc = "returned" /\ err.type = "nil" => answers # <<>> /\ Last(answers).kind = "ok"
    /\ ctx = "live" /\ wellFormed =>
          /\ pc \in {"attempt", "inflight"} => Len(answers) = attempt - 1
          /\ pc = "sleeping" => Len(answers) = attempt
          /\ pc \in {"failed", "returned"} => Len(answers) = attempt /\ err = ErrorOf(Last(answers))
          /\ pc = "returned" => FinalAnswer(Last(answers)) \/ attempt = policy.maxAttempts

Inv == TypeOK /\ EffortInv /\ FinalInv /\ ReportInv

-----------------------------------------------------------------------------
(* Operators                                                               *)

LEMMA NoHeaderType == NoHeader \in RetryAfterHeader
BY WidthAssumption DEF NoHeader, RetryAfterHeader, Duration

\* normalizeRetryPolicy makes every policy bounded and positive.
LEMMA NormalizeType == ASSUME NEW raw \in RawPolicy PROVE Normalize(raw) \in Policy
BY WidthAssumption DEF Normalize, Positive, RawPolicy, Policy, Duration

LEMMA ErrorOfType == ASSUME NEW a \in Answer PROVE ErrorOf(a) \in Errors
BY NoHeaderType DEF Answer, Kinds, ErrorOf, Plain, Error, Errors, ErrorTypes

\* The error of an answer is retried exactly if the answer is not final.
LEMMA ErrorOfFinal ==
    ASSUME NEW a \in Answer
    PROVE  /\ Transient(ErrorOf(a)) <=> ~FinalAnswer(a)
           /\ ErrorOf(a).type = "nil" <=> a.kind = "ok"
BY DEF Answer, Kinds, ErrorOf, Plain, Error, Transient, FinalAnswer

LEMMA ShouldRetryTransient ==
    ASSUME NEW e \in Errors PROVE ShouldRetry(e) <=> ctx = "live" /\ Transient(e)
BY DEF ShouldRetry, Transient, Errors

\* capDuration gives a delay between nothing and the maximum, whatever came out of
\* a header or of the exponential.
LEMMA CapBounds ==
    ASSUME NEW value \in Int, NEW max \in Nat PROVE Cap(value, max) \in 0..max
BY DEF Cap

LEMMA WrapType == ASSUME NEW x \in Int PROVE Wrap(x) \in Int
BY WidthAssumption DEF Wrap

LEMMA DelayBounds ==
    ASSUME policy \in Policy, NEW e \in Errors, NEW n \in 1..3
    PROVE  RetryDelay(e, n) \in 0..policy.max
<1>1. policy.max \in Nat /\ policy.initial \in Nat /\ policy.rateLimit \in Nat
  BY WidthAssumption DEF Policy
<1>2. e.retryAfter.value \in Int
  BY WidthAssumption DEF Errors, RetryAfterHeader, Duration
<1>3. HeaderDelay(e.retryAfter) \in Int
  <2>1. e.retryAfter.value * Second \in Int
    BY <1>2, WidthAssumption
  <2>2. QED
    BY <1>2, <2>1, WrapType DEF HeaderDelay
<1>4. Exponential(policy.initial, n) \in Int
  BY <1>1, WidthAssumption DEF Exponential, Duration
<1>5. \A value \in Int : Cap(value, policy.max) \in 0..policy.max
  BY <1>1, CapBounds
<1>6. CASE e.type = "status" /\ e.status = 429
  BY <1>1, <1>3, <1>5, <1>6 DEF RetryDelay
<1>7. CASE ~(e.type = "status" /\ e.status = 429)
  BY <1>4, <1>5, <1>7 DEF RetryDelay
<1>8. QED
  BY <1>6, <1>7

-----------------------------------------------------------------------------
(* The invariant                                                           *)

LEMMA InvInit == Init => Inv
<1> SUFFICES ASSUME Init PROVE Inv
  OBVIOUS
<1>1. policy \in Policy
  BY NormalizeType, PolicyAssumption DEF Init
<1>2. err \in Errors
  BY NoHeaderType DEF Init, Plain, Error, Errors, ErrorTypes
<1>3. TypeOK
  BY <1>1, <1>2 DEF Init, TypeOK
<1>4. EffortInv
  BY <1>1, WidthAssumption DEF Init, EffortInv, Policy
<1>5. Len(answers) = 0
  BY DEF Init
<1>6. FinalInv
  BY <1>5 DEF Init, FinalInv
<1>7. ReportInv
  BY <1>5 DEF Init, ReportInv
<1>8. QED
  BY <1>3, <1>4, <1>6, <1>7 DEF Inv

LEMMA InvNext == Inv /\ [Next]_vars => Inv'
<1> SUFFICES ASSUME Inv, [Next]_vars PROVE Inv'
  OBVIOUS
<1>1. CASE Cancel
  <2> USE <1>1 DEF Cancel
  <2>1. TypeOK'
    BY DEF Inv, TypeOK
  <2>2. EffortInv'
    BY DEF Inv, EffortInv
  <2>3. FinalInv'
    BY DEF Inv, FinalInv, FinalAnswer, ServerStatus, Transient
  <2>4. ReportInv'
    BY DEF Inv, ReportInv
  <2>5. QED
    BY <2>1, <2>2, <2>3, <2>4 DEF Inv
<1>2. CASE BeginAttempt
  <2> USE <1>2 DEF BeginAttempt
  <2>1. TypeOK'
    BY NoHeaderType DEF Inv, TypeOK, Plain, Error, Errors, ErrorTypes
  <2>2. EffortInv'
    BY DEF Inv, EffortInv, TypeOK
  <2>3. FinalInv'
    BY DEF Inv, FinalInv, FinalAnswer, ServerStatus
  <2>4. ReportInv'
    BY DEF Inv, ReportInv, Plain, Error
  <2>5. QED
    BY <2>1, <2>2, <2>3, <2>4 DEF Inv
<1>3. CASE \E a \in Answers : Receive(a)
  <2>1. PICK a \in Answers : Receive(a)
    BY <1>3
  <2>2. a \in Answer
    BY AnswerAssumption
  <2> USE <2>1, <2>2 DEF Receive
  <2>3. /\ answers \in Seq(Answer)
        /\ answers' = Append(answers, a)
        /\ Len(answers') = Len(answers) + 1
        /\ Len(answers) \in Nat
        /\ \A i \in 1..Len(answers) : answers'[i] = answers[i]
        /\ Last(answers') = a
    BY DEF Inv, TypeOK, Last
  <2>4. TypeOK'
    BY <2>3, ErrorOfType DEF Inv, TypeOK
  <2>5. EffortInv'
    BY DEF Inv, EffortInv, TypeOK
  <2>6. FinalInv'
    <3>1. \A i \in 1..Len(answers) : ~FinalAnswer(answers'[i])
      BY <2>3 DEF Inv, FinalInv
    <3>2. Transient(err') => ~FinalAnswer(a)
      BY ErrorOfFinal
    <3>3. answers'[Len(answers')] = a
      BY <2>3 DEF Last
    <3>4. \A i \in 1..Len(answers') - 1 : ~FinalAnswer(answers'[i])
      BY <2>3, <3>1
    <3>5. pc' \notin {"attempt", "inflight", "sleeping"}
      OBVIOUS
    <3>6. Transient(err') => \A i \in 1..Len(answers') : ~FinalAnswer(answers'[i])
      <4>1. \A i \in 1..Len(answers') : i \in 1..Len(answers) \/ i = Len(answers')
        BY <2>3
      <4>2. QED
        BY <3>1, <3>2, <3>3, <4>1
    <3>7. QED
      BY <3>4, <3>5, <3>6 DEF FinalInv, FinalAnswer, ServerStatus, Transient
  <2>7. ReportInv'
    <3>1. answers' # <<>>
      BY <2>3
    <3>2. a.kind = "ok" => FinalAnswer(a)
      BY DEF FinalAnswer
    <3>3. err'.type = "nil" <=> a.kind = "ok"
      BY ErrorOfFinal
    <3>4. ctx = "live" /\ wellFormed => Len(answers') = attempt /\ attempt' = attempt
      BY <2>3 DEF Inv, TypeOK, ReportInv
    <3>5. err' = ErrorOf(Last(answers'))
      BY <2>3
    <3>6. ctx' = ctx /\ wellFormed' = wellFormed /\ policy' = policy /\ pc' = (IF a.kind = "ok" THEN "returned" ELSE "failed")
      OBVIOUS
    <3>7. CASE a.kind = "ok"
      BY <2>3, <3>1, <3>2, <3>3, <3>4, <3>5, <3>6, <3>7 DEF ReportInv, FinalAnswer, ErrorOf, Error, Plain
    <3>8. CASE a.kind # "ok"
      <4>1. pc' = "failed" /\ err'.type # "nil"
        BY <3>3, <3>6, <3>8
      <4>2. ctx' = "live" /\ wellFormed' => Len(answers') = attempt' /\ err' = ErrorOf(Last(answers'))
        BY <3>4, <3>5, <3>6
      <4>3. QED
        BY <4>1, <4>2 DEF ReportInv, FinalAnswer, ServerStatus, ErrorOf, Error, Plain
    <3>9. QED
      BY <3>7, <3>8
  <2>8. QED
    BY <2>4, <2>5, <2>6, <2>7 DEF Inv
<1>4. CASE Abort
  <2> USE <1>4 DEF Abort
  <2>1. TypeOK'
    BY NoHeaderType DEF Inv, TypeOK, Plain, Error, Errors, ErrorTypes
  <2>2. EffortInv'
    BY DEF Inv, EffortInv
  <2>3. FinalInv'
    BY DEF Inv, FinalInv, FinalAnswer, ServerStatus
  <2>4. ReportInv'
    BY DEF Inv, ReportInv, Plain, Error
  <2>5. QED
    BY <2>1, <2>2, <2>3, <2>4 DEF Inv
<1>5. CASE GiveUp
  <2> USE <1>5 DEF GiveUp
  <2>1. TypeOK'
    BY DEF Inv, TypeOK
  <2>2. EffortInv'
    BY DEF Inv, EffortInv
  <2>3. FinalInv'
    BY DEF Inv, FinalInv, FinalAnswer, ServerStatus, Transient
  <2>4. ReportInv'
    <3>1. SUFFICES ASSUME ctx = "live", wellFormed, attempt # policy.maxAttempts
                   PROVE  FinalAnswer(Last(answers))
      BY DEF Inv, ReportInv
    <3>2. ~Transient(err)
      BY <3>1, ShouldRetryTransient DEF Inv, TypeOK
    <3>3. Len(answers) = attempt /\ err = ErrorOf(Last(answers))
      BY <3>1 DEF Inv, ReportInv
    <3>4. Last(answers) \in Answer
      BY <3>3 DEF Inv, TypeOK, Last
    <3>5. QED
      BY <3>2, <3>3, <3>4, ErrorOfFinal
  <2>5. QED
    BY <2>1, <2>2, <2>3, <2>4 DEF Inv
<1>6. CASE Backoff
  <2> USE <1>6 DEF Backoff
  <2>1. delay' \in 0..policy.max /\ policy.max \in Nat
    BY DelayBounds, WidthAssumption DEF Inv, TypeOK, Policy
  <2>2. TypeOK'
    BY <2>1 DEF Inv, TypeOK
  <2>3. EffortInv'
    BY <2>1 DEF Inv, EffortInv
  <2>4. FinalInv'
    <3>1. Transient(err)
      BY ShouldRetryTransient DEF Inv, TypeOK
    <3>2. QED
      BY <3>1 DEF Inv, FinalInv, FinalAnswer, ServerStatus
  <2>5. ReportInv'
    BY DEF Inv, ReportInv
  <2>6. QED
    BY <2>2, <2>3, <2>4, <2>5 DEF Inv
<1>7. CASE Wake
  <2> USE <1>7 DEF Wake
  <2>1. policy.max \in Nat /\ policy.maxAttempts \in 1..3 /\ attempt \in 1..3
    BY WidthAssumption DEF Inv, TypeOK, Policy
  <2>2. TypeOK'
    BY <2>1 DEF Inv, TypeOK, EffortInv
  <2>3. slept' <= (attempt' - 1) * policy.max
    <3>1. slept + delay <= (attempt - 1) * policy.max + policy.max
      BY <2>1 DEF Inv, TypeOK, EffortInv
    <3>2. (attempt - 1) * policy.max + policy.max = attempt * policy.max
      BY <2>1
    <3>3. QED
      BY <2>1, <3>1, <3>2 DEF Inv, TypeOK
  <2>4. EffortInv'
    BY <2>1, <2>3 DEF Inv, TypeOK, EffortInv
  <2>5. FinalInv'
    BY DEF Inv, FinalInv, FinalAnswer, ServerStatus
  <2>6. ReportInv'
    BY <2>1 DEF Inv, ReportInv
  <2>7. QED
    BY <2>2, <2>4, <2>5, <2>6 DEF Inv
<1>8. CASE SleepCut
  <2> USE <1>8 DEF SleepCut
  <2>1. TypeOK'
    BY NoHeaderType DEF Inv, TypeOK, Plain, Error, Errors, ErrorTypes
  <2>2. EffortInv'
    BY WidthAssumption DEF Inv, EffortInv, TypeOK, Policy
  <2>3. FinalInv'
    BY DEF Inv, FinalInv, FinalAnswer, ServerStatus
  <2>4. ReportInv'
    BY DEF Inv, ReportInv, Plain, Error
  <2>5. QED
    BY <2>1, <2>2, <2>3, <2>4 DEF Inv
<1>9. CASE UNCHANGED vars
  BY <1>9 DEF vars, Inv, TypeOK, EffortInv, FinalInv, ReportInv, FinalAnswer, ServerStatus, Transient
<1>10. QED
  BY <1>1, <1>2, <1>3, <1>4, <1>5, <1>6, <1>7, <1>8, <1>9 DEF Next, Step

LEMMA Invariance == Spec => []Inv
BY InvInit, InvNext, PTL DEF Spec

-----------------------------------------------------------------------------
(* Theorems                                                                *)

\* DoJSON keeps its state in its types: the normalised policy is always positive
\* and bounded, the attempt is 1, 2 or 3, no delay and no total wait is negative.
THEOREM TypeCorrect == Spec => []TypeOK
<1>1. Inv => TypeOK
  BY DEF Inv
<1>2. QED
  BY <1>1, Invariance, PTL

\* The cost of a call is bounded by its normalised policy, whatever headers the
\* answers carry and wherever the arithmetic of durations wraps around.
THEOREM EffortIsBounded == Spec => []BoundedEffort
<1>1. Inv => BoundedEffort
  <2> SUFFICES ASSUME Inv PROVE BoundedEffort
    OBVIOUS
  <2>1. sent <= attempt
    BY DEF Inv, TypeOK, EffortInv
  <2>2. QED
    BY <2>1 DEF Inv, EffortInv, BoundedEffort
<1>2. QED
  BY <1>1, Invariance, PTL

\* An answer that DoJSON takes for final is followed by no other answer.
THEOREM FinalAnswersAreLast == Spec => []FinalAnswerEndsCall
<1>1. Inv => FinalAnswerEndsCall
  <2> SUFFICES ASSUME Inv, NEW i \in 1..Len(answers), FinalAnswer(answers[i])
               PROVE  i = Len(answers) /\ pc \in {"failed", "returned"}
    BY DEF FinalAnswerEndsCall
  <2>1. Len(answers) \in Nat
    BY DEF Inv, TypeOK
  <2>2. i = Len(answers)
    BY <2>1 DEF Inv, FinalInv
  <2>3. pc \notin {"attempt", "inflight", "sleeping"}
    BY DEF Inv, FinalInv
  <2>4. QED
    BY <2>2, <2>3 DEF Inv, TypeOK
<1>2. QED
  BY <1>1, Invariance, PTL

\* What DoJSON returns is the outcome of the last answer: a success never stands
\* for anything but a decoded one, and a transient failure reaches the caller only
\* after maxAttempts answers, unless the caller canceled or there was no request.
THEOREM ReportsAreTrue == Spec => []ReportsLastAnswer
<1>1. Inv => ReportsLastAnswer
  <2> SUFFICES ASSUME Inv, pc = "returned"
               PROVE  /\ err.type = "nil" => answers # <<>> /\ Last(answers).kind = "ok"
                      /\ ctx = "live" /\ wellFormed =>
                            /\ answers # <<>> /\ err = ErrorOf(Last(answers))
                            /\ FinalAnswer(Last(answers)) \/ Len(answers) = policy.maxAttempts
    BY DEF ReportsLastAnswer
  <2>1. attempt \in 1..3
    BY DEF Inv, TypeOK
  <2>2. ctx = "live" /\ wellFormed => Len(answers) = attempt
    BY DEF Inv, ReportInv
  <2>3. ctx = "live" /\ wellFormed => answers # <<>>
    BY <2>1, <2>2
  <2>4. QED
    BY <2>2, <2>3 DEF Inv, ReportInv
<1>2. QED
  BY <1>1, Invariance, PTL

-----------------------------------------------------------------------------
(* The refinement of PollCall, and the names of results                     *)

\* Which attempts were handed to the network, and where errors come from that no
\* answer is the reason of.
AskedInv ==
    /\ pc \in {"inflight", "sleeping"} => sent = attempt
    /\ pc = "attempt" => sent = attempt - 1
    /\ pc = "failed" => sent \in {attempt - 1, attempt}
    /\ pc = "failed" /\ sent # attempt => ctx = "canceled" \/ (err.type = "request" /\ sent = 0)
    /\ ~wellFormed => sent = 0
    /\ err.type = "request" => ~wellFormed
    /\ err.type = "canceled" => ctx = "canceled"

LEMMA AskedInvInit == Init => AskedInv
BY DEF Init, AskedInv, Plain, Error

LEMMA AskedInvNext == Inv /\ AskedInv /\ [Next]_vars => AskedInv'
<1> SUFFICES ASSUME Inv, AskedInv, [Next]_vars PROVE AskedInv'
  OBVIOUS
<1>1. attempt \in 1..3 /\ sent \in Nat
  BY DEF Inv, TypeOK
<1>2. CASE BeginAttempt
  BY <1>1, <1>2 DEF BeginAttempt, AskedInv, Plain, Error
<1>3. CASE \E a \in Answers : Receive(a)
  <2>1. PICK a \in Answers : Receive(a)
    BY <1>3
  <2>2. a \in Answer
    BY AnswerAssumption
  <2>3. err'.type \notin {"request", "canceled"}
    BY <2>1, <2>2 DEF Receive, Answer, Kinds, ErrorOf, Plain, Error
  <2>4. QED
    BY <1>1, <2>1, <2>3 DEF Receive, AskedInv
<1>4. CASE Abort
  BY <1>1, <1>4 DEF Abort, AskedInv, Plain, Error
<1>5. CASE Backoff
  <2>1. ctx = "live" /\ Transient(err)
    BY <1>5, ShouldRetryTransient DEF Inv, TypeOK, Backoff
  <2>2. sent = attempt
    BY <1>5, <2>1 DEF Backoff, AskedInv, Transient
  <2>3. QED
    BY <1>5, <2>2 DEF Backoff, AskedInv
<1>6. CASE Wake
  BY <1>1, <1>6 DEF Wake, AskedInv
<1>7. CASE SleepCut
  BY <1>7 DEF SleepCut, AskedInv, Plain, Error
<1>8. CASE GiveUp
  BY <1>8 DEF GiveUp, AskedInv
<1>9. CASE Cancel
  BY <1>9 DEF Cancel, AskedInv
<1>10. CASE UNCHANGED vars
  BY <1>10 DEF vars, AskedInv
<1>11. QED
  BY <1>2, <1>3, <1>4, <1>5, <1>6, <1>7, <1>8, <1>9, <1>10 DEF Next, Step

LEMMA AskedInvariance == Spec => [](Inv /\ AskedInv)
BY InvInit, InvNext, AskedInvInit, AskedInvNext, PTL DEF Spec

\* DoJSON is a call as the poll loop knows it (PollCall): requests one after the
\* other, three at most, and none begun for a caller that has canceled.
THEOREM ClientIsAPollCall == Spec => ImplementsPollCall
<1>1. Init => Call!Init
  BY DEF Init, Call!Init, Phase
<1>2. Inv /\ AskedInv /\ [Next]_vars => [Call!Next]_(Call!callVars)
  <2> SUFFICES ASSUME Inv, AskedInv, [Next]_vars
               PROVE  Call!Next \/ UNCHANGED Call!callVars
    BY DEF Call!callVars
  <2>1. attempt \in 1..3 /\ sent \in Nat /\ policy.maxAttempts \in 1..3
    BY DEF Inv, TypeOK, Policy
  <2>2. CASE Cancel
    BY <2>2 DEF Cancel, Call!Next, Call!Cancel, Phase
  <2>3. CASE BeginAttempt
    <3>1. Phase = "between" /\ sent = attempt - 1 /\ sent < 3
      BY <2>1, <2>3 DEF BeginAttempt, AskedInv, Phase
    <3>2. CASE pc' = "inflight"
      BY <2>3, <3>1, <3>2 DEF BeginAttempt, Call!Next, Call!Send, Phase
    <3>3. CASE pc' = "failed"
      <4>1. Phase' = "between"
        BY <2>1, <2>3, <3>1, <3>3 DEF BeginAttempt, Phase
      <4>2. QED
        BY <2>3, <3>1, <3>3, <4>1 DEF BeginAttempt, Call!callVars
    <3>4. QED
      BY <2>3, <3>2, <3>3 DEF BeginAttempt
  <2>4. CASE \E a \in Answers : Receive(a)
    <3>1. PICK a \in Answers : Receive(a)
      BY <2>4
    <3>2. a \in Answer
      BY AnswerAssumption
    <3>3. err'.type = "nil" <=> a.kind = "ok"
      BY <3>1, <3>2, ErrorOfFinal DEF Receive
    <3>4. Phase = "asking" /\ sent = attempt
      BY <3>1 DEF Receive, AskedInv, Phase
    <3>5. CASE a.kind = "ok"
      BY <3>1, <3>3, <3>4, <3>5 DEF Receive, Phase, Call!Next, Call!Succeed
    <3>6. CASE a.kind # "ok"
      BY <3>1, <3>4, <3>6 DEF Receive, Phase, Call!callVars
    <3>7. QED
      BY <3>5, <3>6
  <2>5. CASE Abort
    BY <2>5 DEF Abort, AskedInv, Phase, Call!callVars
  <2>6. CASE GiveUp
    <3>1. Phase' = "failed"
      BY <2>6 DEF GiveUp, Inv, ReportInv, Phase
    <3>2. CASE sent = attempt
      BY <2>6, <3>1, <3>2 DEF GiveUp, Phase, Call!Next, Call!Fail
    <3>3. CASE sent # attempt
      BY <2>6, <3>1, <3>3 DEF GiveUp, AskedInv, Phase, Call!Next, Call!Refuse
    <3>4. QED
      BY <3>2, <3>3
  <2>7. CASE Backoff
    <3>1. ctx = "live" /\ Transient(err)
      BY <2>7, ShouldRetryTransient DEF Inv, TypeOK, Backoff
    <3>2. sent = attempt /\ sent < 3
      BY <2>1, <2>7, <3>1 DEF Backoff, AskedInv, Transient
    <3>3. QED
      BY <2>7, <3>1, <3>2 DEF Backoff, Phase, Call!Next, Call!Retry
  <2>8. CASE Wake
    BY <2>8 DEF Wake, Phase, Call!callVars
  <2>9. CASE SleepCut
    BY <2>9 DEF SleepCut, Phase, Plain, Error, Call!Next, Call!Refuse
  <2>10. CASE UNCHANGED vars
    BY <2>10 DEF vars, Phase, Call!callVars
  <2>11. QED
    BY <2>2, <2>3, <2>4, <2>5, <2>6, <2>7, <2>8, <2>9, <2>10 DEF Next, Step
<1>3. QED
  BY <1>1, <1>2, AskedInvariance, PTL DEF Spec, ImplementsPollCall, Call!Spec

\* The result label of a poll is one of the documented ones, and "canceled" only if
\* the caller did cancel, for any status code and any sequence of answers.
THEOREM ResultsAreDocumented == Spec => []ResultIsDocumented
<1>1. Inv /\ AskedInv => ResultIsDocumented
  <2> SUFFICES ASSUME Inv, AskedInv, pc = "returned"
               PROVE  /\ wellFormed => Category(err) \in DocumentedResults
                      /\ Category(err) = "canceled" => ctx = "canceled"
    BY DEF ResultIsDocumented
  <2>1. err.type \in ErrorTypes /\ (wellFormed => err.type # "request")
    BY DEF Inv, TypeOK, Errors, AskedInv
  <2>2. CASE err.type = "status"
    BY <2>2 DEF Category, DocumentedResults
  <2>3. CASE err.type # "status"
    BY <2>1, <2>3 DEF ErrorTypes, Category, DocumentedResults, AskedInv
  <2>4. QED
    BY <2>2, <2>3
<1>2. QED
  BY <1>1, AskedInvariance, PTL

-----------------------------------------------------------------------------
(* Retry-After                                                             *)

\* The delay a header names, and whether a duration can hold it.  parseRetryAfter does
\* not ask: a number of seconds that is too large wraps around.
Asked(header) == IF header.form = "seconds" THEN header.value * Second ELSE header.value
Fits(header) == Asked(header) \in Duration

\* Every wait after HTTP 429 is the one its header asks for, up to MaxBackoff, unless
\* that very header is too large.
HonoredIfItFits == Fits(err.retryAfter) => RetryAfterHonored

\* A wait is the delay of the error that led to it, and a status is an answer's.
WaitInv ==
    /\ pc = "sleeping" => delay = RetryDelay(err, attempt)
    /\ err.type = "status" => \E a \in Answers : err.retryAfter = a.retryAfter

LEMMA WrapFits == ASSUME NEW x \in Duration PROVE Wrap(x) = x
<1>1. x \in Int /\ 0 <= x + Half /\ x + Half < 2 * Half /\ 2 * Half > 0
  BY WidthAssumption DEF Duration
<1> DEFINE y == x + Half  m == 2 * Half
<1>2. y \in Int /\ m \in Int /\ 0 <= y /\ y < m
  BY <1>1, WidthAssumption
<1>3. y % m = y
  <2> HIDE DEF y, m
  <2> QED
    BY <1>2
<1> QED
  BY <1>1, <1>3, WidthAssumption DEF Wrap

LEMMA WaitInvNext == Inv /\ WaitInv /\ [Next]_vars => WaitInv'
<1> SUFFICES ASSUME Inv, WaitInv, [Next]_vars PROVE WaitInv'
  OBVIOUS
<1>1. CASE Cancel
  BY <1>1 DEF Cancel, WaitInv, RetryDelay
<1>2. CASE BeginAttempt
  BY <1>2 DEF BeginAttempt, WaitInv, Plain, Error
<1>3. CASE \E a \in Answers : Receive(a)
  <2>1. PICK a \in Answers : Receive(a)
    BY <1>3
  <2>2. a \in Answer
    BY AnswerAssumption
  <2>3. err'.type = "status" => err'.retryAfter = a.retryAfter
    BY <2>1, <2>2 DEF Receive, ErrorOf, Plain, Error, Answer, Kinds
  <2> QED
    BY <2>1, <2>3 DEF Receive, WaitInv
<1>4. CASE Abort
  BY <1>4 DEF Abort, WaitInv, Plain, Error
<1>5. CASE GiveUp
  BY <1>5 DEF GiveUp, WaitInv
<1>6. CASE Backoff
  BY <1>6 DEF Backoff, WaitInv, RetryDelay
<1>7. CASE Wake
  BY <1>7 DEF Wake, WaitInv
<1>8. CASE SleepCut
  BY <1>8 DEF SleepCut, WaitInv, Plain, Error
<1>9. CASE UNCHANGED vars
  BY <1>9 DEF vars, WaitInv, RetryDelay
<1> QED
  BY <1>1, <1>2, <1>3, <1>4, <1>5, <1>6, <1>7, <1>8, <1>9 DEF Next, Step

LEMMA WaitInvariance == Spec => [](Inv /\ WaitInv)
<1>1. Init => WaitInv
  BY DEF Init, WaitInv, Plain, Error
<1> QED
  BY <1>1, InvInit, InvNext, WaitInvNext, PTL DEF Spec

LEMMA WaitsAreAsked == Inv /\ WaitInv => HonoredIfItFits
<1> SUFFICES ASSUME Inv, WaitInv, Fits(err.retryAfter), pc = "sleeping", err.type = "status",
                    err.status = 429, Usable(err.retryAfter)
             PROVE  delay = IF Asked(err.retryAfter) > policy.max THEN policy.max
                            ELSE Asked(err.retryAfter)
  BY DEF HonoredIfItFits, RetryAfterHonored, Asked
<1>1. /\ err.retryAfter.value \in Int /\ err.retryAfter.value >= 0 /\ policy.max \in Nat
  BY WidthAssumption DEF Inv, TypeOK, Errors, RetryAfterHeader, Duration, Usable, Policy
<1>2. HeaderDelay(err.retryAfter) = Asked(err.retryAfter)
  BY WrapFits DEF HeaderDelay, Asked, Fits
<1>3. Asked(err.retryAfter) \in Int /\ Asked(err.retryAfter) >= 0
  <2>1. err.retryAfter.value * Second \in Int /\ err.retryAfter.value * Second >= 0
    BY <1>1, WidthAssumption
  <2> QED
    BY <1>1, <2>1 DEF Asked
<1>4. delay = Cap(Asked(err.retryAfter), policy.max)
  BY <1>2 DEF WaitInv, RetryDelay
<1> HIDE DEF Asked
<1> QED
  BY <1>1, <1>3, <1>4 DEF Cap

\* retryDelay and parseRetryAfter: for any answers, a wait after HTTP 429 is as long as
\* the header asks, up to MaxBackoff, if a duration can hold what this header asks.
THEOREM HeadersThatFitAreHonored == Spec => []HonoredIfItFits
BY WaitInvariance, WaitsAreAsked, PTL

\* Where no server sends a header too large for a duration, Retry-After is honored as
\* docs/ARCHITECTURE.md says.  The hypothesis cannot be dropped, nor does the code check
\* it: the run with such a header violates the property.
THEOREM HeadersAreHonored ==
    ASSUME \A a \in Answers : a.retryAfter.form = "seconds" => Fits(a.retryAfter)
    PROVE  Spec => []RetryAfterHonored
<1>1. Inv /\ WaitInv => RetryAfterHonored
  <2> SUFFICES ASSUME Inv, WaitInv, err.type = "status" PROVE RetryAfterHonored
    BY DEF RetryAfterHonored
  <2>1. PICK a \in Answers : err.retryAfter = a.retryAfter
    BY DEF WaitInv
  <2>2. Fits(err.retryAfter)
    BY <2>1, AnswerAssumption DEF Answer, RetryAfterHeader, Fits, Asked
  <2> QED
    BY <2>2, WaitsAreAsked DEF HonoredIfItFits
<1> QED
  BY <1>1, WaitInvariance, PTL
=============================================================================
