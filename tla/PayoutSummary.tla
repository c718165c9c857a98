--------------------------- MODULE PayoutSummary ---------------------------
(***************************************************************************)
(* buildPayoutSnapshot (internal/collector/history.go): one pass over the  *)
(* payouts of a response, on-chain first, that drops what lies outside the *)
(* date window and what it takes for repetitions, adds the rest up by rail *)
(* and status in int64, and refuses the whole response when a sum does not *)
(* fit.  The window is fixed before the request is sent.                   *)
(***************************************************************************)
EXTENDS HistoryWindow, SequencesExt

CONSTANTS
    Half,           \* 2^63: sums lie in -Half .. Half-1
    MaxRecords,     \* maxPayoutRecords
    NoId,           \* an id that is null or blank
    Responses,      \* what the API may answer
    RequestTimes    \* when the request may be made

ASSUME LimitsAssumption == Half \in Nat \ {0} /\ MaxRecords \in Nat
ASSUME TimesAssumption == RequestTimes \subseteq Nat

Int64 == -Half .. Half - 1

\* What is told apart in a payout: its ids, its status as a word and its
\* spelling, its two timestamps, its sums, and its other fields in one.
Payouts == [ids : Seq(STRING), status : [word : STRING, spelling : STRING],
            requestedAt : Int, resolvedAt : Int, amount : Int64, fee : Int64, other : STRING]

ASSUME ResponsesAssumption ==
    \A r \in Responses :
        /\ r = [onchain |-> r.onchain, lightning |-> r.lightning]
        /\ r.onchain \in Seq(Payouts) /\ r.lightning \in Seq(Payouts)

Rails == {"onchain", "lightning"}
Statuses == {"queued", "confirmed", "failed", "unknown"}

VARIABLES
    response,   \* [onchain, lightning]: two sequences of payouts
    window,     \* dateWindow(), before the request
    index,      \* the next record of the two loops, counted through
    seen,       \* seen
    amounts,    \* snapshot.amounts
    fees,       \* snapshot.fees
    result      \* "checking", "adding", "accepted" or "invalid"

vars == <<response, window, index, seen, amounts, fees, result>>

\* The records in the order of the loops, each with its rail.
Listed ==
    [i \in 1..Len(response.onchain) + Len(response.lightning) |->
        IF i <= Len(response.onchain)
        THEN [rail |-> "onchain", payout |-> response.onchain[i]]
        ELSE [rail |-> "lightning", payout |-> response.lightning[i - Len(response.onchain)]]]

\* A status as the API spells it: normalizePayoutStatus knows three words,
\* whatever their case and the blanks around them.
NormalizePayoutStatus(status) ==
    IF status.word \in Statuses THEN status.word ELSE "unknown"

PayoutTimestamp(payout) ==
    IF payout.requestedAt # 0 THEN payout.requestedAt ELSE payout.resolvedAt

\* The first id a payout has: of its transaction, its invoice or its preimage.
FirstId(payout) ==
    LET i == SelectInSeq(payout.ids, LAMBDA id : id # NoId)
    IN  IF i = 0 THEN NoId ELSE payout.ids[i]

\* Mutation of PayoutDedupKey: the rail is left out.
KeyWithoutRail(rail, payout) ==
    IF FirstId(payout) # NoId THEN <<"id", FirstId(payout)>> ELSE <<"record", payout>>

\* payoutDedupKey: an id identifies a payout; without one, its other fields do.
PayoutDedupKey(rail, payout) ==
    IF FirstId(payout) # NoId THEN <<rail, "id", FirstId(payout)>> ELSE <<rail, "record", payout>>

\* Mutation of SafeAddOverflows: only the upper end of the range is watched.
OverflowsAbove(left, right) == right > 0 /\ left > (Half - 1) - right

\* safeAddInt64 refuses; neither subtraction leaves the range.
SafeAddOverflows(left, right) ==
    \/ right > 0 /\ left > (Half - 1) - right
    \/ right < 0 /\ left < -Half - right

ZeroPayoutTotals == [rail \in Rails |-> [status \in Statuses |-> 0]]

Init ==
    /\ response \in Responses
    /\ \E now \in RequestTimes : window = DateWindow(now)
    /\ index = 1
    /\ seen = {}
    /\ amounts = ZeroPayoutTotals
    /\ fees = ZeroPayoutTotals
    /\ result = "checking"

CheckRecordLimit ==
    /\ result = "checking"
    /\ result' = IF Len(Listed) > MaxRecords THEN "invalid" ELSE "adding"
    /\ UNCHANGED <<response, window, index, seen, amounts, fees>>

Adding == result = "adding" /\ index \in 1..Len(Listed)
Rail == Listed[index].rail
Payout == Listed[index].payout
Status == NormalizePayoutStatus(Payout.status)
Key == PayoutDedupKey(Rail, Payout)
Fresh == TimestampInWindow(PayoutTimestamp(Payout), window) /\ Key \notin seen
Overflows ==
    \/ SafeAddOverflows(amounts[Rail][Status], Payout.amount)
    \/ SafeAddOverflows(fees[Rail][Status], Payout.fee)

\* Mutation of SkipOutside: the key is noted before the window is looked at.
NoteOutside ==
    /\ Adding
    /\ ~TimestampInWindow(PayoutTimestamp(Payout), window)
    /\ seen' = seen \cup {Key}
    /\ index' = index + 1
    /\ UNCHANGED <<response, window, amounts, fees, result>>

SkipOutside ==
    /\ Adding
    /\ ~TimestampInWindow(PayoutTimestamp(Payout), window)
    /\ index' = index + 1
    /\ UNCHANGED <<response, window, seen, amounts, fees, result>>

SkipRepeated ==
    /\ Adding
    /\ TimestampInWindow(PayoutTimestamp(Payout), window)
    /\ Key \in seen
    /\ index' = index + 1
    /\ UNCHANGED <<response, window, seen, amounts, fees, result>>

Add ==
    /\ Adding
    /\ Fresh
    /\ ~Overflows
    /\ seen' = seen \cup {Key}
    /\ amounts' = [amounts EXCEPT ![Rail][Status] = @ + Payout.amount]
    /\ fees' = [fees EXCEPT ![Rail][Status] = @ + Payout.fee]
    /\ index' = index + 1
    /\ UNCHANGED <<response, window, result>>

\* The response is refused as a whole.
RefuseOverflow ==
    /\ Adding
    /\ Fresh
    /\ Overflows
    /\ seen' = seen \cup {Key}
    /\ result' = "invalid"
    /\ UNCHANGED <<response, window, index, amounts, fees>>

Accept ==
    /\ result = "adding"
    /\ index = Len(Listed) + 1
    /\ result' = "accepted"
    /\ UNCHANGED <<response, window, index, seen, amounts, fees>>

Next ==
    \/ CheckRecordLimit
    \/ SkipOutside
    \/ SkipRepeated
    \/ Add
    \/ RefuseOverflow
    \/ Accept

Spec == Init /\ [][Next]_vars

-----------------------------------------------------------------------------
(* Properties                                                              *)

\* What the summary is meant to be, said of positions of the response and not of
\* the loop: a record counts if it lies in the window and no earlier record in
\* the window has its key.
InWindow(i) == TimestampInWindow(PayoutTimestamp(Listed[i].payout), window)
SameKey(i, j) ==
    PayoutDedupKey(Listed[i].rail, Listed[i].payout) = PayoutDedupKey(Listed[j].rail, Listed[j].payout)
Counts(i) == InWindow(i) /\ ~\E j \in 1..i - 1 : InWindow(j) /\ SameKey(i, j)

CountedBefore(n, rail, status) ==
    {i \in 1..n - 1 : /\ Counts(i)
                      /\ Listed[i].rail = rail
                      /\ NormalizePayoutStatus(Listed[i].payout.status) = status}
Amount(n, rail, status) ==
    SumFunctionOnSet([i \in DOMAIN Listed |-> Listed[i].payout.amount], CountedBefore(n, rail, status))
Fee(n, rail, status) ==
    SumFunctionOnSet([i \in DOMAIN Listed |-> Listed[i].payout.fee], CountedBefore(n, rail, status))

\* The totals are the sums, without wrap-around, of the records that count:
\* nothing in the window is lost because of something outside it, and nothing is
\* added twice.
TotalsAreSums ==
    \A rail \in Rails, status \in Statuses :
        /\ amounts[rail][status] = Amount(index, rail, status)
        /\ fees[rail][status] = Fee(index, rail, status)

\* A response is refused exactly when it is too long or a running sum leaves the
\* range of int64: an accepted summary covers every record.
RefusedForGoodReason ==
    LET Fits == \A n \in 1..Len(Listed) + 1, rail \in Rails, status \in Statuses :
                   Amount(n, rail, status) \in Int64 /\ Fee(n, rail, status) \in Int64
    IN  /\ result = "accepted" => Len(Listed) <= MaxRecords /\ index = Len(Listed) + 1 /\ Fits
        /\ result = "invalid" => Len(Listed) > MaxRecords \/ ~Fits

\* What a response with the payouts of one rail alone would add up to: those of its
\* records in the window that repeat none of the same rail.
Alone(rail, status) ==
    LET own == response[rail]
        Dated(i) == TimestampInWindow(PayoutTimestamp(own[i]), window)
        Repeats(i) == \E j \in 1..i - 1 :
                          Dated(j) /\ PayoutDedupKey(rail, own[j]) = PayoutDedupKey(rail, own[i])
    IN  {i \in 1..Len(own) : /\ NormalizePayoutStatus(own[i].status) = status
                             /\ Dated(i) /\ ~Repeats(i)}

\* The rails share the loop's set of keys and its position, and no more: the totals of
\* a rail are those its own payouts would give without the other's, whatever ids the
\* two have in common and whatever was added first.
RailsAreIndependent ==
    result = "accepted" =>
        \A rail \in Rails, status \in Statuses :
            LET own == response[rail] IN
            /\ amounts[rail][status] =
                 SumFunctionOnSet([i \in DOMAIN own |-> own[i].amount], Alone(rail, status))
            /\ fees[rail][status] =
                 SumFunctionOnSet([i \in DOMAIN own |-> own[i].fee], Alone(rail, status))

\* Only exact repeated records are left out of the totals
\* (docs/METRICS.md, historical metrics).
OnlyExactRepeatsDropped ==
    result = "accepted" =>
        \A i \in 1..Len(Listed) :
            InWindow(i) => \E j \in 1..i : Counts(j) /\ Listed[j] = Listed[i]
=============================================================================
