------------------------ MODULE PayoutSummaryProofs ------------------------
(***************************************************************************)
(* Proofs about PayoutSummary for any responses, limits and width of sums. *)
(***************************************************************************)
EXTENDS PayoutSummary, SumTheorems, SequenceTheorems

Length == Len(response.onchain) + Len(response.lightning)

\* The key of the record at a position, as buildPayoutSnapshot computes it.
KeyAt(i) == PayoutDedupKey(Listed[i].rail, Listed[i].payout)

TypeOK ==
    /\ response \in Responses
    /\ index \in 1..Length + 1
    /\ amounts \in [Rails -> [Statuses -> Int64]]
    /\ fees \in [Rails -> [Statuses -> Int64]]
    /\ result \in {"checking", "adding", "accepted", "invalid"}

\* The keys noted are those of the records in the window that the loop has passed.
KeysBefore(n) == {KeyAt(i) : i \in {j \in 1..n - 1 : InWindow(j)}}

SeenArePassed == result # "invalid" => seen = KeysBefore(index)

\* Up to the loop's position no sum has left its width.
Fit(n, rail, status) == Amount(n, rail, status) \in Int64 /\ Fee(n, rail, status) \in Int64

FitSoFar == \A n \in 1..index, rail \in Rails, status \in Statuses : Fit(n, rail, status)

\* How the loop can have ended, or not yet begun.
ResultTold ==
    /\ result = "checking" => index = 1
    /\ result \in {"adding", "accepted"} => Length <= MaxRecords
    /\ result = "accepted" => index = Length + 1
    /\ result = "invalid" =>
        \/ Length > MaxRecords
        \/ /\ index <= Length
           /\ \E rail \in Rails, status \in Statuses : ~Fit(index + 1, rail, status)

SummaryInv == TypeOK /\ SeenArePassed /\ TotalsAreSums /\ FitSoFar /\ ResultTold

-----------------------------------------------------------------------------
(* The records                                                             *)

LEMMA SameInterval == ASSUME NEW m \in Nat, NEW n \in Nat, 1..m = 1..n PROVE m = n
<1>1. m = 0 \/ m \in 1..n
  OBVIOUS
<1>2. n = 0 \/ n \in 1..m
  OBVIOUS
<1> QED
  BY <1>1, <1>2

\* A response's records are listed with a rail and a payout each.
LEMMA ListedType ==
    ASSUME TypeOK
    PROVE  /\ Length \in Nat /\ Len(Listed) = Length /\ DOMAIN Listed = 1..Length
           /\ \A i \in 1..Length : Listed[i].rail \in Rails /\ Listed[i].payout \in Payouts
<1>1. response.onchain \in Seq(Payouts) /\ response.lightning \in Seq(Payouts)
  BY ResponsesAssumption DEF TypeOK
<1> DEFINE a == Len(response.onchain)  b == Len(response.lightning)
<1>2. a \in Nat /\ b \in Nat
  BY <1>1
<1>3. /\ \A i \in 1..a : response.onchain[i] \in Payouts
      /\ \A i \in 1..b : response.lightning[i] \in Payouts
  BY <1>1
<1>4. DOMAIN Listed = 1..Length /\ Length = a + b /\ Length \in Nat
  <2>1. Length = a + b
    BY DEF Length
  <2>2. DOMAIN Listed = 1..Length
    BY DEF Listed, Length
  <2> HIDE DEF a, b
  <2> QED
    BY <1>2, <2>1, <2>2
<1>5. ASSUME NEW i \in 1..Length PROVE Listed[i].rail \in Rails /\ Listed[i].payout \in Payouts
  <2>1. CASE i <= a
    <3>1. Listed[i] = [rail |-> "onchain", payout |-> response.onchain[i]] /\ i \in 1..a
      BY <1>2, <1>4, <2>1 DEF Listed, Length
    <3> QED
      BY <3>1, <1>3 DEF Rails
  <2>2. CASE ~(i <= a)
    <3>1. /\ Listed[i] = [rail |-> "lightning", payout |-> response.lightning[i - a]]
          /\ i - a \in 1..b
      <4>1. Listed[i] = [rail |-> "lightning", payout |-> response.lightning[i - a]]
        BY <2>2 DEF Listed, Length
      <4> HIDE DEF a, b
      <4>2. i - a \in 1..b
        BY <1>2, <1>4, <2>2
      <4> QED
        BY <4>1, <4>2
    <3> QED
      BY <3>1, <1>3 DEF Rails
  <2> QED
    BY <2>1, <2>2
<1> DEFINE R == [rail : Rails, payout : Payouts]
<1>6. Listed \in Seq(R)
  <2>1. \A i \in 1..Length : Listed[i] \in R
    BY <1>5 DEF Listed, Length
  <2>2. Listed = [i \in 1..Length |-> Listed[i]]
    BY DEF Listed, Length
  <2> HIDE DEF R
  <2>3. Listed \in [1..Length -> R]
    BY <2>1, <2>2
  <2> QED
    BY <2>3, <1>4, SeqDef
<1>7. Len(Listed) = Length
  <2> HIDE DEF R
  <2>1. Len(Listed) \in Nat /\ DOMAIN Listed = 1..Len(Listed)
    BY <1>6, LenProperties
  <2> QED
    BY <1>4, <2>1, SameInterval
<1> QED
  BY <1>4, <1>5, <1>7

LEMMA OverflowIsOutside ==
    ASSUME NEW left \in Int64, NEW right \in Int64
    PROVE  SafeAddOverflows(left, right) <=> left + right \notin Int64
BY LimitsAssumption DEF SafeAddOverflows, Int64

LEMMA StatusType == \A status : NormalizePayoutStatus(status) \in Statuses
BY DEF NormalizePayoutStatus, Statuses

LEMMA ZeroType == 0 \in Int64
BY LimitsAssumption DEF Int64

-----------------------------------------------------------------------------
(* The sums, record by record                                              *)

\* The record at position n adds to the totals of a rail and a status.
AddsTo(n, rail, status) ==
    /\ Counts(n)
    /\ Listed[n].rail = rail
    /\ NormalizePayoutStatus(Listed[n].payout.status) = status

LEMMA CountedNext ==
    ASSUME TypeOK, NEW n \in 1..Length, NEW rail \in Rails, NEW status \in Statuses
    PROVE  /\ IsFiniteSet(CountedBefore(n, rail, status))
           /\ CountedBefore(n, rail, status) \in SUBSET (1..Length)
           /\ n \notin CountedBefore(n, rail, status)
           /\ CountedBefore(n + 1, rail, status) =
                CountedBefore(n, rail, status) \cup (IF AddsTo(n, rail, status) THEN {n} ELSE {})
<1> DEFINE C == CountedBefore(n, rail, status)
<1>1. Length \in Nat
  BY ListedType
<1>2. C \in SUBSET (1..Length)
  BY <1>1 DEF CountedBefore
<1>3. n \notin C
  BY DEF CountedBefore
<1>4. IsFiniteSet(C)
  <2>1. IsFiniteSet(1..Length)
    BY <1>1, FS_Interval
  <2> QED
    BY <1>2, <2>1, FS_Subset
<1>5. 1..(n + 1) - 1 = (1..n - 1) \cup {n}
  BY <1>1
<1>6. CountedBefore(n + 1, rail, status) = C \cup (IF AddsTo(n, rail, status) THEN {n} ELSE {})
  BY <1>5 DEF CountedBefore, AddsTo
<1> QED
  BY <1>2, <1>3, <1>4, <1>6

\* A sum over the records before the next position, for any value they have.
LEMMA SumNext ==
    ASSUME TypeOK, NEW v \in [1..Length -> Int],
           NEW n \in 1..Length, NEW rail \in Rails, NEW status \in Statuses
    PROVE  SumFunctionOnSet(v, CountedBefore(n + 1, rail, status)) =
             SumFunctionOnSet(v, CountedBefore(n, rail, status))
                + (IF AddsTo(n, rail, status) THEN v[n] ELSE 0)
<1> DEFINE C == CountedBefore(n, rail, status)
<1>1. /\ IsFiniteSet(C) /\ C \in SUBSET (1..Length) /\ n \notin C
      /\ CountedBefore(n + 1, rail, status) = C \cup (IF AddsTo(n, rail, status) THEN {n} ELSE {})
  BY CountedNext
<1> HIDE DEF C
<1>2. SumFunctionOnSet(v, C) \in Int
  <2>1. \A x \in C : v[x] \in Int
    BY <1>1
  <2> QED
    BY <1>1, <2>1, SumType
<1>3. CASE AddsTo(n, rail, status)
  <2>1. \A x \in C : v[x] \in Int
    BY <1>1
  <2>2. v[n] \in Int
    OBVIOUS
  <2>3. SumFunctionOnSet(v, C \cup {n}) = SumFunctionOnSet(v, C) + v[n]
    BY <1>1, <2>1, <2>2, SumWith
  <2> QED
    BY <1>1, <1>3, <2>3 DEF C
<1>4. CASE ~AddsTo(n, rail, status)
  <2>1. CountedBefore(n + 1, rail, status) = C
    BY <1>1, <1>4
  <2> QED
    BY <1>2, <1>4, <2>1 DEF C
<1> QED
  BY <1>3, <1>4

LEMMA AmountNext ==
    ASSUME TypeOK, NEW n \in 1..Length, NEW rail \in Rails, NEW status \in Statuses
    PROVE  /\ Amount(n + 1, rail, status) = Amount(n, rail, status)
                + (IF AddsTo(n, rail, status) THEN Listed[n].payout.amount ELSE 0)
           /\ Fee(n + 1, rail, status) = Fee(n, rail, status)
                + (IF AddsTo(n, rail, status) THEN Listed[n].payout.fee ELSE 0)
<1>1. /\ Length \in Nat /\ DOMAIN Listed = 1..Length
      /\ \A i \in 1..Length : Listed[i].payout \in Payouts
  BY ListedType
<1>2. \A i \in 1..Length : Listed[i].payout.amount \in Int /\ Listed[i].payout.fee \in Int
  BY <1>1, LimitsAssumption DEF Payouts, Int64
<1> DEFINE v == [i \in DOMAIN Listed |-> Listed[i].payout.amount]
           w == [i \in DOMAIN Listed |-> Listed[i].payout.fee]
<1>3. v \in [1..Length -> Int] /\ w \in [1..Length -> Int]
  BY <1>1, <1>2
<1>4. v[n] = Listed[n].payout.amount /\ w[n] = Listed[n].payout.fee
  BY <1>1
<1>5. \A m : /\ Amount(m, rail, status) = SumFunctionOnSet(v, CountedBefore(m, rail, status))
             /\ Fee(m, rail, status) = SumFunctionOnSet(w, CountedBefore(m, rail, status))
  BY DEF Amount, Fee
<1> HIDE DEF v, w
<1>6. SumFunctionOnSet(v, CountedBefore(n + 1, rail, status)) =
        SumFunctionOnSet(v, CountedBefore(n, rail, status))
          + (IF AddsTo(n, rail, status) THEN v[n] ELSE 0)
  BY <1>3, SumNext
<1>7. SumFunctionOnSet(w, CountedBefore(n + 1, rail, status)) =
        SumFunctionOnSet(w, CountedBefore(n, rail, status))
          + (IF AddsTo(n, rail, status) THEN w[n] ELSE 0)
  BY <1>3, SumNext
<1> QED
  BY <1>4, <1>5, <1>6, <1>7

\* Before the first record nothing has been added.
LEMMA AmountFirst ==
    ASSUME NEW rail \in Rails, NEW status \in Statuses
    PROVE  Amount(1, rail, status) = 0 /\ Fee(1, rail, status) = 0
<1>1. CountedBefore(1, rail, status) = {}
  BY DEF CountedBefore
<1> QED
  BY <1>1, SumOfNone DEF Amount, Fee

\* No step changes the response or the window, so that what is said of positions
\* stays what it was.
LEMMA Frozen ==
    ASSUME response' = response, window' = window
    PROVE  /\ Length' = Length /\ Listed' = Listed
           /\ \A n : KeysBefore(n)' = KeysBefore(n)
           /\ \A n, rail, status : /\ Amount(n, rail, status)' = Amount(n, rail, status)
                                   /\ Fee(n, rail, status)' = Fee(n, rail, status)
<1>1. Length' = Length /\ Listed' = Listed
  BY DEF Length, Listed
<1>2. \A i : InWindow(i)' = InWindow(i)
  BY <1>1 DEF InWindow
<1>3. \A i : KeyAt(i)' = KeyAt(i)
  BY <1>1 DEF KeyAt
<1>4. \A i, j : SameKey(i, j)' = SameKey(i, j)
  BY <1>1 DEF SameKey
<1>5. \A i : Counts(i)' = Counts(i)
  BY <1>2, <1>4 DEF Counts
<1>6. \A n, rail, status : CountedBefore(n, rail, status)' = CountedBefore(n, rail, status)
  BY <1>1, <1>5 DEF CountedBefore
<1>7. ASSUME NEW n, NEW rail, NEW status
      PROVE  /\ Amount(n, rail, status)' = Amount(n, rail, status)
             /\ Fee(n, rail, status)' = Fee(n, rail, status)
  BY <1>1, <1>6 DEF Amount, Fee
<1>8. \A n : KeysBefore(n)' = KeysBefore(n)
  BY <1>2, <1>3 DEF KeysBefore
<1> QED
  BY <1>1, <1>7, <1>8

-----------------------------------------------------------------------------
(* The invariant                                                           *)

LEMMA SummaryInvInit == Init => SummaryInv
<1> SUFFICES ASSUME Init PROVE SummaryInv
  OBVIOUS
<1>1. response \in Responses /\ index = 1 /\ seen = {} /\ result = "checking"
  BY DEF Init
<1>2. /\ response.onchain \in Seq(Payouts) /\ response.lightning \in Seq(Payouts)
  BY <1>1, ResponsesAssumption
<1>3. Length \in Nat
  <2> DEFINE a == Len(response.onchain)  b == Len(response.lightning)
  <2>1. a \in Nat /\ b \in Nat
    BY <1>2
  <2>2. Length = a + b
    BY DEF Length
  <2> HIDE DEF a, b
  <2> QED
    BY <2>1, <2>2
<1>4. /\ amounts \in [Rails -> [Statuses -> Int64]] /\ fees \in [Rails -> [Statuses -> Int64]]
      /\ \A rail \in Rails, status \in Statuses : amounts[rail][status] = 0 /\ fees[rail][status] = 0
  BY ZeroType DEF Init, ZeroPayoutTotals
<1>5. TypeOK
  BY <1>1, <1>3, <1>4 DEF TypeOK
<1>6. SeenArePassed
  BY <1>1 DEF SeenArePassed, KeysBefore
<1>7. TotalsAreSums
  BY <1>1, <1>4, AmountFirst DEF TotalsAreSums
<1>8. FitSoFar
  BY <1>1, AmountFirst, ZeroType DEF FitSoFar, Fit
<1>9. ResultTold
  BY <1>1 DEF ResultTold
<1> QED
  BY <1>5, <1>6, <1>7, <1>8, <1>9 DEF SummaryInv

\* What the loop looks at, said of its position.
LEMMA AtPosition ==
    ASSUME SummaryInv, Adding
    PROVE  /\ index \in 1..Length /\ index + 1 \in 1..Length + 1
           /\ Key = KeyAt(index) /\ Rail = Listed[index].rail /\ Payout = Listed[index].payout
           /\ Rail \in Rails /\ Payout \in Payouts /\ Status \in Statuses
           /\ TimestampInWindow(PayoutTimestamp(Payout), window) <=> InWindow(index)
           /\ Fresh <=> Counts(index)
           /\ KeysBefore(index + 1) = seen \cup (IF InWindow(index) THEN {Key} ELSE {})
<1>1. index \in 1..Length
  BY ListedType DEF SummaryInv, Adding
<1>2. Length \in Nat /\ Rail \in Rails /\ Payout \in Payouts
  BY <1>1, ListedType DEF SummaryInv, Rail, Payout
<1>3. Key = KeyAt(index) /\ Rail = Listed[index].rail /\ Payout = Listed[index].payout
  BY DEF Key, KeyAt, Rail, Payout
<1>4. TimestampInWindow(PayoutTimestamp(Payout), window) <=> InWindow(index)
  BY DEF InWindow, Payout
<1>5. seen = KeysBefore(index)
  BY DEF SummaryInv, SeenArePassed, Adding
<1>6. Counts(index) <=> InWindow(index) /\ KeyAt(index) \notin KeysBefore(index)
  BY DEF Counts, KeysBefore, SameKey, KeyAt
<1>7. 1..(index + 1) - 1 = (1..index - 1) \cup {index}
  BY <1>1, <1>2
<1>8. KeysBefore(index + 1) = KeysBefore(index) \cup (IF InWindow(index) THEN {KeyAt(index)} ELSE {})
  BY <1>7 DEF KeysBefore
<1> QED
  BY <1>1, <1>2, <1>3, <1>4, <1>5, <1>6, <1>8, StatusType DEF Fresh, Status

\* The loop moves on, and the totals are those of the next position.
LEMMA Advance ==
    ASSUME SummaryInv, Adding, response' = response, window' = window, result' = result,
           index' = index + 1,
           seen' = KeysBefore(index + 1),
           amounts' \in [Rails -> [Statuses -> Int64]], fees' \in [Rails -> [Statuses -> Int64]],
           \A rail \in Rails, status \in Statuses :
              /\ amounts'[rail][status] = Amount(index + 1, rail, status)
              /\ fees'[rail][status] = Fee(index + 1, rail, status)
    PROVE  SummaryInv'
<1>1. index \in 1..Length /\ index + 1 \in 1..Length + 1 /\ Length \in Nat
  BY AtPosition, ListedType DEF SummaryInv
<1>2. PICK m : m = index + 1
  OBVIOUS
<1>3. index' = m /\ m \in 1..Length + 1
  BY <1>1, <1>2
<1>4. TypeOK'
  BY <1>3, Frozen DEF TypeOK, SummaryInv
<1>5. SeenArePassed'
  BY <1>2, <1>3, Frozen DEF SeenArePassed
<1>6. TotalsAreSums'
  BY <1>2, <1>3, Frozen DEF TotalsAreSums
<1>7. FitSoFar'
  <2>1. ASSUME NEW n \in 1..m, NEW rail \in Rails, NEW status \in Statuses
        PROVE  Fit(n, rail, status)
    <3>1. CASE n = m
      <4>1. amounts'[rail][status] \in Int64 /\ fees'[rail][status] \in Int64
        OBVIOUS
      <4> QED
        BY <3>1, <4>1, <1>2 DEF Fit
    <3>2. CASE n # m
      <4>1. n \in 1..index
        BY <1>1, <1>2, <3>2
      <4> QED
        BY <4>1 DEF SummaryInv, FitSoFar
    <3> QED
      BY <3>1, <3>2
  <2>2. \A n, rail, status : Fit(n, rail, status)' = Fit(n, rail, status)
    BY Frozen DEF Fit
  <2> QED
    BY <1>3, <2>1, <2>2 DEF FitSoFar
<1>8. ResultTold'
  <2>1. Length' = Length
    BY Frozen
  <2> QED
    BY <2>1 DEF ResultTold, SummaryInv, Adding
<1> QED
  BY <1>4, <1>5, <1>6, <1>7, <1>8 DEF SummaryInv

\* A record that does not count leaves the totals alone.
LEMMA SkipKeeps ==
    ASSUME SummaryInv, Adding, ~Counts(index), KeysBefore(index + 1) = seen,
           index' = index + 1, UNCHANGED <<response, window, seen, amounts, fees, result>>
    PROVE  SummaryInv'
<1>1. index \in 1..Length
  BY AtPosition
<1>2. TypeOK /\ TotalsAreSums
  BY DEF SummaryInv
<1>3. ASSUME NEW rail \in Rails, NEW status \in Statuses
      PROVE  /\ amounts'[rail][status] = Amount(index + 1, rail, status)
             /\ fees'[rail][status] = Fee(index + 1, rail, status)
  <2>1. ~AddsTo(index, rail, status)
    BY DEF AddsTo
  <2>2. amounts[rail][status] \in Int /\ fees[rail][status] \in Int
    BY <1>2, LimitsAssumption DEF TypeOK, Int64
  <2>3. amounts[rail][status] = Amount(index, rail, status) /\ fees[rail][status] = Fee(index, rail, status)
    BY <1>2 DEF TotalsAreSums
  <2> QED
    BY <1>1, <1>2, <2>1, <2>2, <2>3, AmountNext
<1>4. amounts' \in [Rails -> [Statuses -> Int64]] /\ fees' \in [Rails -> [Statuses -> Int64]]
  BY <1>2 DEF TypeOK
<1> QED
  BY <1>3, <1>4, Advance

\* A record that counts is added to the totals of its rail and status.
LEMMA AddKeeps == ASSUME SummaryInv, Add PROVE SummaryInv'
<1>1. /\ Adding /\ Fresh /\ ~Overflows
      /\ UNCHANGED <<response, window, result>> /\ index' = index + 1
      /\ seen' = seen \cup {Key}
      /\ amounts' = [amounts EXCEPT ![Rail][Status] = @ + Payout.amount]
      /\ fees' = [fees EXCEPT ![Rail][Status] = @ + Payout.fee]
  BY DEF Add
<1>2. /\ index \in 1..Length /\ Rail \in Rails /\ Status \in Statuses /\ Payout \in Payouts
      /\ Counts(index) /\ InWindow(index)
      /\ Rail = Listed[index].rail /\ Payout = Listed[index].payout
      /\ KeysBefore(index + 1) = seen \cup {Key}
  BY <1>1, AtPosition DEF Fresh
<1>3. TypeOK /\ TotalsAreSums
  BY DEF SummaryInv
<1>4. /\ amounts[Rail][Status] \in Int64 /\ fees[Rail][Status] \in Int64
      /\ Payout.amount \in Int64 /\ Payout.fee \in Int64
  BY <1>2, <1>3 DEF TypeOK, Payouts
<1>5. /\ amounts[Rail][Status] + Payout.amount \in Int64
      /\ fees[Rail][Status] + Payout.fee \in Int64
  BY <1>1, <1>4, OverflowIsOutside DEF Overflows
<1>6. /\ amounts' \in [Rails -> [Statuses -> Int64]]
      /\ fees' \in [Rails -> [Statuses -> Int64]]
  <2>1. [amounts[Rail] EXCEPT ![Status] = @ + Payout.amount] \in [Statuses -> Int64]
    BY <1>2, <1>3, <1>5 DEF TypeOK
  <2>2. [fees[Rail] EXCEPT ![Status] = @ + Payout.fee] \in [Statuses -> Int64]
    BY <1>2, <1>3, <1>5 DEF TypeOK
  <2>3. amounts' = [amounts EXCEPT ![Rail] = [amounts[Rail] EXCEPT ![Status] = @ + Payout.amount]]
    BY <1>1
  <2>4. fees' = [fees EXCEPT ![Rail] = [fees[Rail] EXCEPT ![Status] = @ + Payout.fee]]
    BY <1>1
  <2> QED
    BY <1>2, <1>3, <2>1, <2>2, <2>3, <2>4 DEF TypeOK
<1>7. ASSUME NEW rail \in Rails, NEW status \in Statuses
      PROVE  /\ amounts'[rail][status] = Amount(index + 1, rail, status)
             /\ fees'[rail][status] = Fee(index + 1, rail, status)
  <2>1. AddsTo(index, rail, status) <=> rail = Rail /\ status = Status
    BY <1>2 DEF AddsTo, Status
  <2>2. amounts[rail][status] \in Int /\ fees[rail][status] \in Int
    BY <1>3, LimitsAssumption DEF TypeOK, Int64
  <2>3. amounts[rail][status] = Amount(index, rail, status) /\ fees[rail][status] = Fee(index, rail, status)
    BY <1>3 DEF TotalsAreSums
  <2>4. /\ Amount(index + 1, rail, status) = amounts[rail][status]
             + (IF AddsTo(index, rail, status) THEN Payout.amount ELSE 0)
        /\ Fee(index + 1, rail, status) = fees[rail][status]
             + (IF AddsTo(index, rail, status) THEN Payout.fee ELSE 0)
    BY <1>2, <1>3, <2>3, AmountNext
  <2>5. CASE rail = Rail /\ status = Status
    BY <1>1, <1>2, <1>3, <2>1, <2>4, <2>5 DEF TypeOK
  <2>6. CASE ~(rail = Rail /\ status = Status)
    <3>1. amounts'[rail][status] = amounts[rail][status] /\ fees'[rail][status] = fees[rail][status]
      BY <1>1, <1>2, <1>3, <2>6 DEF TypeOK
    <3> QED
      BY <2>1, <2>2, <2>4, <2>6, <3>1
  <2> QED
    BY <2>5, <2>6
<1> QED
  BY <1>1, <1>2, <1>6, <1>7, Advance

\* Steps that end the pass leave the totals where they are.
LEMMA EndKeeps ==
    ASSUME SummaryInv, UNCHANGED <<response, window, index, amounts, fees>>,
           result' \in {"checking", "adding", "accepted", "invalid"}, SeenArePassed', ResultTold'
    PROVE  SummaryInv'
<1>1. PICK m : m = index
  OBVIOUS
<1>2. TypeOK'
  BY Frozen DEF TypeOK, SummaryInv
<1>3. TotalsAreSums'
  BY <1>1, Frozen DEF TotalsAreSums, SummaryInv
<1>4. FitSoFar'
  BY <1>1, Frozen DEF FitSoFar, Fit, SummaryInv
<1> QED
  BY <1>2, <1>3, <1>4 DEF SummaryInv

LEMMA SummaryInvNext == SummaryInv /\ [Next]_vars => SummaryInv'
<1> SUFFICES ASSUME SummaryInv, [Next]_vars PROVE SummaryInv'
  OBVIOUS
<1>1. CASE CheckRecordLimit
  <2>1. /\ UNCHANGED <<response, window, index, seen, amounts, fees>> /\ result = "checking"
        /\ result' = IF Len(Listed) > MaxRecords THEN "invalid" ELSE "adding"
    BY <1>1 DEF CheckRecordLimit
  <2>2. SeenArePassed'
    BY <2>1, Frozen DEF SeenArePassed, SummaryInv
  <2>3. Len(Listed) = Length /\ Length \in Nat /\ Length' = Length
    BY <2>1, ListedType, Frozen DEF SummaryInv
  <2>4. ResultTold'
    BY <2>1, <2>3, LimitsAssumption DEF ResultTold
  <2> QED
    BY <2>1, <2>2, <2>4, EndKeeps
<1>2. CASE SkipOutside
  BY <1>2, AtPosition, SkipKeeps DEF SkipOutside, Fresh
<1>3. CASE SkipRepeated
  BY <1>3, AtPosition, SkipKeeps DEF SkipRepeated, Fresh
<1>4. CASE Add
  BY <1>4, AddKeeps
<1>5. CASE RefuseOverflow
  <2>1. /\ Adding /\ Fresh /\ Overflows /\ result' = "invalid"
        /\ UNCHANGED <<response, window, index, amounts, fees>>
    BY <1>5 DEF RefuseOverflow
  <2>2. /\ index \in 1..Length /\ Rail \in Rails /\ Status \in Statuses /\ Payout \in Payouts
        /\ Counts(index) /\ Rail = Listed[index].rail /\ Payout = Listed[index].payout
    BY <2>1, AtPosition
  <2>3. TypeOK /\ TotalsAreSums
    BY DEF SummaryInv
  <2>4. /\ amounts[Rail][Status] \in Int64 /\ fees[Rail][Status] \in Int64
        /\ Payout.amount \in Int64 /\ Payout.fee \in Int64
    BY <2>2, <2>3 DEF TypeOK, Payouts
  <2>5. \/ amounts[Rail][Status] + Payout.amount \notin Int64
        \/ fees[Rail][Status] + Payout.fee \notin Int64
    BY <2>1, <2>4, OverflowIsOutside DEF Overflows
  <2>6. AddsTo(index, Rail, Status)
    BY <2>2 DEF AddsTo, Status
  <2>7. /\ Amount(index + 1, Rail, Status) = amounts[Rail][Status] + Payout.amount
        /\ Fee(index + 1, Rail, Status) = fees[Rail][Status] + Payout.fee
    BY <2>2, <2>3, <2>6, AmountNext DEF TotalsAreSums
  <2>8. ~Fit(index + 1, Rail, Status)
    BY <2>5, <2>7 DEF Fit
  <2>9. PICK m \in 1..Length, rail \in Rails, status \in Statuses : m = index /\ rail = Rail /\ status = Status
    BY <2>2
  <2>10. \A n, r, s : Fit(n, r, s)' = Fit(n, r, s)
    BY <2>1, Frozen DEF Fit
  <2>11. index' = m /\ m <= Length /\ Length' = Length
    BY <2>1, <2>2, <2>9, Frozen, ListedType DEF SummaryInv
  <2>12. Fit(m + 1, rail, status)' = FALSE
    BY <2>8, <2>9, <2>10
  <2>13. ResultTold'
    BY <2>1, <2>11, <2>12 DEF ResultTold
  <2>14. SeenArePassed'
    BY <2>1 DEF SeenArePassed
  <2> QED
    BY <2>1, <2>13, <2>14, EndKeeps
<1>6. CASE Accept
  <2>1. /\ result = "adding" /\ index = Len(Listed) + 1 /\ result' = "accepted"
        /\ UNCHANGED <<response, window, index, seen, amounts, fees>>
    BY <1>6 DEF Accept
  <2>2. Len(Listed) = Length /\ Length' = Length
    BY <2>1, ListedType, Frozen DEF SummaryInv
  <2>3. SeenArePassed' /\ ResultTold'
    BY <2>1, <2>2, Frozen DEF SeenArePassed, ResultTold, SummaryInv
  <2> QED
    BY <2>1, <2>3, EndKeeps
<1>7. CASE UNCHANGED vars
  <2>1. UNCHANGED <<response, window, index, seen, amounts, fees, result>>
    BY <1>7 DEF vars
  <2>2. PICK m : m = index
    OBVIOUS
  <2>3. SeenArePassed'
    BY <2>1, Frozen DEF SeenArePassed, SummaryInv
  <2>4. ResultTold'
    BY <2>1, <2>2, Frozen DEF ResultTold, Fit, SummaryInv
  <2> QED
    BY <2>1, <2>3, <2>4, EndKeeps DEF SummaryInv, TypeOK
<1> QED
  BY <1>1, <1>2, <1>3, <1>4, <1>5, <1>6, <1>7 DEF Next

LEMMA SummaryInvHolds == Spec => []SummaryInv
BY SummaryInvInit, SummaryInvNext, PTL DEF Spec

-----------------------------------------------------------------------------
(* Theorems                                                                *)

\* For any response, limit and width the totals are the sums of the records that
\* count, and never wrap around (buildPayoutSnapshot, safeAddInt64).
THEOREM TotalsAdd == Spec => [](TotalsAreSums /\ TypeOK)
<1>1. SummaryInv => TotalsAreSums /\ TypeOK
  BY DEF SummaryInv
<1> QED
  BY <1>1, SummaryInvHolds, PTL

\* A response is refused for its length or for a sum that leaves int64, and for
\* nothing else; an accepted one was added up to its end (buildPayoutSnapshot).
THEOREM RefusalsAreJustified == Spec => []RefusedForGoodReason
<1>1. SummaryInv => RefusedForGoodReason
  <2> SUFFICES ASSUME SummaryInv PROVE RefusedForGoodReason
    OBVIOUS
  <2>1. Length \in Nat /\ Len(Listed) = Length /\ index \in 1..Length + 1
    BY ListedType DEF SummaryInv, TypeOK
  <2> DEFINE Fits == \A n \in 1..Length + 1, rail \in Rails, status \in Statuses : Fit(n, rail, status)
  <2>2. ASSUME result = "accepted" PROVE Length <= MaxRecords /\ index = Length + 1 /\ Fits
    BY <2>1, <2>2 DEF SummaryInv, ResultTold, FitSoFar
  <2>3. ASSUME result = "invalid", ~(Length > MaxRecords) PROVE ~Fits
    <3>1. PICK rail \in Rails, status \in Statuses : index <= Length /\ ~Fit(index + 1, rail, status)
      BY <2>3 DEF SummaryInv, ResultTold
    <3>2. index + 1 \in 1..Length + 1
      BY <2>1, <3>1
    <3> QED
      BY <3>1, <3>2
  <2>4. Fits <=> \A n \in 1..Len(Listed) + 1, rail \in Rails, status \in Statuses :
                   Amount(n, rail, status) \in Int64 /\ Fee(n, rail, status) \in Int64
    BY <2>1 DEF Fit
  <2> HIDE DEF Fits
  <2> QED
    BY <2>1, <2>2, <2>3, <2>4 DEF RefusedForGoodReason
<1> QED
  BY <1>1, SummaryInvHolds, PTL

-----------------------------------------------------------------------------
(* The rails                                                               *)

\* Where the records of a rail begin among those listed.
Offset(rail) == IF rail = "onchain" THEN 0 ELSE Len(response.onchain)

LEMMA OwnRecords ==
    ASSUME TypeOK, NEW rail \in Rails
    PROVE  /\ Offset(rail) \in Nat /\ Len(response[rail]) \in Nat
           /\ DOMAIN response[rail] = 1..Len(response[rail])
           /\ \A i \in 1..Len(response[rail]) :
                /\ response[rail][i] \in Payouts
                /\ i + Offset(rail) \in 1..Length
                /\ Listed[i + Offset(rail)] = [rail |-> rail, payout |-> response[rail][i]]
           /\ \A n \in 1..Length :
                Listed[n].rail = rail => n - Offset(rail) \in 1..Len(response[rail])
<1>1. response.onchain \in Seq(Payouts) /\ response.lightning \in Seq(Payouts)
  BY ResponsesAssumption DEF TypeOK
<1>2. \A own \in Seq(Payouts) : /\ Len(own) \in Nat /\ DOMAIN own = 1..Len(own)
                                /\ \A i \in 1..Len(own) : own[i] \in Payouts
  OBVIOUS
<1> DEFINE a == Len(response.onchain)  b == Len(response.lightning)
<1>3. a \in Nat /\ b \in Nat /\ Length = a + b
  BY <1>1, <1>2 DEF Length
<1>4. /\ \A n \in 1..Length : n <= a => Listed[n] = [rail |-> "onchain", payout |-> response.onchain[n]]
      /\ \A n \in 1..Length :
            ~(n <= a) => Listed[n] = [rail |-> "lightning", payout |-> response.lightning[n - a]]
  BY DEF Listed, Length
<1>5. CASE rail = "onchain"
  <2>1. response[rail] = response.onchain /\ Offset(rail) = 0 /\ Len(response[rail]) = a
    BY <1>5 DEF Offset
  <2>2. \A i \in 1..a : i + 0 = i /\ i \in 1..Length /\ i <= a
    <3> HIDE DEF a, b
    <3> QED
      BY <1>3
  <2>3. \A n \in 1..Length : n <= a => n - 0 \in 1..a
    <3> HIDE DEF a, b
    <3> QED
      BY <1>3
  <2>4. ASSUME NEW n \in 1..Length, Listed[n].rail = rail, ~(n <= a) PROVE FALSE
    <3>1. Listed[n] = [rail |-> "lightning", payout |-> response.lightning[n - a]]
      BY <1>4, <2>4
    <3>2. Listed[n].rail = "lightning"
      BY <3>1
    <3> QED
      BY <1>5, <2>4, <3>2
  <2> HIDE DEF a, b
  <2> QED
    BY <1>1, <1>2, <1>4, <1>5, <2>1, <2>2, <2>3, <2>4
<1>6. CASE rail = "lightning"
  <2>1. response[rail] = response.lightning /\ Offset(rail) = a /\ Len(response[rail]) = b
    BY <1>6 DEF Offset
  <2>2. \A i \in 1..b : i + a \in 1..Length /\ ~(i + a <= a) /\ (i + a) - a = i
    <3> HIDE DEF a, b
    <3> QED
      BY <1>3
  <2>3. \A n \in 1..Length : ~(n <= a) => n - a \in 1..b
    <3> HIDE DEF a, b
    <3> QED
      BY <1>3
  <2>4. ASSUME NEW n \in 1..Length, Listed[n].rail = rail, n <= a PROVE FALSE
    <3>1. Listed[n] = [rail |-> "onchain", payout |-> response.onchain[n]]
      BY <1>4, <2>4
    <3>2. Listed[n].rail = "onchain"
      BY <3>1
    <3> QED
      BY <1>6, <2>4, <3>2
  <2>5. \A i \in 1..b : Listed[i + a] = [rail |-> "lightning", payout |-> response.lightning[i]]
    <3> SUFFICES ASSUME NEW i \in 1..b
                 PROVE  Listed[i + a] = [rail |-> "lightning", payout |-> response.lightning[i]]
      OBVIOUS
    <3>1. i + a \in 1..Length /\ ~(i + a <= a) /\ (i + a) - a = i
      BY <2>2
    <3> HIDE DEF a, b
    <3> QED
      BY <1>4, <3>1
  <2> HIDE DEF a, b
  <2> QED
    BY <1>1, <1>2, <1>3, <1>6, <2>1, <2>2, <2>3, <2>4, <2>5
<1> QED
  BY <1>5, <1>6 DEF Rails

\* An equal key means an equal rail (payoutDedupKey).
LEMMA KeyHasRail ==
    ASSUME NEW i, NEW j, SameKey(i, j)
    PROVE  Listed[i].rail = Listed[j].rail
BY DEF SameKey, PayoutDedupKey

\* The records of a rail that count are those that would count without the other rail.
LEMMA AloneCounts ==
    ASSUME TypeOK, NEW rail \in Rails, NEW status \in Statuses
    PROVE  CountedBefore(Length + 1, rail, status) =
             {i + Offset(rail) : i \in Alone(rail, status)}
<1> DEFINE own == response[rail]  o == Offset(rail)  m == Len(own)
           Dated(i) == TimestampInWindow(PayoutTimestamp(own[i]), window)
           Repeats(i) == \E j \in 1..i - 1 :
                Dated(j) /\ PayoutDedupKey(rail, own[j]) = PayoutDedupKey(rail, own[i])
<1>1. /\ o \in Nat /\ m \in Nat /\ Length \in Nat
      /\ \A i \in 1..m : /\ i + o \in 1..Length
                         /\ Listed[i + o] = [rail |-> rail, payout |-> own[i]]
      /\ \A n \in 1..Length : Listed[n].rail = rail => n - o \in 1..m
  BY OwnRecords, ListedType
<1>0. ASSUME NEW i \in 1..m PROVE Listed[i + o].rail = rail /\ Listed[i + o].payout = own[i]
  <2>1. Listed[i + o] = [rail |-> rail, payout |-> own[i]]
    BY <1>1
  <2> HIDE DEF own, o, m
  <2> QED
    BY <2>1
<1>2. ASSUME NEW i \in 1..m PROVE InWindow(i + o) <=> Dated(i)
  <2>1. Listed[i + o].payout = own[i]
    BY <1>0
  <2> HIDE DEF own, o, m
  <2> QED
    BY <2>1 DEF InWindow
<1>3. ASSUME NEW i \in 1..m, NEW j \in 1..m
      PROVE  SameKey(i + o, j + o) <=> PayoutDedupKey(rail, own[j]) = PayoutDedupKey(rail, own[i])
  <2>1. /\ Listed[i + o].rail = rail /\ Listed[i + o].payout = own[i]
        /\ Listed[j + o].rail = rail /\ Listed[j + o].payout = own[j]
    BY <1>0
  <2> HIDE DEF own, o, m
  <2> QED
    BY <2>1 DEF SameKey
<1>4. ASSUME NEW i \in 1..m PROVE Counts(i + o) <=> Dated(i) /\ ~Repeats(i)
  <2>1. ASSUME Repeats(i) PROVE \E j \in 1..(i + o) - 1 : InWindow(j) /\ SameKey(i + o, j)
    <3>1. PICK j \in 1..i - 1 :
            Dated(j) /\ PayoutDedupKey(rail, own[j]) = PayoutDedupKey(rail, own[i])
      BY <2>1
    <3>2. j \in 1..m /\ j + o \in 1..(i + o) - 1
      <4> HIDE DEF own, o, m
      <4> QED
        BY <1>1
    <3>3. InWindow(j + o) /\ SameKey(i + o, j + o)
      BY <1>2, <1>3, <3>1, <3>2
    <3> QED
      BY <3>2, <3>3
  <2>2. ASSUME NEW k \in 1..(i + o) - 1, InWindow(k), SameKey(i + o, k) PROVE Repeats(i)
    <3>1. k \in 1..Length
      <4>1. i + o \in 1..Length
        BY <1>1
      <4> HIDE DEF own, o, m
      <4> QED
        BY <1>1, <4>1
    <3>2. Listed[k].rail = rail
      <4>1. Listed[i + o].rail = Listed[k].rail
        BY <2>2, KeyHasRail
      <4> HIDE DEF own, o, m
      <4> QED
        BY <1>0, <4>1
    <3>3. k - o \in 1..m
      BY <1>1, <3>1, <3>2
    <3>4. k - o \in 1..i - 1 /\ (k - o) + o = k
      <4> HIDE DEF own, o, m
      <4> QED
        BY <1>1, <3>3
    <3>5. Dated(k - o) /\ PayoutDedupKey(rail, own[k - o]) = PayoutDedupKey(rail, own[i])
      BY <1>2, <1>3, <2>2, <3>3, <3>4
    <3> QED
      BY <3>4, <3>5
  <2> HIDE DEF Repeats, Dated
  <2> QED
    BY <1>2, <2>1, <2>2 DEF Counts
<1>5. Alone(rail, status) =
        {i \in 1..m : /\ NormalizePayoutStatus(own[i].status) = status
                      /\ Dated(i) /\ ~Repeats(i)}
  BY DEF Alone
<1>6. \A i \in 1..m : i + o \in CountedBefore(Length + 1, rail, status) <=> i \in Alone(rail, status)
  <2> SUFFICES ASSUME NEW i \in 1..m
               PROVE  i + o \in CountedBefore(Length + 1, rail, status) <=> i \in Alone(rail, status)
    OBVIOUS
  <2>1. i + o \in 1..Length /\ Listed[i + o] = [rail |-> rail, payout |-> own[i]]
    BY <1>1
  <2>2. 1..(Length + 1) - 1 = 1..Length
    BY <1>1
  <2>3. i + o \in CountedBefore(Length + 1, rail, status) <=>
          Counts(i + o) /\ NormalizePayoutStatus(own[i].status) = status
    <3>1. Listed[i + o].rail = rail /\ Listed[i + o].payout = own[i]
      BY <1>0
    <3> HIDE DEF own, o, m
    <3> QED
      BY <2>1, <2>2, <3>1 DEF CountedBefore
  <2> HIDE DEF Dated, Repeats
  <2> QED
    BY <1>4, <1>5, <2>3
<1>7. ASSUME NEW n \in CountedBefore(Length + 1, rail, status)
      PROVE  \E i \in 1..m : n = i + o
  <2>1. n \in 1..Length /\ Listed[n].rail = rail
    BY <1>1, <1>7 DEF CountedBefore
  <2>2. n - o \in 1..m
    BY <1>1, <2>1
  <2>3. n = (n - o) + o
    <3> HIDE DEF o, m, own
    <3> QED
      BY <1>1, <2>1
  <2> QED
    BY <2>2, <2>3
<1>8. Alone(rail, status) \subseteq 1..m
  BY <1>5
<1> HIDE DEF own, o, m
<1>9. CountedBefore(Length + 1, rail, status) = {i + o : i \in Alone(rail, status)}
  BY <1>6, <1>7, <1>8
<1> QED
  BY <1>9 DEF o

\* A sum over those records, of any value that a record has wherever it is listed.
LEMMA AloneSum ==
    ASSUME TypeOK, NEW rail \in Rails, NEW status \in Statuses,
           NEW v, NEW w, \A i \in 1..Len(response[rail]) : w[i] \in Int /\ v[i + Offset(rail)] = w[i]
    PROVE  SumFunctionOnSet(v, CountedBefore(Length + 1, rail, status)) =
             SumFunctionOnSet(w, Alone(rail, status))
<1> DEFINE A == Alone(rail, status)  o == Offset(rail)  m == Len(response[rail])
           f == [i \in A |-> i + o]
<1>1. o \in Nat /\ m \in Nat
  BY OwnRecords
<1>2. A \subseteq 1..m
  BY DEF Alone
<1>3. IsFiniteSet(A)
  <2>1. IsFiniteSet(1..m)
    BY <1>1, FS_Interval
  <2> QED
    BY <1>2, <2>1, FS_Subset
<1>4. CountedBefore(Length + 1, rail, status) = {f[i] : i \in A}
  BY AloneCounts
<1>5. \A i \in A : w[i] \in Int /\ v[f[i]] = w[i]
  BY <1>2
<1>6. \A i, j \in A : f[i] = f[j] => i = j
  <2> HIDE DEF A, o, m
  <2> QED
    BY <1>1, <1>2
<1> HIDE DEF A, f
<1>7. SumFunctionOnSet(v, {f[i] : i \in A}) = SumFunctionOnSet(w, A)
  BY <1>3, <1>5, <1>6, SumRenamed
<1> QED
  BY <1>4, <1>7 DEF A

\* The totals of a rail are those its own payouts would give without the other's,
\* although both go through one set of keys (buildPayoutSnapshot, payoutDedupKey).
THEOREM RailsIndependent == Spec => []RailsAreIndependent
<1>1. SummaryInv => RailsAreIndependent
  <2> SUFFICES ASSUME SummaryInv, result = "accepted", NEW rail \in Rails, NEW status \in Statuses
               PROVE  LET own == response[rail] IN
                      /\ amounts[rail][status] =
                           SumFunctionOnSet([i \in DOMAIN own |-> own[i].amount], Alone(rail, status))
                      /\ fees[rail][status] =
                           SumFunctionOnSet([i \in DOMAIN own |-> own[i].fee], Alone(rail, status))
    BY DEF RailsAreIndependent
  <2> DEFINE own == response[rail]
             v == [i \in DOMAIN Listed |-> Listed[i].payout.amount]
             w == [i \in DOMAIN own |-> own[i].amount]
             x == [i \in DOMAIN Listed |-> Listed[i].payout.fee]
             y == [i \in DOMAIN own |-> own[i].fee]
  <2>1. TypeOK /\ index = Length + 1
    BY DEF SummaryInv, ResultTold
  <2>2. /\ amounts[rail][status] = SumFunctionOnSet(v, CountedBefore(Length + 1, rail, status))
        /\ fees[rail][status] = SumFunctionOnSet(x, CountedBefore(Length + 1, rail, status))
    BY <2>1 DEF SummaryInv, TotalsAreSums, Amount, Fee
  <2>3. \A i \in 1..Len(own) :
          /\ w[i] \in Int /\ v[i + Offset(rail)] = w[i]
          /\ y[i] \in Int /\ x[i + Offset(rail)] = y[i]
    <3> SUFFICES ASSUME NEW i \in 1..Len(own)
                 PROVE  /\ w[i] \in Int /\ v[i + Offset(rail)] = w[i]
                        /\ y[i] \in Int /\ x[i + Offset(rail)] = y[i]
      OBVIOUS
    <3>1. /\ DOMAIN own = 1..Len(own) /\ DOMAIN Listed = 1..Length
          /\ own[i] \in Payouts /\ i + Offset(rail) \in 1..Length
          /\ Listed[i + Offset(rail)] = [rail |-> rail, payout |-> own[i]]
      BY <2>1, OwnRecords, ListedType
    <3>2. own[i].amount \in Int /\ own[i].fee \in Int
      BY <3>1, LimitsAssumption DEF Payouts, Int64
    <3> QED
      BY <3>1, <3>2
  <2> HIDE DEF v, w, x, y
  <2>4. /\ SumFunctionOnSet(v, CountedBefore(Length + 1, rail, status)) =
             SumFunctionOnSet(w, Alone(rail, status))
        /\ SumFunctionOnSet(x, CountedBefore(Length + 1, rail, status)) =
             SumFunctionOnSet(y, Alone(rail, status))
    BY <2>1, <2>3, AloneSum
  <2> QED
    BY <2>2, <2>4 DEF w, y
<1> QED
  BY <1>1, SummaryInvHolds, PTL
=============================================================================
