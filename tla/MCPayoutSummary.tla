-------------------------- MODULE MCPayoutSummary --------------------------
(* Payouts of 4-bit sums, days of four seconds and a window of two of them.  *)
EXTENDS PayoutSummary

P(ids, word, spelling, requestedAt, resolvedAt, amount, fee) ==
    [ids |-> ids, status |-> [word |-> word, spelling |-> spelling],
     requestedAt |-> requestedAt, resolvedAt |-> resolvedAt,
     amount |-> amount, fee |-> fee, other |-> "wallet"]

Ids == <<"none", "none", "none">>

\* The window of a request at 9 is 4..11, at 12 it is 8..15.
MCPayouts ==
    {P(Ids, "confirmed", "confirmed", 9, 0, 5, 1),
     P(Ids, "confirmed", "Confirmed", 9, 0, 5, 1),
     P(Ids, "queued", "queued", 0, 0, -6, 0),
     P(Ids, "queued", "queued", 8, 0, -5, 0),
     P(<<"tx1", "none", "none">>, "confirmed", "confirmed", 11, 12, 2, 7),
     P(<<"tx1", "none", "none">>, "queued", "queued", 7, 12, 2, 1),
     P(<<"none", "ln1", "pre1">>, "odd", "odd", 0, 8, 4, -8),
     P(<<"none", "none", "pre1">>, "failed", "failed", 16, 9, -8, 7)}

MCResponses ==
    {[onchain |-> o, lightning |-> l] :
        o \in BoundedSeq(MCPayouts, 3), l \in BoundedSeq(MCPayouts, 1)}
\* One transaction that pays two financial accounts.
Batch(account, amount) ==
    [P(<<"tx1", "none", "none">>, "confirmed", "confirmed", 9, 11, amount, 1) EXCEPT !.other = account]
MCBatchResponses == {[onchain |-> <<Batch("rent", 3), Batch("power", 2)>>, lightning |-> <<>>]}

MCTimes == {9, 12}
=============================================================================
