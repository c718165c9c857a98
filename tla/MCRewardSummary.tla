-------------------------- MODULE MCRewardSummary --------------------------
(* Rewards with two decimal places, days of four seconds, a window of two.   *)
EXTENDS RewardSummary

Decimal(form, sign, digits, scale, exponent) ==
    [form |-> form, sign |-> sign, digits |-> digits, scale |-> scale, exponent |-> exponent]
Empty == Decimal("empty", 1, 0, 0, 0)
Half == Decimal("number", 1, 5, 1, 0)
FiftyHundredths == Decimal("number", 1, 50, 2, 0)
MinusTwenty == Decimal("number", -1, 2, 0, 1)
TooLarge == Decimal("number", 1, 1, 0, 4)
Text == Decimal("malformed", 1, 0, 0, 0)

R(date, calculationDate, total, bonus) ==
    [date |-> date, calculationDate |-> calculationDate, shares |-> "12",
     values |-> [c \in Components |->
        CASE c = "total" -> total [] c = "referral_bonus" -> bonus [] OTHER -> Empty]]

\* The window of a request at 9 is 4..11, at 12 it is 8..15.  One reward comes
\* in two spellings of the same value.
MCRewards ==
    {R(9, 0, Half, Empty), R(9, 0, FiftyHundredths, Empty), R(0, 5, Half, MinusTwenty),
     R(0, 0, MinusTwenty, Half), R(4, 9, Text, Half), R(12, 0, Half, TooLarge),
     R(11, 1, FiftyHundredths, Half)}

MCResponses ==
    {[hasCoin |-> TRUE, rewards |-> s] : s \in BoundedSeq(MCRewards, 4)}
        \cup {[hasCoin |-> FALSE, rewards |-> <<>>]}
MCTimes == {9, 12}
=============================================================================
