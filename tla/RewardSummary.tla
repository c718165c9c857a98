--------------------------- MODULE RewardSummary ---------------------------
(***************************************************************************)
(* buildRewardSnapshot (internal/collector/history.go): one pass over the  *)
(* daily rewards of a response that drops what lies outside the date       *)
(* window and exact repetitions, and adds up five components with exact    *)
(* rational arithmetic.  One decimal it cannot read refuses the response.  *)
(***************************************************************************)
EXTENDS HistoryWindow, SequencesExt

CONSTANTS
    MaxRecords,     \* maxRewardRecords
    MaxExponent,    \* the exponent parseBase10Int still takes: 1000
    Places,         \* sums are counted in units of 10^-Places
    Responses,      \* what the API may answer
    RequestTimes    \* when the request may be made

ASSUME LimitsAssumption == MaxRecords \in Nat /\ MaxExponent \in Nat /\ Places \in Nat
ASSUME TimesAssumption == RequestTimes \subseteq Nat

Components == {"total", "mining", "bos_plus", "referral_bonus", "referral_reward"}

\* The text of a decimal: none, a number sign * digits * 10^(exponent - scale),
\* or something that is not a number.
Decimals == [form : {"empty", "number", "malformed"}, sign : {-1, 1},
             digits : Nat, scale : Nat, exponent : Int]

\* The shares and the share prices of a reward, which are part of its identity
\* only, are one field here.
Rewards == [date : Int, calculationDate : Int, values : [Components -> Decimals], shares : STRING]

\* A response holds the configured coin's rewards or does not know the coin.
ASSUME ResponsesAssumption ==
    \A r \in Responses : r = [hasCoin |-> r.hasCoin, rewards |-> r.rewards]
                         /\ r.hasCoin \in BOOLEAN /\ r.rewards \in Seq(Rewards)

\* decimalToRat: what it takes, and what it makes of it.
Readable(decimal) ==
    /\ decimal.form = "number"
    /\ decimal.exponent \in -MaxExponent .. MaxExponent

DecimalToRat(decimal) ==
    decimal.sign * decimal.digits * 10 ^ (Places + decimal.exponent - decimal.scale)

\* The unit divides every decimal that can be read.
ASSUME PlacesAssumption ==
    \A r \in Responses : \A i \in 1..Len(r.rewards), c \in Components :
        Readable(r.rewards[i].values[c]) => DecimalToRat(r.rewards[i].values[c]) \in Int

VARIABLES
    response,
    window,         \* dateWindow(), before the request
    index,          \* the next record of the loop
    seen,           \* seen
    components,     \* components
    result          \* "checking", "adding", "accepted" or "invalid"

vars == <<response, window, index, seen, components, result>>

RewardTimestamp(reward) == IF reward.date # 0 THEN reward.date ELSE reward.calculationDate

\* Mutation of RewardDedupKey: one reward a day.
KeyByDay(reward) == RewardTimestamp(reward)

\* rewardDedupKey joins every field.
RewardDedupKey(reward) == reward

\* What a reward adds to a component: nothing if the API left it out.
Contribution(reward, c) ==
    IF reward.values[c].form = "empty" THEN 0 ELSE DecimalToRat(reward.values[c])

AllReadable(reward) ==
    \A c \in Components : reward.values[c].form = "empty" \/ Readable(reward.values[c])

ZeroRewardComponents == [c \in Components |-> 0]

Init ==
    /\ response \in Responses
    /\ \E now \in RequestTimes : window = DateWindow(now)
    /\ index = 1
    /\ seen = {}
    /\ components = ZeroRewardComponents
    /\ result = "checking"

CheckCoinAndLimit ==
    /\ result = "checking"
    /\ result' = IF response.hasCoin /\ Len(response.rewards) <= MaxRecords THEN "adding" ELSE "invalid"
    /\ UNCHANGED <<response, window, index, seen, components>>

Adding == result = "adding" /\ index \in 1..Len(response.rewards)
Reward == response.rewards[index]
Inside == TimestampInWindow(RewardTimestamp(Reward), window)

SkipOutside ==
    /\ Adding
    /\ ~Inside
    /\ index' = index + 1
    /\ UNCHANGED <<response, window, seen, components, result>>

SkipRepeated ==
    /\ Adding
    /\ Inside
    /\ RewardDedupKey(Reward) \in seen
    /\ index' = index + 1
    /\ UNCHANGED <<response, window, seen, components, result>>

Add ==
    /\ Adding
    /\ Inside
    /\ RewardDedupKey(Reward) \notin seen
    /\ AllReadable(Reward)
    /\ seen' = seen \cup {RewardDedupKey(Reward)}
    /\ components' = [c \in Components |-> components[c] + Contribution(Reward, c)]
    /\ index' = index + 1
    /\ UNCHANGED <<response, window, result>>

\* Mutation of RefuseDecimal: the record is left out.
SkipUnreadable ==
    /\ Adding
    /\ Inside
    /\ RewardDedupKey(Reward) \notin seen
    /\ ~AllReadable(Reward)
    /\ index' = index + 1
    /\ UNCHANGED <<response, window, seen, components, result>>

\* The components are read in no particular order; what was added is dropped.
RefuseDecimal ==
    /\ Adding
    /\ Inside
    /\ RewardDedupKey(Reward) \notin seen
    /\ ~AllReadable(Reward)
    /\ seen' = seen \cup {RewardDedupKey(Reward)}
    /\ result' = "invalid"
    /\ UNCHANGED <<response, window, index, components>>

Accept ==
    /\ result = "adding"
    /\ index = Len(response.rewards) + 1
    /\ result' = "accepted"
    /\ UNCHANGED <<response, window, index, seen, components>>

Next ==
    \/ CheckCoinAndLimit
    \/ SkipOutside
    \/ SkipRepeated
    \/ Add
    \/ RefuseDecimal
    \/ Accept

Spec == Init /\ [][Next]_vars

-----------------------------------------------------------------------------
(* Properties                                                              *)

\* The different rewards of the window among the first n records, as a set.
InWindow(n) ==
    {reward \in {response.rewards[i] : i \in 1..n} : TimestampInWindow(RewardTimestamp(reward), window)}

\* The components are the exact sums over the set of rewards in the window:
\* neither their order, nor repetitions, nor what lies outside matters, and two
\* rewards that differ in anything both count.
ComponentsAreSums ==
    \A c \in Components :
        components[c] = SumFunction([reward \in InWindow(index - 1) |-> Contribution(reward, c)])

\* The summary is accepted exactly when the coin is there, the records are not
\* too many and every decimal of the window can be read; a decimal outside the
\* window refuses nothing.
RefusedForGoodReason ==
    LET Good == /\ response.hasCoin
                /\ Len(response.rewards) <= MaxRecords
                /\ \A reward \in InWindow(Len(response.rewards)) : AllReadable(reward)
    IN  /\ result = "accepted" => Good /\ index = Len(response.rewards) + 1
        /\ result = "invalid" => ~Good
=============================================================================
