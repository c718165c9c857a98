--------------------------- MODULE ProfileSummary ---------------------------
(***************************************************************************)
(* What the account and the pool collector make of an answer: the decoding *)
(* of its JSON (internal/braiins/types.go), buildAccountSnapshot and       *)
(* buildPoolSnapshot, and the series Collect exposes (account.go, pool.go  *)
(* in internal/collector).                                                 *)
(*                                                                         *)
(* One collector polls again and again and keeps its last good snapshot.   *)
(* Of a JSON value only its class matters: "absent", "null", "object",     *)
(* "composite" (an array or a boolean); of strings "blank" (white space),  *)
(* "word" (no finite number), "numeral", and "Gh/s"; of numbers "huge"     *)
(* (beyond float64), "fraction" (no int64), "negative", "zero", "positive".*)
(* Requests that fail are RetryClient's, the counters are Collectors'.     *)
(***************************************************************************)
EXTENDS Naturals

CONSTANTS
    AccountAnswers,     \* answers of /accounts/profile/json/{coin}
    PoolAnswers         \* answers of /stats/json/{coin}

VARIABLES
    endpoint,   \* "profile" or "pool_stats": the collector
    answer,     \* the answer of the latest poll, or NoAnswer
    result,     \* its result: "none", "success", "decode" or "invalid_data"
    lastGood,   \* the snapshot cached: a function from series to numbers
    source      \* the answer it was built from, or NoAnswer

vars == <<endpoint, answer, result, lastGood, source>>

Coin == "btc"
Coins == {Coin, "other"}

-----------------------------------------------------------------------------
(* The types                                                               *)

\* Decimals that are exposed, and those that are decoded only.
Decimals(e) ==
    IF e = "profile"
    THEN {"hash_rate_5m", "hash_rate_60m", "hash_rate_24h", "hash_rate_yesterday", "current_balance"}
    ELSE {"pool_5m_hash_rate", "pool_60m_hash_rate", "pool_24h_hash_rate"}
UnusedDecimals(e) ==
    IF e = "profile"
    THEN {"all_time_reward", "today_reward", "estimated_reward", "shares_5m", "shares_60m",
          "shares_24h", "shares_yesterday"}
    ELSE {"total_shares", "value", "user_reward", "pool_scoring_hash_rate"}     \* of a block
\* A decimal behind a pointer.
OptionalDecimals(e) == IF e = "profile" THEN {} ELSE {"fpps_rate"}
Int64s(e) ==
    IF e = "profile"
    THEN {"ok_workers", "low_workers", "off_workers", "dis_workers"}
    ELSE {"pool_active_workers", "update_ts"}
UnusedInt64s(e) ==
    IF e = "profile" THEN {} ELSE {"date_found", "mining_duration", "confirmations_left"}
Strings(e) == IF e = "profile" THEN {"hash_rate_unit"} ELSE {"hash_rate_unit", "state"}
\* The pool's map of blocks, and a block in it; the fields of a block stand beside them
\* and are "absent" in an answer without one.
Containers(e) == IF e = "profile" THEN {} ELSE {"blocks", "block"}
Fields(e) ==
    Strings(e) \cup Decimals(e) \cup UnusedDecimals(e) \cup OptionalDecimals(e)
        \cup Int64s(e) \cup UnusedInt64s(e) \cup Containers(e)

NoAnswer == [body |-> "absent"]

-----------------------------------------------------------------------------
(* Decoding.  An answer has a body ("object", "null" or "composite"), the  *)
(* class of its username (of the account only), and per coin an entry:     *)
(* "absent", "null", "composite", or "object" with its fields.             *)

\* Any JSON value may stand at any place of an answer.
Classes == {"absent", "null", "object", "composite", "blank", "word", "numeral", "Gh/s",
            "huge", "fraction", "negative", "zero", "positive"}
Entries(e) == [kind : {"absent", "null", "composite", "object"}, fields : [Fields(e) -> Classes]]
AnswersOf(e) ==
    [body : {"object", "null", "composite"}, username : Classes, coins : [Coins -> Entries(e)]]

ASSUME AnswersAssumption ==
    AccountAnswers \subseteq AnswersOf("profile") /\ PoolAnswers \subseteq AnswersOf("pool_stats")

\* Mutation of DecimalDecodes: null leaves the field empty, as encoding/json does by
\* itself.
NullDecodesToo(v) == v \notin {"blank", "object", "composite"}

\* Decimal.UnmarshalJSON, which is not called for a field that is absent.
DecimalDecodes(v) == v \notin {"null", "blank", "object", "composite"}
OptionalDecodes(v) == v = "null" \/ DecimalDecodes(v)
Int64Decodes(v) == v \in {"absent", "null", "negative", "zero", "positive"}
StringDecodes(v) == v \in {"absent", "null", "blank", "word", "numeral", "Gh/s"}

ContainerDecodes(v) == v \in {"absent", "null", "object"}

EntryDecodes(e, entry) ==
    \/ entry.kind \in {"absent", "null"}
    \/ /\ entry.kind = "object"
       /\ \A f \in Strings(e) : StringDecodes(entry.fields[f])
       /\ \A f \in Decimals(e) \cup UnusedDecimals(e) : DecimalDecodes(entry.fields[f])
       /\ \A f \in OptionalDecimals(e) : OptionalDecodes(entry.fields[f])
       /\ \A f \in Int64s(e) \cup UnusedInt64s(e) : Int64Decodes(entry.fields[f])
       /\ \A f \in Containers(e) : ContainerDecodes(entry.fields[f])

\* ProfileResponse.UnmarshalJSON, and the map of CoinEnvelope: every coin is decoded.
Decodes(e, a) ==
    \/ a.body = "null"
    \/ /\ a.body = "object"
       /\ e = "profile" => StringDecodes(a.username)
       /\ \A c \in Coins : EntryDecodes(e, a.coins[c])

\* A decoded field; null leaves a struct, a string, a pointer or an int64 as it was.
Decoded(a, f) ==
    IF a.coins[Coin].kind = "null" \/ a.coins[Coin].fields[f] = "null"
    THEN "absent" ELSE a.coins[Coin].fields[f]
Int64(v) == IF v = "absent" THEN "zero" ELSE v

-----------------------------------------------------------------------------
(* The builders                                                            *)

HasCoin(a) == a.body = "object" /\ a.coins[Coin].kind # "absent"
PresentDecimals(e, a) == {f \in Decimals(e) : Decoded(a, f) # "absent"}
DecimalToFloat(v) == v \notin {"word", "Gh/s", "huge"}

\* What both builders demand, and the number of active workers of a pool.
Builds(e, a) ==
    /\ HasCoin(a)
    /\ Decoded(a, "hash_rate_unit") = "Gh/s"
    /\ \A f \in PresentDecimals(e, a) : DecimalToFloat(Decoded(a, f))
    /\ e = "pool_stats" => Decoded(a, "pool_active_workers") \in {"zero", "positive"}

\* All four worker states are exposed, but the time of the pool's update only if sent.
Snapshot(e, a) ==
    LET ints == IF e = "profile" THEN Int64s(e)
                ELSE {f \in Int64s(e) : f = "update_ts" => Decoded(a, f) = "positive"}
    IN  [f \in PresentDecimals(e, a) \cup ints |->
            IF f \in ints THEN Int64(Decoded(a, f)) ELSE Decoded(a, f)]

-----------------------------------------------------------------------------
(* Polls                                                                   *)

Answers == IF endpoint = "profile" THEN AccountAnswers ELSE PoolAnswers

Init ==
    /\ endpoint \in {"profile", "pool_stats"}
    /\ answer = NoAnswer
    /\ result = "none"
    /\ lastGood = <<>>
    /\ source = NoAnswer

DecodeFails ==
    /\ answer' \in {a \in Answers : ~Decodes(endpoint, a)}
    /\ result' = "decode"
    /\ UNCHANGED <<endpoint, lastGood, source>>

BuildFails ==
    /\ answer' \in {a \in Answers : Decodes(endpoint, a) /\ ~Builds(endpoint, a)}
    /\ result' = "invalid_data"
    /\ UNCHANGED <<endpoint, lastGood, source>>

\* Mutation of Accept: series the new answer does not have are kept.
AcceptAndKeep ==
    /\ answer' \in {a \in Answers : Decodes(endpoint, a) /\ Builds(endpoint, a)}
    /\ result' = "success"
    /\ lastGood' = LET new == Snapshot(endpoint, answer')
                   IN  [f \in DOMAIN new \cup DOMAIN lastGood |->
                           IF f \in DOMAIN new THEN new[f] ELSE lastGood[f]]
    /\ source' = answer'
    /\ UNCHANGED endpoint

\* The whole snapshot is replaced.
Accept ==
    /\ answer' \in {a \in Answers : Decodes(endpoint, a) /\ Builds(endpoint, a)}
    /\ result' = "success"
    /\ lastGood' = Snapshot(endpoint, answer')
    /\ source' = answer'
    /\ UNCHANGED endpoint

Next == DecodeFails \/ BuildFails \/ Accept

Spec == Init /\ [][Next]_vars

\* Collect: the series of the snapshot with their values.
Exposed == {<<f, lastGood[f]>> : f \in DOMAIN lastGood}

-----------------------------------------------------------------------------
(* Properties                                                              *)

Number == {"numeral", "fraction", "negative", "zero", "positive"}
Sent(f) == source.coins[Coin].fields[f]

\* A scrape shows the configured coin of one single answer, the last one that was
\* accepted: every decimal it sent and no other, whatever was exposed or refused
\* before and whatever it said of other coins.  Only a worker count may be shown that
\* was not sent, as zero; the active workers of the pool may not.
ShownAsSent ==
    IF source = NoAnswer THEN Exposed = {} ELSE
    /\ \A f \in Decimals(endpoint), v \in Number : <<f, v>> \in Exposed <=> Sent(f) = v
    /\ \A s \in Exposed :
        \/ s[1] \in Fields(endpoint) /\ s[2] = Sent(s[1])
        \/ s[1] \in Int64s("profile") /\ s[2] = "zero" /\ Sent(s[1]) \in {"absent", "null"}
    /\ endpoint = "profile" => Int64s(endpoint) \subseteq DOMAIN lastGood
    /\ endpoint = "pool_stats" => Sent("pool_active_workers") \in {"zero", "positive"}

\* The JSON classes a field can be read from.
Readable(e, f) ==
    CASE f \in Decimals(e) \cup UnusedDecimals(e) -> Number \cup {"absent", "word", "Gh/s", "huge"}
      [] f \in OptionalDecimals(e) -> Number \cup {"absent", "word", "Gh/s", "huge", "null"}
      [] f \in Int64s(e) \cup UnusedInt64s(e) -> {"absent", "null", "negative", "zero", "positive"}
      [] f \in Strings(e) -> {"absent", "null", "blank", "word", "numeral", "Gh/s"}
      [] f \in Containers(e) -> {"absent", "null", "object"}

\* A single value of the wrong kind anywhere in the answer, be it a null reward nobody
\* exposes, a share count of another coin or a list of blocks, is a decode error; an
\* answer that is readable is invalid only for what the exposed coin says of its unit, its
\* exposed decimals and the pool's workers.  Nothing else, and nothing earlier, refuses one.
RefusedForGoodReason ==
    LET unreadable ==
            \/ answer.body = "composite"
            \/ answer.body = "object" /\
                \/ endpoint = "profile" /\
                    answer.username \in (Number \ {"numeral"}) \cup {"huge", "object", "composite"}
                \/ \E c \in Coins :
                    \/ answer.coins[c].kind = "composite"
                    \/ /\ answer.coins[c].kind = "object"
                       /\ \E f \in Fields(endpoint) :
                            answer.coins[c].fields[f] \notin Readable(endpoint, f)
        useless ==
            \/ answer.body = "null"
            \/ answer.coins[Coin].kind # "object"
            \/ LET sent == answer.coins[Coin].fields IN
                \/ sent["hash_rate_unit"] # "Gh/s"
                \/ \E f \in Decimals(endpoint) : sent[f] \in {"word", "Gh/s", "huge"}
                \/ endpoint = "pool_stats" /\ sent["pool_active_workers"] \notin {"zero", "positive"}
    IN  result # "none" =>
            result = CASE unreadable -> "decode" [] ~unreadable /\ useless -> "invalid_data"
                       [] OTHER -> "success"
=============================================================================
