-------------------------- MODULE MCProfileSummary --------------------------
(* A small instance of ProfileSummary: answers that differ from a full one   *)
(* in one field of each kind, in the other coin, or in their shape.          *)
EXTENDS ProfileSummary

Full(e) == [f \in Fields(e) |-> IF f \in Strings(e) THEN "Gh/s"
                               ELSE IF f \in Containers(e) THEN "object" ELSE "positive"]
Entry(k, e) == [kind |-> k, fields |-> Full(e)]

\* What goes with the map of blocks, or with a block, that is no object.
OfBlock == {"date_found", "mining_duration", "total_shares", "state", "confirmations_left",
            "value", "user_reward", "pool_scoring_hash_rate"}
Inside(f) == IF f = "blocks" THEN OfBlock \cup {"block"} ELSE IF f = "block" THEN OfBlock ELSE {}
With(e, f, v) ==
    [kind |-> "object", fields |-> [g \in Fields(e) |->
        IF g = f THEN v ELSE IF v # "object" /\ g \in Inside(f) THEN "absent" ELSE Full(e)[g]]]
Answer(mine, other) ==
    [body |-> "object", username |-> "word", coins |-> [c \in Coins |-> IF c = Coin THEN mine ELSE other]]

\* One field of each kind, one sitting in the other coin, and two at once.
Varied(e) ==
    IF e = "profile" THEN {"hash_rate_unit", "hash_rate_5m", "current_balance", "shares_5m", "ok_workers"}
    ELSE {"hash_rate_unit", "pool_60m_hash_rate", "user_reward", "date_found", "fpps_rate",
          "pool_active_workers", "update_ts", "blocks", "block"}

MCAnswers(e) ==
    LET none == Entry("absent", e)
        plain == Answer(Entry("object", e), none)
    IN  {Answer(With(e, f, v), none) : f \in Varied(e), v \in Classes \ {"positive"}}
        \cup {Answer(Entry("object", e), With(e, f, v)) : f \in Varied(e), v \in {"null", "word"}}
        \cup {Answer(Entry(k, e), Entry(l, e)) : k, l \in {"object", "absent", "null", "composite"}}
        \cup {[plain EXCEPT !.username = v] : v \in {"absent", "null", "object", "zero", "composite"}}
        \cup {[plain EXCEPT !.body = b] : b \in {"null", "composite"}}

MCAccountAnswers == MCAnswers("profile")
MCPoolAnswers == MCAnswers("pool_stats")
=============================================================================
