------------------------ MODULE ProfileSummaryProofs ------------------------
(***************************************************************************)
(* Proofs about ProfileSummary for any answers, in any order.              *)
(***************************************************************************)
EXTENDS ProfileSummary, TLAPS

Endpoints == {"profile", "pool_stats"}

\* The result of a poll is what decoding and building made of its answer.
AnswerJudged ==
    \/ answer = NoAnswer /\ result = "none"
    \/ /\ answer \in AnswersOf(endpoint)
       /\ result = IF ~Decodes(endpoint, answer) THEN "decode"
                   ELSE IF ~Builds(endpoint, answer) THEN "invalid_data" ELSE "success"

\* The snapshot is all of one answer that could be decoded and built.
CacheIsOneAnswer ==
    \/ source = NoAnswer /\ lastGood = <<>>
    \/ /\ source \in AnswersOf(endpoint) /\ Decodes(endpoint, source) /\ Builds(endpoint, source)
       /\ lastGood = Snapshot(endpoint, source)

ProfileInv == endpoint \in Endpoints /\ AnswerJudged /\ CacheIsOneAnswer

LEMMA InitEstablishes == Init => ProfileInv
BY DEF Init, ProfileInv, Endpoints, AnswerJudged, CacheIsOneAnswer

LEMMA AnswersType == endpoint \in Endpoints => Answers \subseteq AnswersOf(endpoint)
BY AnswersAssumption DEF Answers, Endpoints

LEMMA NextPreserves == ProfileInv /\ [Next]_vars => ProfileInv'
<1> SUFFICES ASSUME ProfileInv, [Next]_vars PROVE ProfileInv'
  OBVIOUS
<1>1. endpoint \in Endpoints /\ AnswerJudged /\ CacheIsOneAnswer
  BY DEF ProfileInv
<1>2. Answers \subseteq AnswersOf(endpoint)
  BY <1>1, AnswersType
<1>3. CASE DecodeFails
  <2>1. AnswerJudged'
    BY <1>2, <1>3 DEF DecodeFails, AnswerJudged
  <2>2. CacheIsOneAnswer'
    BY <1>1, <1>3 DEF DecodeFails, CacheIsOneAnswer
  <2> QED
    BY <1>1, <1>3, <2>1, <2>2 DEF DecodeFails, ProfileInv
<1>4. CASE BuildFails
  <2>1. AnswerJudged'
    BY <1>2, <1>4 DEF BuildFails, AnswerJudged
  <2>2. CacheIsOneAnswer'
    BY <1>1, <1>4 DEF BuildFails, CacheIsOneAnswer
  <2> QED
    BY <1>1, <1>4, <2>1, <2>2 DEF BuildFails, ProfileInv
<1>5. CASE Accept
  <2>1. AnswerJudged'
    BY <1>2, <1>5 DEF Accept, AnswerJudged
  <2>2. CacheIsOneAnswer'
    BY <1>2, <1>5 DEF Accept, CacheIsOneAnswer
  <2> QED
    BY <1>1, <1>5, <2>1, <2>2 DEF Accept, ProfileInv
<1>6. CASE UNCHANGED vars
  BY <1>1, <1>6 DEF vars, ProfileInv, AnswerJudged, CacheIsOneAnswer
<1> QED
  BY <1>3, <1>4, <1>5, <1>6 DEF Next

LEMMA Inductive == Spec => []ProfileInv
<1>1. Init => ProfileInv
  BY InitEstablishes
<1>2. ProfileInv /\ [Next]_vars => ProfileInv'
  BY NextPreserves
<1> QED
  BY <1>1, <1>2, PTL DEF Spec

-----------------------------------------------------------------------------
(* Readable and useful answers                                             *)

AnyDecimals(e) == Decimals(e) \cup UnusedDecimals(e)
AnyInt64s(e) == Int64s(e) \cup UnusedInt64s(e)

\* The fields of an endpoint by how they are decoded; no two kinds share a field.
LEMMA FieldKinds ==
    ASSUME NEW e \in Endpoints, NEW f \in Fields(e)
    PROVE  \/ /\ f \in Strings(e)
              /\ f \notin AnyDecimals(e) \cup OptionalDecimals(e) \cup AnyInt64s(e) \cup Containers(e)
           \/ /\ f \in AnyDecimals(e)
              /\ f \notin Strings(e) \cup OptionalDecimals(e) \cup AnyInt64s(e) \cup Containers(e)
           \/ /\ f \in OptionalDecimals(e)
              /\ f \notin Strings(e) \cup AnyDecimals(e) \cup AnyInt64s(e) \cup Containers(e)
           \/ /\ f \in AnyInt64s(e)
              /\ f \notin Strings(e) \cup AnyDecimals(e) \cup OptionalDecimals(e) \cup Containers(e)
           \/ /\ f \in Containers(e)
              /\ f \notin Strings(e) \cup AnyDecimals(e) \cup OptionalDecimals(e) \cup AnyInt64s(e)
<1> USE DEF Fields, Strings, AnyDecimals, Decimals, UnusedDecimals, OptionalDecimals, AnyInt64s,
            Int64s, UnusedInt64s, Containers
<1>1. CASE e = "profile"
  BY <1>1
<1>2. CASE e = "pool_stats"
  BY <1>2
<1> QED
  BY <1>1, <1>2 DEF Endpoints

\* A field is decoded without an error exactly if its value is of a class it can be
\* read from.
FieldDecodes(e, f, v) ==
    /\ f \in Strings(e) => StringDecodes(v)
    /\ f \in Decimals(e) \cup UnusedDecimals(e) => DecimalDecodes(v)
    /\ f \in OptionalDecimals(e) => OptionalDecodes(v)
    /\ f \in Int64s(e) \cup UnusedInt64s(e) => Int64Decodes(v)
    /\ f \in Containers(e) => ContainerDecodes(v)

LEMMA DecodesIfReadable ==
    ASSUME NEW e \in Endpoints, NEW f \in Fields(e), NEW v \in Classes
    PROVE  FieldDecodes(e, f, v) <=> v \in Readable(e, f)
<1> USE DEF FieldDecodes, Classes, Number, AnyDecimals, AnyInt64s
<1>1. CASE /\ f \in Strings(e)
           /\ f \notin AnyDecimals(e) \cup OptionalDecimals(e) \cup AnyInt64s(e) \cup Containers(e)
  <2>1. Readable(e, f) = {"absent", "null", "blank", "word", "numeral", "Gh/s"}
    BY <1>1 DEF Readable
  <2> QED
    BY <1>1, <2>1 DEF StringDecodes
<1>2. CASE /\ f \in AnyDecimals(e)
           /\ f \notin Strings(e) \cup OptionalDecimals(e) \cup AnyInt64s(e) \cup Containers(e)
  <2>1. Readable(e, f) = Number \cup {"absent", "word", "Gh/s", "huge"}
    BY <1>2 DEF Readable
  <2> QED
    BY <1>2, <2>1 DEF DecimalDecodes
<1>3. CASE /\ f \in OptionalDecimals(e)
           /\ f \notin Strings(e) \cup AnyDecimals(e) \cup AnyInt64s(e) \cup Containers(e)
  <2>1. Readable(e, f) = Number \cup {"absent", "word", "Gh/s", "huge", "null"}
    BY <1>3 DEF Readable
  <2> QED
    BY <1>3, <2>1 DEF OptionalDecodes, DecimalDecodes
<1>4. CASE /\ f \in AnyInt64s(e)
           /\ f \notin Strings(e) \cup AnyDecimals(e) \cup OptionalDecimals(e) \cup Containers(e)
  <2>1. Readable(e, f) = {"absent", "null", "negative", "zero", "positive"}
    BY <1>4 DEF Readable
  <2> QED
    BY <1>4, <2>1 DEF Int64Decodes
<1>5. CASE /\ f \in Containers(e)
           /\ f \notin Strings(e) \cup AnyDecimals(e) \cup OptionalDecimals(e) \cup AnyInt64s(e)
  <2>1. Readable(e, f) = {"absent", "null", "object"}
    BY <1>5 DEF Readable
  <2> QED
    BY <1>5, <2>1 DEF ContainerDecodes
<1> QED
  BY <1>1, <1>2, <1>3, <1>4, <1>5, FieldKinds

LEMMA EntryDecodesIfReadable ==
    ASSUME NEW e \in Endpoints, NEW entry \in Entries(e)
    PROVE  EntryDecodes(e, entry) <=>
             /\ entry.kind # "composite"
             /\ entry.kind = "object" =>
                    \A f \in Fields(e) : entry.fields[f] \in Readable(e, f)
<1>1. /\ entry.kind \in {"absent", "null", "composite", "object"}
      /\ \A f \in Fields(e) : entry.fields[f] \in Classes
  BY DEF Entries
<1>2. \A f \in Fields(e) :
        FieldDecodes(e, f, entry.fields[f]) <=> entry.fields[f] \in Readable(e, f)
  BY <1>1, DecodesIfReadable
<1>3. EntryDecodes(e, entry) <=>
        \/ entry.kind \in {"absent", "null"}
        \/ entry.kind = "object" /\ \A f \in Fields(e) : FieldDecodes(e, f, entry.fields[f])
  BY DEF EntryDecodes, FieldDecodes, Fields
<1> QED
  BY <1>1, <1>2, <1>3

\* The two reasons of RefusedForGoodReason.
Unreadable(e, a) ==
    \/ a.body = "composite"
    \/ a.body = "object" /\
        \/ e = "profile" /\ a.username \in (Number \ {"numeral"}) \cup {"huge", "object", "composite"}
        \/ \E c \in Coins :
            \/ a.coins[c].kind = "composite"
            \/ /\ a.coins[c].kind = "object"
               /\ \E f \in Fields(e) : a.coins[c].fields[f] \notin Readable(e, f)
Useless(e, a) ==
    \/ a.body = "null"
    \/ a.coins[Coin].kind # "object"
    \/ LET sent == a.coins[Coin].fields IN
        \/ sent["hash_rate_unit"] # "Gh/s"
        \/ \E f \in Decimals(e) : sent[f] \in {"word", "Gh/s", "huge"}
        \/ e = "pool_stats" /\ sent["pool_active_workers"] \notin {"zero", "positive"}

LEMMA DecodesUnlessUnreadable ==
    ASSUME NEW e \in Endpoints, NEW a \in AnswersOf(e)
    PROVE  Decodes(e, a) <=> ~Unreadable(e, a)
<1>1. /\ a.body \in {"object", "null", "composite"} /\ a.username \in Classes
      /\ \A c \in Coins : a.coins[c] \in Entries(e)
  BY DEF AnswersOf
<1>2. \A c \in Coins : EntryDecodes(e, a.coins[c]) <=>
        /\ a.coins[c].kind # "composite"
        /\ a.coins[c].kind = "object" =>
               \A f \in Fields(e) : a.coins[c].fields[f] \in Readable(e, f)
  BY <1>1, EntryDecodesIfReadable
<1>3. StringDecodes(a.username) <=>
        a.username \notin (Number \ {"numeral"}) \cup {"huge", "object", "composite"}
  BY <1>1 DEF StringDecodes, Classes, Number
<1> QED
  BY <1>1, <1>2, <1>3 DEF Decodes, Unreadable

\* The fields of the configured coin that the builders look at are fields of the type.
LEMMA FieldsBuilt ==
    \A e \in Endpoints :
        /\ "hash_rate_unit" \in Strings(e) /\ Strings(e) \subseteq Fields(e)
        /\ Decimals(e) \subseteq Fields(e) /\ Int64s(e) \subseteq Fields(e)
        /\ e = "pool_stats" => "pool_active_workers" \in Int64s(e)
BY DEF Endpoints, Fields, Strings, Int64s

\* An answer with a readable entry has the values it sent, null ones excepted.
LEMMA SentDecimals ==
    ASSUME NEW e \in Endpoints, NEW a \in AnswersOf(e), Decodes(e, a), a.body = "object",
           a.coins[Coin].kind = "object", NEW f \in Decimals(e)
    PROVE  /\ Decoded(a, f) = a.coins[Coin].fields[f]
           /\ a.coins[Coin].fields[f] \in Classes \ {"null", "blank", "object", "composite"}
<1>1. a.coins[Coin].fields[f] \in Classes
  BY FieldsBuilt DEF AnswersOf, Entries, Coins
<1>2. DecimalDecodes(a.coins[Coin].fields[f])
  BY DEF Decodes, EntryDecodes, Coins
<1> QED
  BY <1>1, <1>2 DEF DecimalDecodes, Decoded

LEMMA BuildsUnlessUseless ==
    ASSUME NEW e \in Endpoints, NEW a \in AnswersOf(e), Decodes(e, a)
    PROVE  Builds(e, a) <=> ~Useless(e, a)
<1>1. a.body \in {"object", "null"}
  BY DEF Decodes
<1>2. CASE a.body = "null"
  BY <1>2 DEF Builds, HasCoin, Useless
<1>3. CASE a.body = "object" /\ a.coins[Coin].kind = "object"
  <2> DEFINE sent == a.coins[Coin].fields
  <2>1. HasCoin(a)
    BY <1>3 DEF HasCoin
  <2>2. Decoded(a, "hash_rate_unit") = "Gh/s" <=> sent["hash_rate_unit"] = "Gh/s"
    BY <1>3 DEF Decoded
  <2>3. (\A f \in PresentDecimals(e, a) : DecimalToFloat(Decoded(a, f)))
          <=> \A f \in Decimals(e) : sent[f] \notin {"word", "Gh/s", "huge"}
    <3>1. \A f \in Decimals(e) : Decoded(a, f) = sent[f]
      BY <1>3, SentDecimals
    <3> QED
      BY <3>1 DEF PresentDecimals, DecimalToFloat
  <2>4. Decoded(a, "pool_active_workers") \in {"zero", "positive"}
          <=> sent["pool_active_workers"] \in {"zero", "positive"}
    BY <1>3 DEF Decoded
  <2> QED
    BY <1>3, <2>1, <2>2, <2>3, <2>4 DEF Builds, Useless
<1>4. CASE a.body = "object" /\ a.coins[Coin].kind # "object"
  <2>1. a.coins[Coin].kind \in {"absent", "null"}
    BY <1>4 DEF Decodes, EntryDecodes, Coins
  <2>2. ~Builds(e, a)
    BY <2>1 DEF Builds, HasCoin, Decoded
  <2> QED
    BY <1>4, <2>2 DEF Useless
<1> QED
  BY <1>1, <1>2, <1>3, <1>4

\* UnmarshalJSON and the builders (types.go, account.go, pool.go): one value of the wrong
\* kind anywhere in an answer makes the poll a decode error, an answer that is readable
\* is invalid only for what the exposed coin says of its unit, its exposed decimals and
\* the pool's workers, and no other answer, whatever came before, is refused.
THEOREM RefusalsAreJustified == Spec => []RefusedForGoodReason
<1>1. ProfileInv => RefusedForGoodReason
  <2> SUFFICES ASSUME ProfileInv, result # "none"
               PROVE  result = CASE Unreadable(endpoint, answer) -> "decode"
                                 [] ~Unreadable(endpoint, answer) /\ Useless(endpoint, answer)
                                        -> "invalid_data"
                                 [] OTHER -> "success"
    BY DEF RefusedForGoodReason, Unreadable, Useless
  <2>1. /\ endpoint \in Endpoints /\ answer \in AnswersOf(endpoint)
        /\ result = IF ~Decodes(endpoint, answer) THEN "decode"
                    ELSE IF ~Builds(endpoint, answer) THEN "invalid_data" ELSE "success"
    BY DEF ProfileInv, AnswerJudged
  <2>2. Decodes(endpoint, answer) <=> ~Unreadable(endpoint, answer)
    BY <2>1, DecodesUnlessUnreadable
  <2>3. Decodes(endpoint, answer) => (Builds(endpoint, answer) <=> ~Useless(endpoint, answer))
    BY <2>1, BuildsUnlessUseless
  <2>4. CASE Unreadable(endpoint, answer)
    BY <2>1, <2>2, <2>4
  <2>5. CASE ~Unreadable(endpoint, answer) /\ Useless(endpoint, answer)
    BY <2>1, <2>2, <2>3, <2>5
  <2>6. CASE ~Unreadable(endpoint, answer) /\ ~Useless(endpoint, answer)
    BY <2>1, <2>2, <2>3, <2>6
  <2> QED
    BY <2>4, <2>5, <2>6
<1> QED
  BY <1>1, Inductive, PTL

-----------------------------------------------------------------------------
(* What a scrape shows                                                     *)

LEMMA SnapshotShows ==
    ASSUME endpoint \in Endpoints, source \in AnswersOf(endpoint), Decodes(endpoint, source),
           Builds(endpoint, source), lastGood = Snapshot(endpoint, source)
    PROVE  ShownAsSent
<1> DEFINE sent == source.coins[Coin].fields
           shown == PresentDecimals(endpoint, source)
           ints == IF endpoint = "profile" THEN Int64s(endpoint)
                   ELSE {f \in Int64s(endpoint) :
                            f = "update_ts" => Decoded(source, f) = "positive"}
<1>1. source.body = "object" /\ source.coins[Coin].kind = "object" /\ source # NoAnswer
  <2>1. HasCoin(source) /\ source.coins[Coin].kind # "null"
    BY DEF Builds, Decoded
  <2>2. source.coins[Coin].kind \in {"absent", "null", "object"}
    BY <2>1 DEF Decodes, EntryDecodes, HasCoin, Coins
  <2> QED
    BY <2>1, <2>2 DEF HasCoin, NoAnswer
<1>2. \A f \in Decimals(endpoint) :
        Decoded(source, f) = sent[f] /\ sent[f] \in Classes \ {"null", "blank", "object", "composite"}
  BY <1>1, SentDecimals
<1>3. shown = {f \in Decimals(endpoint) : sent[f] # "absent"}
  BY <1>2 DEF PresentDecimals
<1>4. \A f \in shown : sent[f] \in Number
  BY <1>2, <1>3 DEF Builds, DecimalToFloat, Classes, Number
<1>5. Decimals(endpoint) \cap Int64s(endpoint) = {}
  BY DEF Endpoints, Decimals, Int64s
<1>6. /\ DOMAIN lastGood = shown \cup ints
      /\ \A f \in shown : lastGood[f] = sent[f]
      /\ \A f \in ints : lastGood[f] = Int64(Decoded(source, f))
  <2>1. lastGood = [f \in shown \cup ints |->
                        IF f \in ints THEN Int64(Decoded(source, f)) ELSE Decoded(source, f)]
    BY DEF Snapshot
  <2>2. \A f \in shown : f \notin ints
    BY <1>3, <1>5
  <2> HIDE DEF shown, ints
  <2>3. \A f \in shown : Decoded(source, f) = sent[f]
    BY <1>2, <1>3 DEF shown
  <2> QED
    BY <2>1, <2>2, <2>3
<1>7. \A f \in ints :
        \/ lastGood[f] = sent[f]
        \/ endpoint = "profile" /\ lastGood[f] = "zero" /\ sent[f] \in {"absent", "null"}
  <2> SUFFICES ASSUME NEW f \in ints
               PROVE  \/ lastGood[f] = sent[f]
                      \/ /\ endpoint = "profile"
                         /\ lastGood[f] = "zero" /\ sent[f] \in {"absent", "null"}
    OBVIOUS
  <2>1. Decoded(source, f) = IF sent[f] = "null" THEN "absent" ELSE sent[f]
    BY <1>1 DEF Decoded
  <2>2. endpoint = "pool_stats" => Decoded(source, f) \in {"zero", "positive"}
    BY DEF Builds, Int64s
  <2> QED
    BY <1>6, <2>1, <2>2 DEF Int64, Endpoints
<1> HIDE DEF shown, ints
<1>8. \A s \in Exposed : s[1] \in DOMAIN lastGood /\ s[2] = lastGood[s[1]]
  BY DEF Exposed
<1>9. ASSUME NEW f \in Decimals(endpoint), NEW v \in Number
      PROVE  <<f, v>> \in Exposed <=> Sent(f) = v
  <2>1. <<f, v>> \in Exposed <=> f \in DOMAIN lastGood /\ lastGood[f] = v
    BY DEF Exposed
  <2>2. f \in DOMAIN lastGood <=> f \in shown
    BY <1>5, <1>6 DEF ints
  <2>3. Sent(f) = v => f \in shown
    BY <1>3 DEF Sent, Number, shown
  <2> QED
    BY <1>6, <2>1, <2>2, <2>3 DEF Sent
<1>10. ASSUME NEW s \in Exposed
       PROVE  \/ s[1] \in Fields(endpoint) /\ s[2] = Sent(s[1])
              \/ /\ s[1] \in Int64s("profile") /\ s[2] = "zero"
                 /\ Sent(s[1]) \in {"absent", "null"}
  <2>1. s[1] \in shown \cup ints /\ s[2] = lastGood[s[1]]
    BY <1>6, <1>8
  <2>2. shown \subseteq Fields(endpoint) /\ ints \subseteq Int64s(endpoint)
    BY <1>3, FieldsBuilt DEF shown, ints
  <2>3. CASE s[1] \in shown
    BY <1>6, <2>1, <2>2, <2>3 DEF Sent
  <2>4. CASE s[1] \in ints
    BY <1>7, <2>1, <2>2, <2>4, FieldsBuilt DEF Sent
  <2> QED
    BY <2>1, <2>3, <2>4
<1>11. endpoint = "profile" => Int64s(endpoint) \subseteq DOMAIN lastGood
  BY <1>6 DEF ints
<1>12. endpoint = "pool_stats" => Sent("pool_active_workers") \in {"zero", "positive"}
  BY <1>1 DEF Builds, Decoded, Sent
<1> QED
  BY <1>1, <1>9, <1>10, <1>11, <1>12 DEF ShownAsSent

\* buildAccountSnapshot, buildPoolSnapshot and Collect (account.go, pool.go): whatever was
\* polled before and whatever the other coins say, a scrape shows every decimal the last
\* accepted answer sent for the configured coin and no other, and only a count of
\* workers, as zero, that it did not send.
THEOREM CacheShowsOneAnswer == Spec => []ShownAsSent
<1>1. ProfileInv => ShownAsSent
  <2> SUFFICES ASSUME ProfileInv PROVE ShownAsSent
    OBVIOUS
  <2>1. CASE source = NoAnswer /\ lastGood = <<>>
    BY <2>1 DEF ShownAsSent, Exposed
  <2>2. CASE /\ source \in AnswersOf(endpoint) /\ Decodes(endpoint, source)
             /\ Builds(endpoint, source) /\ lastGood = Snapshot(endpoint, source)
    BY <2>2, SnapshotShows DEF ProfileInv
  <2> QED
    BY <2>1, <2>2 DEF ProfileInv, CacheIsOneAnswer
<1> QED
  BY <1>1, Inductive, PTL
=============================================================================
