------------------------ MODULE RewardSummaryProofs ------------------------
(***************************************************************************)
(* Proofs about RewardSummary for any responses, limits and places.        *)
(***************************************************************************)
EXTENDS RewardSummary, SumTheorems

Length == Len(response.rewards)

TypeOK ==
    /\ response \in Responses
    /\ index \in 1..Length + 1
    /\ components \in [Components -> Int]
    /\ result \in {"checking", "adding", "accepted", "invalid"}

\* What has been noted is the set of the rewards the loop has passed in the window,
\* and every one of them could be read.
SeenArePassed ==
    /\ IsFiniteSet(InWindow(index - 1))
    /\ \A reward \in InWindow(index - 1) : AllReadable(reward)
    /\ result # "invalid" => seen = InWindow(index - 1)

\* How the loop can have ended, or not yet begun.
ResultTold ==
    /\ result = "checking" => index = 1
    /\ result \in {"adding", "accepted"} => response.hasCoin /\ Length <= MaxRecords
    /\ result = "accepted" => index = Length + 1
    /\ result = "invalid" =>
        \/ ~response.hasCoin \/ Length > MaxRecords
        \/ \E reward \in InWindow(Length) : ~AllReadable(reward)

SummaryInv == TypeOK /\ SeenArePassed /\ ComponentsAreSums /\ ResultTold

-----------------------------------------------------------------------------
(* The sums, reward by reward                                              *)

LEMMA RewardsType ==
    ASSUME TypeOK
    PROVE  Length \in Nat /\ response.rewards \in Seq(Rewards)
BY ResponsesAssumption DEF TypeOK, Length

\* A reward of the response that can be read adds integers.
LEMMA ContributionType ==
    ASSUME TypeOK, NEW n \in 1..Length, AllReadable(response.rewards[n]), NEW c \in Components
    PROVE  Contribution(response.rewards[n], c) \in Int
BY PlacesAssumption DEF TypeOK, Length, AllReadable, Contribution

LEMMA PassedType ==
    ASSUME TypeOK, NEW n \in 0..Length, NEW reward \in InWindow(n), AllReadable(reward), NEW c \in Components
    PROVE  Contribution(reward, c) \in Int
<1>1. PICK i \in 1..n : reward = response.rewards[i]
  BY DEF InWindow
<1>2. i \in 1..Length
  BY RewardsType
<1> QED
  BY <1>1, <1>2, ContributionType

\* The next reward joins the set if it lies in the window.
LEMMA InWindowNext ==
    ASSUME NEW n \in Nat
    PROVE  InWindow(n + 1) = InWindow(n) \cup
             (IF TimestampInWindow(RewardTimestamp(response.rewards[n + 1]), window)
              THEN {response.rewards[n + 1]} ELSE {})
<1>1. 1..n + 1 = (1..n) \cup {n + 1}
  OBVIOUS
<1> QED
  BY <1>1 DEF InWindow

LEMMA InWindowFirst == InWindow(0) = {}
BY DEF InWindow

\* The sum of a component over a set of rewards.
SumOver(W, c) == SumFunction([reward \in W |-> Contribution(reward, c)])

LEMMA SumOverNone == ASSUME NEW c PROVE SumOver({}, c) = 0
BY SumOfNone DEF SumOver, SumFunction

LEMMA SumOverMore ==
    ASSUME NEW W, IsFiniteSet(W), NEW c, \A y \in W : Contribution(y, c) \in Int,
           NEW x, x \notin W, Contribution(x, c) \in Int
    PROVE  SumOver(W \cup {x}, c) = SumOver(W, c) + Contribution(x, c)
<1> DEFINE V == W \cup {x}
           f == [reward \in W |-> Contribution(reward, c)]
           g == [reward \in V |-> Contribution(reward, c)]
<1>1. SumOver(V, c) = SumFunctionOnSet(g, V) /\ SumOver(W, c) = SumFunctionOnSet(f, W)
  BY DEF SumOver, SumFunction
<1>2. /\ \A y \in W : g[y] \in Int /\ f[y] = g[y] /\ f[y] \in Int
      /\ g[x] = Contribution(x, c) /\ g[x] \in Int
  OBVIOUS
<1> HIDE DEF f, g
<1>3. SumFunctionOnSet(g, W \cup {x}) = SumFunctionOnSet(g, W) + g[x]
  BY <1>2, SumWith
<1>4. SumFunctionOnSet(f, W) = SumFunctionOnSet(g, W)
  BY <1>2, SumSame
<1> QED
  BY <1>1, <1>2, <1>3, <1>4

-----------------------------------------------------------------------------
(* The invariant                                                           *)

\* No step changes the response or the window.
LEMMA Frozen ==
    ASSUME response' = response, window' = window
    PROVE  Length' = Length /\ \A n : InWindow(n)' = InWindow(n)
BY DEF Length, InWindow

LEMMA SummaryInvInit == Init => SummaryInv
<1> SUFFICES ASSUME Init PROVE SummaryInv
  OBVIOUS
<1>1. /\ response \in Responses /\ index = 1 /\ seen = {} /\ result = "checking"
      /\ components = [c \in Components |-> 0]
  BY DEF Init, ZeroRewardComponents
<1>2. response.rewards \in Seq(Rewards)
  BY <1>1, ResponsesAssumption
<1>3. Length \in Nat
  BY <1>2 DEF Length
<1>4. TypeOK
  BY <1>1, <1>3 DEF TypeOK
<1>5. InWindow(index - 1) = {} /\ IsFiniteSet({})
  BY <1>1, InWindowFirst, FS_EmptySet
<1>6. SeenArePassed
  BY <1>1, <1>5 DEF SeenArePassed
<1>7. ComponentsAreSums
  <2>1. \A c \in Components : SumOver({}, c) = 0
    BY SumOverNone
  <2> QED
    BY <1>1, <1>5, <2>1 DEF ComponentsAreSums, SumOver
<1>8. ResultTold
  BY <1>1 DEF ResultTold
<1> QED
  BY <1>4, <1>6, <1>7, <1>8 DEF SummaryInv

\* What the loop looks at, said of its position.
LEMMA AtPosition ==
    ASSUME SummaryInv, Adding
    PROVE  /\ index \in 1..Length /\ index - 1 \in 0..Length
           /\ Reward = response.rewards[index]
           /\ InWindow(index) = InWindow(index - 1) \cup (IF Inside THEN {Reward} ELSE {})
           /\ seen = InWindow(index - 1)
           /\ RewardDedupKey(Reward) = Reward
<1>1. index \in 1..Length /\ Length \in Nat
  BY RewardsType DEF SummaryInv, Adding, Length
<1>2. index - 1 \in Nat /\ (index - 1) + 1 = index /\ index - 1 \in 0..Length
  BY <1>1
<1>3. InWindow(index) = InWindow(index - 1) \cup
        (IF TimestampInWindow(RewardTimestamp(response.rewards[index]), window)
         THEN {response.rewards[index]} ELSE {})
  BY <1>2, InWindowNext
<1>4. seen = InWindow(index - 1)
  BY DEF SummaryInv, SeenArePassed, Adding
<1> QED
  BY <1>1, <1>2, <1>3, <1>4 DEF Reward, Inside, RewardDedupKey

\* A reward that does not add to the set leaves the components alone.
LEMMA SkipKeeps ==
    ASSUME SummaryInv, Adding, InWindow(index) = InWindow(index - 1),
           index' = index + 1, UNCHANGED <<response, window, seen, components, result>>
    PROVE  SummaryInv'
<1>1. index \in 1..Length /\ Length \in Nat
  BY AtPosition, RewardsType DEF SummaryInv
<1>2. PICK m : m = index
  OBVIOUS
<1>3. index' - 1 = m /\ index' \in 1..Length + 1
  BY <1>1, <1>2
<1>4. InWindow(m)' = InWindow(index - 1) /\ Length' = Length
  BY <1>2, Frozen
<1>5. TypeOK'
  BY <1>3, <1>4 DEF SummaryInv, TypeOK
<1>6. InWindow(index - 1)' = InWindow(index - 1)
  BY <1>3, <1>4
<1>7. SeenArePassed'
  BY <1>6 DEF SummaryInv, SeenArePassed
<1>8. ComponentsAreSums'
  BY <1>6 DEF SummaryInv, ComponentsAreSums
<1>9. ResultTold'
  BY <1>4 DEF SummaryInv, ResultTold, Adding
<1> QED
  BY <1>5, <1>7, <1>8, <1>9 DEF SummaryInv

\* A reward of the window that was not there yet is added.
LEMMA AddKeeps == ASSUME SummaryInv, Add PROVE SummaryInv'
<1>1. /\ Adding /\ Inside /\ AllReadable(Reward)
      /\ UNCHANGED <<response, window, result>> /\ index' = index + 1
      /\ components' = [c \in Components |-> components[c] + Contribution(Reward, c)]
  BY DEF Add
<1>2. Reward \notin seen /\ seen' = seen \cup {Reward}
  BY AtPosition, <1>1 DEF Add
<1> DEFINE W == InWindow(index - 1)
<1>3. /\ index \in 1..Length /\ index - 1 \in 0..Length /\ Reward = response.rewards[index]
      /\ InWindow(index) = W \cup {Reward} /\ seen = W
  BY <1>1, AtPosition
<1>4. /\ TypeOK /\ IsFiniteSet(W) /\ \A reward \in W : AllReadable(reward)
      /\ \A c \in Components : components[c] = SumOver(W, c)
  BY DEF SummaryInv, SeenArePassed, ComponentsAreSums, SumOver
<1>5. Length \in Nat
  BY <1>4, RewardsType
<1>6. ASSUME NEW c \in Components
      PROVE  /\ Contribution(Reward, c) \in Int
             /\ components'[c] = SumOver(W \cup {Reward}, c)
  <2>1. Contribution(Reward, c) \in Int
    BY <1>1, <1>3, <1>4, ContributionType
  <2>2. \A y \in W : Contribution(y, c) \in Int
    BY <1>3, <1>4, PassedType
  <2>3. SumOver(W \cup {Reward}, c) = SumOver(W, c) + Contribution(Reward, c)
    <3> HIDE DEF W
    <3> QED
      BY <1>2, <1>3, <1>4, <2>1, <2>2, SumOverMore
  <2> QED
    BY <1>1, <1>4, <2>1, <2>3
<1>7. PICK m : m = index
  OBVIOUS
<1>8. index' - 1 = m /\ index' \in 1..Length + 1
  BY <1>1, <1>3, <1>5, <1>7
<1>9. InWindow(m)' = W \cup {Reward} /\ Length' = Length
  BY <1>1, <1>3, <1>7, Frozen
<1>10. InWindow(index - 1)' = W \cup {Reward}
  BY <1>8, <1>9
<1>11. TypeOK'
  BY <1>1, <1>4, <1>6, <1>8, <1>9 DEF TypeOK
<1>12. SeenArePassed'
  <2>1. IsFiniteSet(W \cup {Reward})
    BY <1>4, FS_AddElement
  <2>2. \A reward \in W \cup {Reward} : AllReadable(reward)
    BY <1>1, <1>4
  <2> HIDE DEF W
  <2> QED
    BY <1>2, <1>3, <1>10, <2>1, <2>2 DEF SeenArePassed
<1>13. ComponentsAreSums'
  <2>1. \A c \in Components : components'[c] = SumFunction([reward \in W \cup {Reward} |-> Contribution(reward, c)])
    BY <1>6 DEF SumOver
  <2> QED
    BY <1>10, <2>1 DEF ComponentsAreSums
<1>14. ResultTold'
  BY <1>1, <1>9 DEF SummaryInv, ResultTold, Adding
<1> QED
  BY <1>11, <1>12, <1>13, <1>14 DEF SummaryInv

\* Steps that end the pass leave the components where they are.
LEMMA EndKeeps ==
    ASSUME SummaryInv, UNCHANGED <<response, window, index, components>>,
           result' \in {"checking", "adding", "accepted", "invalid"},
           result' # "invalid" => result # "invalid" /\ seen' = seen, ResultTold'
    PROVE  SummaryInv'
<1>1. PICK m : m = index - 1
  OBVIOUS
<1>2. InWindow(index - 1)' = InWindow(index - 1) /\ Length' = Length
  BY <1>1, Frozen
<1>3. TypeOK'
  BY <1>2 DEF SummaryInv, TypeOK
<1>4. SeenArePassed' /\ ComponentsAreSums'
  BY <1>2 DEF SummaryInv, SeenArePassed, ComponentsAreSums
<1> QED
  BY <1>3, <1>4 DEF SummaryInv

LEMMA SummaryInvNext == SummaryInv /\ [Next]_vars => SummaryInv'
<1> SUFFICES ASSUME SummaryInv, [Next]_vars PROVE SummaryInv'
  OBVIOUS
<1>1. CASE CheckCoinAndLimit
  <2>1. /\ UNCHANGED <<response, window, index, seen, components>> /\ result = "checking"
        /\ result' = IF response.hasCoin /\ Length <= MaxRecords THEN "adding" ELSE "invalid"
    BY <1>1 DEF CheckCoinAndLimit, Length
  <2>2. Length' = Length /\ Length \in Nat
    BY <2>1, Frozen, RewardsType DEF SummaryInv
  <2>3. ResultTold'
    BY <2>1, <2>2, LimitsAssumption DEF ResultTold
  <2> QED
    BY <2>1, <2>3, EndKeeps
<1>2. CASE SkipOutside
  BY <1>2, AtPosition, SkipKeeps DEF SkipOutside
<1>3. CASE SkipRepeated
  <2>1. InWindow(index) = InWindow(index - 1)
    BY <1>3, AtPosition DEF SkipRepeated
  <2> QED
    BY <1>3, <2>1, SkipKeeps DEF SkipRepeated
<1>4. CASE Add
  BY <1>4, AddKeeps
<1>5. CASE RefuseDecimal
  <2>1. /\ Adding /\ Inside /\ ~AllReadable(Reward) /\ result' = "invalid"
        /\ UNCHANGED <<response, window, index, components>>
    BY <1>5 DEF RefuseDecimal
  <2>2. Reward \in InWindow(Length)
    <3>1. index \in 1..Length /\ Reward = response.rewards[index]
      BY <2>1, AtPosition
    <3> QED
      BY <2>1, <3>1 DEF InWindow, Inside
  <2>3. PICK reward : reward = Reward
    OBVIOUS
  <2>4. PICK m : m = Length
    OBVIOUS
  <2>5. Length' = m /\ reward \in InWindow(m)' /\ ~AllReadable(reward)
    BY <2>1, <2>2, <2>3, <2>4, Frozen
  <2>6. ResultTold'
    BY <2>1, <2>5 DEF ResultTold
  <2> QED
    BY <2>1, <2>6, EndKeeps
<1>6. CASE Accept
  <2>1. /\ result = "adding" /\ index = Length + 1 /\ result' = "accepted"
        /\ UNCHANGED <<response, window, index, seen, components>>
    BY <1>6 DEF Accept, Length
  <2>2. Length' = Length
    BY <2>1, Frozen
  <2>3. ResultTold'
    BY <2>1, <2>2 DEF ResultTold, SummaryInv
  <2> QED
    BY <2>1, <2>3, EndKeeps
<1>7. CASE UNCHANGED vars
  <2>1. UNCHANGED <<response, window, index, seen, components, result>>
    BY <1>7 DEF vars
  <2>2. PICK m : m = Length
    OBVIOUS
  <2>3. Length' = m /\ InWindow(m)' = InWindow(m)
    BY <2>1, <2>2, Frozen
  <2>4. ResultTold'
    BY <2>1, <2>2, <2>3 DEF ResultTold, SummaryInv
  <2> QED
    BY <2>1, <2>4, EndKeeps DEF SummaryInv, TypeOK
<1> QED
  BY <1>1, <1>2, <1>3, <1>4, <1>5, <1>6, <1>7 DEF Next

LEMMA SummaryInvHolds == Spec => []SummaryInv
BY SummaryInvInit, SummaryInvNext, PTL DEF Spec

-----------------------------------------------------------------------------
(* Theorems                                                                *)

\* For any response the components are the exact sums over the set of rewards in the
\* window, in whatever order and however often they come (buildRewardSnapshot).
THEOREM ComponentsAdd == Spec => []ComponentsAreSums
<1>1. SummaryInv => ComponentsAreSums
  BY DEF SummaryInv
<1> QED
  BY <1>1, SummaryInvHolds, PTL

\* A response is refused for a missing coin, its length or a decimal of the window
\* that cannot be read, and for nothing else (buildRewardSnapshot, decimalToRat).
THEOREM RefusalsAreJustified == Spec => []RefusedForGoodReason
<1>1. SummaryInv => RefusedForGoodReason
  <2> SUFFICES ASSUME SummaryInv PROVE RefusedForGoodReason
    OBVIOUS
  <2>1. Length \in Nat /\ TypeOK /\ SeenArePassed /\ ResultTold
    BY RewardsType DEF SummaryInv
  <2>2. ASSUME result = "accepted"
        PROVE  /\ response.hasCoin /\ Length <= MaxRecords /\ index = Length + 1
               /\ \A reward \in InWindow(Length) : AllReadable(reward)
    <3>1. index = Length + 1 /\ index - 1 = Length
      BY <2>1, <2>2 DEF ResultTold
    <3> QED
      BY <2>1, <2>2, <3>1 DEF ResultTold, SeenArePassed
  <2>3. ASSUME result = "invalid"
        PROVE  ~(/\ response.hasCoin /\ Length <= MaxRecords
                 /\ \A reward \in InWindow(Length) : AllReadable(reward))
    BY <2>1, <2>3, LimitsAssumption DEF ResultTold
  <2> QED
    BY <2>2, <2>3 DEF RefusedForGoodReason, Length
<1> QED
  BY <1>1, SummaryInvHolds, PTL
=============================================================================
