--------------------------- MODULE LastGoodCache ---------------------------
(***************************************************************************)
(* What a metrics collector promises the readers of /metrics, with the API *)
(* request, its errors, the counters and the locks left out: per endpoint  *)
(* one register that holds the last accepted snapshot, never goes back to  *)
(* an older one and never forgets it, and scrapes that copy the registers  *)
(* of one collector at a single moment and show the copy later.            *)
(* Collectors.tla shows that the code's collectors implement it.           *)
(***************************************************************************)
EXTENDS Integers

CONSTANTS
    Endpoints,      \* the API endpoints that have a cache
    Groups,         \* the sets of endpoints that one Collect call copies together
    Scrapers,       \* concurrent Collect calls
    NoCopy,         \* a scraper holds no copy of an endpoint's register
    NoSnapshot      \* the register's value before the first accepted snapshot

VARIABLES
    now,            \* the clock
    register,       \* the cached snapshot of each endpoint
    held,           \* the copies a Collect call has taken and not shown yet
    shown           \* what each scraper was last shown for each endpoint

vars == <<now, register, held, shown>>

\* How many snapshots an endpoint whose register holds r has accepted.
Accepted(r) == IF r = NoSnapshot THEN 0 ELSE r.nth

\* s describes an API answer no older than the one r describes.
AtLeastAsRecent(s, r) ==
    r = NoSnapshot \/ (s.asOf >= r.asOf /\ s.collectedAt >= r.collectedAt)

Init ==
    /\ now = 0
    /\ register = [e \in Endpoints |-> NoSnapshot]
    /\ held = [s \in Scrapers |-> [e \in Endpoints |-> NoCopy]]
    /\ shown = [s \in Scrapers |-> [e \in Endpoints |-> NoSnapshot]]

Tick ==
    /\ now' = now + 1
    /\ UNCHANGED <<register, held, shown>>

\* The next snapshot of e is accepted: the one after the last, not older than
\* it, built from an answer that had arrived, and not from the future.
Accept(e) ==
    /\ \E collectedAt \in 0..now : \E asOf \in 0..collectedAt :
          LET s == [asOf |-> asOf, collectedAt |-> collectedAt,
                    nth |-> Accepted(register[e]) + 1] IN
          /\ AtLeastAsRecent(s, register[e])
          /\ register' = [register EXCEPT ![e] = s]
    /\ UNCHANGED <<now, held, shown>>

Copy(s, g) ==
    /\ \A e \in Endpoints : held[s][e] = NoCopy
    /\ held' = [held EXCEPT ![s] =
                  [e \in Endpoints |-> IF e \in g THEN register[e] ELSE NoCopy]]
    /\ UNCHANGED <<now, register, shown>>

Show(s, e) ==
    /\ held[s][e] # NoCopy
    /\ shown' = [shown EXCEPT ![s][e] = held[s][e]]
    /\ held' = [held EXCEPT ![s][e] = NoCopy]
    /\ UNCHANGED <<now, register>>

Next ==
    \/ Tick
    \/ \E e \in Endpoints : Accept(e)
    \/ \E s \in Scrapers, g \in Groups : Copy(s, g)
    \/ \E s \in Scrapers, e \in Endpoints : Show(s, e)

Spec == Init /\ [][Next]_vars
=============================================================================
