-------------------------- MODULE MCWorkerSummary --------------------------
(* Up to four of ten workers, one more than the limit.                       *)
EXTENDS WorkerSummary

Name(trimmed, length, utf8, blanks) ==
    [trimmed |-> trimmed, length |-> length, utf8 |-> utf8, blanks |-> blanks]
Rig == Name("rig", 3, TRUE, 0)
RigBlank == Name("rig", 3, TRUE, 1)

W(name, unit, state, lastShare, decimals) ==
    [name |-> name, unit |-> unit, state |-> state, lastShare |-> lastShare, decimals |-> decimals]
All(value) == [g \in Gauges |-> value]
Some == [g \in Gauges |-> IF g[2] = "5m" THEN "finite" ELSE "absent"]
Bad == [g \in Gauges |-> IF g = <<"hashrate", "scoring">> THEN "unreadable" ELSE "finite"]

MCWorkers ==
    {W(Rig, "Gh/s", "ok", TRUE, All("finite")),
     W(Rig, "Gh/s", "ok", TRUE, Bad),
     W(Rig, "other", "ok", FALSE, Some),
     W(RigBlank, "none", "low", FALSE, Some),
     W(Name("barn", 4, TRUE, 0), "none", "rebooting", TRUE, All("absent")),
     W(Name("shed", 4, TRUE, 2), "Gh/s", "dis", FALSE, Some),
     W(Name("attic", 5, TRUE, 0), "Gh/s", "off", FALSE, Some),
     W(Name("", 0, TRUE, 2), "Gh/s", "ok", TRUE, Some),
     W(Name("hall", 4, FALSE, 0), "Gh/s", "off", FALSE, Some),
     W(Name("greenhouse", 10, TRUE, 0), "Gh/s", "ok", FALSE, Some)}

MCResponses ==
    {[hasCoin |-> TRUE, workers |-> s] :
        s \in {t \in SUBSET MCWorkers : /\ Cardinality(t) <= 4
                                        /\ \A v, w \in t : v.name = w.name => v = w}}
        \cup {[hasCoin |-> FALSE, workers |-> {}]}
=============================================================================
