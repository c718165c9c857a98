--------------------------- MODULE HistoryWindow ---------------------------
(***************************************************************************)
(* The rolling window of whole UTC days over which HistoryMetrics          *)
(* (internal/collector/history.go) summarises rewards and payouts.  Time   *)
(* is counted in seconds since 1970-01-01T00:00:00Z.                       *)
(***************************************************************************)
EXTENDS Integers

CONSTANTS
    Day,            \* seconds of a day
    HistoryDays     \* historyDays

ASSUME WindowAssumption == Day \in Nat \ {0} /\ HistoryDays \in Nat \ {0}

\* dateWindow at now: from the first day's midnight to the last nanosecond of
\* today.  API timestamps are whole seconds: the last second stands for it.
DateWindow(now) ==
    LET today == (now \div Day) * Day
    IN  [start |-> today - (HistoryDays - 1) * Day, end |-> today + Day - 1]

\* A record without a timestamp counts as inside.
TimestampInWindow(unix, window) ==
    unix = 0 \/ unix \in window.start .. window.end
=============================================================================
