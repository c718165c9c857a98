------------------------------ MODULE PollCall ------------------------------
(***************************************************************************)
(* What one call of the API client promises the poll loop: at most         *)
(* MaxAttempts requests, one after the other; a new one only after the     *)
(* previous one came to its end, and none once the caller has canceled.    *)
(* How an answer is judged and how long a wait lasts is left open.         *)
(*                                                                         *)
(* RetryClient implements this specification; PollCycle uses its actions   *)
(* for the calls of the poll steps.                                        *)
(***************************************************************************)
EXTENDS Naturals

CONSTANT MaxAttempts    \* a positive number

VARIABLES
    ctx,        \* the caller's context: "live" or "canceled"
    phase,      \* "between" requests, "asking", "succeeded" or "failed"
    sent        \* requests handed to the network

callVars == <<ctx, phase, sent>>

Init ==
    /\ ctx \in {"live", "canceled"}
    /\ phase = "between"
    /\ sent = 0

Cancel ==
    /\ ctx = "live"
    /\ ctx' = "canceled"
    /\ UNCHANGED <<phase, sent>>

Send ==
    /\ phase = "between"
    /\ ctx = "live"
    /\ sent < MaxAttempts
    /\ phase' = "asking"
    /\ sent' = sent + 1
    /\ UNCHANGED ctx

\* A decoded answer.
Succeed ==
    /\ phase = "asking"
    /\ phase' = "succeeded"
    /\ UNCHANGED <<ctx, sent>>

\* A transient failure with attempts left.
Retry ==
    /\ phase = "asking"
    /\ ctx = "live"
    /\ sent < MaxAttempts
    /\ phase' = "between"
    /\ UNCHANGED <<ctx, sent>>

\* A final failure, or a transient one that is the last or was canceled.
Fail ==
    /\ phase = "asking"
    /\ phase' = "failed"
    /\ UNCHANGED <<ctx, sent>>

\* Nothing is sent: the caller canceled, or there was no request to send at all.
Refuse ==
    /\ phase = "between"
    /\ ctx = "canceled" \/ sent = 0
    /\ phase' = "failed"
    /\ UNCHANGED <<ctx, sent>>

Next == Cancel \/ Send \/ Succeed \/ Retry \/ Fail \/ Refuse

Spec == Init /\ [][Next]_callVars
=============================================================================
