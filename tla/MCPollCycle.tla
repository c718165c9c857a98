---------------------------- MODULE MCPollCycle ----------------------------
(* A small instance of PollCycle: the first step and a history step, an      *)
(* interval shorter than the spacing.                                        *)
EXTENDS PollCycle

MCSteps == <<"profile", "payouts">>
MCHistory == {"payouts"}
=============================================================================
