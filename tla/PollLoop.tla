------------------------------ MODULE PollLoop ------------------------------
(***************************************************************************)
(* runPollSteps (cmd/braiins-pool-exporter/main.go): one goroutine calls   *)
(* the poll steps in order, five seconds apart, and starts over one poll   *)
(* interval after the last of them, until its context is canceled.         *)
(*                                                                         *)
(* Both waits are selects on the context and a timer; when both are ready  *)
(* either branch may be taken.  A step that is told to stop still returns  *)
(* in its own time.  Time is counted down by the timer of the wait.        *)
(*                                                                         *)
(* PollCycle fills the steps with calls of the API client and the time     *)
(* they take; Lifecycle puts the loop into the process.                    *)
(***************************************************************************)
EXTENDS Integers, Sequences

CONSTANTS
    Steps,      \* the poll steps, in order: endpoint names
    Spacing,    \* the five seconds between steps, in ticks
    Interval    \* cfg.PollInterval, in ticks

ASSUME StepsAssumption == Steps \in Seq(STRING) /\ Steps # <<>>
ASSUME TimerAssumption == Spacing \in Nat \ {0} /\ Interval \in Nat \ {0}

VARIABLES
    pollCtx,    \* the context of the loop: "live" or "canceled"
    loop,       \* where the goroutine is
    index,      \* index, counted from 1
    timer,      \* ticks until the timer of the current wait fires
    quiet       \* ticks since the last step returned, up to the longest wait

loopVars == <<pollCtx, loop, index, timer, quiet>>

LongestWait == IF Spacing > Interval THEN Spacing ELSE Interval

LoopInit ==
    /\ pollCtx = "live"
    /\ loop = "unstarted"
    /\ index = 1
    /\ timer = 0
    /\ quiet = LongestWait

\* run starts the goroutine.
StartLoop ==
    /\ loop = "unstarted"
    /\ loop' = "next"
    /\ UNCHANGED <<pollCtx, index, timer, quiet>>

\* run calls stopPolling.
CancelLoop ==
    /\ pollCtx = "live"
    /\ pollCtx' = "canceled"
    /\ UNCHANGED <<loop, index, timer, quiet>>

\* pollAll reaches the call of the next step.
BeginStep ==
    /\ loop = "next"
    /\ loop' = "polling"
    /\ UNCHANGED <<pollCtx, index, timer, quiet>>

\* Mutation of EndStep: off by one at the last step.
EndStepLate ==
    /\ loop = "polling"
    /\ IF index = Len(Steps) + 1
       THEN loop' = "interval" /\ timer' = Interval
       ELSE loop' = "spacing" /\ timer' = Spacing
    /\ quiet' = 0
    /\ UNCHANGED <<pollCtx, index>>

\* The step returns; its error is ignored.  The next wait gets a new timer.
EndStep ==
    /\ loop = "polling"
    /\ IF index = Len(Steps)
       THEN loop' = "interval" /\ timer' = Interval
       ELSE loop' = "spacing" /\ timer' = Spacing
    /\ quiet' = 0
    /\ UNCHANGED <<pollCtx, index>>

SpacingOver ==
    /\ loop = "spacing"
    /\ timer = 0
    /\ loop' = "next"
    /\ index' = index + 1
    /\ UNCHANGED <<pollCtx, timer, quiet>>

\* Mutation of SpacingCut: the return is missing and the loop over the steps goes on.
SpacingSkipped ==
    /\ loop = "spacing"
    /\ pollCtx = "canceled"
    /\ loop' = "next"
    /\ index' = index + 1
    /\ UNCHANGED <<pollCtx, timer, quiet>>

\* pollAll returns to the loop, which waits for the interval all the same.
SpacingCut ==
    /\ loop = "spacing"
    /\ pollCtx = "canceled"
    /\ loop' = "interval"
    /\ timer' = Interval
    /\ UNCHANGED <<pollCtx, index, quiet>>

\* Mutation of IntervalOver: the steps do not start over.
IntervalOverAtLast ==
    /\ loop = "interval"
    /\ timer = 0
    /\ loop' = "next"
    /\ UNCHANGED <<pollCtx, index, timer, quiet>>

IntervalOver ==
    /\ loop = "interval"
    /\ timer = 0
    /\ loop' = "next"
    /\ index' = 1
    /\ UNCHANGED <<pollCtx, timer, quiet>>

\* Mutation of IntervalCut: the return is missing.
IntervalSkipped ==
    /\ loop = "interval"
    /\ pollCtx = "canceled"
    /\ loop' = "next"
    /\ index' = 1
    /\ UNCHANGED <<pollCtx, timer, quiet>>

\* runPollSteps returns, and pollDone is closed.
IntervalCut ==
    /\ loop = "interval"
    /\ pollCtx = "canceled"
    /\ loop' = "done"
    /\ timer' = 0
    /\ UNCHANGED <<pollCtx, index, quiet>>

\* Time passes during a wait.
Elapse ==
    /\ loop \in {"spacing", "interval"}
    /\ timer > 0
    /\ timer' = timer - 1
    /\ quiet' = IF quiet < LongestWait THEN quiet + 1 ELSE quiet
    /\ UNCHANGED <<pollCtx, loop, index>>

LoopStep ==
    \/ BeginStep
    \/ EndStep
    \/ SpacingOver
    \/ SpacingCut
    \/ IntervalOver
    \/ IntervalCut
    \/ Elapse

LoopNext == StartLoop \/ CancelLoop \/ LoopStep

LoopSpec == LoopInit /\ [][LoopNext]_loopVars

-----------------------------------------------------------------------------
(* Properties                                                              *)

LoopTypeOK ==
    /\ pollCtx \in {"live", "canceled"}
    /\ loop \in {"unstarted", "next", "polling", "spacing", "interval", "done"}
    /\ index \in 1..Len(Steps)
    /\ timer \in 0..LongestWait
    /\ quiet \in 0..LongestWait

\* Two calls to the API by different steps keep the spacing between them, and two
\* cycles the interval, counted from the return of the earlier step, whatever
\* is canceled meanwhile.
StepsAreSpaced ==
    loop \in {"next", "polling"} => quiet >= (IF index > 1 THEN Spacing ELSE Interval)

\* The canceled loop comes to its end, although each of its selects may prefer a
\* timer that is ready, and a cut spacing leads into the wait for the interval.
PollLoopStops == loop # "unstarted" /\ pollCtx = "canceled" ~> loop = "done"
=============================================================================
