------------------------------ MODULE Startup ------------------------------
(***************************************************************************)
(* The process from its first instruction: config.Load and Validate        *)
(* (internal/config/config.go), the construction of client, collectors and *)
(* server in run (main.go), and from app.Listen on Lifecycle.              *)
(*                                                                         *)
(* Three layers have a say in a setting: the default of the configuration, *)
(* the value of the environment, and the fallback of a constructor for a   *)
(* value that makes no sense to it.                                        *)
(*                                                                         *)
(* An input is a command line with the environment and the token file the  *)
(* process finds.  Texts are classes: of an address, path, or base URL     *)
(* only what Validate and ServeMux make of it, and "blank" stands for any  *)
(* text of white space.  Durations are numbers of seconds.                 *)
(***************************************************************************)
EXTENDS Lifecycle

CONSTANT Inputs     \* what the process may be started with

Numbers == {"interval", "timeout", "maxWorkers", "historyDays"}
Switches == {"workers", "rewards", "payouts"}

\* A variable that is unset, or blank, or does not parse, or is a number.
Unset == [form |-> "unset", value |-> 0]
Malformed == [form |-> "malformed", value |-> 0]
Given(n) == [form |-> "given", value |-> n]

\* config.Default and maxHistoryDays.
Default == [interval |-> 10, timeout |-> 10, maxWorkers |-> 100, historyDays |-> 7]
MaxHistoryDays == 90

ASSUME TextsAssumption ==
    \A i \in Inputs :
        /\ i.token \in {"unset", "blank", "set"}
        /\ i.file \in {"unset", "blank", "unreadable", "empty", "set"}
        /\ \A n \in Numbers : i[n].form \in {"unset", "malformed", "given"} /\ i[n].value \in Int

VARIABLES
    input,      \* what this process was started with
    stage,      \* "load", "client", "collectors", "server", "run";
                \* or its end: "helped" (status 0), "refused" (1), "crashed" (2)
    cfg,        \* the settings of the Config that Load returned
    used        \* the settings its parts work with

startupVars == <<input, stage, cfg, used>>
allVars == <<vars, startupVars>>

-----------------------------------------------------------------------------
(* config.Load and Validate                                                *)

Present(text) == text \notin {"unset", "blank"}

TokenSources(i) == {s \in {"token", "file"} : Present(i[s])}
HasToken(i) == TokenSources(i) # {}

\* Mutation of TokenRefused: a token file takes precedence over the token.
TokenFileRefused(i) == i.file \in {"unreadable", "empty"}

\* Both sources are given, or a file without a token.
TokenRefused(i) == TokenSources(i) = {"token", "file"} \/ i.file \in {"unreadable", "empty"}

\* durationEnv, intEnv and boolEnv.
Setting(i, n) == IF i[n].form = "unset" THEN Default[n] ELSE i[n].value
Unparsed(i) == (\E n \in Numbers : i[n].form = "malformed") \/ \E s \in Switches : i[s] = "malformed"
Enabled(i, s) == i[s] # "no"

\* Mutation of Validate: zero is let through.
ValidateNegative(i) ==
    /\ i.address = "host_port"
    /\ i.path \in {"clean", "mux_panics"}
    /\ i.log = "known"
    /\ \A n \in Numbers : Setting(i, n) >= 0
    /\ Setting(i, "historyDays") <= MaxHistoryDays
    /\ i.coin \in {"unset", "btc"}
    /\ i.baseURL \in {"unset", "http"}

Validate(i) ==
    /\ i.address = "host_port"
    /\ i.path \in {"clean", "mux_panics"}   \* absolute, not reserved, no query or fragment
    /\ i.log = "known"
    /\ \A n \in Numbers : Setting(i, n) > 0
    /\ Setting(i, "historyDays") <= MaxHistoryDays
    /\ i.coin \in {"unset", "btc"}
    /\ i.baseURL \in {"unset", "http"}

Loads(i) == i.args = "flags" /\ ~TokenRefused(i) /\ ~Unparsed(i) /\ Validate(i)

\* The poll steps run appends, in its order, with RewardsEnabled and PayoutsEnabled.
PollSteps(i) ==
    <<"profile", "pool_stats">>
        \o (IF Enabled(i, "workers") THEN <<"workers">> ELSE <<>>)
        \o (IF Enabled(i, "rewards") THEN <<"rewards">> ELSE <<>>)
        \o (IF Enabled(i, "payouts") THEN <<"payouts">> ELSE <<>>)

\* Steps is the poll loop of every input that gets as far as starting one.
ASSUME InputsAssumption == \A i \in Inputs : Loads(i) /\ HasToken(i) => PollSteps(i) = Steps

NotUsed == [n \in Numbers |-> 0]

StartupInit ==
    /\ Init
    /\ input \in Inputs
    /\ token = HasToken(input)      \* read from stage "client" on
    /\ stage = "load"
    /\ cfg = NotUsed
    /\ used = NotUsed

Helps ==
    /\ stage = "load"
    /\ input.args = "help"
    /\ stage' = "helped"
    /\ UNCHANGED <<vars, input, cfg, used>>

Refuses ==
    /\ stage = "load"
    /\ input.args # "help" /\ ~Loads(input)
    /\ stage' = "refused"
    /\ UNCHANGED <<vars, input, cfg, used>>

Load ==
    /\ stage = "load"
    /\ Loads(input)
    /\ cfg' = [n \in Numbers |-> Setting(input, n)]
    /\ stage' = IF token THEN "client" ELSE "server"
    /\ UNCHANGED <<vars, input, used>>

-----------------------------------------------------------------------------
(* The constructors.  NewClient repeats what Validate has made sure of the *)
(* base URL; the clients given to the collectors are never nil.            *)

OrElse(n, fallback) == IF n <= 0 THEN fallback ELSE n

NewClient ==
    /\ stage = "client"
    /\ used' = [used EXCEPT !.timeout = OrElse(cfg.timeout, 10)]
    /\ stage' = "collectors"
    /\ UNCHANGED <<vars, input, cfg>>

\* NewWorkerMetrics and NewHistoryMetrics, where enabled.
NewCollectors ==
    /\ stage = "collectors"
    /\ used' = [used EXCEPT
                  !.maxWorkers = IF Enabled(input, "workers") THEN OrElse(cfg.maxWorkers, 100) ELSE 0,
                  !.historyDays = IF Enabled(input, "rewards") \/ Enabled(input, "payouts")
                                  THEN OrElse(cfg.historyDays, 7) ELSE 0]
    /\ stage' = "server"
    /\ UNCHANGED <<vars, input, cfg>>

NewServer ==
    /\ stage = "server"
    /\ input.path = "clean"
    /\ stage' = "run"
    /\ UNCHANGED <<vars, input, cfg, used>>

\* ServeMux panics on a pattern it cannot parse, such as "/{".
NewServerPanics ==
    /\ stage = "server"
    /\ input.path = "mux_panics"
    /\ stage' = "crashed"
    /\ UNCHANGED <<vars, input, cfg, used>>

StartupStep == Helps \/ Refuses \/ Load \/ NewClient \/ NewCollectors \/ NewServer \/ NewServerPanics

\* A signal ends the process at any moment before signal.Notify.
KilledEarly ==
    /\ stage \in {"load", "client", "collectors", "server"}
    /\ Signal
    /\ UNCHANGED startupVars

-----------------------------------------------------------------------------
(* The running process                                                     *)

\* runPollSteps replaces the interval when the loop starts.
Serving(A) ==
    /\ stage = "run"
    /\ A
    /\ used' = IF loop = "unstarted" /\ loop' # "unstarted"
               THEN [used EXCEPT !.interval = OrElse(cfg.interval, 60)] ELSE used
    /\ UNCHANGED <<input, stage, cfg>>

StartupNext ==
    \/ Running /\ StartupStep
    \/ Running /\ KilledEarly
    \/ Serving(Next)

\* As in Lifecycle, and construction goes on without waiting for anything.
StartupSpec ==
    /\ StartupInit
    /\ [][StartupNext]_allVars
    /\ WF_allVars(Running /\ StartupStep)
    /\ WF_allVars(Serving(Running /\ MainStep))
    /\ WF_allVars(Serving(Running /\ BudgetExpires))
    /\ WF_allVars(Serving(Running /\ ServeStops))

-----------------------------------------------------------------------------
(* Properties                                                              *)

\* A process that runs works with the numbers it was given, and with the documented
\* default for each it was not: no fallback of a constructor, and no refused or
\* unparsed value, ever stands in for a setting.
SettingsTakeEffect ==
    stage = "run" =>
        \A n \in Numbers :
            /\ input[n].form # "malformed"
            /\ used[n] # 0 => used[n] = IF input[n].form = "given" THEN input[n].value ELSE Default[n]
            /\ n = "historyDays" => used[n] <= 90

\* Authenticated polling happens only with exactly one token source, whichever it is,
\* and a process that polls nothing was given none: an unreadable or empty file never
\* turns into a quiet start without a token.
OneTokenSource ==
    /\ loop # "unstarted" => (input.token = "set") # (input.file = "set")
    /\ stage = "run" /\ ~token => input.token # "set" /\ input.file \in {"unset", "blank"}
=============================================================================
