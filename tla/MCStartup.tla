----------------------------- MODULE MCStartup -----------------------------
(* A small instance of Startup: inputs that differ from a plain start in one *)
(* or two settings, and three poll steps for those that get as far, with an  *)
(* interval shorter than the spacing, which the configuration allows.        *)
EXTENDS Startup

MCSteps == <<"profile", "pool_stats", "workers">>

Plain ==
    [args |-> "flags", address |-> "host_port", path |-> "clean", log |-> "known",
     token |-> "unset", file |-> "unset", coin |-> "unset", baseURL |-> "unset",
     interval |-> Unset, timeout |-> Unset, maxWorkers |-> Unset, historyDays |-> Unset,
     workers |-> "unset", rewards |-> "no", payouts |-> "no"]
WithToken == [Plain EXCEPT !.token = "set"]
Bounds == [WithToken EXCEPT !.interval = Given(1), !.timeout = Given(1), !.maxWorkers = Given(1),
                            !.historyDays = Given(90), !.coin = "btc", !.baseURL = "http",
                            !.workers = "yes"]

MCInputs ==
    {Plain, Bounds}
    \cup {[Plain EXCEPT !.token = t, !.file = f] :
            t \in {"unset", "blank", "set"}, f \in {"unset", "blank", "unreadable", "empty", "set"}}
    \cup {[Plain EXCEPT !.workers = w, !.rewards = r, !.payouts = p] :
            w \in {"no", "malformed"}, r \in {"unset", "yes"}, p \in {"unset", "malformed"}}
    \cup {[WithToken EXCEPT ![n] = s] : n \in Numbers, s \in {Malformed, Given(0), Given(-1)}}
    \cup {[Plain EXCEPT !.args = a] : a \in {"help", "malformed", "positional", "config_file"}}
    \cup {[WithToken EXCEPT !.path = p] : p \in {"relative", "reserved", "mux_panics"}}
    \cup {[WithToken EXCEPT !.historyDays = Given(91)], [WithToken EXCEPT !.coin = "other"],
          [WithToken EXCEPT !.baseURL = "other"], [Plain EXCEPT !.address = "other"],
          [Plain EXCEPT !.log = "other"]}
=============================================================================
