----------------------------- MODULE Lifecycle -----------------------------
(***************************************************************************)
(* The exporter process: run in cmd/braiins-pool-exporter/main.go with the *)
(* HTTP server (internal/server), exporter readiness (internal/collector/  *)
(* self.go) and the poll loop (PollLoop).                                  *)
(*                                                                         *)
(* Four goroutines interact: run itself, the one in app.Serve, the poll    *)
(* loop, and the handlers of HTTP requests.  A readiness probe reads the   *)
(* initialized flag first and the account collector's cache afterwards.    *)
(* net/http and the operating system are external: the listener may fail,  *)
(* a client may hold a request open for ever, a signal may come any time.  *)
(***************************************************************************)
EXTENDS PollLoop

CONSTANTS
    Probes,         \* handlers of GET /-/ready
    MaxRequests     \* bound on other HTTP requests in progress

ASSUME RequestsAssumption == MaxRequests \in Nat
ASSUME ProfileFirstAssumption == Steps[1] = "profile"

VARIABLES
    token,          \* cfg.Token # "": there are collectors and a poll loop
    main,           \* where run is
    signal,         \* the signals channel: "unset", "empty" or "pending"
    initialized,    \* SelfMetrics.initialized
    accountReady,   \* AccountMetrics.Ready(): a profile snapshot is cached
    listening,      \* the listener accepts connections
    serve,          \* the goroutine in app.Serve: "unstarted", "serving", "returned"
    serveErr,       \* its channel: "empty", "nil" or "error"
    requests,       \* HTTP requests in progress
    budget,         \* the shutdown context: "unset", "running" or "expired"
    probe,          \* per probe: "idle", "loaded", "ready" (200), "not_ready" (503)
    late,           \* probes that began after SetReady(false)
    exit            \* "no", "ok", "error", "killed"

mainVars == <<token, main, signal, initialized, accountReady, listening, serve, serveErr,
              requests, budget, probe, late, exit>>
vars == <<loopVars, mainVars>>

Running == exit = "no"
PollDone == ~token \/ loop = "done"
NoneActive == requests = 0 /\ \A p \in Probes : probe[p] # "loaded"

Init ==
    /\ LoopInit
    /\ token \in BOOLEAN
    /\ main = "listen"
    /\ signal = "unset"
    /\ initialized = FALSE
    /\ accountReady = FALSE
    /\ listening = FALSE
    /\ serve = "unstarted"
    /\ serveErr = "empty"
    /\ requests = 0
    /\ budget = "unset"
    /\ probe = [p \in Probes |-> "idle"]
    /\ late = [p \in Probes |-> FALSE]
    /\ exit = "no"

-----------------------------------------------------------------------------
(* run, up to the select                                                   *)

ListenFails ==
    /\ main = "listen"
    /\ exit' = "error"
    /\ UNCHANGED <<loopVars, token, main, signal, initialized, accountReady, listening, serve,
                   serveErr, requests, budget, probe, late>>

Listen ==
    /\ main = "listen"
    /\ listening' = TRUE
    /\ main' = "launch"
    /\ UNCHANGED <<loopVars, token, signal, initialized, accountReady, serve, serveErr, requests,
                   budget, probe, late, exit>>

\* SetReady(true), then the goroutines of app.Serve and of the poll loop start.
Launch ==
    /\ main = "launch"
    /\ initialized' = TRUE
    /\ serve' = "serving"
    /\ IF token THEN StartLoop ELSE UNCHANGED loopVars
    /\ main' = "notify"
    /\ UNCHANGED <<token, signal, accountReady, listening, serveErr,
                   requests, budget, probe, late, exit>>

Notify ==
    /\ main = "notify"
    /\ signal' = "empty"
    /\ main' = "select"
    /\ UNCHANGED <<loopVars, token, initialized, accountReady, listening, serve, serveErr, requests,
                   budget, probe, late, exit>>

\* run returns what app.Serve returned, without waiting for the poll loop.
SelectServeErr ==
    /\ main = "select"
    /\ serveErr # "empty"
    /\ exit' = IF serveErr = "nil" THEN "ok" ELSE "error"
    /\ UNCHANGED <<loopVars, token, main, signal, initialized, accountReady, listening, serve,
                   serveErr, requests, budget, probe, late>>

\* A signal was received: SetReady(false).
SelectSignal ==
    /\ main = "select"
    /\ signal = "pending"
    /\ signal' = "empty"
    /\ initialized' = FALSE
    /\ main' = "stop"
    /\ UNCHANGED <<loopVars, token, accountReady, listening, serve, serveErr, requests, budget, probe,
                   late, exit>>

-----------------------------------------------------------------------------
(* run, from the signal to the end                                         *)

\* stopPolling(), and the ten seconds begin that the rest of run shares.
StopPolling ==
    /\ main = "stop"
    /\ CancelLoop
    /\ budget' = "running"
    /\ main' = "drain"
    /\ UNCHANGED <<token, signal, initialized, accountReady, listening,
                   serve, serveErr, requests, probe, late, exit>>

BudgetExpires ==
    /\ budget = "running"
    /\ budget' = "expired"
    /\ UNCHANGED <<loopVars, token, main, signal, initialized, accountReady, listening, serve,
                   serveErr, requests, probe, late, exit>>

\* Mutation of Shutdown: the poll loop is not waited for.
ShutdownAtOnce ==
    /\ main = "drain"
    /\ listening' = FALSE
    /\ main' = IF NoneActive THEN "await" ELSE "closing"
    /\ UNCHANGED <<loopVars, token, signal, initialized, accountReady, serve, serveErr, requests,
                   budget, probe, late, exit>>

\* Mutation of Shutdown: active requests are not waited for.
ShutdownCutsRequests ==
    /\ main = "drain"
    /\ PollDone \/ budget = "expired"
    /\ listening' = FALSE
    /\ main' = "await"
    /\ UNCHANGED <<loopVars, token, signal, initialized, accountReady, serve, serveErr, requests,
                   budget, probe, late, exit>>

\* The poll loop is done or the budget is spent.  app.Shutdown closes the
\* listener and looks for active requests before it looks at its context.
Shutdown ==
    /\ main = "drain"
    /\ PollDone \/ budget = "expired"
    /\ listening' = FALSE
    /\ main' = IF NoneActive THEN "await" ELSE "closing"
    /\ UNCHANGED <<loopVars, token, signal, initialized, accountReady, serve, serveErr, requests,
                   budget, probe, late, exit>>

ShutdownComplete ==
    /\ main = "closing"
    /\ NoneActive
    /\ main' = "await"
    /\ UNCHANGED <<loopVars, token, signal, initialized, accountReady, listening, serve, serveErr,
                   requests, budget, probe, late, exit>>

\* Mutation of ShutdownFails: app.Shutdown is given a context without a deadline.
ShutdownNeverFails ==
    /\ main = "closing"
    /\ budget = "unset"
    /\ exit' = "error"
    /\ UNCHANGED <<loopVars, token, main, signal, initialized, accountReady, listening, serve,
                   serveErr, requests, budget, probe, late>>

\* app.Shutdown returns DeadlineExceeded, and run returns an error.
ShutdownFails ==
    /\ main = "closing"
    /\ budget = "expired"
    /\ exit' = "error"
    /\ UNCHANGED <<loopVars, token, main, signal, initialized, accountReady, listening, serve,
                   serveErr, requests, budget, probe, late>>

Finish ==
    /\ main = "await"
    /\ serveErr # "empty"
    /\ exit' = IF serveErr = "nil" THEN "ok" ELSE "error"
    /\ UNCHANGED <<loopVars, token, main, signal, initialized, accountReady, listening, serve,
                   serveErr, requests, budget, probe, late>>

MainStep ==
    \/ ListenFails \/ Listen \/ Launch \/ Notify
    \/ SelectServeErr \/ SelectSignal
    \/ StopPolling \/ Shutdown \/ ShutdownComplete \/ ShutdownFails \/ Finish

-----------------------------------------------------------------------------
(* The server                                                              *)

AcceptFails ==
    /\ serve = "serving" /\ listening
    /\ serve' = "returned"
    /\ serveErr' = "error"
    /\ UNCHANGED <<loopVars, token, main, signal, initialized, accountReady, listening, requests,
                   budget, probe, late, exit>>

\* Once app.Shutdown has begun, Serve reports ErrServerClosed: App.Serve returns nil.
ServeStops ==
    /\ serve = "serving" /\ ~listening
    /\ serve' = "returned"
    /\ serveErr' = "nil"
    /\ UNCHANGED <<loopVars, token, main, signal, initialized, accountReady, listening, requests,
                   budget, probe, late, exit>>

RequestArrives ==
    /\ serve = "serving" /\ listening
    /\ requests < MaxRequests
    /\ requests' = requests + 1
    /\ UNCHANGED <<loopVars, token, main, signal, initialized, accountReady, listening, serve,
                   serveErr, budget, probe, late, exit>>

RequestEnds ==
    /\ requests > 0
    /\ requests' = requests - 1
    /\ UNCHANGED <<loopVars, token, main, signal, initialized, accountReady, listening, serve,
                   serveErr, budget, probe, late, exit>>

\* SelfMetrics.Ready: the initialized flag is loaded first ...
LoadInitialized(p) ==
    /\ serve = "serving" /\ listening
    /\ probe[p] \in {"idle", "ready", "not_ready"}
    /\ probe' = [probe EXCEPT ![p] = IF initialized THEN "loaded" ELSE "not_ready"]
    /\ late' = [late EXCEPT ![p] = main \notin {"listen", "launch", "notify", "select"}]
    /\ UNCHANGED <<loopVars, token, main, signal, initialized, accountReady, listening, serve,
                   serveErr, requests, budget, exit>>

\* Mutation of AskAccount: RequireAccountReady is not called.
AskNobody(p) ==
    /\ probe[p] = "loaded"
    /\ probe' = [probe EXCEPT ![p] = "ready"]
    /\ UNCHANGED <<loopVars, token, main, signal, initialized, accountReady, listening, serve,
                   serveErr, requests, budget, late, exit>>

\* ... and the account collector is asked afterwards, if there is one.
AskAccount(p) ==
    /\ probe[p] = "loaded"
    /\ probe' = [probe EXCEPT ![p] = IF token => accountReady THEN "ready" ELSE "not_ready"]
    /\ UNCHANGED <<loopVars, token, main, signal, initialized, accountReady, listening, serve,
                   serveErr, requests, budget, late, exit>>

-----------------------------------------------------------------------------
(* The poll loop and the world                                             *)

\* The account step publishes a snapshot before it returns.
PublishProfile ==
    /\ loop = "polling"
    /\ Steps[index] = "profile"
    /\ ~accountReady
    /\ accountReady' = TRUE
    /\ UNCHANGED <<loopVars, token, main, signal, initialized, listening, serve, serveErr, requests,
                   budget, probe, late, exit>>

Poller == (LoopStep /\ UNCHANGED mainVars) \/ PublishProfile

\* SIGINT or SIGTERM: before signal.Notify it ends the process at once; then the
\* channel holds one, and run reads it once.
Signal ==
    /\ signal # "pending"
    /\ IF signal = "unset"
       THEN exit' = "killed" /\ UNCHANGED signal
       ELSE signal' = "pending" /\ UNCHANGED exit
    /\ UNCHANGED <<loopVars, token, main, initialized, accountReady, listening, serve, serveErr,
                   requests, budget, probe, late>>

Next ==
    /\ Running
    /\ \/ MainStep
       \/ BudgetExpires
       \/ AcceptFails
       \/ ServeStops
       \/ RequestArrives
       \/ RequestEnds
       \/ \E p \in Probes : LoadInitialized(p) \/ AskAccount(p)
       \/ Poller
       \/ Signal

\* run and the goroutine of app.Serve never wait but for what their guards say,
\* and the ten seconds pass.  Nothing is assumed of the poll loop, of clients, of
\* the listener or of signals.
Fairness ==
    /\ WF_vars(Running /\ MainStep)
    /\ WF_vars(Running /\ BudgetExpires)
    /\ WF_vars(Running /\ ServeStops)

Spec == Init /\ [][Next]_vars /\ Fairness

-----------------------------------------------------------------------------
(* Properties                                                              *)

TypeOK ==
    /\ LoopTypeOK
    /\ token \in BOOLEAN
    /\ main \in {"listen", "launch", "notify", "select", "stop", "drain", "closing", "await"}
    /\ signal \in {"unset", "empty", "pending"}
    /\ initialized \in BOOLEAN
    /\ accountReady \in BOOLEAN
    /\ listening \in BOOLEAN
    /\ serve \in {"unstarted", "serving", "returned"}
    /\ serveErr \in {"empty", "nil", "error"}
    /\ requests \in 0..MaxRequests
    /\ budget \in {"unset", "running", "expired"}
    /\ probe \in [Probes -> {"idle", "loaded", "ready", "not_ready"}]
    /\ late \in [Probes -> BOOLEAN]
    /\ exit \in {"no", "ok", "error", "killed"}

\* What a load balancer is told: 200 only when the account collector, if there
\* is one, has data, and never to a probe that began after the shutdown did,
\* although the flag and the account cache are read at different moments.
ReadyMeansReady ==
    \A p \in Probes : probe[p] = "ready" => (token => accountReady) /\ ~late[p]

\* The order of the shutdown: readiness goes first, then polling is canceled, and
\* the listener closes only when the poll loop is over or the ten seconds are.
ShutdownOrder ==
    /\ pollCtx = "canceled" => ~initialized
    /\ main \in {"drain", "closing", "await"} => pollCtx = "canceled" /\ budget # "unset"
    /\ main \in {"closing", "await"} => PollDone \/ budget = "expired"

\* Exit status 0 is given only to a process that answered every request it had
\* accepted, and whose poll loop was over unless the ten seconds were spent.
CleanExit ==
    exit = "ok" => NoneActive /\ serve = "returned" /\ (PollDone \/ budget = "expired")

\* A signal ends the process, even if a client never finishes its request and
\* another goroutine fails at the same time.
SignalEndsProcess == signal = "pending" ~> ~Running
=============================================================================
