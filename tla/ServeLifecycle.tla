--------------------------- MODULE ServeLifecycle ---------------------------
(***************************************************************************)
(* The life of the commands that run until they are told to stop.  The     *)
(* root command's bootstrap loads and validates the configuration.         *)
(* `vpc-proof serve` (internal/cli/serve.go) then applies its own flags    *)
(* and starts the history; runServer starts the listener goroutine and     *)
(* waits for its error or for SIGINT/SIGTERM, then shuts down within a     *)
(* timeout while requests are in flight.  `vpc-proof watch` (watch.go)     *)
(* runs the probes until the signal comes.  What net/http does (bind,      *)
(* accept, Shutdown) is modelled from how api.Server uses it.              *)
(***************************************************************************)
EXTENDS Configuration

CONSTANTS
    Client,         \* the requests that may come in
    Files,          \* what the configuration file may set; one that cannot be
                    \* opened or decoded sets something malformed
    Environments,   \* what the VPC_PROOF_ variables may set
    Flags,          \* what --log-level and --log-format may set
    ServeFlags      \* what serve's own --addr and --port may set

\* A source sets fields to values of their classes; what a file or a variable
\* gives may also be malformed.  No flag has to be given.
ASSUME SourcesAssumption ==
    /\ \A s \in Files \cup Environments :
         /\ DOMAIN s \subseteq Field
         /\ \A f \in DOMAIN s : s[f] \in Class[f] \cup {"malformed"}
    /\ \A s \in Flags \cup ServeFlags : \A f \in DOMAIN s : s[f] \in Class[f]
    /\ \A s \in Flags : DOMAIN s \subseteq {"log.level", "log.format"}
    /\ \A s \in ServeFlags : DOMAIN s \subseteq {"server.addr", "server.port"}
    /\ NoSource \in ServeFlags

VARIABLES
    command,    \* "serve" or "watch"
    sources,    \* <<file, environment, flags, serve's flags>>
    config,     \* the configuration: once serve runs, the fields it still reads
    main,       \* the main goroutine: "load", "validate", "flags", "start"; of serve
                \* "history", "spawn", "select", "shutdown"; of watch "probing",
                \* "waiting"; "returned"
    ticker,     \* of watch: "armed", "fired" when a tick waits in its channel, or
                \* "stopped"
    listener,   \* the goroutine: "none", "binding", "serving", "closed", "failed"
    errCh,      \* "empty", or the error ListenAndServe returned
    signalled,  \* SIGINT or SIGTERM arrived; from "start" on ctx.Done() is closed
    conn,       \* per client: "away", "active", "answered", "cut"
    exit        \* the process's exit code; NoExit while it runs

vars == <<command, sources, config, main, ticker, listener, errCh, signalled, conn, exit>>
configVars == <<command, sources, config>>

NoExit == 99

\* The process died of the signal.
Killed == 128

NoSources == <<NoSource, NoSource, NoSource, NoSource>>

Init ==
    /\ \/ command = "serve" /\ sources \in Files \X Environments \X Flags \X ServeFlags
       \/ command = "watch" /\ sources \in Files \X Environments \X Flags \X {NoSource}
    /\ config = Defaults
    /\ main = "load"
    /\ ticker = "armed"
    /\ listener = "none"
    /\ errCh = "empty"
    /\ signalled = FALSE
    /\ conn = [c \in Client |-> "away"]
    /\ exit = NoExit

Active == {c \in Client : conn[c] = "active"}

\* Mutant: the error that ended runServer does not reach the exit code.
Return_CodeLost(code) ==
    /\ main' = "returned"
    /\ UNCHANGED exit
    /\ conn' = [c \in Client |-> IF conn[c] = "active" THEN "cut" ELSE conn[c]]

\* RunE returns and the process exits: requests still in flight are cut off.
Return(code) ==
    /\ main' = "returned"
    /\ exit' = code
    /\ conn' = [c \in Client |-> IF conn[c] = "active" THEN "cut" ELSE conn[c]]

----------------------------------------------------------------------------
\* loadConfiguration, up to the first source that cannot be read.
LoadConfiguration ==
    /\ main = "load"
    /\ IF Parses(sources[1]) /\ Parses(sources[2])
       THEN /\ config' = Loaded(sources[1], sources[2], sources[3])
            /\ main' = "validate"
            /\ UNCHANGED <<conn, exit>>
       ELSE Return(1) /\ UNCHANGED config
    /\ UNCHANGED <<command, sources, ticker, listener, errCh, signalled>>

\* Mutant: errors are reported, and the command goes on.
Acceptable_Warned == TRUE

\* bootstrap gives up when Validate found something.
Acceptable == InvalidFields(config) = {}

ValidateConfiguration ==
    /\ main = "validate"
    /\ IF Acceptable
       THEN main' = "flags" /\ UNCHANGED <<conn, exit>>
       ELSE Return(1)
    /\ UNCHANGED <<configVars, ticker, listener, errCh, signalled>>

\* serve's RunE overrides the validated configuration with --addr and --port;
\* both commands then call signal.NotifyContext.
ApplyServeFlags ==
    /\ main = "flags"
    /\ config' = Overlay(config, sources[4])
    /\ main' = "start"
    /\ UNCHANGED <<command, sources, ticker, listener, errCh, signalled, conn, exit>>

\* Mutant: the loop runs although there is nothing to flush to.
HistoryLoops_Always == TRUE

\* Store.Start returns at once only when no disk path is configured.
HistoryLoops == config["history.disk_path"] # "empty"

\* What is still read once the listener's address is made up.
ServedFields == {"server.port", "history.disk_path"}

\* history.Start(ctx), called and not spawned.  Sources and the rest of the
\* configuration are not looked at again.
StartHistory ==
    /\ command = "serve"
    /\ main = "start"
    /\ main' = IF HistoryLoops THEN "history" ELSE "spawn"
    /\ config' = [f \in ServedFields |-> config[f]]
    /\ sources' = NoSources
    /\ UNCHANGED <<command, ticker, listener, errCh, signalled, conn, exit>>

\* The flush loop leaves only when the context is done.
HistoryReturns ==
    /\ main = "history"
    /\ signalled
    /\ main' = "spawn"
    /\ UNCHANGED <<configVars, ticker, listener, errCh, signalled, conn, exit>>

\* runServer starts the goroutine that calls ListenAndServe.
SpawnListener ==
    /\ main = "spawn"
    /\ listener' = "binding"
    /\ main' = "select"
    /\ UNCHANGED <<configVars, ticker, errCh, signalled, conn, exit>>

\* Port 0 is one of the system's choice.
Listenable == config["server.port"] \in {"zero", "positive"}

\* ListenAndServe binds if the port is one, unless Shutdown was called before.
Bind ==
    /\ listener = "binding"
    /\ CASE main # "select" -> listener' = "closed" /\ errCh' = "closed"
         [] main = "select" /\ Listenable -> listener' = "serving" /\ UNCHANGED errCh
         [] main = "select" /\ ~ Listenable -> listener' = "failed" /\ errCh' = "failed"
    /\ UNCHANGED <<configVars, ticker, main, signalled, conn, exit>>

\* The address is taken or invalid, or accepting fails for good.
ListenerFails ==
    /\ main # "returned"
    /\ listener \in {"binding", "serving"}
    /\ listener' = "failed"
    /\ errCh' = "failed"
    /\ UNCHANGED <<configVars, ticker, main, signalled, conn, exit>>

\* Until NotifyContext is called a signal kills the process.
Signal ==
    /\ main # "returned"
    /\ ~ signalled
    /\ signalled' = TRUE
    /\ IF main \in {"load", "validate", "flags"}
       THEN Return(Killed)
       ELSE UNCHANGED <<main, conn, exit>>
    /\ UNCHANGED <<configVars, ticker, listener, errCh>>

Accept(c) ==
    /\ main # "returned"
    /\ listener = "serving"
    /\ conn[c] = "away"
    /\ conn' = [conn EXCEPT ![c] = "active"]
    /\ UNCHANGED <<configVars, ticker, main, listener, errCh, signalled, exit>>

Answer(c) ==
    /\ main # "returned"
    /\ conn[c] = "active"
    /\ conn' = [conn EXCEPT ![c] = "answered"]
    /\ UNCHANGED <<configVars, ticker, main, listener, errCh, signalled, exit>>

\* Mutant: the goroutine's error is logged and not sent.
ErrorWaiting_Dropped == FALSE

ErrorWaiting == errCh # "empty"

\* select takes errCh (it may when the context is done as well).
ListenerErrorReceived ==
    /\ main = "select"
    /\ ErrorWaiting
    /\ Return(1)
    /\ UNCHANGED <<configVars, ticker, listener, errCh, signalled>>

\* select takes ctx.Done(): Shutdown closes the listener, whose
\* ListenAndServe returns into the buffered channel nobody reads any more.
BeginShutdown ==
    /\ main = "select"
    /\ signalled
    /\ main' = "shutdown"
    /\ IF listener = "serving"
       THEN listener' = "closed" /\ errCh' = "closed"
       ELSE UNCHANGED <<listener, errCh>>
    /\ UNCHANGED <<configVars, ticker, signalled, conn, exit>>

\* http.Server.Shutdown polls until no connection is busy.
Quiescent == Active = {}

ShutdownCompletes ==
    /\ main = "shutdown"
    /\ Quiescent
    /\ Return(0)
    /\ UNCHANGED <<configVars, ticker, listener, errCh, signalled>>

\* Mutant: Shutdown is given a context without a deadline.
ShutdownBounded_Never == FALSE

\* shutdownCtx has a deadline.
ShutdownBounded == TRUE

\* Mutant: Shutdown's error is dropped, like the listener's last one.
ExitAfterTimeout_Dropped == 0

\* The error of Shutdown reaches RunE.
ExitAfterTimeout == 1

\* The deadline passes; it may also win against a poll that would have found
\* the server idle.
ShutdownTimesOut ==
    /\ main = "shutdown"
    /\ ShutdownBounded
    /\ Return(ExitAfterTimeout)
    /\ UNCHANGED <<configVars, ticker, listener, errCh, signalled>>

\* runWatch makes its ticker and runs the probes; nothing of the
\* configuration but what the probes were built with is looked at again.
StartWatch ==
    /\ command = "watch"
    /\ main = "start"
    /\ main' = "probing"
    /\ config' = [f \in ServedFields |-> config[f]]
    /\ sources' = NoSources
    /\ UNCHANGED <<command, ticker, listener, errCh, signalled, conn, exit>>

\* The interval is over; a tick that finds the channel full is lost.
WatchTicks ==
    /\ main \in {"probing", "waiting"}
    /\ ticker = "armed"
    /\ ticker' = "fired"
    /\ UNCHANGED <<configVars, main, listener, errCh, signalled, conn, exit>>

\* Every probe has its deadline, and an interrupted run ends at once.
WatchRunEnds ==
    /\ main = "probing"
    /\ main' = "waiting"
    /\ UNCHANGED <<configVars, ticker, listener, errCh, signalled, conn, exit>>

\* Mutant: a timer, which fires once.
TickerAfterTick_Stopped == "stopped"

TickerAfterTick == "armed"

\* select takes the tick, also when the context is done.
WatchRunsAgain ==
    /\ main = "waiting"
    /\ ticker = "fired"
    /\ ticker' = TickerAfterTick
    /\ main' = "probing"
    /\ UNCHANGED <<configVars, listener, errCh, signalled, conn, exit>>

\* select takes ctx.Done().
WatchStops ==
    /\ main = "waiting"
    /\ signalled
    /\ ticker' = "stopped"
    /\ Return(0)
    /\ UNCHANGED <<configVars, listener, errCh, signalled>>

MainStep ==
    \/ LoadConfiguration \/ ValidateConfiguration \/ ApplyServeFlags
    \/ StartHistory \/ HistoryReturns \/ SpawnListener
    \/ ListenerErrorReceived \/ BeginShutdown \/ ShutdownCompletes \/ ShutdownTimesOut
    \/ StartWatch \/ WatchRunEnds \/ WatchRunsAgain \/ WatchStops

Next ==
    \/ MainStep \/ Bind \/ ListenerFails \/ Signal \/ WatchTicks
    \/ \E c \in Client : Accept(c) \/ Answer(c)

\* The two goroutines run, the shutdown deadline passes and the ticker fires.
\* A select that finds several channels ready again and again takes each of
\* them some time, for it chooses at random.  No fairness on the handlers: one
\* may hang for ever.
Fairness == WF_vars(MainStep) /\ WF_vars(Bind) /\ WF_vars(WatchTicks) /\ SF_vars(WatchStops)

Spec == Init /\ [][Next]_vars /\ Fairness

----------------------------------------------------------------------------
ConfigTypeOK ==
    /\ sources \in {NoSources} \cup (Files \X Environments \X Flags \X ServeFlags)
    /\ DOMAIN config \in {Field, ServedFields}
    /\ \A f \in DOMAIN config : config[f] \in Class[f]

ProcessTypeOK ==
    /\ command \in {"serve", "watch"}
    /\ main \in {"load", "validate", "flags", "start", "history", "spawn", "select",
                "shutdown", "probing", "waiting", "returned"}
    /\ ticker \in {"armed", "fired", "stopped"}
    /\ listener \in {"none", "binding", "serving", "closed", "failed"}
    /\ errCh \in {"empty", "closed", "failed"}
    /\ signalled \in BOOLEAN
    /\ conn \in [Client -> {"away", "active", "answered", "cut"}]
    /\ exit \in {0, 1, Killed, NoExit}
    /\ exit = NoExit <=> main # "returned"

\* Everything has its type, and an exit code is there once RunE returned.
TypeOK == ConfigTypeOK /\ ProcessTypeOK

\* "Configuration is resolved with the following precedence (highest first)"
\* (config.go:4): flags, environment, file, defaults, with what serve was
\* told on its own command line above them all.
PrecedenceKept ==
    /\ main \in {"validate", "flags"} => config = ByPrecedence(<<sources[1], sources[2], sources[3]>>)
    /\ main = "start" => config = ByPrecedence(sources)

\* "Config is the validated application configuration" (server.go:29), but
\* for what serve's own flags have made of the address since.
OnlyServeFlagsEscape ==
    main = "start" => InvalidFields(config) \subseteq DOMAIN sources[4]

\* "http server stopped gracefully" (serve.go:112) is logged, and exit code 0
\* returned, only when every accepted request was answered.
GracefulLosesNothing == exit = 0 => \A c \in Client : conn[c] # "cut"

\* A signal ends the process even while a handler hangs, and although watch
\* may be given its next tick instead, and run once more.
SignalEndsProcess == signalled ~> main = "returned"

\* A listener that fails takes the process with it: `serve` never lingers
\* without serving.
FailureEndsProcess == listener = "failed" ~> main = "returned"

\* "Start the public REST API server" (serve.go:26): with a configuration
\* that is valid the command gets as far as listening, unless it is told to
\* stop.
StartsServing ==
    command = "serve" /\ main = "start" ~> listener \in {"serving", "failed"} \/ signalled

\* Sources that `validate-config` accepts, and that keep the history in
\* memory, are all it takes for `serve` to listen.
StartsServingInMemory ==
    /\ command = "serve" /\ main = "load"
    /\ Parses(sources[1]) /\ Parses(sources[2])
    /\ LET merged == ByPrecedence(<<sources[1], sources[2], sources[3]>>)
       IN  InvalidFields(merged) = {} /\ merged["history.disk_path"] = "empty"
    ~> listener \in {"serving", "failed"} \/ signalled

\* "printing the latest status on each interval" (watch.go:47-48): the screen
\* is brought up to date again and again.
WatchRefreshes == main = "waiting" ~> main = "probing" \/ signalled

----------------------------------------------------------------------------
\* The inductive invariant.  Until serve or watch runs, the sources are at
\* hand, and the configuration is whole and what they make of it.
Preparing == main \in {"load", "validate", "flags", "start"}

ConfigInv ==
    /\ ConfigTypeOK
    /\ Preparing =>
         /\ sources \in Files \X Environments \X Flags \X ServeFlags
         /\ DOMAIN config = Field
    /\ main = "flags" => InvalidFields(config) = {}
    /\ PrecedenceKept /\ OnlyServeFlagsEscape

\* Only a server that listened has requests, and none is cut off before the
\* process ends.
ProcessInv ==
    /\ ProcessTypeOK
    /\ Preparing \/ main \in {"history", "spawn", "probing", "waiting"} => listener = "none"
    /\ listener = "none" => \A c \in Client : conn[c] = "away"
    /\ main # "returned" => \A c \in Client : conn[c] # "cut"
    /\ GracefulLosesNothing

IInv == ConfigInv /\ ProcessInv
=============================================================================
