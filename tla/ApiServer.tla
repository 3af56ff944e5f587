------------------------------- MODULE ApiServer -------------------------------
(***************************************************************************)
(* The life of the HTTP server (internal/api/server.go) inside the two     *)
(* programs that run it: main(), which indexes and serves, and             *)
(* runAPIOnly(), which only serves. Start() has a goroutine that shuts the *)
(* server down when the context is cancelled; the caller closes the        *)
(* database. net/http is external: Shutdown closes the listener and waits  *)
(* for the open connections, Close closes them but stops no handler.       *)
(***************************************************************************)
EXTENDS Naturals

CONSTANTS
  Requests,    \* requests clients make
  Queries      \* queries a handler makes

ASSUME ApiServerAssumption == Queries \in Nat \ {0}

VARIABLES
  apiOnly,     \* which program runs: runAPIOnly(), or else main()
  caller,      \* where main() or runAPIOnly() stands
  start,       \* where Start() stands
  drain,       \* its shutdown goroutine
  forced,      \* shutdownErr # nil
  listening,   \* the port is open
  connOf,      \* the connection of each request
  handler,     \* queries its handler still has to make, or what became of it
  late,        \* requests that queried a closed database
  signalled,   \* a SIGINT or SIGTERM was sent
  cancelled,   \* ctx
  dbOpen,
  exit         \* exit code, or Running

server  == <<start, drain, forced, listening>>
clients == <<connOf, handler, late>>
serverVars == <<apiOnly, caller, server, clients, signalled, cancelled, dbOpen, exit>>

Running == 99
NotStarted == Queries + 1
Work == {"backfill", "history", "reconcile", "live"}

ServerInit ==
  /\ apiOnly \in BOOLEAN
  /\ caller = IF apiOnly THEN "selecting" ELSE "backfill"
  /\ start = "starting" /\ drain = "waiting"
  /\ forced = FALSE /\ listening = FALSE
  /\ connOf = [r \in Requests |-> "none"]
  /\ handler = [r \in Requests |-> NotStarted]
  /\ late = {}
  /\ signalled = FALSE /\ cancelled = FALSE
  /\ dbOpen = TRUE
  /\ exit = Running

Alive == exit = Running

-----------------------------------------------------------------------------
(* Start() *)

\* ListenAndServe opens the port, finds it in use, or finds the server already
\* shut down.
Listen ==
  /\ Alive /\ start = "starting"
  /\ \/ drain = "waiting" /\ start' = "serving" /\ listening' = TRUE
     \/ drain = "waiting" /\ start' = "failed" /\ UNCHANGED listening
     \/ drain # "waiting" /\ start' = "waiting" /\ UNCHANGED listening
  /\ UNCHANGED <<apiOnly, caller, drain, forced, clients, signalled, cancelled, dbOpen, exit>>

\* <-ctx.Done(); Shutdown closes the listener.
Shutdown ==
  /\ Alive /\ drain = "waiting" /\ cancelled
  /\ drain' = "draining"
  /\ listening' = FALSE
  /\ UNCHANGED <<apiOnly, caller, start, forced, clients, signalled, cancelled, dbOpen, exit>>

\* Mutant: Shutdown only stops the listener.
DrainEndsAtOnce ==
  /\ Alive /\ drain = "draining"
  /\ drain' = "done"
  /\ UNCHANGED <<apiOnly, caller, start, forced, listening, clients, signalled, cancelled, dbOpen, exit>>

\* All connections are idle: Shutdown returns nil.
DrainEnds ==
  /\ Alive /\ drain = "draining"
  /\ \A r \in Requests : connOf[r] # "open"
  /\ drain' = "done"
  /\ UNCHANGED <<apiOnly, caller, start, forced, listening, clients, signalled, cancelled, dbOpen, exit>>

\* Mutant: Shutdown(context.Background()).
NeverTimesOut ==
  /\ FALSE
  /\ UNCHANGED serverVars

\* Five seconds have passed: Close() what is left.
DrainTimesOut ==
  /\ Alive /\ drain = "draining"
  /\ \E r \in Requests : connOf[r] = "open"
  /\ connOf' = [r \in Requests |-> IF connOf[r] = "open" THEN "cut" ELSE connOf[r]]
  /\ forced' = TRUE
  /\ drain' = "done"
  /\ UNCHANGED <<apiOnly, caller, start, listening, handler, late, signalled, cancelled, dbOpen, exit>>

\* ListenAndServe returns ErrServerClosed as soon as Shutdown starts.
Served ==
  /\ Alive /\ start = "serving" /\ drain # "waiting"
  /\ start' = "waiting"
  /\ UNCHANGED <<apiOnly, caller, drain, forced, listening, clients, signalled, cancelled, dbOpen, exit>>

\* <-shutdownDone
StartReturns ==
  /\ Alive /\ start = "waiting" /\ drain = "done"
  /\ start' = "returned"
  /\ UNCHANGED <<apiOnly, caller, drain, forced, listening, clients, signalled, cancelled, dbOpen, exit>>

-----------------------------------------------------------------------------
(* Clients and handlers *)

Accept(r) ==
  /\ Alive /\ listening
  /\ connOf[r] = "none"
  /\ connOf' = [connOf EXCEPT ![r] = "open"]
  /\ handler' = [handler EXCEPT ![r] = Queries]
  /\ UNCHANGED <<apiOnly, caller, server, late, signalled, cancelled, dbOpen, exit>>

\* Mutant: a handler asks for a page after the last one.
HandlerQueryOnceMore(r) ==
  /\ Alive /\ handler[r] <= Queries
  /\ IF dbOpen THEN handler' = [handler EXCEPT ![r] = @ - 1] /\ UNCHANGED late
               ELSE handler' = [handler EXCEPT ![r] = 0] /\ late' = late \cup {r}
  /\ UNCHANGED <<apiOnly, caller, server, connOf, signalled, cancelled, dbOpen, exit>>

\* A handler's next query; a closed database answers with an error, which ends
\* the handler. A cut connection does not stop it.
HandlerQuery(r) ==
  /\ Alive /\ handler[r] \in 1 .. Queries
  /\ IF dbOpen THEN handler' = [handler EXCEPT ![r] = @ - 1] /\ UNCHANGED late
               ELSE handler' = [handler EXCEPT ![r] = 0] /\ late' = late \cup {r}
  /\ UNCHANGED <<apiOnly, caller, server, connOf, signalled, cancelled, dbOpen, exit>>

\* Mutant: the answer is written before the last query.
AnswerEarly(r) ==
  /\ Alive /\ handler[r] = 1 /\ connOf[r] = "open"
  /\ connOf' = [connOf EXCEPT ![r] = "answered"]
  /\ UNCHANGED <<apiOnly, caller, server, handler, late, signalled, cancelled, dbOpen, exit>>

\* The answer is written and the connection is idle.
Answer(r) ==
  /\ Alive /\ handler[r] = 0 /\ connOf[r] = "open"
  /\ connOf' = [connOf EXCEPT ![r] = "answered"]
  /\ UNCHANGED <<apiOnly, caller, server, handler, late, signalled, cancelled, dbOpen, exit>>

-----------------------------------------------------------------------------
(* The caller *)

Signal ==
  /\ Alive /\ ~signalled
  /\ signalled' = TRUE
  /\ UNCHANGED <<apiOnly, caller, server, clients, cancelled, dbOpen, exit>>

\* main(): the signal goroutine cancels the context.
Cancel ==
  /\ ~apiOnly
  /\ Alive /\ signalled /\ ~cancelled
  /\ cancelled' = TRUE
  /\ UNCHANGED <<apiOnly, caller, server, clients, signalled, dbOpen, exit>>

After == [backfill |-> {"history"}, history |-> {"reconcile", "live"}, reconcile |-> {"live"}]

\* main() goes from backfill to live sync; reconcile.Run takes no context.
WorkDone ==
  /\ ~apiOnly /\ Alive
  /\ caller \in DOMAIN After
  /\ caller' \in After[caller]
  /\ UNCHANGED <<apiOnly, server, clients, signalled, cancelled, dbOpen, exit>>

\* main() sees the cancelled context: the historical sync ends as an error and
\* os.Exit, everything else with the deferred calls.
WorkCancelled ==
  /\ ~apiOnly /\ Alive /\ cancelled
  /\ caller \in {"backfill", "history", "live"}
  /\ IF caller = "history" THEN exit' = 1 /\ UNCHANGED caller
                           ELSE caller' = "closing" /\ UNCHANGED exit
  /\ UNCHANGED <<apiOnly, server, clients, signalled, cancelled, dbOpen>>

\* runAPIOnly(): whichever of errCh and sigCh is ready.
SelectSignal ==
  /\ apiOnly /\ Alive
  /\ caller = "selecting" /\ signalled
  /\ cancelled' = TRUE
  /\ caller' = "waiting"
  /\ UNCHANGED <<apiOnly, server, clients, signalled, dbOpen, exit>>

\* Mutant: the error of Start is only logged.
SelectErrorLogged ==
  /\ apiOnly /\ Alive
  /\ caller = "selecting" /\ start = "failed"
  /\ caller' = "closing"
  /\ UNCHANGED <<apiOnly, server, clients, signalled, cancelled, dbOpen, exit>>

SelectError ==
  /\ apiOnly /\ Alive
  /\ caller = "selecting" /\ start = "failed"
  /\ exit' = 1
  /\ UNCHANGED <<apiOnly, caller, server, clients, signalled, cancelled, dbOpen>>

\* Mutant: runAPIOnly() does not wait for Start after the signal.
WaitForNothing ==
  /\ apiOnly /\ Alive
  /\ caller = "waiting"
  /\ caller' = "closing"
  /\ UNCHANGED <<apiOnly, server, clients, signalled, cancelled, dbOpen, exit>>

\* err := <-errCh
WaitForStart ==
  /\ apiOnly /\ Alive
  /\ caller = "waiting" /\ start \in {"returned", "failed"}
  /\ caller' = "closing"
  /\ UNCHANGED <<apiOnly, server, clients, signalled, cancelled, dbOpen, exit>>

\* The deferred cancel() and db.Close(), then the process ends.
CloseDb ==
  /\ Alive /\ caller = "closing" /\ dbOpen
  /\ dbOpen' = FALSE
  /\ cancelled' = TRUE
  /\ UNCHANGED <<apiOnly, caller, server, clients, signalled, exit>>

Exit ==
  /\ Alive /\ caller = "closing" /\ ~dbOpen
  /\ exit' = 0
  /\ UNCHANGED <<apiOnly, caller, server, clients, signalled, cancelled, dbOpen>>

StartStep == Listen \/ Served \/ StartReturns
DrainStep == Shutdown \/ DrainEnds \/ DrainTimesOut
CallerStep ==
  Cancel \/ WorkCancelled \/ SelectSignal \/ SelectError \/ WaitForStart \/ CloseDb \/ Exit

ServerNext ==
  \/ StartStep \/ DrainStep \/ CallerStep \/ WorkDone \/ Signal
  \/ \E r \in Requests : Accept(r) \/ HandlerQuery(r) \/ Answer(r)

ServerSpec == ServerInit /\ [][ServerNext]_serverVars

\* The goroutines run and time passes, but handlers and clients may hang. A
\* backfill or a sync need not end by itself; a reconciliation does (Reconcile).
ServerFairSpec ==
  /\ ServerSpec
  /\ WF_serverVars(StartStep) /\ WF_serverVars(DrainStep) /\ WF_serverVars(CallerStep)
  /\ WF_serverVars(caller = "reconcile" /\ WorkDone)

-----------------------------------------------------------------------------
(* Properties *)

\* Every variable has its type.
ServerTypeOK ==
  /\ caller \in Work \cup {"selecting", "waiting", "closing"}
  /\ start \in {"starting", "serving", "failed", "waiting", "returned"}
  /\ drain \in {"waiting", "draining", "done"}
  /\ connOf \in [Requests -> {"none", "open", "answered", "cut"}]
  /\ handler \in [Requests -> 0 .. NotStarted]
  /\ late \subseteq Requests
  /\ {apiOnly, forced, listening, signalled, cancelled, dbOpen} \subseteq BOOLEAN
  /\ exit \in {0, 1, Running}

\* runAPIOnly closes the database only after the port is closed and each accepted
\* request was answered, or cut because the five seconds were over: although
\* ListenAndServe returns as soon as Shutdown starts.
DrainedBeforeClose ==
  (apiOnly /\ ~dbOpen) =>
    /\ ~listening
    /\ \A r \in Requests : connOf[r] \in {"none", "answered", "cut"}
    /\ (\E r \in Requests : connOf[r] = "cut") => forced

\* runAPIOnly: a handler meets a closed database only after a forced close, that is
\* when Start has returned an error; never because the database was closed first.
LateOnlyIfForced == apiOnly /\ late # {} => forced

\* A shutdown without an error has answered every request it accepted.
CleanMeansAnswered ==
  (start = "returned" /\ ~forced) => \A r \in Requests : connOf[r] \in {"none", "answered"}

\* runAPIOnly ends with exit code 0 only after a signal: never because the port
\* could not be bound.
ExitCodeTellsFailure == apiOnly /\ exit = 0 => signalled

\* A shutdown in order: answer, close the port, drain or cut, close the database,
\* exit, whichever of signal, failure, drain and timeout comes first.
OrderlyShutdown ==
  DrainedBeforeClose /\ LateOnlyIfForced /\ CleanMeansAnswered /\ ExitCodeTellsFailure

\* After a signal the process ends, even when a handler never does, in
\* whichever part of its work main() is.
SignalEnds == signalled ~> ~Alive
================================================================================
