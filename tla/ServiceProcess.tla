---------------------------- MODULE ServiceProcess ----------------------------
(***************************************************************************)
(* The life of one process of the service (main.go): main starts the       *)
(* outbox relay and the HTTP server as goroutines of one errgroup, then    *)
(* waits for a signal or for the group to be cancelled, and shuts down.    *)
(*                                                                         *)
(* The package variable httpServer is written by the server's goroutine    *)
(* and read by main without synchronisation: until the goroutine serves,   *)
(* main may still read nil.                                                *)
(*                                                                         *)
(* Not modelled: configuration, the clients that main only constructs      *)
(* (Pub/Sub, Service Bus), and the TLS variant of ListenAndServe.          *)
(***************************************************************************)
EXTENDS Integers

CONSTANTS
    MaxRequests   \* bound on the requests in flight

ASSUME ProcessAssumption == MaxRequests \in Nat \ {0}

VARIABLES
    main,       \* the next step of the main goroutine
    relay,      \* the relay's goroutine
    server,     \* the HTTP server's goroutine
    cancelled,  \* the errgroup's context is cancelled
    closing,    \* httpServer.Shutdown has been called
    signalled,  \* os.Interrupt or SIGTERM is in the channel
    inFlight,   \* requests being handled
    timedOut,   \* Shutdown gave up waiting for them
    exit        \* the exit status, Running before

goroutines == <<relay, server, cancelled>>
vars == <<main, relay, server, cancelled, closing, signalled, inFlight,
          timedOut, exit>>

Running == -1

Init ==
    /\ main = "startup"
    /\ relay = "none"
    /\ server = "none"
    /\ cancelled = FALSE
    /\ closing = FALSE
    /\ signalled = FALSE
    /\ inFlight = 0
    /\ timedOut = FALSE
    /\ exit = Running

(* panic, os.Exit and log.Fatal name a status; a return from main is 0.    *)
Exit(status) == exit' = status
Return == exit' = 0

-------------------------------------------------------------------------------
(* Tracing cannot be set up (panic), the database or its seed fails        *)
(* (log.Fatal), or Redis does not answer (return).                         *)
StartupFails ==
    /\ main = "startup"
    /\ Exit(2) \/ Exit(1) \/ Return
    /\ UNCHANGED <<main, goroutines, closing, signalled, inFlight, timedOut>>

(* startOutboxStrategy: no relay for cdc, and none for a strategy or a     *)
(* setting that is not supported, for its error is only logged.            *)
StartOutboxStrategy ==
    /\ main = "startup"
    /\ main' = "startServer"
    /\ relay' \in {"none", "polling"}
    /\ UNCHANGED <<server, cancelled, closing, signalled, inFlight, timedOut,
                   exit>>

StartServer ==
    /\ main = "startServer"
    /\ main' = "select"
    /\ server' = "spawned"
    /\ UNCHANGED <<relay, cancelled, closing, signalled, inFlight, timedOut,
                   exit>>

(* Variant: the channel of signals is not read.                            *)
SelectCancelled ==
    /\ main = "select"
    /\ cancelled
    /\ main' = "shutdown"
    /\ Exit(exit)
    /\ UNCHANGED <<goroutines, closing, signalled, inFlight, timedOut>>

(* The first of a signal, which exits at once, and cancellation.           *)
Select ==
    /\ main = "select"
    /\ \/ signalled /\ Exit(1) /\ UNCHANGED main
       \/ cancelled /\ Exit(exit) /\ main' = "shutdown"
    /\ UNCHANGED <<goroutines, closing, signalled, inFlight, timedOut>>

(* Variant: Close in place of Shutdown, which does not wait for requests.  *)
CloseServer ==
    /\ main = "shutdown"
    /\ server \notin {"none", "spawned"}
    /\ closing' = TRUE
    /\ main' = "wait"
    /\ UNCHANGED <<goroutines, signalled, inFlight, timedOut, exit>>

(* httpServer.Shutdown, if main reads a server in httpServer.              *)
Shutdown ==
    /\ main = "shutdown"
    /\ \/ server \notin {"none", "spawned"} /\ closing' = TRUE /\ main' = "drain"
       \/ server \in {"spawned", "registered"} /\ main' = "wait" /\ UNCHANGED closing
    /\ UNCHANGED <<goroutines, signalled, inFlight, timedOut, exit>>

(* Shutdown returns when no request is left, or after 5 seconds.           *)
Drain ==
    /\ main = "drain"
    /\ timedOut' = (inFlight > 0)
    /\ main' = "wait"
    /\ UNCHANGED <<goroutines, closing, signalled, inFlight, exit>>

(* What g.Wait returns: whether a goroutine has returned an error.         *)
Failed == relay = "failed" \/ server \in {"failed", "broken"}

GroupDone == relay # "polling" /\ server \in {"closed", "failed", "broken"}

(* Variant: the error of g.Wait is not looked at.                          *)
GroupWaitIgnoringError ==
    /\ main = "wait"
    /\ GroupDone
    /\ Return
    /\ UNCHANGED <<main, goroutines, closing, signalled, inFlight, timedOut>>

(* g.Wait, for both goroutines; its error ends the process with status 2.  *)
GroupWait ==
    /\ main = "wait"
    /\ GroupDone
    /\ IF Failed THEN Exit(2) ELSE Return
    /\ UNCHANGED <<main, goroutines, closing, signalled, inFlight, timedOut>>

-------------------------------------------------------------------------------
(* Variant: the relay's error is logged and not returned to the group.     *)
RelayFailsUnnoticed ==
    /\ relay = "polling"
    /\ relay' = "failed"
    /\ UNCHANGED <<main, server, cancelled, closing, signalled, inFlight,
                   timedOut, exit>>

(* OutboxRelay.Start returns an error.                                     *)
RelayFails ==
    /\ relay = "polling"
    /\ relay' = "failed"
    /\ cancelled' = TRUE
    /\ UNCHANGED <<main, server, closing, signalled, inFlight, timedOut,
                   exit>>

(* OutboxRelay.Start returns nil: its context is cancelled, or one of its  *)
(* calls has missed a deadline.                                            *)
RelayEnds ==
    /\ relay = "polling"
    /\ relay' = "done"
    /\ UNCHANGED <<main, server, cancelled, closing, signalled, inFlight,
                   timedOut, exit>>

(* The server's goroutine assigns httpServer and calls ListenAndServe.     *)
Register ==
    /\ server = "spawned"
    /\ server' = "registered"
    /\ UNCHANGED <<main, relay, cancelled, closing, signalled, inFlight,
                   timedOut, exit>>

(* ListenAndServe of a server that is not shut down serves, and returns    *)
(* ErrServerClosed once it is.                                             *)
Listen ==
    /\ server \in {"registered", "serving"}
    /\ server' = IF closing THEN "closed" ELSE "serving"
    /\ UNCHANGED <<main, relay, cancelled, closing, signalled, inFlight,
                   timedOut, exit>>

(* ListenAndServe returns another error: the port is taken, or accepting   *)
(* fails ("broken": its open connections are still served).                *)
ServerFails ==
    /\ server \in {"registered", "serving"}
    /\ ~closing
    /\ server' = IF server = "serving" THEN "broken" ELSE "failed"
    /\ cancelled' = TRUE
    /\ UNCHANGED <<main, relay, closing, signalled, inFlight, timedOut,
                   exit>>

Signal ==
    /\ ~signalled
    /\ signalled' = TRUE
    /\ UNCHANGED <<main, goroutines, closing, inFlight, timedOut, exit>>

RequestArrives ==
    /\ server \in {"serving", "broken"}
    /\ ~closing
    /\ inFlight < MaxRequests
    /\ inFlight' = inFlight + 1
    /\ UNCHANGED <<main, goroutines, closing, signalled, timedOut, exit>>

RequestReturns ==
    /\ inFlight > 0
    /\ inFlight' = inFlight - 1
    /\ UNCHANGED <<main, goroutines, closing, signalled, timedOut, exit>>

-------------------------------------------------------------------------------
MainStep ==
    \/ StartupFails
    \/ StartOutboxStrategy
    \/ StartServer
    \/ Select
    \/ Shutdown
    \/ Drain
    \/ GroupWait

ServerStep == Register \/ Listen

Next ==
    /\ exit = Running
    /\ \/ MainStep
       \/ ServerStep
       \/ RelayFails
       \/ RelayEnds
       \/ ServerFails
       \/ Signal
       \/ RequestArrives
       \/ RequestReturns

Spec == Init /\ [][Next]_vars

-------------------------------------------------------------------------------
(* Type correctness.                                                       *)
TypeOK ==
    /\ main \in {"startup", "startServer", "select", "shutdown", "drain", "wait"}
    /\ relay \in {"none", "polling", "failed", "done"}
    /\ server \in {"none", "spawned", "registered", "serving", "closed",
                   "failed", "broken"}
    /\ cancelled \in BOOLEAN
    /\ closing \in BOOLEAN
    /\ signalled \in BOOLEAN
    /\ timedOut \in BOOLEAN
    /\ inFlight \in 0..MaxRequests
    /\ exit \in {Running, 0, 1, 2}

(* main has gone through its shutdown without telling the server.          *)
ServerMissed == main = "wait" /\ ~closing

(* A failing relay or server cuts no request short: unless main has missed *)
(* the server, it ends the process by itself only when no request is in    *)
(* flight, or when those that are have had their 5 seconds                 *)
(* (main.go:378-388).                                                      *)
RequestsDrained ==
    exit # Running /\ main = "wait" /\ inFlight > 0 => timedOut \/ ServerMissed

(* After a failure of relay or server that main has seen through g.Wait    *)
(* the process ends with status 2 (main.go:388), and with 1 if a signal    *)
(* came first (main.go:372), whatever else goes on: never with 0, after    *)
(* which Restart=on-failure (deploy/systemd) would leave it down.          *)
FailureIsReported ==
    Failed /\ exit # Running => exit = IF main = "wait" THEN 2 ELSE 1

(* A relay or server that fails takes the process with it, so that it can  *)
(* be started again as a whole, unless main has missed the server.         *)
FailureEndsProcess == Failed ~> exit # Running \/ ServerMissed

(* A signal ends the process, whatever it is in the middle of, unless main *)
(* has missed the server: it reads no signals any more.                    *)
SignalEndsProcess == signalled ~> exit # Running \/ ServerMissed

(* "Keep reference for graceful shutdown" (main.go:345): a main that has   *)
(* gone through its shutdown has told the server.                          *)
ShutdownReachesServer == ~ServerMissed
===============================================================================
