-------------------------------- MODULE Server --------------------------------
(***************************************************************************)
(* The process around the handlers: pkg/watcher/init.go waits for both     *)
(* watchers, main.go sets up the routes, listens and shuts down on a       *)
(* signal, pkg/admission/admission.go decodes a request, calls its handler *)
(* and answers, pkg/route/router.go recovers from panics.                  *)
(*                                                                         *)
(* A handler may take for ever: it calls the control plane without a       *)
(* timeout. The API server does not wait for ever, and takes whatever is   *)
(* not an answer for a denial (failurePolicy: Fail).                       *)
(***************************************************************************)
EXTENDS Naturals, FiniteSets

CONSTANTS
    Paths,          \* the admission functions that are registered, by path
    Requests,       \* bound: the requests that the API server sends
    MaxSignals      \* bound: the signals the process gets

ASSUME MaxSignalsAssumption == MaxSignals \in Nat

Watchers == {"configmap", "agentversion"}

VARIABLES
    main,       \* where main is: "init", "setup", "notify", "spawn", "listen",
                \* "serve", "returned", or how the process ended: "fatal", "exited"
    wg,         \* the wait group of watcher.init
    watcher,    \* what came of each watcher: "starting", "ok", "failed"
    routes,     \* the paths that have a route
    notified,   \* signal.Notify has been called
    receiver,   \* the goroutine that ranges over sigs: "none", "receiving",
                \* "shutdown", "draining"
    inShutdown, \* srv.Shutdown has been called
    signals,    \* number of signals sent
    call,       \* request -> where it is: "none", "read", "handle", "respond",
                \* "answered", "lost"
    request,    \* request -> its path and its body
    result,     \* request -> what its function returned
    outcome     \* request -> what the API server makes of it

process == <<main, wg, watcher, routes>>
shutdown == <<notified, receiver, inShutdown, signals>>
traffic == <<call, request, result, outcome>>
vars == <<process, shutdown, traffic>>

Bodies == {"empty", "garbage", "no request", "review"}
Results == {"allow", "deny", "error", "nil", "panic"}

Init ==
    /\ main = "init" /\ wg = Cardinality(Watchers)
    /\ watcher = [w \in Watchers |-> "starting"]
    /\ routes = {}
    /\ notified = FALSE /\ receiver = "none" /\ inShutdown = FALSE /\ signals = 0
    /\ call = [r \in Requests |-> "none"]
    /\ request \in [Requests -> [path : Paths, body : Bodies]]
    /\ result = [r \in Requests |-> "none"]
    /\ outcome = [r \in Requests |-> "none"]

Ended == main \in {"fatal", "exited"}

-----------------------------------------------------------------------------
(* watcher.init *)

\* Mutant: a watcher that fails returns before wg.Done.
WatcherNotDone(w) ==
    /\ main = "init" /\ watcher[w] = "starting"
    /\ \E end \in {"ok", "failed"} :
          /\ watcher' = [watcher EXCEPT ![w] = end]
          /\ wg' = IF end = "ok" THEN wg - 1 ELSE wg
    /\ UNCHANGED <<main, routes, shutdown, traffic>>

\* Mutant: a watcher that fails calls wg.Done twice.
WatcherDoneTwice(w) ==
    /\ main = "init" /\ watcher[w] = "starting"
    /\ \E end \in {"ok", "failed"} :
          /\ watcher' = [watcher EXCEPT ![w] = end]
          /\ wg' = IF end = "ok" THEN wg - 1 ELSE wg - 2
    /\ UNCHANGED <<main, routes, shutdown, traffic>>

\* Start and the initial caching succeed or fail; an error is kept in fatalErr.
Watcher(w) ==
    /\ main = "init" /\ watcher[w] = "starting"
    /\ \E end \in {"ok", "failed"} : watcher' = [watcher EXCEPT ![w] = end]
    /\ wg' = wg - 1
    /\ UNCHANGED <<main, routes, shutdown, traffic>>

\* Mutant: only one of the watchers is waited for.
WaitForOne ==
    /\ main = "init" /\ wg <= 1
    /\ main' = IF \E w \in Watchers : watcher[w] = "failed" THEN "fatal" ELSE "setup"
    /\ UNCHANGED <<wg, watcher, routes, shutdown, traffic>>

\* wg.Wait returns; log.Fatal ends the process if there was an error.
Wait ==
    /\ main = "init" /\ wg = 0
    /\ main' = IF \E w \in Watchers : watcher[w] = "failed" THEN "fatal" ELSE "setup"
    /\ UNCHANGED <<wg, watcher, routes, shutdown, traffic>>

(* main *)

\* admission.Setup registers the functions in any order; route.Setup follows.
Setup(p) ==
    /\ main = "setup" /\ p \notin routes
    /\ routes' = routes \cup {p}
    /\ UNCHANGED <<main, wg, watcher, shutdown, traffic>>

SetupDone ==
    /\ main = "setup" /\ routes = Paths
    /\ main' = "notify"
    /\ UNCHANGED <<wg, watcher, routes, shutdown, traffic>>

Notify ==
    /\ main = "notify"
    /\ notified' = TRUE
    /\ main' = "spawn"
    /\ UNCHANGED <<wg, watcher, routes, receiver, inShutdown, signals, traffic>>

\* go func(): the goroutine reaches its first receive some time later.
Spawn ==
    /\ main = "spawn"
    /\ main' = "listen"
    /\ UNCHANGED <<wg, watcher, routes, shutdown, traffic>>

Receive ==
    /\ main \in {"listen", "serve", "returned"} /\ receiver = "none"
    /\ receiver' = "receiving"
    /\ UNCHANGED <<process, notified, inShutdown, signals, traffic>>

\* ListenAndServe returns at once when Shutdown has begun before, or when the
\* address or the certificate cannot be used.
Listen ==
    /\ main = "listen"
    /\ main' \in IF inShutdown THEN {"returned"} ELSE {"serve", "returned"}
    /\ UNCHANGED <<wg, watcher, routes, shutdown, traffic>>

Listening == main = "serve" /\ ~inShutdown

\* Mutant: main waits until Shutdown has returned.
ServeReturnsDrained ==
    /\ main = "serve" /\ inShutdown /\ receiver # "draining"
    /\ main' = "returned"
    /\ UNCHANGED <<wg, watcher, routes, shutdown, traffic>>

\* ListenAndServe returns when Shutdown begins.
ServeReturns ==
    /\ main = "serve" /\ inShutdown
    /\ main' = "returned"
    /\ UNCHANGED <<wg, watcher, routes, shutdown, traffic>>

\* The process ends, and the connections of the requests in it are closed.
End(how) ==
    /\ main' = how
    /\ call' = [r \in Requests |->
                  IF call[r] \in {"read", "handle", "respond"} THEN "lost" ELSE call[r]]
    /\ outcome' = [r \in Requests |->
                     IF call'[r] = "lost" /\ outcome[r] = "pending" THEN "denied" ELSE outcome[r]]
    /\ UNCHANGED <<wg, watcher, routes, notified, receiver, inShutdown,
                   request, result>>

MainReturns ==
    /\ main = "returned"
    /\ End("exited") /\ UNCHANGED signals

\* Killed, or ended by the runtime over two goroutines in one map.
Die ==
    /\ ~Ended
    /\ End("exited") /\ UNCHANGED signals

-----------------------------------------------------------------------------
(* Signals. sigs has no buffer: a signal finds the goroutine receiving, or is
   lost; before signal.Notify it ends the process. *)

Signal ==
    /\ ~Ended /\ signals < MaxSignals
    /\ signals' = signals + 1
    /\ IF ~notified THEN End("exited")
       ELSE /\ receiver' = IF receiver = "receiving" THEN "shutdown" ELSE receiver
            /\ UNCHANGED <<process, notified, inShutdown, traffic>>

\* shutdownOnce.Do(srv.Shutdown)
Shutdown ==
    /\ ~Ended /\ receiver = "shutdown"
    /\ receiver' = IF inShutdown THEN "receiving" ELSE "draining"
    /\ inShutdown' = TRUE
    /\ UNCHANGED <<process, notified, signals, traffic>>

\* Shutdown returns when no connection is active any more.
Drained ==
    /\ ~Ended /\ receiver = "draining"
    /\ \A r \in Requests : call[r] \notin {"read", "handle", "respond"}
    /\ receiver' = "receiving"
    /\ UNCHANGED <<process, notified, inShutdown, signals, traffic>>

-----------------------------------------------------------------------------
(* Requests. *)

\* The API server connects, or cannot.
Send(r) ==
    /\ outcome[r] = "none"
    /\ outcome' = [outcome EXCEPT ![r] = IF Listening THEN "pending" ELSE "denied"]
    /\ call' = [call EXCEPT ![r] = IF Listening THEN "read" ELSE "lost"]
    /\ UNCHANGED <<process, shutdown, request, result>>

\* It gives up after timeoutSeconds; nobody tells the handler.
Timeout(r) ==
    /\ outcome[r] = "pending"
    /\ outcome' = [outcome EXCEPT ![r] = "denied"]
    /\ UNCHANGED <<process, shutdown, call, request, result>>

\* The body is read and decoded; ResponseErr answers what is not a review.
Read(r) ==
    /\ ~Ended /\ call[r] = "read"
    /\ call' = [call EXCEPT ![r] =
                  IF request[r].body = "review" THEN "handle" ELSE "respond"]
    /\ result' = [result EXCEPT ![r] =
                    IF request[r].body = "review" THEN "none" ELSE "error"]
    /\ UNCHANGED <<process, shutdown, request, outcome>>

\* copyAf.Func(reqReview.Request)
Handle(r) ==
    /\ ~Ended /\ call[r] = "handle"
    /\ request[r].path \in routes
    /\ \E end \in Results : result' = [result EXCEPT ![r] = end]
    /\ call' = [call EXCEPT ![r] = "respond"]
    /\ UNCHANGED <<process, shutdown, request, outcome>>

\* Mutant: a handler that returns no response is answered with an empty one.
StatusNilAllowed(end) == IF end \in {"allow", "nil"} THEN "allowed" ELSE "denied"

\* 200 with the handler's response; ResponseErr with Allowed: false for an error
\* (403) and for no response (500); loggingMiddleware writes 500 after a panic.
Status(end) == IF end = "allow" THEN "allowed" ELSE "denied"

Respond(r) ==
    /\ ~Ended /\ call[r] = "respond"
    /\ call' = [call EXCEPT ![r] = "answered"]
    /\ outcome' = [outcome EXCEPT ![r] = IF @ = "pending" THEN Status(result[r]) ELSE @]
    /\ UNCHANGED <<process, shutdown, request, result>>

-----------------------------------------------------------------------------
watcherInit == (\E w \in Watchers : Watcher(w)) \/ Wait

Run ==
    \/ \E p \in Paths : Setup(p)
    \/ SetupDone \/ Notify \/ Spawn \/ Listen \/ ServeReturns \/ MainReturns

shutdownLoop == Receive \/ Shutdown \/ Drained

Next ==
    \/ watcherInit \/ Run \/ shutdownLoop
    \/ Signal \/ Die
    \/ \E r \in Requests : Send(r) \/ Timeout(r) \/ Read(r) \/ Handle(r) \/ Respond(r)

\* The Go scheduler lets main and the receiving goroutine go on. Nothing is
\* assumed of the watchers, which wait for the API server, of handlers, which
\* wait for the control plane, and of requests and signals.
Fairness == WF_vars(Wait) /\ WF_vars(Run) /\ WF_vars(shutdownLoop)

Spec == Init /\ [][Next]_vars
FairSpec == Spec /\ Fairness

-----------------------------------------------------------------------------
(* Properties *)

Active == {"read", "handle", "respond"}

TypeOK ==
    /\ main \in {"init", "setup", "notify", "spawn", "listen", "serve",
                 "returned", "fatal", "exited"}
    /\ wg \in 0..Cardinality(Watchers)
    /\ watcher \in [Watchers -> {"starting", "ok", "failed"}]
    /\ routes \in SUBSET Paths
    /\ notified \in BOOLEAN /\ inShutdown \in BOOLEAN /\ signals \in 0..MaxSignals
    /\ receiver \in {"none", "receiving", "shutdown", "draining"}
    /\ call \in [Requests -> Active \cup {"none", "answered", "lost"}]
    /\ request \in [Requests -> [path : Paths, body : Bodies]]
    /\ result \in [Requests -> Results \cup {"none"}]
    /\ outcome \in [Requests -> {"none", "pending", "allowed", "denied"}]

\* No request gets in before both watchers have read the configuration, whatever
\* the order in which the two goroutines, main and the requests go on; nor before
\* its path has a route.
ServedOnlyWhenReady ==
    \A r \in Requests : call[r] \in Active \cup {"answered"} =>
        /\ \A w \in Watchers : watcher[w] = "ok"
        /\ request[r].path \in routes

\* The server does what an API server relies on: each call has one outcome, which
\* is "allowed" only if the handler decided so, through errors, panics, empty
\* responses, timeouts, shutdown and the end of the process.
decision == [r \in Requests |->
    IF result[r] = "none" THEN "none" ELSE IF result[r] = "allow" THEN "allow" ELSE "deny"]

Abstract == INSTANCE AdmissionCall WITH Calls <- Requests
AnswersOnce == Abstract!Spec

\* When both watchers have come back, with or without an error, main goes on to
\* listen or the process ends.
StartEnds ==
    (\A w \in Watchers : watcher[w] # "starting")
        ~> (Ended \/ main \in {"serve", "returned"})

\* A signal that was received ends the process, even when a handler hangs.
ReceivedSignalEnds == receiver = "shutdown" ~> Ended

(* A statement of the code that does not hold. *)

\* main.go:72 logs "Receiving the termination signal, graceful shutdown...". main
\* does not wait for Shutdown to return, and ends the process with the requests
\* that Shutdown is waiting for.
GracefulShutdown == [][MainReturns => \A r \in Requests : call[r] \notin Active]_vars
=============================================================================
