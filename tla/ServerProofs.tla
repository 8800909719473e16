----------------------------- MODULE ServerProofs -----------------------------
(***************************************************************************)
(* Proofs about Server, for any registered paths and any requests: nothing *)
(* is served before the process is ready, and the server is what an API    *)
(* server relies on.                                                       *)
(***************************************************************************)
EXTENDS Server, FiniteSetTheorems, TLAPS

-----------------------------------------------------------------------------
(* The inductive invariant. *)

\* What ServedOnlyWhenReady and AnswersOnce rest on: the wait group counts the
\* watchers that have not come back; main gets past it with both, and to the server
\* with every route; a call has an outcome under way as soon as it is made, and no
\* result before its function has returned.
WaitGroupCounts == wg = Cardinality({w \in Watchers : watcher[w] = "starting"})

StartOrder ==
    /\ main \notin {"init", "fatal", "exited"} => \A w \in Watchers : watcher[w] = "ok"
    /\ main \in {"notify", "spawn", "listen", "serve", "returned"} => routes = Paths

CallProgress ==
    \A r \in Requests :
        /\ outcome[r] = "none" => call[r] = "none"
        /\ call[r] \in {"none", "read", "handle"} => result[r] = "none"

IInv == TypeOK /\ WaitGroupCounts /\ StartOrder /\ CallProgress /\ ServedOnlyWhenReady

-----------------------------------------------------------------------------
(* Lemmas. *)

Starting == {w \in Watchers : watcher[w] = "starting"}

LEMMA FiniteWatchers == IsFiniteSet(Watchers)
<1>1. IsFiniteSet({"configmap"})
  BY FS_Singleton
<1>2. IsFiniteSet({"configmap"} \cup {"agentversion"})
  BY <1>1, FS_AddElement
<1>3. Watchers = {"configmap"} \cup {"agentversion"}
  BY DEF Watchers
<1> QED
  BY <1>2, <1>3

LEMMA FiniteStarting ==
    /\ IsFiniteSet(Starting)
    /\ Cardinality(Starting) \in Nat
    /\ Cardinality(Starting) <= Cardinality(Watchers)
    /\ Cardinality(Starting) = 0 <=> Starting = {}
<1>1. Starting \subseteq Watchers
  BY DEF Starting
<1>2. IsFiniteSet(Starting) /\ Cardinality(Starting) <= Cardinality(Watchers)
  BY <1>1, FiniteWatchers, FS_Subset
<1> QED
  BY <1>2, FS_CardinalityType, FS_EmptySet

\* A watcher that comes back counts down once: the wait group stays in step.
LEMMA WatcherCounts ==
    ASSUME TypeOK, WaitGroupCounts, NEW w \in Watchers, Watcher(w)
    PROVE  /\ wg' \in 0..Cardinality(Watchers)
           /\ WaitGroupCounts'
<1>1. Starting' = Starting \ {w}
  BY DEF Watcher, TypeOK, Starting
<1>2. w \in Starting
  BY DEF Watcher, Starting
<1>3. Cardinality(Starting') = Cardinality(Starting) - 1
  BY <1>1, <1>2, FiniteStarting, FS_RemoveElement
<1>4. wg = Cardinality(Starting) /\ wg' = wg - 1
  BY DEF WaitGroupCounts, Watcher, Starting
<1>5. Cardinality(Starting) # 0
  BY <1>2, FiniteStarting
<1>6. Cardinality(Watchers) \in Nat
  BY FiniteWatchers, FS_CardinalityType
<1>7. wg' = Cardinality(Starting')
  BY <1>3, <1>4
<1>8. wg' \in 0..Cardinality(Watchers)
  BY <1>4, <1>5, <1>6, FiniteStarting
<1> QED
  BY <1>7, <1>8 DEF WaitGroupCounts, Starting

-----------------------------------------------------------------------------
(* The end of the process. *)

\* The requests that are cut off, and have no outcome yet, are denied together.
LEMMA EndStep ==
    ASSUME IInv, NEW how \in {"exited"}, End(how)
    PROVE  /\ call' \in [Requests -> Active \cup {"none", "answered", "lost"}]
           /\ outcome' \in [Requests -> {"none", "pending", "allowed", "denied"}]
           /\ CallProgress'
           /\ ServedOnlyWhenReady'
<1> USE DEF IInv, TypeOK, Active
<1>1. call' \in [Requests -> Active \cup {"none", "answered", "lost"}]
  BY DEF End
<1>2. outcome' \in [Requests -> {"none", "pending", "allowed", "denied"}]
  BY DEF End
<1>3. \A r \in Requests : /\ call'[r] = IF call[r] \in Active THEN "lost" ELSE call[r]
                          /\ outcome'[r] = "none" => outcome[r] = "none"
  BY DEF End
<1>4. UNCHANGED <<result, watcher, request, routes>>
  BY DEF End
<1>5. CallProgress'
  BY <1>3, <1>4 DEF CallProgress
<1>6. ServedOnlyWhenReady'
  BY <1>3, <1>4 DEF ServedOnlyWhenReady
<1> QED
  BY <1>1, <1>2, <1>5, <1>6

-----------------------------------------------------------------------------
(* The invariant. *)

LEMMA InitInv == Init => IInv
<1> SUFFICES ASSUME Init PROVE IInv
  OBVIOUS
<1>1. Starting = Watchers
  BY DEF Init, Starting
<1>2. WaitGroupCounts
  BY <1>1 DEF Init, WaitGroupCounts, Starting
<1>3. Cardinality(Watchers) \in Nat
  BY FiniteWatchers, FS_CardinalityType
<1>4. TypeOK
  <2>1. wg \in 0..Cardinality(Watchers) /\ signals \in 0..MaxSignals
    BY <1>3, MaxSignalsAssumption DEF Init
  <2>2. notified \in BOOLEAN /\ inShutdown \in BOOLEAN
    BY DEF Init
  <2>3. /\ watcher \in [Watchers -> {"starting", "ok", "failed"}]
        /\ call \in [Requests -> Active \cup {"none", "answered", "lost"}]
        /\ result \in [Requests -> Results \cup {"none"}]
        /\ outcome \in [Requests -> {"none", "pending", "allowed", "denied"}]
    BY DEF Init
  <2>4. main = "init" /\ routes = {} /\ receiver = "none"
        /\ request \in [Requests -> [path : Paths, body : Bodies]]
    BY DEF Init
  <2> QED
    BY <2>1, <2>2, <2>3, <2>4 DEF TypeOK
<1>5. StartOrder /\ CallProgress
  BY DEF Init, StartOrder, CallProgress
<1>6. ServedOnlyWhenReady
  BY DEF Init, ServedOnlyWhenReady, Active
<1> QED
  BY <1>2, <1>4, <1>5, <1>6 DEF IInv

LEMMA CountKept ==
    ASSUME WaitGroupCounts, UNCHANGED <<wg, watcher>>
    PROVE  WaitGroupCounts'
BY DEF WaitGroupCounts

\* watcher.init and main, up to its end: the requests stay as they are.
LEMMA StartInv ==
    ASSUME IInv,
           \/ \E w \in Watchers : Watcher(w)
           \/ Wait
           \/ \E p \in Paths : Setup(p)
           \/ SetupDone \/ Notify \/ Spawn \/ Listen \/ ServeReturns
    PROVE  IInv'
<1> USE DEF IInv, traffic, shutdown
<1>1. ASSUME NEW w \in Watchers, Watcher(w) PROVE IInv'
  <2>1. wg' \in 0..Cardinality(Watchers) /\ WaitGroupCounts'
    BY <1>1, WatcherCounts
  <2>2. main = "init" /\ UNCHANGED <<main, routes, shutdown, traffic>>
    BY <1>1 DEF Watcher
  <2>3. watcher' \in [Watchers -> {"starting", "ok", "failed"}]
    BY <1>1 DEF Watcher, TypeOK
  <2>4. \A v \in Watchers : watcher[v] # "starting" => watcher'[v] = watcher[v]
    BY <1>1 DEF Watcher, TypeOK
  <2>5. TypeOK' /\ StartOrder' /\ CallProgress'
    BY <2>1, <2>2, <2>3 DEF TypeOK, StartOrder, CallProgress
  <2>6. ServedOnlyWhenReady'
    BY <2>2, <2>4 DEF ServedOnlyWhenReady
  <2> QED
    BY <2>1, <2>5, <2>6
<1>2. CASE Wait
  <2>1. Starting = {}
    BY <1>2, FiniteStarting DEF Wait, WaitGroupCounts, Starting
  <2>2. \A w \in Watchers : watcher[w] \in {"ok", "failed"}
    BY <2>1 DEF Starting, TypeOK
  <2>3. TypeOK' /\ StartOrder'
    BY <1>2, <2>2 DEF Wait, TypeOK, StartOrder
  <2>4. WaitGroupCounts' /\ CallProgress' /\ ServedOnlyWhenReady'
    BY <1>2, CountKept DEF Wait, CallProgress, ServedOnlyWhenReady
  <2> QED
    BY <2>3, <2>4
<1>3. ASSUME NEW p \in Paths, Setup(p) PROVE IInv'
  <2>1. TypeOK' /\ StartOrder' /\ WaitGroupCounts'
    BY <1>3, CountKept DEF Setup, TypeOK, StartOrder
  <2>2. CallProgress' /\ ServedOnlyWhenReady'
    BY <1>3 DEF Setup, CallProgress, ServedOnlyWhenReady
  <2> QED
    BY <2>1, <2>2
<1>4. CASE SetupDone \/ Notify \/ Spawn \/ Listen \/ ServeReturns
  <2>1. UNCHANGED <<wg, watcher, routes, call, request, result, outcome>>
    BY <1>4 DEF SetupDone, Notify, Spawn, Listen, ServeReturns
  <2>2. TypeOK'
    BY <1>4 DEF SetupDone, Notify, Spawn, Listen, ServeReturns, TypeOK
  <2>3. StartOrder'
    BY <1>4 DEF SetupDone, Notify, Spawn, Listen, ServeReturns, StartOrder
  <2>4. WaitGroupCounts' /\ CallProgress' /\ ServedOnlyWhenReady'
    BY <2>1, CountKept DEF CallProgress, ServedOnlyWhenReady
  <2> QED
    BY <2>2, <2>3, <2>4
<1> QED
  BY <1>1, <1>2, <1>3, <1>4

\* The end of the process, whatever causes it.
LEMMA EndInv ==
    ASSUME IInv, End("exited"), signals' \in 0..MaxSignals
    PROVE  IInv'
<1>1. /\ call' \in [Requests -> Active \cup {"none", "answered", "lost"}]
      /\ outcome' \in [Requests -> {"none", "pending", "allowed", "denied"}]
      /\ CallProgress' /\ ServedOnlyWhenReady'
  BY EndStep
<1>2. TypeOK' /\ StartOrder'
  BY <1>1 DEF IInv, End, TypeOK, StartOrder
<1>3. WaitGroupCounts'
  BY CountKept DEF IInv, End
<1> QED
  BY <1>1, <1>2, <1>3 DEF IInv

\* Signals and what the goroutine makes of them.
LEMMA SignalInv ==
    ASSUME IInv, Signal \/ Receive \/ Shutdown \/ Drained
    PROVE  IInv'
<1>1. CASE Signal /\ ~notified
  <2>1. End("exited") /\ signals' = signals + 1 /\ signals < MaxSignals
    BY <1>1 DEF Signal
  <2>2. signals' \in 0..MaxSignals
    BY <2>1, MaxSignalsAssumption DEF IInv, TypeOK
  <2> QED
    BY <2>1, <2>2, EndInv
<1>2. CASE (Signal /\ notified) \/ Receive \/ Shutdown \/ Drained
  <2>1. UNCHANGED <<main, wg, watcher, routes, call, request, result, outcome>>
    BY <1>2 DEF Signal, Receive, Shutdown, Drained, process, traffic
  <2>2. signals' \in 0..MaxSignals
    BY <1>2, MaxSignalsAssumption DEF Signal, Receive, Shutdown, Drained, IInv, TypeOK
  <2>3. receiver' \in {"none", "receiving", "shutdown", "draining"}
        /\ notified' \in BOOLEAN /\ inShutdown' \in BOOLEAN
    BY <1>2 DEF Signal, Receive, Shutdown, Drained, IInv, TypeOK
  <2>4. TypeOK' /\ StartOrder'
    BY <2>1, <2>2, <2>3 DEF IInv, TypeOK, StartOrder
  <2>5. WaitGroupCounts' /\ CallProgress' /\ ServedOnlyWhenReady'
    BY <2>1, CountKept DEF IInv, CallProgress, ServedOnlyWhenReady
  <2> QED
    BY <2>4, <2>5 DEF IInv
<1> QED
  BY <1>1, <1>2

\* A request: a connection is only accepted by a process that is ready.
LEMMA RequestInv ==
    ASSUME IInv, NEW r \in Requests,
           Send(r) \/ Timeout(r) \/ Read(r) \/ Handle(r) \/ Respond(r)
    PROVE  IInv'
<1> USE DEF IInv
<1>1. UNCHANGED <<process, shutdown, request>>
  BY DEF Send, Timeout, Read, Handle, Respond
<1>2. WaitGroupCounts' /\ StartOrder'
  BY <1>1, CountKept DEF process, StartOrder
<1>3. TypeOK'
  <2>1. call' \in [Requests -> Active \cup {"none", "answered", "lost"}]
    BY DEF Send, Timeout, Read, Handle, Respond, TypeOK, Active
  <2>2. result' \in [Requests -> Results \cup {"none"}]
    BY DEF Send, Timeout, Read, Handle, Respond, TypeOK, Results
  <2>3. outcome' \in [Requests -> {"none", "pending", "allowed", "denied"}]
    BY DEF Send, Timeout, Read, Handle, Respond, TypeOK, Status
  <2> QED
    BY <1>1, <2>1, <2>2, <2>3 DEF TypeOK, process, shutdown
<1>4. \A q \in Requests \ {r} : UNCHANGED <<call[q], result[q], outcome[q]>>
  BY DEF Send, Timeout, Read, Handle, Respond, TypeOK
<1>5. /\ outcome'[r] = "none" => call'[r] = "none"
      /\ call'[r] \in {"none", "read", "handle"} => result'[r] = "none"
  BY DEF Send, Timeout, Read, Handle, Respond, TypeOK, CallProgress, Status
<1>6. CallProgress'
  BY <1>4, <1>5 DEF CallProgress
<1>7. call'[r] \in Active \cup {"answered"} =>
          Listening \/ call[r] \in Active \cup {"answered"}
  BY DEF Send, Timeout, Read, Handle, Respond, TypeOK, Active
<1>8. Listening => (\A w \in Watchers : watcher[w] = "ok") /\ request[r].path \in routes
  BY DEF Listening, StartOrder, TypeOK
<1>9. ServedOnlyWhenReady'
  BY <1>1, <1>4, <1>7, <1>8 DEF ServedOnlyWhenReady, process
<1> QED
  BY <1>2, <1>3, <1>6, <1>9

LEMMA NextInv == IInv /\ [Next]_vars => IInv'
<1> SUFFICES ASSUME IInv, [Next]_vars PROVE IInv'
  OBVIOUS
<1>1. CASE watcherInit
  BY <1>1, StartInv DEF watcherInit
<1>2. CASE Run /\ ~MainReturns
  BY <1>2, StartInv DEF Run
<1>3. CASE MainReturns \/ Die
  BY <1>3, EndInv DEF MainReturns, Die, IInv, TypeOK
<1>4. CASE Signal \/ shutdownLoop
  BY <1>4, SignalInv DEF shutdownLoop
<1>5. ASSUME NEW r \in Requests,
             Send(r) \/ Timeout(r) \/ Read(r) \/ Handle(r) \/ Respond(r)
      PROVE  IInv'
  BY <1>5, RequestInv
<1>6. CASE UNCHANGED vars
  BY <1>6 DEF vars, process, shutdown, traffic, IInv, TypeOK, WaitGroupCounts,
       StartOrder, CallProgress, ServedOnlyWhenReady
<1> QED
  BY <1>1, <1>2, <1>3, <1>4, <1>5, <1>6 DEF Next

LEMMA Invariance == Spec => []IInv
BY InitInv, NextInv, PTL DEF Spec

\* Every variable of the process and of its requests keeps its type; the wait
\* group of watcher.init in particular never goes below zero, which would panic.
THEOREM TypeCorrect == Spec => []TypeOK
<1>1. IInv => TypeOK
  BY DEF IInv
<1> QED
  BY <1>1, Invariance, PTL

\* No request is served before both watchers have read the configuration and its
\* path has a route, for any number of requests, paths and signals.
THEOREM Ready == Spec => []ServedOnlyWhenReady
<1>1. IInv => ServedOnlyWhenReady
  BY DEF IInv
<1> QED
  BY <1>1, Invariance, PTL

-----------------------------------------------------------------------------
(* The refinement of AdmissionCall. *)

LEMMA InitRefines == Init => Abstract!Init
BY DEF Init, decision, Abstract!Init

\* The calls that the end of the process cuts off fail together, if there are any.
LEMMA EndRefines ==
    ASSUME IInv, NEW how, End(how)
    PROVE  [Abstract!Next]_(Abstract!vars)
<1> DEFINE C == {r \in Requests : call'[r] = "lost" /\ outcome[r] = "pending"}
<1>1. outcome' = [r \in Requests |-> IF r \in C THEN "denied" ELSE outcome[r]]
  BY DEF End
<1>2. decision' = decision
  BY DEF End, decision
<1>3. CASE C = {}
  <2>1. outcome' = outcome
    BY <1>1, <1>3 DEF IInv, TypeOK
  <2> QED
    BY <1>2, <2>1 DEF Abstract!vars
<1>4. CASE C # {}
  <2>1. Abstract!Fail(C)
    BY <1>1, <1>2, <1>4 DEF Abstract!Fail
  <2>2. C \in SUBSET Requests
    OBVIOUS
  <2> QED
    BY <2>1, <2>2 DEF Abstract!Next
<1> QED
  BY <1>3, <1>4

\* A request is called, decided, delivered or given up in single steps, the
\* decision before the outcome that it allows.
LEMMA RequestRefines ==
    ASSUME IInv, NEW r \in Requests,
           Send(r) \/ Timeout(r) \/ Read(r) \/ Handle(r) \/ Respond(r)
    PROVE  [Abstract!Next]_(Abstract!vars)
<1> USE DEF IInv, TypeOK
<1>1. ASSUME UNCHANGED result PROVE decision' = decision
  BY <1>1 DEF decision
<1>2. ASSUME decision' = decision,
             outcome' = [outcome EXCEPT ![r] = "denied"], outcome[r] \in {"none", "pending"}
      PROVE  Abstract!Next
  <2>1. outcome' = [c \in Requests |-> IF c \in {r} THEN "denied" ELSE outcome[c]]
    BY <1>2
  <2>2. Abstract!Fail({r})
    BY <1>2, <2>1 DEF Abstract!Fail
  <2> QED
    BY <2>2 DEF Abstract!Next
<1>3. ASSUME decision' = decision, outcome' = outcome
      PROVE  UNCHANGED Abstract!vars
  BY <1>3 DEF Abstract!vars
<1>4. ASSUME NEW end \in Results, result[r] = "none", outcome[r] # "none",
             result' = [result EXCEPT ![r] = end], outcome' = outcome
      PROVE  Abstract!Next
  <2> DEFINE d == IF end = "allow" THEN "allow" ELSE "deny"
  <2>1. end # "none"
    BY <1>4 DEF Results
  <2>2. decision' = [decision EXCEPT ![r] = d]
    BY <1>4, <2>1 DEF decision
  <2>3. decision[r] = "none"
    BY <1>4 DEF decision
  <2>4. Abstract!Decide(r)
    BY <1>4, <2>2, <2>3 DEF Abstract!Decide
  <2> QED
    BY <2>4 DEF Abstract!Next
<1>5. CASE Send(r) /\ Listening
  <2>1. Abstract!Call(r)
    BY <1>1, <1>5 DEF Send, Abstract!Call
  <2> QED
    BY <2>1 DEF Abstract!Next
<1>6. CASE Send(r) /\ ~Listening
  BY <1>1, <1>2, <1>6 DEF Send
<1>7. CASE Timeout(r)
  BY <1>1, <1>2, <1>7 DEF Timeout
<1>8. CASE Read(r)
  <2>1. result[r] = "none" /\ outcome[r] # "none" /\ outcome' = outcome
    BY <1>8 DEF Read, CallProgress
  <2>2. CASE request[r].body = "review"
    <3>1. result' = result
      BY <1>8, <2>1, <2>2 DEF Read
    <3> QED
      BY <1>1, <1>3, <2>1, <3>1
  <2>3. CASE request[r].body # "review"
    <3>1. result' = [result EXCEPT ![r] = "error"] /\ "error" \in Results
      BY <1>8, <2>3 DEF Read, Results
    <3> QED
      BY <1>4, <2>1, <3>1
  <2> QED
    BY <2>2, <2>3
<1>9. CASE Handle(r)
  <2>1. result[r] = "none" /\ outcome[r] # "none" /\ outcome' = outcome
    BY <1>9 DEF Handle, CallProgress
  <2>2. PICK end \in Results : result' = [result EXCEPT ![r] = end]
    BY <1>9 DEF Handle
  <2> QED
    BY <1>4, <2>1, <2>2
<1>10. CASE Respond(r)
  <2>1. decision' = decision
    BY <1>1, <1>10 DEF Respond
  <2>2. CASE outcome[r] # "pending"
    <3>1. outcome' = outcome
      BY <1>10, <2>2 DEF Respond
    <3> QED
      BY <1>3, <2>1, <3>1
  <2>3. CASE outcome[r] = "pending" /\ result[r] = "allow"
    <3>1. Abstract!Deliver(r)
      BY <1>10, <2>1, <2>3 DEF Respond, Status, decision, Abstract!Deliver
    <3> QED
      BY <3>1 DEF Abstract!Next
  <2>4. CASE outcome[r] = "pending" /\ result[r] # "allow"
    BY <1>2, <1>10, <2>1, <2>4 DEF Respond, Status
  <2> QED
    BY <2>2, <2>3, <2>4
<1> QED
  BY <1>5, <1>6, <1>7, <1>8, <1>9, <1>10

LEMMA NextRefines == IInv /\ [Next]_vars => [Abstract!Next]_(Abstract!vars)
<1> SUFFICES ASSUME IInv, [Next]_vars PROVE [Abstract!Next]_(Abstract!vars)
  OBVIOUS
<1>1. ASSUME UNCHANGED <<result, outcome>> PROVE UNCHANGED Abstract!vars
  BY <1>1 DEF decision, Abstract!vars
<1>2. CASE watcherInit \/ (Run /\ ~MainReturns)
  <2>1. UNCHANGED <<result, outcome>>
    BY <1>2 DEF watcherInit, Watcher, Wait, Run, Setup, SetupDone, Notify, Spawn,
         Listen, ServeReturns, traffic
  <2> QED
    BY <1>1, <2>1
<1>3. CASE MainReturns \/ Die
  BY <1>3, EndRefines DEF MainReturns, Die
<1>4. CASE Signal \/ shutdownLoop
  <2>1. CASE Signal /\ ~notified
    BY <2>1, EndRefines DEF Signal
  <2>2. CASE (Signal /\ notified) \/ shutdownLoop
    <3>1. UNCHANGED <<result, outcome>>
      BY <2>2 DEF Signal, shutdownLoop, Receive, Shutdown, Drained, traffic
    <3> QED
      BY <1>1, <3>1
  <2> QED
    BY <1>4, <2>1, <2>2
<1>5. ASSUME NEW r \in Requests,
             Send(r) \/ Timeout(r) \/ Read(r) \/ Handle(r) \/ Respond(r)
      PROVE  [Abstract!Next]_(Abstract!vars)
  BY <1>5, RequestRefines
<1>6. CASE UNCHANGED vars
  BY <1>1, <1>6 DEF vars, traffic
<1> QED
  BY <1>2, <1>3, <1>4, <1>5, <1>6 DEF Next

\* The server is what an API server relies on: each call has one outcome, which is
\* "allowed" only if its handler decided so before, through errors, panics,
\* timeouts, shutdown and the end of the process.
THEOREM Implements == Spec => AnswersOnce
BY InitRefines, NextRefines, Invariance, PTL DEF Spec, AnswersOnce, Abstract!Spec
=============================================================================
