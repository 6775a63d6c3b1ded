--------------------------- MODULE ProxyLifecycle ---------------------------
(***************************************************************************)
(* Starting and stopping the proxy (Start, Stop, IsRunning, startHttpServer *)
(* and runHttpsListener of goproxy/main.go, monitorMemoryUsage of          *)
(* goproxy/debug.go), driven by the buttons and the timer of the sample    *)
(* application (app/Form1.cs).                                             *)
(*                                                                         *)
(* The n-th Start begins generation n: an http.Server with a goroutine of  *)
(* its own, an HTTPS listener and a memory monitor.  All generations share *)
(* the two ports and one variable, server, which says both which server    *)
(* Stop has to shut down and whether the proxy runs; the embedder's thread *)
(* writes it, and so does the goroutine of every HTTP server that ends.    *)
(***************************************************************************)
EXTENDS Naturals, FiniteSets

CONSTANTS
  MaxStarts,   \* bound: how often Start is called
  Embedders,   \* which embedders to consider, a subset of Manners
  None

\* A hasty embedder clicks whenever a button is enabled; an orderly one moreover
\* starts only what it has stopped; a patient one acts only at rest.
Manners == {"hasty", "orderly", "patient"}

Gen == 1..MaxStarts

ASSUME ConstantsOK ==
  MaxStarts \in Nat /\ Embedders \subseteq Manners /\ None \notin Gen

VARIABLES
  embedder,      \* its manner
  app,           \* where the embedder's (UI) thread is
  startEnabled,  \* the two buttons
  stopEnabled,
  starts,        \* generations begun
  server,        \* the server Stop will shut down; None: not running
  shutdown,      \* generations whose server was told to shut down
  http,          \* the goroutine around ListenAndServe of each generation
  httpPort,      \* which generation is bound to config.portHttp
  https,         \* the HTTPS listener of each generation
  httpsPort,     \* which generation is bound to config.portHttps
  filters,       \* how often the two filters are registered
  monitor        \* the memory monitor of each generation

vars == <<embedder, app, startEnabled, stopEnabled, starts, server, shutdown, http,
          httpPort, https, httpsPort, filters, monitor>>

AppLabels == {"idle", "spawned", "assigned", "stopping", "ticking", "crashed"}
HttpLabels == {"none", "spawned", "bound", "serving", "returned", "ended"}
HttpsLabels == {"none", "spawned", "check", "accept", "closing", "ended"}

TypeOK ==
  /\ embedder \in Embedders
  /\ app \in AppLabels
  /\ startEnabled \in BOOLEAN /\ stopEnabled \in BOOLEAN
  /\ starts \in 0..MaxStarts
  /\ server \in Gen \union {None}
  /\ shutdown \subseteq Gen
  /\ http \in [Gen -> HttpLabels] /\ httpPort \in Gen \union {None}
  /\ https \in [Gen -> HttpsLabels] /\ httpsPort \in Gen \union {None}
  /\ filters \in 0..MaxStarts
  /\ monitor \in [Gen -> BOOLEAN]

Init ==
  /\ embedder \in Embedders
  /\ app = "idle"
  /\ startEnabled = TRUE /\ stopEnabled = FALSE
  /\ starts = 0 /\ server = None /\ shutdown = {}
  /\ http = [g \in Gen |-> "none"] /\ httpPort = None
  /\ https = [g \in Gen |-> "none"] /\ httpsPort = None
  /\ filters = 0
  /\ monitor = [g \in Gen |-> FALSE]

IsRunning == server # None

\* Every goroutine waits for the outside world or has ended, the HTTPS listener has
\* noticed a Stop, and the buttons are up to date.
AtRest ==
  /\ app = "idle"
  /\ startEnabled = ~ IsRunning /\ stopEnabled = IsRunning
  /\ \A g \in Gen : /\ http[g] \in {"none", "ended"} \/ (http[g] = "serving" /\ g \notin shutdown)
                    /\ https[g] \in {"none", "ended"} \/ (https[g] = "accept" /\ IsRunning)

Click == app = "idle" /\ (embedder = "patient" => AtRest)

(***************************************************************************)
(* The embedder's thread.  Start makes the server and its goroutine first  *)
(* and assigns the variable after; it never looks whether one runs.        *)
(***************************************************************************)
StartHttpServer ==
  /\ Click /\ startEnabled
  /\ embedder = "orderly" => 1..starts \subseteq shutdown
  /\ starts < MaxStarts
  /\ app' = "spawned"
  /\ starts' = starts + 1
  /\ http' = [http EXCEPT ![starts + 1] = "spawned"]
  /\ UNCHANGED <<embedder, startEnabled, stopEnabled, server, shutdown, httpPort, https,
                 httpsPort, filters, monitor>>

\* Mutant: the reference startHttpServer returns is dropped.
AssignServerDropped ==
  /\ app = "spawned"
  /\ app' = "assigned"
  /\ UNCHANGED <<embedder, startEnabled, stopEnabled, starts, server, shutdown, http, httpPort,
                 https, httpsPort, filters, monitor>>

AssignServer ==
  /\ app = "spawned"
  /\ app' = "assigned"
  /\ server' = starts
  /\ UNCHANGED <<embedder, startEnabled, stopEnabled, starts, shutdown, http, httpPort, https,
                 httpsPort, filters, monitor>>

\* Mutant: a stopped proxy that starts again registers its filters twice.
FinishStartTwice ==
  /\ app = "assigned"
  /\ app' = "idle"
  /\ filters' = filters + (IF starts > 1 THEN 2 ELSE 1)
  /\ https' = [https EXCEPT ![starts] = "spawned"]
  /\ monitor' = [monitor EXCEPT ![starts] = TRUE]
  /\ UNCHANGED <<embedder, startEnabled, stopEnabled, starts, server, shutdown, http, httpPort,
                 httpsPort>>

FinishStart ==
  /\ app = "assigned"
  /\ app' = "idle"
  /\ filters' = filters + 1
  /\ https' = [https EXCEPT ![starts] = "spawned"]
  /\ monitor' = [monitor EXCEPT ![starts] = TRUE]
  /\ UNCHANGED <<embedder, startEnabled, stopEnabled, starts, server, shutdown, http, httpPort,
                 httpsPort>>

\* Mutant: Stop forgets the server without shutting it down.
ShutdownSkipped ==
  /\ Click /\ stopEnabled /\ IsRunning
  /\ app' = "stopping"
  /\ UNCHANGED <<embedder, startEnabled, stopEnabled, starts, server, shutdown, http, httpPort,
                 https, httpsPort, filters, monitor>>

\* Mutant: the server is told to shut down, and its listener stays open.
ShutdownKeepsListener ==
  /\ Click /\ stopEnabled /\ IsRunning
  /\ app' = "stopping"
  /\ shutdown' = shutdown \union {server}
  /\ UNCHANGED <<embedder, startEnabled, stopEnabled, starts, server, http, httpPort, https,
                 httpsPort, filters, monitor>>

\* Shutdown marks the server and closes its listener, if Serve has begun.
Shutdown ==
  /\ Click /\ stopEnabled /\ IsRunning
  /\ app' = "stopping"
  /\ shutdown' = shutdown \union {server}
  /\ httpPort' = IF http[server] = "serving" THEN None ELSE httpPort
  /\ UNCHANGED <<embedder, startEnabled, stopEnabled, starts, server, http, https, httpsPort,
                 filters, monitor>>

\* Shutdown of a nil server: the button was enabled when the proxy still ran.
ShutdownNil ==
  /\ Click /\ stopEnabled /\ ~ IsRunning
  /\ app' = "crashed"
  /\ UNCHANGED <<embedder, startEnabled, stopEnabled, starts, server, shutdown, http, httpPort,
                 https, httpsPort, filters, monitor>>

\* Shutdown has waited for idle connections, at most a second.
FinishStop ==
  /\ app = "stopping"
  /\ app' = "idle"
  /\ server' = None
  /\ UNCHANGED <<embedder, startEnabled, stopEnabled, starts, shutdown, http, httpPort, https,
                 httpsPort, filters, monitor>>

\* timer_Tick asks IsRunning once for each button.
TickStart ==
  /\ app = "idle"
  /\ app' = "ticking"
  /\ startEnabled' = ~ IsRunning
  /\ UNCHANGED <<embedder, stopEnabled, starts, server, shutdown, http, httpPort, https,
                 httpsPort, filters, monitor>>

TickStop ==
  /\ app = "ticking"
  /\ app' = "idle"
  /\ stopEnabled' = IsRunning
  /\ UNCHANGED <<embedder, startEnabled, starts, server, shutdown, http, httpPort, https,
                 httpsPort, filters, monitor>>

(***************************************************************************)
(* The goroutine of startHttpServer: ListenAndServe of net/http binds the  *)
(* port, tracks the listener and serves until it is told to shut down.     *)
(***************************************************************************)
Listen(g) ==
  /\ http[g] = "spawned"
  /\ IF g \notin shutdown /\ httpPort = None
       THEN httpPort' = g /\ http' = [http EXCEPT ![g] = "bound"]
       ELSE UNCHANGED httpPort /\ http' = [http EXCEPT ![g] = "returned"]
  /\ UNCHANGED <<embedder, app, startEnabled, stopEnabled, starts, server, shutdown, https,
                 httpsPort, filters, monitor>>

Serve(g) ==
  /\ http[g] = "bound"
  /\ IF g \notin shutdown
       THEN UNCHANGED httpPort /\ http' = [http EXCEPT ![g] = "serving"]
       ELSE httpPort' = None /\ http' = [http EXCEPT ![g] = "returned"]
  /\ UNCHANGED <<embedder, app, startEnabled, stopEnabled, starts, server, shutdown, https,
                 httpsPort, filters, monitor>>

ServeReturns(g) ==
  /\ http[g] = "serving" /\ g \in shutdown
  /\ http' = [http EXCEPT ![g] = "returned"]
  /\ UNCHANGED <<embedder, app, startEnabled, stopEnabled, starts, server, shutdown, httpPort,
                 https, httpsPort, filters, monitor>>

\* Whatever server the variable refers to by now, it is cleared.
ClearServer(g) ==
  /\ http[g] = "returned"
  /\ http' = [http EXCEPT ![g] = "ended"]
  /\ server' = None
  /\ UNCHANGED <<embedder, app, startEnabled, stopEnabled, starts, shutdown, httpPort, https,
                 httpsPort, filters, monitor>>

(***************************************************************************)
(* runHttpsListener.  It looks at server only between two connections.     *)
(***************************************************************************)
ListenTls(g) ==
  /\ https[g] = "spawned"
  /\ IF httpsPort = None
       THEN httpsPort' = g /\ https' = [https EXCEPT ![g] = "check"]
       ELSE UNCHANGED httpsPort /\ https' = [https EXCEPT ![g] = "ended"]
  /\ UNCHANGED <<embedder, app, startEnabled, stopEnabled, starts, server, shutdown, http,
                 httpPort, filters, monitor>>

\* Mutant: the loop accepts without looking at server.
CheckSkipped(g) ==
  /\ https[g] = "check"
  /\ https' = [https EXCEPT ![g] = "accept"]
  /\ UNCHANGED <<embedder, app, startEnabled, stopEnabled, starts, server, shutdown, http,
                 httpPort, httpsPort, filters, monitor>>

Check(g) ==
  /\ https[g] = "check"
  /\ https' = [https EXCEPT ![g] = IF IsRunning THEN "accept" ELSE "closing"]
  /\ UNCHANGED <<embedder, app, startEnabled, stopEnabled, starts, server, shutdown, http,
                 httpPort, httpsPort, filters, monitor>>

\* A connection comes in and gets a goroutine of its own.
Accept(g) ==
  /\ https[g] = "accept"
  /\ https' = [https EXCEPT ![g] = "check"]
  /\ UNCHANGED <<embedder, app, startEnabled, stopEnabled, starts, server, shutdown, http,
                 httpPort, httpsPort, filters, monitor>>

\* Mutant: the loop returns without closing the listener.
CloseLeaks(g) ==
  /\ https[g] = "closing"
  /\ https' = [https EXCEPT ![g] = "ended"]
  /\ UNCHANGED <<embedder, app, startEnabled, stopEnabled, starts, server, shutdown, http,
                 httpPort, httpsPort, filters, monitor>>

Close(g) ==
  /\ https[g] = "closing"
  /\ https' = [https EXCEPT ![g] = "ended"]
  /\ httpsPort' = None
  /\ UNCHANGED <<embedder, app, startEnabled, stopEnabled, starts, server, shutdown, http,
                 httpPort, filters, monitor>>

\* monitorMemoryUsage wakes up every 30 seconds and ends if the proxy is stopped.
MonitorWakes(g) ==
  /\ monitor[g]
  /\ ~ IsRunning
  /\ monitor' = [monitor EXCEPT ![g] = FALSE]
  /\ UNCHANGED <<embedder, app, startEnabled, stopEnabled, starts, server, shutdown, http,
                 httpPort, https, httpsPort, filters>>

Start == StartHttpServer \/ AssignServer \/ FinishStart
Stop == Shutdown \/ ShutdownNil \/ FinishStop
Timer == TickStart \/ TickStop
HttpServer(g) == Listen(g) \/ Serve(g) \/ ServeReturns(g) \/ ClearServer(g)
HttpsListener(g) == ListenTls(g) \/ Check(g) \/ Close(g)

\* The process is gone.
Crashed == app = "crashed" /\ UNCHANGED vars

Next ==
  \/ /\ app # "crashed"
     /\ \/ Start \/ Stop \/ Timer
        \/ \E g \in Gen : HttpServer(g) \/ HttpsListener(g) \/ Accept(g) \/ MonitorWakes(g)
  \/ Crashed

Spec == Init /\ [][Next]_vars

\* Go schedules every goroutine and a call of Start or Stop runs to its end;
\* nobody has to click, and no client has to connect.
FairSpec ==
  /\ Spec
  /\ WF_vars(app # "crashed" /\ (AssignServer \/ FinishStart \/ FinishStop))
  /\ \A g \in Gen : /\ WF_vars(app # "crashed" /\ HttpServer(g))
                    /\ WF_vars(app # "crashed" /\ HttpsListener(g))

-----------------------------------------------------------------------------
(***************************************************************************)
(* Properties.                                                             *)
(***************************************************************************)

\* A server that serves can be shut down: between two calls of the embedder it is
\* the one server refers to.  startHttpServer is "returning reference so caller
\* can call Shutdown()" (main.go:175).  Not even an embedder that calls Start and
\* Stop in turn has that: the goroutine of the stopped server may clear the
\* variable after the next Start has assigned it (main.go:171, 199).
ServingIsStoppable ==
  \A g \in Gen : app = "idle" /\ http[g] = "serving" /\ g \notin shutdown => server = g

Patient == embedder = "patient"

\* An embedder that waits for rest never loses a server it started, nor has the
\* late goroutine of an old generation clear the new one's (main.go:166-176, 199).
PatientServerIsStoppable == Patient => ServingIsStoppable

\* At rest, the proxy of a patient embedder serves on both ports, with its filters
\* registered, or on none: the variable Stop and the listeners look at is never
\* out of step with the goroutines (main.go:163-176, 340, 364-380 and 643-652).
PatientRestIsConsistent ==
  Patient /\ AtRest =>
    IF IsRunning
      THEN /\ http[server] = "serving" /\ httpPort = server
           /\ httpsPort = server /\ https[server] = "accept"
           /\ filters = starts
      ELSE httpPort = None /\ httpsPort = None

\* For a patient embedder, the proxy stops running only in Stop, and starts only
\* in Start: no goroutine flips it behind the embedder's back (main.go:171).
OnlyTheEmbedderSwitches ==
  [][Patient /\ server' # server => AssignServer \/ app = "stopping"]_vars

\* Once its server is told to shut down, a generation lets go of the HTTP port,
\* even if Stop comes before the server has bound it (main.go:166-173, 645).
StopFreesHttpPort ==
  \A g \in Gen : g \in shutdown ~> httpPort # g \/ app = "crashed"

\* The HTTPS listener of a stopped proxy closes after the connection it is about to
\* accept, unless the proxy is started meanwhile (main.go:375-382).
NextConnectionClosesListener ==
  \A g \in Gen :
    https[g] = "check" /\ ~ IsRunning ~> https[g] = "ended" \/ IsRunning \/ app = "crashed"
=============================================================================
