------------------------ MODULE ProxyLifecycleProofs ------------------------
(***************************************************************************)
(* Theorems about ProxyLifecycle, for any number of starts.                *)
(*                                                                         *)
(* The argument: a patient embedder starts generation n + 1 only when the  *)
(* goroutines of generation n and before have ended (Others), so exactly   *)
(* one generation is ever alive, and it is going up or coming down         *)
(* (CurrentUp, CurrentDown).  In neither state can its goroutine clear a   *)
(* server that is not on its way to be stopped.                            *)
(***************************************************************************)
EXTENDS ProxyLifecycle, TLAPS

\* All generations but the last are over or not begun.
Others ==
  \A g \in Gen :
    g # starts => /\ http[g] = (IF g < starts THEN "ended" ELSE "none")
                  /\ https[g] = (IF g < starts THEN "ended" ELSE "none")
                  /\ g > starts => g \notin shutdown

\* The last generation holds a port exactly while its goroutine is past the bind.
Ports ==
  /\ httpPort = IF /\ starts # 0
                   /\ \/ http[starts] = "bound"
                      \/ http[starts] = "serving" /\ starts \notin shutdown
                THEN starts ELSE None
  /\ httpsPort = IF starts # 0 /\ https[starts] \in {"check", "accept", "closing"}
                 THEN starts ELSE None

NotBegun == starts = 0 /\ server = None /\ app \in {"idle", "ticking"}

CurrentUp ==
  /\ starts # 0 /\ starts \notin shutdown
  /\ http[starts] \in {"spawned", "bound", "serving"}
  /\ \/ app = "spawned" /\ server = None /\ https[starts] = "none"
     \/ app = "assigned" /\ server = starts /\ https[starts] = "none"
     \/ /\ app \in {"idle", "ticking"} /\ server = starts
        /\ https[starts] \in {"spawned", "check", "accept"}

CurrentDown ==
  /\ starts # 0 /\ starts \in shutdown
  /\ http[starts] \in {"serving", "returned", "ended"}
  /\ https[starts] \in {"check", "accept", "closing", "ended"}
  /\ app \in {"stopping", "idle", "ticking"}
  /\ server \in {None, starts}
  /\ app # "stopping" => server = None
  /\ https[starts] \in {"closing", "ended"} => server = None

FiltersCounted == filters = IF app \in {"spawned", "assigned"} THEN starts - 1 ELSE starts

PatientInv ==
  /\ app # "crashed" /\ Others /\ Ports
  /\ NotBegun \/ CurrentUp \/ CurrentDown

TypeInv == TypeOK /\ FiltersCounted

-----------------------------------------------------------------------------
\* The initial values have their types.
LEMMA InitTypeInv == Init => TypeInv
<1> SUFFICES ASSUME Init PROVE TypeInv
  OBVIOUS
<1>1. /\ embedder \in Embedders /\ app \in AppLabels /\ startEnabled \in BOOLEAN
      /\ stopEnabled \in BOOLEAN /\ server \in Gen \union {None} /\ shutdown \subseteq Gen
      /\ httpPort \in Gen \union {None} /\ httpsPort \in Gen \union {None}
  BY DEF Init, AppLabels
<1>2. http \in [Gen -> HttpLabels] /\ https \in [Gen -> HttpsLabels] /\ monitor \in [Gen -> BOOLEAN]
  BY DEF Init, HttpLabels, HttpsLabels
<1>3. starts \in 0..MaxStarts /\ filters \in 0..MaxStarts /\ FiltersCounted
  BY ConstantsOK DEF ConstantsOK, Init, FiltersCounted
<1>4. QED
  BY <1>1, <1>2, <1>3 DEF TypeInv, TypeOK

\* Every step keeps the types: a Start that has not finished has begun a
\* generation, so its filters and its server are within bounds.
LEMMA StepTypeInv == TypeInv /\ [Next]_vars => TypeInv'
<1> SUFFICES ASSUME TypeInv, [Next]_vars PROVE TypeInv'
  OBVIOUS
<1> USE ConstantsOK DEF ConstantsOK, TypeInv, TypeOK, FiltersCounted, Gen, AppLabels, HttpLabels,
                        HttpsLabels
<1>1. CASE UNCHANGED vars
  BY <1>1 DEF vars
<1>2. CASE StartHttpServer
  BY <1>2 DEF StartHttpServer, Click
<1>3. CASE AssignServer
  BY <1>3 DEF AssignServer
<1>4. CASE FinishStart
  BY <1>4 DEF FinishStart
<1>5. CASE Stop
  BY <1>5 DEF Stop, Shutdown, ShutdownNil, FinishStop, Click, IsRunning
<1>6. CASE Timer
  BY <1>6 DEF Timer, TickStart, TickStop, IsRunning
<1>7. ASSUME NEW g \in Gen, HttpServer(g) PROVE TypeInv'
  BY <1>7 DEF HttpServer, Listen, Serve, ServeReturns, ClearServer
<1>8. ASSUME NEW g \in Gen, HttpsListener(g) \/ Accept(g) PROVE TypeInv'
  BY <1>8 DEF HttpsListener, ListenTls, Check, Close, Accept
<1>9. ASSUME NEW g \in Gen, MonitorWakes(g) PROVE TypeInv'
  BY <1>9 DEF MonitorWakes
<1>10. QED
  BY <1>1, <1>2, <1>3, <1>4, <1>5, <1>6, <1>7, <1>8, <1>9 DEF Next, Start, Crashed

\* TypeOK is an invariant, for embedders of every manner (main.go:188-348, 364-380
\* and 643-652): a generation is only ever reached through a Start.
THEOREM TypeCorrect == Spec => []TypeOK
<1>1. TypeInv => TypeOK
  BY DEF TypeInv
<1>2. QED
  BY InitTypeInv, StepTypeInv, <1>1, PTL DEF Spec

-----------------------------------------------------------------------------
(***************************************************************************)
(* The patient embedder.                                                   *)
(***************************************************************************)

\* Nothing has begun.
LEMMA InitPatientInv == Init => PatientInv
BY ConstantsOK DEF ConstantsOK, Init, PatientInv, Others, Ports, NotBegun, Gen

\* At a patient embedder's Start the last generation has ended, so the new one finds
\* both ports free; every other step is one of the last generation.
LEMMA StepPatientInv == TypeInv /\ Patient /\ PatientInv /\ [Next]_vars => PatientInv'
<1> SUFFICES ASSUME TypeInv, Patient, PatientInv, [Next]_vars PROVE PatientInv'
  OBVIOUS
<1> USE ConstantsOK DEF ConstantsOK, TypeInv, TypeOK, Gen, PatientInv, IsRunning
<1>1. CASE UNCHANGED vars
  BY <1>1 DEF vars, Others, Ports, NotBegun, CurrentUp, CurrentDown
<1>2. CASE StartHttpServer
  <2> DEFINE n == starts + 1
  <2>1. /\ n \in Gen /\ starts' = n /\ app' = "spawned" /\ app = "idle" /\ AtRest /\ startEnabled
        /\ http' = [http EXCEPT ![n] = "spawned"]
        /\ UNCHANGED <<shutdown, https, httpPort, httpsPort, server>>
    BY <1>2 DEF StartHttpServer, Click, Patient
  <2>2. server = None
    BY <2>1 DEF AtRest
  <2>3. starts # 0 => /\ starts \in Gen /\ starts \in shutdown
                      /\ http[starts] = "ended" /\ https[starts] = "ended"
    BY <2>1, <2>2 DEF AtRest, NotBegun, CurrentUp, CurrentDown
  <2>4. https[n] = "none" /\ n \notin shutdown
    BY <2>1 DEF Others
  <2>5. Others'
    BY <2>1, <2>3 DEF Others
  <2>6. Ports'
    BY <2>1, <2>3, <2>4 DEF Ports
  <2>7. CurrentUp'
    BY <2>1, <2>2, <2>4 DEF CurrentUp
  <2>8. QED
    BY <2>1, <2>5, <2>6, <2>7
<1>3. CASE AssignServer
  BY <1>3 DEF AssignServer, Others, Ports, NotBegun, CurrentUp, CurrentDown
<1>4. CASE FinishStart
  BY <1>4 DEF FinishStart, Others, Ports, NotBegun, CurrentUp, CurrentDown
<1>5. CASE Shutdown
  <2>1. CurrentUp /\ server = starts /\ http[starts] = "serving" /\ https[starts] = "accept"
    BY <1>5 DEF Shutdown, Click, Patient, AtRest, NotBegun, CurrentUp, CurrentDown
  <2>2. QED
    BY <1>5, <2>1 DEF Shutdown, Others, Ports, CurrentUp, CurrentDown
<1>6. CASE ShutdownNil
  BY <1>6 DEF ShutdownNil, Click, Patient, AtRest
<1>7. CASE FinishStop
  BY <1>7 DEF FinishStop, Others, Ports, NotBegun, CurrentUp, CurrentDown
<1>8. CASE Timer
  BY <1>8 DEF Timer, TickStart, TickStop, Others, Ports, NotBegun, CurrentUp, CurrentDown
<1>9. ASSUME NEW g \in Gen, http[g] \notin {"none", "ended"} \/ https[g] \notin {"none", "ended"}
      PROVE  g = starts /\ starts # 0
  BY <1>9 DEF Others
<1>10. ASSUME NEW g \in Gen, Listen(g) PROVE PatientInv'
  <2>1. g = starts /\ CurrentUp /\ httpPort = None
    BY <1>9, <1>10 DEF Listen, Ports, NotBegun, CurrentUp, CurrentDown
  <2>2. QED
    BY <1>10, <2>1 DEF Listen, Others, Ports, CurrentUp
<1>11. ASSUME NEW g \in Gen, Serve(g) PROVE PatientInv'
  <2>1. g = starts /\ CurrentUp
    BY <1>9, <1>11 DEF Serve, NotBegun, CurrentUp, CurrentDown
  <2>2. QED
    BY <1>11, <2>1 DEF Serve, Others, Ports, CurrentUp
<1>12. ASSUME NEW g \in Gen, ServeReturns(g) \/ ClearServer(g) PROVE PatientInv'
  <2>1. g = starts /\ CurrentDown
    BY <1>9, <1>12 DEF ServeReturns, ClearServer, NotBegun, CurrentUp, CurrentDown
  <2>2. QED
    BY <1>12, <2>1 DEF ServeReturns, ClearServer, Others, Ports, CurrentDown
<1>13. ASSUME NEW g \in Gen, ListenTls(g) PROVE PatientInv'
  <2>1. g = starts /\ CurrentUp /\ httpsPort = None
    BY <1>9, <1>13 DEF ListenTls, Ports, NotBegun, CurrentUp, CurrentDown
  <2>2. QED
    BY <1>13, <2>1 DEF ListenTls, Others, Ports, CurrentUp
<1>14. ASSUME NEW g \in Gen, Check(g) \/ Accept(g) PROVE PatientInv'
  <2>1. g = starts /\ (CurrentUp \/ CurrentDown)
    BY <1>9, <1>14 DEF Check, Accept, NotBegun
  <2>2. QED
    BY <1>14, <2>1 DEF Check, Accept, Others, Ports, CurrentUp, CurrentDown
<1>15. ASSUME NEW g \in Gen, Close(g) PROVE PatientInv'
  <2>1. g = starts /\ CurrentDown /\ server = None
    BY <1>9, <1>15 DEF Close, NotBegun, CurrentUp, CurrentDown
  <2>2. QED
    BY <1>15, <2>1 DEF Close, Others, Ports, CurrentDown
<1>16. ASSUME NEW g \in Gen, MonitorWakes(g) PROVE PatientInv'
  BY <1>16 DEF MonitorWakes, Others, Ports, NotBegun, CurrentUp, CurrentDown
<1>17. QED
  BY <1>1, <1>2, <1>3, <1>4, <1>5, <1>6, <1>7, <1>8, <1>10, <1>11, <1>12, <1>13, <1>14,
     <1>15, <1>16
  DEF Next, Start, Stop, HttpServer, HttpsListener, Crashed

\* The manner of the embedder is chosen once.
LEMMA EmbedderNeverChanges == [Next]_vars => embedder' = embedder
<1> SUFFICES ASSUME [Next]_vars PROVE embedder' = embedder
  OBVIOUS
<1>1. CASE UNCHANGED vars
  BY <1>1 DEF vars
<1>2. CASE Start \/ Stop \/ Timer
  BY <1>2 DEF Start, StartHttpServer, AssignServer, FinishStart, Stop, Shutdown, ShutdownNil,
              FinishStop, Timer, TickStart, TickStop
<1>3. ASSUME NEW g \in Gen, HttpServer(g) \/ HttpsListener(g) \/ Accept(g) \/ MonitorWakes(g)
      PROVE  embedder' = embedder
  BY <1>3 DEF HttpServer, Listen, Serve, ServeReturns, ClearServer, HttpsListener, ListenTls,
              Check, Close, Accept, MonitorWakes
<1>4. QED
  BY <1>1, <1>2, <1>3 DEF Next, Crashed, vars

PatientOnly == Patient => PatientInv

\* PatientInv is inductive in the behaviours of patient embedders.
LEMMA StepPatientOnly == TypeInv /\ PatientOnly /\ [Next]_vars => PatientOnly'
BY StepPatientInv, EmbedderNeverChanges DEF PatientOnly, Patient

\* However often a patient embedder restarts the proxy, it can stop the server it
\* has started (main.go:166-176, 199).
THEOREM StoppableCorrect == Spec => []PatientServerIsStoppable
<1>1. TypeInv /\ PatientOnly => PatientServerIsStoppable
  BY DEF TypeInv, TypeOK, PatientOnly, PatientInv, PatientServerIsStoppable, ServingIsStoppable,
         Others, NotBegun, CurrentUp, CurrentDown, Gen
<1>2. Init => PatientOnly
  BY InitPatientInv DEF PatientOnly
<1>3. QED
  BY InitTypeInv, StepTypeInv, StepPatientOnly, <1>1, <1>2, PTL DEF Spec

\* At rest of a patient embedder's proxy, both ports are served by the last generation, with one
\* pair of filters per start, or by none (main.go:163-176, 340 and 364-380).
THEOREM RestCorrect == Spec => []PatientRestIsConsistent
<1>1. TypeInv /\ PatientOnly => PatientRestIsConsistent
  <2> SUFFICES ASSUME TypeInv, PatientInv, AtRest
               PROVE  IF IsRunning
                        THEN /\ http[server] = "serving" /\ httpPort = server
                             /\ httpsPort = server /\ https[server] = "accept"
                             /\ filters = starts
                        ELSE httpPort = None /\ httpsPort = None
    BY DEF PatientOnly, PatientRestIsConsistent
  <2> USE ConstantsOK DEF ConstantsOK, TypeInv, TypeOK, PatientInv, AtRest, IsRunning, Ports,
                          FiltersCounted, Gen
  <2>1. CASE NotBegun
    BY <2>1 DEF NotBegun
  <2>2. CASE CurrentUp
    BY <2>2 DEF CurrentUp
  <2>3. CASE CurrentDown
    BY <2>3 DEF CurrentDown
  <2>4. QED
    BY <2>1, <2>2, <2>3
<1>2. Init => PatientOnly
  BY InitPatientInv DEF PatientOnly
<1>3. QED
  BY InitTypeInv, StepTypeInv, StepPatientOnly, <1>1, <1>2, PTL DEF Spec

\* For a patient embedder no goroutine switches the proxy off behind its back
\* (main.go:171).
THEOREM SwitchCorrect == Spec => OnlyTheEmbedderSwitches
<1>1. TypeInv /\ PatientOnly /\ [Next]_vars
        => [Patient /\ server' # server => AssignServer \/ app = "stopping"]_vars
  <2> SUFFICES ASSUME TypeInv, PatientInv, Next, server' # server
               PROVE  AssignServer \/ app = "stopping"
    BY DEF PatientOnly
  <2>1. CASE Start \/ Stop \/ Timer
    BY <2>1 DEF Start, StartHttpServer, FinishStart, Stop, Shutdown, ShutdownNil, FinishStop,
                Timer, TickStart, TickStop
  <2>2. ASSUME NEW g \in Gen, HttpServer(g) PROVE app = "stopping"
    <3>1. http[g] = "returned" /\ server # None
      BY <2>2 DEF HttpServer, Listen, Serve, ServeReturns, ClearServer
    <3>2. g = starts /\ CurrentDown
      BY <3>1 DEF PatientInv, Others, NotBegun, CurrentUp, TypeInv, TypeOK, Gen
    <3>3. QED
      BY <3>1, <3>2 DEF CurrentDown
  <2>3. ASSUME NEW g \in Gen, HttpsListener(g) \/ Accept(g) \/ MonitorWakes(g) PROVE FALSE
    BY <2>3 DEF HttpsListener, ListenTls, Check, Close, Accept, MonitorWakes
  <2>4. QED
    BY <2>1, <2>2, <2>3 DEF Next, Crashed, vars
<1>2. Init => PatientOnly
  BY InitPatientInv DEF PatientOnly
<1>3. QED
  BY InitTypeInv, StepTypeInv, StepPatientOnly, <1>1, <1>2, PTL DEF Spec, OnlyTheEmbedderSwitches
=============================================================================
