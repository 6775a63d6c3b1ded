--------------------------- MODULE VhostMuxProofs ---------------------------
(***************************************************************************)
(* Proofs about VhostMux, for any connections, Listeners and names.        *)
(*                                                                         *)
(* A connection has an owner only after its goroutine's last send          *)
(* (Underway), and from then on the goroutine reports it only if the owner *)
(* has closed it (Owned): what the error handler closes is nobody's, or    *)
(* closed already.                                                         *)
(***************************************************************************)
EXTENDS VhostMux, TLAPS

\* Until a Listener is found nobody else knows of the connection.
Underway(c) ==
  stage[c] \in {"away", "deadline", "name", "lookup", "send"} =>
    given[c] = None /\ closed[c] = "no" /\ ~panicked[c] /\ reader # c

\* A connection that was handed over is reported only if its owner closed it.
Owned(c) ==
  given[c] # None =>
    /\ stage[c] \in {"clear", "reportClear", "done"} /\ ~panicked[c]
    /\ closed[c] # "reader"
    /\ stage[c] = "reportClear" \/ reader = c => closed[c] = "owner"

Ownership == \A c \in Conn : Underway(c) /\ Owned(c)

-----------------------------------------------------------------------------
\* The initial values have their types.
LEMMA InitTypeOK == Init => TypeOK
BY ConstantsOK DEF ConstantsOK, Init, TypeOK, Stages

\* Every step keeps the types; a target is there exactly while it is sent to.
LEMMA StepTypeOK == TypeOK /\ [Next]_vars => TypeOK'
<1> SUFFICES ASSUME TypeOK, [Next]_vars PROVE TypeOK'
  OBVIOUS
<1> USE ConstantsOK DEF ConstantsOK, TypeOK, Stages, names, each, main, Goto
<1>1. CASE UNCHANGED vars
  BY <1>1 DEF vars
<1>2. CASE AcceptFails
  BY <1>2 DEF AcceptFails
<1>3. CASE LoopReports
  BY <1>3 DEF LoopReports
<1>4. CASE Close
  BY <1>4 DEF Close
<1>5. ASSUME NEW c \in Conn, Arrive(c) PROVE TypeOK'
  BY <1>5 DEF Arrive
<1>6. ASSUME NEW c \in Conn, SetDeadline(c) PROVE TypeOK'
  BY <1>6 DEF SetDeadline
<1>7. ASSUME NEW c \in Conn, ReadName(c) PROVE TypeOK'
  BY <1>7 DEF ReadName
<1>8. ASSUME NEW c \in Conn, Get(c) PROVE TypeOK'
  <2>1. CASE Found(c) = {}
    BY <1>8, <2>1 DEF Get
  <2>2. CASE Found(c) # {}
    <3>1. PICK i \in Found(c) : target' = [target EXCEPT ![c] = registry[Candidates[c][i]]]
      BY <1>8, <2>2 DEF Get
    <3>2. Candidates[c][i] \in Name /\ registry[Candidates[c][i]] # None
      BY <3>1 DEF Found
    <3> QED
      BY <1>8, <2>2, <3>1, <3>2 DEF Get
  <2> QED
    BY <2>1, <2>2
<1>9. ASSUME NEW c \in Conn, SendPanics(c) PROVE TypeOK'
  BY <1>9 DEF SendPanics
<1>10. ASSUME NEW c \in Conn, ClearDeadline(c) PROVE TypeOK'
  <2>1. AfterClear(c) \in {"reportPanic", "done"} /\ stage[c] = "clear"
    BY <1>10 DEF AfterClear, ClearDeadline
  <2>2. PICK next \in {"reportPanic", "done", "reportClear"} : stage' = [stage EXCEPT ![c] = next]
    BY <1>10, <2>1 DEF ClearDeadline
  <2>3. /\ stage' \in [Conn -> Stages]
        /\ \A d \in Conn : stage'[d] = "send" <=> stage[d] = "send"
    BY <2>1, <2>2
  <2>4. deadline' \in [Conn -> BOOLEAN]
    BY <1>10 DEF ClearDeadline
  <2>5. UNCHANGED <<main, names, target, panicked, given, closed, reader>>
    BY <1>10 DEF ClearDeadline
  <2> QED
    BY <2>3, <2>4, <2>5
<1>11. ASSUME NEW c \in Conn, Report(c) PROVE TypeOK'
  <2>1. stage'[c] \in {"clear", "reportPanic", "done"} /\ stage' = [stage EXCEPT ![c] = stage'[c]]
    BY <1>11 DEF Report, Reporting, AfterClear
  <2>2. panicked' \in [Conn -> BOOLEAN]
    BY <1>11, Zenon DEF Report
  <2> QED
    BY <1>11, <2>1, <2>2 DEF Report, Reporting
<1>12. ASSUME NEW c \in Conn, HandleError(c) PROVE TypeOK'
  BY <1>12 DEF HandleError
<1>13. ASSUME NEW c \in Conn, OwnerCloses(c) PROVE TypeOK'
  BY <1>13 DEF OwnerCloses
<1>14. ASSUME NEW c \in Conn, NEW l \in Listener, HandOver(c, l) PROVE TypeOK'
  BY <1>14 DEF HandOver
<1>15. ASSUME NEW l \in Listener, Listen(l) PROVE TypeOK'
  <2>1. listener' \in [Listener -> {"new", "open", "deleted", "closed", "refused"}]
    BY <1>15 DEF Listen
  <2>2. registry' \in [Name -> Listener \cup {None}]
    BY <1>15 DEF Listen
  <2> QED
    BY <1>15, <2>1, <2>2 DEF Listen
<1>16. ASSUME NEW l \in Listener, Delete(l) PROVE TypeOK'
  BY <1>16 DEF Delete
<1>17. ASSUME NEW l \in Listener, CloseAccept(l) PROVE TypeOK'
  BY <1>17 DEF CloseAccept
<1> QED
  BY <1>1, <1>2, <1>3, <1>4, <1>5, <1>6, <1>7, <1>8, <1>9, <1>10, <1>11, <1>12, <1>13, <1>14,
     <1>15, <1>16, <1>17 DEF Next, Handle

\* Types hold for any connections, Listeners and names.
THEOREM TypeCorrect == Spec => []TypeOK
BY InitTypeOK, StepTypeOK, PTL DEF Spec

-----------------------------------------------------------------------------
\* No step but Listen and Delete touches the registry, or opens or ends the
\* registration of a Listener.
LEMMA StepRegistered == TypeOK /\ RegisteredWhileOpen /\ [Next]_vars => RegisteredWhileOpen'
<1> SUFFICES ASSUME TypeOK, RegisteredWhileOpen, [Next]_vars PROVE RegisteredWhileOpen'
  OBVIOUS
<1> USE ConstantsOK DEF ConstantsOK, TypeOK, RegisteredWhileOpen
<1>1. CASE UNCHANGED names
  BY <1>1 DEF names
<1>2. ASSUME NEW l \in Listener, Listen(l) PROVE RegisteredWhileOpen'
  <2>1. CASE registry[NameOf[l]] = None
    <3>1. /\ registry' = [registry EXCEPT ![NameOf[l]] = l]
          /\ listener' = [listener EXCEPT ![l] = "open"]
          /\ NameOf[l] \in Name
      BY <1>2, <2>1 DEF Listen
    <3>2. \A k \in Listener \ {l} : NameOf[k] = NameOf[l] => listener[k] # "open"
      BY <2>1
    <3>3. \A k \in Listener \ {l} : listener'[k] = listener[k] /\ NameOf[k] \in Name
      BY <3>1
    <3>4. listener'[l] = "open" /\ registry'[NameOf[l]] = l
      BY <3>1
    <3>5. \A n \in Name \ {NameOf[l]} : registry'[n] = registry[n]
      BY <3>1
    <3>6. ASSUME NEW k \in Listener PROVE listener'[k] = "open" <=> registry'[NameOf[k]] = k
      <4>1. CASE k = l
        BY <4>1, <3>4
      <4>2. CASE k # l /\ NameOf[k] = NameOf[l]
        BY <4>2, <3>2, <3>3, <3>4
      <4>3. CASE NameOf[k] # NameOf[l]
        BY <4>3, <3>3, <3>5
      <4> QED
        BY <4>1, <4>2, <4>3
    <3> QED
      BY <3>6
  <2>2. CASE registry[NameOf[l]] # None
    <3>1. /\ registry' = registry
          /\ listener' = [listener EXCEPT ![l] = "refused"] /\ listener[l] = "new"
      BY <1>2, <2>2 DEF Listen
    <3>2. \A k \in Listener : listener'[k] = "open" <=> listener[k] = "open"
      BY <3>1
    <3> QED
      BY <3>1, <3>2
  <2> QED
    BY <2>1, <2>2
<1>3. ASSUME NEW l \in Listener, Delete(l) PROVE RegisteredWhileOpen'
  BY <1>3 DEF Delete
<1>4. ASSUME NEW l \in Listener, CloseAccept(l) PROVE RegisteredWhileOpen'
  BY <1>4 DEF CloseAccept
<1>5. UNCHANGED names \/ \E l \in Listener : Listen(l) \/ Delete(l) \/ CloseAccept(l)
  BY Zenon DEF Next, vars, names, Handle, AcceptFails, LoopReports, Close, Arrive, SetDeadline,
     ReadName, Get, SendPanics, ClearDeadline, Report, HandleError, OwnerCloses, HandOver
<1> QED
  BY <1>1, <1>2, <1>3, <1>4, <1>5

\* A Listener is found under its name from Listen to Close, whatever other
\* Listeners have had the name or ask for it.
THEOREM RegistrationCorrect == Spec => []RegisteredWhileOpen
<1>1. Init => RegisteredWhileOpen
  BY ConstantsOK DEF ConstantsOK, Init, RegisteredWhileOpen
<1> QED
  BY <1>1, TypeCorrect, StepRegistered, PTL DEF Spec

-----------------------------------------------------------------------------
\* A step is about one connection, or about none.
LEMMA StepOwnership == TypeOK /\ Ownership /\ [Next]_vars => Ownership'
<1> SUFFICES ASSUME TypeOK, Ownership, [Next]_vars, NEW d \in Conn
             PROVE  Underway(d)' /\ Owned(d)'
  BY DEF Ownership
<1> Underway(d) /\ Owned(d)
  BY DEF Ownership
<1> USE ConstantsOK DEF ConstantsOK, TypeOK, Underway, Owned, names, each, main, Goto
<1>1. CASE UNCHANGED each /\ (reader' = reader \/ reader' = "gone")
  BY <1>1
<1>2. AcceptFails \/ LoopReports \/ Close \/ UNCHANGED vars
      \/ (\E l \in Listener : Listen(l) \/ Delete(l) \/ CloseAccept(l)) =>
        UNCHANGED each /\ (reader' = reader \/ reader' = "gone")
  BY DEF AcceptFails, LoopReports, Close, vars, Listen, Delete, CloseAccept
<1>5. ASSUME NEW c \in Conn, Arrive(c) PROVE Underway(d)' /\ Owned(d)'
  BY <1>5 DEF Arrive
<1>6. ASSUME NEW c \in Conn, SetDeadline(c) PROVE Underway(d)' /\ Owned(d)'
  BY <1>6 DEF SetDeadline
<1>7. ASSUME NEW c \in Conn, ReadName(c) PROVE Underway(d)' /\ Owned(d)'
  BY <1>7 DEF ReadName
<1>8. ASSUME NEW c \in Conn, Get(c) PROVE Underway(d)' /\ Owned(d)'
  BY <1>8 DEF Get
<1>9. ASSUME NEW c \in Conn, SendPanics(c) PROVE Underway(d)' /\ Owned(d)'
  BY <1>9 DEF SendPanics
<1>10. ASSUME NEW c \in Conn, ClearDeadline(c) PROVE Underway(d)' /\ Owned(d)'
  BY <1>10 DEF ClearDeadline, AfterClear
<1>11. ASSUME NEW c \in Conn, Report(c) PROVE Underway(d)' /\ Owned(d)'
  <2>1. CASE c = d
    BY <1>11, <2>1 DEF Report, Reporting, AfterClear
  <2>2. CASE c # d
    BY <1>11, <2>2 DEF Report, Reporting
  <2> QED
    BY <2>1, <2>2
<1>12. ASSUME NEW c \in Conn, HandleError(c) PROVE Underway(d)' /\ Owned(d)'
  BY <1>12 DEF HandleError
<1>13. ASSUME NEW c \in Conn, OwnerCloses(c) PROVE Underway(d)' /\ Owned(d)'
  BY <1>13 DEF OwnerCloses
<1>14. ASSUME NEW c \in Conn, NEW l \in Listener, HandOver(c, l) PROVE Underway(d)' /\ Owned(d)'
  BY <1>14 DEF HandOver
<1> QED
  BY <1>1, <1>2, <1>5, <1>6, <1>7, <1>8, <1>9, <1>10, <1>11, <1>12, <1>13, <1>14
  DEF Next, Handle

\* The error handler never closes a connection that was handed to a Listener.
THEOREM OwnershipCorrect == Spec => []OwnerKeepsConnection
<1>1. Init => Ownership
  <2> SUFFICES ASSUME Init, NEW c \in Conn PROVE Underway(c) /\ Owned(c)
    BY DEF Ownership
  <2>1. given[c] = None /\ closed[c] = "no" /\ ~panicked[c] /\ reader # c
    BY ConstantsOK DEF ConstantsOK, Init
  <2> QED
    BY <2>1 DEF Underway, Owned
<1>2. Ownership => OwnerKeepsConnection
  BY DEF Ownership, Owned, OwnerKeepsConnection
<1> QED
  BY <1>1, <1>2, TypeCorrect, StepOwnership, PTL DEF Spec

-----------------------------------------------------------------------------
\* A goroutine ends by clearing the deadline or with a report.
LEMMA StepDeadline == TypeOK /\ DeadlineCleared /\ [Next]_vars => DeadlineCleared'
<1> SUFFICES ASSUME TypeOK, DeadlineCleared, [Next]_vars, NEW d \in Conn,
                    stage'[d] = "done", closed'[d] = "no", reader' # d
             PROVE  ~deadline'[d]
  BY DEF DeadlineCleared
<1> USE ConstantsOK DEF ConstantsOK, TypeOK, DeadlineCleared, names, each, main, Goto
<1>1. CASE UNCHANGED each /\ (reader' = reader \/ (reader' = "gone" /\ reader = "waiting"))
  BY <1>1
<1>2. AcceptFails \/ LoopReports \/ Close \/ UNCHANGED vars
      \/ (\E l \in Listener : Listen(l) \/ Delete(l) \/ CloseAccept(l)) =>
        UNCHANGED each /\ (reader' = reader \/ (reader' = "gone" /\ reader = "waiting"))
  <2>1. LoopReports =>
          UNCHANGED each /\ (reader' = reader \/ (reader' = "gone" /\ reader = "waiting"))
    BY DEF LoopReports
  <2>2. AcceptFails \/ Close \/ UNCHANGED vars => UNCHANGED <<each, reader>>
    BY Zenon DEF AcceptFails, Close, vars
  <2>3. \A l \in Listener : Listen(l) \/ Delete(l) \/ CloseAccept(l) => UNCHANGED <<each, reader>>
    BY Zenon DEF Listen, Delete, CloseAccept
  <2> QED
    BY <2>1, <2>2, <2>3, Zenon DEF each
<1>5. ASSUME NEW c \in Conn, Arrive(c) PROVE ~deadline'[d]
  BY <1>5 DEF Arrive
<1>6. ASSUME NEW c \in Conn, SetDeadline(c) PROVE ~deadline'[d]
  BY <1>6 DEF SetDeadline
<1>7. ASSUME NEW c \in Conn, ReadName(c) PROVE ~deadline'[d]
  BY <1>7 DEF ReadName
<1>8. ASSUME NEW c \in Conn, Get(c) PROVE ~deadline'[d]
  BY <1>8 DEF Get
<1>9. ASSUME NEW c \in Conn, SendPanics(c) PROVE ~deadline'[d]
  BY <1>9 DEF SendPanics
<1>10. ASSUME NEW c \in Conn, ClearDeadline(c) PROVE ~deadline'[d]
  BY <1>10 DEF ClearDeadline, AfterClear
<1>11. ASSUME NEW c \in Conn, Report(c) PROVE ~deadline'[d]
  <2>1. c # d /\ stage'[d] = stage[d] /\ reader # d /\ UNCHANGED <<closed, deadline>>
    BY <1>11 DEF Report
  <2> QED
    BY <2>1
<1>12. ASSUME NEW c \in Conn, HandleError(c) PROVE ~deadline'[d]
  BY <1>12 DEF HandleError
<1>13. ASSUME NEW c \in Conn, OwnerCloses(c) PROVE ~deadline'[d]
  BY <1>13 DEF OwnerCloses
<1>14. ASSUME NEW c \in Conn, NEW l \in Listener, HandOver(c, l) PROVE ~deadline'[d]
  BY <1>14 DEF HandOver
<1> QED
  BY <1>1, <1>2, <1>5, <1>6, <1>7, <1>8, <1>9, <1>10, <1>11, <1>12, <1>13, <1>14
  DEF Next, Handle

\* A connection that is still open when its goroutine is over, and not about
\* to be closed, has no deadline of the muxer's left on it.
THEOREM DeadlineCorrect == Spec => []DeadlineCleared
<1>1. Init => DeadlineCleared
  BY DEF Init, DeadlineCleared
<1> QED
  BY <1>1, TypeCorrect, StepDeadline, PTL DEF Spec
=============================================================================
