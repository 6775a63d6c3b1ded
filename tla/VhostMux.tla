----------------------------- MODULE VhostMux -----------------------------
(***************************************************************************)
(* The virtual host muxer (src/goproxy/vhost_mux.go).  Its main loop takes *)
(* connections from one listener; a goroutine for each learns the name the *)
(* connection is for, looks up the Listener registered for it, and sends   *)
(* the connection over that Listener's channel.  What goes wrong is sent   *)
(* over one unbuffered channel to whoever handles errors: the loop of a    *)
(* TLS muxer or of an HTTP muxer.  Listeners come and go meanwhile.        *)
(***************************************************************************)
EXTENDS Naturals, Sequences

CONSTANTS
  Conn,          \* connections that may come in
  Listener, Name,
  NameOf,        \* the name each Listener is made for
  Candidates,    \* for each connection, its host's name and then the wildcards
  MuxKinds,      \* which handlers of errors to look at
  None

ASSUME ConstantsOK ==
  /\ NameOf \in [Listener -> Name]
  /\ Candidates \in [Conn -> Seq(Name)]
  /\ MuxKinds \subseteq {"tls", "http"}
  /\ None \notin Listener
  /\ "waiting" \notin Conn /\ "gone" \notin Conn

VARIABLES
  kind,        \* whose HandleErrors runs
  underlying,  \* the wrapped listener: open or closed
  loop,        \* run: in Accept, sending an error, or ended
  registry,    \* name -> Listener
  listener,    \* each Listener: new, open, deleted (in Close), closed, or refused
  stage,       \* where the goroutine of each connection is
  target,      \* the Listener that get found, until the send to it is over
  panicked,    \* the send on the closed channel panicked, to be recovered from
  given,       \* the Listener a connection was handed to
  deadline,    \* the muxer's deadline is set
  closed,      \* who closed the connection
  reader       \* the error handler: waiting, at a connection, or gone

vars == <<kind, underlying, loop, registry, listener, stage, target, panicked,
          given, deadline, closed, reader>>
names == <<registry, listener>>
each == <<stage, target, panicked, given, deadline, closed>>
main == <<kind, underlying, loop>>

Stages == {"away", "deadline", "name", "lookup", "send", "clear", "done",
           "report", "reportDeadline", "reportClear", "reportPanic"}
Reporting == {"report", "reportDeadline", "reportClear", "reportPanic"}

Init ==
  /\ kind \in MuxKinds
  /\ underlying = "open" /\ loop = "accept" /\ reader = "waiting"
  /\ registry = [n \in Name |-> None]
  /\ listener = [l \in Listener |-> "new"]
  /\ stage = [c \in Conn |-> "away"]
  /\ target = [c \in Conn |-> None] /\ given = target
  /\ panicked = [c \in Conn |-> FALSE] /\ deadline = panicked
  /\ closed = [c \in Conn |-> "no"]

Goto(c, s) == stage' = [stage EXCEPT ![c] = s]

-----------------------------------------------------------------------------
(* run.                                                                    *)

Arrive(c) ==
  /\ loop = "accept" /\ underlying = "open"
  /\ stage[c] = "away"
  /\ Goto(c, "deadline")
  /\ UNCHANGED <<main, names, target, panicked, given, deadline, closed, reader>>

\* isClosed asks whether the error is temporary: net's error for a closed
\* listener is not, that for a lack of file descriptors is.
AcceptFails ==
  /\ loop = "accept"
  /\ \/ underlying = "closed" /\ loop' = "sendError"
     \/ underlying = "open" /\ loop' = "sendClosed"
  /\ UNCHANGED <<kind, underlying, names, each, reader>>

\* sendError of the loop, and what HandleErrors does with an error that
\* comes without a connection: the TLS muxer's returns at Closed.
LoopReports ==
  /\ loop \in {"sendError", "sendClosed"}
  /\ reader = "waiting"
  /\ \/ loop = "sendError" /\ loop' = "accept" /\ UNCHANGED reader
     \/ /\ loop = "sendClosed" /\ loop' = "ended"
        /\ reader' = IF kind = "tls" THEN "gone" ELSE reader
  /\ UNCHANGED <<kind, underlying, names, each>>

Close ==
  /\ underlying = "open"
  /\ underlying' = "closed"
  /\ UNCHANGED <<kind, loop, names, each, reader>>

-----------------------------------------------------------------------------
(* handle.                                                                 *)

\* A deadline cannot be set on a closed connection.
SetDeadline(c) ==
  /\ stage[c] = "deadline"
  /\ IF closed[c] = "no"
     THEN deadline' = [deadline EXCEPT ![c] = TRUE] /\ Goto(c, "name")
     ELSE Goto(c, "reportDeadline") /\ UNCHANGED deadline
  /\ UNCHANGED <<main, names, target, panicked, given, closed, reader>>

\* vhostFn: TLS() or HTTP(); the deadline sees to it that it ends.
ReadName(c) ==
  /\ stage[c] = "name"
  /\ \/ Goto(c, "lookup")
     \/ Goto(c, "report")
  /\ UNCHANGED <<main, names, target, panicked, given, deadline, closed, reader>>

Found(c) == {i \in 1..Len(Candidates[c]) : registry[Candidates[c][i]] # None}

\* Mutant: whatever the registry says is sent to.
GetUnchecked(c) ==
  /\ stage[c] = "lookup"
  /\ target' = [target EXCEPT ![c] = registry[Candidates[c][1]]]
  /\ Goto(c, "send")
  /\ UNCHANGED <<main, names, panicked, given, deadline, closed, reader>>

\* get: the name itself, else the most specific wildcard.
Get(c) ==
  /\ stage[c] = "lookup"
  /\ IF Found(c) = {} THEN Goto(c, "report") /\ UNCHANGED target
     ELSE /\ \E i \in Found(c) :
               /\ \A k \in Found(c) : i <= k
               /\ target' = [target EXCEPT ![c] = registry[Candidates[c][i]]]
          /\ Goto(c, "send")
  /\ UNCHANGED <<main, names, panicked, given, deadline, closed, reader>>

\* Mutant: handle falls through from the hand-over to the error.
HandOverReports(c, l) ==
  /\ stage[c] = "send" /\ target[c] = l
  /\ listener[l] \in {"open", "deleted"}
  /\ given' = [given EXCEPT ![c] = l]
  /\ target' = [target EXCEPT ![c] = None]
  /\ Goto(c, "report")
  /\ UNCHANGED <<main, names, panicked, deadline, closed, reader>>

\* Mutant: handle ends when the connection is handed over.
HandOverEnds(c, l) ==
  /\ stage[c] = "send" /\ target[c] = l
  /\ listener[l] \in {"open", "deleted"}
  /\ given' = [given EXCEPT ![c] = l]
  /\ target' = [target EXCEPT ![c] = None]
  /\ Goto(c, "done")
  /\ UNCHANGED <<main, names, panicked, deadline, closed, reader>>

\* l.accept <- vconn meets an Accept, if the owner calls it.
HandOver(c, l) ==
  /\ stage[c] = "send" /\ target[c] = l
  /\ listener[l] \in {"open", "deleted"}
  /\ given' = [given EXCEPT ![c] = l]
  /\ target' = [target EXCEPT ![c] = None]
  /\ Goto(c, "clear")
  /\ UNCHANGED <<main, names, panicked, deadline, closed, reader>>

\* A send on a closed channel panics; the deferred functions run.
SendPanics(c) ==
  /\ stage[c] = "send" /\ listener[target[c]] = "closed"
  /\ panicked' = [panicked EXCEPT ![c] = TRUE]
  /\ target' = [target EXCEPT ![c] = None]
  /\ Goto(c, "clear")
  /\ UNCHANGED <<main, names, given, deadline, closed, reader>>

AfterClear(c) == IF panicked[c] THEN "reportPanic" ELSE "done"

\* The deferred clearing of the deadline, which fails on a closed connection.
ClearDeadline(c) ==
  /\ stage[c] = "clear"
  /\ IF closed[c] = "no"
     THEN deadline' = [deadline EXCEPT ![c] = FALSE] /\ Goto(c, AfterClear(c))
     ELSE Goto(c, "reportClear") /\ UNCHANGED deadline
  /\ UNCHANGED <<main, names, target, panicked, given, closed, reader>>

\* sendError meets NextError.
Report(c) ==
  /\ stage[c] \in Reporting
  /\ reader = "waiting"
  /\ reader' = c
  /\ Goto(c, CASE stage[c] = "report" -> "clear"
               [] stage[c] = "reportClear" -> AfterClear(c)
               [] OTHER -> "done")
  /\ panicked' = [panicked EXCEPT ![c] = @ /\ stage[c] # "reportPanic"]
  /\ UNCHANGED <<main, names, target, given, deadline, closed>>

\* HandleErrors closes what is reported (HTTP: after an error page).
HandleError(c) ==
  /\ reader = c
  /\ closed' = [closed EXCEPT ![c] = IF @ = "no" THEN "reader" ELSE @]
  /\ reader' = "waiting"
  /\ UNCHANGED <<main, names, stage, target, panicked, given, deadline>>

-----------------------------------------------------------------------------
(* The owners of the Listeners.                                            *)

Listen(l) ==
  /\ listener[l] = "new"
  /\ IF registry[NameOf[l]] = None
     THEN /\ registry' = [registry EXCEPT ![NameOf[l]] = l]
          /\ listener' = [listener EXCEPT ![l] = "open"]
     ELSE listener' = [listener EXCEPT ![l] = "refused"] /\ UNCHANGED registry
  /\ UNCHANGED <<main, each, reader>>

\* Mutant: without closeOnce a second Close runs del again.
DeleteAgain(l) ==
  /\ listener[l] \in {"open", "closed"}
  /\ registry' = [registry EXCEPT ![NameOf[l]] = None]
  /\ listener' = [listener EXCEPT ![l] = IF @ = "open" THEN "deleted" ELSE @]
  /\ UNCHANGED <<main, each, reader>>

\* Listener.Close: del, then close of the channel, once.
Delete(l) ==
  /\ listener[l] = "open"
  /\ registry' = [registry EXCEPT ![NameOf[l]] = None]
  /\ listener' = [listener EXCEPT ![l] = "deleted"]
  /\ UNCHANGED <<main, each, reader>>

\* Mutant: the channel is not closed.
CloseAcceptForgotten(l) ==
  /\ listener[l] = "deleted"
  /\ UNCHANGED vars

CloseAccept(l) ==
  /\ listener[l] = "deleted"
  /\ listener' = [listener EXCEPT ![l] = "closed"]
  /\ UNCHANGED <<main, registry, each, reader>>

\* Of no consequence to the muxer once the goroutine is over.
OwnerCloses(c) ==
  /\ given[c] # None /\ closed[c] = "no" /\ stage[c] # "done"
  /\ closed' = [closed EXCEPT ![c] = "owner"]
  /\ UNCHANGED <<main, names, stage, target, panicked, given, deadline, reader>>

Handle(c) ==
  \/ SetDeadline(c) \/ ReadName(c) \/ Get(c)
  \/ SendPanics(c) \/ ClearDeadline(c)

Next ==
  \/ AcceptFails \/ LoopReports \/ Close
  \/ \E c \in Conn :
       \/ Arrive(c) \/ Handle(c) \/ Report(c) \/ HandleError(c) \/ OwnerCloses(c)
       \/ \E l \in Listener : HandOver(c, l)
  \/ \E l \in Listener :
       Listen(l) \/ Delete(l) \/ CloseAccept(l)

Spec == Init /\ [][Next]_vars

\* Goroutines go on, owners accept from a Listener until they close it, and
\* a channel serves those that wait to send in the order they came.  Nobody
\* has to connect, listen or close; Accept need not fail on an open listener.
FairSpec ==
  /\ Spec
  /\ WF_vars(underlying = "closed" /\ AcceptFails) /\ SF_vars(LoopReports)
  /\ \A c \in Conn :
       /\ WF_vars(Handle(c)) /\ SF_vars(Report(c)) /\ WF_vars(HandleError(c))
       /\ WF_vars(\E l \in Listener : listener[l] = "open" /\ HandOver(c, l))
  /\ \A l \in Listener : WF_vars(CloseAccept(l))

-----------------------------------------------------------------------------
(* Properties.                                                             *)

\* Every variable has its type; a goroutine that sends has a Listener to
\* send to.
TypeOK ==
  /\ kind \in MuxKinds
  /\ underlying \in {"open", "closed"}
  /\ loop \in {"accept", "sendError", "sendClosed", "ended"}
  /\ registry \in [Name -> Listener \cup {None}]
  /\ listener \in [Listener -> {"new", "open", "deleted", "closed", "refused"}]
  /\ stage \in [Conn -> Stages]
  /\ target \in [Conn -> Listener \cup {None}]
  /\ \A c \in Conn : stage[c] = "send" <=> target[c] # None
  /\ panicked \in [Conn -> BOOLEAN]
  /\ given \in [Conn -> Listener \cup {None}]
  /\ deadline \in [Conn -> BOOLEAN]
  /\ closed \in [Conn -> {"no", "owner", "reader"}]
  /\ reader \in Conn \cup {"waiting", "gone"}

\* A Listener is registered, under its name, from Listen to the first Close,
\* also when another takes its name over (vhost_mux.go:179-195, 323-329).
RegisteredWhileOpen ==
  \A l \in Listener : listener[l] = "open" <=> registry[NameOf[l]] = l

\* A connection that a Listener was given is not closed under its owner by
\* the error handler, although its deadline is cleared, and the failure to do
\* so reported, after it was handed over (vhost_mux.go:132-136, 155).
OwnerKeepsConnection ==
  \A c \in Conn : given[c] # None => closed[c] # "reader"

\* When a connection's goroutine is over, the muxer's deadline is off the
\* connection, unless that is closed (vhost_mux.go:128-136).
DeadlineCleared ==
  \A c \in Conn : stage[c] = "done" /\ closed[c] = "no" /\ reader # c => ~deadline[c]

\* Every connection accepted is handed to a Listener or reported, and its
\* goroutine ends, also when the Listener closes while the connection waits
\* for it (vhost_mux.go:119-160), as long as errors are read: the TLS muxer's
\* handler returns at an error it takes for the end.
EveryConnectionSettles ==
  \A c \in Conn : stage[c] # "away" ~> stage[c] = "done" \/ reader = "gone"

\* "Closed is returned when the underlying connection is closed"
\* (vhost_mux.go:32).
CloseIsReported == underlying = "closed" ~> loop = "ended"
=============================================================================
