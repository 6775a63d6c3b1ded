--------------------------- MODULE InteropSession ---------------------------
(***************************************************************************)
(* The interop session map (goproxy/session.go) and the three code paths   *)
(* that expose a request to the embedder through it: the request and       *)
(* response filters registered by Start (goproxy/main.go), which serve     *)
(* HTTP/1 and HTTP/2 exchanges, and the early TLS path of the HTTPS        *)
(* listener.  A path saves a session under an integer handle, fires a      *)
(* callback with that handle, and removes the session.  The callback runs  *)
(* in the embedder and reaches the session only through the handle.        *)
(*                                                                         *)
(* The three paths draw handles from three independent sources: the        *)
(* session counter of goproxy (HTTP/1), http2ProxySessionCounter (HTTP/2)  *)
(* and the local TCP port (TLS).  Every write of the map holds             *)
(* mapWriteLock; CreateResponse reads the map without it.                  *)
(*                                                                         *)
(* The callbacks modelled are the ones of the sample embedder: look at the *)
(* URL behind the handle and answer with a page of one's own if unwanted.  *)
(***************************************************************************)
EXTENDS Naturals, FiniteSets

CONSTANTS
  Exchange,    \* goroutines, each carrying one client request
  Source,      \* Source[e]: which path serves e
  Id,          \* the handles in play (a bound on the two counters)
  Port,        \* the handles that are local TCP ports
  Verdict,     \* Verdict[e]: what the loaded lists say of e's URL
  Forum,       \* exchanges whose URL BeforeRequest answers with a page
  BlockPage,   \* exchanges that the Blacklisted event answers with a page
  BadBody,     \* exchanges whose response BeforeResponse replaces
  None, Upstream

Sources == {"http1", "http2", "tls"}

ASSUME ConstantsOK ==
  /\ Source  \in [Exchange -> Sources]
  /\ Verdict \in [Exchange -> {"none", "white", "black"}]
  /\ Id \subseteq Nat \ {0} /\ None \notin Id
  /\ Port \subseteq Id
  /\ Forum \subseteq Exchange /\ BlockPage \subseteq Exchange /\ BadBody \subseteq Exchange
  /\ None \notin Exchange /\ Upstream \notin Exchange /\ None # Upstream

Phases == {"request", "response"}

\* A session object; the request and the response filter each create their own.
Session == Exchange \X Phases

ASSUME NoneIsNoSession == None \notin Session

Labels == {"idle", "save", "saving", "callback", "looked", "create", "assign",
           "returned", "tunnel", "remove", "removing", "upstream", "finish", "done"}

VARIABLES
  pc,          \* where each goroutine is
  phase,       \* which of the two filters it is in
  counter,     \* the last handle drawn from each of the two counters
  id,          \* the handle of each exchange
  sessionMap,  \* handle -> session object
  lock,        \* the goroutine that holds mapWriteLock and is writing the map
  response,    \* session.response of every session object
  seen,        \* what the last lookup by a running callback returned
  outcome,     \* what the first filter decided
  filtered,    \* what the response callback left as the response, None before
  crashed      \* the Go runtime aborted on an unsynchronised map access

vars == <<pc, phase, counter, id, sessionMap, lock, response, seen, outcome,
          filtered, crashed>>

Outcomes == {"pending", "blacklisted", "forward", "answered", "chain", "connect"}

TypeOK ==
  /\ pc \in [Exchange -> Labels]
  /\ phase \in [Exchange -> Phases]
  /\ counter \in [{"http1", "http2"} -> Nat]
  /\ id \in [Exchange -> Id \union {None}]
  /\ sessionMap \in [Id -> Session \union {None}]
  /\ lock \in Exchange \union {None}
  /\ response \in [Session -> Exchange \union {None, Upstream}]
  /\ seen \in [Exchange -> Session \union {None}]
  /\ outcome \in [Exchange -> Outcomes]
  /\ filtered \in [Exchange -> Exchange \union {None, Upstream}]
  /\ crashed \in BOOLEAN

Init ==
  /\ pc = [e \in Exchange |-> "idle"]
  /\ phase = [e \in Exchange |-> "request"]
  /\ counter = [s \in {"http1", "http2"} |-> 0]
  /\ id = [e \in Exchange |-> None]
  /\ sessionMap = [i \in Id |-> None]
  /\ lock = None
  /\ response = [s \in Session |-> None]
  /\ seen = [e \in Exchange |-> None]
  /\ outcome = [e \in Exchange |-> "pending"]
  /\ filtered = [e \in Exchange |-> None]
  /\ crashed = FALSE

Goto(e, from, to) ==
  /\ pc[e] = from
  /\ pc' = [pc EXCEPT ![e] = to]

Own(e) == <<e, phase[e]>>

(***************************************************************************)
(* A request reaches one of the paths and gets its handle.                 *)
(***************************************************************************)
\* Mutant: the counter is read but never advanced.
ArriveCountedStuck(e) ==
  /\ Source[e] # "tls"
  /\ counter[Source[e]] + 1 \in Id
  /\ Goto(e, "idle", "save")
  /\ id' = [id EXCEPT ![e] = counter[Source[e]] + 1]
  /\ UNCHANGED <<phase, counter, sessionMap, lock, response, seen, outcome, filtered, crashed>>

ArriveCounted(e) ==
  /\ Source[e] # "tls"
  /\ counter[Source[e]] + 1 \in Id
  /\ Goto(e, "idle", "save")
  /\ counter' = [counter EXCEPT ![Source[e]] = @ + 1]
  /\ id' = [id EXCEPT ![e] = counter[Source[e]] + 1]
  /\ UNCHANGED <<phase, sessionMap, lock, response, seen, outcome, filtered, crashed>>

\* Mutant: the handle is one past the port.
ArriveTlsOffByOne(e) ==
  /\ Source[e] = "tls"
  /\ Goto(e, "idle", "save")
  /\ \E p \in Port : id' = [id EXCEPT ![e] = p + 1]
  /\ UNCHANGED <<phase, counter, sessionMap, lock, response, seen, outcome, filtered, crashed>>

\* A port names a connection only together with its address, so two
\* connections of the TLS path may have the same handle.
ArriveTls(e) ==
  /\ Source[e] = "tls"
  /\ Goto(e, "idle", "save")
  /\ \E p \in Port : id' = [id EXCEPT ![e] = p]
  /\ UNCHANGED <<phase, counter, sessionMap, lock, response, seen, outcome, filtered, crashed>>

(***************************************************************************)
(* saveSessionToInteropMap and removeSessionFromInteropMap.  The lock is   *)
(* held from Begin to End, and the map is in the middle of a write.        *)
(***************************************************************************)
SaveBegin(e) ==
  /\ lock = None
  /\ Goto(e, "save", "saving")
  /\ lock' = e
  /\ UNCHANGED <<phase, counter, id, sessionMap, response, seen, outcome, filtered, crashed>>

\* Mutant: the response filter saves the session of the request filter again.
SaveEndRequestAgain(e) ==
  /\ Goto(e, "saving", "callback")
  /\ sessionMap' = [sessionMap EXCEPT ![id[e]] = <<e, "request">>]
  /\ lock' = None
  /\ UNCHANGED <<phase, counter, id, response, seen, outcome, filtered, crashed>>

SaveEnd(e) ==
  /\ Goto(e, "saving", "callback")
  /\ sessionMap' = [sessionMap EXCEPT ![id[e]] = Own(e)]
  /\ lock' = None
  /\ UNCHANGED <<phase, counter, id, response, seen, outcome, filtered, crashed>>

RemoveBegin(e) ==
  /\ lock = None
  /\ Goto(e, "remove", "removing")
  /\ lock' = e
  /\ UNCHANGED <<phase, counter, id, sessionMap, response, seen, outcome, filtered, crashed>>

\* Mutant: a replaced response goes through the response filter again.
AfterRemoveFilterAgain(e) ==
  IF phase[e] = "response" THEN (IF response[Own(e)] = e THEN "save" ELSE "finish")
  ELSE IF outcome[e] = "forward" THEN "upstream"
  ELSE IF outcome[e] = "answered" /\ Source[e] = "http1" THEN "save"
  ELSE "done"

\* What follows the removal: the response filter reads session.response; a
\* request let through goes upstream; goproxy runs the response filter on the
\* (HTML) page an HTTP/1 request was answered with, the HTTP/2 handler not.
AfterRemove(e) ==
  IF phase[e] = "response" THEN "finish"
  ELSE IF outcome[e] = "forward" THEN "upstream"
  ELSE IF outcome[e] = "answered" /\ Source[e] = "http1" THEN "save"
  ELSE "done"

\* Mutant: the entry stays in the map.
RemoveEndKeeps(e) ==
  /\ Goto(e, "removing", AfterRemove(e))
  /\ lock' = None
  /\ IF AfterRemove(e) = "save"
       THEN /\ phase' = [phase EXCEPT ![e] = "response"]
            /\ response' = [response EXCEPT ![<<e, "response">>] = response[<<e, "request">>]]
       ELSE UNCHANGED <<phase, response>>
  /\ UNCHANGED <<counter, id, sessionMap, seen, outcome, filtered, crashed>>

RemoveEnd(e) ==
  /\ Goto(e, "removing", AfterRemove(e))
  /\ sessionMap' = [sessionMap EXCEPT ![id[e]] = None]
  /\ lock' = None
  /\ IF AfterRemove(e) = "save"
       THEN /\ phase' = [phase EXCEPT ![e] = "response"]
            /\ response' = [response EXCEPT ![<<e, "response">>] = response[<<e, "request">>]]
       ELSE UNCHANGED <<phase, response>>
  /\ UNCHANGED <<counter, id, seen, outcome, filtered, crashed>>

(***************************************************************************)
(* The callback, running in the embedder with the handle id[e].            *)
(***************************************************************************)
\* RequestGetUrl and the other getters look the handle up under the lock.
Getter(e) ==
  /\ lock = None
  /\ Goto(e, "callback", "looked")
  /\ seen' = [seen EXCEPT ![e] = sessionMap[id[e]]]
  /\ UNCHANGED <<phase, counter, id, sessionMap, lock, response, outcome, filtered, crashed>>

\* The embedder answers iff it saw a session whose request it does not want.
Rejects(s, ph) == s # None /\ s[1] \in (IF ph = "request" THEN Forum ELSE BadBody)

CallbackAnswers(e) ==
  /\ Rejects(seen[e], phase[e])
  /\ Goto(e, "looked", "create")
  /\ UNCHANGED <<phase, counter, id, sessionMap, lock, response, seen, outcome, filtered, crashed>>

CallbackPasses(e) ==
  /\ ~ Rejects(seen[e], phase[e])
  /\ Goto(e, "looked", "returned")
  /\ seen' = [seen EXCEPT ![e] = None]
  /\ UNCHANGED <<phase, counter, id, sessionMap, lock, response, outcome, filtered, crashed>>

\* The entry under handle i that the goroutine holding the lock is writing.
Writing(i) ==
  IF lock # None /\ id[lock] = i
    THEN {IF pc[lock] = "saving" THEN Own(lock) ELSE None}
    ELSE {}

\* CreateResponse reads sessionMap without mapWriteLock.  During a write the
\* read is a data race: it returns the old or the new entry, or the runtime
\* detects it and aborts the process.
CreateLookup(e) ==
  /\ Goto(e, "create", "assign")
  /\ \E s \in {sessionMap[id[e]]} \union Writing(id[e]) : seen' = [seen EXCEPT ![e] = s]
  /\ UNCHANGED <<phase, counter, id, sessionMap, lock, response, outcome, filtered, crashed>>

CreateAborts(e) ==
  /\ pc[e] = "create" /\ lock # None
  /\ crashed' = TRUE
  /\ UNCHANGED <<pc, phase, counter, id, sessionMap, lock, response, seen, outcome, filtered>>

\* ... and then writes the page into the session found, if any.
CreateAssign(e) ==
  /\ Goto(e, "assign", "returned")
  /\ response' = IF seen[e] = None THEN response ELSE [response EXCEPT ![seen[e]] = e]
  /\ seen' = [seen EXCEPT ![e] = None]
  /\ UNCHANGED <<phase, counter, id, sessionMap, lock, outcome, filtered, crashed>>

(***************************************************************************)
(* The filters after their callback returned.                              *)
(***************************************************************************)
Decide(e, verdict) ==
  /\ Goto(e, "returned", "remove")
  /\ outcome' = [outcome EXCEPT ![e] = verdict]
  /\ UNCHANGED <<phase, counter, id, sessionMap, lock, response, seen, filtered, crashed>>

InRequestFilter(e) ==
  phase[e] = "request" /\ Source[e] # "tls" /\ outcome[e] = "pending"

\* The callback left a response: it is returned instead of going upstream.
ReturnResponse(e) ==
  /\ InRequestFilter(e) /\ response[Own(e)] # None
  /\ Decide(e, "answered")

\* No list matched, or one that whitelists (its event cannot answer).
ReturnRequest(e) ==
  /\ InRequestFilter(e) /\ response[Own(e)] = None
  /\ Verdict[e] \in {"none", "white"} \/ e \notin BlockPage
  /\ Decide(e, "forward")

\* The Blacklisted event answers with a page; the answer is whatever
\* session.response is when it returns.
Blacklist(e) ==
  /\ InRequestFilter(e) /\ response[Own(e)] = None
  /\ Verdict[e] = "black" /\ e \in BlockPage
  /\ Goto(e, "returned", "create")
  /\ outcome' = [outcome EXCEPT ![e] = "blacklisted"]
  /\ UNCHANGED <<phase, counter, id, sessionMap, lock, response, seen, filtered, crashed>>

\* Mutant: the page of the Blacklisted event is not read back.
ReturnAfterBlacklistForwards(e) ==
  /\ outcome[e] = "blacklisted"
  /\ Decide(e, "forward")

ReturnAfterBlacklist(e) ==
  /\ outcome[e] = "blacklisted"
  /\ Decide(e, IF response[Own(e)] # None THEN "answered" ELSE "forward")

\* The TLS path: a whitelisted host is chained without filtering, unless the
\* callback left a response; otherwise the connection becomes a CONNECT.
TlsDecide(e) ==
  /\ Source[e] = "tls"
  /\ Goto(e, "returned", "tunnel")
  /\ outcome' = [outcome EXCEPT ![e] =
        IF response[Own(e)] = None /\ Verdict[e] = "white" THEN "chain" ELSE "connect"]
  /\ UNCHANGED <<phase, counter, id, sessionMap, lock, response, seen, filtered, crashed>>

\* The deferred removal runs when the tunnel or ServeHTTP returns.
TlsReturn(e) ==
  /\ Goto(e, "tunnel", "remove")
  /\ UNCHANGED <<phase, counter, id, sessionMap, lock, response, seen, outcome, filtered, crashed>>

ResponseCallbackReturned(e) ==
  /\ phase[e] = "response"
  /\ Goto(e, "returned", "remove")
  /\ UNCHANGED <<phase, counter, id, sessionMap, lock, response, seen, outcome, filtered, crashed>>

\* The server answers.  No response, one that is not filterable, or one of a
\* whitelisted request ("blocked" = false) skips the response callback.
ServerResponds(e) ==
  /\ \/ Goto(e, "upstream", "done") /\ UNCHANGED <<phase, response>>
     \/ /\ Verdict[e] # "white"
        /\ Goto(e, "upstream", "save")
        /\ phase' = [phase EXCEPT ![e] = "response"]
        /\ response' = [response EXCEPT ![<<e, "response">>] = Upstream]
  /\ UNCHANGED <<counter, id, sessionMap, lock, seen, outcome, filtered, crashed>>

\* Mutant: the response that came in is returned, not session.response.
FinishIgnoresCallback(e) ==
  /\ Goto(e, "finish", "done")
  /\ filtered' = [filtered EXCEPT ![e] = IF response[<<e, "request">>] = None
                                           THEN Upstream ELSE response[<<e, "request">>]]
  /\ UNCHANGED <<phase, counter, id, sessionMap, lock, response, seen, outcome, crashed>>

Finish(e) ==
  /\ Goto(e, "finish", "done")
  /\ filtered' = [filtered EXCEPT ![e] = response[Own(e)]]
  /\ UNCHANGED <<phase, counter, id, sessionMap, lock, response, seen, outcome, crashed>>

Arrive(e) == ArriveCounted(e) \/ ArriveTls(e)

Map(e) == SaveBegin(e) \/ SaveEnd(e) \/ RemoveBegin(e) \/ RemoveEnd(e)

Callback(e) ==
  \/ Getter(e) \/ CallbackAnswers(e) \/ CallbackPasses(e)
  \/ CreateLookup(e) \/ CreateAborts(e) \/ CreateAssign(e)

Filter(e) ==
  \/ ReturnResponse(e) \/ ReturnRequest(e) \/ Blacklist(e) \/ ReturnAfterBlacklist(e)
  \/ TlsDecide(e) \/ ResponseCallbackReturned(e) \/ Finish(e)

Step(e) == Map(e) \/ Callback(e) \/ Filter(e)

\* Every exchange has been served, or the process is gone.
Terminated ==
  /\ crashed \/ \A e \in Exchange : pc[e] \in {"idle", "done"}
  /\ UNCHANGED vars

Next ==
  \/ /\ ~ crashed
     /\ \E e \in Exchange : Arrive(e) \/ Step(e) \/ ServerResponds(e) \/ TlsReturn(e)
  \/ Terminated

Spec == Init /\ [][Next]_vars

\* Go keeps scheduling a runnable goroutine and the embedder's callbacks
\* return; clients, servers and tunnels promise nothing.
FairSpec == Spec /\ \A e \in Exchange : WF_vars(~ crashed /\ Step(e))

-----------------------------------------------------------------------------
(***************************************************************************)
(* Properties.                                                             *)
(***************************************************************************)

\* The embedder or its lists want e answered with a page (main.go:213-272).
UnwantedRequest(e) == e \in Forum \/ (Verdict[e] = "black" /\ e \in BlockPage)

InCallback(e) == pc[e] \in {"callback", "looked", "create"}

\* From the end of the save to the beginning of the removal.
Saved(e) == pc[e] \in {"callback", "looked", "create", "assign", "returned", "tunnel",
                       "remove", "removing"}

\* An entry of the map always belongs to an exchange that is still between its
\* save and its removal, under the handle it was saved with: no handle, however
\* the three paths collide, reaches the session of a finished exchange
\* (session.go:23-34, the deferred removals of main.go:211, 473 and 332).
NoDanglingSession ==
  \A i \in Id : sessionMap[i] # None =>
    LET e == sessionMap[i][1]
    IN  Saved(e) /\ id[e] = i /\ sessionMap[i] = Own(e)

\* At least one session of f has been put into the map.
HasSaved(f) == pc[f] \notin {"idle", "save", "saving"} \/ phase[f] = "response"

\* While the callback of e runs, its handle denotes e's own session, unless
\* another exchange was given the same handle and has saved a session under it:
\* an exchange that shares the handle does no harm before its first save
\* (session.go:23, main.go:210, 328 and 472).
HandleDenotesOwnSession ==
  \A e \in Exchange :
    InCallback(e) => \/ sessionMap[id[e]] = Own(e)
                     \/ \E f \in Exchange \ {e} : id[f] = id[e] /\ HasSaved(f)

\* A page is only ever written into the session of the exchange whose callback
\* made it, when all handles come from one counter (response.go:200-209).
OneCounter == \E s \in {"http1", "http2"} : \A e \in Exchange : Source[e] = s

PagesReachTheirExchange ==
  OneCounter => \A s \in Session : response[s] \in {None, Upstream, s[1]}

\* What the response callback leaves: its own page if the embedder replaces the
\* body, else what went in (main.go:327-337), when handles come from one counter.
ResponseReplacedIffBad ==
  OneCounter => \A e \in Exchange :
    filtered[e] # None => (filtered[e] = e <=> e \in BadBody \/ outcome[e] = "answered")

\* The promise to the embedder: every HTTP request gets one decision, and it is
\* the one the embedder's callbacks and lists ask for.
HttpExchange == {e \in Exchange : Source[e] # "tls"}

Decision ==
  [e \in HttpExchange |-> IF outcome[e] = "blacklisted" THEN "pending" ELSE outcome[e]]

Policy == INSTANCE FilterPolicy WITH
  Request  <- HttpExchange,
  Unwanted <- {e \in Exchange : UnwantedRequest(e)},
  decision <- Decision

\* The interop protocol implements that promise (main.go:201-283): it does when
\* one counter issues all handles, and it does not when two paths collide.
ImplementsPolicy == Policy!Spec

\* What the sample embedder says of a page it does not want: "This page is
\* blocked by GoProxy Wrapper" (app/Form1.cs:136-141).
UnwantedPageIsBlocked ==
  \A e \in Forum : Source[e] # "tls" => outcome[e] # "forward"

\* A filter that started ends: nobody keeps mapWriteLock, and no exchange waits
\* for another one's callback or server (session.go:23-85).
FilterTerminates ==
  \A e \in Exchange :
    pc[e] = "save" ~> crashed \/ pc[e] \in {"upstream", "tunnel", "done"}
=============================================================================
