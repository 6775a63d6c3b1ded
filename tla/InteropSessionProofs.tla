------------------------ MODULE InteropSessionProofs ------------------------
(***************************************************************************)
(* Theorems about InteropSession, for every set of exchanges, every        *)
(* assignment of paths and verdicts, and any number of handles.            *)
(*                                                                         *)
(* The argument: a handle is drawn once and kept (HasId), a counter only   *)
(* grows (IdsDrawn), so its handles are distinct; an entry of the map is   *)
(* written by the exchange that owns it and deleted by it before it moves  *)
(* on.  With one counter, the session an exchange finds under its handle   *)
(* is therefore its own (SeenIsOwn), and the filter's answer is its own    *)
(* callback's (DecisionPending).                                           *)
(***************************************************************************)
EXTENDS InteropSession, TLAPS

\* A handle is drawn on arrival.
HasId == \A e \in Exchange : IF pc[e] = "idle" THEN id[e] = None ELSE id[e] \in Id

\* No handle of a counter is beyond the counter.
IdsDrawn ==
  \A e \in Exchange : Source[e] # "tls" /\ pc[e] # "idle" => id[e] <= counter[Source[e]]

TypeInv == TypeOK /\ HasId

\* Exchanges of the same counter never share a handle (http2.go:250 and the
\* session counter of goproxy): a collision needs two paths, or two ports.
CounterHandlesDistinct ==
  \A e, f \in Exchange :
    /\ e # f /\ id[e] # None /\ id[e] = id[f]
    => Source[e] # Source[f] \/ Source[e] = "tls"

HandleInv == IdsDrawn /\ CounterHandlesDistinct

\* HandleDenotesOwnSession, up to the removal.
SavedDenotesOwn ==
  \A e \in Exchange :
    Saved(e) => \/ sessionMap[id[e]] = Own(e)
                \/ \E f \in Exchange \ {e} : id[f] = id[e] /\ HasSaved(f)

MapInv == NoDanglingSession /\ SavedDenotesOwn

-----------------------------------------------------------------------------
(***************************************************************************)
(* Types.                                                                  *)
(***************************************************************************)

\* Where an exchange goes after a removal is a label (the returns of
\* main.go:220-282 and 334-337).
LEMMA AfterRemoveLabel ==
  \A e \in Exchange : AfterRemove(e) \in {"finish", "upstream", "save", "done"}
BY DEF AfterRemove

\* None is not a handle: the counters start at one and ports are positive, so
\* HasId tells the idle exchanges from the others.
LEMMA InitTypeInv == Init => TypeInv
<1> SUFFICES ASSUME Init PROVE TypeInv
  OBVIOUS
<1>1. pc \in [Exchange -> Labels] /\ phase \in [Exchange -> Phases]
  BY DEF Init, Labels, Phases
<1>2. counter \in [{"http1", "http2"} -> Nat] /\ id \in [Exchange -> Id \union {None}]
  BY DEF Init
<1>3. sessionMap \in [Id -> Session \union {None}] /\ lock \in Exchange \union {None}
  BY DEF Init
<1>4. response \in [Session -> Exchange \union {None, Upstream}]
  BY DEF Init
<1>5. seen \in [Exchange -> Session \union {None}] /\ outcome \in [Exchange -> Outcomes]
  BY DEF Init, Outcomes
<1>6. filtered \in [Exchange -> Exchange \union {None, Upstream}] /\ crashed \in BOOLEAN
  BY DEF Init
<1>7. HasId
  BY DEF Init, HasId
<1>8. QED
  BY <1>1, <1>2, <1>3, <1>4, <1>5, <1>6, <1>7 DEF TypeInv, TypeOK

\* Every step keeps the types, and no exchange loses or changes its handle.
LEMMA StepTypeInv == TypeInv /\ [Next]_vars => TypeInv'
<1> SUFFICES ASSUME TypeInv, [Next]_vars PROVE TypeInv'
  OBVIOUS
<1> USE ConstantsOK DEF ConstantsOK, TypeInv, TypeOK, HasId, Labels, Outcomes, Goto
<1>1. CASE UNCHANGED vars
  BY <1>1 DEF vars
<1>2. ASSUME NEW e \in Exchange, ArriveCounted(e) PROVE TypeInv'
  BY <1>2 DEF ArriveCounted, Sources
<1>3. ASSUME NEW e \in Exchange, ArriveTls(e) PROVE TypeInv'
  BY <1>3 DEF ArriveTls
<1>4. ASSUME NEW e \in Exchange, SaveBegin(e) \/ RemoveBegin(e) PROVE TypeInv'
  BY <1>4 DEF SaveBegin, RemoveBegin
<1>5. ASSUME NEW e \in Exchange, SaveEnd(e) PROVE TypeInv'
  BY <1>5 DEF SaveEnd, Own, Session
<1>6. ASSUME NEW e \in Exchange, RemoveEnd(e) PROVE TypeInv'
  <2>1. AfterRemove(e) \in Labels /\ AfterRemove(e) # "idle"
    BY AfterRemoveLabel
  <2>2. phase' \in [Exchange -> Phases]
    BY <1>6 DEF RemoveEnd, Phases
  <2>3. response' \in [Session -> Exchange \union {None, Upstream}]
    <3>1. <<e, "request">> \in Session /\ <<e, "response">> \in Session
      BY DEF Session, Phases
    <3>2. QED
      BY <1>6, <3>1 DEF RemoveEnd
  <2>4. sessionMap' \in [Id -> Session \union {None}]
    BY <1>6 DEF RemoveEnd
  <2>5. pc' \in [Exchange -> Labels] /\ HasId'
    BY <1>6, <2>1 DEF RemoveEnd
  <2>6. QED
    BY <1>6, <2>2, <2>3, <2>4, <2>5 DEF RemoveEnd
<1>7. ASSUME NEW e \in Exchange, Getter(e) PROVE TypeInv'
  BY <1>7 DEF Getter
<1>8. ASSUME NEW e \in Exchange, CallbackAnswers(e) \/ CallbackPasses(e) PROVE TypeInv'
  BY <1>8 DEF CallbackAnswers, CallbackPasses
<1>9. ASSUME NEW e \in Exchange, CreateLookup(e) \/ CreateAborts(e) PROVE TypeInv'
  <2>1. \A s \in {sessionMap[id[e]]} \union Writing(id[e]) : s \in Session \union {None}
    <3>1. sessionMap[id[e]] \in Session \union {None}
      BY <1>9 DEF CreateLookup, CreateAborts
    <3>2. ASSUME lock \in Exchange PROVE Own(lock) \in Session
      BY <3>2 DEF Own, Session
    <3>3. QED
      BY <3>1, <3>2 DEF Writing
  <2>2. CASE CreateLookup(e)
    BY <2>1, <2>2 DEF CreateLookup
  <2>3. CASE CreateAborts(e)
    BY <2>3 DEF CreateAborts
  <2>4. QED
    BY <1>9, <2>2, <2>3
<1>10. ASSUME NEW e \in Exchange, CreateAssign(e) PROVE TypeInv'
  BY <1>10 DEF CreateAssign
<1>11. ASSUME NEW e \in Exchange,
              ReturnResponse(e) \/ ReturnRequest(e) \/ ReturnAfterBlacklist(e)
       PROVE  TypeInv'
  <2>1. CASE ReturnResponse(e)
    BY <2>1 DEF ReturnResponse, Decide
  <2>2. CASE ReturnRequest(e)
    BY <2>2 DEF ReturnRequest, Decide
  <2>3. CASE ReturnAfterBlacklist(e)
    BY <2>3 DEF ReturnAfterBlacklist, Decide
  <2> QED
    BY <1>11, <2>1, <2>2, <2>3
<1>12. ASSUME NEW e \in Exchange, Blacklist(e) \/ TlsDecide(e) PROVE TypeInv'
  BY <1>12 DEF Blacklist, TlsDecide
<1>13. ASSUME NEW e \in Exchange, TlsReturn(e) \/ ResponseCallbackReturned(e) PROVE TypeInv'
  BY <1>13 DEF TlsReturn, ResponseCallbackReturned
<1>14. ASSUME NEW e \in Exchange, ServerResponds(e) PROVE TypeInv'
  <2>1. <<e, "response">> \in Session /\ "response" \in Phases
    BY DEF Session, Phases
  <2>2. CASE phase' = phase /\ response' = response
    BY <1>14, <2>2 DEF ServerResponds
  <2>3. CASE ~(phase' = phase /\ response' = response)
    BY <1>14, <2>1, <2>3 DEF ServerResponds
  <2> QED
    BY <2>2, <2>3
<1>15. ASSUME NEW e \in Exchange, Finish(e) PROVE TypeInv'
  BY <1>15 DEF Finish, Own, Session
<1>16. QED
  BY <1>1, <1>2, <1>3, <1>4, <1>5, <1>6, <1>7, <1>8, <1>9, <1>10, <1>11, <1>12, <1>13,
     <1>14, <1>15
  DEF Next, Arrive, Step, Map, Callback, Filter, Terminated

\* TypeOK is an invariant: in particular every handle an exchange uses is one
\* it was given (session.go, main.go:188-348 and 388-497).
THEOREM TypeCorrect == Spec => []TypeOK
<1>1. TypeInv => TypeOK
  BY DEF TypeInv
<1>2. QED
  BY InitTypeInv, StepTypeInv, <1>1, PTL DEF Spec

-----------------------------------------------------------------------------
(***************************************************************************)
(* Handles.                                                                *)
(***************************************************************************)

\* Only an arrival draws a handle; every other step leaves the counters and the
\* handles alone and brings no exchange back to "idle".
LEMMA OnlyArrivalsDraw ==
  ASSUME TypeInv, [Next]_vars,
         ~ \E e \in Exchange : ArriveCounted(e) \/ ArriveTls(e)
  PROVE  /\ UNCHANGED <<counter, id>>
         /\ \A e \in Exchange : (pc[e] = "idle") <=> (pc'[e] = "idle")
<1> USE DEF TypeInv, TypeOK, Goto
<1>1. CASE UNCHANGED vars
  BY <1>1 DEF vars
<1> DEFINE Goal == /\ UNCHANGED <<counter, id>>
                   /\ \A e \in Exchange : (pc[e] = "idle") <=> (pc'[e] = "idle")
<1>2. ASSUME NEW e \in Exchange, Map(e) PROVE Goal
  BY <1>2, AfterRemoveLabel DEF Map, SaveBegin, SaveEnd, RemoveBegin, RemoveEnd
<1>3. ASSUME NEW e \in Exchange, Callback(e) PROVE Goal
  BY <1>3 DEF Callback, Getter, CallbackAnswers, CallbackPasses, CreateLookup, CreateAborts,
              CreateAssign
<1>4. ASSUME NEW e \in Exchange, Filter(e) PROVE Goal
  BY <1>4 DEF Filter, ReturnResponse, ReturnRequest, Blacklist, ReturnAfterBlacklist,
              TlsDecide, ResponseCallbackReturned, Finish, Decide
<1>5. ASSUME NEW e \in Exchange, ServerResponds(e) \/ TlsReturn(e) PROVE Goal
  BY <1>5 DEF ServerResponds, TlsReturn
<1>6. QED
  BY <1>1, <1>2, <1>3, <1>4, <1>5 DEF Next, Arrive, Step, Terminated

\* No handle has been drawn.
LEMMA InitHandleInv == Init => HandleInv
BY DEF Init, HandleInv, IdsDrawn, CounterHandlesDistinct

\* A counter steps over every handle it has given out.
LEMMA StepHandleInv == TypeInv /\ HandleInv /\ [Next]_vars => HandleInv'
<1> SUFFICES ASSUME TypeInv, HandleInv, [Next]_vars PROVE HandleInv'
  OBVIOUS
<1> USE ConstantsOK DEF ConstantsOK, Sources, TypeInv, TypeOK, HasId, HandleInv, IdsDrawn, Goto
<1>1. ASSUME NEW e \in Exchange, ArriveCounted(e) PROVE HandleInv'
  <2> DEFINE c == counter[Source[e]]
  <2>0. \A f \in Exchange : Source[f] # "tls" => Source[f] \in {"http1", "http2"}
    OBVIOUS
  <2>1. c \in Nat /\ id'[e] = c + 1 /\ counter' = [counter EXCEPT ![Source[e]] = c + 1]
    BY <1>1, <2>0 DEF ArriveCounted
  <2>2. \A f \in Exchange \ {e} : pc'[f] = pc[f] /\ id'[f] = id[f]
    BY <1>1 DEF ArriveCounted
  <2>3. ASSUME NEW f \in Exchange, Source[f] # "tls", pc'[f] # "idle"
        PROVE  id'[f] <= counter'[Source[f]]
    <3>1. CASE Source[f] = Source[e]
      <4>1. counter'[Source[f]] = c + 1
        BY <2>0, <2>1, <2>3, <3>1
      <4>2. CASE f = e
        BY <2>1, <4>1, <4>2
      <4>3. CASE f # e
        <5>1. id[f] <= c /\ id[f] \in Nat /\ id'[f] = id[f]
          BY <2>2, <2>3, <3>1, <4>3
        <5>2. QED
          BY <2>1, <4>1, <5>1
      <4>4. QED
        BY <4>2, <4>3
    <3>2. CASE Source[f] # Source[e]
      BY <2>0, <2>1, <2>2, <2>3, <3>2
    <3>3. QED
      BY <3>1, <3>2
  <2>4. \A f \in Exchange \ {e} : Source[f] = Source[e] => id'[f] # id'[e] \/ id'[f] = None
    <3> SUFFICES ASSUME NEW f \in Exchange \ {e}, Source[f] = Source[e], id'[f] = id'[e]
                 PROVE  id'[f] = None
      OBVIOUS
    <3>1. pc[f] # "idle" => id[f] \in Nat /\ id[f] <= c
      BY <1>1 DEF ArriveCounted
    <3>2. QED
      BY <2>1, <2>2, <3>1
  <2>5. CounterHandlesDistinct'
    BY <2>2, <2>4 DEF CounterHandlesDistinct
  <2>6. QED
    BY <2>3, <2>5
<1>2. ASSUME NEW e \in Exchange, ArriveTls(e) PROVE HandleInv'
  BY <1>2 DEF ArriveTls, CounterHandlesDistinct
<1>3. CASE ~ \E e \in Exchange : ArriveCounted(e) \/ ArriveTls(e)
  <2>1. /\ UNCHANGED <<counter, id>>
        /\ \A e \in Exchange : (pc[e] = "idle") <=> (pc'[e] = "idle")
    BY <1>3, OnlyArrivalsDraw
  <2>2. QED
    BY <2>1 DEF CounterHandlesDistinct
<1>4. QED
  BY <1>1, <1>2, <1>3

-----------------------------------------------------------------------------
(***************************************************************************)
(* The map.                                                                *)
(***************************************************************************)

\* The map is empty.
LEMMA InitMapInv == Init => MapInv
BY DEF Init, MapInv, NoDanglingSession, SavedDenotesOwn, Saved

\* A step of e that stays out of the map, the handles and the phases keeps MapInv
\* if e is saved afterwards exactly when it was before, and has saved if it had.
LEMMA QuietStepMapInv ==
  ASSUME TypeInv, MapInv, UNCHANGED <<id, sessionMap, phase>>,
         NEW e \in Exchange,
         \A f \in Exchange \ {e} : pc'[f] = pc[f],
         Saved(e) <=> Saved(e)',
         HasSaved(e) => HasSaved(e)'
  PROVE  MapInv'
<1> USE DEF TypeInv, TypeOK, HasId, MapInv, Own
<1>1. \A f \in Exchange : (Saved(f) => Saved(f)') /\ (Saved(f)' => Saved(f))
  BY DEF Saved
<1>1a. \A f \in Exchange : HasSaved(f) => HasSaved(f)'
  BY DEF HasSaved
<1>2. NoDanglingSession'
  BY <1>1 DEF NoDanglingSession, Session
<1>3. SavedDenotesOwn'
  BY <1>1, <1>1a DEF SavedDenotesOwn
<1>4. QED
  BY <1>2, <1>3

\* A session is written by its owner after the save and deleted by its owner
\* before it leaves the removal.
LEMMA StepMapInv == TypeInv /\ MapInv /\ [Next]_vars => MapInv'
<1> SUFFICES ASSUME TypeInv, MapInv, [Next]_vars PROVE MapInv'
  OBVIOUS
<1> USE DEF TypeInv, TypeOK, Goto
<1>1. CASE UNCHANGED vars
  BY <1>1 DEF vars, MapInv, NoDanglingSession, SavedDenotesOwn, Saved, HasSaved, Own
<1>2. ASSUME NEW e \in Exchange, Arrive(e) PROVE MapInv'
  <2>1. pc[e] = "idle" /\ pc' = [pc EXCEPT ![e] = "save"] /\ UNCHANGED <<sessionMap, phase>>
    BY <1>2 DEF Arrive, ArriveCounted, ArriveTls
  <2>2. \A f \in Exchange \ {e} : id'[f] = id[f]
    BY <1>2 DEF Arrive, ArriveCounted, ArriveTls
  <2>3. ~ Saved(e) /\ ~ Saved(e)'
    BY <2>1 DEF Saved
  <2>4. NoDanglingSession'
    BY <2>1, <2>2, <2>3 DEF MapInv, NoDanglingSession, Saved, Own, Session
  <2>5. SavedDenotesOwn'
    <3> SUFFICES ASSUME NEW f \in Exchange, Saved(f)'
                 PROVE  \/ sessionMap'[id'[f]] = Own(f)'
                        \/ \E g \in Exchange \ {f} : id'[g] = id'[f] /\ HasSaved(g)'
      BY DEF SavedDenotesOwn
    <3>1. f # e /\ Saved(f)
      BY <2>1, <2>3 DEF Saved
    <3>2. ASSUME NEW g \in Exchange \ {f}, id[g] = id[f], HasSaved(g)
          PROVE  id'[g] = id'[f] /\ HasSaved(g)'
      <4>1. g # e
        BY <2>1, <3>1, <3>2, ConstantsOK DEF ConstantsOK, HasId, Saved
      <4>2. QED
        BY <2>1, <2>2, <3>1, <3>2, <4>1 DEF HasSaved
    <3>3. QED
      BY <2>1, <2>2, <3>1, <3>2 DEF MapInv, SavedDenotesOwn, Own
  <2>6. QED
    BY <2>4, <2>5 DEF MapInv
<1>3. ASSUME NEW e \in Exchange, SaveBegin(e) PROVE MapInv'
  BY <1>3, QuietStepMapInv DEF SaveBegin, Saved, HasSaved
<1>4. ASSUME NEW e \in Exchange, SaveEnd(e) PROVE MapInv'
  <2>1. /\ pc[e] = "saving" /\ pc' = [pc EXCEPT ![e] = "callback"]
        /\ id[e] \in Id /\ UNCHANGED <<id, phase>>
        /\ sessionMap' = [sessionMap EXCEPT ![id[e]] = Own(e)]
    BY <1>4 DEF SaveEnd, HasId
  <2>2. NoDanglingSession'
    BY <2>1 DEF MapInv, NoDanglingSession, Saved, Own, Session
  <2>3. SavedDenotesOwn'
    BY <2>1 DEF MapInv, SavedDenotesOwn, Saved, HasSaved, Own
  <2>4. QED
    BY <2>2, <2>3 DEF MapInv
<1>5. ASSUME NEW e \in Exchange, RemoveBegin(e) PROVE MapInv'
  BY <1>5, QuietStepMapInv DEF RemoveBegin, Saved, HasSaved
<1>6. ASSUME NEW e \in Exchange, RemoveEnd(e) PROVE MapInv'
  <2>1. /\ pc[e] = "removing" /\ pc' = [pc EXCEPT ![e] = AfterRemove(e)]
        /\ id[e] \in Id /\ UNCHANGED id
        /\ sessionMap' = [sessionMap EXCEPT ![id[e]] = None]
        /\ \A f \in Exchange \ {e} : phase'[f] = phase[f]
        /\ AfterRemove(e) = "save" => phase'[e] = "response"
    BY <1>6 DEF RemoveEnd, HasId
  <2>2. NoDanglingSession'
    BY <2>1 DEF MapInv, NoDanglingSession, Saved, Own, Session
  <2>3. SavedDenotesOwn'
    BY <2>1, AfterRemoveLabel DEF MapInv, SavedDenotesOwn, Saved, HasSaved, Own
  <2>4. QED
    BY <2>2, <2>3 DEF MapInv
<1>7. ASSUME NEW e \in Exchange, Callback(e) PROVE MapInv'
  <2>1. /\ UNCHANGED <<id, sessionMap, phase>>
        /\ \A f \in Exchange \ {e} : pc'[f] = pc[f]
        /\ pc[e] \in {"callback", "looked", "create", "assign"}
        /\ pc'[e] \in {"looked", "create", "assign", "returned"}
    BY <1>7 DEF Callback, Getter, CallbackAnswers, CallbackPasses, CreateLookup, CreateAborts,
              CreateAssign
  <2>2. QED
    BY <2>1, QuietStepMapInv DEF Saved, HasSaved
<1>8. ASSUME NEW e \in Exchange, Blacklist(e) PROVE MapInv'
  <2>1. /\ pc[e] = "returned" /\ pc' = [pc EXCEPT ![e] = "create"]
        /\ phase[e] = "request" /\ UNCHANGED <<id, sessionMap, phase>>
    BY <1>8 DEF Blacklist, InRequestFilter
  <2>2. QED
    BY <2>1, QuietStepMapInv DEF Saved, HasSaved
<1>9. ASSUME NEW e \in Exchange,
             ReturnResponse(e) \/ ReturnRequest(e) \/ ReturnAfterBlacklist(e) \/ TlsDecide(e)
               \/ TlsReturn(e) \/ ResponseCallbackReturned(e)
      PROVE  MapInv'
  <2>1. /\ UNCHANGED <<id, sessionMap, phase>>
        /\ \A f \in Exchange \ {e} : pc'[f] = pc[f]
        /\ pc[e] \in {"returned", "tunnel"} /\ pc'[e] \in {"remove", "tunnel"}
    BY <1>9 DEF ReturnResponse, ReturnRequest, ReturnAfterBlacklist, TlsDecide, TlsReturn,
                ResponseCallbackReturned, Decide
  <2>2. QED
    BY <2>1, QuietStepMapInv DEF Saved, HasSaved
<1>10. ASSUME NEW e \in Exchange, ServerResponds(e) PROVE MapInv'
  <2>1. /\ pc[e] = "upstream" /\ UNCHANGED <<id, sessionMap>>
        /\ \A f \in Exchange \ {e} : pc'[f] = pc[f] /\ phase'[f] = phase[f]
        /\ pc'[e] \in {"done", "save"} /\ (pc'[e] = "save" => phase'[e] = "response")
    BY <1>10 DEF ServerResponds
  <2>2. NoDanglingSession'
    BY <2>1 DEF MapInv, NoDanglingSession, Saved, Own, Session
  <2>3. SavedDenotesOwn'
    BY <2>1 DEF MapInv, SavedDenotesOwn, Saved, HasSaved, Own
  <2>4. QED
    BY <2>2, <2>3 DEF MapInv
<1>11. ASSUME NEW e \in Exchange, Finish(e) PROVE MapInv'
  BY <1>11, QuietStepMapInv DEF Finish, Saved, HasSaved
<1>12. QED
  BY <1>1, <1>2, <1>3, <1>4, <1>5, <1>6, <1>7, <1>8, <1>9, <1>10, <1>11
  DEF Next, Step, Map, Filter, Terminated

\* No handle reaches the session of an exchange that is not between its save and
\* its removal, whatever paths, ports and exchanges there are (session.go:23-34).
THEOREM NothingDangles == Spec => []NoDanglingSession
<1>1. TypeInv /\ MapInv => NoDanglingSession
  BY DEF MapInv
<1>2. QED
  BY InitTypeInv, InitMapInv, StepTypeInv, StepMapInv, <1>1, PTL DEF Spec

\* A callback looks at its own exchange, unless another one has saved a session
\* under the same handle (main.go:210, 330 and 472).
THEOREM CallbacksSeeTheirOwn == Spec => []HandleDenotesOwnSession
<1>1. TypeInv /\ MapInv => HandleDenotesOwnSession
  BY DEF MapInv, SavedDenotesOwn, HandleDenotesOwnSession, Saved, InCallback
<1>2. QED
  BY InitTypeInv, InitMapInv, StepTypeInv, StepMapInv, <1>1, PTL DEF Spec

-----------------------------------------------------------------------------
(***************************************************************************)
(* One counter: pages, and the policy.                                     *)
(***************************************************************************)

\* The lock is held by an exchange that is writing the map.
LockHeldByWriter == lock # None => pc[lock] \in {"saving", "removing"}

\* What a callback that has looked has seen is the session of its own filter,
\* and no callback has ever seen another exchange's session.
SeenIsOwn ==
  \A e \in Exchange :
    /\ seen[e] # None => seen[e][1] = e
    /\ pc[e] \in {"looked", "assign"} => seen[e] = Own(e)

PagesOwn == \A s \in Session : response[s] \in {None, Upstream, s[1]}

PageInv == LockHeldByWriter /\ SeenIsOwn /\ PagesOwn

\* No page has been made.
LEMMA InitPageInv == Init => PageInv
BY DEF Init, PageInv, LockHeldByWriter, SeenIsOwn, PagesOwn, Session

\* With one counter a saved exchange finds its own session under its handle.
LEMMA OneCounterOwn ==
  ASSUME OneCounter, TypeInv, HandleInv, MapInv, NEW e \in Exchange, Saved(e)
  PROVE  sessionMap[id[e]] = Own(e) /\ \A f \in Exchange \ {e} : id[f] # id[e]
<1>1. id[e] \in Id /\ id[e] # None
  BY ConstantsOK DEF ConstantsOK, TypeInv, HasId, Saved
<1>2. \A f \in Exchange \ {e} : id[f] # id[e]
  BY <1>1 DEF HandleInv, CounterHandlesDistinct, OneCounter
<1>3. QED
  BY <1>2 DEF MapInv, SavedDenotesOwn

\* With one counter a lookup finds the session of its own filter, so a page is written
\* nowhere else.
LEMMA StepPageInv ==
  ASSUME OneCounter, TypeInv, HandleInv, MapInv, PageInv, [Next]_vars
  PROVE  PageInv'
<1> USE DEF TypeInv, TypeOK, Goto, PageInv
<1>1. CASE UNCHANGED vars
  BY <1>1 DEF vars, LockHeldByWriter, SeenIsOwn, PagesOwn, Own
<1>2. ASSUME NEW e \in Exchange,
             /\ UNCHANGED <<seen, response>>
             /\ \A f \in Exchange \ {e} : pc'[f] = pc[f] /\ phase'[f] = phase[f]
             /\ pc'[e] \notin {"looked", "assign"}
      PROVE  SeenIsOwn' /\ PagesOwn'
  BY <1>2 DEF SeenIsOwn, PagesOwn, Own
<1>3. ASSUME NEW e \in Exchange,
             /\ UNCHANGED lock
             /\ \A f \in Exchange \ {e} : pc'[f] = pc[f]
             /\ pc[e] \notin {"saving", "removing"}
      PROVE  LockHeldByWriter'
  BY <1>3, NoneIsNoSession DEF LockHeldByWriter
<1>4. ASSUME NEW e \in Exchange, Arrive(e) PROVE PageInv'
  BY <1>2, <1>3, <1>4 DEF Arrive, ArriveCounted, ArriveTls
<1>5. ASSUME NEW e \in Exchange, SaveBegin(e) \/ RemoveBegin(e) PROVE PageInv'
  BY <1>2, <1>5 DEF SaveBegin, RemoveBegin, LockHeldByWriter
<1>6. ASSUME NEW e \in Exchange, SaveEnd(e) PROVE PageInv'
  BY <1>2, <1>6 DEF SaveEnd, LockHeldByWriter
<1>7. ASSUME NEW e \in Exchange, RemoveEnd(e) PROVE PageInv'
  <2>1. LockHeldByWriter'
    BY <1>7 DEF RemoveEnd, LockHeldByWriter
  <2>2. SeenIsOwn'
    BY <1>7, AfterRemoveLabel DEF RemoveEnd, SeenIsOwn, Own
  <2>3. PagesOwn'
    <3>1. <<e, "request">> \in Session /\ <<e, "response">> \in Session
      BY DEF Session, Phases
    <3>2. QED
      BY <1>7, <3>1 DEF RemoveEnd, PagesOwn
  <2>4. QED
    BY <2>1, <2>2, <2>3
<1>8. ASSUME NEW e \in Exchange, Getter(e) PROVE PageInv'
  <2>1. sessionMap[id[e]] = Own(e)
    BY <1>8, OneCounterOwn DEF Getter, Saved
  <2>2. LockHeldByWriter' /\ PagesOwn'
    BY <1>3, <1>8 DEF Getter, PagesOwn
  <2>3. SeenIsOwn'
    BY <1>8, <2>1 DEF Getter, SeenIsOwn, Own
  <2>4. QED
    BY <2>2, <2>3
<1>9. ASSUME NEW e \in Exchange, CallbackAnswers(e) \/ CreateAborts(e) PROVE PageInv'
  BY <1>3, <1>9 DEF CallbackAnswers, CreateAborts, LockHeldByWriter, SeenIsOwn, PagesOwn, Own
<1>10. ASSUME NEW e \in Exchange, CreateLookup(e) PROVE PageInv'
  <2>1. Saved(e)
    BY <1>10 DEF CreateLookup, Saved
  <2>2. sessionMap[id[e]] = Own(e) /\ Writing(id[e]) = {}
    BY <1>10, <2>1, OneCounterOwn DEF CreateLookup, Writing, LockHeldByWriter
  <2>3. seen' = [seen EXCEPT ![e] = Own(e)]
    BY <1>10, <2>2 DEF CreateLookup
  <2>4. LockHeldByWriter' /\ PagesOwn'
    BY <1>3, <1>10 DEF CreateLookup, PagesOwn
  <2>5. SeenIsOwn'
    BY <1>10, <2>3 DEF CreateLookup, SeenIsOwn, Own, Session
  <2>6. QED
    BY <2>4, <2>5
<1>11. ASSUME NEW e \in Exchange, CallbackPasses(e) PROVE PageInv'
  BY <1>3, <1>11 DEF CallbackPasses, SeenIsOwn, PagesOwn, Own
<1>12. ASSUME NEW e \in Exchange, CreateAssign(e) PROVE PageInv'
  <2>1. LockHeldByWriter' /\ SeenIsOwn'
    BY <1>3, <1>12 DEF CreateAssign, SeenIsOwn, Own
  <2>2. PagesOwn'
    BY <1>12 DEF CreateAssign, SeenIsOwn, PagesOwn
  <2>3. QED
    BY <2>1, <2>2
<1>13. ASSUME NEW e \in Exchange, Filter(e) PROVE PageInv'
  BY <1>2, <1>3, <1>13
  DEF Filter, ReturnResponse, ReturnRequest, Blacklist, ReturnAfterBlacklist, TlsDecide,
      ResponseCallbackReturned, Finish, Decide
<1>14. ASSUME NEW e \in Exchange, TlsReturn(e) PROVE PageInv'
  BY <1>2, <1>3, <1>14 DEF TlsReturn
<1>15. ASSUME NEW e \in Exchange, ServerResponds(e) PROVE PageInv'
  <2>1. LockHeldByWriter'
    BY <1>3, <1>15 DEF ServerResponds
  <2>2. SeenIsOwn'
    BY <1>15 DEF ServerResponds, SeenIsOwn, Own
  <2>3. PagesOwn'
    BY <1>15 DEF ServerResponds, PagesOwn, Session, Phases
  <2>4. QED
    BY <2>1, <2>2, <2>3
<1>16. QED
  BY <1>1, <1>4, <1>5, <1>6, <1>7, <1>8, <1>9, <1>10, <1>11, <1>12, <1>13, <1>14, <1>15
  DEF Next, Step, Map, Callback, Terminated

\* With one counter, every page ends up in the session of the exchange it was
\* made for, for any number of exchanges (response.go:200-209).
THEOREM PagesCorrect == Spec => []PagesReachTheirExchange
<1>1. CASE ~ OneCounter
  <2>1. PagesReachTheirExchange
    BY <1>1 DEF PagesReachTheirExchange
  <2>2. QED
    BY <2>1, PTL
<1>2. CASE OneCounter
  <2>1. PageInv => PagesReachTheirExchange
    BY DEF PageInv, PagesOwn, PagesReachTheirExchange
  <2>2. TypeInv /\ HandleInv /\ MapInv /\ PageInv /\ [Next]_vars => PageInv'
    BY <1>2, StepPageInv
  <2>3. QED
    BY <2>1, <2>2, InitTypeInv, InitHandleInv, InitMapInv, InitPageInv,
       StepTypeInv, StepHandleInv, StepMapInv, PTL DEF Spec
<1>3. QED
  BY <1>1, <1>2

-----------------------------------------------------------------------------
(***************************************************************************)
(* The abstract policy.                                                    *)
(***************************************************************************)

\* While a request is undecided, its response is what its own callbacks made of
\* it so far.
Undecided(e) ==
  /\ outcome[e] = "pending" /\ phase[e] = "request" =>
       /\ pc[e] \in {"idle", "save", "saving", "callback", "looked"}
            => response[<<e, "request">>] = None
       /\ pc[e] \in {"create", "assign"} => e \in Forum
       /\ pc[e] = "returned" => (response[<<e, "request">>] # None <=> e \in Forum)
  /\ outcome[e] = "blacklisted" =>
       /\ phase[e] = "request" /\ pc[e] \in {"create", "assign", "returned"}
       /\ Verdict[e] = "black" /\ e \in BlockPage
       /\ pc[e] = "returned" => response[<<e, "request">>] # None

DecisionPending == \A e \in Exchange : Undecided(e)

\* Every request is undecided and has no response.
LEMMA InitDecisionPending == Init => DecisionPending
BY DEF Init, DecisionPending, Undecided, Session, Phases

\* Only the exchange itself moves between the labels of its filter, and only its own
\* callbacks write its response.
LEMMA StepDecisionPending ==
  ASSUME OneCounter, TypeInv, PageInv, DecisionPending, [Next]_vars
  PROVE  DecisionPending'
<1> USE DEF TypeInv, TypeOK, Goto
<1>0. \A e \in Exchange : Source[e] # "tls"
  BY DEF OneCounter
<1>1. \A e \in Exchange : <<e, "request">> \in Session /\ <<e, "response">> \in Session
  BY DEF Session, Phases
<1>2. CASE UNCHANGED vars
  BY <1>2 DEF vars, DecisionPending, Undecided
<1>3. ASSUME NEW e \in Exchange, Undecided(e)',
             \A f \in Exchange \ {e} :
               /\ pc'[f] = pc[f] /\ phase'[f] = phase[f] /\ outcome'[f] = outcome[f]
               /\ response'[<<f, "request">>] = response[<<f, "request">>]
      PROVE  DecisionPending'
  <2>1. ASSUME NEW f \in Exchange \ {e} PROVE Undecided(f)'
    <3>1. Undecided(f)
      BY DEF DecisionPending
    <3>2. /\ pc'[f] = pc[f] /\ phase'[f] = phase[f] /\ outcome'[f] = outcome[f]
          /\ response'[<<f, "request">>] = response[<<f, "request">>]
      BY <1>3
    <3> QED
      BY <3>1, <3>2 DEF Undecided
  <2> QED
    BY <1>3, <2>1 DEF DecisionPending
<1>4. ASSUME NEW e \in Exchange, Arrive(e) PROVE DecisionPending'
  <2>1. pc'[e] = "save" /\ pc[e] = "idle"
    BY <1>4 DEF Arrive, ArriveCounted, ArriveTls
  <2>2. UNCHANGED <<phase, outcome, response>>
    BY <1>4 DEF Arrive, ArriveCounted, ArriveTls
  <2>3. Undecided(e)'
    BY <2>1, <2>2 DEF DecisionPending, Undecided
  <2>4. QED
    BY <1>3, <1>4, <2>2, <2>3 DEF Arrive, ArriveCounted, ArriveTls
<1>5. ASSUME NEW e \in Exchange, SaveBegin(e) \/ SaveEnd(e) \/ RemoveBegin(e) \/ Getter(e)
      PROVE  DecisionPending'
  <2> USE DEF SaveBegin, SaveEnd, RemoveBegin, Getter
  <2>1. UNCHANGED <<phase, outcome, response>> /\ \A f \in Exchange \ {e} : pc'[f] = pc[f]
    BY <1>5
  <2>2. \/ pc[e] \in {"save", "saving", "callback"} /\ pc'[e] \in {"saving", "callback", "looked"}
        \/ pc[e] = "remove" /\ pc'[e] = "removing"
    BY <1>5
  <2>3. Undecided(e)'
    BY <2>1, <2>2 DEF DecisionPending, Undecided
  <2>4. QED
    BY <1>3, <2>1, <2>3
<1>6. ASSUME NEW e \in Exchange, RemoveEnd(e) PROVE DecisionPending'
  <2>1. /\ UNCHANGED outcome /\ pc[e] = "removing" /\ pc'[e] = AfterRemove(e)
        /\ \A f \in Exchange : response'[<<f, "request">>] = response[<<f, "request">>]
        /\ \A f \in Exchange \ {e} : pc'[f] = pc[f] /\ phase'[f] = phase[f]
    BY <1>1, <1>6 DEF RemoveEnd
  <2>2. phase'[e] = IF AfterRemove(e) = "save" THEN "response" ELSE phase[e]
    BY <1>6 DEF RemoveEnd
  <2>3. Undecided(e)'
    BY <2>1, <2>2, AfterRemoveLabel DEF DecisionPending, Undecided
  <2>4. QED
    BY <1>3, <2>1, <2>3
<1>7. ASSUME NEW e \in Exchange, CallbackAnswers(e) \/ CallbackPasses(e)
      PROVE  DecisionPending'
  <2> USE DEF CallbackAnswers, CallbackPasses
  <2>0. Own(e) # None
    BY <1>7, NoneIsNoSession DEF Own, Session
  <2>1. seen[e] = Own(e) /\ seen[e] # None
    BY <1>7, <2>0 DEF PageInv, SeenIsOwn
  <2>2. phase[e] = "request" => (Rejects(seen[e], phase[e]) <=> e \in Forum)
    BY <2>0, <2>1 DEF Rejects, Own
  <2>3. UNCHANGED <<phase, outcome, response>> /\ \A f \in Exchange \ {e} : pc'[f] = pc[f]
    BY <1>7
  <2>4. pc[e] = "looked" /\ pc'[e] = IF Rejects(seen[e], phase[e]) THEN "create" ELSE "returned"
    BY <1>7
  <2>5. Undecided(e)'
    BY <2>2, <2>3, <2>4 DEF DecisionPending, Undecided
  <2>6. QED
    BY <1>3, <2>3, <2>5
<1>8. ASSUME NEW e \in Exchange, CreateLookup(e) \/ CreateAborts(e) PROVE DecisionPending'
  <2>1. UNCHANGED <<phase, outcome, response>> /\ \A f \in Exchange \ {e} : pc'[f] = pc[f]
    BY <1>8 DEF CreateLookup, CreateAborts
  <2>2. pc[e] = "create" /\ pc'[e] \in {"create", "assign"}
    BY <1>8 DEF CreateLookup, CreateAborts
  <2>3. Undecided(e)'
    BY <2>1, <2>2 DEF DecisionPending, Undecided
  <2>4. QED
    BY <1>3, <2>1, <2>3
<1>9. ASSUME NEW e \in Exchange, CreateAssign(e) PROVE DecisionPending'
  <2>1. seen[e] = Own(e) /\ seen[e] # None
    BY <1>1, <1>9, NoneIsNoSession DEF CreateAssign, PageInv, SeenIsOwn, Own, Phases
  <2>2. response' = [response EXCEPT ![<<e, phase[e]>>] = e]
    BY <1>9, <2>1 DEF CreateAssign, Own
  <2>3. \A f \in Exchange \ {e} : response'[<<f, "request">>] = response[<<f, "request">>]
    BY <1>1, <2>2
  <2>4. phase[e] = "request" => response'[<<e, "request">>] # None
    BY <1>1, <2>2, ConstantsOK DEF ConstantsOK
  <2>5. /\ UNCHANGED <<phase, outcome>> /\ \A f \in Exchange \ {e} : pc'[f] = pc[f]
        /\ pc[e] = "assign" /\ pc'[e] = "returned"
    BY <1>9 DEF CreateAssign
  <2>6. Undecided(e)'
    BY <2>4, <2>5 DEF DecisionPending, Undecided
  <2>7. QED
    BY <1>3, <2>3, <2>5, <2>6
<1>10. ASSUME NEW e \in Exchange, NEW v \in {"answered", "forward"}, Decide(e, v)
       PROVE  DecisionPending'
  <2>1. /\ outcome' = [outcome EXCEPT ![e] = v] /\ UNCHANGED <<phase, response>>
        /\ \A f \in Exchange \ {e} : pc'[f] = pc[f]
    BY <1>10 DEF Decide
  <2>2. Undecided(e)'
    BY <2>1 DEF Undecided
  <2>3. QED
    BY <1>3, <2>1, <2>2
<1>11. ASSUME NEW e \in Exchange,
              ReturnResponse(e) \/ ReturnRequest(e) \/ ReturnAfterBlacklist(e)
       PROVE  DecisionPending'
  BY <1>10, <1>11 DEF ReturnResponse, ReturnRequest, ReturnAfterBlacklist
<1>12. ASSUME NEW e \in Exchange, Blacklist(e) PROVE DecisionPending'
  <2>1. /\ outcome' = [outcome EXCEPT ![e] = "blacklisted"] /\ UNCHANGED <<phase, response>>
        /\ pc' = [pc EXCEPT ![e] = "create"]
    BY <1>12 DEF Blacklist
  <2>2. Undecided(e)'
    BY <1>12, <2>1 DEF Blacklist, InRequestFilter, Undecided
  <2>3. QED
    BY <1>3, <2>1, <2>2
<1>13. ASSUME NEW e \in Exchange, TlsDecide(e) PROVE DecisionPending'
  BY <1>0, <1>13 DEF TlsDecide
<1>14. ASSUME NEW e \in Exchange,
              TlsReturn(e) \/ ResponseCallbackReturned(e) \/ Finish(e)
       PROVE  DecisionPending'
  <2> USE DEF TlsReturn, ResponseCallbackReturned, Finish
  <2>1. UNCHANGED <<phase, outcome, response>> /\ \A f \in Exchange \ {e} : pc'[f] = pc[f]
    BY <1>14
  <2>2. pc'[e] \in {"remove", "done"} /\ (pc[e] = "returned" => phase[e] = "response")
    BY <1>14
  <2>3. Undecided(e)'
    BY <1>14, <2>1, <2>2 DEF DecisionPending, Undecided
  <2>4. QED
    BY <1>3, <2>1, <2>3
<1>15. ASSUME NEW e \in Exchange, ServerResponds(e) PROVE DecisionPending'
  <2>1. /\ UNCHANGED outcome /\ pc[e] = "upstream"
        /\ pc'[e] = "done" \/ phase'[e] = "response"
        /\ \A f \in Exchange : response'[<<f, "request">>] = response[<<f, "request">>]
        /\ \A f \in Exchange \ {e} : pc'[f] = pc[f] /\ phase'[f] = phase[f]
    BY <1>1, <1>15 DEF ServerResponds
  <2>2. Undecided(e)'
    BY <2>1 DEF DecisionPending, Undecided
  <2>3. QED
    BY <1>3, <2>1, <2>2
<1>16. QED
  BY <1>2, <1>4, <1>5, <1>6, <1>7, <1>8, <1>9, <1>11, <1>12, <1>13, <1>14, <1>15
  DEF Next, Step, Map, Callback, Filter, Terminated

\* A step decides one request as the policy says, or is a stutter of the policy.
LEMMA StepImplementsPolicy ==
  ASSUME OneCounter, TypeInv, PageInv, DecisionPending, [Next]_vars
  PROVE  [Policy!Next]_Decision
<1> USE DEF TypeInv, TypeOK, Goto, HttpExchange
<1>0. HttpExchange = Exchange
  BY DEF HttpExchange, OneCounter
<1>1. CASE UNCHANGED outcome
  BY <1>1 DEF Decision
<1>2. ASSUME NEW e \in Exchange, NEW v, Decide(e, v),
             outcome[e] \in {"pending", "blacklisted"},
             v = IF UnwantedRequest(e) THEN "answered" ELSE "forward"
      PROVE  Policy!Decide(e)
  <2>1. outcome' = [outcome EXCEPT ![e] = v] /\ v # "blacklisted"
    BY <1>2 DEF Decide
  <2>2. Decision[e] = "pending"
    BY <1>0, <1>2 DEF Decision
  <2>3. Decision' = [Decision EXCEPT ![e] = v]
    BY <1>0, <2>1 DEF Decision
  <2>4. QED
    BY <1>2, <2>2, <2>3 DEF Policy!Decide
<1>3. ASSUME NEW e \in Exchange, ReturnResponse(e) PROVE Policy!Decide(e)
  <2>1. e \in Forum
    BY <1>3 DEF ReturnResponse, InRequestFilter, Decide, DecisionPending, Undecided, Own
  <2>2. QED
    BY <1>2, <1>3, <2>1 DEF ReturnResponse, InRequestFilter, UnwantedRequest
<1>4. ASSUME NEW e \in Exchange, ReturnRequest(e) PROVE Policy!Decide(e)
  <2>1. ~ UnwantedRequest(e)
    BY <1>4 DEF ReturnRequest, InRequestFilter, Decide, DecisionPending, Undecided, Own,
                UnwantedRequest
  <2>2. QED
    BY <1>2, <1>4, <2>1 DEF ReturnRequest, InRequestFilter
<1>5. ASSUME NEW e \in Exchange, ReturnAfterBlacklist(e) PROVE Policy!Decide(e)
  <2>1. UnwantedRequest(e) /\ response[Own(e)] # None
    BY <1>5 DEF ReturnAfterBlacklist, Decide, DecisionPending, Undecided, Own, UnwantedRequest
  <2>2. QED
    BY <1>2, <1>5, <2>1 DEF ReturnAfterBlacklist
<1>6. ASSUME NEW e \in Exchange, Blacklist(e) PROVE UNCHANGED Decision
  BY <1>6 DEF Blacklist, InRequestFilter, Decision
<1>7. ASSUME NEW e \in Exchange, TlsDecide(e) PROVE FALSE
  BY <1>7 DEF TlsDecide, OneCounter
<1>8. ASSUME NEW e \in Exchange, Arrive(e) \/ Map(e) \/ Callback(e) PROVE UNCHANGED outcome
  BY <1>8 DEF Arrive, ArriveCounted, ArriveTls, Map, SaveBegin, SaveEnd, RemoveBegin,
              RemoveEnd, Callback, Getter, CallbackAnswers, CallbackPasses, CreateLookup,
              CreateAborts, CreateAssign
<1>9. ASSUME NEW e \in Exchange,
             ResponseCallbackReturned(e) \/ Finish(e) \/ ServerResponds(e) \/ TlsReturn(e)
      PROVE  UNCHANGED outcome
  BY <1>9 DEF ResponseCallbackReturned, Finish, ServerResponds, TlsReturn
<1>10. (\E e \in Exchange : Policy!Decide(e)) => Policy!Next
  BY <1>0 DEF Policy!Next
<1>11. QED
  BY <1>1, <1>3, <1>4, <1>5, <1>6, <1>7, <1>8, <1>9, <1>10
  DEF Next, Step, Filter, Terminated, vars

\* With one counter the interop protocol implements the policy: each request is
\* decided once, and answered with a page exactly when the embedder does not want
\* it, however the exchanges interleave (main.go:201-283, session.go).
THEOREM PolicyImplemented == OneCounter => (Spec => ImplementsPolicy)
<1> SUFFICES ASSUME OneCounter PROVE Spec => ImplementsPolicy
  OBVIOUS
<1>1. Init => Policy!Init
  BY DEF Init, Policy!Init, Decision, HttpExchange
<1>2. TypeInv /\ HandleInv /\ MapInv /\ PageInv /\ [Next]_vars => PageInv'
  BY StepPageInv
<1>3. TypeInv /\ PageInv /\ DecisionPending /\ [Next]_vars => DecisionPending'
  BY StepDecisionPending
<1>4. TypeInv /\ PageInv /\ DecisionPending /\ [Next]_vars => [Policy!Next]_Decision
  BY StepImplementsPolicy
<1>5. QED
  BY <1>1, <1>2, <1>3, <1>4, InitTypeInv, InitHandleInv, InitMapInv, InitPageInv,
     InitDecisionPending, StepTypeInv, StepHandleInv, StepMapInv, PTL
  DEF Spec, ImplementsPolicy, Policy!Spec

-----------------------------------------------------------------------------
(***************************************************************************)
(* One counter: replaced responses.                                        *)
(***************************************************************************)

\* What goes into the response callback, and what it leaves.
Given(e) == IF outcome[e] = "answered" THEN e ELSE Upstream
Left(e) == IF e \in BadBody THEN e ELSE Given(e)

\* The response of an exchange is what its filters have made of it so far; only
\* the page of an answered request is ever put into the first one.
Made(e) ==
  /\ pc[e] # "tunnel"
  /\ response[<<e, "request">>] \in {None, e}
  /\ phase[e] = "request" =>
       /\ filtered[e] = None /\ pc[e] # "finish"
       /\ outcome[e] = "answered" => response[<<e, "request">>] = e
       /\ pc[e] = "upstream" => outcome[e] = "forward"
  /\ phase[e] = "response" =>
       /\ pc[e] \notin {"idle", "upstream"} /\ outcome[e] \in {"answered", "forward"}
       /\ filtered[e] \in {None, Left(e)}
       /\ pc[e] \in {"save", "saving", "callback", "looked", "create", "assign"} =>
            response[<<e, "response">>] = Given(e)
       /\ pc[e] \in {"create", "assign"} => e \in BadBody
       /\ pc[e] \in {"returned", "remove", "removing", "finish"} =>
            response[<<e, "response">>] = Left(e)

ResponsesMade == \A e \in Exchange : Made(e)

\* No response has been made.
LEMMA InitResponsesMade == Init => ResponsesMade
BY DEF Init, ResponsesMade, Made, Session, Phases

\* What an exchange's response depends on is its own.
LEMMA StepResponsesMade ==
  ASSUME OneCounter, TypeInv, PageInv, ResponsesMade, [Next]_vars
  PROVE  ResponsesMade'
<1> USE DEF TypeInv, TypeOK, Goto
<1>0. \A e \in Exchange : Source[e] # "tls"
  BY DEF OneCounter
<1>1. \A e \in Exchange : <<e, "request">> \in Session /\ <<e, "response">> \in Session
  BY DEF Session, Phases
<1>2. CASE UNCHANGED vars
  BY <1>2 DEF vars, ResponsesMade, Made, Given, Left
<1>3. ASSUME NEW e \in Exchange, Made(e)',
             \A f \in Exchange \ {e} :
               /\ pc'[f] = pc[f] /\ phase'[f] = phase[f] /\ outcome'[f] = outcome[f]
               /\ filtered'[f] = filtered[f]
               /\ response'[<<f, "request">>] = response[<<f, "request">>]
               /\ response'[<<f, "response">>] = response[<<f, "response">>]
      PROVE  ResponsesMade'
  <2>1. ASSUME NEW f \in Exchange \ {e} PROVE Made(f)'
    BY <1>3, <2>1 DEF ResponsesMade, Made, Given, Left
  <2>2. QED
    BY <1>3, <2>1 DEF ResponsesMade
<1>4. ASSUME NEW e \in Exchange, Arrive(e) PROVE ResponsesMade'
  <2>1. pc'[e] = "save" /\ pc[e] = "idle" /\ \A f \in Exchange \ {e} : pc'[f] = pc[f]
    BY <1>4 DEF Arrive, ArriveCounted, ArriveTls
  <2>2. UNCHANGED <<phase, outcome, filtered, response>>
    BY <1>4 DEF Arrive, ArriveCounted, ArriveTls
  <2>3. Made(e)'
    BY <2>1, <2>2 DEF ResponsesMade, Made, Given, Left
  <2>4. QED
    BY <1>3, <2>1, <2>2, <2>3
<1>5. ASSUME NEW e \in Exchange, SaveBegin(e) \/ SaveEnd(e) \/ RemoveBegin(e) \/ Getter(e)
      PROVE  ResponsesMade'
  <2> USE DEF SaveBegin, SaveEnd, RemoveBegin, Getter
  <2>1. UNCHANGED <<phase, outcome, filtered, response>> /\ \A f \in Exchange \ {e} : pc'[f] = pc[f]
    BY <1>5
  <2>2. \/ pc[e] \in {"save", "saving", "callback"} /\ pc'[e] \in {"saving", "callback", "looked"}
        \/ pc[e] = "remove" /\ pc'[e] = "removing"
    BY <1>5
  <2>3. Made(e)'
    BY <2>1, <2>2 DEF ResponsesMade, Made, Given, Left
  <2>4. QED
    BY <1>3, <2>1, <2>3
<1>6. ASSUME NEW e \in Exchange, RemoveEnd(e) PROVE ResponsesMade'
  <2>1. /\ UNCHANGED <<outcome, filtered>> /\ pc[e] = "removing" /\ pc'[e] = AfterRemove(e)
        /\ \A f \in Exchange : response'[<<f, "request">>] = response[<<f, "request">>]
        /\ \A f \in Exchange \ {e} :
             /\ pc'[f] = pc[f] /\ phase'[f] = phase[f]
             /\ response'[<<f, "response">>] = response[<<f, "response">>]
    BY <1>1, <1>6 DEF RemoveEnd
  <2>2. IF AfterRemove(e) = "save"
        THEN phase'[e] = "response" /\ response'[<<e, "response">>] = response[<<e, "request">>]
        ELSE phase'[e] = phase[e] /\ response'[<<e, "response">>] = response[<<e, "response">>]
    BY <1>1, <1>6 DEF RemoveEnd
  <2>3. Made(e)'
    <3>1. CASE AfterRemove(e) = "save"
      <4>1. outcome[e] = "answered" /\ phase[e] = "request"
        BY <3>1 DEF AfterRemove, Phases
      <4>2. response[<<e, "request">>] = e /\ filtered[e] = None
        BY <4>1 DEF ResponsesMade, Made
      <4> QED
        BY <2>1, <2>2, <3>1, <4>1, <4>2 DEF Made, Given
    <3>2. CASE AfterRemove(e) # "save" /\ phase[e] = "request"
      <4>1. /\ pc'[e] \in {"upstream", "done"}
            /\ pc'[e] = "upstream" => outcome[e] = "forward"
        BY <2>1, <3>2 DEF AfterRemove
      <4> QED
        BY <2>1, <2>2, <3>2, <4>1 DEF ResponsesMade, Made
    <3>3. CASE phase[e] = "response"
      <4>1. pc'[e] = "finish"
        BY <2>1, <3>3 DEF AfterRemove
      <4> QED
        BY <2>1, <2>2, <3>3, <4>1 DEF ResponsesMade, Made, Given, Left
    <3> QED
      BY <3>1, <3>2, <3>3 DEF Phases
  <2>4. QED
    BY <1>3, <2>1, <2>3
<1>7. ASSUME NEW e \in Exchange, CallbackAnswers(e) \/ CallbackPasses(e)
      PROVE  ResponsesMade'
  <2> USE DEF CallbackAnswers, CallbackPasses
  <2>0. Own(e) # None
    BY <1>7, NoneIsNoSession DEF Own, Session
  <2>1. seen[e] = Own(e) /\ seen[e] # None
    BY <1>7, <2>0 DEF PageInv, SeenIsOwn
  <2>2. phase[e] = "response" => (Rejects(seen[e], phase[e]) <=> e \in BadBody)
    BY <2>0, <2>1 DEF Rejects, Own
  <2>3. UNCHANGED <<phase, outcome, filtered, response>> /\ \A f \in Exchange \ {e} : pc'[f] = pc[f]
    BY <1>7
  <2>4. pc[e] = "looked" /\ pc'[e] = IF Rejects(seen[e], phase[e]) THEN "create" ELSE "returned"
    BY <1>7
  <2>5. Made(e)'
    BY <2>2, <2>3, <2>4 DEF ResponsesMade, Made, Given, Left
  <2>6. QED
    BY <1>3, <2>3, <2>5
<1>8. ASSUME NEW e \in Exchange, CreateLookup(e) \/ CreateAborts(e) PROVE ResponsesMade'
  <2>1. UNCHANGED <<phase, outcome, filtered, response>> /\ \A f \in Exchange \ {e} : pc'[f] = pc[f]
    BY <1>8 DEF CreateLookup, CreateAborts
  <2>2. pc[e] = "create" /\ pc'[e] \in {"create", "assign"}
    BY <1>8 DEF CreateLookup, CreateAborts
  <2>3. Made(e)'
    BY <2>1, <2>2 DEF ResponsesMade, Made, Given, Left
  <2>4. QED
    BY <1>3, <2>1, <2>3
<1>9. ASSUME NEW e \in Exchange, CreateAssign(e) PROVE ResponsesMade'
  <2>1. seen[e] = Own(e) /\ seen[e] # None
    BY <1>1, <1>9, NoneIsNoSession DEF CreateAssign, PageInv, SeenIsOwn, Own, Phases
  <2>2. response' = [response EXCEPT ![<<e, phase[e]>>] = e]
    BY <1>9, <2>1 DEF CreateAssign, Own
  <2>3. \A f \in Exchange \ {e} :
          /\ response'[<<f, "request">>] = response[<<f, "request">>]
          /\ response'[<<f, "response">>] = response[<<f, "response">>]
    BY <1>1, <2>2
  <2>4. /\ phase[e] = "request" => response'[<<e, "request">>] = e
        /\ phase[e] = "response" =>
             /\ response'[<<e, "response">>] = e
             /\ response'[<<e, "request">>] = response[<<e, "request">>]
    BY <1>1, <2>2
  <2>5. /\ UNCHANGED <<phase, outcome, filtered>> /\ \A f \in Exchange \ {e} : pc'[f] = pc[f]
        /\ pc[e] = "assign" /\ pc'[e] = "returned"
    BY <1>9 DEF CreateAssign
  <2>6. Made(e)'
    BY <2>4, <2>5 DEF ResponsesMade, Made, Given, Left, Phases
  <2>7. QED
    BY <1>3, <2>3, <2>5, <2>6
<1>10. ASSUME NEW e \in Exchange,
              ReturnResponse(e) \/ ReturnRequest(e) \/ Blacklist(e) \/ ReturnAfterBlacklist(e)
       PROVE  ResponsesMade'
  <2>1. \E v \in {"answered", "forward", "blacklisted"} :
          /\ outcome' = [outcome EXCEPT ![e] = v] /\ UNCHANGED <<phase, filtered, response>>
          /\ v = "answered" => response[Own(e)] # None
          /\ \A f \in Exchange \ {e} : pc'[f] = pc[f]
          /\ pc'[e] \in {"create", "remove"}
    BY <1>10 DEF ReturnResponse, ReturnRequest, Blacklist, ReturnAfterBlacklist, Decide
  <2>2. phase[e] = "request"
    BY <1>10 DEF ReturnResponse, ReturnRequest, Blacklist, ReturnAfterBlacklist, InRequestFilter,
                 ResponsesMade, Made, Phases
  <2>3. Made(e)'
    BY <2>1, <2>2 DEF ResponsesMade, Made, Own
  <2>4. QED
    BY <1>3, <2>1, <2>3
<1>11. ASSUME NEW e \in Exchange, TlsDecide(e) \/ TlsReturn(e) PROVE ResponsesMade'
  BY <1>0, <1>11 DEF TlsDecide, TlsReturn, ResponsesMade, Made
<1>12. ASSUME NEW e \in Exchange, ResponseCallbackReturned(e) PROVE ResponsesMade'
  <2>1. /\ UNCHANGED <<phase, outcome, filtered, response>>
        /\ \A f \in Exchange \ {e} : pc'[f] = pc[f]
        /\ pc[e] = "returned" /\ pc'[e] = "remove" /\ phase[e] = "response"
    BY <1>12 DEF ResponseCallbackReturned
  <2>2. Made(e)'
    BY <2>1 DEF ResponsesMade, Made, Given, Left
  <2>3. QED
    BY <1>3, <2>1, <2>2
<1>13. ASSUME NEW e \in Exchange, Finish(e) PROVE ResponsesMade'
  <2>1. /\ UNCHANGED <<phase, outcome, response>> /\ filtered'[e] = response[Own(e)]
        /\ \A f \in Exchange \ {e} : pc'[f] = pc[f] /\ filtered'[f] = filtered[f]
        /\ pc[e] = "finish" /\ pc'[e] = "done"
    BY <1>13 DEF Finish
  <2>2. Made(e) /\ phase[e] = "response" /\ response[Own(e)] = Left(e)
    BY <2>1 DEF ResponsesMade, Made, Phases, Own
  <2>3. Left(e)' = Left(e)
    BY <2>1 DEF Given, Left
  <2>4. Made(e)'
    BY <2>1, <2>2, <2>3 DEF Made
  <2>5. QED
    BY <1>3, <2>1, <2>4
<1>14. ASSUME NEW e \in Exchange, ServerResponds(e) PROVE ResponsesMade'
  <2>0. /\ UNCHANGED <<outcome, filtered>> /\ pc[e] = "upstream"
        /\ \/ pc' = [pc EXCEPT ![e] = "done"] /\ UNCHANGED <<phase, response>>
           \/ /\ pc' = [pc EXCEPT ![e] = "save"] /\ phase' = [phase EXCEPT ![e] = "response"]
              /\ response' = [response EXCEPT ![<<e, "response">>] = Upstream]
    BY <1>14 DEF ServerResponds
  <2>1. /\ UNCHANGED <<outcome, filtered>> /\ pc[e] = "upstream"
        /\ \/ pc'[e] = "done" /\ UNCHANGED <<phase, response>>
           \/ pc'[e] = "save" /\ phase'[e] = "response" /\ response'[<<e, "response">>] = Upstream
        /\ \A f \in Exchange :
             /\ response'[<<f, "request">>] = response[<<f, "request">>]
             /\ f # e => /\ response'[<<f, "response">>] = response[<<f, "response">>]
                         /\ pc'[f] = pc[f] /\ phase'[f] = phase[f]
    BY <1>1, <2>0
  <2>2. phase[e] = "request" /\ outcome[e] = "forward" /\ filtered[e] = None
    BY <2>1 DEF ResponsesMade, Made, Phases
  <2>3. Made(e)'
    BY <2>1, <2>2 DEF ResponsesMade, Made, Given
  <2>4. QED
    BY <1>3, <2>1, <2>3
<1>15. QED
  BY <1>2, <1>4, <1>5, <1>6, <1>7, <1>8, <1>9, <1>10, <1>11, <1>12, <1>13, <1>14
  DEF Next, Step, Map, Callback, Filter, Terminated

\* With one counter the response callback leaves its own page exactly if the
\* embedder replaces the body, or the response was the page of an answered request,
\* and else what came from the server, for any number of exchanges (main.go:327-337).
THEOREM ReplacementsCorrect == Spec => []ResponseReplacedIffBad
<1>1. CASE ~ OneCounter
  <2>1. ResponseReplacedIffBad
    BY <1>1 DEF ResponseReplacedIffBad
  <2>2. QED
    BY <2>1, PTL
<1>2. CASE OneCounter
  <2>1. TypeInv /\ ResponsesMade => ResponseReplacedIffBad
    <3> SUFFICES ASSUME TypeInv, ResponsesMade, NEW e \in Exchange, filtered[e] # None
                 PROVE  filtered[e] = e <=> e \in BadBody \/ outcome[e] = "answered"
      BY DEF ResponseReplacedIffBad
    <3>1. Made(e) /\ phase[e] \in Phases
      BY DEF TypeInv, TypeOK, ResponsesMade
    <3>2. phase[e] = "response"
      BY <3>1 DEF Phases, Made
    <3>3. filtered[e] = Left(e)
      BY <3>1, <3>2 DEF Made
    <3>4. e # Upstream
      BY ConstantsOK DEF ConstantsOK
    <3>5. QED
      BY <3>3, <3>4 DEF Given, Left
  <2>2. TypeInv /\ HandleInv /\ MapInv /\ PageInv /\ [Next]_vars => PageInv'
    BY <1>2, StepPageInv
  <2>3. TypeInv /\ PageInv /\ ResponsesMade /\ [Next]_vars => ResponsesMade'
    BY <1>2, StepResponsesMade
  <2>4. QED
    BY <2>1, <2>2, <2>3, InitTypeInv, InitHandleInv, InitMapInv, InitPageInv, InitResponsesMade,
       StepTypeInv, StepHandleInv, StepMapInv, PTL DEF Spec
<1>3. QED
  BY <1>1, <1>2
=============================================================================
