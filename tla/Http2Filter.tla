---------------------------- MODULE Http2Filter ----------------------------
(***************************************************************************)
(* HTTP/2 filtering (src/goproxy/http2.go): one connection, relayed frame  *)
(* by frame by two goroutines that run the same readFrame.  The one called *)
(* "client" here reads the client and writes to the server, "server" the   *)
(* other way.  Per stream they share the header fields and body chunks     *)
(* that are held back, the response and the proxy context, in maps whose   *)
(* lock is taken around single reads and writes: each action is one such   *)
(* section, or one burst of writes.                                        *)
(*                                                                         *)
(* What the peers send is fixed by `exchange` when the connection begins;  *)
(* `taken` says how far they are read.  A header block or a body chunk is  *)
(* an Item.  A patient server answers a request when all of it has arrived,*)
(* any other may answer as soon as the headers are there; either way the   *)
(* answer may overtake the proxy's bookkeeping for the request.  Streams   *)
(* pushed by the server and trailers of requests are left out.             *)
(***************************************************************************)
EXTENDS Integers, Sequences
LOCAL INSTANCE FiniteSetsExt

CONSTANTS
  Stream, Item,
  Exchanges,               \* see Exchange
  Html, Huge,              \* header blocks that say html or json; that announce > MaxLength
  Bad,                     \* body chunks for which the response filter makes a page
  Length(_),               \* the bytes of a sequence of chunks
  MinLength, MaxLength,    \* MIN_FILTERABLE_LENGTH, MAX_FILTERABLE_LENGTH
  ConnectionWindow,        \* bytes a server may send on all streams together
  Page,                    \* the frames of a block page
  None

Side  == {"client", "server"}
Other(side) == IF side = "client" THEN "server" ELSE "client"
Frame == [type : {"headers", "data", "other"}, items : Seq(Item), ended : BOOLEAN]
\* window: the bytes a server may send on the stream before the client has them.
Exchange == [verdict : {"block", "white", "none"}, patient : BOOLEAN, window : Nat,
             client : Seq(Frame), server : Seq(Frame)]

\* Nobody sends headers or data on a stream after ending it; nothing of a
\* page follows its end, and the filter has nothing against it.
ASSUME ConstantsOK ==
  /\ Exchanges \subseteq [Stream -> Exchange]
  /\ \A x \in Exchanges : \A s \in Stream : \A side \in Side :
       \A i \in 1..Len(x[s][side]) :
         /\ Len(x[s][side][i].items) = 1
         /\ x[s][side][i].ended => \A k \in (i + 1)..Len(x[s][side]) : x[s][side][k].type = "other"
  /\ Page \in Seq(Frame)
  /\ \A i \in 1..Len(Page) : Page[i].items \in Seq(Item \ Bad) /\ (Page[i].ended => i = Len(Page))
  /\ MinLength \in Nat /\ MaxLength \in Nat /\ ConnectionWindow \in Nat

\* Of Length, too, the proofs need the type only; TLC cannot look at all of Seq(Item).
LengthIsNat == \A c \in Seq(Item) : Length(c) \in Nat

VARIABLES
  exchange,   \* what the peers send on each stream, and the request filter's verdict
  taken,      \* frames read from each side, per stream
  credit,     \* bytes the server may still send on a stream
  overtaken,  \* streams with an answer that overtook the bookkeeping (history)
  pc, job,    \* where each goroutine is, and with which frame
  headers,    \* lastHeadersMap (and lastHeadersBlock); empty when deleted
  chunks,     \* responseBodyMapChunks; empty when deleted
  response,   \* lastHttpResponse: its header fields; empty when nil
  body,       \* lastHttpResponse: the last chunks that set its ContentLength
  userData,   \* proxyCtx: what UserData says of the request
  ready,      \* connectionReadyForData
  settled,    \* the client was sent a SETTINGS frame
  got,        \* the frames written to each side, per stream
  intact,     \* no two writes to the client were mixed up
  conn        \* each connection: open, stalled (its peer sends, but reads no more),
              \* left by its peer, or closed by the proxy

vars == <<exchange, taken, credit, overtaken, pc, job, headers, chunks, response, body,
          userData, ready, settled, got, intact, conn>>
held == <<headers, chunks, response, body, userData>>
wire == <<ready, settled, got, intact, conn>>
input == <<exchange, taken, credit, overtaken>>

PageSteps == {"settings", "page", "goaway"}
Steps == {"preface", "idle", "keep", "store", "decide", "write", "forget", "flush", "drop",
          "replace", "clean", "forward", "ended"} \cup PageSteps

Job == [stream : Stream, frame : Frame, copy : Seq(Item), white : BOOLEAN]

ASSUME NoneOK == None \notin Job

Init ==
  /\ exchange \in Exchanges
  /\ taken = [side \in Side |-> [s \in Stream |-> 0]]
  /\ credit = [s \in Stream |-> exchange[s].window]
  /\ overtaken = {}
  /\ pc = [side \in Side |-> "preface"]
  /\ job = [side \in Side |-> None]
  /\ headers = [s \in Stream |-> << >>]
  /\ chunks = headers /\ response = headers /\ body = headers
  /\ userData = [s \in Stream |-> "none"]
  /\ ready = FALSE /\ settled = FALSE /\ intact = TRUE
  /\ got = [side \in Side |-> headers]
  /\ conn = [side \in Side |-> "open"]

Goto(g, step) == pc' = [pc EXCEPT ![g] = step]
Rest(g) == Goto(g, "idle") /\ job' = [job EXCEPT ![g] = None]

-----------------------------------------------------------------------------
(* Writing.  The client goroutine writes a page with the framer the server *)
(* goroutine writes with: when both are about to, the bytes may be mixed   *)
(* up, and the client makes nothing of what follows.                       *)

ServerWrites ==
  \/ pc["server"] \in {"settings", "forward", "flush", "replace"}
  \/ pc["server"] = "write" /\ headers[job["server"].stream] # << >>

Garble == pc["client"] \in PageSteps /\ ServerWrites /\ intact' = FALSE

\* Write errors are ignored: a connection that is gone takes nothing.  A write to
\* a peer that reads no more blocks.
Send(to, s, frames) ==
  /\ conn[to] # "stalled"
  /\ \/ /\ got' = IF conn[to] = "open" /\ (to = "client" => intact)
                  THEN [got EXCEPT ![to][s] = @ \o frames] ELSE got
        /\ UNCHANGED intact
     \/ to = "client" /\ Garble /\ UNCHANGED got

SendSettings ==
  /\ conn["client"] # "stalled"
  /\ \/ settled' = (settled \/ (conn["client"] = "open" /\ intact)) /\ UNCHANGED intact
     \/ Garble /\ UNCHANGED settled

-----------------------------------------------------------------------------
(* Reading.                                                                *)

Preface ==
  /\ pc["client"] = "preface"
  /\ pc' = [side \in Side |-> "idle"]
  /\ UNCHANGED <<input, job, held, wire>>

\* processHttp2Stream returns and closes nothing.
PrefaceFails ==
  /\ pc["client"] = "preface"
  /\ pc' = [side \in Side |-> "ended"]
  /\ UNCHANGED <<input, job, held, wire>>

Incoming(g, s) == exchange[s][g][taken[g][s] + 1]

WorksOn(g, s) == job[g] # None /\ job[g].stream = s

\* The server speaks after its SETTINGS, and on a stream after its request.
Answering(s) ==
  /\ ready
  /\ \E i \in 1..Len(got["server"][s]) : got["server"][s][i].type = "headers"
  /\ exchange[s].patient => \E i \in 1..Len(got["server"][s]) : got["server"][s][i].ended

\* What is read from the server while the client goroutine has not finished with
\* the stream shares the maps with it.
Overtakes(g, s) == g = "server" /\ WorksOn("client", s)

Take(g, s, type, copy, step) ==
  /\ pc[g] = "idle" /\ conn[g] \in {"open", "stalled"}
  /\ taken[g][s] < Len(exchange[s][g])
  /\ Incoming(g, s).type = type
  /\ g = "server" => Answering(s)
  /\ taken' = [taken EXCEPT ![g][s] = @ + 1]
  /\ overtaken' = IF Overtakes(g, s) THEN overtaken \cup {s} ELSE overtaken
  /\ job' = [job EXCEPT ![g] = [stream |-> s, frame |-> Incoming(g, s), copy |-> copy,
                                white |-> userData[s] = "white"]]
  /\ Goto(g, step)
  /\ UNCHANGED <<exchange, wire>>

Fields(g, s) == headers[s] \o Incoming(g, s).items

\* The verdict is FilterRequest's: a page, whitelisted, or neither.
TakeRequest(s) ==
  /\ Take("client", s, "headers", Fields("client", s),
          IF exchange[s].verdict = "block" THEN "settings" ELSE "keep")
  /\ userData' = [userData EXCEPT ![s] = exchange[s].verdict]
  /\ UNCHANGED <<credit, headers, chunks, response, body>>

\* Reading lastHeadersMap and storing lastHttpResponse are two sections;
\* nobody else touches the latter.
TakeResponse(s) ==
  /\ Take("server", s, "headers", Fields("server", s), "keep")
  /\ response' = [response EXCEPT ![s] = Fields("server", s)]
  /\ body' = [body EXCEPT ![s] = << >>]
  /\ UNCHANGED <<credit, headers, chunks, userData>>

\* What is left of the connection's window: what the streams have used of theirs
\* is used of it.
Room == ConnectionWindow - MapThenSumSet(LAMBDA s : exchange[s].window - credit[s], Stream)

TakeData(g, s) ==
  /\ Take(g, s, "data", chunks[s] \o Incoming(g, s).items, "store")
  /\ IF g = "client" THEN UNCHANGED credit
     ELSE /\ Length(Incoming(g, s).items) <= credit[s]
          /\ Length(Incoming(g, s).items) <= Room
          /\ credit' = [credit EXCEPT ![s] = @ - Length(Incoming(g, s).items)]
  /\ UNCHANGED held

\* PRIORITY, RST_STREAM, PING, GOAWAY and so on are passed on at once.
TakeOther(g, s) == Take(g, s, "other", << >>, "forward") /\ UNCHANGED <<credit, held>>

Forward(g) ==
  /\ pc[g] = "forward"
  /\ Send(Other(g), job[g].stream, <<job[g].frame>>)
  /\ Rest(g)
  /\ UNCHANGED <<input, held, ready, settled, conn>>

TakeSettings ==
  /\ pc["server"] = "idle" /\ conn["server"] \in {"open", "stalled"}
  /\ ~ready
  /\ ready' = TRUE
  /\ Goto("server", "settings")
  /\ UNCHANGED <<input, job, held, settled, got, intact, conn>>

ForwardSettings ==
  /\ pc["server"] = "settings"
  /\ SendSettings
  /\ Goto("server", "idle")
  /\ UNCHANGED <<input, job, held, ready, got, conn>>

-----------------------------------------------------------------------------
(* A block page for a request.                                             *)

PageSettings ==
  /\ pc["client"] = "settings"
  /\ IF ready THEN UNCHANGED <<settled, intact>> ELSE SendSettings
  /\ Goto("client", "page")
  /\ UNCHANGED <<input, job, held, ready, got, conn>>

WritePage ==
  /\ pc["client"] = "page"
  /\ Send("client", job["client"].stream, Page)
  /\ Goto("client", "goaway")
  /\ UNCHANGED <<input, job, held, ready, settled, conn>>

\* Mutant: the connection to the server stays.
GoAwayLeavesServer ==
  /\ pc["client"] = "goaway" /\ conn["client"] # "stalled"
  /\ Garble \/ UNCHANGED intact
  /\ pc' = [pc EXCEPT !["client"] = "ended"]
  /\ job' = [job EXCEPT !["client"] = None]
  /\ UNCHANGED <<input, held, ready, settled, got, conn>>

\* GOAWAY, then STATUS_BLOCKED ends the loop and closes the server's side.
GoAway ==
  /\ pc["client"] = "goaway" /\ conn["client"] # "stalled"
  /\ Garble \/ UNCHANGED intact
  /\ pc' = [pc EXCEPT !["client"] = "ended"]
  /\ job' = [job EXCEPT !["client"] = None]
  /\ conn' = [conn EXCEPT !["server"] = "closed"]
  /\ UNCHANGED <<input, held, ready, settled, got>>

-----------------------------------------------------------------------------
(* Headers and data.                                                       *)

\* A Content-Type that is filtered, a Content-Length that is not.
SaysHtml(fields) == \E i \in 1..Len(fields) : fields[i] \in Html
Announces(fields) == \E i \in 1..Len(fields) : fields[i] \in Huge

\* Mutant: a header block that ends the stream may be held.
WritesAtOnceUnended(g) ==
  \/ g = "client" \/ job[g].white
  \/ ~SaysHtml(job[g].copy) \/ Announces(job[g].copy)

WritesAtOnce(g) ==
  \/ g = "client" \/ job[g].white \/ job[g].frame.ended
  \/ ~SaysHtml(job[g].copy) \/ Announces(job[g].copy)

Keep(g) ==
  /\ pc[g] = "keep"
  /\ headers' = [headers EXCEPT ![job[g].stream] = job[g].copy]
  /\ IF WritesAtOnce(g) THEN Goto(g, "write") /\ UNCHANGED job ELSE Rest(g)
  /\ UNCHANGED <<input, chunks, response, body, userData, wire>>

\* Mutant: only the new chunk is stored.
StoreForgets(g) ==
  /\ pc[g] = "store"
  /\ chunks' = [chunks EXCEPT ![job[g].stream] = job[g].frame.items]
  /\ Goto(g, "decide")
  /\ UNCHANGED <<input, job, headers, response, body, userData, wire>>

Store(g) ==
  /\ pc[g] = "store"
  /\ chunks' = [chunks EXCEPT ![job[g].stream] = job[g].copy]
  /\ Goto(g, "decide")
  /\ UNCHANGED <<input, job, headers, response, body, userData, wire>>

\* Mutant: the filter is shown the last chunk.
RejectsLast(parts) == parts # << >> /\ parts[Len(parts)] \in Bad

\* The response filter makes a page of what it is shown.
Rejects(parts) == \E i \in 1..Len(parts) : parts[i] \in Bad

\* contentLength is that of the body put in for the previous frame, and
\* putResponseBody leaves it alone when the chunks are gone.
DecideResponse(s) ==
  LET known == Length(body[s])
      ended == job["server"].frame.ended
      filterable == SaysHtml(response[s]) /\ known <= MaxLength
      rejected == ended /\ known > MinLength /\ Rejects(chunks[s])
  IN
  /\ body' = [body EXCEPT ![s] = IF chunks[s] = << >> THEN @ ELSE chunks[s]]
  /\ \/ filterable /\ ~ended /\ Rest("server")
     \/ filterable /\ rejected /\ Goto("server", "replace") /\ UNCHANGED job
     \/ (filterable => ended /\ ~rejected) /\ Goto("server", "write") /\ UNCHANGED job

Decide(g) ==
  /\ pc[g] = "decide"
  /\ IF g = "server" /\ ~job[g].white /\ response[job[g].stream] # << >>
     THEN DecideResponse(job[g].stream)
     ELSE Goto(g, "write") /\ UNCHANGED <<job, body>>
  /\ UNCHANGED <<input, headers, chunks, response, userData, wire>>

\* A page for a response; by then the server's SETTINGS have been read.
Replace ==
  /\ pc["server"] = "replace"
  /\ Send("client", job["server"].stream, Page)
  /\ Goto("server", "clean")
  /\ UNCHANGED <<input, job, held, ready, settled, conn>>

\* lastHeadersMap keeps its entry.  The STATUS_BLOCKED returned here is
\* dropped: the loop goes on.
Clean ==
  /\ pc["server"] = "clean"
  /\ LET s == job["server"].stream IN
       /\ response' = [response EXCEPT ![s] = << >>]
       /\ body' = [body EXCEPT ![s] = << >>]
       /\ chunks' = [chunks EXCEPT ![s] = << >>]
  /\ Rest("server")
  /\ UNCHANGED <<input, headers, userData, wire>>

-----------------------------------------------------------------------------
(* writeDataAndHeaders.                                                    *)

Write(g) ==
  /\ pc[g] = "write"
  /\ LET s == job[g].stream IN
     /\ IF headers[s] = << >>
        THEN UNCHANGED <<got, intact>>
        ELSE Send(Other(g), s, <<[type |-> "headers", items |-> headers[s],
                                  ended |-> chunks[s] = << >> /\ job[g].frame.ended]>>)
     /\ IF headers[s] = << >> /\ chunks[s] = << >>
        THEN Rest(g)
        ELSE /\ job' = [job EXCEPT ![g].copy = chunks[s]]
             /\ Goto(g, IF headers[s] = << >> THEN "flush" ELSE "forget")
  /\ UNCHANGED <<input, held, ready, settled, conn>>

Forget(g) ==
  /\ pc[g] = "forget"
  /\ headers' = [headers EXCEPT ![job[g].stream] = << >>]
  /\ IF job[g].copy = << >> THEN Rest(g) ELSE Goto(g, "flush") /\ UNCHANGED job
  /\ UNCHANGED <<input, chunks, response, body, userData, wire>>

\* Mutant: every frame ends the stream.
DataFramesEndEach(parts, ended) ==
  [i \in 1..Len(parts) |-> [type |-> "data", items |-> <<parts[i]>>, ended |-> ended]]

DataFrames(parts, ended) ==
  [i \in 1..Len(parts) |-> [type |-> "data", items |-> <<parts[i]>>,
                            ended |-> ended /\ i = Len(parts)]]

\* A client that has DATA makes room for as much again, on the stream and on the
\* connection; the bytes of a body that was replaced or lost stay used.
Flush(g) ==
  /\ pc[g] = "flush"
  /\ Send(Other(g), job[g].stream, DataFrames(job[g].copy, job[g].frame.ended))
  /\ Goto(g, "drop")
  /\ IF g = "server" /\ got' # got
     THEN credit' = [credit EXCEPT ![job[g].stream] = @ + Length(job[g].copy)]
     ELSE UNCHANGED credit
  /\ UNCHANGED <<exchange, taken, overtaken, job, held, ready, settled, conn>>

Drop(g) ==
  /\ pc[g] = "drop"
  /\ chunks' = [chunks EXCEPT ![job[g].stream] = << >>]
  /\ Rest(g)
  /\ UNCHANGED <<input, headers, response, body, userData, wire>>

-----------------------------------------------------------------------------
(* The ends.                                                               *)

\* A peer stops reading for good, or leaves, whenever it likes.
Stall(side) ==
  /\ conn[side] = "open"
  /\ conn' = [conn EXCEPT ![side] = "stalled"]
  /\ UNCHANGED <<input, pc, job, held, ready, settled, got, intact>>

Leave(side) ==
  /\ conn[side] \in {"open", "stalled"}
  /\ conn' = [conn EXCEPT ![side] = "left"]
  /\ UNCHANGED <<input, pc, job, held, ready, settled, got, intact>>

\* Mutant: the loop ends whatever it is doing.
ReadFailsAnyhow(g) ==
  /\ pc[g] \notin {"preface", "ended"} /\ conn[g] \in {"left", "closed"}
  /\ Goto(g, "ended")
  /\ conn' = IF g = "server" THEN [conn EXCEPT !["client"] = "closed"] ELSE conn
  /\ UNCHANGED <<input, job, held, ready, settled, got, intact>>

\* ReadFrame fails.  The server goroutine then closes the client's side; the
\* client goroutine closes nothing.
ReadFails(g) ==
  /\ pc[g] = "idle" /\ conn[g] \in {"left", "closed"}
  /\ Goto(g, "ended")
  /\ conn' = IF g = "server" THEN [conn EXCEPT !["client"] = "closed"] ELSE conn
  /\ UNCHANGED <<input, job, held, ready, settled, got, intact>>

Process(g) ==
  \/ \E s \in Stream : TakeData(g, s) \/ TakeOther(g, s)
  \/ Forward(g) \/ Keep(g) \/ Store(g) \/ Decide(g)
  \/ Write(g) \/ Forget(g) \/ Flush(g) \/ Drop(g)
  \/ ReadFails(g)

ClientLoop == Process("client") \/ PageSettings \/ WritePage \/ GoAway
              \/ \E s \in Stream : TakeRequest(s)

ServerLoop == Process("server") \/ TakeSettings \/ ForwardSettings \/ Replace \/ Clean
              \/ \E s \in Stream : TakeResponse(s)

Next ==
  \/ Preface \/ PrefaceFails
  \/ ClientLoop \/ ServerLoop
  \/ \E side \in Side : Stall(side) \/ Leave(side)

Spec == Init /\ [][Next]_vars

\* Goroutines that can go on do; the peers send what they have to send, but
\* need not read it to the end, nor leave.
FairSpec ==
  Spec /\ WF_vars(Preface \/ PrefaceFails) /\ WF_vars(ClientLoop) /\ WF_vars(ServerLoop)

-----------------------------------------------------------------------------
(* Properties.                                                             *)

\* Between two frames, or at one that is not of a stream.
Resting(g) ==
  pc[g] \in {"preface", "idle", "ended"} \/ (g = "server" /\ pc[g] = "settings")

\* Every variable has its type; a goroutine has a frame exactly while it is
\* working on one, and both loops begin together.
TypeOK ==
  /\ exchange \in Exchanges
  /\ taken \in [Side -> [Stream -> Nat]]
  /\ credit \in [Stream -> Int]
  /\ overtaken \subseteq Stream
  /\ pc \in [Side -> Steps]
  /\ job \in [Side -> Job \cup {None}]
  /\ \A g \in Side : job[g] = None <=> Resting(g)
  /\ pc["client"] = "preface" <=> pc["server"] = "preface"
  /\ headers \in [Stream -> Seq(Item)]
  /\ chunks \in [Stream -> Seq(Item)]
  /\ response \in [Stream -> Seq(Item)]
  /\ body \in [Stream -> Seq(Item)]
  /\ userData \in [Stream -> {"block", "white", "none"}]
  /\ ready \in BOOLEAN /\ settled \in BOOLEAN /\ intact \in BOOLEAN
  /\ got \in [Side -> [Stream -> Seq(Frame)]]
  /\ conn \in [Side -> {"open", "stalled", "left", "closed"}]

Answer(s) == exchange[s].server

\* The exchanges of the ordinary kind: each side sends one header block and
\* then data, and no part of the response is longer than what can be filtered.
TameExchanges ==
  {x \in UNION {{y[s] : s \in Stream} : y \in Exchanges} :
     /\ x.patient
     /\ \A i \in 1..Len(x.client) : x.client[i].type = (IF i = 1 THEN "headers" ELSE "data")
     /\ \A i \in 1..Len(x.server) :
          /\ x.server[i].type = (IF i = 1 THEN "headers" ELSE "data")
          /\ x.server[i].items[1] \notin Huge
          /\ Length([k \in 1..(i - 1) |-> x.server[k + 1].items[1]]) <= MaxLength}
Tame(s) == exchange[s] \in TameExchanges

\* On such a stream each side gets what the other one sent, frame for frame
\* and in order, or the client gets a page it was to get and nothing else,
\* whatever was held meanwhile, and whatever goes on on other streams; only
\* when the answer overtakes the bookkeeping for a request that the server has
\* in full, nothing is promised of the answer (http2.go, readFrame and
\* writeDataAndHeaders).
Held == INSTANCE HeldBody WITH
  got <- [side \in Side |-> [s \in Stream |->
            IF Tame(s) /\ (side = "server" \/ s \notin overtaken) THEN got[side][s] ELSE << >>]],
  waived <- {s \in overtaken : Tame(s)}
ImplementsHeld == Held!Spec

\* Nobody is sent headers or data on a stream after its end, also when a
\* server answers early, when chunks of the two directions meet in one map,
\* and when a page replaces a response that has begun (http2.go:473-482).
NothingAfterEnd ==
  \A side \in Side : \A s \in Stream : \A i, j \in 1..Len(got[side][s]) :
    i < j /\ got[side][s][i].ended => got[side][s][j].type = "other"

\* The chunks of the first n frames of an answer, for every n.
Chunks(s) ==
  LET c[n \in 0..Len(Answer(s))] ==
        IF n = 0 THEN << >>
        ELSE IF Answer(s)[n].type = "data" THEN c[n - 1] \o Answer(s)[n].items
        ELSE c[n - 1]
  IN  c
Body(s) == Chunks(s)[Len(Answer(s))]

LastHeaders(s, i) ==
  /\ Answer(s)[i].type = "headers"
  /\ \A k \in (i + 1)..Len(Answer(s)) : Answer(s)[k].type # "headers"

\* What the filter lets pass: the request or the type tells it to; trailers
\* end the stream; what comes before some chunk is too long, or too short
\* before the last; and an upload that goes on, or is not done with, writes
\* to the same map of chunks.
PassesUnfiltered(s) ==
  LET x == Answer(s) IN
  \/ exchange[s].verdict = "white"
  \/ \A i \in 1..Len(x) : LastHeaders(s, i) => ~SaysHtml(x[i].items)
  \/ \E i, k \in 1..Len(x) : i < k /\ x[i].type = "data" /\ x[k].type = "headers"
  \/ \E n \in 1..Len(x) :
       /\ x[n].type = "data"
       /\ \/ Length(Chunks(s)[n - 1]) > MaxLength
          \/ x[n].ended /\ Length(Chunks(s)[n - 1]) <= MinLength
  \/ Len(exchange[s].client) > 1 /\ (~exchange[s].patient \/ s \in overtaken)

\* Apart from these, no part of a body that the filter rejects is ever
\* sent to the client, not even while the body is still coming in
\* (http2.go:149-210).
BadSlipsOnlyAsKnown ==
  \A s \in Stream : \A i \in 1..Len(got["client"][s]) :
    got["client"][s][i].type = "data" /\ Rejects(got["client"][s][i].items) => PassesUnfiltered(s)

Broken == conn # [side \in Side |-> "open"] \/ ~intact

\* A response to a request that was sent in full is in the end delivered to its
\* end, or replaced by a page, unless it overtook the bookkeeping, if it fits into
\* the client's windows: that of the stream, and that of the connection together
\* with all other bodies, of which none gives back what it used when it is
\* replaced.  If not, a held body waits for room that only its delivery would make
\* (http2.go:195-203, 360).
ResponseCompletes ==
  \A s \in Stream :
    /\ pc["client"] = "idle"
    /\ \A r \in Stream : exchange[r].verdict # "block"
    /\ exchange[s].patient
    /\ Answer(s) # << >> /\ Answer(s)[Len(Answer(s))].ended
    /\ Length(Body(s)) <= exchange[s].window
    /\ MapThenSumSet(LAMBDA r : Length(Body(r)), Stream) <= ConnectionWindow
    ~> \/ Broken \/ s \in overtaken
       \/ \E i \in 1..Len(got["client"][s]) : got["client"][s][i].ended

\* A page for a request, and a server that leaves, end both loops, unless the
\* client reads no more and a write to it blocks (http2.go:97-113).  A client that
\* leaves ends only its own.
ConnectionEnds ==
  pc["client"] = "goaway" \/ conn["server"] \in {"left", "closed"} ~>
    pc = [side \in Side |-> "ended"] \/ conn["client"] = "stalled"

\* "once server sent the settings we're good to go" (http2.go:320): the first
\* frame the client gets on any stream comes after a SETTINGS frame.
SettingsComeFirst ==
  \A s \in Stream : got["client"][s] # << >> => settled
=============================================================================
