# Verification of goproxy-managed

TLA+ models, TLC runs and TLAPS proofs for the filtering proxy in this repository:
`goproxy/` (the Go library), `GoProxyWrapper/` (its .NET wrapper) and `app/` (the
sample embedder). Line numbers below are those of the files in the repository.

## 1. The system

An embedder (a .NET program) loads the Go library, registers callbacks, and starts it.
The library listens on two ports: an HTTP port served by `net/http` with a goproxy
handler, and an HTTPS port on which diverted TLS, plain HTTP and SOCKS5 connections
arrive. Requests and responses are shown to the embedder through integer handles.

| Part | State | Operations | Talks to |
|---|---|---|---|
| Interop session map (`session.go`, `request.go`, `response.go`) | `sessionMap`, `mapWriteLock` | save, remove, getters, `CreateResponse` | filters; embedder callbacks, by handle |
| Filters (`main.go:201-338`) | `ctx.UserData["blocked"]`, one `session` per callback | request filter, response filter | session map, ad block matcher, goproxy, HTTP/2 |
| Lifecycle (`main.go:163-199, 340-380, 642-652`) | `server`, listeners, goroutines | `Start`, `Stop`, `IsRunning` | embedder buttons and timer, `net/http` |
| HTTPS connection handler (`main.go:388-497`) | `portMap`, `addressMap` | peek, `TLS`, port lookup, `HTTP`, dispatch | shared connections, tunnels, goproxy |
| Shared connections (`vhost_shared.go`, `vhost_http.go`, `vhost_tls.go`) | `vhostBuf` per layer | `newShared`, `Read`, `HTTP`, `TLS` | the handler and the muxer |
| HTTP/2 filtering (`http2.go`) | per-stream maps, `connectionReadyForData` | two `readFrame` loops, block pages | filters, session counter |
| Ad block matcher (`adblock*.go`) | categories, matchers, domains, bypass | parse, swap, load, save, match | filters, embedder |
| Tunnels (`main.go:501-613`) | two copy goroutines | `twoWayCopy` | handler |
| Vhost muxer (`vhost_mux.go`) | registry, accept and error channels | `Listen`, `Close`, `handle`, `NextError` | shared connections (no caller inside the repository) |
| ClientHello reader and parser (`vhost_tls.go:200-447`) | record buffers | `readClientHello`, `unmarshal` | shared connections |
| Certificates (`certs.go`), diagnostics (`debug*.go`), marshalling (`GoProxyWrapper/`) | - | - | - |

What is hard about it: one map of sessions is shared by three code paths that draw their
handles from unrelated sources, and callbacks leave the Go code between save and
remove; one global `server` is written by the embedder's thread and by the goroutine of
every server ever started, and polled by the listeners; connections are read twice by
parsers before they are handed on; the two HTTP/2 goroutines share maps with locks
around single reads and writes only. `PROJECT.json` lists these hazards at their lines.

What makes each part correct:

* session map and filters: a handle denotes the session of the exchange whose callback
  runs; a page goes to the exchange it was made for; an entry does not outlive its
  exchange; each request gets the decision the callbacks and lists ask for; filters end.
* lifecycle: the server that serves is the one `Stop` will reach; when nothing is going
  on, both ports are served or neither; stopping frees the ports.
* shared connections: the final reader sees the stream from its first byte, in order, once.
* HTTP/2: a held response is released or replaced, completely, in order, and once; no
  page precedes the server's SETTINGS; a blocked stream ends.
* matcher: no `RuleMatcher` holds more than `MAX_RULES_PER_MATCHER` rules, every parsed
  rule is found in a category of its list type, bypass never affects ordinary lists; lists in
  use are not written, and a request decides as one set of lists and one setting require.
* handler: a connection for which a destination was published in time goes there, whoever used
  its port before; what the embedder left a page for is not tunnelled past it; tunnels end.
* muxer: a connection accepted reaches a listener or is reported; nobody closes it under its
  owner, no deadline of the muxer stays on it, and its goroutine ends.

## 2. Modules

| Module | Models | Checked by | Proved in |
|---|---|---|---|
| `FilterPolicy` | abstract: one decision per request, the one that is asked for | as `ImplementsPolicy` | |
| `InteropSession` | session map, callbacks and filters, per goroutine and lock step | `MCInteropSession` | `InteropSessionProofs` |
| `ProxyLifecycle` | Start, Stop, buttons, goroutines of every generation | `MCProxyLifecycle` | `ProxyLifecycleProofs` |
| `UnreadConn` | abstract: a connection nobody has read | as `ImplementsUnread` | |
| `SharedConn` | the bytes of a connection through two replaying layers | `MCSharedConn` | `SharedConnProofs` |
| `HeldBody` | abstract: a relay that may hold frames back, or give a page instead | as `ImplementsHeld` | `Http2RelayProofs` |
| `Http2Filter` | the two `readFrame` loops of one connection, per lock section | `MCHttp2Filter` | `Http2FilterProofs`, `Http2RelayProofs` |
| `VhostMux` | main loop, a goroutine per connection, Listeners, error handler | `MCVhostMux` | `VhostMuxProofs` |
| `HttpsConn` | port map, polling, routing, SOCKS dialer, tunnels | `MCHttpsConn` | `HttpsConnProofs` |
| `AdBlockMatcher` | rule import, publication, bypass, load and save, and requests that ask meanwhile | `MCAdBlockMatcher` | `AdBlockMatcherProofs` |

Definitions whose comment begins with "Mutant" are the plausible bugs each property is
tried against; no specification uses them.

### InteropSession

Each element of `Exchange` is a goroutine that carries one client request on one of
three paths (`Source`): HTTP/1 (goproxy's session counter), HTTP/2
(`http2ProxySessionCounter`, `http2.go:250`) or the early TLS path of the HTTPS
listener (the local TCP port, `main.go:472`). `pc` walks through the code: `save`/`saving`
(`session.go:23-28`, the lock being held in `saving`), `callback`/`looked` (a getter, the
embedder's decision), `create`/`assign` (`CreateResponse`: the read of the map at
`response.go:201` without the lock, then the assignment to the session found),
`returned` (the filter's decision, `main.go:213-283`, including the Blacklisted event as a
second callback), `remove`/`removing`, `upstream` (the server's answer), and the same again
for the response filter (`main.go:327-335`).

The unlocked read during a write is a data race: it returns the old or the new
entry (`CreateLookup`), or Go's runtime aborts the process (`CreateAborts`). The embedder is
the sample application: it rejects some URLs in BeforeRequest, some in Blacklisted
and replaces some responses. What the lists say of an URL is a constant (`Verdict`).
`main.go:223-231` is left out: `RemoteAddr` is host:port, which `net.ParseIP` never accepts.
Of the TLS path only the callback is modelled here; what its result decides
(`main.go:479`) is in `HttpsConn`.

### ProxyLifecycle

A generation `g` is one call of Start. `app` is the embedder's thread, between the steps
of Start (`main.go:199` spawns and assigns in two steps, `201-347`), Stop (`645`, `646`) and
the sample's timer, which reads IsRunning once per button (`Form1.cs:160-161`). `http[g]` is
the goroutine of `startHttpServer`: bind, serve, return, and `server = nil` (`main.go:171`).
`https[g]` is the loop of `runHttpsListener`. `monitor[g]` is `monitorMemoryUsage`. `Listen`, `Serve`
and `ServeReturns` follow `net/http`: a server told to shut down before it serves still
closes its listener. The two ports are taken to be free of other programs.

Three embedders are distinguished. The *hasty* one clicks whenever a button is enabled,
as the sample allows, so that it may start a second server without stopping the first. The *orderly* one
starts only what it has stopped. The *patient* one waits until every goroutine is at rest and the
buttons are up to date.

### SharedConn

`incoming` is what has not been read from the accepted connection, `tlsBuf` and `httpBuf`
the two `vhostBuf`s, `delivered` what the final reader has forwarded. The stages are those
of the handler: peek, `TLS()`, dispatch, `HTTP()` on top of the TLSConn if that failed, dial,
copy. A read returns any non-empty prefix of what is there, so TCP may cut the stream
anywhere. Which bytes are a ClientHello or a request is left open: either verdict may
follow once the record header is there, failure when the stream ends.

### AdBlockMatcher

`heap` holds every `AdBlockMatcher` made; `active` and `loading` are the variables `adBlockMatcher`
and `adBlockMatcherNew`. The embedder's loading thread makes, fills and publishes
matchers: `Initialize`, `ParseRuleFile` and one `ParseLine` per line (`adblock_import.go:52-78`), the three
assignments of LoadingFinished (`CopyBypass`, `Publish`, `ClearLoading`,
`adblock_interop.go:30-46`), `Save`, `Load`. `SetBypass` may be called by the same thread or another
(`toggler`). Requests run the reads of `adBlockMatcher` one at a time: the nil
check, up to four reads in AreListsLoaded (`adblock_interop.go:77-86`), the receiver of the match
(`Take`), the match (`Test`).

A matcher keeps its categories in two lists, for each the rules of every `RuleMatcher` and the type
of every plain domain; `last` is `lastCategory`, whose last matcher `lastMatcher` always is. What
rules and suffixes a request matches are constants (`Accepts`, `HostSuffixes`): the library's
matching is external, and which of several accepting rules it reports is left open. Four
variables are history: `fed` (the rules a matcher was given, the reference for
`ImportFaithful`), `wanted` (the setting asked for last), `inForce` (what each request could have seen
while it ran) and `emptied` (a failed Load took lists away).

Assumptions about the embedder: a category id always comes with the same list type
(`ListOf`); one thread loads; Save and the bypass calls are made only while there is a matcher,
for the code dereferences it unchecked; Save and Load do not overlap with loading. Saving either
leaves a whole file or one that does not decode.

What one meets in this model, none of it against a doc: the reads of
AreListsLoaded can be torn, so that a request passes unfiltered between lists that hold only
bypass rules and lists that hold only ordinary ones, though lists were loaded all the time;
Load forgets the bypass setting and, if it fails, leaves nil, at which a handler between two
reads panics; a second thread's bypass call can be lost against LoadingFinished. The properties
say so: each names the exception.

### Http2Filter

One connection. The goroutine called "client" reads the client and writes to the server, "server" the
other way (`http2.go:96-113`); both run `readFrame`, so most actions take the goroutine as a
parameter. `pc` says where it is between two sections under the handler's lock, `job` with which
frame and with what it copied out of a map: `keep` is between reading `lastHeadersMap` and storing
the block (`231-306`), `store` between reading and writing the chunks (`134-146`), `decide` is
the choice whether to hold, filter or pass on (`154-210`), `write`, `forget`, `flush`, `drop` are
`writeDataAndHeaders` (`458-493`): read headers and chunks, write the headers, delete them, write the
chunks, delete them. `settings`, `page`, `goaway` write a block page for a request (`258-276`), `replace`
and `clean` one for a response. The maps `headers`, `chunks`, `response`, `userData` are the
handler's, per stream; `body` is what the response's ContentLength was last computed from.

The peers are part of the model: `exchange` fixes what each sends on each stream, `taken` how far it
was read. A *patient* server answers a request that arrived in full, any other one as
soon as it has the request's headers, so that upload and response meet in the shared maps. Neither sees
what the proxy has still to do: a server that has the request in full may answer before the goroutine
that wrote it has deleted the request's headers and chunks (`477-481`, `489-491`), and that
deletion then hits what the other goroutine has stored of the response (`303-306`, `144-146`).
`overtaken` remembers the streams on which something of the answer was read while the other goroutine still
worked on the stream.

`credit` is the flow-control window of the client for a stream, `Room` what is left of that of the
connection, in which all streams share. The proxy neither opens nor respects them: WINDOW_UPDATE
frames are passed on, so a body that is held waits for room that only its delivery makes, and the bytes of
one that is replaced are never given back to the connection. Either peer may leave, or stop reading
(`stalled`): then a write to it blocks the goroutine. Both goroutines may write to the client at once;
what follows is then garbled (`intact`).

`HeldBody` says what this amounts to for a stream of the ordinary kind (`Tame`): each side has
received a prefix of what the other sent, or the client has received a page, given to it whole, before
anything else, and only if it was called for. Only the response may be waived, when the request has
arrived in full and nothing of the response was given yet: `Http2Filter` does so exactly when the answer
overtakes. What reaches the client of such a stream is then not promised: headers or
chunks may be missing.

### VhostMux

`loop` is `run` (`vhost_mux.go:97-117`), `stage[c]` the goroutine `handle` of a connection
(`119-160`), with its three deferred functions (clear the deadline, recover, report), `registry` the map under
its lock, `listener[l]` the two steps of a Listener's Close (`del`, then close the channel),
`reader` the one goroutine that reads errors: `HandleErrors` of the TLS muxer, which returns at
`Closed`, or of the HTTP muxer, which does not. The accept and the error channel are unbuffered: a
hand-over and a report are one step of two goroutines. A send on a closed channel panics and
is reported; a send to a Listener nobody accepts from, and does not close, waits, as in the code.
`net` is external: the error of a closed listener is permanent, a deadline cannot be set on
a closed connection.

### HttpsConn

`stage[c]` is the goroutine of a connection (`main.go:388-497`): peek, poll `portMap` until there is
an entry or `MaxPolls` attempts are over, `Route` (`435-497`), dial, tunnel. Connections may
have the same local port one after the other, and entries of the map stay. `Publish` is
`SetDestPortForLocalPort`, at any time after the connection has begun, also when it is over, or never; `misled`
remembers which live connections lost their entry to one that was over. For a SOCKS connection
`Inner` is the connection the handler dials to the same port and publishes for (`350-362`). A TLS connection
whose host is whitelisted is chained early unless the request callback left a page (`Paged`, `main.go:479`);
any other becomes a CONNECT request, for which `HandleConnect` (`main.go:74-100`) answers a
plain tunnel if the host is whitelisted or resolves to a private address (`ToPrivate`), and else
interception: a page that the callback left for such a host keeps it from being chained, but is
never shown. What goproxy and the SOCKS library do after that is one step, `ProxyEnds`.

The two copies of `twoWayCopy` are `up` and `down`, each reading or writing; the peers finish, disappear
or take nothing more (`deaf`) at any time. The end of one copy is passed on by `CloseWrite`: to the
remote side always, since that is a TCP connection; to the client through `TLSConn` and `HTTPConn`
(`vhost_tls.go:99-106`, `vhost_http.go:32-39`), which pass it to the connection they wrap. That is in the end what
`newBufferedConn` returns, which the repository does not define, so `conveys`, whether it has
a `CloseWrite`, is left open.

What one meets in this model, besides what section 3 lists: an entry left by an earlier connection of the port
is used at once, before the right one is published; one published late, for a connection that is
over, replaces the right one; without an entry the
connection is taken to be for this host, hence private and unfiltered. The SOCKS handler publishes
`host:port`, which is no IP address, so what is not TLS and not filtered HTTP cannot be dialed; if its own dial
fails it dereferences nil (`crashed`). A connection whose peek or dial fails stays
open (`dropped`). If the client's connection has no `CloseWrite` the client is not told that the remote
side has finished, and the tunnel lasts until the client finishes, too.

## 3. Runs

| Run | Instance | Shows |
|---|---|---|
| `interop_one_path` | four HTTP/1 exchanges, of which one is rejected by BeforeRequest, one by a list, and responses are replaced; handles 1..4 | `PagesReachTheirExchange`, `ResponseReplacedIffBad`, refinement of `FilterPolicy` |
| `interop_all_paths` | one exchange of each path, two handles and ports, under fairness | `TypeOK`, `NoDanglingSession`, `HandleDenotesOwnSession`, `FilterTerminates`, with handles that collide and with such that do not |
| `interop_collision` | one exchange of each path, handles 1..2 | **violates** `UnwantedPageIsBlocked` |
| `lifecycle` | two starts, all three embedders, under fairness | type, `PatientServerIsStoppable`, `PatientRestIsConsistent`, `OnlyTheEmbedderSwitches`, `StopFreesHttpPort`, `NextConnectionClosesListener` |
| `lifecycle_unstoppable` | two starts, the orderly embedder | **violates** `ServingIsStoppable` |
| `shared_conn` | streams of 0 to 6 distinct bytes, record header of 3 | `TypeOK`, `NothingLost`, `DoneDeliversAll`, refinement of `UnreadConn` |
| `adblock` | two matchers, two files parsed in all, limit 2; one question, of a page, an early connection or localhost | `TypeOK`, `MatchersBounded`, `ImportFaithful`, `PublishedIsFrozen`, `BypassKept`, `OnlyFailedLoadCrashes`, `DecisionHasItsMoment` |
| `http2` | fourteen pairs of exchanges on two streams (below), under fairness | `TypeOK`, `NothingAfterEnd`, `BadSlipsOnlyAsKnown`, refinement of `HeldBody`, `ResponseCompletes`, `ConnectionEnds` |
| `http2_settings` | the same | **violates** `SettingsComeFirst` |
| `vhost_mux` | two connections, one for a host under a wildcard and one for the wildcard's name, two Listeners of that wildcard, both kinds of muxer, under fairness | `TypeOK`, `RegisteredWhileOpen`, `OwnerKeepsConnection`, `DeadlineCleared`, `EveryConnectionSettles` |
| `vhost_mux_closed` | the same | **violates** `CloseIsReported` |
| `https_conn` | three connections, two of them on one port: to a whitelisted site, and dialed by the SOCKS handler for the third; three ways of carrying TLS, HTTP or neither; 2 polls; under fairness | `TypeOK`, `InformedGoesHome`, `TunnelEndsWithEither` |

Bounds. Collisions need two exchanges with one handle; a third shows what happens to
a bystander and lets all three paths meet. With two handles some pairs collide and others do not, so that
what `HandleDenotesOwnSession` excepts is not always there: a handle whose sharers have
saved nothing yet, or that nobody shares, must denote its own session. `Id` bounds the two counters, nothing else. Two
generations are enough for a goroutine of one to disturb the next, and the proofs
have no bound on them. Six bytes let each parser and the copy read at least twice with
the boundaries of both buffers anywhere among them; the shorter streams end in the peek,
the header and the request. `SharedConn.cfg` switches the deadlock check off because a
finished handler has nothing left to do, and so does
`AdBlockMatcher.cfg`, where the bounds run out; the other models stutter explicitly when they end.
One question per behaviour is enough (`MaxAsked`), since handlers write nothing that others
read; two matchers are an old and a new one (`MaxLists`), and two files (`MaxFiles`) reach a limit within a
file, at its end, and in a category begun earlier. Neither bounds the proofs' lists.

The exchanges of `http2` (`MCExchanges`) are one of each case of the code: a good, a rejected, a
whitelisted, a blocked and an unfiltered response; one data frame; one that is short until its last
chunk; early headers and trailers; an announced and an actual length beyond the limit, with a window
that suffices and one that does not, and one announced in headers that others replace; a reset
within a body, and one after the end; an empty response; an unused stream; and rejected responses to a request
answered early, to an upload that is answered early and then cancelled, and to one that is cancelled late. Two of the bodies do not fit
into the windows, one into its stream's, the other, beside a second response, into the
connection's; all others do. Two streams are enough for one to disturb
another, as a step involves one stream and a connection-wide variable at most; each pair puts cases
together that share one (a blocked request ends the loop the other stream needs, an upload writes
while a response is read). A chunk is 1 or 2 bytes, the limits 1 and 6. `vhost_mux` needs a second
Listener to take over a name while a connection is on its way to the first, and a second connection to contend
for the error handler. In `https_conn` one port is used by a connection to the
internet and by one of the SOCKS handler, in either order; with 2 polls a destination can come
before, between and after them, and after the connection. A third, unrelated tunnel would add no step that
touches the first two. The three switch the deadlock check off because connections end, and
no more need come.

Fairness. Go schedules every runnable goroutine, so each exchange's steps
(`InteropSession`) and each goroutine's steps and the calls already begun
(`ProxyLifecycle`) are weakly fair. That relies on the embedder's callbacks returning and on
the server answering, for `FilterTerminates`. Nobody has to click, no client has to connect
(`Accept` is unfair), and no monitor has to wake in time for anything.

`Http2Filter` is weakly fair to each of the two loops; a frame that a peer has to send counts as the
loop's step, so `ResponseCompletes` relies on servers answering; it excepts peers that leave
or stop reading, and does not rely on Go choosing between the loops in any order. A loop whose write blocks
takes no step, so fairness does not unblock it. `VhostMux`: each goroutine is weakly fair; the
sends on the error channel are strongly fair, since Go serves the senders that wait on a channel in the
order they came, and each time the reader waits it takes one; an owner accepts until it closes its
Listener. `HttpsConn`: the handler's goroutine and each copy are weakly fair, except that a copy's
read waits for its peer and a write to a deaf peer blocks. A peer that has been
told the other side finished, finishes as well, as the peers of a TCP connection that is half closed
are expected to; `TunnelEndsWithEither` relies on that. Publishing, connecting and `Peek`, which
waits for the client, are not fair.

### What disagrees

* `interop_collision`: handles from the three sources collide. In the shortest trace a second exchange
  with the same handle saves its session while the first one's callback runs; the callback's getter
  (`session.go:47`) reads the second one's request, and the first, which the embedder rejects, is
  forwarded, against "This page is blocked by GoProxy Wrapper" (`app/Form1.cs:136-141`).
* `lifecycle_unstoppable`: Start, Stop before the server has bound its port, Start. The first server's
  goroutine returns and clears the variable (`main.go:171`) after the second Start has assigned it
  (`main.go:199`), so the second server serves on and cannot be stopped, against
  "returning reference so caller can call Shutdown()" (`main.go:175`). The embedder here starts
  only what it has stopped; a second Start without a Stop, which the code does not
  guard against either, is not needed.
* `http2_settings`: the flag that the server has sent its SETTINGS is set before they are forwarded; the
  other goroutine relies on it and writes a block page in between, so the first frame the client
  gets is not SETTINGS, against "once server sent the settings we're good to go" (`http2.go:320`).
* `vhost_mux_closed`: `isClosed` asks whether the error is temporary, and that of a closed
  listener is not, so the main loop spins and never reports `Closed`, against
  "Closed is returned when the underlying connection is closed" (`vhost_mux.go:32`).

## 4. Proofs

All theorems hold for every value of the constants, under the named assumptions of the
modules (`ConstantsOK`, `NoneIsNoSession`). These give the constants their types and keep the
special values apart; that of `Http2Filter` says besides that a frame carries one header block or
chunk, that a peer sends no headers or data on a stream it has ended, and that a block page ends with its
last frame and holds nothing the filter rejects. `Http2Filter`'s theorems also assume `LengthIsNat`,
that the length of chunks is a number, which TLC cannot evaluate over all sequences.

* `InteropSessionProofs`. The invariant gives every saved exchange its place in the map:
  an entry belongs to an exchange between save and removal (`NothingDangles`), a running
  callback finds its own session, or another exchange with its handle has saved one
  (`CallbacksSeeTheirOwn`). Handles of one counter are all at most that counter, hence distinct
  (part of `HandleInv`). With one counter no handle is shared, so lookups, also the racing ones,
  return the exchange's own session, pages stay where they belong (`PagesCorrect`), and every
  decision is the one `FilterPolicy` allows (`PolicyImplemented`). `ReplacementsCorrect` follows each
  response from what went into the callback (`Given`) to what it left (`Left`).
* `ProxyLifecycleProofs`. A patient embedder starts a generation only when all earlier ones are
  over; so exactly one is alive, going up (`CurrentUp`) or coming down (`CurrentDown`), and in
  neither state can its goroutine clear a server that is not on its way to be stopped.
  `StoppableCorrect`, `RestCorrect` and `SwitchCorrect` follow. The invariant is needed because
  `ServingIsStoppable` says nothing of the goroutines that may still run.
* `SharedConnProofs`. A read, through one layer or two, takes a prefix off what its connection
  still holds (`TlsReadTakesPrefix`, `HttpReadTakesPrefix`). So delivered, held and incoming bytes
  keep adding up to the stream (`BytesConserved`); `CopyComplete` and the refinement `IsUnread`
  follow. `Layers` says which buffers can hold bytes when; without it the order of the two
  buffers would not be determined.
* `AdBlockMatcherProofs`. The matcher being filled satisfies `Filling`: its last matcher exists and
  holds at most as many rules as were counted since the last multiple of the limit, or the
  count is at a multiple and the next rule starts another (`Room`). `MatchersBounded` alone is not
  inductive, since `lastMatcher` may change to an older category. With `Linked` (the matcher
  being filled is neither published nor taken) this gives `TypeCorrect`, `Bounded` and `Frozen`.
  `SettingKept` follows the bypass flag through the two steps of LoadingFinished (`SettingSurvives`);
  `FoundLists` says a request past the nil check has lists unless a Load failed
  (`CrashNeedsFailedLoad`).
  `ImportKeepsAll`: each matcher is `Faithful`, that is `Sorted` (nothing is where it does not
  belong) and `Imported` for each category (everything that belongs is there, in order, and each
  domain has the type its last rule gave it). Neither is inductive by itself. A rule is put into `lastCategory`, so
  that must be the category of the file being parsed (`Current`) and the last one of its id
  (`AtEnd`), also when a full matcher has just made a category of that id a second time; together
  these are `AtLast`. What a category list holds is a join of joins (`FlattenSeq`), of
  which `FlattenAppend` and `FlattenGrow` say what one more piece, or one more rule in the last
  piece that is not empty, does to it.
  `DecidedRightly`: `AnswersCorrect` shows that the code's order of questions gives
  what `Warranted` asks of the rules themselves; it needs `Sorted`, since the code sees the list a
  rule is in and the property the list its category is of. `Moments` keeps, for each handler that runs, a
  moment since it began at which the lists it took were published with the setting they have; the
  bypass flag can still change under it, which `SettingKept` accounts for.
* `VhostMuxProofs`. `RegisteredWhileOpen` is inductive with the types. A connection on its way into the
  error handler was given to nobody, or is at a report the handler does not close for
  (`Underway`, `Owned`), whence `OwnershipCorrect`; `DeadlineCorrect` follows where the goroutine is
  relative to the clearing.
* `HttpsConnProofs`. Connections of one port do not overlap (`OnePort`), so for a connection that is published and
  not over the port's entry is its destination (`MapOfLive`), unless another one was published
  when it was over already, which makes the first one `misled`; an entry that is not a connection's own has its
  origin in another one (`MapHasOrigin`, `MisledMap`). Without these `InformedGoesHome` is not
  inductive: a poll reads an entry that says nothing of who wrote it.
* `Http2FilterProofs`, about every stream, ordinary or not. `TypeCorrect` includes that a goroutine holds a frame
  exactly while it is working on one: the steps dereference it.
  `NothingFollowsEnd`: what a side got has ended only if the goroutine that writes to it has read the
  end and has nothing more to write for it (`EndsOnce`), for which `WorkOK` ties each step to
  the frame it is about. A blocked request is the exception: its stream is never passed on, and its
  page goes to a client that was sent nothing (`Blocks`).
  `RejectedNeverSlips`: the maps of a stream are in the hands of the goroutine that reads the client until
  the server answers, and are empty when it lets go (`Requested`); from then on it writes to them
  no more (`Quiet`), which is where an upload that goes on, or whose chunks are not deleted yet, must be
  excepted. So they hold exactly the
  chunks of the frames read so far (`Keeps`, `Answered`), and what `decide` tests is what
  the server sent.
* `Http2RelayProofs`. `HeldImplemented`: `Http2Filter` implements `HeldBody`, races included. On an ordinary
  stream the goroutine reading the client works alone until the server answers. If it is done with the
  request by then (`WholeRequest`), the other one works alone from there on (`Turn`), the maps of
  headers and chunks, though shared and unlocked between two accesses, are in one hand at a
  time, and the number of frames read says what they hold: the first `k` frames are with the other side,
  the rest is held (`Kept`). `Working` says the same in the midst of a frame, step by step. Without `Kept`
  neither what is written nor whether the page comes first could be known. A `Write` or `Flush` is
  then a `Forward` of `HeldBody` (`SendForwards`), both kinds of page a `Replace` (`SendReplaces`).
  If the answer overtakes, the server had the request in full, all of it was written and nothing of the
  response was given (`RequestWritten`): the step is a `Waive`. That the request stays as it is
  whatever the two goroutines then do to each other's entries (`StepRequests`) follows from
  `EndsOnce`: nothing is written to a side that was sent the end of the stream.

Only model-checked: the liveness properties (`FilterTerminates`, `StopFreesHttpPort`,
`NextConnectionClosesListener`, `ResponseCompletes`, `ConnectionEnds`, `EveryConnectionSettles`,
`TunnelEndsWithEither`): the prover has neither fairness nor ENABLED. So are the four violations, each a
counterexample. Every other property of a run is a theorem.

## 5. Not modelled

* Certificates: key loading and x509 verification. Build and deployment scripts.
* Marshalling of strings and slices, header and body contents, decompression, safe search
  rewriting: data no property tells apart.
* The matching of a pattern by the ad block library; blocked phrases and `Build`, which nothing calls.
* The field parser of the ClientHello (`vhost_tls.go:200-447`): arithmetic over arbitrary bytes, out of
  TLC's reach; `SharedConn` has either verdict for every number of bytes read.
* HTTP/2: streams the server pushes, trailers of requests, empty block pages, the client's SETTINGS and the
  maximal frame size. `Http2Filter`'s comment says what peers are assumed instead.
* `setSessionRequest`, `httpResponseWriter`, `nonBlockingCopy` and `GetBlockPage` have no caller in the
  repository; `dumbResponseWriter` only drops goproxy's answer to CONNECT.
* `newBufferedConn` is not defined in the repository. Its result is peeked, and then served as a connection by
  the SOCKS library and wrapped by `TLS` (`main.go:389-404`); its `Peek` is taken to leave the bytes
  unread, its reads and writes to be those of a connection, and whether it has a `CloseWrite`
  is left open.
* A deadline that the owner of a muxed connection sets itself, which `handle` may erase
  (`vhost_mux.go:133`): the model has the muxer's own.
* What a page is after a CONNECT that is intercepted: goproxy's handling is external.

## 6. Plan

Done, in this order: `InteropSession`, `ProxyLifecycle`, `SharedConn`, `AdBlockMatcher`, `Http2Filter`,
`VhostMux`, `HttpsConn` (with the tunnels), each with proofs of all its safety properties. Left: pushed
streams and trailers of requests in `Http2Filter`, and the records of a ClientHello.
