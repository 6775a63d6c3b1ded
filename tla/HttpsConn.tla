----------------------------- MODULE HttpsConn -----------------------------
(***************************************************************************)
(* What becomes of a connection to the https port (src/goproxy/main.go,    *)
(* the goroutine of runHttpsListener).  The connection was diverted there, *)
(* and where it wanted to go is published under its local port by          *)
(* SetDestPortForLocalPort, at about the same time: by the embedder's      *)
(* diverter, or by the SOCKS handler for the connection it dials itself.   *)
(* The goroutine polls for it, decides whether to filter, and either hands *)
(* the connection to the proxy or copies both ways until both sides have   *)
(* ended.  Entries of the map are never deleted, and ports are used again. *)
(***************************************************************************)
EXTENDS Naturals

CONSTANTS
  Conn, Port,
  PortOf,       \* the local port of each connection
  Inner,        \* for a SOCKS connection, the one dialed for it; else None
  Dest, Want,   \* destinations, and where each connection wants to go
  Private,      \* destinations that are private addresses
  Unparsable,   \* what the SOCKS handler publishes: host:port, no address
  Local,        \* 127.0.0.1 or ::1
  Traffics,     \* what the connections may carry: tls, http or other
  Whitelisted,  \* connections whose TLS host is whitelisted
  Paged,        \* those whose TLS host the request callback answers with a page
  ToPrivate,    \* those whose TLS host resolves to a private address
  MaxPolls,     \* 3000
  None

ASSUME ConstantsOK ==
  /\ PortOf \in [Conn -> Port]
  /\ Inner \in [Conn -> Conn \cup {None}]
  /\ Want \in [Conn -> Dest]
  /\ Private \subseteq Dest /\ Unparsable \subseteq Dest /\ Local \in Private
  /\ None \notin Conn /\ None \notin Dest
  /\ Traffics \subseteq [Conn -> {"tls", "http", "other"}]
  /\ MaxPolls \in Nat \ {0}

VARIABLES
  carries,    \* what each connection carries
  portMap,    \* portMap and addressMap: the destination for a local port
  published,  \* connections whose destination has been published
  misled,     \* live ones whose entry one that was over has replaced (history)
  stage,      \* where the goroutine of each connection is
  polls,      \* attempts
  dest,       \* where the goroutine thinks the connection wants to go
  informed,   \* it was published by then, and not replaced
  how,        \* not decided, filtered or unfiltered
  client, remote,  \* each peer: open, finished (it sends no more) or gone
  deaf,       \* peers that take nothing more, though they are there
  up, down,   \* the two copies of the tunnel: off, reading, writing or over
  conveys,    \* what newBufferedConn returns has a CloseWrite
  crashed     \* the process has ended

ports == <<portMap, published, misled>>
lookup == <<polls, dest, informed>>
tunnel == <<client, remote, deaf, up, down>>
given == <<carries, conveys>>
vars == <<given, ports, stage, lookup, how, tunnel, crashed>>

Stages == {"new", "connecting", "socks", "poll", "route", "connect", "dial", "proxied",
           "tunnel", "dropped", "done"}
Over(c) == stage[c] \in {"new", "dropped", "done"}

Init ==
  /\ carries \in Traffics /\ conveys \in BOOLEAN
  /\ portMap = [p \in Port |-> None]
  /\ published = {} /\ misled = {}
  /\ stage = [c \in Conn |-> "new"]
  /\ polls = [c \in Conn |-> 0]
  /\ dest = [c \in Conn |-> None]
  /\ informed = [c \in Conn |-> FALSE]
  /\ how = [c \in Conn |-> "undecided"]
  /\ client = [c \in Conn |-> "open"] /\ remote = client
  /\ deaf = [c \in Conn |-> {}]
  /\ up = [c \in Conn |-> "off"] /\ down = up
  /\ crashed = FALSE

Goto(c, s) == stage' = [stage EXCEPT ![c] = s]

-----------------------------------------------------------------------------
(* Outside the goroutine.                                                  *)

PortFree(c) == \A d \in Conn : PortOf[d] = PortOf[c] => Over(d)

Connect(c) ==
  /\ stage[c] = "new" /\ PortFree(c)
  /\ \A s \in Conn : Inner[s] # c
  /\ Goto(c, "connecting")
  /\ UNCHANGED <<given, ports, lookup, how, tunnel, crashed>>

\* The live connections whose entry is replaced when c, being over, is published.
Misleads(c) == {d \in published : Over(c) /\ ~Over(d) /\ PortOf[d] = PortOf[c]}

\* Mutant: an entry that is there stays.
PublishOnce(c) ==
  /\ stage[c] # "new" /\ c \notin published
  /\ published' = published \cup {c}
  /\ misled' = misled \cup Misleads(c)
  /\ portMap' = [portMap EXCEPT ![PortOf[c]] = IF @ = None THEN Want[c] ELSE @]
  /\ UNCHANGED <<given, stage, lookup, how, tunnel, crashed>>

\* SetDestPortForLocalPort, at any time once the connection has begun: it may
\* be over by then, and its port another one's.
Publish(c) ==
  /\ stage[c] # "new" /\ c \notin published
  /\ published' = published \cup {c}
  /\ misled' = misled \cup Misleads(c)
  /\ portMap' = [portMap EXCEPT ![PortOf[c]] = Want[c]]
  /\ UNCHANGED <<given, stage, lookup, how, tunnel, crashed>>

\* The dialer of createSocksHandler.  It publishes once it has dialed; if
\* it cannot dial, it looks for the local address of no connection.
SocksDial(s) ==
  /\ stage[s] = "socks"
  /\ \/ /\ stage[Inner[s]] = "new" /\ PortFree(Inner[s])
        /\ stage' = [stage EXCEPT ![s] = "proxied", ![Inner[s]] = "connecting"]
        /\ UNCHANGED crashed
     \/ crashed' = TRUE /\ UNCHANGED stage
  /\ UNCHANGED <<given, ports, lookup, how, tunnel>>

\* A peer of a tunnel sends no more, or is gone.
ClientLeaves(c, as) ==
  /\ stage[c] = "tunnel" /\ client[c] # as /\ client[c] # "gone"
  /\ client' = [client EXCEPT ![c] = as]
  /\ UNCHANGED <<given, ports, stage, lookup, how, remote, deaf, up, down, crashed>>

RemoteLeaves(c, as) ==
  /\ stage[c] = "tunnel" /\ remote[c] # as /\ remote[c] # "gone"
  /\ remote' = [remote EXCEPT ![c] = as]
  /\ UNCHANGED <<given, ports, stage, lookup, how, client, deaf, up, down, crashed>>

\* A peer stops reading for good, and its window fills.
Deafens(c, peer) ==
  /\ stage[c] = "tunnel" /\ peer \notin deaf[c]
  /\ deaf' = [deaf EXCEPT ![c] = @ \cup {peer}]
  /\ UNCHANGED <<given, ports, stage, lookup, how, client, remote, up, down, crashed>>

-----------------------------------------------------------------------------
(* The goroutine.                                                          *)

\* Peek tells SOCKS from the rest, or fails; then TLS().
Peek(c) ==
  /\ stage[c] = "connecting"
  /\ Goto(c, IF Inner[c] # None THEN "socks" ELSE "poll") \/ Goto(c, "dropped")
  /\ UNCHANGED <<given, ports, lookup, how, tunnel, crashed>>

\* An entry for the port is the destination, whoever published it; after the
\* last attempt it is this host.
Poll(c) ==
  /\ stage[c] = "poll"
  /\ LET entry == portMap[PortOf[c]] IN
       IF entry = None /\ polls[c] + 1 < MaxPolls
       THEN polls' = [polls EXCEPT ![c] = @ + 1] /\ UNCHANGED <<stage, dest, informed>>
       ELSE /\ dest' = [dest EXCEPT ![c] = IF entry = None THEN Local ELSE entry]
            /\ informed' = [informed EXCEPT ![c] = c \in published \ misled]
            /\ Goto(c, "route")
            /\ polls' = [polls EXCEPT ![c] = 0]
  /\ UNCHANGED <<given, ports, how, tunnel, crashed>>

\* Where the goroutine goes from its destination: connections to private ones,
\* and what is neither TLS nor HTTP, are chained as they are, HTTP is chained to
\* the proxy's http port, and TLS is shown to the request callback first.  A
\* whitelisted host is then chained, unless the callback left a page; any other
\* becomes a CONNECT request of the proxy.
Plain(c) == dest[c] \in Private \/ carries[c] = "other"
Early(c) == carries[c] = "tls" /\ c \in Whitelisted /\ c \notin Paged

Route(c) ==
  /\ stage[c] = "route"
  /\ IF carries[c] = "tls" /\ ~Plain(c) /\ ~Early(c)
       THEN Goto(c, "connect") /\ UNCHANGED how
       ELSE /\ Goto(c, "dial")
            /\ how' = [how EXCEPT ![c] =
                 IF Plain(c) \/ Early(c) THEN "unfiltered" ELSE "filtered"]
  /\ UNCHANGED <<given, ports, lookup, tunnel, crashed>>

\* handleConnectFunc: goproxy tunnels whitelisted and private hosts itself, and
\* intercepts the others.
HandleConnect(c) ==
  /\ stage[c] = "connect"
  /\ Goto(c, "proxied")
  /\ how' = [how EXCEPT ![c] =
       IF c \in Whitelisted \cup ToPrivate THEN "unfiltered" ELSE "filtered"]
  /\ UNCHANGED <<given, ports, lookup, tunnel, crashed>>

\* What is not an address cannot be dialed, unless a TLS name or the http
\* port replaces it.
Dialable(c) ==
  dest[c] \notin Unparsable \/ how[c] = "filtered" \/ carries[c] = "tls"

\* Mutant: only one of the copies is started.
DialOneWay(c) ==
  /\ stage[c] = "dial"
  /\ \/ /\ Dialable(c)
        /\ Goto(c, "tunnel")
        /\ up' = [up EXCEPT ![c] = "reading"] /\ UNCHANGED down
     \/ Goto(c, "dropped") /\ UNCHANGED <<up, down>>
  /\ UNCHANGED <<given, ports, lookup, how, client, remote, deaf, crashed>>

\* If dialing fails the goroutine returns, and closes nothing.
Dial(c) ==
  /\ stage[c] = "dial"
  /\ \/ /\ Dialable(c)
        /\ Goto(c, "tunnel")
        /\ up' = [up EXCEPT ![c] = "reading"] /\ down' = [down EXCEPT ![c] = "reading"]
     \/ Goto(c, "dropped") /\ UNCHANGED <<up, down>>
  /\ UNCHANGED <<given, ports, lookup, how, client, remote, deaf, crashed>>

\* goproxy, or the SOCKS server, is done with the connection.
ProxyEnds(c) ==
  /\ stage[c] = "proxied"
  /\ Goto(c, "done")
  /\ UNCHANGED <<given, ports, lookup, how, tunnel, crashed>>

\* Mutant: the copies are made one after the other.
UpEndsAfterDown(c) ==
  /\ up[c] = "reading" /\ down[c] = "over" /\ client[c] # "open"
  /\ up' = [up EXCEPT ![c] = "over"]
  /\ UNCHANGED <<given, ports, stage, lookup, how, client, remote, deaf, down, crashed>>

\* io.Copy(remote, client) ends with the client's stream; CloseWrite then tells
\* the remote side, which is a TCP connection.
UpEnds(c) ==
  /\ up[c] = "reading" /\ client[c] # "open"
  /\ up' = [up EXCEPT ![c] = "over"]
  /\ UNCHANGED <<given, ports, stage, lookup, how, client, remote, deaf, down, crashed>>

\* io.Copy(client, remote) ends with the remote stream; CloseWrite of the TLSConn
\* or HTTPConn then tells the client, if the connection it wraps conveys that.
DownEnds(c) ==
  /\ down[c] = "reading" /\ remote[c] # "open"
  /\ down' = [down EXCEPT ![c] = "over"]
  /\ UNCHANGED <<given, ports, stage, lookup, how, client, remote, deaf, up, crashed>>

\* A chunk comes from a peer that still sends.
Reads(c) ==
  /\ \/ /\ up[c] = "reading" /\ client[c] = "open"
        /\ up' = [up EXCEPT ![c] = "writing"] /\ UNCHANGED down
     \/ /\ down[c] = "reading" /\ remote[c] = "open"
        /\ down' = [down EXCEPT ![c] = "writing"] /\ UNCHANGED up
  /\ UNCHANGED <<given, ports, stage, lookup, how, client, remote, deaf, crashed>>

\* The write returns when the peer takes the chunk.  To a peer that is gone it may
\* fail, which ends the copy; to a deaf one it blocks.
UpWrites(c) ==
  /\ up[c] = "writing" /\ ("remote" \in deaf[c] => remote[c] = "gone")
  /\ \E next \in {"reading"} \cup (IF remote[c] = "gone" THEN {"over"} ELSE {}) :
       up' = [up EXCEPT ![c] = next]
  /\ UNCHANGED <<given, ports, stage, lookup, how, client, remote, deaf, down, crashed>>

DownWrites(c) ==
  /\ down[c] = "writing" /\ ("client" \in deaf[c] => client[c] = "gone")
  /\ \E next \in {"reading"} \cup (IF client[c] = "gone" THEN {"over"} ELSE {}) :
       down' = [down EXCEPT ![c] = next]
  /\ UNCHANGED <<given, ports, stage, lookup, how, client, remote, deaf, up, crashed>>

\* wg.Wait returns, and both connections are closed and forgotten.
TunnelEnds(c) ==
  /\ stage[c] = "tunnel"
  /\ up[c] = "over" /\ down[c] = "over"
  /\ Goto(c, "done")
  /\ client' = [client EXCEPT ![c] = "open"] /\ remote' = [remote EXCEPT ![c] = "open"]
  /\ deaf' = [deaf EXCEPT ![c] = {}]
  /\ up' = [up EXCEPT ![c] = "off"] /\ down' = [down EXCEPT ![c] = "off"]
  /\ UNCHANGED <<given, ports, lookup, how, crashed>>

Copies(c) == UpEnds(c) \/ DownEnds(c) \/ UpWrites(c) \/ DownWrites(c) \/ TunnelEnds(c)
Goroutine(c) == Poll(c) \/ Route(c) \/ HandleConnect(c) \/ Dial(c) \/ Copies(c)

Next ==
  /\ ~crashed
  /\ \E c \in Conn :
       \/ Connect(c) \/ Publish(c) \/ SocksDial(c)
       \/ Peek(c) \/ Goroutine(c) \/ Reads(c) \/ ProxyEnds(c)
       \/ \E as \in {"finished", "gone"} : ClientLeaves(c, as) \/ RemoteLeaves(c, as)
       \/ \E peer \in {"client", "remote"} : Deafens(c, peer)

Spec == Init /\ [][Next]_vars

\* Goroutines go on: each copy is one.  A peer that is told that the other side
\* has finished, and reads on until it sees that, finishes as well.  Nobody has
\* to connect or leave otherwise, nothing has to be published, and Peek waits for
\* the client.
FairSpec ==
  /\ Spec
  /\ \A c \in Conn :
       /\ WF_vars(~crashed /\ (Poll(c) \/ Route(c) \/ HandleConnect(c) \/ Dial(c)))
       /\ WF_vars(~crashed /\ (UpEnds(c) \/ UpWrites(c)))
       /\ WF_vars(~crashed /\ (DownEnds(c) \/ DownWrites(c)))
       /\ WF_vars(~crashed /\ TunnelEnds(c))
       /\ WF_vars(~crashed /\ up[c] = "over" /\ remote[c] = "open"
                  /\ RemoteLeaves(c, "finished"))
       /\ WF_vars(~crashed /\ down[c] = "over" /\ conveys /\ client[c] = "open"
                  /\ ClientLeaves(c, "finished"))

-----------------------------------------------------------------------------
(* Properties.                                                             *)

\* Every variable has its type; the two copies run only in a tunnel.
TypeOK ==
  /\ carries \in Traffics /\ conveys \in BOOLEAN
  /\ portMap \in [Port -> Dest \cup {None}]
  /\ published \subseteq Conn /\ misled \subseteq Conn
  /\ stage \in [Conn -> Stages]
  /\ polls \in [Conn -> 0..(MaxPolls - 1)]
  /\ dest \in [Conn -> Dest \cup {None}]
  /\ informed \in [Conn -> BOOLEAN]
  /\ how \in [Conn -> {"undecided", "filtered", "unfiltered"}]
  /\ client \in [Conn -> {"open", "finished", "gone"}]
  /\ remote \in [Conn -> {"open", "finished", "gone"}]
  /\ deaf \in [Conn -> SUBSET {"client", "remote"}]
  /\ up \in [Conn -> {"off", "reading", "writing", "over"}]
  /\ down \in [Conn -> {"off", "reading", "writing", "over"}]
  /\ crashed \in BOOLEAN
  /\ \A c \in Conn : stage[c] = "tunnel" <=> up[c] # "off"
  /\ \A c \in Conn : stage[c] = "tunnel" <=> down[c] # "off"

\* A connection whose destination was published before its goroutine looked finds
\* that destination, whoever used its port before, unless a publication for one
\* that was over came in between.  Otherwise it finds one that was published for
\* another connection of its port, or, if its own came too late, it may take
\* itself to be for this host (main.go:180-185, 405-433).  It is the entry looked
\* up: TLS that is filtered or whitelisted goes to the host it names.
InformedGoesHome ==
  \A c \in Conn : dest[c] # None =>
    IF informed[c] THEN dest[c] = Want[c]
    ELSE \/ dest[c] = Local
         \/ \E d \in published \ {c} : PortOf[d] = PortOf[c] /\ dest[c] = Want[d]

\* A tunnel ends once its client has finished or is gone, and once the remote side
\* is and the client can be told, as long as both peers take what is written to
\* them (main.go:522-546, vhost_tls.go:99-106, vhost_http.go:32-39).
TunnelEndsWithEither ==
  \A c \in Conn :
    stage[c] = "tunnel" /\ (client[c] # "open" \/ (remote[c] # "open" /\ conveys))
      ~> stage[c] = "done" \/ crashed \/ deaf[c] # {}
=============================================================================
