-------------------------- MODULE HttpsConnProofs --------------------------
(***************************************************************************)
(* Proofs about HttpsConn, for any connections, ports and destinations.    *)
(*                                                                         *)
(* A port belongs to one live connection at a time (OnePort), so a         *)
(* destination that was published for a live connection stays in the map   *)
(* as long as it lives, unless a publication for one that is over replaces *)
(* it (MapOfLive); any other entry was published for some other connection *)
(* of the port (MapHasOrigin, MisledMap).  What a goroutine finds in the   *)
(* map is therefore its own destination, or that of another connection.    *)
(***************************************************************************)
EXTENDS HttpsConn, TLAPS

OnePort ==
  \A c, d \in Conn : c # d /\ PortOf[c] = PortOf[d] => Over(c) \/ Over(d)

\* A destination is published only for a connection that has begun.
PublishedBegun == \A c \in published : stage[c] # "new"

MapOfLive ==
  \A c \in published :
    Over(c) \/ c \in misled \/ portMap[PortOf[c]] = Want[c]

MapHasOrigin ==
  \A p \in Port : portMap[p] # None =>
    \E d \in published : PortOf[d] = p /\ portMap[p] = Want[d]

\* What replaced the entry of a live connection was published for another one.
MisledMap ==
  \A c \in misled :
    /\ c \in published
    /\ \E d \in published \ {c} : PortOf[d] = PortOf[c] /\ portMap[PortOf[c]] = Want[d]

PortInv == OnePort /\ PublishedBegun /\ MapOfLive /\ MapHasOrigin /\ MisledMap

Home(c) ==
  dest[c] # None =>
    IF informed[c] THEN dest[c] = Want[c]
    ELSE \/ dest[c] = Local
         \/ \E d \in published \ {c} : PortOf[d] = PortOf[c] /\ dest[c] = Want[d]

-----------------------------------------------------------------------------
\* The initial values have their types.
LEMMA InitTypeOK == Init => TypeOK
<1> SUFFICES ASSUME Init PROVE TypeOK
  OBVIOUS
<1>1. polls \in [Conn -> 0..(MaxPolls - 1)]
  BY ConstantsOK DEF ConstantsOK, Init
<1>2. stage \in [Conn -> Stages] /\ how \in [Conn -> {"undecided", "filtered", "unfiltered"}]
  BY DEF Init, Stages
<1>3. /\ client \in [Conn -> {"open", "finished", "gone"}]
      /\ remote \in [Conn -> {"open", "finished", "gone"}]
  BY DEF Init
<1>4. /\ up \in [Conn -> {"off", "reading", "writing", "over"}]
      /\ down \in [Conn -> {"off", "reading", "writing", "over"}]
      /\ \A c \in Conn : stage[c] # "tunnel" /\ up[c] = "off" /\ down[c] = "off"
  BY DEF Init
<1>5. /\ portMap \in [Port -> Dest \cup {None}] /\ dest \in [Conn -> Dest \cup {None}]
      /\ carries \in Traffics /\ conveys \in BOOLEAN /\ crashed \in BOOLEAN
      /\ published \subseteq Conn /\ misled \subseteq Conn
      /\ informed \in [Conn -> BOOLEAN] /\ deaf \in [Conn -> SUBSET {"client", "remote"}]
  BY DEF Init
<1> QED
  BY <1>1, <1>2, <1>3, <1>4, <1>5 DEF TypeOK

\* A function to Booleans stays one when a value is replaced by a membership.
LEMMA BooleanUpdate ==
  ASSUME NEW f \in [Conn -> BOOLEAN], NEW c \in Conn, NEW S
  PROVE  [f EXCEPT ![c] = c \in S] \in [Conn -> BOOLEAN]
OBVIOUS

\* Every step keeps the types; both copies begin and end with the tunnel.
LEMMA StepTypeOK == TypeOK /\ [Next]_vars => TypeOK'
<1> SUFFICES ASSUME TypeOK, [Next]_vars PROVE TypeOK'
  OBVIOUS
<1> USE ConstantsOK DEF ConstantsOK, TypeOK, Stages, given, ports, lookup, tunnel, Goto
<1>1. CASE UNCHANGED vars
  BY <1>1 DEF vars
<1>2. ASSUME NEW c \in Conn, Connect(c) PROVE TypeOK'
  BY <1>2 DEF Connect
<1>3. ASSUME NEW c \in Conn, Publish(c) PROVE TypeOK'
  BY <1>3 DEF Publish, Misleads
<1>4. ASSUME NEW c \in Conn, SocksDial(c) PROVE TypeOK'
  <2>1. CASE UNCHANGED stage
    BY <1>4, <2>1 DEF SocksDial
  <2>2. CASE /\ stage[Inner[c]] = "new" /\ UNCHANGED crashed
             /\ stage' = [stage EXCEPT ![c] = "proxied", ![Inner[c]] = "connecting"]
    <3>1. \A d \in Conn : stage'[d] = stage[d] \/ (stage[d] # "tunnel" /\ stage'[d] # "tunnel")
      BY <1>4, <2>2 DEF SocksDial
    <3>2. stage' \in [Conn -> Stages]
      BY <1>4, <2>2 DEF SocksDial
    <3> QED
      BY <1>4, <2>2, <3>1, <3>2 DEF SocksDial
  <2> QED
    BY <1>4, <2>1, <2>2 DEF SocksDial
<1>5. ASSUME NEW c \in Conn, Peek(c) PROVE TypeOK'
  BY <1>5 DEF Peek
<1>6. ASSUME NEW c \in Conn, Poll(c) PROVE TypeOK'
  <2>1. portMap[PortOf[c]] \in Dest \cup {None} /\ Local \in Dest
    OBVIOUS
  <2>2. CASE portMap[PortOf[c]] = None /\ polls[c] + 1 < MaxPolls
    <3>1. polls' \in [Conn -> 0..(MaxPolls - 1)]
      <4>1. polls[c] + 1 \in 0..(MaxPolls - 1)
        BY <2>2
      <4> QED
        BY <1>6, <2>2, <4>1 DEF Poll
    <3> QED
      BY <1>6, <2>2, <3>1 DEF Poll
  <2>3. CASE ~(portMap[PortOf[c]] = None /\ polls[c] + 1 < MaxPolls)
    <3>1. PICK to \in Dest : dest' = [dest EXCEPT ![c] = to]
      BY <1>6, <2>1, <2>3 DEF Poll
    <3>2. informed' \in [Conn -> BOOLEAN]
      <4>1. informed' = [informed EXCEPT ![c] = c \in published \ misled]
        BY <1>6, <2>3, Zenon DEF Poll
      <4>2. informed \in [Conn -> BOOLEAN]
        OBVIOUS
      <4>3. [informed EXCEPT ![c] = c \in published \ misled] \in [Conn -> BOOLEAN]
        BY <4>2, BooleanUpdate, Zenon
      <4> QED
        BY <4>1, <4>3, Zenon
    <3>3. polls' = [polls EXCEPT ![c] = 0] /\ 0 \in 0..(MaxPolls - 1)
      BY <1>6, <2>3 DEF Poll
    <3>4. /\ stage' = [stage EXCEPT ![c] = "route"]
          /\ UNCHANGED <<given, ports, how, tunnel, crashed>> /\ stage[c] = "poll"
      BY <1>6, <2>3 DEF Poll
    <3>5. /\ dest' \in [Conn -> Dest \cup {None}] /\ polls' \in [Conn -> 0..(MaxPolls - 1)]
      BY <3>1, <3>3
    <3>6. /\ stage' \in [Conn -> Stages]
          /\ \A d \in Conn : stage'[d] = "tunnel" <=> stage[d] = "tunnel"
      BY <3>4
    <3>7. UNCHANGED <<carries, conveys, portMap, published, misled, how, client, remote, deaf,
                      up, down, crashed>>
      BY <3>4
    <3> QED
      BY <3>2, <3>5, <3>6, <3>7
  <2> QED
    BY <2>2, <2>3
<1>7. ASSUME NEW c \in Conn, Route(c) PROVE TypeOK'
  BY <1>7 DEF Route
<1>8. ASSUME NEW c \in Conn, Dial(c) PROVE TypeOK'
  BY <1>8 DEF Dial
<1>9. ASSUME NEW c \in Conn, UpEnds(c) PROVE TypeOK'
  BY <1>9 DEF UpEnds
<1>10. ASSUME NEW c \in Conn, DownEnds(c) PROVE TypeOK'
  BY <1>10 DEF DownEnds
<1>11. ASSUME NEW c \in Conn, TunnelEnds(c) PROVE TypeOK'
  BY <1>11 DEF TunnelEnds
<1>12. ASSUME NEW c \in Conn, Reads(c) PROVE TypeOK'
  BY <1>12 DEF Reads
<1>13. ASSUME NEW c \in Conn, ProxyEnds(c) PROVE TypeOK'
  BY <1>13 DEF ProxyEnds
<1>14. ASSUME NEW c \in Conn, NEW as \in {"finished", "gone"}, ClientLeaves(c, as) PROVE TypeOK'
  BY <1>14 DEF ClientLeaves
<1>15. ASSUME NEW c \in Conn, NEW as \in {"finished", "gone"}, RemoteLeaves(c, as) PROVE TypeOK'
  BY <1>15 DEF RemoteLeaves
<1>16. ASSUME NEW c \in Conn, UpWrites(c) PROVE TypeOK'
  <2>1. PICK n \in {"reading", "over"} : up' = [up EXCEPT ![c] = n]
    BY <1>16 DEF UpWrites
  <2> QED
    BY <1>16, <2>1 DEF UpWrites
<1>17. ASSUME NEW c \in Conn, DownWrites(c) PROVE TypeOK'
  <2>1. PICK n \in {"reading", "over"} : down' = [down EXCEPT ![c] = n]
    BY <1>17 DEF DownWrites
  <2> QED
    BY <1>17, <2>1 DEF DownWrites
<1>18. ASSUME NEW c \in Conn, HandleConnect(c) PROVE TypeOK'
  BY <1>18 DEF HandleConnect
<1>19. ASSUME NEW c \in Conn, NEW peer \in {"client", "remote"}, Deafens(c, peer) PROVE TypeOK'
  BY <1>19 DEF Deafens
<1> QED
  BY <1>1, <1>2, <1>3, <1>4, <1>5, <1>6, <1>7, <1>8, <1>9, <1>10, <1>11, <1>12, <1>13, <1>14,
     <1>15, <1>16, <1>17, <1>18, <1>19 DEF Next, Goroutine, Copies

\* Types hold for any connections, ports and number of polls.
THEOREM TypeCorrect == Spec => []TypeOK
BY InitTypeOK, StepTypeOK, PTL DEF Spec

-----------------------------------------------------------------------------
\* Initially no port has an entry.
LEMMA InitPortInv == Init => PortInv
BY ConstantsOK
DEF ConstantsOK, Init, PortInv, OnePort, PublishedBegun, MapOfLive, MapHasOrigin, MisledMap, Over

\* What a step does to liveness: only Connect and SocksDial begin a connection,
\* on a port that is free, and none begins twice.
LEMMA Lives ==
  ASSUME TypeOK, [Next]_vars
  PROVE  \/ \A c \in Conn : (stage[c] # "new" => stage'[c] # "new") /\ (Over(c) => Over(c)')
         \/ \E b \in Conn :
              /\ PortFree(b) /\ stage[b] = "new" /\ UNCHANGED ports
              /\ \A c \in Conn \ {b} :
                   (stage[c] # "new" => stage'[c] # "new") /\ (Over(c) => Over(c)')
<1> USE ConstantsOK DEF ConstantsOK, TypeOK, Over, Goto, Stages
<1> DEFINE Kept(c) == (stage[c] # "new" => stage'[c] # "new") /\ (Over(c) => Over(c)')
<1>1. CASE UNCHANGED vars
  BY <1>1 DEF vars
<1>2. ASSUME NEW b \in Conn, Connect(b)
      PROVE  /\ PortFree(b) /\ stage[b] = "new" /\ UNCHANGED ports
             /\ \A c \in Conn \ {b} : Kept(c)
  BY <1>2 DEF Connect
<1>3. ASSUME NEW s \in Conn, SocksDial(s)
      PROVE  \/ UNCHANGED stage
             \/ /\ Inner[s] \in Conn /\ PortFree(Inner[s]) /\ stage[Inner[s]] = "new"
                /\ UNCHANGED ports
                /\ \A c \in Conn \ {Inner[s]} : Kept(c)
             \/ \A c \in Conn : Kept(c)
  BY <1>3 DEF SocksDial
<1>4. ASSUME NEW c \in Conn,
             Publish(c) \/ Peek(c) \/ Goroutine(c) \/ Reads(c) \/ ProxyEnds(c)
      PROVE  \A d \in Conn : Kept(d)
  BY <1>4 DEF Publish, Peek, Goroutine, Copies, Poll, Route, HandleConnect, Dial, UpEnds, DownEnds,
              UpWrites, DownWrites, TunnelEnds, Reads, ProxyEnds
<1>5. ASSUME NEW c \in Conn, NEW as \in {"finished", "gone"},
             ClientLeaves(c, as) \/ RemoteLeaves(c, as)
      PROVE  \A d \in Conn : Kept(d)
  BY <1>5 DEF ClientLeaves, RemoteLeaves
<1>6. ASSUME NEW c \in Conn, NEW peer \in {"client", "remote"}, Deafens(c, peer)
      PROVE  \A d \in Conn : Kept(d)
  BY <1>6 DEF Deafens
<1> QED
  BY <1>1, <1>2, <1>3, <1>4, <1>5, <1>6 DEF Next

\* Only Publish changes the map.
LEMMA Publishes ==
  ASSUME TypeOK, [Next]_vars
  PROVE  UNCHANGED ports \/ \E c \in Conn : Publish(c)
BY Zenon DEF Next, vars, Goroutine, Copies, Connect, SocksDial, Peek, Poll, Route, HandleConnect,
   Dial, UpEnds, DownEnds, UpWrites, DownWrites, TunnelEnds, Reads, ProxyEnds, ClientLeaves,
   RemoteLeaves, Deafens

\* A port stays with its live connection, and so does the port's entry, unless it
\* is replaced for one that is over.
LEMMA StepPortInv == TypeOK /\ PortInv /\ [Next]_vars => PortInv'
<1> SUFFICES ASSUME TypeOK, PortInv, [Next]_vars PROVE PortInv'
  OBVIOUS
<1> USE ConstantsOK DEF ConstantsOK, TypeOK, PortInv, OnePort, PublishedBegun, MapOfLive,
                        MapHasOrigin, MisledMap
<1>1. CASE \E b \in Conn :
             /\ PortFree(b) /\ stage[b] = "new" /\ UNCHANGED ports
             /\ \A c \in Conn \ {b} :
                  (stage[c] # "new" => stage'[c] # "new") /\ (Over(c) => Over(c)')
  BY <1>1 DEF PortFree, ports
<1>2. CASE /\ \A c \in Conn : (stage[c] # "new" => stage'[c] # "new") /\ (Over(c) => Over(c)')
           /\ UNCHANGED ports
  BY <1>2 DEF ports
<1>3. ASSUME NEW c \in Conn, Publish(c) PROVE PortInv'
  <2>1. /\ c \notin published /\ stage[c] # "new"
        /\ published' = published \cup {c} /\ UNCHANGED stage
        /\ portMap' = [portMap EXCEPT ![PortOf[c]] = Want[c]]
        /\ misled' = misled \cup Misleads(c)
    BY <1>3 DEF Publish
  <2>2. \A d \in Conn : Over(d)' = Over(d)
    BY <2>1 DEF Over
  <2>3. OnePort'
    BY <2>2
  <2>4. PublishedBegun'
    BY <2>1
  <2>5. ASSUME NEW d \in published', ~Over(d), d \notin misled'
        PROVE  portMap'[PortOf[d]] = Want[d]
    <3>1. CASE d = c
      BY <2>1, <3>1
    <3>2. CASE d # c /\ PortOf[d] = PortOf[c]
      <4>1. d \in published /\ Over(c)
        BY <2>1, <2>5, <3>2
      <4>2. d \in Misleads(c)
        BY <2>5, <3>2, <4>1 DEF Misleads
      <4> QED
        BY <2>1, <2>5, <4>2
    <3>3. CASE d # c /\ PortOf[d] # PortOf[c]
      BY <2>1, <2>5, <3>3
    <3> QED
      BY <3>1, <3>2, <3>3
  <2>6. MapOfLive'
    BY <2>1, <2>2, <2>5
  <2>7. MapHasOrigin'
    BY <2>1
  <2>8. MisledMap'
    <3>1. ASSUME NEW d \in misled'
          PROVE  /\ d \in published'
                 /\ \E e \in published' \ {d} :
                      PortOf[e] = PortOf[d] /\ portMap'[PortOf[d]] = Want[e]
      <4>1. d \in published /\ d # c
        BY <2>1, <3>1 DEF Misleads
      <4>2. CASE PortOf[d] = PortOf[c]
        BY <2>1, <4>1, <4>2
      <4>3. CASE PortOf[d] # PortOf[c]
        <5>1. d \in misled
          BY <2>1, <3>1, <4>3 DEF Misleads
        <5> QED
          BY <2>1, <4>1, <4>3, <5>1
      <4> QED
        BY <4>1, <4>2, <4>3, <2>1
    <3> QED
      BY <3>1
  <2> QED
    BY <2>3, <2>4, <2>6, <2>7, <2>8
<1> QED
  BY <1>1, <1>2, <1>3, Lives, Publishes

\* A goroutine finds its own destination if that is there, else another's or none.
LEMMA StepHome ==
  TypeOK /\ PortInv /\ InformedGoesHome /\ [Next]_vars => InformedGoesHome'
<1> SUFFICES ASSUME TypeOK, PortInv, [Next]_vars, NEW c \in Conn, Home(c) PROVE Home(c)'
  BY DEF InformedGoesHome, Home
<1> USE ConstantsOK DEF ConstantsOK, TypeOK
<1>1. published \subseteq published'
  BY Publishes, Zenon DEF Publish, ports
<1>2. CASE UNCHANGED lookup
  BY <1>1, <1>2 DEF lookup, Home
<1>3. ASSUME NEW b \in Conn, b # c, Poll(b) PROVE Home(c)'
  <2>1. dest'[c] = dest[c] /\ (informed'[c] <=> informed[c])
    BY <1>3 DEF Poll
  <2> QED
    BY <1>1, <2>1 DEF Home
<1>4. CASE Poll(c)
  <2> DEFINE entry == portMap[PortOf[c]]
  <2>1. CASE entry = None /\ polls[c] + 1 < MaxPolls
    <3>1. UNCHANGED <<dest, informed>>
      BY <1>4, <2>1 DEF Poll
    <3> QED
      BY <1>1, <3>1 DEF Home
  <2>2. CASE ~(entry = None /\ polls[c] + 1 < MaxPolls)
    <3>1. /\ dest'[c] = (IF entry = None THEN Local ELSE entry)
          /\ informed'[c] <=> c \in published \ misled
          /\ UNCHANGED <<published, misled>> /\ ~Over(c)
      <4>1. informed' = [informed EXCEPT ![c] = c \in published \ misled] /\ UNCHANGED ports
        BY <1>4, <2>2, Zenon DEF Poll
      <4>2. informed'[c] <=> c \in published \ misled
        BY <4>1, Zenon DEF TypeOK
      <4> QED
        BY <1>4, <2>2, <4>1, <4>2 DEF Poll, Over, ports
    <3>2. c \in published \ misled => entry = Want[c]
      BY <3>1 DEF PortInv, MapOfLive
    <3>3. c \notin published /\ entry # None =>
            \E d \in published \ {c} : PortOf[d] = PortOf[c] /\ entry = Want[d]
      BY DEF PortInv, MapHasOrigin
    <3>4. c \in misled => \E d \in published \ {c} : PortOf[d] = PortOf[c] /\ entry = Want[d]
      BY DEF PortInv, MisledMap
    <3>5. \A d \in Conn : Want[d] # None
      OBVIOUS
    <3> QED
      BY <3>1, <3>2, <3>3, <3>4, <3>5 DEF Home
  <2> QED
    BY <2>1, <2>2
<1>5. UNCHANGED lookup \/ \E b \in Conn : Poll(b)
  <2>1. CASE UNCHANGED vars
    BY <2>1, Zenon DEF vars, lookup
  <2>2. ASSUME NEW b \in Conn,
               \/ Connect(b) \/ Publish(b) \/ SocksDial(b) \/ Peek(b) \/ Route(b) \/ Dial(b)
               \/ HandleConnect(b) \/ Reads(b) \/ ProxyEnds(b)
        PROVE  UNCHANGED lookup
    BY <2>2, Zenon DEF lookup, Connect, Publish, SocksDial, Peek, Route, Dial, HandleConnect, Reads,
       ProxyEnds
  <2>3. ASSUME NEW b \in Conn, Copies(b) PROVE UNCHANGED lookup
    BY <2>3, Zenon DEF lookup, Copies, UpEnds, DownEnds, UpWrites, DownWrites, TunnelEnds
  <2>4. ASSUME NEW b \in Conn, NEW as, ClientLeaves(b, as) \/ RemoteLeaves(b, as)
        PROVE  UNCHANGED lookup
    BY <2>4, Zenon DEF lookup, ClientLeaves, RemoteLeaves
  <2>5. ASSUME NEW b \in Conn, NEW peer, Deafens(b, peer) PROVE UNCHANGED lookup
    BY <2>5, Zenon DEF lookup, Deafens
  <2> QED
    BY <2>1, <2>2, <2>3, <2>4, <2>5, Zenon DEF Next, Goroutine
<1> QED
  BY <1>2, <1>3, <1>4, <1>5

\* A destination published in time is gone to, whoever had the port before,
\* and no other can be but a stale one of the same port, or this host.
THEOREM HomeCorrect == Spec => []InformedGoesHome
<1>1. Init => InformedGoesHome
  BY DEF Init, InformedGoesHome
<1> QED
  BY <1>1, InitPortInv, StepPortInv, StepHome, TypeCorrect, PTL DEF Spec
=============================================================================
