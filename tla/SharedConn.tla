---------------------------- MODULE SharedConn ----------------------------
(***************************************************************************)
(* The bytes of one connection accepted by the transparent https listener  *)
(* (src/goproxy/main.go, the goroutine of runHttpsListener).  The handler  *)
(* has to read the head of the stream to learn what it carries, and then   *)
(* hand the whole stream on.  TLS() wraps the accepted connection in a     *)
(* sharedConn that tees what the ClientHello parser reads into vhostBuf;   *)
(* when that fails HTTP() wraps the TLSConn in a second sharedConn and     *)
(* parses again, through the first one.  sharedConn.Read replays vhostBuf  *)
(* and then drops it and continues on the connection underneath.           *)
(*                                                                         *)
(* A read returns any non-empty prefix of what is there, so that TCP may   *)
(* cut the stream anywhere.  Which bytes make a ClientHello or a request   *)
(* is left open: a parser stops, with either verdict, once it has read     *)
(* enough to have one, and fails when the stream ends.                     *)
(***************************************************************************)
EXTENDS Naturals, Sequences

CONSTANTS
  Byte,            \* what the client can send
  Streams,         \* what it may have sent when it closes
  RecordHeaderLen, \* vhost_tls.go: recordHeaderLen
  Nil              \* a vhostBuf that has been dropped, or was not made yet

ASSUME ConstantsOK ==
  /\ Streams \subseteq Seq(Byte)
  /\ RecordHeaderLen \in Nat \ {0}
  /\ Nil \notin Seq(Byte)

VARIABLES
  stream,     \* all the bytes this client sends
  stage,      \* where the handler is
  isTls,      \* TLS() returned without an error
  via,        \* the connection that is handed on: the TLSConn or the HTTPConn
  incoming,   \* bytes not yet read from the accepted connection
  tlsBuf,     \* vhostBuf of the TLSConn
  httpBuf,    \* vhostBuf of the HTTPConn wrapped around it
  delivered   \* bytes the final reader has forwarded

vars == <<stream, stage, isTls, via, incoming, tlsBuf, httpBuf, delivered>>

Stages == {"peek", "hello", "route", "request", "dial", "copy",
           "socks", "dropped", "failed", "done"}

Held(b) == IF b = Nil THEN << >> ELSE b

Front(s, n) == SubSeq(s, 1, n)
Rest(s, n)  == SubSeq(s, n + 1, Len(s))

-----------------------------------------------------------------------------
(* sharedConn.Read, one layer and two.                                     *)

\* The first n bytes a Read on the TLSConn can return.
TlsBytes(n) == Front(IF Held(tlsBuf) # << >> THEN tlsBuf ELSE incoming, n)

\* sharedConn.Read: from vhostBuf while it holds anything; at its end the
\* buffer is dropped and the read goes to the connection underneath.
TlsRead(n) ==
  \/ /\ n \in 1..Len(Held(tlsBuf))
     /\ tlsBuf' = Rest(tlsBuf, n)
     /\ UNCHANGED incoming
  \/ /\ Held(tlsBuf) = << >>
     /\ n \in 1..Len(incoming)
     /\ tlsBuf' = Nil
     /\ incoming' = Rest(incoming, n)

TlsEof == Held(tlsBuf) = << >> /\ incoming = << >>

HttpBytes(n) == IF Held(httpBuf) # << >> THEN Front(httpBuf, n) ELSE TlsBytes(n)

\* Mutant: the first read drops the whole buffer.
HttpReadDropsBuffer(n) ==
  \/ /\ n \in 1..Len(Held(httpBuf))
     /\ httpBuf' = Nil
     /\ UNCHANGED <<tlsBuf, incoming>>
  \/ /\ Held(httpBuf) = << >>
     /\ httpBuf' = Nil
     /\ TlsRead(n)

\* A Read on the HTTPConn: its own buffer first, then the TLSConn.
HttpRead(n) ==
  \/ /\ n \in 1..Len(Held(httpBuf))
     /\ httpBuf' = Rest(httpBuf, n)
     /\ UNCHANGED <<tlsBuf, incoming>>
  \/ /\ Held(httpBuf) = << >>
     /\ httpBuf' = Nil
     /\ TlsRead(n)

HttpEof == Held(httpBuf) = << >> /\ TlsEof

-----------------------------------------------------------------------------
(* The handler.                                                            *)

Init ==
  /\ stage = "peek"
  /\ isTls = FALSE
  /\ via = "tls"
  /\ stream \in Streams
  /\ incoming = stream
  /\ tlsBuf = Nil
  /\ httpBuf = Nil
  /\ delivered = << >>

\* buffered.Peek(2) leaves the bytes in the buffered connection; newShared
\* follows unless the first byte says SOCKS5.
Peek ==
  /\ stage = "peek"
  /\ Len(incoming) >= 2
  /\ \/ stage' = "socks" /\ UNCHANGED tlsBuf
     \/ stage' = "hello" /\ tlsBuf' = << >>
  /\ UNCHANGED <<stream, isTls, via, incoming, httpBuf, delivered>>

PeekFails ==
  /\ stage = "peek"
  /\ Len(incoming) < 2
  /\ stage' = "dropped"
  /\ UNCHANGED <<stream, isTls, via, incoming, tlsBuf, httpBuf, delivered>>

\* One r.Read of readFromUntil through the TeeReader.
ReadHello ==
  /\ stage = "hello"
  /\ \E n \in 1..Len(incoming) :
       /\ tlsBuf' = tlsBuf \o Front(incoming, n)
       /\ incoming' = Rest(incoming, n)
  /\ UNCHANGED <<stream, stage, isTls, via, httpBuf, delivered>>

HelloDecided ==
  /\ stage = "hello"
  /\ \/ Len(tlsBuf) >= RecordHeaderLen /\ isTls' \in BOOLEAN
     \/ incoming = << >> /\ isTls' = FALSE
  /\ stage' = "route"
  /\ UNCHANGED <<stream, via, incoming, tlsBuf, httpBuf, delivered>>

\* A private destination, a whitelisted host or a TLS host for goproxy: the
\* TLSConn itself is handed on.
RouteTls ==
  /\ stage = "route"
  /\ stage' = "dial"
  /\ via' = "tls"
  /\ UNCHANGED <<stream, isTls, incoming, tlsBuf, httpBuf, delivered>>

\* Mutant: HTTP() makes no buffer.
TryHttpUnwrapped ==
  /\ stage = "route"
  /\ ~isTls
  /\ stage' = "request"
  /\ via' = "http"
  /\ UNCHANGED <<stream, isTls, incoming, tlsBuf, httpBuf, delivered>>

\* "Assuming plain http connection": HTTP(tlsConn).
TryHttp ==
  /\ stage = "route"
  /\ ~isTls
  /\ stage' = "request"
  /\ via' = "http"
  /\ httpBuf' = << >>
  /\ UNCHANGED <<stream, isTls, incoming, tlsBuf, delivered>>

\* Mutant: the request is read from the connection, not from the TeeReader.
ReadRequestUnteed ==
  /\ stage = "request"
  /\ \E n \in 1..Len(stream) : TlsRead(n)
  /\ UNCHANGED <<stream, stage, isTls, via, httpBuf, delivered>>

\* One Read of the bufio.Reader in http.ReadRequest, through the TeeReader
\* and the TLSConn, which first replays what the ClientHello parser read.
ReadRequest ==
  /\ stage = "request"
  /\ \E n \in 1..Len(stream) :
       /\ TlsRead(n)
       /\ httpBuf' = httpBuf \o TlsBytes(n)
  /\ UNCHANGED <<stream, stage, isTls, via, delivered>>

\* Both verdicts hand the HTTPConn on, to the local http server or to the
\* destination.
RequestDecided ==
  /\ stage = "request"
  /\ httpBuf # << >> \/ TlsEof
  /\ stage' = "dial"
  /\ UNCHANGED <<stream, isTls, via, incoming, tlsBuf, httpBuf, delivered>>

Dial ==
  /\ stage = "dial"
  /\ stage' \in {"copy", "dropped"}
  /\ UNCHANGED <<stream, isTls, via, incoming, tlsBuf, httpBuf, delivered>>

\* io.Copy(remote, client) in twoWayCopy, or goproxy's reader.
CopyTls ==
  /\ stage = "copy" /\ via = "tls"
  /\ \E n \in 1..Len(stream) :
       /\ TlsRead(n)
       /\ delivered' = delivered \o TlsBytes(n)
  /\ UNCHANGED <<stream, stage, isTls, via, httpBuf>>

CopyHttp ==
  /\ stage = "copy" /\ via = "http"
  /\ \E n \in 1..Len(stream) :
       /\ HttpRead(n)
       /\ delivered' = delivered \o HttpBytes(n)
  /\ UNCHANGED <<stream, stage, isTls, via>>

\* Mutant: Read returns the io.EOF of the buffer.
CopyEndsWithBuffer ==
  /\ stage = "copy"
  /\ IF via = "tls" THEN Held(tlsBuf) = << >> ELSE Held(httpBuf) = << >>
  /\ stage' = "done"
  /\ UNCHANGED <<stream, isTls, via, incoming, tlsBuf, httpBuf, delivered>>

CopyEnds ==
  /\ stage = "copy"
  /\ IF via = "tls" THEN TlsEof ELSE HttpEof
  /\ stage' = "done"
  /\ tlsBuf' = Nil
  /\ httpBuf' = Nil
  /\ UNCHANGED <<stream, isTls, via, incoming, delivered>>

\* The remote side refuses a write.
CopyFails ==
  /\ stage = "copy"
  /\ stage' = "failed"
  /\ UNCHANGED <<stream, isTls, via, incoming, tlsBuf, httpBuf, delivered>>

Next ==
  \/ Peek \/ PeekFails
  \/ ReadHello \/ HelloDecided
  \/ RouteTls \/ TryHttp
  \/ ReadRequest \/ RequestDecided
  \/ Dial
  \/ CopyTls \/ CopyHttp \/ CopyEnds \/ CopyFails

Spec == Init /\ [][Next]_vars

-----------------------------------------------------------------------------
(* Properties.                                                             *)

\* Every variable has its type, and each parser has the buffer it tees into
\* (newShared in TLS() and in HTTP()).
TypeOK ==
  /\ stream \in Streams
  /\ stage \in Stages
  /\ isTls \in BOOLEAN
  /\ via \in {"tls", "http"}
  /\ incoming \in Seq(Byte)
  /\ tlsBuf \in Seq(Byte) \cup {Nil}
  /\ httpBuf \in Seq(Byte) \cup {Nil}
  /\ delivered \in Seq(Byte)
  /\ stage = "hello" => tlsBuf # Nil
  /\ stage = "request" => httpBuf # Nil

\* At every moment the bytes forwarded, those held by the outer and by the
\* inner sharedConn, and those still to come are, in that order, the stream
\* the client sent: neither parser, nor both after each other, loses, repeats
\* or reorders a byte (vhost_shared.go, newShared and Read).
NothingLost == delivered \o Held(httpBuf) \o Held(tlsBuf) \o incoming = stream

\* A copy that ends without an error has forwarded the whole stream: the end
\* of the replayed buffer is not taken for the end of the connection
\* (vhost_shared.go:37-49).
DoneDeliversAll == stage = "done" => delivered = stream

\* What the final reader gets is what it would get from a connection nobody
\* had read before (vhost_http.go:15-16, vhost_tls.go:86-87).
Unread == INSTANCE UnreadConn
ImplementsUnread == Unread!Spec
=============================================================================
