---------------------------- MODULE UnreadConn ----------------------------
(***************************************************************************)
(* What vhost_http.go and vhost_tls.go promise of HTTP() and TLS(): they   *)
(* return "a new, unread connection".  Whoever reads that connection sees  *)
(* the client's bytes from the first one on, in order and once each, in    *)
(* pieces of any size.                                                     *)
(***************************************************************************)
EXTENDS Naturals, Sequences

CONSTANT Streams     \* what a client may send before it closes

VARIABLES
  stream,            \* what this one sends
  delivered          \* what the connection has handed to its reader

Init == stream \in Streams /\ delivered = << >>

Read(n) ==
  /\ delivered' = SubSeq(stream, 1, Len(delivered) + n)
  /\ UNCHANGED stream

Next == \E n \in 1..(Len(stream) - Len(delivered)) : Read(n)

Spec == Init /\ [][Next]_<<stream, delivered>>
=============================================================================
