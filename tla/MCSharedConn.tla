--------------------------- MODULE MCSharedConn ---------------------------
(***************************************************************************)
(* Up to six distinct bytes, cut in every possible way: enough for each of *)
(* the two parsers and the copy to read at least twice, and for a buffer   *)
(* boundary to fall before, inside and after what the other layer read.    *)
(* The short streams end during the peek, the record header or the request.*)
(***************************************************************************)
EXTENDS SharedConn, TLC

MCByte    == 1..6
MCStreams == {[i \in 1..k |-> i] : k \in 0..6}
=============================================================================
