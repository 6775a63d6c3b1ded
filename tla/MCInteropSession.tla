-------------------------- MODULE MCInteropSession --------------------------
(***************************************************************************)
(* Instances of InteropSession for TLC.  Each exchange has a part to play: *)
(* the URL of forum is unwanted; shop is on a blacklist and answered with  *)
(* a block page; bank is on a whitelist; news is on no list, and its       *)
(* response body is one the embedder replaces.                             *)
(***************************************************************************)
EXTENDS InteropSession, TLC

CONSTANTS forum, shop, bank, news

MCVerdict == [e \in Exchange |->
  IF e = bank THEN "white" ELSE IF e = shop THEN "black" ELSE "none"]

\* All requests come in over HTTP/1.
OnePath == [e \in Exchange |-> "http1"]

\* Every pair of paths is present, and each of them can collide.
AllPaths == [e \in Exchange |->
  IF e = forum THEN "http1" ELSE IF e = bank THEN "tls" ELSE "http2"]
=============================================================================
