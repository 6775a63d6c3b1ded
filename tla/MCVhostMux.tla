---------------------------- MODULE MCVhostMux ----------------------------
(***************************************************************************)
(* Two connections, of which one is for a host covered by a wildcard and   *)
(* one for the wildcard's own name, and two Listeners that follow each     *)
(* other under the wildcard.                                               *)
(***************************************************************************)
EXTENDS VhostMux, TLC

CONSTANTS c1, c2, old, new, site, wild

MCNameOf     == (old :> wild) @@ (new :> wild)
MCCandidates == (c1 :> <<site, wild>>) @@ (c2 :> <<wild>>)
=============================================================================
