------------------------- MODULE MCProxyLifecycle -------------------------
(***************************************************************************)
(* Instances of ProxyLifecycle for TLC: two starts, so that a goroutine    *)
(* left over from the first generation meets the second.                   *)
(***************************************************************************)
EXTENDS ProxyLifecycle, TLC
=============================================================================
