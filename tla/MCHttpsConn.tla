---------------------------- MODULE MCHttpsConn ----------------------------
(***************************************************************************)
(* Three connections: one to a web site and one that the SOCKS handler     *)
(* dials (inner) for a third (proxy) use the same local port after each    *)
(* other, in either order.                                                 *)
(***************************************************************************)
EXTENDS HttpsConn, TLC

CONSTANTS web, proxy, inner, site, named, localhost

MCPortOf == (web :> 1) @@ (inner :> 1) @@ (proxy :> 2)
MCInner  == (proxy :> inner) @@ (web :> None) @@ (inner :> None)
MCWant   == (web :> site) @@ (inner :> named) @@ (proxy :> localhost)

Carrying(w, i) == (web :> w) @@ (inner :> i) @@ (proxy :> "other")
MCTraffics == {Carrying("tls", "other"), Carrying("http", "tls"), Carrying("other", "http")}
=============================================================================
