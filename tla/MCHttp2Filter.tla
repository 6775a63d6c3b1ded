--------------------------- MODULE MCHttp2Filter ---------------------------
(***************************************************************************)
(* Connections of two streams for TLC.  Sizes are small numbers: a chunk   *)
(* is 2 bytes (m: 1), the filter leaves bodies of 1 byte and of more than  *)
(* 6 alone.                                                                *)
(***************************************************************************)
EXTENDS Http2Filter, FiniteSets, TLC

CONSTANTS q, u, h, huge, text, early, trailer, d, e, f, m, b, p

MCItem == {q, u, h, huge, text, early, trailer, d, e, f, m, b, p}

MCLength(c) == 2 * Len(c) - Cardinality({i \in 1..Len(c) : c[i] = m})

Headers(x) == [type |-> "headers", items |-> <<x>>, ended |-> FALSE]
Data(x)    == [type |-> "data", items |-> <<x>>, ended |-> FALSE]
Reset      == [type |-> "other", items |-> <<p>>, ended |-> FALSE]
End(x)     == [x EXCEPT !.ended = TRUE]

MCPage == <<Headers(p), End(Data(p))>>

Get  == <<End(Headers(q))>>
Post == <<Headers(q), End(Data(u))>>

Of(verdict, client, server) ==
  [verdict |-> verdict, patient |-> TRUE, window |-> 6,
   client |-> client, server |-> server]
Hasty(x) == [x EXCEPT !.patient = FALSE]

Wide(x)  == [x EXCEPT !.window = 12]
Upload(x) == [x EXCEPT !.client = Post]
Cancelled(x) == [x EXCEPT !.client = Post \o <<Reset>>]
Closed(x) == [x EXCEPT !.server = @ \o <<Reset>>]

Good        == Of("none", Get, <<Headers(h), Data(d), End(Data(e))>>)
Rejected    == Of("none", Get, <<Headers(h), Data(b), End(Data(d))>>)
Whitelisted == Of("white", Get, <<Headers(h), Data(d), End(Data(b))>>)
Blocked     == Of("block", Get, <<Headers(h), End(Data(d))>>)
Plain       == Of("none", Post, <<Headers(text), Data(b), End(Data(d))>>)
OneFrame    == Of("none", Get, <<Headers(h), End(Data(b))>>)
Small       == Of("none", Get, <<Headers(h), Data(m), End(Data(b))>>)
Trailers    == Of("none", Get, <<Headers(early), Headers(h), Data(b), End(Headers(trailer))>>)
Announced   == Of("none", Get, <<Headers(huge), Data(d), End(Data(b))>>)
Oversized   == Of("none", Get,
                  <<Headers(h), Data(d), Data(e), Data(f), Data(b), End(Data(d))>>)
Shifted     == Of("none", Get, <<Headers(huge), Headers(h), Data(d), End(Data(b))>>)
Aborted     == Of("none", Get, <<Headers(h), Data(d), Reset>>)
Empty       == Of("none", Get, <<End(Headers(h))>>)
Unused      == Of("none", << >>, << >>)

\* The oversized response does not fit into a stream's window of 6, nor together
\* with a good one into the connection's of 10: it need not complete.
MCExchanges == {
  <<Good, Blocked>>, <<Rejected, Plain>>, <<Small, OneFrame>>, <<Whitelisted, Upload(Good)>>,
  <<Trailers, Empty>>, <<Announced, Empty>>, <<Aborted, Blocked>>,
  <<Oversized, Empty>>, <<Wide(Oversized), Empty>>,
  <<Wide(Oversized), Good>>, <<Hasty(Rejected), Empty>>, <<Shifted, Empty>>,
  <<Cancelled(Closed(Rejected)), Unused>>, <<Hasty(Cancelled(Rejected)), Unused>>}
=============================================================================
