----------------------------- MODULE HeldBody -----------------------------
(***************************************************************************)
(* What HTTP/2 filtering promises of a stream: each side gets the frames   *)
(* the other one sent, in order, once each and as they were, however long  *)
(* some of them are held back; or, instead of the whole response, the      *)
(* client gets a block page, and only if something asks for one.  The      *)
(* promise of a response may be waived, as long as nothing of it has been  *)
(* given and only when the request has arrived in full.                    *)
(***************************************************************************)
EXTENDS Naturals, Sequences

CONSTANTS
  Stream,
  Exchanges,   \* what may happen on the streams of a connection
  Page,        \* the frames of a block page
  Bad          \* body parts the response filter rejects

VARIABLES
  exchange,    \* what each side sends on each stream, and the lists' verdict
  got,         \* the frames each side has been given
  waived       \* the streams on which no response is promised any more

Other(side) == IF side = "client" THEN "server" ELSE "client"

Unwanted(s) ==
  \/ exchange[s].verdict = "block"
  \/ /\ exchange[s].verdict # "white"
     /\ \E i \in 1..Len(exchange[s].server) :
          \E k \in 1..Len(exchange[s].server[i].items) : exchange[s].server[i].items[k] \in Bad

Init ==
  /\ exchange \in Exchanges
  /\ got = [side \in {"client", "server"} |-> [s \in Stream |-> << >>]]
  /\ waived = {}

Forward(to, s) ==
  LET sent == exchange[s][Other(to)]  sofar == Len(got[to][s]) IN
  /\ to = "client" => s \notin waived
  /\ got[to][s] = SubSeq(sent, 1, sofar)
  /\ \E n \in (sofar + 1)..Len(sent) : got' = [got EXCEPT ![to][s] = SubSeq(sent, 1, n)]
  /\ UNCHANGED <<exchange, waived>>

Replace(s) ==
  /\ s \notin waived
  /\ got["client"][s] = << >>
  /\ Unwanted(s)
  /\ got' = [got EXCEPT !["client"][s] = Page]
  /\ UNCHANGED <<exchange, waived>>

Waive(s) ==
  /\ s \notin waived
  /\ got["server"][s] = exchange[s].client /\ got["client"][s] = << >>
  /\ waived' = waived \cup {s}
  /\ UNCHANGED <<exchange, got>>

Next ==
  \E s \in Stream :
    Replace(s) \/ Waive(s) \/ \E to \in {"client", "server"} : Forward(to, s)

Spec == Init /\ [][Next]_<<exchange, got, waived>>
=============================================================================
