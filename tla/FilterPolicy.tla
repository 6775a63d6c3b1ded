---------------------------- MODULE FilterPolicy ----------------------------
(***************************************************************************)
(* What the request filter promises the embedder, with no handles, map or  *)
(* callbacks in sight: each request is decided once, and the decision is   *)
(* to answer it with a page exactly when the embedder does not want it.    *)
(***************************************************************************)
CONSTANTS Request, Unwanted
VARIABLE decision

Init == decision = [r \in Request |-> "pending"]

Decide(r) ==
  /\ decision[r] = "pending"
  /\ decision' = [decision EXCEPT ![r] = IF r \in Unwanted THEN "answered" ELSE "forward"]

Next == \E r \in Request : Decide(r)

Spec == Init /\ [][Next]_decision
=============================================================================
