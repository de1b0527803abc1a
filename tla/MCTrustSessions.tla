-------------------------- MODULE MCTrustSessions --------------------------
(* Instances of TrustSessions: two phones with one connection each, and    *)
(* one phone that reconnects over its own half-open connection.            *)
EXTENDS TrustSessions, TLC

CONSTANTS p1, p2, c1, c2

OneEach == c1 :> p1 @@ c2 :> p2
Overlap == c1 :> p1 @@ c2 :> p1
=============================================================================
