--------------------------- MODULE MCOwnerProofs ---------------------------
(* Instances of OwnerProofs. *)
EXTENDS OwnerProofs, TLC

CONSTANTS p1, c1, c2, r1, r2

OnePhone == [c \in Conns |-> p1]

PresenceRules == [r \in Calls |-> "presence"]
ExplicitRules == [r \in Calls |-> "explicit"]
MixedRules == [r \in Calls |-> IF r = r1 THEN "explicit" ELSE "presence"]

NoTTL == [r \in Calls |-> 0]
ExtremeTTLs == [r \in Calls |-> IF r = r1 THEN 9 ELSE 1]
============================================================================
