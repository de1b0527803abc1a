----------------------------- MODULE TrustBoard -----------------------------
(***************************************************************************)
(* What the trust-session core promises to the programs that read its      *)
(* files and ask its control API, with connections, handlers and hooks     *)
(* hidden: a set of trusted phones, those of them whose owner is present,  *)
(* and an owner-mode file that names one present phone, if there is one.   *)
(* A phone gains trust by arriving, never by merely reporting.  After a    *)
(* restart nobody is trusted, and the file of the previous run may be left *)
(* until the next change.                                                  *)
(***************************************************************************)
CONSTANTS Phones, NoPhone

VARIABLES trusted, present, ownerMode

boardVars == <<trusted, present, ownerMode>>

Init ==
    /\ trusted = {}
    /\ present = {}
    /\ ownerMode = NoPhone

\* The file is rewritten with every change of the board.
Publish ==
    ownerMode' \in IF present' = {} THEN {NoPhone} ELSE present'

Place(p, here) ==
    /\ present' = IF here THEN present \cup {p} ELSE present \ {p}
    /\ Publish

Arrive(p, here) ==
    /\ p \notin trusted
    /\ trusted' = trusted \cup {p}
    /\ Place(p, here)

Heartbeat(p, here) ==
    /\ p \in trusted
    /\ Place(p, here)
    /\ UNCHANGED trusted

Leave(p) ==
    /\ p \in trusted
    /\ trusted' = trusted \ {p}
    /\ Place(p, FALSE)

Restart ==
    /\ trusted' = {}
    /\ present' = {}
    /\ ownerMode' \in {ownerMode, NoPhone}

Next ==
    \/ \E p \in Phones, here \in BOOLEAN : Arrive(p, here) \/ Heartbeat(p, here)
    \/ \E p \in Phones : Leave(p)
    \/ Restart

Spec == Init /\ [][Next]_boardVars
=============================================================================
