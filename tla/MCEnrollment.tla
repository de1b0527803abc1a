---------------------------- MODULE MCEnrollment ----------------------------
(* Instances of Enrollment. *)
EXTENDS Enrollment, TLC

CONSTANTS a, b, c, old, new

Config1 == [phones |-> {old}, names |-> [ph \in Phones |-> IF ph = old THEN "Owner phone" ELSE "none"],
            adb |-> 0]
Three(x, y, z) == a :> x @@ b :> y @@ c :> z
Setup(windows_, usable_, key_, config_, commands) ==
    [windows |-> windows_, usable |-> usable_, key |-> key_, config |-> config_,
     command |-> commands]

FirstStarts ==
    {Setup(w, u, "none", Nothing, Three("authorize", "authorize", "authorize")) :
        w \in {TRUE}, u \in {{}, {"software"}, Providers}}
    \cup {Setup(FALSE, {}, "none", Nothing, Three("pair-once", "pair-once", "none"))}
Established(commands) == Setup(FALSE, {}, "pem", Config1, commands)
Shared == {Established(Three("pair-once", "revoke", "status")),
           Established(Three("daemon", "pair-once", "unpair-all")),
           Established(Three("daemon", "rename", "revoke"))}
Migrations == {Setup(TRUE, Providers, k, Config1, Three("migrate-tpm", "daemon", "authorize")) :
                  k \in {"pem", "cng"}}
BrokenStores ==
    {Setup(TRUE, {"software"}, k, Config1, Three("migrate-tpm", "authorize", "none")) :
        k \in {"pem", "cng"}}
    \cup {Setup(TRUE, Providers, "pem", Config1, Three("migrate-tpm", "migrate-tpm", "none"))}
PortableOnly == {Established(Three("portable", "none", "none"))}
AllSetups == FirstStarts \cup BrokenStores \cup Shared \cup Migrations \cup PortableOnly
=============================================================================
