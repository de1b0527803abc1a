---------------------------- MODULE PolicyRules ----------------------------
(***************************************************************************)
(* The rules of policy.json (policy.go): the shipped ones, the migration   *)
(* of older files, and evaluation by first match.                          *)
(*                                                                         *)
(* A key stands for a rule's pair of action and resource patterns, and a   *)
(* request for an action and resource that match the pattern of its name.  *)
(* The shipped patterns are disjoint: path.Match's "*" stops at a slash,   *)
(* so "vps:*" does not match a container.  Two patterns a user may write   *)
(* overlap with them: "* / *", and the staging servers of                  *)
(* examples/policy-owner.json.                                             *)
(***************************************************************************)
EXTENDS Integers, Sequences

policyVersion == 8

OldKeys == {"owner.session", "owner.console", "credential.owner-proof",
            "credential.ssh"}
SensitiveOps == {"ssh.issue", "ssh-ca.enroll", "node.install"}
OSKeys == {"pam", "sudo", "windows"}
DockerKeys == {"docker", "docker container"}
Requests == OldKeys \cup SensitiveOps \cup OSKeys \cup DockerKeys \cup
            {"authorize project", "authorize zauth", "project.manage",
             "terminal", "portable.session", "credential.ssh staging", "other"}
Keys == Requests \cup {"*"}

Rules == [key : Keys, effect : {"allow", "deny"},
          needs : SUBSET {"trust", "presence", "explicit"}]
Policies == [version : Nat, default : {"allow", "deny"}, rules : Seq(Rules)]

Allow(key, needs) == [key |-> key, effect |-> "allow", needs |-> needs]
AllowEach(keys, needs) == [i \in DOMAIN keys |-> Allow(keys[i], needs)]
NoSSH == [key |-> "credential.ssh", effect |-> "deny", needs |-> {"trust"}]

defaultPolicy ==
    [version |-> policyVersion, default |-> "deny", rules |->
        AllowEach(<<"owner.session", "owner.console">>, {"trust", "presence"})
        \o AllowEach(<<"credential.owner-proof", "portable.session",
                       "authorize project", "authorize zauth",
                       "project.manage", "ssh.issue", "ssh-ca.enroll",
                       "node.install">>, {"trust", "explicit"})
        \o <<Allow("terminal", {"trust", "presence"})>>
        \o AllowEach(<<"docker", "docker container", "pam", "sudo", "windows">>,
                     {"trust", "explicit"})
        \o <<NoSSH>>]

-----------------------------------------------------------------------------
(* migratePolicy. *)

\* The rules appended on the way to version v.
Added(v) ==
    CASE v = 2 -> AllowEach(<<"authorize project", "terminal", "docker">>, {"trust"})
      [] v = 3 -> <<Allow("authorize zauth", {"trust"})>>
      [] v = 4 -> <<Allow("docker container", {"trust"})>>
      [] v = 5 -> <<Allow("project.manage", {"trust"})>>
      [] v = 6 -> AllowEach(<<"ssh.issue", "ssh-ca.enroll", "node.install">>,
                            {"trust"})
      [] v = 7 -> AllowEach(<<"pam", "sudo", "windows">>, {"trust", "explicit"})
      [] v = 8 -> <<Allow("portable.session", {"trust", "explicit"})>>

\* Mutant: forgets the rule of version 4.
FewerExplicit == {"credential.owner-proof", "authorize project",
                  "authorize zauth", "project.manage", "docker"} \cup SensitiveOps
markExplicit == {"credential.owner-proof", "authorize project",
                 "authorize zauth", "project.manage"}
                \cup SensitiveOps \cup DockerKeys
markPresence == {"owner.session", "owner.console", "terminal"}

\* What version 7 asks of the rules already in the file, the user's included.
Mark(rule) ==
    [key |-> rule.key, effect |-> rule.effect,
     needs |-> rule.needs
               \cup (IF rule.key \in markExplicit THEN {"explicit"} ELSE {})
               \cup (IF rule.key \in markPresence THEN {"presence"} ELSE {})]
Marked(rules) == [i \in DOMAIN rules |-> Mark(rules[i])]

\* Mutant: puts the new rules in front.
AddedFirst(p, v) ==
    [p EXCEPT !.version = v,
              !.rules = Added(v) \o (IF v = 7 THEN Marked(@) ELSE @)]
\* Mutant: does not note the version it has reached.
VersionForgotten(p, v) ==
    [p EXCEPT !.rules = (IF v = 7 THEN Marked(@) ELSE @) \o Added(v)]
\* The block of one version, for a policy older than that.
MigrateTo(p, v) ==
    [p EXCEPT !.version = v,
              !.rules = (IF v = 7 THEN Marked(@) ELSE @) \o Added(v)]

UpTo(p, v) == IF p.version < v THEN MigrateTo(p, v) ELSE p

\* Mutant: one version per start.
MigrateOnce(p) ==
    IF p.version < policyVersion THEN MigrateTo(p, p.version + 1) ELSE p
migratePolicy(p) ==
    UpTo(UpTo(UpTo(UpTo(UpTo(UpTo(UpTo(p, 2), 3), 4), 5), 6), 7), 8)

-----------------------------------------------------------------------------
(* evaluatePolicy. *)

Matches(key, request) ==
    \/ key \in {"*", request}
    \/ key = "credential.ssh" /\ request = "credential.ssh staging"

Matching(p, request) == {i \in DOMAIN p.rules : Matches(p.rules[i].key, request)}

\* The rule that decides, if one matches.
FirstMatch(p, request) ==
    CHOOSE i \in Matching(p, request) : \A j \in Matching(p, request) : i <= j

evaluatePolicy(p, request, trusted, present) ==
    IF Matching(p, request) = {}
    THEN [allowed |-> p.default = "allow", explicit |-> FALSE]
    ELSE LET rule == p.rules[FirstMatch(p, request)]
             met == /\ "trust" \in rule.needs => trusted
                    /\ "presence" \in rule.needs /\ "explicit" \notin rule.needs
                          => present
         IN  [allowed |-> met /\ rule.effect = "allow",
              explicit |-> met /\ "explicit" \in rule.needs]
=============================================================================
