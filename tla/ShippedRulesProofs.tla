------------------------- MODULE ShippedRulesProofs -------------------------
(***************************************************************************)
(* TLAPS proofs about the rules that the program ships, for any rules that *)
(* an owner adds to them: what they are in each version, what a migration  *)
(* makes of an older file, and how the migrated file decides.              *)
(***************************************************************************)
EXTENDS PolicyFileProofs

-----------------------------------------------------------------------------
(* Rules as sets. *)

RulesOf(s) == {s[i] : i \in DOMAIN s}

LEMMA ConcatRules ==
    ASSUME NEW S, NEW s \in Seq(S), NEW t \in Seq(S)
    PROVE  /\ s \o t \in Seq(S)
           /\ RulesOf(s \o t) = RulesOf(s) \cup RulesOf(t)
  <1>1. /\ s \o t \in Seq(S)
        /\ Len(s) \in Nat /\ Len(t) \in Nat
        /\ DOMAIN s = 1..Len(s) /\ DOMAIN t = 1..Len(t)
        /\ DOMAIN (s \o t) = 1..(Len(s) + Len(t))
        /\ \A i \in 1..Len(s) : (s \o t)[i] = s[i]
        /\ \A i \in 1..Len(t) : (s \o t)[Len(s) + i] = t[i]
    OBVIOUS
  <1>2. \A i \in DOMAIN (s \o t) :
           i \in DOMAIN s \/ (i - Len(s) \in DOMAIN t /\ (s \o t)[i] = t[i - Len(s)])
    BY <1>1
  <1>3. RulesOf(s \o t) \subseteq RulesOf(s) \cup RulesOf(t)
    BY <1>1, <1>2 DEF RulesOf
  <1>4. ASSUME NEW x \in RulesOf(s) PROVE x \in RulesOf(s \o t)
    <2>1. PICK i \in DOMAIN s : x = s[i]
      BY <1>4 DEF RulesOf
    <2>2. i \in DOMAIN (s \o t)
      BY <1>1
    <2>3. QED
      BY <1>1, <2>1, <2>2 DEF RulesOf
  <1>5. ASSUME NEW x \in RulesOf(t) PROVE x \in RulesOf(s \o t)
    <2>1. PICK i \in DOMAIN t : x = t[i]
      BY <1>5 DEF RulesOf
    <2>2. Len(s) + i \in DOMAIN (s \o t)
      BY <1>1
    <2>3. QED
      BY <1>1, <2>1, <2>2 DEF RulesOf
  <1>6. QED
    BY <1>1, <1>3, <1>4, <1>5

LEMMA EachAllowed ==
    ASSUME NEW keys \in Seq(Keys), NEW needs
    PROVE  RulesOf(AllowEach(keys, needs)) = {Allow(k, needs) : k \in RulesOf(keys)}
  BY DEF AllowEach, RulesOf

LEMMA TupleRules ==
    /\ \A a : RulesOf(<<a>>) = {a}
    /\ \A a, b : RulesOf(<<a, b>>) = {a, b}
    /\ \A a, b, c : RulesOf(<<a, b, c>>) = {a, b, c}
    /\ \A a, b, c, d, e : RulesOf(<<a, b, c, d, e>>) = {a, b, c, d, e}
    /\ \A a, b, c, d, e, f, g, h :
          RulesOf(<<a, b, c, d, e, f, g, h>>) = {a, b, c, d, e, f, g, h}
  <1>1. \A a : RulesOf(<<a>>) = {a}
    BY DEF RulesOf
  <1>2. \A a, b : RulesOf(<<a, b>>) = {a, b}
    BY DEF RulesOf
  <1>3. \A a, b, c : RulesOf(<<a, b, c>>) = {a, b, c}
    BY DEF RulesOf
  <1>4. \A a, b, c, d, e : RulesOf(<<a, b, c, d, e>>) = {a, b, c, d, e}
    BY DEF RulesOf
  <1>5. \A a, b, c, d, e, f, g, h :
          RulesOf(<<a, b, c, d, e, f, g, h>>) = {a, b, c, d, e, f, g, h}
    BY DEF RulesOf
  <1>6. QED
    BY <1>1, <1>2, <1>3, <1>4, <1>5

LEMMA OnceEachConcat ==
    ASSUME NEW S, NEW s \in Seq(S), NEW t \in Seq(S), OnceEach(s), OnceEach(t),
           \A x \in RulesOf(s), y \in RulesOf(t) :
              x.key # y.key \/ x.effect # y.effect
    PROVE  OnceEach(s \o t)
  <1>1. /\ Len(s) \in Nat /\ Len(t) \in Nat
        /\ DOMAIN s = 1..Len(s) /\ DOMAIN t = 1..Len(t)
        /\ DOMAIN (s \o t) = 1..(Len(s) + Len(t))
        /\ \A i \in 1..Len(s) : (s \o t)[i] = s[i]
        /\ \A i \in 1..Len(t) : (s \o t)[Len(s) + i] = t[i]
    OBVIOUS
  <1>2. \A i \in DOMAIN (s \o t) :
           \/ i \in DOMAIN s /\ (s \o t)[i] = s[i]
           \/ /\ i \in Int /\ i - Len(s) \in DOMAIN t
              /\ (s \o t)[i] = t[i - Len(s)]
    BY <1>1
  <1> DEFINE u == s \o t
  <1>3. SUFFICES ASSUME NEW i \in DOMAIN u, NEW j \in DOMAIN u,
                        u[i].key = u[j].key, u[i].effect = u[j].effect
                 PROVE  i = j
    BY DEF OnceEach
  <1> HIDE DEF u
  <1>a. \A k \in DOMAIN u :
           \/ k \in DOMAIN s /\ u[k] = s[k]
           \/ k \in Int /\ k - Len(s) \in DOMAIN t /\ u[k] = t[k - Len(s)]
    BY <1>2 DEF u
  <1>4. CASE i \in DOMAIN s /\ u[i] = s[i] /\ j \in DOMAIN s /\ u[j] = s[j]
    BY <1>3, <1>4 DEF OnceEach
  <1>5. CASE /\ i \in Int /\ i - Len(s) \in DOMAIN t /\ u[i] = t[i - Len(s)]
             /\ j \in Int /\ j - Len(s) \in DOMAIN t /\ u[j] = t[j - Len(s)]
    <2>1. i - Len(s) = j - Len(s)
      BY <1>3, <1>5 DEF OnceEach
    <2>2. QED
      BY <2>1, <1>5, <1>1
  <1>6. CASE /\ i \in DOMAIN s /\ u[i] = s[i]
             /\ j - Len(s) \in DOMAIN t /\ u[j] = t[j - Len(s)]
    BY <1>3, <1>6 DEF RulesOf
  <1>7. CASE /\ j \in DOMAIN s /\ u[j] = s[j]
             /\ i - Len(s) \in DOMAIN t /\ u[i] = t[i - Len(s)]
    BY <1>3, <1>7 DEF RulesOf
  <1>8. QED
    BY <1>a, <1>4, <1>5, <1>6, <1>7

LEMMA OnceEachAllowed ==
    ASSUME NEW keys \in Seq(Keys), NEW needs,
           \A i, j \in DOMAIN keys : keys[i] = keys[j] => i = j
    PROVE  OnceEach(AllowEach(keys, needs))
  BY DEF AllowEach, Allow, OnceEach

LEMMA OnceEachOne == \A x : OnceEach(<<x>>)
  BY DEF OnceEach

-----------------------------------------------------------------------------
(* What each version adds. *)

NewKeys(v) ==
    CASE v = 2 -> {"authorize project", "terminal", "docker"}
      [] v = 3 -> {"authorize zauth"}
      [] v = 4 -> {"docker container"}
      [] v = 5 -> {"project.manage"}
      [] v = 6 -> SensitiveOps
      [] v = 7 -> OSKeys
      [] v = 8 -> {"portable.session"}

LEMMA Versions ==
    ASSUME NEW v \in 2..8
    PROVE  v = 2 \/ v = 3 \/ v = 4 \/ v = 5 \/ v = 6 \/ v = 7 \/ v = 8
  OBVIOUS

LEMMA Distinct ==
    /\ 2 # 3 /\ 2 # 4 /\ 2 # 5 /\ 2 # 6 /\ 2 # 7 /\ 2 # 8
    /\ 3 # 2 /\ 3 # 4 /\ 3 # 5 /\ 3 # 6 /\ 3 # 7 /\ 3 # 8
    /\ 4 # 2 /\ 4 # 3 /\ 4 # 5 /\ 4 # 6 /\ 4 # 7 /\ 4 # 8
    /\ 5 # 2 /\ 5 # 3 /\ 5 # 4 /\ 5 # 6 /\ 5 # 7 /\ 5 # 8
    /\ 6 # 2 /\ 6 # 3 /\ 6 # 4 /\ 6 # 5 /\ 6 # 7 /\ 6 # 8
    /\ 7 # 2 /\ 7 # 3 /\ 7 # 4 /\ 7 # 5 /\ 7 # 6 /\ 7 # 8
    /\ 8 # 2 /\ 8 # 3 /\ 8 # 4 /\ 8 # 5 /\ 8 # 6 /\ 8 # 7
  OBVIOUS

LEMMA AddedTable ==
    /\ Added(2) = AllowEach(<<"authorize project", "terminal", "docker">>,
                             {"trust"})
    /\ Added(3) = <<Allow("authorize zauth", {"trust"})>>
    /\ Added(4) = <<Allow("docker container", {"trust"})>>
    /\ Added(5) = <<Allow("project.manage", {"trust"})>>
    /\ Added(6) = AllowEach(<<"ssh.issue", "ssh-ca.enroll", "node.install">>,
                             {"trust"})
    /\ Added(7) = AllowEach(<<"pam", "sudo", "windows">>,
                             {"trust", "explicit"})
    /\ Added(8) = <<Allow("portable.session", {"trust", "explicit"})>>
  BY Distinct, Zenon DEF Added

LEMMA NewKeysTable ==
    /\ NewKeys(2) = {"authorize project", "terminal", "docker"}
    /\ NewKeys(3) = {"authorize zauth"}
    /\ NewKeys(4) = {"docker container"}
    /\ NewKeys(5) = {"project.manage"}
    /\ NewKeys(6) = {"ssh.issue", "ssh-ca.enroll", "node.install"}
    /\ NewKeys(7) = {"pam", "sudo", "windows"}
    /\ NewKeys(8) = {"portable.session"}
  BY Distinct, Zenon DEF NewKeys, SensitiveOps, OSKeys

LEMMA NewKeysShipped ==
    ASSUME NEW v \in 2..8
    PROVE  NewKeys(v) \subseteq ShippedKeys \ OldKeys
  <1> USE DEF ShippedKeys, Requests, OldKeys, SensitiveOps, OSKeys, DockerKeys
  <1>2. {"authorize project", "terminal", "docker"} \subseteq ShippedKeys \ OldKeys
    OBVIOUS
  <1>3. {"authorize zauth"} \subseteq ShippedKeys \ OldKeys
    OBVIOUS
  <1>4. {"docker container"} \subseteq ShippedKeys \ OldKeys
    OBVIOUS
  <1>5. {"project.manage"} \subseteq ShippedKeys \ OldKeys
    OBVIOUS
  <1>6. {"ssh.issue", "ssh-ca.enroll", "node.install"} \subseteq ShippedKeys \ OldKeys
    OBVIOUS
  <1>7. {"pam", "sudo", "windows"} \subseteq ShippedKeys \ OldKeys
    OBVIOUS
  <1>8. {"portable.session"} \subseteq ShippedKeys \ OldKeys
    OBVIOUS
  <1> HIDE DEF ShippedKeys, OldKeys
  <1>9. QED
    BY <1>2, <1>3, <1>4, <1>5, <1>6, <1>7, <1>8, Versions, NewKeysTable

LEMMA NewKeysDisjoint ==
    ASSUME NEW v \in 2..8, NEW w \in 2..8, v < w
    PROVE  NewKeys(v) \cap NewKeys(w) = {}
  <1>2. ASSUME NEW k \in {"authorize project", "terminal", "docker"}
        PROVE  /\ k \notin {"authorize zauth"}
               /\ k \notin {"docker container"}
               /\ k \notin {"project.manage"}
               /\ k \notin {"ssh.issue", "ssh-ca.enroll", "node.install"}
               /\ k \notin {"pam", "sudo", "windows"}
               /\ k \notin {"portable.session"}
    OBVIOUS
  <1>3. ASSUME NEW k \in {"authorize zauth"}
        PROVE  /\ k \notin {"docker container"}
               /\ k \notin {"project.manage"}
               /\ k \notin {"ssh.issue", "ssh-ca.enroll", "node.install"}
               /\ k \notin {"pam", "sudo", "windows"}
               /\ k \notin {"portable.session"}
    OBVIOUS
  <1>4. ASSUME NEW k \in {"docker container"}
        PROVE  /\ k \notin {"project.manage"}
               /\ k \notin {"ssh.issue", "ssh-ca.enroll", "node.install"}
               /\ k \notin {"pam", "sudo", "windows"}
               /\ k \notin {"portable.session"}
    OBVIOUS
  <1>5. ASSUME NEW k \in {"project.manage"}
        PROVE  /\ k \notin {"ssh.issue", "ssh-ca.enroll", "node.install"}
               /\ k \notin {"pam", "sudo", "windows"}
               /\ k \notin {"portable.session"}
    OBVIOUS
  <1>6. ASSUME NEW k \in {"ssh.issue", "ssh-ca.enroll", "node.install"}
        PROVE  /\ k \notin {"pam", "sudo", "windows"}
               /\ k \notin {"portable.session"}
    OBVIOUS
  <1>7. ASSUME NEW k \in {"pam", "sudo", "windows"}
        PROVE  /\ k \notin {"portable.session"}
    OBVIOUS
  <1>9. ASSUME NEW k \in NewKeys(v), k \in NewKeys(w) PROVE FALSE
    <2>2. CASE v = 2
      <3>1. w = 3 \/ w = 4 \/ w = 5 \/ w = 6 \/ w = 7 \/ w = 8
        BY <2>2, Versions
      <3>2. QED
        BY <1>2, <1>9, <2>2, <3>1, NewKeysTable
    <2>3. CASE v = 3
      <3>1. w = 4 \/ w = 5 \/ w = 6 \/ w = 7 \/ w = 8
        BY <2>3, Versions
      <3>2. QED
        BY <1>3, <1>9, <2>3, <3>1, NewKeysTable
    <2>4. CASE v = 4
      <3>1. w = 5 \/ w = 6 \/ w = 7 \/ w = 8
        BY <2>4, Versions
      <3>2. QED
        BY <1>4, <1>9, <2>4, <3>1, NewKeysTable
    <2>5. CASE v = 5
      <3>1. w = 6 \/ w = 7 \/ w = 8
        BY <2>5, Versions
      <3>2. QED
        BY <1>5, <1>9, <2>5, <3>1, NewKeysTable
    <2>6. CASE v = 6
      <3>1. w = 7 \/ w = 8
        BY <2>6, Versions
      <3>2. QED
        BY <1>6, <1>9, <2>6, <3>1, NewKeysTable
    <2>7. CASE v = 7
      <3>1. w = 8
        BY <2>7, Versions
      <3>2. QED
        BY <1>7, <1>9, <2>7, <3>1, NewKeysTable
    <2>9. QED
      BY <2>2, <2>3, <2>4, <2>5, <2>6, <2>7, Versions
  <1>10. QED
    BY <1>9

LEMMA Triple ==
    ASSUME NEW a \in Keys, NEW b \in Keys, NEW c \in Keys,
           a # b, b # c, a # c
    PROVE  /\ <<a, b, c>> \in Seq(Keys)
           /\ RulesOf(<<a, b, c>>) = {a, b, c}
           /\ \A i, j \in DOMAIN <<a, b, c>> :
                 <<a, b, c>>[i] = <<a, b, c>>[j] => i = j
  BY TupleRules

LEMMA AddedEach ==
    ASSUME NEW a \in Keys, NEW b \in Keys, NEW c \in Keys,
           a # b, b # c, a # c, NEW needs
    PROVE  /\ RulesOf(AllowEach(<<a, b, c>>, needs)) =
                 {Allow(k, needs) : k \in {a, b, c}}
           /\ OnceEach(AllowEach(<<a, b, c>>, needs))
  <1> DEFINE t == <<a, b, c>>
  <1>1. /\ t \in Seq(Keys) /\ RulesOf(t) = {a, b, c}
        /\ \A i, j \in DOMAIN t : t[i] = t[j] => i = j
    BY Triple
  <1> HIDE DEF t
  <1>2. /\ RulesOf(AllowEach(t, needs)) = {Allow(k, needs) : k \in {a, b, c}}
        /\ OnceEach(AllowEach(t, needs))
    BY <1>1, EachAllowed, OnceEachAllowed
  <1>3. QED
    BY <1>2 DEF t

LEMMA AddedRules ==
    ASSUME NEW v \in 2..8
    PROVE  /\ RulesOf(Added(v)) = {ShippedRule(k, v) : k \in NewKeys(v)}
           /\ OnceEach(Added(v))
  <1> DEFINE Right == /\ RulesOf(Added(v)) = {ShippedRule(k, v) : k \in NewKeys(v)}
                      /\ OnceEach(Added(v))
  <1>a. ASSUME NEW a \in Keys, NEW b \in Keys, NEW c \in Keys,
               a # b, b # c, a # c, NEW needs,
               Added(v) = AllowEach(<<a, b, c>>, needs), NewKeys(v) = {a, b, c},
               \A k \in NewKeys(v) : ShippedRule(k, v) = Allow(k, needs)
        PROVE  Right
    <2>1. {ShippedRule(k, v) : k \in NewKeys(v)} =
             {Allow(k, needs) : k \in {a, b, c}}
      BY <1>a
    <2>2. QED
      BY <1>a, <2>1, AddedEach
  <1>b. ASSUME NEW k, NEW needs, Added(v) = <<Allow(k, needs)>>,
               NewKeys(v) = {k}, ShippedRule(k, v) = Allow(k, needs)
        PROVE  Right
    <2>1. {ShippedRule(x, v) : x \in NewKeys(v)} = {Allow(k, needs)}
      BY <1>b
    <2>2. QED
      BY <1>b, <2>1, TupleRules, OnceEachOne
  <1>k. Requests \subseteq Keys
    BY DEF Keys
  <1> SUFFICES Right
    BY DEF Right
  <1> HIDE DEF Right
  <1>n. {"trust"} \cup {} = {"trust"}
    OBVIOUS
  <1>2. CASE v = 2
    <2>1. /\ Added(v) = AllowEach(<<"authorize project", "terminal", "docker">>,
                                 {"trust"})
          /\ NewKeys(v) = {"authorize project", "terminal", "docker"}
      BY <1>2, AddedTable, NewKeysTable
    <2>2. \A k \in NewKeys(v) : ShippedRule(k, v) = Allow(k, {"trust"})
      <3>1. \A k \in NewKeys(v) : k # "credential.ssh"
        BY <2>1
      <3>2. QED
        BY <1>2, <1>n, <3>1 DEF ShippedRule
    <2>3. {"authorize project", "terminal", "docker"} \subseteq Keys
      BY <1>k DEF Requests, DockerKeys
    <2>4. QED
      BY <1>a, <2>1, <2>2, <2>3
  <1>3. CASE v = 3
    <2>1. /\ Added(v) = <<Allow("authorize zauth", {"trust"})>>
          /\ NewKeys(v) = {"authorize zauth"}
      BY <1>3, AddedTable, NewKeysTable
    <2>2. ShippedRule("authorize zauth", v) = Allow("authorize zauth", {"trust"})
      BY <1>3 DEF ShippedRule
    <2>3. QED
      BY <1>b, <2>1, <2>2
  <1>4. CASE v = 4
    <2>1. /\ Added(v) = <<Allow("docker container", {"trust"})>>
          /\ NewKeys(v) = {"docker container"}
      BY <1>4, AddedTable, NewKeysTable
    <2>2. ShippedRule("docker container", v) = Allow("docker container", {"trust"})
      BY <1>4 DEF ShippedRule
    <2>3. QED
      BY <1>b, <2>1, <2>2
  <1>5. CASE v = 5
    <2>1. /\ Added(v) = <<Allow("project.manage", {"trust"})>>
          /\ NewKeys(v) = {"project.manage"}
      BY <1>5, AddedTable, NewKeysTable
    <2>2. ShippedRule("project.manage", v) = Allow("project.manage", {"trust"})
      BY <1>5 DEF ShippedRule
    <2>3. QED
      BY <1>b, <2>1, <2>2
  <1>6. CASE v = 6
    <2>1. /\ Added(v) = AllowEach(<<"ssh.issue", "ssh-ca.enroll", "node.install">>,
                                 {"trust"})
          /\ NewKeys(v) = {"ssh.issue", "ssh-ca.enroll", "node.install"}
      BY <1>6, AddedTable, NewKeysTable
    <2>2. \A k \in NewKeys(v) : ShippedRule(k, v) = Allow(k, {"trust"})
      BY <1>6, <1>n, <2>1 DEF ShippedRule
    <2>3. {"ssh.issue", "ssh-ca.enroll", "node.install"} \subseteq Keys
      BY <1>k DEF Requests, SensitiveOps
    <2>4. QED
      BY <1>a, <2>1, <2>2, <2>3
  <1>7. CASE v = 7
    <2>1. /\ Added(v) = AllowEach(<<"pam", "sudo", "windows">>,
                                 {"trust", "explicit"})
          /\ NewKeys(v) = {"pam", "sudo", "windows"}
      BY <1>7, AddedTable, NewKeysTable
    <2>2. \A k \in NewKeys(v) :
             ShippedRule(k, v) = Allow(k, {"trust", "explicit"})
      BY <1>7, <2>1 DEF ShippedRule, markPresence
    <2>3. {"pam", "sudo", "windows"} \subseteq Keys
      BY <1>k DEF Requests, OSKeys
    <2>4. QED
      BY <1>a, <2>1, <2>2, <2>3
  <1>8. CASE v = 8
    <2>1. /\ Added(v) = <<Allow("portable.session", {"trust", "explicit"})>>
          /\ NewKeys(v) = {"portable.session"}
      BY <1>8, AddedTable, NewKeysTable
    <2>2. ShippedRule("portable.session", v) =
             Allow("portable.session", {"trust", "explicit"})
      BY <1>8 DEF ShippedRule, markPresence
    <2>3. QED
      BY <1>b, <2>1, <2>2
  <1>9. QED
    BY <1>2, <1>3, <1>4, <1>5, <1>6, <1>7, <1>8, Versions

\* The shipped rules have the keys that they are named by.
LEMMA ShippedRuleKey ==
    ASSUME NEW key, NEW v
    PROVE  /\ ShippedRule(key, v).key = key
           /\ ShippedRule(key, v).effect =
                 IF key = "credential.ssh" THEN "deny" ELSE "allow"
  BY DEF ShippedRule, NoSSH, Allow

LEMMA LaterKeys ==
    \A v : Later(v) = {k \in ShippedKeys :
                          \E w \in 2..8 : v < w /\ k \in NewKeys(w)}
  <1>1. ASSUME NEW w \in 2..8, NEW k
        PROVE  (\E i \in DOMAIN Added(w) : Added(w)[i].key = k) <=> k \in NewKeys(w)
    <2>1. RulesOf(Added(w)) = {ShippedRule(x, w) : x \in NewKeys(w)}
      BY AddedRules
    <2>2. (\E i \in DOMAIN Added(w) : Added(w)[i].key = k) <=>
             \E x \in RulesOf(Added(w)) : x.key = k
      BY DEF RulesOf
    <2>3. QED
      BY <2>1, <2>2, ShippedRuleKey
  <1>2. policyVersion = 8
    BY DEF policyVersion
  <1>3. QED
    BY <1>1, <1>2 DEF Later

LEMMA LaterStep ==
    ASSUME NEW v \in 2..8
    PROVE  /\ ShippedKeys \ Later(v) = (ShippedKeys \ Later(v - 1)) \cup NewKeys(v)
           /\ NewKeys(v) \subseteq Later(v - 1)
  <1>1. NewKeys(v) \subseteq ShippedKeys
    BY NewKeysShipped
  <1>2. NewKeys(v) \subseteq Later(v - 1)
    BY <1>1, LaterKeys
  <1>3. NewKeys(v) \cap Later(v) = {}
    BY NewKeysDisjoint, LaterKeys
  <1>4. Later(v) \subseteq Later(v - 1)
    BY LaterKeys
  <1>5. Later(v - 1) \subseteq Later(v) \cup NewKeys(v)
    <2>1. ASSUME NEW k \in Later(v - 1), k \notin NewKeys(v) PROVE k \in Later(v)
      <3>1. PICK w \in 2..8 : v - 1 < w /\ k \in NewKeys(w)
        BY <2>1, LaterKeys
      <3>2. v < w
        BY <2>1, <3>1
      <3>3. k \in ShippedKeys
        BY LaterKeys
      <3>4. QED
        BY <3>1, <3>2, <3>3, LaterKeys
    <2>2. QED
      BY <2>1
  <1>6. QED
    BY <1>1, <1>2, <1>3, <1>4, <1>5

LEMMA NothingLater == ASSUME NEW v \in Nat, v >= 8 PROVE Later(v) = {}
  BY LaterKeys

LEMMA OldKeysFirst == OldKeys \subseteq ShippedKeys /\ \A v : OldKeys \cap Later(v) = {}
  <1>1. OldKeys \subseteq ShippedKeys
    BY DEF OldKeys, ShippedKeys, Requests
  <1>2. QED
    BY <1>1, NewKeysShipped, LaterKeys

-----------------------------------------------------------------------------
(* The shipped policy. *)

LEMMA EightOnce ==
    LET t == <<"credential.owner-proof", "portable.session", "authorize project",
                "authorize zauth", "project.manage", "ssh.issue",
                "ssh-ca.enroll", "node.install">>
    IN  /\ RulesOf(t) = {"credential.owner-proof", "portable.session", "authorize project",
                           "authorize zauth", "project.manage", "ssh.issue",
                           "ssh-ca.enroll", "node.install"}
        /\ \A i, j \in DOMAIN t : t[i] = t[j] => i = j
  <1> DEFINE t == <<"credential.owner-proof", "portable.session", "authorize project",
                "authorize zauth", "project.manage", "ssh.issue",
                "ssh-ca.enroll", "node.install">>
  <1>1. DOMAIN t = 1..8
    OBVIOUS
  <1>2. \A i \in 1..8 : i = 1 \/ i = 2 \/ i = 3 \/ i = 4 \/ i = 5 \/ i = 6 \/ i = 7 \/ i = 8
    OBVIOUS
  <1>3. /\ t[1] = "credential.owner-proof"
        /\ t[2] = "portable.session"
        /\ t[3] = "authorize project"
        /\ t[4] = "authorize zauth"
        /\ t[5] = "project.manage"
        /\ t[6] = "ssh.issue"
        /\ t[7] = "ssh-ca.enroll"
        /\ t[8] = "node.install"
    OBVIOUS
  <1> HIDE DEF t
  <1>0. RulesOf(t) = {"credential.owner-proof", "portable.session", "authorize project",
                           "authorize zauth", "project.manage", "ssh.issue",
                           "ssh-ca.enroll", "node.install"}
    <2> DEFINE Z == {"credential.owner-proof", "portable.session", "authorize project",
                           "authorize zauth", "project.manage", "ssh.issue",
                           "ssh-ca.enroll", "node.install"}
    <2>1. \A x \in RulesOf(t) : \E i \in 1..8 : x = t[i]
      BY <1>1 DEF RulesOf
    <2>2. \A i \in 1..8 : t[i] \in RulesOf(t)
      BY <1>1 DEF RulesOf
    <2>3. \A i \in 1..8 : t[i] \in Z
      BY <1>2, <1>3
    <2>0. 1 \in 1..8 /\ 2 \in 1..8 /\ 3 \in 1..8 /\ 4 \in 1..8 /\ 5 \in 1..8 /\ 6 \in 1..8 /\ 7 \in 1..8 /\ 8 \in 1..8
      OBVIOUS
    <2>4. ASSUME NEW z \in Z PROVE \E i \in 1..8 : z = t[i]
      <3>1. z = t[1] \/ z = t[2] \/ z = t[3] \/ z = t[4] \/ z = t[5] \/ z = t[6] \/ z = t[7] \/ z = t[8]
        BY <1>3, <2>4, Zenon
      <3>2. QED
        BY <2>0, <3>1, Zenon
    <2> HIDE DEF Z
    <2>5. RulesOf(t) = Z
      BY <2>1, <2>2, <2>3, <2>4
    <2>6. QED
      BY <2>5 DEF Z
  <1>4. \A j \in 1..8 : t[1] = t[j] => j = 1
    BY <1>2, <1>3
  <1>5. \A j \in 1..8 : t[2] = t[j] => j = 2
    BY <1>2, <1>3
  <1>6. \A j \in 1..8 : t[3] = t[j] => j = 3
    BY <1>2, <1>3
  <1>7. \A j \in 1..8 : t[4] = t[j] => j = 4
    BY <1>2, <1>3
  <1>8. \A j \in 1..8 : t[5] = t[j] => j = 5
    BY <1>2, <1>3
  <1>9. \A j \in 1..8 : t[6] = t[j] => j = 6
    BY <1>2, <1>3
  <1>10. \A j \in 1..8 : t[7] = t[j] => j = 7
    BY <1>2, <1>3
  <1>11. \A j \in 1..8 : t[8] = t[j] => j = 8
    BY <1>2, <1>3
  <1>12. \A i, j \in DOMAIN t : t[i] = t[j] => i = j
    BY <1>1, <1>2, <1>4, <1>5, <1>6, <1>7, <1>8, <1>9, <1>10, <1>11
  <1>13. QED
    BY <1>0, <1>12 DEF t

LEMMA FiveOnce ==
    LET t == <<"docker", "docker container", "pam",
                "sudo", "windows">>
    IN  /\ RulesOf(t) = {"docker", "docker container", "pam",
                           "sudo", "windows"}
        /\ \A i, j \in DOMAIN t : t[i] = t[j] => i = j
  <1> DEFINE t == <<"docker", "docker container", "pam",
                "sudo", "windows">>
  <1>1. DOMAIN t = 1..5
    OBVIOUS
  <1>2. \A i \in 1..5 : i = 1 \/ i = 2 \/ i = 3 \/ i = 4 \/ i = 5
    OBVIOUS
  <1>3. /\ t[1] = "docker"
        /\ t[2] = "docker container"
        /\ t[3] = "pam"
        /\ t[4] = "sudo"
        /\ t[5] = "windows"
    OBVIOUS
  <1> HIDE DEF t
  <1>0. RulesOf(t) = {"docker", "docker container", "pam",
                           "sudo", "windows"}
    <2> DEFINE Z == {"docker", "docker container", "pam",
                           "sudo", "windows"}
    <2>1. \A x \in RulesOf(t) : \E i \in 1..5 : x = t[i]
      BY <1>1 DEF RulesOf
    <2>2. \A i \in 1..5 : t[i] \in RulesOf(t)
      BY <1>1 DEF RulesOf
    <2>3. \A i \in 1..5 : t[i] \in Z
      BY <1>2, <1>3
    <2>0. 1 \in 1..5 /\ 2 \in 1..5 /\ 3 \in 1..5 /\ 4 \in 1..5 /\ 5 \in 1..5
      OBVIOUS
    <2>4. ASSUME NEW z \in Z PROVE \E i \in 1..5 : z = t[i]
      <3>1. z = t[1] \/ z = t[2] \/ z = t[3] \/ z = t[4] \/ z = t[5]
        BY <1>3, <2>4, Zenon
      <3>2. QED
        BY <2>0, <3>1, Zenon
    <2> HIDE DEF Z
    <2>5. RulesOf(t) = Z
      BY <2>1, <2>2, <2>3, <2>4
    <2>6. QED
      BY <2>5 DEF Z
  <1>4. \A j \in 1..5 : t[1] = t[j] => j = 1
    BY <1>2, <1>3
  <1>5. \A j \in 1..5 : t[2] = t[j] => j = 2
    BY <1>2, <1>3
  <1>6. \A j \in 1..5 : t[3] = t[j] => j = 3
    BY <1>2, <1>3
  <1>7. \A j \in 1..5 : t[4] = t[j] => j = 4
    BY <1>2, <1>3
  <1>8. \A j \in 1..5 : t[5] = t[j] => j = 5
    BY <1>2, <1>3
  <1>9. \A i, j \in DOMAIN t : t[i] = t[j] => i = j
    BY <1>1, <1>2, <1>4, <1>5, <1>6, <1>7, <1>8
  <1>10. QED
    BY <1>0, <1>9 DEF t

LEMMA DefaultRules ==
    /\ RulesOf(defaultPolicy.rules) = {ShippedRule(k, 8) : k \in ShippedKeys}
    /\ OnceEach(defaultPolicy.rules)
    /\ defaultPolicy.default = "deny"
  <1> DEFINE ks == <<"owner.session", "owner.console">>
             es == <<"credential.owner-proof", "portable.session",
                     "authorize project", "authorize zauth",
                     "project.manage", "ssh.issue", "ssh-ca.enroll",
                     "node.install">>
             ds == <<"docker", "docker container", "pam", "sudo", "windows">>
             K == {"owner.session", "owner.console"}
             X == {"credential.owner-proof", "portable.session",
                   "authorize project", "authorize zauth", "project.manage",
                   "ssh.issue", "ssh-ca.enroll", "node.install"}
             Y == {"docker", "docker container", "pam", "sudo", "windows"}
             A == AllowEach(ks, {"trust", "presence"})
             B == AllowEach(es, {"trust", "explicit"})
             C == <<Allow("terminal", {"trust", "presence"})>>
             D == AllowEach(ds, {"trust", "explicit"})
             E == <<NoSSH>>
             S == Seq(Rules)
  <1>1. ks \in Seq(Keys) /\ es \in Seq(Keys) /\ ds \in Seq(Keys)
    BY DEF Keys, Requests, OldKeys, SensitiveOps, OSKeys, DockerKeys
  <1>2. RulesOf(ks) = K /\ RulesOf(es) = X /\ RulesOf(ds) = Y
    <2>1. RulesOf(ks) = K
      BY TupleRules
    <2>2. RulesOf(es) = X
      BY EightOnce, Zenon
    <2>3. RulesOf(ds) = Y
      BY FiveOnce, Zenon
    <2>4. QED
      BY <2>1, <2>2, <2>3
  <1>3. /\ \A i, j \in DOMAIN ks : ks[i] = ks[j] => i = j
        /\ \A i, j \in DOMAIN es : es[i] = es[j] => i = j
        /\ \A i, j \in DOMAIN ds : ds[i] = ds[j] => i = j
    <2>1. \A i, j \in DOMAIN ks : ks[i] = ks[j] => i = j
      OBVIOUS
    <2>2. QED
      BY <2>1, EightOnce, FiveOnce, Zenon
  <1>4. defaultPolicy = [version |-> 8, default |-> "deny",
                         rules |-> A \o B \o C \o D \o E]
    BY DEF defaultPolicy, policyVersion
  <1> HIDE DEF ks, es, ds
  <1>5. A \in S /\ B \in S /\ C \in S /\ D \in S /\ E \in S
    <2>1. A \in S /\ B \in S /\ D \in S
      BY <1>1, AllowEachType
    <2>2. C \in S /\ E \in S
      BY DEF Allow, NoSSH, Rules, Keys, Requests, OldKeys
    <2>3. QED
      BY <2>1, <2>2
  <1>6. /\ RulesOf(A) = {Allow(k, {"trust", "presence"}) : k \in K}
        /\ RulesOf(B) = {Allow(k, {"trust", "explicit"}) : k \in X}
        /\ RulesOf(D) = {Allow(k, {"trust", "explicit"}) : k \in Y}
        /\ RulesOf(C) = {Allow("terminal", {"trust", "presence"})}
        /\ RulesOf(E) = {NoSSH}
    <2>1. /\ RulesOf(A) = {Allow(k, {"trust", "presence"}) : k \in RulesOf(ks)}
          /\ RulesOf(B) = {Allow(k, {"trust", "explicit"}) : k \in RulesOf(es)}
          /\ RulesOf(D) = {Allow(k, {"trust", "explicit"}) : k \in RulesOf(ds)}
      BY <1>1, EachAllowed, Zenon
    <2>2. /\ RulesOf(C) = {Allow("terminal", {"trust", "presence"})}
          /\ RulesOf(E) = {NoSSH}
      BY TupleRules, Zenon
    <2>3. QED
      BY <1>2, <2>1, <2>2, Zenon
  <1>7. OnceEach(A) /\ OnceEach(B) /\ OnceEach(C) /\ OnceEach(D) /\ OnceEach(E)
    BY <1>1, <1>3, OnceEachAllowed, OnceEachOne
  <1>8. \A k, needs : Allow(k, needs).key = k
    BY DEF Allow
  <1>9. NoSSH.key = "credential.ssh"
    BY DEF NoSSH
  <1> HIDE DEF A, B, C, D, E
  <1> DEFINE AB == A \o B
             ABC == AB \o C
             ABCD == ABC \o D
             ABCDE == ABCD \o E
  <1>10. /\ AB \in S /\ RulesOf(AB) = RulesOf(A) \cup RulesOf(B)
         /\ ABC \in S /\ RulesOf(ABC) = RulesOf(AB) \cup RulesOf(C)
         /\ ABCD \in S /\ RulesOf(ABCD) = RulesOf(ABC) \cup RulesOf(D)
         /\ ABCDE \in S /\ RulesOf(ABCDE) = RulesOf(ABCD) \cup RulesOf(E)
    <2>1. AB \in S /\ RulesOf(AB) = RulesOf(A) \cup RulesOf(B)
      BY <1>5, ConcatRules
    <2> HIDE DEF AB
    <2>2. ABC \in S /\ RulesOf(ABC) = RulesOf(AB) \cup RulesOf(C)
      BY <1>5, <2>1, ConcatRules
    <2> HIDE DEF ABC
    <2>3. ABCD \in S /\ RulesOf(ABCD) = RulesOf(ABC) \cup RulesOf(D)
      BY <1>5, <2>2, ConcatRules
    <2> HIDE DEF ABCD
    <2>4. ABCDE \in S /\ RulesOf(ABCDE) = RulesOf(ABCD) \cup RulesOf(E)
      BY <1>5, <2>3, ConcatRules
    <2>5. QED
      BY <2>1, <2>2, <2>3, <2>4
  <1>11. defaultPolicy.rules = ABCDE /\ defaultPolicy.default = "deny"
    BY <1>4
  <1>12. /\ \A x \in RulesOf(A) : x.key \in K
         /\ \A x \in RulesOf(B) : x.key \in X
         /\ \A x \in RulesOf(C) : x.key \in {"terminal"}
         /\ \A x \in RulesOf(D) : x.key \in Y
         /\ \A x \in RulesOf(E) : x.key \in {"credential.ssh"}
    <2> HIDE DEF K, X, Y
    <2>1. /\ \A x \in RulesOf(A) : x.key \in K
          /\ \A x \in RulesOf(B) : x.key \in X
          /\ \A x \in RulesOf(D) : x.key \in Y
      BY <1>6, <1>8
    <2>2. /\ \A x \in RulesOf(C) : x.key \in {"terminal"}
          /\ \A x \in RulesOf(E) : x.key \in {"credential.ssh"}
      BY <1>6, <1>8, <1>9
    <2>3. QED
      BY <2>1, <2>2
  <1>13. /\ K \cap X = {} /\ (K \cup X) \cap {"terminal"} = {}
         /\ (K \cup X \cup {"terminal"}) \cap Y = {}
         /\ (K \cup X \cup {"terminal"} \cup Y) \cap {"credential.ssh"} = {}
    OBVIOUS
  <1> HIDE DEF K, X, Y
  <1>14. OnceEach(ABCDE)
    <2>1. OnceEach(AB)
      BY <1>5, <1>7, <1>12, <1>13, OnceEachConcat
    <2>a. \A x \in RulesOf(AB) : x.key \in K \cup X
      BY <1>10, <1>12
    <2> HIDE DEF AB
    <2>2. OnceEach(ABC)
      BY <1>5, <1>7, <1>10, <1>12, <1>13, <2>1, <2>a, OnceEachConcat
    <2>b. \A x \in RulesOf(ABC) : x.key \in K \cup X \cup {"terminal"}
      BY <1>10, <1>12, <2>a
    <2> HIDE DEF ABC
    <2>3. OnceEach(ABCD)
      BY <1>5, <1>7, <1>10, <1>12, <1>13, <2>2, <2>b, OnceEachConcat
    <2>c. \A x \in RulesOf(ABCD) : x.key \in K \cup X \cup {"terminal"} \cup Y
      BY <1>10, <1>12, <2>b
    <2> HIDE DEF ABCD
    <2>4. QED
      BY <1>5, <1>7, <1>10, <1>12, <1>13, <2>3, <2>c, OnceEachConcat
  <1>15. RulesOf(ABCDE) = {ShippedRule(k, 8) : k \in ShippedKeys}
    <2>1. ShippedKeys = K \cup X \cup {"terminal"} \cup Y \cup {"credential.ssh"}
      BY DEF ShippedKeys, Requests, OldKeys, SensitiveOps, OSKeys, DockerKeys,
             K, X, Y
    <2>2. /\ \A k \in K \cup {"terminal"} :
                ShippedRule(k, 8) = Allow(k, {"trust", "presence"})
          /\ \A k \in X \cup Y :
                ShippedRule(k, 8) = Allow(k, {"trust", "explicit"})
          /\ ShippedRule("credential.ssh", 8) = NoSSH
      <3>1. /\ {"trust"} \cup {"presence"} = {"trust", "presence"}
            /\ {"trust"} \cup {"explicit"} = {"trust", "explicit"}
        OBVIOUS
      <3>2. \A k \in K \cup {"terminal"} : k # "credential.ssh" /\ k \in markPresence
        BY DEF K, markPresence
      <3>3. \A k \in X \cup Y : k # "credential.ssh" /\ k \notin markPresence
        BY DEF X, Y, markPresence
      <3>4. QED
        BY <3>1, <3>2, <3>3 DEF ShippedRule
    <2>3. RulesOf(ABCDE) = RulesOf(A) \cup RulesOf(B) \cup RulesOf(C)
                           \cup RulesOf(D) \cup RulesOf(E)
      BY <1>10
    <2>4. QED
      BY <1>6, <2>1, <2>2, <2>3
  <1>16. QED
    BY <1>11, <1>14, <1>15

-----------------------------------------------------------------------------
(* Migrations. *)

LEMMA ShippedNames ==
    /\ \A x : IsShipped(x) <=> \E k \in ShippedKeys :
          x.key = k /\ x.effect = IF k = "credential.ssh" THEN "deny" ELSE "allow"
    /\ \A k \in ShippedKeys : \A v : IsShipped(ShippedRule(k, v))
  <1>1. Names(defaultPolicy.rules) =
           {<<x.key, x.effect>> : x \in RulesOf(defaultPolicy.rules)}
    BY DEF Names, RulesOf
  <1>2. Names(defaultPolicy.rules) =
           {<<k, IF k = "credential.ssh" THEN "deny" ELSE "allow">> :
                k \in ShippedKeys}
    BY <1>1, DefaultRules, ShippedRuleKey
  <1>3. \A x : IsShipped(x) <=> \E k \in ShippedKeys :
          x.key = k /\ x.effect = IF k = "credential.ssh" THEN "deny" ELSE "allow"
    BY <1>2 DEF IsShipped
  <1>4. QED
    BY <1>3, ShippedRuleKey

LEMMA ShippedAre ==
    \A p : ShippedIn(p) = {x \in RulesOf(p.rules) : IsShipped(x)}
  BY DEF ShippedIn, RulesOf

\* What version 7 asks of the shipped rules in an older file is what it ships.
LEMMA MarkShipped ==
    ASSUME NEW k \in ShippedKeys \ Later(6)
    PROVE  Mark(ShippedRule(k, 6)) = ShippedRule(k, 7)
  <1>1. k \notin NewKeys(7) /\ k \notin NewKeys(8)
    BY LaterKeys
  <1>2. CASE k = "credential.ssh"
    <2>1. ShippedRule(k, 6) = NoSSH /\ ShippedRule(k, 7) = NoSSH
      BY <1>2 DEF ShippedRule
    <2>2. "credential.ssh" \notin markExplicit /\ "credential.ssh" \notin markPresence
      BY DEF markExplicit, markPresence, SensitiveOps, DockerKeys
    <2>3. {"trust"} \cup {} \cup {} = {"trust"}
      OBVIOUS
    <2>4. QED
      BY <2>1, <2>2, <2>3 DEF Mark, NoSSH
  <1>3. CASE k # "credential.ssh" /\ k \in markPresence
    <2>1. k \notin markExplicit
      BY <1>3 DEF markExplicit, markPresence, SensitiveOps, DockerKeys
    <2>2. ShippedRule(k, 6) = Allow(k, {"trust"} \cup {})
      BY <1>3 DEF ShippedRule
    <2>3. ShippedRule(k, 7) = Allow(k, {"trust"} \cup {"presence"})
      BY <1>3 DEF ShippedRule
    <2>4. ({"trust"} \cup {}) \cup {} \cup {"presence"} = {"trust"} \cup {"presence"}
      OBVIOUS
    <2>5. QED
      BY <1>3, <2>1, <2>2, <2>3, <2>4 DEF Mark, Allow
  <1>4. CASE k # "credential.ssh" /\ k \notin markPresence
    <2>1. k \in markExplicit
      <3>1. k \notin {"pam", "sudo", "windows"} /\ k # "portable.session"
        BY <1>1, NewKeysTable
      <3>2. k \notin {"owner.session", "owner.console", "terminal"}
        BY <1>4 DEF markPresence
      <3>3. QED
        BY <1>4, <3>1, <3>2
        DEF markExplicit, ShippedKeys, Requests, OldKeys, OSKeys
    <2>2. ShippedRule(k, 6) = Allow(k, {"trust"} \cup {})
      BY <1>4 DEF ShippedRule
    <2>3. ShippedRule(k, 7) = Allow(k, {"trust"} \cup {"explicit"})
      BY <1>4 DEF ShippedRule
    <2>4. ({"trust"} \cup {}) \cup {"explicit"} \cup {} = {"trust"} \cup {"explicit"}
      OBVIOUS
    <2>5. QED
      BY <1>4, <2>1, <2>2, <2>3, <2>4 DEF Mark, Allow
  <1>5. QED
    BY <1>2, <1>3, <1>4

LEMMA MarkedRules ==
    ASSUME NEW rules \in Seq(Rules)
    PROVE  RulesOf(Marked(rules)) = {Mark(x) : x \in RulesOf(rules)}
  BY DEF Marked, RulesOf

LEMMA OnceEachMarked ==
    ASSUME NEW rules \in Seq(Rules), OnceEach(rules)
    PROVE  OnceEach(Marked(rules))
  <1>1. /\ DOMAIN Marked(rules) = DOMAIN rules
        /\ \A i \in DOMAIN rules :
              /\ Marked(rules)[i].key = rules[i].key
              /\ Marked(rules)[i].effect = rules[i].effect
    BY MarkedType DEF Marked
  <1>2. QED
    BY <1>1 DEF OnceEach

\* The rules of an older file, once version v has marked them.
LEMMA OldRules ==
    ASSUME NEW p \in Policies, NEW v \in 2..8, p.version = v - 1, AsLeft(p)
    PROVE  LET old == IF v = 7 THEN Marked(p.rules) ELSE p.rules
           IN  /\ old \in Seq(Rules)
               /\ OnceEach(old)
               /\ {x \in RulesOf(old) : IsShipped(x)} =
                     {ShippedRule(k, v) : k \in ShippedKeys \ Later(v - 1)}
  <1>1. p.rules \in Seq(Rules) /\ p.version > 0
    BY DEF Policies
  <1>2. OnceEach(p.rules) /\ ShippedIn(p) = ShippedBy(v - 1)
    BY <1>1 DEF AsLeft
  <1> DEFINE Kept == ShippedKeys \ Later(v - 1)
  <1>3. {x \in RulesOf(p.rules) : IsShipped(x)} = {ShippedRule(k, v - 1) : k \in Kept}
    BY <1>2, ShippedAre DEF ShippedBy
  <1>4. CASE v = 7
    <2>1. Marked(p.rules) \in Seq(Rules) /\ OnceEach(Marked(p.rules))
      BY <1>1, <1>2, MarkedType, OnceEachMarked
    <2>2. RulesOf(Marked(p.rules)) = {Mark(x) : x \in RulesOf(p.rules)}
      BY <1>1, MarkedRules
    <2>3. \A x : IsShipped(Mark(x)) <=> IsShipped(x)
      BY DEF Mark, IsShipped
    <2>4. {x \in RulesOf(Marked(p.rules)) : IsShipped(x)} =
             {Mark(x) : x \in {y \in RulesOf(p.rules) : IsShipped(y)}}
      BY <2>2, <2>3
    <2>5. \A k \in Kept : Mark(ShippedRule(k, 6)) = ShippedRule(k, 7)
      BY <1>4, MarkShipped
    <2> HIDE DEF Kept
    <2>6. v - 1 = 6
      BY <1>4
    <2>7. {x \in RulesOf(Marked(p.rules)) : IsShipped(x)} =
             {ShippedRule(k, 7) : k \in Kept}
      BY <1>3, <2>4, <2>5, <2>6
    <2>8. QED
      BY <1>4, <2>1, <2>7 DEF Kept
  <1>5. CASE v # 7
    <2>1. \A k : ShippedRule(k, v - 1) = ShippedRule(k, v)
      <3>1. v - 1 < 7 <=> v < 7
        BY <1>5
      <3>2. QED
        BY <3>1 DEF ShippedRule
    <2>2. {x \in RulesOf(p.rules) : IsShipped(x)} = {ShippedRule(k, v) : k \in Kept}
      BY <1>3, <2>1
    <2>3. QED
      BY <1>1, <1>2, <1>5, <2>2
  <1>6. QED
    BY <1>4, <1>5

LEMMA MigrateToLeft ==
    ASSUME NEW p \in Policies, NEW v \in 2..8, p.version = v - 1, AsLeft(p)
    PROVE  AsLeft(MigrateTo(p, v))
  <1> DEFINE old == IF v = 7 THEN Marked(p.rules) ELSE p.rules
             new == Added(v)
             q == MigrateTo(p, v)
  <1>1. q = [p EXCEPT !.version = v, !.rules = old \o new]
    BY DEF MigrateTo
  <1>2. /\ old \in Seq(Rules) /\ OnceEach(old)
        /\ {x \in RulesOf(old) : IsShipped(x)} =
              {ShippedRule(k, v) : k \in ShippedKeys \ Later(v - 1)}
    BY OldRules
  <1>3. new \in Seq(Rules) /\ OnceEach(new)
        /\ RulesOf(new) = {ShippedRule(k, v) : k \in NewKeys(v)}
    BY AddedType, AddedRules
  <1>4. /\ q.version = v /\ q.rules = old \o new /\ q.default = "deny"
    <2>1. p.default = "deny"
      BY DEF AsLeft
    <2>2. QED
      BY <1>1, <2>1 DEF Policies
  <1> HIDE DEF old, new, q
  <1>5. RulesOf(q.rules) = RulesOf(old) \cup RulesOf(new)
    BY <1>2, <1>3, <1>4, ConcatRules
  <1>6. \A x \in RulesOf(new) : IsShipped(x) /\ x.key \in NewKeys(v)
    BY <1>3, ShippedNames, ShippedRuleKey, NewKeysShipped
  <1>7. OnceEach(q.rules)
    <2>1. ASSUME NEW x \in RulesOf(old), NEW y \in RulesOf(new),
                 x.key = y.key, x.effect = y.effect
          PROVE  FALSE
      <3>1. IsShipped(x)
        BY <1>6, <2>1 DEF IsShipped
      <3>2. PICK k \in ShippedKeys \ Later(v - 1) : x = ShippedRule(k, v)
        BY <1>2, <3>1
      <3>3. x.key \notin Later(v - 1)
        BY <3>2, ShippedRuleKey
      <3>4. QED
        BY <1>6, <2>1, <3>3, LaterStep
    <2>2. QED
      BY <1>2, <1>3, <1>4, <2>1, OnceEachConcat
  <1>8. ShippedIn(q) = ShippedBy(v)
    <2>1. ShippedIn(q) = {x \in RulesOf(old) : IsShipped(x)} \cup RulesOf(new)
      BY <1>5, <1>6, ShippedAre
    <2>2. ShippedIn(q) = {ShippedRule(k, v) :
                             k \in (ShippedKeys \ Later(v - 1)) \cup NewKeys(v)}
      BY <1>2, <1>3, <2>1
    <2>3. QED
      BY <2>2, LaterStep DEF ShippedBy
  <1>9. AsLeft(q)
    BY <1>4, <1>7, <1>8 DEF AsLeft
  <1>10. QED
    BY <1>9 DEF q

LEMMA UpToLeft ==
    ASSUME NEW p \in Policies, NEW v \in 2..8, p.version >= v - 1, AsLeft(p)
    PROVE  /\ UpTo(p, v) \in Policies
           /\ UpTo(p, v).version >= v
           /\ AsLeft(UpTo(p, v))
  <1>1. p.version \in Nat
    BY DEF Policies
  <1>2. CASE p.version < v
    <2>1. p.version = v - 1
      BY <1>1, <1>2
    <2>2. UpTo(p, v) = MigrateTo(p, v)
      BY <1>2 DEF UpTo
    <2>3. QED
      BY <2>1, <2>2, MigrateToLeft, UpToExtends
  <1>3. CASE ~(p.version < v)
    BY <1>1, <1>3, UpToExtends DEF UpTo
  <1>4. QED
    BY <1>2, <1>3

\* A file that any version of the program left, with whatever its owner added, is
\* migrated to one that the present version could have left: each of its rules
\* once, and with what it requires of them (migratePolicy).
THEOREM MigrationCatchesUp ==
    ASSUME NEW p \in Policies, p.version > 0, AsLeft(p)
    PROVE  AsLeft(migratePolicy(p))
  <1> DEFINE p2 == UpTo(p, 2)
             p3 == UpTo(p2, 3)
             p4 == UpTo(p3, 4)
             p5 == UpTo(p4, 5)
             p6 == UpTo(p5, 6)
             p7 == UpTo(p6, 7)
             p8 == UpTo(p7, 8)
  <1>8. migratePolicy(p) = p8
    BY DEF migratePolicy
  <1> HIDE DEF p8
  <1>1. p.version >= 1
    BY DEF Policies
  <1>2. p2 \in Policies /\ p2.version >= 2 /\ AsLeft(p2)
    BY <1>1, UpToLeft
  <1> HIDE DEF p2
  <1>3. p3 \in Policies /\ p3.version >= 3 /\ AsLeft(p3)
    BY <1>2, UpToLeft
  <1> HIDE DEF p3
  <1>4. p4 \in Policies /\ p4.version >= 4 /\ AsLeft(p4)
    BY <1>3, UpToLeft
  <1> HIDE DEF p4
  <1>5. p5 \in Policies /\ p5.version >= 5 /\ AsLeft(p5)
    BY <1>4, UpToLeft
  <1> HIDE DEF p5
  <1>6. p6 \in Policies /\ p6.version >= 6 /\ AsLeft(p6)
    BY <1>5, UpToLeft
  <1> HIDE DEF p6
  <1>7. p7 \in Policies /\ p7.version >= 7 /\ AsLeft(p7)
    BY <1>6, UpToLeft
  <1> HIDE DEF p7
  <1>9. AsLeft(p8)
    BY <1>7, UpToLeft DEF p8
  <1>10. QED
    BY <1>8, <1>9

-----------------------------------------------------------------------------
(* Decisions. *)

LEMMA FreshRules ==
    ASSUME NEW p \in Policies, p.version >= policyVersion, AsLeft(p)
    PROVE  /\ p.default = "deny"
           /\ ShippedIn(p) = {ShippedRule(k, 8) : k \in ShippedKeys}
  <1>1. p.version \in Nat /\ p.version >= 8
    BY DEF Policies, policyVersion
  <1>2. p.default = "deny" /\ ShippedIn(p) = ShippedBy(p.version)
    BY <1>1 DEF AsLeft
  <1>3. \A k : ShippedRule(k, p.version) = ShippedRule(k, 8)
    <2>1. (p.version < 7) = FALSE /\ (8 < 7) = FALSE
      BY <1>1
    <2>2. QED
      BY <2>1 DEF ShippedRule
  <1>4. QED
    BY <1>1, <1>2, <1>3, NothingLater DEF ShippedBy

LEMMA DefaultLeft == AsLeft(defaultPolicy)
  <1>1. defaultPolicy.version = 8
    BY DefaultType DEF policyVersion
  <1>2. ShippedIn(defaultPolicy) = {ShippedRule(k, 8) : k \in ShippedKeys}
    BY DefaultRules, ShippedAre, ShippedNames
  <1>3. QED
    BY <1>1, <1>2, DefaultRules, NothingLater DEF AsLeft, ShippedBy

\* At most one shipped rule matches a request.
LEMMA OneShippedMatch ==
    ASSUME NEW request \in Requests, NEW k \in ShippedKeys, NEW m \in ShippedKeys,
           Matches(k, request), Matches(m, request)
    PROVE  k = m
  <1>1. "*" \notin ShippedKeys /\ "credential.ssh staging" \notin ShippedKeys
    BY DEF ShippedKeys, Requests, OldKeys, SensitiveOps, OSKeys, DockerKeys
  <1>2. QED
    BY <1>1 DEF Matches

LEMMA DecidesTheSame ==
    ASSUME NEW p \in Policies, NEW q \in Policies, NEW request \in Requests,
           p.version >= policyVersion, AsLeft(p), ~OwnerMatches(p, request),
           q.version >= policyVersion, AsLeft(q), ~OwnerMatches(q, request),
           NEW trusted, NEW present
    PROVE  evaluatePolicy(p, request, trusted, present) =
           evaluatePolicy(q, request, trusted, present)
  <1> DEFINE Fresh == {ShippedRule(k, 8) : k \in ShippedKeys}
             MP == Matching(p, request)
             MQ == Matching(q, request)
  <1>1. /\ p.default = "deny" /\ ShippedIn(p) = Fresh
        /\ q.default = "deny" /\ ShippedIn(q) = Fresh
    BY FreshRules
  <1>2. /\ \A i \in MP : p.rules[i] \in Fresh /\ Matches(p.rules[i].key, request)
        /\ \A i \in MQ : q.rules[i] \in Fresh /\ Matches(q.rules[i].key, request)
    BY <1>1 DEF OwnerMatches, ShippedIn, Matching
  <1>3. \A x, y \in Fresh :
           Matches(x.key, request) /\ Matches(y.key, request) => x = y
    BY OneShippedMatch, ShippedRuleKey
  <1>4. /\ \A x \in Fresh : Matches(x.key, request) => MP # {}
        /\ \A x \in Fresh : Matches(x.key, request) => MQ # {}
    BY <1>1 DEF ShippedIn, Matching
  <1> HIDE DEF Fresh
  <1>5. CASE MP = {}
    <2>1. MQ = {}
      BY <1>2, <1>4, <1>5
    <2>2. QED
      BY <1>1, <1>5, <2>1 DEF evaluatePolicy
  <1>6. CASE MP # {}
    <2>1. MQ # {}
      BY <1>2, <1>4, <1>6
    <2>2. FirstMatch(p, request) \in MP /\ FirstMatch(q, request) \in MQ
      BY <1>6, <2>1, FirstMatchIsFirst
    <2>3. p.rules[FirstMatch(p, request)] = q.rules[FirstMatch(q, request)]
      BY <1>2, <1>3, <2>2
    <2>4. QED
      BY <1>6, <2>1, <2>3 DEF evaluatePolicy
  <1>7. QED
    BY <1>5, <1>6

\* What the owner adds leaves the shipped rules as they are.
LEMMA EditLeft ==
    ASSUME NEW f \in Policies, NEW rule \in Rules, AsLeft(f), ~IsShipped(rule),
           <<rule.key, rule.effect>> \notin Names(f.rules)
    PROVE  /\ AsLeft([f EXCEPT !.rules = <<rule>> \o @])
           /\ AsLeft([f EXCEPT !.rules = Append(@, rule)])
  <1>1. f.rules \in Seq(Rules) /\ <<rule>> \in Seq(Rules)
    BY DEF Policies
  <1>2. Append(f.rules, rule) = f.rules \o <<rule>>
    BY <1>1
  <1>3. RulesOf(<<rule>>) = {rule} /\ OnceEach(<<rule>>)
    BY TupleRules, OnceEachOne
  <1>4. \A x \in RulesOf(f.rules) : x.key # rule.key \/ x.effect # rule.effect
    BY DEF Names, RulesOf
  <1>5. OnceEach(f.rules)
    BY DEF AsLeft
  <1>6. /\ OnceEach(<<rule>> \o f.rules)
        /\ OnceEach(f.rules \o <<rule>>)
    BY <1>1, <1>3, <1>4, <1>5, OnceEachConcat
  <1>7. /\ RulesOf(<<rule>> \o f.rules) = RulesOf(f.rules) \cup {rule}
        /\ RulesOf(f.rules \o <<rule>>) = RulesOf(f.rules) \cup {rule}
    <2>1. RulesOf(<<rule>>) = {rule}
      BY <1>3
    <2>2. /\ RulesOf(<<rule>> \o f.rules) = RulesOf(<<rule>>) \cup RulesOf(f.rules)
          /\ RulesOf(f.rules \o <<rule>>) = RulesOf(f.rules) \cup RulesOf(<<rule>>)
      BY <1>1, ConcatRules
    <2>3. RulesOf(<<rule>>) \cup RulesOf(f.rules) = RulesOf(f.rules) \cup RulesOf(<<rule>>)
      OBVIOUS
    <2>4. QED
      BY <2>1, <2>2, <2>3
  <1>8. ASSUME NEW s, OnceEach(s), RulesOf(s) = RulesOf(f.rules) \cup {rule}
        PROVE  AsLeft([f EXCEPT !.rules = s])
    <2> DEFINE g == [f EXCEPT !.rules = s]
    <2>1. g.version = f.version /\ g.default = f.default /\ g.rules = s
      BY DEF Policies
    <2> HIDE DEF g
    <2>2. ShippedIn(g) = ShippedIn(f)
      BY <1>8, <2>1, ShippedAre
    <2>3. AsLeft(g)
      BY <1>8, <2>1, <2>2 DEF AsLeft
    <2>4. QED
      BY <2>3 DEF g
  <1>9. QED
    BY <1>2, <1>6, <1>7, <1>8

-----------------------------------------------------------------------------
(* The processes. *)

\* Why both properties are inductive: whatever has content in the file, and
\* whatever a run holds, is something that a version of the program left.
LeftInv ==
    /\ file \notin NoPolicy => AsLeft(file)
    /\ \A r \in Runs : pc[r] # "idle" => AsLeft(cfg[r])

LEMMA LeftInit == ASSUME FilesAsLeft PROVE Init => LeftInv
  BY DEF Init, FilesAsLeft, LeftInv

LEMMA LeftNext ==
    ASSUME FilesAsLeft
    PROVE  IInv /\ LeftInv /\ [Next]_vars => LeftInv'
  <1> SUFFICES ASSUME IInv, LeftInv, [Next]_vars PROVE LeftInv'
    OBVIOUS
  <1>a. file \in Policies \cup NoPolicy /\ TypeOK
    BY DEF IInv, TypeOK
  <1>1. ASSUME NEW r \in Runs, Read(r) PROVE LeftInv'
    <2>1. PICK new : new = IF Parses(file) THEN migratePolicy(file)
                           ELSE defaultPolicy
      OBVIOUS
    <2>2. AsLeft(new)
      <3>1. CASE Parses(file)
        <4>1. file \in Policies /\ file.version > 0 /\ AsLeft(file)
          BY <1>a, <3>1, MigratedType DEF Parses, LeftInv
        <4>2. QED
          BY <2>1, <3>1, <4>1, MigrationCatchesUp
      <3>2. CASE ~Parses(file)
        BY <2>1, <3>2, DefaultLeft
      <3>3. QED
        BY <3>1, <3>2
    <2>3. cfg' = [cfg EXCEPT ![r] = new] /\ file' = file
      BY <1>1, <2>1 DEF Read
    <2>4. \A x \in Runs : x # r => pc'[x] = pc[x] /\ cfg'[x] = cfg[x]
      BY <1>1, <1>a DEF Read, TypeOK
    <2>5. cfg'[r] = new
      BY <1>a, <2>3 DEF TypeOK
    <2>6. QED
      BY <2>2, <2>3, <2>4, <2>5 DEF LeftInv
  <1>2. ASSUME NEW r \in Runs, Truncate(r) \/ Fill(r) \/ Killed(r) PROVE LeftInv'
    <2>1. /\ cfg' = cfg /\ pc[r] \in {"write", "fill"}
          /\ file' \in {file, Empty, Torn, cfg[r]}
      BY <1>2 DEF Truncate, Fill, Killed
    <2>2. \A x \in Runs : pc'[x] # "idle" => pc[x] # "idle"
      BY <1>2, <1>a DEF Truncate, Fill, Killed, TypeOK
    <2>3. QED
      BY <2>1, <2>2 DEF LeftInv, NoPolicy
  <1>3. ASSUME NEW r \in Runs, WriteFails(r) PROVE LeftInv'
    <2>1. file' \in {file, Torn} /\ cfg' = [cfg EXCEPT ![r] = defaultPolicy]
      BY <1>3 DEF WriteFails
    <2>2. \A x \in Runs : x # r => pc'[x] = pc[x] /\ cfg'[x] = cfg[x]
      BY <1>3, <1>a DEF WriteFails, TypeOK
    <2>3. cfg'[r] = defaultPolicy
      BY <1>a, <2>1 DEF TypeOK
    <2>4. QED
      BY <2>1, <2>2, <2>3, DefaultLeft DEF LeftInv, NoPolicy
  <1>4. ASSUME NEW rule \in UserRules, Edit(rule) PROVE LeftInv'
    <2>1. /\ file \in Policies /\ rule \in Rules /\ AsLeft(file)
          /\ <<rule.key, rule.effect>> \notin Names(file.rules)
          /\ ~IsShipped(rule)
      BY <1>4, <1>a, PolicyAssumption DEF Edit, LeftInv, FilesAsLeft
    <2>2. AsLeft(file')
      BY <1>4, <2>1, EditLeft DEF Edit
    <2>3. pc' = pc /\ cfg' = cfg
      BY <1>4 DEF Edit
    <2>4. QED
      BY <2>2, <2>3 DEF LeftInv
  <1>5. CASE UNCHANGED vars
    BY <1>5 DEF vars, LeftInv
  <1>6. QED
    BY <1>1, <1>2, <1>3, <1>4, <1>5 DEF Next, EnsurePolicy

\* NoRuleTwice holds of every behaviour, for any number of processes and any rules
\* of its owner's own: two migrations of one file never add up.
THEOREM RulesStayApart == ASSUME FilesAsLeft PROVE Spec => []NoRuleTwice
  <1>1. LeftInv => NoRuleTwice
    BY DEF LeftInv, NoRuleTwice, AsLeft
  <1>2. QED
    BY <1>1, IInvInit, IInvNext, LeftInit, LeftNext, PTL DEF Spec

\* DecidesAsFresh holds of every behaviour, from whatever version the file comes
\* and wherever its owner put rules: on the requests that these do not match, a
\* run that returns decides as the shipped policy does.
THEOREM MigratedDecideAsFresh == ASSUME FilesAsLeft PROVE Spec => []DecidesAsFresh
  <1>1. IInv /\ LeftInv => DecidesAsFresh
    <2> SUFFICES ASSUME IInv, LeftInv, NEW r \in Returned, NEW request \in Requests,
                        ~OwnerMatches(cfg[r], request),
                        NEW trusted \in BOOLEAN, NEW present \in BOOLEAN
                 PROVE  evaluatePolicy(cfg[r], request, trusted, present) =
                        evaluatePolicy(defaultPolicy, request, trusted, present)
      BY DEF DecidesAsFresh
    <2>1. /\ cfg[r] \in Policies /\ cfg[r].version >= policyVersion
          /\ AsLeft(cfg[r])
      BY DEF Returned, IInv, RunOK, LeftInv
    <2>2. /\ defaultPolicy \in Policies /\ defaultPolicy.version >= policyVersion
          /\ AsLeft(defaultPolicy)
      BY DefaultType, DefaultLeft DEF policyVersion
    <2>3. ~OwnerMatches(defaultPolicy, request)
      BY DEF OwnerMatches, IsShipped, Names, Matching
    <2>4. QED
      BY <2>1, <2>2, <2>3, DecidesTheSame
  <1>2. QED
    BY <1>1, IInvInit, IInvNext, LeftInit, LeftNext, PTL DEF Spec
=============================================================================
