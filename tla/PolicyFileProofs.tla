--------------------------- MODULE PolicyFileProofs ---------------------------
(***************************************************************************)
(* TLAPS proofs about PolicyRules and PolicyFile, for any policy an owner  *)
(* may write and any number of processes.                                  *)
(***************************************************************************)
EXTENDS PolicyFile, WellFoundedInduction, TLAPS

(* What a migration does to the rules of any policy. *)

\* q still has every rule of p, in its place, with no fewer requirements.
Extending(q, p) ==
    /\ Len(p.rules) <= Len(q.rules)
    /\ \A i \in DOMAIN p.rules :
          /\ q.rules[i].key = p.rules[i].key
          /\ q.rules[i].effect = p.rules[i].effect
          /\ p.rules[i].needs \subseteq q.rules[i].needs

LEMMA AllowEachType ==
    ASSUME NEW keys \in Seq(Keys), NEW needs \in SUBSET {"trust", "presence", "explicit"}
    PROVE  AllowEach(keys, needs) \in Seq(Rules)
  <1>1. DOMAIN keys = 1..Len(keys) /\ Len(keys) \in Nat
    OBVIOUS
  <1>2. \A i \in 1..Len(keys) : Allow(keys[i], needs) \in Rules
    BY DEF Allow, Rules
  <1>3. QED
    BY <1>1, <1>2 DEF AllowEach

LEMMA AddedType == ASSUME NEW v \in 2..8 PROVE Added(v) \in Seq(Rules)
  <1> USE DEF Keys, Requests, OldKeys, SensitiveOps, OSKeys, DockerKeys
  <1>1. CASE v = 2
    <2>1. <<"authorize project", "terminal", "docker">> \in Seq(Keys)
      OBVIOUS
    <2>2. Added(v) = AllowEach(<<"authorize project", "terminal", "docker">>,
                               {"trust"})
      BY <1>1 DEF Added
    <2>3. QED
      BY <2>1, <2>2, AllowEachType
  <1>2. CASE v = 3
    BY <1>2 DEF Added, Allow, Rules
  <1>3. CASE v = 4
    BY <1>3 DEF Added, Allow, Rules
  <1>4. CASE v = 5
    BY <1>4 DEF Added, Allow, Rules
  <1>5. CASE v = 6
    <2>1. <<"ssh.issue", "ssh-ca.enroll", "node.install">> \in Seq(Keys)
      OBVIOUS
    <2>2. Added(v) = AllowEach(<<"ssh.issue", "ssh-ca.enroll", "node.install">>,
                               {"trust"})
      BY <1>5 DEF Added
    <2>3. QED
      BY <2>1, <2>2, AllowEachType
  <1>6. CASE v = 7
    <2>1. <<"pam", "sudo", "windows">> \in Seq(Keys)
      OBVIOUS
    <2>2. Added(v) = AllowEach(<<"pam", "sudo", "windows">>,
                               {"trust", "explicit"})
      BY <1>6 DEF Added
    <2>3. QED
      BY <2>1, <2>2, AllowEachType
  <1>7. CASE v = 8
    BY <1>7 DEF Added, Allow, Rules
  <1>8. QED
    BY <1>1, <1>2, <1>3, <1>4, <1>5, <1>6, <1>7

LEMMA MarkType ==
    ASSUME NEW rule \in Rules
    PROVE  /\ Mark(rule) \in Rules
           /\ Mark(rule).key = rule.key
           /\ Mark(rule).effect = rule.effect
           /\ rule.needs \subseteq Mark(rule).needs
  BY DEF Mark, Rules

LEMMA MarkedType ==
    ASSUME NEW rules \in Seq(Rules)
    PROVE  /\ Marked(rules) \in Seq(Rules)
           /\ Len(Marked(rules)) = Len(rules)
           /\ \A i \in DOMAIN rules :
                 /\ Marked(rules)[i].key = rules[i].key
                 /\ Marked(rules)[i].effect = rules[i].effect
                 /\ rules[i].needs \subseteq Marked(rules)[i].needs
  <1>1. DOMAIN rules = 1..Len(rules) /\ Len(rules) \in Nat
    OBVIOUS
  <1>2. \A i \in 1..Len(rules) : rules[i] \in Rules
    BY <1>1
  <1>3. Marked(rules) = [i \in 1..Len(rules) |-> Mark(rules[i])]
    BY <1>1 DEF Marked
  <1>4. QED
    BY <1>1, <1>2, <1>3, MarkType

LEMMA ExtendingTrans ==
    ASSUME NEW p \in Policies, NEW q \in Policies, NEW s \in Policies,
           Extending(q, p), Extending(s, q)
    PROVE  Extending(s, p)
  <1>1. /\ p.rules \in Seq(Rules) /\ q.rules \in Seq(Rules)
        /\ s.rules \in Seq(Rules)
    BY DEF Policies
  <1>2. DOMAIN p.rules \subseteq DOMAIN q.rules
    BY <1>1 DEF Extending
  <1>3. Len(p.rules) <= Len(s.rules)
    BY <1>1 DEF Extending
  <1>4. QED
    BY <1>2, <1>3 DEF Extending

LEMMA MigrateToExtends ==
    ASSUME NEW p \in Policies, NEW v \in 2..8
    PROVE  /\ MigrateTo(p, v) \in Policies
           /\ MigrateTo(p, v).version = v
           /\ Extending(MigrateTo(p, v), p)
  <1> DEFINE old == IF v = 7 THEN Marked(p.rules) ELSE p.rules
             new == Added(v)
  <1>1. p.rules \in Seq(Rules)
    BY DEF Policies
  <1>2. /\ old \in Seq(Rules) /\ Len(old) = Len(p.rules)
        /\ \A i \in DOMAIN p.rules :
              /\ old[i].key = p.rules[i].key
              /\ old[i].effect = p.rules[i].effect
              /\ p.rules[i].needs \subseteq old[i].needs
    BY <1>1, MarkedType
  <1>3. new \in Seq(Rules)
    BY AddedType
  <1>4. MigrateTo(p, v) = [p EXCEPT !.version = v, !.rules = old \o new]
    BY DEF MigrateTo
  <1> HIDE DEF old, new
  <1>5. /\ old \o new \in Seq(Rules)
        /\ Len(old) <= Len(old \o new)
        /\ \A i \in DOMAIN old : (old \o new)[i] = old[i]
    BY <1>2, <1>3
  <1>6. DOMAIN p.rules = DOMAIN old
    BY <1>1, <1>2
  <1>7. /\ MigrateTo(p, v) \in Policies
        /\ MigrateTo(p, v).version = v
        /\ MigrateTo(p, v).rules = old \o new
    <2>1. MigrateTo(p, v) = [version |-> v, default |-> p.default,
                             rules |-> old \o new]
      BY <1>4 DEF Policies
    <2>2. p.default \in {"allow", "deny"}
      BY DEF Policies
    <2>3. QED
      BY <1>5, <2>1, <2>2 DEF Policies
  <1>8. QED
    BY <1>2, <1>5, <1>6, <1>7 DEF Extending

LEMMA UpToExtends ==
    ASSUME NEW p \in Policies, NEW v \in 2..8
    PROVE  /\ UpTo(p, v) \in Policies
           /\ UpTo(p, v).version >= v
           /\ Extending(UpTo(p, v), p)
  <1>1. CASE p.version < v
    <2>1. UpTo(p, v) = MigrateTo(p, v)
      BY <1>1 DEF UpTo
    <2>2. QED
      BY <2>1, MigrateToExtends
  <1>2. CASE ~(p.version < v)
    <2>1. p.version \in Nat /\ p.rules \in Seq(Rules)
      BY DEF Policies
    <2>2. Extending(p, p)
      BY <2>1 DEF Extending
    <2>3. QED
      BY <1>2, <2>1, <2>2 DEF UpTo
  <1>3. QED
    BY <1>1, <1>2

\* A migration keeps every rule of the file, whoever wrote it, in its place, and
\* only adds to what it requires; it ends at the program's version or a later
\* one (migratePolicy).
THEOREM MigrationKeepsRules ==
    ASSUME NEW p \in Policies
    PROVE  /\ migratePolicy(p) \in Policies
           /\ migratePolicy(p).version >= policyVersion
           /\ Extending(migratePolicy(p), p)
  <1> DEFINE p2 == UpTo(p, 2)
             p3 == UpTo(p2, 3)
             p4 == UpTo(p3, 4)
             p5 == UpTo(p4, 5)
             p6 == UpTo(p5, 6)
             p7 == UpTo(p6, 7)
             p8 == UpTo(p7, 8)
  <1>8. migratePolicy(p) = p8
    BY DEF migratePolicy
  <1> HIDE DEF p8
  <1>2. p2 \in Policies /\ Extending(p2, p)
    BY UpToExtends
  <1> HIDE DEF p2
  <1>3. p3 \in Policies /\ Extending(p3, p)
    BY <1>2, UpToExtends, ExtendingTrans
  <1> HIDE DEF p3
  <1>4. p4 \in Policies /\ Extending(p4, p)
    BY <1>3, UpToExtends, ExtendingTrans
  <1> HIDE DEF p4
  <1>5. p5 \in Policies /\ Extending(p5, p)
    BY <1>4, UpToExtends, ExtendingTrans
  <1> HIDE DEF p5
  <1>6. p6 \in Policies /\ Extending(p6, p)
    BY <1>5, UpToExtends, ExtendingTrans
  <1> HIDE DEF p6
  <1>7. p7 \in Policies /\ Extending(p7, p)
    BY <1>6, UpToExtends, ExtendingTrans
  <1> HIDE DEF p7
  <1>9. p8 \in Policies /\ Extending(p8, p) /\ p8.version >= 8
    BY <1>7, UpToExtends, ExtendingTrans DEF p8
  <1>10. QED
    BY <1>8, <1>9 DEF policyVersion

-----------------------------------------------------------------------------
(* The rule that decides. *)

LEMMA LeastExists ==
    ASSUME NEW S \in SUBSET Nat, S # {}
    PROVE  \E i \in S : \A j \in S : i <= j
  <1>1. PICK i \in S : \A j \in S : <<j, i>> \notin OpToRel(<, Nat)
    BY WFMin, NatLessThanWellFounded, Zenon
  <1>2. \A j \in S : ~(j < i)
    BY <1>1, Zenon DEF OpToRel
  <1>3. QED
    BY <1>2

LEMMA MatchingType ==
    ASSUME NEW p \in Policies, NEW request
    PROVE  Matching(p, request) \in SUBSET Nat
  <1>1. p.rules \in Seq(Rules)
    BY DEF Policies
  <1>2. QED
    BY <1>1 DEF Matching

LEMMA FirstMatchIsFirst ==
    ASSUME NEW p \in Policies, NEW request, Matching(p, request) # {}
    PROVE  /\ FirstMatch(p, request) \in Matching(p, request)
           /\ \A j \in Matching(p, request) : FirstMatch(p, request) <= j
  <1>1. \E i \in Matching(p, request) : \A j \in Matching(p, request) : i <= j
    BY MatchingType, LeastExists
  <1>2. QED
    BY <1>1 DEF FirstMatch

\* Rules added behind those of a policy never decide what they decided.
LEMMA FirstMatchKept ==
    ASSUME NEW p \in Policies, NEW q \in Policies, Extending(q, p),
           NEW request, Matching(p, request) # {}
    PROVE  /\ FirstMatch(p, request) \in DOMAIN p.rules
           /\ FirstMatch(q, request) = FirstMatch(p, request)
  <1>1. p.rules \in Seq(Rules) /\ q.rules \in Seq(Rules)
    BY DEF Policies
  <1>2. DOMAIN p.rules \subseteq DOMAIN q.rules
    BY <1>1 DEF Extending
  <1>3. \A i \in DOMAIN p.rules :
           i \in Matching(q, request) <=> i \in Matching(p, request)
    BY <1>2 DEF Matching, Extending
  <1>4. /\ FirstMatch(p, request) \in Matching(p, request)
        /\ \A j \in Matching(p, request) : FirstMatch(p, request) <= j
    BY FirstMatchIsFirst
  <1>5. FirstMatch(p, request) \in DOMAIN p.rules
    BY <1>4 DEF Matching
  <1>6. /\ FirstMatch(q, request) \in Matching(q, request)
        /\ FirstMatch(q, request) <= FirstMatch(p, request)
    <2>1. FirstMatch(p, request) \in Matching(q, request)
      BY <1>3, <1>4, <1>5
    <2>2. QED
      BY <2>1, FirstMatchIsFirst
  <1>7. FirstMatch(q, request) \in DOMAIN p.rules
    <2>1. FirstMatch(q, request) \in DOMAIN q.rules
      BY <1>6 DEF Matching
    <2>2. QED
      BY <1>1, <1>5, <1>6, <2>1
  <1>8. FirstMatch(q, request) \in Matching(p, request)
    BY <1>3, <1>6, <1>7
  <1>9. FirstMatch(p, request) <= FirstMatch(q, request)
    BY <1>4, <1>8
  <1>10. QED
    BY <1>1, <1>5, <1>6, <1>7, <1>9

-----------------------------------------------------------------------------
(* The processes. *)

LEMMA DefaultType ==
    defaultPolicy \in Policies /\ defaultPolicy.version = policyVersion
  <1> DEFINE S == Seq(Rules)
             ks == <<"owner.session", "owner.console">>
             es == <<"credential.owner-proof", "portable.session",
                     "authorize project", "authorize zauth",
                     "project.manage", "ssh.issue", "ssh-ca.enroll",
                     "node.install">>
             ds == <<"docker", "docker container", "pam", "sudo", "windows">>
             A == AllowEach(ks, {"trust", "presence"})
             B == AllowEach(es, {"trust", "explicit"})
             C == <<Allow("terminal", {"trust", "presence"})>>
             D == AllowEach(ds, {"trust", "explicit"})
             E == <<NoSSH>>
  <1> USE DEF Keys, Requests, OldKeys, SensitiveOps, OSKeys, DockerKeys
  <1>1. ks \in Seq(Keys) /\ es \in Seq(Keys) /\ ds \in Seq(Keys)
    OBVIOUS
  <1> HIDE DEF ks, es, ds
  <1>2. A \in S /\ B \in S /\ D \in S
    BY <1>1, AllowEachType
  <1>3. C \in S /\ E \in S
    BY DEF Allow, NoSSH, Rules
  <1>4. defaultPolicy = [version |-> 8, default |-> "deny",
                         rules |-> A \o B \o C \o D \o E]
    BY DEF defaultPolicy, policyVersion, ks, es, ds
  <1> HIDE DEF A, B, C, D, E
  <1>5. A \o B \o C \o D \o E \in S
    BY <1>2, <1>3
  <1>6. QED
    BY <1>4, <1>5 DEF Policies, policyVersion

\* What a run is about to write, or has returned, is what the migration makes of
\* what it found, and no older than the program.
RunOK(r) ==
    /\ pc[r] # "idle" =>
          cfg[r] \in Policies /\ cfg[r].version >= policyVersion
    /\ pc[r] \in {"write", "fill", "done"} /\ Parses(seen[r]) =>
          cfg[r] = migratePolicy(seen[r])

IInv == TypeOK /\ \A r \in Runs : RunOK(r)

LEMMA MigratedType ==
    ASSUME NEW f \in Policies \cup NoPolicy, Parses(f)
    PROVE  /\ f \in Policies
           /\ migratePolicy(f) \in Policies
           /\ migratePolicy(f).version >= policyVersion
  BY MigrationKeepsRules DEF Parses

LEMMA IInvInit == Init => IInv
  BY PolicyAssumption DEF Init, IInv, RunOK, TypeOK, NoPolicy

LEMMA EditType ==
    ASSUME NEW f \in Policies, NEW rule \in Rules
    PROVE  /\ [f EXCEPT !.rules = <<rule>> \o @] \in Policies
           /\ [f EXCEPT !.rules = Append(@, rule)] \in Policies
  <1>1. f.rules \in Seq(Rules)
    BY DEF Policies
  <1>2. <<rule>> \o f.rules \in Seq(Rules) /\ Append(f.rules, rule) \in Seq(Rules)
    BY <1>1
  <1>3. \A s \in Seq(Rules) : [f EXCEPT !.rules = s] \in Policies
    BY DEF Policies
  <1>4. QED
    BY <1>2, <1>3

LEMMA IInvNext == IInv /\ [Next]_vars => IInv'
  <1> SUFFICES ASSUME IInv, [Next]_vars PROVE IInv'
    OBVIOUS
  <1> USE PolicyAssumption DEF NoPolicy
  <1>d. defaultPolicy \in Policies /\ defaultPolicy.version >= policyVersion
    BY DefaultType DEF policyVersion
  <1>a. /\ TypeOK
        /\ \A r \in Runs : RunOK(r)
    BY DEF IInv
  <1>1. ASSUME NEW r \in Runs, Read(r) PROVE IInv'
    <2>1. PICK new : new = IF Parses(file) THEN migratePolicy(file)
                           ELSE defaultPolicy
      OBVIOUS
    <2>2. new \in Policies /\ new.version >= policyVersion /\ new # Absent
      BY <1>a, <1>d, <2>1, MigratedType DEF TypeOK
    <2>3. /\ seen' = [seen EXCEPT ![r] = file]
          /\ cfg' = [cfg EXCEPT ![r] = new]
          /\ pc' \in {[pc EXCEPT ![r] = "done"], [pc EXCEPT ![r] = "write"]}
          /\ file' = file /\ saved' = saved /\ edits' = edits
      BY <1>1, <2>1 DEF Read
    <2>4. TypeOK'
      BY <1>a, <2>2, <2>3 DEF TypeOK
    <2>5. RunOK(r)'
      <3>1. cfg'[r] = new /\ seen'[r] = file
        BY <1>a, <2>3 DEF TypeOK
      <3>2. Parses(file) => new = migratePolicy(file)
        BY <2>1
      <3>3. QED
        BY <2>2, <3>1, <3>2 DEF RunOK, Parses
    <2>6. ASSUME NEW x \in Runs, x # r PROVE RunOK(x)'
      <3>1. cfg'[x] = cfg[x] /\ seen'[x] = seen[x] /\ pc'[x] = pc[x]
        BY <1>a, <2>3, <2>6 DEF TypeOK
      <3>2. QED
        BY <1>a, <3>1 DEF RunOK, Parses
    <2>7. QED
      BY <2>4, <2>5, <2>6 DEF IInv
  <1>2. ASSUME NEW r \in Runs, Truncate(r) \/ Fill(r) \/ Killed(r) PROVE IInv'
    <2>1. /\ cfg' = cfg /\ seen' = seen /\ saved' = saved /\ edits' = edits
          /\ pc[r] \in {"write", "fill"}
          /\ pc' \in {[pc EXCEPT ![r] = "fill"], [pc EXCEPT ![r] = "done"],
                      [pc EXCEPT ![r] = "killed"]}
          /\ file' \in {file, Empty, Torn, cfg[r]}
      BY <1>2 DEF Truncate, Fill, Killed
    <2>2. cfg[r] \in Policies
      BY <1>a, <2>1 DEF RunOK
    <2>3. TypeOK'
      BY <1>a, <2>1, <2>2 DEF TypeOK
    <2>4. ASSUME NEW x \in Runs PROVE RunOK(x)'
      BY <1>a, <2>1 DEF RunOK, TypeOK, Parses
    <2>5. QED
      BY <2>3, <2>4 DEF IInv
  <1>3. ASSUME NEW r \in Runs, WriteFails(r) PROVE IInv'
    <2>1. /\ file' \in {file, Torn}
          /\ seen' = seen /\ saved' = saved /\ edits' = edits
          /\ cfg' = [cfg EXCEPT ![r] = defaultPolicy]
          /\ pc' = [pc EXCEPT ![r] = "failed"]
      BY <1>3 DEF WriteFails
    <2>2. TypeOK'
      BY <1>a, <1>d, <2>1 DEF TypeOK
    <2>3. RunOK(r)'
      <3>1. cfg'[r] = defaultPolicy /\ pc'[r] = "failed"
        BY <1>a, <2>1 DEF TypeOK
      <3>2. QED
        BY <1>d, <3>1 DEF RunOK
    <2>4. ASSUME NEW x \in Runs, x # r PROVE RunOK(x)'
      <3>1. cfg'[x] = cfg[x] /\ seen'[x] = seen[x] /\ pc'[x] = pc[x]
        BY <1>a, <2>1, <2>4 DEF TypeOK
      <3>2. QED
        BY <1>a, <3>1 DEF RunOK, Parses
    <2>5. QED
      BY <2>2, <2>3, <2>4 DEF IInv
  <1>4. ASSUME NEW rule \in UserRules, Edit(rule) PROVE IInv'
    <2>1. file \in Policies /\ rule \in Rules
      BY <1>4, <1>a DEF Edit, TypeOK
    <2>2. file' \in Policies
      BY <1>4, <2>1, EditType DEF Edit
    <2>3. TypeOK'
      BY <1>4, <1>a, <2>2 DEF Edit, TypeOK
    <2>4. ASSUME NEW x \in Runs PROVE RunOK(x)'
      BY <1>4, <1>a DEF Edit, RunOK, Parses
    <2>5. QED
      BY <2>3, <2>4 DEF IInv
  <1>5. CASE UNCHANGED vars
    BY <1>5, <1>a DEF vars, IInv, TypeOK, RunOK, Parses
  <1>6. QED
    BY <1>1, <1>2, <1>3, <1>4, <1>5 DEF Next, EnsurePolicy

\* TypeOK holds of every behaviour: whatever the other processes and the owner do
\* to the file, a run returns a policy of the program's version or a later one.
THEOREM TypeCorrect == Spec => []TypeOK
  <1>1. IInv => TypeOK
    BY DEF IInv
  <1>2. QED
    BY <1>1, IInvInit, IInvNext, PTL DEF Spec

\* SameRuleDecides holds of every behaviour, for any rules an owner may write and
\* whatever version they come from: a migration never lets another rule decide.
THEOREM OwnersRulesDecide == Spec => []SameRuleDecides
  <1>1. IInv => SameRuleDecides
    <2> SUFFICES ASSUME IInv, NEW r \in Runs, NEW request \in Requests,
                        pc[r] \in {"write", "fill", "done"}, Parses(seen[r]),
                        Matching(seen[r], request) # {}
                 PROVE  LET i == FirstMatch(seen[r], request)
                            old == seen[r].rules[i]
                            new == cfg[r].rules[FirstMatch(cfg[r], request)]
                        IN  /\ i = FirstMatch(cfg[r], request)
                            /\ new.effect = old.effect
                            /\ old.needs \subseteq new.needs
      BY DEF SameRuleDecides
    <2>1. seen[r] \in Policies /\ cfg[r] = migratePolicy(seen[r])
      BY MigratedType DEF IInv, RunOK, TypeOK
    <2>2. cfg[r] \in Policies /\ Extending(cfg[r], seen[r])
      BY <2>1, MigrationKeepsRules
    <2>3. /\ FirstMatch(seen[r], request) \in DOMAIN seen[r].rules
          /\ FirstMatch(cfg[r], request) = FirstMatch(seen[r], request)
      BY <2>1, <2>2, FirstMatchKept
    <2>4. QED
      BY <2>2, <2>3 DEF Extending
  <1>2. QED
    BY <1>1, IInvInit, IInvNext, PTL DEF Spec
=============================================================================
