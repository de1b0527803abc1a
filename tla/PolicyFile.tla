----------------------------- MODULE PolicyFile -----------------------------
(***************************************************************************)
(* policy.json, as the processes that use it share it.  The daemon reads   *)
(* it for every request it authorizes, and every process of the agent when *)
(* it starts; whoever finds it old or unreadable writes it anew, and its   *)
(* owner edits it by hand.  Nothing locks the file, and os.WriteFile first *)
(* empties it.                                                             *)
(*                                                                         *)
(* A run is one call of ensurePolicy, in whichever process, and a daemon's *)
(* run ends in a decision.                                                 *)
(***************************************************************************)
EXTENDS PolicyRules

CONSTANTS
    Runs,
    Initial,     \* what the file may hold at first
    UserRules,   \* what its owner may add to it
    MaxEdits,
    WritesFail,  \* FALSE: writes succeed and no process is killed
    Absent, Empty, Torn \* no file, one without content, one that is no JSON

ASSUME PolicyAssumption ==
    /\ {Absent, Empty, Torn} \cap Policies = {}
    /\ Absent \notin {Empty, Torn}
    /\ Initial \subseteq Policies \cup {Absent, Empty, Torn}
    /\ UserRules \subseteq Rules
    /\ MaxEdits \in Nat
    /\ WritesFail \in BOOLEAN

\* What leaves the program without a policy of its owner's.
NoPolicy == {Absent, Empty, Torn}

VARIABLES
    file,
    pc,
    cfg,     \* the policy that a run returns or writes
    seen,    \* history: what a run found in the file
    saved,   \* history: what the owner last saved, or put there first
    edits

vars == <<file, pc, cfg, seen, saved, edits>>

Init ==
    /\ file \in Initial
    /\ pc = [r \in Runs |-> "idle"]
    /\ cfg = [r \in Runs |-> Absent]
    /\ seen = [r \in Runs |-> Absent]
    /\ saved = file
    /\ edits = 0

-----------------------------------------------------------------------------
Parses(f) == f \notin NoPolicy /\ f.version > 0

Read(r) ==
    /\ pc[r] = "idle"
    /\ seen' = [seen EXCEPT ![r] = file]
    /\ cfg' = [cfg EXCEPT ![r] =
           IF Parses(file) THEN migratePolicy(file) ELSE defaultPolicy]
    /\ pc' = [pc EXCEPT ![r] =
           IF Parses(file) /\ file.version >= policyVersion THEN "done"
           ELSE "write"]
    /\ UNCHANGED <<file, saved, edits>>

\* os.WriteFile opens with O_TRUNC, ...
Truncate(r) ==
    /\ pc[r] = "write"
    /\ file' = Empty
    /\ pc' = [pc EXCEPT ![r] = "fill"]
    /\ UNCHANGED <<cfg, seen, saved, edits>>

\* ... and writes from the start of the file.  What another process has written
\* since then, if it is longer, keeps its tail.
Fill(r) ==
    /\ pc[r] = "fill"
    /\ \/ file' = cfg[r]
       \/ file \notin {Empty, cfg[r]} /\ file' = Torn
    /\ pc' = [pc EXCEPT ![r] = "done"]
    /\ UNCHANGED <<cfg, seen, saved, edits>>

\* The file cannot be opened, or not be written to its end: loadPolicy falls back.
WriteFails(r) ==
    /\ WritesFail /\ pc[r] \in {"write", "fill"}
    /\ \/ file' = file
       \/ pc[r] = "fill" /\ file' = Torn
    /\ cfg' = [cfg EXCEPT ![r] = defaultPolicy]
    /\ pc' = [pc EXCEPT ![r] = "failed"]
    /\ UNCHANGED <<seen, saved, edits>>

\* The process dies before it has filled the file.
Killed(r) ==
    /\ WritesFail /\ pc[r] = "fill"
    /\ pc' = [pc EXCEPT ![r] = "killed"]
    /\ UNCHANGED <<file, cfg, seen, saved, edits>>

Names(rules) == {<<rules[i].key, rules[i].effect>> : i \in DOMAIN rules}

\* The owner saves the file with a rule more, first or last.
Edit(rule) ==
    /\ edits < MaxEdits
    /\ file \notin NoPolicy
    /\ <<rule.key, rule.effect>> \notin Names(file.rules)
    /\ \/ file' = [file EXCEPT !.rules = <<rule>> \o @]
       \/ file' = [file EXCEPT !.rules = Append(@, rule)]
    /\ saved' = file'
    /\ edits' = edits + 1
    /\ UNCHANGED <<pc, cfg, seen>>

EnsurePolicy(r) == Read(r) \/ Truncate(r) \/ Fill(r) \/ WriteFails(r)

Next ==
    \/ \E r \in Runs : EnsurePolicy(r) \/ Killed(r)
    \/ \E rule \in UserRules : Edit(rule)

Spec == Init /\ [][Next]_vars

-----------------------------------------------------------------------------
Returned == {r \in Runs : pc[r] \in {"done", "failed"}}

\* Every variable keeps its type, and a run that returns does so with a policy
\* no older than the program, whoever else rewrote the file meanwhile.
TypeOK ==
    /\ file \in Policies \cup NoPolicy
    /\ pc \in [Runs -> {"idle", "write", "fill", "done", "failed", "killed"}]
    /\ cfg \in [Runs -> Policies \cup {Absent}]
    /\ \A r \in Runs : pc[r] # "idle" =>
          cfg[r] # Absent /\ cfg[r].version >= policyVersion
    /\ seen \in [Runs -> Policies \cup NoPolicy]
    /\ saved \in Policies \cup NoPolicy
    /\ edits \in 0..MaxEdits

\* A rule is the owner's if the program ships none of its key and effect.
IsShipped(rule) == <<rule.key, rule.effect>> \in Names(defaultPolicy.rules)
ShippedIn(p) == {p.rules[i] : i \in {j \in DOMAIN p.rules : IsShipped(p.rules[j])}}
OwnerMatches(p, request) ==
    \E i \in Matching(p, request) : ~IsShipped(p.rules[i])

OnceEach(rules) ==
    \A i, j \in DOMAIN rules :
        rules[i].key = rules[j].key /\ rules[i].effect = rules[j].effect => i = j

\* The shipped rules that version v leaves in a file: all but those which a later
\* version adds, and with what version 7 asks from that version on.
ShippedKeys == Requests \ {"credential.ssh staging", "other"}
Later(v) == {key \in ShippedKeys : \E w \in 2..policyVersion :
                v < w /\ \E i \in DOMAIN Added(w) : Added(w)[i].key = key}
ShippedRule(key, v) ==
    IF key = "credential.ssh" THEN NoSSH
    ELSE Allow(key, {"trust"} \cup
             (IF v < 7 THEN {} ELSE
              IF key \in markPresence THEN {"presence"} ELSE {"explicit"}))
ShippedBy(v) == {ShippedRule(key, v) : key \in ShippedKeys \ Later(v)}

\* A file that a version of the program left, its owner's rules aside.  A file
\* without a version is taken for none (loadPolicy).
AsLeft(p) ==
    /\ OnceEach(p.rules)
    /\ p.version > 0 => p.default = "deny" /\ ShippedIn(p) = ShippedBy(p.version)
FilesAsLeft ==
    /\ \A p \in Initial \ NoPolicy : AsLeft(p)
    /\ \A rule \in UserRules : ~IsShipped(rule)

\* A workstation that has migrated from any earlier version decides as a fresh
\* one does, except where its owner's own rules match: no rule that was appended
\* without requirements keeps standing without the ones that the program now
\* ships, and none is missing (migratePolicy against defaultPolicy).
DecidesAsFresh ==
    \A p \in {cfg[r] : r \in Returned} \ {defaultPolicy}, request \in Requests :
        \/ OwnerMatches(p, request)
        \/ \A trusted, present \in BOOLEAN :
              evaluatePolicy(p, request, trusted, present) =
              evaluatePolicy(defaultPolicy, request, trusted, present)

\* The rule that decided a request before a migration decides it after, with no
\* fewer requirements: added rules come last (migratePolicy's comment).
SameRuleDecides ==
    \A r \in Runs, request \in Requests :
        /\ pc[r] \in {"write", "fill", "done"}
        /\ Parses(seen[r])
        /\ Matching(seen[r], request) # {}
        => LET i == FirstMatch(seen[r], request)
               old == seen[r].rules[i]
               new == cfg[r].rules[FirstMatch(cfg[r], request)]
           IN  /\ i = FirstMatch(cfg[r], request)
               /\ new.effect = old.effect
               /\ old.needs \subseteq new.needs

\* However many processes migrate the file at once, or one after another, no
\* rule gets into it twice.
NoRuleTwice == file \notin NoPolicy => OnceEach(file.rules)

-----------------------------------------------------------------------------
\* Comment in migratePolicy: user rules keep their order, and thereby their
\* priority over the defaults that are added.  They do so in the file once nobody
\* is writing it.
UserRulesKept ==
    /\ saved \notin NoPolicy
    /\ \A r \in Runs : pc[r] \in {"idle", "done"}
    => /\ file \notin NoPolicy
       /\ \A i \in DOMAIN saved.rules :
             /\ i \in DOMAIN file.rules
             /\ file.rules[i].key = saved.rules[i].key
             /\ file.rules[i].effect = saved.rules[i].effect
=============================================================================
