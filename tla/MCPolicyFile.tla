---------------------------- MODULE MCPolicyFile ----------------------------
(* Instances of PolicyFile: files as each version of the program left them, *)
(* and as an owner wrote them.                                              *)
EXTENDS PolicyFile, TLC

\* Version 1 is known by what no migration adds.
FirstPolicy ==
    [version |-> 1, default |-> "deny", rules |->
        AllowEach(<<"owner.session", "owner.console", "credential.owner-proof">>,
                  {"trust"}) \o <<NoSSH>>]

LeftBy == [v \in 1..policyVersion |->
    LET upTo[w \in 1..v] ==
            IF w = 1 THEN FirstPolicy ELSE MigrateTo(upTo[w - 1], w)
    IN  upTo[v]]

Newer == [defaultPolicy EXCEPT !.version = 9]

\* examples/policy-owner.json, with the sessions that the owner wants.
Example ==
    [version |-> 1, default |-> "deny", rules |->
        <<[key |-> "credential.ssh staging", effect |-> "allow", needs |-> {"trust"}]>>
        \o FirstPolicy.rules]
Unversioned == [Example EXCEPT !.version = 0]

AllInitial == {LeftBy[v] : v \in 1..policyVersion} \cup
              {Newer, Example, Unversioned, defaultPolicy} \cup NoPolicy
ExampleOnly == {Example}

OwnerRules ==
    {[key |-> "*", effect |-> "deny", needs |-> {}],
     [key |-> "terminal", effect |-> "deny", needs |-> {"trust"}]}
NoRules == {}

SwapRuns == Permutations(Runs)
=============================================================================
