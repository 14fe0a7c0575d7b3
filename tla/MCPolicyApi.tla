---------------------------- MODULE MCPolicyApi -----------------------------
(***************************************************************************)
(* Two users of one security team and one policy name.                     *)
(***************************************************************************)
EXTENDS PolicyApi, TLC

vpc == [kind |-> "module", name |-> "vpc"]
aws == [kind |-> "provider", name |-> "aws"]

MCResources == {vpc, aws}

Spec(targets) == [targets |-> targets, selector |-> FALSE]

MCSpecs == {Spec({vpc, aws}), Spec({})}

Binding(modules, providers, wide, broken) ==
    [name |-> 1, groups |-> {"sec"}, broken |-> broken, namespaces |-> {"team"},
     modules |-> modules, providers |-> providers, wide |-> wide]

\* One covers the first policy, the other the second, which is for the whole
\* namespace; a third does not compile.
MCBindingSets ==
    {{Binding({"vpc"}, {"aws"}, FALSE, FALSE)}, {Binding({"vpc"}, {}, TRUE, FALSE)},
     {Binding({"vpc"}, {"aws"}, TRUE, TRUE)}}

Users == Permutations(Callers)

MCCredential == [c \in Callers |-> [token |-> "ui", groups |-> {"sec"}]]

\* OIDC with the UI client and policy management; none of it.
MCFlagSets ==
    {[anonymous |-> FALSE, oidc |-> TRUE, ui |-> TRUE, clients |-> FALSE,
      serviceAccounts |-> FALSE, writes |-> TRUE],
     [anonymous |-> TRUE, oidc |-> FALSE, ui |-> FALSE, clients |-> FALSE,
      serviceAccounts |-> FALSE, writes |-> TRUE]}
=============================================================================
