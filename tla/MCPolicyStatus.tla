--------------------------- MODULE MCPolicyStatus ---------------------------
(***************************************************************************)
(* Two names for ScanPolicies and two Versions.                            *)
(***************************************************************************)
EXTENDS ScanPolicyReconciler, TLC

CONSTANTS v1, v2

None == [given |-> FALSE, ok |-> TRUE, labels |-> {}]
Bad  == [given |-> TRUE, ok |-> FALSE, labels |-> {}]

Exempt(expires) ==
    [scanTypes |-> {}, severities |-> {}, vulnerabilityIDs |-> {"cve1"},
     pkgNames |-> {}, expires |-> expires, reason |-> "r"]

Policy(name, priority, selector, refs, exemptions) ==
    [name |-> name, priority |-> priority, created |-> name,
     selector |-> selector, targetRefs |-> refs,
     severityThreshold |-> "", exemptions |-> exemptions]

Two == [kind |-> "Module", name |-> "vpc",
        versions |-> [given |-> TRUE, ok |-> TRUE, satisfies |-> {2}]]

MCPool == { Policy(1, 0, None, {}, <<Exempt(1), Exempt(2)>>),
            Policy(1, 0, None, {Two}, <<>>),
            Policy(2, 5, None, {Two}, <<Exempt(2)>>),
            Policy(2, 5, Bad, {}, <<>>) }

Module(number) == [kind |-> "Module", ownerLabel |-> "vpc", configName |-> "vpc",
                   number |-> number, labels |-> {}]

MCMetas == {Module(1), Module(2)}

Keys == Permutations({v1, v2})

\* Read by MCPolicyCondition.cfg alone: a malformed selector surfaces in the
\* condition of every settled policy as soon as there is a Version to try it
\* on.  docs/configuration/scanning.md:188 says it does; a policy that already
\* reported NoMatchingVersions keeps that reason (Unchanged).
InvalidSurfaces ==
    \A n \in Existing :
        Settled(n) /\ SelectorError(policies[n]) /\ (\E v \in Version : versions[v] # NoVersion)
            => status[n].reason = "InvalidSelector"

MCBudget == [policy |-> 3, version |-> 2, crash |-> 1, fault |-> 1]
=============================================================================
