---------------------------- MODULE MCScanPolicy ----------------------------
(***************************************************************************)
(* Six overlapping policies, three Versions and the findings of scans.     *)
(***************************************************************************)
EXTENDS PolicyDecision

None == [given |-> FALSE, ok |-> TRUE, labels |-> {}]
Prod == [given |-> TRUE, ok |-> TRUE, labels |-> {"prod"}]
Bad  == [given |-> TRUE, ok |-> FALSE, labels |-> {}]

Exempt(ids, expires, reason) ==
    [scanTypes |-> {}, severities |-> {}, vulnerabilityIDs |-> ids,
     pkgNames |-> {}, expires |-> expires, reason |-> reason]

Policy(name, priority, created, selector, refs, threshold, exemptions) ==
    [name |-> name, priority |-> priority, created |-> created,
     selector |-> selector, targetRefs |-> refs,
     severityThreshold |-> threshold, exemptions |-> exemptions]

ToVpc == [kind |-> "Module", name |-> "vpc",
          versions |-> [given |-> TRUE, ok |-> TRUE, satisfies |-> {1}]]
ToAny == [kind |-> "Provider", name |-> "*",
          versions |-> [given |-> FALSE, ok |-> TRUE, satisfies |-> {}]]

MCPool ==
    { Policy(1, 0, 1, None, {}, "", <<Exempt({"cve1"}, 2, "r1"), Exempt({"cve2"}, 3, "r2")>>),
      Policy(2, 0, 1, None, {}, "MEDIUM", <<Exempt({"cve2"}, Never, "r3")>>),
      Policy(3, 5, 2, Prod, {ToVpc}, "NONE", <<>>),
      Policy(4, 5, 1, None, {ToAny}, "LOW", <<Exempt({"*"}, 1, "r4")>>),
      Policy(5, 9, 1, Bad, {}, "NONE", <<>>),
      Policy(6, 9, 3, Bad, {ToVpc}, "NONE", <<>>) }

MCVersions ==
    { [kind |-> "Module", ownerLabel |-> "vpc", configName |-> "", number |-> 1, labels |-> {}],
      [kind |-> "Module", ownerLabel |-> "", configName |-> "vpc", number |-> 2, labels |-> {"prod"}],
      [kind |-> "Provider", ownerLabel |-> "aws", configName |-> "", number |-> 1, labels |-> {"prod"}] }

Finding(id, severity) == [vulnerabilityID |-> id, severity |-> severity, pkgName |-> "p"]

MCFindings == { <<Finding("cve1", "HIGH")>>, <<Finding("cve2", "MEDIUM")>>,
                <<Finding("cve2", "negligible"), Finding("cve1", "CRITICAL")>> }

MCScanTypes == {"binary", "source", "module"}
=============================================================================
