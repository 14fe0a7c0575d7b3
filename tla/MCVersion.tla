------------------------------ MODULE MCVersion ------------------------------
(***************************************************************************)
(* Small instances of the Version controller.                              *)
(***************************************************************************)
EXTENDS VersionReconciler, TLC

CONSTANTS m1, p1, p2, c1, c2

Module(labels) == [kind |-> "Module", ownerLabel |-> "vpc", configName |-> "vpc",
                   number |-> 1, labels |-> labels]
Provider       == [kind |-> "Provider", ownerLabel |-> "aws", configName |-> "aws",
                   number |-> 1, labels |-> {}]

OneModule    == {m1}
OneProvider  == {p1}
Both         == {m1, p1}
TwoProviders == {p1, p2}

MCMeta == [v \in Version |-> IF v \in {p1, p2} THEN Provider ELSE Module({})]

Finding(id, severity) == [vulnerabilityID |-> id, severity |-> severity, pkgName |-> "p"]

\* c1 has a CRITICAL finding, c2 is clean.
MCFindings == [c \in Checksum |-> IF c = c1 THEN <<Finding("cve1", "CRITICAL")>> ELSE <<>>]
Clean      == [c \in Checksum |-> <<>>]

Waiver(expires) ==
    [scanTypes |-> {}, severities |-> {}, vulnerabilityIDs |-> {"cve1"},
     pkgNames |-> {}, expires |-> expires, reason |-> "r"]

Policy(name, threshold, exemptions) ==
    [name |-> name, priority |-> 0, created |-> 1,
     selector |-> [given |-> FALSE, ok |-> TRUE, labels |-> {}], targetRefs |-> {},
     severityThreshold |-> threshold, exemptions |-> exemptions]

NoPolicies     == {<<>>}
Waived         == <<Policy(1, "", <<Waiver(Never)>>)>>
WaivedUntil1   == <<Policy(1, "", <<Waiver(1)>>)>>
Strict         == <<Policy(1, "LOW", <<>>)>>
EditedPolicies == {Strict, WaivedUntil1}

Archives  == Permutations(Checksum)
Providers == Permutations({p1, p2})

Nothing == [k \in EventKind |-> 0]
Lifecycle == [Nothing EXCEPT !["create"] = 2, !["delete"] = 2, !["forceSync"] = 1,
                             !["upstream"] = 1, !["loss"] = 1, !["crash"] = 2, !["fault"] = 2]

Enforcement == [Nothing EXCEPT !["create"] = 1, !["delete"] = 1,
                               !["policy"] = 2, !["crash"] = 1, !["fault"] = 1]

Contention == [Nothing EXCEPT !["create"] = 2, !["crash"] = 1, !["fault"] = 1,
                              !["listFail"] = 1, !["scanFail"] = 1]

Interrupted == [Nothing EXCEPT !["create"] = 1, !["delete"] = 1, !["crash"] = 1]
OneEdit     == [Nothing EXCEPT !["create"] = 1, !["policy"] = 1]
ScanFailure == [Nothing EXCEPT !["create"] = 1, !["scanFail"] = 1]
ListFailure == [Nothing EXCEPT !["create"] = 1, !["listFail"] = 1]
OnlyStrict  == {Strict}
OnlyWaived  == {Waived}
=============================================================================
