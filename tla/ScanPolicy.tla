----------------------------- MODULE ScanPolicy -----------------------------
(***************************************************************************)
(* The pure policy package: how the ScanPolicy objects of a namespace are  *)
(* folded into the decision that lets a Version sync or blocks it.         *)
(* services/version/internal/policy/policy.go                              *)
(*                                                                         *)
(* Strings are atoms here: the trimming and case folding the package does  *)
(* before it compares them is taken as done.  A policy's name is its rank  *)
(* in the name order, a creation timestamp and an expiry are naturals.     *)
(***************************************************************************)
EXTENDS Integers, Sequences, FiniteSets

CONSTANTS
    NoPolicy,  \* the nil *ScanPolicy: no policy matched
    Never      \* the nil Expires of an exemption, the nil NextExpiry

wildcard == "*"

thresholdDisabled == 0

severityRanks ==
    [UNKNOWN |-> 1, LOW |-> 2, MEDIUM |-> 3, HIGH |-> 4, CRITICAL |-> 5]

\* An unrecognised severity ranks as UNKNOWN.
SeverityRank(severity) ==
    IF severity \in DOMAIN severityRanks THEN severityRanks[severity]
                                         ELSE severityRanks.UNKNOWN

baselineThreshold(blockOnCritical, blockOnHigh) ==
    CASE blockOnHigh                      -> severityRanks.HIGH
      [] ~blockOnHigh /\ blockOnCritical  -> severityRanks.CRITICAL
      [] OTHER                            -> thresholdDisabled

\* An empty list and the wildcard match everything, any other entry only itself.
matchList(values, candidate) ==
    values = {} \/ wildcard \in values \/ candidate \in values

\* The owner label set by the module and provider controllers, or the name in
\* the inherited config reference.
resourceName(version) ==
    IF version.ownerLabel # "" THEN version.ownerLabel ELSE version.configName

\* A version constraint is the set of version numbers that satisfy it; "ok"
\* is false for an expression that does not parse.
matchesTargetRef(ref, version) ==
    /\ ref.kind = version.kind
    /\ matchList({ref.name}, resourceName(version))
    /\ \/ ~ref.versions.given
       \/ ref.versions.ok /\ version.number \in ref.versions.satisfies

\* Mutant: an unparsable selector is dropped, which widens the policy.
MatchesDespiteError(policy, version) ==
    \/ ~(policy.selector.given /\ policy.selector.ok) /\ policy.targetRefs = {}
    \/ /\ policy.selector.given
       /\ policy.selector.ok
       /\ policy.selector.labels \subseteq version.labels
    \/ \E ref \in policy.targetRefs : matchesTargetRef(ref, version)

\* LabelSelectorAsSelector fails on this selector.
SelectorError(policy) == policy.selector.given /\ ~policy.selector.ok

Matches(policy, version) ==
    \/ ~policy.selector.given /\ policy.targetRefs = {}
    \/ /\ ~SelectorError(policy)
       /\ \/ policy.selector.given /\ policy.selector.labels \subseteq version.labels
          \/ \E ref \in policy.targetRefs : matchesTargetRef(ref, version)

\* Mutant: the name tie-break is forgotten.
BeforeNoName(a, b) ==
    \/ a.priority > b.priority
    \/ a.priority = b.priority /\ a.created < b.created

\* Mutant: the operands of the priority comparison are swapped.
BeforeSwapped(a, b) ==
    \/ a.priority < b.priority
    \/ a.priority = b.priority /\ a.created < b.created
    \/ a.priority = b.priority /\ a.created = b.created /\ a.name < b.name

\* The order of the SortStableFunc comparison: higher priority, then older,
\* then the smaller name.
Before(a, b) ==
    \/ a.priority > b.priority
    \/ a.priority = b.priority /\ a.created < b.created
    \/ a.priority = b.priority /\ a.created = b.created /\ a.name < b.name

\* The head of the stably sorted list of the policies that match.
Select(policies, version) ==
    LET matched == {i \in DOMAIN policies : Matches(policies[i], version)}
        IsHead(i) == \A j \in matched :
                        /\ ~Before(policies[j], policies[i])
                        /\ j < i => Before(policies[i], policies[j])
    IN  IF matched = {} THEN NoPolicy
                        ELSE policies[CHOOSE i \in matched : IsHead(i)]

\* Expires.After(now), with a nil expiry in effect for ever.
InEffect(exemption, now) == exemption.expires = Never \/ exemption.expires > now

\* Mutant: the latest expiry instead of the earliest.
NextExpiryLatest(exemptions) ==
    LET expiries == {exemptions[i].expires : i \in DOMAIN exemptions} \ {Never}
    IN  IF expiries = {} THEN Never
                         ELSE CHOOSE e \in expiries : \A f \in expiries : e >= f

\* The earliest of the expiries still to come.
NextExpiry(exemptions) ==
    LET expiries == {exemptions[i].expires : i \in DOMAIN exemptions} \ {Never}
    IN  IF expiries = {} THEN Never
                         ELSE CHOOSE e \in expiries : \A f \in expiries : e <= f

\* The exemptions in effect keep their place in the list of the policy.
Resolve(winner, blockOnCritical, blockOnHigh, now) ==
    LET baseline == baselineThreshold(blockOnCritical, blockOnHigh)
        active   == [i \in {j \in DOMAIN winner.exemptions : InEffect(winner.exemptions[j], now)} |->
                        winner.exemptions[i]]
    IN  IF winner = NoPolicy
        THEN [policyName |-> NoPolicy, threshold |-> baseline,
              exemptions |-> <<>>, nextExpiry |-> Never]
        ELSE [policyName |-> winner.name,
              threshold  |-> CASE winner.severityThreshold = ""     -> baseline
                               [] winner.severityThreshold = "NONE" -> thresholdDisabled
                               [] OTHER -> SeverityRank(winner.severityThreshold),
              exemptions |-> active,
              nextExpiry |-> NextExpiry(active)]

Blocks(resolved, severity) ==
    /\ resolved.threshold # thresholdDisabled
    /\ SeverityRank(severity) >= resolved.threshold

covers(exemption, finding, scanType) ==
    /\ matchList(exemption.scanTypes, scanType)
    /\ matchList(exemption.severities, finding.severity)
    /\ matchList(exemption.vulnerabilityIDs, finding.vulnerabilityID)
    /\ matchList(exemption.pkgNames, finding.pkgName)

\* The first exemption that covers the finding gives the annotation.
Annotation(resolved, finding, scanType) ==
    LET covering == {i \in DOMAIN resolved.exemptions :
                        covers(resolved.exemptions[i], finding, scanType)}
        first    == CHOOSE i \in covering : \A j \in covering : i <= j
    IN  IF covering = {} THEN [exempted |-> FALSE]
        ELSE [exempted |-> TRUE, reason |-> resolved.exemptions[first].reason,
              exemptedBy |-> resolved.policyName]

\* The annotation of every finding, and the index of the first finding that
\* still blocks (0 when none does).
Apply(resolved, findings, scanType) ==
    LET annotated == [i \in DOMAIN findings |->
                         Annotation(resolved, findings[i], scanType)]
        blocking  == {i \in DOMAIN findings :
                         /\ ~annotated[i].exempted
                         /\ Blocks(resolved, findings[i].severity)}
    IN  [annotated |-> annotated,
         blocking  |-> IF blocking = {} THEN 0
                       ELSE CHOOSE i \in blocking : \A j \in blocking : i <= j]

\* [active |-> exemptions in effect, expired |-> exemptions past their expiry]
CountExemptions(policy, now) ==
    LET active == {i \in DOMAIN policy.exemptions : InEffect(policy.exemptions[i], now)}
    IN  [active  |-> Cardinality(active),
         expired |-> Cardinality(DOMAIN policy.exemptions \ active)]

\* resolveScanPolicy of scanner.go: a failed List falls back to the flags.
resolveScanPolicy(policies, listFails, version, blockOnCritical, blockOnHigh, now) ==
    Resolve(IF listFails THEN NoPolicy ELSE Select(policies, version),
            blockOnCritical, blockOnHigh, now)
=============================================================================
