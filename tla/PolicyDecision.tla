--------------------------- MODULE PolicyDecision ---------------------------
(***************************************************************************)
(* Operators edit the ScanPolicies of one namespace while time passes; the *)
(* decisions of the policy package (ScanPolicy) are compared with what its *)
(* comments promise, for every Version, scan type and list of findings.    *)
(***************************************************************************)
EXTENDS ScanPolicy, Functions

CONSTANTS
    MaxTime,      \* the last instant of the clock
    MaxPolicies,  \* policies that exist at the same time
    Pool,         \* the policies an operator may create
    Versions,     \* the Versions decisions are asked for
    FindingLists, \* what scans find
    ScanTypes

ASSUME DecisionConstants ==
    /\ MaxTime \in Nat /\ Never \notin Nat /\ NoPolicy \notin Pool
    /\ \A p \in Pool : /\ p.name \in Nat /\ p.priority \in Int /\ p.created \in Nat
                       /\ \A i \in DOMAIN p.exemptions :
                             p.exemptions[i].expires \in Nat \cup {Never}

VARIABLES
    policies,  \* the list the API server answers with
    now

vars == <<policies, now>>

Init == policies = <<>> /\ now = 0

Create ==
    /\ Len(policies) < MaxPolicies
    /\ \E p \in Pool :
          /\ \A i \in DOMAIN policies : policies[i].name # p.name
          /\ policies' = Append(policies, p)
    /\ UNCHANGED now

Delete ==
    /\ \E i \in DOMAIN policies :
          policies' = [j \in 1..(Len(policies) - 1) |-> policies[IF j < i THEN j ELSE j + 1]]
    /\ UNCHANGED now

Tick == now < MaxTime /\ now' = now + 1 /\ UNCHANGED policies

Next == Create \/ Delete \/ Tick

Spec == Init /\ [][Next]_vars

-----------------------------------------------------------------------------
\* Properties

\* The decision for a Version under the given flags and instant.
Decision(list, v, critical, high, t) ==
    resolveScanPolicy(list, FALSE, v, critical, high, t)

Verdict(resolved, findings, type) == Apply(resolved, findings, type).blocking # 0

\* The order the API server lists the policies in never changes the winner
\* (policy.go:224-226).
OrderIndependent ==
    \A v \in Versions, perm \in Bijection(DOMAIN policies, DOMAIN policies) :
        Select([i \in DOMAIN policies |-> policies[perm[i]]], v) = Select(policies, v)

Valid(list) == {list[i] : i \in {j \in DOMAIN list : ~SelectorError(list[j])}}

\* A policy with an invalid selector neither widens nor narrows enforcement:
\* adding or removing one changes no decision (policy.go:192-193).
InvalidSelectorInert ==
    [][ Valid(policies) = Valid(policies') =>
          \A v \in Versions, critical \in BOOLEAN, high \in BOOLEAN :
              Decision(policies', v, critical, high, now) = Decision(policies, v, critical, high, now)
      ]_vars

\* What blocks a Version does not change before the NextExpiry that the
\* decision reports, so waking up at that instant misses nothing
\* (policy.go:80-82 and the requeue at the end of Reconcile).
StableUntilExpiry ==
    \A v \in Versions, critical \in BOOLEAN, high \in BOOLEAN, t \in now..MaxTime :
        LET d == Decision(policies, v, critical, high, now)
            e == Decision(policies, v, critical, high, t)
        IN  (d.nextExpiry = Never \/ t < d.nextExpiry) =>
              \A s \in FindingLists, type \in ScanTypes :
                  Verdict(d, s, type) = Verdict(e, s, type)

\* A policy added below the one in force is shadowed entirely: it cannot
\* change the decision for any Version the stronger policy governs
\* (policy.go:218-222).
LowerPriorityShadowed ==
    [][ \A v \in Versions, critical \in BOOLEAN, high \in BOOLEAN :
          LET w == Select(policies, v) IN
            /\ Len(policies') > Len(policies)
            /\ w # NoPolicy
            /\ policies'[Len(policies')].priority < w.priority
            => Decision(policies', v, critical, high, now) = Decision(policies, v, critical, high, now)
      ]_vars

-----------------------------------------------------------------------------
\* The inductive invariant behind them: a list of policies of the namespace, in
\* which no name occurs twice.

NamesApart(list) == \A i, j \in DOMAIN list : list[i].name = list[j].name => i = j

ListInv == policies \in Seq(Pool) /\ NamesApart(policies) /\ now \in Nat
=============================================================================
