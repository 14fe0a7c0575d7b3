------------------------ MODULE PolicyDecisionProofs ------------------------
(***************************************************************************)
(* The promises of the policy package for every list of policies, every    *)
(* Version and every instant.  The winner is the first of the matching     *)
(* policies in a total order, whatever their places in the list.           *)
(***************************************************************************)
EXTENDS PolicyDecision, NaturalsInduction, WellFoundedInduction, TLAPS

-----------------------------------------------------------------------------
\* Induction over natural numbers, by sets

\* Every set of natural numbers has a least element.
LEMMA LeastNumber ==
  ASSUME NEW T \in SUBSET Nat, T # {}
  PROVE  \E x \in T : \A y \in T : x <= y
  <1> DEFINE R == {p \in Nat \X Nat : p[1] < p[2]}
  <1>1. IsWellFoundedOn(OpToRel(<, Nat), Nat)
    BY ONLY NatLessThanWellFounded, Zenon
  <1>2. OpToRel(<, Nat) = R
    BY DEF OpToRel
  <1>3. IsWellFoundedOn(R, Nat)
    BY ONLY <1>1, <1>2, Zenon
  <1>4. PICK x \in T : \A y \in T : <<y, x>> \notin R
    <2> HIDE DEF R
    <2> QED
      BY ONLY <1>3, WFMin, T \in SUBSET Nat, T # {}, Zenon
  <1>5. \A y \in T : ~(y < x)
    BY <1>4
  <1>6. QED
    BY <1>5

\* A set with 0 and with the successor of each of its numbers holds them all.
LEMMA SetInduction ==
  ASSUME NEW S, 0 \in S, \A n \in Nat : n \in S => n + 1 \in S
  PROVE  \A n \in Nat : n \in S
  <1> SUFFICES ASSUME Nat \ S # {} PROVE FALSE
    OBVIOUS
  <1>1. PICK x \in Nat \ S : \A y \in Nat \ S : x <= y
    BY LeastNumber
  <1>2. x # 0 /\ x - 1 \in Nat /\ x - 1 \in S
    BY <1>1
  <1>3. QED
    BY <1>1, <1>2

-----------------------------------------------------------------------------
\* The order of policies

\* Before is a strict order, total between policies of different names.
LEMMA BeforeOrders ==
  ASSUME NEW a \in Pool, NEW b \in Pool, NEW c \in Pool
  PROVE  /\ ~(Before(a, b) /\ Before(b, a))
         /\ Before(a, b) /\ Before(b, c) => Before(a, c)
         /\ a.name # b.name => Before(a, b) \/ Before(b, a)
  BY DecisionConstants DEF Before

Listing(list) == list \in Seq(Pool) /\ NamesApart(list)

\* One policy is before all others of a set of places.
First(list, T, i) == i \in T /\ \A j \in T \ {i} : Before(list[i], list[j])

\* Any places of a list have a first one.
LEMMA FirstExists ==
  ASSUME NEW list, Listing(list), NEW T \in SUBSET DOMAIN list, T # {}
  PROVE  \E i \in T : First(list, T, i)
  <1> DEFINE S == {n \in Nat : \A U \in SUBSET DOMAIN list :
                      U # {} /\ U \subseteq 1..n => \E i \in U : First(list, U, i)}
  <1>1. 0 \in S
    OBVIOUS
  <1>2. ASSUME NEW n \in Nat, n \in S PROVE n + 1 \in S
    <2> SUFFICES ASSUME NEW U \in SUBSET DOMAIN list, U # {}, U \subseteq 1..(n + 1)
                 PROVE  \E i \in U : First(list, U, i)
      OBVIOUS
    <2>1. CASE n + 1 \notin U
      <3>1. U \subseteq 1..n
        BY <2>1
      <3>2. QED
        BY <1>2, <3>1
    <2>2. CASE U = {n + 1}
      BY <2>2 DEF First
    <2>3. CASE n + 1 \in U /\ U # {n + 1}
      <3> DEFINE W == U \ {n + 1}
      <3>1. W \in SUBSET DOMAIN list /\ W # {} /\ W \subseteq 1..n
        BY <2>3
      <3>2. PICK i \in W : First(list, W, i)
        BY <1>2, <3>1
      <3>3. \A j \in U : list[j] \in Pool
        BY DEF Listing
      <3>4. i \in U /\ i # n + 1 /\ n + 1 \in U
        BY <2>3, <3>2
      <3>5. list[i].name # list[n + 1].name
        BY <3>4 DEF Listing, NamesApart
      <3>6. CASE Before(list[i], list[n + 1])
        <4>1. First(list, U, i)
          BY <3>2, <3>4, <3>6 DEF First
        <4>2. QED
          BY <3>4, <4>1
      <3>7. CASE Before(list[n + 1], list[i])
        <4>1. ASSUME NEW j \in U \ {n + 1} PROVE Before(list[n + 1], list[j])
          <5>1. j = i \/ Before(list[i], list[j])
            BY <3>2, <4>1 DEF First
          <5>2. QED
            BY <3>3, <3>4, <3>7, <4>1, <5>1, BeforeOrders
        <4>2. First(list, U, n + 1)
          BY <3>4, <4>1 DEF First
        <4>3. QED
          BY <3>4, <4>2
      <3>8. QED
        BY <3>3, <3>4, <3>5, <3>6, <3>7, BeforeOrders
    <2>4. QED
      BY <2>1, <2>2, <2>3
  <1>3. Len(list) \in Nat /\ T \subseteq 1..Len(list)
    BY DEF Listing
  <1>4. \A n \in Nat : n \in S
    <2> HIDE DEF S
    <2> QED
      BY <1>1, <1>2, SetInduction
  <1>5. QED
    BY <1>3, <1>4

Matched(list, v) == {i \in DOMAIN list : Matches(list[i], v)}

\* The winner is the first of the policies that match.
LEMMA SelectIsFirst ==
  ASSUME NEW list, Listing(list), NEW v
  PROVE  /\ Matched(list, v) = {} => Select(list, v) = NoPolicy
         /\ Matched(list, v) # {} =>
               \E i \in Matched(list, v) : First(list, Matched(list, v), i) /\ Select(list, v) = list[i]
  <1> DEFINE T == Matched(list, v)
             Head1(i) == \A j \in T : /\ ~Before(list[j], list[i])
                                      /\ j < i => Before(list[i], list[j])
  <1>1. Select(list, v) = IF T = {} THEN NoPolicy ELSE list[CHOOSE i \in T : Head1(i)]
    BY DEF Select, Matched
  <1>2. T \in SUBSET DOMAIN list /\ \A i \in T : list[i] \in Pool
    BY DEF Matched, Listing
  <1>3. ASSUME NEW i \in T PROVE Head1(i) <=> First(list, T, i)
    <2>1. \A j \in T \ {i} : list[i].name # list[j].name
      BY <1>2 DEF Listing, NamesApart
    <2>2. \A j \in T \ {i} : ~Before(list[j], list[i]) <=> Before(list[i], list[j])
      BY <1>2, <2>1, BeforeOrders
    <2>3. ~Before(list[i], list[i])
      BY <1>2, BeforeOrders
    <2>4. i \in Nat
      BY <1>2 DEF Listing
    <2>5. QED
      BY <2>2, <2>3, <2>4 DEF First
  <1>4. ASSUME T # {} PROVE \E i \in T : First(list, T, i) /\ Select(list, v) = list[i]
    <2>1. \E i \in T : Head1(i)
      BY <1>2, <1>3, <1>4, FirstExists
    <2>2. QED
      BY <1>1, <1>3, <1>4, <2>1
  <1>5. QED
    BY <1>1, <1>4

Candidates(list, v) == {list[i] : i \in Matched(list, v)}

\* Two lists with the same matching policies have the same winner.
LEMMA WinnerByContent ==
  ASSUME NEW a, NEW b, Listing(a), Listing(b), NEW v, Candidates(a, v) = Candidates(b, v)
  PROVE  Select(a, v) = Select(b, v)
  <1>1. CASE Matched(a, v) = {}
    <2>1. Matched(b, v) = {}
      BY <1>1 DEF Candidates
    <2>2. QED
      BY <1>1, <2>1, SelectIsFirst
  <1>2. CASE Matched(a, v) # {}
    <2>1. Matched(b, v) # {}
      BY <1>2 DEF Candidates
    <2>2. PICK i \in Matched(a, v) : First(a, Matched(a, v), i) /\ Select(a, v) = a[i]
      BY <1>2, SelectIsFirst
    <2>3. PICK j \in Matched(b, v) : First(b, Matched(b, v), j) /\ Select(b, v) = b[j]
      BY <2>1, SelectIsFirst
    <2>4. PICK k \in Matched(b, v) : b[k] = a[i]
      BY <2>2 DEF Candidates
    <2>5. PICK l \in Matched(a, v) : a[l] = b[j]
      BY <2>3 DEF Candidates
    <2>6. a[i] \in Pool /\ b[j] \in Pool
      BY DEF Matched, Listing
    <2>7. k = j \/ Before(b[j], b[k])
      BY <2>3 DEF First
    <2>8. l = i \/ Before(a[i], a[l])
      BY <2>2 DEF First
    <2>9. QED
      BY <2>2, <2>3, <2>4, <2>5, <2>6, <2>7, <2>8, BeforeOrders
  <1>3. QED
    BY <1>1, <1>2

-----------------------------------------------------------------------------
\* The list

\* The list holds policies of the pool, with no name twice, whatever is created
\* and deleted (the API server).
THEOREM ListInvariance == Spec => []ListInv
  <1>1. Init => ListInv
    BY DEF Init, ListInv, NamesApart
  <1>2. ListInv /\ [Next]_vars => ListInv'
    <2> SUFFICES ASSUME ListInv, [Next]_vars PROVE ListInv'
      OBVIOUS
    <2>1. CASE Create
      <3>1. PICK p \in Pool : /\ \A i \in DOMAIN policies : policies[i].name # p.name
                              /\ policies' = Append(policies, p)
        BY <2>1 DEF Create
      <3>2. policies' \in Seq(Pool) /\ now' \in Nat
        BY <2>1, <3>1 DEF Create, ListInv
      <3>3. NamesApart(policies')
        BY <3>1 DEF ListInv, NamesApart
      <3>4. QED
        BY <3>2, <3>3 DEF ListInv, NamesApart
    <2>2. CASE Delete
      <3>1. PICK i \in DOMAIN policies :
                policies' = [j \in 1..(Len(policies) - 1) |-> policies[IF j < i THEN j ELSE j + 1]]
        BY <2>2 DEF Delete
      <3>2. policies' \in Seq(Pool) /\ now' \in Nat
        BY <2>2, <3>1 DEF Delete, ListInv
      <3>3. NamesApart(policies')
        BY <3>1 DEF ListInv, NamesApart
      <3>4. QED
        BY <3>2, <3>3 DEF ListInv, NamesApart
    <2>3. CASE Tick
      BY <2>3 DEF Tick, ListInv, NamesApart
    <2>4. CASE UNCHANGED vars
      BY <2>4 DEF vars, ListInv, NamesApart
    <2>5. QED
      BY <2>1, <2>2, <2>3, <2>4 DEF Next
  <1>3. QED
    BY <1>1, <1>2, PTL DEF Spec

-----------------------------------------------------------------------------
\* What the package promises

\* A rearranged list has the same policies, each once.
LEMMA Rearranged ==
  ASSUME NEW list, Listing(list), NEW perm \in Bijection(DOMAIN list, DOMAIN list),
         NEW other, other = [i \in DOMAIN list |-> list[perm[i]]]
  PROVE  /\ Listing(other) /\ DOMAIN other = DOMAIN list
         /\ \A v : Candidates(other, v) = Candidates(list, v)
  <1> DEFINE D == DOMAIN list
  <1>1. /\ perm \in [D -> D] /\ \A w \in D : \E i \in D : perm[i] = w
        /\ \A i, j \in D : perm[i] = perm[j] => i = j
    BY DEF Bijection, Injection, IsInjective, Surjection
  <1>2. Len(list) \in Nat /\ D = 1..Len(list) /\ \A i \in D : list[i] \in Pool
    BY DEF Listing
  <1>3. other \in Seq(Pool) /\ DOMAIN other = D
    BY <1>1, <1>2
  <1>4. NamesApart(other)
    BY <1>1, <1>3 DEF Listing, NamesApart
  <1>5. Listing(other) /\ DOMAIN other = D
    BY <1>3, <1>4 DEF Listing
  <1>6. ASSUME NEW v PROVE Candidates(other, v) = Candidates(list, v)
    BY <1>1, <1>5 DEF Candidates, Matched
  <1>7. QED
    BY <1>5, <1>6

\* The order of the API server's answer never changes the winner: Select sorts
\* by priority, age and name, and no two policies share a name.
THEOREM OrderIsIrrelevant == Spec => []OrderIndependent
  <1>1. ListInv => OrderIndependent
    <2> SUFFICES ASSUME ListInv, NEW v \in Versions, 
                        NEW perm \in Bijection(DOMAIN policies, DOMAIN policies)
                 PROVE  Select([i \in DOMAIN policies |-> policies[perm[i]]], v) = Select(policies, v)
      BY DEF OrderIndependent
    <2>1. Listing(policies)
      BY DEF ListInv, Listing
    <2>2. QED
      BY <2>1, Rearranged, WinnerByContent
  <1>2. QED
    BY <1>1, ListInvariance, PTL

\* The decision depends on the winner, the flags and the instant only.
LEMMA DecisionByWinner ==
  ASSUME NEW a, NEW b, NEW v, Select(a, v) = Select(b, v), NEW critical, NEW high, NEW t
  PROVE  Decision(a, v, critical, high, t) = Decision(b, v, critical, high, t)
  BY DEF Decision, resolveScanPolicy

\* Adding or removing a policy whose selector does not parse changes no decision:
\* Matches refuses it for every Version.
THEOREM InvalidPoliciesInert == Spec => InvalidSelectorInert
  <1>1. ASSUME ListInv, ListInv', Valid(policies) = Valid(policies'), NEW v
        PROVE  Select(policies', v) = Select(policies, v)
    <2>1. ASSUME NEW list, Listing(list)
          PROVE  Candidates(list, v) = {p \in Valid(list) : Matches(p, v)}
      <3>1. \A i \in DOMAIN list : Matches(list[i], v) => ~SelectorError(list[i])
        BY DEF Matches, SelectorError
      <3>2. QED
        BY <3>1 DEF Candidates, Matched, Valid
    <2>2. Listing(policies) /\ Listing(policies')
      BY <1>1 DEF ListInv, Listing, NamesApart
    <2>3. Candidates(policies', v) = Candidates(policies, v)
      BY <1>1, <2>1, <2>2
    <2>4. QED
      BY <2>2, <2>3, WinnerByContent
  <1>2. ListInv /\ ListInv' =>
          [ Valid(policies) = Valid(policies') =>
              \A v \in Versions, critical \in BOOLEAN, high \in BOOLEAN :
                  Decision(policies', v, critical, high, now) = Decision(policies, v, critical, high, now)
          ]_vars
    BY <1>1, DecisionByWinner
  <1>3. QED
    BY <1>2, ListInvariance, PTL DEF InvalidSelectorInert

\* Until the reported expiry no exemption of the winner ends, and none begins.
LEMMA ResolvedUntilExpiry ==
  ASSUME NEW p \in Pool, NEW critical, NEW high, NEW n \in Nat, NEW t \in Nat, n <= t,
         LET d == Resolve(p, critical, high, n) IN d.nextExpiry = Never \/ t < d.nextExpiry
  PROVE  Resolve(p, critical, high, n) = Resolve(p, critical, high, t)
  <1> DEFINE A(u)   == {j \in DOMAIN p.exemptions : InEffect(p.exemptions[j], u)}
             act(u) == [i \in A(u) |-> p.exemptions[i]]
             E      == {act(n)[i].expires : i \in DOMAIN act(n)} \ {Never}
             next   == NextExpiry(act(n))
  <1>1. ASSUME A(n) = A(t) PROVE Resolve(p, critical, high, n) = Resolve(p, critical, high, t)
    BY <1>1 DEF Resolve
  <1>2. Resolve(p, critical, high, n).nextExpiry = next
    BY DecisionConstants DEF Resolve
  <1>3. next = Never \/ t < next
    BY <1>2
  <1>4. \A j \in DOMAIN p.exemptions : p.exemptions[j].expires \in Nat \cup {Never}
    BY DecisionConstants
  <1>5. E \subseteq Nat /\ \A j \in A(n) : p.exemptions[j].expires \in E \cup {Never}
    BY <1>4
  <1>6. next = IF E = {} THEN Never ELSE CHOOSE e \in E : \A f \in E : e <= f
    BY DEF NextExpiry
  <1>7. E # {} => next \in E /\ \A f \in E : next <= f
    <2> HIDE DEF E, next
    <2>1. E # {} => \E e \in E : \A f \in E : e <= f
      BY <1>5, LeastNumber
    <2>2. QED
      BY <1>6, <2>1
  <1>8. ASSUME NEW j \in A(n) PROVE InEffect(p.exemptions[j], t)
    <2>1. CASE p.exemptions[j].expires = Never
      BY <2>1 DEF InEffect
    <2>2. CASE p.exemptions[j].expires # Never
      <3>1. p.exemptions[j].expires \in E
        BY <1>5, <2>2
      <3>2. next \in Nat /\ p.exemptions[j].expires \in Nat /\ next <= p.exemptions[j].expires
        BY <1>5, <1>7, <3>1
      <3>3. t < next
        BY <1>3, <3>2, DecisionConstants
      <3>4. QED
        BY <3>2, <3>3 DEF InEffect
    <2>3. QED
      BY <2>1, <2>2
  <1>9. ASSUME NEW j \in A(t) PROVE InEffect(p.exemptions[j], n)
    BY <1>4, <1>9, DecisionConstants DEF InEffect
  <1>10. QED
    BY <1>1, <1>8, <1>9

\* The winner is a policy of the list, or there is none.
LEMMA SelectType ==
  ASSUME NEW list, Listing(list), NEW v
  PROVE  Select(list, v) \in Pool \cup {NoPolicy}
  <1>1. \A i \in Matched(list, v) : list[i] \in Pool
    BY DEF Listing, Matched
  <1>2. QED
    BY <1>1, SelectIsFirst

\* What blocks a Version stays the same until the reported NextExpiry: the requeue
\* at the end of Reconcile comes in time.
THEOREM VerdictsAreStable == Spec => []StableUntilExpiry
  <1>1. ListInv => StableUntilExpiry
    <2> SUFFICES ASSUME ListInv, NEW v \in Versions, NEW critical \in BOOLEAN, NEW high \in BOOLEAN,
                        NEW t \in now..MaxTime,
                        LET d == Decision(policies, v, critical, high, now)
                        IN  d.nextExpiry = Never \/ t < d.nextExpiry
                 PROVE  Decision(policies, v, critical, high, now) = Decision(policies, v, critical, high, t)
      BY DEF StableUntilExpiry
    <2> DEFINE w == Select(policies, v)
    <2>1. \A u : Decision(policies, v, critical, high, u) = Resolve(w, critical, high, u)
      BY DEF Decision, resolveScanPolicy
    <2>2. w \in Pool \cup {NoPolicy}
      BY SelectType DEF ListInv, Listing
    <2>3. now \in Nat /\ t \in Nat /\ now <= t
      BY DecisionConstants DEF ListInv
    <2> HIDE DEF w
    <2>4. CASE w = NoPolicy
      BY <2>1, <2>4 DEF Resolve
    <2>5. CASE w \in Pool
      BY <2>1, <2>3, <2>5, ResolvedUntilExpiry
    <2>6. QED
      BY <2>2, <2>4, <2>5
  <1>2. QED
    BY <1>1, ListInvariance, PTL

\* A policy of lower priority than the one in force for a Version changes nothing
\* for it: Select never combines policies.
THEOREM LowerIsShadowed == Spec => LowerPriorityShadowed
  <1>1. ASSUME ListInv, ListInv', Next, NEW v, Len(policies') > Len(policies),
               Select(policies, v) # NoPolicy,
               policies'[Len(policies')].priority < Select(policies, v).priority
        PROVE  Select(policies', v) = Select(policies, v)
    <2>1. Listing(policies) /\ Listing(policies')
      BY <1>1 DEF ListInv, Listing, NamesApart
    <2>2. PICK p \in Pool : policies' = Append(policies, p)
      BY <1>1, <2>1 DEF Next, Create, Delete, Tick, Listing
    <2> DEFINE n == Len(policies) + 1
    <2>3. /\ n \in Nat /\ DOMAIN policies' = DOMAIN policies \cup {n} /\ n \notin DOMAIN policies
          /\ policies'[n] = p /\ Len(policies') = n
          /\ \A i \in DOMAIN policies : policies'[i] = policies[i]
      BY <2>1, <2>2 DEF Listing
    <2> HIDE DEF n
    <2>4. PICK i \in Matched(policies, v) : /\ First(policies, Matched(policies, v), i)
                                            /\ Select(policies, v) = policies[i]
      BY <1>1, <2>1, SelectIsFirst
    <2>5. policies[i] \in Pool /\ Before(policies[i], p)
      BY <1>1, <2>1, <2>3, <2>4, DecisionConstants DEF Before, Matched, Listing
    <2>6. /\ i \in Matched(policies', v)
          /\ Matched(policies', v) \subseteq Matched(policies, v) \cup {n}
      BY <2>3, <2>4 DEF Matched
    <2>7. First(policies', Matched(policies', v), i)
      BY <2>3, <2>4, <2>5, <2>6 DEF First, Matched
    <2>8. PICK j \in Matched(policies', v) : /\ First(policies', Matched(policies', v), j)
                                             /\ Select(policies', v) = policies'[j]
      BY <2>1, <2>6, SelectIsFirst
    <2>9. policies'[i] \in Pool /\ policies'[j] \in Pool
      BY <2>1, <2>6 DEF Listing, Matched
    <2>10. i = j
      BY <2>6, <2>7, <2>8, <2>9, BeforeOrders DEF First
    <2>11. QED
      BY <2>3, <2>4, <2>8, <2>10 DEF Matched
  <1>2. ListInv /\ ListInv' /\ [Next]_vars =>
          [ \A v \in Versions, critical \in BOOLEAN, high \in BOOLEAN :
              LET w == Select(policies, v) IN
                /\ Len(policies') > Len(policies)
                /\ w # NoPolicy
                /\ policies'[Len(policies')].priority < w.priority
                => Decision(policies', v, critical, high, now) = Decision(policies, v, critical, high, now)
          ]_vars
    BY <1>1, DecisionByWinner
  <1>3. QED
    BY <1>2, ListInvariance, PTL DEF LowerPriorityShadowed, Spec
=============================================================================
