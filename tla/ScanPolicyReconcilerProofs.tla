--------------------- MODULE ScanPolicyReconcilerProofs ---------------------
(***************************************************************************)
(* StatusAccurate for any number of policies, Versions and events.         *)
(***************************************************************************)
EXTENDS ScanPolicyReconciler, FiniteSetTheorems, WellFoundedInduction, TLAPS

\* An instant after which nothing expires shows the exemptions as every later
\* instant does.
LEMMA NothingExpires ==
  ASSUME NEW p \in Pool, NEW list, NEW vs, NEW t \in Nat, NEW u \in Nat, t <= u,
         expiriesAfter(p, t) = {}
  PROVE  observe(p, list, vs, t) = observe(p, list, vs, u)
  <1>1. ASSUME NEW i \in DOMAIN p.exemptions
        PROVE  InEffect(p.exemptions[i], t) <=> InEffect(p.exemptions[i], u)
    <2>1. p.exemptions[i].expires = Never \/ ~(p.exemptions[i].expires > t)
      BY DEF expiriesAfter
    <2>2. p.exemptions[i].expires \in Nat \cup {Never}
      BY PolicyConstants
    <2>3. QED
      BY <2>1, <2>2, PolicyConstants DEF InEffect
  <1>2. {i \in DOMAIN p.exemptions : InEffect(p.exemptions[i], t)}
          = {i \in DOMAIN p.exemptions : InEffect(p.exemptions[i], u)}
    BY <1>1
  <1>3. CountExemptions(p, t) = CountExemptions(p, u)
    BY <1>2 DEF CountExemptions
  <1>4. QED
    BY <1>3, Zenon DEF observe

\* An expiry to come has an earliest one, a number.
LEMMA NextIsNatural ==
  ASSUME NEW p \in Pool, NEW t \in Nat, expiriesAfter(p, t) # {}
  PROVE  nextExpiry(p, t) \in Nat /\ nextExpiry(p, t) > t
  <1> DEFINE S == expiriesAfter(p, t)
  <1>1. S \subseteq Nat /\ \A e \in S : e > t
    BY PolicyConstants DEF expiriesAfter
  <1>2. PICK e \in S : \A f \in S : <<f, e>> \notin OpToRel(<, Nat)
    <2> HIDE DEF S
    <2>1. S # {}
      BY DEF S
    <2>2. QED
      BY <1>1, <2>1, NatLessThanWellFounded, WFMin, Zenon
  <1>3. \A f \in S : e <= f
    <2> HIDE DEF S
    <2> TAKE f \in S
    <2>1. e \in Nat /\ f \in Nat
      BY <1>1
    <2>2. ASSUME f < e PROVE FALSE
      <3> DEFINE pair == <<f, e>>
      <3>1. pair \in Nat \X Nat /\ pair[1] < pair[2]
        BY <2>1, <2>2
      <3>2. QED
        BY <1>2, <3>1 DEF OpToRel
    <2>3. QED
      BY <2>1, <2>2
  <1>4. nextExpiry(p, t) \in S
    BY <1>3 DEF nextExpiry
  <1>5. QED
    BY <1>1, <1>4

\* observe gives every status a reason that fits its counts.
LEMMA ObservedFits ==
  ASSUME NEW p, NEW list, NEW vs, NEW t, NEW d \in observe(p, list, vs, t)
  PROVE  Fits(d)
  <1> DEFINE present == {v \in Version : vs[v] # NoVersion}
             invalid == SelectorError(p) /\ present # {}
             matched == {v \in present : Matches(p, vs[v])}
  <1>1. \/ /\ d.matchedVersions = 0
           /\ d.reason \in {"InvalidSelector", "NoMatchingVersions"}
        \/ /\ d.matchedVersions = Cardinality(matched) /\ matched # {}
           /\ \/ d.reason = "Active" /\ d.supersededBy = 0
              \/ d.reason = "Superseded"
    <2>1. Cardinality({}) = 0
      BY FS_EmptySet
    <2>2. CASE invalid
      BY <2>2 DEF observe
    <2>3. CASE ~invalid /\ matched = {}
      BY <2>1, <2>3 DEF observe
    <2>4. CASE ~invalid /\ matched # {}
      BY <2>4 DEF observe
    <2>5. QED
      BY <2>2, <2>3, <2>4
  <1>2. matched # {} => Cardinality(matched) # 0
    <2>1. IsFiniteSet(matched)
      BY PolicyConstants, FS_Subset
    <2>2. QED
      BY <2>1, FS_EmptySet
  <1> HIDE DEF matched
  <1>3. QED
    BY <1>1, <1>2 DEF Fits

\* The inductive invariant gives the property.
LEMMA ScheduledIsAccurate == StatusInv => StatusAccurate
  <1> SUFFICES ASSUME StatusInv, NEW n \in Existing, Settled(n) PROVE AsOf(n, now)
    BY DEF StatusAccurate
  <1>1. PICK t \in 0..now : AsOf(n, t) /\ expiriesAfter(policies[n], t) = {}
    BY DEF StatusInv, Scheduled, Settled
  <1>2. policies[n] \in Pool /\ now \in Nat /\ t \in Nat /\ t <= now
    BY DEF StatusInv, TypeOK, Existing, Exists
  <1>3. QED
    BY <1>1, <1>2, NothingExpires DEF AsOf

\* The invariant holds initially.
LEMMA InitInv == Init => StatusInv
  <1> SUFFICES ASSUME Init PROVE StatusInv
    OBVIOUS
  <1>1. TypeOK
    BY PolicyConstants DEF Init, TypeOK
  <1>2. Current
    BY DEF Init, Current, Free, Name
  <1>3. Scheduled
    BY DEF Init, Scheduled, Existing, Exists
  <1>4. Reasons
    BY DEF Init, Reasons
  <1>5. QED
    BY <1>1, <1>2, <1>3, <1>4 DEF StatusInv

\* Every action keeps the types.
LEMMA TypeStep == ASSUME TypeOK, [Next]_vars PROVE TypeOK'
  <1> USE PolicyConstants DEF TypeOK, Name
  <1>1. ASSUME NEW n \in Name, Reconcile(n) PROVE TypeOK'
    <2>1. CASE Exists(n)
      <3>1. worker' = [Free EXCEPT !.key = n, !.policy = policies[n], !.seen = status[n]]
        BY <1>1, <2>1 DEF Reconcile
      <3>2. worker'.key = n /\ worker'.at = 0 /\ DOMAIN worker' = DOMAIN Free
        BY <3>1 DEF Free
      <3>3. worker'.at \in 0..now' /\ step' = "listPolicies"
        BY <1>1, <2>1, <3>2 DEF Reconcile
      <3>4. QED
        BY <1>1, <3>2, <3>3 DEF Reconcile, env
    <2>2. CASE ~Exists(n)
      BY <1>1, <2>2 DEF Reconcile, env
    <2>3. QED
      BY <2>1, <2>2
  <1>2. ASSUME NEW n \in Name, TimerFires(n) PROVE TypeOK'
    BY <1>2 DEF TimerFires, env
  <1>3. ASSUME NEW n \in Name, WritePolicy(n) PROVE TypeOK'
    BY <1>3 DEF WritePolicy, Notify, scanPoliciesInNamespace
  <1>4. CASE ListPolicies
    BY <1>4 DEF ListPolicies, env
  <1>5. CASE ListVersions
    <2>1. UNCHANGED <<policies, versions, status, up, queue, now>>
      BY <1>5 DEF ListVersions, env
    <2>2. DOMAIN timer' = Name
      BY <1>5 DEF ListVersions, Requeued
    <2>3. CASE Release
      BY <1>5, <2>1, <2>2, <2>3 DEF Release, ListVersions
    <2>4. CASE ~Release
      <3>1. PICK d : step' = "write" /\ worker' = [worker EXCEPT !.desired = d, !.at = now]
        BY <1>5, <2>4 DEF ListVersions
      <3>2. worker'.key \in Name /\ worker'.at \in 0..now /\ DOMAIN worker' = DOMAIN Free
        BY <1>5, <3>1 DEF ListVersions, Free
      <3>3. QED
        BY <1>5, <2>1, <2>2, <3>1, <3>2 DEF ListVersions
    <2>5. QED
      BY <2>3, <2>4
  <1>6. CASE WriteStatus
    BY <1>6 DEF WriteStatus, Release, Requeued, env
  <1>7. CASE CallFails
    BY <1>7 DEF CallFails, Release
  <1>8. ASSUME NEW v \in Version, WriteVersion(v) PROVE TypeOK'
    BY <1>8 DEF WriteVersion, Notify, scanPoliciesInNamespace
  <1>9. CASE Crash
    BY <1>9 DEF Crash, Release
  <1>10. CASE Restart
    BY <1>10 DEF Restart, Existing, env
  <1>11. CASE Tick
    BY <1>11 DEF Tick, env
  <1>12. CASE UNCHANGED vars
    BY <1>12 DEF vars
  <1>13. QED
    BY <1>1, <1>2, <1>3, <1>4, <1>5, <1>6, <1>7, <1>8, <1>9, <1>10, <1>11, <1>12 DEF Next

\* A change of the policies or of the Versions puts every policy in the queue
\* of a running controller.
LEMMA EventsFanOut ==
  ASSUME TypeOK, [Next]_vars, up', <<policies, versions>>' # <<policies, versions>>
  PROVE  Existing' \subseteq queue' /\ UNCHANGED <<worker, step, up>> /\ queue \subseteq queue'
  <1>1. ASSUME NEW n \in Name, WritePolicy(n)
        PROVE  Existing' \subseteq queue' /\ UNCHANGED <<worker, step, up>> /\ queue \subseteq queue'
    BY <1>1 DEF WritePolicy, Notify, scanPoliciesInNamespace, Existing, Exists
  <1>2. ASSUME NEW v \in Version, WriteVersion(v)
        PROVE  Existing' \subseteq queue' /\ UNCHANGED <<worker, step, up>> /\ queue \subseteq queue'
    <2>1. PICK m \in (Metas \cup {NoVersion}) \ {versions[v]} :
             IF Respecced(versions[v], m) THEN Notify({}) ELSE UNCHANGED queue
      BY <1>2 DEF WriteVersion
    <2>2. Respecced(versions[v], m)
      BY <2>1, MetasDiffer DEF TypeOK, Respecced
    <2>3. UNCHANGED <<policies, worker, step, up>>
      BY <1>2 DEF WriteVersion
    <2>4. QED
      BY <2>1, <2>2, <2>3 DEF Notify, scanPoliciesInNamespace, Existing, Exists
  <1>3. \/ \E n \in Name : WritePolicy(n)
        \/ \E v \in Version : WriteVersion(v)
    BY DEF Next, vars, env, Reconcile, TimerFires, ListPolicies, ListVersions, WriteStatus,
       CallFails, Crash, Restart, Tick
  <1>4. QED
    BY <1>1, <1>2, <1>3

\* What the worker holds stays current.
LEMMA CurrentStep == ASSUME TypeOK, Current, [Next]_vars, TypeOK' PROVE Current'
  <1> DEFINE Holds(n) ==
        /\ Exists(n)
        /\ worker.policy = policies[n]
        /\ worker.seen = status[n]
        /\ step \in {"listVersions", "write"} => worker.list = policies
        /\ step = "write" =>
              worker.desired \in observe(policies[n], policies, versions, worker.at)
  <1> SUFFICES ASSUME NEW n \in Name, worker'.key = n, n \notin queue'
               PROVE  Holds(n)'
    BY DEF Current
  <1>0. step' # "idle" /\ up'
    BY DEF TypeOK, Free, Name
  <1>1. CASE <<policies, versions>>' # <<policies, versions>>
    <2>1. Existing' \subseteq queue' /\ UNCHANGED <<worker, step, up>> /\ queue \subseteq queue'
      BY <1>0, <1>1, EventsFanOut
    <2>2. Exists(n)
      BY <2>1 DEF Current
    <2>3. ~Exists(n)'
      BY <2>1 DEF Existing
    <2>4. n \in queue'
      <3>1. PICK m \in Name : WritePolicy(m)
        BY <2>2, <2>3 DEF Exists, Next, vars, env, Reconcile, TimerFires, ListPolicies,
           ListVersions, WriteStatus, CallFails, Crash, Restart, Tick, WriteVersion
      <3>2. m = n
        BY <2>2, <2>3, <3>1 DEF WritePolicy, Exists, TypeOK
      <3>3. QED
        BY <1>0, <2>1, <3>1, <3>2 DEF WritePolicy, Notify
    <2>5. QED
      BY <2>4
  <1>2. CASE UNCHANGED <<policies, versions>>
    <2> USE <1>2 DEF Exists
    <2>1. ASSUME NEW m \in Name, Reconcile(m) PROVE Holds(n)'
      BY <1>0, <2>1 DEF Reconcile, Free
    <2>2. ASSUME NEW m \in Name, TimerFires(m) PROVE Holds(n)'
      BY <2>2 DEF TimerFires, Current
    <2>3. ASSUME NEW m \in Name, WritePolicy(m) PROVE Holds(n)'
      BY <2>3 DEF WritePolicy, TypeOK
    <2>4. CASE ListPolicies
      BY <2>4 DEF ListPolicies, Current, TypeOK, Free
    <2>5. CASE ListVersions
      <3>1. PICK d \in observe(worker.policy, worker.list, versions, now) :
               worker' = [worker EXCEPT !.desired = d, !.at = now]
        BY <1>0, <2>5 DEF ListVersions, Release
      <3>2. /\ worker'.desired = d /\ worker'.at = now /\ worker'.key = worker.key
            /\ worker'.policy = worker.policy /\ worker'.seen = worker.seen
            /\ worker'.list = worker.list
        BY <2>5, <3>1 DEF TypeOK, ListVersions, Free
      <3>3. QED
        BY <2>5, <3>1, <3>2 DEF ListVersions, Current
    <2>6. CASE WriteStatus \/ CallFails \/ Crash
      BY <1>0, <2>6 DEF WriteStatus, CallFails, Crash, Release
    <2>7. ASSUME NEW v \in Version, WriteVersion(v) PROVE Holds(n)'
      BY <2>7 DEF WriteVersion, TypeOK
    <2>8. CASE Restart
      BY <1>0, <2>8 DEF Restart, TypeOK
    <2>9. CASE Tick \/ UNCHANGED vars
      BY <2>9 DEF Tick, vars, Current
    <2>10. QED
      BY <2>1, <2>2, <2>3, <2>4, <2>5, <2>6, <2>7, <2>8, <2>9 DEF Next
  <1>3. QED
    BY <1>1, <1>2

\* A reason is only ever written together with counts it fits.
LEMMA ReasonsStep == ASSUME TypeOK, Reasons, [Next]_vars PROVE Reasons'
  <1> USE DEF Reasons
  <1>1. CASE ListVersions
    <2>1. UNCHANGED status
      BY <1>1 DEF ListVersions
    <2>2. CASE Release
      BY <2>1, <2>2 DEF Release
    <2>3. CASE ~Release
      <3>1. PICK d \in observe(worker.policy, worker.list, versions, now) :
               worker' = [worker EXCEPT !.desired = d, !.at = now]
        BY <1>1, <2>3 DEF ListVersions
      <3>2. Fits(d)
        BY <3>1, ObservedFits
      <3>3. worker'.desired = d
        BY <1>1, <3>1 DEF TypeOK, ListVersions, Free
      <3>4. QED
        BY <2>1, <3>2, <3>3 DEF Fits
    <2>4. QED
      BY <2>2, <2>3
  <1>2. CASE WriteStatus
    <2>1. step' = "idle"
      BY <1>2 DEF WriteStatus, Release
    <2>2. ASSUME NEW n \in Name PROVE status'[n] \in {status[n], worker.desired}
      BY <1>2, <2>2 DEF WriteStatus, TypeOK
    <2>3. Fits(worker.desired)
      BY <1>2 DEF WriteStatus
    <2>4. QED
      BY <2>1, <2>2, <2>3 DEF Fits
  <1>3. ASSUME NEW n \in Name, WritePolicy(n) PROVE Reasons'
    <2>1. ASSUME NEW m \in Name PROVE status'[m] \in {status[m], NoStatus}
      BY <1>3, <2>1 DEF WritePolicy, TypeOK
    <2>2. QED
      BY <1>3, <2>1 DEF WritePolicy, Fits
  <1>4. ASSUME NEW n \in Name, Reconcile(n) PROVE Reasons'
    BY <1>4 DEF Reconcile, Fits
  <1>5. CASE ListPolicies \/ CallFails \/ Crash
    BY <1>5 DEF ListPolicies, CallFails, Crash, Release, Fits
  <1>6. CASE \/ \E n \in Name : TimerFires(n)
             \/ \E v \in Version : WriteVersion(v)
             \/ Restart \/ Tick \/ UNCHANGED vars
    BY <1>6 DEF TimerFires, WriteVersion, Restart, Tick, vars, Fits
  <1>7. QED
    BY <1>1, <1>2, <1>3, <1>4, <1>5, <1>6 DEF Next

\* A status that goes out of date has its policy in the queue or a wake-up
\* ahead.
LEMMA ScheduledStep ==
  ASSUME StatusInv, [Next]_vars, TypeOK' PROVE Scheduled'
  <1> DEFINE Fine(n) == \E t \in 0..now :
                AsOf(n, t) /\ (timer[n] = Never => expiriesAfter(policies[n], t) = {})
  <1> SUFFICES ASSUME NEW n \in Existing', up', n \notin queue', worker'.key # n
               PROVE  Fine(n)'
    BY DEF Scheduled
  <1> USE DEF StatusInv
  <1>0. n \in Name
    BY DEF Existing
  <1>1. UNCHANGED <<policies, versions>>
    BY EventsFanOut
  <1>2. n \in Existing
    BY <1>1 DEF Existing, Exists
  <1>3. ASSUME n \notin queue, worker.key # n, up, status'[n] = status[n], timer'[n] = timer[n],
               now' = now \/ now' = now + 1
        PROVE  Fine(n)'
    <2>1. PICK t \in 0..now : AsOf(n, t) /\ (timer[n] = Never => expiriesAfter(policies[n], t) = {})
      BY <1>2, <1>3 DEF Scheduled
    <2>2. t \in 0..now'
      BY <1>3, <2>1 DEF TypeOK
    <2>3. QED
      BY <1>1, <1>3, <2>1, <2>2 DEF AsOf
  <1>4. ASSUME NEW m \in Name, Reconcile(m) PROVE Fine(n)'
    <2>1. n # m
      BY <1>2, <1>4 DEF Reconcile, Existing, Free
    <2>2. worker.key # n
      BY <1>0, <1>4 DEF Reconcile, TypeOK, Free, Name
    <2>3. QED
      BY <1>3, <1>4, <2>1, <2>2 DEF Reconcile
  <1>5. ASSUME NEW m \in Name, TimerFires(m) PROVE Fine(n)'
    BY <1>0, <1>3, <1>5 DEF TimerFires, TypeOK
  <1>6. ASSUME NEW m \in Name, WritePolicy(m) PROVE Fine(n)'
    BY <1>1, <1>6 DEF WritePolicy, TypeOK
  <1>7. CASE ListPolicies
    BY <1>3, <1>7 DEF ListPolicies, TypeOK, Free
  <1>8. CASE ListVersions
    <2>1. CASE worker.key # n
      BY <1>0, <1>3, <1>8, <2>1 DEF ListVersions, Requeued, TypeOK
    <2>2. CASE worker.key = n
      <3>1. PICK d \in observe(worker.policy, worker.list, versions, now) :
               Unchanged(worker.seen, d) /\ Requeued(now)
        BY <1>8, <2>2 DEF ListVersions, TypeOK, Free
      <3>2. worker.policy = policies[n] /\ worker.list = policies /\ worker.seen = status[n]
        BY <1>0, <1>8, <2>2 DEF Current, ListVersions
      <3>3. AsOf(n, now)' /\ now' = now /\ now \in 0..now
        <4>1. status'[n] = status[n] /\ now' = now /\ now \in 0..now
          BY <1>8 DEF ListVersions, TypeOK
        <4>2. Fits(status[n])
          BY <1>0, <3>1, <3>2 DEF Reasons, Unchanged, NoStatus
        <4>3. Unchanged(status[n], d) /\ d \in observe(policies[n], policies, versions, now)
          BY <3>1, <3>2
        <4>4. QED
          BY <1>1, <4>1, <4>2, <4>3 DEF AsOf, Fits, Unchanged
      <3>4. timer'[n] = Never => expiriesAfter(policies'[n], now) = {}
        <4>1. now \in Nat /\ now \in Nat
          BY <3>3 DEF TypeOK
        <4>2. policies[n] \in Pool
          BY <1>2 DEF Existing, Exists, TypeOK
        <4>3. expiriesAfter(policies[n], now) # {} =>
                 now + (nextExpiry(policies[n], now) - now) # Never
          BY <4>1, <4>2, NextIsNatural, PolicyConstants
        <4>4. QED
          BY <1>0, <1>1, <2>2, <3>1, <3>2, <4>3 DEF Requeued, TypeOK
      <3>5. QED
        BY <3>3, <3>4
    <2>3. QED
      BY <2>1, <2>2
  <1>9. CASE WriteStatus
    <2>1. CASE worker.key # n
      BY <1>0, <1>3, <1>9, <2>1 DEF WriteStatus, Requeued, TypeOK
    <2>2. CASE worker.key = n
      <3>1. Requeued(worker.at) /\ status'[n] = worker.desired
        BY <1>0, <1>9, <2>2 DEF WriteStatus, TypeOK
      <3>2. worker.policy = policies[n] /\ worker.desired \in observe(policies[n], policies, versions, worker.at)
        BY <1>0, <1>9, <2>2 DEF Current, WriteStatus
      <3>a. worker.at \in 0..now /\ now' = now
        BY <1>9 DEF WriteStatus, TypeOK
      <3> DEFINE at == worker.at
      <3>3. status'[n] \in observe(policies'[n], policies', versions', at)
        BY <1>1, <3>1, <3>2
      <3>4. timer'[n] = Never => expiriesAfter(policies'[n], worker.at) = {}
        <4>1. worker.at \in Nat /\ now \in Nat
          BY <3>a DEF TypeOK
        <4>2. policies[n] \in Pool
          BY <1>2 DEF Existing, Exists, TypeOK
        <4>3. expiriesAfter(policies[n], worker.at) # {} =>
                 now + (nextExpiry(policies[n], worker.at) - worker.at) # Never
          BY <4>1, <4>2, NextIsNatural, PolicyConstants
        <4>4. QED
          BY <1>0, <1>1, <2>2, <3>1, <3>2, <4>3 DEF Requeued, TypeOK
      <3> HIDE DEF at
      <3>5. Unchanged(status'[n], status'[n]) /\ Fits(status'[n])
        BY <1>9, <3>1 DEF Reasons, WriteStatus, Fits, Unchanged
      <3>6. QED
        BY <3>a, <3>3, <3>4, <3>5 DEF AsOf, at
    <2>3. QED
      BY <2>1, <2>2
  <1>10. CASE CallFails
    BY <1>3, <1>10 DEF CallFails
  <1>11. ASSUME NEW v \in Version, WriteVersion(v) PROVE Fine(n)'
    BY <1>1, <1>11 DEF WriteVersion, TypeOK
  <1>12. CASE Crash \/ Restart
    BY <1>2, <1>12, <1>1 DEF Crash, Restart
  <1>13. CASE Tick \/ UNCHANGED vars
    BY <1>3, <1>13 DEF Tick, vars
  <1>14. QED
    BY <1>4, <1>5, <1>6, <1>7, <1>8, <1>9, <1>10, <1>11, <1>12, <1>13 DEF Next

\* The types hold, the worker never acts on reads that an event outdated
\* without being told to start again, and every status is right up to a
\* scheduled expiry: the inductive invariant of the ScanPolicy controller.
THEOREM StatusInvariance == Spec => []StatusInv
  <1>1. Init => StatusInv
    BY InitInv
  <1>2. StatusInv /\ [Next]_vars => StatusInv'
    BY TypeStep, CurrentStep, ReasonsStep, ScheduledStep DEF StatusInv
  <1>3. QED
    BY <1>1, <1>2, PTL DEF Spec

\* A settled status is accurate, for any number of policies, Versions, edits,
\* crashes and failed calls.
THEOREM StatusCorrect == Spec => []StatusAccurate
  BY StatusInvariance, ScheduledIsAccurate, PTL
=============================================================================
