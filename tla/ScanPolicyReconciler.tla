------------------------ MODULE ScanPolicyReconciler ------------------------
(***************************************************************************)
(* The ScanPolicy controller: it reports in the status of every ScanPolicy *)
(* how many Versions it matches, which policy supersedes it and how many   *)
(* of its exemptions are in effect.                                        *)
(* services/version/internal/controller/opendepot_scanpolicy_controller.go *)
(*                                                                         *)
(* A policy's name is its index in the list the API server returns.  The   *)
(* controller has one worker.  Time passes between any two of its steps.   *)
(***************************************************************************)
EXTENDS ScanPolicy

CONSTANTS
    MaxPolicies,   \* names a policy can have
    Pool,          \* the policies operators write
    Version,       \* keys of the Version objects
    Metas,         \* what the Versions may look like to the policy package
    NoVersion,     \* the key names no object
    MaxTime,       \* bound of the clock
    Budget         \* how often each kind of environment event may happen

Name == 1..MaxPolicies

EventKind == {"policy", "version", "crash", "fault"}

ASSUME PolicyConstants ==
    /\ MaxPolicies \in Nat
    /\ MaxTime \in Nat
    /\ NoPolicy \notin Pool
    /\ NoVersion \notin Metas
    /\ IsFiniteSet(Version)
    /\ Budget \in [EventKind -> Nat]
    /\ Never \notin Nat
    /\ \A p \in Pool : \A i \in DOMAIN p.exemptions :
          p.exemptions[i].expires \in Nat \cup {Never}

\* Only a change of the spec passes GenerationChangedPredicate: labels do not
\* count.
Respecced(old, new) ==
    \/ NoVersion \in {old, new}
    \/ old.number # new.number
    \/ old.configName # new.configName

\* Two looks of a Version differ in its spec: labels alone are not edited.
ASSUME MetasDiffer == \A m, n \in Metas : m # n => Respecced(m, n)

VARIABLES
    policies,  \* API server: the ScanPolicy of each name
    status,    \* API server: its status
    versions,  \* API server: the Version objects
    up, queue, timer,
    step,      \* where the worker stands
    worker,    \* what it holds: the key, the policy and the status it read...
    now,
    budget

vars == <<policies, status, versions, up, queue, timer, step, worker, now, budget>>
env  == <<policies, versions, budget>>

Exists(n) == policies[n] # NoPolicy
Existing  == {n \in Name : Exists(n)}

\* The empty status of a new ScanPolicy: counts of zero and no Ready condition.
NoStatus == [activeExemptions |-> 0, expiredExemptions |-> 0, matchedVersions |-> 0,
             supersededBy |-> 0, reason |-> "None"]

Free == [key |-> 0, policy |-> NoPolicy, seen |-> NoStatus, list |-> <<>>,
         desired |-> NoStatus, at |-> 0]

Init ==
    /\ policies = [n \in Name |-> NoPolicy]
    /\ status = [n \in Name |-> NoStatus]
    /\ versions = [v \in Version |-> NoVersion]
    /\ up = TRUE
    /\ queue = {}
    /\ timer = [n \in Name |-> Never]
    /\ step = "idle"
    /\ worker = Free
    /\ now = 0
    /\ budget = Budget

Spend(kind) == /\ budget[kind] > 0
               /\ budget' = [budget EXCEPT ![kind] = @ - 1]

-----------------------------------------------------------------------------
\* What the status should say

Listed(list) == SelectSeq(list, LAMBDA p : p # NoPolicy)

\* observe: the possible results, since the Versions come in any order and the
\* first policy that shadows this one is reported.
observe(policy, list, vs, t) ==
    LET count   == CountExemptions(policy, t)
        present == {v \in Version : vs[v] # NoVersion}
        invalid == SelectorError(policy) /\ present # {}
        matched == {v \in present : Matches(policy, vs[v])}
        winners == {Select(Listed(list), vs[v]) : v \in matched} \ {NoPolicy}
        wins    == \E w \in winners : w.name = policy.name
        Report(reason, by) ==
            [activeExemptions |-> count.active, expiredExemptions |-> count.expired,
             matchedVersions |-> IF invalid THEN 0 ELSE Cardinality(matched),
             supersededBy |-> by, reason |-> reason]
    IN  CASE invalid                       -> {Report("InvalidSelector", 0)}
          [] ~invalid /\ matched = {}      -> {Report("NoMatchingVersions", 0)}
          [] ~invalid /\ matched # {} /\ wins -> {Report("Active", 0)}
          [] OTHER -> {Report("Superseded", by) :
                          by \in IF winners = {} THEN {0} ELSE {w.name : w \in winners}}

\* The expiries after t, and the earliest of them.
expiriesAfter(policy, t) ==
    {policy.exemptions[i].expires : i \in
        {j \in DOMAIN policy.exemptions : /\ policy.exemptions[j].expires # Never
                                         /\ policy.exemptions[j].expires > t}}

nextExpiry(policy, t) ==
    CHOOSE e \in expiriesAfter(policy, t) : \A f \in expiriesAfter(policy, t) : e <= f

-----------------------------------------------------------------------------
\* Reconcile

Release == step' = "idle" /\ worker' = Free

\* A worker takes a key and reads the policy; a policy that is gone needs
\* nothing.
Reconcile(n) ==
    /\ up /\ step = "idle"
    /\ n \in queue
    /\ queue' = queue \ {n}
    /\ IF Exists(n)
       THEN /\ step' = "listPolicies"
            /\ worker' = [Free EXCEPT !.key = n, !.policy = policies[n], !.seen = status[n]]
       ELSE UNCHANGED <<step, worker>>
    /\ UNCHANGED <<env, status, up, timer, now>>

ListPolicies ==
    /\ step = "listPolicies"
    /\ step' = "listVersions"
    /\ worker' = [worker EXCEPT !.list = policies]
    /\ UNCHANGED <<env, status, up, queue, timer, now>>

\* Mutant: no wake-up at the expiry of an exemption.
Mutant_RequeuedNever(at) == UNCHANGED timer

\* RequeueAfter counts from the return of Reconcile, the delay from the
\* instant the exemptions were counted at; no expiry to come, no requeue.
Requeued(at) ==
    LET due == now + (nextExpiry(worker.policy, at) - at)
    IN  timer' = [timer EXCEPT ![worker.key] =
                     IF /\ expiriesAfter(worker.policy, at) # {}
                        /\ @ = Never \/ due < @
                     THEN due ELSE @]

\* observe starts from the conditions of the status that was read, and
\* SetStatusCondition edits the Ready condition it finds there in place: the
\* comparison sees the counts and the superseding policy, never a new reason.
\* Only a status without the condition differs from any other.
Unchanged(seen, desired) ==
    /\ seen.reason # "None"
    /\ \A f \in DOMAIN desired \ {"reason"} : seen[f] = desired[f]

\* The Versions are listed, the clock is read and the status is computed; one
\* that looks unchanged is not written.
ListVersions ==
    /\ step = "listVersions"
    /\ \E desired \in observe(worker.policy, worker.list, versions, now) :
          IF Unchanged(worker.seen, desired)
          THEN Release /\ Requeued(now)
          ELSE /\ step' = "write"
               /\ worker' = [worker EXCEPT !.desired = desired, !.at = now]
               /\ UNCHANGED timer
    /\ UNCHANGED <<env, status, up, queue, now>>

\* The status is written on a fresh copy of the policy.
WriteStatus ==
    /\ step = "write"
    /\ IF Exists(worker.key)
       THEN /\ status' = [status EXCEPT ![worker.key] = worker.desired]
            /\ Requeued(worker.at)
            /\ UNCHANGED queue
       ELSE /\ queue' = queue \cup {worker.key}
            /\ UNCHANGED <<status, timer>>
    /\ Release
    /\ UNCHANGED <<env, up, now>>

\* A failed List or status update is returned as an error.
CallFails ==
    /\ step # "idle"
    /\ Spend("fault")
    /\ queue' = queue \cup {worker.key}
    /\ Release
    /\ UNCHANGED <<policies, versions, status, up, timer, now>>

TimerFires(n) ==
    /\ timer[n] # Never /\ timer[n] <= now
    /\ timer' = [timer EXCEPT ![n] = Never]
    /\ queue' = queue \cup {n}
    /\ UNCHANGED <<env, status, up, step, worker, now>>

Crash ==
    /\ up
    /\ Spend("crash")
    /\ up' = FALSE
    /\ queue' = {}
    /\ timer' = [n \in Name |-> Never]
    /\ Release
    /\ UNCHANGED <<policies, versions, status, now>>

\* The informers replay every ScanPolicy.
Restart ==
    /\ ~up
    /\ up' = TRUE
    /\ queue' = Existing
    /\ UNCHANGED <<env, status, timer, step, worker, now>>

-----------------------------------------------------------------------------
\* The environment and its events

\* Mutant: only the policy that changed is enqueued.
Mutant_scanPoliciesOwn(list, changed) == {n \in Name : list[n] # NoPolicy} \cap changed

\* scanPoliciesInNamespace: whatever changed, every ScanPolicy is enqueued.
scanPoliciesInNamespace(list, changed) == {n \in Name : list[n] # NoPolicy}

\* The primary watch enqueues the policy itself too, also when it was deleted.
Notify(changed) ==
    queue' = IF up THEN queue \cup changed \cup scanPoliciesInNamespace(policies', changed)
             ELSE queue

\* An operator creates a policy (status empty), changes its spec or deletes it.
WritePolicy(n) ==
    /\ Spend("policy")
    /\ \E p \in {q \in Pool : q.name = n} \cup {NoPolicy} :
          /\ p # policies[n]
          /\ policies' = [policies EXCEPT ![n] = p]
          /\ status' = [status EXCEPT ![n] = IF Exists(n) /\ p # NoPolicy THEN @ ELSE NoStatus]
    /\ Notify({n})
    /\ UNCHANGED <<versions, up, timer, step, worker, now>>

\* A Version is created, changed or deleted.
WriteVersion(v) ==
    /\ Spend("version")
    /\ \E m \in (Metas \cup {NoVersion}) \ {versions[v]} :
          /\ versions' = [versions EXCEPT ![v] = m]
          /\ UNCHANGED policies
          /\ IF Respecced(versions[v], m) THEN Notify({}) ELSE UNCHANGED queue
    /\ UNCHANGED <<status, up, timer, step, worker, now>>

Tick ==
    /\ now < MaxTime
    /\ now' = now + 1
    /\ UNCHANGED <<env, status, up, queue, timer, step, worker>>

-----------------------------------------------------------------------------
Next ==
    \/ \E n \in Name : Reconcile(n) \/ TimerFires(n) \/ WritePolicy(n)
    \/ ListPolicies \/ ListVersions \/ WriteStatus \/ CallFails
    \/ \E v \in Version : WriteVersion(v)
    \/ Crash \/ Restart \/ Tick

Spec == Init /\ [][Next]_vars

-----------------------------------------------------------------------------
\* Properties

\* What a reason says of the counts beside it.  Of the two reasons without a
\* match, and of the two without a superseding policy, either may stand: the
\* code does not write a change from one to the other.
Fits(s) ==
    s.reason \in
        CASE s.matchedVersions = 0                        -> {"NoMatchingVersions", "InvalidSelector"}
          [] s.matchedVersions # 0 /\ s.supersededBy # 0 -> {"Superseded"}
          [] OTHER                                        -> {"Active", "Superseded"}

\* The counts and the superseding policy n reports are those it should report
\* as of the instant t, and the reason is not at odds with them.
AsOf(n, t) ==
    /\ \E d \in observe(policies[n], policies, versions, t) : Unchanged(status[n], d)
    /\ Fits(status[n])

\* The controller has nothing to do for a policy and nothing scheduled.
Settled(n) == up /\ n \notin queue /\ worker.key # n /\ timer[n] = Never

\* No event is missed: a policy the controller will not look at again reports
\* the counts and the superseding policy of this moment, whatever happened to
\* the policy, its peers, the Versions and the clock while they were being
\* computed.  Its Ready reason agrees with them but may be an earlier one (see
\* Unchanged).
StatusAccurate == \A n \in Existing : Settled(n) => AsOf(n, now)

\* A policy waiting for neither the worker nor the queue reports counts that are
\* right up to the passing of time, and an expiry that makes them wrong is
\* scheduled.
Scheduled ==
    \A n \in Existing :
        up /\ n \notin queue /\ worker.key # n =>
            \E t \in 0..now :
                AsOf(n, t) /\ (timer[n] = Never => expiriesAfter(policies[n], t) = {})

-----------------------------------------------------------------------------
\* The inductive invariant behind StatusAccurate

\* What the worker has read is still so, or its key is queued again.
Current ==
    \A n \in Name :
        worker.key = n /\ n \notin queue =>
            /\ Exists(n)
            /\ worker.policy = policies[n]
            /\ worker.seen = status[n]
            /\ step \in {"listVersions", "write"} => worker.list = policies
            /\ step = "write" =>
                  worker.desired \in observe(policies[n], policies, versions, worker.at)

\* No status was ever written, or is about to be, whose reason contradicts it.
Reasons ==
    /\ \A n \in Name : status[n] # NoStatus => Fits(status[n])
    /\ step = "write" => Fits(worker.desired)

\* Every variable has its type, and the worker is free exactly when it has no
\* key.
TypeOK ==
    /\ policies \in [Name -> Pool \cup {NoPolicy}]
    /\ versions \in [Version -> Metas \cup {NoVersion}]
    /\ DOMAIN status = Name /\ DOMAIN timer = Name
    /\ up \in BOOLEAN
    /\ queue \subseteq Name
    /\ step \in {"idle", "listPolicies", "listVersions", "write"}
    /\ ~up => step = "idle"
    /\ IF step = "idle" THEN worker = Free
       ELSE worker.key \in Name /\ worker.at \in 0..now /\ DOMAIN worker = DOMAIN Free
    /\ now \in Nat

\* What the worker of a policy has read is still so unless the policy is queued
\* again, a status at rest counts right, with a timer for the next expiry, and
\* no reason contradicts its counts (Reconcile, observe and nextExpiry, between
\* any two calls).
StatusInv == TypeOK /\ Current /\ Reasons /\ Scheduled
=============================================================================
