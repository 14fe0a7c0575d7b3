-------------------------- MODULE ProviderReconciler --------------------------
(***************************************************************************)
(* The Provider controller beside the Depot controller that writes the     *)
(* list of versions, and beside the Version controller.                    *)
(* services/provider/internal/controller/opendepot_providers_controller.go *)
(*                                                                         *)
(* A Provider has one Version object per version and platform.  The        *)
(* Version controller is reduced to what the others see of it: it puts its *)
(* finalizer on a Version and finishes a deletion.                         *)
(***************************************************************************)
EXTENDS DepotReconciler

CONSTANTS
    LabelOf,         \* the name GetName gives a Provider: its label and its prefix
    PatientOperator  \* the Depot is edited only while everything rests

ASSUME ProviderConstants == LabelOf \in [Provider -> Provider \cup {Unset}]

VARIABLES
    version,   \* API server: the Version objects of the Providers
    pqueue,    \* Providers waiting for the worker
    ppc, plocal

providerVars == <<version, pqueue, ppc, plocal>>
supplyVars   == <<depotVars, resource, providerVars>>

Key == Provider \X Number \X Platform

NoVersion == [exists |-> FALSE, finalizer |-> FALSE, deleting |-> FALSE, queued |-> FALSE,
              config |-> Unset]

\* The Provider and the Versions the loop still has to process, the Version it
\* read, the desired names and the Versions to delete.
PIdle == [name |-> Unset, provider |-> NoResource, keep |-> {}, todo |-> {}, object |-> NoVersion,
          desired |-> {}, doomed |-> {}]

SupplyInit ==
    /\ DepotInit
    /\ version = [k \in Key |-> NoVersion]
    /\ pqueue = {}
    /\ ppc = "idle"
    /\ plocal = PIdle

\* Mutant: an error is logged and dropped.
Mutant_PReturnForgets(requeue) ==
    /\ ppc' = "idle"
    /\ plocal' = PIdle
    /\ UNCHANGED pqueue

\* Reconcile returns: an error puts the Provider back into the queue.
PReturn(requeue) ==
    /\ ppc' = "idle"
    /\ plocal' = PIdle
    /\ pqueue' = IF requeue THEN pqueue \cup {plocal.name} ELSE pqueue

\* Mutant: only a change of the list of versions is an event.
Mutant_ChangedVersions(old, new) == old.exists # new.exists \/ old.versions # new.versions

\* GenerationChangedPredicate: a change of the status is no event.
ProviderChanged(old, new) ==
    \/ old.exists # new.exists
    \/ <<old.config, old.versions, old.forceSync>> # <<new.config, new.versions, new.forceSync>>

-----------------------------------------------------------------------------
\* Reconcile

Newest(S, n) == {v \in S : Cardinality({w \in S : w > v}) < n}

\* Mutant: the oldest versions are kept.
Mutant_KeepOldest(versions, limit) ==
    {v \in versions : Cardinality({w \in versions : w < v}) < limit}

\* VersionsToKeep: the tail of the sorted list.
ToKeep(versions, limit) == Newest(versions, limit)

\* Where a Provider that was read leads: a config without platforms is an
\* error, a limit above the number of versions a panic.
Check(p) ==
    CASE p.config.platforms = {} \/ p.config.limit > Cardinality(p.versions) -> "error"
      [] p.config.platforms # {} /\ 0 < p.config.limit /\ p.config.limit < Cardinality(p.versions) -> "trim"
      [] OTHER -> "loop"

\* The Versions a Provider asks for.
Desired(n, p) == {n} \X p.versions \X p.config.platforms

ProviderReconcile(n) ==
    LET p == resource[n] IN
    /\ n \in pqueue /\ ppc = "idle"
    /\ IF p.exists /\ Check(p) # "error"
       THEN /\ pqueue' = pqueue \ {n}
            /\ ppc' = Check(p)
            /\ plocal' = [PIdle EXCEPT !.name = n, !.provider = p,
                                       !.keep = ToKeep(p.versions, p.config.limit),
                                       !.todo = Desired(n, p), !.desired = Desired(n, p)]
       ELSE /\ pqueue' = IF p.exists THEN pqueue ELSE pqueue \ {n}
            /\ UNCHANGED <<ppc, plocal>>
    /\ UNCHANGED <<depotVars, resource, version>>

\* The list is replaced, on a fresh copy, by what was kept of the one read.
TrimProvider ==
    LET n == plocal.name
        p == [resource[n] EXCEPT !.versions = plocal.keep]
    IN  /\ ppc = "trim"
        /\ resource' = [resource EXCEPT ![n] = p]
        /\ pqueue' = IF ProviderChanged(resource[n], p) THEN pqueue \cup {n} ELSE pqueue
        /\ ppc' = "loop"
        /\ plocal' = [plocal EXCEPT !.provider = p, !.todo = Desired(n, p), !.desired = Desired(n, p)]
        /\ UNCHANGED <<depotVars, version>>

AfterLoop(p) == IF p.forceSync THEN "reset" ELSE "status"

\* The loop visits every Version once, in any order.
Current == CHOOSE k \in plocal.todo : TRUE

ReadOwned ==
    /\ ppc = "loop"
    /\ IF plocal.todo = {} THEN ppc' = AfterLoop(plocal.provider) /\ UNCHANGED plocal
       ELSE /\ plocal' = [plocal EXCEPT !.object = version[Current]]
            /\ ppc' = "write"
    /\ UNCHANGED <<depotVars, resource, version, pqueue>>

\* versionForProvider: labels, spec and owner, and no finalizer.  A terminating
\* object that loses its finalizer is gone.
Rewritten(o, config) ==
    IF o.exists /\ o.deleting THEN NoVersion
    ELSE [o EXCEPT !.exists = TRUE, !.finalizer = FALSE, !.config = config,
                   !.queued = @ \/ ~o.exists \/ o.config # config]

\* Create, or Update with the resource version that was read; an object that
\* changed in between is an error, without a retry.
WriteOwned ==
    LET k == Current IN
    /\ ppc = "write"
    /\ IF version[k] = plocal.object
       THEN /\ version' = [version EXCEPT ![k] = Rewritten(@, plocal.provider.config)]
            /\ plocal' = [plocal EXCEPT !.todo = @ \ {k}, !.object = NoVersion]
            /\ ppc' = "loop"
            /\ UNCHANGED pqueue
       ELSE PReturn(TRUE) /\ UNCHANGED version
    /\ UNCHANGED <<depotVars, resource>>

ProviderResetForceSync ==
    LET n == plocal.name
        p == [resource[n] EXCEPT !.forceSync = FALSE]
    IN  /\ ppc = "reset"
        /\ resource' = [resource EXCEPT ![n] = p]
        /\ pqueue' = IF ProviderChanged(resource[n], p) THEN pqueue \cup {n} ELSE pqueue
        /\ ppc' = "status"
        /\ UNCHANGED <<depotVars, version, plocal>>

\* GetLatestVersion is asked of the fresh copy.
ProviderStatus ==
    LET n == plocal.name IN
    /\ ppc = "status"
    /\ resource' = [resource EXCEPT ![n] = [resource[n] EXCEPT !.synced = TRUE,
                       !.latest = IF resource[n].versions = {} THEN resource[n].latest
                                  ELSE CHOOSE v \in resource[n].versions :
                                          \A w \in resource[n].versions : w <= v]]
    /\ ppc' = "removals"
    /\ UNCHANGED <<depotVars, version, pqueue, plocal>>

\* ReconcileVersionRemovals lists the Versions labelled with the name of the
\* Provider object.
ListStale ==
    LET n      == plocal.name
        doomed == {k \in Key : LabelOf[k[1]] = n /\ version[k].exists} \ plocal.desired
    IN  /\ ppc = "removals"
        /\ IF doomed = {} THEN PReturn(FALSE)
           ELSE /\ plocal' = [plocal EXCEPT !.doomed = doomed]
                /\ ppc' = "delete"
                /\ UNCHANGED pqueue
        /\ UNCHANGED <<depotVars, resource, version>>

DeletedVersion(o) == IF o.finalizer THEN [o EXCEPT !.deleting = TRUE, !.queued = @ \/ ~o.deleting]
                     ELSE NoVersion

\* One Delete after the other; a Version that is gone is an error.
DeleteStale ==
    LET k == CHOOSE j \in plocal.doomed : TRUE IN
    /\ ppc = "delete"
    /\ IF version[k].exists
       THEN /\ version' = [version EXCEPT ![k] = DeletedVersion(@)]
            /\ IF plocal.doomed = {k} THEN PReturn(FALSE)
               ELSE /\ plocal' = [plocal EXCEPT !.doomed = @ \ {k}]
                    /\ UNCHANGED <<ppc, pqueue>>
       ELSE PReturn(TRUE) /\ UNCHANGED version
    /\ UNCHANGED <<depotVars, resource>>

-----------------------------------------------------------------------------
\* Failures and the environment

ProviderInterrupted ==
    /\ ppc # "idle"
    /\ DSpend("disturb")
    /\ PReturn(TRUE)
    /\ UNCHANGED <<depot, releases, dqueue, dpc, dlocal, resource, version>>

ForceProvider(n) ==
    /\ resource[n].exists /\ ~resource[n].forceSync
    /\ DSpend("disturb")
    /\ resource' = [resource EXCEPT ![n].forceSync = TRUE]
    /\ pqueue' = pqueue \cup {n}
    /\ UNCHANGED <<depot, releases, dqueue, dpc, dlocal, version, ppc, plocal>>

\* The Version controller: the finalizer, and the end of a deletion.
SyncVersion(k) ==
    /\ version[k].queued
    /\ version' = [version EXCEPT ![k] =
                      IF @.deleting THEN NoVersion
                      ELSE [@ EXCEPT !.finalizer = TRUE, !.queued = FALSE]]
    /\ UNCHANGED <<depotVars, resource, pqueue, ppc, plocal>>

DepotRests == ~dqueue /\ dpc = "idle"
AllRest == /\ DepotRests /\ pqueue = {} /\ ppc = "idle"
           /\ \A k \in Key : ~version[k].queued

\* A step of the Depot controller or of its environment; what it writes is an
\* event for the Provider controller.
DepotSide ==
    /\ DepotNext
    /\ PatientOperator /\ dbudget'["edit"] # dbudget["edit"] => AllRest
    /\ pqueue' = pqueue \cup {n \in Provider : ProviderChanged(resource[n], resource'[n])}
    /\ UNCHANGED <<version, ppc, plocal>>

ProviderStep ==
    \/ TrimProvider \/ ReadOwned \/ WriteOwned \/ ProviderResetForceSync
    \/ ProviderStatus \/ ListStale \/ DeleteStale

SupplyNext ==
    \/ DepotSide
    \/ \E n \in Provider : ProviderReconcile(n) \/ ForceProvider(n)
    \/ ProviderStep \/ ProviderInterrupted
    \/ \E k \in Key : SyncVersion(k)

\* Workers that can go on do, queues are served, and the poll timer fires.
SupplyFairness ==
    /\ WF_supplyVars(DepotSide /\ (DepotReconcile \/ DepotStep))
    /\ WF_supplyVars(DepotSide /\ Poll)
    /\ WF_supplyVars(ProviderStep)
    /\ \A n \in Provider : SF_supplyVars(ProviderReconcile(n))
    /\ \A k \in Key : WF_supplyVars(SyncVersion(k))

SupplySpec == SupplyInit /\ [][SupplyNext]_supplyVars /\ SupplyFairness

-----------------------------------------------------------------------------
\* Properties

\* The first k configs of a list are in the resources, the last one of its name.
Carried(c, k) ==
    \A i \in 1..k : (\A j \in 1..k : i < j => c[j].name # c[i].name) =>
        resource[c[i].name].exists /\ resource[c[i].name].config = c[i]

\* Once the Depot controller rests, every resource the Depot configures
\* carries the effective config, the last one of its name, and the status names
\* them all: no edit made while a reconcile runs is lost, and no failure leaves
\* a part undone.
DepotApplied ==
    DepotRests /\ depot.exists =>
        LET c == Configs(depot.spec) IN
        /\ depot.status = [i \in DOMAIN c |-> c[i].name]
        /\ Carried(c, Len(c))

\* The Versions of a Provider that are there to stay.
Lasting(n) == {k \in Key : k[1] = n /\ version[k].exists /\ ~version[k].deleting}

\* Once the Provider controller is done with a Provider that is labelled with its
\* own name, every Version that is neither listed nor on a configured platform is
\* gone or terminating, whatever happened while it ran.
NothingStale ==
    \A n \in Provider :
        /\ resource[n].exists /\ LabelOf[n] = n
        /\ n \notin pqueue /\ ~(ppc # "idle" /\ plocal.name = n)
        => Lasting(n) \subseteq Desired(n, resource[n])

\* What may be listed for a resource at this moment.
Offered(n) == Matching({releases[n][i] : i \in DOMAIN releases[n]}, resource[n].config)

\* The Depot was changed at most once after its creation, so that no platform
\* was taken away and given back.
OneChange == dbudget["edit"] + 1 >= DepotBudget["edit"]

\* Once everything rests, the Versions of a Provider are the listed versions on
\* the configured platforms and none is terminating, as long as no Version that
\* was removed is asked for again: the operator is patient, or there was hardly
\* an edit.
VersionsMatchProvider ==
    AllRest /\ (PatientOperator \/ OneChange) =>
        \A n \in {m \in Provider : resource[m].exists} :
            /\ {k \in Key : k[1] = n /\ version[k].exists} = Desired(n, resource[n])
            /\ \A k \in Desired(n, resource[n]) : ~version[k].deleting

\* The history limit never removes a Version among the newest releases on
\* offer, whatever list the trimming started from: a Version goes away only
\* with its platform or because it is old.
NewestKept ==
    [][ \A k \in Key :
          /\ version[k].exists /\ ~version[k].deleting
          /\ ~version'[k].exists \/ version'[k].deleting
          => LET c == resource[k[1]].config
             IN  \/ k[2] \notin Newest(Offered(k[1]), c.limit)
                 \/ k[3] \notin plocal.provider.config.platforms ]_supplyVars

\* A release that passes the constraints reaches its Versions in the end, even
\* though trimming may overwrite the list the Depot just wrote.
ReleaseArrives ==
    \A n \in Provider : \A v \in Number :
        <>[]( LET c == resource[n].config IN
              /\ resource[n].exists /\ depot.exists
              /\ \E i \in DOMAIN depot.spec.providers : depot.spec.providers[i].name = n
              /\ \A i \in DOMAIN Configs(depot.spec) : Configs(depot.spec)[i].valid
              /\ c.limit <= Cardinality(Offered(n))
              /\ v \in (IF c.limit = 0 THEN Offered(n) ELSE Newest(Offered(n), c.limit))
              => \A p \in c.platforms : version[<<n, v, p>>].exists )

-----------------------------------------------------------------------------
\* The inductive invariant behind DepotApplied and NothingStale

OwnedVersion == [exists : BOOLEAN, finalizer : BOOLEAN, deleting : BOOLEAN, queued : BOOLEAN,
                 config : DepotConfig \cup {Unset}]

DepotLocal == [todo : Seq(DepotConfig), page : Nat, matched : SUBSET Number, found : BOOLEAN,
               managed : Seq(Resource)]

\* A resource that exists was written by the Depot controller.
ResourceOK(n, r) ==
    /\ DOMAIN r = DOMAIN NoResource
    /\ r.exists \in BOOLEAN /\ r.forceSync \in BOOLEAN /\ r.synced \in BOOLEAN
    /\ r.versions \subseteq Number
    /\ IF r.exists THEN r.config \in DepotConfig /\ r.config.name = n ELSE r = NoResource

\* Every variable has its type.
SupplyTypeOK ==
    /\ depot \in [exists : BOOLEAN, spec : DepotSpec, status : Seq(Resource)]
    /\ DOMAIN resource = Resource /\ \A n \in Resource : ResourceOK(n, resource[n])
    /\ releases \in [Resource -> Seq(Tag)]
    /\ dqueue \in BOOLEAN
    /\ dpc \in {"idle", "list", "get", "write", "status"}
    /\ dlocal \in DepotLocal
    /\ dbudget \in [DepotEvent -> Nat]
    /\ version \in [Key -> OwnedVersion]
    /\ pqueue \subseteq Provider
    /\ ppc \in {"idle", "trim", "loop", "write", "reset", "status", "removals", "delete"}
    /\ DOMAIN plocal = DOMAIN PIdle
    /\ plocal.keep \subseteq Number /\ plocal.object \in OwnedVersion
    /\ plocal.todo \subseteq plocal.desired /\ plocal.doomed \subseteq Key
    /\ plocal.desired \subseteq {plocal.name} \X Number \X Platform

\* A worker has something to do, and it works on a resource that exists.
WorkersBusy ==
    /\ dpc \in {"list", "get", "write"} => dlocal.todo # <<>>
    /\ dpc = "status" => dlocal.todo = <<>>
    /\ ppc # "idle" => /\ plocal.name \in Provider /\ resource[plocal.name].exists
                       /\ ResourceOK(plocal.name, plocal.provider) /\ plocal.provider.exists
    /\ ppc = "write" => plocal.todo # {}
    /\ ppc = "delete" => plocal.doomed # {}

\* A round of the Depot controller that no edit has overtaken has the configs
\* up to some place behind it, and they are in the resources.
DepotProgress ==
    dpc # "idle" /\ ~dqueue /\ depot.exists =>
        LET c == Configs(depot.spec)
            k == Len(dlocal.managed)
        IN  /\ Len(c) = k + Len(dlocal.todo)
            /\ \A i \in 1..Len(dlocal.todo) : dlocal.todo[i] = c[k + i]
            /\ \A i \in 1..k : dlocal.managed[i] = c[i].name
            /\ Carried(c, k)

\* A reconcile of a Provider that no change has overtaken asks for the right
\* Versions, and from the listing on knows of every other one.
ProviderProgress ==
    ppc \notin {"idle", "trim"} /\ plocal.name \notin pqueue =>
        /\ plocal.desired = Desired(plocal.name, resource[plocal.name])
        /\ ppc = "delete" /\ LabelOf[plocal.name] = plocal.name =>
               Lasting(plocal.name) \subseteq plocal.desired \cup plocal.doomed

\* Both controllers, between any two steps, are on the way to what they owe.
SupplyInv ==
    /\ SupplyTypeOK /\ WorkersBusy
    /\ DepotProgress /\ DepotApplied
    /\ ProviderProgress /\ NothingStale

-----------------------------------------------------------------------------
\* The inductive invariant behind VersionsMatchProvider and NewestKept, as long
\* as the operator is patient

\* Every Provider is labelled with its own name, and a Depot has one config for it.
OwnLabels == \A n \in Provider : LabelOf[n] = n

OneConfigEach ==
    \A spec \in DepotSpecs \cup {Depot0} : \A i, j \in DOMAIN Configs(spec) :
        Configs(spec)[i].name = Configs(spec)[j].name => i = j

\* The worker reconciles a Provider.
Working(n) == ppc # "idle" /\ plocal.name = n

Owned(n) == {k \in Key : k[1] = n /\ version[k].exists}

Published(n) == {TagNumber[releases[n][i]] : i \in DOMAIN releases[n]}

\* The versions anybody downstream of the Depot has heard of.
Known(n) == {k[2] : k \in Owned(n)} \cup resource[n].versions
                \cup {v \in plocal.provider.versions : Working(n)}

\* A list has no room for a version: it has as many newer ones as the limit allows.
Out(v, list, limit)   == limit > 0 /\ Cardinality({w \in list : w > v}) >= limit
Below(v, list, limit) == v \in list \/ Out(v, list, limit)

SameSpec(p, q) == p.config = q.config /\ p.versions = q.versions

\* No edit overtakes the Depot controller.
DepotPatient ==
    /\ depot.spec \in DepotSpecs \cup {Depot0}
    /\ dpc # "idle" => ~dqueue /\ depot.exists

\* A Version that terminates is going to be synced, and its Provider is there.
VersionsOwned ==
    \A k \in Key :
        /\ version[k].exists \/ version[k] = NoVersion
        /\ version[k].exists => resource[k[1]].exists
        /\ version[k].deleting => version[k].queued

\* Lists hold published versions that pass their constraint.
Listed(n) ==
    /\ Known(n) \subseteq Published(n)
    /\ resource[n].exists => resource[n].versions \subseteq resource[n].config.accepts
    /\ Working(n) => plocal.provider.versions \subseteq plocal.provider.config.accepts

\* What the Depot is about to write holds whatever was heard of and still passes.
DepotKnows ==
    dpc \in {"list", "get", "write"} =>
        LET c == Head(dlocal.todo)
        IN  c.name \in Provider =>
            /\ dlocal.matched \subseteq Published(c.name) \cap c.accepts
            /\ dpc # "list" => Known(c.name) \cap c.accepts \subseteq dlocal.matched

\* What a round of the Provider controller knows and has done.
RoundKnows ==
    ppc # "idle" =>
        /\ plocal.name \notin pqueue => SameSpec(plocal.provider, resource[plocal.name])
        /\ ppc = "trim" =>
              /\ Check(plocal.provider) = "trim"
              /\ plocal.keep = ToKeep(plocal.provider.versions, plocal.provider.config.limit)
        /\ ppc # "trim" =>
              /\ Check(plocal.provider) = "loop"
              /\ plocal.desired = Desired(plocal.name, plocal.provider)
              /\ \A k \in plocal.desired \ plocal.todo : version[k].exists /\ ~version[k].deleting
        /\ ppc \notin {"trim", "loop", "write"} => plocal.todo = {}
        /\ ppc = "delete" => \A k \in plocal.doomed : k[1] = plocal.name /\ k \notin plocal.desired

\* The config of the Provider is the one of the Depot.
Agreed(n) ==
    depot.exists => \A i \in DOMAIN Configs(depot.spec) :
        Configs(depot.spec)[i].name = n => resource[n].config = Configs(depot.spec)[i]

\* A Provider has all it asks for and nothing else.
Has(n, asked) == Owned(n) = asked /\ \A k \in asked : ~version[k].deleting

Even(n) ==
    /\ Has(n, Desired(n, resource[n])) /\ Check(resource[n]) = "loop"
    /\ Working(n) => ppc \notin {"trim", "delete"} /\ SameSpec(plocal.provider, resource[n])

\* A Provider waits for an edit to arrive with all it asked for before, and a
\* round that the new config overtakes changes nothing.
Waiting(n) ==
    /\ resource[n].exists => Agreed(n) \/ Even(n)
    /\ Working(n) /\ plocal.provider.config # resource[n].config =>
           Has(n, plocal.desired) /\ ppc \notin {"trim", "delete"}

\* A Version that goes away.
Gone(k) == version[k].deleting \/ (ppc = "delete" /\ k \in plocal.doomed)

\* The lists of a Provider that count: the stored one, and the one of the round if
\* it knows the stored config.
Lists(n) == {resource[n].versions} \cup
            {l \in {plocal.provider.versions} :
                Working(n) /\ plocal.provider.config = resource[n].config}

\* Where a Version is not listed, enough newer ones are, and one that goes away is
\* not going to be asked for again.
Ordered(n) ==
    LET c == resource[n].config IN
    resource[n].exists =>
        \A list \in Lists(n) :
            /\ \A k \in Owned(n) : k[2] \in c.accepts => Below(k[2], list, c.limit)
            /\ \A k \in Key : k[1] = n /\ Gone(k) /\ k[2] \in c.accepts /\ k[3] \in c.platforms =>
                   Out(k[2], list, c.limit)
            /\ \A v \in list : Below(v, resource[n].versions, c.limit)

\* A Provider nobody works on has what it asks for.
Supplied(n) ==
    resource[n].exists /\ n \notin pqueue /\ ~Working(n) =>
        /\ Check(resource[n]) = "loop"
        /\ \A k \in Desired(n, resource[n]) : version[k].exists /\ ~version[k].deleting

OnTheWay(n) == Listed(n) /\ Waiting(n) /\ Ordered(n) /\ Supplied(n)

\* Between two edits, the Versions of every Provider are on the way to its list.
MatchInv ==
    /\ SupplyInv
    /\ DepotPatient /\ VersionsOwned /\ DepotKnows /\ RoundKnows
    /\ \A n \in Provider : OnTheWay(n)
=============================================================================
