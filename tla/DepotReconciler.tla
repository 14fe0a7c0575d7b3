--------------------------- MODULE DepotReconciler ---------------------------
(***************************************************************************)
(* The Depot controller: it looks up the releases upstream publishes for   *)
(* every Module and Provider a Depot configures, writes the ones that pass *)
(* the version constraints into the Module or Provider, and polls.         *)
(* services/depot/internal/controller/opendepot_depot_controller.go        *)
(*                                                                         *)
(* There is one Depot.  A release is its tag; TagNumber gives the version  *)
(* it parses to, and a version constraint is the set of versions it        *)
(* accepts.  An error and a crash are one event: either way the worker     *)
(* forgets what it knows and the Depot is reconciled again.                *)
(***************************************************************************)
EXTENDS Naturals, Sequences, FiniteSets

CONSTANTS
    Module, Provider, \* the names of the resources a Depot may configure
    Platform,         \* the pairs of an operating system and an architecture
    Tag, TagNumber,   \* release tags, and the version of each (0: not semver)
    PageSize,         \* releases per page of the upstream listing
    DepotSpecs,       \* what operators write: [modules, providers, global]
    Depot0,           \* the spec the Depot is created with
    Releases0,        \* the releases published at the start, newest first
    Upcoming,         \* the releases published later, in this order
    Polling,          \* PollingIntervalMinutes is set
    Unset,            \* a nil pointer in a config
    DepotBudget       \* how often each kind of event may happen

DepotEvent == {"edit", "publish", "disturb"}

Resource == Module \cup Provider
Number   == {TagNumber[t] : t \in Tag} \ {0}

Setting == STRING \cup {Unset}

\* ModuleConfig, ProviderConfig: a config that is not valid has a constraint that
\* does not parse, or is a provider without a name.
DepotConfig == [name : Resource, platforms : SUBSET Platform, limit : Nat, accepts : SUBSET (Nat \ {0}),
                storage : Setting, format : Setting, valid : BOOLEAN]

\* DepotSpec
DepotSpec == [modules   : Seq({c \in DepotConfig : c.name \in Module}),
              providers : Seq({c \in DepotConfig : c.name \in Provider}),
              global    : [storage : Setting, format : Setting]]

ASSUME DepotConstants ==
    /\ Module \cap Provider = {}
    /\ TagNumber \in [Tag -> Nat]
    /\ PageSize \in Nat \ {0}
    /\ DepotSpecs \subseteq DepotSpec /\ Depot0 \in DepotSpec
    /\ Releases0 \in [Resource -> Seq(Tag)] /\ Upcoming \in [Resource -> Seq(Tag)]
    /\ DepotBudget \in [DepotEvent -> Nat]

VARIABLES
    depot,      \* API server: the Depot
    resource,   \* API server: the Modules and the Providers
    releases,   \* upstream: the tags published for each, newest first
    dqueue,     \* the Depot waits for the worker
    dpc, dlocal,
    dbudget

depotVars == <<depot, releases, dqueue, dpc, dlocal, dbudget>>

NoResource == [exists |-> FALSE, config |-> Unset, versions |-> {}, forceSync |-> FALSE,
               synced |-> FALSE, latest |-> 0]

\* The configs still to process, the page to ask for, the versions matched so
\* far, whether the resource was found, and the names managed so far.
DIdle == [todo |-> <<>>, page |-> 0, matched |-> {}, found |-> FALSE, managed |-> <<>>]

DepotInit ==
    /\ depot = [exists |-> TRUE, spec |-> Depot0, status |-> <<>>]
    /\ resource = [n \in Resource |-> NoResource]
    /\ releases = Releases0
    /\ dqueue = TRUE
    /\ dpc = "idle"
    /\ dlocal = DIdle
    /\ dbudget = DepotBudget

DSpend(kind) == /\ dbudget[kind] > 0
                /\ dbudget' = [dbudget EXCEPT ![kind] = @ - 1]

\* Reconcile returns.
DReturn(requeue) ==
    /\ dpc' = "idle"
    /\ dlocal' = DIdle
    /\ dqueue' = (dqueue \/ requeue)

-----------------------------------------------------------------------------
\* What the config does not set comes from the global config: the storage (and
\* the GitHub client) for both kinds, the file format (and the immutability)
\* for modules only.
Effective(config, global) ==
    [config EXCEPT
        !.storage = IF @ = Unset THEN global.storage ELSE @,
        !.format  = IF @ = Unset /\ config.name \in Module THEN global.format ELSE @]

\* Modules first, then providers.
Configs(spec) ==
    [i \in 1..(Len(spec.modules) + Len(spec.providers)) |->
        Effective(IF i <= Len(spec.modules) THEN spec.modules[i]
                  ELSE spec.providers[i - Len(spec.modules)], spec.global)]

DRound(todo) == IF todo = <<>> THEN "status" ELSE "list"

DepotReconcile ==
    /\ dqueue /\ dpc = "idle"
    /\ dqueue' = FALSE
    /\ IF depot.exists
       THEN /\ dlocal' = [DIdle EXCEPT !.todo = Configs(depot.spec)]
            /\ dpc' = DRound(Configs(depot.spec))
       ELSE UNCHANGED <<dpc, dlocal>>
    /\ UNCHANGED <<depot, resource, releases, dbudget>>

\* Releases that parse and pass the constraint; equal versions count once.
Matching(tags, config) == {TagNumber[t] : t \in tags} \cap config.accepts

\* One page of ListReleases; the registry lists a provider in one answer.
Page(n, k) ==
    LET from == IF n \in Module THEN k * PageSize ELSE 0
        to   == IF n \in Module THEN from + PageSize ELSE Len(releases[n])
    IN  {releases[n][i] : i \in {j \in DOMAIN releases[n] : from < j /\ j <= to}}

\* A page of releases is asked for until there is no next page; a release
\* may be published between two pages.
ListReleases ==
    LET c    == Head(dlocal.todo)
        more == c.name \in Module /\ (dlocal.page + 1) * PageSize < Len(releases[c.name])
    IN  /\ dpc = "list" /\ c.valid
        /\ dlocal' = [dlocal EXCEPT !.matched = @ \cup Matching(Page(c.name, dlocal.page), c),
                                    !.page = IF more THEN @ + 1 ELSE 0]
        /\ dpc' = IF more THEN "list" ELSE "get"
        /\ UNCHANGED <<depot, resource, releases, dqueue, dbudget>>

\* A constraint that does not parse, or a provider without a name: the configs
\* after this one are not reached, and neither is the status.
RejectConfig ==
    /\ dpc = "list" /\ ~Head(dlocal.todo).valid
    /\ DReturn(TRUE)
    /\ UNCHANGED <<depot, resource, releases, dbudget>>

GetResource ==
    /\ dpc = "get"
    /\ dlocal' = [dlocal EXCEPT !.found = resource[Head(dlocal.todo).name].exists]
    /\ dpc' = "write"
    /\ UNCHANGED <<depot, resource, releases, dqueue, dbudget>>

\* Mutant: the Update replaces the list of versions only.
Mutant_WrittenList(n) ==
    [resource[n] EXCEPT !.exists = TRUE, !.versions = dlocal.matched,
                        !.config = IF resource[n].exists THEN @ ELSE Head(dlocal.todo)]

\* What the Create or the Update leaves behind: the Update replaces the config
\* and the list of versions on a fresh copy.
Written(n) == [resource[n] EXCEPT !.exists = TRUE, !.config = Head(dlocal.todo),
                                  !.versions = dlocal.matched]

\* The resource appeared or went away since the Get: an error.
WriteResource ==
    LET n == Head(dlocal.todo).name IN
    /\ dpc = "write"
    /\ IF resource[n].exists = dlocal.found
       THEN /\ resource' = [resource EXCEPT ![n] = Written(n)]
            /\ dlocal' = [dlocal EXCEPT !.todo = Tail(@), !.matched = {}, !.found = FALSE,
                                        !.managed = Append(@, n)]
            /\ dpc' = DRound(Tail(dlocal.todo))
            /\ UNCHANGED dqueue
       ELSE DReturn(TRUE) /\ UNCHANGED resource
    /\ UNCHANGED <<depot, releases, dbudget>>

\* Every change of the Depot, its status included, is an event.
DepotStatus ==
    /\ dpc = "status"
    /\ IF depot.exists
       THEN /\ depot' = [depot EXCEPT !.status = dlocal.managed]
            /\ DReturn(depot.status # dlocal.managed)
       ELSE DReturn(TRUE) /\ UNCHANGED depot
    /\ UNCHANGED <<resource, releases, dbudget>>

-----------------------------------------------------------------------------
\* Failures and the environment

DepotInterrupted ==
    /\ dpc # "idle"
    /\ DSpend("disturb")
    /\ DReturn(TRUE)
    /\ UNCHANGED <<depot, resource, releases>>

\* Mutant: the timer is armed only while a status is missing.
Mutant_PollOnce ==
    /\ Polling /\ depot.exists /\ depot.status = <<>> /\ ~dqueue /\ dpc = "idle"
    /\ dqueue' = TRUE
    /\ UNCHANGED <<depot, resource, releases, dpc, dlocal, dbudget>>

\* RequeueAfter of the last successful reconcile.
Poll ==
    /\ Polling /\ depot.exists /\ ~dqueue /\ dpc = "idle"
    /\ dqueue' = TRUE
    /\ UNCHANGED <<depot, resource, releases, dpc, dlocal, dbudget>>

WriteDepot ==
    /\ depot.exists
    /\ DSpend("edit")
    /\ \E spec \in DepotSpecs \ {depot.spec} :
          depot' = [depot EXCEPT !.spec = spec]
    /\ dqueue' = TRUE
    /\ UNCHANGED <<resource, releases, dpc, dlocal>>

\* What the Depot created stays.
RemoveDepot ==
    /\ depot.exists
    /\ DSpend("edit")
    /\ depot' = [depot EXCEPT !.exists = FALSE]
    /\ dqueue' = TRUE
    /\ UNCHANGED <<resource, releases, dpc, dlocal>>

Publish(n) ==
    /\ DSpend("publish")
    /\ \E i \in DOMAIN Upcoming[n] :
          /\ \A j \in DOMAIN releases[n] : releases[n][j] # Upcoming[n][i]
          /\ \A h \in 1..(i-1) : \E j \in DOMAIN releases[n] : releases[n][j] = Upcoming[n][h]
          /\ releases' = [releases EXCEPT ![n] = <<Upcoming[n][i]>> \o @]
    /\ UNCHANGED <<depot, resource, dqueue, dpc, dlocal>>

DepotStep == ListReleases \/ RejectConfig \/ GetResource \/ WriteResource \/ DepotStatus

DepotNext ==
    \/ DepotReconcile \/ DepotStep \/ DepotInterrupted \/ Poll \/ WriteDepot \/ RemoveDepot
    \/ \E n \in Resource : Publish(n)
=============================================================================
