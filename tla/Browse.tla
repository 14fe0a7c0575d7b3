------------------------------- MODULE Browse -------------------------------
(***************************************************************************)
(* Requests of the registry UI while labels, bindings, Versions and scans  *)
(* change.  A request reads the API object by object, so what it answers   *)
(* from is put together from several moments.                              *)
(* services/server/ui_browse.go and the files of BrowseViews               *)
(***************************************************************************)
EXTENDS BrowseViews

CONSTANTS
    Flags,         \* the flags the server is started with
    Credentials,   \* what callers present
    Bindings,      \* the sets of GroupBindings operators may leave behind
    Cluster0,      \* the cluster at the start
    Scans,         \* what a scan may report
    Fresh,         \* Versions that may be added
    EditBudget     \* how often the cluster changes

\* What scans may have reported.
Reports == Scans \cup {None} \cup UNION {{v.source, v.binary} : v \in ToSet(Cluster0.versions) \cup Fresh}

Report == [at : Nat, findings : Seq([id : Nat, pkg : Nat, severity : Severity, exempted : BOOLEAN])]

\* A rule has one severity for a package.  parseTrivyReport (scanner.go) keeps one
\* finding of each rule, package and installed version; only findings without an
\* installed version can meet again under the key of deduplicateFindings.
OneSeverity ==
    \A report \in Reports \ {None} : \A f, g \in ToSet(report.findings) :
        f.id = g.id /\ f.pkg = g.pkg => f.severity = g.severity

VersionName == [v : BOOLEAN, parts : Seq(Int)]

\* A Version has a version, an owner (the resource of its OwnerReference) and
\* the name in its config (ref; 0: none, as a provider's may be); only those of
\* a provider have a platform.
BrowseVersion ==
    {v \in [kind : {"module", "provider"}, ns : Nat, ref : Nat, owner : Nat \ {0},
            version : VersionName, platform : Nat, synced : BOOLEAN,
            failed : BOOLEAN, size : Nat, source : Reports, binary : Reports, contract : Nat,
            readme : Nat, schema : [key : Nat, digest : Nat] \cup {None}] :
        v.version.parts # <<>> /\ (v.kind = "module" => v.platform = 0 /\ v.ref # 0)}

\* GetName, getModuleName: the name in the config, else the name of the resource.
Called(v) == IF v.ref = 0 THEN v.owner ELSE v.ref

\* getModuleVersionName, providerVersionResourceName: what a Version is called
\* by, so that no two have the same.
SameName(v, w) ==
    /\ v.kind = w.kind /\ v.ns = w.ns /\ Called(v) = Called(w)
    /\ v.version.parts = w.version.parts /\ v.platform = w.platform

BrowseResource ==
    [kind : {"module", "provider"}, ns : Nat, name : Nat \ {0}, public : BOOLEAN, synced : BOOLEAN,
     latest : VersionName, backend : STRING, config : Nat, opentofu : BOOLEAN]

Id(r) == <<r.kind, r.ns, r.name>>

ResourcesApart(resources) == \A i, j \in DOMAIN resources : Id(resources[i]) = Id(resources[j]) => i = j

NamedApart(versions) == \A i, j \in DOMAIN versions : SameName(versions[i], versions[j]) => i = j

\* What Tally may count.
Tallies == [live : [Severity -> Nat], exempted : Nat]

ASSUME BrowseConstants ==
    /\ EditBudget \in Nat
    /\ DOMAIN Cluster0 = {"public", "bindings", "resources", "versions", "depots", "maps", "objects",
                          "downloads"}
    /\ Reports \ {None} \subseteq Report
    /\ None \notin BrowseVersion \cup BrowseResource \cup Severity \cup Tallies
    /\ Cluster0.resources \in Seq(BrowseResource) /\ ResourcesApart(Cluster0.resources)
    /\ Cluster0.versions \in Seq(BrowseVersion) /\ NamedApart(Cluster0.versions)
    /\ Fresh \subseteq BrowseVersion

VARIABLES cluster, request, edits

browseVars == <<cluster, request, edits>>

\* What it read so far, what carried the label at some moment since it arrived,
\* and what it shows.
NoRequest == [pc |-> "idle", order |-> "namespaces", caller |-> None,
              read |-> [public |-> {}, resources |-> <<>>],
              namespaces |-> {}, labelled |-> {}, reply |-> {}]

BrowseInit ==
    /\ cluster = Cluster0
    /\ request = NoRequest
    /\ edits = 0

-----------------------------------------------------------------------------
\* A request

Labelled(c) == {Id(r) : r \in {x \in ToSet(c.resources) : x.public}}

\* browseAuthCheck first, whatever the page.  The lists, the details, the
\* findings and the statistics read the namespace before the resource, the
\* contract, the schema and an assembly after it.
Arrive(cred, order) ==
    LET caller == BrowseAuth(Flags, cred, cluster.bindings) IN
    /\ request.pc = "idle" /\ caller.ok
    /\ request' = [NoRequest EXCEPT !.pc = order, !.order = order, !.caller = caller,
                                    !.namespaces = cluster.public, !.labelled = Labelled(cluster)]
    /\ UNCHANGED <<cluster, edits>>

\* Mutant: the labels of the namespaces are the ones of an earlier request.
Mutant_ReadNamespacesCached ==
    /\ request.pc = "namespaces"
    /\ request' = [request EXCEPT !.read.public = Cluster0.public,
                                  !.pc = IF request.order = "namespaces" THEN "resources" ELSE "versions"]
    /\ UNCHANGED <<cluster, edits>>

\* browseListNamespaces, browseGetNamespaceLabels
ReadNamespaces ==
    /\ request.pc = "namespaces"
    /\ request' = [request EXCEPT !.read.public = cluster.public,
                                  !.pc = IF request.order = "namespaces" THEN "resources" ELSE "versions"]
    /\ UNCHANGED <<cluster, edits>>

ReadResources ==
    /\ request.pc = "resources"
    /\ request' = [request EXCEPT !.read.resources = cluster.resources,
                                  !.pc = IF request.order = "resources" THEN "namespaces" ELSE "versions"]
    /\ UNCHANGED <<cluster, edits>>

\* The Versions, and the answer.
Reply ==
    LET c == [cluster EXCEPT !.public = request.read.public, !.resources = request.read.resources] IN
    /\ request.pc = "versions"
    /\ request' = [request EXCEPT !.pc = "done",
                       !.reply = {Id(r) : r \in {x \in ToSet(c.resources) : Shown(c, request.caller, x)}}]
    /\ UNCHANGED <<cluster, edits>>

Finish ==
    /\ request.pc = "done"
    /\ request' = NoRequest
    /\ UNCHANGED <<cluster, edits>>

-----------------------------------------------------------------------------
\* The cluster changes; a request that runs meanwhile may have seen it labelled.

Changed(c) ==
    /\ edits < EditBudget
    /\ edits' = edits + 1
    /\ cluster' = c
    /\ request' = IF request.pc \in {"idle", "done"} THEN request
                  ELSE [request EXCEPT !.namespaces = @ \cup c.public,
                                       !.labelled = @ \cup Labelled(c)]

LabelNamespace(ns) ==
    Changed([cluster EXCEPT !.public = IF ns \in @ THEN @ \ {ns} ELSE @ \cup {ns}])

LabelResource(i) == Changed([cluster EXCEPT !.resources[i].public = ~@])

EditBindings == \E b \in Bindings \ {cluster.bindings} : Changed([cluster EXCEPT !.bindings = b])

\* A module is scanned at its source, a provider version by its binary, too.
Scan(i) ==
    \E s \in Scans :
        \/ Changed([cluster EXCEPT !.versions[i].source = s])
        \/ /\ cluster.versions[i].kind = "provider"
           /\ Changed([cluster EXCEPT !.versions[i].binary = s])

\* A sync that ends, one way or the other.  A Version without a name gets one on
\* the way; one that is synced already may end before that (the fast path).
Sync(i) ==
    LET v == cluster.versions[i] IN
    \E ok \in BOOLEAN, name \in {v.ref, Called(v)} :
        /\ ok /\ ~v.synced => name = Called(v)
        /\ Changed([cluster EXCEPT !.versions[i] =
                       [@ EXCEPT !.synced = ok, !.failed = ~ok, !.ref = name]])

\* The Provider controller writes the config of its resource, which need not
\* have a name, into a Version it finds under the name it computes.
RewriteConfig(i) ==
    LET v == cluster.versions[i] IN
    \E r \in ToSet(cluster.resources) :
        /\ Id(r) = <<"provider", v.ns, v.owner>> /\ v.kind = "provider"
        /\ ConfigName(r) = Called(v) /\ r.config # v.ref
        /\ Changed([cluster EXCEPT !.versions[i] = [@ EXCEPT !.ref = r.config]])

\* The Versions a resource owns.
OwnedBy(versions, kind, ns, name) ==
    Entries(versions, {i \in DOMAIN versions : /\ versions[i].kind = kind
                                               /\ versions[i].ns = ns
                                               /\ versions[i].owner = name})

\* A new Version is listed behind the others, and the status of its owner names
\* the newest at once or later.  The API has one object of a name.
AddVersion(v) ==
    /\ \A w \in ToSet(cluster.versions) : ~SameName(v, w)
    /\ LET versions == Append(cluster.versions, v)
           mine     == OwnedBy(versions, v.kind, v.ns, v.owner)
       IN  \/ Changed([cluster EXCEPT !.versions = versions])
           \/ \E i \in DOMAIN cluster.resources :
                 /\ Id(cluster.resources[i]) = <<v.kind, v.ns, v.owner>>
                 /\ Changed([cluster EXCEPT !.versions = versions,
                                            !.resources[i].latest = Newest(mine).version])

\* A stored document is rewritten or goes away.
RewriteDocument ==
    \/ \E m \in DOMAIN cluster.maps, d \in {0, 9} : Changed([cluster EXCEPT !.maps[m] = d])
    \/ \E o \in DOMAIN cluster.objects, d \in {0, 9} : Changed([cluster EXCEPT !.objects[o] = d])

\* recordDownload, by the name and the spelling the client asked for: a Version
\* without a name is not served.  Prometheus may also have nothing to tell.
CountDownload ==
    \/ \E i \in DOMAIN cluster.versions, v \in BOOLEAN :
          LET w   == cluster.versions[i]
              key == [ns |-> w.ns, kind |-> w.kind, name |-> w.ref, version |-> [w.version EXCEPT !.v = v]]
              n   == IF key \in DOMAIN cluster.downloads THEN cluster.downloads[key] ELSE 0
          IN  w.ref # 0 /\ Changed([cluster EXCEPT !.downloads =
                  [k \in DOMAIN @ \cup {key} |-> IF k = key THEN n + 1 ELSE @[k]]])
    \/ Changed([cluster EXCEPT !.downloads = <<>>])

BrowseNext ==
    \/ \E cred \in Credentials, order \in {"namespaces", "resources"} : Arrive(cred, order)
    \/ ReadNamespaces \/ ReadResources \/ Reply \/ Finish
    \/ \E r \in ToSet(Cluster0.resources) : LabelNamespace(r.ns)
    \/ \E i \in DOMAIN cluster.resources : LabelResource(i)
    \/ EditBindings \/ RewriteDocument \/ CountDownload
    \/ \E i \in DOMAIN cluster.versions : Scan(i) \/ Sync(i) \/ RewriteConfig(i)
    \/ \E v \in Fresh : AddVersion(v)

BrowseSpec == BrowseInit /\ [][BrowseNext]_browseVars

-----------------------------------------------------------------------------
\* Properties

\* Everybody who may ask.
Callers == {c \in {BrowseAuth(Flags, cred, cluster.bindings) : cred \in Credentials} : c.ok}

Everything == [namespaces |-> {}, kinds |-> {"module", "provider"},
               search |-> {r.name : r \in ToSet(cluster.resources)}, synced |-> "any",
               severity |-> None, platforms |-> {v.platform : v \in ToSet(cluster.versions)},
               publicOnly |-> FALSE, by |-> "name", desc |-> FALSE, page |-> 1, size |-> 0]

AllVersions == [search |-> {v.version.parts : v \in ToSet(cluster.versions)}, status |-> "any",
                platforms |-> {}, page |-> 1, size |-> 0]

\* What a request shows to a caller whom no binding helps carried the label
\* during the request, and so did its namespace, even when labels move while
\* it runs: no answer rests on labels from before it arrived.
LabelsRespected ==
    request.pc = "done" /\ ~request.caller.all /\ request.caller.binding = Nobody =>
        \A id \in request.reply : id \in request.labelled /\ id[2] \in request.namespaces

\* Once the status names the newest version of a module and it is scanned, a live
\* finding is counted on the card exactly if it is listed, and the severity filter
\* finds the module by it.
BadgeTells(caller, r) ==
    LET versions == VersionsOf(cluster, "module", r.ns, r.name)
        page     == ScanFindings(cluster, caller, "module", r.ns, r.name, <<>>, <<>>)
        counts   == ModuleCard(cluster, r).counts
        live     == {f.severity : f \in {g \in ToSet(page.source) : ~g.exempted}}
        cards    == Collected(cluster, caller, Everything)
    IN  /\ r.kind = "module" /\ Shown(cluster, caller, r)
        /\ versions # <<>> /\ Newest(versions).source # None
        /\ r.latest.parts \in {<<>>, Newest(versions).version.parts}
        => /\ live = IF counts = None THEN {} ELSE {s \in Severity : counts.live[s] > 0}
           /\ \A s \in Severity :
                 (\E t \in live : t <= s)
                 <=> (\E i \in DOMAIN cards :
                         Id(cards[i]) = Id(r) /\ Passes(cards[i], [Everything EXCEPT !.severity = s]))

\* The badge of a module and the findings page tell the same severities to
\* everybody who may ask.
BadgeAgrees ==
    request.pc = "idle" =>
    \A caller \in Callers : \A r \in ToSet(cluster.resources) : BadgeTells(caller, r)

SumOver(S, f(_)) == MapThenSumSet(f, S)

\* The Versions of the resources of a set: the statistics go by the owner, the
\* pages by the name in the config.
Owned(resources) ==
    {i \in DOMAIN cluster.versions :
        LET v == cluster.versions[i] IN \E r \in resources : Id(r) = <<v.kind, v.ns, v.owner>>}
Named(resources) ==
    {i \in DOMAIN cluster.versions :
        LET v == cluster.versions[i] IN \E r \in resources : Id(r) = <<v.kind, v.ns, v.ref>>}

\* The statistics agree with the pages they summarise.  The graph has the same
\* nodes and the Depots of their list, the menu of namespaces has all that a
\* caller without a binding is shown, the downloads are those of the cards and
\* every Version is in one sync counter.  The Versions counted are those of the
\* version pages but for the ones that name no visible resource or have no
\* visible owner; while there are none of these, the counters and the live
\* findings are those of the pages, with the source scans of providers.
StatsAddUp ==
    request.pc = "idle" =>
    \A caller \in Callers :
        LET s       == Stats(cluster, caller)
            visible == {r \in ToSet(cluster.resources) : Detail(cluster, caller, r.kind, r.ns, r.name).status = 200}
            cards   == Collected(cluster, caller, Everything)
            page(r) == VersionsList(cluster, caller, r.kind, r.ns, r.name, AllVersions)
            live(counts, sev) == IF counts = None THEN 0 ELSE counts.live[sev]
            owned   == Owned(visible)
            named   == Named(visible)
            sources == {i \in owned : cluster.versions[i].kind = "provider"}
        IN  /\ s.modules + s.providers = Cardinality(Graph(cluster, caller).nodes)
            /\ Graph(cluster, caller).depots = ToSet(Depots(cluster, caller))
            /\ ~caller.all /\ caller.binding = Nobody =>
                   {r.ns : r \in visible} \subseteq NamespaceList(cluster)
            /\ s.failed + s.synced + s.unsynced = s.versions
            /\ s.downloads = SumOver(DOMAIN cards, LAMBDA i : cards[i].downloads)
            /\ s.versions + Cardinality(named \ owned)
                  = SumOver(visible, LAMBDA r : page(r).total) + Cardinality(owned \ named)
            /\ owned = named =>
                  /\ s.failed + s.unsynced = SumOver(visible, LAMBDA r :
                        VersionsList(cluster, caller, r.kind, r.ns, r.name,
                                     [AllVersions EXCEPT !.status = "false"]).total)
                  /\ \A sev \in Severity :
                        s.posture.live[sev] =
                            SumOver(visible, LAMBDA r :
                                LET items == page(r).items
                                IN  SumOver(DOMAIN items, LAMBDA i : live(items[i].counts, sev)))
                            + SumOver(sources, LAMBDA i :
                                live(browseScanCounts(Findings(cluster.versions[i].source)), sev))


\* A node of a canvas: a version of a resource.
Node(v) == [kind |-> v.kind, ns |-> v.ns, name |-> v.owner, version |-> v.version.parts]

\* An assembly is built from the documents the UI shows: whatever two nodes it
\* resolves, each document is the one of the contract or the schema page of
\* that version, for the same caller; and it is a document that can be read.
AssemblyAgrees ==
    request.pc = "idle" =>
    \A caller \in Callers : \A i, j \in DOMAIN cluster.versions :
        LET nodes == {Node(cluster.versions[i]), Node(cluster.versions[j])}
            a     == Assembly(cluster, caller, nodes, 2)
        IN  a.status = 200 => \A n \in nodes :
                /\ a.documents[n] # 0
                /\ IF n.kind = "module"
                   THEN LET p == Contract(cluster, caller, n.ns, n.name, n.version)
                        IN  p.status = 200 /\ p.contract = a.documents[n]
                   ELSE LET p == ProviderSchema(cluster, caller, n.ns, n.name, n.version)
                        IN  p.status = 200 /\ p.schema = a.documents[n]

-----------------------------------------------------------------------------
\* The inductive invariant behind LabelsRespected, AssemblyAgrees and BadgeAgrees

BrowseTypeOK ==
    /\ DOMAIN cluster = DOMAIN Cluster0
    /\ cluster.resources \in Seq(BrowseResource)
    /\ cluster.versions \in Seq(BrowseVersion)
    /\ edits \in 0..EditBudget
    /\ DOMAIN request = DOMAIN NoRequest
    /\ DOMAIN request.read = DOMAIN NoRequest.read

\* While a request runs, it knows all labels there are or it read.
LabelsSeen ==
    request.pc \in {"namespaces", "resources", "versions"} =>
        /\ cluster.public \cup request.read.public \subseteq request.namespaces
        /\ Labelled(cluster) \cup Labelled(request.read) \subseteq request.labelled

\* A request answers from labels of its own time only, and no two resources and
\* no two Versions have one name, whatever is scanned, synced, labelled or added
\* meanwhile.
BrowseInv ==
    /\ BrowseTypeOK /\ LabelsSeen /\ LabelsRespected
    /\ NamedApart(cluster.versions) /\ ResourcesApart(cluster.resources)
=============================================================================
